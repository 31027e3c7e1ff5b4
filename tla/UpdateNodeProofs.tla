-------------------------- MODULE UpdateNodeProofs --------------------------
(***************************************************************************)
(* Theorems about the running bootloader, for any files, any number of     *)
(* transfer IDs from two, any number of messages that outlive a restart    *)
(* and any clock.                                                          *)
(*                                                                         *)
(* Both threads use the controller only through its methods, so that every *)
(* behaviour is one of the controller and its invariant holds here too.    *)
(* BootInv adds what main() knows of the state after it left its loop, and *)
(* FileInv what the answers on their way are about.                        *)
(***************************************************************************)
EXTENDS UpdateNode, TLAPS

BlProofs == INSTANCE BootloaderProofs WITH Apps <- Images

-----------------------------------------------------------------------------
(* The controller in the composition.                                      *)

\* What the check finds is a function of the contents (bootloader.cpp:162).
LEMMA LocatedType == Located \in [Contents -> Images \cup {NoApp}]
  BY DEF Located

\* The controller of this composition is the one the theorems are about.
LEMMA SameInit == Bl!Init <=> BlProofs!Init
  BY DEF Bl!Init, BlProofs!Init, Bl!Ticks, BlProofs!Ticks

LEMMA SameNext == [Bl!Next]_(Bl!vars) <=> [BlProofs!Next]_(BlProofs!vars)
<1>1. Bl!Next <=> BlProofs!Next
  BY Zenon DEF Bl!Next, Bl!Call, Bl!UpgradeStep, Bl!GetState,
    Bl!CancelBoot, Bl!RequestBoot, Bl!UpgradeApp, Bl!Prepare,
    Bl!UpgradeableStates, Bl!HandleNextDataChunk, Bl!BackendStep,
    Bl!BeginReturns, Bl!WriteReturns, Bl!DownloadReturns, Bl!EndReturns,
    Bl!Locate, Bl!VerifyAppAndUpdateState, Bl!Publish, Bl!UpdateState,
    Bl!Goto, Bl!ram, Bl!locals, Bl!Expired, Bl!Elapsed, Bl!Tick, Bl!Reset,
    Bl!Ticks, BlProofs!Next, BlProofs!Call, BlProofs!UpgradeStep,
    BlProofs!GetState, BlProofs!CancelBoot, BlProofs!RequestBoot,
    BlProofs!UpgradeApp, BlProofs!Prepare, BlProofs!UpgradeableStates,
    BlProofs!HandleNextDataChunk, BlProofs!BackendStep,
    BlProofs!BeginReturns, BlProofs!WriteReturns,
    BlProofs!DownloadReturns, BlProofs!EndReturns, BlProofs!Locate,
    BlProofs!VerifyAppAndUpdateState, BlProofs!Publish,
    BlProofs!UpdateState, BlProofs!Goto, BlProofs!ram, BlProofs!locals,
    BlProofs!Expired, BlProofs!Elapsed, BlProofs!Tick, BlProofs!Reset,
    BlProofs!Ticks
<1>2. Bl!vars = BlProofs!vars
  BY DEF Bl!vars, BlProofs!vars
<1>3. (UNCHANGED Bl!vars) <=> (UNCHANGED BlProofs!vars)
  BY DEF Bl!vars, BlProofs!vars
<1>. QED  BY <1>1, <1>3

LEMMA SameInv == BlProofs!Inv <=> Bl!Inv
  BY DEF Bl!Inv, Bl!TypeOK, Bl!MutexInv, Bl!UpgradeIsExclusive,
    Bl!UpgradeInv, Bl!IdleInv, Bl!Holding, Bl!Bootable, Bl!State, Bl!PC,
    Bl!Ticks, BlProofs!Inv, BlProofs!TypeOK, BlProofs!MutexInv,
    BlProofs!UpgradeIsExclusive, BlProofs!UpgradeInv, BlProofs!IdleInv,
    BlProofs!Holding, BlProofs!Bootable, BlProofs!State, BlProofs!PC,
    BlProofs!Ticks

\* The inductive invariant of the controller holds of every controller whose
\* constants are those of this composition (bootloader.cpp:162-351).
LEMMA ControllerInvariance == Bl!Spec => []Bl!Inv
<1>1. BlProofs!Spec => []BlProofs!Inv
  BY BlProofs!Invariance, LocatedType, FilesAssumption, ControllerAssumption
     DEF BlProofs!LocatedAssumption, BlProofs!NoAppAssumption,
         BlProofs!FreeAssumption, BlProofs!WrapAssumption,
         BlProofs!DelayAssumption
<1>. QED
  BY <1>1, SameInit, SameNext, SameInv, PTL DEF Bl!Spec, BlProofs!Spec

\* The actions of either thread on the controller are its own.
LEMMA CallIsStep ==
  ASSUME NEW t \in Threads, Bl!Call(t) \/ Bl!UpgradeStep(t)
  PROVE  Bl!Next
  BY DEF Bl!Next

\* What a thread does to look at the state is a step of the controller.
LEMMA LookIsStep ==
  ASSUME NEW t \in Threads, NEW s, StateIs(t, s)
  PROVE  Bl!Next \/ UNCHANGED blVars
  BY CallIsStep DEF StateIs, Bl!Call

LEMMA NodeStepIsStep == NodeStep => Bl!Next \/ UNCHANGED blVars
<1>. SUFFICES ASSUME NodeStep
              PROVE  \/ Bl!Call("uavcan") \/ Bl!UpgradeStep("uavcan")
                     \/ UNCHANGED blVars
  BY CallIsStep DEF Threads
<1>1. CASE NodeInit \/ NodeLoop \/ PauseEnds
  BY <1>1 DEF NodeInit, NodeLoop, PauseEnds
<1>2. CASE UpgradeApp
  BY <1>2 DEF UpgradeApp, Bl!Call
<1>3. CASE BeginUpgrade
  BY <1>3 DEF BeginUpgrade, Bl!UpgradeStep
<1>4. CASE Request \/ Timeout \/ WriteFailed
  BY <1>4 DEF Request, Timeout, WriteFailed, DownloadReturns, Bl!UpgradeStep
<1>5. CASE Answered
  BY <1>5 DEF Answered, DownloadReturns, Bl!UpgradeStep, Bl!Call
<1>6. CASE BackendWrite
  BY <1>6 DEF BackendWrite, Bl!Call
<1>7. CASE WriteReturns \/ Finalize \/ UpgradeEnds
  BY <1>7 DEF WriteReturns, Finalize, UpgradeEnds, Bl!UpgradeStep
<1>. QED
  BY <1>1, <1>2, <1>3, <1>4, <1>5, <1>6, <1>7 DEF NodeStep

\* Neither thread touches the controller except through its methods: every
\* behaviour of the bootloader is one of the controller (main.cpp:84-174,
\* l_uavcan.hpp:681-862, 946-1091).
THEOREM UsesController == Spec => Bl!Spec
<1>1. Init => Bl!Init
  BY DEF Init
<1>2. [Next]_vars => [Bl!Next]_(Bl!vars)
  <2>. SUFFICES ASSUME [Next]_vars
                PROVE  Bl!Next \/ UNCHANGED blVars
    BY DEF blVars, Bl!vars
  <2>1. CASE MainStart
    BY <2>1, CallIsStep DEF MainStart, CancelIfAsked, Bl!Call, Threads
  <2>2. CASE MainPoll
    BY <2>2, LookIsStep DEF MainPoll, Threads
  <2>3. CASE MainRestarts \/ MainHandsOver \/ BootApplication
    BY <2>3 DEF MainRestarts, MainHandsOver, BootApplication
  <2>4. CASE NodeStep
    BY <2>4, NodeStepIsStep
  <2>5. CASE \E f \in Files : BeginFirmwareUpdate(f)
    BY <2>5, LookIsStep DEF BeginFirmwareUpdate, Threads
  <2>6. CASE \/ \E f \in Files : AppRequestsUpdate(f)
             \/ WatchdogReset \/ PowerCycle
    BY <2>6 DEF AppRequestsUpdate, WatchdogReset, PowerCycle, Restart, Bl!Next
  <2>7. CASE SendNodeStatus
    BY <2>7, CallIsStep DEF SendNodeStatus, Bl!Call, Threads
  <2>8. CASE RestartNode \/ ServerAnswers \/ FileReadResponse
    BY <2>8 DEF RestartNode, ServerAnswers, FileReadResponse
  <2>9. CASE Tick
    BY <2>9 DEF Tick, Bl!Next
  <2>10. CASE UNCHANGED vars
    BY <2>10 DEF vars
  <2>. QED
    BY <2>1, <2>2, <2>3, <2>4, <2>5, <2>6, <2>7, <2>8, <2>9, <2>10
       DEF Next, MainStep, Environment
<1>. QED  BY <1>1, <1>2, PTL DEF Spec, Bl!Spec

-----------------------------------------------------------------------------
(* Booting.                                                                *)

\* Until main() has read AppShared nobody else runs.
StartInv ==
    mpc = "start" => /\ npc = "off"
                     /\ pc["uavcan"] = "idle"
                     /\ state_ \in {"BootDelay", "NoAppToBoot"}

\* What main() read is still true when it acts on it, and an application that
\* asked to stay finds no state from which it would be started.
BootInv ==
    /\ Booting => state_ = "ReadyToBoot"
    /\ stay => ~Booting /\ state_ \notin {"BootDelay", "ReadyToBoot"}

\* No upgrade is under way in a state that lets the application start.
LEMMA ReadyIsIdle ==
  ASSUME Bl!Inv, state_ \in {"BootDelay", "ReadyToBoot"}
  PROVE  pc["uavcan"] = "idle" /\ Located[rom] # NoApp
<1>1. \A t \in Threads : pc[t] = "idle"
  BY DEF Bl!Inv, Bl!UpgradeInv, Bl!Bootable
<1>. QED  BY <1>1 DEF Bl!Inv, Bl!IdleInv, Threads

\* main() of the bootloader (main.cpp:84-174).
LEMMA MainBoots ==
  ASSUME StartInv, BootInv, MainStep
  PROVE  StartInv' /\ BootInv'
<1>1. CASE MainStart
  BY <1>1 DEF MainStart, CancelIfAsked, Bl!CancelBoot, blVars, StartInv,
              BootInv, Booting
<1>2. CASE MainPoll
  <2>1. PICK s \in Bl!State :
          /\ StateIs("main", s)
          /\ mpc' = IF s = "ReadyToBoot" THEN "leaving" ELSE "loop"
    BY <1>2 DEF MainPoll
  <2>2. mpc = "loop" /\ UNCHANGED <<npc, stay>>
    BY <1>2 DEF MainPoll, nodeVars
  <2>3. CASE Bl!Expired
    <3>1. state_ = "BootDelay" /\ state_' = "ReadyToBoot"
      BY <2>1, <2>3 DEF StateIs, Bl!Expired, Bl!GetState
    <3>. QED  BY <2>1, <2>2, <3>1 DEF StartInv, BootInv, Booting
  <2>4. CASE ~Bl!Expired
    <3>1. state_' = state_ /\ s = state_
      BY <2>1, <2>4 DEF StateIs, blVars
    <3>. QED  BY <2>1, <2>2, <3>1 DEF StartInv, BootInv, Booting
  <2>. QED  BY <2>3, <2>4
<1>3. CASE MainRestarts \/ MainHandsOver
  BY <1>3 DEF MainRestarts, MainHandsOver, blVars, nodeVars, StartInv,
              BootInv, Booting
<1>. QED  BY <1>1, <1>2, <1>3 DEF MainStep

\* A restart takes the device to the start of main() (main.cpp:70-84).
LEMMA RestartBoots == Restart => StartInv' /\ BootInv'
  BY DEF Restart, NodeOff, Bl!Reset, Threads, StartInv, BootInv, Booting

\* The thread that upgrades starts only after main() has read AppShared, and
\* an upgrade that failed is not followed by a boot (l_uavcan.hpp:681-740).
LEMMA NodeBoots ==
  ASSUME Bl!Inv, StartInv, BootInv, NodeStep
  PROVE  StartInv' /\ BootInv'
<1>0. mpc # "start"
  BY DEF StartInv, NodeStep, NodeInit, NodeLoop, UpgradeApp, BeginUpgrade,
         Bl!BeginReturns, Request, Timeout, Answered, BackendWrite,
         WriteReturns, WriteFailed, PauseEnds, Finalize, UpgradeEnds
<1>1. UNCHANGED mpc
  BY DEF mainVars, NodeStep, NodeInit, NodeLoop, UpgradeApp, BeginUpgrade,
         Request, Timeout, Answered, BackendWrite, WriteReturns,
         WriteFailed, PauseEnds, Finalize, UpgradeEnds
<1>2. CASE pc["uavcan"] = "idle" /\ ~UpgradeApp
  <2>1. UNCHANGED <<state_, stay>>
    BY <1>2 DEF mainVars, blVars, NodeStep, NodeInit, NodeLoop,
       BeginUpgrade, Bl!BeginReturns, Request, Timeout, WriteFailed,
       DownloadReturns, Bl!DownloadReturns, Answered,
       Bl!HandleNextDataChunk, BackendWrite, Bl!BackendStep, WriteReturns,
       Bl!WriteReturns, PauseEnds, Finalize, Bl!EndReturns, Bl!Locate,
       UpgradeEnds, Bl!VerifyAppAndUpdateState, Bl!Publish
  <2>. QED  BY <1>0, <1>1, <2>1 DEF StartInv, BootInv, Booting
<1>3. CASE UpgradeApp
  BY <1>0, <1>1, <1>3 DEF UpgradeApp, Bl!UpgradeApp, Bl!Prepare,
     Bl!UpgradeableStates, mainVars, blVars, StartInv, BootInv, Booting
<1>4. CASE pc["uavcan"] # "idle" /\ UpgradeEnds
  <2>1. ~Booting
    BY <1>4, ReadyIsIdle DEF BootInv
  <2>2. stay' => state_' \notin {"BootDelay", "ReadyToBoot"}
    BY <1>4 DEF UpgradeEnds, Bl!VerifyAppAndUpdateState, Bl!Publish,
                Bl!UpdateState
  <2>. QED  BY <1>0, <1>1, <2>1, <2>2 DEF StartInv, BootInv, Booting
<1>5. CASE pc["uavcan"] # "idle" /\ ~UpgradeApp /\ ~UpgradeEnds
  <2>1. ~Booting
    BY <1>5, ReadyIsIdle DEF BootInv
  <2>2. state_' \in {state_, "NoAppToBoot"} /\ UNCHANGED stay
    BY <1>5 DEF mainVars, blVars, NodeStep, NodeInit, NodeLoop,
       BeginUpgrade, Bl!BeginReturns, Bl!ram, Request, Timeout, WriteFailed,
       DownloadReturns, Bl!DownloadReturns, Answered,
       Bl!HandleNextDataChunk, BackendWrite, Bl!BackendStep, WriteReturns,
       Bl!WriteReturns, PauseEnds, Finalize, Bl!EndReturns, Bl!Locate
  <2>. QED  BY <1>0, <1>1, <2>1, <2>2 DEF StartInv, BootInv, Booting
<1>. QED  BY <1>2, <1>3, <1>4, <1>5

\* Requests that come in while main() boots change nothing of it
\* (main.cpp:127-174, l_uavcan.hpp:1018-1052).
LEMMA EnvironmentBoots ==
  ASSUME StartInv, BootInv, Environment
  PROVE  StartInv' /\ BootInv'
<1>1. ASSUME NEW f \in Files, BeginFirmwareUpdate(f)
      PROVE  StartInv' /\ BootInv'
  <2>1. UNCHANGED <<mpc, stay, npc>> /\ npc # "off"
    BY <1>1 DEF BeginFirmwareUpdate, Polling, mainVars
  <2>2. \/ UNCHANGED state_
        \/ state_ = "BootDelay" /\ state_' = "ReadyToBoot"
    BY <1>1 DEF BeginFirmwareUpdate, StateIs, Bl!GetState, Bl!Expired, blVars
  <2>. QED  BY <2>1, <2>2 DEF StartInv, BootInv, Booting
<1>2. CASE SendNodeStatus
  BY <1>2 DEF SendNodeStatus, Polling, Bl!GetState, Bl!Expired, mainVars,
              nodeVars, StartInv, BootInv, Booting
<1>3. CASE RestartNode \/ ServerAnswers \/ FileReadResponse
  BY <1>3 DEF RestartNode, ServerAnswers, FileReadResponse, blVars, mainVars,
              nodeVars, StartInv, BootInv, Booting
<1>4. CASE \/ \E f \in Files : AppRequestsUpdate(f)
           \/ WatchdogReset \/ PowerCycle
  BY <1>4, RestartBoots DEF AppRequestsUpdate, WatchdogReset, PowerCycle
<1>. QED  BY <1>1, <1>2, <1>3, <1>4 DEF Environment

LEMMA BootInvariance == Spec => [](StartInv /\ BootInv)
<1>1. Init => StartInv /\ BootInv
  BY DEF Init, Bl!Init, Threads, StartInv, BootInv, Booting
<1>2. Bl!Inv /\ StartInv /\ BootInv /\ [Next]_vars => StartInv' /\ BootInv'
  <2>. SUFFICES ASSUME Bl!Inv, StartInv, BootInv, [Next]_vars
                PROVE  StartInv' /\ BootInv'
    OBVIOUS
  <2>1. CASE BootApplication
    BY <2>1 DEF BootApplication, NodeOff, blVars, StartInv, BootInv, Booting
  <2>2. CASE Tick
    BY <2>2 DEF Tick, Bl!Tick, Bl!ram, Bl!locals, mainVars, nodeVars,
                StartInv, BootInv, Booting
  <2>3. CASE UNCHANGED vars
    BY <2>3 DEF vars, blVars, mainVars, nodeVars, StartInv, BootInv, Booting
  <2>. QED
    BY <2>1, <2>2, <2>3, MainBoots, NodeBoots, EnvironmentBoots DEF Next
<1>. QED
  BY <1>1, <1>2, UsesController, ControllerInvariance, PTL DEF Spec

\* From the moment main() reads ReadyToBoot to the jump into the application
\* the storage holds a valid image (main.cpp:127-174, l_uavcan.hpp:1018-1052).
THEOREM BootSafety == Spec => []BootedAppIsValid
<1>1. Bl!Inv /\ BootInv => BootedAppIsValid
  BY ReadyIsIdle DEF BootInv, BootedAppIsValid
<1>. QED
  BY <1>1, BootInvariance, UsesController, ControllerInvariance, PTL

\* An application that asked for an update is not started before an upgrade
\* succeeded or the device restarted (main.cpp:88-91).
THEOREM StayHonored == Spec => []StayIsHonored
<1>1. BootInv => StayIsHonored
  BY DEF BootInv, StayIsHonored
<1>. QED  BY <1>1, BootInvariance, PTL

-----------------------------------------------------------------------------
(* The file.                                                               *)

\* Between the accepted request and the verdict the file is named.
FileNamed ==
    npc \in {"upgrade", "request", "await", "sink", "write", "pause",
             "failed", "end"}
        => firmware_file # NoFile

\* The chunk the sink waits for.
Sought(m) == m.file = firmware_file /\ m.chunk = offset

\* Only the answer sought, or one from before a restart, can be taken for it.
AnswerInv ==
    /\ \A m \in net : npc = "await" /\ m.era = "now" /\ AwaitedAnswer(m)
                          => Sought(m)
    /\ (npc = "await" /\ read_result_ # Pending) \/ npc = "sink"
           => read_result_.era = "past" \/ Sought(read_result_)
    /\ \A m \in net : m.kind = "eof" => m.chunk >= Chunks[m.file]
    /\ read_result_.kind = "eof"
           => read_result_.chunk >= Chunks[read_result_.file]
    /\ npc = "end" /\ pc["uavcan"] = "ending" /\ result["uavcan"] = "ok"
           => /\ read_result_.kind = "eof"
              /\ read_result_.era = "past" \/ Sought(read_result_)

IInv == TypeOK /\ FileNamed /\ AnswerInv

USE DEF MPC, NPC

LEMMA MaxChunksIsNat == MaxChunks \in Nat
<1>. DEFINE Longest(n) == \A f \in Files : Chunks[f] <= n
            Counts == {Chunks[f] : f \in Files}
<1>1. PICK f \in Files : Longest(Chunks[f])
  BY LongestAssumption
<1>2. \E n \in Counts : Longest(n)
  BY <1>1
<1>3. (CHOOSE n \in Counts : Longest(n)) \in Counts
  BY <1>2, Zenon
<1>4. Counts \subseteq Nat
  BY FilesAssumption
<1>. QED  BY <1>3, <1>4 DEF MaxChunks

\* canardRequestOrRespond() increments the 5-bit transfer ID: an answer is
\* awaited if it carries the one before (l_uavcan.hpp:1075).
LEMMA TidsWrap ==
  ASSUME NEW i \in 0 .. TidMod - 1
  PROVE  (i + 1) % TidMod = IF i = TidMod - 1 THEN 0 ELSE i + 1
  BY TidAssumption

LEMMA TidsDiffer ==
  ASSUME NEW i \in 0 .. TidMod - 1, NEW j \in 0 .. TidMod - 1,
         (i + 1) % TidMod = (j + 1) % TidMod
  PROVE  i = j
<1>1. /\ (i + 1) % TidMod = IF i = TidMod - 1 THEN 0 ELSE i + 1
      /\ (j + 1) % TidMod = IF j = TidMod - 1 THEN 0 ELSE j + 1
  BY TidsWrap
<1>. QED  BY <1>1, TidAssumption

\* main() and the node's life cycle do not touch a download
\* (main.cpp:84-174).
LEMMA MainKeepsFile ==
  ASSUME IInv, Bl!TypeOK', StartInv, MainStep
  PROVE  IInv'
<1>1. CASE MainStart
  <2>1. npc' = "init" /\ firmware_file' = shared
        /\ UNCHANGED <<net, read_result_, offset, file_read_transfer_id_>>
    BY <1>1 DEF MainStart
  <2>2. TypeOK'
    BY <1>1 DEF MainStart, IInv, TypeOK
  <2>. QED
    BY <2>1, <2>2 DEF IInv, FileNamed, AnswerInv
<1>2. CASE MainPoll
  <2>1. UNCHANGED <<nodeVars, reboot_request_flag, shared, stay, pc, result>>
        /\ mpc' \in MPC
    BY <1>2 DEF MainPoll, StateIs, Bl!GetState, Bl!locals, blVars
  <2>. QED
    BY <2>1 DEF nodeVars, IInv, TypeOK, FileNamed, AnswerInv, AwaitedAnswer,
                Sought
<1>3. CASE MainRestarts \/ MainHandsOver
  BY <1>3 DEF MainRestarts, MainHandsOver, nodeVars, blVars, IInv, TypeOK,
              FileNamed, AnswerInv, AwaitedAnswer, Sought
<1>. QED  BY <1>1, <1>2, <1>3 DEF MainStep

\* What outlives a restart is marked as past (l_uavcan.hpp:746-862).
LEMMA RestartKeepsFile ==
  ASSUME IInv, Bl!TypeOK', Restart, shared' \in Files \cup {NoFile}
  PROVE  IInv'
<1>1. PICK late \in SUBSET net : net' = {[m EXCEPT !.era = "past"] : m \in late}
  BY DEF Restart
<1>2. \A m \in net' : /\ m \in Message /\ m.era = "past"
                      /\ m.kind = "eof" => m.chunk >= Chunks[m.file]
  BY <1>1 DEF IInv, TypeOK, Message, AnswerInv
<1>3. /\ npc' = "off" /\ read_result_' = Pending /\ firmware_file' = NoFile
      /\ offset' = 0 /\ file_read_transfer_id_' = 0 /\ mpc' = "start"
      /\ reboot_request_flag' = FALSE /\ stay' = FALSE
  BY DEF Restart, NodeOff
<1>4. TypeOK'
  <2>1. net' \subseteq Message
    BY <1>2
  <2>2. 0 \in 0 .. TidMod - 1 /\ 0 \in 0 .. MaxChunks + 1
    BY MaxChunksIsNat, TidAssumption
  <2>. QED  BY <1>3, <2>1, <2>2 DEF TypeOK
<1>. QED
  BY <1>2, <1>3, <1>4 DEF IInv, FileNamed, AnswerInv, Pending

\* Requests and answers on the bus, taken in inside poll()
\* (l_uavcan.hpp:1018-1091).
LEMMA EnvironmentKeepsFile ==
  ASSUME IInv, Bl!TypeOK', Environment
  PROVE  IInv'
<1>1. ASSUME NEW f \in Files, BeginFirmwareUpdate(f)
      PROVE  IInv'
  <2>1. /\ UNCHANGED <<mainVars, npc, offset, file_read_transfer_id_,
                       read_result_, net, pc, result>>
        /\ firmware_file' \in {f, firmware_file}
        /\ firmware_file # NoFile => firmware_file' = firmware_file
    BY <1>1 DEF BeginFirmwareUpdate, StateIs, Bl!GetState, Bl!locals, blVars
  <2>2. CASE firmware_file # NoFile
    BY <2>1, <2>2 DEF mainVars, IInv, TypeOK, FileNamed, AnswerInv,
                      AwaitedAnswer, Sought
  <2>3. CASE firmware_file = NoFile
    BY <2>1, <2>3, FilesAssumption DEF mainVars, IInv, TypeOK, FileNamed,
       AnswerInv
  <2>. QED  BY <2>2, <2>3
<1>2. CASE SendNodeStatus \/ RestartNode
  <2>1. UNCHANGED <<nodeVars, mpc, shared, stay, pc, result>>
        /\ reboot_request_flag' \in BOOLEAN
    BY <1>2 DEF SendNodeStatus, RestartNode, Bl!GetState, Bl!locals, blVars,
                mainVars, IInv, TypeOK
  <2>. QED
    BY <2>1 DEF nodeVars, IInv, TypeOK, FileNamed, AnswerInv, AwaitedAnswer,
                Sought
<1>3. CASE ServerAnswers
  <2>1. PICK m \in net, k \in {"data", "eof", "error"} :
          /\ net' = (net \ {m}) \cup {[m EXCEPT !.kind = k]}
          /\ k = "eof" => ~(m.chunk < Chunks[m.file])
    BY <1>3 DEF ServerAnswers
  <2>2. UNCHANGED <<blVars, mainVars, npc, firmware_file, offset,
                    file_read_transfer_id_, read_result_>>
    BY <1>3 DEF ServerAnswers
  <2>. DEFINE a == [m EXCEPT !.kind = k]
  <2>3. /\ a \in Message /\ a.kind = k /\ a.tid = m.tid
        /\ a.file = m.file /\ a.chunk = m.chunk /\ a.era = m.era
    BY DEF IInv, TypeOK, Message
  <2>4. k = "eof" => a.chunk >= Chunks[a.file]
    BY <2>1, <2>3, MaxChunksIsNat, FilesAssumption DEF IInv, TypeOK, Message
  <2>. HIDE DEF a
  <2>5. TypeOK'
    BY <2>1, <2>2, <2>3 DEF a, blVars, mainVars, IInv, TypeOK
  <2>6. AnswerInv'
    BY <2>1, <2>2, <2>3, <2>4 DEF a, blVars, mainVars, IInv, AnswerInv,
       AwaitedAnswer, Sought
  <2>. QED  BY <2>2, <2>5, <2>6 DEF IInv, FileNamed
<1>4. CASE FileReadResponse
  <2>1. PICK m \in net :
          /\ net' = net \ {m}
          /\ read_result_' = IF AwaitedAnswer(m) THEN m ELSE read_result_
          /\ npc \in {"wait", "await", "pause"}
    BY <1>4 DEF FileReadResponse, Polling
  <2>2. UNCHANGED <<blVars, mainVars, npc, firmware_file, offset,
                    file_read_transfer_id_>>
    BY <1>4 DEF FileReadResponse
  <2>3. TypeOK' /\ FileNamed'
    BY <2>1, <2>2 DEF blVars, mainVars, IInv, TypeOK, FileNamed
  <2>4. m.era \in {"now", "past"}
    BY DEF IInv, TypeOK, Message
  <2>5. AnswerInv'
    BY <2>1, <2>2, <2>4 DEF blVars, IInv, AnswerInv, AwaitedAnswer, Sought
  <2>. QED  BY <2>3, <2>5 DEF IInv
<1>5. CASE \/ \E f \in Files : AppRequestsUpdate(f)
           \/ WatchdogReset \/ PowerCycle
  <2>1. Restart /\ shared' \in Files \cup {NoFile}
    BY <1>5 DEF AppRequestsUpdate, WatchdogReset, PowerCycle, IInv, TypeOK
  <2>. QED  BY <2>1, RestartKeepsFile
<1>. QED  BY <1>1, <1>2, <1>3, <1>4, <1>5 DEF Environment

\* An answer that was stored while the thread waits is the one it wants.
LEMMA AnswerIsSought ==
  ASSUME AnswerInv, npc = "await", read_result_.kind # "pending"
  PROVE  read_result_.era = "past" \/ Sought(read_result_)
<1>1. read_result_ # Pending
  BY DEF Pending
<1>. QED  BY <1>1 DEF AnswerInv

\* download() returns with an error, or at the end of the file
\* (l_uavcan.hpp:746-862).
LEMMA DownloadEndsKeepsFile ==
  ASSUME IInv, Bl!TypeOK', NEW res \in {"ok", "error"}, DownloadReturns(res),
         npc \in {"request", "await", "failed"},
         res = "ok" => npc = "await" /\ read_result_.kind = "eof",
         UNCHANGED <<mainVars, firmware_file, offset, file_read_transfer_id_,
                     read_result_, net>>
  PROVE  IInv'
<1>1. npc' = "end" /\ result'["uavcan"] = res
  BY DEF DownloadReturns
<1>2. TypeOK'
  BY <1>1 DEF mainVars, IInv, TypeOK
<1>3. FileNamed'
  BY <1>1 DEF IInv, FileNamed
<1>4. res = "ok" => read_result_.era = "past" \/ Sought(read_result_)
  BY AnswerIsSought DEF IInv
<1>5. AnswerInv'
  BY <1>1, <1>4 DEF IInv, AnswerInv, Sought
<1>. QED  BY <1>2, <1>3, <1>5 DEF IInv

\* A request takes a new transfer ID and forgets the answer to the last one;
\* no other message that is newer than a restart carries it
\* (l_uavcan.hpp:765-795).
LEMMA RequestKeepsFile ==
  ASSUME IInv, Bl!TypeOK', Request
  PROVE  IInv'
<1>1. CASE DownloadReturns("error") /\ UNCHANGED <<file_read_transfer_id_,
                                                    read_result_, net>>
  BY <1>1, DownloadEndsKeepsFile DEF Request
<1>2. CASE ~(DownloadReturns("error") /\ UNCHANGED <<file_read_transfer_id_,
                                                      read_result_, net>>)
  <2>. DEFINE tid == file_read_transfer_id_
              r == [kind |-> "request", tid |-> tid, file |-> firmware_file,
                    chunk |-> offset, era |-> "now"]
  <2>1. /\ npc = "request" /\ npc' = "await"
        /\ read_result_' = Pending
        /\ file_read_transfer_id_' = NextTid
        /\ net' = {m \in net : m.tid # tid \/ m.era = "past"} \cup {r}
        /\ UNCHANGED <<blVars, mainVars, firmware_file, offset>>
    BY <1>2 DEF Request
  <2>2. firmware_file \in Files
    BY <2>1 DEF IInv, TypeOK, FileNamed
  <2>3. r \in Message
    BY <2>2 DEF IInv, TypeOK, Message
  <2>4. NextTid \in 0 .. TidMod - 1
    BY TidsWrap, TidAssumption DEF NextTid, IInv, TypeOK
  <2>5. TypeOK'
    BY <2>1, <2>3, <2>4 DEF blVars, mainVars, IInv, TypeOK
  <2>6. FileNamed'
    BY <2>1 DEF IInv, FileNamed
  <2>7. ASSUME NEW m \in net', m.era = "now", AwaitedAnswer(m)'
        PROVE  Sought(m)'
    <3>1. CASE m = r
      BY <2>1, <3>1 DEF Sought
    <3>2. CASE m \in net /\ m.tid # tid
      <4>1. m.tid \in 0 .. TidMod - 1 /\ tid \in 0 .. TidMod - 1
        BY <3>2 DEF IInv, TypeOK, Message
      <4>2. (m.tid + 1) % TidMod = (tid + 1) % TidMod
        BY <2>1, <2>7 DEF AwaitedAnswer, NextTid
      <4>3. m.tid = tid
        BY <4>1, <4>2, TidsDiffer
      <4>. QED  BY <3>2, <4>3
    <3>. QED  BY <2>1, <2>7, <3>1, <3>2
  <2>8. \A m \in net' : m.kind = "eof" => m.chunk >= Chunks[m.file]
    BY <2>1 DEF IInv, AnswerInv
  <2>9. AnswerInv'
    BY <2>1, <2>7, <2>8 DEF AnswerInv, Pending
  <2>. QED  BY <2>5, <2>6, <2>9 DEF IInv
<1>. QED  BY <1>1, <1>2

\* The rest of the UAVCAN thread (l_uavcan.hpp:681-862).
LEMMA NodeKeepsFile ==
  ASSUME Bl!TypeOK, IInv, Bl!TypeOK', NodeStep
  PROVE  IInv'
<1>1. CASE NodeInit \/ NodeLoop
  BY <1>1 DEF NodeInit, NodeLoop, mainVars, blVars, IInv, TypeOK, FileNamed,
              AnswerInv, AwaitedAnswer
<1>2. CASE UpgradeApp
  <2>1. /\ \/ npc' = "request" /\ offset' = 0 /\ UNCHANGED firmware_file
           \/ npc' = "wait" /\ firmware_file' = NoFile /\ UNCHANGED offset
        /\ UNCHANGED <<mainVars, file_read_transfer_id_, read_result_, net>>
    BY <1>2 DEF UpgradeApp
  <2>2. npc = "upgrade"
    BY <1>2 DEF UpgradeApp
  <2>3. TypeOK'
    BY <2>1, MaxChunksIsNat DEF mainVars, IInv, TypeOK
  <2>. QED  BY <2>1, <2>2, <2>3 DEF IInv, FileNamed, AnswerInv
<1>3. CASE BeginUpgrade
  BY <1>3 DEF BeginUpgrade, mainVars, nodeVars, IInv, TypeOK, FileNamed,
              AnswerInv, AwaitedAnswer, Sought
<1>4. CASE Request
  BY <1>4, RequestKeepsFile
<1>5. CASE Timeout \/ WriteFailed
  BY <1>5, DownloadEndsKeepsFile DEF Timeout, WriteFailed
<1>6. CASE Answered
  <2>1. CASE read_result_.kind = "error" /\ DownloadReturns("error")
    BY <1>6, <2>1, DownloadEndsKeepsFile DEF Answered
  <2>2. CASE read_result_.kind = "eof" /\ DownloadReturns("ok")
    BY <1>6, <2>2, DownloadEndsKeepsFile DEF Answered
  <2>3. CASE read_result_.kind = "data" /\ npc' = "sink"
    <3>1. npc = "await" /\ UNCHANGED <<mainVars, firmware_file, offset,
                              file_read_transfer_id_, read_result_, net>>
      BY <1>6 DEF Answered
    <3>2. read_result_.era = "past" \/ Sought(read_result_)
      BY <2>3, <3>1, AnswerIsSought DEF IInv
    <3>. QED
      BY <2>3, <3>1, <3>2 DEF mainVars, IInv, TypeOK, FileNamed, AnswerInv,
                              Sought
  <2>. QED  BY <1>6, <2>1, <2>2, <2>3 DEF Answered
<1>7. CASE BackendWrite \/ PauseEnds
  BY <1>7 DEF BackendWrite, PauseEnds, mainVars, blVars, IInv, TypeOK,
              FileNamed, AnswerInv
<1>8. CASE WriteReturns
  <2>1. /\ npc = "write" /\ npc' \in {"failed", "pause"}
        /\ offset' \in {offset, offset + 1}
        /\ offset' # offset => ~(offset > MaxChunks)
        /\ UNCHANGED <<mainVars, firmware_file, file_read_transfer_id_,
                       read_result_, net>>
    BY <1>8 DEF WriteReturns
  <2>2. offset' \in 0 .. MaxChunks + 1
    BY <2>1, MaxChunksIsNat DEF IInv, TypeOK
  <2>3. TypeOK'
    BY <2>1, <2>2 DEF mainVars, IInv, TypeOK
  <2>. QED  BY <2>1, <2>3 DEF IInv, FileNamed, AnswerInv
<1>9. CASE Finalize
  <2>1. pc'["uavcan"] # "ending"
    BY <1>9 DEF Finalize, Bl!EndReturns, Bl!Locate, Bl!Goto, Bl!TypeOK, Threads
  <2>. QED
    BY <1>9, <2>1 DEF Finalize, mainVars, nodeVars, IInv, TypeOK, FileNamed,
                      AnswerInv
<1>10. CASE UpgradeEnds
  <2>1. /\ npc' = "wait" /\ firmware_file' = NoFile /\ offset' = 0
        /\ stay' \in BOOLEAN
        /\ UNCHANGED <<mpc, reboot_request_flag, shared,
                       file_read_transfer_id_, read_result_, net>>
    BY <1>10 DEF UpgradeEnds, IInv, TypeOK
  <2>2. TypeOK'
    BY <2>1, MaxChunksIsNat DEF IInv, TypeOK
  <2>. QED  BY <2>1, <2>2 DEF IInv, FileNamed, AnswerInv
<1>. QED
  BY <1>1, <1>2, <1>3, <1>4, <1>5, <1>6, <1>7, <1>8, <1>9, <1>10 DEF NodeStep

\* What is known of the answers on their way is known in every state
\* (l_uavcan.hpp:746-862, 1073-1091).
THEOREM AnswerInvariance == Spec => []IInv
<1>1. Bl!Inv => Bl!TypeOK
  BY DEF Bl!Inv
<1>2. Init /\ Bl!TypeOK => IInv
  <2>. SUFFICES ASSUME Init, Bl!TypeOK PROVE IInv
    OBVIOUS
  <2>1. 0 \in 0 .. TidMod - 1 /\ 0 \in 0 .. MaxChunks + 1
    BY MaxChunksIsNat, TidAssumption
  <2>2. TypeOK
    BY <2>1 DEF Init, TypeOK
  <2>. QED  BY <2>2 DEF Init, IInv, FileNamed, AnswerInv, Pending
<1>3. Bl!TypeOK /\ Bl!TypeOK' /\ StartInv /\ IInv /\ [Next]_vars => IInv'
  <2>. SUFFICES ASSUME Bl!TypeOK, Bl!TypeOK', StartInv, IInv, [Next]_vars
                PROVE  IInv'
    OBVIOUS
  <2>1. CASE BootApplication
    <3>1. /\ npc' = "off" /\ mpc' = "app" /\ reboot_request_flag' = FALSE
          /\ firmware_file' = NoFile /\ offset' = 0 /\ net' = {}
          /\ file_read_transfer_id_' = 0 /\ read_result_' = Pending
          /\ UNCHANGED <<shared, stay>>
      BY <2>1 DEF BootApplication, NodeOff
    <3>2. 0 \in 0 .. TidMod - 1 /\ 0 \in 0 .. MaxChunks + 1
      BY MaxChunksIsNat, TidAssumption
    <3>3. TypeOK'
      BY <3>1, <3>2 DEF IInv, TypeOK
    <3>. QED  BY <3>1, <3>3 DEF IInv, FileNamed, AnswerInv, Pending
  <2>2. CASE Tick
    BY <2>2 DEF Tick, Bl!Tick, Bl!locals, mainVars, nodeVars, IInv, TypeOK,
                FileNamed, AnswerInv, AwaitedAnswer, Sought
  <2>3. CASE UNCHANGED vars
    BY <2>3 DEF vars, blVars, mainVars, nodeVars, IInv, TypeOK, FileNamed,
                AnswerInv, AwaitedAnswer, Sought
  <2>. QED
    BY <2>1, <2>2, <2>3, MainKeepsFile, NodeKeepsFile, EnvironmentKeepsFile
       DEF Next
<1>. QED
  BY <1>1, <1>2, <1>3, BootInvariance, UsesController, ControllerInvariance,
     PTL DEF Spec

\* Every variable keeps its range.
THEOREM TypeCorrectness == Spec => []TypeOK
<1>1. IInv => TypeOK
  BY DEF IInv
<1>. QED  BY <1>1, AnswerInvariance, PTL

\* The sink is fed with the file that is being downloaded, in its order, and
\* a download reports success only at its end (l_uavcan.hpp:746-862).
THEOREM DownloadIsOrdered == Spec => []DownloadIsTheFile
<1>1. IInv => DownloadIsTheFile
  <2>. SUFFICES ASSUME IInv PROVE DownloadIsTheFile
    OBVIOUS
  <2>1. npc = "end" /\ pc["uavcan"] = "ending" /\ result["uavcan"] = "ok" =>
          read_result_.era = "past" \/ offset >= Chunks[firmware_file]
    BY DEF IInv, AnswerInv, Sought
  <2>2. npc = "sink" =>
          \/ read_result_.era = "past"
          \/ read_result_.file = firmware_file /\ read_result_.chunk = offset
    BY DEF IInv, AnswerInv, Sought
  <2>. QED  BY <2>1, <2>2 DEF DownloadIsTheFile
<1>. QED  BY <1>1, AnswerInvariance, PTL

=============================================================================
