------------------------------ MODULE UpdateNode ------------------------------
(***************************************************************************)
(* The running bootloader: the main thread (src/bootloader/src/main.cpp),  *)
(* the UAVCAN thread with its file download (l_uavcan.hpp) and the boot    *)
(* controller they share (module Bootloader), on a CAN bus with a file     *)
(* server and an operator, across restarts.                                *)
(*                                                                         *)
(* A file is a number of chunks, one per FileRead response, followed by an *)
(* empty response.  The storage is described by the image it began to      *)
(* receive last and the number of its chunks that are there in order, or   *)
(* as garbage once anything is out of place; a complete image is what the  *)
(* CRC check of locateAppDescriptor() accepts.                             *)
(*                                                                         *)
(* Answers may be lost, or come late: after the deadline, in a later       *)
(* download, even after a restart.  Loss is an answer nobody ever handles. *)
(* An answer that CAN repeats comes again at once, with the same data, and *)
(* changes nothing, so answers are not duplicated.                         *)
(***************************************************************************)
EXTENDS Naturals, FiniteSets

CONSTANTS
    Files,      \* the files a server can be asked for
    Images,     \* those that are valid applications
    Chunks,     \* the number of non-empty chunks of each
    NoFile,
    TidMod,     \* number of transfer IDs: 32
    MaxLate,    \* bound on the messages that outlive a restart
    BootDelayTicks, Wrap, NoApp, Free

ASSUME FilesAssumption ==
    /\ Images \subseteq Files /\ NoFile \notin Files /\ NoApp \notin Images
    /\ Chunks \in [Files -> Nat]
    /\ \A f \in Images : Chunks[f] > 0
ASSUME LongestAssumption == \E f \in Files : \A g \in Files : Chunks[g] <= Chunks[f]
ASSUME TidAssumption == TidMod \in Nat \ {0, 1}

VARIABLES
    state_, cached_app_info_, boot_delay_started_at_st_, mutex_, rom, now,
    pc, result, seen,                               \* of the controller
    mpc,                    \* the main thread
    npc,                    \* the UAVCAN thread
    reboot_request_flag,    \* os::isRebootRequested()
    firmware_file,          \* remote_server_node_id_ and firmware_file_path_
    offset,                 \* of download(), in chunks
    file_read_transfer_id_, \* the next transfer ID
    read_result_,           \* the answer, or "pending"
    net,                    \* FileRead requests and answers on their way
    shared,                 \* AppShared: the update the application asks for
    stay                    \* history: told to stay since the restart

blVars == <<state_, cached_app_info_, boot_delay_started_at_st_, mutex_, rom,
            now, pc, result, seen>>
mainVars == <<mpc, reboot_request_flag, shared, stay>>
nodeVars == <<npc, firmware_file, offset, file_read_transfer_id_,
              read_result_, net>>
vars == <<blVars, mainVars, nodeVars>>

-----------------------------------------------------------------------------
(* The controller and its storage.                                         *)

Threads == {"main", "uavcan"}

ASSUME ControllerAssumption ==
    /\ Free \notin Threads
    /\ Wrap \in Nat \ {0} /\ BootDelayTicks \in 0 .. Wrap - 1

MaxChunks == CHOOSE n \in {Chunks[f] : f \in Files} :
                 \A f \in Files : Chunks[f] <= n

\* Garbage stands for everything that is not the beginning of a file.
Garbage == [image |-> NoFile, chunks |-> 0]
Contents == {Garbage} \cup [image : Files, chunks : 1 .. MaxChunks]

Located ==
    [c \in Contents |-> IF c.image \in Images /\ c.chunks = Chunks[c.image]
                        THEN c.image ELSE NoApp]

Bl == INSTANCE Bootloader WITH Apps <- Images

\* What the storage holds after chunk k of file f was programmed.
Programmed(c, f, k) ==
    IF k = 0 \/ c = [image |-> f, chunks |-> k]
    THEN [image |-> f, chunks |-> k + 1] ELSE Garbage

-----------------------------------------------------------------------------
\* A request, and the answer to it, which carries the same transfer ID.  An
\* answer has no offset of its own; here it remembers what it answers.  Era
\* is "past" once the node restarted.
Message == [kind : {"request", "data", "eof", "error"}, tid : 0 .. TidMod - 1,
            file : Files, chunk : 0 .. MaxChunks + 1, era : {"now", "past"}]

Pending == [kind |-> "pending"]

MPC == {"start", "loop", "leaving", "handover", "restarting", "app"}
NPC == {"off", "init", "wait", "upgrade", "request", "await", "sink",
        "write", "pause", "failed", "end", "exited"}

TypeOK ==
    /\ Bl!TypeOK
    /\ mpc \in MPC /\ npc \in NPC
    /\ reboot_request_flag \in BOOLEAN
    /\ firmware_file \in Files \cup {NoFile}
    /\ offset \in 0 .. MaxChunks + 1
    /\ file_read_transfer_id_ \in 0 .. TidMod - 1
    /\ read_result_ \in Message \cup {Pending}
    /\ net \subseteq Message
    /\ shared \in Files \cup {NoFile}
    /\ stay \in BOOLEAN

Init ==
    /\ Bl!Init
    /\ mpc = "start" /\ npc = "off"
    /\ reboot_request_flag = FALSE
    /\ firmware_file = NoFile /\ offset = 0
    /\ file_read_transfer_id_ = 0
    /\ read_result_ = Pending
    /\ net = {}
    /\ shared = NoFile
    /\ stay = FALSE

\* The node and its RAM are gone, or not there yet.
NodeOff ==
    /\ npc' = "off"
    /\ reboot_request_flag' = FALSE
    /\ firmware_file' = NoFile /\ offset' = 0
    /\ file_read_transfer_id_' = 0
    /\ read_result_' = Pending

-----------------------------------------------------------------------------
(* The main thread.                                                        *)

\* Mutation: the application that asked for an update is started all the same.
StartWithoutCancel == UNCHANGED blVars

\* The boot is cancelled if the application asked to stay.
CancelIfAsked ==
    IF shared # NoFile /\ state_ = "BootDelay"
    THEN Bl!CancelBoot("main") ELSE UNCHANGED blVars

\* readAndErase() the AppShared structure, cancel the boot if the application
\* asked to stay, start the UAVCAN thread.
MainStart ==
    /\ mpc = "start"
    /\ mpc' = "loop" /\ npc' = "init"
    /\ shared' = NoFile
    /\ firmware_file' = shared
    /\ stay' = (shared # NoFile)
    /\ CancelIfAsked
    /\ UNCHANGED <<reboot_request_flag, offset, file_read_transfer_id_,
                   read_result_, net>>

\* Mutation: getState() without the expiry of the delay.
StateIsStored(t, s) == mutex_ = Free /\ UNCHANGED blVars /\ s = state_

\* getState() as a thread sees it: its value, after the delay ran out in it.
StateIs(t, s) ==
    /\ mutex_ = Free
    /\ IF Bl!Expired THEN Bl!GetState(t) /\ s = "ReadyToBoot"
                     ELSE UNCHANGED blVars /\ s = state_

\* One round of the main loop; the loop ends when the reboot flag is up.
MainPoll ==
    /\ mpc = "loop"
    /\ ~reboot_request_flag
    /\ \E s \in Bl!State :
          /\ StateIs("main", s)
          /\ mpc' = IF s = "ReadyToBoot" THEN "leaving" ELSE "loop"
    /\ UNCHANGED <<reboot_request_flag, shared, stay, nodeVars>>

\* Mutation: the flag is looked at only once the loop was left for a boot.
MainRestartsLate ==
    /\ mpc = "leaving"
    /\ reboot_request_flag
    /\ mpc' = "restarting"
    /\ UNCHANGED <<blVars, reboot_request_flag, shared, stay, nodeVars>>

\* After the loop: a reboot was requested, possibly since the last getState().
MainRestarts ==
    /\ mpc \in {"loop", "leaving"}
    /\ reboot_request_flag
    /\ mpc' = "restarting"
    /\ UNCHANGED <<blVars, reboot_request_flag, shared, stay, nodeVars>>

\* Otherwise the other components are told to stop, by the same flag, and
\* given 500 ms.
MainHandsOver ==
    /\ mpc = "leaving"
    /\ ~reboot_request_flag
    /\ mpc' = "handover"
    /\ reboot_request_flag' = TRUE
    /\ UNCHANGED <<blVars, shared, stay, nodeVars>>

\* bootApplication(): the bootloader is gone, its node with it, and what is
\* on the bus reaches the application.
BootApplication ==
    /\ mpc = "handover"
    /\ mpc' = "app"
    /\ NodeOff
    /\ net' = {}
    /\ UNCHANGED <<blVars, shared, stay>>

-----------------------------------------------------------------------------
(* The bus: the operator and the file server.                              *)

\* The node handles received frames inside poll(), wherever it is called.
Polling == npc \in {"wait", "await", "pause"}

\* The 1 Hz node status reads the state of the controller.
SendNodeStatus ==
    /\ Polling
    /\ mutex_ = Free
    /\ Bl!GetState("uavcan")
    /\ UNCHANGED <<mainVars, nodeVars>>

\* A BeginFirmwareUpdate request: refused while one is in progress or the
\* application is about to start.
BeginFirmwareUpdate(f) ==
    /\ Polling
    /\ \E s \in Bl!State :
          /\ StateIs("uavcan", s)
          /\ firmware_file' =
                IF \/ s \in {"AppUpgradeInProgress", "ReadyToBoot"}
                   \/ firmware_file # NoFile
                THEN firmware_file ELSE f
    /\ UNCHANGED <<mainVars, npc, offset, file_read_transfer_id_,
                   read_result_, net>>

\* A RestartNode request with the right magic number.
RestartNode ==
    /\ Polling
    /\ reboot_request_flag' = TRUE
    /\ UNCHANGED <<blVars, mpc, shared, stay, nodeVars>>

\* The server answers with the chunk, with the empty one that ends the file,
\* or with an error.
ServerAnswers ==
    \E m \in net :
        /\ m.kind = "request"
        /\ \E k \in {IF m.chunk < Chunks[m.file] THEN "data" ELSE "eof", "error"} :
              net' = (net \ {m}) \cup {[m EXCEPT !.kind = k]}
        /\ UNCHANGED <<blVars, mainVars, npc, firmware_file, offset,
                       file_read_transfer_id_, read_result_>>

\* Mutation: every answer is taken for the one awaited.
AnyAnswer(m) == m.kind # "request"

\* An answer is taken for the one awaited by its transfer ID alone.
AwaitedAnswer(m) == (m.tid + 1) % TidMod = file_read_transfer_id_

\* A FileRead response comes in.
FileReadResponse ==
    \E m \in net :
        /\ Polling
        /\ m.kind # "request"
        /\ net' = net \ {m}
        /\ read_result_' = IF AwaitedAnswer(m) THEN m ELSE read_result_
        /\ UNCHANGED <<blVars, mainVars, npc, firmware_file, offset,
                       file_read_transfer_id_>>

-----------------------------------------------------------------------------
(* The UAVCAN thread.                                                      *)

\* Bit rate detection and node ID allocation are over, or known from the
\* application.
NodeInit ==
    /\ npc = "init"
    /\ npc' = IF reboot_request_flag THEN "exited" ELSE "wait"
    /\ UNCHANGED <<blVars, mainVars, firmware_file, offset,
                   file_read_transfer_id_, read_result_, net>>

\* The wait for an update request ends.
NodeLoop ==
    /\ npc = "wait"
    /\ \/ reboot_request_flag /\ npc' = "exited"
       \/ ~reboot_request_flag /\ firmware_file # NoFile /\ npc' = "upgrade"
    /\ UNCHANGED <<blVars, mainVars, firmware_file, offset,
                   file_read_transfer_id_, read_result_, net>>

\* upgradeApp(): refused when the boot delay ran out in the meantime, and the
\* request that was accepted is forgotten.
UpgradeApp ==
    /\ npc = "upgrade"
    /\ \/ /\ Bl!UpgradeApp("uavcan")
          /\ npc' = "request" /\ offset' = 0
          /\ UNCHANGED firmware_file
       \/ /\ mutex_ = Free
          /\ state_ \in {"ReadyToBoot", "AppUpgradeInProgress"}
          /\ npc' = "wait" /\ firmware_file' = NoFile
          /\ UNCHANGED <<blVars, offset>>
    /\ UNCHANGED <<mainVars, file_read_transfer_id_, read_result_, net>>

\* beginUpgrade() of this backend does nothing and succeeds.
BeginUpgrade ==
    /\ Bl!BeginReturns("uavcan")
    /\ pc'["uavcan"] = "downloading"
    /\ UNCHANGED <<mainVars, nodeVars>>

\* download() returns to upgradeApp().
DownloadReturns(res) ==
    /\ Bl!DownloadReturns("uavcan")
    /\ result'["uavcan"] = res
    /\ npc' = "end"

\* Mutation: a transfer ID that leaves its range.
NextTidUnwrapped == file_read_transfer_id_ + 1

\* canardRequestOrRespond() increments the transfer ID.
NextTid == (file_read_transfer_id_ + 1) % TidMod

\* The top of the download loop: give up if a reboot is requested or the
\* transmit queue is full, else ask for the next chunk.  A message does not
\* outlive the TidMod - 1 requests that follow it, unless a restart comes
\* between.
Request ==
    /\ npc = "request"
    /\ pc["uavcan"] = "downloading"
    /\ \/ /\ DownloadReturns("error")
          /\ UNCHANGED <<file_read_transfer_id_, read_result_, net>>
       \/ /\ ~reboot_request_flag
          /\ npc' = "await"
          /\ read_result_' = Pending
          /\ file_read_transfer_id_' = NextTid
          /\ net' = {m \in net : \/ m.tid # file_read_transfer_id_
                                 \/ m.era = "past"}
                    \cup {[kind |-> "request", tid |-> file_read_transfer_id_,
                           file |-> firmware_file, chunk |-> offset,
                           era |-> "now"]}
          /\ UNCHANGED blVars
    /\ UNCHANGED <<mainVars, firmware_file, offset>>

\* Mutation: the deadline is looked at only when there is an answer.
TimeoutAfterAnswer ==
    /\ npc = "await"
    /\ read_result_ # Pending
    /\ DownloadReturns("error")
    /\ UNCHANGED <<mainVars, firmware_file, offset, file_read_transfer_id_,
                   read_result_, net>>

\* The deadline may pass in the very poll() that brought the answer.
Timeout ==
    /\ npc = "await"
    /\ DownloadReturns("error")
    /\ UNCHANGED <<mainVars, firmware_file, offset, file_read_transfer_id_,
                   read_result_, net>>

\* The answer: an error, the end of the file, or a chunk for the sink.
Answered ==
    /\ npc = "await"
    /\ \/ read_result_.kind = "error" /\ DownloadReturns("error")
       \/ read_result_.kind = "eof" /\ DownloadReturns("ok")
       \/ /\ read_result_.kind = "data"
          /\ Bl!HandleNextDataChunk("uavcan")
          /\ npc' = "sink"
    /\ UNCHANGED <<mainVars, firmware_file, offset, file_read_transfer_id_,
                   read_result_, net>>

\* The backend erases and programs: what arrived is put where the sink
\* stands.  It may fail, and an erasure may take what was written before.
BackendWrite ==
    /\ npc = "sink"
    /\ Bl!BackendStep("uavcan")
    /\ rom' \in {Garbage,
                 IF read_result_.chunk = offset
                 THEN Programmed(rom, read_result_.file, offset) ELSE Garbage}
    /\ npc' = "write"
    /\ UNCHANGED <<mainVars, firmware_file, offset, file_read_transfer_id_,
                   read_result_, net>>

\* handleNextDataChunk() returns; an error aborts the download.  The offset
\* stops counting past the end of every file.
WriteReturns ==
    /\ npc = "write"
    /\ Bl!WriteReturns("uavcan")
    /\ \/ npc' = "failed" /\ UNCHANGED offset
       \/ /\ npc' = "pause"
          /\ offset' = IF offset > MaxChunks THEN offset ELSE offset + 1
    /\ UNCHANGED <<mainVars, firmware_file, file_read_transfer_id_,
                   read_result_, net>>

WriteFailed ==
    /\ npc = "failed"
    /\ DownloadReturns("error")
    /\ UNCHANGED <<mainVars, firmware_file, offset, file_read_transfer_id_,
                   read_result_, net>>

\* The pause that spares the bus is over.
PauseEnds ==
    /\ npc = "pause"
    /\ npc' = "request"
    /\ UNCHANGED <<blVars, mainVars, firmware_file, offset,
                   file_read_transfer_id_, read_result_, net>>

\* endUpgrade() of this backend does nothing; then the check.
Finalize ==
    /\ npc = "end"
    /\ \/ Bl!EndReturns("uavcan") /\ result'["uavcan"] = result["uavcan"]
       \/ Bl!Locate("uavcan")
    /\ UNCHANGED <<mainVars, nodeVars>>

\* The verdict, and the end of the round: ready for another request.
UpgradeEnds ==
    /\ npc = "end"
    /\ Bl!VerifyAppAndUpdateState("uavcan")
    /\ npc' = "wait"
    /\ firmware_file' = NoFile /\ offset' = 0
    /\ stay' = (stay /\ result["uavcan"] = "error")
    /\ UNCHANGED <<mpc, reboot_request_flag, shared, file_read_transfer_id_,
                   read_result_, net>>

-----------------------------------------------------------------------------
(* Restarts.                                                               *)

\* The RAM is lost, except for AppShared; what is on the bus is not.
Restart ==
    /\ Bl!Reset
    /\ mpc' = "start"
    /\ NodeOff
    /\ \E late \in SUBSET net :
          /\ Cardinality(late) <= MaxLate
          /\ net' = {[m EXCEPT !.era = "past"] : m \in late}
    /\ stay' = FALSE

\* The watchdog, an assertion, or restart() at the end of main().
WatchdogReset == Restart /\ UNCHANGED shared

\* A power cycle also loses what the application had left.
PowerCycle == Restart /\ shared' = NoFile

\* The running application is asked to update itself: it leaves the request
\* in AppShared and restarts.
AppRequestsUpdate(f) == mpc = "app" /\ Restart /\ shared' = f

Tick == Bl!Tick /\ UNCHANGED <<mainVars, nodeVars>>

MainStep == MainStart \/ MainPoll \/ MainRestarts \/ MainHandsOver

NodeStep ==
    \/ NodeInit \/ NodeLoop \/ UpgradeApp \/ BeginUpgrade \/ Request
    \/ Timeout \/ Answered \/ BackendWrite \/ WriteReturns
    \/ WriteFailed \/ PauseEnds \/ Finalize \/ UpgradeEnds

Environment ==
    \/ \E f \in Files : BeginFirmwareUpdate(f) \/ AppRequestsUpdate(f)
    \/ SendNodeStatus \/ RestartNode
    \/ ServerAnswers \/ FileReadResponse
    \/ WatchdogReset \/ PowerCycle

Next == MainStep \/ NodeStep \/ BootApplication \/ Environment \/ Tick

Spec == Init /\ [][Next]_vars

\* The threads are scheduled; the UAVCAN thread has the higher priority but
\* blocks for frames.  The main loop looks every 100 ms, much more often
\* than the wrap of the clock hides that the delay ran out.  restart() works.
Fairness ==
    /\ WF_vars(MainStep) /\ WF_vars(NodeStep) /\ WF_vars(BootApplication)
    /\ WF_vars(Tick)
    /\ SF_vars(Bl!Expired /\ MainPoll)
    /\ WF_vars(mpc = "restarting" /\ WatchdogReset)

FairSpec == Spec /\ Fairness

-----------------------------------------------------------------------------
(* Safety.                                                                 *)

Booting == mpc \in {"leaving", "handover", "app"}

\* From the moment the main thread reads ReadyToBoot to the jump into the
\* application, half a second later, the storage holds a valid image: what
\* main() read is still true when it acts on it, whatever requests the other
\* thread accepts in between (main.cpp:127-174, l_uavcan.hpp:1018-1052).
BootedAppIsValid ==
    Booting => /\ Located[rom] # NoApp
               /\ state_ = "ReadyToBoot"
               /\ pc["uavcan"] = "idle"

\* An application that asked for an update is not started again before an
\* upgrade succeeded or the device restarted (main.cpp:88-91).
StayIsHonored == stay => ~Booting

\* The sink is only fed with the chunk of the file that is being downloaded
\* at the position it has reached, though answers are matched by nothing but
\* a 5-bit transfer ID and may come long after their deadline; and a
\* download reports success only at the end of that file.  Only an answer to
\* a request sent before a restart can be mistaken, since the transfer IDs
\* start again (l_uavcan.hpp:746-862, 1073-1091).
DownloadIsTheFile ==
    /\ npc = "sink" =>
          \/ read_result_.era = "past"
          \/ read_result_.file = firmware_file /\ read_result_.chunk = offset
    /\ npc = "end" /\ pc["uavcan"] = "ending" /\ result["uavcan"] = "ok" =>
          \/ read_result_.era = "past"
          \/ offset >= Chunks[firmware_file]

-----------------------------------------------------------------------------
(* Liveness.                                                               *)

\* A download always ends, and the node listens for requests again, however
\* many answers are lost or late (l_uavcan.hpp:681-740, 792-805).
DownloadEnds ==
    npc \in {"request", "await", "sink", "write", "pause", "failed", "end"}
        ~> npc \in {"wait", "exited", "off"}

\* A valid application that nobody replaces is started, although the 16-bit
\* clock makes an expired delay look young again (bootloader.cpp:203-208).
ValidAppBoots ==
    mpc = "loop" /\ state_ = "BootDelay" ~>
        mpc # "loop" \/ state_ = "AppUpgradeInProgress"

\* A requested reboot happens, or the application is started
\* (main.cpp:123, 148-158).
RebootHappens == reboot_request_flag ~> mpc \in {"start", "app"}
===============================================================================
