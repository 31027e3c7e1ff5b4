--------------------------- MODULE BootloaderProofs ---------------------------
(***************************************************************************)
(* Proofs about the boot controller, for every set of threads, every set   *)
(* of storage contents, every check of them and every clock width.         *)
(*                                                                         *)
(* BootableAppIsVerified is not inductive: that the verdict published at   *)
(* the end of an upgrade is about the storage as it is then needs the      *)
(* mutex discipline, the exclusion of a second upgrade and the destruction *)
(* of the cached info at the start.  Inv puts the four together.           *)
(***************************************************************************)
EXTENDS Bootloader, TLAPS

USE LocatedAssumption, NoAppAssumption, FreeAssumption, WrapAssumption

\* The 16-bit clock stays in its range (chVTGetSystemTime()).
LEMMA NextTick == ASSUME NEW n \in Ticks
                  PROVE  (n + 1) % Wrap \in Ticks
  BY DEF Ticks

\* Power-up establishes the inductive invariant (bootloader.cpp:188-197).
LEMMA InitInv == Init => Inv
  BY DEF Init, Inv, TypeOK, MutexInv, UpgradeIsExclusive, UpgradeInv, IdleInv,
         State, PC, Holding, Bootable, Ticks

\* So does a restart, at whatever point of an upgrade it comes.
LEMMA ResetInv == Inv /\ Reset => Inv'
  BY DEF Reset, Inv, TypeOK, MutexInv, UpgradeIsExclusive, UpgradeInv, IdleInv,
         State, PC, Holding, Bootable, Ticks

\* The passage of time disturbs nothing.
LEMMA TickInv == Inv /\ Tick => Inv'
  BY NextTick
     DEF Tick, ram, locals, Inv, TypeOK, MutexInv, UpgradeIsExclusive,
         UpgradeInv, IdleInv

\* No call from another thread, however it interleaves with an upgrade, and
\* no backend call breaks the invariant.
LEMMA CallInv ==
  ASSUME NEW t \in Threads, Inv, Call(t)
  PROVE  Inv'
<1>1. CASE GetState(t)
  BY <1>1
     DEF GetState, Expired, ram, locals,
         Inv, TypeOK, MutexInv, UpgradeIsExclusive, UpgradeInv, IdleInv,
         State, PC, Holding, Bootable
<1>2. CASE CancelBoot(t)
  BY <1>2
     DEF CancelBoot, ram, locals,
         Inv, TypeOK, MutexInv, UpgradeIsExclusive, UpgradeInv, IdleInv,
         State, PC, Holding, Bootable
<1>3. CASE RequestBoot(t)
  BY <1>3
     DEF RequestBoot, ram, locals,
         Inv, TypeOK, MutexInv, UpgradeIsExclusive, UpgradeInv, IdleInv,
         State, PC, Holding, Bootable
<1>4. CASE UpgradeApp(t)
  BY <1>4
     DEF UpgradeApp, Prepare, UpgradeableStates, Goto,
         Inv, TypeOK, MutexInv, UpgradeIsExclusive, UpgradeInv, IdleInv,
         State, PC, Holding, Bootable
<1>5. CASE HandleNextDataChunk(t)
  BY <1>5
     DEF HandleNextDataChunk, Goto, ram,
         Inv, TypeOK, MutexInv, UpgradeIsExclusive, UpgradeInv, IdleInv,
         State, PC, Holding, Bootable
<1>6. CASE BackendStep(t)
  BY <1>6
     DEF BackendStep, ram, locals,
         Inv, TypeOK, MutexInv, UpgradeIsExclusive, UpgradeInv, IdleInv,
         State, PC, Holding, Bootable
<1>7. QED
  BY <1>1, <1>2, <1>3, <1>4, <1>5, <1>6 DEF Call

\* Every step of upgradeApp() itself keeps it: the verdict that is published
\* is about the storage because no other thread had the mutex since it was
\* reached (bootloader.cpp:271-351).
LEMMA UpgradeStepInv ==
  ASSUME NEW t \in Threads, Inv, UpgradeStep(t)
  PROVE  Inv'
<1>1. CASE BeginReturns(t)
  BY <1>1
     DEF BeginReturns, Goto, ram,
         Inv, TypeOK, MutexInv, UpgradeIsExclusive, UpgradeInv, IdleInv,
         State, PC, Holding, Bootable
<1>2. CASE WriteReturns(t)
  BY <1>2
     DEF WriteReturns, Goto, ram,
         Inv, TypeOK, MutexInv, UpgradeIsExclusive, UpgradeInv, IdleInv,
         State, PC, Holding, Bootable
<1>3. CASE DownloadReturns(t)
  BY <1>3
     DEF DownloadReturns, Goto,
         Inv, TypeOK, MutexInv, UpgradeIsExclusive, UpgradeInv, IdleInv,
         State, PC, Holding, Bootable
<1>4. CASE EndReturns(t)
  BY <1>4
     DEF EndReturns, Goto, ram,
         Inv, TypeOK, MutexInv, UpgradeIsExclusive, UpgradeInv, IdleInv,
         State, PC, Holding, Bootable
<1>5. CASE Locate(t)
  BY <1>5
     DEF Locate, Goto, ram,
         Inv, TypeOK, MutexInv, UpgradeIsExclusive, UpgradeInv, IdleInv,
         State, PC, Holding, Bootable
<1>6. CASE VerifyAppAndUpdateState(t)
  BY <1>6
     DEF VerifyAppAndUpdateState, Publish, UpdateState,
         Inv, TypeOK, MutexInv, UpgradeIsExclusive, UpgradeInv, IdleInv,
         State, PC, Holding, Bootable
<1>7. QED
  BY <1>1, <1>2, <1>3, <1>4, <1>5, <1>6 DEF UpgradeStep

-----------------------------------------------------------------------------
\* The inductive invariant holds of the controller (bootloader.cpp:162-351).
THEOREM Invariance == Spec => []Inv
<1>1. Inv /\ [Next]_vars => Inv'
  <2>. SUFFICES ASSUME Inv, [Next]_vars
                PROVE  Inv'
    OBVIOUS
  <2>1. CASE \E t \in Threads : Call(t) \/ UpgradeStep(t)
    BY <2>1, CallInv, UpgradeStepInv
  <2>2. CASE Tick
    BY <2>2, TickInv
  <2>3. CASE Reset
    BY <2>3, ResetInv
  <2>4. CASE UNCHANGED vars
    BY <2>4 DEF vars, Inv, TypeOK, MutexInv, UpgradeIsExclusive, UpgradeInv,
                IdleInv
  <2>5. QED
    BY <2>1, <2>2, <2>3, <2>4 DEF Next
<1>2. QED
  BY InitInv, <1>1, PTL DEF Spec

\* An application is only ever about to be started after a check of the
\* storage as it is (bootloader.cpp:162-186).
THEOREM BootSafety == Spec => []BootableAppIsVerified
<1>1. Inv => BootableAppIsVerified
  BY DEF Inv, UpgradeInv, IdleInv, BootableAppIsVerified, Bootable
<1>2. QED
  BY Invariance, <1>1, PTL

\* With the mutex free, only a download can be under way, and it shows in the
\* state (bootloader.cpp:295-313).
LEMMA FreeMeansIdle ==
  ASSUME Inv, mutex_ = Free, state_ # "AppUpgradeInProgress"
  PROVE  \A t \in Threads : pc[t] = "idle"
<1>. SUFFICES ASSUME NEW t \in Threads
              PROVE  pc[t] = "idle"
  OBVIOUS
<1>1. pc[t] \notin Holding
  BY FreeAssumption DEF Inv, MutexInv
<1>2. pc[t] # "downloading"
  BY DEF Inv, UpgradeIsExclusive
<1>3. QED
  BY <1>1, <1>2 DEF Inv, TypeOK, PC

\* A valid application is not reported missing (bootloader.cpp:301-348).
THEOREM NothingForgotten == Spec => []ValidAppIsFound
<1>1. Inv => ValidAppIsFound
  BY FreeMeansIdle DEF ValidAppIsFound, Inv, IdleInv
<1>2. QED
  BY Invariance, <1>1, PTL

\* The assertion of bootloader.cpp:325 never fails.
THEOREM AssertionHolds == Spec => []UpgradeIsExclusive
<1>1. Inv => UpgradeIsExclusive
  BY DEF Inv
<1>2. QED
  BY Invariance, <1>1, PTL

\* The storage is not touched while its application may be started or is
\* reported (bootloader.cpp:278-313).
THEOREM StorageFrozen == Spec => StorageFrozenWhileBootable
<1>1. Inv /\ [Next]_vars =>
        [rom' # rom => /\ mutex_ # Free
                       /\ state_ \notin Bootable
                       /\ cached_app_info_ = NoApp]_vars
  <2>. SUFFICES ASSUME Inv, Next, rom' # rom
                PROVE  /\ mutex_ # Free
                       /\ state_ \notin Bootable
                       /\ cached_app_info_ = NoApp
    OBVIOUS
  <2>1. PICK t \in Threads : BackendStep(t)
    BY DEF Next, Call, UpgradeStep, GetState, CancelBoot, RequestBoot,
           UpgradeApp, Prepare, HandleNextDataChunk, BeginReturns,
           WriteReturns, DownloadReturns, EndReturns, Locate,
           VerifyAppAndUpdateState, Publish, Tick, Reset
  <2>2. mutex_ = t
    BY <2>1 DEF BackendStep, Inv, MutexInv, Holding
  <2>3. state_ \notin Bootable /\ cached_app_info_ = NoApp
    BY <2>1 DEF BackendStep, Inv, UpgradeInv
  <2>4. QED
    BY <2>2, <2>3, FreeAssumption
<1>2. QED
  BY Invariance, <1>1, PTL DEF Spec, StorageFrozenWhileBootable

\* A failed upgrade is never followed by an automatic boot, and no later step
\* of it turns the failure into a success (bootloader.cpp:301, 331, 339).
THEOREM NoAutobootAfterFailure == Spec => FailedUpgradeDoesNotAutoboot
<1>1. Inv /\ [Next]_vars =>
        [\A t \in Threads :
            (pc[t] # "idle" /\ result[t] = "error" /\ ~Reset)
                => /\ state_' \notin {"BootDelay", "ReadyToBoot"}
                   /\ pc'[t] # "idle" => result'[t] = "error"]_vars
  <2>. SUFFICES ASSUME Inv, Next, ~Reset,
                       NEW t \in Threads, pc[t] # "idle", result[t] = "error"
                PROVE  /\ state_' \notin {"BootDelay", "ReadyToBoot"}
                       /\ pc'[t] # "idle" => result'[t] = "error"
    OBVIOUS
  <2>. DEFINE Stays == /\ state_' \notin {"BootDelay", "ReadyToBoot"}
                       /\ pc'[t] # "idle" => result'[t] = "error"
  <2>1. state_ \notin Bootable
    BY DEF Inv, UpgradeInv
  <2>2. CASE Tick
    BY <2>1, <2>2 DEF Tick, ram, locals, Bootable
  <2>3. ASSUME NEW u \in Threads, Call(u)
        PROVE  Stays
    BY <2>1, <2>3 DEF Call, GetState, Expired, CancelBoot, RequestBoot,
                      UpgradeApp, Prepare, UpgradeableStates,
                      HandleNextDataChunk, BackendStep, ram, locals, Bootable
  <2>4. ASSUME NEW u \in Threads, UpgradeStep(u)
        PROVE  Stays
    <3>1. pc[u] # "idle"
      BY <2>4 DEF UpgradeStep, BeginReturns, WriteReturns, DownloadReturns,
                  EndReturns, Locate, VerifyAppAndUpdateState, Publish
    <3>2. u = t
      BY <3>1 DEF Inv, UpgradeIsExclusive
    <3>3. CASE VerifyAppAndUpdateState(u)
      BY <3>2, <3>3 DEF VerifyAppAndUpdateState, Publish, UpdateState,
                        Inv, TypeOK
    <3>4. CASE EndReturns(u)
      BY <2>1, <3>2, <3>4 DEF EndReturns, ram, Bootable, Inv, TypeOK
    <3>5. CASE Locate(u)
      BY <2>1, <3>2, <3>5 DEF Locate, ram, Bootable
    <3>6. pc[t] \notin {"beginning", "downloading", "writing"}
      BY DEF Inv, UpgradeInv
    <3>7. QED
      BY <2>4, <3>2, <3>3, <3>4, <3>5, <3>6
         DEF UpgradeStep, BeginReturns, WriteReturns, DownloadReturns
  <2>5. QED
    BY <2>2, <2>3, <2>4 DEF Next
<1>2. QED
  BY Invariance, <1>1, PTL DEF Spec, FailedUpgradeDoesNotAutoboot

-----------------------------------------------------------------------------
(* The controller implements the abstract slot.                            *)

\* A call from any thread is a step of the slot, or none.
LEMMA CallRefines ==
  ASSUME NEW t \in Threads, Inv, Call(t)
  PROVE  [Slot!SlotNext]_(Slot!slotVars)
<1>1. CASE GetState(t) \/ RequestBoot(t)
  <2>1. \A u \in Threads : pc[u] = "idle" /\ pc'[u] = "idle"
    BY <1>1, FreeMeansIdle DEF GetState, Expired, RequestBoot, locals
  <2>2. Slot!Release
    BY <1>1, <2>1 DEF GetState, Expired, RequestBoot, Slot!Release, VisibleState
  <2>3. QED
    BY <2>2 DEF Slot!SlotNext
<1>2. CASE CancelBoot(t)
  <2>1. \A u \in Threads : pc[u] = "idle" /\ pc'[u] = "idle"
    BY <1>2, FreeMeansIdle DEF CancelBoot, locals
  <2>2. Slot!Cancel
    BY <1>2, <2>1 DEF CancelBoot, Slot!Cancel, VisibleState
  <2>3. QED
    BY <2>2 DEF Slot!SlotNext
<1>3. CASE UpgradeApp(t)
  <2>1. \A u \in Threads : pc[u] = "idle"
    BY <1>3, FreeMeansIdle DEF UpgradeApp, Prepare, UpgradeableStates
  <2>2. pc'[t] = "beginning"
    BY <1>3 DEF UpgradeApp, Prepare, UpgradeableStates, Goto, Inv, TypeOK
  <2>3. Slot!StartUpgrade
    BY <1>3, <2>1, <2>2 DEF UpgradeApp, Prepare, UpgradeableStates,
                            Slot!StartUpgrade, VisibleState
  <2>4. QED
    BY <2>3 DEF Slot!SlotNext
<1>4. CASE HandleNextDataChunk(t) \/ BackendStep(t)
  <2>1. pc[t] # "idle" /\ pc'[t] # "idle"
    BY <1>4 DEF HandleNextDataChunk, BackendStep, Goto, locals, Inv, TypeOK
  <2>2. UNCHANGED cached_app_info_
    BY <1>4 DEF HandleNextDataChunk, BackendStep, ram
  <2>3. QED
    BY <2>1, <2>2 DEF VisibleState, Slot!slotVars
<1>5. QED
  BY <1>1, <1>2, <1>3, <1>4 DEF Call

\* So is a step of upgradeApp(): all but the last are invisible.
LEMMA UpgradeStepRefines ==
  ASSUME NEW t \in Threads, Inv, UpgradeStep(t)
  PROVE  [Slot!SlotNext]_(Slot!slotVars)
<1>1. CASE VerifyAppAndUpdateState(t)
  <2>1. pc[t] # "idle"
    BY <1>1 DEF VerifyAppAndUpdateState, Publish
  <2>2. \A u \in Threads : pc'[u] = "idle"
    BY <1>1, <2>1 DEF VerifyAppAndUpdateState, Publish, Inv, TypeOK,
                      UpgradeIsExclusive
  <2>3. VisibleState = "AppUpgradeInProgress" /\ VisibleState' = state_'
    BY <2>1, <2>2 DEF VisibleState
  <2>4. seen[t] \in Apps \cup {NoApp}
    BY DEF Inv, TypeOK
  <2>5. Slot!FinishUpgrade
    BY <1>1, <2>3, <2>4 DEF VerifyAppAndUpdateState, Publish, UpdateState,
       Slot!FinishUpgrade, Slot!Judge
  <2>6. QED
    BY <2>5 DEF Slot!SlotNext
<1>2. CASE ~VerifyAppAndUpdateState(t)
  <2>1. pc[t] # "idle" /\ pc'[t] # "idle"
    BY <1>2 DEF UpgradeStep, BeginReturns, WriteReturns, DownloadReturns,
                EndReturns, Locate, Goto, Inv, TypeOK
  <2>2. UNCHANGED cached_app_info_
    BY <1>2 DEF UpgradeStep, BeginReturns, WriteReturns, DownloadReturns,
                EndReturns, Locate, ram
  <2>3. QED
    BY <2>1, <2>2 DEF VisibleState, Slot!slotVars
<1>3. QED
  BY <1>1, <1>2

\* A restart keeps a slot that was not being upgraded.
LEMMA ResetRefines == Inv /\ Reset => Slot!SlotNext
<1>. SUFFICES ASSUME Inv, Reset
              PROVE  Slot!Restart
  BY DEF Slot!SlotNext
<1>1. Located[rom] \in Apps \cup {NoApp} /\ cached_app_info_' = Located[rom]
  BY DEF Reset, Inv, TypeOK
<1>2. VisibleState' = state_'
  BY DEF Reset, VisibleState
<1>3. VisibleState # "AppUpgradeInProgress" => cached_app_info_ = Located[rom]
  BY DEF VisibleState, Inv, IdleInv
<1>4. QED
  BY <1>1, <1>2, <1>3 DEF Reset, Slot!Restart, Slot!Judge

\* The boot controller implements the slot its header promises
\* (bootloader.hpp:26-33, 197-222).
THEOREM Refinement == Spec => ImplementsAppSlot
<1>1. Init => Slot!SlotInit
  BY DEF Init, Slot!SlotInit, Slot!Judge, VisibleState
<1>2. Inv /\ [Next]_vars => [Slot!SlotNext]_(Slot!slotVars)
  <2>. SUFFICES ASSUME Inv, [Next]_vars
                PROVE  [Slot!SlotNext]_(Slot!slotVars)
    OBVIOUS
  <2>1. CASE \E t \in Threads : Call(t) \/ UpgradeStep(t)
    BY <2>1, CallRefines, UpgradeStepRefines
  <2>2. CASE Tick
    BY <2>2 DEF Tick, ram, locals, VisibleState, Slot!slotVars
  <2>3. CASE Reset
    BY <2>3, ResetRefines
  <2>4. CASE UNCHANGED vars
    BY <2>4 DEF vars, VisibleState, Slot!slotVars
  <2>5. QED
    BY <2>1, <2>2, <2>3, <2>4 DEF Next
<1>3. QED
  BY Invariance, <1>1, <1>2, PTL DEF Spec, ImplementsAppSlot, Slot!SlotSpec
===============================================================================
