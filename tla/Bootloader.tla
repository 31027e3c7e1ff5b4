------------------------------ MODULE Bootloader ------------------------------
(***************************************************************************)
(* The boot controller of the bootloader: class Bootloader of              *)
(* src/bootloader/src/bootloader.cpp.                                      *)
(*                                                                         *)
(* One object is shared by the main thread, which polls getState(), and by *)
(* the UAVCAN thread, which reports the state, reads the application info  *)
(* and runs upgradeApp().  Every access to the object and to the storage   *)
(* backend takes mutex_, but upgradeApp() releases it for the download, so *)
(* the other methods interleave with an upgrade that is half way through.  *)
(*                                                                         *)
(* A critical section that only touches RAM is one action.  A critical     *)
(* section that calls the storage backend is a sequence of actions that    *)
(* keeps the mutex, because a restart may come between any two of them.    *)
(*                                                                         *)
(* The backend is an interface, and nothing is assumed of it: any call     *)
(* that may write leaves the storage with any contents and returns either  *)
(* outcome.  Module AppStorage describes the backend of this board.        *)
(***************************************************************************)
EXTENDS Naturals

CONSTANTS
    Threads,        \* the threads that hold a reference to the object
    Contents,       \* the contents the application storage may have
    Apps,           \* the application images (their AppInfo)
    NoApp,          \* "no valid application"
    Located,        \* what locateAppDescriptor() finds in given contents
    BootDelayTicks, \* MS2ST(boot_delay_msec_)
    Wrap,           \* number of values of systime_t (2^16 on this board)
    Free            \* the owner of a mutex nobody holds

ASSUME LocatedAssumption == Located \in [Contents -> Apps \cup {NoApp}]
ASSUME NoAppAssumption == NoApp \notin Apps
ASSUME FreeAssumption == Free \notin Threads
ASSUME WrapAssumption == Wrap \in Nat \ {0}
ASSUME DelayAssumption == BootDelayTicks \in 0 .. Wrap - 1

VARIABLES
    state_,                     \* the State of the controller
    cached_app_info_,           \* the constructed AppInfo, or NoApp
    boot_delay_started_at_st_,  \* system time of the last successful check
    mutex_,                     \* the owner, or Free
    rom,                        \* the application storage: survives a reset
    now,                        \* chVTGetSystemTime(): wraps around
    pc,                         \* where each thread is inside upgradeApp()
    result,                     \* the value each upgradeApp() is to return
    seen                        \* what locateAppDescriptor() returned to it

vars == <<state_, cached_app_info_, boot_delay_started_at_st_, mutex_, rom,
          now, pc, result, seen>>

ram == <<state_, cached_app_info_, boot_delay_started_at_st_>>
locals == <<pc, result, seen>>

State == {"NoAppToBoot", "BootDelay", "BootCancelled",
          "AppUpgradeInProgress", "ReadyToBoot"}

\* The states from which the application may be started.
Bootable == {"BootDelay", "BootCancelled", "ReadyToBoot"}

Ticks == 0 .. Wrap - 1

\* Inside upgradeApp(): the backend calls, the download between them, the
\* check of the storage and the publication of its verdict.
Holding == {"beginning", "writing", "ending", "verifying", "publishing"}
PC == {"idle", "downloading"} \cup Holding

TypeOK ==
    /\ state_ \in State
    /\ cached_app_info_ \in Apps \cup {NoApp}
    /\ boot_delay_started_at_st_ \in Ticks
    /\ mutex_ \in Threads \cup {Free}
    /\ rom \in Contents
    /\ now \in Ticks
    /\ pc \in [Threads -> PC]
    /\ result \in [Threads -> {"ok", "error"}]
    /\ seen \in [Threads -> Apps \cup {NoApp}]

-----------------------------------------------------------------------------
\* chVTTimeElapsedSinceX(): a difference of unsigned 16-bit system times.
Elapsed == (now + Wrap - boot_delay_started_at_st_) % Wrap

\* Mutation: getState() forgets to ask whether a boot delay is running.
ExpiredInAnyState == Elapsed >= BootDelayTicks

\* The boot delay has run out, for whoever looks now.
Expired == state_ = "BootDelay" /\ Elapsed >= BootDelayTicks

\* Mutation: a download that went well is trusted.
UpdateStateUnchecked(found, on_success) ==
    /\ cached_app_info_' = found
    /\ state_' = on_success
    /\ boot_delay_started_at_st_' = now

\* The update half of verifyAppAndUpdateState(), given what was located.
\* A failed check leaves boot_delay_started_at_st_ alone.
UpdateState(found, on_success) ==
    /\ cached_app_info_' = found
    /\ state_' = IF found # NoApp THEN on_success ELSE "NoAppToBoot"
    /\ IF found # NoApp THEN boot_delay_started_at_st_' = now
                        ELSE UNCHANGED boot_delay_started_at_st_

\* Power-up: the constructor runs before any thread that could interfere.
\* The start of the boot delay is an uninitialized member until a check
\* succeeds, hence any value.
Init ==
    /\ rom \in Contents
    /\ now \in Ticks
    /\ boot_delay_started_at_st_ \in Ticks
    /\ cached_app_info_ = Located[rom]
    /\ state_ = IF Located[rom] # NoApp THEN "BootDelay" ELSE "NoAppToBoot"
    /\ Located[rom] # NoApp => boot_delay_started_at_st_ = now
    /\ mutex_ = Free
    /\ pc = [t \in Threads |-> "idle"]
    /\ result = [t \in Threads |-> "ok"]
    /\ seen = [t \in Threads |-> NoApp]

-----------------------------------------------------------------------------
(* The short methods: one critical section each.                           *)

\* getState(): the boot delay expires when somebody looks.  The downloader
\* runs node status updates, so its own thread also calls this during the
\* download.
GetState(t) ==
    /\ pc[t] \in {"idle", "downloading"}
    /\ mutex_ = Free
    /\ Expired
    /\ state_' = "ReadyToBoot"
    /\ UNCHANGED <<cached_app_info_, boot_delay_started_at_st_, mutex_, rom,
                   now, locals>>

\* Mutation: cancelBoot() without its switch.
CancelBootInAnyState(t) ==
    /\ pc[t] = "idle"
    /\ mutex_ = Free
    /\ state_' = "BootCancelled"
    /\ UNCHANGED <<cached_app_info_, boot_delay_started_at_st_, mutex_, rom,
                   now, locals>>

\* cancelBoot(): ignored in the other states.
CancelBoot(t) ==
    /\ pc[t] = "idle"
    /\ mutex_ = Free
    /\ state_ \in {"BootDelay", "ReadyToBoot"}
    /\ state_' = "BootCancelled"
    /\ UNCHANGED <<cached_app_info_, boot_delay_started_at_st_, mutex_, rom,
                   now, locals>>

\* requestBoot(): ignored in the other states.
RequestBoot(t) ==
    /\ pc[t] = "idle"
    /\ mutex_ = Free
    /\ state_ \in {"BootDelay", "BootCancelled"}
    /\ state_' = "ReadyToBoot"
    /\ UNCHANGED <<cached_app_info_, boot_delay_started_at_st_, mutex_, rom,
                   now, locals>>

-----------------------------------------------------------------------------
(* upgradeApp(), and the sink the downloader feeds.                        *)

Goto(t, label) == pc' = [pc EXCEPT ![t] = label]

\* The steps of the preparation stage, in states that allow an upgrade.
Prepare(t, allowed, info) ==
    /\ pc[t] = "idle"
    /\ mutex_ = Free
    /\ state_ \in allowed
    /\ state_' = "AppUpgradeInProgress"
    /\ cached_app_info_' = info
    /\ mutex_' = t
    /\ Goto(t, "beginning")
    /\ UNCHANGED <<boot_delay_started_at_st_, rom, now, result, seen>>

UpgradeableStates == {"BootDelay", "BootCancelled", "NoAppToBoot"}

\* Mutations: an upgrade starts over another one; it starts over a boot; it
\* leaves the cached info alone.
UpgradeAppTwice(t) ==
    Prepare(t, UpgradeableStates \cup {"AppUpgradeInProgress"}, NoApp)
UpgradeAppWhileBooting(t) ==
    Prepare(t, UpgradeableStates \cup {"ReadyToBoot"}, NoApp)
UpgradeAppKeepsInfo(t) == Prepare(t, UpgradeableStates, cached_app_info_)

\* Preparation: an upgrade starts only from a state in which nobody is
\* booting or upgrading; otherwise the call returns -ErrInvalidState and
\* nothing changes.
UpgradeApp(t) == Prepare(t, UpgradeableStates, NoApp)

\* A backend call in progress: it may have any effect on the storage.
BackendStep(t) ==
    /\ pc[t] \in {"beginning", "writing", "ending"}
    /\ rom' \in Contents
    /\ UNCHANGED <<ram, mutex_, now, locals>>

\* Mutations: the error of beginUpgrade() returned at once, without a check of
\* the storage; the download started with the mutex held.
BeginReturnsUnchecked(t) ==
    /\ pc[t] = "beginning"
    /\ mutex_' = Free
    /\ \/ Goto(t, "downloading") /\ UNCHANGED state_
       \/ Goto(t, "idle") /\ state_' = "NoAppToBoot"
    /\ UNCHANGED <<cached_app_info_, boot_delay_started_at_st_, rom, now,
                   result, seen>>
BeginReturnsLocked(t) ==
    /\ pc[t] = "beginning"
    /\ Goto(t, "downloading")
    /\ UNCHANGED <<ram, mutex_, rom, now, result, seen>>

\* beginUpgrade() returns: on error the storage is checked at once.
BeginReturns(t) ==
    /\ pc[t] = "beginning"
    /\ \/ /\ Goto(t, "downloading")
          /\ mutex_' = Free
          /\ UNCHANGED result
       \/ /\ Goto(t, "verifying")
          /\ result' = [result EXCEPT ![t] = "error"]
          /\ UNCHANGED mutex_
    /\ UNCHANGED <<ram, rom, now, seen>>

\* Mutation: the sink does not take the mutex.
HandleNextDataChunkUnlocked(t) ==
    /\ pc[t] = "downloading"
    /\ Goto(t, "writing")
    /\ UNCHANGED <<ram, mutex_, rom, now, result, seen>>

\* Sink::handleNextDataChunk() for a chunk that fits: the backend is called
\* with the mutex held.  A chunk that does not fit changes nothing here.
HandleNextDataChunk(t) ==
    /\ pc[t] = "downloading"
    /\ mutex_ = Free
    /\ mutex_' = t
    /\ Goto(t, "writing")
    /\ UNCHANGED <<ram, rom, now, result, seen>>

\* write() returns, with any result: what the downloader makes of it is up
\* to the downloader.
WriteReturns(t) ==
    /\ pc[t] = "writing"
    /\ mutex_' = Free
    /\ Goto(t, "downloading")
    /\ UNCHANGED <<ram, rom, now, result, seen>>

\* download() returns and the finalization takes the mutex again.
DownloadReturns(t) ==
    /\ pc[t] = "downloading"
    /\ mutex_ = Free
    /\ mutex_' = t
    /\ state_' = "NoAppToBoot"
    /\ \E res \in {"ok", "error"} : result' = [result EXCEPT ![t] = res]
    /\ Goto(t, "ending")
    /\ UNCHANGED <<cached_app_info_, boot_delay_started_at_st_, rom, now, seen>>

\* Mutation: the result of endUpgrade() replaces that of the download.
EndReturnsLast(t) ==
    /\ pc[t] = "ending"
    /\ \E res \in {"ok", "error"} : result' = [result EXCEPT ![t] = res]
    /\ Goto(t, "verifying")
    /\ UNCHANGED <<ram, mutex_, rom, now, seen>>

\* endUpgrade(success) returns: its error matters only after a successful
\* download.
EndReturns(t) ==
    /\ pc[t] = "ending"
    /\ \E res \in {"ok", "error"} :
          result' = [result EXCEPT ![t] = IF @ = "ok" THEN res ELSE @]
    /\ Goto(t, "verifying")
    /\ UNCHANGED <<ram, mutex_, rom, now, seen>>

\* locateAppDescriptor() scans the storage and checks the CRC, which takes
\* up to several seconds.
Locate(t) ==
    /\ pc[t] = "verifying"
    /\ seen' = [seen EXCEPT ![t] = Located[rom]]
    /\ Goto(t, "publishing")
    /\ UNCHANGED <<ram, mutex_, rom, now, result>>

\* The end of an upgrade, in the given state if there is an application.
Publish(t, on_success) ==
    /\ pc[t] = "publishing"
    /\ UpdateState(seen[t], on_success)
    /\ mutex_' = Free
    /\ pc' = [pc EXCEPT ![t] = "idle"]
    /\ result' = [result EXCEPT ![t] = "ok"]
    /\ seen' = [seen EXCEPT ![t] = NoApp]
    /\ UNCHANGED <<rom, now>>

\* Mutation: every upgrade is followed by the boot delay.
VerifyAndDelay(t) == Publish(t, "BootDelay")

\* The rest of verifyAppAndUpdateState(), and the return of upgradeApp().
\* Only an upgrade that went well restarts the boot delay.
VerifyAppAndUpdateState(t) ==
    Publish(t, IF result[t] = "ok" THEN "BootDelay" ELSE "BootCancelled")

-----------------------------------------------------------------------------
\* The system timer: 16 bits at 10 kHz.
Tick ==
    /\ now' = (now + 1) % Wrap
    /\ UNCHANGED <<ram, mutex_, rom, locals>>

\* A watchdog reset, a failed assertion or a power cycle at any time.
Reset ==
    /\ now' \in Ticks
    /\ boot_delay_started_at_st_' \in Ticks
    /\ cached_app_info_' = Located[rom]
    /\ state_' = IF Located[rom] # NoApp THEN "BootDelay" ELSE "NoAppToBoot"
    /\ Located[rom] # NoApp => boot_delay_started_at_st_' = now'
    /\ mutex_' = Free
    /\ pc' = [t \in Threads |-> "idle"]
    /\ result' = [t \in Threads |-> "ok"]
    /\ seen' = [t \in Threads |-> NoApp]
    /\ UNCHANGED rom

UpgradeStep(t) ==
    \/ BeginReturns(t)
    \/ WriteReturns(t)
    \/ DownloadReturns(t)
    \/ EndReturns(t)
    \/ Locate(t)
    \/ VerifyAppAndUpdateState(t)

Call(t) ==
    \/ GetState(t)
    \/ CancelBoot(t)
    \/ RequestBoot(t)
    \/ UpgradeApp(t)
    \/ HandleNextDataChunk(t)
    \/ BackendStep(t)

Next ==
    \/ \E t \in Threads : Call(t) \/ UpgradeStep(t)
    \/ Tick
    \/ Reset

Spec == Init /\ [][Next]_vars

\* What the callers and the devices owe: backend calls return, a download
\* ends however many chunks it feeds (the node has a response deadline and
\* images are finite), and the thread in upgradeApp() is scheduled.
Fairness ==
    \A t \in Threads :
        /\ WF_vars(UpgradeStep(t))
        /\ SF_vars(DownloadReturns(t))

FairSpec == Spec /\ Fairness

-----------------------------------------------------------------------------
(* Safety.                                                                 *)

\* A state that lets the application start, now or after a delay, is only
\* ever entered with an image that is valid in the storage as it is at this
\* moment, and getAppInfo() describes that image: upgrades, failed upgrades
\* and restarts included (bootloader.cpp:162-186, 271-351).
BootableAppIsVerified ==
    state_ \in Bootable =>
        /\ Located[rom] # NoApp
        /\ cached_app_info_ = Located[rom]

\* Whenever the mutex is free, a valid application in the storage is not
\* reported missing unless an upgrade is under way: no path through
\* upgradeApp() forgets to look again (bootloader.cpp:301, 331, 339, 348).
ValidAppIsFound ==
    mutex_ = Free /\ state_ # "AppUpgradeInProgress" =>
        cached_app_info_ = Located[rom]

\* The assertion of bootloader.cpp:325: nothing the other threads may call
\* during the download changes the state, and no second upgrade gets in.
UpgradeIsExclusive ==
    \A t \in Threads :
        /\ pc[t] = "downloading" => state_ = "AppUpgradeInProgress"
        /\ pc[t] # "idle" => \A u \in Threads \ {t} : pc[u] = "idle"

\* The storage changes only under the mutex and only after the cached info
\* was destroyed: an application that is reported, or about to be started,
\* is never modified (bootloader.cpp:278, 295-296, 313).
StorageFrozenWhileBootable ==
    [][rom' # rom => /\ mutex_ # Free
                     /\ state_ \notin Bootable
                     /\ cached_app_info_ = NoApp]_vars

\* An upgrade that failed, at whichever of its three stages, stays failed and
\* never leads to an automatic boot of what it left behind (bootloader.cpp:301, 331, 339).
FailedUpgradeDoesNotAutoboot ==
    [][\A t \in Threads :
           (pc[t] # "idle" /\ result[t] = "error" /\ ~Reset)
               => /\ state_' \notin {"BootDelay", "ReadyToBoot"}
                  /\ pc'[t] # "idle" => result'[t] = "error"]_vars

\* A thread owns the mutex exactly while it is in a critical section.
MutexInv ==
    \A t \in Threads : pc[t] \in Holding <=> mutex_ = t

\* What upgradeApp() has established at each of its labels.
UpgradeInv ==
    \A t \in Threads :
        /\ pc[t] # "idle" => cached_app_info_ = NoApp
        /\ pc[t] # "idle" => state_ \notin Bootable
        /\ pc[t] \in {"beginning", "writing"} =>
              state_ = "AppUpgradeInProgress"
        /\ pc[t] = "publishing" => seen[t] = Located[rom]
        /\ pc[t] \in {"idle", "beginning", "downloading", "writing"} =>
              result[t] = "ok"

\* Between upgrades the cached info is about the storage.
IdleInv ==
    (\A t \in Threads : pc[t] = "idle") =>
        /\ cached_app_info_ = Located[rom]
        /\ state_ # "AppUpgradeInProgress"
        /\ state_ = "NoAppToBoot" <=> cached_app_info_ = NoApp

\* The inductive invariant behind the properties above: the mutex discipline,
\* the exclusion of a second upgrade, the destruction of the cached info for
\* its whole length and the freshness of the verdict (bootloader.cpp:162-351).
Inv ==
    /\ TypeOK
    /\ MutexInv
    /\ UpgradeIsExclusive
    /\ UpgradeInv
    /\ IdleInv

-----------------------------------------------------------------------------
(* Liveness.                                                               *)

\* An upgrade that began comes to an end, so the controller does not stay in
\* AppUpgradeInProgress: no path keeps the mutex it needs again
\* (bootloader.cpp:271-351).
UpgradeEnds ==
    \A t \in Threads : pc[t] # "idle" ~> pc[t] = "idle"

-----------------------------------------------------------------------------
(* Refinement.                                                             *)

\* Between the download and the verdict state_ is NoAppToBoot, but the mutex
\* hides it: to everyone else the upgrade is still in progress.
VisibleState ==
    IF \E t \in Threads : pc[t] # "idle" THEN "AppUpgradeInProgress"
                                         ELSE state_

Slot == INSTANCE AppSlot WITH phase <- VisibleState,
                              slot  <- cached_app_info_

\* The controller implements the abstract slot: nobody ever sees a
\* half-finished upgrade, and a restart loses an application only when it
\* interrupts an upgrade (bootloader.hpp:26-33, 197-222).
ImplementsAppSlot == Slot!SlotSpec
=============================================================================
