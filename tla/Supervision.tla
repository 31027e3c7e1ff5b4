---------------------------- MODULE Supervision ----------------------------
(* The programs under the watchdog: main() and the UAVCAN thread of the        *)
(* bootloader (src/bootloader/src/main.cpp, l_uavcan.hpp), main() of the       *)
(* application (src/src/main.cpp), the timers each of them resets (Watchdog),  *)
(* and what they leave for each other in AppShared across resets.              *)
(*                                                                             *)
(* A tick is 500 ms.  A thread is either about to run or blocked for some      *)
(* ticks; time passes when all are blocked.  Waits below a tick that end in a  *)
(* reset of the timer take one tick or none.  The UAVCAN thread runs at        *)
(* HIGHPRIO and main() at LOWPRIO: while the former checks an image, which     *)
(* takes the processor for seconds if the storage is slow, main() does not     *)
(* run.  What the boot controller does is in module Bootloader; here its state *)
(* is as much as the threads look at.                                          *)
EXTENDS Watchdog

CONSTANTS
    DetectTicks,    \* receive(1100)
    DriverTicks,    \* delayAfterDriverError()
    AllocTicks,     \* 600..1000 ms to the next allocation request
    ResponseTicks,  \* 3000 ms to the answer to a FileRead request
    StopTicks,      \* 6 turns of 500 ms before the application restarts
    CheckTicks,     \* what a check of the image in the storage may take
    QuickTicks,     \* the longest check that the timeout leaves room for
    MaxFaults       \* bound on hanging threads, failures of the power supply and
                    \* of the CAN driver, and checks that are not quick

ASSUME ThreadAssumption == {"boot", "uavcan", "app"} \subseteq Thread

(* Each wait of the UAVCAN thread ends within the timeout of the IWDG, 5 s.  A *)
(* check comes on top of the wait for a chunk that did not arrive, or of the   *)
(* second in which main() restarts.                                            *)
ASSUME TicksAssumption ==
    /\ {StopTicks, QuickTicks, MaxFaults} \subseteq Nat
    /\ {DetectTicks, DriverTicks, AllocTicks} \subseteq 0 .. Timeout - 1
    /\ ResponseTicks \in Nat /\ ResponseTicks + QuickTicks < Timeout
    /\ QuickTicks + 2 < Timeout
    /\ CheckTicks \subseteq Nat
    /\ \E n \in CheckTicks : n <= QuickTicks

VARIABLES
    mainPc, mainWait,   \* where main() is, and how long it is blocked
    uavPc, uavWait,     \* the same of the UAVCAN thread
    rate, id, server,   \* can_bus_bit_rate_, the node ID and the server are known
    confirmed,          \* confirmed_local_node_id_ is set
    ctl,                \* the state of the controller, as the threads see it
    reboot,             \* the reboot flag
    stops,              \* turns of the application since the flag
    shared,             \* AppShared
    failing,            \* the CAN driver fails
    hung,               \* threads that do not run any more
    faults,
    prolonged,          \* history: since the UAVCAN thread last reset its timer
                        \* another node has prolonged its wait
    checked             \* history: ticks that checks of the image have taken
                        \* since main() last reset its timer

boot == <<mainPc, mainWait, reboot, stops, checked>>
known == <<rate, id, confirmed, server>>
uav == <<uavPc, uavWait, known, prolonged>>
env == <<failing, hung, faults>>
vars == <<wdg, boot, uav, ctl, shared, env>>

(* What AppShared holds; None is what erase() and a power failure leave, for   *)
(* which the CRC does not match.  Request is what the application writes for   *)
(* an update; it knows its own bit rate and node ID and asks the bootloader to *)
(* stay.                                                                       *)
None == [valid |-> FALSE, rate |-> FALSE, id |-> FALSE, server |-> FALSE, stay |-> FALSE]
Request == [valid |-> TRUE, rate |-> TRUE, id |-> TRUE, server |-> TRUE, stay |-> TRUE]
Parameters == [valid |-> TRUE, rate |-> rate, id |-> confirmed,
               server |-> FALSE, stay |-> FALSE]

-----------------------------------------------------------------------------
(* Starts.                                                                     *)

Init ==
    /\ WatchdogOff
    /\ mainPc = "init" /\ mainWait = 0
    /\ uavPc = "none" /\ uavWait = 0
    /\ rate = FALSE /\ id = FALSE /\ confirmed = FALSE /\ server = FALSE
    /\ ctl = "none" /\ reboot = FALSE /\ stops = 0
    /\ shared = None
    /\ failing = FALSE /\ hung = {} /\ faults = 0
    /\ prolonged = FALSE /\ checked = 0

Runs(t) == t \notin hung /\ ~Expired
OfApp(pc) == pc \in {"appInit", "appFirst", "appRead", "appLoop"}

(* The image is checked: by main() in the constructor of the controller, by    *)
(* the UAVCAN thread at the end of an upgrade, under the mutex.  Then main()   *)
(* does not run, its priority being the lower one; if the UAVCAN thread hangs  *)
(* there, main() runs until it wants the mutex.                                *)
Starved == uavPc = "verify" /\ "uavcan" \notin hung
Locked == uavPc = "verify"
Checking == (mainPc = "share" /\ mainWait > 0) \/ (uavPc = "verify" /\ uavWait > 0)

AtMain(pc) ==
    /\ mainPc = pc /\ mainWait = 0
    /\ Runs(IF OfApp(pc) THEN "app" ELSE "boot")
    /\ ~Starved
MainGoes(pc, ticks) == mainPc' = pc /\ mainWait' = ticks
AtUav(pc) == uavPc = pc /\ Runs("uavcan")
UavGoes(pc, ticks) == uavPc' = pc /\ uavWait' = ticks

(* A check that takes longer than the timeout leaves room for counts as a      *)
(* fault: a bound for the runs, the proofs do not depend on it.                *)
CheckOf(n) ==
    /\ n > QuickTicks => faults < MaxFaults
    /\ faults' = IF n > QuickTicks THEN faults + 1 ELSE faults
    /\ UNCHANGED <<failing, hung>>

(* A program starts with its threads and its memory afresh.                    *)
Starts(pc) ==
    /\ MainGoes(pc, 0)
    /\ UavGoes("none", 0)
    /\ rate' = FALSE /\ id' = FALSE /\ confirmed' = FALSE /\ server' = FALSE
    /\ ctl' = "none" /\ reboot' = FALSE /\ stops' = 0
    /\ hung' = {}
    /\ prolonged' = FALSE /\ checked' = 0

Reset == McuReset /\ Starts("init")

-----------------------------------------------------------------------------
(* main() of the bootloader.                                                   *)

BoardInit ==
    /\ AtMain("init")
    /\ WatchdogCreate("boot")
    /\ MainGoes("first", 0)
    /\ UNCHANGED <<reboot, stops, checked, uav, ctl, shared, env>>

(* The constructor of the controller checks the image after the first reset.   *)
FirstReset ==
    /\ AtMain("first")
    /\ WatchdogReset("boot")
    /\ \E n \in CheckTicks : CheckOf(n) /\ MainGoes("share", n)
    /\ checked' = 0
    /\ UNCHANGED <<reboot, stops, uav, ctl, shared>>

ReadSharedWithoutStay ==    \* mutant: the boot delay runs in any case
    /\ AtMain("share")
    /\ WatchdogCreate("uavcan")
    /\ shared' = None
    /\ rate' = shared.rate /\ id' = shared.id /\ server' = shared.server
    /\ ctl' \in {"wait", "stay"}
    /\ UavGoes("begin", 0)
    /\ MainGoes("loop", 0)
    /\ UNCHANGED <<reboot, stops, confirmed, prolonged, checked, env>>

(* AppShared is read and erased, the parameters in it are taken, the UAVCAN    *)
(* thread starts.                                                              *)
ReadShared ==
    /\ AtMain("share")
    /\ WatchdogCreate("uavcan")
    /\ shared' = None
    /\ rate' = shared.rate
    /\ id' = shared.id
    /\ server' = shared.server
    /\ ctl' \in (IF shared.stay THEN {"stay"} ELSE {"wait", "stay"})
    /\ UavGoes("begin", 0)
    /\ MainGoes("loop", 0)
    /\ UNCHANGED <<reboot, stops, confirmed, prolonged, checked, env>>

MainReset ==
    /\ AtMain("loop")
    /\ ~reboot
    /\ WatchdogReset("boot")
    /\ MainGoes("check", 0)
    /\ checked' = 0
    /\ UNCHANGED <<reboot, stops, uav, ctl, shared, env>>

(* getState() waits for the mutex.                                             *)
MainCheck ==
    /\ AtMain("check")
    /\ ~Locked
    /\ IF ctl = "ready" THEN MainGoes("decide", 0) ELSE MainGoes("loop", 1)
    /\ UNCHANGED <<wdg, reboot, stops, checked, uav, ctl, shared, env>>

LoopEnds ==
    /\ AtMain("loop")
    /\ reboot
    /\ MainGoes("decide", 0)
    /\ UNCHANGED <<wdg, reboot, stops, checked, uav, ctl, shared, env>>

(* After the loop a restart that was requested meanwhile comes first, even if  *)
(* the loop ended because the application is ready.                            *)
Decide ==
    /\ AtMain("decide")
    /\ MainGoes(IF reboot THEN "restart" ELSE "write", 1)
    /\ reboot' = TRUE
    /\ UNCHANGED <<wdg, stops, checked, uav, ctl, shared, env>>

MainRestarts ==
    /\ AtMain("restart")
    /\ Reset
    /\ UNCHANGED <<shared, failing, faults>>

WriteParameters ==
    /\ AtMain("write")
    /\ shared' = Parameters
    /\ MainGoes("final", 0)
    /\ UNCHANGED <<wdg, reboot, stops, checked, uav, ctl, env>>

FinalReset ==
    /\ AtMain("final")
    /\ WatchdogReset("boot")
    /\ MainGoes("jump", 0)
    /\ checked' = 0
    /\ UNCHANGED <<reboot, stops, uav, ctl, shared, env>>

(* The threads of the bootloader are gone, the IWDG goes on.                   *)
BootApplication ==
    /\ AtMain("jump")
    /\ WatchdogInit
    /\ Starts("appInit")
    /\ UNCHANGED <<shared, failing, faults>>

MainStep ==
    \/ BoardInit \/ FirstReset \/ ReadShared \/ MainReset \/ MainCheck \/ LoopEnds
    \/ Decide \/ MainRestarts \/ WriteParameters \/ FinalReset \/ BootApplication

-----------------------------------------------------------------------------
(* The UAVCAN thread.                                                          *)

Feeds ==
    /\ WatchdogReset("uavcan")
    /\ prolonged' = FALSE
    /\ UNCHANGED <<boot, shared>>

UavBegins ==
    /\ AtUav("begin")
    /\ Feeds
    /\ UavGoes(IF rate THEN "identify" ELSE "rate", 0)
    /\ UNCHANGED <<known, ctl, env>>

TryRateUnfed ==     \* mutant: the loop does not reset the timer
    /\ AtUav("rate")
    /\ uavWait = 0
    /\ IF reboot THEN UavGoes("identify", 0) ELSE UavGoes("listen", DetectTicks)
    /\ UNCHANGED <<wdg, boot, known, prolonged, ctl, shared, env>>

(* performCANBitRateDetection(): one bit rate after the other.                 *)
TryRate ==
    /\ AtUav("rate")
    /\ uavWait = 0
    /\ Feeds
    /\ IF reboot THEN UavGoes("identify", 0) ELSE UavGoes("listen", DetectTicks)
    /\ UNCHANGED <<known, ctl, env>>

RateFound ==
    /\ AtUav("listen")
    /\ ~failing
    /\ Feeds
    /\ rate' = TRUE
    /\ UavGoes("identify", 0)
    /\ UNCHANGED <<id, confirmed, server, ctl, env>>

NothingHeard ==
    /\ AtUav("listen")
    /\ uavWait = 0
    /\ ~failing
    /\ UavGoes("rate", 0)
    /\ UNCHANGED <<wdg, boot, known, prolonged, ctl, shared, env>>

(* delayAfterDriverError() in the three loops around initCAN() and receive();  *)
(* those around the allocation and the start of the node do not look at the    *)
(* reboot flag.                                                                *)
Retries == [listen |-> "rateDelay", allocInit |-> "allocDelay", canInit |-> "canDelay"]

DriverError ==
    \E pc \in DOMAIN Retries :
        /\ AtUav(pc)
        /\ failing
        /\ Feeds
        /\ UavGoes(Retries[pc], DriverTicks)
        /\ UNCHANGED <<known, ctl, env>>

DelayEnds ==
    \E pc \in DOMAIN Retries :
        /\ AtUav(Retries[pc])
        /\ uavWait = 0
        /\ Feeds
        /\ UavGoes(IF pc = "listen" THEN "rate" ELSE pc, 0)
        /\ UNCHANGED <<known, ctl, env>>

(* The thread returns when the reboot flag is up after the detection of the    *)
(* bit rate or after the allocation.                                           *)
ReturnEarly ==
    /\ AtUav("identify") \/ AtUav("confirm")
    /\ reboot
    /\ UavGoes("ended", 0)
    /\ UNCHANGED <<wdg, boot, known, prolonged, ctl, shared, env>>

Identify ==
    /\ AtUav("identify")
    /\ ~reboot
    /\ Feeds
    /\ UavGoes(IF id THEN "confirm" ELSE "allocInit", 0)
    /\ UNCHANGED <<known, ctl, env>>

(* performDynamicNodeIDAllocation(): the driver starts, then the thread waits  *)
(* for the next request.  Every allocation message on the bus prolongs this    *)
(* wait, as often as there are any (module NodeIdAllocation).                  *)
AllocInit ==
    /\ AtUav("allocInit")
    /\ ~failing
    /\ UavGoes("node", 0)
    /\ UNCHANGED <<wdg, boot, known, prolonged, ctl, shared, env>>

AskForId ==
    /\ AtUav("node")
    /\ uavWait = 0
    /\ Feeds
    /\ IF reboot THEN UavGoes("confirm", 0) ELSE UavGoes("allocate", AllocTicks)
    /\ UNCHANGED <<known, ctl, env>>

Postponed ==
    /\ AtUav("allocate")
    /\ ~failing
    /\ prolonged' = TRUE
    /\ UavGoes("allocate", AllocTicks)
    /\ UNCHANGED <<wdg, boot, known, ctl, shared, env>>

NotAnswered ==
    /\ AtUav("allocate")
    /\ uavWait = 0
    /\ UavGoes("node", 0)
    /\ UNCHANGED <<wdg, boot, known, prolonged, ctl, shared, env>>

IdAllocated ==
    /\ AtUav("allocate")
    /\ ~failing
    /\ Feeds
    /\ id' = TRUE
    /\ UavGoes("confirm", 0)
    /\ UNCHANGED <<rate, confirmed, server, ctl, env>>

(* Only a node ID that was confirmed is handed over to the application.        *)
Confirm ==
    /\ AtUav("confirm")
    /\ ~reboot
    /\ Feeds
    /\ confirmed' = id
    /\ UavGoes("canInit", 0)
    /\ UNCHANGED <<rate, id, server, ctl, env>>

CanInit ==
    /\ AtUav("canInit")
    /\ ~failing
    /\ UavGoes("idle", 0)
    /\ UNCHANGED <<wdg, boot, known, prolonged, ctl, shared, env>>

(* The update loop; on its way out the thread resets its timer a last time.    *)
AwaitRequest ==
    /\ AtUav("idle")
    /\ uavWait = 0
    /\ Feeds
    /\ IF reboot THEN UavGoes("ended", 0)
       ELSE IF server THEN UavGoes("upgrade", 0)
       ELSE UavGoes("idle", 1)
    /\ UNCHANGED <<known, ctl, env>>

(* The handlers of BeginFirmwareUpdate and RestartNode, which poll() calls.    *)
BeginFirmwareUpdate ==
    /\ AtUav("idle")
    /\ ~failing
    /\ ~server /\ ~reboot
    /\ ctl # "ready"
    /\ server' = TRUE
    /\ UavGoes("idle", 0)
    /\ UNCHANGED <<wdg, boot, rate, id, confirmed, prolonged, ctl, shared, env>>

RestartNode ==
    /\ (AtUav("idle") /\ ~server) \/ AtUav("response")
    /\ ~failing
    /\ ~reboot
    /\ reboot' = TRUE
    /\ UNCHANGED <<wdg, mainPc, mainWait, stops, checked, uav, ctl, shared, env>>

(* upgradeApp(): refused when the boot delay expired meanwhile.  The backend's *)
(* beginUpgrade() returns 0 in any case, so there is no check before the       *)
(* download.                                                                   *)
UpgradeApp ==
    /\ AtUav("upgrade")
    /\ Feeds
    /\ IF ctl = "ready"
       THEN server' = FALSE /\ UavGoes("idle", 0) /\ UNCHANGED ctl
       ELSE ctl' = "upgrade" /\ UavGoes("chunk", 0) /\ UNCHANGED server
    /\ UNCHANGED <<rate, id, confirmed, env>>

(* A download ends well or in an error; in either case the image is checked,   *)
(* with the mutex held and without a reset of the timer.                       *)
UpgradeEnds ==
    /\ \E n \in CheckTicks : CheckOf(n) /\ UavGoes("verify", n)
    /\ UNCHANGED <<known, ctl>>

(* The outcome of the check decides whether the image may be booted.           *)
VerifyEnds ==
    /\ AtUav("verify")
    /\ uavWait = 0
    /\ Feeds
    /\ ctl' \in {"wait", "stay"}
    /\ server' = FALSE
    /\ UavGoes("idle", 0)
    /\ UNCHANGED <<rate, id, confirmed, env>>

(* The request fails when frames that the driver does not take have used up    *)
(* the memory of libcanard.                                                    *)
RequestChunk ==
    /\ AtUav("chunk")
    /\ Feeds
    /\ \/ (reboot \/ failing) /\ UpgradeEnds
       \/ ~reboot /\ UavGoes("response", ResponseTicks) /\ UNCHANGED <<known, ctl, env>>

ChunkArrives ==
    /\ AtUav("response")
    /\ ~failing
    /\ uavWait < ResponseTicks
    /\ Feeds
    /\ \/ UavGoes("chunk", 0) /\ UNCHANGED <<known, ctl, env>>
       \/ UpgradeEnds

(* The one end of a download at which the timer has not just been reset.       *)
ChunkTimesOut ==
    /\ AtUav("response")
    /\ uavWait = 0
    /\ UpgradeEnds
    /\ UNCHANGED <<wdg, boot, prolonged, shared>>

UavStep ==
    \/ UavBegins \/ TryRate \/ RateFound \/ NothingHeard \/ DriverError \/ DelayEnds
    \/ ReturnEarly \/ Identify \/ AllocInit \/ AskForId \/ NotAnswered \/ IdAllocated
    \/ Confirm \/ CanInit \/ AwaitRequest
    \/ UpgradeApp \/ RequestChunk \/ ChunkArrives \/ ChunkTimesOut \/ VerifyEnds

-----------------------------------------------------------------------------
(* main() of the application.                                                  *)

HardwareInit ==
    /\ AtMain("appInit")
    /\ WatchdogCreate("app")
    /\ MainGoes("appFirst", 0)
    /\ UNCHANGED <<reboot, stops, checked, uav, ctl, shared, env>>

AppFirstReset ==
    /\ AtMain("appFirst")
    /\ WatchdogReset("app")
    /\ MainGoes("appRead", 0)
    /\ UNCHANGED <<reboot, stops, checked, uav, ctl, shared, env>>

(* What the bootloader left is erased; the application has parameters of its   *)
(* own and uses none of it.                                                    *)
InvalidateShared ==
    /\ AtMain("appRead")
    /\ shared' = None
    /\ MainGoes("appLoop", 0)
    /\ UNCHANGED <<wdg, reboot, stops, checked, uav, ctl, env>>

AppLoop ==
    /\ AtMain("appLoop")
    /\ stops < StopTicks
    /\ WatchdogReset("app")
    /\ stops' = IF reboot THEN stops + 1 ELSE 0
    /\ MainGoes("appLoop", 1)
    /\ UNCHANGED <<reboot, checked, uav, ctl, shared, env>>

AppRestarts ==
    /\ AtMain("appLoop")
    /\ stops = StopTicks
    /\ Reset
    /\ UNCHANGED <<shared, failing, faults>>

(* The node of the application: a request for an update is written down once,  *)
(* a second one is refused (already_in_progress).                              *)
UpdateRequested ==
    /\ mainPc = "appLoop"
    /\ ~shared.valid
    /\ shared' = Request
    /\ reboot' = TRUE
    /\ UNCHANGED <<wdg, mainPc, mainWait, stops, checked, uav, ctl, env>>

AppRestartNode ==
    /\ mainPc = "appLoop"
    /\ ~reboot
    /\ reboot' = TRUE
    /\ UNCHANGED <<wdg, mainPc, mainWait, stops, checked, uav, ctl, shared, env>>

AppStep == HardwareInit \/ AppFirstReset \/ InvalidateShared \/ AppLoop \/ AppRestarts

-----------------------------------------------------------------------------
(* The surroundings.                                                           *)

BootDelayExpires ==
    /\ ctl = "wait"
    /\ ctl' = "ready"
    /\ UNCHANGED <<wdg, boot, uav, shared, env>>

Hang(t) ==
    /\ Runs(t)
    /\ t \in created
    /\ faults < MaxFaults
    /\ faults' = faults + 1
    /\ hung' = hung \union {t}
    /\ UNCHANGED <<wdg, boot, uav, ctl, shared, failing>>

CanFails ==
    /\ ~failing
    /\ faults < MaxFaults
    /\ faults' = faults + 1
    /\ failing' = TRUE
    /\ UNCHANGED <<wdg, boot, uav, ctl, shared, hung>>

CanRecovers ==
    /\ failing
    /\ failing' = FALSE
    /\ UNCHANGED <<wdg, boot, uav, ctl, shared, hung, faults>>

PowerFails ==
    /\ faults < MaxFaults
    /\ faults' = faults + 1
    /\ Reset
    /\ shared' = None
    /\ UNCHANGED failing

(* The IWDG resets the MCU; the memory keeps AppShared.                        *)
WatchdogFires ==
    /\ Expired
    /\ Reset
    /\ UNCHANGED <<shared, failing, faults>>

MainBlocked ==
    \/ mainWait > 0 \/ "boot" \in hung \/ "app" \in hung
    \/ Starved \/ (mainPc = "check" /\ Locked)
Blocked ==
    /\ MainBlocked
    /\ uavWait > 0 \/ uavPc \in {"none", "ended"} \/ "uavcan" \in hung

Less(ticks) == IF ticks > 0 THEN ticks - 1 ELSE 0
Tick ==
    /\ Blocked
    /\ WatchdogTick
    /\ mainWait' = Less(mainWait)
    /\ uavWait' = Less(uavWait)
    /\ checked' = IF Checking THEN checked + 1 ELSE checked
    /\ UNCHANGED <<mainPc, reboot, stops, uavPc, known, prolonged, ctl, shared, env>>

Next ==
    \/ MainStep
    \/ UavStep \/ Postponed \/ BeginFirmwareUpdate \/ RestartNode
    \/ AppStep \/ UpdateRequested \/ AppRestartNode
    \/ BootDelayExpires
    \/ \E t \in Thread : Hang(t)
    \/ CanFails \/ CanRecovers
    \/ PowerFails
    \/ WatchdogFires
    \/ Tick

(* Threads that do not hang run, and time passes.                              *)
Fairness ==
    /\ WF_vars(MainStep) /\ WF_vars(UavStep) /\ WF_vars(AppStep)
    /\ WF_vars(WatchdogFires) /\ WF_vars(Tick)

Spec == Init /\ [][Next]_vars /\ Fairness

-----------------------------------------------------------------------------
(* When the IWDG resets the MCU, either a thread hangs, or other nodes have    *)
(* prolonged a wait for a node ID, which no reset of the timer interrupts      *)
(* (l_uavcan.hpp:877-879), or a check of the image was slow (bootloader.hpp:   *)
(* 68): there is no fourth cause, in any order of the steps of the threads,    *)
(* while the driver fails, and through the hand-over, in which the application *)
(* inherits what the bootloader left of the timeout.                           *)
AlarmIsExplained == Expired => hung # {} \/ prolonged \/ checked > QuickTicks

(* An update request of the application survives the restart and whatever      *)
(* fails on the way, until the bootloader has read and erased it: once nothing *)
(* fails any more, the bootloader begins the upgrade without an allocation, a  *)
(* bit rate or a boot delay in between.                                        *)
RequestIsServed ==
    (shared = Request /\ faults = MaxFaults /\ ~failing) ~> (uavPc = "response")
=============================================================================
