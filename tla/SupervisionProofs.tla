------------------------- MODULE SupervisionProofs -------------------------
(* The watchdog for any set of threads and any timeout, and the programs under *)
(* it for every length of their waits and of the checks of the image: a thread *)
(* that hangs is noticed within two timeouts, and there are two other causes   *)
(* of an alarm, no third one.                                                  *)
EXTENDS Supervision, TLAPS

-----------------------------------------------------------------------------
(* The multiplexer.                                                            *)

Age == Timeout - left       \* ticks since the last reload

TypeInv ==
    /\ created \subseteq Thread
    /\ mask \subseteq created
    /\ timeout \in {0, Timeout}
    /\ running \in BOOLEAN
    /\ left \in 0..Timeout
    /\ silence \in [Thread -> Nat]
    /\ created = {} => timeout = 0
    /\ created # {} => running /\ timeout = Timeout

(* A bit that is set was set since the last reload, one that is not was set    *)
(* before it at the latest.                                                    *)
SilenceBounded ==
    /\ \A t \in mask : silence[t] <= Age
    /\ \A t \in created : silence[t] <= Timeout + Age

(* Whoever keeps the IWDG from being reloaded has been silent since the last   *)
(* reload.                                                                     *)
SomebodySilent ==
    /\ \A t \in created \ mask : silence[t] >= Age
    /\ created # {} => \E t \in created : silence[t] >= Age

(* The inductive invariant of the multiplexer.                                 *)
WatchdogInv == TypeInv /\ SilenceBounded /\ SomebodySilent

-----------------------------------------------------------------------------
(* Creating a timer sets its bit; the first one reloads the IWDG.              *)
LEMMA CreateStep ==
    ASSUME WatchdogInv, NEW t \in Thread, WatchdogCreate(t)
    PROVE  WatchdogInv'
  <1> USE TimeoutAssumption DEF WatchdogInv, TypeInv, WatchdogCreate, Age
  <1>1. TypeInv'
    <2>1. created' \subseteq Thread /\ mask' \subseteq created' /\ created' # {}
      OBVIOUS
    <2>2. silence' \in [Thread -> Nat]
      OBVIOUS
    <2>3. CASE created = {}
      <3>1. Timeout > timeout
        BY <2>3
      <3>2. running' = TRUE /\ timeout' = Timeout /\ left' = Timeout
        BY <3>1
      <3> QED BY <2>1, <2>2, <3>2
    <2>4. CASE created # {}
      <3>1. ~(Timeout > timeout)
        BY <2>4
      <3>2. running' = running /\ timeout' = timeout /\ left' = left
        BY <3>1
      <3> QED BY <2>1, <2>2, <2>4, <3>2
    <2> QED BY <2>3, <2>4
  <1>2. \A u \in Thread : silence'[u] = IF u = t THEN 0 ELSE silence[u]
    BY SMT
  <1>3. SilenceBounded'
    <2>1. CASE created = {}
      <3>1. created' = {t} /\ left' = Timeout
        BY <2>1
      <3>2. silence'[t] = 0 /\ Age' = 0
        BY <1>2, <3>1
      <3> QED BY <1>1, <3>1, <3>2 DEF SilenceBounded
    <2>2. CASE created # {}
      BY <1>1, <1>2, <2>2, SMT DEF SilenceBounded
    <2> QED BY <2>1, <2>2
  <1>4. SomebodySilent'
    <2>1. CASE created = {}
      <3>1. created' = {t} /\ left' = Timeout
        BY <2>1
      <3>2. silence'[t] = 0 /\ Age' = 0
        BY <1>2, <3>1
      <3> QED BY <3>1, <3>2 DEF SomebodySilent
    <2>2. CASE created # {}
      <3>1. left' = left
        BY <2>2, SMT
      <3>2. PICK u \in created : silence[u] >= Age
        BY <2>2 DEF SomebodySilent
      <3>3. u \in created' /\ silence'[u] >= Age'
        BY <1>2, <3>1, <3>2, SMT
      <3>4. ASSUME NEW v \in created' \ mask' PROVE silence'[v] >= Age'
        BY <1>2, <3>1, <3>4, SMT DEF SomebodySilent
      <3> QED BY <3>3, <3>4 DEF SomebodySilent
    <2> QED BY <2>1, <2>2
  <1> QED BY <1>1, <1>3, <1>4

(* A reset either completes the mask, and then everybody starts a new period,  *)
(* or leaves a bit that keeps the period going.                                *)
LEMMA ResetStep ==
    ASSUME WatchdogInv, NEW t \in Thread, WatchdogReset(t)
    PROVE  WatchdogInv'
  <1> USE TimeoutAssumption DEF WatchdogInv, TypeInv, WatchdogReset, Age
  <1>1. TypeInv'
    BY SMT
  <1>2. \A u \in Thread : silence'[u] = IF u = t THEN 0 ELSE silence[u]
    BY SMT
  <1>3. CASE mask \union {t} = created
    <2>1. left' = Timeout /\ mask' = {} /\ created' = created
      BY <1>3
    <2>2. \A u \in created : silence'[u] <= Timeout /\ silence'[u] >= 0
      BY <1>2, <1>3, SMT DEF SilenceBounded
    <2>3. SilenceBounded'
      BY <2>1, <2>2, SMT DEF SilenceBounded
    <2>4. SomebodySilent'
      BY <2>1, <2>2, SMT DEF SomebodySilent
    <2> QED BY <1>1, <2>3, <2>4
  <1>4. CASE mask \union {t} # created
    <2>1. left' = left /\ mask' = mask \union {t} /\ created' = created
      BY <1>4
    <2>2. SilenceBounded'
      BY <1>1, <1>2, <2>1, SMT DEF SilenceBounded
    <2>3. SomebodySilent'
      <3>1. PICK u \in created : u \notin mask \union {t}
        BY <1>4
      <3>2. silence'[u] >= Age'
        BY <1>2, <2>1, <3>1, SMT DEF SomebodySilent
      <3>3. ASSUME NEW v \in created' \ mask' PROVE silence'[v] >= Age'
        BY <1>2, <2>1, <3>3, SMT DEF SomebodySilent
      <3> QED BY <2>1, <3>2, <3>3 DEF SomebodySilent
    <2> QED BY <1>1, <2>2, <2>3
  <1> QED BY <1>3, <1>4

(* Time passes for everybody alike.                                            *)
LEMMA TickStep ==
    ASSUME WatchdogInv, WatchdogTick
    PROVE  WatchdogInv'
  <1> USE TimeoutAssumption DEF WatchdogInv, TypeInv, WatchdogTick, Age
  <1>1. TypeInv'
    BY SMT
  <1>2. CASE created = {}
    BY <1>1, <1>2, SMT DEF SilenceBounded, SomebodySilent
  <1>3. CASE created # {}
    <2>1. Age' = Age + 1
      BY <1>3, SMT
    <2>2. \A u \in created : silence'[u] = silence[u] + 1
      BY SMT
    <2>3. SilenceBounded'
      BY <2>1, <2>2, SMT DEF SilenceBounded
    <2>4. SomebodySilent'
      <3>1. PICK u \in created : silence[u] >= Age
        BY <1>3 DEF SomebodySilent
      <3>2. silence'[u] >= Age'
        BY <2>1, <2>2, <3>1, SMT
      <3>3. ASSUME NEW v \in created' \ mask' PROVE silence'[v] >= Age'
        BY <2>1, <2>2, <3>3, SMT DEF SomebodySilent
      <3> QED BY <3>1, <3>2, <3>3 DEF SomebodySilent
    <2> QED BY <1>1, <2>3, <2>4
  <1> QED BY <1>2, <1>3

(* WatchdogInv is an invariant of the multiplexer.                             *)
THEOREM WatchdogInvariance == WatchdogSpec => []WatchdogInv
  <1>1. WatchdogOff => WatchdogInv
    <2> SUFFICES ASSUME WatchdogOff PROVE WatchdogInv
      OBVIOUS
    <2>1. TypeInv
      <3>1. left \in 0..Timeout
        BY TimeoutAssumption DEF WatchdogOff
      <3>2. silence \in [Thread -> Nat]
        BY DEF WatchdogOff
      <3>3. running \in BOOLEAN
        BY DEF WatchdogOff
      <3> QED BY <3>1, <3>2, <3>3, Zenon DEF WatchdogOff, TypeInv
    <2>2. created = {} /\ mask = {}
      BY DEF WatchdogOff
    <2> QED BY <2>1, <2>2 DEF WatchdogInv, SilenceBounded, SomebodySilent
  <1>2. WatchdogInv /\ [WatchdogNext]_wdg => WatchdogInv'
    <2> SUFFICES ASSUME WatchdogInv, [WatchdogNext]_wdg PROVE WatchdogInv'
      OBVIOUS
    <2>1. CASE WatchdogInit
      BY <2>1, SMT DEF WatchdogInit, WatchdogInv, TypeInv, SilenceBounded, SomebodySilent, Age
    <2>2. ASSUME NEW t \in Thread, WatchdogCreate(t) PROVE WatchdogInv'
      BY <2>2, CreateStep
    <2>3. ASSUME NEW t \in Thread, WatchdogReset(t) PROVE WatchdogInv'
      BY <2>3, ResetStep
    <2>4. CASE WatchdogTick
      BY <2>4, TickStep
    <2>5. CASE McuReset
      <3>1. TypeInv'
        <4>1. left' \in 0..Timeout
          BY <2>5, TimeoutAssumption DEF McuReset
        <4>2. silence' \in [Thread -> Nat]
          BY <2>5 DEF McuReset
        <4>3. running' \in BOOLEAN
          BY <2>5 DEF McuReset
        <4> QED BY <2>5, <4>1, <4>2, <4>3, Zenon DEF McuReset, TypeInv
      <3>2. created' = {} /\ mask' = {}
        BY <2>5 DEF McuReset
      <3> QED BY <3>1, <3>2 DEF WatchdogInv, SilenceBounded, SomebodySilent
    <2>6. CASE UNCHANGED wdg
      BY <2>6 DEF wdg, WatchdogInv, TypeInv, SilenceBounded, SomebodySilent, Age
    <2> QED BY <2>1, <2>2, <2>3, <2>4, <2>5, <2>6 DEF WatchdogNext
  <1> QED BY <1>1, <1>2, PTL DEF WatchdogSpec

(* HungIsNoticed, for any number of threads: no thread that has a timer is     *)
(* silent for longer than two timeouts.                                        *)
THEOREM HangDetection == WatchdogSpec => []HungIsNoticed
  <1>1. WatchdogInv => HungIsNoticed
    BY TimeoutAssumption, SMT DEF WatchdogInv, TypeInv, SilenceBounded, HungIsNoticed, Age
  <1> QED BY <1>1, WatchdogInvariance, PTL

(* NoFalseAlarm, for any number of threads.                                    *)
THEOREM Alarms == WatchdogSpec => []NoFalseAlarm
  <1>1. WatchdogInv => NoFalseAlarm
    BY TimeoutAssumption, SMT DEF WatchdogInv, TypeInv, SomebodySilent, NoFalseAlarm, Expired, Age
  <1> QED BY <1>1, WatchdogInvariance, PTL
-----------------------------------------------------------------------------
(* The programs use the watchdog only through its operations, so that what is  *)
(* proved of the multiplexer holds in the composition.                         *)

(* Steps of main() of the bootloader.                                          *)
LEMMA MainUsesWatchdog == MainStep => [WatchdogNext]_wdg
  <1> SUFFICES ASSUME MainStep PROVE [WatchdogNext]_wdg
    OBVIOUS
  <1> USE ThreadAssumption DEF WatchdogNext
  <1>1. CASE BoardInit
    BY <1>1 DEF BoardInit
  <1>2. CASE FirstReset
    BY <1>2 DEF FirstReset
  <1>3. CASE ReadShared
    BY <1>3 DEF ReadShared
  <1>4. CASE MainReset
    BY <1>4 DEF MainReset
  <1>5. CASE MainCheck \/ LoopEnds \/ Decide \/ WriteParameters
    BY <1>5 DEF MainCheck, LoopEnds, Decide, WriteParameters
  <1>6. CASE MainRestarts
    BY <1>6 DEF MainRestarts, Reset
  <1>7. CASE FinalReset
    BY <1>7 DEF FinalReset
  <1>8. CASE BootApplication
    BY <1>8 DEF BootApplication
  <1> QED BY <1>1, <1>2, <1>3, <1>4, <1>5, <1>6, <1>7, <1>8 DEF MainStep

(* Steps of the UAVCAN thread: each resets its timer or leaves it alone.       *)
LEMMA UavUsesWatchdog == UavStep => [WatchdogNext]_wdg
  <1> SUFFICES ASSUME UavStep PROVE [WatchdogNext]_wdg
    OBVIOUS
  <1>1. ASSUME Feeds PROVE [WatchdogNext]_wdg
    BY <1>1, ThreadAssumption DEF Feeds, WatchdogNext
  <1>2. CASE NothingHeard \/ NotAnswered \/ ReturnEarly \/ AllocInit \/ CanInit \/ ChunkTimesOut
    BY <1>2 DEF NothingHeard, NotAnswered, ReturnEarly, AllocInit, CanInit, ChunkTimesOut
  <1>3. CASE ~(NothingHeard \/ NotAnswered \/ ReturnEarly \/ AllocInit \/ CanInit \/ ChunkTimesOut)
    <2>1. Feeds
      BY <1>3 DEF UavStep, UavBegins, TryRate, RateFound, DriverError, DelayEnds, Identify, AskForId,
                  IdAllocated, Confirm, AwaitRequest, UpgradeApp, RequestChunk, ChunkArrives, VerifyEnds
    <2> QED BY <2>1, <1>1
  <1> QED BY <1>2, <1>3

(* Steps of main() of the application.                                         *)
LEMMA AppUsesWatchdog == AppStep => [WatchdogNext]_wdg
  <1> SUFFICES ASSUME AppStep PROVE [WatchdogNext]_wdg
    OBVIOUS
  <1> USE ThreadAssumption DEF WatchdogNext
  <1>1. CASE HardwareInit
    BY <1>1 DEF HardwareInit
  <1>2. CASE AppFirstReset
    BY <1>2 DEF AppFirstReset
  <1>3. CASE InvalidateShared
    BY <1>3 DEF InvalidateShared
  <1>4. CASE AppLoop
    BY <1>4 DEF AppLoop
  <1>5. CASE AppRestarts
    BY <1>5 DEF AppRestarts, Reset
  <1> QED BY <1>1, <1>2, <1>3, <1>4, <1>5 DEF AppStep

(* Every behaviour of the programs is one of the multiplexer.                  *)
THEOREM UsesWatchdog == Spec => WatchdogSpec
  <1>1. Init => WatchdogOff
    BY DEF Init
  <1>2. [Next]_vars => [WatchdogNext]_wdg
    <2> SUFFICES ASSUME [Next]_vars PROVE [WatchdogNext]_wdg
      OBVIOUS
    <2>1. CASE MainStep \/ UavStep \/ AppStep
      BY <2>1, MainUsesWatchdog, UavUsesWatchdog, AppUsesWatchdog
    <2>2. CASE Postponed \/ BeginFirmwareUpdate \/ RestartNode
               \/ UpdateRequested \/ AppRestartNode \/ BootDelayExpires
      BY <2>2 DEF Postponed, BeginFirmwareUpdate, RestartNode,
                  UpdateRequested, AppRestartNode, BootDelayExpires
    <2>3. CASE (\E t \in Thread : Hang(t)) \/ CanFails \/ CanRecovers
      BY <2>3 DEF Hang, CanFails, CanRecovers
    <2>4. CASE PowerFails \/ WatchdogFires
      BY <2>4 DEF PowerFails, WatchdogFires, Reset, WatchdogNext
    <2>5. CASE Tick
      BY <2>5 DEF Tick, WatchdogNext
    <2>6. CASE UNCHANGED vars
      BY <2>6 DEF vars
    <2> QED BY <2>1, <2>2, <2>3, <2>4, <2>5, <2>6 DEF Next
  <1> QED BY <1>1, <1>2, PTL DEF Spec, WatchdogSpec

(* HungIsNoticed in the composition: whichever thread of whichever program     *)
(* hangs, the MCU is reset within two timeouts, whatever the other threads     *)
(* wait for.                                                                   *)
THEOREM HungThreadIsNoticed == Spec => []HungIsNoticed
  BY UsesWatchdog, HangDetection, PTL

(* NoFalseAlarm in the composition.                                            *)
THEOREM NoFalseAlarms == Spec => []NoFalseAlarm
  BY UsesWatchdog, Alarms, PTL

-----------------------------------------------------------------------------
(* The programs are in time.                                                   *)

(* The waits are numbers of ticks.                                             *)
LEMMA Ticks ==
    /\ DetectTicks \in Nat /\ DriverTicks \in Nat /\ AllocTicks \in Nat
    /\ ResponseTicks \in Nat /\ QuickTicks \in Nat /\ Timeout \in Nat
    /\ DetectTicks < Timeout /\ DriverTicks < Timeout /\ AllocTicks < Timeout
    /\ ResponseTicks + QuickTicks < Timeout /\ QuickTicks + 2 < Timeout
    /\ CheckTicks \subseteq Nat
  BY TicksAssumption, TimeoutAssumption DEF TicksAssumption

MainPlaces == {"init", "first", "share", "loop", "check", "decide", "restart", "write", "final",
               "jump", "appInit", "appFirst", "appRead", "appLoop"}
UavPlaces == {"none", "begin", "rate", "listen", "rateDelay", "identify", "allocInit", "allocDelay",
              "node", "allocate", "confirm", "canInit", "canDelay", "idle", "upgrade", "chunk",
              "response", "verify", "ended"}

\* The timers that exist, from where main() is.
Timers == IF mainPc \in {"init", "appInit"} THEN {}
          ELSE IF OfApp(mainPc) THEN {"app"}
          ELSE IF mainPc \in {"first", "share"} THEN {"boot"}
          ELSE {"boot", "uavcan"}

(* Where the threads are, and that no time passes before a program has its     *)
(* first timer: the IWDG goes on through the hand-over.                        *)
Places ==
    /\ mainPc \in MainPlaces /\ mainWait \in Nat
    /\ uavPc \in UavPlaces /\ uavWait \in Nat
    /\ checked \in Nat
    /\ created = Timers
    /\ hung \subseteq created
    /\ uavPc = "none" <=> "uavcan" \notin created
    /\ uavPc = "ended" => reboot
    /\ mainPc # "share" => mainWait <= 1
    /\ mainPc \in {"check", "decide"} => mainWait = 0
    /\ created = {} => mainWait = 0 /\ ~Expired

(* What main() has been silent and will be until it runs again, apart from     *)
(* checks of the image.                                                        *)
MainLimit == IF mainPc \in {"restart", "write", "final"} THEN 2
             ELSE IF mainPc \in {"check", "share"} THEN 0
             ELSE 1
MainRest == IF mainPc = "share" THEN 0 ELSE mainWait
MainInTime ==
    hung = {} => \A t \in created \ {"uavcan"} : silence[t] + MainRest <= MainLimit + checked

(* The same of the UAVCAN thread; once it has ended, what main() still does    *)
(* before the program ends.                                                    *)
UavLimit == IF uavPc \in {"rate", "listen"} THEN DetectTicks
            ELSE IF uavPc \in {"rateDelay", "allocDelay", "canDelay"} THEN DriverTicks
            ELSE IF uavPc \in {"node", "allocate"} THEN AllocTicks
            ELSE IF uavPc = "response" THEN ResponseTicks
            ELSE IF uavPc = "idle" THEN 1
            ELSE 0
MainLeft == IF mainPc = "check" THEN 2
            ELSE IF mainPc = "loop" THEN mainWait + 1
            ELSE IF mainPc = "decide" THEN 1
            ELSE mainWait
UavInTime ==
    hung = {} =>
        /\ uavPc \notin {"none", "ended", "verify"} =>
               prolonged \/ silence["uavcan"] + uavWait <= UavLimit
        /\ uavPc = "verify" => prolonged \/ silence["uavcan"] <= ResponseTicks + checked
        /\ uavPc = "ended" => prolonged \/ silence["uavcan"] + MainLeft <= 2

SupervisionInv == Places /\ MainInTime /\ UavInTime

(* What the operations of the watchdog do to the silences.                     *)
LEMMA Resetting ==
    ASSUME TypeInv, NEW t \in Thread, WatchdogReset(t)
    PROVE  created' = created /\ \A u \in Thread : silence'[u] = IF u = t THEN 0 ELSE silence[u]
  BY SMT DEF TypeInv, WatchdogReset

LEMMA Creating ==
    ASSUME TypeInv, NEW t \in Thread, WatchdogCreate(t)
    PROVE  /\ created' = created \union {t}
           /\ \A u \in Thread : silence'[u] = IF u = t THEN 0 ELSE silence[u]
  BY SMT DEF TypeInv, WatchdogCreate

(* A program starts without timers, and with time left.                        *)
LEMMA StartStep ==
    ASSUME TypeInv, Starts("init") \/ Starts("appInit"), created' = {}, ~Expired'
    PROVE  SupervisionInv'
  <1>1. /\ mainPc' \in {"init", "appInit"} /\ mainWait' = 0 /\ uavPc' = "none" /\ uavWait' = 0
        /\ checked' = 0 /\ hung' = {}
    BY DEF Starts, MainGoes, UavGoes
  <1>2. Places'
    BY <1>1 DEF Places, Timers, MainPlaces, UavPlaces
  <1>3. MainInTime' /\ UavInTime'
    BY <1>1 DEF MainInTime, UavInTime
  <1> QED BY <1>2, <1>3 DEF SupervisionInv

LEMMA RestartStep ==
    ASSUME TypeInv, MainRestarts \/ BootApplication \/ AppRestarts \/ PowerFails \/ WatchdogFires
    PROVE  SupervisionInv'
  <1>1. CASE BootApplication
    BY <1>1, StartStep DEF BootApplication, WatchdogInit, AtMain, Runs, Expired
  <1>2. CASE ~BootApplication
    <2>1. Reset
      BY <1>2 DEF MainRestarts, AppRestarts, PowerFails, WatchdogFires
    <2>2. running' = FALSE
      BY <2>1 DEF Reset, McuReset
    <2> QED BY <2>1, <2>2, StartStep DEF Reset, McuReset, Expired
  <1> QED BY <1>1, <1>2

(* While the UAVCAN thread checks the image and does not hang, main() does not *)
(* run, so that it does not reset its timer either.                            *)
LEMMA StarvedMain ==
    ASSUME NEW pc, AtMain(pc), hung = {}
    PROVE  uavPc # "verify"
  BY DEF AtMain, Starved

(* Where main() is when the UAVCAN thread exists.                              *)
LEMMA TwoThreads ==
    ASSUME SupervisionInv, uavPc # "none"
    PROVE  /\ created = {"boot", "uavcan"}
           /\ mainPc \notin {"init", "first", "share"} /\ ~OfApp(mainPc)
           /\ mainWait \in Nat /\ mainWait <= 1
           /\ MainLeft \in Nat /\ MainLeft <= 2
  <1>1. created = {"boot", "uavcan"} /\ mainPc \notin {"init", "first", "share"} /\ ~OfApp(mainPc)
    BY DEF SupervisionInv, Places, Timers, OfApp
  <1>2. mainWait \in Nat /\ mainWait <= 1
    BY <1>1 DEF SupervisionInv, Places
  <1> QED BY <1>1, <1>2 DEF MainLeft

(* main() of the bootloader before the UAVCAN thread runs.                     *)
LEMMA BootStartStep ==
    ASSUME TypeInv, SupervisionInv, BoardInit \/ FirstReset \/ ReadShared
    PROVE  SupervisionInv'
  <1> USE ThreadAssumption, Ticks DEF AtMain, MainGoes, uav, env
  <1>1. CASE BoardInit
    <2>1. /\ mainPc = "init" /\ mainPc' = "first" /\ mainWait' = 0
          /\ UNCHANGED <<uavPc, uavWait, prolonged, checked, hung, reboot>>
      BY <1>1 DEF BoardInit
    <2>2. created' = {"boot"} /\ silence'["boot"] = 0
      BY <1>1, <2>1, Creating DEF BoardInit, SupervisionInv, Places, Timers
    <2>3. uavPc = "none" /\ hung = {} /\ checked \in Nat
      BY <2>1 DEF SupervisionInv, Places, Timers
    <2>4. Places'
      BY <2>1, <2>2, <2>3 DEF SupervisionInv, Places, Timers, OfApp, MainPlaces
    <2>5. MainInTime'
      BY <2>1, <2>2, <2>3 DEF MainInTime, MainLimit, MainRest
    <2>6. UavInTime'
      BY <2>1, <2>3 DEF UavInTime
    <2> QED BY <2>4, <2>5, <2>6 DEF SupervisionInv
  <1>2. CASE FirstReset
    <2>1. /\ mainPc = "first" /\ mainPc' = "share" /\ mainWait' \in Nat /\ checked' = 0
          /\ UNCHANGED <<uavPc, uavWait, prolonged, hung, reboot>>
      BY <1>2 DEF FirstReset, CheckOf
    <2>2. created' = created /\ created = {"boot"} /\ silence'["boot"] = 0
      BY <1>2, <2>1, Resetting DEF FirstReset, SupervisionInv, Places, Timers, OfApp
    <2>3. uavPc = "none"
      BY <2>2 DEF SupervisionInv, Places
    <2>4. Places'
      BY <2>1, <2>2, <2>3 DEF SupervisionInv, Places, Timers, OfApp, MainPlaces
    <2>5. MainInTime'
      BY <2>1, <2>2, <2>3 DEF MainInTime, MainLimit, MainRest
    <2>6. UavInTime'
      BY <2>1, <2>3 DEF UavInTime
    <2> QED BY <2>4, <2>5, <2>6 DEF SupervisionInv
  <1>3. CASE ReadShared
    <2>1. /\ mainPc = "share" /\ mainPc' = "loop" /\ mainWait' = 0 /\ uavPc' = "begin"
          /\ uavWait' = 0 /\ mainWait = 0 /\ UNCHANGED <<hung, checked, reboot>>
      BY <1>3 DEF ReadShared, UavGoes
    <2>2. created = {"boot"} /\ created' = {"boot", "uavcan"} /\ checked \in Nat
      BY <1>3, <2>1, Creating DEF ReadShared, SupervisionInv, Places, Timers, OfApp
    <2>3. silence'["boot"] = silence["boot"] /\ silence'["uavcan"] = 0 /\ silence["boot"] \in Nat
      BY <1>3, Creating DEF ReadShared, TypeInv
    <2>4. Places'
      BY <2>1, <2>2 DEF SupervisionInv, Places, Timers, OfApp, MainPlaces, UavPlaces
    <2>5. MainInTime'
      BY <2>1, <2>2, <2>3 DEF SupervisionInv, MainInTime, MainLimit, MainRest
    <2>6. UavInTime'
      BY <2>1, <2>3 DEF UavInTime, UavLimit
    <2> QED BY <2>4, <2>5, <2>6 DEF SupervisionInv
  <1> QED BY <1>1, <1>2, <1>3

(* main() of the bootloader: it resets its timer every tick.                   *)
LEMMA BootLoopStep ==
    ASSUME TypeInv, SupervisionInv,
           MainReset \/ MainCheck \/ LoopEnds \/ Decide \/ WriteParameters \/ FinalReset
    PROVE  SupervisionInv'
  <1> USE ThreadAssumption, Ticks DEF AtMain, MainGoes, uav, env
  <1>0. /\ mainPc \in {"loop", "check", "decide", "write", "final"} /\ mainWait = 0
        /\ UNCHANGED <<uavPc, uavWait, prolonged, hung>>
    BY DEF MainReset, MainCheck, LoopEnds, Decide, WriteParameters, FinalReset
  <1>a. created = {"boot", "uavcan"} /\ uavPc # "none" /\ checked \in Nat
    BY <1>0 DEF SupervisionInv, Places, Timers, OfApp
  <1>b. silence["boot"] \in Nat /\ silence["uavcan"] \in Nat
    BY DEF TypeInv
  <1>c. ASSUME hung = {} PROVE uavPc # "verify"
    BY <1>c, StarvedMain DEF MainReset, MainCheck, LoopEnds, Decide, WriteParameters, FinalReset
  <1>1. CASE MainReset \/ FinalReset
    <2>1. /\ \/ mainPc = "loop" /\ mainPc' = "check" /\ ~reboot
             \/ mainPc = "final" /\ mainPc' = "jump"
          /\ mainWait' = 0 /\ checked' = 0 /\ reboot' = reboot
          /\ WatchdogReset("boot")
      BY <1>1 DEF MainReset, FinalReset
    <2>2. created' = {"boot", "uavcan"}
      BY <2>1, <1>a, Resetting
    <2>3. silence'["boot"] = 0 /\ silence'["uavcan"] = silence["uavcan"]
      BY <2>1, Resetting
    <2>4. Places'
      BY <2>1, <2>2, <1>0, <1>a DEF SupervisionInv, Places, Timers, OfApp, MainPlaces
    <2>5. MainInTime'
      BY <2>1, <2>2, <2>3 DEF MainInTime, MainLimit, MainRest
    <2>6. UavInTime'
      <3>1. UavLimit' = UavLimit
        BY <1>0 DEF UavLimit
      <3>2. uavPc = "ended" => MainLeft' = MainLeft
        BY <2>1, <1>0 DEF MainLeft, SupervisionInv, Places
      <3> QED BY <2>3, <3>1, <3>2, <1>0, <1>a, <1>c DEF SupervisionInv, UavInTime
    <2> QED BY <2>4, <2>5, <2>6 DEF SupervisionInv
  <1>2. CASE MainCheck \/ LoopEnds \/ Decide \/ WriteParameters
    <2>1. /\ \/ mainPc = "check" /\ mainPc' = "loop" /\ mainWait' = 1
             \/ mainPc = "check" /\ mainPc' = "decide" /\ mainWait' = 0
             \/ mainPc = "loop" /\ mainPc' = "decide" /\ mainWait' = 0
             \/ mainPc = "decide" /\ mainPc' \in {"restart", "write"} /\ mainWait' = 1
             \/ mainPc = "write" /\ mainPc' = "final" /\ mainWait' = 0
          /\ checked' = checked /\ UNCHANGED wdg
      BY <1>2 DEF MainCheck, LoopEnds, Decide, WriteParameters
    <2>2. reboot => reboot'
      BY <1>2 DEF MainCheck, LoopEnds, Decide, WriteParameters
    <2>3. created' = created /\ silence' = silence
      BY <2>1 DEF wdg
    <2>4. Places'
      BY <2>1, <2>2, <2>3, <1>0, <1>a DEF SupervisionInv, Places, Timers, OfApp, MainPlaces
    <2>5. MainInTime'
      <3> SUFFICES ASSUME hung = {} PROVE silence["boot"] + MainRest' <= MainLimit' + checked
        BY <2>1, <2>3, <1>0, <1>a DEF MainInTime
      <3>1. silence["boot"] + MainRest <= MainLimit + checked
        BY <1>a DEF SupervisionInv, MainInTime
      <3> QED BY <3>1, <2>1, <1>0, <1>a, <1>b DEF MainLimit, MainRest
    <2>6. UavInTime'
      <3>1. UavLimit' = UavLimit
        BY <1>0 DEF UavLimit
      <3>2. MainLeft' <= MainLeft /\ MainLeft \in Nat /\ MainLeft' \in Nat
        BY <2>1, <1>0 DEF MainLeft
      <3>3. ASSUME hung = {}, uavPc = "ended", ~prolonged PROVE silence["uavcan"] + MainLeft' <= 2
        <4>1. silence["uavcan"] + MainLeft <= 2
          BY <3>3 DEF SupervisionInv, UavInTime
        <4>2. PICK l \in Nat : MainLeft = l
          BY <3>2
        <4>3. PICK n \in Nat : MainLeft' = n
          BY <3>2
        <4> QED BY <4>1, <4>2, <4>3, <3>2, <1>b
      <3>4. ASSUME hung = {}, uavPc \notin {"none", "ended", "verify"}, ~prolonged
            PROVE  silence["uavcan"] + uavWait <= UavLimit
        BY <3>4 DEF SupervisionInv, UavInTime
      <3> QED BY <2>3, <3>1, <3>3, <3>4, <1>0, <1>c DEF UavInTime
    <2> QED BY <2>4, <2>5, <2>6 DEF SupervisionInv
  <1> QED BY <1>1, <1>2

(* main() of the application.                                                  *)
LEMMA ApplicationStep ==
    ASSUME TypeInv, SupervisionInv,
           HardwareInit \/ AppFirstReset \/ InvalidateShared \/ AppLoop
    PROVE  SupervisionInv'
  <1> USE ThreadAssumption, Ticks DEF AtMain, MainGoes, uav, env
  <1>1. /\ \/ mainPc = "appInit" /\ mainPc' = "appFirst" /\ mainWait' = 0 /\ WatchdogCreate("app")
           \/ mainPc = "appFirst" /\ mainPc' = "appRead" /\ mainWait' = 0 /\ WatchdogReset("app")
           \/ mainPc = "appRead" /\ mainPc' = "appLoop" /\ mainWait' = 0 /\ UNCHANGED wdg
           \/ mainPc = "appLoop" /\ mainPc' = "appLoop" /\ mainWait' = 1 /\ WatchdogReset("app")
        /\ mainWait = 0 /\ UNCHANGED <<hung, reboot, checked, uavPc, uavWait, prolonged>>
    BY DEF HardwareInit, AppFirstReset, InvalidateShared, AppLoop
  <1>2. created \subseteq {"app"} /\ uavPc = "none" /\ checked \in Nat
    BY <1>1 DEF SupervisionInv, Places, Timers, OfApp
  <1>3. created' = {"app"}
    BY <1>1, Creating, Resetting DEF SupervisionInv, Places, Timers, OfApp, wdg
  <1>4. silence'["app"] = 0 \/ (UNCHANGED wdg /\ mainPc = "appRead")
    BY <1>1, Creating, Resetting
  <1>5. Places'
    BY <1>1, <1>2, <1>3 DEF SupervisionInv, Places, Timers, OfApp, MainPlaces, UavPlaces
  <1>6. MainInTime'
    <2>1. CASE silence'["app"] = 0
      BY <2>1, <1>1, <1>2, <1>3 DEF MainInTime, MainLimit, MainRest
    <2>2. CASE UNCHANGED wdg /\ mainPc = "appRead"
      BY <2>2, <1>1, <1>3 DEF SupervisionInv, MainInTime, MainLimit, MainRest, wdg
    <2> QED BY <2>1, <2>2, <1>4
  <1>7. UavInTime'
    BY <1>1, <1>2 DEF UavInTime
  <1> QED BY <1>5, <1>6, <1>7 DEF SupervisionInv

(* A step of the UAVCAN thread that resets its timer: how long it will wait    *)
(* then is within the limit.                                                   *)
LEMMA FeedStep ==
    ASSUME TypeInv, SupervisionInv, Feeds, hung' = hung, uavPc \notin {"none", "ended"},
           uavPc' \in UavPlaces \ {"none"}, uavWait' \in Nat,
           uavPc' = "ended" => reboot,
           uavPc' \in {"ended", "verify"} \/ uavWait' <= UavLimit'
    PROVE  SupervisionInv'
  <1> USE ThreadAssumption, Ticks
  <1>1. /\ UNCHANGED <<mainPc, mainWait, reboot, checked>> /\ WatchdogReset("uavcan") /\ ~prolonged'
    BY DEF Feeds, boot
  <1>2. created' = created /\ \A u \in Thread : silence'[u] = IF u = "uavcan" THEN 0 ELSE silence[u]
    BY <1>1, Resetting
  <1>3. created = {"boot", "uavcan"} /\ mainPc \notin {"init", "appInit"}
    BY TwoThreads DEF OfApp
  <1>4. Places'
    BY <1>1, <1>2, <1>3 DEF SupervisionInv, Places, Timers, OfApp
  <1>5. MainInTime'
    BY <1>1, <1>2, <1>3 DEF SupervisionInv, MainInTime, MainLimit, MainRest
  <1>6. UavInTime'
    <2>1. silence'["uavcan"] = 0
      BY <1>2
    <2>2. ResponseTicks + checked' \in Nat
      BY <1>1 DEF SupervisionInv, Places
    <2>3. MainLeft' \in Nat /\ MainLeft' <= 2
      <3>1. MainLeft' = MainLeft
        BY <1>1 DEF MainLeft
      <3> QED BY <3>1, TwoThreads
    <2>4. ASSUME uavPc' \notin {"ended", "verify"} PROVE silence'["uavcan"] + uavWait' <= UavLimit'
      <3>1. PICK w \in Nat : uavWait' = w
        OBVIOUS
      <3>2. w <= UavLimit' /\ silence'["uavcan"] + w = w
        BY <2>1, <2>4, <3>1
      <3> QED BY <3>1, <3>2
    <2>5. silence'["uavcan"] + MainLeft' <= 2
      <3>1. PICK w \in Nat : MainLeft' = w
        BY <2>3
      <3> QED BY <2>1, <2>3, <3>1
    <2>6. silence'["uavcan"] <= ResponseTicks + checked'
      <3>1. PICK w \in Nat : ResponseTicks + checked' = w
        BY <2>2
      <3> QED BY <2>1, <3>1
    <2> QED BY <2>4, <2>5, <2>6 DEF UavInTime
  <1> QED BY <1>4, <1>5, <1>6 DEF SupervisionInv

(* A step of the UAVCAN thread that does not reset its timer: it goes on with  *)
(* what is left to it, unless other nodes prolong its wait.                    *)
LEMMA UnfedStep ==
    ASSUME TypeInv, SupervisionInv,
           \/ NothingHeard \/ NotAnswered \/ ReturnEarly \/ AllocInit \/ CanInit \/ ChunkTimesOut
           \/ Postponed \/ BeginFirmwareUpdate
    PROVE  SupervisionInv'
  <1> USE ThreadAssumption, Ticks DEF AtUav, UavGoes, boot, env, wdg
  <1>1. /\ UNCHANGED <<mainPc, mainWait, reboot, checked, hung, created, running, left, silence>>
        /\ uavPc \notin {"none", "ended", "verify"}
    BY DEF NothingHeard, NotAnswered, ReturnEarly, AllocInit, CanInit, ChunkTimesOut, UpgradeEnds,
           CheckOf, Postponed, BeginFirmwareUpdate
  <1>2. /\ uavPc' \in UavPlaces \ {"none"} /\ uavWait' \in Nat
        /\ uavPc' = "ended" => reboot
    BY DEF NothingHeard, NotAnswered, ReturnEarly, AllocInit, CanInit, ChunkTimesOut, UpgradeEnds,
           Postponed, BeginFirmwareUpdate, SupervisionInv, Places, UavPlaces
  <1>3. Places'
    BY <1>1, <1>2 DEF SupervisionInv, Places, Timers, OfApp, Expired
  <1>4. MainInTime'
    BY <1>1 DEF SupervisionInv, MainInTime, MainLimit, MainRest
  <1>5. silence["uavcan"] \in Nat /\ checked \in Nat /\ uavWait \in Nat
    BY DEF TypeInv, SupervisionInv, Places
  <1>6. UavInTime'
    <2>1. CASE Postponed
      <3>1. prolonged' /\ uavPc' = "allocate"
        BY <2>1 DEF Postponed
      <3> QED BY <3>1 DEF UavInTime
    <2>2. CASE ~Postponed
      <3>0. prolonged' = prolonged
        BY <2>2 DEF NothingHeard, NotAnswered, ReturnEarly, AllocInit, CanInit, ChunkTimesOut,
                    BeginFirmwareUpdate
      <3> SUFFICES ASSUME hung = {}, ~prolonged
                   PROVE  /\ uavPc' \notin {"none", "ended", "verify"} =>
                                 silence["uavcan"] + uavWait' <= UavLimit'
                          /\ uavPc' = "verify" => silence["uavcan"] <= ResponseTicks + checked
                          /\ uavPc' = "ended" => silence["uavcan"] + MainLeft' <= 2
        BY <3>0, <1>1 DEF UavInTime
      <3>1. silence["uavcan"] + uavWait <= UavLimit
        BY <1>1 DEF SupervisionInv, UavInTime
      <3>2. CASE NothingHeard
        BY <3>1, <3>2, <1>5 DEF NothingHeard, UavLimit
      <3>3. CASE NotAnswered
        BY <3>1, <3>3, <1>5 DEF NotAnswered, UavLimit
      <3>4. CASE AllocInit \/ CanInit
        BY <3>1, <3>4, <1>5 DEF AllocInit, CanInit, UavLimit
      <3>5. CASE BeginFirmwareUpdate
        BY <3>1, <3>5, <1>5 DEF BeginFirmwareUpdate, UavLimit
      <3>6. CASE ChunkTimesOut
        <4>1. uavPc = "response" /\ uavPc' = "verify"
          BY <3>6 DEF ChunkTimesOut, UpgradeEnds
        <4>2. silence["uavcan"] <= ResponseTicks
          BY <4>1, <3>1, <1>5 DEF UavLimit
        <4> QED BY <4>1, <4>2, <1>5
      <3>7. CASE ReturnEarly
        <4>1. uavPc \in {"identify", "confirm"} /\ uavPc' = "ended"
          BY <3>7 DEF ReturnEarly
        <4>2. silence["uavcan"] = 0
          BY <4>1, <3>1, <1>5 DEF UavLimit
        <4>3. MainLeft' = MainLeft
          BY <1>1 DEF MainLeft
        <4>4. PICK l \in Nat : MainLeft = l /\ l <= 2
          BY <1>1, TwoThreads
        <4> QED BY <4>1, <4>2, <4>3, <4>4
      <3> QED BY <2>2, <3>2, <3>3, <3>4, <3>5, <3>6, <3>7
    <2> QED BY <2>1, <2>2
  <1> QED BY <1>3, <1>4, <1>6 DEF SupervisionInv

(* The UAVCAN thread.                                                          *)
LEMMA UavcanStep ==
    ASSUME TypeInv, SupervisionInv, UavStep
    PROVE  SupervisionInv'
  <1> USE ThreadAssumption, Ticks DEF AtUav, UavGoes, UavPlaces, env
  <1>1. CASE UavBegins \/ TryRate \/ RateFound
    BY <1>1, FeedStep DEF UavBegins, TryRate, RateFound, UavLimit
  <1>2. CASE DriverError \/ DelayEnds
    <2>1. PICK pc \in {"listen", "allocInit", "canInit"} :
              /\ Feeds /\ hung' = hung /\ uavPc \in {pc, Retries[pc]}
              /\ \/ uavPc' = Retries[pc] /\ uavWait' = DriverTicks
                 \/ uavPc' \in {"rate", "allocInit", "canInit"} /\ uavWait' = 0
      BY <1>2 DEF DriverError, DelayEnds, Retries
    <2>2. Retries[pc] \in {"rateDelay", "allocDelay", "canDelay"}
      BY DEF Retries
    <2> QED BY <2>1, <2>2, FeedStep DEF UavLimit
  <1>3. CASE Identify \/ AskForId \/ IdAllocated \/ Confirm
    BY <1>3, FeedStep DEF Identify, AskForId, IdAllocated, Confirm, UavLimit
  <1>4. CASE AwaitRequest \/ UpgradeApp \/ VerifyEnds
    BY <1>4, FeedStep DEF AwaitRequest, UpgradeApp, VerifyEnds, UavLimit
  <1>5. CASE RequestChunk \/ ChunkArrives
    <2>1. /\ Feeds /\ hung' = hung /\ uavPc \in {"chunk", "response"}
          /\ \/ uavPc' = "response" /\ uavWait' = ResponseTicks
             \/ uavPc' = "chunk" /\ uavWait' = 0
             \/ uavPc' = "verify" /\ uavWait' \in CheckTicks
      BY <1>5 DEF RequestChunk, ChunkArrives, UpgradeEnds, CheckOf
    <2>2. uavWait' \in Nat
      <3>1. \A n \in CheckTicks : n \in Nat
        OBVIOUS
      <3>2. ResponseTicks \in Nat /\ 0 \in Nat
        OBVIOUS
      <3>3. uavWait' = ResponseTicks \/ uavWait' = 0 \/ uavWait' \in CheckTicks
        BY <2>1
      <3> QED BY <3>1, <3>2, <3>3, Zenon
    <2>3. uavPc' = "verify" \/ uavWait' <= UavLimit'
      BY <2>1 DEF UavLimit
    <2> QED BY <2>1, <2>2, <2>3, FeedStep
  <1>6. CASE \/ NothingHeard \/ NotAnswered \/ ReturnEarly \/ AllocInit \/ CanInit \/ ChunkTimesOut
    BY <1>6, UnfedStep
  <1> QED BY <1>1, <1>2, <1>3, <1>4, <1>5, <1>6 DEF UavStep

(* Requests, the boot delay, the driver and hanging threads take no time.      *)
LEMMA InstantStep ==
    ASSUME TypeInv, SupervisionInv,
           \/ RestartNode \/ UpdateRequested \/ AppRestartNode \/ BootDelayExpires
           \/ CanFails \/ CanRecovers \/ \E t \in Thread : Hang(t)
    PROVE  SupervisionInv'
  <1> USE ThreadAssumption DEF boot, uav, env, wdg
  <1>1. /\ UNCHANGED <<mainPc, mainWait, checked, uavPc, uavWait, prolonged>>
        /\ UNCHANGED <<created, running, left, silence>>
    BY DEF RestartNode, UpdateRequested, AppRestartNode, BootDelayExpires, CanFails, CanRecovers, Hang
  <1>2. reboot => reboot'
    BY DEF RestartNode, UpdateRequested, AppRestartNode, BootDelayExpires, CanFails, CanRecovers, Hang
  <1>3. hung' \subseteq created /\ (hung' = {} => hung = {})
    <2>1. CASE \E t \in Thread : Hang(t)
      BY <2>1 DEF Hang, SupervisionInv, Places
    <2>2. CASE ~\E t \in Thread : Hang(t)
      BY <2>2 DEF RestartNode, UpdateRequested, AppRestartNode, BootDelayExpires, CanFails,
                  CanRecovers, SupervisionInv, Places
    <2> QED BY <2>1, <2>2
  <1>4. Places'
    BY <1>1, <1>2, <1>3 DEF SupervisionInv, Places, Timers, OfApp, Expired
  <1>5. MainInTime'
    BY <1>1, <1>3 DEF SupervisionInv, MainInTime, MainLimit, MainRest
  <1>6. UavInTime'
    BY <1>1, <1>3 DEF SupervisionInv, UavInTime, UavLimit, MainLeft
  <1> QED BY <1>4, <1>5, <1>6 DEF SupervisionInv

(* Time passes only while every thread that does not hang waits, and a check   *)
(* of the image is a wait of main() that is counted.                           *)
LEMMA TimeStep ==
    ASSUME TypeInv, SupervisionInv, Tick
    PROVE  SupervisionInv'
  <1> USE ThreadAssumption, Ticks
  <1>1. /\ UNCHANGED <<mainPc, reboot, uavPc, prolonged, hung, created>>
        /\ mainWait' = Less(mainWait) /\ uavWait' = Less(uavWait)
        /\ \A t \in created : silence'[t] = silence[t] + 1
        /\ checked' = IF Checking THEN checked + 1 ELSE checked
    BY DEF Tick, WatchdogTick, env, TypeInv
  <1>2. mainWait \in Nat /\ uavWait \in Nat /\ checked \in Nat /\ hung \subseteq created /\ created = Timers
    BY DEF SupervisionInv, Places
  <1>3. created # {}
    <2> SUFFICES ASSUME created = {} PROVE FALSE
      OBVIOUS
    <2>1. hung = {} /\ mainWait = 0 /\ uavPc = "none" /\ mainPc # "check"
      BY <1>2 DEF SupervisionInv, Places, Timers
    <2> QED BY <2>1 DEF Tick, Blocked, MainBlocked, Starved
  <1>4. Places'
    <2>1. mainWait' \in Nat /\ uavWait' \in Nat /\ mainWait' <= mainWait /\ checked' \in Nat
      BY <1>1, <1>2 DEF Less
    <2>2. /\ mainPc # "share" => mainWait' <= 1
          /\ mainPc \in {"check", "decide"} => mainWait' = 0
      BY <1>1, <1>2 DEF Less, SupervisionInv, Places
    <2> QED BY <2>1, <2>2, <1>1, <1>3 DEF SupervisionInv, Places, Timers, OfApp
  <1>5. CASE hung # {}
    BY <1>1, <1>4, <1>5 DEF SupervisionInv, MainInTime, UavInTime
  <1>6. CASE hung = {}
    <2>1. uavPc = "verify" => uavWait > 0 /\ checked' = checked + 1
      BY <1>1, <1>6 DEF Tick, Blocked, Checking
    <2>2. uavPc # "verify" => mainWait > 0 /\ mainWait' = mainWait - 1
      BY <1>1, <1>2, <1>6 DEF Tick, Blocked, MainBlocked, Starved, Locked, Less
    <2>3. uavPc \notin {"none", "ended"} => uavWait > 0 /\ uavWait' = uavWait - 1
      BY <1>1, <1>2, <1>6 DEF Tick, Blocked, Less
    <2>4. \A t \in created : silence[t] \in Nat
      BY DEF TypeInv
    <2>5. MainLimit' = MainLimit /\ UavLimit' = UavLimit /\ MainLimit \in Nat
      BY <1>1 DEF MainLimit, UavLimit
    <2>6. checked' \in {checked, checked + 1} /\ mainWait' \in {mainWait, mainWait - 1} /\ mainWait' \in Nat
      BY <1>1, <1>2 DEF Less
    <2>7. MainInTime'
      <3> SUFFICES ASSUME NEW t \in created, t # "uavcan"
                   PROVE  silence'[t] + MainRest' <= MainLimit' + checked'
        BY <1>1 DEF MainInTime
      <3>1. silence[t] + MainRest <= MainLimit + checked
        BY <1>6 DEF SupervisionInv, MainInTime
      <3>2. CASE mainPc = "share"
        <4>1. uavPc = "none"
          BY <3>2, <1>2 DEF Timers, OfApp, SupervisionInv, Places
        <4>2. checked' = checked + 1
          BY <3>2, <4>1, <2>2, <1>1 DEF Checking
        <4>3. MainRest = 0 /\ MainRest' = 0
          BY <3>2, <1>1 DEF MainRest
        <4> QED BY <3>1, <4>2, <4>3, <2>4, <2>5, <1>1, <1>2
      <3>3. CASE mainPc # "share"
        <4>1. MainRest = mainWait /\ MainRest' = mainWait'
          BY <3>3, <1>1 DEF MainRest
        <4>2. mainWait' = mainWait - 1 \/ (checked' = checked + 1 /\ mainWait' = mainWait)
              \/ (checked' = checked + 1 /\ mainWait' = mainWait - 1)
          BY <2>1, <2>2, <2>6
        <4> QED BY <3>1, <4>1, <4>2, <2>4, <2>5, <2>6, <1>1, <1>2
      <3> QED BY <3>2, <3>3
    <2>8. UavInTime'
      <3>1. uavPc # "none" => "uavcan" \in created
        BY DEF SupervisionInv, Places
      <3>2. CASE uavPc = "ended" /\ ~prolonged
        <4>1. silence["uavcan"] + MainLeft <= 2
          BY <3>2, <1>6 DEF SupervisionInv, UavInTime
        <4>2. mainPc \notin {"check", "decide"}
          BY <3>2, <2>2, <1>2 DEF SupervisionInv, Places
        <4>3. MainLeft' = MainLeft - 1 /\ MainLeft \in Nat
          BY <4>2, <3>2, <1>1, <1>2, <2>2 DEF MainLeft
        <4> QED BY <4>1, <4>3, <3>1, <3>2, <2>4, <1>1 DEF UavInTime
      <3>3. CASE uavPc \notin {"none", "ended", "verify"} /\ ~prolonged
        <4>1. silence["uavcan"] + uavWait <= UavLimit
          BY <3>3, <1>6 DEF SupervisionInv, UavInTime
        <4>2. silence'["uavcan"] + uavWait' <= UavLimit'
          BY <4>1, <3>1, <3>3, <1>1, <1>2, <2>3, <2>4, <2>5
        <4> QED BY <4>2, <3>3, <1>1 DEF UavInTime
      <3>4. CASE uavPc = "verify" /\ ~prolonged
        <4>1. silence["uavcan"] <= ResponseTicks + checked
          BY <3>4, <1>6 DEF SupervisionInv, UavInTime
        <4>2. silence'["uavcan"] <= ResponseTicks + checked'
          BY <4>1, <3>1, <3>4, <1>1, <1>2, <2>1, <2>4
        <4> QED BY <4>2, <3>4, <1>1 DEF UavInTime
      <3>5. CASE uavPc = "none" \/ prolonged
        BY <3>5, <1>1 DEF UavInTime
      <3> QED BY <3>2, <3>3, <3>4, <3>5
    <2> QED BY <1>4, <2>7, <2>8 DEF SupervisionInv
  <1> QED BY <1>5, <1>6

(* The invariant of the two programs, for any number of postponements and any  *)
(* length of the checks: what main() and the UAVCAN thread have been silent    *)
(* for, apart from those.                                                      *)
THEOREM ProgramsInTime == Spec => []SupervisionInv
  <1>1. Init => SupervisionInv
    <2> SUFFICES ASSUME Init PROVE SupervisionInv
      OBVIOUS
    <2>1. Places
      BY DEF Init, WatchdogOff, Expired, Places, Timers, MainPlaces, UavPlaces
    <2> QED BY <2>1 DEF Init, WatchdogOff, SupervisionInv, MainInTime, UavInTime
  <1>2. TypeInv /\ SupervisionInv /\ [Next]_vars => SupervisionInv'
    <2> SUFFICES ASSUME TypeInv, SupervisionInv, [Next]_vars PROVE SupervisionInv'
      OBVIOUS
    <2>1. CASE MainStep
      BY <2>1, BootStartStep, BootLoopStep, RestartStep DEF MainStep
    <2>2. CASE UavStep \/ Postponed \/ BeginFirmwareUpdate
      BY <2>2, UavcanStep, UnfedStep
    <2>3. CASE AppStep
      BY <2>3, ApplicationStep, RestartStep DEF AppStep
    <2>4. CASE \/ RestartNode \/ UpdateRequested \/ AppRestartNode \/ BootDelayExpires
               \/ CanFails \/ CanRecovers \/ \E t \in Thread : Hang(t)
      BY <2>4, InstantStep
    <2>5. CASE PowerFails \/ WatchdogFires
      BY <2>5, RestartStep
    <2>6. CASE Tick
      BY <2>6, TimeStep
    <2>7. CASE UNCHANGED vars
      <3>1. UNCHANGED <<mainPc, mainWait, reboot, checked, uavPc, uavWait, prolonged, hung,
                        created, running, left, silence>>
        BY <2>7 DEF vars, wdg, boot, uav, env
      <3>2. Places'
        BY <3>1 DEF SupervisionInv, Places, Timers, Expired, OfApp
      <3>3. MainInTime' /\ UavInTime'
        BY <3>1 DEF SupervisionInv, MainInTime, MainLimit, MainRest, UavInTime, UavLimit, MainLeft
      <3> QED BY <3>2, <3>3 DEF SupervisionInv
    <2> QED BY <2>1, <2>2, <2>3, <2>4, <2>5, <2>6, <2>7 DEF Next
  <1>3. WatchdogInv => TypeInv
    BY DEF WatchdogInv
  <1> QED BY <1>1, <1>2, <1>3, UsesWatchdog, WatchdogInvariance, PTL DEF Spec

(* AlarmIsExplained, the calls of wdt.reset() of both programs: the IWDG       *)
(* resets the MCU because of a thread that hangs, of a wait that other nodes   *)
(* prolonged (however often), or of a check of the image that was not quick    *)
(* (however long), and of nothing else.                                        *)
THEOREM AlarmsAreExplained == Spec => []AlarmIsExplained
  <1>1. WatchdogInv /\ NoFalseAlarm /\ SupervisionInv => AlarmIsExplained
    <2> SUFFICES ASSUME WatchdogInv, NoFalseAlarm, SupervisionInv, Expired, hung = {}, ~prolonged,
                        ~(checked > QuickTicks)
                 PROVE  FALSE
      BY DEF AlarmIsExplained
    <2>1. created # {}
      BY DEF SupervisionInv, Places
    <2>2. PICK t \in created : silence[t] >= Timeout
      BY <2>1 DEF NoFalseAlarm
    <2>3. silence[t] \in Nat /\ mainWait \in Nat /\ uavWait \in Nat /\ checked \in Nat
      BY DEF WatchdogInv, TypeInv, SupervisionInv, Places
    <2>4. CASE t # "uavcan"
      <3>1. silence[t] + MainRest <= MainLimit + checked
        BY <2>4 DEF SupervisionInv, MainInTime
      <3> QED BY <3>1, <2>2, <2>3, Ticks DEF MainLimit, MainRest
    <2>5. CASE t = "uavcan"
      <3>1. uavPc # "none"
        BY <2>5 DEF SupervisionInv, Places
      <3>2. CASE uavPc = "ended"
        <4>1. silence[t] + MainLeft <= 2 /\ MainLeft \in Nat
          BY <2>5, <3>2, TwoThreads DEF SupervisionInv, UavInTime
        <4> QED BY <4>1, <2>2, <2>3, Ticks
      <3>3. CASE uavPc = "verify"
        <4>1. silence[t] <= ResponseTicks + checked
          BY <2>5, <3>3 DEF SupervisionInv, UavInTime
        <4> QED BY <4>1, <2>2, <2>3, Ticks
      <3>4. CASE uavPc \notin {"ended", "verify"}
        <4>1. silence[t] + uavWait <= UavLimit
          BY <2>5, <3>1, <3>4 DEF SupervisionInv, UavInTime
        <4>2. UavLimit < Timeout /\ UavLimit \in Nat
          BY Ticks DEF UavLimit
        <4> QED BY <4>1, <4>2, <2>2, <2>3, Ticks
      <3> QED BY <3>2, <3>3, <3>4
    <2> QED BY <2>4, <2>5
  <1> QED BY <1>1, UsesWatchdog, WatchdogInvariance, NoFalseAlarms, ProgramsInTime, PTL
=============================================================================
