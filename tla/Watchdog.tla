------------------------------ MODULE Watchdog ------------------------------
(* One hardware watchdog (IWDG) for several threads:                           *)
(* src/bootloader/src/watchdog_stm32.cpp and its copy src/src/os.  Every       *)
(* thread has a timer of its own, a bit of a mask; the IWDG is reloaded when   *)
(* all bits are set, and then all are cleared.  All callers ask for the same   *)
(* timeout.  The mask is the set of the threads whose bit is set.              *)
EXTENDS Integers

CONSTANTS
    Thread,     \* those that may create a timer
    Timeout     \* ticks of the IWDG

ASSUME TimeoutAssumption == Timeout \in Nat \ {0}

VARIABLES
    created,    \* the timers that exist, _num_watchdogs of them
    mask,       \* _mask
    timeout,    \* _wdg_timeout_ms, in ticks
    running,    \* the IWDG was started and cannot be stopped
    left,       \* ticks until the IWDG resets the MCU
    silence     \* ticks since each thread last reset its timer

wdg == <<created, mask, timeout, running, left, silence>>

WatchdogOff ==
    /\ created = {}
    /\ mask = {}
    /\ timeout = 0
    /\ running = FALSE
    /\ left = Timeout
    /\ silence = [t \in Thread |-> 0]

(* watchdogInit() at the start of a program.  The IWDG itself goes on if the   *)
(* program before this one has started it.                                     *)
WatchdogInit ==
    /\ created' = {}
    /\ mask' = {}
    /\ timeout' = 0
    /\ silence' = [t \in Thread |-> 0]
    /\ UNCHANGED <<running, left>>

WatchdogCreateUnset(t) ==       \* mutant: the bit is not set
    /\ t \notin created
    /\ created' = created \union {t}
    /\ silence' = [silence EXCEPT ![t] = 0]
    /\ IF Timeout > timeout
       THEN timeout' = Timeout /\ running' = TRUE /\ left' = Timeout
       ELSE UNCHANGED <<timeout, running, left>>
    /\ UNCHANGED mask

(* watchdogCreate().  The bit is set at once; only a longer timeout than the   *)
(* present one reaches setTimeout(), which reloads the IWDG and starts it.     *)
WatchdogCreate(t) ==
    /\ t \notin created
    /\ created' = created \union {t}
    /\ mask' = mask \union {t}
    /\ silence' = [silence EXCEPT ![t] = 0]
    /\ IF Timeout > timeout
       THEN timeout' = Timeout /\ running' = TRUE /\ left' = Timeout
       ELSE UNCHANGED <<timeout, running, left>>

WatchdogResetKeepsMask(t) ==    \* mutant: the bits are not cleared
    /\ t \in created
    /\ silence' = [silence EXCEPT ![t] = 0]
    /\ mask' = mask \union {t}
    /\ left' = IF mask' = created THEN Timeout ELSE left
    /\ UNCHANGED <<created, timeout, running>>

(* watchdogReset().                                                            *)
WatchdogReset(t) ==
    /\ t \in created
    /\ silence' = [silence EXCEPT ![t] = 0]
    /\ IF mask \union {t} = created
       THEN left' = Timeout /\ mask' = {}
       ELSE left' = left /\ mask' = mask \union {t}
    /\ UNCHANGED <<created, timeout, running>>

(* A tick of the IWDG.                                                         *)
WatchdogTick ==
    /\ running => left > 0
    /\ left' = IF running THEN left - 1 ELSE left
    /\ silence' = [t \in Thread |-> IF t \in created THEN silence[t] + 1 ELSE silence[t]]
    /\ UNCHANGED <<created, mask, timeout, running>>

(* The reset of the MCU, by the IWDG or otherwise, stops the IWDG; with it the *)
(* program starts again and calls watchdogInit().                              *)
McuReset ==
    /\ created' = {}
    /\ mask' = {}
    /\ timeout' = 0
    /\ running' = FALSE
    /\ left' = Timeout
    /\ silence' = [t \in Thread |-> 0]

Expired == running /\ left = 0

WatchdogNext ==
    \/ WatchdogInit
    \/ \E t \in Thread : WatchdogCreate(t) \/ WatchdogReset(t)
    \/ WatchdogTick
    \/ McuReset

WatchdogSpec == WatchdogOff /\ [][WatchdogNext]_wdg

-----------------------------------------------------------------------------
(* A thread that hangs is noticed within two timeouts, however often the other *)
(* threads reset their timers: one bit that it set just before it hung serves  *)
(* one more reload, and not a second one.                                      *)
HungIsNoticed == \A t \in created : silence[t] <= 2 * Timeout

(* The IWDG only fires when some thread did not reset its timer for a whole    *)
(* timeout: bits of threads that are in time never wait for one another that   *)
(* long.                                                                       *)
NoFalseAlarm == Expired /\ created # {} => \E t \in created : silence[t] >= Timeout
=============================================================================
