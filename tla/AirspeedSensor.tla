--------------------------- MODULE AirspeedSensor ----------------------------
(* The thread that measures and broadcasts the airspeed                        *)
(* (src/src/airspeed_sensor.cpp) and its driver (src/src/driver_4525D.hpp).    *)
(*                                                                             *)
(* The system time is a counter that wraps: 16 bits at 10 kHz, 6.55 s.         *)
(* chThdSleepUntil() has no past: a thread that sleeps until a time that has   *)
(* passed sleeps almost that long, and for ever if the time has passed by one  *)
(* tick, for the difference is TIME_INFINITE then.  Times are in ticks of the  *)
(* system time, which the runs make coarser; a successful I2C transfer takes   *)
(* none, a failing one none or its timeout, and saving the configuration halts *)
(* the CPU for some (src/src/config/config.h:60).                              *)
EXTENDS Integers

CONSTANTS
    Wrap,           \* values of systime_t
    Periods,        \* US2ST(pub_perion_usec.get())
    ReadAfter,      \* MS2ST(5): more than that until a measurement is read
    FreshPressure,  \* MS2ST(100)
    FreshTemp,      \* MS2ST(50)
    StartTimeout,   \* 10 ms, of the transfer that starts a measurement
    ReadTimeout,    \* 5 ms, of the transfer that reads it
    StallTicks,     \* the CPU halted by one page of the flash
    MaxFaults       \* bound on halts and on failures of the sensor

(* A period is 10 ms to 1 s (airspeed_sensor.cpp:16), less than 6.55 s.        *)
ASSUME TimesAssumption ==
    /\ Wrap \in Nat
    /\ Periods \subseteq 1 .. Wrap - 2 /\ Periods # {}
    /\ FreshTemp \in 0 .. FreshPressure /\ FreshPressure \in 0 .. Wrap - 1
    /\ {ReadAfter, StartTimeout, ReadTimeout, StallTicks, MaxFaults} \subseteq Nat

VARIABLES
    now,        \* chVTGetSystemTime()
    pc,         \* where the thread is
    address,    \* index of _address in _posibble_address; 0 is none
    _measurement_started,
    _last_sample_time,
    slp_until,
    sleep,      \* what is left of the sleep
    busy,       \* what is left of a timeout or a halt
    published,  \* what the last broadcast held as valid
    reboot,     \* Hardware::isRebootRequested()
    sensor,     \* the place in _posibble_address of the sensor's address
    broken,     \* it does not answer, or not with a measurement
    faults,
    age,        \* history: time since the last sample, or since the start
    silence,    \* history: time since the last broadcast
    hit,        \* history: a halt or a failed transfer since the last broadcast
    spoiled     \* history: one before it

driver == <<address, _measurement_started, _last_sample_time>>
external == <<reboot, sensor, broken, faults>>
history == <<age, silence, hit, spoiled>>
vars == <<now, pc, driver, slp_until, sleep, busy, published, external, history>>

\* Differences of system times are taken modulo the width of systime_t.
Since(time) == (now - time) % Wrap

Init ==
    /\ now = 0
    /\ pc = "init"
    /\ address = 1
    /\ _measurement_started = 0 /\ _last_sample_time = 0
    /\ slp_until = 0 /\ sleep = 0 /\ busy = 0
    /\ published = [pressure |-> FALSE, temperature |-> FALSE]
    /\ reboot = FALSE
    /\ sensor \in 1 .. 3
    /\ broken \in BOOLEAN
    /\ faults = 0
    /\ age = 0 /\ silence = 0 /\ hit = FALSE /\ spoiled = FALSE

Running(at) == pc = at /\ busy = 0

-----------------------------------------------------------------------------
(* The driver.                                                                 *)

Answers == ~broken /\ address = sensor

\* _receive_data() failed, at once or in its timeout.
Fails(timeout) == ~Answers /\ busy' \in 0 .. timeout
NotesFailure == hit' = (hit \/ ~Answers) /\ UNCHANGED <<silence, spoiled>>

\* _start_measurement().  Time 0 is also the mark of no measurement.
StartMeasurement ==
    \/ /\ Answers
       /\ _measurement_started' = now
       /\ UNCHANGED busy
    \/ /\ Fails(StartTimeout)
       /\ _measurement_started' = 0

\* Mutation: the deadline is not set.
TryWithoutDeadline ==
    /\ Running("init")
    /\ StartMeasurement
    /\ IF _measurement_started' # 0
       THEN /\ pc' = "cycle"
            /\ silence' = 0 /\ hit' = FALSE /\ spoiled' = FALSE
            /\ UNCHANGED <<address, slp_until>>
       ELSE /\ pc' = IF address = 3 THEN "retry" ELSE "init"
            /\ address' = IF address = 3 THEN 1 ELSE address + 1
            /\ UNCHANGED <<slp_until, silence, hit, spoiled>>
    /\ UNCHANGED <<now, _last_sample_time, sleep, published, external, age>>

\* Mutation: only the first address is tried.
TryFirstAddress ==
    /\ Running("init")
    /\ StartMeasurement
    /\ IF _measurement_started' # 0
       THEN /\ pc' = "cycle"
            /\ slp_until' = now
            /\ silence' = 0 /\ hit' = FALSE /\ spoiled' = FALSE
            /\ UNCHANGED address
       ELSE /\ pc' = "retry"
            /\ address' = 1
            /\ UNCHANGED <<slp_until, silence, hit, spoiled>>
    /\ UNCHANGED <<now, _last_sample_time, sleep, published, external, age>>

\* init() tries the addresses in turn.
TryAddress ==
    /\ Running("init")
    /\ StartMeasurement
    /\ IF _measurement_started' # 0
       THEN /\ pc' = "cycle"
            /\ slp_until' = now
            /\ silence' = 0 /\ hit' = FALSE /\ spoiled' = FALSE
            /\ UNCHANGED address
       ELSE /\ pc' = IF address = 3 THEN "retry" ELSE "init"
            /\ address' = IF address = 3 THEN 1 ELSE address + 1
            /\ UNCHANGED <<slp_until, silence, hit, spoiled>>
    /\ UNCHANGED <<now, _last_sample_time, sleep, published, external, age>>

\* No address answered.  The thread tries again without a sleep; what the three
\* transfers took is a tick.
Retry ==
    /\ Running("retry")
    /\ pc' = IF reboot THEN "ended" ELSE "init"
    /\ busy' = 1
    /\ UNCHANGED <<now, driver, slp_until, sleep, published, external, history>>

\* Mutation: the time of a rejected measurement is noted too.
GetDataUnchecked ==
    /\ Running("get")
    /\ pc' = "start"
    /\ _measurement_started' = 0
    /\ \/ Answers /\ age' = 0 /\ UNCHANGED busy
       \/ Fails(ReadTimeout) /\ UNCHANGED age
    /\ _last_sample_time' = now
    /\ NotesFailure
    /\ UNCHANGED <<now, address, slp_until, sleep, published, external>>

\* _get_data().  A status or a value that is no measurement is as good as no
\* answer.
GetData ==
    /\ Running("get")
    /\ pc' = "start"
    /\ _measurement_started' = 0
    /\ \/ /\ Answers
          /\ _last_sample_time' = now
          /\ age' = 0
          /\ UNCHANGED busy
       \/ /\ Fails(ReadTimeout)
          /\ UNCHANGED <<_last_sample_time, age>>
    /\ NotesFailure
    /\ UNCHANGED <<now, address, slp_until, sleep, published, external>>

\* The measurement poll() starts.
StartNext ==
    /\ Running("start")
    /\ StartMeasurement
    /\ pc' = "publish"
    /\ NotesFailure
    /\ UNCHANGED <<now, address, _last_sample_time, slp_until, sleep, published,
                   external, age>>

-----------------------------------------------------------------------------
(* The thread.                                                                 *)

\* The head of the loop, and what poll() decides.
BeginCycle ==
    /\ Running("cycle")
    /\ IF reboot
       THEN pc' = "ended" /\ UNCHANGED slp_until
       ELSE /\ \E period \in Periods : slp_until' = (slp_until + period) % Wrap
            /\ pc' = IF _measurement_started = 0 THEN "start"
                     ELSE IF Since(_measurement_started) > ReadAfter THEN "get"
                     ELSE "publish"
    /\ UNCHANGED <<now, driver, sleep, busy, published, external, history>>

\* chThdSleepUntil() down to chSchGoSleepTimeoutS(): a difference of TIME_INFINITE
\* arms no timer, and nothing else wakes this thread.
TIME_INFINITE == Wrap - 1
SleepUntil(time) ==
    LET ticks == (time - now) % Wrap
    IN  IF ticks = TIME_INFINITE
        THEN pc' = "lost" /\ sleep' = 0
        ELSE pc' = "sleep" /\ sleep' = ticks

\* get_pressure(), get_temperature() and publish(), which also sets the health,
\* then chThdSleepUntil().
Publish ==
    /\ Running("publish")
    /\ published' = [pressure    |-> Since(_last_sample_time) <= FreshPressure,
                     temperature |-> Since(_last_sample_time) <= FreshTemp]
    /\ SleepUntil(slp_until)
    /\ silence' = 0 /\ hit' = FALSE /\ spoiled' = hit
    /\ UNCHANGED <<now, driver, slp_until, busy, external, age>>

Wake ==
    /\ Running("sleep")
    /\ sleep = 0
    /\ pc' = "cycle"
    /\ UNCHANGED <<now, driver, slp_until, sleep, busy, published, external, history>>

-----------------------------------------------------------------------------
(* The world around it.                                                        *)

Pred(n) == IF n = 0 THEN 0 ELSE n - 1
Atmost(n, bound) == IF n < bound THEN n ELSE bound

Longest == CHOOSE p \in Periods : \A q \in Periods : q <= p

\* What faults can add to the work of a cycle.
Work == MaxFaults * (StallTicks + StartTimeout + ReadTimeout)

\* Time passes while the thread waits.
Tick ==
    /\ busy > 0 \/ sleep > 0 \/ pc = "lost"
    /\ now' = (now + 1) % Wrap
    /\ busy' = Pred(busy)
    /\ sleep' = Pred(sleep)
    /\ age' = Atmost(age + 1, Wrap)
    /\ silence' = Atmost(silence + 1, Wrap + Work + 1)
    /\ UNCHANGED <<pc, driver, slp_until, published, external, hit, spoiled>>

\* The configuration is saved.
Stall ==
    /\ faults < MaxFaults
    /\ pc # "ended"
    /\ faults' = faults + 1
    /\ busy' = busy + StallTicks
    /\ hit' = TRUE
    /\ UNCHANGED <<now, pc, driver, slp_until, sleep, published, reboot, sensor,
                   broken, age, silence, spoiled>>

Break ==
    /\ faults < MaxFaults
    /\ ~broken
    /\ faults' = faults + 1
    /\ broken' = TRUE
    /\ UNCHANGED <<now, pc, driver, slp_until, sleep, busy, published, reboot,
                   sensor, history>>

Mend ==
    /\ broken
    /\ broken' = FALSE
    /\ UNCHANGED <<now, pc, driver, slp_until, sleep, busy, published, reboot,
                   sensor, faults, history>>

RequestReboot ==
    /\ ~reboot
    /\ reboot' = TRUE
    /\ UNCHANGED <<now, pc, driver, slp_until, sleep, busy, published, sensor,
                   broken, faults, history>>

ThreadStep == TryAddress \/ Retry \/ GetData \/ StartNext \/ BeginCycle \/ Publish \/ Wake

Next == ThreadStep \/ Tick \/ Stall \/ Break \/ Mend \/ RequestReboot

\* The thread runs when it is ready, and time passes.
Spec == Init /\ [][Next]_vars /\ WF_vars(ThreadStep) /\ WF_vars(Tick)

-----------------------------------------------------------------------------
\* A measurement is broadcast as valid, and the health is OK, only while the
\* last good sample is young.  The comparison of wrapping times forgets how
\* often they wrapped: what is older than a wrap may count again.  (A sample
\* that was never taken counts as taken at time 0.)
StaleIsNotPublished ==
    [][Publish /\ published'.pressure => age <= FreshPressure \/ age >= Wrap]_vars

\* A halt or a failed transfer can make the thread miss its time to wake.  Then
\* it is silent for the time the clock takes to wrap, and not longer, or, if it
\* is late by exactly one tick, for ever.  Without a halt or a failed transfer
\* in this cycle or the one before it neither happens, and the broadcasts do not
\* drift.
SilenceIsBounded ==
    pc \notin {"init", "retry", "ended"} =>
        IF pc = "lost" THEN spoiled
        ELSE silence <= IF hit \/ spoiled THEN Wrap + Work ELSE Longest

\* A sensor that works again is measured again, and stays valid, at any address
\* and whatever happened before, unless the thread sleeps for ever; time 0 as
\* the mark of no measurement costs a cycle and not more.
SensorRecovers ==
    <>[](~broken /\ ~reboot /\ pc # "lost") =>
        /\ <>[](published.pressure /\ published.temperature)
        /\ []<><<Publish>>_vars

\* "if you call this function exceeding your calculated intervals then the
\* function will return in a far future time" (chthreads.c:662): it returns.
SleepEnds == pc \in {"sleep", "lost"} ~> pc = "cycle"
=============================================================================
