------------------------ MODULE AirspeedSensorProofs ------------------------
(* For any width of the system time, any periods and timeouts and any number   *)
(* of faults: how old a published sample is, and how long the thread of the    *)
(* airspeed sensor can be silent, and when for ever.                           *)
EXTENDS AirspeedSensor, WellFoundedInduction, TLAPS

(* The times are numbers.                                                      *)
LEMMA Times ==
    /\ Wrap \in Nat \ {0} /\ FreshPressure \in 0 .. Wrap - 1
    /\ Periods \subseteq 1 .. Wrap - 2
    /\ ReadAfter \in Nat /\ StartTimeout \in Nat /\ ReadTimeout \in Nat
    /\ StallTicks \in Nat /\ MaxFaults \in Nat
  BY TimesAssumption DEF TimesAssumption

-----------------------------------------------------------------------------
(* Times that wrap.                                                            *)

(* now + 1 in the width of systime_t.                                          *)
LEMMA NextTime ==
    ASSUME NEW t \in 0 .. Wrap - 1
    PROVE  (t + 1) % Wrap = IF t = Wrap - 1 THEN 0 ELSE t + 1
  BY TimesAssumption DEF TimesAssumption

(* slp_until += period in the width of systime_t.                              *)
LEMMA LaterTime ==
    ASSUME NEW t \in 0 .. Wrap - 1, NEW d \in 0 .. Wrap - 1
    PROVE  (t + d) % Wrap = IF t + d < Wrap THEN t + d ELSE t + d - Wrap
  BY TimesAssumption DEF TimesAssumption

(* The difference of two times, as chVTTimeElapsedSinceX() takes it.           *)
LEMMA Difference ==
    ASSUME NEW t \in 0 .. Wrap - 1, NEW u \in 0 .. Wrap - 1
    PROVE  (t - u) % Wrap = IF u <= t THEN t - u ELSE t - u + Wrap
  BY TimesAssumption DEF TimesAssumption

(* Among the periods the parameter can hold there is a longest one.            *)
LEMMA LongestPeriod == Longest \in Periods /\ \A q \in Periods : q <= Longest
  <1> USE DEF TimesAssumption
  <1> DEFINE Rest == {Wrap - p : p \in Periods}
  <1>1. Rest \subseteq Nat /\ Rest # {}
    <2>1. \A p \in Periods : Wrap - p \in Nat
      BY TimesAssumption
    <2>2. PICK p \in Periods : TRUE
      BY TimesAssumption
    <2>3. Wrap - p \in Rest
      BY <2>2
    <2> QED BY <2>1, <2>3
  <1>2. PICK r \in Rest : \A q \in Rest : <<q, r>> \notin OpToRel(<, Nat)
    <2> HIDE DEF Rest
    <2> QED BY <1>1, NatLessThanWellFounded, WFMin
  <1>3. PICK p \in Periods : r = Wrap - p
    BY <1>2
  <1>4. \A q \in Periods : q <= p
    <2> TAKE q \in Periods
    <2>1. Wrap - q \in Rest /\ Wrap - q \in Nat /\ r \in Nat
      BY <1>1
    <2>2. ~(Wrap - q < r)
      BY <2>1, <1>2 DEF OpToRel
    <2> QED BY <2>2, <1>3, TimesAssumption
  <1>5. \E p_1 \in Periods : \A q \in Periods : q <= p_1
    BY <1>4
  <1> QED BY <1>5, Zenon DEF Longest

(* More halts take more time.                                                  *)
LEMMA MoreFaults ==
    ASSUME NEW m \in Nat, NEW n \in Nat, m <= n
    PROVE  /\ m * StallTicks \in Nat /\ n * StallTicks \in Nat
           /\ m * StallTicks <= n * StallTicks
  <1>1. PICK k \in Nat : n = m + k
    <2>1. n - m \in Nat /\ n = m + (n - m)
      OBVIOUS
    <2> QED BY <2>1
  <1>2. n * StallTicks = m * StallTicks + k * StallTicks
    BY <1>1, Times
  <1>3. k * StallTicks \in Nat /\ m * StallTicks \in Nat
    BY Times
  <1> QED BY <1>2, <1>3

-----------------------------------------------------------------------------
(* The inductive invariant.                                                    *)

(* Where the thread measures and broadcasts.                                   *)
Loop == {"cycle", "get", "start", "publish", "sleep"}

TypeInv ==
    /\ now \in 0 .. Wrap - 1 /\ slp_until \in 0 .. Wrap - 1
    /\ _last_sample_time \in 0 .. Wrap - 1
    /\ pc \in Loop \union {"init", "retry", "ended", "lost"}
    /\ sleep \in 0 .. Wrap - 1 /\ busy \in Nat
    /\ faults \in 0 .. MaxFaults
    /\ broken \in BOOLEAN /\ hit \in BOOLEAN /\ spoiled \in BOOLEAN
    /\ age \in 0 .. Wrap /\ silence \in Nat

(* The time of the last sample tells its age until the clock has wrapped.      *)
SampleAge ==
    age < Wrap => \/ age = now - _last_sample_time
                  \/ age = now - _last_sample_time + Wrap

\* Time t is d after the present one.
Ahead(t, d) == t = now + d \/ t = now + d - Wrap

(* A cycle that no halt and no failed transfer disturbs begins when it should, *)
(* takes no time but its sleep, and ends before the next is due.               *)
Punctual ==
    ~hit =>
        /\ pc \in Loop => busy = 0
        /\ pc = "sleep" => Ahead(slp_until, sleep)
        /\ pc = "cycle" => slp_until = now
        /\ pc \in {"get", "start", "publish"} => \E p \in Periods : Ahead(slp_until, p)
        /\ pc \in Loop /\ ~spoiled => silence + sleep <= Longest

\* What the transfers of this cycle may have taken.
Spent == IF pc = "start" THEN ReadTimeout
         ELSE IF pc = "publish" THEN ReadTimeout + StartTimeout
         ELSE 0

(* A disturbed cycle sleeps less than a wrap, or for ever, and what else it    *)
(* takes is due to faults: the transfers fail only after one.                  *)
Delayed ==
    /\ pc # "sleep" => sleep = 0
    /\ pc = "lost" => spoiled
    /\ pc \in Loop =>
        /\ address = sensor
        /\ broken => faults > 0
        /\ silence + sleep + busy <=
               Wrap - 1 + faults * StallTicks + IF faults = 0 THEN 0 ELSE Spent

SensorInv == TypeInv /\ SampleAge /\ Punctual /\ Delayed

(* The initial state.                                                          *)
LEMMA SensorInit == Init => SensorInv
  <1> SUFFICES ASSUME Init PROVE SensorInv
    OBVIOUS
  <1> USE Times DEF Init
  <1>1. TypeInv
    <2>1. broken \in BOOLEAN /\ hit \in BOOLEAN /\ spoiled \in BOOLEAN
      BY Zenon
    <2> QED BY <2>1 DEF TypeInv
  <1>2. SampleAge
    BY DEF SampleAge
  <1>3. Punctual /\ Delayed
    BY DEF Punctual, Delayed, Loop
  <1> QED BY <1>1, <1>2, <1>3 DEF SensorInv

(* The steps of the driver that look for the sensor.                           *)
LEMMA TryAddressStep == SensorInv /\ (TryAddress \/ Retry) => SensorInv'
  <1> SUFFICES ASSUME SensorInv, TryAddress \/ Retry PROVE SensorInv'
    OBVIOUS
  <1> USE Times, LongestPeriod DEF SensorInv, TypeInv, Loop, Running, external, driver
  <1>1. CASE TryAddress
    <2> USE <1>1 DEF TryAddress, StartMeasurement, Answers, Fails
    <2>1. TypeInv'
      <3>1. UNCHANGED <<now, _last_sample_time, sleep, faults, broken, age>>
        OBVIOUS
      <3>2. pc' \in {"cycle", "init", "retry"} /\ busy' \in Nat
        OBVIOUS
      <3>3. slp_until' \in {slp_until, now} /\ silence' \in {silence, 0}
        OBVIOUS
      <3>4. hit' \in BOOLEAN /\ spoiled' \in BOOLEAN
        BY Zenon
      <3> QED BY <3>1, <3>2, <3>3, <3>4
    <2>2. SampleAge'
      BY DEF SampleAge
    <2>3. CASE pc' = "cycle"
      <3>1. /\ address' = sensor' /\ ~broken' /\ slp_until' = now' /\ silence' = 0
            /\ busy' = 0 /\ sleep' = 0 /\ faults' = faults
        BY <2>3 DEF Delayed
      <3>2. Longest \in Nat /\ faults * StallTicks \in Nat /\ Wrap \in Nat \ {0}
        OBVIOUS
      <3>3. Punctual'
        BY <2>3, <3>1, <3>2 DEF Punctual
      <3>4. Delayed'
        BY <2>3, <3>1, <3>2 DEF Delayed, Spent
      <3> QED BY <2>1, <2>2, <3>3, <3>4
    <2>4. CASE pc' # "cycle"
      <3>1. pc' \in {"init", "retry"}
        BY <2>4
      <3> QED BY <2>1, <2>2, <3>1 DEF Punctual, Delayed
    <2> QED BY <2>3, <2>4
  <1>2. CASE Retry
    BY <1>2 DEF Retry, history, SampleAge, Punctual, Delayed
  <1> QED BY <1>1, <1>2

(* The transfers of a cycle: one that fails is noted, and takes its timeout.   *)
LEMMA TransferStep == SensorInv /\ (GetData \/ StartNext) => SensorInv'
  <1> SUFFICES ASSUME SensorInv, GetData \/ StartNext PROVE SensorInv'
    OBVIOUS
  <1> USE Times DEF SensorInv, TypeInv, Loop, Running, external, driver
  <1>1. /\ UNCHANGED <<now, slp_until, sleep, address, sensor, broken, faults>>
        /\ UNCHANGED <<silence, spoiled>>
        /\ hit' = (hit \/ ~Answers)
        /\ busy = 0
    BY DEF GetData, StartNext, NotesFailure
  <1>2. \/ pc = "get" /\ pc' = "start"
        \/ pc = "start" /\ pc' = "publish"
    BY DEF GetData, StartNext
  <1>3. \/ Answers /\ busy' = 0
        \/ ~Answers /\ pc = "get" /\ busy' \in 0 .. ReadTimeout
        \/ ~Answers /\ pc = "start" /\ busy' \in 0 .. StartTimeout
    BY DEF GetData, StartNext, StartMeasurement, Fails
  <1>4. \/ UNCHANGED <<_last_sample_time, age>>
        \/ _last_sample_time' = now /\ age' = 0
    BY DEF GetData, StartNext
  <1>5. TypeInv'
    <2>1. busy' \in Nat
      BY <1>3
    <2>2. hit' \in BOOLEAN
      BY <1>1, Zenon
    <2> QED BY <1>1, <1>2, <1>4, <2>1, <2>2
  <1>6. SampleAge'
    BY <1>1, <1>4 DEF SampleAge
  <1>7. Punctual'
    <2>1. CASE Answers /\ ~hit
      <3>1. busy' = 0 /\ \E p \in Periods : Ahead(slp_until, p)
        BY <1>2, <1>3, <2>1 DEF Punctual
      <3>2. \E p \in Periods : Ahead(slp_until, p)'
        BY <3>1, <1>1 DEF Ahead
      <3> QED BY <3>1, <3>2, <2>1, <1>1, <1>2 DEF Punctual
    <2>2. CASE ~Answers \/ hit
      BY <2>2, <1>1 DEF Punctual
    <2> QED BY <2>1, <2>2
  <1>8. Delayed'
    <2>1. address = sensor /\ (broken => faults > 0) /\ sleep = 0
      BY <1>2 DEF Delayed
    <2>2. faults * StallTicks \in Nat
      OBVIOUS
    <2>3. ~Answers => faults > 0
      BY <2>1 DEF Answers
    <2> HIDE DEF SensorInv
    <2> QED BY <1>1, <1>2, <1>3, <2>1, <2>2, <2>3 DEF Delayed, Spent, SensorInv
  <1> QED BY <1>5, <1>6, <1>7, <1>8

(* The head of the loop sets the next deadline.                                *)
LEMMA BeginCycleStep == SensorInv /\ BeginCycle => SensorInv'
  <1> SUFFICES ASSUME SensorInv, BeginCycle PROVE SensorInv'
    OBVIOUS
  <1> USE Times DEF SensorInv, TypeInv, Loop, Running, external, driver, history, BeginCycle
  <1>1. CASE reboot
    BY <1>1 DEF SampleAge, Punctual, Delayed
  <1>2. CASE ~reboot
    <2>1. PICK period \in Periods : slp_until' = (slp_until + period) % Wrap
      BY <1>2
    <2>2. slp_until' = IF slp_until + period < Wrap THEN slp_until + period
                       ELSE slp_until + period - Wrap
      BY <2>1, LaterTime
    <2>3. pc = "cycle" /\ pc' \in {"start", "get", "publish"} /\ UNCHANGED now
      BY <1>2
    <2>4. TypeInv'
      BY <2>2, <2>3
    <2>5. Punctual'
      <3>1. slp_until = now => Ahead(slp_until, period)'
        BY <2>2, <2>3 DEF Ahead
      <3> QED BY <3>1, <2>3 DEF Punctual
    <2>6. SampleAge' /\ Delayed'
      BY <2>3 DEF SampleAge, Delayed, Spent
    <2> QED BY <2>4, <2>5, <2>6
  <1> QED BY <1>1, <1>2

(* A broadcast begins a new silence; the sleep that follows is the period when *)
(* nothing disturbed the cycle.  It is for ever only when something did, and   *)
(* below a wrap otherwise.                                                     *)
LEMMA PublishStep == SensorInv /\ Publish => SensorInv'
  <1> SUFFICES ASSUME SensorInv, Publish PROVE SensorInv'
    OBVIOUS
  <1> USE Times DEF SensorInv, TypeInv, Loop, Running, external, driver, Publish
  <1> DEFINE ticks == (slp_until - now) % Wrap
  <1>1. ticks = IF now <= slp_until THEN slp_until - now ELSE slp_until - now + Wrap
    BY Difference
  <1>2. /\ UNCHANGED <<now, slp_until, _last_sample_time, faults, broken, age, busy>>
        /\ UNCHANGED <<address, sensor>>
        /\ pc = "publish" /\ busy = 0
        /\ silence' = 0 /\ ~hit' /\ spoiled' = hit
    BY DEF Publish
  <1>3. ticks \in 0 .. Wrap - 1
    BY <1>1
  <1>4. IF ticks = Wrap - 1 THEN pc' = "lost" /\ sleep' = 0 ELSE pc' = "sleep" /\ sleep' = ticks
    BY DEF SleepUntil, TIME_INFINITE
  <1>5. ASSUME ~hit PROVE ticks <= Longest /\ ticks # Wrap - 1
    <2>1. PICK p \in Periods : Ahead(slp_until, p)
      BY <1>2, <1>5 DEF Punctual
    <2>2. ticks = p
      BY <2>1, <1>1 DEF Ahead
    <2> QED BY <2>2, LongestPeriod
  <1> HIDE DEF ticks
  <1>6. sleep' \in 0 .. Wrap - 1 /\ pc' \in {"sleep", "lost"}
    BY <1>3, <1>4
  <1>7. TypeInv'
    <2>1. hit' \in BOOLEAN /\ spoiled' \in BOOLEAN
      BY <1>2, Zenon
    <2> QED BY <1>2, <1>6, <2>1
  <1>8. SampleAge'
    BY <1>2 DEF SampleAge
  <1>9. Punctual'
    <2>1. pc' = "sleep" => Ahead(slp_until, sleep)'
      BY <1>1, <1>2, <1>4 DEF Ahead
    <2>2. ~hit => sleep' <= Longest
      BY <1>4, <1>5
    <2>3. PICK w \in Nat : sleep' = w
      BY <1>6
    <2>4. busy' = 0 /\ silence' + sleep' = w
      BY <2>3, <1>2
    <2>5. ~spoiled' => silence' + sleep' <= Longest
      BY <2>2, <2>3, <2>4, <1>2
    <2> QED BY <2>1, <2>4, <2>5, <1>6 DEF Punctual
  <1>10. Delayed'
    <2>1. faults * StallTicks \in Nat
      OBVIOUS
    <2>2. pc' = "lost" => spoiled'
      BY <1>2, <1>4, <1>5
    <2>3. pc' # "sleep" => sleep' = 0
      BY <1>4
    <2>4. PICK w \in 0 .. Wrap - 1 : sleep' = w
      BY <1>6
    <2>5. PICK spent \in Nat : faults * StallTicks = spent
      BY <2>1
    <2>6. silence' + sleep' + busy' = w
      BY <2>4, <1>2
    <2>7. faults' * StallTicks = spent /\ Spent' = 0
      BY <2>5, <1>2, <1>6 DEF Spent
    <2>8. address' = sensor' /\ (broken' => faults' > 0)
      BY <1>2 DEF Delayed
    <2>9. w <= Wrap - 1 + spent + IF faults' = 0 THEN 0 ELSE 0
      BY <2>4, <2>5
    <2> QED BY <2>2, <2>3, <2>6, <2>7, <2>8, <2>9 DEF Delayed
  <1> QED BY <1>7, <1>8, <1>9, <1>10

(* The thread wakes; what is not disturbed wakes in time.                      *)
LEMMA WakeStep == SensorInv /\ Wake => SensorInv'
  <1> SUFFICES ASSUME SensorInv, Wake PROVE SensorInv'
    OBVIOUS
  <1> USE Times DEF SensorInv, TypeInv, Loop, Running, external, driver, history, Wake
  <1>1. TypeInv' /\ SampleAge'
    BY DEF SampleAge
  <1>2. Punctual'
    BY DEF Punctual, Ahead
  <1>3. Delayed'
    BY DEF Delayed, Spent
  <1> QED BY <1>1, <1>2, <1>3

(* Time passes: what is left of the sleep and of the timeouts grows shorter as *)
(* the silence grows longer.                                                   *)
LEMMA TickStep == SensorInv /\ Tick => SensorInv'
  <1> SUFFICES ASSUME SensorInv, Tick PROVE SensorInv'
    OBVIOUS
  <1> USE Times DEF SensorInv, TypeInv, Loop, external, driver, Tick
  <1>1. now' = IF now = Wrap - 1 THEN 0 ELSE now + 1
    BY NextTime
  <1>2. /\ UNCHANGED <<pc, slp_until, _last_sample_time, faults, broken, hit, spoiled>>
        /\ UNCHANGED <<address, sensor>>
    OBVIOUS
  <1>3. busy' = Pred(busy) /\ sleep' = Pred(sleep) /\ (busy > 0 \/ sleep > 0 \/ pc = "lost")
    OBVIOUS
  <1>4. silence' \in Nat /\ silence' <= silence + 1
    <2>1. Wrap + Work + 1 \in Nat
      BY DEF Work
    <2> HIDE DEF Work
    <2> QED BY <2>1 DEF Atmost
  <1>5. age' = IF age + 1 < Wrap THEN age + 1 ELSE Wrap
    BY DEF Atmost
  <1>6. TypeInv'
    BY <1>1, <1>2, <1>3, <1>4, <1>5 DEF Pred
  <1>7. SampleAge'
    BY <1>1, <1>2, <1>5 DEF SampleAge
  <1>8. Punctual'
    <2>1. CASE hit \/ pc \notin Loop
      BY <2>1, <1>2 DEF Punctual
    <2>2. CASE ~hit /\ pc \in Loop
      <3>1. busy = 0 /\ sleep > 0 /\ pc = "sleep"
        BY <2>2, <1>3 DEF Punctual, Delayed
      <3>2. busy' = 0 /\ sleep' = sleep - 1 /\ pc' = "sleep"
        BY <3>1, <1>2, <1>3 DEF Pred
      <3>3. Ahead(slp_until, sleep)'
        BY <2>2, <3>1, <3>2, <1>1, <1>2 DEF Punctual, Ahead
      <3>4. ~spoiled => silence + sleep <= Longest
        BY <2>2 DEF Punctual
      <3> QED BY <3>2, <3>3, <3>4, <1>2, <1>4, LongestPeriod DEF Punctual
    <2> QED BY <2>1, <2>2
  <1>9. Delayed'
    <2>1. faults * StallTicks \in Nat
      OBVIOUS
    <2>2. pc \in Loop => silence' + sleep' + busy' <= silence + sleep + busy
      BY <1>3, <1>4 DEF Pred
    <2>3. sleep = 0 => sleep' = 0
      BY <1>3 DEF Pred
    <2>4. Spent' = Spent /\ Spent \in Nat
      BY <1>2 DEF Spent
    <2> QED BY <2>1, <2>2, <2>3, <2>4, <1>2, <1>3, <1>4, <1>6 DEF Delayed
  <1> QED BY <1>6, <1>7, <1>8, <1>9

(* Saving the configuration halts the thread wherever it is.                   *)
LEMMA StallStep == SensorInv /\ Stall => SensorInv'
  <1> SUFFICES ASSUME SensorInv, Stall PROVE SensorInv'
    OBVIOUS
  <1> USE Times DEF SensorInv, TypeInv, Loop, driver, Stall
  <1>1. TypeInv' /\ SampleAge' /\ Punctual'
    BY DEF SampleAge, Punctual
  <1>2. Delayed'
    <2>1. faults' * StallTicks = faults * StallTicks + StallTicks
      OBVIOUS
    <2>2. faults * StallTicks \in Nat
      OBVIOUS
    <2>3. Spent' = Spent /\ Spent \in Nat
      BY DEF Spent
    <2> QED BY <2>1, <2>2, <2>3 DEF Delayed
  <1> QED BY <1>1, <1>2

(* What else goes on around the thread.                                        *)
LEMMA WorldStep == SensorInv /\ (Break \/ Mend \/ RequestReboot) => SensorInv'
  <1> SUFFICES ASSUME SensorInv, Break \/ Mend \/ RequestReboot PROVE SensorInv'
    OBVIOUS
  <1> USE Times DEF SensorInv, TypeInv, Loop, driver, history
  <1>1. /\ UNCHANGED <<now, pc, address, _last_sample_time, slp_until, sleep, busy>>
        /\ UNCHANGED <<sensor, age, silence, hit, spoiled>>
    BY DEF Break, Mend, RequestReboot
  <1>2. /\ broken' \in BOOLEAN /\ faults' \in 0 .. MaxFaults /\ faults <= faults'
        /\ broken' => broken \/ faults' > 0
    <2>1. CASE Break
      <3>1. broken' = TRUE /\ faults' = faults + 1 /\ faults < MaxFaults
        BY <2>1 DEF Break
      <3>2. broken' \in BOOLEAN
        BY <3>1, Zenon
      <3> QED BY <3>1, <3>2
    <2>2. CASE Mend
      <3>1. broken' = FALSE /\ faults' = faults
        BY <2>2 DEF Mend
      <3>2. broken' \in BOOLEAN
        BY <3>1, Zenon
      <3> QED BY <3>1, <3>2
    <2>3. CASE RequestReboot
      BY <2>3 DEF RequestReboot
    <2> QED BY <2>1, <2>2, <2>3
  <1>3. TypeInv' /\ SampleAge' /\ Punctual'
    BY <1>1, <1>2 DEF SampleAge, Punctual, Ahead
  <1>4. Delayed'
    <2>1. /\ faults * StallTicks \in Nat /\ faults' * StallTicks \in Nat
          /\ faults * StallTicks <= faults' * StallTicks
      <3>1. faults \in Nat /\ faults' \in Nat /\ faults <= faults'
        BY <1>2
      <3> QED BY <3>1, MoreFaults
    <2>2. Spent' = Spent /\ Spent \in Nat
      BY <1>1 DEF Spent
    <2>3. faults' = 0 => faults = 0
      BY <1>2
    <2>4. pc # "sleep" => sleep' = 0
      BY <1>1 DEF Delayed
    <2>5. ASSUME pc \in Loop
          PROVE  /\ address' = sensor' /\ (broken' => faults' > 0)
                 /\ silence' + sleep' + busy' <=
                        Wrap - 1 + faults' * StallTicks
                            + IF faults' = 0 THEN 0 ELSE Spent'
      <3>1. /\ address = sensor /\ (broken => faults > 0)
            /\ silence + sleep + busy <=
                   Wrap - 1 + faults * StallTicks + IF faults = 0 THEN 0 ELSE Spent
        BY <2>5 DEF Delayed
      <3>2. address' = sensor' /\ (broken' => faults' > 0)
        BY <3>1, <1>1, <1>2
      <3> DEFINE spent == faults * StallTicks
                 spent_1 == faults' * StallTicks
      <3>3. spent \in Nat /\ spent <= spent_1 /\ spent_1 \in Nat
        BY <2>1
      <3> HIDE DEF spent, spent_1
      <3>4. silence + sleep + busy <= Wrap - 1 + spent + IF faults = 0 THEN 0 ELSE Spent
        BY <3>1 DEF spent
      <3>5. silence' + sleep' + busy' <= Wrap - 1 + spent_1 + IF faults' = 0 THEN 0 ELSE Spent'
        BY <3>3, <3>4, <1>1, <2>2, <2>3
      <3> QED BY <3>2, <3>5 DEF spent_1
    <2> QED BY <1>1, <2>4, <2>5 DEF Delayed
  <1> QED BY <1>3, <1>4

LEMMA SensorStep == SensorInv /\ [Next]_vars => SensorInv'
  <1> SUFFICES ASSUME SensorInv, [Next]_vars PROVE SensorInv'
    OBVIOUS
  <1>1. CASE UNCHANGED vars
    BY <1>1 DEF vars, driver, external, history, SensorInv, TypeInv, SampleAge, Punctual,
                Delayed, Ahead, Spent
  <1> QED BY <1>1, TryAddressStep, TransferStep, BeginCycleStep, PublishStep, WakeStep,
             TickStep, StallStep, WorldStep DEF Next, ThreadStep

(* The invariant holds always.                                                 *)
THEOREM SensorInvariant == Spec => []SensorInv
  BY SensorInit, SensorStep, PTL DEF Spec

-----------------------------------------------------------------------------
(* The results.                                                                *)

(* poll() and get_pressure(): a measurement is broadcast as valid only while   *)
(* the last good sample is young, or when the clock has wrapped since.         *)
THEOREM PublishedIsFresh == Spec => StaleIsNotPublished
  <1>1. SensorInv /\ [Next]_vars =>
            [Publish /\ published'.pressure => age <= FreshPressure \/ age >= Wrap]_vars
    <2> SUFFICES ASSUME SensorInv, Publish, published'.pressure, age < Wrap
                 PROVE  age <= FreshPressure
      BY Times DEF SensorInv, TypeInv
    <2>1. Since(_last_sample_time) <= FreshPressure
      BY DEF Publish
    <2>2. Since(_last_sample_time) = IF _last_sample_time <= now
                                     THEN now - _last_sample_time
                                     ELSE now - _last_sample_time + Wrap
      BY Difference DEF SensorInv, TypeInv, Since
    <2>3. Since(_last_sample_time) = age
      BY <2>2, Times DEF SensorInv, TypeInv, SampleAge
    <2> QED BY <2>1, <2>3
  <1> QED BY <1>1, SensorInvariant, PTL DEF Spec, StaleIsNotPublished

(* The loop of main() with chThdSleepUntil(): without a halt of the CPU and a  *)
(* failed transfer no broadcast is later than the longest period.  With one    *)
(* the thread sleeps for ever, or is silent for less than a wrap of the system *)
(* time and what the faults take; nothing else makes it sleep for ever.        *)
THEOREM SilenceBounded == Spec => []SilenceIsBounded
  <1>1. SensorInv => SilenceIsBounded
    <2> SUFFICES ASSUME SensorInv, pc \notin {"init", "retry", "ended"}
                 PROVE  IF pc = "lost" THEN spoiled
                        ELSE silence <= IF hit \/ spoiled THEN Wrap + Work ELSE Longest
      BY DEF SilenceIsBounded
    <2> USE Times DEF SensorInv, TypeInv
    <2>0. CASE pc = "lost"
      BY <2>0 DEF Delayed
    <2>1. pc # "lost" => pc \in Loop
      OBVIOUS
    <2>2. CASE pc # "lost" /\ ~hit /\ ~spoiled
      BY <2>1, <2>2, LongestPeriod DEF Punctual
    <2>3. ASSUME pc # "lost" PROVE silence <= Wrap + Work
      <3>1. silence <= Wrap - 1 + faults * StallTicks + IF faults = 0 THEN 0 ELSE Spent
        <4>1. faults * StallTicks \in Nat /\ Spent \in Nat
          BY DEF Spent
        <4> QED BY <2>1, <2>3, <4>1 DEF Delayed
      <3>2. Spent <= ReadTimeout + StartTimeout /\ Spent \in Nat
        BY DEF Spent
      <3> DEFINE transfers == StartTimeout + ReadTimeout
      <3>3. Work = faults * StallTicks + (MaxFaults - faults) * StallTicks + MaxFaults * transfers
        BY DEF Work
      <3>4. /\ faults * StallTicks \in Nat /\ (MaxFaults - faults) * StallTicks \in Nat
            /\ MaxFaults * transfers \in Nat /\ (faults > 0 => MaxFaults * transfers >= transfers)
        <4>1. MaxFaults - faults \in Nat /\ transfers \in Nat
          OBVIOUS
        <4>2. faults > 0 => MaxFaults * transfers = transfers + (MaxFaults - 1) * transfers
          OBVIOUS
        <4> HIDE DEF transfers
        <4>3. faults > 0 => (MaxFaults - 1) * transfers \in Nat
          BY <4>1
        <4> QED BY <4>1, <4>2, <4>3
      <3> QED BY <3>1, <3>2, <3>3, <3>4
    <2> QED BY <2>0, <2>2, <2>3
  <1> QED BY <1>1, SensorInvariant, PTL
=============================================================================
