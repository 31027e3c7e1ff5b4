-------------------------- MODULE ConfigStoreProofs ---------------------------
(***************************************************************************)
(* Proofs about the configuration registry, for any number of parameters,  *)
(* any values, any firmwares and any descriptors they register.            *)
(*                                                                         *)
(* That a start never restores a mixture needs to know that while the      *)
(* words are written the stored CRC cannot match yet: the words still to   *)
(* be written are erased, which no value is.  Inv says so for each stage.  *)
(***************************************************************************)
EXTENDS ConfigStore, TLAPS

USE ParamsAssumption, DescriptorAssumption, WordAssumption, LongAssumption

\* The pool init() leaves is made of values the firmware accepts.
LEMMA RestoredIsValid ==
  ASSUME TypeOK
  PROVE  /\ Restored(fw) \in Tuples
         /\ \A i \in Params : Restored(fw)[i] \in ValidOf[fw][i]
<1>1. CASE hash = LayoutOf[fw] /\ words = crc
  <2>1. words \in Tuples
    BY <1>1 DEF TypeOK, Tuples
  <2>2. Restored(fw) = Sanitised(fw, words)
    BY <1>1 DEF Restored
  <2>3. QED
    BY <2>1, <2>2 DEF Sanitised, Tuples, TypeOK
<1>2. CASE ~(hash = LayoutOf[fw] /\ words = crc)
  <2>1. Restored(fw) = DefaultOf[fw]
    BY <1>2 DEF Restored
  <2>2. QED
    BY <2>1 DEF TypeOK, Tuples
<1>3. QED
  BY <1>1, <1>2

\* A device from the factory satisfies the invariant.
LEMMA InitInv == Init => Inv
  BY DEF Init, Inv, TypeOK, SaveInv, Blank, Tuples

\* Every step keeps it (config.cpp:197-289, 332-407).
LEMMA NextInv == Inv /\ [Next]_vars => Inv'
<1>. SUFFICES ASSUME Inv, [Next]_vars
              PROVE  Inv'
  OBVIOUS
<1>. USE DEF Inv, TypeOK, SaveInv, Stored, Tuples
<1>1. CASE Start
  BY <1>1, RestoredIsValid DEF Start, flash
<1>2. ASSUME NEW i \in Params, NEW v \in Values, ConfigSet(i, v)
      PROVE  Inv'
  BY <1>2 DEF ConfigSet, Idle, flash
<1>3. CASE ConfigSave
  BY <1>3 DEF ConfigSave, Idle, Erased, PartlyErased, Blank
<1>4. CASE WriteHash
  BY <1>4 DEF WriteHash
<1>5. CASE WriteCrc
  BY <1>5 DEF WriteCrc, Blank
<1>6. CASE WriteValue
  BY <1>6 DEF WriteValue, Params
<1>7. CASE SaveReturns
  <2>1. words = pool => Stored = [layout |-> LayoutOf[fw], values |-> pool]
    BY <1>7 DEF SaveReturns
  <2>2. Stored' = Stored
    BY <1>7 DEF SaveReturns, flash
  <2>3. saved' # NoSnapshot => Stored' = saved'
    BY <1>7, <2>1, <2>2 DEF SaveReturns
  <2>4. [layout |-> LayoutOf[fw], values |-> pool] \in Snapshot
    BY DEF Snapshot
  <2>5. QED
    BY <1>7, <2>3, <2>4 DEF SaveReturns, flash
<1>8. CASE ConfigErase
  BY <1>8 DEF ConfigErase, Idle, Erased, PartlyErased, Blank
<1>9. CASE Restart
  BY <1>9 DEF Restart, PartlyErased, flash
<1>10. ASSUME NEW f \in Firmwares, Update(f)
       PROVE  Inv'
  BY <1>10 DEF Update, Erased, PartlyErased, Blank, flash
<1>11. CASE UNCHANGED vars
  BY <1>11 DEF vars
<1>12. QED
  BY <1>1, <1>2, <1>3, <1>4, <1>5, <1>6, <1>7, <1>8, <1>9, <1>10, <1>11
     DEF Next

-----------------------------------------------------------------------------
\* The invariant of the registry (config.cpp:197-239).
THEOREM Invariance == Spec => []Inv
  BY InitInv, NextInv, PTL DEF Spec

\* The application only sees values its descriptors accept
\* (config.cpp:93-142, 378-387).
THEOREM ValidValues == Spec => []PoolIsValid
<1>1. Inv => PoolIsValid
  BY DEF Inv, PoolIsValid
<1>2. QED
  BY Invariance, <1>1, PTL

\* What was saved with success is restored (config.cpp:197-239, 332-407).
THEOREM Durability == Spec => SavedIsRestored
<1>1. Inv /\ [Next]_vars =>
        [\A f \in Firmwares :
            Start /\ fw = f /\ saved # NoSnapshot /\ saved.layout = LayoutOf[f]
                => pool' = Sanitised(f, saved.values)]_vars
  <2>. SUFFICES ASSUME Inv, NEW f \in Firmwares, Start, fw = f,
                       saved # NoSnapshot, saved.layout = LayoutOf[f]
                PROVE  pool' = Sanitised(f, saved.values)
    OBVIOUS
  <2>1. Stored = saved
    BY DEF Inv
  <2>2. hash = LayoutOf[fw] /\ words = crc /\ saved.values = words
    BY <2>1 DEF Stored
  <2>3. QED
    BY <2>2 DEF Start, Restored
<1>2. QED
  BY Invariance, <1>1, PTL DEF Spec, SavedIsRestored

-----------------------------------------------------------------------------
(* Saving is atomic.                                                       *)

\* A partly erased page holds what it held, or nothing a start would accept.
LEMMA PartlyErasedStored ==
  ASSUME TypeOK, PartlyErased
  PROVE  Stored' \in {Stored, NoSnapshot}
<1>. SUFFICES ASSUME hash' \in Layouts, words' = crc'
              PROVE  Stored' = Stored
  <2>1. ~(hash' \in Layouts /\ words' = crc') => Stored' = NoSnapshot
    BY DEF Stored
  <2>2. QED
    BY <2>1
<1>1. hash' = hash
  BY DEF PartlyErased
<1>2. CASE crc' \in {FF, Torn}
  <2>1. words' \in [Params -> Values \cup {FF, Torn}] /\ 1 \in Params
    BY DEF PartlyErased, Params
  <2>2. QED
    BY <1>2, <2>1 DEF PartlyErased
<1>3. CASE crc' = crc /\ crc \notin {FF, Torn}
  <2>1. crc \in Tuples
    BY <1>3 DEF TypeOK
  <2>2. \A i \in Params : words'[i] = words[i]
    BY <1>3, <2>1 DEF PartlyErased, Tuples
  <2>3. words' = words
    BY <2>2 DEF PartlyErased, TypeOK
  <2>4. QED
    BY <1>1, <1>3, <2>3 DEF Stored
<1>4. QED
  BY <1>2, <1>3 DEF PartlyErased

\* What is found after a start is what the abstract registry restores.
LEMMA RestoredAgrees ==
  ASSUME TypeOK
  PROVE  Slot!Restored(fw, Stored) = Restored(fw)
<1>1. CASE hash \in Layouts /\ words = crc
  <2>1. Stored = [layout |-> hash, values |-> words]
    BY <1>1 DEF Stored
  <2>2. crc \in Tuples
    BY <1>1 DEF TypeOK, Tuples
  <2>3. Stored # NoSnapshot
    BY <1>1, <2>1, <2>2 DEF Tuples
  <2>4. QED
    BY <1>1, <2>1, <2>3
       DEF Slot!Restored, Slot!Sanitised, Restored, Sanitised
<1>2. CASE ~(hash \in Layouts /\ words = crc)
  <2>1. Stored = NoSnapshot
    BY <1>2 DEF Stored
  <2>2. ~(hash = LayoutOf[fw] /\ words = crc)
    BY <1>2 DEF TypeOK
  <2>3. QED
    BY <2>1, <2>2 DEF Slot!Restored, Restored
<1>3. QED
  BY <1>1, <1>2

\* A page that is erased holds nothing.
LEMMA ErasedStored == ASSUME Erased PROVE Stored' = NoSnapshot
  BY DEF Erased, Stored

\* Before the last value is written no start would accept the page.
LEMMA UnfinishedStored ==
  ASSUME TypeOK, SaveInv,
         op # "none", op = "values" => next <= NumParams
  PROVE  Stored = NoSnapshot
<1>1. CASE op = "hash"
  BY <1>1 DEF SaveInv, Stored
<1>2. CASE op = "crc"
  <2>1. words # crc
    BY <1>2 DEF SaveInv, TypeOK
  <2>2. QED
    BY <2>1 DEF Stored
<1>3. CASE op = "values" /\ next <= NumParams
  <2>1. next \in Params
    BY <1>3 DEF TypeOK, Params
  <2>2. words[next] = FF /\ crc = pool
    BY <1>3, <2>1 DEF SaveInv, Params
  <2>3. pool[next] # FF
    BY <2>1 DEF TypeOK, Tuples
  <2>4. QED
    BY <2>2, <2>3 DEF Stored
<1>4. QED
  BY <1>1, <1>2, <1>3 DEF TypeOK

\* Every step of the registry is one of the abstract one, or changes nothing
\* there (config.cpp:197-289, 332-407).
LEMMA StepRefines ==
  Inv /\ [Next]_vars => [Slot!SlotNext]_(Slot!slotVars)
<1>. SUFFICES ASSUME Inv, [Next]_vars
              PROVE  Slot!SlotNext \/ UNCHANGED <<power, fw, pool, Stored>>
  BY DEF Slot!slotVars
<1>. TypeOK /\ SaveInv
  BY DEF Inv
<1>1. CASE Start
  <2>1. Stored' = Stored
    BY <1>1 DEF Start, flash, Stored
  <2>2. Slot!Start
    BY <1>1, <2>1, RestoredAgrees DEF Start, Slot!Start
  <2>3. QED
    BY <2>2 DEF Slot!SlotNext
<1>2. ASSUME NEW i \in Params, NEW v \in Values, ConfigSet(i, v)
      PROVE  Slot!Change
  <2>1. Stored' = Stored
    BY <1>2 DEF ConfigSet, flash, Stored
  <2>2. QED
    BY <1>2, <2>1 DEF ConfigSet, Idle, Slot!Change
<1>3. CASE ConfigSave \/ ConfigErase
  <2>1. Erased \/ PartlyErased
    BY <1>3 DEF ConfigSave, ConfigErase
  <2>2. Stored' \in {Stored, NoSnapshot}
    BY <2>1, ErasedStored, PartlyErasedStored
  <2>3. power = "on" /\ pool' \in {pool, DefaultOf[fw]} /\ UNCHANGED <<power, fw>>
    BY <1>3 DEF ConfigSave, ConfigErase, Idle
  <2>4. CASE Stored' = NoSnapshot
    <3>1. Slot!GiveUp \/ Slot!Forget
      BY <2>3, <2>4 DEF Slot!GiveUp, Slot!Forget
    <3>2. QED
      BY <3>1 DEF Slot!SlotNext
  <2>5. CASE Stored' = Stored /\ Stored # NoSnapshot
    <3>1. PartlyErased
      BY <2>1, <2>5, ErasedStored
    <3>2. ~Erased
      BY <2>5, ErasedStored
    <3>3. pool' = pool
      BY <1>3, <3>2 DEF ConfigSave, ConfigErase
    <3>4. QED
      BY <2>3, <2>5, <3>3
  <2>6. QED
    BY <2>2, <2>4, <2>5
<1>4. CASE WriteHash
  <2>1. op = "hash" /\ Stored = NoSnapshot
    <3>1. op = "hash"
      BY <1>4 DEF WriteHash
    <3>2. QED
      BY <3>1, UnfinishedStored
  <2>2. words' # crc'
    BY <1>4, <2>1 DEF WriteHash, SaveInv, TypeOK
  <2>3. Stored' = NoSnapshot
    BY <2>2 DEF Stored
  <2>4. QED
    BY <1>4, <2>1, <2>3 DEF WriteHash
<1>5. CASE WriteCrc
  <2>1. op = "crc" /\ Stored = NoSnapshot
    <3>1. op = "crc"
      BY <1>5 DEF WriteCrc
    <3>2. QED
      BY <3>1, UnfinishedStored
  <2>2. words' = Blank /\ crc' \in {pool, Torn}
    BY <1>5, <2>1 DEF WriteCrc, SaveInv
  <2>3. words' # pool
    BY <2>2 DEF Blank, TypeOK, Tuples, Params
  <2>4. words' # Torn
    BY <1>5 DEF WriteCrc, TypeOK
  <2>5. Stored' = NoSnapshot
    BY <2>2, <2>3, <2>4 DEF Stored
  <2>6. QED
    BY <1>5, <2>1, <2>5 DEF WriteCrc
<1>6. CASE WriteValue
  <2>1. op = "values" /\ power = "on" /\ hash = LayoutOf[fw] /\ crc = pool
    BY <1>6 DEF WriteValue, SaveInv
  <2>2. Stored = NoSnapshot
    BY <1>6, UnfinishedStored DEF WriteValue
  <2>3. CASE words' = crc'
    <3>1. Stored' = [layout |-> LayoutOf[fw], values |-> pool]
      BY <1>6, <2>1, <2>3 DEF WriteValue, Stored, TypeOK
    <3>2. Slot!Commit
      BY <1>6, <2>1, <2>2, <3>1 DEF WriteValue, Slot!Commit
    <3>3. QED
      BY <3>2 DEF Slot!SlotNext
  <2>4. CASE words' # crc'
    <3>1. Stored' = NoSnapshot
      BY <2>4 DEF Stored
    <3>2. QED
      BY <1>6, <2>2, <3>1 DEF WriteValue
  <2>5. QED
    BY <2>3, <2>4
<1>7. CASE SaveReturns
  BY <1>7 DEF SaveReturns, flash, Stored
<1>8. CASE Restart
  <2>1. power' = "off" /\ pool' = DefaultOf[fw] /\ fw' = fw
    BY <1>8 DEF Restart
  <2>2. CASE UNCHANGED flash
    BY <2>1, <2>2 DEF flash, Stored, Slot!Stop, Slot!SlotNext
  <2>3. CASE PartlyErased
    BY <2>1, <2>3, PartlyErasedStored DEF Slot!Stop, Slot!SlotNext
  <2>4. CASE Stored' = NoSnapshot
    BY <2>1, <2>4 DEF Slot!Stop, Slot!SlotNext
  <2>5. CASE hash' = Torn
    BY <2>4, <2>5 DEF Stored
  <2>6. CASE op = "crc" /\ crc' = Torn /\ UNCHANGED <<hash, words>>
    <3>1. words' # crc'
      BY <2>6 DEF TypeOK
    <3>2. QED
      BY <2>4, <3>1 DEF Stored
  <2>7. CASE /\ op = "values" /\ next <= NumParams
             /\ words' = [words EXCEPT ![next] = Torn]
             /\ UNCHANGED <<hash, crc>>
    <3>1. next \in Params
      BY <2>7 DEF TypeOK, Params
    <3>2. words'[next] = Torn
      BY <2>7, <3>1 DEF TypeOK
    <3>3. crc' = pool /\ pool[next] # Torn
      BY <2>7, <3>1 DEF SaveInv, TypeOK, Tuples
    <3>4. words' # crc'
      BY <3>2, <3>3
    <3>5. QED
      BY <2>4, <3>4 DEF Stored
  <2>8. QED
    BY <1>8, <2>2, <2>3, <2>5, <2>6, <2>7 DEF Restart
<1>9. ASSUME NEW f \in Firmwares, Update(f)
      PROVE  Slot!Update
  <2>1. Stored' \in {Stored, NoSnapshot}
    <3>1. Erased \/ PartlyErased \/ UNCHANGED flash
      BY <1>9 DEF Update
    <3>2. CASE UNCHANGED flash
      BY <3>2 DEF flash, Stored
    <3>3. QED
      BY <3>1, <3>2, ErasedStored, PartlyErasedStored
  <2>2. QED
    BY <1>9, <2>1 DEF Update, Slot!Update
<1>10. CASE UNCHANGED vars
  BY <1>10 DEF vars, Stored
<1>11. QED
  BY <1>1, <1>2, <1>3, <1>4, <1>5, <1>6, <1>7, <1>8, <1>9, <1>10
     DEF Next, Slot!SlotNext

\* A factory-fresh device has nothing saved.
LEMMA InitRefines == Init => Slot!SlotInit
<1>. SUFFICES ASSUME Init PROVE Slot!SlotInit
  OBVIOUS
<1>1. Stored = NoSnapshot
  BY DEF Init, Stored
<1>2. QED
  BY <1>1 DEF Init, Slot!SlotInit

\* Saving is atomic for whoever restarts (config.cpp:197-239).
THEOREM Refinement == Spec => ImplementsConfigSlot
  BY Invariance, InitRefines, StepRefines, PTL
     DEF Spec, ImplementsConfigSlot, Slot!SlotSpec
=============================================================================
