------------------------------ MODULE ConfigStore -----------------------------
(***************************************************************************)
(* The configuration registry of the application, src/src/config/          *)
(* config.cpp, over its flash storage (config_storage_flash.hpp), across   *)
(* power cuts and firmware updates.                                        *)
(*                                                                         *)
(* There is one copy: configSave() erases it, then writes the layout hash, *)
(* the CRC and the values, in this order, and init() has to tell a         *)
(* complete copy from everything a crash can leave.  Only the node thread  *)
(* calls the functions that change something (node.cpp:79-134), one after  *)
(* the other.                                                              *)
(*                                                                         *)
(* The flash is seen in words: the hash, the CRC and one word per          *)
(* parameter.  A word holds what was written, or is erased (FF), or Torn,  *)
(* which stands for any other content.  The CRC is taken to be free of     *)
(* collisions: it is represented by the values it was computed over.       *)
(***************************************************************************)
EXTENDS Naturals

CONSTANTS
    NumParams, Values, Firmwares, Layouts, LayoutOf, DefaultOf, ValidOf,
    Long,           \* firmwares that reach into the page of the configuration
    FF, Torn, NoSnapshot

Params == 1 .. NumParams

ASSUME ParamsAssumption == NumParams \in Nat \ {0}   \* 4 in this application
ASSUME DescriptorAssumption ==  \* what configRegisterParam_() insists on
    /\ LayoutOf \in [Firmwares -> Layouts]
    /\ ValidOf \in [Firmwares -> [Params -> SUBSET Values]]
    /\ DefaultOf \in [Firmwares -> [Params -> Values]]
    /\ \A f \in Firmwares, i \in Params : DefaultOf[f][i] \in ValidOf[f][i]
ASSUME WordAssumption ==
    /\ FF \notin Values /\ Torn \notin Values /\ FF # Torn
    /\ FF \notin Layouts /\ Torn \notin Layouts
    /\ {FF, Torn} \cap [Params -> Values \cup {FF, Torn}] = {}
    /\ NoSnapshot \notin [layout : Layouts, values : [Params -> Values]]
ASSUME LongAssumption == Long \subseteq Firmwares

VARIABLES
    power,      \* "on" from init() to the next restart
    fw,         \* the firmware in the flash
    pool,       \* _value_pool
    hash, crc, words,   \* the words of the configuration in the flash
    op,         \* what configSave() does next, or "none"
    next,       \* the parameter it writes next
    saved       \* history: what the last configSave() saved, if it returned 0
                \* and nothing touched the flash since

vars == <<power, fw, pool, hash, crc, words, op, next, saved>>
flash == <<hash, crc, words>>

Tuples == [Params -> Values]
Snapshot == [layout : Layouts, values : Tuples]

TypeOK ==
    /\ power \in {"off", "on"}
    /\ fw \in Firmwares
    /\ pool \in Tuples
    /\ hash \in Layouts \cup {FF, Torn}
    /\ crc \in Tuples \cup {FF, Torn}
    /\ words \in [Params -> Values \cup {FF, Torn}]
    /\ op \in {"none", "hash", "crc", "values"}
    /\ next \in 1 .. NumParams + 1
    /\ saved \in Snapshot \cup {NoSnapshot}

Blank == [i \in Params |-> FF]

\* A device from the factory.
Init ==
    /\ power = "off"
    /\ fw \in Firmwares
    /\ pool = DefaultOf[fw]
    /\ hash = FF /\ crc = FF /\ words = Blank
    /\ op = "none" /\ next = 1
    /\ saved = NoSnapshot

-----------------------------------------------------------------------------
(* Reading.                                                                *)

\* The loop over isValid() at the end of init().
Sanitised(f, values) ==
    [i \in Params |-> IF values[i] \in ValidOf[f][i] THEN values[i]
                                                     ELSE DefaultOf[f][i]]

\* Mutations: the values are taken as they are; the CRC is not compared.
RestoredUnchecked(f) ==
    IF hash = LayoutOf[f] /\ words = crc THEN words ELSE DefaultOf[f]
RestoredWithoutCRC(f) ==
    IF hash = LayoutOf[f] THEN Sanitised(f, words) ELSE DefaultOf[f]

\* What init() leaves in the pool: the stored values if the layout hash and
\* then the CRC match, else the defaults.
Restored(f) ==
    IF hash = LayoutOf[f] /\ words = crc
    THEN Sanitised(f, words) ELSE DefaultOf[f]

\* The static constructors register the parameters and init() reads the flash.
Start ==
    /\ power = "off" /\ power' = "on"
    /\ pool' = Restored(fw)
    /\ UNCHANGED <<fw, flash, op, next, saved>>

-----------------------------------------------------------------------------
(* Changing and saving.                                                    *)

Idle == power = "on" /\ op = "none"

\* configSet(): an unknown name or a value that is not valid changes nothing.
ConfigSet(i, v) ==
    /\ Idle
    /\ v \in ValidOf[fw][i]
    /\ pool' = [pool EXCEPT ![i] = v]
    /\ UNCHANGED <<power, fw, flash, op, next, saved>>

\* The page is erased.
Erased == hash' = FF /\ crc' = FF /\ words' = Blank

\* An erasure that fails or is cut short: every word is erased, kept or torn.
PartlyErased ==
    /\ hash' \in {FF, Torn, hash}
    /\ crc' \in {FF, Torn, crc}
    /\ words' \in [Params -> Values \cup {FF, Torn}]
    /\ \A i \in Params : words'[i] \in {FF, Torn, words[i]}

\* configSave() erases the page and goes on, or returns -EIO.
ConfigSave ==
    /\ Idle
    /\ saved' = NoSnapshot
    /\ \/ Erased /\ op' = "hash"
       \/ PartlyErased /\ UNCHANGED op
    /\ UNCHANGED <<power, fw, pool, next>>

\* The layout hash is programmed; -EIO if it does not read back.
WriteHash ==
    /\ op = "hash"
    /\ \/ hash' = LayoutOf[fw] /\ op' = "crc"
       \/ hash' = Torn /\ op' = "none"
    /\ UNCHANGED <<power, fw, pool, crc, words, next, saved>>

\* Mutation: the CRC of the defaults.
WriteCrcOfDefaults ==
    /\ op = "crc"
    /\ crc' = DefaultOf[fw] /\ op' = "values"
    /\ next' = 1
    /\ UNCHANGED <<power, fw, pool, hash, words, saved>>

\* So is the CRC.
WriteCrc ==
    /\ op = "crc"
    /\ \/ crc' = pool /\ op' = "values"
       \/ crc' = Torn /\ op' = "none"
    /\ next' = 1
    /\ UNCHANGED <<power, fw, pool, hash, words, saved>>

\* The values are programmed one after the other ...
WriteValue ==
    /\ op = "values"
    /\ next <= NumParams
    /\ \E w \in {pool[next], Torn} : words' = [words EXCEPT ![next] = w]
    /\ next' = next + 1
    /\ UNCHANGED <<power, fw, pool, hash, crc, op, saved>>

\* ... and compared at the end: 0 or -EIO is returned.
SaveReturns ==
    /\ op = "values"
    /\ next > NumParams
    /\ op' = "none" /\ next' = 1
    /\ saved' = IF words = pool
                THEN [layout |-> LayoutOf[fw], values |-> pool] ELSE NoSnapshot
    /\ UNCHANGED <<power, fw, pool, flash>>

\* configErase(): after a success the values are the defaults again.
ConfigErase ==
    /\ Idle
    /\ saved' = NoSnapshot
    /\ \/ Erased /\ pool' = DefaultOf[fw]
       \/ PartlyErased /\ UNCHANGED pool
    /\ UNCHANGED <<power, fw, op, next>>

-----------------------------------------------------------------------------
(* Restarts and updates.                                                   *)

\* A power cut or a reset.  One that comes during an erasure or while a word
\* is programmed leaves the page or the word in between.
Restart ==
    /\ power = "on" /\ power' = "off"
    /\ pool' = DefaultOf[fw]
    /\ op' = "none" /\ next' = 1
    /\ \/ UNCHANGED <<flash, saved>>
       \/ op = "none" /\ PartlyErased /\ saved' = NoSnapshot
       \/ op = "hash" /\ hash' = Torn /\ UNCHANGED <<crc, words, saved>>
       \/ op = "crc" /\ crc' = Torn /\ UNCHANGED <<hash, words, saved>>
       \/ /\ op = "values" /\ next <= NumParams
          /\ words' = [words EXCEPT ![next] = Torn]
          /\ UNCHANGED <<hash, crc, saved>>
    /\ UNCHANGED fw

\* The bootloader installs another firmware, which may take the page.
Update(f) ==
    /\ power = "off"
    /\ fw' = f
    /\ pool' = DefaultOf[f]
    /\ IF f \in Long THEN (Erased \/ PartlyErased) /\ saved' = NoSnapshot
                     ELSE UNCHANGED <<flash, saved>>
    /\ UNCHANGED <<power, op, next>>

Next ==
    \/ Start
    \/ \E i \in Params, v \in Values : ConfigSet(i, v)
    \/ ConfigSave \/ WriteHash \/ WriteCrc \/ WriteValue \/ SaveReturns
    \/ ConfigErase
    \/ Restart
    \/ \E f \in Firmwares : Update(f)

Spec == Init /\ [][Next]_vars

-----------------------------------------------------------------------------
(* Safety.                                                                 *)

\* The application only ever sees values its descriptors accept, also those
\* an older firmware with wider limits saved (config.cpp:93-142, 378-387).
PoolIsValid ==
    power = "on" => \A i \in Params : pool[i] \in ValidOf[fw][i]

\* Values that were saved with success come back after any number of restarts
\* and updates, if nothing else touched the page and the layout is the same
\* (config.cpp:197-239, 332-407).
SavedIsRestored ==
    [][\A f \in Firmwares :
          Start /\ fw = f /\ saved # NoSnapshot /\ saved.layout = LayoutOf[f]
              => pool' = Sanitised(f, saved.values)]_vars

\* What the flash holds for a restart.  While configSave() is at work it
\* counts from the moment the last word is in place.
Stored ==
    IF hash \in Layouts /\ words = crc
    THEN [layout |-> hash, values |-> words] ELSE NoSnapshot

\* How far the words are while configSave() is at work: no word that is still
\* to be written can pass for one that was.
SaveInv ==
    /\ op # "none" => power = "on" /\ saved = NoSnapshot
    /\ op = "hash" => hash = FF
    /\ op \in {"hash", "crc"} => crc = FF /\ words = Blank
    /\ op \in {"crc", "values"} => hash = LayoutOf[fw]
    /\ op = "values" =>
          crc = pool /\ \A i \in Params : i >= next => words[i] = FF

\* The inductive invariant: the pool is valid also while nobody looks, the
\* progress of configSave(), and what was saved is what the flash holds
\* (config.cpp:197-239).
Inv ==
    /\ TypeOK
    /\ \A i \in Params : pool[i] \in ValidOf[fw][i]
    /\ SaveInv
    /\ saved # NoSnapshot => Stored = saved

Slot == INSTANCE ConfigSlot WITH durable <- Stored

\* Saving is atomic for whoever restarts: what a start restores is always one
\* complete set of values that configSave() was called with, never a mixture,
\* whatever a crash or a failure of the flash left (config.cpp:197-239).
ImplementsConfigSlot == Slot!SlotSpec
=============================================================================
