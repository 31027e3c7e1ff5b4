------------------------------ MODULE ConfigSlot ------------------------------
(***************************************************************************)
(* What the configuration registry promises, without its flash: at most    *)
(* one complete set of values outlives a restart, and a firmware starts    *)
(* with it if it was saved under the same layout, else with its defaults.  *)
(* Its operations are those of src/src/config/config.h and config.hpp,     *)
(* each in one step.  In one point the code does not do what config.h says *)
(* of it: "current parameter values will not be affected" by an erasure    *)
(* (config.h:66), but one that succeeds sets them to the defaults          *)
(* (config.cpp:248).  Forget does as the code.                             *)
(***************************************************************************)
CONSTANTS
    Params,         \* the parameters, in the order of their registration
    Values,         \* the values they may have
    Firmwares,      \* the firmware versions a device may run
    Layouts,        \* the values of the layout hash
    LayoutOf,       \* the layout each firmware registers
    DefaultOf,      \* its default values
    ValidOf,        \* the values it accepts for each parameter
    NoSnapshot

VARIABLES
    power,      \* "on" from init() to the next restart
    fw,         \* the firmware in the flash
    pool,       \* _value_pool
    durable     \* what a restart would find

slotVars == <<power, fw, pool, durable>>

Tuples == [Params -> Values]
Snapshot == [layout : Layouts, values : Tuples]

\* Values the running firmware does not accept are replaced by its defaults.
Sanitised(f, values) ==
    [i \in Params |-> IF values[i] \in ValidOf[f][i] THEN values[i]
                                                     ELSE DefaultOf[f][i]]

\* What firmware f starts with, given what is found.
Restored(f, found) ==
    IF found # NoSnapshot /\ found.layout = LayoutOf[f]
    THEN Sanitised(f, found.values) ELSE DefaultOf[f]

SlotInit ==
    /\ power = "off"
    /\ fw \in Firmwares
    /\ pool = DefaultOf[fw]
    /\ durable = NoSnapshot

Start ==
    /\ power = "off" /\ power' = "on"
    /\ pool' = Restored(fw, durable)
    /\ UNCHANGED <<fw, durable>>

Change ==
    /\ power = "on"
    /\ \E i \in Params, v \in Values :
          v \in ValidOf[fw][i] /\ pool' = [pool EXCEPT ![i] = v]
    /\ UNCHANGED <<power, fw, durable>>

\* The old values are given up to save the current ones, or because an attempt
\* to save or to forget failed; the current values stay.
GiveUp ==
    /\ power = "on"
    /\ durable' = NoSnapshot
    /\ UNCHANGED <<power, fw, pool>>

\* The values are forgotten: those that were saved, and the current ones.
Forget ==
    /\ power = "on"
    /\ durable' = NoSnapshot
    /\ pool' = DefaultOf[fw]
    /\ UNCHANGED <<power, fw>>

\* The current values are saved, all at once.
Commit ==
    /\ power = "on"
    /\ durable = NoSnapshot
    /\ durable' = [layout |-> LayoutOf[fw], values |-> pool]
    /\ UNCHANGED <<power, fw, pool>>

\* A restart, possibly in the middle of giving up the old values.
Stop ==
    /\ power' = "off"
    /\ pool' = DefaultOf[fw]
    /\ durable' \in {durable, NoSnapshot}
    /\ UNCHANGED fw

Update ==
    /\ power = "off"
    /\ fw' \in Firmwares
    /\ pool' = DefaultOf[fw']
    /\ durable' \in {durable, NoSnapshot}
    /\ UNCHANGED power

SlotNext == Start \/ Change \/ GiveUp \/ Forget \/ Commit \/ Stop \/ Update

SlotSpec == SlotInit /\ [][SlotNext]_slotVars
=============================================================================
