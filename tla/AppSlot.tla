------------------------------- MODULE AppSlot --------------------------------
(***************************************************************************)
(* What the boot controller promises to the code around it, without its    *)
(* mutex, its threads, its timer and its storage: a slot that holds at     *)
(* most one application, and a phase that says what may be done with it.   *)
(* State and the comments of IAppStorageBackend, Bootloader and State in   *)
(* src/bootloader/src/bootloader.hpp are its source.                       *)
(***************************************************************************)
CONSTANTS Apps, NoApp

VARIABLES
    phase,  \* what getState() reports
    slot    \* what getAppInfo() reports

slotVars == <<phase, slot>>

Phase == {"NoAppToBoot", "BootDelay", "BootCancelled",
          "AppUpgradeInProgress", "ReadyToBoot"}

\* The phase a slot is in after it was looked at.
Judge(app, on_success) == IF app = NoApp THEN "NoAppToBoot" ELSE on_success

SlotInit ==
    /\ slot \in Apps \cup {NoApp}
    /\ phase = Judge(slot, "BootDelay")

\* The boot delay expires, or the boot is requested.
Release ==
    /\ phase \in {"BootDelay", "BootCancelled"}
    /\ phase' = "ReadyToBoot"
    /\ UNCHANGED slot

Cancel ==
    /\ phase \in {"BootDelay", "ReadyToBoot"}
    /\ phase' = "BootCancelled"
    /\ UNCHANGED slot

\* An upgrade is never started over an application that is being booted.
\* The slot is empty from here to the end of the upgrade.
StartUpgrade ==
    /\ phase \in {"BootDelay", "BootCancelled", "NoAppToBoot"}
    /\ phase' = "AppUpgradeInProgress"
    /\ slot' = NoApp

\* Whatever is found in the slot then is what is reported.
FinishUpgrade ==
    /\ phase = "AppUpgradeInProgress"
    /\ slot' \in Apps \cup {NoApp}
    /\ phase' \in {Judge(slot', "BootDelay"), Judge(slot', "BootCancelled")}

\* A restart keeps the slot, except in the middle of an upgrade.
Restart ==
    /\ slot' \in Apps \cup {NoApp}
    /\ phase # "AppUpgradeInProgress" => slot' = slot
    /\ phase' = Judge(slot', "BootDelay")

SlotNext == Release \/ Cancel \/ StartUpgrade \/ FinishUpgrade \/ Restart

SlotSpec == SlotInit /\ [][SlotNext]_slotVars
=============================================================================
