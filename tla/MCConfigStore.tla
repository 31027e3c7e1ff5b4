---------------------------- MODULE MCConfigStore -----------------------------
(* ConfigStore with two parameters of three values and three firmwares: two   *)
(* of the same layout, of which the newer one accepts fewer values and has    *)
(* other defaults, and a long one with another layout.                        *)
EXTENDS ConfigStore

CONSTANTS wide, narrow, other, layoutA, layoutB

MCValues == {0, 1, 2}
MCFirmwares == {wide, narrow, other}
MCLayouts == {layoutA, layoutB}
MCLayoutOf == [f \in MCFirmwares |-> IF f = other THEN layoutB ELSE layoutA]
MCDefaultOf ==
    [f \in MCFirmwares |-> [i \in Params |-> IF f = narrow THEN 1 ELSE 0]]
MCValidOf ==
    [f \in MCFirmwares |->
        [i \in Params |-> IF f = narrow THEN {0, 1} ELSE MCValues]]
MCLong == {other}
=============================================================================
