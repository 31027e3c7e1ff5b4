----------------------------- MODULE MCBootloader -----------------------------
(* Bootloader on a small instance: two images, an empty storage and a torn   *)
(* one, and a clock that wraps soon after the boot delay, as the 16-bit       *)
(* clock of the board does (50000 of 65536 ticks).                            *)
EXTENDS Bootloader, TLC

CONSTANTS appA, appB, blank, torn

MCContents == {appA, appB, blank, torn}
MCApps == {appA, appB}
MCLocated == [c \in MCContents |-> IF c \in MCApps THEN c ELSE NoApp]

\* Images are interchangeable, and so are invalid contents.
MCSymmetry == Permutations(Threads) \cup Permutations(MCApps)
                  \cup Permutations({blank, torn})
=============================================================================
