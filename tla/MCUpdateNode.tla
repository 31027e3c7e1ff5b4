----------------------------- MODULE MCUpdateNode -----------------------------
(* UpdateNode with an image of two chunks, an image of one and an empty file, *)
(* which are enough for an answer to belong to the wrong file, to the wrong   *)
(* place of the right file, and for a download to end before it began.        *)
EXTENDS UpdateNode

CONSTANTS long, short, empty

MCFiles == {long, short}
MCImages == {long, short}
MCChunks == [f \in MCFiles |-> IF f = long THEN 2 ELSE 1]

\* One image, and the empty file.
MCFewFiles == {long, empty}
MCFewImages == {long}
MCFewChunks == [f \in MCFewFiles |-> IF f = long THEN 2 ELSE 0]
=============================================================================
