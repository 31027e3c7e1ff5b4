------------------------- MODULE MCNodeIdAllocation -------------------------
(* Two nodes whose unique IDs differ from the first request on, or only in the *)
(* last.  A tick is 200 ms, and a delay is the shortest or the longest one.    *)
EXTENDS NodeIdAllocation, TLC

CONSTANTS a, b

Bytes(x, y, z) == [i \in 1..UidLength |->
    IF i <= MaxLenOfUniqueIDInRequest THEN x
    ELSE IF i <= 2 * MaxLenOfUniqueIDInRequest THEN y ELSE z]

TwoNodes == {a :> u @@ b :> v : <<u, v>> \in
    {<<Bytes(1, 1, 1), Bytes(2, 2, 1)>>, <<Bytes(1, 1, 1), Bytes(1, 1, 2)>>}}

=============================================================================
