----------------------------- MODULE MCAppStorage -----------------------------
(* AppStorage on a flash of two pages of two halfwords each; the last         *)
(* halfword belongs to the configuration.  Files and old contents are made    *)
(* of erased and of used bytes, in every arrangement.                         *)
EXTENDS AppStorage

CONSTANTS new, old, MCLengths

InHalfwords(f, lo, hi) ==
    \A i \in lo .. hi - 1 : (i - lo) % 2 = 0 => f[i] = f[i + 1]

MCFiles ==
    UNION {{f \in [1 .. n -> {FF, new}] : InHalfwords(f, 1, n)} : n \in MCLengths}

\* Bytes of their own in the first page, halfwords in the second.
MCOldContents ==
    {m \in [0 .. FlashEnd - 1 -> {FF, old}] :
        InHalfwords(m, PageSize, FlashEnd - 1)}
=============================================================================
