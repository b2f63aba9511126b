----------------------------- MODULE MCCtapHid ------------------------------
(* CtapHid with two clients, whose packets carry a byte, then two.         *)
(* Lengths: a single packet, one byte more, the longest message the        *)
(* sequence numbers allow, and one that is too long.                       *)
EXTENDS CtapHid, TLC

CONSTANTS c1, c2

MCLengths ==
    {InitData, InitData + 1, InitData + (MaxSequence + 1) * ContData,
     InitData + (MaxSequence + 1) * ContData + 1}

MCSymmetry == Permutations({c1, c2})
=============================================================================
