--------------------------- MODULE MCTransaction ----------------------------
(* Two clients.                                                            *)
EXTENDS Transaction, TLC

CONSTANTS c1, c2

MCSymmetry == Permutations({c1, c2})
=============================================================================
