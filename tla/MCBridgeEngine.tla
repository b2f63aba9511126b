--------------------------- MODULE MCBridgeEngine ---------------------------
(* BridgeEngine with two relying parties, one of them a touch probe's, two *)
(* challenges and two credentials.                                         *)
EXTENDS BridgeEngine, TLC

CONSTANTS site, blink, h1, h2, c1, c2

(* No list, one credential, and descriptors without a usable id.           *)
MCAllowLists == {<<>>, <<c1>>, <<None>>, <<None, c1>>}

MCSymmetry == Permutations({h1, h2})
=============================================================================
