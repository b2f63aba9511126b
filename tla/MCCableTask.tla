---------------------------- MODULE MCCableTask ----------------------------
(***************************************************************************)
(* CableTask with every kind of phone, two messages beyond the protocol's  *)
(* own, and a channel of two advertisements.                               *)
(***************************************************************************)
EXTENDS CableTask
=============================================================================
