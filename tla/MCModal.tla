------------------------------ MODULE MCModal ------------------------------
(***************************************************************************)
(* Modal with one status text, three lines and a dismissal after one tick. *)
(***************************************************************************)
EXTENDS Modal
=============================================================================
