--------------------------- MODULE RemoteCommand ---------------------------
(***************************************************************************)
(* What a caBLE tunnel promises the daemon: "the remote device will only   *)
(* accept a single command" (cable/mod.rs) and the caller learns its result*)
(* or fails.  The phone decides at most once; an answer is returned only   *)
(* when the phone approved; after a failure the phone may still decide,    *)
(* because nothing tells it that the caller has given up.  CableTunnel     *)
(* implements this.                                                        *)
(***************************************************************************)
CONSTANTS Answer, None

VARIABLES
    verdict,    \* what the user of the phone decided, or None
    outcome     \* Answer, "failed", or None while the caller waits

vars == <<verdict, outcome>>

Init == verdict = None /\ outcome = None

Decide ==
    /\ verdict = None
    /\ verdict' \in {"approved", "refused"}
    /\ UNCHANGED outcome

Succeed ==
    /\ outcome = None /\ verdict = "approved"
    /\ outcome' = Answer
    /\ UNCHANGED verdict

Fail ==
    /\ outcome = None
    /\ outcome' = "failed"
    /\ UNCHANGED verdict

Next == Decide \/ Succeed \/ Fail

Spec == Init /\ [][Next]_vars
=============================================================================
