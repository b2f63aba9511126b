----------------------------- MODULE CableTask -----------------------------
(***************************************************************************)
(* The whole caBLE task that handle_cable_transaction spawns: it waits for *)
(* the advertisement of the phone (Discovery), then opens the tunnel to it *)
(* and transmits one command (CableTunnel).  The scanning task goes on     *)
(* beside the tunnel until it notices that nobody listens.                 *)
(***************************************************************************)
EXTENDS CableTunnel

CONSTANT Capacity

ASSUME CableTaskAssumption == Capacity \in Nat \ {0}

VARIABLES waiter, scan, pending, rx

D == INSTANCE Discovery

searchVars == <<waiter, scan, pending, rx>>

taskVars == <<vars, searchVars>>

TaskTypeOK ==
    /\ TypeOK /\ D!TypeOK
    /\ waiter \in {"starting", "waiting"} => pc = "discover"
    /\ pc \notin {"discover", "Error", "Aborted"} => waiter = "found"

TaskInit == Init /\ D!Init

Undisturbed == UNCHANGED searchVars

(* connect_cable_tunnel and transmit_cbor, one after the other.            *)
Discovering ==
    /\ D!Begin \/ D!Receive \/ D!NoSelectedToken
    /\ UNCHANGED vars

GiveUpSearch == waiter = "failed" /\ NotFound /\ Undisturbed

OpenTunnel == waiter = "found" /\ (Connect \/ ConnectFails) /\ Undisturbed

Run == Discovering \/ GiveUpSearch \/ OpenTunnel \/ (Daemon /\ Undisturbed)

(* abort() drops the future, and the channel with it.                      *)
AbortTask ==
    /\ Abort
    /\ D!Abort \/ (waiter \in {"found", "failed"} /\ Undisturbed)

TaskNext ==
    \/ Run
    \/ AbortTask
    \/ D!Scan /\ UNCHANGED vars
    \/ Peers /\ Undisturbed

(* tokio polls both tasks when they can go on, and the adapter keeps       *)
(* reporting; phone, relay and user owe nothing.                           *)
TaskFairness ==
    /\ WF_taskVars(Run)
    /\ WF_taskVars(D!Event /\ UNCHANGED vars)
    /\ WF_taskVars(D!Send /\ UNCHANGED vars)

TaskSpec == TaskInit /\ [][TaskNext]_taskVars /\ TaskFairness

-----------------------------------------------------------------------------
(* A task that gave up had a reason: the radio failed, the connection      *)
(* ended, the phone refused, or something outside the protocol arrived.    *)
(* Strangers' advertisements, pings, pongs and unknown frames between the  *)
(* phone's messages are none (discovery.rs:141-147, tunnel.rs:247-250,     *)
(* 468-474, 536-539).                                                      *)
NoSpuriousFailure ==
    [][pc' \in Failures /\ pc' # pc =>
        \/ relay # "open"
        \/ pc = "discover" /\ scan \in {"none", "stopped"}
        \/ pc # "discover" /\ verdict = "refused"
        \/ down # <<>> /\ Head(down).kind \in {"Close", "Text", "Short"}]_taskVars

Seen == pc # "discover" \/ \E i \in DOMAIN rx : rx[i] = "phone"

(* A task whose phone has been seen ends once the connection does, and any *)
(* task once the phone has decided, whoever else advertises or sends       *)
(* (tunnel.rs:430-467, discovery.rs:141-147).                              *)
TaskEnds == (relay # "open" /\ Seen) \/ verdict # None ~> pc \in Ended

=============================================================================
