------------------------------ MODULE Ceremony ------------------------------
(***************************************************************************)
(* What the daemon promises the clients of its device about requests that  *)
(* take a phone: one ceremony at a time; while it lasts its client hears   *)
(* only keepalives, and others only replies to their INITs; it ends once,  *)
(* with an answer to exactly that request or, if the client starts over,   *)
(* with the reply to its INIT alone.  Transaction implements this.         *)
(***************************************************************************)
CONSTANTS Channels, Serials, None

VARIABLES
    open,       \* the request of the ceremony in progress, or None
    packet      \* what was just written to a client, or None

vars == <<open, packet>>

Request == [channel: Channels, serial: Serials]

To(c, kind, s) == [channel |-> c, kind |-> kind, serial |-> s]

Init == open = None /\ packet = None

Quiet == packet' = None /\ UNCHANGED open

(* Between ceremonies everything is answered at once.                      *)
Local ==
    /\ open = None
    /\ \E c \in Channels, kind \in {"Cbor", "Init", "Error"}, s \in Serials :
          packet' = To(c, kind, s)
    /\ UNCHANGED open

Begin ==
    /\ open = None
    /\ open' \in Request
    /\ packet' = None

KeepAlive ==
    /\ open # None
    /\ packet' = To(open.channel, "KeepAlive", open.serial)
    /\ UNCHANGED open

OtherSyncs ==
    /\ open # None
    /\ \E c \in Channels \ {open.channel}, s \in Serials : packet' = To(c, "Init", s)
    /\ UNCHANGED open

Answer ==
    /\ open # None
    /\ packet' = To(open.channel, "Cbor", open.serial)
    /\ open' = None

Reset ==
    /\ open # None
    /\ \E s \in Serials : packet' = To(open.channel, "Init", s)
    /\ open' = None

Next == Quiet \/ Local \/ Begin \/ KeepAlive \/ OtherSyncs \/ Answer \/ Reset

Spec == Init /\ [][Next]_vars
=============================================================================
