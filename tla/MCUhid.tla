------------------------------- MODULE MCUhid -------------------------------
(* Uhid with the limits the bridge advertises: a client that sends messages*)
(* up to maxMsgSize, and one that sends probes of a packet.                *)
EXTENDS Uhid

CONSTANTS c1, c2

Ctap2 == INSTANCE Ctap2

MCSizes == [c \in Clients |-> IF c = c1 THEN {57, 58, Ctap2!maxMsgSize} ELSE {1}]

=============================================================================
