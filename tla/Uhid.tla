-------------------------------- MODULE Uhid --------------------------------
(***************************************************************************)
(* The virtual HID device: the event stream of src/src/vhid.rs between the *)
(* kernel and the bridge, as read_event and the senders of                 *)
(* src/src/ctaphid.rs and the loops of src/src/main.rs use it.             *)
(*                                                                         *)
(* The kernel queues events for the bridge in a ring and drops what finds  *)
(* it full; nothing tells the writer.  The loops read one event and then   *)
(* sleep 5 or 20 ms, while a client writes its packets without a pause, so *)
(* any number of packets may be written between two reads.                 *)
(*                                                                         *)
(* A packet is its client and its number in the message; what is in it is  *)
(* CtapHid's subject.                                                      *)
(***************************************************************************)
EXTENDS Integers, Sequences, FiniteSets

CONSTANTS
    Clients,
    Sizes,          \* client -> lengths of the messages it sends
    RingSize        \* events the kernel's ring holds (31 in its 32 slots)

ASSUME UhidAssumption ==
    /\ Sizes \in [Clients -> SUBSET (1..7609)]    \* what MaxSequence allows
    /\ RingSize \in Nat \ {0}

InitData == 57
ContData == 59
MaxSequence == 127

(* Packets of a message.                                                   *)
Packets(size) ==
    IF size <= InitData THEN 1 ELSE 1 + ((size - InitData) + ContData - 1) \div ContData

(* An event of the kernel, by its type: START, OPEN, CLOSE and the like,   *)
(* or an OUTPUT report: a packet of a message or an INIT.                  *)
Plain(type) == [type |-> type]
Output(c, command, k, size) ==
    [type |-> "OUTPUT", size |-> 65, client |-> c, command |-> command,
     packet |-> k, length |-> size]

VARIABLES
    ring,       \* events the bridge has not read
    dropped,    \* history: whether the kernel ever dropped an event
    phase,      \* client -> what it does
    size,       \* client -> length of its message
    sent,       \* client -> packets of it written
    expected,   \* client -> packets of its message the bridge has, 0 for none
    handed      \* client -> whether its message was dispatched

vars == <<ring, dropped, phase, size, sent, expected, handed>>

TypeOK ==
    /\ Len(ring) <= RingSize
    /\ \A i \in DOMAIN ring :
          ring[i].type = "OUTPUT" => ring[i].client \in Clients /\ ring[i].packet \in Nat
    /\ dropped \in BOOLEAN
    /\ phase \in [Clients -> {"closed", "open", "sending", "waiting", "syncing"}]
    /\ size \in [Clients -> Nat]
    /\ \A c \in Clients : sent[c] \in 0..Packets(size[c])
    /\ expected \in [Clients -> 0..(MaxSequence + 1)]
    /\ \A c \in Clients : expected[c] # 0 => expected[c] < Packets(size[c])
    /\ handed \in [Clients -> BOOLEAN]

(* create_with_path: the kernel answers UHID_CREATE2 with UHID_START.      *)
Init ==
    /\ ring = <<Plain("START")>> /\ dropped = FALSE
    /\ phase = [c \in Clients |-> "closed"]
    /\ size = [c \in Clients |-> 0] /\ sent = [c \in Clients |-> 0]
    /\ expected = [c \in Clients |-> 0] /\ handed = [c \in Clients |-> FALSE]

-----------------------------------------------------------------------------
(* The kernel and the clients.                                             *)

Queue(event) ==
    IF Len(ring) < RingSize
    THEN ring' = Append(ring, event) /\ UNCHANGED dropped
    ELSE dropped' = TRUE /\ UNCHANGED ring

AllClosed(except) == \A d \in Clients \ {except} : phase[d] = "closed"

(* Only the first open and the last close are events.                      *)
Open(c) ==
    /\ phase[c] = "closed"
    /\ phase' = [phase EXCEPT ![c] = "open"]
    /\ IF AllClosed(c) THEN Queue(Plain("OPEN")) ELSE UNCHANGED <<ring, dropped>>
    /\ UNCHANGED <<size, sent, expected, handed>>

(* A client leaves when all is answered, and opens the device again only   *)
(* when that was noticed.                                                  *)
Close(c) ==
    /\ phase[c] = "open" /\ ring = <<>>
    /\ phase' = [phase EXCEPT ![c] = "closed"]
    /\ IF AllClosed(c) THEN Queue(Plain("CLOSE")) ELSE UNCHANGED <<ring, dropped>>
    /\ UNCHANGED <<size, sent, expected, handed>>

Start(c, n) ==
    /\ phase[c] = "open"
    /\ phase' = [phase EXCEPT ![c] = "sending"]
    /\ size' = [size EXCEPT ![c] = n]
    /\ sent' = [sent EXCEPT ![c] = 0]
    /\ UNCHANGED <<ring, dropped, expected>>
    /\ handed' = [handed EXCEPT ![c] = FALSE]

WritePacket(c) ==
    /\ phase[c] = "sending"
    /\ Queue(Output(c, "Cbor", sent[c], size[c]))
    /\ sent' = [sent EXCEPT ![c] = @ + 1]
    /\ phase' = IF sent[c] + 1 = Packets(size[c])
                THEN [phase EXCEPT ![c] = "waiting"] ELSE phase
    /\ UNCHANGED <<size, expected, handed>>

(* It starts over at any time, and then waits for the reply to its INIT.   *)
GiveUp(c) ==
    /\ phase[c] \in {"sending", "waiting"}
    /\ Queue(Output(c, "Init", 0, 8))
    /\ phase' = [phase EXCEPT ![c] = "syncing"]
    /\ UNCHANGED <<size, sent, expected, handed>>

-----------------------------------------------------------------------------
(* The bridge.                                                             *)

(* The loop answers, or it runs a transaction and drops the request (see   *)
(* Transaction), and the client waits on.                                  *)
Dispatch(c) ==
    /\ handed' = [handed EXCEPT ![c] = TRUE]
    /\ \/ phase[c] = "waiting" /\ phase' = [phase EXCEPT ![c] = "open"]
       \/ UNCHANGED phase

ReplyInit(c) ==
    phase' = IF phase[c] = "syncing" THEN [phase EXCEPT ![c] = "open"] ELSE phase

(* TryFrom<uhid_event> keeps at most 4096 bytes of a report, and           *)
(* process_report_bytes skips the report number of a 65-byte one; a packet *)
(* is what is left of 64.                                                  *)
IsPacket(event) ==
    LET length == IF event.size <= 4096 THEN event.size ELSE 4096 IN
    length - (IF length = 65 THEN 1 ELSE 0) = 64

BadCompleteLate(event) == event.packet + 1 > Packets(event.length)

Complete(event) == event.packet + 1 = Packets(event.length)

BadSkipsAPacket(c, event) ==
    event.packet = 0 \/ (event.packet = expected[c] + 1 /\ expected[c] # 0)

InSequence(c, event) ==
    event.packet = 0 \/ (event.packet = expected[c] /\ expected[c] # 0)

(* Reassembly, by packet numbers: see CtapHid.                             *)
Packet(c, event) ==
    \/ /\ event.command = "Init"
       /\ expected' = [expected EXCEPT ![c] = 0]
       /\ ReplyInit(c) /\ UNCHANGED handed
    \/ /\ event.command = "Cbor" /\ InSequence(c, event) /\ Complete(event)
       /\ expected' = [expected EXCEPT ![c] = 0]
       /\ Dispatch(c)
    \/ /\ event.command = "Cbor" /\ InSequence(c, event) /\ ~Complete(event)
       /\ expected' = [expected EXCEPT ![c] = event.packet + 1]
       /\ UNCHANGED <<phase, handed>>
    \/ /\ event.command = "Cbor" /\ ~InSequence(c, event)
       /\ expected' = [expected EXCEPT ![c] = 0]
       /\ UNCHANGED <<phase, handed>>

(* read_event: everything but an OUTPUT report is read and forgotten.      *)
ReadEvent ==
    /\ ring # <<>>
    /\ ring' = Tail(ring)
    /\ IF Head(ring).type = "OUTPUT" /\ IsPacket(Head(ring))
       THEN Packet(Head(ring).client, Head(ring))
       ELSE UNCHANGED <<phase, expected, handed>>
    /\ UNCHANGED <<dropped, size, sent>>

Next ==
    \/ ReadEvent
    \/ \E c \in Clients :
          \/ Open(c) \/ Close(c) \/ WritePacket(c) \/ GiveUp(c)
          \/ \E n \in Sizes[c] : Start(c, n)

(* The daemon keeps reading, and a client writes what it has begun.        *)
Fairness == WF_vars(ReadEvent) /\ \A c \in Clients : WF_vars(WritePacket(c))

Spec == Init /\ [][Next]_vars /\ Fairness

-----------------------------------------------------------------------------
(* Properties.                                                             *)

(* No report is ever lost to a client that keeps to maxMsgSize and to one  *)
(* request at a time, however slowly the loops read, whatever it gives up  *)
(* and resends, and with a second client probing the device beside it      *)
(* (ctap2.rs:350, main.rs:76, 125, 212, 250).                              *)
NothingDropped == ~dropped

(* Such a request is always read as a whole and dispatched, unless its     *)
(* client gives it up (main.rs:76-132, 212, vhid.rs:227-234).              *)
RequestDispatched ==
    \A c \in Clients : phase[c] = "waiting" ~> handed[c] \/ phase[c] # "waiting"

=============================================================================
