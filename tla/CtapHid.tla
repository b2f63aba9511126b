------------------------------ MODULE CtapHid ------------------------------
(***************************************************************************)
(* Reassembly of CTAPHID messages in src/src/ctaphid.rs: one partial       *)
(* payload per channel, sequence checking, the three-second eviction and   *)
(* the resynchronisation of a channel by CTAPHID_INIT.                     *)
(*                                                                         *)
(* Every client of the virtual device has a channel of its own and writes  *)
(* the packets of its messages in order; packets of different clients      *)
(* interleave, a client may drop a message half-way and start another, and *)
(* with Lossy the kernel's ring may drop a packet.  The ring delays but    *)
(* never reorders, so a packet is written and read in one step.            *)
(*                                                                         *)
(* A byte is the pair <<message, offset>>, so that what a message was put  *)
(* together from can be seen.                                              *)
(***************************************************************************)
EXTENDS Integers, Sequences

CONSTANTS
    Channels,       \* allocated channel ids, one client each
    BROADCAST,      \* Channel::BROADCAST, on which clients only send INIT
    None,
    Lengths,        \* lengths of the CBOR messages clients send
    InitData,       \* payload bytes of an initialization packet (57)
    ContData,       \* payload bytes of a continuation packet (59)
    MaxSequence,    \* the largest sequence number a packet can carry (127)
    Timeout,        \* eviction age (3 s)
    Lossy,          \* whether packets may be lost
    MaxNow,         \* bound: the clock stops here
    MaxMessages     \* bound: messages ever started

ASSUME CtapHidAssumption ==
    /\ Lengths \subseteq Nat
    /\ InitData \in Nat \ {0} /\ ContData \in Nat \ {0}
    /\ MaxSequence \in Nat /\ Timeout \in Nat \ {0}
    /\ MaxNow \in Nat /\ MaxMessages \in Nat
    /\ Lossy \in BOOLEAN
    /\ BROADCAST \notin Channels

Byte == Nat \X Nat

ChannelPayload ==
    [command: {"Cbor"}, total_len: Nat, data: Seq(Byte),
     next_expected_sequence: 0..(MaxSequence + 1), started_at: Nat]

(* What process_report_bytes returns.                                      *)
Message ==
    [channel: Channels \cup {BROADCAST},
     command: {"Cbor", "Init", "TruncatedInit"}, data: Seq(Byte)]

ASSUME NoneAssumption == None \notin ChannelPayload /\ None \notin Message

(* What a client is sending: message id of total length len, fragments     *)
(* 0..sent-1 written.  TruncatedInit is an INIT shorter than its nonce.    *)
Outgoing ==
    [id: Nat, command: {"Cbor", "Init", "TruncatedInit"}, len: Nat, sent: Nat]

VARIABLES
    now,
    payload_stack,  \* CtapHid: channel -> partial payload or None
    event,          \* the message process_report_bytes returned, not yet dispatched
    answer,         \* the packet the last step wrote to the host, or None
    out,            \* channel -> what its client is sending
    messages,       \* number of messages started so far, also the newest id
    born,           \* history: id -> when its first packet was written
    synced          \* history: channel -> newest id when INIT last cleared it

clients == <<out, messages, born>>
vars == <<now, payload_stack, event, answer, out, messages, born, synced>>

AllChannels == Channels \cup {BROADCAST}

TypeOK ==
    /\ now \in Nat
    /\ payload_stack \in [AllChannels -> ChannelPayload \cup {None}]
    /\ \A c \in AllChannels : payload_stack[c] # None =>
          /\ payload_stack[c].started_at <= now
          /\ Len(payload_stack[c].data) < payload_stack[c].total_len
    /\ messages \in Nat
    /\ synced \in [Channels -> Nat]
    /\ out \in [AllChannels -> Outgoing]

Init ==
    /\ now = 0
    /\ payload_stack = [c \in AllChannels |-> None]
    /\ event = None /\ answer = None
    /\ out = [c \in AllChannels |-> [id |-> 0, command |-> "Init", len |-> 0, sent |-> 1]]
    /\ messages = 0
    /\ born = [id \in 1..MaxMessages |-> 0]
    /\ synced = [c \in Channels |-> 0]

-----------------------------------------------------------------------------
(* The packets of a message.  Fragment 0 is the initialization packet's    *)
(* payload, fragment k the one of the continuation with sequence k - 1.    *)

Least(a, b) == IF a <= b THEN a ELSE b

Offset(k) == IF k = 0 THEN 0 ELSE InitData + (k - 1) * ContData

(* What fills a packet behind the end of its message; no message has id 0. *)
Pad == <<0, 0>>

Fragment(m, k) ==
    [i \in 1..(IF k = 0 THEN InitData ELSE ContData) |->
        IF Offset(k) + i - 1 < m.len THEN <<m.id, Offset(k) + i - 1>> ELSE Pad]

AllWritten(m) == Offset(m.sent) >= m.len

-----------------------------------------------------------------------------
(* process_report_bytes                                                    *)

(* Definitions named Bad... are wrong variants a change to the code could  *)
(* introduce; nothing uses them but the mutation runs.                     *)
BadNeverEvicts == payload_stack

(* retain: every report first evicts what is Timeout old, on all channels. *)
Live ==
    [c \in AllChannels |->
        IF payload_stack[c] # None /\ now - payload_stack[c].started_at >= Timeout
        THEN None ELSE payload_stack[c]]

(* A message that fits its packet is returned at once.  A partial payload  *)
(* of the channel stays where it is.                                       *)
SinglePacket(c, command, len, data) ==
    /\ len <= InitData
    /\ event' = [channel |-> c, command |-> command, data |-> SubSeq(data, 1, len)]
    /\ answer' = None
    /\ payload_stack' = Live

(* insert: a new message replaces a partial one of its channel.            *)
BadInsertKeepsPartial(c, payload) ==
    IF Live[c] # None THEN Live ELSE [Live EXCEPT ![c] = payload]

Insert(c, payload) == [Live EXCEPT ![c] = payload]

FirstPacket(c, command, len, data) ==
    /\ len > InitData
    /\ payload_stack' =
          Insert(c, [command |-> command, total_len |-> len, data |-> data,
                     next_expected_sequence |-> 0, started_at |-> now])
    /\ event' = None /\ answer' = None

InitializationPacket(c, command, len, data) ==
    SinglePacket(c, command, len, data) \/ FirstPacket(c, command, len, data)

BadStrayIsAnError(c) ==
    /\ Live[c] = None
    /\ payload_stack' = Live
    /\ answer' = [channel |-> c, kind |-> "InvalidSequence"]
    /\ event' = None

StrayContinuation(c) ==
    /\ Live[c] = None
    /\ payload_stack' = Live
    /\ event' = None /\ answer' = None

WrongSequence(c, sequence) ==
    /\ Live[c] # None
    /\ sequence # Live[c].next_expected_sequence
    /\ payload_stack' = [Live EXCEPT ![c] = None]
    /\ answer' = [channel |-> c, kind |-> "InvalidSequence"]
    /\ event' = None

(* At most what is missing is taken from the packet, the rest is padding.  *)
BadTakenWithPadding(payload, data) == data

Taken(payload, data) ==
    SubSeq(data, 1, Least(Len(data), payload.total_len - Len(payload.data)))

BadCompleteBeyond(payload, whole) == Len(whole) > payload.total_len

Complete(payload, whole) == Len(whole) >= payload.total_len

NextPacket(c, sequence, data) ==
    LET payload == Live[c]
        whole   == payload.data \o Taken(payload, data)
    IN
    /\ payload # None
    /\ sequence = payload.next_expected_sequence
    /\ \/ /\ Complete(payload, whole)
          /\ payload_stack' = [Live EXCEPT ![c] = None]
          /\ event' = [channel |-> c, command |-> payload.command, data |-> whole]
       \/ /\ ~Complete(payload, whole)
          /\ payload_stack' =
                [Live EXCEPT ![c].data = whole, ![c].next_expected_sequence = @ + 1]
          /\ event' = None
    /\ answer' = None

BadNoSequenceCheck(c, sequence, data) ==
    \/ StrayContinuation(c)
    \/ /\ Live[c] # None
       /\ NextPacket(c, Live[c].next_expected_sequence, data)

ContinuationPacket(c, sequence, data) ==
    \/ StrayContinuation(c)
    \/ WrongSequence(c, sequence)
    \/ NextPacket(c, sequence, data)

(* A report that does not parse only evicts.                               *)
UnparsableReport ==
    /\ event = None
    /\ payload_stack' = Live
    /\ event' = None /\ answer' = None
    /\ UNCHANGED <<now, clients, synced>>

PacketLost ==
    /\ Lossy
    /\ event' = None /\ answer' = None
    /\ UNCHANGED payload_stack

-----------------------------------------------------------------------------
(* The clients.  A message may be abandoned for a new one at any time.     *)

ClientStart(c, command, len) ==
    LET m == [id |-> messages + 1, command |-> command, len |-> len, sent |-> 1] IN
    /\ event = None /\ messages < MaxMessages
    /\ out' = [out EXCEPT ![c] = m]
    /\ messages' = m.id
    /\ born' = [born EXCEPT ![m.id] = now]
    /\ PacketLost \/ InitializationPacket(c, command, len, Fragment(m, 0))
    /\ UNCHANGED <<now, synced>>

ClientContinue(c) ==
    LET m == out[c] IN
    /\ event = None /\ ~AllWritten(m)
    /\ m.sent - 1 <= MaxSequence
    /\ out' = [out EXCEPT ![c].sent = @ + 1]
    /\ PacketLost \/ ContinuationPacket(c, m.sent - 1, Fragment(m, m.sent))
    /\ UNCHANGED <<now, messages, born, synced>>

-----------------------------------------------------------------------------
(* The loop of src/src/main.rs dispatches what was read before it reads on.*)

BadInitKeepsPartial ==
    /\ event # None /\ event.command = "Init"
    /\ IF event.channel = BROADCAST
       THEN UNCHANGED synced
       ELSE synced' = [synced EXCEPT ![event.channel] = out[event.channel].id]
    /\ answer' = [channel |-> event.channel, kind |-> "Init"]
    /\ event' = None
    /\ UNCHANGED <<now, payload_stack, clients>>

(* INIT on a client's own channel resynchronises it; on BROADCAST it only  *)
(* assigns a channel id.                                                   *)
HandleInit ==
    /\ event # None /\ event.command = "Init"
    /\ IF event.channel = BROADCAST
       THEN UNCHANGED <<payload_stack, synced>>
       ELSE /\ payload_stack' = [payload_stack EXCEPT ![event.channel] = None]
            /\ synced' = [synced EXCEPT ![event.channel] = out[event.channel].id]
    /\ answer' = [channel |-> event.channel, kind |-> "Init"]
    /\ event' = None
    /\ UNCHANGED <<now, clients>>

(* Too short for the nonce: an error, and the channel is not resynchronised.*)
HandleTruncatedInit ==
    /\ event # None /\ event.command = "TruncatedInit"
    /\ answer' = [channel |-> event.channel, kind |-> "InvalidLength"]
    /\ event' = None
    /\ UNCHANGED <<now, payload_stack, clients, synced>>

HandleCbor ==
    /\ event # None /\ event.command = "Cbor"
    /\ event' = None /\ answer' = None
    /\ UNCHANGED <<now, payload_stack, clients, synced>>

Tick ==
    /\ event = None /\ now < MaxNow
    /\ now' = now + 1
    /\ answer' = None
    /\ UNCHANGED <<payload_stack, event, clients, synced>>

Next ==
    \/ \E c \in Channels, len \in Lengths : ClientStart(c, "Cbor", len)
    \/ \E c \in AllChannels, command \in {"Init", "TruncatedInit"} :
          ClientStart(c, command, 0)
    \/ \E c \in Channels : ClientContinue(c)
    \/ UnparsableReport
    \/ HandleInit
    \/ HandleTruncatedInit
    \/ HandleCbor
    \/ Tick

Spec == Init /\ [][Next]_vars

-----------------------------------------------------------------------------
(* Properties.                                                             *)

Delivered == event # None /\ event.command = "Cbor"

(* Without loss a message is returned exactly as its client sent it,       *)
(* whatever the other clients send in between and whatever the client has  *)
(* abandoned before (ctaphid.rs:95-145).                                   *)
Intact ==
    Delivered =>
        LET m == out[event.channel] IN
        event.data = [i \in 1..m.len |-> <<m.id, i - 1>>]

(* Without loss a message whose last packet comes within Timeout of its    *)
(* first is returned by that packet: no other client's traffic, abandoned  *)
(* message or eviction makes the bridge miss it (ctaphid.rs:78, 100, 140). *)
CompleteInTime ==
    [][\A c \in Channels :
         /\ out'[c] # out[c] /\ AllWritten(out'[c])
         /\ now - born'[out'[c].id] < Timeout
         => event' # None /\ event'.channel = c]_vars

(* Without loss no client is ever told its sequence is wrong, not even one *)
(* whose payload was evicted or abandoned (ctaphid.rs:125-132).            *)
NoSpuriousError == answer # None => answer.kind # "InvalidSequence"

(* Even with loss, where fragments of two messages can end up in one, every*)
(* byte lies at the offset its client gave it (ctaphid.rs:125, 135-140).   *)
OffsetsKept ==
    Delivered =>
        \A i \in DOMAIN event.data :
            event.data[i] # Pad => event.data[i][2] = i - 1

(* Even with loss, nothing that was first sent Timeout ago or earlier is   *)
(* part of a message (ctaphid.rs:76-78).                                   *)
Fresh ==
    Delivered =>
        \A i \in DOMAIN event.data :
            event.data[i] # Pad => now - born[event.data[i][1]] < Timeout

(* Even with loss, nothing sent before a client resynchronised its channel *)
(* is part of a later message (ctaphid.rs:198-199).                        *)
SyncForgets ==
    Delivered =>
        \A i \in DOMAIN event.data :
            event.data[i] # Pad => event.data[i][1] > synced[event.channel]
=============================================================================
