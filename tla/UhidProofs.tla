----------------------------- MODULE UhidProofs -----------------------------
(***************************************************************************)
(* Proofs about Uhid for any clients, message sizes and ring size: what    *)
(* the ring may hold at once, and how large it must be to lose nothing.    *)
(***************************************************************************)
EXTENDS Uhid, SequenceTheorems, FiniteSetTheorems, TLAPS

-----------------------------------------------------------------------------
(* The invariant.                                                          *)

Events ==
    [type: {"START", "OPEN", "CLOSE"}] \cup
    [type: {"OUTPUT"}, size: {65}, client: Clients, command: {"Cbor", "Init"},
     packet: Nat, length: Nat]

ClientOK(c) ==
    /\ phase[c] \in {"closed", "open"} => expected[c] = 0
    /\ phase[c] \notin {"closed", "open"} => size[c] \in Sizes[c]
    /\ phase[c] = "sending" => sent[c] < Packets(size[c])

ClientsOK == \A c \in Clients : ClientOK(c)

(* A report in the ring belongs to what its client is doing, p, and is one *)
(* of the k packets it has written of a message of length n.               *)
Belongs(e, p, k, n) ==
    /\ e.command = "Init" => p = "syncing"
    /\ e.command = "Cbor" => p \notin {"closed", "open"} /\ e.packet < k /\ e.length = n

ReportsOK ==
    \A i \in 1..Len(ring) : ring[i].type = "OUTPUT" =>
        LET c == ring[i].client IN Belongs(ring[i], phase[c], sent[c], size[c])

(* d may be ahead of e in the ring: of every type but OUTPUT there is one  *)
(* event, a client's packets are in order, and its INIT is behind them.    *)
Precedes(d, e) ==
    /\ d.type = e.type => d.type = "OUTPUT"
    /\ d.type = "OUTPUT" /\ e.type = "OUTPUT" /\ d.client = e.client =>
          d.command = "Cbor" /\ (e.command = "Cbor" => d.packet < e.packet)

OrderOK == \A i, j \in 1..Len(ring) : i < j => Precedes(ring[i], ring[j])

NoneOpen == \A c \in Clients : phase[c] = "closed"

OpenOK == NoneOpen => \A i \in 1..Len(ring) : ring[i].type # "OPEN"

IInv ==
    /\ TypeOK
    /\ ring \in Seq(Events) /\ sent \in [Clients -> Nat]
    /\ ClientsOK
    /\ ReportsOK
    /\ OrderOK
    /\ OpenOK

(* The places an event can take: no two events of the ring have the same.  *)
Slot(e) ==
    IF e.type = "OUTPUT"
    THEN <<"OUTPUT", e.client, IF e.command = "Init" THEN -1 ELSE e.packet>>
    ELSE <<e.type, "", 0>>

Slots ==
    {<<type, "", 0>> : type \in {"START", "OPEN", "CLOSE"}} \cup
    {s \in {"OUTPUT"} \X Clients \X Int :
        \E n \in Sizes[s[2]] : s[3] \in -1..(Packets(n) - 1)}

RingLargeEnough == IsFiniteSet(Slots) /\ Cardinality(Slots) <= RingSize
-----------------------------------------------------------------------------
(* Packets and the ring.                                                   *)

LEMMA PacketsProperties ==
    ASSUME NEW n \in Nat
    PROVE  Packets(n) \in Nat \ {0} /\ (n <= 7609 => Packets(n) <= MaxSequence + 2)
  BY DEF Packets, InitData, ContData, MaxSequence

LEMMA SizesProperties ==
    ASSUME NEW c \in Clients, NEW n \in Sizes[c]
    PROVE  n \in Nat /\ n <= 7609
  <1>1. Sizes[c] \in SUBSET (1..7609)
    BY UhidAssumption DEF UhidAssumption
  <1>2. n \in 1..7609
    BY <1>1
  <1> QED
    BY <1>2

LEMMA SizePackets ==
    ASSUME TypeOK
    PROVE  \A c \in Clients : Packets(size[c]) \in Nat
  <1>1. \A n \in Nat : Packets(n) \in Nat
    BY PacketsProperties
  <1> QED
    BY <1>1 DEF TypeOK

LEMMA PlainEvent ==
    ASSUME NEW type \in {"START", "OPEN", "CLOSE"}
    PROVE  /\ Plain(type) \in Events
           /\ Plain(type).type = type /\ type # "OUTPUT"
  BY DEF Plain, Events

LEMMA OutputEvent ==
    ASSUME NEW c \in Clients, NEW command \in {"Cbor", "Init"},
           NEW k \in Nat, NEW n \in Nat
    PROVE  LET e == Output(c, command, k, n) IN
           /\ e \in Events
           /\ e.type = "OUTPUT" /\ e.client = c /\ e.command = command
           /\ e.packet = k /\ e.length = n
  BY DEF Output, Events

LEMMA EventProperties ==
    ASSUME NEW e \in Events
    PROVE  /\ e.type \in {"START", "OPEN", "CLOSE", "OUTPUT"}
           /\ e.type = "OUTPUT" =>
                /\ e.client \in Clients /\ e.command \in {"Cbor", "Init"}
                /\ e.packet \in Nat /\ e.length \in Nat /\ e.size = 65
  BY DEF Events

LEMMA RingElements ==
    ASSUME IInv
    PROVE  Len(ring) \in Nat /\ \A i \in 1..Len(ring) : ring[i] \in Events
  BY LenProperties, ElementOfSeq DEF IInv

(* The ring with an event queued, unless it is full.                       *)
LEMMA Grown ==
    ASSUME IInv, NEW e \in Events, Queue(e) \/ UNCHANGED <<ring, dropped>>,
           \A i \in 1..Len(ring) : Precedes(ring[i], e)
    PROVE  /\ ring' \in Seq(Events) /\ Len(ring') <= RingSize /\ dropped' \in BOOLEAN
           /\ \A i \in 1..Len(ring') :
                 \/ i \in 1..Len(ring) /\ ring'[i] = ring[i]
                 \/ ring'[i] = e
           /\ OrderOK'
  <1>1. /\ ring \in Seq(Events) /\ Len(ring) \in Nat /\ Len(ring) <= RingSize
        /\ RingSize \in Nat /\ dropped \in BOOLEAN
    BY RingElements, UhidAssumption DEF IInv, TypeOK, UhidAssumption
  <1>2. CASE ring' = ring
    <2>1. dropped' \in BOOLEAN
      BY <1>1, <1>2 DEF Queue
    <2>2. OrderOK'
      BY <1>2 DEF IInv, OrderOK
    <2> QED
      BY <1>1, <1>2, <2>1, <2>2
  <1>3. CASE Len(ring) < RingSize /\ ring' = Append(ring, e) /\ dropped' = dropped
    <2>1. /\ ring' \in Seq(Events) /\ Len(ring') = Len(ring) + 1
          /\ \A i \in 1..Len(ring) : ring'[i] = ring[i]
          /\ ring'[Len(ring) + 1] = e
      BY <1>1, <1>3, AppendProperties
    <2>2. \A i \in 1..Len(ring') : i \in 1..Len(ring) \/ i = Len(ring) + 1
      BY <1>1, <2>1
    <2>3. ASSUME NEW i \in 1..Len(ring'), NEW j \in 1..Len(ring'), i < j
          PROVE  Precedes(ring'[i], ring'[j])
      <3>1. i \in 1..Len(ring)
        BY <1>1, <2>1, <2>3
      <3>2. CASE j \in 1..Len(ring)
        BY <2>1, <2>3, <3>1, <3>2 DEF IInv, OrderOK
      <3>3. CASE j = Len(ring) + 1
        BY <2>1, <3>1, <3>3
      <3> QED
        BY <2>2, <3>2, <3>3
    <2> QED
      BY <1>1, <1>3, <2>1, <2>2, <2>3 DEF OrderOK
  <1> QED
    BY <1>2, <1>3 DEF Queue

(* A queued event keeps the reports in the ring those of their clients.    *)
LEMMA GrownReports ==
    ASSUME IInv, NEW e \in Events,
           \A i \in 1..Len(ring') : (i \in 1..Len(ring) /\ ring'[i] = ring[i]) \/ ring'[i] = e,
           \A i \in 1..Len(ring) : ring[i].type = "OUTPUT" =>
               LET c == ring[i].client IN Belongs(ring[i], phase'[c], sent'[c], size'[c]),
           e.type = "OUTPUT" =>
               LET c == e.client IN Belongs(e, phase'[c], sent'[c], size'[c])
    PROVE  ReportsOK'
  BY DEF ReportsOK

-----------------------------------------------------------------------------
(* Every action preserves IInv.                                            *)

LEMMA InitIInv == Init => IInv
  <1> SUFFICES ASSUME Init PROVE IInv
    OBVIOUS
  <1>1. /\ ring = <<Plain("START")>> /\ Plain("START") \in Events
        /\ Plain("START").type = "START"
    BY PlainEvent DEF Init
  <1>2. /\ ring \in Seq(Events) /\ Len(ring) = 1
        /\ \A i \in 1..Len(ring) : i = 1 /\ ring[i].type = "START"
    BY <1>1
  <1>3. TypeOK
    <2>1. Packets(0) \in Nat \ {0}
      BY PacketsProperties
    <2>2. \A c \in Clients : sent[c] \in 0..Packets(size[c]) /\ expected[c] = 0
      <3> SUFFICES ASSUME NEW c \in Clients
                   PROVE  sent[c] \in 0..Packets(size[c]) /\ expected[c] = 0
        OBVIOUS
      <3>1. sent[c] = 0 /\ size[c] = 0 /\ expected[c] = 0
        BY DEF Init
      <3> QED
        BY <2>1, <3>1
    <2>3. \A i \in DOMAIN ring : ring[i].type # "OUTPUT"
      BY <1>1, <1>2
    <2>4. Len(ring) <= RingSize
      BY <1>2, UhidAssumption DEF UhidAssumption
    <2>5. 0 \in 0..(MaxSequence + 1)
      BY DEF MaxSequence
    <2>6. \A i \in DOMAIN ring :
              ring[i].type = "OUTPUT" => ring[i].client \in Clients /\ ring[i].packet \in Nat
      BY <2>3
    <2> QED
      BY <2>2, <2>4, <2>5, <2>6 DEF Init, TypeOK
  <1>4. ClientsOK
    BY DEF Init, ClientsOK, ClientOK
  <1>5. ReportsOK /\ OrderOK /\ OpenOK
    BY <1>2 DEF ReportsOK, OrderOK, OpenOK
  <1> QED
    BY <1>2, <1>3, <1>4, <1>5 DEF IInv, Init

(* While a client is closed or open there is no report of it in the ring.  *)
LEMMA NoReports ==
    ASSUME IInv, NEW c \in Clients, phase[c] \in {"closed", "open"},
           NEW i \in 1..Len(ring), ring[i].type = "OUTPUT"
    PROVE  ring[i].client # c
  BY RingElements, EventProperties DEF IInv, ReportsOK, Belongs

LEMMA RingTyped ==
    ASSUME ring \in Seq(Events)
    PROVE  \A i \in DOMAIN ring :
              ring[i].type = "OUTPUT" => ring[i].client \in Clients /\ ring[i].packet \in Nat
  BY LenProperties, ElementOfSeq, EventProperties

LEMMA OpenIInv ==
    ASSUME IInv, NEW c \in Clients, Open(c)
    PROVE  IInv'
  <1> DEFINE e == Plain("OPEN")
  <1>1. /\ phase[c] = "closed" /\ phase' = [phase EXCEPT ![c] = "open"]
        /\ UNCHANGED <<size, sent, expected, handed>>
        /\ e \in Events /\ e.type = "OPEN"
    BY PlainEvent DEF Open
  <1>2. /\ phase \in [Clients -> {"closed", "open", "sending", "waiting", "syncing"}]
        /\ phase'[c] = "open" /\ \A d \in Clients : d # c => phase'[d] = phase[d]
    BY <1>1 DEF IInv, TypeOK
  <1>3. (Queue(e) /\ NoneOpen) \/ UNCHANGED <<ring, dropped>>
    BY <1>1 DEF Open, AllClosed, NoneOpen
  <1> HIDE DEF e
  <1>4. /\ ring' \in Seq(Events) /\ Len(ring') <= RingSize /\ dropped' \in BOOLEAN
        /\ \A i \in 1..Len(ring') : (i \in 1..Len(ring) /\ ring'[i] = ring[i]) \/ ring'[i] = e
        /\ OrderOK'
    <2>1. CASE Queue(e) /\ NoneOpen
      <3>1. \A i \in 1..Len(ring) : Precedes(ring[i], e)
        BY <1>1, <2>1 DEF IInv, OpenOK, Precedes
      <3> QED
        BY <1>1, <2>1, <3>1, Grown
    <2>2. CASE UNCHANGED <<ring, dropped>>
      BY <2>2 DEF IInv, OrderOK, TypeOK
    <2> QED
      BY <1>3, <2>1, <2>2
  <1>5. TypeOK'
    <2>1. ring' \in Seq(Events) => \A i \in DOMAIN ring' :
              ring'[i].type = "OUTPUT" => ring'[i].client \in Clients /\ ring'[i].packet \in Nat
      BY LenProperties, ElementOfSeq, EventProperties
    <2> QED
      BY <1>1, <1>2, <1>4, <2>1 DEF IInv, TypeOK
  <1>6. ClientsOK'
    BY <1>1, <1>2 DEF IInv, ClientsOK, ClientOK
  <1>7. ReportsOK'
    <2>1. \A i \in 1..Len(ring) : ring[i].type = "OUTPUT" =>
              ring[i].client # c /\ ring[i].client \in Clients
      BY <1>1, NoReports, RingElements, EventProperties
    <2> QED
      BY <1>1, <1>2, <1>4, <2>1, GrownReports DEF IInv, ReportsOK
  <1>8. OpenOK'
    BY <1>2 DEF OpenOK, NoneOpen
  <1> QED
    BY <1>1, <1>4, <1>5, <1>6, <1>7, <1>8 DEF IInv

LEMMA CloseIInv ==
    ASSUME IInv, NEW c \in Clients, Close(c)
    PROVE  IInv'
  <1> DEFINE e == Plain("CLOSE")
  <1>1. /\ phase[c] = "open" /\ phase' = [phase EXCEPT ![c] = "closed"] /\ ring = <<>>
        /\ UNCHANGED <<size, sent, expected, handed>>
        /\ e \in Events /\ e.type = "CLOSE"
        /\ Queue(e) \/ UNCHANGED <<ring, dropped>>
    BY PlainEvent DEF Close
  <1>2. /\ phase \in [Clients -> {"closed", "open", "sending", "waiting", "syncing"}]
        /\ phase'[c] = "closed" /\ \A d \in Clients : d # c => phase'[d] = phase[d]
    BY <1>1 DEF IInv, TypeOK
  <1> HIDE DEF e
  <1>3. 1..Len(ring) = {}
    BY <1>1
  <1>4. /\ ring' \in Seq(Events) /\ Len(ring') <= RingSize /\ dropped' \in BOOLEAN
        /\ \A i \in 1..Len(ring') : ring'[i] = e
        /\ OrderOK'
    BY <1>1, <1>3, Grown
  <1>5. TypeOK'
    <2>1. ring' \in Seq(Events) => \A i \in DOMAIN ring' :
              ring'[i].type = "OUTPUT" => ring'[i].client \in Clients /\ ring'[i].packet \in Nat
      BY LenProperties, ElementOfSeq, EventProperties
    <2> QED
      BY <1>1, <1>2, <1>4, <2>1 DEF IInv, TypeOK
  <1>6. ClientsOK'
    BY <1>1, <1>2 DEF IInv, ClientsOK, ClientOK
  <1>7. ReportsOK' /\ OpenOK'
    BY <1>1, <1>4 DEF ReportsOK, OpenOK
  <1> QED
    BY <1>1, <1>4, <1>5, <1>6, <1>7 DEF IInv

LEMMA StartIInv ==
    ASSUME IInv, NEW c \in Clients, NEW n \in Sizes[c], Start(c, n)
    PROVE  IInv'
  <1>1. /\ phase[c] = "open" /\ phase' = [phase EXCEPT ![c] = "sending"]
        /\ size' = [size EXCEPT ![c] = n] /\ sent' = [sent EXCEPT ![c] = 0]
        /\ handed' = [handed EXCEPT ![c] = FALSE]
        /\ UNCHANGED <<ring, dropped, expected>>
    BY DEF Start
  <1>2. n \in Nat /\ Packets(n) \in Nat \ {0}
    BY SizesProperties, PacketsProperties
  <1>3. /\ phase \in [Clients -> {"closed", "open", "sending", "waiting", "syncing"}]
        /\ size \in [Clients -> Nat]
    BY DEF IInv, TypeOK
  <1>4. /\ phase'[c] = "sending" /\ size'[c] = n
        /\ \A d \in Clients : d # c => phase'[d] = phase[d] /\ size'[d] = size[d]
                                       /\ sent'[d] = sent[d]
    BY <1>1, <1>3
  <1>5. sent'[c] = 0 /\ sent' \in [Clients -> Nat] /\ size' \in [Clients -> Nat]
    BY <1>1, <1>2, <1>3 DEF IInv
  <1>6. TypeOK'
    <2>1. expected[c] = 0
      BY <1>1 DEF IInv, ClientsOK, ClientOK
    <2>2. \A d \in Clients : /\ sent'[d] \in 0..Packets(size'[d])
                             /\ expected[d] # 0 => expected[d] < Packets(size'[d])
      <3>1. ASSUME NEW d \in Clients, d # c
            PROVE  /\ sent'[d] \in 0..Packets(size'[d])
                   /\ expected[d] # 0 => expected[d] < Packets(size'[d])
        BY <1>4, <3>1 DEF IInv, TypeOK
      <3>2. 0 \in 0..Packets(n)
        BY <1>2
      <3> QED
        BY <1>4, <1>5, <2>1, <3>1, <3>2
    <2> QED
      BY <1>1, <1>5, <2>2 DEF IInv, TypeOK
  <1>7. ClientsOK'
    BY <1>1, <1>2, <1>4, <1>5 DEF IInv, ClientsOK, ClientOK
  <1>8. ReportsOK'
    <2>1. \A i \in 1..Len(ring) : ring[i].type = "OUTPUT" =>
              ring[i].client # c /\ ring[i].client \in Clients
      BY <1>1, NoReports, RingElements, EventProperties
    <2> QED
      BY <1>1, <1>4, <2>1 DEF IInv, ReportsOK
  <1>9. OrderOK' /\ OpenOK'
    BY <1>1, <1>4 DEF IInv, OrderOK, OpenOK, NoneOpen
  <1> QED
    BY <1>1, <1>5, <1>6, <1>7, <1>8, <1>9 DEF IInv
(* What a client in the midst of a message may queue goes behind what it   *)
(* has queued.                                                             *)
LEMMA WrittenLast ==
    ASSUME IInv, NEW c \in Clients, phase[c] \in {"sending", "waiting"},
           NEW command \in {"Cbor", "Init"}, NEW k \in Nat, NEW n \in Nat,
           command = "Cbor" => k = sent[c]
    PROVE  \A i \in 1..Len(ring) : Precedes(ring[i], Output(c, command, k, n))
  <1> DEFINE e == Output(c, command, k, n)
  <1>1. e.type = "OUTPUT" /\ e.client = c /\ e.command = command /\ e.packet = k
    BY OutputEvent
  <1> HIDE DEF e
  <1>2. ASSUME NEW i \in 1..Len(ring), ring[i].type = "OUTPUT", ring[i].client = c
        PROVE  ring[i].command = "Cbor" /\ ring[i].packet < sent[c]
    BY <1>2, RingElements, EventProperties DEF IInv, ReportsOK, Belongs
  <1>3. \A i \in 1..Len(ring) : Precedes(ring[i], e)
    BY <1>1, <1>2 DEF Precedes
  <1> QED
    BY <1>3 DEF e

LEMMA WritePacketIInv ==
    ASSUME IInv, NEW c \in Clients, WritePacket(c)
    PROVE  IInv'
  <1> DEFINE k == sent[c]
             n == size[c]
             e == Output(c, "Cbor", k, n)
  <1>1. /\ phase[c] = "sending" /\ Queue(e)
        /\ sent' = [sent EXCEPT ![c] = @ + 1]
        /\ phase' = IF k + 1 = Packets(n) THEN [phase EXCEPT ![c] = "waiting"] ELSE phase
        /\ UNCHANGED <<size, expected, handed>>
    BY DEF WritePacket
  <1>2. /\ k \in Nat /\ n \in Nat /\ n \in Sizes[c] /\ k < Packets(n)
        /\ Packets(n) \in Nat
        /\ phase \in [Clients -> {"closed", "open", "sending", "waiting", "syncing"}]
        /\ sent \in [Clients -> Nat] /\ size \in [Clients -> Nat]
    <2>1. /\ phase \in [Clients -> {"closed", "open", "sending", "waiting", "syncing"}]
          /\ sent \in [Clients -> Nat] /\ size \in [Clients -> Nat]
      BY DEF IInv, TypeOK
    <2>2. k < Packets(n) /\ n \in Sizes[c]
      BY <1>1 DEF IInv, ClientsOK, ClientOK
    <2>3. k \in Nat /\ n \in Nat
      BY <2>1
    <2>4. Packets(n) \in Nat
      BY <2>3, PacketsProperties
    <2> QED
      BY <2>1, <2>2, <2>3, <2>4
  <1>3. /\ e \in Events /\ e.type = "OUTPUT" /\ e.client = c /\ e.command = "Cbor"
        /\ e.packet = k /\ e.length = n
    BY <1>2, OutputEvent
  <1>4. /\ sent' \in [Clients -> Nat] /\ sent'[c] = k + 1
        /\ phase' \in [Clients -> {"closed", "open", "sending", "waiting", "syncing"}]
        /\ phase'[c] = IF k + 1 = Packets(n) THEN "waiting" ELSE "sending"
        /\ \A d \in Clients : d # c => phase'[d] = phase[d] /\ sent'[d] = sent[d]
    BY <1>1, <1>2
  <1>5. \A i \in 1..Len(ring) : Precedes(ring[i], e)
    BY <1>1, <1>2, WrittenLast
  <1> HIDE DEF e, k, n
  <1>6. /\ ring' \in Seq(Events) /\ Len(ring') <= RingSize /\ dropped' \in BOOLEAN
        /\ \A i \in 1..Len(ring') : (i \in 1..Len(ring) /\ ring'[i] = ring[i]) \/ ring'[i] = e
        /\ OrderOK'
    BY <1>1, <1>3, <1>5, Grown
  <1>7. TypeOK'
    <2>1. ring' \in Seq(Events) => \A i \in DOMAIN ring' :
              ring'[i].type = "OUTPUT" => ring'[i].client \in Clients /\ ring'[i].packet \in Nat
      BY LenProperties, ElementOfSeq, EventProperties
    <2>2. k + 1 \in 0..Packets(n)
      BY <1>2
    <2>3. \A d \in Clients : sent'[d] \in 0..Packets(size[d])
      BY <1>4, <2>2 DEF IInv, TypeOK, n
    <2> QED
      BY <1>1, <1>4, <1>6, <2>1, <2>3 DEF IInv, TypeOK
  <1>8. ClientsOK'
    <2>1. phase'[c] \in {"sending", "waiting"}
          /\ (phase'[c] = "sending" => k + 1 < Packets(n))
      BY <1>2, <1>4
    <2> QED
      BY <1>1, <1>2, <1>4, <2>1 DEF IInv, ClientsOK, ClientOK, n
  <1>9. ReportsOK'
    <2>1. \A i \in 1..Len(ring) : ring[i].type = "OUTPUT" =>
              LET d == ring[i].client IN Belongs(ring[i], phase'[d], sent'[d], size'[d])
      <3> SUFFICES ASSUME NEW i \in 1..Len(ring), ring[i].type = "OUTPUT",
                          NEW d \in Clients, d = ring[i].client
                   PROVE  Belongs(ring[i], phase'[d], sent'[d], size'[d])
        BY RingElements, EventProperties
      <3>1. Belongs(ring[i], phase[d], sent[d], size[d]) /\ ring[i].packet \in Nat
        BY RingElements, EventProperties DEF IInv, ReportsOK
      <3>2. CASE d = c
        <4>1. phase'[c] \in {"sending", "waiting"} /\ phase[c] = "sending"
          BY <1>1, <1>4
        <4> QED
          BY <1>1, <1>2, <1>4, <3>1, <3>2, <4>1 DEF Belongs, k
      <3>3. CASE d # c
        BY <1>1, <1>4, <3>1, <3>3
      <3> QED
        BY <3>2, <3>3
    <2>2. Belongs(e, phase'[c], sent'[c], size'[c])
      <3>1. phase'[c] \in {"sending", "waiting"} /\ k < k + 1
        BY <1>2, <1>4
      <3> QED
        BY <1>1, <1>3, <1>4, <3>1 DEF Belongs, n
    <2> QED
      BY <1>3, <1>6, <2>1, <2>2, GrownReports
  <1>10. OpenOK'
    <2>1. phase'[c] # "closed"
      BY <1>4
    <2> QED
      BY <2>1 DEF OpenOK, NoneOpen
  <1> QED
    BY <1>4, <1>6, <1>7, <1>8, <1>9, <1>10 DEF IInv

LEMMA GiveUpIInv ==
    ASSUME IInv, NEW c \in Clients, GiveUp(c)
    PROVE  IInv'
  <1> DEFINE e == Output(c, "Init", 0, 8)
  <1>1. /\ phase[c] \in {"sending", "waiting"} /\ Queue(e)
        /\ phase' = [phase EXCEPT ![c] = "syncing"]
        /\ UNCHANGED <<size, sent, expected, handed>>
        /\ e \in Events /\ e.type = "OUTPUT" /\ e.client = c /\ e.command = "Init"
    BY OutputEvent DEF GiveUp
  <1>2. /\ phase' \in [Clients -> {"closed", "open", "sending", "waiting", "syncing"}]
        /\ phase'[c] = "syncing" /\ \A d \in Clients : d # c => phase'[d] = phase[d]
    BY <1>1 DEF IInv, TypeOK
  <1>3. \A i \in 1..Len(ring) : Precedes(ring[i], e)
    BY <1>1, WrittenLast
  <1> HIDE DEF e
  <1>4. /\ ring' \in Seq(Events) /\ Len(ring') <= RingSize /\ dropped' \in BOOLEAN
        /\ \A i \in 1..Len(ring') : (i \in 1..Len(ring) /\ ring'[i] = ring[i]) \/ ring'[i] = e
        /\ OrderOK'
    BY <1>1, <1>3, Grown
  <1>5. TypeOK'
    <2>1. ring' \in Seq(Events) => \A i \in DOMAIN ring' :
              ring'[i].type = "OUTPUT" => ring'[i].client \in Clients /\ ring'[i].packet \in Nat
      BY LenProperties, ElementOfSeq, EventProperties
    <2> QED
      BY <1>1, <1>2, <1>4, <2>1 DEF IInv, TypeOK
  <1>6. ClientsOK'
    BY <1>1, <1>2 DEF IInv, ClientsOK, ClientOK
  <1>7. ReportsOK'
    <2>1. \A i \in 1..Len(ring) : ring[i].type = "OUTPUT" =>
              LET d == ring[i].client IN Belongs(ring[i], phase'[d], sent'[d], size'[d])
      <3> SUFFICES ASSUME NEW i \in 1..Len(ring), ring[i].type = "OUTPUT",
                          NEW d \in Clients, d = ring[i].client
                   PROVE  Belongs(ring[i], phase'[d], sent'[d], size'[d])
        BY RingElements, EventProperties
      <3>1. Belongs(ring[i], phase[d], sent[d], size[d])
        BY DEF IInv, ReportsOK
      <3> QED
        BY <1>1, <1>2, <3>1 DEF Belongs
    <2>2. Belongs(e, phase'[c], sent'[c], size'[c])
      BY <1>1, <1>2 DEF Belongs
    <2> QED
      BY <1>1, <1>4, <2>1, <2>2, GrownReports
  <1>8. OpenOK'
    <2>1. phase'[c] # "closed"
      BY <1>2
    <2> QED
      BY <2>1 DEF OpenOK, NoneOpen
  <1> QED
    BY <1>1, <1>4, <1>5, <1>6, <1>7, <1>8 DEF IInv
(* The bridge reads the oldest event.                                      *)
LEMMA ReadRing ==
    ASSUME IInv, ring # <<>>, ring' = Tail(ring)
    PROVE  /\ ring[1] = Head(ring) /\ ring[1] \in Events /\ 1 \in 1..Len(ring)
           /\ ring' \in Seq(Events) /\ Len(ring') <= RingSize
           /\ \A i \in 1..Len(ring') :
                 /\ i + 1 \in 1..Len(ring) /\ ring'[i] = ring[i + 1]
                 /\ Precedes(ring[1], ring'[i])
           /\ OrderOK'
  <1>1. /\ ring \in Seq(Events) /\ Len(ring) \in Nat /\ Len(ring) # 0
        /\ Len(ring) <= RingSize /\ RingSize \in Nat
    BY RingElements, EmptySeq, UhidAssumption DEF IInv, TypeOK, UhidAssumption
  <1>2. /\ ring' \in Seq(Events) /\ Len(ring') = Len(ring) - 1
        /\ \A i \in 1..Len(ring') : ring'[i] = ring[i + 1]
        /\ Head(ring) \in Events /\ Head(ring) = ring[1]
    BY <1>1, HeadTailProperties
  <1>3. \A i \in 1..Len(ring') : i + 1 \in 1..Len(ring) /\ 1 < i + 1
    BY <1>1, <1>2
  <1>4. 1 \in 1..Len(ring)
    BY <1>1
  <1>5. \A i \in 1..Len(ring') : Precedes(ring[1], ring'[i])
    BY <1>2, <1>3, <1>4 DEF IInv, OrderOK
  <1>6. OrderOK'
    <2> SUFFICES ASSUME NEW i \in 1..Len(ring'), NEW j \in 1..Len(ring'), i < j
                 PROVE  Precedes(ring'[i], ring'[j])
      BY DEF OrderOK
    <2>1. i + 1 \in 1..Len(ring) /\ j + 1 \in 1..Len(ring) /\ i + 1 < j + 1
      BY <1>3
    <2> QED
      BY <1>2, <2>1 DEF IInv, OrderOK
  <1>7. Len(ring') <= RingSize
    BY <1>1, <1>2
  <1> QED
    BY <1>2, <1>3, <1>4, <1>5, <1>6, <1>7

(* What is left to show of a read: phases and expected of its client.      *)
LEMMA ReadClient ==
    ASSUME IInv, NEW c \in Clients, ring # <<>>, ring' = Tail(ring),
           UNCHANGED <<dropped, size, sent>>,
           NEW p \in {"open", "sending", "waiting", "syncing"},
           NEW x \in 0..(MaxSequence + 1),
           phase' = [phase EXCEPT ![c] = p], expected' = [expected EXCEPT ![c] = x],
           handed' \in [Clients -> BOOLEAN],
           x # 0 => x < Packets(size[c]),
           phase[c] \notin {"closed", "open"},
           p = phase[c] \/ p = "open",
           p = "open" => x = 0,
           p = "open" => \A i \in 1..Len(ring') :
                             ring'[i].type = "OUTPUT" => ring'[i].client # c
    PROVE  IInv'
  <1>1. /\ ring' \in Seq(Events) /\ Len(ring') <= RingSize
        /\ \A i \in 1..Len(ring') : i + 1 \in 1..Len(ring) /\ ring'[i] = ring[i + 1]
        /\ OrderOK'
    BY ReadRing
  <1>2. /\ phase' \in [Clients -> {"closed", "open", "sending", "waiting", "syncing"}]
        /\ phase'[c] = p /\ \A d \in Clients : d # c => phase'[d] = phase[d]
        /\ expected' \in [Clients -> 0..(MaxSequence + 1)]
        /\ expected'[c] = x /\ \A d \in Clients : d # c => expected'[d] = expected[d]
    BY DEF IInv, TypeOK
  <1>3. TypeOK'
    <2>1. ring' \in Seq(Events) => \A i \in DOMAIN ring' :
              ring'[i].type = "OUTPUT" => ring'[i].client \in Clients /\ ring'[i].packet \in Nat
      BY LenProperties, ElementOfSeq, EventProperties
    <2>2. \A d \in Clients : expected'[d] # 0 => expected'[d] < Packets(size[d])
      BY <1>2 DEF IInv, TypeOK
    <2> QED
      BY <1>1, <1>2, <2>1, <2>2 DEF IInv, TypeOK
  <1>4. ClientsOK'
    BY <1>2 DEF IInv, ClientsOK, ClientOK
  <1>5. ReportsOK'
    <2> SUFFICES ASSUME NEW i \in 1..Len(ring'), ring'[i].type = "OUTPUT",
                        NEW d \in Clients, d = ring'[i].client
                 PROVE  Belongs(ring'[i], phase'[d], sent'[d], size'[d])
      <3>1. \A i \in 1..Len(ring') : ring'[i] \in Events
        BY <1>1, RingElements
      <3> QED
        BY <3>1, EventProperties DEF ReportsOK
    <2>1. Belongs(ring'[i], phase[d], sent[d], size[d])
      BY <1>1 DEF IInv, ReportsOK
    <2> QED
      BY <1>2, <2>1 DEF Belongs
  <1>6. OpenOK'
    <2>1. phase'[c] # "closed"
      BY <1>2
    <2> QED
      BY <2>1 DEF OpenOK, NoneOpen
  <1> QED
    BY <1>1, <1>3, <1>4, <1>5, <1>6 DEF IInv

LEMMA ReadEventIInv ==
    ASSUME IInv, ReadEvent
    PROVE  IInv'
  <1> DEFINE e == ring[1]
             c == e.client
  <1>1. /\ ring # <<>> /\ ring' = Tail(ring) /\ UNCHANGED <<dropped, size, sent>>
        /\ e = Head(ring) /\ e \in Events /\ 1 \in 1..Len(ring)
        /\ ring' \in Seq(Events) /\ Len(ring') <= RingSize
        /\ \A i \in 1..Len(ring') :
              /\ i + 1 \in 1..Len(ring) /\ ring'[i] = ring[i + 1]
              /\ Precedes(e, ring'[i])
        /\ OrderOK'
    BY ReadRing DEF ReadEvent
  <1>2. \/ e.type = "OUTPUT" /\ Packet(c, e)
        \/ UNCHANGED <<phase, expected, handed>>
    BY <1>1 DEF ReadEvent
  <1>3. CASE UNCHANGED <<phase, expected, handed>>
    <2>1. ring' \in Seq(Events) => \A i \in DOMAIN ring' :
              ring'[i].type = "OUTPUT" => ring'[i].client \in Clients /\ ring'[i].packet \in Nat
      BY LenProperties, ElementOfSeq, EventProperties
    <2>2. TypeOK'
      BY <1>1, <1>3, <2>1 DEF IInv, TypeOK
    <2>3. ClientsOK'
      BY <1>1, <1>3 DEF IInv, ClientsOK, ClientOK
    <2>4. ReportsOK' /\ OpenOK'
      BY <1>1, <1>3 DEF IInv, ReportsOK, OpenOK, NoneOpen
    <2> QED
      BY <1>1, <2>2, <2>3, <2>4 DEF IInv
  <1>4. CASE e.type = "OUTPUT" /\ Packet(c, e)
    <2>1. /\ c \in Clients /\ e.command \in {"Cbor", "Init"} /\ e.packet \in Nat
          /\ Belongs(e, phase[c], sent[c], size[c])
      BY <1>1, <1>4, EventProperties DEF IInv, ReportsOK
    <2>2. /\ phase \in [Clients -> {"closed", "open", "sending", "waiting", "syncing"}]
          /\ expected \in [Clients -> 0..(MaxSequence + 1)]
          /\ handed \in [Clients -> BOOLEAN] /\ sent[c] \in 0..Packets(size[c])
          /\ sent[c] \in Nat /\ size[c] \in Nat
      BY <2>1 DEF IInv, TypeOK
    <2>3. /\ phase[c] \notin {"closed", "open"}
          /\ e.command = "Cbor" => e.packet < sent[c] /\ e.length = size[c]
      BY <2>1 DEF Belongs
    <2>4. Packets(size[c]) \in Nat /\ Packets(size[c]) <= MaxSequence + 2
      <3>1. size[c] \in Sizes[c]
        BY <2>1, <2>3 DEF IInv, ClientsOK, ClientOK
      <3>2. size[c] \in Nat /\ size[c] <= 7609
        BY <2>1, <3>1, SizesProperties
      <3> HIDE DEF c
      <3> QED
        BY <3>2, PacketsProperties
    <2>5. \A i \in 1..Len(ring') : ring'[i].type = "OUTPUT" /\ ring'[i].client = c =>
              /\ e.command = "Cbor"
              /\ ring'[i].command \in {"Cbor", "Init"} /\ ring'[i].packet \in Nat
              /\ ring'[i].command = "Cbor" => e.packet < ring'[i].packet
              /\ Belongs(ring'[i], phase[c], sent[c], size[c])
      BY <1>1, <1>4, RingElements, EventProperties DEF Precedes, IInv, ReportsOK
    <2>6. 0 \in 0..(MaxSequence + 1)
      BY DEF MaxSequence
    <2> HIDE DEF e, c
    <2>7. \A p \in {"sending", "waiting", "syncing"} :
              phase[c] = p => phase = [phase EXCEPT ![c] = p]
      BY <2>1, <2>2
    <2>8. phase[c] \in {"sending", "waiting", "syncing"}
      BY <2>1, <2>2, <2>3
    <2>9. CASE e.command = "Init" /\ expected' = [expected EXCEPT ![c] = 0]
               /\ ReplyInit(c) /\ UNCHANGED handed
      <3>1. phase[c] = "syncing" /\ phase' = [phase EXCEPT ![c] = "open"]
        BY <2>1, <2>9 DEF Belongs, ReplyInit
      <3>2. \A i \in 1..Len(ring') : ring'[i].type = "OUTPUT" => ring'[i].client # c
        BY <2>5, <2>9
      <3> QED
        BY <1>1, <2>1, <2>2, <2>6, <2>9, <3>1, <3>2, ReadClient
    <2>10. CASE e.command = "Cbor" /\ Complete(e)
                /\ expected' = [expected EXCEPT ![c] = 0] /\ Dispatch(c)
      <3>1. e.packet + 1 = Packets(size[c]) /\ handed' \in [Clients -> BOOLEAN]
        BY <2>2, <2>3, <2>10 DEF Complete, Dispatch
      <3>2. CASE phase[c] = "waiting" /\ phase' = [phase EXCEPT ![c] = "open"]
        <4>1. ASSUME NEW i \in 1..Len(ring'), ring'[i].type = "OUTPUT"
              PROVE  ring'[i].client # c
          <5> SUFFICES ASSUME ring'[i].client = c PROVE FALSE
            OBVIOUS
          <5>1. /\ ring'[i].command \in {"Cbor", "Init"} /\ ring'[i].packet \in Nat
                /\ ring'[i].command = "Cbor" => e.packet < ring'[i].packet
                /\ Belongs(ring'[i], "waiting", sent[c], size[c])
            BY <2>5, <3>2, <4>1
          <5>2. ring'[i].command = "Cbor" /\ ring'[i].packet < sent[c]
            BY <5>1 DEF Belongs
          <5> QED
            BY <2>1, <2>2, <2>4, <3>1, <5>1, <5>2
        <4> QED
          BY <1>1, <2>1, <2>2, <2>6, <2>10, <3>1, <3>2, <4>1, ReadClient
      <3>3. CASE UNCHANGED phase
        BY <1>1, <2>1, <2>6, <2>7, <2>8, <2>10, <3>1, <3>3, ReadClient
      <3> QED
        BY <2>10, <3>2, <3>3 DEF Dispatch
    <2>11. CASE e.command = "Cbor" /\ ~Complete(e)
                /\ expected' = [expected EXCEPT ![c] = e.packet + 1]
                /\ UNCHANGED <<phase, handed>>
      <3>1. e.packet + 1 # Packets(size[c]) /\ e.packet < Packets(size[c])
        BY <2>1, <2>2, <2>3, <2>4, <2>11 DEF Complete
      <3>2. e.packet + 1 \in 0..(MaxSequence + 1) /\ e.packet + 1 < Packets(size[c])
        BY <2>1, <2>4, <3>1 DEF MaxSequence
      <3> QED
        BY <1>1, <2>1, <2>2, <2>7, <2>8, <2>11, <3>2, ReadClient
    <2>12. CASE e.command = "Cbor" /\ expected' = [expected EXCEPT ![c] = 0]
                /\ UNCHANGED <<phase, handed>>
      BY <1>1, <2>1, <2>2, <2>6, <2>7, <2>8, <2>12, ReadClient
    <2> QED
      BY <1>4, <2>9, <2>10, <2>11, <2>12 DEF Packet
  <1> QED
    BY <1>2, <1>3, <1>4

LEMMA NextIInv == IInv /\ [Next]_vars => IInv'
  <1> SUFFICES ASSUME IInv, [Next]_vars PROVE IInv'
    OBVIOUS
  <1>1. CASE UNCHANGED vars
    BY <1>1 DEF vars, IInv, TypeOK, ClientsOK, ClientOK, ReportsOK, OrderOK, OpenOK, NoneOpen
  <1> QED
    BY <1>1, ReadEventIInv, OpenIInv, CloseIInv, WritePacketIInv, GiveUpIInv, StartIInv
       DEF Next

LEMMA Invariant == Spec => []IInv
  BY InitIInv, NextIInv, PTL DEF Spec
-----------------------------------------------------------------------------
(* A ring with a place for every event that may be in it at once.          *)

LEMMA SlotsDiffer ==
    ASSUME NEW d \in Events, NEW e \in Events, Precedes(d, e)
    PROVE  Slot(d) # Slot(e)
  <1>1. /\ d.type \in {"START", "OPEN", "CLOSE", "OUTPUT"}
        /\ e.type \in {"START", "OPEN", "CLOSE", "OUTPUT"}
        /\ d.type = "OUTPUT" => d.command \in {"Cbor", "Init"} /\ d.packet \in Nat
        /\ e.type = "OUTPUT" => e.command \in {"Cbor", "Init"} /\ e.packet \in Nat
    BY EventProperties
  <1>2. CASE d.type # e.type
    BY <1>1, <1>2 DEF Slot
  <1>3. CASE d.type = "OUTPUT" /\ e.type = "OUTPUT" /\ d.client # e.client
    BY <1>3 DEF Slot
  <1>4. CASE d.type = "OUTPUT" /\ e.type = "OUTPUT" /\ d.client = e.client
    <2>1. d.command = "Cbor" /\ (e.command = "Cbor" => d.packet < e.packet)
      BY <1>4 DEF Precedes
    <2>2. d.packet # IF e.command = "Init" THEN -1 ELSE e.packet
      BY <1>1, <1>4, <2>1
    <2> QED
      BY <1>4, <2>1, <2>2 DEF Slot
  <1> QED
    BY <1>2, <1>3, <1>4 DEF Precedes

LEMMA SlotOfPlain ==
    ASSUME NEW e, e.type \in {"START", "OPEN", "CLOSE"}
    PROVE  Slot(e) \in Slots
  BY DEF Slot, Slots

LEMMA SlotOfOutput ==
    ASSUME NEW e \in Events, e.type = "OUTPUT", NEW n \in Sizes[e.client],
           e.command = "Cbor" => e.packet < Packets(n)
    PROVE  Slot(e) \in Slots
  <1>1. e.client \in Clients /\ e.command \in {"Cbor", "Init"} /\ e.packet \in Nat
    BY EventProperties
  <1>2. Packets(n) \in Nat \ {0}
    BY <1>1, SizesProperties, PacketsProperties
  <1> DEFINE k == IF e.command = "Init" THEN -1 ELSE e.packet
             s == <<"OUTPUT", e.client, k>>
  <1>3. k \in Int /\ k \in -1..(Packets(n) - 1)
    BY <1>1, <1>2
  <1> HIDE DEF k
  <1>4. s \in {"OUTPUT"} \X Clients \X Int /\ s[2] = e.client /\ s[3] = k
    BY <1>1, <1>3
  <1>5. s \in Slots
    <2> HIDE DEF s
    <2> QED
      BY <1>3, <1>4 DEF Slots
  <1> QED
    BY <1>5 DEF Slot, k

LEMMA RingSlots ==
    ASSUME IInv, NEW i \in 1..Len(ring)
    PROVE  Slot(ring[i]) \in Slots
  <1>1. ring[i] \in Events
    BY RingElements
  <1>2. CASE ring[i].type # "OUTPUT"
    BY <1>1, <1>2, EventProperties, SlotOfPlain
  <1>3. CASE ring[i].type = "OUTPUT"
    <2> DEFINE c == ring[i].client
    <2>1. /\ c \in Clients /\ ring[i].command \in {"Cbor", "Init"} /\ ring[i].packet \in Nat
          /\ Belongs(ring[i], phase[c], sent[c], size[c])
      BY <1>1, <1>3, EventProperties DEF IInv, ReportsOK
    <2>2. /\ phase[c] \notin {"closed", "open"}
          /\ ring[i].command = "Cbor" => ring[i].packet < sent[c]
      BY <2>1 DEF Belongs
    <2>3. /\ size[c] \in Sizes[c] /\ size[c] \in Nat
          /\ sent[c] \in 0..Packets(size[c])
      <3>1. size \in [Clients -> Nat] /\ sent \in [Clients -> Nat]
        BY DEF IInv, TypeOK
      <3>2. size[c] \in Sizes[c] /\ sent[c] \in 0..Packets(size[c])
        BY <2>1, <2>2 DEF IInv, TypeOK, ClientsOK, ClientOK
      <3> QED
        BY <2>1, <3>1, <3>2
    <2>4. Packets(size[c]) \in Nat
      BY <2>1, <2>3, SizePackets DEF IInv
    <2>5. ring[i].command = "Cbor" => ring[i].packet < Packets(size[c])
      BY <2>1, <2>2, <2>3, <2>4
    <2> QED
      BY <1>1, <1>3, <2>3, <2>5, SlotOfOutput
  <1> QED
    BY <1>2, <1>3

(* There is room for what may come behind everything in the ring.          *)
LEMMA Room ==
    ASSUME IInv, RingLargeEnough, NEW e \in Events, Slot(e) \in Slots,
           \A i \in 1..Len(ring) : Precedes(ring[i], e)
    PROVE  Len(ring) < RingSize
  <1> DEFINE n == Len(ring)
             f == [i \in 1..(n + 1) |-> IF i = n + 1 THEN Slot(e) ELSE Slot(ring[i])]
  <1>1. n \in Nat /\ \A i \in 1..n : ring[i] \in Events
    BY RingElements
  <1>2. Cardinality(Slots) \in Nat /\ RingSize \in Nat
    BY FS_CardinalityType, UhidAssumption DEF RingLargeEnough, UhidAssumption
  <1> SUFFICES ASSUME ~(n < RingSize) PROVE FALSE
    OBVIOUS
  <1>3. IsFiniteSet(1..(n + 1)) /\ Cardinality(1..(n + 1)) = n + 1
    <2> HIDE DEF n
    <2>1. n + 1 \in Int /\ 1 \in Int /\ ~(1 > n + 1) /\ n + 1 - 1 + 1 = n + 1
      BY <1>1
    <2> QED
      BY <2>1, FS_Interval
  <1>4. f \in [1..(n + 1) -> Slots]
    <2>1. \A i \in 1..(n + 1) : i # n + 1 => i \in 1..n
      BY <1>1
    <2> QED
      BY <2>1, RingSlots
  <1>5. Cardinality(Slots) < Cardinality(1..(n + 1))
    BY <1>1, <1>2, <1>3 DEF RingLargeEnough
  <1>6. PICK x \in 1..(n + 1), y \in 1..(n + 1) : x # y /\ f[x] = f[y]
    <2> HIDE DEF f, n
    <2> QED
      BY <1>3, <1>4, <1>5, FS_PigeonHole DEF RingLargeEnough
  <1>7. ASSUME NEW i \in 1..(n + 1), NEW j \in 1..(n + 1), i < j PROVE f[i] # f[j]
    <2>1. i \in 1..n /\ i # n + 1 /\ ring[i] \in Events /\ f[i] = Slot(ring[i])
      BY <1>1, <1>7
    <2>2. CASE j = n + 1
      BY <2>1, <2>2, SlotsDiffer
    <2>3. CASE j # n + 1
      <3>1. j \in 1..n /\ ring[j] \in Events /\ f[j] = Slot(ring[j])
        BY <1>1, <2>3
      <3>2. Precedes(ring[i], ring[j])
        BY <1>7, <2>1, <3>1 DEF IInv, OrderOK
      <3> QED
        BY <2>1, <3>1, <3>2, SlotsDiffer
    <2> QED
      BY <2>2, <2>3
  <1>8. x < y \/ y < x
    BY <1>1, <1>6
  <1> QED
    BY <1>6, <1>7, <1>8

LEMMA NothingDroppedStep ==
    ASSUME RingLargeEnough, IInv, NothingDropped, [Next]_vars
    PROVE  NothingDropped'
  <1>1. ASSUME NEW e \in Events, Slot(e) \in Slots, Queue(e),
               \A i \in 1..Len(ring) : Precedes(ring[i], e)
        PROVE  NothingDropped'
    BY <1>1, Room DEF Queue, NothingDropped
  <1>2. ASSUME UNCHANGED dropped PROVE NothingDropped'
    BY <1>2 DEF NothingDropped
  <1>3. ASSUME NEW c \in Clients, Open(c) PROVE NothingDropped'
    <2>1. CASE UNCHANGED dropped
      BY <1>2, <2>1
    <2>2. CASE AllClosed(c) /\ Queue(Plain("OPEN"))
      <3> DEFINE e == Plain("OPEN")
      <3>1. e \in Events /\ e.type = "OPEN"
        BY PlainEvent
      <3>2. NoneOpen
        BY <1>3, <2>2 DEF Open, AllClosed, NoneOpen
      <3> HIDE DEF e
      <3>3. \A i \in 1..Len(ring) : Precedes(ring[i], e)
        BY <3>1, <3>2 DEF IInv, OpenOK, Precedes
      <3> QED
        BY <1>1, <2>2, <3>1, <3>3, SlotOfPlain DEF e
    <2> QED
      BY <1>3, <2>1, <2>2 DEF Open
  <1>4. ASSUME NEW c \in Clients, Close(c) PROVE NothingDropped'
    <2>1. CASE UNCHANGED dropped
      BY <1>2, <2>1
    <2>2. CASE Queue(Plain("CLOSE"))
      <3>1. Plain("CLOSE") \in Events /\ Plain("CLOSE").type = "CLOSE"
        BY PlainEvent
      <3>2. 1..Len(ring) = {}
        BY <1>4 DEF Close
      <3> QED
        BY <1>1, <2>2, <3>1, <3>2, SlotOfPlain
    <2> QED
      BY <1>4, <2>1, <2>2 DEF Close
  <1>5. ASSUME NEW c \in Clients, WritePacket(c) PROVE NothingDropped'
    <2> DEFINE e == Output(c, "Cbor", sent[c], size[c])
    <2>1. phase[c] = "sending" /\ Queue(e)
      BY <1>5 DEF WritePacket
    <2>2. /\ sent[c] \in Nat /\ size[c] \in Nat /\ size[c] \in Sizes[c]
          /\ sent[c] < Packets(size[c])
      BY <2>1 DEF IInv, TypeOK, ClientsOK, ClientOK
    <2>3. /\ e \in Events /\ e.type = "OUTPUT" /\ e.client = c /\ e.packet = sent[c]
      BY <2>2, OutputEvent
    <2>4. \A i \in 1..Len(ring) : Precedes(ring[i], e)
      BY <2>1, <2>2, WrittenLast
    <2> HIDE DEF e
    <2>5. Slot(e) \in Slots
      BY <2>2, <2>3, SlotOfOutput
    <2> QED
      BY <1>1, <2>1, <2>3, <2>4, <2>5
  <1>6. ASSUME NEW c \in Clients, GiveUp(c) PROVE NothingDropped'
    <2> DEFINE e == Output(c, "Init", 0, 8)
    <2>1. phase[c] \in {"sending", "waiting"} /\ Queue(e)
      BY <1>6 DEF GiveUp
    <2>2. size[c] \in Sizes[c]
      BY <2>1 DEF IInv, ClientsOK, ClientOK
    <2>3. /\ e \in Events /\ e.type = "OUTPUT" /\ e.client = c /\ e.command = "Init"
      BY OutputEvent
    <2>4. \A i \in 1..Len(ring) : Precedes(ring[i], e)
      BY <2>1, WrittenLast
    <2> HIDE DEF e
    <2>5. Slot(e) \in Slots
      BY <2>2, <2>3, SlotOfOutput
    <2> QED
      BY <1>1, <2>1, <2>3, <2>4, <2>5
  <1>7. ASSUME NEW c \in Clients, NEW n \in Sizes[c], Start(c, n) PROVE NothingDropped'
    BY <1>2, <1>7 DEF Start
  <1>8. CASE ReadEvent \/ UNCHANGED vars
    BY <1>2, <1>8 DEF ReadEvent, vars
  <1> QED
    BY <1>3, <1>4, <1>5, <1>6, <1>7, <1>8 DEF Next
LEMMA UnionBound ==
    ASSUME NEW S, NEW T, IsFiniteSet(S), IsFiniteSet(T), NEW m \in Nat, NEW n \in Nat,
           Cardinality(S) <= m, Cardinality(T) <= n
    PROVE  IsFiniteSet(S \cup T) /\ Cardinality(S \cup T) <= m + n
  <1>1. /\ IsFiniteSet(S \cup T) /\ IsFiniteSet(S \cap T)
        /\ Cardinality(S \cup T) = Cardinality(S) + Cardinality(T) - Cardinality(S \cap T)
    BY FS_Union, FS_Intersection
  <1>2. Cardinality(S) \in Nat /\ Cardinality(T) \in Nat /\ Cardinality(S \cap T) \in Nat
    BY <1>1, FS_CardinalityType
  <1> QED
    BY <1>1, <1>2

(* The places of a client whose messages take up to k packets.             *)
PlacesOf(c, k) == {<<"OUTPUT", c, i>> : i \in -1..(k - 1)}

LEMMA PlacesBound ==
    ASSUME NEW c, NEW k \in Nat
    PROVE  IsFiniteSet(PlacesOf(c, k)) /\ Cardinality(PlacesOf(c, k)) <= k + 1
  <1> DEFINE I == -1..(k - 1)
             f == [i \in I |-> <<"OUTPUT", c, i>>]
  <1>1. IsFiniteSet(I) /\ Cardinality(I) = k + 1
    <2>1. -1 \in Int /\ k - 1 \in Int /\ ~(-1 > k - 1) /\ (k - 1) - (-1) + 1 = k + 1
      OBVIOUS
    <2>2. /\ IsFiniteSet(I)
          /\ Cardinality(I) = IF -1 > k - 1 THEN 0 ELSE (k - 1) - (-1) + 1
      BY <2>1, FS_Interval
    <2> HIDE DEF I
    <2> QED
      BY <2>1, <2>2
  <1>2. f \in Surjection(I, PlacesOf(c, k))
    BY DEF Surjection, PlacesOf
  <1> HIDE DEF f, I
  <1>3. IsFiniteSet(PlacesOf(c, k)) /\ Cardinality(PlacesOf(c, k)) <= Cardinality(I)
    BY <1>1, <1>2, FS_Surjection
  <1> QED
    BY <1>1, <1>3

(* A client that keeps to build_get_info_response's maxMsgSize, and one    *)
(* that probes beside it, on the ring of uhid.                             *)
ClientAndProbe(a, b) ==
    /\ Clients = {a, b} /\ RingSize = 31
    /\ \A n \in Sizes[a] : n <= 1200
    /\ \A n \in Sizes[b] : n <= InitData

(* The places of a client whose messages take up to k packets are these.   *)
LEMMA PlaceWithin ==
    ASSUME NEW c, NEW k \in Nat, NEW N, \A n \in N : Packets(n) \in Nat /\ Packets(n) <= k,
           NEW i \in Int, \E n \in N : i \in -1..(Packets(n) - 1)
    PROVE  <<"OUTPUT", c, i>> \in PlacesOf(c, k)
  <1>1. PICK n \in N : i \in -1..(Packets(n) - 1)
    OBVIOUS
  <1>2. Packets(n) \in Nat /\ Packets(n) <= k
    OBVIOUS
  <1>3. i \in -1..(k - 1)
    BY <1>1, <1>2
  <1> QED
    BY <1>3 DEF PlacesOf

(* They need 27 places.                                                    *)
LEMMA TwoClientsFit ==
    ASSUME NEW a, NEW b, ClientAndProbe(a, b)
    PROVE  RingLargeEnough
  <1> DEFINE plain == ({<<"START", "", 0>>} \cup {<<"OPEN", "", 0>>}) \cup {<<"CLOSE", "", 0>>}
             all == plain \cup (PlacesOf(a, 21) \cup PlacesOf(b, 1))
  <1>0. /\ Clients = {a, b} /\ RingSize = 31
        /\ \A n \in Sizes[a] : n \in Nat /\ n <= 1200
        /\ \A n \in Sizes[b] : n \in Nat /\ n <= InitData
    <2>1. Clients = {a, b}
      BY DEF ClientAndProbe
    <2> QED
      BY <2>1, SizesProperties DEF ClientAndProbe
  <1>1. \A n \in Sizes[a] : Packets(n) \in Nat /\ Packets(n) <= 21
    <2> TAKE n \in Sizes[a]
    <2>1. n \in Nat /\ n <= 1200
      BY <1>0
    <2> HIDE <1>0
    <2>2. (n - 57 + 58) \div 59 \in Nat /\ (n - 57 + 58) \div 59 <= 20
      BY <2>1
    <2> QED
      BY <2>1, <2>2 DEF Packets, InitData, ContData
  <1>2. \A n \in Sizes[b] : Packets(n) \in Nat /\ Packets(n) <= 1
    BY <1>0 DEF Packets, InitData
  <1>3. ASSUME NEW s \in Slots PROVE s \in all
    <2>1. CASE s \in {<<type, "", 0>> : type \in {"START", "OPEN", "CLOSE"}}
      <3>1. PICK type \in {"START", "OPEN", "CLOSE"} : s = <<type, "", 0>>
        BY <2>1
      <3>2. CASE type = "START"
        BY <3>1, <3>2
      <3>3. CASE type = "OPEN"
        BY <3>1, <3>3
      <3>4. CASE type = "CLOSE"
        BY <3>1, <3>4
      <3> QED
        BY <3>1, <3>2, <3>3, <3>4
    <2>2. CASE s \in {"OUTPUT"} \X Clients \X Int
               /\ \E n \in Sizes[s[2]] : s[3] \in -1..(Packets(n) - 1)
      <3> DEFINE c == s[2]
                 i == s[3]
      <3>1. /\ s = <<"OUTPUT", c, i>> /\ i \in Int /\ (c = a \/ c = b)
            /\ \E n \in Sizes[c] : i \in -1..(Packets(n) - 1)
        BY <1>0, <2>2
      <3> HIDE DEF c, i
      <3>2. CASE c = a
        BY <1>1, <3>1, <3>2, PlaceWithin
      <3>3. CASE c = b
        BY <1>2, <3>1, <3>3, PlaceWithin
      <3> QED
        BY <3>1, <3>2, <3>3
    <2> QED
      BY <2>1, <2>2 DEF Slots
  <1>4. IsFiniteSet(plain) /\ Cardinality(plain) <= 3
    <2> DEFINE x == {<<"START", "", 0>>}
               y == {<<"OPEN", "", 0>>}
               z == {<<"CLOSE", "", 0>>}
    <2>1. /\ IsFiniteSet(x) /\ Cardinality(x) = 1
          /\ IsFiniteSet(y) /\ Cardinality(y) = 1
          /\ IsFiniteSet(z) /\ Cardinality(z) = 1
      BY FS_Singleton
    <2> HIDE DEF x, y, z
    <2>2. 1 \in Nat /\ 2 \in Nat /\ 1 <= 1 /\ 1 + 1 = 2 /\ 2 + 1 = 3
      OBVIOUS
    <2>3. IsFiniteSet(x \cup y) /\ Cardinality(x \cup y) <= 1 + 1
      BY <2>1, <2>2, UnionBound
    <2>4. IsFiniteSet((x \cup y) \cup z) /\ Cardinality((x \cup y) \cup z) <= 2 + 1
      BY <2>1, <2>2, <2>3, UnionBound
    <2> QED
      BY <2>2, <2>4 DEF x, y, z
  <1>5. /\ IsFiniteSet(PlacesOf(a, 21)) /\ Cardinality(PlacesOf(a, 21)) <= 22
        /\ IsFiniteSet(PlacesOf(b, 1)) /\ Cardinality(PlacesOf(b, 1)) <= 2
    <2>1. 21 \in Nat /\ 1 \in Nat /\ 21 + 1 = 22 /\ 1 + 1 = 2
      OBVIOUS
    <2>2. IsFiniteSet(PlacesOf(a, 21)) /\ Cardinality(PlacesOf(a, 21)) <= 21 + 1
      BY <2>1, PlacesBound
    <2>3. IsFiniteSet(PlacesOf(b, 1)) /\ Cardinality(PlacesOf(b, 1)) <= 1 + 1
      BY <2>1, PlacesBound
    <2> QED
      BY <2>1, <2>2, <2>3
  <1> HIDE DEF plain
  <1>6. IsFiniteSet(all) /\ Cardinality(all) <= 27
    <2> DEFINE both == PlacesOf(a, 21) \cup PlacesOf(b, 1)
    <2>1. IsFiniteSet(both) /\ Cardinality(both) <= 22 + 2
      BY <1>5, UnionBound
    <2> HIDE DEF both
    <2>2. 3 \in Nat /\ 24 \in Nat /\ 22 + 2 = 24 /\ 3 + 24 = 27
      OBVIOUS
    <2>3. IsFiniteSet(plain \cup both) /\ Cardinality(plain \cup both) <= 3 + 24
      BY <1>4, <2>1, <2>2, UnionBound
    <2> QED
      BY <2>2, <2>3 DEF both
  <1> HIDE DEF all
  <1>7. Slots \in SUBSET all
    BY <1>3
  <1>8. /\ IsFiniteSet(Slots) /\ Cardinality(Slots) <= Cardinality(all)
        /\ Cardinality(Slots) \in Nat /\ Cardinality(all) \in Nat
    BY <1>6, <1>7, FS_Subset, FS_CardinalityType
  <1> QED
    BY <1>0, <1>6, <1>8 DEF RingLargeEnough

-----------------------------------------------------------------------------
(* The theorems.                                                           *)

(* What the ring holds and the bridge expects fits the clients' messages,  *)
(* whether or not the kernel drops events (vhid.rs:227-234, 346-400,       *)
(* ctaphid.rs:122-146).                                                    *)
THEOREM UhidTypeCorrect == Spec => []TypeOK
  BY Invariant, PTL DEF IInv

(* A ring with a place for every packet and the INIT of each client, and   *)
(* for three events of the device, never loses one, however slowly the     *)
(* loops read (main.rs:76, 125, 212, 250).                                 *)
THEOREM UhidNothingDropped == ASSUME RingLargeEnough PROVE Spec => []NothingDropped
  <1>1. Init => NothingDropped
    BY DEF Init, NothingDropped
  <1>2. ASSUME IInv, NothingDropped, [Next]_vars PROVE NothingDropped'
    BY <1>2, NothingDroppedStep
  <1> QED
    BY <1>1, <1>2, Invariant, PTL DEF Spec

(* In particular the kernel's ring, which holds 31 events, never loses a   *)
(* report of a client that keeps to the advertised maxMsgSize of 1200      *)
(* bytes with another probing the device beside it (ctap2.rs:350).         *)
THEOREM UhidMaxMsgSizeFits ==
    ASSUME NEW a, NEW b, ClientAndProbe(a, b)
    PROVE  Spec => []NothingDropped
  <1>1. RingLargeEnough
    BY TwoClientsFit
  <1> QED
    BY <1>1, UhidNothingDropped, PTL
=============================================================================
