-------------------------- MODULE CableTaskProofs ---------------------------
(***************************************************************************)
(* Proofs about CableTunnel and CableTask for every value of their         *)
(* constants: any number of messages beyond the protocol's own and any     *)
(* capacity of the channel of advertisements.                              *)
(***************************************************************************)
EXTENDS CableTask, SequenceTheorems, TLAPS

-----------------------------------------------------------------------------
(* The invariant of the tunnel.                                            *)

Byte == {Shutdown, Ctap, Update, 3, 39, GetInfo, Command, Answer,
         "none", "8", "16", "full"}

Wire == [kind: {"Sealed"}, nonce_type: {"Old", "New"}, n: Nat, plain: Seq(Byte)]
        \cup [kind: {"Handshake", "Ping", "Pong", "Text", "Short", "Close"}]

(* What phone m may have said after its GetInfo if its user decided v.     *)
Said(m, v, plain) ==
    \/ m.version = 1 /\ plain \in {<<Update, Ok>>, <<3, Ok>>}
    \/ v = "approved" /\ plain = to_bytes(m.version, Ctap, <<Ok, Answer>>)
    \/ v = "refused" /\ plain \in Refusals(m.version)

SealedAt(i) == down[i].kind = "Sealed"

(* What is under way was sealed by the phone, in order.                    *)
SealedOK ==
    /\ down \in Seq(Wire)
    /\ \A i \in 1..Len(down) : SealedAt(i) =>
          /\ down[i].nonce_type = model.layout
          /\ down[i].n < sealed
          /\ IF down[i].n = 0 THEN down[i].plain = <<GetInfo, model.padding>>
                              ELSE Said(model, verdict, down[i].plain)
          /\ \A j \in 1..Len(down) : i < j /\ SealedAt(j) => down[i].n < down[j].n

(* No sealed message is missing between what the daemon has decrypted, what*)
(* is under way, and what the phone seals next.                            *)
NoneMissing ==
    pc \notin Ended =>
        /\ \A i \in 1..Len(down) : SealedAt(i) =>
              \/ down[i].n = reader.n
              \/ \E j \in 1..Len(down) : j < i /\ SealedAt(j) /\ down[j].n + 1 = down[i].n
        /\ relay = "open" =>
              \/ sealed = reader.n
              \/ \E i \in 1..Len(down) : SealedAt(i) /\ down[i].n + 1 = sealed

(* The phone's one handshake comes before anything it seals.               *)
HandshakeOK ==
    /\ pc = "discover" => down = <<>>
    /\ pc \in {"hello", "send", "answer"} =>
          \A i \in 1..Len(down) : down[i].kind # "Handshake"
    /\ pc = "handshake" =>
          /\ \A i \in 1..Len(down) : SealedAt(i) =>
                \E j \in 1..Len(down) : j < i /\ down[j].kind = "Handshake"
          /\ \A i, j \in 1..Len(down) :
                down[i].kind = "Handshake" /\ down[j].kind = "Handshake" => i = j
          /\ phone = "offline" => \A i \in 1..Len(down) : down[i].kind # "Handshake"
          /\ phone # "offline" /\ relay = "open" =>
                \E i \in 1..Len(down) : down[i].kind = "Handshake"

(* The daemon's ciphers follow the phone's.                                *)
CiphersOK ==
    /\ reader.n <= sealed
    /\ reader.nonce_type = IF reader.n = 0 THEN "Old" ELSE model.layout
    /\ writer.nonce_type = reader.nonce_type
    /\ writer.n <= 1
    /\ pc \in {"discover", "handshake", "hello"} => reader.n = 0
    /\ pc \in {"discover", "handshake", "hello", "send"} => writer.n = 0
    /\ pc \in {"send", "answer", "Done"} => reader.n # 0 /\ version = model.version

(* The one command is on its way only once, to a phone that expects it.    *)
UpOK ==
    /\ IF phone = "offline" THEN up \in {<<>>, <<[kind |-> "Handshake"]>>}
       ELSE up \in {<<>>, <<Seal([nonce_type |-> model.layout, n |-> 0],
                                 to_bytes(model.version, Ctap, <<Command>>))>>}
    /\ phone # "offline" /\ up # <<>> => opened = 0 /\ pc \in {"answer"} \cup Ended
    /\ pc = "discover" => up = <<>> /\ phone = "offline"
    /\ pc \in {"discover", "handshake", "hello", "send"} =>
          opened = 0 /\ phone \in {"offline", "joined", "ready"}
    /\ pc \in {"hello", "send", "answer"} => phone # "offline"

PhoneOK ==
    /\ phone # "gone" => verdict = None
    /\ sealed <= CASE phone \in {"offline", "joined"} -> 0
                   [] phone \in {"ready", "busy"} -> extras + 1
                   [] phone = "gone" -> extras + 2
    /\ phone \in {"ready", "busy"} => sealed # 0

IInv ==
    /\ TypeOK
    /\ SealedOK
    /\ NoneMissing
    /\ HandshakeOK
    /\ CiphersOK
    /\ UpOK
    /\ PhoneOK

-----------------------------------------------------------------------------
(* The invariant of the search.                                            *)

SearchOK ==
    /\ waiter = "starting" => scan = "none"
    /\ waiter = "failed" => scan \in {"none", "stopped"}

TaskIInv == IInv /\ TaskTypeOK /\ SearchOK

-----------------------------------------------------------------------------
(* Messages and their contents.                                            *)

LEMMA FirstDown ==
    ASSUME down \in Seq(Wire), down # <<>>
    PROVE  /\ 1 \in 1..Len(down) /\ Head(down) = down[1] /\ Head(down) \in Wire
           /\ Tail(down) \in Seq(Wire) /\ Len(Tail(down)) = Len(down) - 1
           /\ \A i \in 1..Len(Tail(down)) :
                 i + 1 \in 1..Len(down) /\ Tail(down)[i] = down[i + 1]
  <1>1. Len(down) \in Nat /\ Len(down) # 0
    BY EmptySeq
  <1>2. \A i \in 1..Len(down) : down[i] \in Wire
    BY ElementOfSeq
  <1> QED
    BY <1>1, <1>2, HeadTailProperties

LEMMA KindOfWire ==
    ASSUME NEW m \in Wire
    PROVE  /\ m.kind \in {"Sealed", "Handshake", "Ping", "Pong", "Text", "Short", "Close"}
           /\ m.kind = "Sealed" => m.n \in Nat /\ m.plain \in Seq(Byte)
  BY DEF Wire

LEMMA AddedDown ==
    ASSUME down \in Seq(Wire), NEW m \in Wire, down' = Append(down, m)
    PROVE  /\ down' \in Seq(Wire) /\ Len(down') = Len(down) + 1
           /\ Len(down) \in Nat /\ down'[Len(down')] = m
           /\ \A i \in 1..Len(down) : down'[i] = down[i]
  BY AppendProperties

LEMMA Prefixed ==
    ASSUME NEW x, NEW a, NEW b
    PROVE  /\ <<x>> \o <<>> = <<x>>
           /\ <<x>> \o <<a>> = <<x, a>>
           /\ <<x>> \o <<a, b>> = <<x, a, b>>
  <1> DEFINE S == {x, a, b}
  <1>1. <<>> \in Seq(S) /\ <<x>> \in Seq(S) /\ <<a>> \in Seq(S) /\ <<a, b>> \in Seq(S)
    OBVIOUS
  <1>2. <<x, a>> \in Seq(S) /\ <<x, a, b>> \in Seq(S)
    OBVIOUS
  <1>3. <<x>> \o <<>> = <<x>>
    BY <1>1, ConcatEmptySeq
  <1>4. <<x>> \o <<a>> = <<x, a>>
    <2> DEFINE l == <<x>> \o <<a>>
    <2>1. l \in Seq(S) /\ Len(l) = 2 /\ l[1] = x /\ l[2] = a
      BY <1>1, ConcatProperties
    <2> HIDE DEF l
    <2>2. Len(l) = Len(<<x, a>>) /\ \A i \in 1..Len(l) : l[i] = <<x, a>>[i]
      BY <2>1
    <2>3. l = <<x, a>>
      BY <1>2, <2>1, <2>2, SeqEqual
    <2> QED
      BY <2>3 DEF l
  <1>5. <<x>> \o <<a, b>> = <<x, a, b>>
    <2> DEFINE l == <<x>> \o <<a, b>>
    <2>1. l \in Seq(S) /\ Len(l) = 3 /\ l[1] = x /\ l[2] = a /\ l[3] = b
      BY <1>1, ConcatProperties
    <2> HIDE DEF l
    <2>2. Len(l) = Len(<<x, a, b>>) /\ \A i \in 1..Len(l) : l[i] = <<x, a, b>>[i]
      BY <2>1
    <2>3. l = <<x, a, b>>
      BY <1>2, <2>1, <2>2, SeqEqual
    <2> QED
      BY <2>3 DEF l
  <1> QED
    BY <1>3, <1>4, <1>5

LEMMA Alone == ASSUME NEW m PROVE Tail(<<m>>) = <<>> /\ Head(<<m>>) = m
  OBVIOUS

(* The plaintexts the phone seals, byte by byte.                           *)
LEMMA Framed ==
    ASSUME NEW v \in {0, 1}
    PROVE  /\ to_bytes(v, Ctap, <<Ok, Answer>>) =
                 IF v = 0 THEN <<Ok, Answer>> ELSE <<Ctap, Ok, Answer>>
           /\ to_bytes(v, Ctap, <<39>>) = IF v = 0 THEN <<39>> ELSE <<Ctap, 39>>
           /\ to_bytes(v, Ctap, <<>>) = IF v = 0 THEN <<>> ELSE <<Ctap>>
           /\ to_bytes(v, Ctap, <<Command>>) = IF v = 0 THEN <<Command>> ELSE <<Ctap, Command>>
  BY Prefixed DEF to_bytes

LEMMA SaidBytes ==
    ASSUME NEW m \in Phones, NEW v, NEW plain, Said(m, v, plain)
    PROVE  plain \in Seq(Byte)
  <1>1. m.version \in {0, 1}
    BY DEF Phones, Models
  <1>2. /\ <<Ok, Answer>> \in Seq(Byte) /\ <<Ctap, Ok, Answer>> \in Seq(Byte)
        /\ <<39>> \in Seq(Byte) /\ <<Ctap, 39>> \in Seq(Byte) /\ <<>> \in Seq(Byte)
        /\ <<Ctap>> \in Seq(Byte) /\ <<Shutdown>> \in Seq(Byte)
        /\ <<Update, Ok>> \in Seq(Byte) /\ <<3, Ok>> \in Seq(Byte)
    BY DEF Byte, Shutdown, Ok
  <1> QED
    BY <1>1, <1>2, Framed DEF Said, Refusals

(* What transmit_raw makes of each of them.                                *)
LEMMA Verdicts ==
    ASSUME TypeOK, NEW plain, Said(model, verdict, plain), version = model.version
    PROVE  LET type == IF plain = <<>> THEN Shutdown ELSE TypeOf(version, plain)
               data == DataOf(version, plain) IN
           /\ type = Shutdown => verdict = "refused"
           /\ type = Ctap =>
                 \/ data = <<>> /\ verdict = "refused"
                 \/ data # <<>> /\ data[1] # Ok /\ verdict = "refused"
                 \/ data # <<>> /\ data[1] = Ok /\ verdict = "approved" /\ Tail(data) = <<Answer>>
  <1> USE DEF Shutdown, Ctap, Update, Ok, TypeOf, DataOf
  <1>1. CASE model.version = 0
    <2>1. plain \in {<<Ok, Answer>>, <<39>>, <<>>}
      BY <1>1, Framed DEF Said, Refusals
    <2>2. CASE plain = <<Ok, Answer>>
      <3>1. verdict = "approved"
        BY <1>1, <2>2, Framed DEF Said, Refusals
      <3> QED
        BY <1>1, <2>2, <3>1
    <2>3. CASE plain = <<39>> \/ plain = <<>>
      <3>1. verdict = "refused"
        BY <1>1, <2>3, Framed DEF Said, Refusals
      <3> QED
        BY <1>1, <2>3, <3>1
    <2> QED
      BY <2>1, <2>2, <2>3
  <1>2. CASE model.version = 1
    <2>1. CASE plain \in {<<Update, Ok>>, <<3, Ok>>}
      BY <1>2, <2>1
    <2>2. CASE verdict = "approved" /\ plain = <<Ctap, Ok, Answer>>
      BY <1>2, <2>2
    <2>3. CASE verdict = "refused" /\ plain \in {<<Ctap, 39>>, <<Ctap>>, <<>>, <<Shutdown>>}
      BY <1>2, <2>3
    <2> QED
      BY <1>2, <2>1, <2>2, <2>3, Framed DEF Said, Refusals
  <1> QED
    BY <1>1, <1>2 DEF TypeOK, Phones, Models

(* detect_protocol_version recognises every phone.                         *)
LEMMA Detected ==
    ASSUME TypeOK
    PROVE  detect_protocol_version(model.padding) = model.version
  BY DEF TypeOK, Phones, Models, detect_protocol_version, Aligned

-----------------------------------------------------------------------------
(* What a step leaves of the messages under way to the daemon.             *)

Remains == down' = down \/ (down # <<>> /\ down' = Tail(down)) \/ down' = <<>>

LEMMA RemainingDown ==
    ASSUME down \in Seq(Wire), Remains
    PROVE  /\ down' \in Seq(Wire)
           /\ \E d \in {0, 1} :
                 \A i \in 1..Len(down') : i + d \in 1..Len(down) /\ down'[i] = down[i + d]
  <1>1. CASE down' = down
    BY <1>1
  <1>2. CASE down # <<>> /\ down' = Tail(down)
    BY <1>2, FirstDown
  <1>3. CASE down' = <<>>
    BY <1>3
  <1> QED
    BY <1>1, <1>2, <1>3 DEF Remains

LEMMA RemainingSealed ==
    ASSUME SealedOK, Remains, UNCHANGED <<model, sealed, verdict>>
    PROVE  SealedOK'
  <1>1. PICK d \in {0, 1} :
            \A i \in 1..Len(down') : i + d \in 1..Len(down) /\ down'[i] = down[i + d]
    BY RemainingDown DEF SealedOK
  <1>2. down' \in Seq(Wire) /\ Len(down') \in Nat /\ Len(down) \in Nat
    BY RemainingDown, LenProperties DEF SealedOK
  <1> SUFFICES ASSUME NEW i \in 1..Len(down'), down'[i].kind = "Sealed"
               PROVE  /\ down'[i].nonce_type = model.layout
                      /\ down'[i].n < sealed
                      /\ IF down'[i].n = 0 THEN down'[i].plain = <<GetInfo, model.padding>>
                                           ELSE Said(model, verdict, down'[i].plain)
                      /\ \A j \in 1..Len(down') :
                            i < j /\ down'[j].kind = "Sealed" => down'[i].n < down'[j].n
    BY <1>2 DEF SealedOK, SealedAt
  <1>3. i + d \in 1..Len(down) /\ down'[i] = down[i + d]
    BY <1>1
  <1>4. ASSUME NEW j \in 1..Len(down'), i < j, down'[j].kind = "Sealed"
        PROVE  down'[i].n < down'[j].n
    <2>1. j + d \in 1..Len(down) /\ down'[j] = down[j + d] /\ i + d < j + d
      BY <1>1, <1>2, <1>4
    <2> QED
      BY <1>3, <1>4, <2>1 DEF SealedOK, SealedAt
  <1> QED
    BY <1>3, <1>4 DEF SealedOK, SealedAt

(* The end of the task, whatever message brought it about.                 *)
LEMMA StopIInv ==
    ASSUME IInv, pc \notin Ended, NEW how \in Ended \ {"Done"}, Stop(how), Remains, Bystanders
    PROVE  IInv'
  <1> USE DEF IInv, Stop, Bystanders, phoneVars
  <1>1. TypeOK'
    BY DEF TypeOK, Ended, Failures
  <1>2. SealedOK'
    BY RemainingSealed
  <1>3. NoneMissing' /\ HandshakeOK'
    BY DEF NoneMissing, HandshakeOK, Ended, Failures
  <1>4. CiphersOK' /\ PhoneOK'
    BY DEF CiphersOK, PhoneOK, Ended, Failures
  <1>5. UpOK'
    BY DEF UpOK, Ended, Failures
  <1> QED
    BY <1>1, <1>2, <1>3, <1>4, <1>5

LEMMA InitIInv == Init => IInv
  <1> SUFFICES ASSUME Init PROVE IInv
    OBVIOUS
  <1> USE CableTunnelAssumption DEF CableTunnelAssumption, Init
  <1>1. TypeOK
    BY DEF TypeOK, CipherState
  <1>2. SealedOK
    BY DEF SealedOK
  <1>3. NoneMissing /\ HandshakeOK
    BY DEF NoneMissing, HandshakeOK
  <1>4. CiphersOK /\ UpOK /\ PhoneOK
    BY DEF CiphersOK, UpOK, PhoneOK
  <1> QED
    BY <1>1, <1>2, <1>3, <1>4 DEF IInv

-----------------------------------------------------------------------------
(* The daemon.                                                             *)

LEMMA ConnectIInv == ASSUME IInv, Connect PROVE IInv'
  <1> USE DEF IInv, Connect, phoneVars
  <1>1. TypeOK'
    BY DEF TypeOK
  <1>2. down = <<>> /\ phone = "offline" /\ up = <<>>
    BY DEF HandshakeOK, UpOK
  <1>3. SealedOK'
    BY RemainingSealed DEF Remains
  <1>4. NoneMissing'
    BY <1>2 DEF NoneMissing, Ended, Failures
  <1>5. HandshakeOK'
    BY <1>2 DEF HandshakeOK
  <1>6. CiphersOK' /\ UpOK' /\ PhoneOK'
    BY <1>2 DEF CiphersOK, UpOK, PhoneOK
  <1> QED
    BY <1>1, <1>3, <1>4, <1>5, <1>6

(* A message that was not sealed.                                          *)
LEMMA SkippedNoneMissing ==
    ASSUME SealedOK, NoneMissing, pc \notin Ended, down # <<>>, down' = Tail(down),
           Head(down).kind # "Sealed", UNCHANGED <<reader, sealed, relay>>
    PROVE  NoneMissing'
  <1>1. /\ \A i \in 1..Len(down') : i + 1 \in 1..Len(down) /\ down'[i] = down[i + 1]
        /\ Len(down') = Len(down) - 1 /\ Len(down) \in Nat /\ ~SealedAt(1)
    BY FirstDown DEF SealedOK, SealedAt
  <1>2. ASSUME NEW i \in 1..Len(down), SealedAt(i)
        PROVE  i - 1 \in 1..Len(down') /\ down'[i - 1] = down[i]
    BY <1>1, <1>2
  <1>3. ASSUME NEW i \in 1..Len(down'), down'[i].kind = "Sealed"
        PROVE  \/ down'[i].n = reader.n
               \/ \E j \in 1..Len(down') :
                     j < i /\ down'[j].kind = "Sealed" /\ down'[j].n + 1 = down'[i].n
    <2>1. SealedAt(i + 1) /\ down'[i] = down[i + 1] /\ i + 1 \in 1..Len(down)
      BY <1>1, <1>3 DEF SealedAt
    <2>2. CASE \E j \in 1..Len(down) :
                  j < i + 1 /\ SealedAt(j) /\ down[j].n + 1 = down[i + 1].n
      <3>1. PICK j \in 1..Len(down) :
                  j < i + 1 /\ SealedAt(j) /\ down[j].n + 1 = down[i + 1].n
        BY <2>2
      <3>2. j - 1 \in 1..Len(down') /\ down'[j - 1] = down[j] /\ j - 1 < i
        BY <1>2, <3>1
      <3> QED
        BY <2>1, <3>1, <3>2 DEF SealedAt
    <2> QED
      BY <2>1, <2>2 DEF NoneMissing
  <1>4. ASSUME relay = "open", sealed # reader.n
        PROVE  \E i \in 1..Len(down') : down'[i].kind = "Sealed" /\ down'[i].n + 1 = sealed
    <2>1. PICK i \in 1..Len(down) : SealedAt(i) /\ down[i].n + 1 = sealed
      BY <1>4 DEF NoneMissing
    <2> QED
      BY <1>2, <2>1 DEF SealedAt
  <1> QED
    BY <1>3, <1>4 DEF NoneMissing, SealedAt

LEMMA KeepWaitingIInv == ASSUME IInv, KeepWaiting PROVE IInv'
  <1> USE DEF IInv, KeepWaiting, Bystanders, phoneVars, daemonVars
  <1>1. down # <<>> /\ down' = Tail(down) /\ Head(down).kind \in {"Ping", "Pong"}
    BY DEF Receive
  <1>2. TypeOK' /\ CiphersOK' /\ UpOK' /\ PhoneOK'
    BY DEF TypeOK, CiphersOK, UpOK, PhoneOK
  <1>3. SealedOK'
    BY <1>1, RemainingSealed DEF Remains
  <1>4. NoneMissing'
    BY <1>1, SkippedNoneMissing DEF Waiting, Ended, Failures
  <1>5. HandshakeOK'
    <2>1. /\ \A i \in 1..Len(down') : i + 1 \in 1..Len(down) /\ down'[i] = down[i + 1]
          /\ Len(down') = Len(down) - 1 /\ Len(down) \in Nat
          /\ down[1].kind \notin {"Handshake", "Sealed"}
      BY <1>1, FirstDown DEF SealedOK
    <2>2. CASE pc = "handshake"
      <3>1. ASSUME NEW i \in 1..Len(down), down[i].kind = "Handshake"
            PROVE  i - 1 \in 1..Len(down') /\ down'[i - 1] = down[i]
        BY <2>1, <3>1
      <3>2. ASSUME NEW i \in 1..Len(down'), down'[i].kind = "Sealed"
            PROVE  \E j \in 1..Len(down') : j < i /\ down'[j].kind = "Handshake"
        <4>1. i + 1 \in 1..Len(down) /\ down[i + 1].kind = "Sealed"
          BY <2>1, <3>2
        <4>2. PICK j \in 1..Len(down) : j < i + 1 /\ down[j].kind = "Handshake"
          BY <2>2, <4>1 DEF HandshakeOK, SealedAt
        <4>3. j - 1 \in 1..Len(down') /\ down'[j - 1].kind = "Handshake"
          BY <3>1, <4>2
        <4>4. j - 1 < i
          BY <4>2
        <4> QED
          BY <4>3, <4>4
      <3>3. ASSUME NEW i \in 1..Len(down'), NEW j \in 1..Len(down'),
                   down'[i].kind = "Handshake", down'[j].kind = "Handshake"
            PROVE  i = j
        <4>1. /\ i + 1 \in 1..Len(down) /\ down[i + 1].kind = "Handshake"
              /\ j + 1 \in 1..Len(down) /\ down[j + 1].kind = "Handshake"
          BY <2>1, <3>3
        <4>2. i + 1 = j + 1
          BY <2>2, <4>1 DEF HandshakeOK
        <4> QED
          BY <4>2
      <3>4. phone = "offline" => \A i \in 1..Len(down') : down'[i].kind # "Handshake"
        BY <2>1, <2>2 DEF HandshakeOK
      <3>5. phone # "offline" /\ relay = "open" =>
               \E i \in 1..Len(down') : down'[i].kind = "Handshake"
        BY <2>2, <3>1 DEF HandshakeOK
      <3> QED
        BY <2>2, <3>2, <3>3, <3>4, <3>5 DEF HandshakeOK, SealedAt
    <2>3. CASE pc \in {"hello", "answer"}
      BY <2>1, <2>3 DEF HandshakeOK
    <2> QED
      BY <2>2, <2>3 DEF Waiting
  <1> QED
    BY <1>2, <1>3, <1>4, <1>5

LEMMA ProcessResponseIInv == ASSUME IInv, ProcessResponse PROVE IInv'
  <1>1. down # <<>> /\ down' = Tail(down) /\ pc = "handshake"
    BY DEF ProcessResponse, Receive
  <1>2. CASE Head(down).kind # "Handshake"
    <2>1. (Stop("Error") \/ Stop("Panic")) /\ Bystanders
      BY <1>2 DEF ProcessResponse
    <2> QED
      BY <1>1, <2>1, StopIInv DEF Remains, Ended, Failures
  <1>3. CASE Head(down).kind = "Handshake"
    <2> USE DEF IInv
    <2>1. pc' = "hello" /\ UNCHANGED <<version, reader, writer, result, up, relay, phoneVars>>
      BY <1>3 DEF ProcessResponse, Stop, Bystanders
    <2>2. /\ \A i \in 1..Len(down') : i + 1 \in 1..Len(down) /\ down'[i] = down[i + 1]
          /\ Len(down') = Len(down) - 1 /\ Len(down) \in Nat
          /\ 1 \in 1..Len(down) /\ down[1].kind = "Handshake"
      BY <1>1, <1>3, FirstDown DEF SealedOK
    <2>3. phone # "offline" /\ up = <<>>
      BY <1>1, <2>2 DEF HandshakeOK, UpOK, Ended, Failures
    <2>4. TypeOK' /\ CiphersOK' /\ UpOK' /\ PhoneOK'
      BY <1>1, <2>1, <2>3 DEF TypeOK, CiphersOK, UpOK, PhoneOK, phoneVars
    <2>5. SealedOK'
      BY <1>1, <2>1, RemainingSealed DEF Remains, phoneVars
    <2>6. NoneMissing'
      BY <1>1, <1>3, <2>1, SkippedNoneMissing DEF phoneVars, Ended, Failures
    <2>7. HandshakeOK'
      BY <1>1, <2>1, <2>2 DEF HandshakeOK
    <2> QED
      BY <2>4, <2>5, <2>6, <2>7
  <1> QED
    BY <1>2, <1>3

(* The next sealed message always opens: its layout is the phone's, which  *)
(* the reader knows or finds out with the first one, and none is missing   *)
(* before it.                                                              *)
LEMMA HeadDecrypts ==
    ASSUME IInv, pc \notin Ended, down # <<>>, Head(down).kind = "Sealed"
    PROVE  /\ Head(down).n = reader.n /\ reader.n < sealed
           /\ Decrypts(Head(down))
           /\ Tried(reader, Head(down)) = [nonce_type |-> model.layout, n |-> reader.n]
           /\ IF reader.n = 0 THEN Head(down).plain = <<GetInfo, model.padding>>
                              ELSE Said(model, verdict, Head(down).plain)
  <1>1. /\ 1 \in 1..Len(down) /\ Head(down) = down[1] /\ SealedAt(1)
        /\ Len(down) \in Nat
    BY FirstDown, LenProperties DEF IInv, SealedOK, SealedAt
  <1>2. Head(down).n = reader.n
    <2>1. \/ down[1].n = reader.n
          \/ \E j \in 1..Len(down) : j < 1 /\ SealedAt(j) /\ down[j].n + 1 = down[1].n
      BY <1>1 DEF IInv, NoneMissing
    <2> QED
      BY <1>1, <2>1
  <1>3. Head(down).nonce_type = model.layout /\ Head(down).n < sealed
    BY <1>1 DEF IInv, SealedOK
  <1>4. /\ reader = [nonce_type |-> reader.nonce_type, n |-> reader.n]
        /\ reader.nonce_type \in {"Old", "New"}
        /\ model.layout \in {"Old", "New"}
        /\ reader.nonce_type = IF reader.n = 0 THEN "Old" ELSE model.layout
    BY DEF IInv, TypeOK, CipherState, Phones, Models, CiphersOK
  <1>5. Tried(reader, Head(down)) = [nonce_type |-> model.layout, n |-> reader.n]
    BY <1>2, <1>3, <1>4 DEF Tried, Opens
  <1>6. Decrypts(Head(down))
    BY <1>2, <1>3, <1>5 DEF Decrypts, Opens
  <1>7. IF reader.n = 0 THEN Head(down).plain = <<GetInfo, model.padding>>
                        ELSE Said(model, verdict, Head(down).plain)
    BY <1>1, <1>2 DEF IInv, SealedOK
  <1> QED
    BY <1>2, <1>3, <1>5, <1>6, <1>7

LEMMA DecryptIInv ==
    ASSUME IInv, pc \in {"hello", "answer"}, Receive({"Sealed"}), decrypt(Head(down)),
           Bystanders, pc' \in {"send", "answer"} \cup Ended
    PROVE  /\ SealedOK' /\ NoneMissing' /\ HandshakeOK' /\ PhoneOK'
           /\ reader' = [nonce_type |-> model.layout, n |-> reader.n + 1]
           /\ reader'.n <= sealed
           /\ writer' = [nonce_type |-> model.layout, n |-> writer.n]
           /\ reader' \in CipherState /\ writer' \in CipherState
  <1> USE DEF IInv
  <1>1. /\ down # <<>> /\ down' = Tail(down) /\ Head(down).kind = "Sealed"
        /\ UNCHANGED <<up, relay, phone, model, sealed, opened, verdict, extras>>
        /\ pc \notin Ended
    BY DEF Receive, Bystanders, phoneVars, Ended, Failures
  <1>2. /\ Head(down).n = reader.n /\ reader.n < sealed
        /\ Tried(reader, Head(down)) = [nonce_type |-> model.layout, n |-> reader.n]
    BY <1>1, HeadDecrypts
  <1>3. /\ reader.n \in Nat /\ sealed \in Nat /\ extras \in 0..MaxExtras /\ MaxExtras \in Nat
        /\ sealed <= extras + 2 /\ writer.n \in 0..MaxExtras + 4
        /\ model.layout \in {"Old", "New"}
        /\ writer = [nonce_type |-> writer.nonce_type, n |-> writer.n]
    BY CableTunnelAssumption
    DEF TypeOK, CipherState, Phones, Models, PhoneOK, CableTunnelAssumption
  <1>4. /\ reader' = [nonce_type |-> model.layout, n |-> reader.n + 1]
        /\ reader'.n <= sealed
        /\ writer' = [nonce_type |-> model.layout, n |-> writer.n]
    BY <1>2, <1>3 DEF decrypt
  <1>5. reader' \in CipherState /\ writer' \in CipherState
    BY <1>3, <1>4 DEF CipherState
  <1>6. SealedOK'
    BY <1>1, RemainingSealed DEF Remains
  <1>7. /\ \A i \in 1..Len(down') : i + 1 \in 1..Len(down) /\ down'[i] = down[i + 1]
        /\ Len(down') = Len(down) - 1 /\ Len(down) \in Nat
        /\ 1 \in 1..Len(down) /\ SealedAt(1) /\ down[1].n = reader.n
        /\ \A i \in 1..Len(down) : SealedAt(i) => down[i].n \in Nat
    BY <1>1, <1>2, FirstDown, ElementOfSeq, KindOfWire DEF SealedOK, SealedAt
  <1>8. NoneMissing'
    <2>1. ASSUME NEW i \in 1..Len(down'), down'[i].kind = "Sealed"
          PROVE  \/ down'[i].n = reader'.n
                 \/ \E j \in 1..Len(down') :
                       j < i /\ down'[j].kind = "Sealed" /\ down'[j].n + 1 = down'[i].n
      <3>1. /\ SealedAt(i + 1) /\ down'[i] = down[i + 1] /\ i + 1 \in 1..Len(down)
            /\ 1 < i + 1
        BY <1>7, <2>1 DEF SealedAt
      <3>2. down[i + 1].n # reader.n
        <4>1. reader.n < down[i + 1].n
          BY <1>7, <3>1 DEF SealedOK
        <4> QED
          BY <1>3, <4>1
      <3>3. PICK j \in 1..Len(down) :
                  j < i + 1 /\ SealedAt(j) /\ down[j].n + 1 = down[i + 1].n
        BY <1>1, <3>1, <3>2 DEF NoneMissing
      <3>4. CASE j = 1
        BY <1>4, <1>7, <3>1, <3>3, <3>4
      <3>5. CASE j # 1
        <4>1. j - 1 \in 1..Len(down') /\ down'[j - 1] = down[j] /\ j - 1 < i
          BY <1>7, <3>3, <3>5
        <4> QED
          BY <3>1, <3>3, <4>1 DEF SealedAt
      <3> QED
        BY <3>4, <3>5
    <2>2. ASSUME relay = "open", sealed # reader'.n
          PROVE  \E i \in 1..Len(down') : down'[i].kind = "Sealed" /\ down'[i].n + 1 = sealed
      <3>1. PICK i \in 1..Len(down) : SealedAt(i) /\ down[i].n + 1 = sealed
        BY <1>1, <1>2, <1>3, <2>2 DEF NoneMissing
      <3>2. i # 1
        BY <1>4, <1>7, <2>2, <3>1
      <3>3. i - 1 \in 1..Len(down') /\ down'[i - 1] = down[i]
        BY <1>7, <3>1, <3>2
      <3> QED
        BY <3>1, <3>3 DEF SealedAt
    <2> QED
      BY <1>1, <2>1, <2>2 DEF NoneMissing, SealedAt
  <1>9. HandshakeOK'
    BY <1>7 DEF HandshakeOK, Ended, Failures
  <1>10. PhoneOK'
    BY <1>1 DEF PhoneOK
  <1> QED
    BY <1>4, <1>5, <1>6, <1>8, <1>9, <1>10

LEMMA PostHandshakeIInv ==
    ASSUME IInv, PostHandshake
    PROVE  IInv' /\ pc' = "send"
  <1> USE DEF IInv
  <1>1. /\ pc = "hello" /\ pc \notin Ended /\ down # <<>> /\ Head(down).kind = "Sealed"
        /\ Receive({"Sealed"}) /\ decrypt(Head(down)) /\ Bystanders /\ UNCHANGED result
    BY DEF PostHandshake, Receive, Ended, Failures
  <1>2. Head(down).plain = <<GetInfo, model.padding>>
    BY <1>1, HeadDecrypts DEF CiphersOK
  <1>3. pc' = "send" /\ version' = model.version
    BY <1>2, Detected DEF PostHandshake
  <1>4. /\ SealedOK' /\ NoneMissing' /\ HandshakeOK' /\ PhoneOK'
        /\ reader' = [nonce_type |-> model.layout, n |-> reader.n + 1]
        /\ reader'.n <= sealed
        /\ writer' = [nonce_type |-> model.layout, n |-> writer.n]
        /\ reader' \in CipherState /\ writer' \in CipherState
    BY <1>1, <1>3, DecryptIInv
  <1>5. UNCHANGED <<up, relay, phone, model, sealed, opened, verdict, extras>>
    BY <1>1 DEF Bystanders, phoneVars
  <1>6. TypeOK'
    BY <1>1, <1>3, <1>4, <1>5, CableTunnelAssumption
    DEF TypeOK, Phones, Models, Ended, Failures, CableTunnelAssumption
  <1>7. CiphersOK'
    BY <1>1, <1>3, <1>4, <1>5 DEF CiphersOK, TypeOK, CipherState
  <1>8. UpOK'
    BY <1>1, <1>3, <1>5 DEF UpOK, Ended, Failures
  <1> QED
    BY <1>3, <1>4, <1>6, <1>7, <1>8

LEMMA SendCommandIInv == ASSUME IInv, SendCommand PROVE IInv'
  <1> USE DEF IInv, SendCommand, phoneVars
  <1>1. up = <<>> /\ phone # "offline" /\ opened = 0
    BY DEF UpOK, Ended, Failures
  <1>2. /\ writer = [nonce_type |-> model.layout, n |-> 0] /\ version = model.version
        /\ writer' = [nonce_type |-> model.layout, n |-> 1]
    BY DEF CiphersOK, TypeOK, CipherState
  <1>3. up' = <<Seal([nonce_type |-> model.layout, n |-> 0],
                     to_bytes(model.version, Ctap, <<Command>>))>>
    BY <1>1, <1>2
  <1>4. TypeOK'
    <2>1. writer' \in CipherState
      BY <1>2, CableTunnelAssumption
      DEF CipherState, TypeOK, Phones, Models, CableTunnelAssumption
    <2> QED
      BY <2>1 DEF TypeOK, Ended, Failures
  <1>5. SealedOK'
    BY RemainingSealed DEF Remains
  <1>6. NoneMissing' /\ HandshakeOK' /\ PhoneOK'
    <2>1. NoneMissing'
      BY DEF NoneMissing, SealedAt, Ended, Failures
    <2>2. HandshakeOK'
      BY DEF HandshakeOK
    <2>3. PhoneOK'
      BY DEF PhoneOK
    <2> QED
      BY <2>1, <2>2, <2>3
  <1>7. CiphersOK'
    BY <1>2 DEF CiphersOK
  <1>8. UpOK'
    BY <1>1, <1>3 DEF UpOK, Ended, Failures
  <1> QED
    BY <1>4, <1>5, <1>6, <1>7, <1>8

(* The frame that ends the task says what the user of the phone decided.   *)
LEMMA FrameIInv ==
    ASSUME IInv, Frame
    PROVE  /\ IInv' /\ UNCHANGED verdict
           /\ pc' \in {"Closed", "Error"} => verdict = "refused"
           /\ pc' = "Done" => verdict = "approved" /\ result' = <<Answer>>
           /\ pc' \in {"answer", "Closed", "Error", "Done"}
  <1> USE DEF IInv
  <1>1. /\ pc = "answer" /\ pc \notin Ended /\ down # <<>> /\ Head(down).kind = "Sealed"
        /\ Receive({"Sealed"}) /\ decrypt(Head(down)) /\ Bystanders /\ UNCHANGED version
    BY DEF Frame, Receive, Ended, Failures
  <1>2. Said(model, verdict, Head(down).plain) /\ version = model.version
    BY <1>1, HeadDecrypts DEF CiphersOK
  <1>3. /\ \/ pc' = "answer" /\ UNCHANGED result
           \/ pc' \in {"Closed", "Error"} /\ UNCHANGED result /\ verdict = "refused"
           \/ pc' = "Done" /\ verdict = "approved" /\ result' = <<Answer>>
    BY <1>1, <1>2, Verdicts DEF Frame, Shutdown, Ctap
  <1>4. /\ SealedOK' /\ NoneMissing' /\ HandshakeOK' /\ PhoneOK'
        /\ reader' = [nonce_type |-> model.layout, n |-> reader.n + 1]
        /\ reader'.n <= sealed
        /\ writer' = [nonce_type |-> model.layout, n |-> writer.n]
        /\ reader' \in CipherState /\ writer' \in CipherState
    BY <1>1, <1>3, DecryptIInv DEF Ended, Failures
  <1>5. UNCHANGED <<up, relay, phone, model, sealed, opened, verdict, extras>>
    BY <1>1 DEF Bystanders, phoneVars
  <1>6. TypeOK'
    BY <1>1, <1>3, <1>4, <1>5, CableTunnelAssumption
    DEF TypeOK, Ended, Failures, CableTunnelAssumption
  <1>7. CiphersOK'
    BY <1>1, <1>3, <1>4, <1>5 DEF CiphersOK, TypeOK, CipherState
  <1>8. UpOK'
    BY <1>1, <1>3, <1>5 DEF UpOK, Ended, Failures
  <1> QED
    BY <1>3, <1>4, <1>5, <1>6, <1>7, <1>8

-----------------------------------------------------------------------------
(* The phone and the relay.                                                *)

(* A message that is not sealed joins those under way.                     *)
LEMMA UnsealedSent ==
    ASSUME IInv, NEW kind \in {"Handshake", "Ping", "Pong", "Text", "Short", "Close"},
           down' = Append(down, [kind |-> kind]),
           UNCHANGED <<pc, reader, relay, model, sealed, verdict>>
    PROVE  SealedOK' /\ NoneMissing'
  <1> DEFINE m == [kind |-> kind]
  <1>1. m \in Wire /\ m.kind # "Sealed"
    BY DEF Wire
  <1>2. /\ down' \in Seq(Wire) /\ Len(down') = Len(down) + 1 /\ Len(down) \in Nat
        /\ down'[Len(down')] = m /\ \A i \in 1..Len(down) : down'[i] = down[i]
    BY <1>1, AddedDown DEF IInv, SealedOK
  <1> HIDE DEF m
  <1>3. \A i \in 1..Len(down') :
           down'[i].kind = "Sealed" => i \in 1..Len(down) /\ down'[i] = down[i]
    BY <1>1, <1>2
  <1>4. SealedOK'
    BY <1>2, <1>3 DEF IInv, SealedOK, SealedAt
  <1>5. NoneMissing'
    <2>1. ASSUME pc \notin Ended, NEW i \in 1..Len(down'), down'[i].kind = "Sealed"
          PROVE  \/ down'[i].n = reader.n
                 \/ \E j \in 1..Len(down') :
                       j < i /\ down'[j].kind = "Sealed" /\ down'[j].n + 1 = down'[i].n
      <3>1. i \in 1..Len(down) /\ down'[i] = down[i] /\ SealedAt(i)
        BY <1>3, <2>1 DEF SealedAt
      <3>2. \/ down[i].n = reader.n
            \/ \E j \in 1..Len(down) : j < i /\ SealedAt(j) /\ down[j].n + 1 = down[i].n
        BY <2>1, <3>1 DEF IInv, NoneMissing
      <3> QED
        BY <1>2, <3>1, <3>2 DEF SealedAt
    <2>2. ASSUME pc \notin Ended, relay = "open", sealed # reader.n
          PROVE  \E i \in 1..Len(down') : down'[i].kind = "Sealed" /\ down'[i].n + 1 = sealed
      BY <1>2, <2>2 DEF IInv, NoneMissing, SealedAt
    <2> QED
      BY <2>1, <2>2 DEF NoneMissing, SealedAt
  <1> QED
    BY <1>4, <1>5

(* The phone seals one more message and perhaps decides.                   *)
LEMMA PhoneSent ==
    ASSUME IInv, phone # "offline", phone' # "offline",
           NEW plain \in Seq(Byte), PhoneSends(plain),
           UNCHANGED <<daemonVars, relay, model>>, verdict' = verdict \/ verdict = None,
           IF sealed = 0 THEN plain = <<GetInfo, model.padding>>
                         ELSE Said(model, verdict', plain)
    PROVE  SealedOK' /\ NoneMissing' /\ HandshakeOK' /\ CiphersOK'
  <1> USE DEF IInv, daemonVars
  <1> DEFINE m == Seal(Own, plain)
  <1>1. m.kind = "Sealed" /\ m.nonce_type = model.layout /\ m.n = sealed /\ m.plain = plain
    BY DEF Seal, Own
  <1>2. m \in Wire
    BY DEF Seal, Own, Wire, TypeOK, Phones, Models
  <1>3. /\ relay = "open" /\ sealed' = sealed + 1
        /\ down' \in Seq(Wire) /\ Len(down') = Len(down) + 1 /\ Len(down) \in Nat
        /\ down'[Len(down')] = m /\ \A i \in 1..Len(down) : down'[i] = down[i]
    BY <1>2, AddedDown DEF SealedOK, PhoneSends
  <1> HIDE DEF m
  <1>4. /\ sealed \in Nat /\ reader.n \in Nat
        /\ \A i \in 1..Len(down) : SealedAt(i) => down[i].n \in Nat
    BY ElementOfSeq, KindOfWire DEF TypeOK, CipherState, SealedOK, SealedAt
  <1>5. SealedOK'
    <2> SUFFICES ASSUME NEW i \in 1..Len(down'), down'[i].kind = "Sealed"
                 PROVE  /\ down'[i].nonce_type = model.layout
                        /\ down'[i].n < sealed'
                        /\ IF down'[i].n = 0 THEN down'[i].plain = <<GetInfo, model.padding>>
                                             ELSE Said(model, verdict', down'[i].plain)
                        /\ \A j \in 1..Len(down') :
                              i < j /\ down'[j].kind = "Sealed" => down'[i].n < down'[j].n
      BY <1>3 DEF SealedOK, SealedAt
    <2>1. CASE i = Len(down')
      BY <1>1, <1>3, <1>4, <2>1
    <2>2. CASE i \in 1..Len(down)
      <3>1. /\ down'[i] = down[i] /\ SealedAt(i) /\ down[i].n \in Nat
            /\ down[i].nonce_type = model.layout /\ down[i].n < sealed
            /\ IF down[i].n = 0 THEN down[i].plain = <<GetInfo, model.padding>>
                                ELSE Said(model, verdict, down[i].plain)
        BY <1>3, <1>4, <2>2 DEF SealedOK, SealedAt
      <3>2. Said(model, verdict, down[i].plain) => Said(model, verdict', down[i].plain)
        BY CableTunnelAssumption DEF Said, CableTunnelAssumption
      <3>3. ASSUME NEW j \in 1..Len(down'), i < j, down'[j].kind = "Sealed"
            PROVE  down'[i].n < down'[j].n
        <4>1. CASE j \in 1..Len(down)
          BY <1>3, <2>2, <3>1, <3>3, <4>1 DEF SealedOK, SealedAt
        <4>2. CASE j = Len(down')
          BY <1>1, <1>3, <3>1, <4>2
        <4> QED
          BY <1>3, <4>1, <4>2
      <3>4. down'[i].n < sealed'
        BY <1>3, <1>4, <3>1
      <3> QED
        BY <3>1, <3>2, <3>3, <3>4
    <2> QED
      BY <1>3, <2>1, <2>2
  <1>6. NoneMissing'
    <2>1. ASSUME pc \notin Ended, NEW i \in 1..Len(down'), down'[i].kind = "Sealed"
          PROVE  \/ down'[i].n = reader.n
                 \/ \E j \in 1..Len(down') :
                       j < i /\ down'[j].kind = "Sealed" /\ down'[j].n + 1 = down'[i].n
      <3>1. CASE i \in 1..Len(down)
        <4>1. down'[i] = down[i] /\ SealedAt(i)
          BY <1>3, <2>1, <3>1 DEF SealedAt
        <4>2. \/ down[i].n = reader.n
              \/ \E j \in 1..Len(down) : j < i /\ SealedAt(j) /\ down[j].n + 1 = down[i].n
          BY <2>1, <3>1, <4>1 DEF NoneMissing
        <4> QED
          BY <1>3, <3>1, <4>1, <4>2 DEF SealedAt
      <3>2. CASE i = Len(down')
        <4>1. \/ sealed = reader.n
              \/ \E j \in 1..Len(down) : SealedAt(j) /\ down[j].n + 1 = sealed
          BY <1>3, <2>1 DEF NoneMissing
        <4>2. \A j \in 1..Len(down) : j < i
          BY <1>3, <3>2
        <4>3. down'[i].n = sealed
          BY <1>1, <1>3, <3>2
        <4>4. CASE sealed = reader.n
          BY <4>3, <4>4
        <4>5. ASSUME NEW j \in 1..Len(down), SealedAt(j), down[j].n + 1 = sealed
              PROVE  /\ j \in 1..Len(down') /\ j < i
                     /\ down'[j].kind = "Sealed" /\ down'[j].n + 1 = down'[i].n
          BY <1>3, <4>2, <4>3, <4>5 DEF SealedAt
        <4> QED
          BY <4>1, <4>4, <4>5
      <3>3. i \in 1..Len(down) \/ i = Len(down')
        BY <1>3
      <3> QED
        BY <3>1, <3>2, <3>3
    <2>2. \E i \in 1..Len(down') : down'[i].kind = "Sealed" /\ down'[i].n + 1 = sealed'
      BY <1>1, <1>3
    <2> QED
      BY <2>1, <2>2 DEF NoneMissing, SealedAt
  <1>7. HandshakeOK'
    <2>1. \A i \in 1..Len(down') :
             down'[i].kind = "Handshake" => i \in 1..Len(down) /\ down'[i] = down[i]
      BY <1>1, <1>3
    <2>2. pc # "discover"
      BY DEF UpOK
    <2>3. CASE pc = "handshake"
      <3>1. PICK k \in 1..Len(down) : down[k].kind = "Handshake"
        BY <1>3, <2>3 DEF HandshakeOK
      <3>2. ASSUME NEW i \in 1..Len(down'), down'[i].kind = "Sealed"
            PROVE  \E j \in 1..Len(down') : j < i /\ down'[j].kind = "Handshake"
        <4>1. CASE i \in 1..Len(down)
          BY <1>3, <2>3, <3>2, <4>1 DEF HandshakeOK, SealedAt
        <4>2. CASE i = Len(down')
          <5>1. k \in 1..Len(down') /\ k < i /\ down'[k].kind = "Handshake"
            BY <1>3, <3>1, <4>2
          <5> QED
            BY <5>1
        <4>3. i \in 1..Len(down) \/ i = Len(down')
          BY <1>3
        <4> QED
          BY <4>1, <4>2, <4>3
      <3>3. \A i, j \in 1..Len(down') :
               down'[i].kind = "Handshake" /\ down'[j].kind = "Handshake" => i = j
        BY <2>1, <2>3 DEF HandshakeOK
      <3>4. \E i \in 1..Len(down') : down'[i].kind = "Handshake"
        BY <1>3, <3>1
      <3> QED
        BY <2>3, <3>2, <3>3, <3>4 DEF HandshakeOK, SealedAt
    <2>4. CASE pc # "handshake"
      BY <2>1, <2>2, <2>4 DEF HandshakeOK
    <2> QED
      BY <2>3, <2>4
  <1>8. CiphersOK'
    BY <1>3, <1>4 DEF CiphersOK
  <1> QED
    BY <1>5, <1>6, <1>7, <1>8

LEMMA JoinIInv == ASSUME IInv, Join PROVE IInv'
  <1> USE DEF IInv, Join, daemonVars
  <1>1. pc # "discover" /\ up = <<[kind |-> "Handshake"]>> /\ up' = <<>>
        /\ pc \notin {"hello", "send", "answer"}
    <2>1. up = <<[kind |-> "Handshake"]>>
      BY DEF UpOK
    <2> QED
      BY <2>1, Alone DEF UpOK
  <1>2. TypeOK'
    BY DEF TypeOK
  <1>3. SealedOK' /\ NoneMissing'
    BY UnsealedSent
  <1>4. HandshakeOK'
    <2> DEFINE m == [kind |-> "Handshake"]
    <2>1. /\ down' \in Seq(Wire) /\ Len(down') = Len(down) + 1 /\ Len(down) \in Nat
          /\ down'[Len(down')] = m /\ \A i \in 1..Len(down) : down'[i] = down[i]
      BY AddedDown DEF SealedOK, Wire
    <2>2. CASE pc = "handshake"
      <3>1. \A i \in 1..Len(down) : down[i].kind \notin {"Handshake", "Sealed"}
        BY <2>2 DEF HandshakeOK, SealedAt
      <3>2. \A i \in 1..Len(down') :
               down'[i].kind \in {"Handshake", "Sealed"} => i = Len(down')
        BY <2>1, <3>1
      <3>3. Len(down') \in 1..Len(down') /\ down'[Len(down')].kind = "Handshake"
        BY <2>1
      <3>4. \A i \in 1..Len(down') : down'[i].kind # "Sealed"
        BY <3>2, <3>3
      <3> QED
        BY <2>2, <3>2, <3>3, <3>4 DEF HandshakeOK, SealedAt
    <2> QED
      BY <1>1, <2>2 DEF HandshakeOK
  <1>5. CiphersOK' /\ PhoneOK'
    BY DEF CiphersOK, PhoneOK
  <1>6. UpOK'
    BY <1>1 DEF UpOK
  <1> QED
    BY <1>2, <1>3, <1>4, <1>5, <1>6

LEMMA GreetIInv == ASSUME IInv, Greet PROVE IInv'
  <1> USE DEF IInv, Greet
  <1>1. UNCHANGED <<pc, version, reader, writer, result, up, relay, model, opened, verdict,
                    extras>>
    BY DEF daemonVars
  <1>2. sealed = 0 /\ sealed' = 1 /\ PhoneSends(<<GetInfo, model.padding>>)
    BY DEF PhoneOK, TypeOK, PhoneSends
  <1>3. <<GetInfo, model.padding>> \in Seq(Byte)
    BY DEF Byte, TypeOK, Phones, Models
  <1>4. SealedOK' /\ NoneMissing' /\ HandshakeOK' /\ CiphersOK'
    BY <1>1, <1>2, <1>3, PhoneSent
  <1>5. TypeOK'
    BY <1>1, <1>2 DEF TypeOK
  <1>6. UpOK'
    BY <1>1 DEF UpOK
  <1>7. PhoneOK'
    BY <1>1, <1>2 DEF PhoneOK, TypeOK
  <1> QED
    BY <1>4, <1>5, <1>6, <1>7

LEMMA TakeCommandIInv == ASSUME IInv, TakeCommand PROVE IInv' /\ phone' = "busy"
  <1> USE DEF IInv, TakeCommand, daemonVars
  <1>1. /\ up = <<Seal([nonce_type |-> model.layout, n |-> 0],
                       to_bytes(model.version, Ctap, <<Command>>))>>
        /\ opened = 0 /\ pc \in {"answer"} \cup Ended /\ up' = <<>>
    <2> DEFINE m == Seal([nonce_type |-> model.layout, n |-> 0],
                         to_bytes(model.version, Ctap, <<Command>>))
    <2>1. up = <<m>> /\ opened = 0 /\ pc \in {"answer"} \cup Ended
      BY DEF UpOK
    <2> HIDE DEF m
    <2>2. up' = <<>>
      BY <2>1, Alone
    <2> QED
      BY <2>1, <2>2 DEF m
  <1>2. phone' = "busy"
    BY <1>1, Alone DEF Understood, Opens, Seal
  <1>3. TypeOK'
    BY <1>2 DEF TypeOK
  <1>4. SealedOK'
    BY RemainingSealed DEF Remains
  <1>5. NoneMissing' /\ CiphersOK'
    <2>1. NoneMissing'
      BY DEF NoneMissing, SealedAt
    <2> QED
      BY <2>1 DEF CiphersOK
  <1>6. HandshakeOK'
    BY <1>1, <1>2 DEF HandshakeOK, Ended, Failures
  <1>7. UpOK'
    BY <1>1, <1>2 DEF UpOK, Ended, Failures
  <1>8. PhoneOK'
    BY <1>2 DEF PhoneOK
  <1> QED
    BY <1>2, <1>3, <1>4, <1>5, <1>6, <1>7, <1>8

(* The phone decides, and has nothing more to say.                         *)
LEMMA DecideIInv == ASSUME IInv, Approve \/ Refuse PROVE IInv' /\ verdict = None
  <1> USE DEF IInv
  <1>1. /\ phone = "busy" /\ phone' = "gone" /\ verdict = None
        /\ verdict' \in {"approved", "refused"} /\ sealed # 0
        /\ UNCHANGED <<daemonVars, up, relay, model, opened, extras>>
    BY DEF Approve, Refuse, PhoneOK
  <1>2. PICK plain : PhoneSends(plain) /\ Said(model, verdict', plain)
    BY DEF Approve, Refuse, Said
  <1>3. plain \in Seq(Byte)
    BY <1>2, SaidBytes DEF TypeOK
  <1>4. SealedOK' /\ NoneMissing' /\ HandshakeOK' /\ CiphersOK'
    BY <1>1, <1>2, <1>3, PhoneSent
  <1>5. sealed' = sealed + 1
    BY <1>2 DEF PhoneSends
  <1>6. TypeOK'
    BY <1>1, <1>5 DEF TypeOK, daemonVars
  <1>7. UpOK'
    BY <1>1 DEF UpOK, daemonVars
  <1>8. PhoneOK'
    BY <1>1, <1>5 DEF PhoneOK, TypeOK
  <1> QED
    BY <1>1, <1>4, <1>6, <1>7, <1>8

LEMMA SendUpdateIInv == ASSUME IInv, SendUpdate PROVE IInv'
  <1> USE DEF IInv, SendUpdate
  <1>1. /\ UNCHANGED <<daemonVars, up, relay, phone, model, opened, verdict>>
        /\ phone \in {"ready", "busy"} /\ sealed # 0 /\ extras' = extras + 1
        /\ extras < MaxExtras /\ MaxExtras \in Nat
    BY CableTunnelAssumption DEF PhoneOK, CableTunnelAssumption
  <1>2. PICK plain : PhoneSends(plain) /\ Said(model, verdict, plain)
    BY DEF Said
  <1>3. plain \in Seq(Byte)
    BY <1>2, SaidBytes DEF TypeOK
  <1>4. SealedOK' /\ NoneMissing' /\ HandshakeOK' /\ CiphersOK'
    BY <1>1, <1>2, <1>3, PhoneSent
  <1>5. sealed' = sealed + 1
    BY <1>2 DEF PhoneSends
  <1>6. TypeOK'
    BY <1>1, <1>5 DEF TypeOK, daemonVars
  <1>7. UpOK'
    BY <1>1 DEF UpOK, daemonVars
  <1>8. PhoneOK'
    BY <1>1, <1>5 DEF PhoneOK, TypeOK
  <1> QED
    BY <1>4, <1>6, <1>7, <1>8

LEMMA SendControlIInv == ASSUME IInv, SendControl PROVE IInv'
  <1> USE DEF IInv, SendControl, daemonVars
  <1>1. PICK kind \in {"Ping", "Pong", "Text", "Short", "Close"} :
            down' = Append(down, [kind |-> kind])
    OBVIOUS
  <1>2. TypeOK'
    BY CableTunnelAssumption DEF TypeOK, CableTunnelAssumption
  <1>3. SealedOK' /\ NoneMissing'
    BY <1>1, UnsealedSent
  <1>4. HandshakeOK'
    <2> DEFINE m == [kind |-> kind]
    <2>1. m \in Wire /\ m.kind \notin {"Handshake", "Sealed"}
      BY DEF Wire
    <2>2. /\ Len(down') = Len(down) + 1 /\ Len(down) \in Nat
          /\ down'[Len(down')] = m /\ \A i \in 1..Len(down) : down'[i] = down[i]
      BY <1>1, <2>1, AddedDown DEF SealedOK
    <2> HIDE DEF m
    <2>3. \A i \in 1..Len(down') :
             down'[i].kind \in {"Handshake", "Sealed"} =>
                i \in 1..Len(down) /\ down'[i] = down[i]
      BY <2>1, <2>2
    <2>4. CASE pc = "handshake"
      <3>1. ASSUME NEW i \in 1..Len(down'), down'[i].kind = "Sealed"
            PROVE  \E j \in 1..Len(down') : j < i /\ down'[j].kind = "Handshake"
        <4>1. i \in 1..Len(down) /\ SealedAt(i)
          BY <2>3, <3>1 DEF SealedAt
        <4>2. PICK j \in 1..Len(down) : j < i /\ down[j].kind = "Handshake"
          BY <2>4, <4>1 DEF HandshakeOK
        <4> QED
          BY <2>2, <4>2
      <3>2. \A i, j \in 1..Len(down') :
               down'[i].kind = "Handshake" /\ down'[j].kind = "Handshake" => i = j
        BY <2>3, <2>4 DEF HandshakeOK
      <3>3. phone = "offline" => \A i \in 1..Len(down') : down'[i].kind # "Handshake"
        BY <2>3, <2>4 DEF HandshakeOK
      <3>4. phone # "offline" => \E i \in 1..Len(down') : down'[i].kind = "Handshake"
        BY <2>2, <2>4 DEF HandshakeOK
      <3> QED
        BY <2>4, <3>1, <3>2, <3>3, <3>4 DEF HandshakeOK, SealedAt
    <2>5. CASE pc # "handshake"
      BY <2>3, <2>5 DEF HandshakeOK
    <2> QED
      BY <2>4, <2>5
  <1>5. CiphersOK'
    BY DEF CiphersOK
  <1>6. UpOK'
    BY DEF UpOK
  <1>7. PhoneOK'
    BY DEF PhoneOK, TypeOK
  <1> QED
    BY <1>2, <1>3, <1>4, <1>5, <1>6, <1>7

LEMMA EndConnectionIInv == ASSUME IInv, EndConnection PROVE IInv'
  <1> USE DEF IInv, EndConnection, daemonVars, phoneVars
  <1>1. TypeOK' /\ CiphersOK' /\ PhoneOK'
    BY DEF TypeOK, CiphersOK, PhoneOK
  <1>2. SealedOK'
    BY RemainingSealed DEF Remains
  <1>3. NoneMissing'
    BY DEF NoneMissing, SealedAt
  <1>4. HandshakeOK'
    BY DEF HandshakeOK, SealedAt
  <1>5. UpOK'
    BY DEF UpOK
  <1> QED
    BY <1>1, <1>2, <1>3, <1>4, <1>5

LEMMA NextIInv == IInv /\ [Next]_vars => IInv'
  <1> SUFFICES ASSUME IInv, [Next]_vars PROVE IInv'
    OBVIOUS
  <1>1. CASE Connect
    BY <1>1, ConnectIInv
  <1>2. CASE ConnectFails \/ NotFound \/ SendFails \/ Abort
    <2>1. PICK how \in Ended \ {"Done"} : Stop(how)
      BY <1>2 DEF ConnectFails, NotFound, SendFails, Abort, Ended, Failures
    <2>2. pc \notin Ended /\ Remains /\ Bystanders
      BY <1>2 DEF ConnectFails, NotFound, SendFails, Abort, Ended, Failures, Remains
    <2> QED
      BY <2>1, <2>2, StopIInv
  <1>3. CASE TunnelCloses \/ TunnelFails \/ TooShort \/ Undecryptable
    <2>1. PICK how \in Ended \ {"Done"} : Stop(how)
      BY <1>3 DEF TunnelCloses, TunnelFails, TooShort, Undecryptable, Ended, Failures
    <2>2. pc \notin Ended /\ Remains /\ Bystanders
      BY <1>3
      DEF TunnelCloses, TunnelFails, TooShort, Undecryptable, Waiting, Receive, Ended,
          Failures, Remains
    <2> QED
      BY <2>1, <2>2, StopIInv
  <1>4. CASE KeepWaiting \/ ProcessResponse \/ PostHandshake \/ SendCommand \/ Frame
    BY <1>4, KeepWaitingIInv, ProcessResponseIInv, PostHandshakeIInv, SendCommandIInv,
       FrameIInv
  <1>5. CASE Peers
    BY <1>5, JoinIInv, GreetIInv, TakeCommandIInv, DecideIInv, SendUpdateIInv,
       SendControlIInv, EndConnectionIInv DEF Peers
  <1>6. CASE UNCHANGED vars
    <2> USE <1>6 DEF vars, daemonVars, phoneVars, IInv
    <2>1. TypeOK'
      BY DEF TypeOK
    <2>2. SealedOK' /\ NoneMissing'
      BY DEF SealedOK, NoneMissing, SealedAt
    <2>3. HandshakeOK'
      BY DEF HandshakeOK, SealedAt
    <2>4. CiphersOK' /\ PhoneOK'
      BY DEF CiphersOK, PhoneOK
    <2>5. UpOK'
      BY DEF UpOK
    <2> QED
      BY <2>1, <2>2, <2>3, <2>4, <2>5
  <1> QED
    BY <1>1, <1>2, <1>3, <1>4, <1>5, <1>6 DEF Next, Daemon

LEMMA UpUnderstood == IInv => CommandUnderstood
  <1> DEFINE m == Seal([nonce_type |-> model.layout, n |-> 0],
                       to_bytes(model.version, Ctap, <<Command>>))
  <1> SUFFICES ASSUME IInv, NEW i \in 1..Len(up), up[i].kind = "Sealed"
               PROVE  Understood(up[i])
    BY DEF CommandUnderstood
  <1>1. CASE phone = "offline"
    <2>1. up = <<>> \/ up = <<[kind |-> "Handshake"]>>
      BY <1>1 DEF IInv, UpOK
    <2> QED
      BY <2>1
  <1>2. CASE phone # "offline"
    <2>1. up = <<>> \/ (up = <<m>> /\ opened = 0)
      BY <1>2 DEF IInv, UpOK
    <2>2. m.kind = "Sealed" /\ m.nonce_type = model.layout /\ m.n = 0
          /\ m.plain = to_bytes(model.version, Ctap, <<Command>>)
      BY DEF Seal
    <2> HIDE DEF m
    <2>3. up = <<m>> /\ opened = 0 /\ up[i] = m
      BY <2>1
    <2> QED
      BY <2>2, <2>3 DEF Understood, Opens
  <1> QED
    BY <1>1, <1>2

-----------------------------------------------------------------------------
(* The refinement of RemoteCommand.                                        *)

LEMMA OutcomeOf ==
    ASSUME IInv
    PROVE  /\ pc \notin Ended => Outcome = None
           /\ pc \in Ended \ {"Done"} => Outcome = "failed"
  BY DEF Outcome, Ended, Failures, IInv, TypeOK

LEMMA RemoteCommandStep == IInv /\ IInv' /\ [Next]_vars => [R!Next]_(R!vars)
  <1> SUFFICES ASSUME IInv, IInv', [Next]_vars PROVE R!Next \/ UNCHANGED R!vars
    BY DEF R!vars
  <1> USE DEF R!Next, R!vars
  <1>1. ASSUME UNCHANGED <<pc, result, verdict>> PROVE UNCHANGED R!vars
    BY <1>1 DEF Outcome
  <1>2. ASSUME pc \notin Ended, pc' \notin Ended, UNCHANGED verdict PROVE UNCHANGED R!vars
    <2>1. Outcome = None
      BY <1>2, OutcomeOf
    <2>2. Outcome' = None
      BY <1>2 DEF Outcome, Ended, Failures
    <2> QED
      BY <1>2, <2>1, <2>2
  <1>3. ASSUME pc \notin Ended, pc' \in Ended \ {"Done"}, UNCHANGED verdict PROVE R!Next
    <2>1. Outcome = None
      BY <1>3, OutcomeOf
    <2>2. Outcome' = "failed"
      BY <1>3 DEF Outcome, Ended, Failures
    <2> QED
      BY <1>3, <2>1, <2>2 DEF R!Fail
  <1>4. CASE Connect \/ KeepWaiting \/ SendCommand
    BY <1>2, <1>4
    DEF Connect, KeepWaiting, SendCommand, phoneVars, daemonVars, Bystanders, Waiting, Ended,
        Failures
  <1>5. CASE ConnectFails \/ NotFound \/ SendFails \/ Abort \/ TunnelCloses \/ TunnelFails
             \/ TooShort \/ Undecryptable
    BY <1>3, <1>5
    DEF ConnectFails, NotFound, SendFails, Abort, TunnelCloses, TunnelFails, TooShort,
        Undecryptable, Waiting, Stop, Bystanders, phoneVars, Ended, Failures
  <1>6. CASE ProcessResponse
    BY <1>2, <1>3, <1>6 DEF ProcessResponse, Stop, Bystanders, phoneVars, Ended, Failures
  <1>7. CASE PostHandshake
    BY <1>2, <1>7, PostHandshakeIInv DEF PostHandshake, Bystanders, phoneVars, Ended, Failures
  <1>8. CASE Frame
    <2>1. /\ pc = "answer" /\ UNCHANGED verdict
          /\ pc' = "Done" => verdict = "approved" /\ result' = <<Answer>>
          /\ pc' \in {"answer", "Closed", "Error", "Done"}
      BY <1>8, FrameIInv DEF Frame
    <2>2. CASE pc' = "Done"
      <3>1. Outcome = None
        BY <2>1, OutcomeOf DEF Ended, Failures
      <3>2. Outcome' = Answer
        BY <2>1, <2>2 DEF Outcome, Failures
      <3> QED
        BY <2>1, <2>2, <3>1, <3>2 DEF R!Succeed
    <2> QED
      BY <1>2, <1>3, <2>1, <2>2 DEF Ended, Failures
  <1>9. CASE Approve \/ Refuse
    <2>1. UNCHANGED <<pc, result>> /\ verdict' \in {"approved", "refused"} /\ verdict = None
      BY <1>9, DecideIInv DEF Approve, Refuse, daemonVars
    <2>2. UNCHANGED Outcome
      BY <2>1 DEF Outcome
    <2> QED
      BY <2>1, <2>2 DEF R!Decide
  <1>10. CASE Join \/ Greet \/ TakeCommand \/ SendUpdate \/ SendControl \/ EndConnection
    BY <1>1, <1>10
    DEF Join, Greet, TakeCommand, SendUpdate, SendControl, EndConnection, daemonVars, phoneVars
  <1>11. CASE UNCHANGED vars
    BY <1>1, <1>11 DEF vars, daemonVars, phoneVars
  <1> QED
    BY <1>4, <1>5, <1>6, <1>7, <1>8, <1>9, <1>10, <1>11 DEF Next, Daemon, Peers

-----------------------------------------------------------------------------
(* The whole task.                                                         *)

LEMMA TunnelStep == [TaskNext]_taskVars => [Next]_vars
  BY DEF TaskNext, taskVars, Run, Discovering, GiveUpSearch, OpenTunnel, AbortTask, Next

LEMMA InitTaskIInv == TaskInit => TaskIInv
  <1> SUFFICES ASSUME TaskInit PROVE TaskIInv
    OBVIOUS
  <1>1. IInv
    BY InitIInv DEF TaskInit
  <1>2. D!TypeOK
    <2>1. rx = <<>> /\ Len(rx) = 0 /\ Len(rx) <= Capacity
      BY CableTaskAssumption DEF TaskInit, D!Init, CableTaskAssumption
    <2> QED
      BY <2>1 DEF TaskInit, D!Init, D!TypeOK, D!Adverts
  <1> QED
    BY <1>1, <1>2 DEF TaskIInv, TaskTypeOK, SearchOK, TaskInit, Init, D!Init, IInv

(* Discovery, whatever the tunnel does meanwhile.                          *)
LEMMA SearchStep ==
    ASSUME D!TypeOK, SearchOK, D!Next \/ UNCHANGED searchVars
    PROVE  /\ D!TypeOK' /\ SearchOK'
           /\ waiter' \in {"starting", "waiting"} => waiter \in {"starting", "waiting"}
           /\ waiter = "found" => waiter' = "found"
  <1> USE DEF D!TypeOK, SearchOK
  <1>1. CASE D!Begin
    BY <1>1 DEF D!Begin
  <1>2. CASE D!Receive
    <2>1. rx' \in Seq(D!Adverts) /\ Len(rx') <= Capacity
      <3>1. <<>> \in Seq(D!Adverts) /\ Len(<<>>) <= Capacity
        BY CableTaskAssumption DEF CableTaskAssumption
      <3>2. Tail(rx) \in Seq(D!Adverts) /\ Len(Tail(rx)) <= Capacity
        BY <1>2, HeadTailProperties, LenProperties, CableTaskAssumption
        DEF D!Receive, CableTaskAssumption
      <3> QED
        BY <1>2, <3>1, <3>2 DEF D!Receive
    <2> QED
      BY <1>2, <2>1 DEF D!Receive
  <1>3. CASE D!NoSelectedToken
    BY <1>3 DEF D!NoSelectedToken
  <1>4. CASE D!Abort
    <2>1. <<>> \in Seq(D!Adverts) /\ Len(<<>>) <= Capacity
      BY CableTaskAssumption DEF CableTaskAssumption
    <2> QED
      BY <1>4, <2>1 DEF D!Abort
  <1>5. CASE D!Event \/ D!EventsEnd
    BY <1>5 DEF D!Event, D!EventsEnd, D!StopScan, D!Closed
  <1>6. CASE D!Send
    <2>1. CASE D!Forward
      <3>1. rx' \in Seq(D!Adverts) /\ Len(rx') <= Capacity
        BY <2>1, AppendProperties, LenProperties, CableTaskAssumption
        DEF D!Forward, CableTaskAssumption
      <3> QED
        BY <1>6, <2>1, <3>1 DEF D!Send, D!Forward, D!Closed, D!Adverts
    <2>2. CASE D!Closed /\ D!StopScan
      BY <1>6, <2>2 DEF D!Send, D!Closed, D!StopScan
    <2> QED
      BY <1>6, <2>1, <2>2 DEF D!Send
  <1>7. CASE UNCHANGED searchVars
    BY <1>7 DEF searchVars
  <1> QED
    BY <1>1, <1>2, <1>3, <1>4, <1>5, <1>6, <1>7 DEF D!Next, D!Scan

LEMMA NextTaskIInv == TaskIInv /\ [TaskNext]_taskVars => TaskIInv'
  <1> SUFFICES ASSUME TaskIInv, [TaskNext]_taskVars PROVE TaskIInv'
    OBVIOUS
  <1> USE DEF TaskIInv, TaskTypeOK
  <1>1. IInv'
    BY TunnelStep, NextIInv
  <1>2. D!Next \/ UNCHANGED searchVars
    BY DEF TaskNext, taskVars, Run, Discovering, GiveUpSearch, OpenTunnel, AbortTask,
           Undisturbed, D!Next
  <1>3. /\ D!TypeOK' /\ SearchOK'
        /\ waiter' \in {"starting", "waiting"} => waiter \in {"starting", "waiting"}
        /\ waiter = "found" => waiter' = "found"
    BY <1>2, SearchStep
  <1>4. /\ waiter' \in {"starting", "waiting"} => pc' = "discover"
        /\ pc' \notin {"discover", "Error", "Aborted"} => waiter' = "found"
    <2>1. CASE UNCHANGED pc
      BY <1>3, <2>1
    <2>2. CASE GiveUpSearch \/ OpenTunnel
      BY <1>3, <2>2
      DEF GiveUpSearch, OpenTunnel, NotFound, Connect, ConnectFails, Stop, Undisturbed,
          searchVars
    <2>3. CASE AbortTask
      BY <2>3 DEF AbortTask, Abort, Stop, D!Abort, Undisturbed, searchVars
    <2>4. CASE Daemon /\ Undisturbed
      <3>1. pc \notin {"discover", "Error", "Aborted"}
        BY <2>4
        DEF Daemon, KeepWaiting, TunnelCloses, TunnelFails, ProcessResponse, TooShort,
            Undecryptable, PostHandshake, SendCommand, SendFails, Frame, Waiting
      <3> QED
        BY <2>4, <3>1 DEF Undisturbed, searchVars
    <2>5. CASE Discovering \/ (D!Scan /\ UNCHANGED vars) \/ UNCHANGED taskVars
      BY <2>1, <2>5 DEF Discovering, taskVars, vars, daemonVars
    <2>6. CASE Peers
      BY <2>1, <2>6
      DEF Peers, Join, Greet, TakeCommand, Approve, Refuse, SendUpdate, SendControl,
          EndConnection, daemonVars
    <2> QED
      BY <2>2, <2>3, <2>4, <2>5, <2>6 DEF TaskNext, Run
  <1> QED
    BY <1>1, <1>3, <1>4 DEF IInv

LEMMA TaskInvariant == TaskSpec => []TaskIInv
  BY InitTaskIInv, NextTaskIInv, PTL DEF TaskSpec

(* The variables of the task keep their types, the ciphers' nonces their   *)
(* bounds, and the tunnel is opened only by a task that has found its      *)
(* phone.                                                                  *)
THEOREM CableTaskTypeCorrect == TaskSpec => []TaskTypeOK
  BY TaskInvariant, PTL DEF TaskIInv

(* The phone understands the command the daemon sends, whichever layout and*)
(* protocol version it speaks (noise.rs:180-184, tunnel.rs:308).           *)
THEOREM CableTaskCommandUnderstood == TaskSpec => []CommandUnderstood
  <1>1. TaskIInv => CommandUnderstood
    BY UpUnderstood DEF TaskIInv
  <1> QED
    BY <1>1, TaskInvariant, PTL

(* Every step of the task, and of what goes on beside it, is a step of     *)
(* RemoteCommand or none: data is returned only after the phone has        *)
(* approved this command, and then exactly its response                    *)
(* (tunnel.rs:521-550).                                                    *)
THEOREM CableTaskKeepsRemoteCommand == TaskSpec => KeepsRemoteCommand
  <1>1. TaskInit => R!Init
    BY DEF TaskInit, Init, R!Init, Outcome, Failures
  <1>2. TaskIInv /\ TaskIInv' /\ [TaskNext]_taskVars => [R!Next]_(R!vars)
    BY TunnelStep, RemoteCommandStep DEF TaskIInv
  <1> QED
    BY <1>1, <1>2, TaskInvariant, PTL DEF TaskSpec, KeepsRemoteCommand, R!Spec

-----------------------------------------------------------------------------
(* Failures.                                                               *)

LEMMA FailureHasReason ==
    ASSUME TaskIInv, TaskNext, pc' \in Failures, pc' # pc
    PROVE  \/ relay # "open"
           \/ pc = "discover" /\ scan \in {"none", "stopped"}
           \/ pc # "discover" /\ verdict = "refused"
           \/ down # <<>> /\ Head(down).kind \in {"Close", "Text", "Short"}
  <1> USE DEF TaskIInv
  <1>1. CASE GiveUpSearch
    BY <1>1 DEF GiveUpSearch, NotFound, SearchOK
  <1>2. CASE OpenTunnel
    BY <1>2 DEF OpenTunnel, Connect, ConnectFails, Failures
  <1>3. CASE KeepWaiting \/ SendCommand \/ AbortTask
    BY <1>3 DEF KeepWaiting, SendCommand, AbortTask, Abort, Stop, daemonVars, Failures
  <1>4. CASE TunnelCloses \/ TunnelFails \/ TooShort \/ SendFails
    BY <1>4 DEF TunnelCloses, TunnelFails, TooShort, SendFails, Receive
  <1>5. CASE ProcessResponse
    <2>1. pc = "handshake" /\ down # <<>> /\ Head(down).kind \in {"Short", "Sealed"}
      BY <1>5 DEF ProcessResponse, Receive, Stop, Failures
    <2>2. CASE Head(down).kind = "Sealed"
      <3>1. 1 \in 1..Len(down) /\ SealedAt(1) /\ Len(down) \in Nat
        BY <2>1, <2>2, FirstDown, LenProperties DEF IInv, SealedOK, SealedAt
      <3>2. PICK j \in 1..Len(down) : j < 1
        BY <2>1, <3>1 DEF IInv, HandshakeOK
      <3> QED
        BY <3>2
    <2> QED
      BY <2>1, <2>2
  <1>6. CASE Undecryptable
    <2>1. /\ pc \in {"hello", "answer"} /\ pc \notin Ended
          /\ down # <<>> /\ Head(down).kind \in {"Sealed", "Handshake"}
          /\ ~Decrypts(Head(down))
      BY <1>6 DEF Undecryptable, Receive, Ended, Failures
    <2>2. Head(down).kind = "Handshake"
      BY <2>1, HeadDecrypts
    <2>3. 1 \in 1..Len(down) /\ Head(down) = down[1]
      BY <2>1, FirstDown DEF IInv, SealedOK
    <2> QED
      BY <2>1, <2>2, <2>3 DEF IInv, HandshakeOK
  <1>7. CASE PostHandshake
    BY <1>7, PostHandshakeIInv DEF Failures
  <1>8. CASE Frame
    BY <1>8, FrameIInv DEF Frame, Failures
  <1>9. CASE Discovering \/ (D!Scan /\ UNCHANGED vars) \/ Peers
    BY <1>9
    DEF Discovering, vars, daemonVars, Peers, Join, Greet, TakeCommand, Approve, Refuse,
        SendUpdate, SendControl, EndConnection
  <1> QED
    BY <1>1, <1>2, <1>3, <1>4, <1>5, <1>6, <1>7, <1>8, <1>9 DEF TaskNext, Run, Daemon

(* A task that gives up had a reason: no number of pings, updates, strangers*)
(* or frames to come makes it fail (discovery.rs:141-147, tunnel.rs:247-250,*)
(* 468-474, 536-539).                                                      *)
THEOREM CableTaskNoSpuriousFailure == TaskSpec => NoSpuriousFailure
  <1>1. TaskIInv /\ [TaskNext]_taskVars =>
           [pc' \in Failures /\ pc' # pc =>
               \/ relay # "open"
               \/ pc = "discover" /\ scan \in {"none", "stopped"}
               \/ pc # "discover" /\ verdict = "refused"
               \/ down # <<>> /\ Head(down).kind \in {"Close", "Text", "Short"}]_taskVars
    BY FailureHasReason
  <1> QED
    BY <1>1, TaskInvariant, PTL DEF TaskSpec, NoSpuriousFailure
=============================================================================
