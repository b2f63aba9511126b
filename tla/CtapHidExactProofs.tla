------------------------- MODULE CtapHidExactProofs -------------------------
(***************************************************************************)
(* Proofs about CtapHid when the ring loses no packet: what a client sends *)
(* is what the bridge reassembles.  CtapHidProofs holds with loss, too.    *)
(***************************************************************************)
EXTENDS CtapHidProofs

(* payload is what is stored of m once fragments 0..m.sent-1 were read.    *)
Matches(payload, m) ==
    /\ payload.total_len = m.len
    /\ payload.next_expected_sequence = m.sent - 1
    /\ payload.started_at = born[m.id]
    /\ \A i \in 1..Len(payload.data) : payload.data[i] = <<m.id, i - 1>>

(* A client half-way through its message finds what it wrote, or nothing   *)
(* at all when the message is too old.  (A client that is not half-way may *)
(* leave the payload of an abandoned message behind.)                      *)
InProgressAt(c) ==
    ~AllWritten(out[c]) =>
        /\ payload_stack[c] # None => Matches(payload_stack[c], out[c])
        /\ now - born[out[c].id] < Timeout => payload_stack[c] # None

InProgress == \A c \in Channels : InProgressAt(c)

ExactIInv == IInv /\ InProgress /\ Intact /\ NoSpuriousError

(* The step of CompleteInTime.                                             *)
Completes ==
    \A c \in Channels :
        /\ out'[c] # out[c] /\ AllWritten(out'[c])
        /\ now - born'[out'[c].id] < Timeout
        => event' # None /\ event'.channel = c

-----------------------------------------------------------------------------
(* Lemmas.                                                                 *)

(* A client half-way through a message has begun it.                       *)
LEMMA HalfWay ==
    ASSUME IInv, NEW c \in Channels
    PROVE  /\ out[c] \in Outgoing /\ out[c].sent >= 1
           /\ ~AllWritten(out[c]) =>
                /\ out[c].id \in 1..messages /\ out[c].id \in 1..MaxMessages
                /\ born[out[c].id] \in Nat
  <1>1. /\ out[c] \in Outgoing /\ out[c].sent >= 1 /\ out[c].id <= messages
        /\ out[c].id = 0 => out[c].len = 0
        /\ messages \in Nat /\ messages <= MaxMessages
        /\ born \in [1..MaxMessages -> Nat] /\ MaxMessages \in Nat
    BY CtapHidAssumption DEF IInv, TypeOK, OutOK, AllChannels, CtapHidAssumption
  <1>2. out[c].id \in Nat /\ out[c].sent \in Nat /\ out[c].len \in Nat
    BY <1>1 DEF Outgoing
  <1>3. Offset(out[c].sent) \in Nat
    BY <1>2, OffsetProperties
  <1>4. ~AllWritten(out[c]) => out[c].id # 0
    BY <1>1, <1>3 DEF AllWritten
  <1> QED
    BY <1>1, <1>2, <1>4

(* What the others do, time and eviction leave a client's message as it is.*)
LEMMA Undisturbed ==
    ASSUME IInv, NEW c \in Channels, InProgressAt(c),
           out'[c] = out[c],
           ~AllWritten(out[c]) => born'[out[c].id] = born[out[c].id],
           payload_stack'[c] \in {payload_stack[c], Live[c]},
           now' \in Nat, now <= now'
    PROVE  InProgressAt(c)'
  <1> SUFFICES ASSUME ~AllWritten(out[c])
               PROVE  /\ payload_stack'[c] # None =>
                            Matches(payload_stack[c], out[c])'
                      /\ now' - born'[out'[c].id] < Timeout => payload_stack'[c] # None
    BY DEF InProgressAt
  <1>1. /\ payload_stack[c] # None => Matches(payload_stack[c], out[c])
        /\ now - born[out[c].id] < Timeout => payload_stack[c] # None
    BY DEF InProgressAt
  <1>2. born'[out'[c].id] = born[out[c].id] /\ born[out[c].id] \in Nat
    BY HalfWay
  <1>3. Live[c] = IF payload_stack[c] # None /\ now - payload_stack[c].started_at >= Timeout
                  THEN None ELSE payload_stack[c]
    BY DEF Live, AllChannels
  <1>4. payload_stack'[c] # None => payload_stack'[c] = payload_stack[c]
    BY <1>3
  <1>5. payload_stack'[c] # None => Matches(payload_stack[c], out[c])'
    BY <1>1, <1>2, <1>4 DEF Matches
  <1>6. now \in Nat /\ Timeout \in Nat
    BY CtapHidAssumption DEF IInv, TypeOK, CtapHidAssumption
  <1>7. ASSUME now' - born'[out'[c].id] < Timeout PROVE payload_stack'[c] # None
    <2>1. now - born[out[c].id] < Timeout
      BY <1>2, <1>6, <1>7
    <2>2. payload_stack[c] # None /\ payload_stack[c].started_at = born[out[c].id]
      BY <1>1, <2>1 DEF Matches
    <2> QED
      BY <1>2, <1>3, <1>6, <2>1, <2>2
  <1> QED
    BY <1>5, <1>7

-----------------------------------------------------------------------------
(* Every action preserves ExactIInv, and completes what it ends in time.   *)

LEMMA InitExact == Init => ExactIInv
  <1> SUFFICES ASSUME Init PROVE ExactIInv
    OBVIOUS
  <1>1. IInv
    BY InitIInv
  <1>2. ASSUME NEW c \in Channels PROVE AllWritten(out[c])
    <2>1. out[c].len = 0 /\ out[c].sent = 1
      BY DEF Init, AllChannels
    <2>2. Offset(1) \in Nat
      BY OffsetProperties
    <2> QED
      BY <2>1, <2>2 DEF AllWritten
  <1>3. InProgress
    BY <1>2 DEF InProgress, InProgressAt
  <1>4. Intact /\ NoSpuriousError
    BY DEF Init, Intact, Delivered, NoSpuriousError
  <1> QED
    BY <1>1, <1>3, <1>4 DEF ExactIInv

LEMMA QuietExact ==
    ASSUME ExactIInv, UnparsableReport \/ HandleTruncatedInit \/ HandleCbor \/ Tick
    PROVE  ExactIInv' /\ Completes
  <1>1. IInv'
    BY QuietIInv DEF ExactIInv
  <1>2. /\ UNCHANGED <<out, messages, born>> /\ event' = None
        /\ payload_stack' \in {payload_stack, Live}
        /\ now' \in Nat /\ now <= now'
    BY DEF UnparsableReport, HandleTruncatedInit, HandleCbor, Tick, clients,
           ExactIInv, IInv, TypeOK
  <1>3. InProgress'
    BY <1>2, Undisturbed DEF ExactIInv, InProgress
  <1>4. Intact'
    BY <1>2 DEF Intact, Delivered
  <1>5. NoSpuriousError'
    BY DEF UnparsableReport, HandleTruncatedInit, HandleCbor, Tick, NoSpuriousError
  <1>6. Completes
    BY <1>2 DEF Completes
  <1> QED
    BY <1>1, <1>3, <1>4, <1>5, <1>6 DEF ExactIInv

LEMMA HandleInitExact ==
    ASSUME ExactIInv, HandleInit
    PROVE  ExactIInv' /\ Completes
  <1>1. IInv'
    BY HandleInitIInv DEF ExactIInv
  <1>2. /\ UNCHANGED <<now, out, messages, born>> /\ event' = None
        /\ event.channel \in AllChannels /\ out[event.channel].len = 0
    BY DEF HandleInit, clients, ExactIInv, IInv, EventOK
  <1>3. ASSUME NEW c \in Channels PROVE InProgressAt(c)'
    <2>1. CASE c = event.channel
      <3>1. out[c].sent \in Nat
        BY HalfWay DEF ExactIInv, Outgoing
      <3>2. Offset(out[c].sent) \in Nat
        BY <3>1, OffsetProperties
      <3>3. AllWritten(out'[c])
        BY <1>2, <2>1, <3>2 DEF AllWritten
      <3> QED
        BY <3>3 DEF InProgressAt
    <2>2. CASE c # event.channel
      <3>1. payload_stack'[c] = payload_stack[c]
        BY <2>2 DEF HandleInit, ExactIInv, IInv, TypeOK, AllChannels
      <3>2. now \in Nat
        BY DEF ExactIInv, IInv, TypeOK
      <3> QED
        BY <1>2, <3>1, <3>2, Undisturbed DEF ExactIInv, InProgress
    <2> QED
      BY <2>1, <2>2
  <1>4. Intact' /\ Completes
    BY <1>2 DEF Intact, Delivered, Completes
  <1>5. NoSpuriousError'
    BY DEF HandleInit, NoSpuriousError
  <1> QED
    BY <1>1, <1>3, <1>4, <1>5 DEF ExactIInv, InProgress

LEMMA StartExact ==
    ASSUME ~Lossy, ExactIInv, NEW c \in AllChannels,
           NEW command \in {"Cbor", "Init", "TruncatedInit"}, NEW len \in Nat,
           command = "Cbor" => c \in Channels,
           command # "Cbor" => len = 0,
           ClientStart(c, command, len)
    PROVE  ExactIInv' /\ Completes
  <1> DEFINE id == messages + 1
             m == [id |-> id, command |-> command, len |-> len, sent |-> 1]
             data == Fragment(m, 0)
             own == [i \in 1..len |-> <<id, i - 1>>]
  <1>1. IInv'
    BY StartIInv DEF ExactIInv
  <1>2. /\ messages \in Nat /\ now \in Nat /\ messages < MaxMessages
        /\ UNCHANGED now
        /\ out' = [out EXCEPT ![c] = m]
        /\ born' = [born EXCEPT ![id] = now]
        /\ answer' = None
        /\ InitializationPacket(c, command, len, data)
    BY DEF ClientStart, ExactIInv, IInv, TypeOK, PacketLost, InitializationPacket,
           SinglePacket, FirstPacket
  <1>3. m \in Outgoing /\ id \in 1..MaxMessages
    BY <1>2, CtapHidAssumption DEF Outgoing, CtapHidAssumption
  <1>4. born'[id] = now /\ \A old \in 1..messages : born'[old] = born[old]
    BY <1>2, <1>3 DEF ExactIInv, IInv, OutOK
  <1>5. out'[c] = m /\ \A d \in AllChannels : d # c => out'[d] = out[d]
    BY <1>2 DEF ExactIInv, IInv, TypeOK
  <1>6. Live \in [AllChannels -> ChannelPayload \cup {None}]
    BY LiveProperties DEF ExactIInv, IInv
  <1>7. InitData \in Nat /\ Offset(0) = 0 /\ Offset(1) = InitData
    BY OffsetProperties, CtapHidAssumption DEF CtapHidAssumption
  <1>8. AllWritten(m) <=> len <= InitData
    BY <1>7 DEF AllWritten
  <1>9. ASSUME NEW d \in Channels, d # c PROVE InProgressAt(d)'
    <2>1. payload_stack'[d] = Live[d]
      BY <1>2, <1>6, <1>9 DEF InitializationPacket, SinglePacket, FirstPacket, Insert,
                              AllChannels
    <2>2. ~AllWritten(out[d]) => born'[out[d].id] = born[out[d].id]
      BY <1>4, HalfWay DEF ExactIInv
    <2>3. out'[d] = out[d]
      BY <1>5, <1>9 DEF AllChannels
    <2> QED
      BY <1>2, <2>1, <2>2, <2>3, Undisturbed DEF ExactIInv, InProgress
  <1>10. CASE len <= InitData
    <2>1. /\ event' = [channel |-> c, command |-> command, data |-> SubSeq(data, 1, len)]
      BY <1>2, <1>7, <1>10 DEF InitializationPacket, SinglePacket, FirstPacket
    <2>2. SubSeq(data, 1, len) = own /\ own \in Seq(Byte)
      <3>1. m.len = len /\ m.id = id
        OBVIOUS
      <3> HIDE DEF m
      <3> QED
        BY <1>3, <1>10, <3>1, SinglePacketData
    <2> HIDE DEF data, own
    <2>3. event' = [channel |-> c, command |-> command, data |-> own]
      BY <2>1, <2>2
    <2>4. event' \in Message
      BY <2>2, <2>3 DEF Message, AllChannels
    <2>5. Intact'
      BY <1>5, <2>3 DEF Intact, Delivered, own
    <2>6. Completes
      BY <1>5, <2>3, <2>4, NoneAssumption DEF Completes, AllChannels
    <2>7. InProgress'
      <3>1. AllWritten(out'[c])
        BY <1>5, <1>8, <1>10
      <3>2. c \in Channels => InProgressAt(c)'
        BY <3>1 DEF InProgressAt
      <3> QED
        BY <1>9, <3>2 DEF InProgress
    <2> QED
      BY <1>1, <1>2, <2>5, <2>6, <2>7 DEF ExactIInv, NoSpuriousError
  <1>11. CASE len > InitData
    <2> DEFINE payload == [command |-> command, total_len |-> len, data |-> data,
                           next_expected_sequence |-> 0, started_at |-> now]
    <2>1. event' = None /\ payload_stack' = [Live EXCEPT ![c] = payload]
      BY <1>2, <1>7, <1>11 DEF InitializationPacket, SinglePacket, FirstPacket, Insert
    <2>2. payload_stack'[c] = payload
      BY <1>6, <2>1
    <2>3. \A i \in 1..Len(data) : data[i] = <<id, i - 1>>
      <3>1. m.len = len /\ m.id = id
        OBVIOUS
      <3>2. /\ Len(data) = InitData
            /\ \A i \in 1..Len(data) : data[i] =
                  IF Offset(0) + i - 1 < m.len THEN <<m.id, Offset(0) + i - 1>> ELSE Pad
        <4> HIDE DEF m
        <4> QED
          BY <1>3, FragmentProperties
      <3> HIDE DEF m, data
      <3> TAKE i \in 1..Len(data)
      <3>3. Offset(0) + i - 1 = i - 1 /\ i - 1 < len
        BY <1>7, <1>11, <3>2
      <3> QED
        BY <3>1, <3>2, <3>3
    <2>4. c \in Channels
      BY <1>7, <1>11
    <2>5. Matches(payload_stack[c], out[c])'
      <3>1. /\ payload.total_len = m.len /\ payload.next_expected_sequence = m.sent - 1
            /\ payload.started_at = now /\ m.id = id /\ payload.data = data
        OBVIOUS
      <3> HIDE DEF payload, m, data
      <3> QED
        BY <1>4, <1>5, <2>2, <2>3, <3>1 DEF Matches
    <2>6. payload_stack'[c] # None
      BY <2>4, <2>2, <1>1, <1>3, <1>6, <1>2, <1>11, <1>7, FragmentProperties, NoneAssumption,
         CtapHidAssumption DEF ChannelPayload, CtapHidAssumption
    <2>7. InProgress'
      BY <1>9, <2>5, <2>6 DEF InProgress, InProgressAt
    <2>8. Intact'
      BY <2>1 DEF Intact, Delivered
    <2>9. Completes
      <3> HIDE DEF m
      <3>1. ~AllWritten(out'[c])
        BY <1>5, <1>7, <1>8, <1>11
      <3> QED
        BY <1>5, <3>1 DEF Completes, AllChannels
    <2> QED
      BY <1>1, <1>2, <2>7, <2>8, <2>9 DEF ExactIInv, NoSpuriousError
  <1> QED
    BY <1>7, <1>10, <1>11
(* The bytes stored for a client's message and those of its next packet.   *)
LEMMA NextFragment ==
    ASSUME IInv, NEW c \in Channels, InProgressAt(c), Live[c] # None,
           ~AllWritten(out[c])
    PROVE  LET m == out[c]
               whole == Live[c].data \o Taken(Live[c], Fragment(m, m.sent))
           IN
           /\ Matches(Live[c], m) /\ Live[c] \in ChannelPayload
           /\ whole \in Seq(Byte)
           /\ Len(whole) = Least(Offset(m.sent + 1), m.len)
           /\ \A i \in 1..Len(whole) : whole[i] = <<m.id, i - 1>>
  <1> DEFINE m == out[c]
             k == m.sent
             payload == Live[c]
             data == Fragment(m, k)
             whole == payload.data \o Taken(payload, data)
  <1>1. m \in Outgoing /\ m.len \in Nat /\ k \in Nat /\ k # 0
    <2>1. m \in Outgoing /\ k >= 1
      BY HalfWay
    <2> QED
      BY <2>1 DEF Outgoing
  <1>2. /\ payload = payload_stack[c] /\ payload \in ChannelPayload
        /\ Matches(payload, m)
        /\ Len(payload.data) < payload.total_len
        /\ Len(payload.data) = Offset(payload.next_expected_sequence + 1)
    BY LiveProperties DEF IInv, TypeOK, InProgressAt, PayloadOK, GoodPayload, AllChannels
  <1>3. /\ payload.total_len = m.len /\ payload.next_expected_sequence = k - 1
        /\ \A i \in 1..Len(payload.data) : payload.data[i] = <<m.id, i - 1>>
    BY <1>2 DEF Matches
  <1> HIDE DEF payload, m, k
  <1>4. Len(payload.data) = Offset(k) /\ Offset(k) \in Nat /\ Offset(k) < m.len
    <2>1. k - 1 + 1 = k
      BY <1>1
    <2> QED
      BY <1>1, <1>2, <1>3, <2>1, OffsetProperties
  <1>5. Offset(k + 1) = Offset(k) + ContData /\ ContData \in Nat
    BY <1>1, OffsetProperties, CtapHidAssumption DEF CtapHidAssumption
  <1>6. /\ data \in Seq(Byte) /\ Len(data) = ContData
        /\ \A i \in 1..Len(data) :
             data[i] = IF Offset(k) + i - 1 < m.len THEN <<m.id, Offset(k) + i - 1>> ELSE Pad
    BY <1>1, FragmentProperties
  <1> HIDE DEF data
  <1>7. /\ whole \in Seq(Byte)
        /\ Len(whole) = Len(payload.data) + Least(Len(data), payload.total_len - Len(payload.data))
        /\ \A i \in 1..Len(whole) :
              whole[i] = IF i <= Len(payload.data) THEN payload.data[i]
                                                   ELSE data[i - Len(payload.data)]
    <2> DEFINE taken == Taken(payload, data)
    <2>1. /\ whole \in Seq(Byte)
          /\ Len(taken) = Least(Len(data), payload.total_len - Len(payload.data))
          /\ Len(whole) = Len(payload.data) + Len(taken)
          /\ \A i \in 1..Len(whole) :
                whole[i] = IF i <= Len(payload.data) THEN payload.data[i]
                                                     ELSE data[i - Len(payload.data)]
      BY <1>2, <1>6, WholeProperties
    <2> HIDE DEF taken, whole
    <2> QED
      BY <2>1
  <1> HIDE DEF whole
  <1>8. Len(whole) = Least(Offset(k + 1), m.len)
    BY <1>1, <1>3, <1>4, <1>5, <1>6, <1>7 DEF Least
  <1>9. ASSUME NEW i \in 1..Len(whole) PROVE whole[i] = <<m.id, i - 1>>
    <2>1. i \in Nat /\ i >= 1 /\ i <= Offset(k) + ContData /\ i <= m.len
      BY <1>1, <1>4, <1>5, <1>8 DEF Least
    <2>2. CASE i <= Offset(k)
      BY <1>3, <1>4, <1>7, <2>1, <2>2
    <2>3. CASE i > Offset(k)
      <3> DEFINE j == i - Offset(k)
      <3>1. j \in 1..Len(data) /\ Offset(k) + j - 1 = i - 1 /\ i - 1 < m.len
        <4> DEFINE q == Offset(k)
        <4>1. /\ i \in Nat /\ i >= 1 /\ i <= q + ContData /\ i <= m.len /\ i > q
              /\ q \in Nat /\ ContData \in Nat /\ m.len \in Nat /\ Len(data) = ContData
          BY <1>1, <1>4, <1>5, <1>6, <2>1, <2>3
        <4> HIDE DEF q
        <4>2. i - q \in 1..ContData /\ q + (i - q) - 1 = i - 1 /\ i - 1 < m.len
          BY <4>1
        <4> QED
          BY <4>1, <4>2 DEF q
      <3>2. whole[i] = data[j]
        BY <1>4, <1>7, <2>1, <2>3
      <3>3. data[j] = IF Offset(k) + j - 1 < m.len THEN <<m.id, Offset(k) + j - 1>> ELSE Pad
        BY <1>6, <3>1
      <3> QED
        BY <3>1, <3>2, <3>3
    <2> QED
      BY <1>4, <2>1, <2>2, <2>3
  <1> QED
    BY <1>2, <1>7, <1>8, <1>9 DEF m, k, payload, data, whole

LEMMA ContinueExact ==
    ASSUME ~Lossy, ExactIInv, NEW c \in Channels, ClientContinue(c)
    PROVE  ExactIInv' /\ Completes
  <1> DEFINE m == out[c]
             k == m.sent
             sent == [m EXCEPT !.sent = @ + 1]
             whole == Live[c].data \o Taken(Live[c], Fragment(m, k))
  <1>1. IInv'
    BY ContinueIInv DEF ExactIInv
  <1>2. /\ ~AllWritten(m)
        /\ out' = [out EXCEPT ![c] = sent]
        /\ ContinuationPacket(c, k - 1, Fragment(m, k))
        /\ UNCHANGED <<now, messages, born>>
    BY DEF ClientContinue, PacketLost
  <1>3. /\ now \in Nat /\ Timeout \in Nat
        /\ out \in [AllChannels -> Outgoing] /\ c \in AllChannels
    BY CtapHidAssumption DEF ExactIInv, IInv, TypeOK, AllChannels, CtapHidAssumption
  <1>4. /\ m.len \in Nat /\ k \in Nat /\ k # 0
        /\ sent.len = m.len /\ sent.sent = k + 1 /\ sent.id = m.id
        /\ sent.command = m.command
        /\ born[m.id] \in Nat
    <2>1. m \in Outgoing /\ k >= 1 /\ born[m.id] \in Nat
      BY <1>2, HalfWay DEF ExactIInv
    <2> QED
      BY <2>1 DEF Outgoing
  <1>5. out'[c] = sent /\ \A d \in Channels : d # c => out'[d] = out[d]
    BY <1>2, <1>3 DEF AllChannels
  <1>6. Live \in [AllChannels -> ChannelPayload \cup {None}]
    BY LiveProperties DEF ExactIInv, IInv
  <1> HIDE DEF sent
  <1>7. InProgressAt(c)
    BY DEF ExactIInv, InProgress
  <1>8. Offset(k + 1) \in Nat
    BY <1>4, OffsetProperties
  <1>9. ASSUME NEW d \in Channels, d # c PROVE InProgressAt(d)'
    <2>1. payload_stack'[d] = Live[d]
      BY <1>2, <1>6, <1>9 DEF ContinuationPacket, StrayContinuation, WrongSequence,
                              NextPacket, AllChannels
    <2> QED
      BY <1>2, <1>3, <1>5, <1>9, <2>1, Undisturbed DEF ExactIInv, InProgress
  (* A payload that was evicted belongs to a message that is too old.      *)
  <1>10. CASE StrayContinuation(c)
    <2>1. event' = None /\ answer' = None /\ payload_stack'[c] = None /\ Live[c] = None
      BY <1>10 DEF StrayContinuation
    <2>2. now - born[m.id] >= Timeout
      <3> SUFFICES ASSUME ~(now - born[m.id] >= Timeout) PROVE FALSE
        OBVIOUS
      <3>1. payload_stack[c] # None /\ payload_stack[c].started_at = born[m.id]
        BY <1>2, <1>3, <1>4, <1>7 DEF InProgressAt, Matches
      <3> QED
        BY <1>3, <1>4, <2>1, <3>1 DEF Live
    <2>3. InProgressAt(c)'
      BY <1>2, <1>3, <1>4, <1>5, <2>1, <2>2 DEF InProgressAt
    <2>4. Completes
      BY <1>2, <1>3, <1>4, <1>5, <2>2 DEF Completes
    <2> QED
      BY <1>1, <1>9, <2>1, <2>3, <2>4
         DEF ExactIInv, InProgress, Intact, Delivered, NoSpuriousError
  <1>11. ASSUME Live[c] # None
         PROVE  /\ Matches(Live[c], m) /\ Live[c] \in ChannelPayload
                /\ whole \in Seq(Byte)
                /\ Len(whole) = Least(Offset(k + 1), m.len)
                /\ \A i \in 1..Len(whole) : whole[i] = <<m.id, i - 1>>
    BY <1>2, <1>7, <1>11, NextFragment DEF ExactIInv
  <1> HIDE DEF whole
  <1>12. CASE WrongSequence(c, k - 1)
    BY <1>11, <1>12 DEF WrongSequence, Matches
  <1>13. CASE NextPacket(c, k - 1, Fragment(m, k))
    <2>1. Live[c] # None /\ answer' = None /\ Live[c].total_len = m.len
      BY <1>11, <1>13 DEF NextPacket, Matches
    <2>2. CASE Complete(Live[c], whole)
      <3>1. /\ payload_stack' = [Live EXCEPT ![c] = None]
            /\ event' = [channel |-> c, command |-> Live[c].command, data |-> whole]
        BY <1>13, <2>2 DEF NextPacket, whole
      <3>2. Len(whole) = m.len /\ Offset(k + 1) >= m.len
        BY <1>4, <1>8, <1>11, <2>1, <2>2 DEF Complete, Least
      <3>3. whole = [i \in 1..m.len |-> <<m.id, i - 1>>]
        <4> DEFINE own == [i \in 1..m.len |-> <<m.id, i - 1>>]
        <4>1. \A i \in 1..m.len : own[i] = <<m.id, i - 1>>
          OBVIOUS
        <4>2. \A i \in 1..m.len : own[i] \in Byte
          BY <1>11, <2>1, <3>2, <4>1, ElementOfSeq
        <4>3. own \in Seq(Byte) /\ Len(own) = m.len
          <5>1. own \in [1..m.len -> Byte]
            BY <4>2
          <5> HIDE DEF own
          <5> QED
            BY <1>4, <5>1
        <4> HIDE DEF own
        <4>4. whole = own
          BY <1>11, <2>1, <3>2, <4>1, <4>3, SeqEqual
        <4> QED
          BY <4>4 DEF own
      <3>4. event' \in Message
        BY <1>3, <1>11, <2>1, <3>1 DEF Message, ChannelPayload, AllChannels
      <3>5. AllWritten(out'[c])
        BY <1>4, <1>5, <3>2 DEF AllWritten
      <3>6. Intact'
        BY <1>4, <1>5, <3>1, <3>3 DEF Intact, Delivered
      <3>7. InProgress'
        BY <1>9, <3>5 DEF InProgress, InProgressAt
      <3>8. Completes
        BY <1>5, <3>1, <3>4, NoneAssumption DEF Completes
      <3> QED
        BY <1>1, <2>1, <3>6, <3>7, <3>8 DEF ExactIInv, NoSpuriousError
    <2>3. CASE ~Complete(Live[c], whole)
      <3> DEFINE new == [Live[c] EXCEPT !.data = whole, !.next_expected_sequence = @ + 1]
      <3>1. event' = None /\ payload_stack' = [Live EXCEPT ![c] = new]
        BY <1>6, <1>13, <2>3 DEF NextPacket, whole
      <3>2. payload_stack'[c] = new
        <4> HIDE DEF new
        <4> QED
          BY <1>3, <1>6, <3>1
      <3>3. /\ new.data = whole /\ new.total_len = m.len /\ new.started_at = born[m.id]
            /\ new.next_expected_sequence = k /\ new \in ChannelPayload
        <4>1. /\ Live[c].next_expected_sequence + 1 = k
              /\ Live[c].started_at = born[m.id]
          <5>1. /\ Live[c].next_expected_sequence = k - 1
                /\ Live[c].started_at = born[m.id]
            BY <1>11, <2>1 DEF Matches
          <5>2. k \in Nat
            BY <1>4
          <5> HIDE DEF k
          <5>3. k - 1 + 1 = k
            BY <5>2
          <5> QED
            BY <5>1, <5>3
        <4>2. k \in 0..(MaxSequence + 1)
          BY <1>4, CtapHidAssumption DEF ClientContinue, CtapHidAssumption
        <4> QED
          BY <1>11, <2>1, <4>1, <4>2 DEF ChannelPayload
      <3> HIDE DEF new
      <3>4. Matches(payload_stack[c], out[c])'
        <4>1. k + 1 - 1 = k
          BY <1>4
        <4> QED
          BY <1>2, <1>4, <1>5, <1>11, <2>1, <3>2, <3>3, <4>1 DEF Matches
      <3>5. payload_stack'[c] # None
        BY <3>2, <3>3, NoneAssumption
      <3>6. InProgress'
        BY <1>9, <3>4, <3>5 DEF InProgress, InProgressAt
      <3>7. ~AllWritten(out'[c])
        BY <1>4, <1>5, <1>8, <1>11, <2>1, <2>3, LenProperties DEF Complete, Least, AllWritten
      <3> QED
        BY <1>1, <1>5, <2>1, <3>1, <3>6, <3>7
           DEF ExactIInv, Intact, Delivered, NoSpuriousError, Completes
    <2> QED
      BY <2>2, <2>3
  <1> QED
    BY <1>2, <1>10, <1>12, <1>13 DEF ContinuationPacket

LEMMA NextExact ==
    ASSUME ~Lossy, ExactIInv, [Next]_vars
    PROVE  ExactIInv' /\ [Completes]_vars
  <1>1. CASE UnparsableReport \/ HandleTruncatedInit \/ HandleCbor \/ Tick
    BY <1>1, QuietExact
  <1>2. CASE HandleInit
    BY <1>2, HandleInitExact
  <1>3. ASSUME NEW c \in Channels, NEW len \in Lengths, ClientStart(c, "Cbor", len)
        PROVE  ExactIInv' /\ Completes
    BY <1>3, StartExact, CtapHidAssumption DEF CtapHidAssumption, AllChannels
  <1>4. ASSUME NEW c \in AllChannels, NEW command \in {"Init", "TruncatedInit"},
               ClientStart(c, command, 0)
        PROVE  ExactIInv' /\ Completes
    BY <1>4, StartExact
  <1>5. ASSUME NEW c \in Channels, ClientContinue(c) PROVE ExactIInv' /\ Completes
    BY <1>5, ContinueExact
  <1>6. CASE UNCHANGED vars
    <2>1. IInv'
      BY <1>6, NextIInv DEF ExactIInv
    <2>2. UNCHANGED <<now, payload_stack, event, answer, out, born>>
      BY <1>6 DEF vars
    <2> QED
      BY <1>6, <2>1, <2>2 DEF ExactIInv, InProgress, InProgressAt, Matches, Intact,
                              Delivered, NoSpuriousError
  <1> QED
    BY <1>1, <1>2, <1>3, <1>4, <1>5, <1>6 DEF Next

LEMMA ExactInvariant == ASSUME ~Lossy PROVE Spec => []ExactIInv
  BY InitExact, NextExact, PTL DEF Spec

-----------------------------------------------------------------------------
(* The theorems, when no packet is lost.                                   *)

(* A reassembled message is, byte for byte, the one its client sent last   *)
(* (ctaphid.rs:95-145).                                                    *)
THEOREM CtapHidIntact == ASSUME ~Lossy PROVE Spec => []Intact
  BY ExactInvariant, PTL DEF ExactIInv

(* No client is ever told that its sequence is wrong (ctaphid.rs:125-132). *)
THEOREM CtapHidNoSpuriousError == ASSUME ~Lossy PROVE Spec => []NoSpuriousError
  BY ExactInvariant, PTL DEF ExactIInv

(* The last packet of a message that comes within Timeout of its first     *)
(* completes it (ctaphid.rs:78, 100, 140).                                 *)
THEOREM CtapHidCompleteInTime == ASSUME ~Lossy PROVE Spec => CompleteInTime
  <1>1. ASSUME ExactIInv, [Next]_vars PROVE [Completes]_vars
    BY <1>1, NextExact
  <1> QED
    BY <1>1, ExactInvariant, PTL DEF Spec, CompleteInTime, Completes
=============================================================================
