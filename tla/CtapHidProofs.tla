--------------------------- MODULE CtapHidProofs ---------------------------
(***************************************************************************)
(* Proofs about CtapHid for every value of its constants: any number of    *)
(* clients, message and packet lengths, sequence limit and eviction age.   *)
(***************************************************************************)
EXTENDS CtapHid, SequenceTheorems, TLAPS

-----------------------------------------------------------------------------
(* The invariant.                                                          *)

OutOK ==
    /\ messages <= MaxMessages
    /\ born \in [1..MaxMessages -> Nat]
    /\ \A id \in 1..MaxMessages : born[id] <= now
    /\ \A c \in AllChannels :
          /\ out[c].sent >= 1
          /\ out[c].id <= messages
          /\ out[c].id = 0 => out[c].len = 0

(* Nothing of the INIT that synchronised a channel is still to be written. *)
SyncOK ==
    \A c \in Channels :
        /\ synced[c] <= out[c].id
        /\ synced[c] = out[c].id => out[c].len = 0

EventOK ==
    event # None =>
        /\ event.channel \in AllChannels
        /\ event.data \in Seq(Byte)
        /\ event.command = "Cbor" => event.channel \in Channels
        /\ event.command = "Init" => out[event.channel].len = 0

(* Every byte is padding or lies where its client put it, in a message     *)
(* numbered above oldest and up to newest that was begun at since or later.*)
Placed(data, since, oldest, newest, begun) ==
    \A i \in 1..Len(data) :
        data[i] # Pad =>
            /\ data[i][2] = i - 1
            /\ data[i][1] \in (oldest + 1)..newest
            /\ begun[data[i][1]] >= since

GoodPayload(payload, c) ==
    /\ Len(payload.data) = Offset(payload.next_expected_sequence + 1)
    /\ Placed(payload.data, payload.started_at, synced[c], messages, born)
    /\ out[c].id # 0
    /\ born[out[c].id] >= payload.started_at

PayloadOK ==
    \A c \in Channels : payload_stack[c] # None => GoodPayload(payload_stack[c], c)

DeliveredOK ==
    Delivered =>
        Placed(event.data, now - Timeout + 1, synced[event.channel], messages, born)

IInv ==
    /\ TypeOK
    /\ OutOK
    /\ SyncOK
    /\ EventOK
    /\ PayloadOK
    /\ DeliveredOK

-----------------------------------------------------------------------------
(* Packets.                                                                *)

LEMMA OffsetProperties ==
    ASSUME NEW k \in Nat
    PROVE  /\ Offset(k) \in Nat
           /\ Offset(0) = 0
           /\ Offset(1) = InitData
           /\ k # 0 => Offset(k + 1) = Offset(k) + ContData
  <1> USE CtapHidAssumption DEF CtapHidAssumption
  <1>1. Offset(0) = 0 /\ Offset(1) = InitData
    BY DEF Offset
  <1>2. Offset(k) \in Nat
    <2>1. CASE k = 0
      BY <2>1, <1>1
    <2>2. CASE k # 0
      <3>1. k - 1 \in Nat
        BY <2>2
      <3>2. (k - 1) * ContData \in Nat
        BY <3>1
      <3> QED
        BY <2>2, <3>2 DEF Offset
    <2> QED
      BY <2>1, <2>2
  <1>3. k # 0 => Offset(k + 1) = Offset(k) + ContData
    <2> SUFFICES ASSUME k # 0 PROVE Offset(k + 1) = Offset(k) + ContData
      OBVIOUS
    <2>1. k * ContData = (k - 1) * ContData + ContData
      OBVIOUS
    <2>2. Offset(k + 1) = InitData + k * ContData
      BY DEF Offset
    <2>3. Offset(k) = InitData + (k - 1) * ContData
      BY DEF Offset
    <2>4. (k - 1) * ContData \in Int /\ k * ContData \in Int
      OBVIOUS
    <2> HIDE DEF Offset
    <2> QED
      BY <2>1, <2>2, <2>3, <2>4
  <1> QED
    BY <1>1, <1>2, <1>3

LEMMA FragmentProperties ==
    ASSUME NEW m \in Outgoing, NEW k \in Nat
    PROVE  /\ Fragment(m, k) \in Seq(Byte)
           /\ Len(Fragment(m, k)) = IF k = 0 THEN InitData ELSE ContData
           /\ \A i \in 1..Len(Fragment(m, k)) :
                Fragment(m, k)[i] =
                    IF Offset(k) + i - 1 < m.len THEN <<m.id, Offset(k) + i - 1>> ELSE Pad
  <1> DEFINE n == IF k = 0 THEN InitData ELSE ContData
             byte(i) == IF Offset(k) + i - 1 < m.len THEN <<m.id, Offset(k) + i - 1>> ELSE Pad
  <1>1. n \in Nat /\ Offset(k) \in Nat
    BY CtapHidAssumption, OffsetProperties DEF CtapHidAssumption
  <1>2. \A i \in 1..n : byte(i) \in Byte
    BY <1>1 DEF Outgoing, Byte, Pad
  <1>3. Fragment(m, k) = [i \in 1..n |-> byte(i)]
    BY DEF Fragment
  <1> HIDE DEF n, byte
  <1>4. [i \in 1..n |-> byte(i)] \in [1..n -> Byte]
    BY <1>2
  <1>5. Fragment(m, k) \in Seq(Byte) /\ Len(Fragment(m, k)) = n
    BY <1>1, <1>3, <1>4
  <1>6. \A i \in 1..n : Fragment(m, k)[i] = byte(i)
    BY <1>3
  <1> QED
    BY <1>5, <1>6 DEF n, byte

(* A message that fits its packet is recovered from it.                    *)
LEMMA SinglePacketData ==
    ASSUME NEW m \in Outgoing, m.len <= InitData
    PROVE  /\ SubSeq(Fragment(m, 0), 1, m.len) = [i \in 1..m.len |-> <<m.id, i - 1>>]
           /\ [i \in 1..m.len |-> <<m.id, i - 1>>] \in Seq(Byte)
           /\ Len([i \in 1..m.len |-> <<m.id, i - 1>>]) = m.len
  <1> DEFINE data == Fragment(m, 0)
             sent == SubSeq(data, 1, m.len)
             own  == [i \in 1..m.len |-> <<m.id, i - 1>>]
  <1>1. m.len \in Nat /\ m.id \in Nat
    BY DEF Outgoing
  <1>2. /\ Len(data) = InitData /\ data \in Seq(Byte)
        /\ \A i \in 1..Len(data) : data[i] =
              IF Offset(0) + i - 1 < m.len THEN <<m.id, Offset(0) + i - 1>> ELSE Pad
    BY FragmentProperties
  <1>3. Offset(0) = 0 /\ InitData \in Nat
    BY OffsetProperties, CtapHidAssumption DEF CtapHidAssumption
  <1> HIDE DEF data
  <1>4. ASSUME NEW i \in 1..m.len PROVE data[i] = <<m.id, i - 1>> /\ data[i] \in Byte
    <2>1. i \in 1..Len(data) /\ 0 + i - 1 = i - 1 /\ i - 1 < m.len /\ i - 1 \in Nat
      BY <1>1, <1>2, <1>3
    <2> QED
      BY <1>1, <1>2, <1>3, <2>1 DEF Byte
  <1>5. /\ sent \in Seq(Byte)
        /\ Len(sent) = IF 1 <= m.len THEN m.len - 1 + 1 ELSE 0
        /\ \A i \in 1..(m.len - 1 + 1) : sent[i] = data[1 + i - 1]
    BY <1>1, <1>4, SubSeqProperties
  <1> HIDE DEF sent
  <1>6. Len(sent) = m.len /\ \A i \in 1..m.len : sent[i] = <<m.id, i - 1>>
    <2>1. Len(sent) = m.len
      BY <1>1, <1>5
    <2>2. ASSUME NEW i \in 1..m.len PROVE sent[i] = data[i]
      <3>1. i \in 1..(m.len - 1 + 1) /\ 1 + i - 1 = i
        BY <1>1
      <3> QED
        BY <1>5, <3>1
    <2> QED
      BY <1>4, <2>1, <2>2
  <1>7. own \in [1..m.len -> Byte]
    BY <1>1, <1>4
  <1>8. \A i \in 1..m.len : own[i] = <<m.id, i - 1>>
    OBVIOUS
  <1> HIDE DEF own
  <1>9. own \in Seq(Byte) /\ Len(own) = m.len
    BY <1>1, <1>7
  <1>10. sent = own
    BY <1>5, <1>6, <1>8, <1>9, SeqEqual
  <1> QED
    BY <1>9, <1>10 DEF sent, own, data

(* What the payload becomes with the bytes of one more continuation.       *)
LEMMA WholeProperties ==
    ASSUME NEW payload \in ChannelPayload, NEW data \in Seq(Byte),
           Len(payload.data) < payload.total_len
    PROVE  LET taken == Taken(payload, data)
               whole == payload.data \o taken
           IN
           /\ whole \in Seq(Byte)
           /\ Len(taken) = Least(Len(data), payload.total_len - Len(payload.data))
           /\ Len(whole) = Len(payload.data) + Len(taken)
           /\ \A i \in 1..Len(whole) :
                whole[i] = IF i <= Len(payload.data) THEN payload.data[i]
                                                     ELSE data[i - Len(payload.data)]
  <1> DEFINE n == Least(Len(data), payload.total_len - Len(payload.data))
             taken == SubSeq(data, 1, n)
             whole == payload.data \o taken
  <1>1. payload.data \in Seq(Byte) /\ payload.total_len \in Nat
    BY DEF ChannelPayload
  <1>2. Len(payload.data) \in Nat /\ Len(data) \in Nat
    BY <1>1, LenProperties
  <1>3. n \in Nat /\ n <= Len(data)
    BY <1>1, <1>2 DEF Least
  <1>4. \A i \in 1..n : data[i] \in Byte
    BY <1>2, <1>3, ElementOfSeq
  <1>5. /\ taken \in Seq(Byte) /\ Len(taken) = n
        /\ \A i \in 1..n : taken[i] = data[i]
    <2> HIDE DEF n
    <2>1. /\ SubSeq(data, 1, n) \in Seq(Byte)
          /\ Len(SubSeq(data, 1, n)) = IF 1 <= n THEN n - 1 + 1 ELSE 0
          /\ \A i \in 1..(n - 1 + 1) : SubSeq(data, 1, n)[i] = data[1 + i - 1]
      BY <1>3, <1>4, SubSeqProperties
    <2> QED
      BY <1>3, <2>1
  <1> HIDE DEF taken, n
  <1>6. /\ whole \in Seq(Byte) /\ Len(whole) = Len(payload.data) + Len(taken)
        /\ \A i \in 1..(Len(payload.data) + Len(taken)) :
             whole[i] = IF i <= Len(payload.data) THEN payload.data[i]
                                                  ELSE taken[i - Len(payload.data)]
    BY <1>1, <1>5, ConcatProperties
  <1>7. \A i \in 1..Len(whole) :
             whole[i] = IF i <= Len(payload.data) THEN payload.data[i]
                                                  ELSE data[i - Len(payload.data)]
    <2> HIDE DEF whole
    <2> TAKE i \in 1..Len(whole)
    <2> DEFINE l == Len(payload.data)
    <2>1. i \in 1..(l + n) /\ l \in Nat /\ Len(taken) = n
      BY <1>2, <1>5, <1>6
    <2> HIDE DEF l
    <2>2. i > l => i - l \in 1..n
      BY <1>3, <2>1
    <2>3. i > l => taken[i - l] = data[i - l]
      BY <1>5, <2>2
    <2> QED
      BY <1>6, <2>1, <2>3 DEF l
  <1>8. Taken(payload, data) = taken
    BY DEF Taken, taken, n
  <1> QED
    BY <1>3, <1>5, <1>6, <1>7, <1>8 DEF n

-----------------------------------------------------------------------------
(* The parts of a step.                                                    *)

(* Eviction keeps a subset of the payloads, all of them young.             *)
LEMMA LiveProperties ==
    ASSUME TypeOK
    PROVE  /\ Live \in [AllChannels -> ChannelPayload \cup {None}]
           /\ \A c \in AllChannels : Live[c] # None =>
                 Live[c] = payload_stack[c] /\ now - Live[c].started_at < Timeout
  <1>1. \A c \in AllChannels : payload_stack[c] \in ChannelPayload \cup {None}
    BY DEF TypeOK
  <1>2. \A c \in AllChannels : payload_stack[c] # None => payload_stack[c].started_at \in Nat
    BY <1>1 DEF ChannelPayload
  <1> QED
    BY <1>1, <1>2, CtapHidAssumption DEF Live, TypeOK, CtapHidAssumption

(* What the state keeps and evicts is as good as it was.                   *)
LEMMA EvictedOK ==
    ASSUME IInv, payload_stack' \in {payload_stack, Live},
           UNCHANGED <<out, messages, born, synced>>, now' \in Nat, now <= now'
    PROVE  PayloadOK'
  BY LiveProperties DEF IInv, PayloadOK, GoodPayload, AllChannels

LEMMA EvictedType ==
    ASSUME TypeOK, payload_stack' \in {payload_stack, Live}, now' \in Nat, now <= now'
    PROVE  /\ payload_stack' \in [AllChannels -> ChannelPayload \cup {None}]
           /\ \A c \in AllChannels : payload_stack'[c] # None =>
                 /\ payload_stack'[c].started_at <= now'
                 /\ Len(payload_stack'[c].data) < payload_stack'[c].total_len
  <1>1. \A c \in AllChannels : payload_stack'[c] # None => payload_stack'[c] = payload_stack[c]
    BY LiveProperties
  <1>2. payload_stack' \in [AllChannels -> ChannelPayload \cup {None}]
    BY LiveProperties DEF TypeOK
  <1>3. \A c \in AllChannels : payload_stack[c] # None => payload_stack[c].started_at \in Nat
    BY DEF TypeOK, ChannelPayload
  <1> QED
    BY <1>1, <1>2, <1>3 DEF TypeOK

-----------------------------------------------------------------------------
(* Every action preserves IInv.                                            *)

LEMMA InitIInv == Init => IInv
  <1> SUFFICES ASSUME Init PROVE IInv
    OBVIOUS
  <1> USE CtapHidAssumption DEF Init, CtapHidAssumption
  <1>1. TypeOK
    BY DEF TypeOK, Outgoing, AllChannels
  <1>2. OutOK /\ SyncOK
    BY DEF OutOK, SyncOK, AllChannels
  <1>3. EventOK /\ PayloadOK /\ DeliveredOK
    BY DEF EventOK, PayloadOK, DeliveredOK, Delivered, AllChannels
  <1> QED
    BY <1>1, <1>2, <1>3 DEF IInv

(* The steps between packets.                                              *)
LEMMA QuietIInv ==
    ASSUME IInv, UnparsableReport \/ HandleTruncatedInit \/ HandleCbor \/ Tick
    PROVE  IInv'
  <1>1. /\ UNCHANGED <<out, messages, born, synced>> /\ event' = None
        /\ payload_stack' \in {payload_stack, Live}
        /\ now' \in Nat /\ now <= now'
    BY DEF UnparsableReport, HandleTruncatedInit, HandleCbor, Tick, clients, IInv, TypeOK
  <1>2. TypeOK'
    BY <1>1, EvictedType DEF IInv, TypeOK
  <1>3. OutOK'
    BY <1>1 DEF IInv, OutOK, TypeOK
  <1>4. SyncOK' /\ EventOK' /\ DeliveredOK'
    BY <1>1 DEF IInv, SyncOK, EventOK, DeliveredOK, Delivered
  <1>5. PayloadOK'
    BY <1>1, EvictedOK
  <1> QED
    BY <1>2, <1>3, <1>4, <1>5 DEF IInv

LEMMA HandleInitIInv ==
    ASSUME IInv, HandleInit
    PROVE  IInv'
  <1> DEFINE c == event.channel
  <1>1. /\ UNCHANGED <<now, out, messages, born>> /\ event' = None
        /\ c \in AllChannels /\ out[c].len = 0
    BY DEF HandleInit, clients, IInv, EventOK
  <1>2. CASE c = BROADCAST
    <2>1. UNCHANGED <<payload_stack, synced>>
      BY <1>2 DEF HandleInit
    <2>2. now \in Nat
      BY DEF IInv, TypeOK
    <2>3. PayloadOK'
      BY <1>1, <2>1, <2>2, EvictedOK
    <2> QED
      BY <1>1, <2>1, <2>3
         DEF IInv, TypeOK, OutOK, SyncOK, EventOK, DeliveredOK, Delivered
  <1>3. CASE c # BROADCAST
    <2>1. /\ c \in Channels
          /\ payload_stack' = [payload_stack EXCEPT ![c] = None]
          /\ synced' = [synced EXCEPT ![c] = out[c].id]
      BY <1>1, <1>3 DEF HandleInit, AllChannels
    <2>2. out[c].id \in Nat
      BY <1>1 DEF IInv, TypeOK, Outgoing
    <2>3. TypeOK'
      BY <1>1, <2>1, <2>2, NoneAssumption DEF IInv, TypeOK
    <2>4. OutOK'
      BY <1>1 DEF IInv, OutOK
    <2>5. SyncOK'
      BY <1>1, <2>1, <2>2 DEF IInv, SyncOK, TypeOK
    <2>6. PayloadOK'
      BY <1>1, <2>1 DEF IInv, TypeOK, PayloadOK, GoodPayload, AllChannels
    <2> QED
      BY <1>1, <2>3, <2>4, <2>5, <2>6 DEF IInv, EventOK, DeliveredOK, Delivered
  <1> QED
    BY <1>2, <1>3

(* A new message neither disturbs nor is disturbed by what is stored.      *)
LEMMA StartIInv ==
    ASSUME IInv, NEW c \in AllChannels,
           NEW command \in {"Cbor", "Init", "TruncatedInit"}, NEW len \in Nat,
           command = "Cbor" => c \in Channels,
           command # "Cbor" => len = 0,
           ClientStart(c, command, len)
    PROVE  IInv'
  <1> DEFINE id == messages + 1
             m == [id |-> id, command |-> command, len |-> len, sent |-> 1]
             data == Fragment(m, 0)
  <1> USE CtapHidAssumption, NoneAssumption DEF CtapHidAssumption
  <1>1. /\ messages \in Nat /\ now \in Nat /\ messages < MaxMessages
        /\ UNCHANGED <<now, synced>>
        /\ messages' = id
        /\ out' = [out EXCEPT ![c] = m]
        /\ born' = [born EXCEPT ![id] = now]
    BY DEF ClientStart, IInv, TypeOK
  <1>2. m \in Outgoing
    BY <1>1 DEF Outgoing
  <1>3. /\ data \in Seq(Byte) /\ Len(data) = InitData
        /\ \A i \in 1..InitData : data[i] = IF i - 1 < len THEN <<id, i - 1>> ELSE Pad
    <2>1. Offset(0) = 0
      BY OffsetProperties
    <2> HIDE DEF data, m
    <2>2. /\ data \in Seq(Byte) /\ Len(data) = InitData
          /\ \A i \in 1..Len(data) : data[i] =
                IF Offset(0) + i - 1 < m.len THEN <<m.id, Offset(0) + i - 1>> ELSE Pad
      BY <1>2, FragmentProperties DEF data
    <2>3. m.len = len /\ m.id = id
      BY DEF m
    <2>4. ASSUME NEW i \in 1..InitData
          PROVE  data[i] = IF i - 1 < len THEN <<id, i - 1>> ELSE Pad
      <3>1. data[i] = IF 0 + i - 1 < len THEN <<id, 0 + i - 1>> ELSE Pad
        BY <2>1, <2>2, <2>3
      <3>2. 0 + i - 1 = i - 1
        OBVIOUS
      <3> QED
        BY <3>1, <3>2
    <2> QED
      BY <2>2, <2>4
  <1>4. \A old \in 1..messages : born'[old] = born[old]
    BY <1>1 DEF IInv, OutOK
  <1>5. born'[id] = now
    BY <1>1 DEF IInv, OutOK
  <1>6. OutOK'
    <2>1. born' \in [1..MaxMessages -> Nat] /\ \A i \in 1..MaxMessages : born'[i] <= now
      BY <1>1 DEF IInv, OutOK
    <2>2. \A d \in AllChannels : out'[d] = IF d = c THEN m ELSE out[d]
      BY <1>1 DEF IInv, TypeOK
    <2>3. \A d \in AllChannels : out[d].id \in Nat
      BY DEF IInv, TypeOK, Outgoing
    <2> QED
      BY <1>1, <2>1, <2>2, <2>3 DEF IInv, OutOK
  <1>7. SyncOK'
    <2>1. \A d \in Channels : out'[d] = IF d = c THEN m ELSE out[d]
      BY <1>1 DEF IInv, TypeOK, AllChannels
    <2>2. \A d \in Channels : synced[d] \in Nat /\ out[d].id \in Nat /\ out[d].id <= messages
      BY DEF IInv, TypeOK, OutOK, Outgoing, AllChannels
    <2> QED
      BY <1>1, <2>1, <2>2 DEF IInv, SyncOK
  <1>8. \A d \in Channels, p \in ChannelPayload :
           payload_stack[d] = p => GoodPayload(p, d)'
    <2> SUFFICES ASSUME NEW d \in Channels, NEW p \in ChannelPayload, payload_stack[d] = p
                 PROVE  GoodPayload(p, d)'
      OBVIOUS
    <2>1. GoodPayload(p, d) /\ p.started_at \in Nat /\ p.started_at <= now
      BY DEF IInv, PayloadOK, TypeOK, AllChannels, ChannelPayload
    <2>2. synced[d] \in Nat /\ out[d].id \in Nat /\ out[d].id <= messages
      BY DEF IInv, TypeOK, OutOK, AllChannels, Outgoing
    <2>3. Placed(p.data, p.started_at, synced[d], messages', born')
      <3>1. Placed(p.data, p.started_at, synced[d], messages, born)
        BY <2>1 DEF GoodPayload
      <3>2. messages' \in Nat /\ messages <= messages'
        BY <1>1
      <3>3. ASSUME NEW i \in 1..Len(p.data), p.data[i] # Pad
            PROVE  /\ p.data[i][2] = i - 1
                   /\ p.data[i][1] \in (synced[d] + 1)..messages'
                   /\ born'[p.data[i][1]] >= p.started_at
        <4> DEFINE old == p.data[i][1]
        <4>1. /\ p.data[i][2] = i - 1 /\ old \in (synced[d] + 1)..messages
              /\ born[old] >= p.started_at
          BY <3>1, <3>3 DEF Placed
        <4> HIDE DEF old
        <4>2. old \in 1..messages /\ old \in (synced[d] + 1)..messages'
          BY <2>2, <3>2, <4>1, <1>1
        <4>3. born'[old] = born[old]
          BY <1>4, <4>2
        <4> QED
          BY <4>1, <4>2, <4>3 DEF old
      <3> QED
        BY <3>3 DEF Placed
    <2>4. out'[d].id # 0 /\ born'[out'[d].id] >= p.started_at
      <3>1. out'[d] = IF d = c THEN m ELSE out[d]
        BY <1>1 DEF IInv, TypeOK, AllChannels
      <3>2. CASE d = c
        BY <1>1, <1>5, <2>1, <3>1, <3>2
      <3>3. CASE d # c
        BY <1>4, <2>1, <2>2, <3>1, <3>3 DEF GoodPayload
      <3> QED
        BY <3>2, <3>3
    <2> QED
      BY <1>1, <2>1, <2>3, <2>4 DEF GoodPayload
  <1>9. /\ PacketLost => payload_stack' = payload_stack /\ event' = None
        /\ ~PacketLost => InitializationPacket(c, command, len, data)
    BY DEF ClientStart, PacketLost
  <1> HIDE DEF data
  <1>10. ASSUME payload_stack' \in {payload_stack, Live}
         PROVE  TypeOK' /\ PayloadOK'
    <2>1. TypeOK'
      BY <1>1, <1>2, <1>10, EvictedType DEF IInv, TypeOK
    <2>2. \A d \in Channels : payload_stack'[d] # None =>
             payload_stack'[d] = payload_stack[d] /\ payload_stack[d] \in ChannelPayload
      BY <1>10, LiveProperties DEF IInv, TypeOK, AllChannels
    <2> QED
      BY <1>8, <2>1, <2>2 DEF PayloadOK, GoodPayload
  <1>11. CASE PacketLost
    BY <1>6, <1>7, <1>9, <1>10, <1>11 DEF IInv, EventOK, DeliveredOK, Delivered
  <1>12. CASE SinglePacket(c, command, len, data)
    <2>1. /\ len <= InitData /\ payload_stack' = Live
          /\ event' = [channel |-> c, command |-> command, data |-> SubSeq(data, 1, len)]
      BY <1>12 DEF SinglePacket
    <2>2. SubSeq(data, 1, len) = [i \in 1..len |-> <<id, i - 1>>]
          /\ [i \in 1..len |-> <<id, i - 1>>] \in Seq(Byte)
          /\ Len([i \in 1..len |-> <<id, i - 1>>]) = len
      BY <1>2, <2>1, SinglePacketData DEF data
    <2>3. event'.data \in Seq(Byte) /\ Len(event'.data) = len
      BY <2>1, <2>2
    <2>4. \A i \in 1..len : event'.data[i] = <<id, i - 1>>
      BY <2>1, <2>2
    <2>5. EventOK'
      BY <1>1, <2>1, <2>3 DEF EventOK, IInv, TypeOK
    <2>6. ASSUME Delivered'
          PROVE  Placed(event'.data, now - Timeout + 1, synced[c], messages', born')
      <3>1. synced[c] \in Nat /\ synced[c] <= messages
        <4>1. c \in Channels
          BY <2>1, <2>6 DEF Delivered
        <4> QED
          BY <1>1, <4>1 DEF IInv, SyncOK, OutOK, TypeOK, AllChannels, Outgoing
      <3> DEFINE all == event'.data
      <3>2. \A i \in 1..Len(all) : all[i] = <<id, i - 1>>
        BY <2>3, <2>4
      <3>3. id \in (synced[c] + 1)..messages' /\ born'[id] >= now - Timeout + 1
        BY <1>1, <1>5, <3>1
      <3> HIDE DEF all
      <3>4. \A i \in 1..Len(all) : all[i][2] = i - 1 /\ all[i][1] = id
        BY <3>2
      <3>5. Placed(all, now - Timeout + 1, synced[c], messages', born')
        BY <3>3, <3>4 DEF Placed
      <3> QED
        BY <3>5 DEF all
    <2>7. DeliveredOK'
      BY <1>1, <2>1, <2>6 DEF DeliveredOK
    <2> QED
      BY <1>6, <1>7, <1>10, <2>1, <2>5, <2>7 DEF IInv
  <1>13. CASE FirstPacket(c, command, len, data)
    <2> DEFINE new == [command |-> command, total_len |-> len, data |-> data,
                       next_expected_sequence |-> 0, started_at |-> now]
    <2>1. /\ len > InitData /\ event' = None
          /\ payload_stack' = [Live EXCEPT ![c] = new]
      BY <1>13 DEF FirstPacket, Insert
    <2>2. c \in Channels /\ command = "Cbor"
      BY <2>1
    <2>3. new \in ChannelPayload
      BY <1>1, <1>3, <2>2 DEF ChannelPayload
    <2>4. Live \in [AllChannels -> ChannelPayload \cup {None}]
      BY LiveProperties DEF IInv
    <2>5. \A d \in AllChannels : payload_stack'[d] # None =>
             \/ d = c /\ payload_stack'[d] = new
             \/ d # c /\ payload_stack'[d] = payload_stack[d] /\ payload_stack[d] # None
      BY <2>1, <2>4, LiveProperties DEF IInv
    <2> HIDE DEF new
    <2>6. new.data = data /\ new.total_len = len /\ new.started_at = now
            /\ new.next_expected_sequence = 0
      BY DEF new
    <2>7. TypeOK'
      <3>1. payload_stack' \in [AllChannels -> ChannelPayload \cup {None}]
        BY <2>1, <2>3, <2>4
      <3>2. \A d \in AllChannels : payload_stack'[d] # None =>
               /\ payload_stack'[d].started_at <= now
               /\ Len(payload_stack'[d].data) < payload_stack'[d].total_len
        BY <1>1, <1>3, <2>1, <2>5, <2>6 DEF IInv, TypeOK
      <3>3. out' \in [AllChannels -> Outgoing]
        BY <1>1, <1>2 DEF IInv, TypeOK
      <3> HIDE DEF m
      <3> QED
        BY <1>1, <3>1, <3>2, <3>3 DEF IInv, TypeOK
    <2>8. \A p \in ChannelPayload : p = new => GoodPayload(p, c)'
      <3>1. synced[c] \in Nat /\ synced[c] <= messages
        BY <1>1, <2>2 DEF IInv, SyncOK, OutOK, TypeOK, AllChannels, Outgoing
      <3>2. Placed(data, now, synced[c], messages', born')
        BY <1>1, <1>3, <1>5, <3>1 DEF Placed
      <3>3. out'[c].id = id
        BY <1>1 DEF IInv, TypeOK
      <3>4. Len(data) = Offset(0 + 1)
        BY <1>3, OffsetProperties
      <3> QED
        BY <1>1, <1>5, <2>6, <3>2, <3>3, <3>4 DEF GoodPayload
    <2>9. PayloadOK'
      <3> SUFFICES ASSUME NEW d \in Channels, NEW p, p = payload_stack'[d], p # None
                   PROVE  GoodPayload(p, d)'
        BY DEF PayloadOK, GoodPayload
      <3>1. CASE d = c
        BY <2>3, <2>5, <2>8, <3>1 DEF AllChannels
      <3>2. CASE d # c
        BY <1>8, <2>5, <3>2 DEF IInv, TypeOK, AllChannels
      <3> QED
        BY <3>1, <3>2
    <2> QED
      BY <1>6, <1>7, <2>1, <2>7, <2>9 DEF IInv, EventOK, DeliveredOK, Delivered
  <1> QED
    BY <1>9, <1>11, <1>12, <1>13 DEF InitializationPacket

(* What a continuation leaves in place is as good as it was.               *)
LEMMA ContinueIInv ==
    ASSUME IInv, NEW c \in Channels, ClientContinue(c)
    PROVE  IInv'
  <1> DEFINE m == out[c]
             k == m.sent
             data == Fragment(m, k)
             payload == payload_stack[c]
             whole == payload.data \o Taken(payload, data)
  <1> USE CtapHidAssumption, NoneAssumption DEF CtapHidAssumption
  <1>1. /\ UNCHANGED <<now, messages, born, synced>>
        /\ out' = [out EXCEPT ![c].sent = @ + 1]
        /\ now \in Nat /\ messages \in Nat /\ c \in AllChannels
        /\ m \in Outgoing /\ k \in Nat /\ k >= 1 /\ m.len \in Nat /\ m.id \in Nat
        /\ k - 1 <= MaxSequence
    BY DEF ClientContinue, IInv, TypeOK, OutOK, AllChannels, Outgoing
  <1>0. k \in Nat /\ k >= 1 /\ k - 1 <= MaxSequence /\ now \in Nat
    BY <1>1
  <1>2. synced[c] < m.id /\ m.id <= messages /\ m.id # 0
    <2>1. m.len # 0
      <3>1. Offset(k) \in Nat
        BY <1>1, OffsetProperties
      <3> QED
        BY <1>1, <3>1 DEF ClientContinue, AllWritten
    <2> QED
      BY <1>1, <2>1 DEF IInv, SyncOK, OutOK, TypeOK
  <1>3. /\ Offset(k) \in Nat /\ Offset(k + 1) = Offset(k) + ContData
        /\ data \in Seq(Byte) /\ Len(data) = ContData
        /\ \A i \in 1..ContData : data[i] # Pad => data[i] = <<m.id, Offset(k) + i - 1>>
    <2>1. Offset(k) \in Nat /\ Offset(k + 1) = Offset(k) + ContData
      BY <1>1, OffsetProperties
    <2>2. m \in Outgoing /\ k \in Nat /\ k # 0
      BY <1>1
    <2>3. /\ Fragment(m, k) \in Seq(Byte) /\ Len(Fragment(m, k)) = ContData
          /\ \A i \in 1..Len(Fragment(m, k)) : Fragment(m, k)[i] =
                 IF Offset(k) + i - 1 < m.len THEN <<m.id, Offset(k) + i - 1>> ELSE Pad
      <3> HIDE DEF m, k
      <3> QED
        BY <2>2, FragmentProperties
    <2> HIDE DEF m, k
    <2> QED
      BY <2>1, <2>3 DEF data
  <1>4. \A d \in AllChannels : out'[d].id = out[d].id /\ out'[d].len = out[d].len
                            /\ out'[d].sent >= out[d].sent
    <2>1. \A d \in AllChannels :
             out'[d] = IF d = c THEN [out[c] EXCEPT !.sent = @ + 1] ELSE out[d]
      BY <1>1 DEF IInv, TypeOK
    <2>2. \A d \in AllChannels : out[d].sent \in Nat
      BY DEF IInv, TypeOK, Outgoing
    <2> DEFINE new == [out[c] EXCEPT !.sent = @ + 1]
    <2>3. new.id = out[c].id /\ new.len = out[c].len /\ new.sent = out[c].sent + 1
      BY <1>1 DEF Outgoing
    <2>4. \A d \in AllChannels : out'[d] = IF d = c THEN new ELSE out[d]
      BY <2>1
    <2> HIDE DEF new
    <2> QED
      BY <2>2, <2>3, <2>4
  <1>5. out' \in [AllChannels -> Outgoing]
    <2>1. [out[c] EXCEPT !.sent = @ + 1] \in Outgoing
      BY <1>1 DEF Outgoing
    <2>2. out' = [out EXCEPT ![c] = [out[c] EXCEPT !.sent = @ + 1]]
      BY <1>1
    <2> QED
      BY <2>1, <2>2 DEF IInv, TypeOK
  <1>6. OutOK' /\ SyncOK'
    <2>1. \A d \in AllChannels : out[d].sent \in Nat /\ out'[d].sent \in Nat
      <3>1. \A d \in AllChannels : out[d] \in Outgoing /\ out'[d] \in Outgoing
        BY <1>5 DEF IInv, TypeOK
      <3> QED
        BY <3>1 DEF Outgoing
    <2>2. \A d \in AllChannels : out'[d].sent >= 1
      BY <1>4, <2>1 DEF IInv, OutOK
    <2>3. OutOK'
      BY <1>1, <1>4, <2>2 DEF IInv, OutOK
    <2>4. SyncOK'
      BY <1>1, <1>4 DEF IInv, SyncOK, AllChannels
    <2> QED
      BY <2>3, <2>4
  <1>7. \A d \in Channels, p \in ChannelPayload :
           payload_stack[d] = p => GoodPayload(p, d)'
    <2> SUFFICES ASSUME NEW d \in Channels, NEW p \in ChannelPayload, payload_stack[d] = p
                 PROVE  GoodPayload(p, d)'
      OBVIOUS
    <2>1. GoodPayload(p, d)
      BY NoneAssumption DEF IInv, PayloadOK
    <2>2. out'[d].id = out[d].id
      BY <1>4 DEF AllChannels
    <2> QED
      BY <1>1, <2>1, <2>2 DEF GoodPayload
  <1>8. PacketLost \/ ContinuationPacket(c, k - 1, data)
    BY DEF ClientContinue
  <1> HIDE DEF data, whole, k
  <1>9. ASSUME payload_stack' \in {payload_stack, Live}
        PROVE  TypeOK' /\ PayloadOK'
    <2>1. TypeOK'
      <3>1. now' \in Nat /\ now <= now'
        BY <1>1
      <3>2. /\ payload_stack' \in [AllChannels -> ChannelPayload \cup {None}]
            /\ \A d \in AllChannels : payload_stack'[d] # None =>
                  /\ payload_stack'[d].started_at <= now'
                  /\ Len(payload_stack'[d].data) < payload_stack'[d].total_len
        BY <1>9, <3>1, EvictedType DEF IInv
      <3> QED
        BY <1>1, <1>5, <3>1, <3>2 DEF IInv, TypeOK
    <2>2. \A d \in Channels : payload_stack'[d] # None =>
             payload_stack'[d] = payload_stack[d] /\ payload_stack[d] \in ChannelPayload
      BY <1>9, LiveProperties DEF IInv, TypeOK, AllChannels
    <2> QED
      BY <1>7, <2>1, <2>2 DEF PayloadOK, GoodPayload
  <1>10. CASE event' = None /\ payload_stack' \in {payload_stack, Live}
    BY <1>6, <1>9, <1>10 DEF IInv, EventOK, DeliveredOK, Delivered
  <1>11. Live \in [AllChannels -> ChannelPayload \cup {None}]
    BY LiveProperties DEF IInv
  (* The payload of c is removed: completed, or out of sequence.           *)
  <1>12. ASSUME payload_stack' = [Live EXCEPT ![c] = None]
         PROVE  TypeOK' /\ PayloadOK'
    <2>1. \A d \in AllChannels : payload_stack'[d] # None =>
             payload_stack'[d] = payload_stack[d] /\ payload_stack[d] \in ChannelPayload
      BY <1>11, <1>12, LiveProperties DEF IInv
    <2>2. payload_stack' \in [AllChannels -> ChannelPayload \cup {None}]
      BY <1>11, <1>12
    <2>3. TypeOK'
      BY <1>1, <1>5, <2>1, <2>2 DEF IInv, TypeOK
    <2>4. PayloadOK'
      BY <1>7, <2>1 DEF PayloadOK, GoodPayload, AllChannels
    <2> QED
      BY <2>3, <2>4
  <1>13. CASE WrongSequence(c, k - 1)
    <2>1. event' = None /\ payload_stack' = [Live EXCEPT ![c] = None]
      BY <1>13 DEF WrongSequence
    <2> QED
      BY <1>6, <1>12, <2>1 DEF IInv, EventOK, DeliveredOK, Delivered
  <1>14. CASE NextPacket(c, k - 1, data)
    <2> DEFINE n == payload.next_expected_sequence
    <2>1. /\ Live[c] # None /\ Live[c] = payload
          /\ now - payload.started_at < Timeout
          /\ k - 1 = n
      BY <1>1, <1>14, LiveProperties DEF NextPacket, IInv
    <2>2. /\ payload \in ChannelPayload
          /\ Len(payload.data) < payload.total_len
          /\ GoodPayload(payload, c)
      BY <1>1, <2>1 DEF IInv, TypeOK, PayloadOK
    <2>3. /\ payload.data \in Seq(Byte) /\ payload.total_len \in Nat
          /\ payload.started_at \in Nat /\ n \in Nat
          /\ Len(payload.data) \in Nat
      BY <2>2, LenProperties DEF ChannelPayload
    <2> HIDE DEF n
    <2>4. Len(payload.data) = Offset(k)
      <3>1. n + 1 = k
        BY <1>0, <2>1, <2>3
      <3> QED
        BY <2>2, <3>1 DEF GoodPayload, n
    <2>5. /\ whole \in Seq(Byte)
          /\ Len(whole) = Len(payload.data)
                            + Least(ContData, payload.total_len - Len(payload.data))
          /\ \A i \in 1..Len(whole) :
                whole[i] = IF i <= Len(payload.data) THEN payload.data[i]
                                                     ELSE data[i - Len(payload.data)]
      <3> DEFINE taken == Taken(payload, data)
      <3>1. /\ whole \in Seq(Byte)
            /\ Len(taken) = Least(Len(data), payload.total_len - Len(payload.data))
            /\ Len(whole) = Len(payload.data) + Len(taken)
            /\ \A i \in 1..Len(whole) :
                  whole[i] = IF i <= Len(payload.data) THEN payload.data[i]
                                                       ELSE data[i - Len(payload.data)]
        <4> HIDE DEF payload
        <4> QED
          BY <1>3, <2>2, WholeProperties DEF whole
      <3> HIDE DEF taken, payload
      <3> QED
        BY <1>3, <3>1
    <2>6. Placed(whole, payload.started_at, synced[c], messages, born)
      <3> SUFFICES ASSUME NEW i \in 1..Len(whole), whole[i] # Pad
                   PROVE  /\ whole[i][2] = i - 1
                          /\ whole[i][1] \in (synced[c] + 1)..messages
                          /\ born[whole[i][1]] >= payload.started_at
        BY DEF Placed
      <3>1. CASE i <= Len(payload.data)
        <4>1. i \in 1..Len(payload.data) /\ whole[i] = payload.data[i]
          BY <2>3, <2>5, <3>1
        <4>2. Placed(payload.data, payload.started_at, synced[c], messages, born)
          BY <2>2 DEF GoodPayload
        <4> QED
          BY <4>1, <4>2 DEF Placed
      <3>2. CASE i > Len(payload.data)
        <4> DEFINE j == i - Len(payload.data)
        <4>1. whole[i] = data[j] /\ j \in 1..ContData
          <5>1. i \in Nat /\ Len(whole) \in Nat /\ i <= Len(whole)
            BY <2>5, LenProperties
          <5>2. Least(ContData, payload.total_len - Len(payload.data)) <= ContData
            BY <2>3 DEF Least
          <5>3. j \in 1..ContData
            <6> DEFINE l == Len(payload.data)
                       q == Least(ContData, payload.total_len - Len(payload.data))
            <6>1. l \in Nat /\ q \in Int /\ Len(whole) = l + q
              BY <2>3, <2>5 DEF Least
            <6> HIDE DEF l, q
            <6>2. i - l \in 1..ContData
              BY <3>2, <5>1, <5>2, <6>1 DEF l, q
            <6> QED
              BY <6>2 DEF l
          <5> QED
            BY <2>3, <2>5, <3>2, <5>1, <5>3
        <4>2. data[j] = <<m.id, Offset(k) + j - 1>>
          BY <1>3, <4>1
        <4>3. Offset(k) + j - 1 = i - 1
          BY <1>3, <2>3, <2>4
        <4>4. whole[i] = <<m.id, i - 1>>
          BY <4>1, <4>2, <4>3
        <4>5. born[m.id] >= payload.started_at
          BY <2>2 DEF GoodPayload
        <4>6. synced[c] \in Nat
          BY DEF IInv, TypeOK
        <4>7. whole[i][2] = i - 1 /\ whole[i][1] = m.id
          BY <4>4
        <4>8. m.id \in (synced[c] + 1)..messages
          <5> DEFINE a == m.id
                     b == synced[c]
          <5>1. a \in Nat /\ b \in Nat /\ messages \in Nat /\ b < a /\ a <= messages
            BY <1>1, <1>2, <4>6
          <5> HIDE DEF a, b
          <5>2. a \in (b + 1)..messages
            BY <5>1
          <5> QED
            BY <5>2 DEF a, b
        <4>9. born[whole[i][1]] = born[m.id]
          BY <4>7
        <4> HIDE DEF whole, payload
        <4> QED
          BY <4>5, <4>7, <4>8, <4>9
      <3> QED
        BY <2>3, <2>5, <3>1, <3>2, LenProperties
    <2>7. CASE Complete(payload, whole)
      <3>1. /\ payload_stack' = [Live EXCEPT ![c] = None]
            /\ event' = [channel |-> c, command |-> payload.command, data |-> whole]
        BY <1>14, <2>1, <2>7 DEF NextPacket, whole
      <3>2. payload.command = "Cbor"
        BY <2>2 DEF ChannelPayload
      <3>3. EventOK'
        BY <1>1, <2>5, <3>1, <3>2 DEF EventOK
      <3>4. now - Timeout + 1 \in Int /\ now - Timeout + 1 <= payload.started_at
        <4> HIDE DEF payload
        <4> QED
          BY <1>0, <2>1, <2>3
      <3>5. Placed(whole, now - Timeout + 1, synced[c], messages, born)
        <4>1. \A i \in (synced[c] + 1)..messages : i \in 1..MaxMessages /\ born[i] \in Nat
          BY <1>1 DEF IInv, OutOK, TypeOK
        <4> QED
          BY <2>3, <2>6, <3>4, <4>1 DEF Placed
      <3>6. DeliveredOK'
        BY <1>1, <3>1, <3>5 DEF DeliveredOK
      <3> QED
        BY <1>6, <1>12, <3>1, <3>3, <3>6 DEF IInv
    <2>8. CASE ~Complete(payload, whole)
      <3> DEFINE new == [payload EXCEPT !.data = whole, !.next_expected_sequence = n + 1]
      <3>1. event' = None /\ payload_stack' = [Live EXCEPT ![c] = new]
        BY <1>11, <1>14, <2>1, <2>8 DEF NextPacket, whole
      <3>2. /\ new.data = whole /\ new.total_len = payload.total_len
            /\ new.started_at = payload.started_at /\ new.next_expected_sequence = n + 1
        BY <2>2 DEF ChannelPayload
      <3>3. n + 1 \in 0..(MaxSequence + 1)
        BY <1>0, <2>1, <2>3, <2>4
      <3>4. new \in ChannelPayload
        BY <2>2, <2>5, <3>3 DEF ChannelPayload
      <3> HIDE DEF new
      <3>5. Len(whole) < payload.total_len /\ Len(whole) = Offset(k + 1)
        <4>1. Len(whole) < payload.total_len
          BY <2>3, <2>5, <2>8, LenProperties DEF Complete
        <4> QED
          BY <1>3, <2>3, <2>4, <2>5, <4>1 DEF Least
      <3>6. \A d \in AllChannels : payload_stack'[d] # None =>
               \/ d = c /\ payload_stack'[d] = new
               \/ d # c /\ payload_stack'[d] = payload_stack[d] /\ payload_stack[d] # None
        BY <1>11, <3>1, LiveProperties DEF IInv
      <3>7. TypeOK'
        <4>1. payload_stack' \in [AllChannels -> ChannelPayload \cup {None}]
          BY <1>11, <3>1, <3>4
        <4>2. \A d \in AllChannels : payload_stack'[d] # None =>
                 /\ payload_stack'[d].started_at <= now
                 /\ Len(payload_stack'[d].data) < payload_stack'[d].total_len
          BY <1>1, <2>1, <3>2, <3>5, <3>6 DEF IInv, TypeOK
        <4> QED
          BY <1>1, <1>5, <4>1, <4>2 DEF IInv, TypeOK
      <3>8. \A p \in ChannelPayload : p = new => GoodPayload(p, c)'
        <4>1. born[out[c].id] >= payload.started_at
          BY <2>2 DEF GoodPayload
        <4>2. n + 1 + 1 = k + 1
          BY <1>0, <2>1, <2>3
        <4> QED
          BY <1>1, <1>2, <1>4, <2>6, <3>2, <3>5, <4>1, <4>2 DEF GoodPayload
      <3>9. PayloadOK'
        <4> SUFFICES ASSUME NEW d \in Channels, NEW p, p = payload_stack'[d], p # None
                     PROVE  GoodPayload(p, d)'
          BY DEF PayloadOK, GoodPayload
        <4>1. CASE d = c
          BY <1>1, <3>4, <3>6, <3>8, <4>1
        <4>2. CASE d # c
          BY <1>7, <3>6, <4>2 DEF IInv, TypeOK, AllChannels
        <4> QED
          BY <4>1, <4>2
      <3> QED
        BY <1>6, <3>1, <3>7, <3>9 DEF IInv, EventOK, DeliveredOK, Delivered
    <2> QED
      BY <2>7, <2>8
  <1>15. CASE StrayContinuation(c) \/ PacketLost
    BY <1>10, <1>15 DEF StrayContinuation, PacketLost
  <1> QED
    BY <1>8, <1>13, <1>14, <1>15 DEF ContinuationPacket

LEMMA NextIInv == IInv /\ [Next]_vars => IInv'
  <1> SUFFICES ASSUME IInv, [Next]_vars PROVE IInv'
    OBVIOUS
  <1>1. CASE UnparsableReport \/ HandleTruncatedInit \/ HandleCbor \/ Tick
    BY <1>1, QuietIInv
  <1>2. CASE HandleInit
    BY <1>2, HandleInitIInv
  <1>3. ASSUME NEW c \in Channels, NEW len \in Lengths, ClientStart(c, "Cbor", len)
        PROVE  IInv'
    BY <1>3, StartIInv, CtapHidAssumption DEF CtapHidAssumption, AllChannels
  <1>4. ASSUME NEW c \in AllChannels, NEW command \in {"Init", "TruncatedInit"},
               ClientStart(c, command, 0)
        PROVE  IInv'
    BY <1>4, StartIInv
  <1>5. ASSUME NEW c \in Channels, ClientContinue(c) PROVE IInv'
    BY <1>5, ContinueIInv
  <1>6. CASE UNCHANGED vars
    <2>1. UNCHANGED <<now, payload_stack, event, out, messages, born, synced>>
      BY <1>6 DEF vars
    <2> QED
      BY <2>1 DEF IInv, TypeOK, OutOK, SyncOK, EventOK, PayloadOK, GoodPayload,
                  DeliveredOK, Delivered
  <1> QED
    BY <1>1, <1>2, <1>3, <1>4, <1>5, <1>6 DEF Next

LEMMA Invariant == Spec => []IInv
  BY InitIInv, NextIInv, PTL DEF Spec

-----------------------------------------------------------------------------
(* The theorems, with or without loss.                                     *)

(* The stored payloads are well-typed and incomplete, and no sequence      *)
(* number leaves its range (ctaphid.rs:12-18, 135-143).                    *)
THEOREM CtapHidTypeCorrect == Spec => []TypeOK
  BY Invariant, PTL DEF IInv

(* Every byte of a reassembled message lies at the offset its client gave  *)
(* it (ctaphid.rs:125-140).                                                *)
THEOREM CtapHidOffsetsKept == Spec => []OffsetsKept
  <1>1. IInv => OffsetsKept
    <2> SUFFICES ASSUME IInv, Delivered, NEW i \in DOMAIN event.data, event.data[i] # Pad
                 PROVE  event.data[i][2] = i - 1
      BY DEF OffsetsKept
    <2>1. i \in 1..Len(event.data)
      BY LenProperties DEF IInv, EventOK, Delivered
    <2> QED
      BY <2>1 DEF IInv, DeliveredOK, Placed
  <1> QED
    BY <1>1, Invariant, PTL

(* No byte of a reassembled message is Timeout old (ctaphid.rs:76-78).     *)
THEOREM CtapHidFresh == Spec => []Fresh
  <1>1. IInv => Fresh
    <2> SUFFICES ASSUME IInv, Delivered, NEW i \in DOMAIN event.data, event.data[i] # Pad
                 PROVE  now - born[event.data[i][1]] < Timeout
      BY DEF Fresh
    <2>1. i \in 1..Len(event.data)
      BY LenProperties DEF IInv, EventOK, Delivered
    <2>2. /\ born[event.data[i][1]] >= now - Timeout + 1
          /\ event.data[i][1] \in (synced[event.channel] + 1)..messages
      BY <2>1 DEF IInv, DeliveredOK, Placed
    <2>3. /\ synced[event.channel] \in Nat /\ now \in Nat /\ messages \in Nat
          /\ messages <= MaxMessages
      BY DEF IInv, EventOK, TypeOK, Delivered, OutOK
    <2>4. born[event.data[i][1]] \in Nat
      <3>1. MaxMessages \in Nat /\ born \in [1..MaxMessages -> Nat]
        BY CtapHidAssumption DEF IInv, OutOK, CtapHidAssumption
      <3>2. event.data[i][1] \in 1..MaxMessages
        BY <2>2, <2>3, <3>1
      <3> QED
        BY <3>1, <3>2
    <2>5. Timeout \in Nat
      BY CtapHidAssumption DEF CtapHidAssumption
    <2> DEFINE b == born[event.data[i][1]]
    <2>6. b \in Nat /\ b >= now - Timeout + 1 /\ now \in Nat
      BY <2>2, <2>3, <2>4
    <2> HIDE DEF b
    <2>7. now - b < Timeout
      BY <2>5, <2>6
    <2> QED
      BY <2>7 DEF b
  <1> QED
    BY <1>1, Invariant, PTL

(* No byte of a reassembled message is from before the last INIT of its    *)
(* channel (ctaphid.rs:198-199).                                           *)
THEOREM CtapHidSyncForgets == Spec => []SyncForgets
  <1>1. IInv => SyncForgets
    <2> SUFFICES ASSUME IInv, Delivered, NEW i \in DOMAIN event.data, event.data[i] # Pad
                 PROVE  event.data[i][1] > synced[event.channel]
      BY DEF SyncForgets
    <2>1. i \in 1..Len(event.data)
      BY LenProperties DEF IInv, EventOK, Delivered
    <2>2. event.data[i][1] \in (synced[event.channel] + 1)..messages
      BY <2>1 DEF IInv, DeliveredOK, Placed
    <2>3. synced[event.channel] \in Nat /\ messages \in Nat
      BY DEF IInv, EventOK, TypeOK, Delivered
    <2> QED
      BY <2>2, <2>3
  <1> QED
    BY <1>1, Invariant, PTL
=============================================================================
