------------------------- MODULE TransactionProofs --------------------------
(***************************************************************************)
(* Proofs about Transaction for every value of its constants: any number of*)
(* clients and of requests, and an inbox of any length.                    *)
(***************************************************************************)
EXTENDS Transaction, SequenceTheorems, TLAPS

-----------------------------------------------------------------------------
(* The invariant.                                                          *)

Loop == pc \in {"finished?", "cancelled?", "read"}

(* What client c hears of request s is for it, or is discarded.            *)
Awaits(c, s) == client[c] = "syncing" \/ (client[c] = "waiting" /\ asked[c] = s)

(* Requests are read in the order of their serials, and there are at least *)
(* as many of them as transactions.                                        *)
SerialsOK ==
    /\ tx <= serial
    /\ \A i \in 1..Len(inbox) :
          inbox[i].command = "Cbor" =>
            /\ tx < inbox[i].serial /\ inbox[i].serial <= serial
            /\ \A j \in 1..Len(inbox) :
                  i < j /\ inbox[j].command = "Cbor" => inbox[i].serial < inbox[j].serial

(* A client sends nothing behind its INIT until that is answered, and no   *)
(* request behind its CANCEL.                                              *)
InboxOK ==
    \A i \in 1..Len(inbox) :
        LET c == inbox[i].channel IN
        /\ inbox[i].command = "Cbor" => Awaits(c, inbox[i].serial)
        /\ inbox[i].command = "Cancel" => hasty[c] \/ client[c] = "syncing"
        /\ inbox[i].command = "Init" => client[c] = "syncing"
        /\ \A j \in 1..Len(inbox) :
              i < j /\ inbox[j].channel = c =>
                /\ inbox[i].command # "Init"
                /\ inbox[i].command = "Cancel" => inbox[j].command # "Cbor"

ServingOK ==
    Loop =>
        /\ channel \in Channels
        /\ Awaits(channel, serving)
        /\ serving <= serial
        /\ \A i \in 1..Len(inbox) :
              inbox[i].command = "Cbor" => serving < inbox[i].serial

(* The transactions to come, the running one, and those that are over.     *)
OutcomeOK ==
    \A t \in Tx :
        /\ t > tx => outcome[t] = None /\ task[t] = "none"
        /\ t = tx /\ Loop => outcome[t] = None
        /\ cancelled[t] => outcome[t] # None
        /\ task[t] \in {"none", "starting"} => modal[t] = "none"

IInv ==
    /\ TypeOK
    /\ SerialsOK
    /\ InboxOK
    /\ ServingOK
    /\ OutcomeOK
    /\ OnlyUserCancels

-----------------------------------------------------------------------------
(* What a step leaves of the inbox, and what a client adds to it.          *)

LEMMA Remaining ==
    ASSUME inbox \in Seq(Message),
           inbox' = inbox \/ (inbox # <<>> /\ inbox' = Tail(inbox))
    PROVE  /\ inbox' \in Seq(Message)
           /\ Len(inbox') <= Len(inbox)
           /\ \E d \in {0, 1} :
                 /\ inbox # <<>> /\ inbox' = Tail(inbox) => d = 1
                 /\ \A i \in 1..Len(inbox') :
                       i + d \in 1..Len(inbox) /\ inbox'[i] = inbox[i + d]
  <1>1. CASE inbox' = inbox /\ ~(inbox # <<>> /\ inbox' = Tail(inbox))
    BY <1>1
  <1>2. CASE inbox # <<>> /\ inbox' = Tail(inbox)
    <2>1. /\ inbox' \in Seq(Message) /\ Len(inbox') = Len(inbox) - 1
          /\ \A i \in 1..Len(inbox') : inbox'[i] = inbox[i + 1]
      BY <1>2, HeadTailProperties
    <2>2. Len(inbox) \in Nat
      OBVIOUS
    <2> QED
      BY <2>1, <2>2
  <1> QED
    BY <1>1, <1>2

LEMMA FirstMessage ==
    ASSUME inbox \in Seq(Message), inbox # <<>>
    PROVE  /\ 1 \in 1..Len(inbox) /\ Head(inbox) = inbox[1] /\ Head(inbox) \in Message
           /\ \A i \in 1..Len(inbox) : inbox[i] \in Message
  <1>1. Len(inbox) \in Nat /\ Len(inbox) # 0
    BY EmptySeq
  <1>2. \A i \in 1..Len(inbox) : inbox[i] \in Message
    BY ElementOfSeq
  <1> QED
    BY <1>1, <1>2

LEMMA Added ==
    ASSUME inbox \in Seq(Message), NEW m \in Message, inbox' = Append(inbox, m)
    PROVE  /\ inbox' \in Seq(Message) /\ Len(inbox') = Len(inbox) + 1
           /\ inbox'[Len(inbox')] = m
           /\ \A i \in 1..Len(inbox) : inbox'[i] = inbox[i]
  BY AppendProperties

-----------------------------------------------------------------------------
(* Initially.                                                              *)

LEMMA InitIInv == Init => IInv
  <1> SUFFICES ASSUME Init PROVE IInv
    OBVIOUS
  <1> USE TransactionAssumption DEF TransactionAssumption
  <1>1. inbox = <<>> /\ Len(inbox) = 0 /\ inbox \in Seq(Message)
    BY DEF Init
  <1>2. TypeOK
    <2>1. 0 \in 0..MaxRequests /\ Len(inbox) <= MaxInbox
      BY <1>1
    <2>2. outcome \in [Tx -> Outcomes \cup {None}] /\ result \in [Tx -> {"ok", "err", None}]
      BY DEF Init
    <2>3. /\ task \in [Tx -> {"none", "starting", "spawned", "piped", "waiting",
                              "returning", "finished"}]
          /\ aborted \in [Tx -> BOOLEAN]
          /\ child \in [Tx -> BOOLEAN] /\ stdin \in [Tx -> BOOLEAN]
          /\ cancelled \in [Tx -> BOOLEAN]
          /\ modal \in [Tx -> {"none", "running", "success", "cancel", "crashed", "killed"}]
      BY DEF Init
    <2>4. /\ client \in [Channels -> {"idle", "waiting", "syncing"}]
          /\ asked \in [Channels -> 0..MaxRequests]
          /\ hasty \in [Channels -> BOOLEAN]
      BY <2>1 DEF Init
    <2> QED
      BY <1>1, <2>1, <2>2, <2>3, <2>4 DEF Init, TypeOK
  <1>3. SerialsOK /\ InboxOK /\ ServingOK
    BY <1>1 DEF Init, SerialsOK, InboxOK, ServingOK, Loop
  <1>4. OutcomeOK /\ OnlyUserCancels
    BY DEF Init, OutcomeOK, OnlyUserCancels, Loop, Outcomes
  <1> QED
    BY <1>2, <1>3, <1>4 DEF IInv

-----------------------------------------------------------------------------
(* Types.                                                                  *)

(* What is written to a client.                                            *)
LEMMA WrittenType ==
    ASSUME TypeOK, NEW c \in Channels, NEW kind \in {"KeepAlive", "Cbor", "Init", "Error"},
           NEW s \in 0..MaxRequests, Write(c, kind, s)
    PROVE  /\ packet' \in Packet \cup {None}
           /\ client' \in [Channels -> {"idle", "waiting", "syncing"}]
  BY DEF TypeOK, Write, Receives, Packet

LEMMA ConsumedType ==
    ASSUME TypeOK, inbox # <<>>, Consume
    PROVE  /\ inbox' \in Seq(Message) /\ Len(inbox') <= MaxInbox
           /\ Head(inbox).channel \in Channels /\ Head(inbox).serial \in 0..MaxRequests
           /\ asked' = asked /\ hasty' = hasty /\ serial' = serial
  <1>1. inbox' \in Seq(Message) /\ Len(inbox') <= Len(inbox)
    BY Remaining DEF TypeOK, Consume
  <1>2. Head(inbox) \in Message
    BY FirstMessage DEF TypeOK
  <1>3. Len(inbox) \in Nat /\ Len(inbox') \in Nat /\ MaxInbox \in Nat
    BY <1>1, TransactionAssumption DEF TypeOK, TransactionAssumption
  <1> QED
    BY <1>1, <1>2, <1>3 DEF Message, TypeOK, Consume

LEMMA SentType ==
    ASSUME TypeOK, NEW c \in Channels, NEW command \in Commands, NEW s \in 0..MaxRequests,
           Send(c, command, s)
    PROVE  inbox' \in Seq(Message) /\ Len(inbox') <= MaxInbox
  <1> DEFINE m == [channel |-> c, command |-> command, serial |-> s]
  <1>1. m \in Message
    BY DEF Message
  <1>2. inbox' \in Seq(Message) /\ Len(inbox') = Len(inbox) + 1
    BY <1>1, Added DEF TypeOK, Send
  <1>3. Len(inbox) \in Nat /\ MaxInbox \in Nat
    BY TransactionAssumption DEF TypeOK, TransactionAssumption
  <1> QED
    BY <1>2, <1>3 DEF Send

LEMMA NextTypeOK == TypeOK /\ SerialsOK /\ ServingOK /\ [Next]_vars => TypeOK'
  <1> SUFFICES ASSUME TypeOK, SerialsOK, ServingOK, [Next]_vars PROVE TypeOK'
    OBVIOUS
  <1> USE DEF TypeOK, mainVars, taskVars, uiVars, clientVars
  <1>1. CASE AnswerLocally
    <2>1. inbox # <<>> /\ Consume
      BY <1>1 DEF AnswerLocally, Reads
    <2> QED
      BY <1>1, <2>1, ConsumedType, WrittenType DEF AnswerLocally
  <1>2. CASE StartTransaction
    <2>1. inbox # <<>> /\ Consume /\ Head(inbox).command = "Cbor"
      BY <1>2 DEF StartTransaction, Reads
    <2>2. tx + 1 \in Tx
      <3>1. 1 \in 1..Len(inbox) /\ Head(inbox) = inbox[1]
        BY <2>1, FirstMessage
      <3>2. tx < Head(inbox).serial
        BY <2>1, <3>1 DEF SerialsOK
      <3>3. Head(inbox).serial \in 0..MaxRequests /\ MaxRequests \in Nat
        BY <2>1, ConsumedType, TransactionAssumption DEF TransactionAssumption
      <3> QED
        BY <3>2, <3>3 DEF Tx
    <2>3. /\ inbox' \in Seq(Message) /\ Len(inbox') <= MaxInbox
          /\ channel' \in Channels /\ serving' \in 0..MaxRequests
          /\ UNCHANGED <<asked, hasty, serial>>
      BY <1>2, <2>1, ConsumedType DEF StartTransaction
    <2>4. tx' \in Tx /\ tx' \in 0..MaxRequests
      BY <1>2, <2>2, TransactionAssumption DEF StartTransaction, Tx, TransactionAssumption
    <2> QED
      BY <1>2, <2>3, <2>4 DEF StartTransaction, WriteNothing
  <1>3. CASE IdleInit \/ IdleCancel
    <2>1. inbox # <<>> /\ Consume
      BY <1>3 DEF IdleInit, IdleCancel, Reads
    <2>2. 0 \in 0..MaxRequests
      BY TransactionAssumption DEF TransactionAssumption
    <2> QED
      BY <1>3, <2>1, <2>2, ConsumedType, WrittenType DEF IdleInit, IdleCancel
  <1>4. CASE NotFinished
    BY <1>4 DEF NotFinished, WriteNothing
  <1>5. CASE TaskFinished
    <2> USE DEF TaskFinished
    <2>1. channel \in Channels
      BY <1>5 DEF ServingOK, Loop
    <2>2. CASE EndSuccess
      BY <1>5, <2>1, <2>2, WrittenType DEF EndSuccess, notify_done, Outcomes
    <2>3. CASE EndOtherwise("Failed") /\ Write(channel, "Cbor", serving)
      BY <1>5, <2>1, <2>3, WrittenType
      DEF EndOtherwise, close, KillChild, Killed, Outcomes
    <2> QED
      BY <1>5, <2>2, <2>3
  <1>6. CASE UserCancelled
    <2>1. channel \in Channels
      BY <1>6 DEF ServingOK, Loop, UserCancelled
    <2> QED
      BY <1>6, <2>1, WrittenType
      DEF UserCancelled, EndOtherwise, close, KillChild, Killed, Outcomes, Abort
  <1>7. CASE NotCancelled
    <2>1. channel \in Channels
      BY <1>7 DEF ServingOK, Loop, NotCancelled
    <2>2. /\ packet' \in Packet \cup {None}
          /\ client' \in [Channels -> {"idle", "waiting", "syncing"}]
      BY <1>7, <2>1, WrittenType DEF NotCancelled, WriteNothing
    <2>3. child' \in [Tx -> BOOLEAN]
      BY <1>7 DEF NotCancelled, ForgetCrashed
    <2> QED
      BY <1>7, <2>2, <2>3 DEF NotCancelled
  <1>8. CASE NothingToRead
    BY <1>8 DEF NothingToRead, NextRound, WriteNothing
  <1>9. CASE HostCancel
    <2>1. inbox # <<>> /\ Consume /\ channel \in Channels
      BY <1>9 DEF ServingOK, Loop, HostCancel, Reads
    <2>2. /\ packet' \in Packet \cup {None}
          /\ client' \in [Channels -> {"idle", "waiting", "syncing"}]
      BY <1>9, <2>1, WrittenType DEF HostCancel
    <2> QED
      BY <1>9, <2>1, <2>2, ConsumedType
      DEF HostCancel, EndOtherwise, close, KillChild, Killed, Outcomes, Abort
  <1>10. CASE HostReset
    <2>1. inbox # <<>> /\ Consume /\ channel \in Channels /\ 0 \in 0..MaxRequests
      BY <1>10, TransactionAssumption
      DEF ServingOK, Loop, HostReset, Reads, TransactionAssumption
    <2>2. /\ packet' \in Packet \cup {None}
          /\ client' \in [Channels -> {"idle", "waiting", "syncing"}]
      BY <1>10, <2>1, WrittenType DEF HostReset
    <2> QED
      BY <1>10, <2>1, <2>2, ConsumedType
      DEF HostReset, EndOtherwise, close, KillChild, Killed, Outcomes, Abort
  <1>11. CASE OtherInit
    <2>1. inbox # <<>> /\ Consume /\ 0 \in 0..MaxRequests
      BY <1>11, TransactionAssumption DEF OtherInit, Reads, TransactionAssumption
    <2> QED
      BY <1>11, <2>1, ConsumedType, WrittenType DEF OtherInit, NextRound
  <1>12. CASE Ignored
    <2>1. inbox # <<>> /\ Consume
      BY <1>12 DEF Ignored, Reads
    <2> QED
      BY <1>12, <2>1, ConsumedType DEF Ignored, NextRound, WriteNothing
  <1>13. CASE Shown \/ CooldownEnds
    BY <1>13 DEF Shown, CooldownEnds
  <1>14. CASE Leave
    BY <1>14, TransactionAssumption
    DEF Leave, Drop, KillChild, Killed, TransactionAssumption
  <1>15. ASSUME NEW t \in Tx, Task(t) PROVE TypeOK'
    <2> USE DEF TaskUnchanged
    <2>1. CASE SpawnModal(t)
      BY <2>1 DEF SpawnModal
    <2>2. CASE StorePipe(t) \/ StoreChild(t)
      BY <2>2 DEF StorePipe, StoreChild
    <2>3. CASE Finish(t)
      BY <2>3 DEF Finish, Drop, KillChild, Killed
    <2> QED
      BY <1>15, <2>1, <2>2, <2>3 DEF Task
  <1>16. ASSUME NEW t \in Tx, NEW r \in {"ok", "err"}, Return(t, r) PROVE TypeOK'
    BY <1>16 DEF Return, TaskUnchanged
  <1>17. ASSUME NEW t \in Tx, NEW how \in {"cancel", "crashed"}, ModalExits(t, how)
         PROVE TypeOK'
    BY <1>17 DEF ModalExits
  <1>18. ASSUME NEW c \in Channels, SendCbor(c) PROVE TypeOK'
    <2>1. serial + 1 \in 0..MaxRequests
      BY <1>18, TransactionAssumption DEF SendCbor, TransactionAssumption
    <2> QED
      BY <1>18, <2>1, SentType DEF SendCbor, Send, Commands
  <1>19. ASSUME NEW c \in Channels, SendCancel(c) \/ SendInit(c) PROVE TypeOK'
    <2>1. 0 \in 0..MaxRequests
      BY TransactionAssumption DEF TransactionAssumption
    <2> QED
      BY <1>19, <2>1, SentType DEF SendCancel, SendInit, Send, Commands
  <1>20. CASE UNCHANGED vars
    BY <1>20 DEF vars
  <1> QED
    BY <1>1, <1>2, <1>3, <1>4, <1>5, <1>6, <1>7, <1>8, <1>9, <1>10, <1>11, <1>12, <1>13,
       <1>14, <1>15, <1>16, <1>17, <1>18, <1>19, <1>20 DEF Next, Main

-----------------------------------------------------------------------------
(* Messages and clients.                                                   *)

LEMMA RemainingSerials ==
    ASSUME TypeOK, SerialsOK, inbox' = inbox \/ (inbox # <<>> /\ inbox' = Tail(inbox)),
           tx' = tx, serial' = serial
    PROVE  SerialsOK'
  <1>1. PICK d \in {0, 1} :
            \A i \in 1..Len(inbox') : i + d \in 1..Len(inbox) /\ inbox'[i] = inbox[i + d]
    BY Remaining DEF TypeOK
  <1>2. Len(inbox') \in Nat /\ Len(inbox) \in Nat
    BY Remaining, LenProperties DEF TypeOK
  <1>3. ASSUME NEW i \in 1..Len(inbox'), inbox'[i].command = "Cbor"
        PROVE  /\ tx < inbox'[i].serial /\ inbox'[i].serial <= serial
               /\ \A j \in 1..Len(inbox') :
                     i < j /\ inbox'[j].command = "Cbor" =>
                        inbox'[i].serial < inbox'[j].serial
    <2>1. i + d \in 1..Len(inbox) /\ inbox'[i] = inbox[i + d]
      BY <1>1
    <2>2. ASSUME NEW j \in 1..Len(inbox'), i < j, inbox'[j].command = "Cbor"
          PROVE  inbox'[i].serial < inbox'[j].serial
      <3>1. j + d \in 1..Len(inbox) /\ inbox'[j] = inbox[j + d] /\ i + d < j + d
        BY <1>1, <2>2
      <3> QED
        BY <1>3, <2>1, <2>2, <3>1 DEF SerialsOK
    <2> QED
      BY <1>3, <2>1, <2>2 DEF SerialsOK
  <1> QED
    BY <1>3 DEF SerialsOK

(* What remains in the inbox fits its clients, unless one of them has been *)
(* answered whose request is still there.                                  *)
LEMMA RemainingInbox ==
    ASSUME TypeOK, InboxOK, inbox' = inbox \/ (inbox # <<>> /\ inbox' = Tail(inbox)),
           UNCHANGED <<asked, hasty>>,
           \A i \in 1..Len(inbox') :
              LET c == inbox'[i].channel IN
              client'[c] = client[c] \/ (client[c] = "waiting" /\ inbox'[i].command # "Cbor")
    PROVE  InboxOK'
  <1>1. PICK d \in {0, 1} :
            \A i \in 1..Len(inbox') : i + d \in 1..Len(inbox) /\ inbox'[i] = inbox[i + d]
    BY Remaining DEF TypeOK
  <1>2. Len(inbox') \in Nat /\ Len(inbox) \in Nat
    BY Remaining, LenProperties DEF TypeOK
  <1> SUFFICES ASSUME NEW i \in 1..Len(inbox')
               PROVE  LET c == inbox'[i].channel IN
                      /\ inbox'[i].command = "Cbor" =>
                            \/ client'[c] = "syncing"
                            \/ client'[c] = "waiting" /\ asked[c] = inbox'[i].serial
                      /\ inbox'[i].command = "Cancel" => hasty[c] \/ client'[c] = "syncing"
                      /\ inbox'[i].command = "Init" => client'[c] = "syncing"
                      /\ \A j \in 1..Len(inbox') :
                            i < j /\ inbox'[j].channel = c =>
                               /\ inbox'[i].command # "Init"
                               /\ inbox'[i].command = "Cancel" => inbox'[j].command # "Cbor"
    BY DEF InboxOK, Awaits
  <1> DEFINE c == inbox'[i].channel
  <1>3. i + d \in 1..Len(inbox) /\ inbox'[i] = inbox[i + d]
    BY <1>1
  <1>4. /\ inbox'[i].command = "Cbor" => Awaits(c, inbox'[i].serial)
        /\ inbox'[i].command = "Cancel" => hasty[c] \/ client[c] = "syncing"
        /\ inbox'[i].command = "Init" => client[c] = "syncing"
    BY <1>3 DEF InboxOK
  <1>5. ASSUME NEW j \in 1..Len(inbox'), i < j, inbox'[j].channel = c
        PROVE  /\ inbox'[i].command # "Init"
               /\ inbox'[i].command = "Cancel" => inbox'[j].command # "Cbor"
    <2>1. j + d \in 1..Len(inbox) /\ inbox'[j] = inbox[j + d] /\ i + d < j + d
      BY <1>1, <1>2, <1>5
    <2> QED
      BY <1>3, <1>5, <2>1 DEF InboxOK
  <1>6. client'[c] = client[c] \/ (client[c] = "waiting" /\ inbox'[i].command # "Cbor")
    OBVIOUS
  <1> QED
    BY <1>4, <1>5, <1>6 DEF Awaits

LEMMA RepliedInbox ==
    ASSUME TypeOK, InboxOK, inbox' = inbox \/ (inbox # <<>> /\ inbox' = Tail(inbox)),
           NEW c \in Channels, NEW kind, Receives(c, kind), UNCHANGED <<asked, hasty>>,
           Ends(c, kind) =>
              \A i \in 1..Len(inbox') :
                 inbox'[i].channel = c => kind # "Init" /\ inbox'[i].command # "Cbor"
    PROVE  InboxOK'
  <1>1. \A i \in 1..Len(inbox') :
           LET e == inbox'[i].channel IN
           client'[e] = client[e] \/ (client[e] = "waiting" /\ inbox'[i].command # "Cbor")
    BY DEF Receives, Ends, TypeOK
  <1> QED
    BY <1>1, RemainingInbox

(* The requests that remain come after the one that is answered.           *)
LEMMA AnsweredInbox ==
    ASSUME TypeOK, InboxOK, inbox' = inbox \/ (inbox # <<>> /\ inbox' = Tail(inbox)),
           NEW c \in Channels, NEW s \in Nat, Awaits(c, s),
           Receives(c, "Cbor"), UNCHANGED <<asked, hasty>>,
           \A i \in 1..Len(inbox') : inbox'[i].command = "Cbor" => s < inbox'[i].serial
    PROVE  InboxOK'
  <1>1. PICK d \in {0, 1} :
            \A i \in 1..Len(inbox') : i + d \in 1..Len(inbox) /\ inbox'[i] = inbox[i + d]
    BY Remaining DEF TypeOK
  <1>2. ASSUME Ends(c, "Cbor"), NEW i \in 1..Len(inbox'), inbox'[i].channel = c,
               inbox'[i].command = "Cbor"
        PROVE  FALSE
    <2>1. client[c] = "waiting" /\ asked[c] = s
      BY <1>2 DEF Ends, Awaits
    <2>2. Awaits(c, inbox'[i].serial)
      BY <1>1, <1>2 DEF InboxOK
    <2>3. inbox'[i].serial = s
      BY <2>1, <2>2 DEF Awaits
    <2> QED
      BY <1>2, <2>3
  <1> QED
    BY <1>2, RepliedInbox

LEMMA RemainingServing ==
    ASSUME TypeOK, ServingOK, inbox' = inbox \/ (inbox # <<>> /\ inbox' = Tail(inbox)),
           Loop' => Loop, UNCHANGED <<channel, serving, serial>>,
           Loop' => Awaits(channel, serving)'
    PROVE  ServingOK'
  <1>1. PICK d \in {0, 1} :
            \A i \in 1..Len(inbox') : i + d \in 1..Len(inbox) /\ inbox'[i] = inbox[i + d]
    BY Remaining DEF TypeOK
  <1> QED
    BY <1>1 DEF ServingOK

LEMMA SentMessages ==
    ASSUME TypeOK, SerialsOK, InboxOK, ServingOK,
           NEW c \in Channels, SendCbor(c) \/ SendCancel(c) \/ SendInit(c)
    PROVE  SerialsOK' /\ InboxOK' /\ ServingOK'
  <1>1. PICK command \in Commands, s \in 0..MaxRequests : Send(c, command, s) /\
            \/ command = "Cbor" /\ s = serial + 1 /\ SendCbor(c)
            \/ command = "Cancel" /\ SendCancel(c)
            \/ command = "Init" /\ SendInit(c)
    <2>1. 0 \in 0..MaxRequests /\ (serial < MaxRequests => serial + 1 \in 0..MaxRequests)
      BY TransactionAssumption DEF TransactionAssumption, TypeOK
    <2> QED
      BY <2>1 DEF SendCbor, SendCancel, SendInit, Commands
  <1> DEFINE m == [channel |-> c, command |-> command, serial |-> s]
  <1>2. m \in Message
    BY DEF Message
  <1>3. /\ inbox' \in Seq(Message) /\ Len(inbox') = Len(inbox) + 1
        /\ inbox'[Len(inbox')] = m
        /\ \A i \in 1..Len(inbox) : inbox'[i] = inbox[i]
    BY <1>1, <1>2, Added DEF TypeOK, Send
  <1>4. Len(inbox) \in Nat /\ \A i \in 1..Len(inbox) : inbox[i] \in Message
    BY ElementOfSeq, LenProperties DEF TypeOK
  <1>5. UNCHANGED <<pc, tx, channel, serving>>
    BY <1>1 DEF Send, mainVars
  <1>6. /\ serial' = IF command = "Cbor" THEN serial + 1 ELSE serial
        /\ \A e \in Channels \ {c} :
              client'[e] = client[e] /\ asked'[e] = asked[e] /\ hasty'[e] = hasty[e]
    BY <1>1 DEF SendCbor, SendCancel, SendInit, TypeOK
  <1>7. /\ command = "Cbor" =>
              client[c] = "idle" /\ ~hasty[c] /\ client'[c] = "waiting" /\ asked'[c] = s
        /\ command = "Cancel" =>
              client[c] = "waiting" /\ client'[c] = "waiting" /\ asked'[c] = asked[c] /\ hasty'[c]
        /\ command = "Init" => client[c] # "syncing" /\ client'[c] = "syncing"
    BY <1>1 DEF SendCbor, SendCancel, SendInit, TypeOK
  <1>8. SerialsOK'
    <2>1. serial \in Nat /\ tx \in Nat /\ (command = "Cbor" => s = serial + 1)
      BY <1>1, TransactionAssumption DEF TypeOK, TransactionAssumption
    <2>2. tx' <= serial'
      BY <1>5, <1>6, <2>1 DEF SerialsOK
    <2>3. ASSUME NEW i \in 1..Len(inbox'), inbox'[i].command = "Cbor"
          PROVE  tx < inbox'[i].serial /\ inbox'[i].serial <= serial'
      <3>1. CASE i \in 1..Len(inbox)
        <4>1. tx < inbox[i].serial /\ inbox[i].serial <= serial /\ inbox[i].serial \in Int
          BY <1>3, <1>4, <2>3, <3>1 DEF SerialsOK, Message
        <4> QED
          BY <1>3, <1>6, <2>1, <3>1, <4>1
      <3>2. CASE i = Len(inbox')
        BY <1>3, <1>6, <2>1, <2>3, <3>2 DEF SerialsOK
      <3> QED
        BY <1>3, <1>4, <3>1, <3>2
    <2>4. ASSUME NEW i \in 1..Len(inbox'), NEW j \in 1..Len(inbox'), i < j,
                 inbox'[i].command = "Cbor", inbox'[j].command = "Cbor"
          PROVE  inbox'[i].serial < inbox'[j].serial
      <3>1. i \in 1..Len(inbox) /\ inbox'[i] = inbox[i]
        BY <1>3, <1>4, <2>4
      <3>2. CASE j \in 1..Len(inbox)
        BY <1>3, <2>4, <3>1, <3>2 DEF SerialsOK
      <3>3. CASE j = Len(inbox')
        <4>1. inbox[i].serial <= serial /\ inbox[i].serial \in Int
          BY <1>4, <2>4, <3>1 DEF SerialsOK, Message
        <4> QED
          BY <1>3, <2>1, <2>4, <3>1, <3>3, <4>1
      <3> QED
        BY <1>3, <1>4, <3>2, <3>3
    <2> QED
      BY <1>5, <2>2, <2>3, <2>4 DEF SerialsOK
  <1>9. InboxOK'
    <2> SUFFICES ASSUME NEW i \in 1..Len(inbox')
                 PROVE  LET e == inbox'[i].channel IN
                        /\ inbox'[i].command = "Cbor" =>
                              \/ client'[e] = "syncing"
                              \/ client'[e] = "waiting" /\ asked'[e] = inbox'[i].serial
                        /\ inbox'[i].command = "Cancel" => hasty'[e] \/ client'[e] = "syncing"
                        /\ inbox'[i].command = "Init" => client'[e] = "syncing"
                        /\ \A j \in 1..Len(inbox') :
                              i < j /\ inbox'[j].channel = e =>
                                 /\ inbox'[i].command # "Init"
                                 /\ inbox'[i].command = "Cancel" => inbox'[j].command # "Cbor"
      BY DEF InboxOK, Awaits
    <2> DEFINE e == inbox'[i].channel
    <2>1. CASE i = Len(inbox')
      <3>1. e = c /\ inbox'[i].command = command /\ inbox'[i].serial = s
        BY <1>3, <2>1
      <3>2. \A j \in 1..Len(inbox') : ~(i < j)
        BY <1>3, <1>4, <2>1
      <3> QED
        BY <1>7, <3>1, <3>2
    <2>2. CASE i \in 1..Len(inbox)
      <3>1. inbox'[i] = inbox[i] /\ e \in Channels
        BY <1>3, <1>4, <2>2 DEF Message
      <3>2. /\ inbox[i].command = "Cbor" => Awaits(e, inbox[i].serial)
            /\ inbox[i].command = "Cancel" => hasty[e] \/ client[e] = "syncing"
            /\ inbox[i].command = "Init" => client[e] = "syncing"
        BY <2>2, <3>1 DEF InboxOK
      <3>3. /\ inbox'[i].command = "Cbor" =>
                  \/ client'[e] = "syncing"
                  \/ client'[e] = "waiting" /\ asked'[e] = inbox'[i].serial
            /\ inbox'[i].command = "Cancel" => hasty'[e] \/ client'[e] = "syncing"
            /\ inbox'[i].command = "Init" => client'[e] = "syncing"
        <4>1. CASE e # c
          BY <1>6, <3>1, <3>2, <4>1 DEF Awaits
        <4>2. CASE e = c
          BY <1>1, <1>7, <3>1, <3>2, <4>2 DEF Awaits, Commands
        <4> QED
          BY <4>1, <4>2
      <3>4. ASSUME NEW j \in 1..Len(inbox'), i < j, inbox'[j].channel = e
            PROVE  /\ inbox'[i].command # "Init"
                   /\ inbox'[i].command = "Cancel" => inbox'[j].command # "Cbor"
        <4>1. CASE j \in 1..Len(inbox)
          BY <1>3, <2>2, <3>1, <3>4, <4>1 DEF InboxOK
        <4>2. CASE j = Len(inbox')
          BY <1>1, <1>3, <1>7, <3>1, <3>2, <3>4, <4>2 DEF Commands
        <4> QED
          BY <1>3, <1>4, <4>1, <4>2
      <3> QED
        BY <3>3, <3>4
    <2> QED
      BY <1>3, <1>4, <2>1, <2>2
  <1>10. ServingOK'
    <2> SUFFICES ASSUME Loop
                 PROVE  /\ \/ client'[channel] = "syncing"
                           \/ client'[channel] = "waiting" /\ asked'[channel] = serving
                        /\ serving <= serial'
                        /\ \A i \in 1..Len(inbox') :
                              inbox'[i].command = "Cbor" => serving < inbox'[i].serial
      BY <1>5 DEF ServingOK, Loop, Awaits
    <2>1. channel \in Channels /\ Awaits(channel, serving) /\ serving <= serial
      BY DEF ServingOK
    <2>2. \/ client'[channel] = "syncing"
          \/ client'[channel] = "waiting" /\ asked'[channel] = serving
      BY <1>1, <1>6, <1>7, <2>1 DEF Awaits, Commands
    <2>3. serving \in Int /\ serial \in Int /\ (command = "Cbor" => s = serial + 1)
      BY <1>1 DEF TypeOK
    <2>4. serving <= serial'
      BY <1>6, <2>1, <2>3
    <2>5. ASSUME NEW i \in 1..Len(inbox'), inbox'[i].command = "Cbor"
          PROVE  serving < inbox'[i].serial
      <3>1. CASE i \in 1..Len(inbox)
        BY <1>3, <2>5, <3>1 DEF ServingOK
      <3>2. CASE i = Len(inbox')
        BY <1>3, <2>1, <2>3, <2>5, <3>2
      <3> QED
        BY <1>3, <1>4, <3>1, <3>2
    <2> QED
      BY <2>2, <2>4, <2>5
  <1> QED
    BY <1>8, <1>9, <1>10

(* The end of the transaction, or one more round, with a packet to the     *)
(* client it serves.                                                       *)
LEMMA EndMessages ==
    ASSUME TypeOK, SerialsOK, InboxOK, ServingOK, Loop, pc' \in {"showing", "leave"},
           inbox' = inbox \/ (inbox # <<>> /\ inbox' = Tail(inbox)),
           UNCHANGED <<tx, asked, hasty, serial>>, Write(channel, "Cbor", serving)
    PROVE  SerialsOK' /\ InboxOK' /\ ServingOK'
  <1>1. PICK d \in {0, 1} :
            \A i \in 1..Len(inbox') : i + d \in 1..Len(inbox) /\ inbox'[i] = inbox[i + d]
    BY Remaining DEF TypeOK
  <1>2. /\ channel \in Channels /\ serving \in Nat /\ Awaits(channel, serving)
        /\ \A i \in 1..Len(inbox') :
              inbox'[i].command = "Cbor" => serving < inbox'[i].serial
    <2>1. /\ channel \in Channels /\ Awaits(channel, serving)
          /\ \A i \in 1..Len(inbox) :
                inbox[i].command = "Cbor" => serving < inbox[i].serial
      BY DEF ServingOK
    <2>2. serving \in Nat
      BY DEF TypeOK
    <2>3. ASSUME NEW i \in 1..Len(inbox'), inbox'[i].command = "Cbor"
          PROVE  serving < inbox'[i].serial
      <3>1. i + d \in 1..Len(inbox) /\ inbox'[i] = inbox[i + d]
        BY <1>1
      <3> QED
        BY <2>1, <2>3, <3>1
    <2> QED
      BY <2>1, <2>2, <2>3
  <1>3. InboxOK'
    BY <1>2, AnsweredInbox DEF Write
  <1> QED
    BY <1>3, RemainingSerials DEF ServingOK, Loop

(* A message that leaves its client as it is.                              *)
LEMMA QuietMessages ==
    ASSUME TypeOK, SerialsOK, InboxOK, ServingOK,
           inbox' = inbox \/ (inbox # <<>> /\ inbox' = Tail(inbox)),
           UNCHANGED <<tx, client, asked, hasty, serial>>,
           Loop' => Loop /\ UNCHANGED <<channel, serving>>
    PROVE  SerialsOK' /\ InboxOK' /\ ServingOK'
  <1>1. SerialsOK' /\ InboxOK'
    BY RemainingSerials, RemainingInbox
  <1>2. ASSUME Loop' PROVE ServingOK'
    BY <1>2, RemainingServing DEF ServingOK, Awaits
  <1> QED
    BY <1>1, <1>2 DEF ServingOK

(* The reply to an INIT, the last message of its client.                   *)
LEMMA SyncedMessages ==
    ASSUME TypeOK, SerialsOK, InboxOK, ServingOK, Reads("Init"), Consume,
           UNCHANGED tx, Write(Head(inbox).channel, "Init", 0),
           Loop' => /\ Loop /\ UNCHANGED <<channel, serving>>
                    /\ Head(inbox).channel # channel
    PROVE  SerialsOK' /\ InboxOK' /\ ServingOK'
  <1> DEFINE c == Head(inbox).channel
  <1>1. /\ inbox # <<>> /\ inbox' = Tail(inbox) /\ UNCHANGED <<asked, hasty, serial>>
        /\ Head(inbox).command = "Init" /\ 1 \in 1..Len(inbox) /\ Head(inbox) = inbox[1]
        /\ c \in Channels
    BY FirstMessage DEF TypeOK, Reads, Consume, Message
  <1>2. \A i \in 1..Len(inbox') : i + 1 \in 1..Len(inbox) /\ inbox'[i] = inbox[i + 1]
    BY <1>1, Remaining DEF TypeOK
  <1>3. \A i \in 1..Len(inbox') : inbox'[i].channel # c
    BY <1>1, <1>2, LenProperties DEF InboxOK, TypeOK
  <1>4. SerialsOK' /\ InboxOK'
    BY <1>1, <1>3, RemainingSerials, RepliedInbox DEF Write
  <1>5. ASSUME Loop' PROVE ServingOK'
    <2>1. Awaits(channel, serving) /\ channel \in Channels /\ channel # c
      BY <1>5 DEF ServingOK
    <2>2. client'[channel] = client[channel]
      BY <2>1 DEF Write, Receives, TypeOK
    <2>3. Awaits(channel, serving)'
      BY <1>1, <1>5, <2>1, <2>2 DEF Awaits
    <2> QED
      BY <1>1, <1>5, <2>3, RemainingServing
  <1> QED
    BY <1>4, <1>5 DEF ServingOK

LEMMA NextMessages ==
    TypeOK /\ SerialsOK /\ InboxOK /\ ServingOK /\ [Next]_vars
        => SerialsOK' /\ InboxOK' /\ ServingOK'
  <1> SUFFICES ASSUME TypeOK, SerialsOK, InboxOK, ServingOK, [Next]_vars
               PROVE  SerialsOK' /\ InboxOK' /\ ServingOK'
    OBVIOUS
  <1> USE DEF mainVars, clientVars
  <1>1. CASE AnswerLocally
    <2>1. /\ inbox # <<>> /\ inbox' = Tail(inbox) /\ UNCHANGED <<tx, asked, hasty, serial>>
          /\ Head(inbox).command = "Cbor" /\ 1 \in 1..Len(inbox) /\ Head(inbox) = inbox[1]
          /\ Head(inbox).channel \in Channels /\ Head(inbox).serial \in Nat
          /\ Receives(Head(inbox).channel, "Cbor")
      BY <1>1, FirstMessage DEF AnswerLocally, TypeOK, Reads, Consume, Message, Write
    <2>2. \A i \in 1..Len(inbox') : i + 1 \in 1..Len(inbox) /\ inbox'[i] = inbox[i + 1]
      BY <2>1, Remaining DEF TypeOK
    <2>3. \A i \in 1..Len(inbox') :
             inbox'[i].command = "Cbor" => Head(inbox).serial < inbox'[i].serial
      BY <2>1, <2>2, LenProperties DEF SerialsOK, TypeOK
    <2>4. Awaits(Head(inbox).channel, Head(inbox).serial)
      BY <2>1 DEF InboxOK
    <2>5. InboxOK'
      BY <2>1, <2>3, <2>4, AnsweredInbox
    <2> QED
      BY <1>1, <2>1, <2>5, RemainingSerials DEF ServingOK, Loop, AnswerLocally
  <1>2. CASE StartTransaction
    <2>1. /\ inbox # <<>> /\ inbox' = Tail(inbox)
          /\ UNCHANGED <<client, asked, hasty, serial>> /\ tx' = tx + 1
          /\ Head(inbox).command = "Cbor" /\ 1 \in 1..Len(inbox) /\ Head(inbox) = inbox[1]
          /\ channel' \in Channels /\ channel' = inbox[1].channel /\ serving' = inbox[1].serial
          /\ inbox[1].serial \in Nat
      BY <1>2, FirstMessage
      DEF StartTransaction, TypeOK, Reads, Consume, Message, WriteNothing
    <2>2. \A i \in 1..Len(inbox') : i + 1 \in 1..Len(inbox) /\ inbox'[i] = inbox[i + 1]
      BY <2>1, Remaining DEF TypeOK
    <2>3. \A i \in 1..Len(inbox') :
             inbox'[i].command = "Cbor" => serving' < inbox'[i].serial
      BY <2>1, <2>2, LenProperties DEF SerialsOK, TypeOK
    <2>4. Awaits(channel', serving') /\ serving' <= serial /\ tx < serving'
      BY <2>1 DEF InboxOK, SerialsOK
    <2>5. InboxOK'
      BY <2>1, RemainingInbox
    <2>6. ServingOK'
      BY <2>1, <2>3, <2>4 DEF ServingOK, Awaits
    <2>7. SerialsOK'
      <3>1. tx \in Nat /\ serial \in Nat /\ \A i \in 1..Len(inbox') : inbox'[i].serial \in Nat
        <4>1. \A i \in 1..Len(inbox) : inbox[i] \in Message
          BY <2>1, FirstMessage DEF TypeOK
        <4>2. \A i \in 1..Len(inbox') : inbox'[i].serial \in Nat
          BY <2>2, <4>1 DEF Message
        <4> QED
          BY <4>2 DEF TypeOK
      <3>2. tx' <= serial'
        BY <2>1, <2>4, <3>1
      <3>3. ASSUME NEW i \in 1..Len(inbox'), inbox'[i].command = "Cbor"
            PROVE  /\ tx' < inbox'[i].serial /\ inbox'[i].serial <= serial'
                   /\ \A j \in 1..Len(inbox') :
                         i < j /\ inbox'[j].command = "Cbor" =>
                            inbox'[i].serial < inbox'[j].serial
        <4>1. tx' < inbox'[i].serial
          <5>1. tx < serving' /\ serving' < inbox'[i].serial /\ serving' \in Nat
            BY <2>1, <2>3, <2>4, <3>3
          <5> QED
            BY <2>1, <3>1, <5>1
        <4>2. inbox'[i].serial <= serial'
          BY <2>1, <2>2, <3>3 DEF SerialsOK
        <4>3. ASSUME NEW j \in 1..Len(inbox'), i < j, inbox'[j].command = "Cbor"
              PROVE  inbox'[i].serial < inbox'[j].serial
          <5>1. /\ i + 1 \in 1..Len(inbox) /\ inbox'[i] = inbox[i + 1]
                /\ j + 1 \in 1..Len(inbox) /\ inbox'[j] = inbox[j + 1] /\ i + 1 < j + 1
            BY <2>2, <4>3
          <5> QED
            BY <3>3, <4>3, <5>1 DEF SerialsOK
        <4> QED
          BY <4>1, <4>2, <4>3
      <3> QED
        BY <3>2, <3>3 DEF SerialsOK
    <2> QED
      BY <2>5, <2>6, <2>7
  <1>3. CASE IdleInit
    BY <1>3, SyncedMessages DEF IdleInit, Loop
  <1>4. CASE IdleCancel
    <2>1. /\ inbox # <<>> /\ inbox' = Tail(inbox) /\ UNCHANGED <<tx, asked, hasty, serial>>
          /\ Head(inbox).command = "Cancel" /\ 1 \in 1..Len(inbox) /\ Head(inbox) = inbox[1]
          /\ Head(inbox).channel \in Channels /\ Receives(Head(inbox).channel, "Error")
      BY <1>4, FirstMessage DEF IdleCancel, TypeOK, Reads, Consume, Message, Write
    <2>2. \A i \in 1..Len(inbox') : i + 1 \in 1..Len(inbox) /\ inbox'[i] = inbox[i + 1]
      BY <2>1, Remaining DEF TypeOK
    <2>3. \A i \in 1..Len(inbox') :
             inbox'[i].channel = Head(inbox).channel => inbox'[i].command # "Cbor"
      BY <2>1, <2>2, LenProperties DEF InboxOK, TypeOK
    <2>4. InboxOK'
      BY <2>1, <2>3, RepliedInbox
    <2> QED
      BY <1>4, <2>1, <2>4, RemainingSerials DEF ServingOK, Loop, IdleCancel
  <1>5. CASE NotFinished
    BY <1>5, QuietMessages DEF NotFinished, WriteNothing, Loop
  <1>6. CASE TaskFinished
    BY <1>6, EndMessages DEF TaskFinished, EndSuccess, EndOtherwise, Loop
  <1>7. CASE UserCancelled
    BY <1>7, EndMessages DEF UserCancelled, EndOtherwise, Loop
  <1>8. CASE NotCancelled
    <2>1. UNCHANGED client
      BY <1>8 DEF NotCancelled, WriteNothing, Write, Receives, Ends
    <2> QED
      BY <1>8, <2>1, QuietMessages DEF NotCancelled, Loop
  <1>9. CASE NothingToRead
    BY <1>9, QuietMessages DEF NothingToRead, NextRound, WriteNothing, Loop
  <1>10. CASE HostCancel
    BY <1>10, EndMessages DEF HostCancel, EndOtherwise, Loop, Reads, Consume
  <1>11. CASE HostReset
    BY <1>11, SyncedMessages DEF HostReset, EndOtherwise, Loop
  <1>12. CASE OtherInit
    BY <1>12, SyncedMessages DEF OtherInit, NextRound, Loop
  <1>13. CASE Ignored
    BY <1>13, QuietMessages DEF Ignored, NextRound, WriteNothing, Loop, Reads, Consume
  <1>14. CASE Shown
    BY <1>14, QuietMessages DEF Shown, Loop
  <1>15. CASE Leave
    BY <1>15, QuietMessages DEF Leave, Loop
  <1>16. CASE CooldownEnds
    BY <1>16, QuietMessages DEF CooldownEnds, Loop
  <1>17. ASSUME NEW t \in Tx, Task(t) \/ \E r \in {"ok", "err"} : Return(t, r)
         PROVE  SerialsOK' /\ InboxOK' /\ ServingOK'
    <2>1. TaskUnchanged
      BY <1>17 DEF Task, SpawnModal, StorePipe, StoreChild, Return, Finish
    <2> QED
      BY <2>1, QuietMessages DEF TaskUnchanged, Loop
  <1>18. ASSUME NEW t \in Tx, NEW how \in {"cancel", "crashed"}, ModalExits(t, how)
         PROVE  SerialsOK' /\ InboxOK' /\ ServingOK'
    BY <1>18, QuietMessages DEF ModalExits, Loop
  <1>19. ASSUME NEW c \in Channels, SendCbor(c) \/ SendCancel(c) \/ SendInit(c)
         PROVE  SerialsOK' /\ InboxOK' /\ ServingOK'
    BY <1>19, SentMessages
  <1>20. CASE UNCHANGED vars
    BY <1>20, QuietMessages DEF vars, Loop
  <1> QED
    BY <1>1, <1>2, <1>3, <1>4, <1>5, <1>6, <1>7, <1>8, <1>9, <1>10, <1>11, <1>12, <1>13,
       <1>14, <1>15, <1>16, <1>17, <1>18, <1>19, <1>20 DEF Next, Main

-----------------------------------------------------------------------------
(* Outcomes and modals.                                                    *)

OutcomesOK == OutcomeOK /\ OnlyUserCancels

LEMMA SameOutcomes ==
    ASSUME OutcomesOK, UNCHANGED <<tx, outcome, task, cancelled, modal>>, Loop' => Loop
    PROVE  OutcomesOK'
  BY DEF OutcomesOK, OutcomeOK, OnlyUserCancels

(* A transaction that ends otherwise than by success: who clicked Cancel is*)
(* not overlooked, and nobody else is taken for it.                        *)
LEMMA EndOutcomes ==
    ASSUME TypeOK, OutcomesOK, Loop, UNCHANGED <<tx, task>>,
           NEW r \in Outcomes, EndOtherwise(r),
           r = "UserCancelled" => UserHasCancelled(tx)
    PROVE  OutcomesOK'
  <1>1. tx \in Tx /\ outcome[tx] = None /\ ~cancelled[tx]
    BY DEF Loop, TypeOK, OutcomesOK, OutcomeOK
  <1>2. /\ outcome' = [outcome EXCEPT ![tx] = r]
        /\ cancelled' = [cancelled EXCEPT ![tx] = TRUE]
        /\ \A t \in Tx : modal'[t] = modal[t] \/ (modal[t] = "running" /\ modal'[t] = "killed")
        /\ pc' = "leave"
    BY DEF EndOtherwise, close, KillChild, Killed, TypeOK
  <1>3. r # None /\ r = "UserCancelled" => modal[tx] = "cancel"
    BY <1>1, TransactionAssumption DEF TransactionAssumption, UserHasCancelled
  <1>4. r # None
    BY TransactionAssumption DEF TransactionAssumption
  <1>5. tx \in Int /\ \A t \in Tx : t \in Int
    BY DEF Tx, TypeOK
  <1>6. OutcomeOK'
    <2> SUFFICES ASSUME NEW t \in Tx
                 PROVE  /\ t > tx => outcome'[t] = None /\ task[t] = "none"
                        /\ cancelled'[t] => outcome'[t] # None
                        /\ task[t] \in {"none", "starting"} => modal'[t] = "none"
      BY <1>2 DEF OutcomeOK, Loop
    <2>1. CASE t = tx
      BY <1>1, <1>2, <1>4, <1>5, <2>1 DEF TypeOK, OutcomesOK, OutcomeOK
    <2>2. CASE t # tx
      BY <1>2, <2>2 DEF TypeOK, OutcomesOK, OutcomeOK
    <2> QED
      BY <2>1, <2>2
  <1>7. OnlyUserCancels'
    <2> SUFFICES ASSUME NEW t \in Tx, outcome'[t] = "UserCancelled"
                 PROVE  modal'[t] = "cancel"
      BY DEF OnlyUserCancels
    <2>1. CASE t = tx
      BY <1>1, <1>2, <1>3, <1>4, <2>1 DEF TypeOK
    <2>2. CASE t # tx
      BY <1>2, <2>2 DEF TypeOK, OutcomesOK, OnlyUserCancels
    <2> QED
      BY <2>1, <2>2
  <1> QED
    BY <1>6, <1>7 DEF OutcomesOK

LEMMA NextOutcomes == TypeOK /\ OutcomesOK /\ SerialsOK /\ [Next]_vars => OutcomesOK'
  <1> SUFFICES ASSUME TypeOK, OutcomesOK, SerialsOK, [Next]_vars PROVE OutcomesOK'
    OBVIOUS
  <1> USE DEF mainVars, taskVars, uiVars
  <1>1. CASE AnswerLocally \/ IdleInit \/ IdleCancel
    BY <1>1, SameOutcomes DEF AnswerLocally, IdleInit, IdleCancel, Loop
  <1>2. CASE StartTransaction
    <2>1. /\ tx' = tx + 1 /\ task' = [task EXCEPT ![tx + 1] = "starting"]
          /\ UNCHANGED <<outcome, cancelled, modal>>
      BY <1>2 DEF StartTransaction
    <2>2. tx \in Int /\ \A t \in Tx : t \in Int
      BY DEF Tx, TypeOK
    <2>3. ASSUME NEW t \in Tx
          PROVE  /\ t > tx' => outcome'[t] = None /\ task'[t] = "none"
                 /\ t = tx' => outcome'[t] = None
                 /\ cancelled'[t] => outcome'[t] # None
                 /\ task'[t] \in {"none", "starting"} => modal'[t] = "none"
      <3>1. CASE t = tx + 1
        BY <2>1, <2>2, <3>1 DEF TypeOK, OutcomesOK, OutcomeOK
      <3>2. CASE t # tx + 1
        BY <2>1, <2>2, <3>2 DEF TypeOK, OutcomesOK, OutcomeOK
      <3> QED
        BY <3>1, <3>2
    <2> QED
      BY <2>1, <2>3 DEF OutcomesOK, OutcomeOK, OnlyUserCancels
  <1>3. CASE NotFinished
    BY <1>3, SameOutcomes DEF NotFinished, Loop
  <1>4. CASE TaskFinished
    <2>1. CASE EndSuccess
      <3>1. tx \in Tx /\ outcome[tx] = None /\ ~cancelled[tx] /\ "Success" # None
        BY <1>4, TransactionAssumption
        DEF TaskFinished, TypeOK, OutcomesOK, OutcomeOK, Loop, TransactionAssumption, Outcomes
      <3>2. /\ outcome' = [outcome EXCEPT ![tx] = "Success"]
            /\ \A t \in Tx : modal'[t] = modal[t] \/ (modal[t] = "running")
            /\ UNCHANGED <<tx, task, cancelled>> /\ pc' = "showing"
        BY <1>4, <2>1, <3>1 DEF TaskFinished, EndSuccess, notify_done, TypeOK
      <3>3. tx \in Int /\ \A t \in Tx : t \in Int
        BY DEF Tx, TypeOK
      <3>4. ASSUME NEW t \in Tx
            PROVE  /\ t > tx => outcome'[t] = None /\ task[t] = "none"
                   /\ cancelled[t] => outcome'[t] # None
                   /\ task[t] \in {"none", "starting"} => modal'[t] = "none"
                   /\ outcome'[t] = "UserCancelled" => modal'[t] = "cancel"
        <4>1. CASE t = tx
          BY <3>1, <3>2, <3>3, <4>1 DEF TypeOK, OutcomesOK, OutcomeOK
        <4>2. CASE t # tx
          BY <3>2, <4>2 DEF TypeOK, OutcomesOK, OutcomeOK, OnlyUserCancels
        <4> QED
          BY <4>1, <4>2
      <3> QED
        BY <3>2, <3>4 DEF OutcomesOK, OutcomeOK, OnlyUserCancels, Loop
    <2>2. CASE EndOtherwise("Failed")
      BY <1>4, <2>2, EndOutcomes DEF TaskFinished, Loop, Outcomes
    <2> QED
      BY <1>4, <2>1, <2>2 DEF TaskFinished
  <1>5. CASE UserCancelled
    BY <1>5, EndOutcomes DEF UserCancelled, Loop, Outcomes
  <1>6. CASE NotCancelled \/ NothingToRead \/ OtherInit \/ Ignored
    BY <1>6, SameOutcomes
    DEF NotCancelled, NothingToRead, OtherInit, Ignored, NextRound, Loop
  <1>7. CASE HostCancel
    BY <1>7, EndOutcomes DEF HostCancel, Loop, Outcomes
  <1>8. CASE HostReset
    BY <1>8, EndOutcomes DEF HostReset, Loop, Outcomes
  <1>9. CASE Shown \/ CooldownEnds
    BY <1>9, SameOutcomes DEF Shown, CooldownEnds, Loop
  <1>10. ASSUME NEW t \in Tx, KillChild(t),
                task' = task \/ (task[t] # "none" /\ task' = [task EXCEPT ![t] = "finished"]),
                UNCHANGED <<tx, outcome, cancelled>>, Loop' => Loop
         PROVE  OutcomesOK'
    <2>1. \A u \in Tx :
             /\ modal'[u] = modal[u] \/ (modal[u] = "running" /\ modal'[u] = "killed")
             /\ task'[u] = task[u] \/ (task[u] # "none" /\ task'[u] = "finished")
      BY <1>10 DEF KillChild, Killed, TypeOK
    <2> QED
      BY <1>10, <2>1 DEF OutcomesOK, OutcomeOK, OnlyUserCancels
  <1>11. CASE Leave
    <2>1. CASE tx \in Tx
      BY <1>10, <1>11, <2>1 DEF Leave, Drop, Loop
    <2> QED
      BY <1>11, <2>1 DEF Leave, TypeOK
  <1>12. ASSUME NEW t \in Tx, SpawnModal(t) PROVE OutcomesOK'
    <2>1. task[t] = "starting" /\ modal[t] = "none"
      BY <1>12 DEF SpawnModal, OutcomesOK, OutcomeOK
    <2>2. \A u \in Tx :
             IF u = t THEN task'[u] \in {"spawned", "waiting"}
             ELSE task'[u] = task[u] /\ modal'[u] = modal[u]
      BY <1>12 DEF SpawnModal, TypeOK
    <2>3. outcome[t] # "UserCancelled"
      BY <2>1 DEF OutcomesOK, OnlyUserCancels
    <2>4. UNCHANGED <<pc, tx, outcome, cancelled>>
      BY <1>12 DEF SpawnModal, TaskUnchanged
    <2>5. ASSUME NEW u \in Tx
          PROVE  /\ u > tx => outcome[u] = None /\ task'[u] = "none"
                 /\ task'[u] \in {"none", "starting"} => modal'[u] = "none"
                 /\ outcome[u] = "UserCancelled" => modal'[u] = "cancel"
      <3>1. CASE u = t
        BY <2>1, <2>2, <2>3, <3>1 DEF OutcomesOK, OutcomeOK, TypeOK
      <3>2. CASE u # t
        BY <2>2, <3>2 DEF OutcomesOK, OutcomeOK, OnlyUserCancels
      <3> QED
        BY <3>1, <3>2
    <2> QED
      BY <2>4, <2>5 DEF OutcomesOK, OutcomeOK, OnlyUserCancels, Loop
  <1>13. ASSUME NEW t \in Tx, StorePipe(t) \/ StoreChild(t) \/ \E r \in {"ok", "err"} : Return(t, r)
         PROVE  OutcomesOK'
    <2>1. \A u \in Tx :
             \/ task'[u] = task[u]
             \/ task[u] # "none" /\ task'[u] \notin {"none", "starting"}
      BY <1>13 DEF StorePipe, StoreChild, Return, TypeOK
    <2> QED
      BY <1>13, <2>1
      DEF StorePipe, StoreChild, Return, TaskUnchanged, OutcomesOK, OutcomeOK,
          OnlyUserCancels, Loop
  <1>14. ASSUME NEW t \in Tx, Finish(t) PROVE OutcomesOK'
    BY <1>10, <1>14 DEF Finish, Drop, TaskUnchanged, Loop
  <1>15. ASSUME NEW t \in Tx, NEW how \in {"cancel", "crashed"}, ModalExits(t, how)
         PROVE  OutcomesOK'
    <2>1. \A u \in Tx : modal'[u] = modal[u] \/ modal[u] = "running"
      BY <1>15 DEF ModalExits, TypeOK
    <2> QED
      BY <1>15, <2>1 DEF ModalExits, OutcomesOK, OutcomeOK, OnlyUserCancels, Loop
  <1>16. ASSUME NEW c \in Channels, SendCbor(c) \/ SendCancel(c) \/ SendInit(c)
         PROVE  OutcomesOK'
    BY <1>16, SameOutcomes DEF SendCbor, SendCancel, SendInit, Send, Loop
  <1>17. CASE UNCHANGED vars
    BY <1>17, SameOutcomes DEF vars, Loop
  <1> QED
    BY <1>1, <1>2, <1>3, <1>4, <1>5, <1>6, <1>7, <1>8, <1>9, <1>11, <1>12, <1>13,
       <1>14, <1>15, <1>16, <1>17 DEF Next, Main, Task

-----------------------------------------------------------------------------
(* What holds of every behaviour.                                          *)

LEMMA NextIInv == IInv /\ [Next]_vars => IInv'
  BY NextTypeOK, NextMessages, NextOutcomes DEF IInv, OutcomesOK

LEMMA Invariant == Spec => []IInv
  BY InitIInv, NextIInv, PTL DEF Spec

(* No step of the loop, a task, a modal or a client takes a variable out of*)
(* its type: in particular no transaction starts without a request of its  *)
(* own.                                                                    *)
THEOREM TransactionTypeCorrect == Spec => []TypeOK
  BY Invariant, PTL DEF IInv

(* Only a click on Cancel makes a transaction end as cancelled by the user *)
(* (bridge_ui.rs:36-49).                                                   *)
THEOREM TransactionOnlyUserCancels == Spec => []OnlyUserCancels
  BY Invariant, PTL DEF IInv

LEMMA AnswersAwaited ==
    ASSUME IInv, Next, packet' # None, packet'.kind \in {"KeepAlive", "Cbor"}
    PROVE  Awaits(packet'.channel, packet'.serial)
  <1> USE DEF Write, WriteNothing
  <1>1. CASE AnswerLocally
    <2>1. /\ Head(inbox).command = "Cbor" /\ 1 \in 1..Len(inbox) /\ Head(inbox) = inbox[1]
      BY <1>1, FirstMessage DEF IInv, TypeOK, AnswerLocally, Reads
    <2> QED
      BY <1>1, <2>1 DEF AnswerLocally, IInv, InboxOK
  <1>2. CASE TaskFinished \/ UserCancelled \/ NotCancelled \/ HostCancel
    <2>1. Loop
      BY <1>2 DEF TaskFinished, UserCancelled, NotCancelled, HostCancel, Loop
    <2>2. packet'.channel = channel /\ packet'.serial = serving
      BY <1>2 DEF TaskFinished, EndSuccess, UserCancelled, NotCancelled, HostCancel
    <2> QED
      BY <2>1, <2>2 DEF IInv, ServingOK
  <1>3. CASE StartTransaction \/ NotFinished \/ NothingToRead \/ Ignored \/ Shown \/ Leave
             \/ CooldownEnds
    BY <1>3 DEF StartTransaction, NotFinished, NothingToRead, Ignored, Shown, Leave,
                CooldownEnds
  <1>4. CASE IdleInit \/ IdleCancel \/ HostReset \/ OtherInit
    BY <1>4 DEF IdleInit, IdleCancel, HostReset, OtherInit
  <1>5. ASSUME NEW t \in Tx,
               \/ Task(t) \/ \E r \in {"ok", "err"} : Return(t, r)
               \/ \E how \in {"cancel", "crashed"} : ModalExits(t, how)
        PROVE  packet' = None
    BY <1>5
    DEF Task, SpawnModal, StorePipe, StoreChild, Finish, Return, TaskUnchanged, ModalExits
  <1>6. ASSUME NEW c \in Channels, SendCbor(c) \/ SendCancel(c) \/ SendInit(c)
        PROVE  packet' = None
    BY <1>6 DEF SendCbor, SendCancel, SendInit, Send
  <1> QED
    BY <1>1, <1>2, <1>3, <1>4, <1>5, <1>6 DEF Next, Main

(* Keepalives and answers go to the client that waits for this request, or *)
(* to one that discards them while it resynchronises, however its INITs and*)
(* CANCELs race them (main.rs:188-251, 253-297).                           *)
THEOREM TransactionAnswersOwnRequest == Spec => AnswersOwnRequest
  <1>1. IInv /\ [Next]_vars =>
           [packet' # None /\ packet'.kind \in {"KeepAlive", "Cbor"} =>
              LET c == packet'.channel IN
              client[c] = "syncing" \/ (client[c] = "waiting" /\ asked[c] = packet'.serial)]_vars
    BY AnswersAwaited DEF Awaits
  <1> QED
    BY <1>1, Invariant, PTL DEF Spec, AnswersOwnRequest

-----------------------------------------------------------------------------
(* The refinement of Ceremony.                                             *)

LEMMA OpenCeremony ==
    ASSUME IInv
    PROVE  /\ Loop => /\ Open = [channel |-> channel, serial |-> serving]
                      /\ Open # None /\ channel \in Channels
                      /\ Open.channel = channel /\ Open.serial = serving
           /\ ~Loop => Open = None
  <1>1. Loop => [channel |-> channel, serial |-> serving]
                   \in [channel: Channels, serial: 0..MaxRequests]
    BY DEF IInv, TypeOK, ServingOK
  <1> QED
    BY <1>1, TransactionAssumption DEF Open, Loop, IInv, ServingOK, TransactionAssumption

LEMMA CeremonyStep == IInv /\ IInv' /\ [Next]_vars => [C!Next]_(C!vars)
  <1> SUFFICES ASSUME IInv, IInv', [Next]_vars PROVE C!Next \/ UNCHANGED C!vars
    BY DEF C!vars
  <1> USE DEF Write, WriteNothing, C!Next, C!To
  <1>1. ASSUME UNCHANGED <<pc, channel, serving>>, packet' = None PROVE C!Next
    BY <1>1 DEF C!Quiet, Open
  <1>2. ASSUME packet' = None, Loop, Loop', UNCHANGED <<channel, serving>> PROVE C!Next
    BY <1>2 DEF C!Quiet, Open, Loop
  <1>3. ASSUME packet' = None, ~Loop, ~Loop' PROVE C!Next
    BY <1>3 DEF C!Quiet, Open, Loop
  <1>4. ASSUME ~Loop, UNCHANGED <<pc, channel, serving>>, NEW c \in Channels,
               NEW kind \in {"Cbor", "Init", "Error"}, NEW s \in 0..MaxRequests,
               packet' = [channel |-> c, kind |-> kind, serial |-> s]
        PROVE  C!Next
    BY <1>4 DEF C!Local, Open, Loop
  <1>5. CASE AnswerLocally \/ IdleInit \/ IdleCancel
    <2>1. Head(inbox).channel \in Channels /\ Head(inbox).serial \in 0..MaxRequests
      BY <1>5, FirstMessage
      DEF IInv, TypeOK, AnswerLocally, IdleInit, IdleCancel, Reads, Message
    <2>2. 0 \in 0..MaxRequests
      BY TransactionAssumption DEF TransactionAssumption
    <2> QED
      BY <1>4, <1>5, <2>1, <2>2 DEF AnswerLocally, IdleInit, IdleCancel, mainVars, Loop
  <1>6. CASE StartTransaction
    <2>1. Loop' /\ ~Loop /\ packet' = None
      BY <1>6 DEF StartTransaction, Loop
    <2>2. Open = None
      BY <2>1, OpenCeremony
    <2>3. channel' \in Channels /\ serving' \in 0..MaxRequests
      BY <2>1 DEF IInv, ServingOK, TypeOK
    <2>4. Open' = [channel |-> channel', serial |-> serving']
      BY <2>1 DEF Open, Loop
    <2>5. Open' \in C!Request
      BY <2>3, <2>4 DEF C!Request
    <2> QED
      BY <2>1, <2>2, <2>5 DEF C!Begin
  <1>7. CASE NotFinished \/ NothingToRead \/ Ignored
    BY <1>2, <1>7 DEF NotFinished, NothingToRead, Ignored, NextRound, Loop
  <1>8. CASE TaskFinished \/ UserCancelled \/ HostCancel
    <2>1. /\ Loop /\ ~Loop'
          /\ packet' = [channel |-> channel, kind |-> "Cbor", serial |-> serving]
      BY <1>8
      DEF TaskFinished, EndSuccess, EndOtherwise, UserCancelled, HostCancel, Loop
    <2>2. Open' = None
      BY <2>1 DEF Open, Loop
    <2> QED
      BY <2>1, <2>2, OpenCeremony DEF C!Answer
  <1>9. CASE NotCancelled
    <2>1. Loop /\ Loop' /\ UNCHANGED <<channel, serving>>
      BY <1>9 DEF NotCancelled, Loop
    <2>2. CASE packet' = None
      BY <1>2, <2>1, <2>2
    <2>3. CASE packet' = [channel |-> channel, kind |-> "KeepAlive", serial |-> serving]
      <3>1. Open' = Open
        BY <2>1 DEF Open, Loop
      <3> QED
        BY <2>1, <2>3, <3>1, OpenCeremony DEF C!KeepAlive
    <2> QED
      BY <1>9, <2>2, <2>3 DEF NotCancelled
  <1>10. CASE HostReset
    <2>1. /\ Loop /\ ~Loop' /\ 0 \in 0..MaxRequests /\ Head(inbox).channel = channel
          /\ packet' = [channel |-> Head(inbox).channel, kind |-> "Init", serial |-> 0]
            \/ packet' = [channel |-> channel, kind |-> "Init", serial |-> 0]
      BY <1>10, TransactionAssumption
      DEF HostReset, EndOtherwise, Loop, TransactionAssumption
    <2>2. Open' = None
      BY <2>1 DEF Open, Loop
    <2> QED
      BY <2>1, <2>2, OpenCeremony DEF C!Reset
  <1>11. CASE OtherInit
    <2>1. /\ Loop /\ Loop' /\ UNCHANGED <<channel, serving>> /\ 0 \in 0..MaxRequests
          /\ Head(inbox).channel # channel
          /\ packet' = [channel |-> Head(inbox).channel, kind |-> "Init", serial |-> 0]
      BY <1>11, TransactionAssumption DEF OtherInit, NextRound, Loop, TransactionAssumption
    <2>2. Head(inbox).channel \in Channels
      BY <1>11, FirstMessage DEF IInv, TypeOK, OtherInit, Reads, Message
    <2>3. Open' = Open
      BY <2>1 DEF Open, Loop
    <2> QED
      BY <2>1, <2>2, <2>3, OpenCeremony DEF C!OtherSyncs
  <1>12. CASE Shown \/ Leave
    BY <1>3, <1>12 DEF Shown, Leave, Loop
  <1>13. CASE CooldownEnds
    BY <1>1, <1>13 DEF CooldownEnds
  <1>14. ASSUME NEW t \in Tx,
                \/ Task(t) \/ \E r \in {"ok", "err"} : Return(t, r)
                \/ \E how \in {"cancel", "crashed"} : ModalExits(t, how)
         PROVE  C!Next
    <2>1. packet' = None /\ UNCHANGED mainVars
      BY <1>14
      DEF Task, SpawnModal, StorePipe, StoreChild, Finish, Return, TaskUnchanged, ModalExits
    <2> QED
      BY <1>1, <2>1 DEF mainVars
  <1>15. ASSUME NEW c \in Channels, SendCbor(c) \/ SendCancel(c) \/ SendInit(c)
         PROVE  C!Next
    BY <1>1, <1>15 DEF SendCbor, SendCancel, SendInit, Send, mainVars
  <1>16. CASE UNCHANGED vars
    BY <1>16 DEF vars, mainVars, C!vars, Open
  <1> QED
    BY <1>5, <1>6, <1>7, <1>8, <1>9, <1>10, <1>11, <1>12, <1>13, <1>14, <1>15, <1>16
    DEF Next, Main

(* The loop is a sequence of ceremonies, each ended by one answer or one   *)
(* reset (main.rs:75-132, 188-297): Transaction implements Ceremony.       *)
THEOREM TransactionKeepsCeremony == Spec => KeepsCeremony
  <1>1. Init => C!Init
    BY DEF Init, C!Init, Open
  <1> QED
    BY <1>1, CeremonyStep, Invariant, PTL DEF Spec, KeepsCeremony, C!Spec
=============================================================================
