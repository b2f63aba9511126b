---------------------------- MODULE CableTunnel ----------------------------
(***************************************************************************)
(* One caBLE task of the daemon from the phone's advertisement to the      *)
(* result of its single command (cable/tunnel.rs, with the ciphers of      *)
(* cable/noise.rs and the frames of cable/framing.rs), the websocket       *)
(* between, and the phone.  How the phone is found is left to Discovery;   *)
(* CableTask composes the two.                                             *)
(*                                                                         *)
(* The websocket keeps order and may end at any time.  A plaintext is a    *)
(* short sequence: one number per byte that is looked at, one constant for *)
(* a payload.  A sealed message is its layout, its nonce and its plaintext;*)
(* it opens only with the same layout and nonce, the keys being right.     *)
(***************************************************************************)
EXTENDS Integers, Sequences

CONSTANTS
    None,
    GetInfo,        \* the payload of a post-handshake message
    Command,        \* the CTAP command the daemon sends
    Answer,         \* the CTAP response that belongs to it
    MaxExtras       \* bound: messages the phone or relay sends beyond the protocol's own

ASSUME CableTunnelAssumption ==
    /\ MaxExtras \in Nat
    /\ None \notin {"approved", "refused", "failed", Answer}
    /\ None \notin {0, 1} /\ None # <<Answer>>

VARIABLES
    (* the daemon's task *)
    pc,         \* where it awaits, or how it ended
    version,    \* protocol_version, once detected
    reader,     \* CipherState for what comes from the phone
    writer,     \* CipherState for what goes to it
    result,     \* the data it returns, or None
    (* the websocket *)
    up,         \* messages under way to the phone
    down,       \* messages under way to the daemon
    relay,      \* "open", "closed" in order, or "broken"
    (* the phone *)
    phone,      \* what it does
    model,      \* its protocol version, cipher layout and padding
    sealed,     \* messages it has encrypted
    opened,     \* messages it has decrypted
    verdict,    \* what its user decided, or None
    extras      \* messages beyond the protocol's own so far

daemonVars == <<pc, version, reader, writer, result>>
phoneVars == <<phone, model, sealed, opened, verdict, extras>>
vars == <<daemonVars, up, down, relay, phoneVars>>

Failures == {"Closed", "Error", "Panic"}
Ended == Failures \cup {"Done", "Aborted"}
CipherState == [nonce_type: {"Old", "New"}, n: 0..MaxExtras + 4]

(* A phone of revision 0 pads its post-handshake message, see              *)
(* detect_protocol_version.                                                *)
Models ==
    [version: {0, 1}, layout: {"Old", "New"}, padding: {"none", "8", "16", "full"}]
Phones == {m \in Models : m.version = 1 <=> m.padding = "none"}

TypeOK ==
    /\ pc \in {"discover", "handshake", "hello", "send", "answer"} \cup Ended
    /\ version \in {0, 1, None}
    /\ pc \in {"send", "answer", "Done"} => version # None
    /\ reader \in CipherState /\ writer \in CipherState
    /\ result # None <=> pc = "Done"
    /\ relay \in {"open", "closed", "broken"}
    /\ phone \in {"offline", "joined", "ready", "busy", "gone"}
    /\ model \in Phones
    /\ sealed \in Nat /\ opened \in Nat
    /\ verdict \in {"approved", "refused", None}
    /\ extras \in 0..MaxExtras

Init ==
    /\ pc = "discover" /\ version = None /\ result = None
    /\ reader = [nonce_type |-> "Old", n |-> 0]
    /\ writer = [nonce_type |-> "Old", n |-> 0]
    /\ up = <<>> /\ down = <<>> /\ relay = "open"
    /\ phone = "offline" /\ model \in Phones
    /\ sealed = 0 /\ opened = 0 /\ verdict = None /\ extras = 0

-----------------------------------------------------------------------------
(* The ciphers.                                                            *)

Seal(cipher, plain) ==
    [kind |-> "Sealed", nonce_type |-> cipher.nonce_type, n |-> cipher.n, plain |-> plain]

Opens(cipher, m) ==
    m.kind = "Sealed" /\ m.nonce_type = cipher.nonce_type /\ m.n = cipher.n

(* The cipher after the attempt to open m: the first message may show that *)
(* the peer uses the new construction.                                     *)
Tried(cipher, m) ==
    IF ~Opens(cipher, m) /\ cipher.nonce_type = "Old" /\ cipher.n = 0
    THEN [cipher EXCEPT !.nonce_type = "New"] ELSE cipher

Decrypts(m) == Opens(Tried(reader, m), m)

(* Crypter::decrypt when it succeeds: the writer follows the reader.       *)
BadWriterKeepsLayout(m) ==
    /\ reader' = [Tried(reader, m) EXCEPT !.n = @ + 1]
    /\ UNCHANGED writer

decrypt(m) ==
    /\ reader' = [Tried(reader, m) EXCEPT !.n = @ + 1]
    /\ writer' = [writer EXCEPT !.nonce_type = reader'.nonce_type]

-----------------------------------------------------------------------------
(* Frames.                                                                 *)

Shutdown == 0
Ctap == 1
Update == 2
Ok == 0

(* Chromium pads with zeros and a count of them, of 16 or of 8 bits, to    *)
(* blocks of 512 bytes.  Where the count is 0 only the block size shows it.*)
Aligned == {"16", "full"}

detect_protocol_version(padding) ==
    IF padding \in {"16", "8"} \cup Aligned THEN 0 ELSE 1

to_bytes(v, type, data) == IF v = 0 THEN data ELSE <<type>> \o data

TypeOf(v, plain) == IF v = 0 THEN Ctap ELSE plain[1]
DataOf(v, plain) == IF v = 0 THEN plain ELSE Tail(plain)

-----------------------------------------------------------------------------
(* The daemon.                                                             *)

Stop(how) == pc' = how /\ UNCHANGED <<version, reader, writer, result>>

(* stream.next() yields a message.                                         *)
Receive(kinds) == down # <<>> /\ Head(down).kind \in kinds /\ down' = Tail(down)

Bystanders == UNCHANGED <<up, relay, phoneVars>>

Waiting == pc \in {"handshake", "hello", "answer"}

(* The phone was found: connect to its relay and send the handshake.       *)
Connect ==
    /\ pc = "discover" /\ relay = "open"
    /\ up' = <<[kind |-> "Handshake"]>>
    /\ pc' = "handshake"
    /\ UNCHANGED <<version, reader, writer, result, down, relay, phoneVars>>

ConnectFails ==
    /\ pc = "discover" /\ relay # "open"
    /\ Stop("Error")
    /\ UNCHANGED down /\ Bystanders

(* It was not, see Discovery.                                              *)
NotFound ==
    /\ pc = "discover"
    /\ Stop("Error")
    /\ UNCHANGED down /\ Bystanders

(* A Ping is answered by the websocket itself; neither it nor a Pong ends a*)
(* wait.                                                                   *)
KeepWaiting ==
    /\ Waiting /\ Receive({"Ping", "Pong"})
    /\ UNCHANGED daemonVars /\ Bystanders

(* A Close frame, or the end of the stream.                                *)
BadCloseIsSkipped ==
    /\ Waiting
    /\ \/ Receive({"Close"})
       \/ down = <<>> /\ relay = "closed" /\ UNCHANGED down
    /\ UNCHANGED daemonVars /\ Bystanders

TunnelCloses ==
    /\ Waiting
    /\ \/ Receive({"Close"})
       \/ down = <<>> /\ relay = "closed" /\ UNCHANGED down
    /\ Stop("Closed")
    /\ Bystanders

(* A message that is no binary one, or any other error of the stream.      *)
TunnelFails ==
    /\ Waiting
    /\ \/ Receive({"Text"})
       \/ down = <<>> /\ relay = "broken" /\ UNCHANGED down
    /\ Stop("Error")
    /\ Bystanders

(* CableNoise::process_response.  A short message is an error unless it is *)
(* as long as the phone's key: then the rest has no room for the tag, see  *)
(* TooShort.                                                               *)
BadSkipsHello ==
    /\ pc = "handshake" /\ Receive({"Handshake", "Short", "Sealed"})
    /\ \/ Head(down).kind = "Handshake" /\ Stop("send")
       \/ Head(down).kind # "Handshake" /\ Stop("Error")
       \/ Head(down).kind = "Short" /\ Stop("Panic")
    /\ Bystanders

ProcessResponse ==
    /\ pc = "handshake" /\ Receive({"Handshake", "Short", "Sealed"})
    /\ \/ Head(down).kind = "Handshake" /\ Stop("hello")
       \/ Head(down).kind # "Handshake" /\ Stop("Error")
       \/ Head(down).kind = "Short" /\ Stop("Panic")
    /\ Bystanders

(* A message without room for the tag: buf.len() - 16 underflows.          *)
TooShort ==
    /\ pc \in {"hello", "answer"} /\ Receive({"Short"})
    /\ Stop("Panic")
    /\ Bystanders

Undecryptable ==
    /\ pc \in {"hello", "answer"} /\ Receive({"Sealed", "Handshake"})
    /\ ~Decrypts(Head(down))
    /\ Stop("Error")
    /\ Bystanders

(* The post-handshake message: a map with the phone's GetInfo.             *)
PostHandshake ==
    /\ pc = "hello" /\ Receive({"Sealed"}) /\ Decrypts(Head(down))
    /\ decrypt(Head(down))
    /\ LET plain == Head(down).plain IN
       IF Len(plain) = 2 /\ plain[1] = GetInfo
       THEN pc' = "send" /\ version' = detect_protocol_version(plain[2])
       ELSE pc' = "Error" /\ UNCHANGED version
    /\ UNCHANGED result /\ Bystanders

(* transmit_raw: the one command.                                          *)
SendCommand ==
    /\ pc = "send" /\ relay = "open"
    /\ up' = Append(up, Seal(writer, to_bytes(version, Ctap, <<Command>>)))
    /\ writer' = [writer EXCEPT !.n = @ + 1]
    /\ pc' = "answer"
    /\ UNCHANGED <<version, reader, result, down, relay, phoneVars>>

SendFails ==
    /\ pc = "send" /\ relay # "open"
    /\ Stop("Error")
    /\ UNCHANGED down /\ Bystanders

(* transmit_raw, from the frame recv returns: anything but a response or a *)
(* shutdown is logged and skipped, an empty message counts as a shutdown.  *)
BadTakesAnyFrame ==
    /\ pc = "answer" /\ Receive({"Sealed"}) /\ Decrypts(Head(down))
    /\ decrypt(Head(down))
    /\ LET data == DataOf(version, Head(down).plain) IN
       IF Head(down).plain = <<>> \/ data = <<>>
       THEN pc' = "Closed" /\ UNCHANGED result
       ELSE pc' = "Done" /\ result' = Tail(data)
    /\ UNCHANGED version /\ Bystanders

Frame ==
    /\ pc = "answer" /\ Receive({"Sealed"}) /\ Decrypts(Head(down))
    /\ decrypt(Head(down))
    /\ LET plain == Head(down).plain
           type == IF plain = <<>> THEN Shutdown ELSE TypeOf(version, plain)
           data == DataOf(version, plain) IN
       \/ type = Shutdown /\ pc' = "Closed" /\ UNCHANGED result
       \/ type \notin {Shutdown, Ctap} /\ UNCHANGED <<pc, result>>
       \/ /\ type = Ctap
          /\ \/ data = <<>> /\ pc' = "Closed" /\ UNCHANGED result
             \/ data # <<>> /\ data[1] # Ok /\ pc' = "Error" /\ UNCHANGED result
             \/ data # <<>> /\ data[1] = Ok /\ pc' = "Done" /\ result' = Tail(data)
    /\ UNCHANGED version /\ Bystanders

Daemon ==
    \/ KeepWaiting \/ TunnelCloses \/ TunnelFails \/ ProcessResponse \/ TooShort
    \/ Undecryptable \/ PostHandshake \/ SendCommand \/ SendFails \/ Frame

-----------------------------------------------------------------------------
(* The phone and the relay, external to the daemon.                        *)

Own == [nonce_type |-> model.layout, n |-> sealed]

PhoneSends(plain) ==
    /\ relay = "open"
    /\ down' = Append(down, Seal(Own, plain))
    /\ sealed' = sealed + 1

Join ==
    /\ phone = "offline" /\ up # <<>> /\ relay = "open"
    /\ up' = Tail(up) /\ down' = Append(down, [kind |-> "Handshake"])
    /\ phone' = "joined"
    /\ UNCHANGED <<daemonVars, relay, model, sealed, opened, verdict, extras>>

Greet ==
    /\ phone = "joined"
    /\ PhoneSends(<<GetInfo, model.padding>>)
    /\ phone' = "ready"
    /\ UNCHANGED <<daemonVars, up, relay, model, opened, verdict, extras>>

(* It hangs up on what it cannot read.                                     *)
Understood(m) ==
    /\ Opens([nonce_type |-> model.layout, n |-> opened], m)
    /\ m.plain = to_bytes(model.version, Ctap, <<Command>>)

TakeCommand ==
    /\ phone = "ready" /\ up # <<>>
    /\ up' = Tail(up) /\ opened' = opened + 1
    /\ phone' = IF Understood(Head(up)) THEN "busy" ELSE "gone"
    /\ UNCHANGED <<daemonVars, down, relay, model, sealed, verdict, extras>>

Approve ==
    /\ phone = "busy"
    /\ PhoneSends(to_bytes(model.version, Ctap, <<Ok, Answer>>))
    /\ phone' = "gone" /\ verdict' = "approved"
    /\ UNCHANGED <<daemonVars, up, relay, model, opened, extras>>

(* A status, no status, an empty message, or a shutdown where there is one.*)
Refusals(v) ==
    {to_bytes(v, Ctap, <<39>>), to_bytes(v, Ctap, <<>>), <<>>}
    \cup {<<Shutdown>> : w \in {v} \ {0}}

Refuse ==
    /\ phone = "busy"
    /\ \E plain \in Refusals(model.version) : PhoneSends(plain)
    /\ phone' = "gone" /\ verdict' = "refused"
    /\ UNCHANGED <<daemonVars, up, relay, model, opened, extras>>

(* Linking information, or a frame of a kind to come.                      *)
SendUpdate ==
    /\ phone \in {"ready", "busy"} /\ model.version = 1 /\ extras < MaxExtras
    /\ \E type \in {Update, 3} : PhoneSends(<<type, Ok>>)
    /\ extras' = extras + 1
    /\ UNCHANGED <<daemonVars, up, relay, phone, model, opened, verdict>>

(* Messages of the websocket itself.                                       *)
SendControl ==
    /\ pc # "discover" /\ relay = "open" /\ extras < MaxExtras
    /\ \E kind \in {"Ping", "Pong", "Text", "Short", "Close"} :
          down' = Append(down, [kind |-> kind])
    /\ extras' = extras + 1
    /\ UNCHANGED <<daemonVars, up, relay, phone, model, sealed, opened, verdict>>

(* The connection ends in order after what was sent, or at once; or the    *)
(* relay cannot be reached at all.                                         *)
EndConnection ==
    /\ relay = "open"
    /\ relay' \in {"closed", "broken"}
    /\ down' = IF relay' = "broken" THEN <<>> ELSE down
    /\ UNCHANGED <<daemonVars, up, phoneVars>>

(* The main loop gives up: abort() drops the task where it awaits.         *)
Abort ==
    /\ pc \notin Ended
    /\ Stop("Aborted")
    /\ UNCHANGED down /\ Bystanders

Peers ==
    \/ Join \/ Greet \/ TakeCommand \/ Approve \/ Refuse \/ SendUpdate
    \/ SendControl \/ EndConnection

Next == Connect \/ ConnectFails \/ NotFound \/ Daemon \/ Abort \/ Peers

Spec == Init /\ [][Next]_vars

-----------------------------------------------------------------------------
Outcome ==
    CASE pc = "Done" -> IF result = <<Answer>> THEN Answer ELSE result
      [] pc \in Failures \cup {"Aborted"} -> "failed"
      [] OTHER -> None

(* The abstract remote command.                                            *)
R == INSTANCE RemoteCommand WITH outcome <- Outcome

(* The task returns data only if the user of the phone approved this       *)
(* command, and then exactly its response; linking frames, refusals, empty *)
(* and shutdown messages and the ends of the connection are never taken for*)
(* one (tunnel.rs:521-550).                                                *)
KeepsRemoteCommand == R!Spec

(* The phone understands the command the daemon sends: the detected version*)
(* is the phone's, and the daemon encrypts in the phone's layout with the  *)
(* nonce it expects, although its own cipher started in the old one        *)
(* (noise.rs:180-184, tunnel.rs:308).                                      *)
CommandUnderstood ==
    \A i \in 1..Len(up) : up[i].kind = "Sealed" => Understood(up[i])
=============================================================================
