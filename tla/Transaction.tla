---------------------------- MODULE Transaction ----------------------------
(***************************************************************************)
(* The daemon's main loop and handle_cable_transaction (src/src/main.rs),  *)
(* the spawned caBLE task, the BridgeUi the two share (src/src/bridge_ui.rs*)
(* ), the modal child process with its user, and the clients of the virtual*)
(* device.                                                                 *)
(*                                                                         *)
(* The main loop, every task, every modal and every client take steps of   *)
(* their own.  Transaction t's task may outlive it: abort() is not awaited *)
(* and takes effect only where the task awaits.  CTAPHID messages are whole*)
(* (see CtapHid), the engine is reduced to its cooldown (see BridgeEngine).*)
(***************************************************************************)
EXTENDS Integers, Sequences

CONSTANTS
    Channels,       \* one client each
    None,
    MaxRequests,    \* bound: CBOR requests ever sent, hence transactions
    MaxInbox        \* bound: messages not yet read by the bridge

Tx == 1..MaxRequests

Outcomes == {"Success", "UserCancelled", "HostCancelled", "HostReset", "Failed"}

ASSUME TransactionAssumption ==
    /\ MaxRequests \in Nat /\ MaxInbox \in Nat
    /\ None \notin Channels /\ None \notin Outcomes
    /\ None \notin [channel: Channels, serial: 0..MaxRequests]

Commands == {"Cbor", "Cancel", "Init"}
Message == [channel: Channels, command: Commands, serial: 0..MaxRequests]
Packet ==
    [channel: Channels, kind: {"KeepAlive", "Cbor", "Init", "Error"},
     serial: 0..MaxRequests]

VARIABLES
    (* the main task *)
    pc,         \* "idle", the loop's checks, or after the loop
    tx,         \* the number of this or the last transaction, 0 before any
    channel,    \* the channel it serves
    serving,    \* the serial of its request
    cooldown,   \* whether the engine is in its cooldown
    outcome,    \* tx -> TransactionResult, or None while it runs
    (* the caBLE tasks *)
    task,       \* tx -> where the task is
    aborted,    \* tx -> abort() was called
    result,     \* tx -> what the task returned, or None
    (* BridgeUi and the modal process *)
    child,      \* tx -> whether the child slot holds a process
    stdin,      \* tx -> whether the stdin slot holds a pipe
    cancelled,  \* tx -> the shared flag
    modal,      \* tx -> the process itself
    (* the clients *)
    inbox,      \* messages written and not yet read
    packet,     \* what the last step wrote to a client, or None
    client,     \* channel -> what its client does
    asked,      \* channel -> serial of its last request
    hasty,      \* channel -> whether it sent Cancel for that request
    serial      \* CBOR requests sent so far

mainVars   == <<pc, tx, channel, serving, cooldown, outcome>>
taskVars   == <<task, result>>
uiVars     == <<child, stdin, cancelled, modal>>
clientVars == <<inbox, client, asked, hasty, serial>>
vars == <<mainVars, taskVars, aborted, uiVars, packet, clientVars>>

TypeOK ==
    /\ pc \in {"idle", "finished?", "cancelled?", "read", "showing", "leave"}
    /\ tx \in 0..MaxRequests
    /\ pc # "idle" => tx \in Tx
    /\ channel \in Channels \cup {None}
    /\ serving \in 0..MaxRequests
    /\ cooldown \in BOOLEAN
    /\ outcome \in [Tx -> Outcomes \cup {None}]
    /\ task \in [Tx -> {"none", "starting", "spawned", "piped", "waiting",
                        "returning", "finished"}]
    /\ result \in [Tx -> {"ok", "err", None}]
    /\ aborted \in [Tx -> BOOLEAN]
    /\ child \in [Tx -> BOOLEAN] /\ stdin \in [Tx -> BOOLEAN]
    /\ cancelled \in [Tx -> BOOLEAN]
    /\ modal \in [Tx -> {"none", "running", "success", "cancel", "crashed", "killed"}]
    /\ inbox \in Seq(Message) /\ Len(inbox) <= MaxInbox
    /\ packet \in Packet \cup {None}
    /\ client \in [Channels -> {"idle", "waiting", "syncing"}]
    /\ asked \in [Channels -> 0..MaxRequests]
    /\ hasty \in [Channels -> BOOLEAN]
    /\ serial \in 0..MaxRequests

Init ==
    /\ pc = "idle" /\ tx = 0 /\ channel = None /\ serving = 0 /\ cooldown = FALSE
    /\ outcome = [t \in Tx |-> None]
    /\ task = [t \in Tx |-> "none"] /\ result = [t \in Tx |-> None]
    /\ aborted = [t \in Tx |-> FALSE]
    /\ child = [t \in Tx |-> FALSE] /\ stdin = [t \in Tx |-> FALSE]
    /\ cancelled = [t \in Tx |-> FALSE] /\ modal = [t \in Tx |-> "none"]
    /\ inbox = <<>> /\ packet = None
    /\ client = [c \in Channels |-> "idle"] /\ asked = [c \in Channels |-> 0]
    /\ hasty = [c \in Channels |-> FALSE] /\ serial = 0

-----------------------------------------------------------------------------
(* Writing to a client.  A client that waits takes a CBOR or an error      *)
(* packet for its answer; one that resynchronises discards everything up to*)
(* the reply to its INIT.                                                  *)

Ends(c, kind) ==
    \/ client[c] = "waiting" /\ kind \in {"Cbor", "Error"}
    \/ client[c] = "syncing" /\ kind = "Init"

Receives(c, kind) ==
    client' = IF Ends(c, kind) THEN [client EXCEPT ![c] = "idle"] ELSE client

Write(c, kind, s) ==
    /\ packet' = [channel |-> c, kind |-> kind, serial |-> s]
    /\ Receives(c, kind)

WriteNothing == packet' = None /\ UNCHANGED client

-----------------------------------------------------------------------------
(* BridgeUi.                                                               *)

(* kill() on a process that has already exited does nothing.               *)
Killed(state) == IF state = "running" THEN "killed" ELSE state

(* Take the process out of the child slot, if there is one, and kill it.   *)
KillChild(t) ==
    /\ child' = [child EXCEPT ![t] = FALSE]
    /\ modal' = IF child[t] THEN [modal EXCEPT ![t] = Killed(@)] ELSE modal

close(t) ==
    /\ cancelled' = [cancelled EXCEPT ![t] = TRUE]
    /\ KillChild(t)

(* Dropping any clone kills the shared child.                              *)
BadDropKeepsChild(t) == UNCHANGED <<child, modal>>

Drop(t) == KillChild(t)

(* What is_cancelled answers: the flag, or the exit status of the child.   *)
BadAnyExitCancels(t) ==
    cancelled[t] \/ (child[t] /\ modal[t] \in {"cancel", "crashed"})

BadOnlyTheFlag(t) == cancelled[t]

UserHasCancelled(t) == cancelled[t] \/ (child[t] /\ modal[t] = "cancel")

(* A child that died otherwise is forgotten.                               *)
ForgetCrashed(t) == child' = [child EXCEPT ![t] = @ /\ modal[t] # "crashed"]

(* DONE reaches the modal only if it still runs.                           *)
notify_done(t) ==
    modal' = IF stdin[t] /\ modal[t] = "running"
             THEN [modal EXCEPT ![t] = "success"] ELSE modal

-----------------------------------------------------------------------------
(* The idle loop.                                                          *)

Reads(command) == inbox # <<>> /\ Head(inbox).command = command

BadPeeks == UNCHANGED <<inbox, asked, hasty, serial>>

Consume == inbox' = Tail(inbox) /\ UNCHANGED <<asked, hasty, serial>>

(* GetInfo, probes, dummy requests, the cache, and everything refused in   *)
(* the cooldown: answered at once.                                         *)
AnswerLocally ==
    /\ pc = "idle" /\ Reads("Cbor")
    /\ Consume
    /\ Write(Head(inbox).channel, "Cbor", Head(inbox).serial)
    /\ UNCHANGED <<mainVars, taskVars, aborted, uiVars>>

StartTransaction ==
    /\ pc = "idle" /\ Reads("Cbor") /\ ~cooldown
    /\ Consume
    /\ pc' = "finished?" /\ tx' = tx + 1
    /\ channel' = Head(inbox).channel /\ serving' = Head(inbox).serial
    /\ task' = [task EXCEPT ![tx + 1] = "starting"]
    /\ WriteNothing
    /\ UNCHANGED <<cooldown, outcome, result, aborted, uiVars>>

IdleInit ==
    /\ pc = "idle" /\ Reads("Init")
    /\ Consume
    /\ Write(Head(inbox).channel, "Init", 0)
    /\ UNCHANGED <<mainVars, taskVars, aborted, uiVars>>

(* CANCEL is no command of the idle loop.                                  *)
IdleCancel ==
    /\ pc = "idle" /\ Reads("Cancel")
    /\ Consume
    /\ Write(Head(inbox).channel, "Error", 0)
    /\ UNCHANGED <<mainVars, taskVars, aborted, uiVars>>

CooldownEnds ==
    /\ cooldown
    /\ cooldown' = FALSE
    /\ packet' = None
    /\ UNCHANGED <<pc, tx, channel, serving, outcome, taskVars, aborted, uiVars, clientVars>>

-----------------------------------------------------------------------------
(* The loop of handle_cable_transaction.                                   *)

(* What follows the loop: handle_transaction_outcome and its answer.       *)
EndSuccess ==
    /\ outcome' = [outcome EXCEPT ![tx] = "Success"]
    /\ notify_done(tx)
    /\ Write(channel, "Cbor", serving)
    /\ pc' = "showing"
    /\ UNCHANGED <<cooldown, child, stdin, cancelled>>

EndOtherwise(r) ==
    /\ outcome' = [outcome EXCEPT ![tx] = r]
    /\ cooldown' = TRUE
    /\ close(tx)
    /\ pc' = "leave"
    /\ UNCHANGED stdin

Abort == aborted' = [aborted EXCEPT ![tx] = TRUE]

NotFinished ==
    /\ pc = "finished?" /\ task[tx] # "finished"
    /\ pc' = "cancelled?"
    /\ WriteNothing
    /\ UNCHANGED <<tx, channel, serving, cooldown, outcome, taskVars, aborted, uiVars,
                   inbox, asked, hasty, serial>>

TaskFinished ==
    /\ pc = "finished?" /\ task[tx] = "finished"
    /\ \/ result[tx] = "ok" /\ EndSuccess
       \/ result[tx] # "ok" /\ EndOtherwise("Failed") /\ Write(channel, "Cbor", serving)
    /\ UNCHANGED <<tx, channel, serving, taskVars, aborted, inbox, asked, hasty, serial>>

UserCancelled ==
    /\ pc = "cancelled?" /\ UserHasCancelled(tx)
    /\ Abort
    /\ EndOtherwise("UserCancelled")
    /\ Write(channel, "Cbor", serving)
    /\ UNCHANGED <<tx, channel, serving, taskVars, inbox, asked, hasty, serial>>

(* A keepalive is sent when the last one is 100 ms old.                    *)
NotCancelled ==
    /\ pc = "cancelled?" /\ ~UserHasCancelled(tx)
    /\ ForgetCrashed(tx)
    /\ pc' = "read"
    /\ WriteNothing \/ Write(channel, "KeepAlive", serving)
    /\ UNCHANGED <<tx, channel, serving, cooldown, outcome, taskVars, aborted,
                   stdin, cancelled, modal, inbox, asked, hasty, serial>>

(* One message is read per round, then the loop sleeps.                    *)
NextRound ==
    /\ pc' = "finished?"
    /\ UNCHANGED <<tx, channel, serving, cooldown, outcome, taskVars, aborted, uiVars>>

NothingToRead ==
    /\ pc = "read" /\ inbox = <<>>
    /\ NextRound /\ WriteNothing
    /\ UNCHANGED <<inbox, asked, hasty, serial>>

BadCancelIgnored ==
    /\ pc = "read" /\ Reads("Cancel") /\ Head(inbox).channel = channel
    /\ Consume
    /\ NextRound /\ WriteNothing

HostCancel ==
    /\ pc = "read" /\ Reads("Cancel") /\ Head(inbox).channel = channel
    /\ Consume
    /\ Abort
    /\ EndOtherwise("HostCancelled")
    /\ Write(channel, "Cbor", serving)
    /\ UNCHANGED <<tx, channel, serving, taskVars>>

BadResetAnswered ==
    /\ pc = "read" /\ Reads("Init") /\ Head(inbox).channel = channel
    /\ Consume
    /\ NextRound
    /\ Write(channel, "Init", 0)

HostReset ==
    /\ pc = "read" /\ Reads("Init") /\ Head(inbox).channel = channel
    /\ Consume
    /\ Abort
    /\ EndOtherwise("HostReset")
    /\ Write(channel, "Init", 0)
    /\ UNCHANGED <<tx, channel, serving, taskVars>>

OtherInit ==
    /\ pc = "read" /\ Reads("Init") /\ Head(inbox).channel # channel
    /\ Consume
    /\ Write(Head(inbox).channel, "Init", 0)
    /\ NextRound

(* Another channel's CANCEL, and any CBOR request, are dropped unanswered. *)
Ignored ==
    /\ pc = "read"
    /\ Reads("Cbor") \/ (Reads("Cancel") /\ Head(inbox).channel # channel)
    /\ Consume
    /\ NextRound /\ WriteNothing

(* The 300 ms after a success.                                             *)
Shown ==
    /\ pc = "showing"
    /\ pc' = "leave"
    /\ packet' = None
    /\ UNCHANGED <<tx, channel, serving, cooldown, outcome, taskVars, aborted, uiVars,
                   clientVars>>

(* bridge_ui goes out of scope.                                            *)
Leave ==
    /\ pc = "leave"
    /\ Drop(tx)
    /\ pc' = "idle" /\ channel' = None /\ serving' = 0
    /\ packet' = None
    /\ UNCHANGED <<tx, cooldown, outcome, taskVars, aborted, stdin, cancelled, clientVars>>

Main ==
    \/ AnswerLocally \/ StartTransaction \/ IdleInit \/ IdleCancel
    \/ NotFinished \/ TaskFinished
    \/ UserCancelled \/ NotCancelled
    \/ NothingToRead \/ HostCancel \/ HostReset \/ OtherInit \/ Ignored
    \/ Shown \/ Leave

-----------------------------------------------------------------------------
(* The caBLE task of transaction t: connect_cable_tunnel shows the QR code *)
(* (cable_qr_code spawns the modal, stores its pipe, then the process) and *)
(* waits for the phone.                                                    *)

TaskUnchanged == packet' = None /\ UNCHANGED <<mainVars, aborted, clientVars>>

SpawnModal(t) ==
    /\ task[t] = "starting"
    /\ \/ task' = [task EXCEPT ![t] = "spawned"] /\ modal' = [modal EXCEPT ![t] = "running"]
       \/ task' = [task EXCEPT ![t] = "waiting"] /\ UNCHANGED modal  \* spawn() failed
    /\ UNCHANGED <<result, child, stdin, cancelled>> /\ TaskUnchanged

StorePipe(t) ==
    /\ task[t] = "spawned"
    /\ task' = [task EXCEPT ![t] = "piped"]
    /\ stdin' = [stdin EXCEPT ![t] = TRUE]
    /\ UNCHANGED <<result, child, cancelled, modal>> /\ TaskUnchanged

StoreChild(t) ==
    /\ task[t] = "piped"
    /\ task' = [task EXCEPT ![t] = "waiting"]
    /\ child' = [child EXCEPT ![t] = TRUE]
    /\ UNCHANGED <<result, stdin, cancelled, modal>> /\ TaskUnchanged

(* The phone answers, the tunnel breaks, or connecting fails early on.     *)
Return(t, r) ==
    /\ task[t] = "waiting" \/ (task[t] = "starting" /\ r = "err")
    /\ task' = [task EXCEPT ![t] = "returning"]
    /\ result' = [result EXCEPT ![t] = r]
    /\ UNCHANGED uiVars /\ TaskUnchanged

(* The future, and the clone of BridgeUi in it, is dropped before the task *)
(* counts as finished; abort() drops it at an await.                       *)
Finish(t) ==
    /\ task[t] = "returning" \/ (aborted[t] /\ task[t] \in {"starting", "waiting"})
    /\ task' = [task EXCEPT ![t] = "finished"]
    /\ Drop(t)
    /\ UNCHANGED <<result, stdin, cancelled>> /\ TaskUnchanged

Task(t) == SpawnModal(t) \/ StorePipe(t) \/ StoreChild(t) \/ Finish(t)

(* The user, or the lack of a display.                                     *)
ModalExits(t, how) ==
    /\ modal[t] = "running"
    /\ modal' = [modal EXCEPT ![t] = how]
    /\ packet' = None
    /\ UNCHANGED <<mainVars, taskVars, aborted, child, stdin, cancelled, clientVars>>

-----------------------------------------------------------------------------
(* The clients: one request at a time, perhaps cancelled once, or a        *)
(* resynchronisation at any time.  A client that has sent CANCEL starts    *)
(* over with INIT before its next request: main.rs:119 answers a CANCEL    *)
(* that comes too late with an error, which a client that already waits for*)
(* its next request could not tell from that request's answer.             *)

Send(c, command, s) ==
    /\ Len(inbox) < MaxInbox
    /\ inbox' = Append(inbox, [channel |-> c, command |-> command, serial |-> s])
    /\ packet' = None
    /\ UNCHANGED <<mainVars, taskVars, aborted, uiVars>>

SendCbor(c) ==
    /\ client[c] = "idle" /\ ~hasty[c] /\ serial < MaxRequests
    /\ serial' = serial + 1
    /\ Send(c, "Cbor", serial + 1)
    /\ client' = [client EXCEPT ![c] = "waiting"]
    /\ asked' = [asked EXCEPT ![c] = serial + 1]
    /\ UNCHANGED hasty

SendCancel(c) ==
    /\ client[c] = "waiting" /\ ~hasty[c]
    /\ Send(c, "Cancel", 0)
    /\ hasty' = [hasty EXCEPT ![c] = TRUE]
    /\ UNCHANGED <<client, asked, serial>>

SendInit(c) ==
    /\ client[c] # "syncing"
    /\ Send(c, "Init", 0)
    /\ client' = [client EXCEPT ![c] = "syncing"]
    /\ hasty' = [hasty EXCEPT ![c] = FALSE]
    /\ UNCHANGED <<asked, serial>>

Next ==
    \/ Main
    \/ CooldownEnds
    \/ \E t \in Tx : Task(t)
    \/ \E t \in Tx, r \in {"ok", "err"} : Return(t, r)
    \/ \E t \in Tx, how \in {"cancel", "crashed"} : ModalExits(t, how)
    \/ \E c \in Channels : SendCbor(c) \/ SendCancel(c) \/ SendInit(c)

(* The daemon's thread and tokio's workers keep running; neither the phone,*)
(* the user nor a client need ever do anything.                            *)
Fairness == WF_vars(Main) /\ \A t \in Tx : WF_vars(Task(t))

Spec == Init /\ [][Next]_vars /\ Fairness

-----------------------------------------------------------------------------
(* Properties.                                                             *)

(* Keepalives and CBOR answers go to a client that waits for exactly that  *)
(* request, or that discards them while it resynchronises: never a second  *)
(* answer, none after a reset, none for an earlier request (main.rs:188-   *)
(* 251, 253-297).                                                          *)
AnswersOwnRequest ==
    [][packet' # None /\ packet'.kind \in {"KeepAlive", "Cbor"} =>
         LET c == packet'.channel IN
         client[c] = "syncing" \/ (client[c] = "waiting" /\ asked[c] = packet'.serial)]_vars

(* A transaction is reported as cancelled by the user only if the user did *)
(* so: a modal that dies without a display leaves the terminal QR code     *)
(* (bridge_ui.rs:36-49).                                                   *)
OnlyUserCancels ==
    \A t \in Tx : outcome[t] = "UserCancelled" => modal[t] = "cancel"

(* Once a transaction is over its modal is gone for good, even if the task *)
(* was about to open it when it was aborted (bridge_ui.rs:163-173,         *)
(* 212-221, main.rs:201-231).                                              *)
NoOrphanModal ==
    \A t \in Tx : outcome[t] # None ~> [](modal[t] # "running")

(* A click on Cancel ends the transaction (bridge_ui.rs:29-52).            *)
UserCancelEnds ==
    \A t \in Tx : modal[t] = "cancel" ~> outcome[t] # None

(* A client whose request is on the phone gets an answer once it sends     *)
(* CANCEL, whatever others put in front of it (main.rs:212-223).           *)
HostCancelEnds ==
    \A c \in Channels :
        (channel = c /\ client[c] = "waiting" /\ asked[c] = serving /\ hasty[c])
            ~> client[c] # "waiting"

(* The ceremony in progress, for Ceremony: from the start of a transaction *)
(* to the packet that ends it.                                             *)
Open ==
    IF pc \in {"finished?", "cancelled?", "read"}
    THEN [channel |-> channel, serial |-> serving] ELSE None

C == INSTANCE Ceremony WITH open <- Open, Serials <- 0..MaxRequests

(* Whatever the tasks, the modals and the users do in between, the loop is *)
(* a sequence of ceremonies, each ended by one answer or one reset and     *)
(* none with anything else written to its client (main.rs:75-132, 188-297).*)
KeepsCeremony == C!Spec

(* main.rs:283: "Allow UI modal 300ms to render the success checkmark      *)
(* animation before closing".                                              *)
SuccessShown == pc = "showing" => modal[tx] # "killed"
=============================================================================
