----------------------------- MODULE Discovery -----------------------------
(***************************************************************************)
(* How a transaction finds the phone that scanned its QR code              *)
(* (connect_cable_tunnel in cable/mod.rs, discovery.rs and btle.rs): the   *)
(* spawned task that passes Bluetooth advertisements on, the bounded       *)
(* channel, and the caBLE task that waits for one it can decrypt.  Every   *)
(* transaction has its own; CableTask composes this with the tunnel.       *)
(***************************************************************************)
EXTENDS Integers, Sequences

CONSTANT Capacity   \* of the channel (100)

VARIABLES
    waiter,     \* the caBLE task
    scan,       \* the scanning task
    pending,    \* what that task is about to send
    rx          \* the channel

discoveryVars == <<waiter, scan, pending, rx>>

(* A stranger's is whatever this QR code's key does not open: another      *)
(* session's, an earlier transaction's phone, junk, or a phone whose tunnel*)
(* server nobody knows.                                                    *)
Adverts == {"phone", "stranger"}

TypeOK ==
    /\ waiter \in {"starting", "waiting", "found", "failed", "aborted"}
    /\ scan \in {"none", "scanning", "sending", "stopped"}
    /\ pending \in Adverts
    /\ rx \in Seq(Adverts) /\ Len(rx) <= Capacity
    /\ waiter = "waiting" => scan # "none"

Init == waiter = "starting" /\ scan = "none" /\ pending = "stranger" /\ rx = <<>>

-----------------------------------------------------------------------------
(* The caBLE task.                                                         *)

(* Scanner::new() or scan() may fail: no adapter, no permission.           *)
Begin ==
    /\ waiter = "starting"
    /\ \/ waiter' = "waiting" /\ scan' = "scanning"
       \/ waiter' = "failed" /\ UNCHANGED scan
    /\ UNCHANGED <<pending, rx>>

(* The key of the QR code decrypts nothing else.                           *)
decrypt_advert(advert) == advert = "phone"

BadStrangerFails ==
    /\ waiter = "waiting" /\ rx # <<>>
    /\ IF decrypt_advert(Head(rx))
       THEN waiter' = "found" /\ rx' = <<>>
       ELSE waiter' = "failed" /\ rx' = <<>>
    /\ UNCHANGED <<scan, pending>>

(* What does not decrypt is skipped; after a match the channel is closed   *)
(* and gone.                                                               *)
Receive ==
    /\ waiter = "waiting" /\ rx # <<>>
    /\ IF decrypt_advert(Head(rx))
       THEN waiter' = "found" /\ rx' = <<>>
       ELSE rx' = Tail(rx) /\ UNCHANGED waiter
    /\ UNCHANGED <<scan, pending>>

(* The channel is drained and its sender gone.                             *)
NoSelectedToken ==
    /\ waiter = "waiting" /\ rx = <<>> /\ scan = "stopped"
    /\ waiter' = "failed"
    /\ UNCHANGED <<scan, pending, rx>>

Abort ==
    /\ waiter \in {"starting", "waiting"}
    /\ waiter' = "aborted" /\ rx' = <<>>
    /\ UNCHANGED <<scan, pending>>

-----------------------------------------------------------------------------
(* The scanning task, which abort() does not touch.                        *)

(* rx.close() after a match, otherwise its drop.                           *)
Closed == waiter # "waiting"

StopScan == scan' = "stopped" /\ UNCHANGED <<pending, rx>>

(* The adapter reports something: an advertisement of the caBLE services   *)
(* or anything else.                                                       *)
Event ==
    /\ scan = "scanning"
    /\ \/ Closed /\ StopScan
       \/ /\ ~Closed
          /\ scan' = "sending" /\ pending' \in Adverts
          /\ UNCHANGED rx
    /\ UNCHANGED waiter

(* An event may hold an advertisement for each of the two services.        *)
Forward ==
    /\ ~Closed /\ Len(rx) < Capacity
    /\ rx' = Append(rx, pending)
    /\ \/ scan' = "scanning" /\ pending' = "stranger"
       \/ scan' = "sending" /\ pending' \in Adverts


(* send().await: waits for room, or fails once the channel is closed.      *)
Send ==
    /\ scan = "sending"
    /\ Forward \/ (Closed /\ StopScan)
    /\ UNCHANGED waiter

(* The adapter goes away.                                                  *)
EventsEnd == scan = "scanning" /\ StopScan /\ UNCHANGED waiter

Scan == Event \/ Send \/ EventsEnd

Next == Begin \/ Receive \/ NoSelectedToken \/ Abort \/ Scan

Spec == Init /\ [][Next]_discoveryVars
=============================================================================
