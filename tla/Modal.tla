------------------------------- MODULE Modal -------------------------------
(***************************************************************************)
(* The modal process (src/src/ui.rs): a thread that turns the lines of its *)
(* standard input into commands, the window that drains them once a frame, *)
(* the user, and the exit code, which is all the daemon reads (see         *)
(* Transaction).  The writer of the input is the daemon or, in the preview *)
(* of README.md:188, a terminal, hence any lines in any order.             *)
(***************************************************************************)
EXTENDS Integers, Sequences, Functions

CONSTANTS
    None,
    Texts,          \* what may follow STATUS:
    MaxLines,       \* bound: lines ever written
    DismissAfter    \* the 500 ms, in ticks of the clock

Lines == Texts \cup {"QR_SCANNED", "DISMISS", "DONE", "other"}
Commands == Texts \cup {"QrScanned", "Done"}
Status == Texts \cup {"scan", "connected", "Done!"}

CableModalApp ==
    [status: Status, is_success: BOOLEAN, qr_scanned: BOOLEAN,
     dismiss_at: 0..(DismissAfter + 1) \cup {None}]

Picture == [status: Status, cancel: BOOLEAN]

(* "success" is 0, "error" 1 and "cancel" 2, which is EXIT_CODE_CANCEL.    *)
Exits == {"success", "error", "cancel", "killed"}

(* No status text reads like one of the names that stand for the window's  *)
(* own texts, or like a command.                                           *)
ASSUME ModalAssumption ==
    /\ MaxLines \in Nat /\ DismissAfter \in Nat
    /\ Texts \cap {"QR_SCANNED", "DISMISS", "DONE", "other",
                   "QrScanned", "Done", "scan", "connected", "Done!"} = {}
    /\ None \notin CableModalApp /\ None \notin Picture
    /\ None \notin 0..(DismissAfter + 1)
    /\ None \notin Exits \cup {"user", "self"}

VARIABLES
    input,      \* lines written and not yet read
    written,    \* all lines written so far
    eof,        \* the writer has closed its end
    worker,     \* the thread: "reading" or "ended"
    cmd_rx,     \* commands sent to the window and not yet received
    window,     \* CableModalApp, or None before run_native made one
    painted,    \* what the last frame showed, or None
    clicked,    \* a click on Cancel the next frame will see
    acted,      \* whether the user ever clicked it or closed the window
    closing,    \* who asked the window to close: "user", "self" or None
    exit        \* None while it runs, then how its exit code reads

inputVars == <<input, written, eof>>
windowVars == <<window, painted, clicked, acted, closing, exit>>
vars == <<inputVars, worker, cmd_rx, windowVars>>

TypeOK ==
    /\ input \in Seq(Lines) /\ written \in Seq(Lines) /\ eof \in BOOLEAN
    /\ worker \in {"reading", "ended"}
    /\ cmd_rx \in Seq(Commands)
    /\ window \in CableModalApp \cup {None}
    /\ window # None => (window.is_success <=> window.dismiss_at # None)
    /\ painted \in Picture \cup {None}
    /\ clicked \in BOOLEAN /\ acted \in BOOLEAN
    /\ closing \in {"user", "self", None}
    /\ exit \in Exits \cup {None}

Init ==
    /\ input = <<>> /\ written = <<>> /\ eof = FALSE
    /\ worker = "reading" /\ cmd_rx = <<>>
    /\ window = None /\ painted = None
    /\ clicked = FALSE /\ acted = FALSE /\ closing = None /\ exit = None

Running == exit = None

-----------------------------------------------------------------------------
(* The writer of the input.                                                *)

WriteLine ==
    /\ Running /\ ~eof /\ Len(written) < MaxLines
    /\ \E line \in Lines :
          input' = Append(input, line) /\ written' = Append(written, line)
    /\ UNCHANGED <<eof, worker, cmd_rx, windowVars>>

(* The daemon drops its end of the pipe, or dies.                          *)
CloseInput ==
    /\ Running /\ ~eof
    /\ eof' = TRUE
    /\ UNCHANGED <<input, written, worker, cmd_rx, windowVars>>

Kill ==
    /\ Running
    /\ exit' = "killed"
    /\ UNCHANGED <<inputVars, worker, cmd_rx, window, painted, clicked, acted, closing>>

-----------------------------------------------------------------------------
(* The thread.  Lines that are no command are skipped.                     *)

CommandsOf(line) ==
    CASE line \in {"QR_SCANNED", "DISMISS"} -> <<"QrScanned">>
      [] line = "DONE" -> <<"Done">>
      [] line \in Texts -> <<line>>
      [] OTHER -> <<>>

BadReadsOn ==
    /\ Running /\ worker = "reading" /\ input # <<>>
    /\ input' = Tail(input)
    /\ cmd_rx' = cmd_rx \o CommandsOf(Head(input))
    /\ UNCHANGED <<worker, written, eof, windowVars>>

(* It stops at DONE.                                                       *)
ReadLine ==
    /\ Running /\ worker = "reading" /\ input # <<>>
    /\ input' = Tail(input)
    /\ cmd_rx' = cmd_rx \o CommandsOf(Head(input))
    /\ worker' = IF Head(input) = "DONE" THEN "ended" ELSE worker
    /\ UNCHANGED <<written, eof, windowVars>>

EndOfInput ==
    /\ Running /\ worker = "reading" /\ input = <<>> /\ eof
    /\ worker' = "ended"
    /\ UNCHANGED <<inputVars, cmd_rx, windowVars>>

-----------------------------------------------------------------------------
(* The window.                                                             *)

(* run_native makes the window, or fails and main returns the error.       *)
Start ==
    /\ Running /\ window = None
    /\ \/ /\ window' = [status |-> "scan", is_success |-> FALSE, qr_scanned |-> FALSE,
                        dismiss_at |-> None]
          /\ UNCHANGED exit
       \/ exit' = "error" /\ UNCHANGED window
    /\ UNCHANGED <<inputVars, worker, cmd_rx, painted, clicked, acted, closing>>

StatusOf(command) ==
    CASE command = "QrScanned" -> "connected"
      [] command = "Done" -> "Done!"
      [] OTHER -> command

BadNoDismissal(w, commands) ==
    [status     |-> IF commands = <<>> THEN w.status ELSE StatusOf(commands[Len(commands)]),
     is_success |-> w.is_success \/ "Done" \in Range(commands),
     qr_scanned |-> w.qr_scanned \/ "QrScanned" \in Range(commands),
     dismiss_at |-> w.dismiss_at]

(* A frame receives all that was sent, in order: each command sets its     *)
(* flags, and the last one has the say about the text.                     *)
Received(w, commands) ==
    [status     |-> IF commands = <<>> THEN w.status ELSE StatusOf(commands[Len(commands)]),
     is_success |-> w.is_success \/ "Done" \in Range(commands),
     qr_scanned |-> w.qr_scanned \/ "QrScanned" \in Range(commands),
     dismiss_at |-> IF "Done" \in Range(commands) THEN 0 ELSE w.dismiss_at]

Expired(w) == w.dismiss_at # None /\ w.dismiss_at > DismissAfter

(* One frame: drain the commands, close when the time is up, otherwise     *)
(* paint and look at the Cancel button, if there is one.                   *)
Frame ==
    /\ Running /\ window # None
    /\ cmd_rx' = <<>>
    /\ window' = Received(window, cmd_rx)
    /\ IF Expired(window')
       THEN closing' = "self" /\ UNCHANGED <<painted, exit>>
       ELSE /\ painted' = [status |-> window'.status, cancel |-> ~window'.is_success]
            /\ exit' = IF clicked /\ ~window'.is_success THEN "cancel" ELSE exit
            /\ UNCHANGED closing
    /\ clicked' = FALSE
    /\ UNCHANGED <<inputVars, worker, acted>>

(* run_native returns after the window was asked to close; dropping it     *)
(* makes an exit code of its own unless the transaction succeeded.         *)
Drop ==
    /\ Running /\ closing # None
    /\ exit' = IF window.is_success THEN "success" ELSE "cancel"
    /\ UNCHANGED <<inputVars, worker, cmd_rx, window, painted, clicked, acted, closing>>

Tick ==
    /\ Running /\ window # None /\ window.dismiss_at \in 0..DismissAfter
    /\ window' = [window EXCEPT !.dismiss_at = @ + 1]
    /\ UNCHANGED <<inputVars, worker, cmd_rx, painted, clicked, acted, closing, exit>>

-----------------------------------------------------------------------------
(* The user.                                                               *)

ClickCancel ==
    /\ Running /\ painted # None /\ painted.cancel
    /\ clicked' = TRUE /\ acted' = TRUE
    /\ UNCHANGED <<inputVars, worker, cmd_rx, window, painted, closing, exit>>

CloseWindow ==
    /\ Running /\ window # None /\ closing = None
    /\ closing' = "user" /\ acted' = TRUE
    /\ UNCHANGED <<inputVars, worker, cmd_rx, window, painted, clicked, exit>>

Next ==
    \/ WriteLine \/ CloseInput \/ Kill \/ ReadLine \/ EndOfInput
    \/ Start \/ Frame \/ Drop \/ Tick \/ ClickCancel \/ CloseWindow

(* The thread is scheduled, every frame asks for the next one, and time    *)
(* passes; the writer and the user owe nothing.                            *)
Fairness == WF_vars(ReadLine) /\ WF_vars(Start) /\ WF_vars(Frame) /\ WF_vars(Drop) /\ WF_vars(Tick)

Spec == Init /\ [][Next]_vars /\ Fairness

-----------------------------------------------------------------------------
DoneShown == painted # None /\ painted.status = "Done!"

(* The exit code tells the daemon the truth (bridge_ui.rs:35-48): 2 is an  *)
(* act of the user and never follows a success the window has shown; 0     *)
(* never comes without DONE, and not before the window has shown the       *)
(* success, whatever frame, click and line come first: no line behind DONE *)
(* reaches the window (ui.rs:201-217, 222-226, 242-244).                   *)
ExitCodeTells ==
    /\ exit = "cancel" => acted /\ ~DoneShown
    /\ exit = "success" => DoneShown /\ "DONE" \in Range(written)

(* A DONE line ends the process, whatever else is written (ui.rs:88-102).  *)
DoneCloses == (\E i \in DOMAIN input : input[i] = "DONE") ~> ~Running
=============================================================================
