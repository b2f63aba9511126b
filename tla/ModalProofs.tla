----------------------------- MODULE ModalProofs -----------------------------
(***************************************************************************)
(* Proofs about Modal for any status texts and dismissal time.             *)
(***************************************************************************)
EXTENDS Modal, SequenceTheorems, TLAPS

-----------------------------------------------------------------------------
(* The invariant: TypeOK, and what the thread, the channel and the window  *)
(* know of DONE.                                                           *)

(* Done is the last command ever sent, and only for a line that was written.*)
ChannelOK ==
    /\ Range(input) \subseteq Range(written)
    /\ "Done" \in Range(cmd_rx) =>
          /\ worker = "ended"
          /\ cmd_rx[Len(cmd_rx)] = "Done"
          /\ "DONE" \in Range(written)

(* A window that has received Done has shown it, hears nothing more and is *)
(* the only one that reads "Done!".                                        *)
WindowOK ==
    /\ window # None /\ window.is_success =>
          /\ worker = "ended" /\ cmd_rx = <<>>
          /\ window.status = "Done!" /\ DoneShown
          /\ "DONE" \in Range(written)
    /\ window # None /\ window.status = "Done!" => window.is_success
    /\ DoneShown => window # None /\ window.is_success

(* Only the user closes a window that has not succeeded.                   *)
ClosingOK ==
    /\ closing # None => window # None
    /\ closing = "user" => acted
    /\ closing = "self" => window.is_success
    /\ clicked => acted

IInv == TypeOK /\ ChannelOK /\ WindowOK /\ ClosingOK /\ ExitCodeTells
-----------------------------------------------------------------------------
(* Sequences and the commands of a line.                                   *)

LEMMA RangeConcat ==
    ASSUME NEW S, NEW s \in Seq(S), NEW t \in Seq(S)
    PROVE  Range(s \o t) = Range(s) \cup Range(t)
  <1> DEFINE u == s \o t
  <1>1. /\ u \in Seq(S) /\ Len(u) = Len(s) + Len(t)
        /\ \A i \in 1..(Len(s) + Len(t)) :
              u[i] = IF i <= Len(s) THEN s[i] ELSE t[i - Len(s)]
    BY ConcatProperties
  <1> HIDE DEF u
  <1>2. /\ Len(s) \in Nat /\ Len(t) \in Nat
        /\ DOMAIN s = 1..Len(s) /\ DOMAIN t = 1..Len(t) /\ DOMAIN u = 1..Len(u)
    BY <1>1, LenProperties
  <1>3. ASSUME NEW i \in DOMAIN u PROVE u[i] \in Range(s) \cup Range(t)
    <2>1. CASE i <= Len(s)
      BY <1>1, <1>2, <1>3, <2>1 DEF Range
    <2>2. CASE i > Len(s)
      <3>1. i - Len(s) \in DOMAIN t
        BY <1>1, <1>2, <1>3, <2>2
      <3> QED
        BY <1>1, <1>2, <1>3, <2>2, <3>1 DEF Range
    <2> QED
      BY <1>1, <1>2, <2>1, <2>2
  <1>4. ASSUME NEW i \in DOMAIN s PROVE s[i] \in Range(u)
    <2>1. i \in DOMAIN u /\ u[i] = s[i]
      BY <1>1, <1>2, <1>4
    <2> QED
      BY <2>1 DEF Range
  <1>5. ASSUME NEW i \in DOMAIN t PROVE t[i] \in Range(u)
    <2>1. i + Len(s) \in DOMAIN u /\ u[i + Len(s)] = t[i]
      BY <1>1, <1>2, <1>5
    <2> QED
      BY <2>1 DEF Range
  <1>6. Range(u) = Range(s) \cup Range(t)
    BY <1>3, <1>4, <1>5 DEF Range
  <1> QED
    BY <1>6 DEF u

LEMMA RangeAppend ==
    ASSUME NEW s \in Seq(Lines), NEW line \in Lines
    PROVE  /\ Append(s, line) \in Seq(Lines)
           /\ Range(Append(s, line)) = Range(s) \cup {line}
  <1> DEFINE u == Append(s, line)
  <1>1. /\ u \in Seq(Lines) /\ Len(u) = Len(s) + 1 /\ Len(s) \in Nat
        /\ DOMAIN s = 1..Len(s) /\ DOMAIN u = 1..Len(u)
        /\ u[Len(s) + 1] = line /\ \A i \in 1..Len(s) : u[i] = s[i]
    BY AppendProperties, LenProperties
  <1> HIDE DEF u
  <1>2. \A i \in DOMAIN u : i \in DOMAIN s \/ i = Len(s) + 1
    BY <1>1
  <1>3. \A i \in DOMAIN s : i \in DOMAIN u
    BY <1>1
  <1>4. Len(s) + 1 \in DOMAIN u
    BY <1>1
  <1>5. Range(u) = Range(s) \cup {line}
    BY <1>1, <1>2, <1>3, <1>4 DEF Range
  <1> QED
    BY <1>1, <1>5 DEF u

LEMMA RangeTail ==
    ASSUME NEW S, NEW s \in Seq(S), s # <<>>
    PROVE  /\ Tail(s) \in Seq(S) /\ Range(Tail(s)) \subseteq Range(s)
           /\ Head(s) \in S /\ Head(s) \in Range(s)
  <1>1. /\ Tail(s) \in Seq(S) /\ Len(Tail(s)) = Len(s) - 1
        /\ \A i \in 1..Len(Tail(s)) : Tail(s)[i] = s[i + 1]
        /\ Head(s) \in S /\ Head(s) = s[1] /\ Len(s) \in Nat /\ Len(s) # 0
    BY HeadTailProperties, EmptySeq, LenProperties
  <1>2. DOMAIN s = 1..Len(s) /\ DOMAIN Tail(s) = 1..Len(Tail(s))
    BY <1>1, LenProperties
  <1>3. \A i \in DOMAIN Tail(s) : i + 1 \in DOMAIN s
    BY <1>1, <1>2
  <1> QED
    BY <1>1, <1>2, <1>3 DEF Range

LEMMA CommandsOfLine ==
    ASSUME NEW line \in Lines
    PROVE  /\ CommandsOf(line) \in Seq(Commands)
           /\ "Done" \in Range(CommandsOf(line)) =>
                 line = "DONE" /\ CommandsOf(line) = <<"Done">>
  <1>1. CASE line \in {"QR_SCANNED", "DISMISS"}
    <2>1. line \notin Texts /\ line # "DONE"
      BY <1>1, ModalAssumption DEF ModalAssumption
    <2>2. CommandsOf(line) = <<"QrScanned">>
      BY <1>1, <2>1 DEF CommandsOf
    <2> QED
      BY <2>2 DEF Range, Commands
  <1>2. CASE line = "DONE"
    <2>1. line \notin Texts /\ line \notin {"QR_SCANNED", "DISMISS"}
      BY <1>2, ModalAssumption DEF ModalAssumption
    <2>2. CommandsOf(line) = <<"Done">>
      BY <1>2, <2>1 DEF CommandsOf
    <2>3. "Done" \in Commands
      BY DEF Commands
    <2>4. <<"Done">> \in Seq(Commands)
      BY <2>3
    <2> QED
      BY <1>2, <2>2, <2>4
  <1>3. CASE line \in Texts
    <2>1. line \notin {"QR_SCANNED", "DISMISS", "DONE", "Done"}
      BY <1>3, ModalAssumption DEF ModalAssumption
    <2>2. CommandsOf(line) = <<line>>
      BY <1>3, <2>1 DEF CommandsOf
    <2> QED
      BY <1>3, <2>1, <2>2 DEF Range, Commands
  <1>4. CASE line = "other"
    <2>1. line \notin Texts
      BY <1>4, ModalAssumption DEF ModalAssumption
    <2>2. CommandsOf(line) = <<>>
      BY <1>4, <2>1 DEF CommandsOf
    <2> QED
      BY <2>2 DEF Range
  <1> QED
    BY <1>1, <1>2, <1>3, <1>4 DEF Lines

LEMMA ReceivedProperties ==
    ASSUME NEW w \in CableModalApp, NEW commands \in Seq(Commands),
           w.is_success <=> w.dismiss_at # None
    PROVE  LET new == Received(w, commands) IN
           /\ new \in CableModalApp
           /\ new.is_success <=> w.is_success \/ "Done" \in Range(commands)
           /\ new.is_success <=> new.dismiss_at # None
           /\ "Done" \in Range(commands) => new.dismiss_at = 0
           /\ commands = <<>> => new.status = w.status /\ new.dismiss_at = w.dismiss_at
           /\ commands # <<>> /\ commands[Len(commands)] = "Done" => new.status = "Done!"
           /\ commands # <<>> /\ new.status = "Done!" => "Done" \in Range(commands)
  <1> DEFINE last == commands[Len(commands)]
             new  == Received(w, commands)
  <1>1. commands # <<>> => last \in Commands /\ last \in Range(commands)
    BY LenProperties, ElementOfSeq, EmptySeq DEF Range
  <1>2. ASSUME NEW c \in Commands
        PROVE  /\ StatusOf(c) \in Status
               /\ StatusOf(c) = "Done!" <=> c = "Done"
    <2>1. c \in Texts => c \notin {"QrScanned", "Done", "Done!"}
      BY ModalAssumption DEF ModalAssumption
    <2> QED
      BY <2>1 DEF StatusOf, Status, Commands
  <1>3. /\ new.status = IF commands = <<>> THEN w.status ELSE StatusOf(last)
        /\ new.is_success = (w.is_success \/ "Done" \in Range(commands))
        /\ new.qr_scanned = (w.qr_scanned \/ "QrScanned" \in Range(commands))
        /\ new.dismiss_at = IF "Done" \in Range(commands) THEN 0 ELSE w.dismiss_at
    BY DEF Received
  <1>4. 0 \in 0..(DismissAfter + 1) /\ 0 # None
    BY ModalAssumption DEF ModalAssumption
  <1>5. new \in CableModalApp
    <2>1. w.status \in Status /\ w.dismiss_at \in 0..(DismissAfter + 1) \cup {None}
      BY DEF CableModalApp
    <2>2. new.status \in Status /\ new.dismiss_at \in 0..(DismissAfter + 1) \cup {None}
      BY <1>1, <1>2, <1>3, <1>4, <2>1
    <2> QED
      BY <2>2 DEF Received, CableModalApp
  <1>6. commands = <<>> => Range(commands) = {}
    BY DEF Range
  <1> HIDE DEF new, last
  <1>7. new.is_success <=> w.is_success \/ "Done" \in Range(commands)
    BY <1>3
  <1>8. new.is_success <=> new.dismiss_at # None
    BY <1>3, <1>4
  <1>9. /\ "Done" \in Range(commands) => new.dismiss_at = 0
        /\ commands = <<>> => new.status = w.status /\ new.dismiss_at = w.dismiss_at
    BY <1>3, <1>6
  <1>10. /\ commands # <<>> /\ last = "Done" => new.status = "Done!"
         /\ commands # <<>> /\ new.status = "Done!" => "Done" \in Range(commands)
    <2>1. "Done" \in Commands
      BY DEF Commands
    <2> QED
      BY <1>1, <1>2, <1>3, <2>1
  <1> QED
    BY <1>5, <1>7, <1>8, <1>9, <1>10 DEF new, last
-----------------------------------------------------------------------------
(* Every action preserves IInv.                                            *)

LEMMA InitIInv == Init => IInv
  <1> SUFFICES ASSUME Init PROVE IInv
    OBVIOUS
  <1>0. <<>> \in Seq(Lines) /\ <<>> \in Seq(Commands)
    OBVIOUS
  <1>1. TypeOK
    BY <1>0 DEF Init, TypeOK
  <1>2. ChannelOK
    BY DEF Init, ChannelOK, Range
  <1>3. WindowOK /\ ClosingOK /\ ExitCodeTells
    BY ModalAssumption
       DEF Init, WindowOK, ClosingOK, ExitCodeTells, DoneShown, ModalAssumption, Exits
  <1> QED
    BY <1>1, <1>2, <1>3 DEF IInv

(* The writer, whose lines only add to what was written, and the kill.     *)
LEMMA WriterIInv ==
    ASSUME IInv, WriteLine \/ CloseInput \/ Kill
    PROVE  IInv'
  <1>1. /\ UNCHANGED <<worker, cmd_rx, window, painted, clicked, acted, closing>>
        /\ exit' = exit \/ exit' = "killed"
        /\ eof' \in BOOLEAN
    BY DEF WriteLine, CloseInput, Kill, inputVars, windowVars, IInv, TypeOK
  <1>2. /\ input' \in Seq(Lines) /\ written' \in Seq(Lines)
        /\ Range(input') \subseteq Range(written') /\ Range(written) \subseteq Range(written')
    <2>1. CASE WriteLine
      <3>1. PICK line \in Lines :
                input' = Append(input, line) /\ written' = Append(written, line)
        BY <2>1 DEF WriteLine
      <3>2. input \in Seq(Lines) /\ written \in Seq(Lines)
        BY DEF IInv, TypeOK
      <3>3. input' \in Seq(Lines) /\ Range(input') = Range(input) \cup {line}
        BY <3>1, <3>2, RangeAppend
      <3>4. written' \in Seq(Lines) /\ Range(written') = Range(written) \cup {line}
        BY <3>1, <3>2, RangeAppend
      <3> QED
        BY <3>3, <3>4 DEF IInv, ChannelOK
    <2>2. CASE CloseInput \/ Kill
      BY <2>2 DEF CloseInput, Kill, inputVars, IInv, TypeOK, ChannelOK
    <2> QED
      BY <2>1, <2>2
  <1>3. TypeOK'
    BY <1>1, <1>2 DEF IInv, TypeOK, Exits
  <1>4. ChannelOK'
    BY <1>1, <1>2 DEF IInv, ChannelOK
  <1>5. WindowOK' /\ ClosingOK'
    BY <1>1, <1>2 DEF IInv, WindowOK, ClosingOK, DoneShown
  <1>6. ExitCodeTells'
    BY <1>1, <1>2 DEF IInv, ExitCodeTells, DoneShown
  <1> QED
    BY <1>3, <1>4, <1>5, <1>6 DEF IInv

(* The thread.  While it reads there is no success, as it ends with DONE.  *)
LEMMA ThreadIInv ==
    ASSUME IInv, ReadLine \/ EndOfInput
    PROVE  IInv'
  <1>1. UNCHANGED <<written, eof, windowVars>> /\ worker = "reading"
    BY DEF ReadLine, EndOfInput, inputVars
  <1>2. ~(window # None /\ window.is_success) /\ "Done" \notin Range(cmd_rx)
    BY <1>1 DEF IInv, WindowOK, ChannelOK
  <1>3. /\ input' \in Seq(Lines) /\ Range(input') \subseteq Range(written)
        /\ worker' \in {"reading", "ended"}
        /\ cmd_rx' \in Seq(Commands)
        /\ "Done" \in Range(cmd_rx') =>
              /\ worker' = "ended" /\ cmd_rx'[Len(cmd_rx')] = "Done"
              /\ "DONE" \in Range(written)
    <2>1. CASE ReadLine
      <3> DEFINE line == Head(input)
                 sent == CommandsOf(line)
      <3>1. /\ input' = Tail(input) /\ cmd_rx' = cmd_rx \o sent
            /\ worker' = IF line = "DONE" THEN "ended" ELSE worker
            /\ input # <<>>
        BY <2>1 DEF ReadLine
      <3>2. /\ input \in Seq(Lines) /\ cmd_rx \in Seq(Commands)
            /\ Range(input) \subseteq Range(written)
        BY DEF IInv, TypeOK, ChannelOK
      <3>3. /\ Tail(input) \in Seq(Lines) /\ Range(Tail(input)) \subseteq Range(input)
            /\ line \in Lines /\ line \in Range(input)
        BY <3>1, <3>2, RangeTail
      <3> HIDE DEF line
      <3>4. /\ sent \in Seq(Commands)
            /\ "Done" \in Range(sent) => line = "DONE" /\ sent = <<"Done">>
        BY <3>3, CommandsOfLine
      <3> HIDE DEF sent
      <3>5. cmd_rx' \in Seq(Commands) /\ Range(cmd_rx') = Range(cmd_rx) \cup Range(sent)
        BY <3>1, <3>2, <3>4, RangeConcat, ConcatProperties
      <3>6. ASSUME "Done" \in Range(cmd_rx')
            PROVE  /\ worker' = "ended" /\ cmd_rx'[Len(cmd_rx')] = "Done"
                   /\ "DONE" \in Range(written)
        <4>1. line = "DONE" /\ sent = <<"Done">>
          BY <1>2, <3>4, <3>5, <3>6
        <4>2. cmd_rx'[Len(cmd_rx')] = "Done"
          BY <3>1, <3>2, <4>1
        <4> QED
          BY <3>1, <3>2, <3>3, <4>1, <4>2
      <3>7. worker' \in {"reading", "ended"}
        BY <1>1, <3>1
      <3> QED
        BY <3>1, <3>2, <3>3, <3>5, <3>6, <3>7
    <2>2. CASE EndOfInput
      BY <1>2, <2>2 DEF EndOfInput, inputVars, IInv, TypeOK, ChannelOK
    <2> QED
      BY <2>1, <2>2
  <1>4. TypeOK'
    BY <1>1, <1>3 DEF IInv, TypeOK, windowVars
  <1>5. ChannelOK'
    BY <1>1, <1>3 DEF ChannelOK
  <1>6. WindowOK' /\ ClosingOK' /\ ExitCodeTells'
    BY <1>1, <1>2 DEF IInv, WindowOK, ClosingOK, ExitCodeTells, DoneShown, windowVars
  <1> QED
    BY <1>4, <1>5, <1>6 DEF IInv

LEMMA StartIInv ==
    ASSUME IInv, Start
    PROVE  IInv'
  <1> DEFINE fresh == [status |-> "scan", is_success |-> FALSE, qr_scanned |-> FALSE,
                       dismiss_at |-> None]
  <1>1. /\ UNCHANGED <<inputVars, worker, cmd_rx, painted, clicked, acted, closing>>
        /\ exit = None /\ window = None
        /\ \/ window' = fresh /\ exit' = exit
           \/ exit' = "error" /\ window' = window
    BY DEF Start, Running
  <1>2. fresh \in CableModalApp
    BY DEF CableModalApp, Status
  <1>3. /\ fresh.is_success = FALSE /\ fresh.dismiss_at = None /\ fresh.status = "scan"
    OBVIOUS
  <1> HIDE DEF fresh
  <1>4. TypeOK'
    BY <1>1, <1>2, <1>3 DEF IInv, TypeOK, inputVars, Exits
  <1>5. ChannelOK'
    BY <1>1 DEF IInv, ChannelOK, inputVars
  <1>6. WindowOK' /\ ClosingOK' /\ ExitCodeTells'
    BY <1>1, <1>3, ModalAssumption
       DEF IInv, WindowOK, ClosingOK, ExitCodeTells, DoneShown, inputVars, ModalAssumption, Exits
  <1> QED
    BY <1>4, <1>5, <1>6 DEF IInv

LEMMA FrameIInv ==
    ASSUME IInv, Frame
    PROVE  IInv'
  <1> DEFINE new == Received(window, cmd_rx)
  <1>1. /\ exit = None /\ window # None /\ window' = new /\ cmd_rx' = <<>>
        /\ clicked' = FALSE
        /\ UNCHANGED <<input, written, eof, worker, acted>>
    BY DEF Frame, Running, inputVars
  <1>2. /\ window \in CableModalApp /\ cmd_rx \in Seq(Commands)
        /\ window.is_success <=> window.dismiss_at # None
    BY <1>1 DEF IInv, TypeOK
  <1>3. /\ new \in CableModalApp
        /\ new.is_success <=> window.is_success \/ "Done" \in Range(cmd_rx)
        /\ new.is_success <=> new.dismiss_at # None
        /\ "Done" \in Range(cmd_rx) => new.dismiss_at = 0
        /\ cmd_rx = <<>> => new.status = window.status /\ new.dismiss_at = window.dismiss_at
        /\ cmd_rx # <<>> /\ cmd_rx[Len(cmd_rx)] = "Done" => new.status = "Done!"
        /\ cmd_rx # <<>> /\ new.status = "Done!" => "Done" \in Range(cmd_rx)
    BY <1>2, ReceivedProperties
  <1> HIDE DEF new
  <1>4. Range(<<>>) = {} /\ <<>> \in Seq(Commands)
    BY DEF Range
  <1>5. new # None /\ window' # None
    BY <1>1, <1>3, ModalAssumption DEF ModalAssumption
  (* Success was either received now, by the last command, or shown before.*)
  <1>6. new.is_success =>
            /\ new.status = "Done!" /\ worker = "ended" /\ "DONE" \in Range(written)
            /\ \/ DoneShown
               \/ new.dismiss_at = 0
    <2>1. CASE "Done" \in Range(cmd_rx)
      <3>1. cmd_rx # <<>>
        BY <1>4, <2>1
      <3> QED
        BY <1>3, <2>1, <3>1 DEF IInv, ChannelOK
    <2>2. CASE window.is_success
      BY <1>1, <1>3, <2>2 DEF IInv, WindowOK
    <2> QED
      BY <1>3, <2>1, <2>2
  <1>7. new.status = "Done!" => new.is_success
    BY <1>1, <1>3 DEF IInv, WindowOK
  <1>8. ~window.is_success \/ new.is_success
    BY <1>3
  <1>9. CASE Expired(new)
    <2>1. closing' = "self" /\ UNCHANGED <<painted, exit>>
      BY <1>1, <1>9 DEF Frame
    <2>2. new.is_success /\ DoneShown
      <3>1. new.dismiss_at # 0
        BY <1>9, ModalAssumption DEF Expired, ModalAssumption
      <3> QED
        BY <1>3, <1>6, <1>9, <3>1 DEF Expired
    <2>3. TypeOK'
      BY <1>1, <1>3, <1>4, <2>1 DEF IInv, TypeOK
    <2>4. ChannelOK'
      BY <1>1, <1>4 DEF IInv, ChannelOK
    <2>5. WindowOK'
      BY <1>1, <1>5, <1>6, <1>7, <2>1, <2>2 DEF WindowOK, DoneShown
    <2>6. ClosingOK' /\ ExitCodeTells'
      BY <1>1, <1>5, <2>1, <2>2, ModalAssumption
         DEF IInv, ClosingOK, ExitCodeTells, ModalAssumption, Exits
    <2> QED
      BY <2>3, <2>4, <2>5, <2>6 DEF IInv
  <1>10. CASE ~Expired(new)
    <2> DEFINE picture == [status |-> new.status, cancel |-> ~new.is_success]
    <2>1. /\ painted' = picture /\ closing' = closing
          /\ exit' = IF clicked /\ ~new.is_success THEN "cancel" ELSE exit
      BY <1>1, <1>10 DEF Frame
    <2>2. picture \in Picture /\ picture.status = new.status
      BY <1>3 DEF Picture, CableModalApp
    <2> HIDE DEF picture
    <2>3. painted' # None /\ painted'.status = new.status
      BY <2>1, <2>2, ModalAssumption DEF ModalAssumption
    <2>4. TypeOK'
      BY <1>1, <1>3, <1>4, <2>1, <2>2 DEF IInv, TypeOK, Exits
    <2>5. ChannelOK'
      BY <1>1, <1>4 DEF IInv, ChannelOK
    <2>6. WindowOK'
      BY <1>1, <1>5, <1>6, <1>7, <2>3 DEF WindowOK, DoneShown
    <2>7. ClosingOK'
      BY <1>1, <1>5, <1>8, <2>1 DEF IInv, ClosingOK
    <2>8. ExitCodeTells'
      BY <1>1, <1>7, <2>1, <2>3, ModalAssumption
         DEF IInv, ClosingOK, ExitCodeTells, DoneShown, ModalAssumption, Exits
    <2> QED
      BY <2>4, <2>5, <2>6, <2>7, <2>8 DEF IInv
  <1> QED
    BY <1>9, <1>10

(* The exit code of a window that was closed.                              *)
LEMMA DropIInv ==
    ASSUME IInv, Drop
    PROVE  IInv'
  <1>1. /\ UNCHANGED <<inputVars, worker, cmd_rx, window, painted, clicked, acted, closing>>
        /\ closing # None /\ window # None
        /\ exit' = IF window.is_success THEN "success" ELSE "cancel"
    BY DEF Drop, IInv, ClosingOK
  <1>2. ~window.is_success => acted /\ ~DoneShown
    BY <1>1 DEF IInv, TypeOK, ClosingOK, WindowOK
  <1>3. window.is_success => DoneShown /\ "DONE" \in Range(written)
    BY <1>1 DEF IInv, WindowOK
  <1>4. TypeOK'
    BY <1>1 DEF IInv, TypeOK, inputVars, Exits
  <1>5. ChannelOK' /\ WindowOK' /\ ClosingOK'
    BY <1>1 DEF IInv, ChannelOK, WindowOK, ClosingOK, DoneShown, inputVars
  <1>6. ExitCodeTells'
    BY <1>1, <1>2, <1>3 DEF ExitCodeTells, DoneShown, inputVars
  <1> QED
    BY <1>4, <1>5, <1>6 DEF IInv

LEMMA TickIInv ==
    ASSUME IInv, Tick
    PROVE  IInv'
  <1> DEFINE new == [window EXCEPT !.dismiss_at = @ + 1]
  <1>1. /\ UNCHANGED <<inputVars, worker, cmd_rx, painted, clicked, acted, closing, exit>>
        /\ window # None /\ window \in CableModalApp
        /\ window.dismiss_at \in 0..DismissAfter
        /\ window' = new
    BY DEF Tick, IInv, TypeOK
  <1>2. window.dismiss_at # None /\ window.is_success
    BY <1>1, ModalAssumption DEF ModalAssumption, IInv, TypeOK
  <1>3. /\ new \in CableModalApp
        /\ new.status = window.status /\ new.is_success = window.is_success
        /\ new.dismiss_at \in 0..(DismissAfter + 1)
    BY <1>1, ModalAssumption DEF ModalAssumption, CableModalApp
  <1> HIDE DEF new
  <1>4. new # None /\ new.dismiss_at # None
    BY <1>3, ModalAssumption DEF ModalAssumption
  <1>5. TypeOK'
    BY <1>1, <1>2, <1>3, <1>4 DEF IInv, TypeOK, inputVars
  <1>6. ChannelOK' /\ WindowOK' /\ ClosingOK' /\ ExitCodeTells'
    BY <1>1, <1>3, <1>4
       DEF IInv, ChannelOK, WindowOK, ClosingOK, ExitCodeTells, DoneShown, inputVars
  <1> QED
    BY <1>5, <1>6 DEF IInv

LEMMA UserIInv ==
    ASSUME IInv, ClickCancel \/ CloseWindow
    PROVE  IInv'
  <1>1. /\ UNCHANGED <<inputVars, worker, cmd_rx, window, painted, exit>>
        /\ acted' = TRUE /\ exit = None
        /\ \/ clicked' = TRUE /\ closing' = closing
           \/ clicked' = clicked /\ closing' = "user" /\ window # None
    BY DEF ClickCancel, CloseWindow, Running
  <1>2. TypeOK'
    BY <1>1 DEF IInv, TypeOK, inputVars
  <1>3. ChannelOK' /\ WindowOK'
    BY <1>1 DEF IInv, ChannelOK, WindowOK, DoneShown, inputVars
  <1>4. ClosingOK' /\ ExitCodeTells'
    BY <1>1, ModalAssumption DEF IInv, ClosingOK, ExitCodeTells, ModalAssumption, Exits
  <1> QED
    BY <1>2, <1>3, <1>4 DEF IInv

LEMMA NextIInv == IInv /\ [Next]_vars => IInv'
  <1> SUFFICES ASSUME IInv, [Next]_vars PROVE IInv'
    OBVIOUS
  <1>1. CASE UNCHANGED vars
    BY <1>1 DEF vars, inputVars, windowVars, IInv, TypeOK, ChannelOK, WindowOK, ClosingOK,
                ExitCodeTells, DoneShown
  <1> QED
    BY <1>1, WriterIInv, ThreadIInv, StartIInv, FrameIInv, DropIInv, TickIInv, UserIInv
       DEF Next

LEMMA Invariant == Spec => []IInv
  BY InitIInv, NextIInv, PTL DEF Spec

-----------------------------------------------------------------------------
(* The theorems.                                                           *)

(* The window's fields stay consistent: it counts down to its dismissal    *)
(* exactly when it shows a success (ui.rs:14-22, 87-91).                   *)
THEOREM ModalTypeCorrect == Spec => []TypeOK
  BY Invariant, PTL DEF IInv

(* The exit code tells the daemon the truth, for any lines in any order    *)
(* (ui.rs:201-217, 222-226, 242-244).                                      *)
THEOREM ModalExitCodeTells == Spec => []ExitCodeTells
  BY Invariant, PTL DEF IInv
=============================================================================
