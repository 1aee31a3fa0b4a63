------------------------------- MODULE MailBody -------------------------------
(***************************************************************************)
(* The text of a mail on its way out and in, in pieces cut anywhere: the   *)
(* reader that stuffs dots and ends a mail for SMTP (lib/smtp.c), and the  *)
(* writer that takes the end and the stuffed dots out for POP3             *)
(* (lib/pop3.c).  A text is a sequence over the bytes the code tells apart.*)
(***************************************************************************)
EXTENDS Naturals, Sequences, SequencesExt

CONSTANTS
  MaxText,    \* bound: bytes in a text
  MaxPiece    \* bound: bytes in a buffer or in what the network hands over at once

MailBodyConstants == MaxText \in Nat /\ MaxPiece \in Nat \ {0}

VARIABLES
  text,       \* what is sent, or what the server has stored
  crEob,      \* struct cr_eob_ctx; rest: what the application has not handed over
  eob,        \* the fields of pop3_conn about the end; wire: what is still to come
  went        \* the bytes that came out at the other side

bodyVars == <<text, crEob, eob, went>>

CR == "cr"
LF == "lf"
Dot == "."
Byte == {"x", CR, LF, Dot}
Newline == <<CR, LF>>
Eob == <<CR, LF, Dot, CR, LF>>      \* SMTP_EOB and POP3_EOB

EndsInNewline(s) == Len(s) >= 2 /\ SubSeq(s, Len(s) - 1, Len(s)) = Newline
Texts == SeqOf(Byte, MaxText)

-----------------------------------------------------------------------------
(* SMTP: cr_eob_read. *)

\* One byte of the loop: n bytes of CR LF . were seen; a byte behind all three gets a
\* dot before it.
StuffByte(acc, b) ==
  LET out == IF acc.n = 3 THEN Append(acc.out, Dot) ELSE acc.out
      n == IF acc.n = 3 THEN 0 ELSE acc.n
  IN  [n |-> IF b = Eob[n + 1] THEN n + 1 ELSE IF b = CR THEN 1 ELSE 0, out |-> Append(out, b)]

Stuffed(n, piece) == FoldLeft(StuffByte, [n |-> n, out |-> <<>>], piece)

\* Bug variant: what was seen at the end does not count.
EndingAlways(n) == Eob
\* what ends the mail, from what was seen of CR LF .
Ending(n) ==
  CASE n = 2 -> SubSeq(Eob, 3, 5)
    [] n = 3 -> <<Dot>> \o Eob
    [] OTHER -> Eob

\* cr_eob_read into a buffer of blen bytes, for which the application has some bytes or
\* none, and may say with the last ones or after them that these are all.
ReadEob(blen) ==
  /\ crEob.on /\ ~crEob.eos
  /\ \E k \in 0..blen, last \in BOOLEAN :
       LET reads == ~crEob.readEos /\ crEob.buf = <<>>
           piece == SubSeq(crEob.rest, 1, k)
           rest == SubSeq(crEob.rest, k + 1, Len(crEob.rest))
           readEos == IF reads THEN last ELSE crEob.readEos
           through == reads /\ k > 0 /\ crEob.n = 0 /\ \A i \in 1..k : piece[i] # CR
           s == Stuffed(crEob.n, IF reads THEN piece ELSE <<>>)
           ends == readEos /\ ~crEob.processedEos
           buf == crEob.buf \o s.out \o (IF ends THEN Ending(s.n) ELSE <<>>)
           taken == IF Len(buf) < blen THEN Len(buf) ELSE blen
       IN  /\ k <= Len(crEob.rest) /\ (last => rest = <<>>) /\ (~reads => k = 0 /\ ~last)
           /\ IF through
              THEN /\ crEob' = [crEob EXCEPT !.rest = rest, !.readEos = readEos]
                   /\ went' = went \o piece
              ELSE /\ crEob' = [crEob EXCEPT !.rest = rest, !.n = s.n, !.readEos = readEos,
                                            !.processedEos = @ \/ ends,
                                            !.buf = SubSeq(buf, taken + 1, Len(buf)),
                                            !.eos = readEos /\ taken = Len(buf)]
                   /\ went' = went \o SubSeq(buf, 1, taken)
  /\ UNCHANGED <<text, eob>>

-----------------------------------------------------------------------------
(* POP3: pop3_write. *)

\* what byte b makes of eob, and whether it is a stuffed dot
NextEob(n, b) ==
  CASE b = CR -> IF n = 3 THEN 4 ELSE 1
    [] b = LF -> IF n \in {1, 4} THEN n + 1 ELSE 0
    [] b = Dot -> IF n = 2 THEN 3 ELSE 0
    [] OTHER -> 0
StuffedDot(n, b) == b = Dot /\ n = 3

\* One byte of the loop.  `held' are the bytes of the piece not written yet; bytes that
\* looked like the end and were not are written from Eob, but for the two the code
\* started with and a stuffed dot.
WriteByte(acc, b) ==
  LET next == NextEob(acc.n, b)
      first == acc.n = 0 /\ b = CR
      wrong == acc.n > 0 /\ acc.n >= next
      stripped == IF wrong THEN (IF acc.n < acc.strip THEN acc.n ELSE acc.strip) ELSE 0
      seen == acc.n - stripped
      again == IF ~wrong \/ seen = 0 THEN 0 ELSE IF StuffedDot(acc.n, b) THEN seen - 1 ELSE seen
      restart == wrong /\ seen > 0
  IN  [n |-> next,
       strip |-> acc.strip - stripped,
       held |-> IF first \/ restart THEN <<b>> ELSE Append(acc.held, b),
       out |-> acc.out \o (IF first THEN acc.held ELSE <<>>) \o SubSeq(Eob, 1, again)]

Written(e, piece) ==
  LET acc == FoldLeft(WriteByte, [n |-> e.n, strip |-> e.strip, held |-> <<>>, out |-> <<>>], piece)
  IN  CASE acc.n = 5 -> [e EXCEPT !.n = 0, !.strip = acc.strip, !.done = TRUE, !.out = acc.out \o Newline]
        [] acc.n \in 1..4 -> [e EXCEPT !.n = acc.n, !.strip = acc.strip, !.out = acc.out]
        [] OTHER -> [e EXCEPT !.n = 0, !.strip = acc.strip, !.out = acc.out \o acc.held]

\* pop3_write for the next bytes: first those read with the reply, then from the network
WritePiece(k) ==
  /\ eob.on /\ ~eob.done /\ k \in 1..Len(eob.wire)
  /\ LET w == Written(eob, SubSeq(eob.wire, 1, k))
     IN  /\ eob' = [w EXCEPT !.wire = SubSeq(eob.wire, k + 1, Len(eob.wire)), !.out = <<>>]
         /\ went' = went \o w.out
  /\ UNCHANGED <<text, crEob>>

\* A server sends lines that end in CR LF, with a dot before each that starts with one.
OnTheWire(s) ==
  FoldLeft(LAMBDA acc, b : Append(IF b = Dot /\ (acc = <<>> \/ EndsInNewline(acc)) THEN Append(acc, Dot) ELSE acc, b),
           <<>>, s) \o SubSeq(Eob, 3, 5)

-----------------------------------------------------------------------------
Out(on, s) == [on |-> on, rest |-> s, n |-> 2, buf |-> <<>>, readEos |-> FALSE, processedEos |-> FALSE, eos |-> FALSE]
In(on, s) == [on |-> on, n |-> 2, strip |-> 2, done |-> FALSE, wire |-> s, out |-> <<>>]

\* pop3_state_command_resp and cr_eob_init start with the CR LF of the line before seen.
Init ==
  /\ went = <<>> /\ text \in Texts
  /\ \/ crEob = Out(TRUE, text) /\ eob = In(FALSE, <<>>)
     \/ /\ text = <<>> \/ EndsInNewline(text)
        /\ eob = In(TRUE, OnTheWire(text)) /\ crEob = Out(FALSE, <<>>)

Idle ==
  /\ text = <<>> /\ went = <<>> /\ crEob = Out(FALSE, <<>>) /\ eob = In(FALSE, <<>>)

Next == \E n \in 1..MaxPiece : ReadEob(n) \/ WritePiece(n)

Spec == Init /\ [][Next]_bodyVars

-----------------------------------------------------------------------------
(* What a server that follows RFC 5321 makes of the bytes after its 354: lines end in
   CR LF; a dot at the start of a line is dropped; a line that is only a dot ends. *)
ReceiveByte(acc, b) ==
  CASE acc.at = "end" -> [acc EXCEPT !.extra = TRUE]
    [] acc.at = "dot" /\ b = CR -> [acc EXCEPT !.at = "dotcr"]
    [] acc.at = "dotcr" /\ b = LF -> [acc EXCEPT !.at = "end"]
    [] acc.at = "start" /\ b = Dot -> [acc EXCEPT !.at = "dot"]
    [] OTHER ->
         [at |-> CASE b = CR -> "cr" [] b = LF /\ acc.at = "cr" -> "start" [] OTHER -> "text",
          extra |-> FALSE,
          mail |-> Append(IF acc.at = "dotcr" THEN Append(acc.mail, CR) ELSE acc.mail, b)]
Receive(s) == FoldLeft(ReceiveByte, [at |-> "start", extra |-> FALSE, mail |-> <<>>], s)

TypeOK ==
  /\ text \in Texts /\ went \in Seq(Byte)
  /\ crEob.n \in 0..3 /\ crEob.buf \in Seq(Byte) /\ eob.n \in 0..4 /\ eob.strip \in 0..2

(* However it is cut, a mail arrives as it is, with a newline at its end, and the server
   sees its end with the last byte and not before. *)
SentWhole ==
  crEob.on =>
    LET r == Receive(went)
    IN  /\ ~r.extra /\ (r.at = "end" => crEob.eos)
        /\ crEob.eos => r.at = "end" /\ r.mail = (IF text = <<>> \/ EndsInNewline(text) THEN text ELSE text \o Newline)

(* However it is cut, a mail is written as it is stored, up to what may still belong to
   its end, and ends with the last byte sent.  Nothing is written as one newline. *)
ReceivedWhole ==
  eob.on =>
    /\ IF eob.done THEN went = (IF text = <<>> THEN Newline ELSE text) ELSE IsPrefix(went, text)
    /\ eob.done <=> eob.wire = <<>>
=============================================================================
