---------------------------------- MODULE Mail ----------------------------------
(***************************************************************************)
(* A connection to a mail server over SMTP, IMAP or POP3: from its greeting*)
(* through STARTTLS and the login to transfers one after the other, and    *)
(* QUIT.  What a line of an answer does is in Smtp, Imap and Pop3, over    *)
(* Sasl; here are the multi, the network, and a server that answers in     *)
(* order with anything its protocol allows.  Lines arrive in pieces: what  *)
(* was read past the line looked at waits in the buffer of the connection. *)
(***************************************************************************)
EXTENDS Sasl, FiniteSets, SequencesExt

CONSTANTS
  MailCases,      \* a protocol with what the application set and what the server can
  MailRequests,   \* for each protocol the transfers asked for
  MaxBody,        \* bound: lines in a mail
  ImpatientMail,  \* the last answer may be too late, or the progress callback ends the wait
  LateAnswers     \* an answer still owed may come after the connection is taken again

MailConstants == MaxBody \in Nat /\ ImpatientMail \in BOOLEAN /\ LateAnswers \in BOOLEAN

VARIABLES
  mail,        \* the connection and the transfer it has
  mailPhase,   \* where the multi has the transfer; "idle": the connection is in the pool
  commands,    \* what was sent and the server has not answered
  lines,       \* what the server sent and was not read
  mailServer,  \* what the server knows
  mails        \* how many transfers there were

mailVars == <<mail, mailPhase, commands, lines, mailServer, mails>>

S == INSTANCE Smtp
I == INSTANCE Imap
P == INSTANCE Pop3

Proto == mail.case.proto

-----------------------------------------------------------------------------
(* The server.  An answer is the server after it, which knows whether it gave what it was
   asked for, and the lines it sends. *)

NoCaps == [tls |-> FALSE, auth |-> {}, loginDisabled |-> FALSE, ir |-> FALSE, user |-> FALSE]
Line(k) == [k |-> k, n |-> 0, caps |-> NoCaps]
Sized(k, n) == [Line(k) EXCEPT !.n = n]
Caps(s) == [Line("caps") EXCEPT !.caps = IF s.tls THEN s.over ELSE s.clear]

Answer(s, ls) == [server |-> [s EXCEPT !.gave = TRUE], lines |-> ls]
Refusal(s, ls) == [server |-> [s EXCEPT !.gave = FALSE], lines |-> ls]
Says(s, kinds) == {IF k = "no" THEN Refusal(s, <<Line(k)>>) ELSE Answer(s, <<Line(k)>>) : k \in kinds}

\* the words a mechanism wants, one for each challenge
Wants(m) ==
  CASE m = "PLAIN" -> <<"plain">> [] m = "LOGIN" -> <<"user", "passwd">> [] m = "EXTERNAL" -> <<"authzid">>
    [] m = "CRAM-MD5" -> <<"cram">> [] m = "DIGEST-MD5" -> <<"digest", "">> [] m = "NTLM" -> <<"type1", "type3">>
    [] OTHER -> <<"token">>

\* What the server makes of the words it has: a challenge, which the client may not
\* understand, or the end.  A token that is refused is first answered with a challenge.
Exchange(s, m, got) ==
  LET t == [s EXCEPT !.mech = m, !.got = got]
      over == [s EXCEPT !.mech = "none", !.got = <<>>]
      puzzles == \/ m \in {"CRAM-MD5", "NTLM"} /\ Len(got) + 1 = Len(Wants(m))
                 \/ m = "DIGEST-MD5" /\ got = <<>>
      denied == Wants(m) = <<"token">> /\ got = <<"token">>
  IN  CASE ~IsPrefix(got, Wants(m)) ->
             Says([over EXCEPT !.muddled = @ \/ ~(Last(got) = "*" \/ (m = "OAUTHBEARER" /\ got = <<"token", "abort">>))], {"no"})
        [] got = Wants(m) ->
             Says([over EXCEPT !.authed = TRUE], {"ok"}) \cup Says(over, {"no"})
             \cup (IF denied THEN Says(t, {"cont"}) ELSE {})
        [] OTHER -> Says(t, {"cont"} \cup IF puzzles THEN {"bad"} ELSE {}) \cup Says(over, {"no"})

Logs(s, how) == [s EXCEPT !.tried = @ \cup {how}, !.again = @ \/ how \in s.tried]
Enters(s, how) == Says([Logs(s, how) EXCEPT !.authed = TRUE], {"ok"}) \cup Says(Logs(s, how), {"no"})

\* STARTTLS; somebody on the way may add a line
StartTls(s) == Says(s, {"ok", "no"}) \cup {Answer(s, <<Line("ok"), Line("ok")>>)}

OfAll(s, cmd) ==
  CASE cmd[1] = "AUTH" ->
         Exchange([Logs(s, cmd[2]) EXCEPT !.muddled = @ \/ cmd[2] \notin Caps(s).caps.auth], cmd[2], SubSeq(cmd, 3, Len(cmd)))
    [] cmd[1] = "data" -> Exchange(s, s.mech, Append(s.got, cmd[2]))
    [] cmd[1] \in {"STARTTLS", "STLS"} -> StartTls(s)
    [] cmd[1] \in {"EHLO", "CAPABILITY", "CAPA"} -> {Answer(s, <<Caps(s), Line("ok")>>)} \cup Says(s, {"no"})
    [] OTHER -> Says(s, {"ok", "no"})

OfSmtp(s, cmd) ==
  LET refused == [s EXCEPT !.refused = @ \cup {cmd[2]}]
      accepted == [s EXCEPT !.accepted = @ \cup {cmd[2]}]
  IN  CASE cmd[1] = "MAIL" ->
             Says([s EXCEPT !.accepted = {}, !.refused = {}, !.stored = {}, !.envelope = TRUE], IF s.envelope THEN {} ELSE {"ok"})
             \cup Says(s, {"no"})
        [] cmd[1] = "RCPT" -> {Answer(accepted, <<Line("line"), Line("ok")>>)} \cup Says(refused, {"no"})
        [] cmd[1] = "DATA" -> Says(s, {"cont", "no"})
        [] cmd[1] = "text" -> Says([s EXCEPT !.stored = s.accepted, !.envelope = FALSE], {"ok"})
                              \cup Says([s EXCEPT !.envelope = FALSE], {"no"})
        [] cmd[1] = "VRFY" -> {Answer(s, <<Line("line"), Line("ok")>>)} \cup Says(s, {"553", "no"})
        [] OTHER -> OfAll(s, cmd)

UidValidity(box) == IF box = "INBOX" THEN 1 ELSE 2
Bodies(n) == [i \in 1..n |-> Line("body")]

OfImap(s, cmd) ==
  CASE cmd[1] = "LOGIN" -> Enters(s, "LOGIN")
    [] cmd[1] = "SELECT" ->
         {Answer([s EXCEPT !.box = cmd[2]], <<Line("other"), Sized("uidvalidity", UidValidity(cmd[2])), Line("ok")>>)}
         \cup Says([s EXCEPT !.box = "none"], {"no"})
    [] cmd[1] \in {"LIST", "SEARCH", "CUSTOM"} -> {Answer(s, <<Line("line"), Line("other"), Line("ok")>>)} \cup Says(s, {"ok", "no"})
    [] cmd[1] = "FETCH" ->
         {Answer([s EXCEPT !.size = n], <<Line("other"), Sized("fetch", n)>> \o Bodies(n) \o <<Line("rest"), Line("ok")>>)
            : n \in 0..MaxBody} \cup {Refusal(s, <<Line("ok")>>), Refusal(s, <<Line("no")>>)}
    [] cmd[1] = "APPEND" -> Says(s, {"cont", "no"})
    [] OTHER -> OfAll(s, cmd)

\* DELE and a LIST of one mail are answered in a line
OfPop3(s, cmd) ==
  CASE cmd[1] \in {"APOP"} -> Enters(s, "APOP")
    [] cmd[1] = "USER" -> Says(Logs(s, "USER"), {"ok", "no"})
    [] cmd[1] = "PASS" -> Says([s EXCEPT !.authed = TRUE], {"ok"}) \cup Says(s, {"no"})
    [] cmd[1] \in P!Multiline /\ ~(cmd[1] = "LIST" /\ mail.o.id) ->
         {Answer([s EXCEPT !.size = n], <<Line("ok")>> \o Bodies(n) \o <<Line("eob")>>) : n \in 0..MaxBody}
         \cup Says(s, {"no"})
    [] OTHER -> OfAll(s, cmd)

AnswersTo(s, cmd) ==
  CASE Proto = "smtp" -> OfSmtp(s, cmd) [] Proto = "imap" -> OfImap(s, cmd) [] Proto = "pop3" -> OfPop3(s, cmd)

Greetings ==
  {<<Sized("ok", IF mail.case.apop THEN 1 ELSE 0)>>, <<Line("no")>>}
  \cup (IF mail.case.preauth THEN {<<Line("preauth")>>} ELSE {})

Serve ==
  /\ commands # <<>>
  /\ \E a \in AnswersTo(mailServer, Head(commands)) :
       mailServer' = a.server /\ lines' = lines \o a.lines
  /\ commands' = Tail(commands)
  /\ UNCHANGED <<mail, mailPhase, mails>>

-----------------------------------------------------------------------------
(* What the three machines have in common. *)

IsResponse(l) ==
  CASE Proto = "smtp" -> S!IsResponse(mail, l) [] Proto = "imap" -> I!IsResponse(mail, l)
    [] Proto = "pop3" -> P!IsResponse(mail, l)
OnReply(c, l) ==
  CASE Proto = "smtp" -> S!OnReply(c, l) [] Proto = "imap" -> I!OnReply(c, l) [] Proto = "pop3" -> P!OnReply(c, l)
Begin(c) ==
  CASE Proto = "smtp" -> S!Perform(c) [] Proto = "imap" -> I!Perform(c) [] Proto = "pop3" -> P!Perform(c)
FirstOverTls(c) ==
  CASE Proto = "smtp" -> S!Ehlo(c) [] Proto = "imap" -> I!Capability(c) [] Proto = "pop3" -> P!Capa(c)
End(c) == CASE Proto = "smtp" -> S!Done(c) [] Proto = "imap" -> I!Done(c) [] Proto = "pop3" -> Stop(c)

Sends(r) ==
  /\ mail' = r.c
  /\ commands' = IF r.cmd = Nothing THEN commands ELSE Append(commands, r.cmd)

\* Where the multi goes when the machine has stopped.  A last answer that is bad ends
\* the transfer and not the connection.
AfterStop == CASE mailPhase = "login" -> "do" [] mailPhase = "doing" -> "perform" [] mailPhase = "final" -> "idle" [] mailPhase = "quit" -> "closed"
Leads(r) ==
  CASE ~r.ok -> mailPhase' = (IF mailPhase = "final" THEN "idle" ELSE "closed")
    [] r.ok /\ r.c.state = "STOP" -> mailPhase' = AfterStop
    [] OTHER -> UNCHANGED mailPhase

Waits == mailPhase \in {"login", "doing", "final", "quit"} /\ mail.state \notin {"STOP", "UPGRADETLS"}
Result(r) ==
  [r EXCEPT !.c.result = IF ~r.ok THEN "failed" ELSE IF mailPhase = "final" /\ r.c.state = "STOP" THEN "ok" ELSE @]

\* Curl_pp_readresp and the machine, for one line: the next of the buffer, or of what
\* the network has, which may be a part of what was sent.
ReadLine ==
  /\ Waits
  /\ \E k \in IF mail.buf = <<>> THEN 1..Len(lines) ELSE {0} :
       LET buf == mail.buf \o SubSeq(lines, 1, k)
           c == [mail EXCEPT !.buf = Tail(buf)]
           r == IF IsResponse(Head(buf)) THEN OnReply(c, Head(buf)) ELSE Wait(c)
       IN  /\ Sends(Result(r)) /\ Leads(r)
           /\ lines' = SubSeq(lines, k + 1, Len(lines))
  /\ UNCHANGED <<mailServer, mails>>

-----------------------------------------------------------------------------
(* smtp_connect, imap_connect, pop3_connect, and the upgrade.  TLS from the start, as for *)
(* smtps://, imaps:// and pop3s://, is left out: it only skips STARTTLS.                  *)

Connect ==
  /\ mailPhase = "new"
  /\ mailPhase' = "login" /\ mail' = [mail EXCEPT !.state = "SERVERGREET"]
  /\ lines' \in Greetings
  /\ UNCHANGED <<commands, mailServer, mails>>

\* the handshake works, and the first command goes over TLS; or it fails, as it does
\* when the server's first bytes are not TLS
UpgradeTls ==
  /\ mailPhase = "login" /\ mail.state = "UPGRADETLS"
  /\ \/ /\ lines = <<>>
        /\ Sends(FirstOverTls([mail EXCEPT !.ssl = TRUE]))
        /\ mailServer' = [mailServer EXCEPT !.tls = TRUE]
        /\ UNCHANGED mailPhase
     \/ mailPhase' = "closed" /\ UNCHANGED <<mail, commands, mailServer>>
  /\ UNCHANGED <<lines, mails>>

-----------------------------------------------------------------------------
(* A transfer. *)

\* smtp_do, imap_do, pop3_do
Do ==
  /\ mailPhase = "do"
  /\ LET r == Begin([mail EXCEPT !.got = <<>>, !.left = 0, !.sending = FALSE, !.toEob = FALSE, !.result = "none"])
     IN  /\ Sends(r)
         /\ mailPhase' = IF r.ok THEN "doing" ELSE "closed"
  /\ UNCHANGED <<lines, mailServer, mails>>

\* the body of an upload has gone out; with SMTP its end goes with it
SendBody ==
  /\ mailPhase = "perform" /\ mail.sending
  /\ Sends([Wait([mail EXCEPT !.sending = FALSE]) EXCEPT !.cmd = IF Proto = "smtp" THEN <<"text">> ELSE Nothing])
  /\ UNCHANGED <<mailPhase, lines, mailServer, mails>>

\* bytes of a body the network has; of a literal no more than are left
Receive ==
  /\ mailPhase = "perform" /\ (mail.left > 0 \/ mail.toEob)
  /\ \E k \in 1..Len(lines) :
       LET kinds == [i \in 1..k |-> lines[i].k]
       IN  /\ mail.left > 0 => k <= mail.left
           /\ mail' = [mail EXCEPT !.got = @ \o kinds, !.left = IF @ = 0 THEN 0 ELSE @ - k,
                                   !.toEob = @ /\ lines[k].k # "eob"]
           /\ lines' = SubSeq(lines, k + 1, Len(lines))
  /\ UNCHANGED <<mailPhase, commands, mailServer, mails>>

\* smtp_done, imap_done, pop3_done after a good transfer
Done ==
  /\ mailPhase = "perform" /\ ~mail.sending /\ mail.left = 0 /\ ~mail.toEob
  /\ LET r == End(mail)
     IN  /\ Sends(IF r.c.state = "STOP" THEN [r EXCEPT !.c.result = "ok"] ELSE r)
         /\ mailPhase' = IF r.c.state = "STOP" THEN "idle" ELSE "final"
  /\ UNCHANGED <<lines, mailServer, mails>>

\* a time-out, a broken connection or an abort by a callback
Interrupted ==
  /\ mailPhase \in {"login", "doing", "perform"}
  /\ mailPhase' = "closed"
  /\ UNCHANGED <<mail, commands, lines, mailServer, mails>>

\* the wait for the last answer is given up; the connection is kept
GivenUp ==
  /\ ImpatientMail /\ mailPhase = "final"
  /\ mail' = [mail EXCEPT !.result = "given up"] /\ mailPhase' = "idle"
  /\ UNCHANGED <<commands, lines, mailServer, mails>>

-----------------------------------------------------------------------------
(* The connection between transfers. *)

Clean == commands = <<>> /\ lines = <<>> /\ mail.buf = <<>>

Again ==
  /\ mailPhase = "idle" /\ mails < mail.case.mails
  /\ Clean \/ LateAnswers
  /\ mails' = mails + 1
  /\ \E o \in MailRequests[Proto] : mail' = [mail EXCEPT !.o = o]
  /\ mailPhase' = "do"
  /\ UNCHANGED <<commands, lines, mailServer>>

\* bytes nobody waited for are found when the connection is looked at
Unclean ==
  /\ mailPhase = "idle" /\ lines # <<>>
  /\ mailPhase' = "closed"
  /\ UNCHANGED <<mail, commands, lines, mailServer, mails>>

\* smtp_disconnect, imap_disconnect, pop3_disconnect of a connection that works
Quit ==
  /\ mailPhase = "idle"
  /\ Sends(Sent(mail, <<"QUIT">>, "QUIT"))
  /\ mailPhase' = "quit"
  /\ UNCHANGED <<lines, mailServer, mails>>

-----------------------------------------------------------------------------
NewMail(case, o) ==
  [case |-> case, login |-> case.login, o |-> o, state |-> "STOP", ssl |-> FALSE,
   sasl |-> [state |-> "STOP", authmechs |-> {}, authused |-> "none", forceIr |-> FALSE],
   tls |-> FALSE, auth |-> {}, buf |-> <<>>, got |-> <<>>, left |-> 0, sending |-> FALSE, toEob |-> FALSE,
   transfer |-> "body", rcpt |-> <<>>, rcptOk |-> FALSE, preauth |-> FALSE, loginDisabled |-> FALSE, ir |-> FALSE,
   mailbox |-> "none", uidvalidity |-> 0, result |-> "none"]
NewServer(case) ==
  [tls |-> FALSE, clear |-> case.clear, over |-> case.over, authed |-> FALSE, mech |-> "none", got |-> <<>>,
   tried |-> {}, again |-> FALSE, muddled |-> FALSE, box |-> "none", envelope |-> FALSE, accepted |-> {},
   refused |-> {}, stored |-> {}, size |-> 0, gave |-> TRUE]

Init ==
  /\ \E case \in MailCases : \E o \in MailRequests[case.proto] :
       mail = NewMail(case, o) /\ mailServer = NewServer(case)
  /\ mailPhase = "new" /\ commands = <<>> /\ lines = <<>> /\ mails = 1

Next ==
  \/ Serve \/ ReadLine \/ Connect \/ UpgradeTls \/ Do \/ SendBody \/ Receive \/ Done
  \/ Interrupted \/ GivenUp \/ Again \/ Unclean \/ Quit

\* The server answers, what it sends arrives, and libcurl goes on.
Advance == Serve \/ ReadLine \/ Connect \/ UpgradeTls \/ Do \/ SendBody \/ Receive \/ Done

Fairness == WF_mailVars(Advance)

Spec == Init /\ [][Next]_mailVars /\ Fairness

-----------------------------------------------------------------------------
TypeOK ==
  /\ mailPhase \in {"new", "login", "do", "doing", "perform", "final", "idle", "quit", "closed"}
  /\ mail.left \in 0..MaxBody /\ mail.uidvalidity \in 0..2 /\ mails \in 1..mail.case.mails
  /\ mail.transfer \in {"body", "info"} /\ mail.result \in {"none", "ok", "failed", "given up"}
  /\ mail.sasl.state \in {"STOP", "PLAIN", "LOGIN", "LOGIN_PASSWD", "EXTERNAL", "CRAMMD5", "DIGESTMD5", "DIGESTMD5_RESP",
                          "NTLM", "NTLM_TYPE2MSG", "OAUTH2", "OAUTH2_RESP", "CANCEL", "FINAL"}

Owed == Len(commands) + Len(SelectSeq(mail.buf \o lines, LAMBDA l : l.k \in {"ok", "no", "preauth", "cont", "bad", "553"}))

(* Questions and answers stay in step: a machine that waits is owed one answer, which no
   answer to an earlier command can be, and between transfers there is nothing to come.
   A line put in after the answer to STARTTLS is never taken for one that came over TLS. *)
MailInStep ==
  /\ Waits /\ mail.state \notin {"STARTTLS", "QUIT"} => Owed = 1
  /\ mailPhase = "do" \/ (mailPhase = "idle" /\ mail.result = "ok") => Clean

Harmless == {"EHLO", "CAPABILITY", "CAPA", "STARTTLS", "STLS", "QUIT"}

(* The login: with TLS required nothing but its request goes out in the clear; no word of
   an exchange is out of place, and no mechanism is tried twice; what the application asks
   for is sent when the server has accepted a login, if one was tried or could be. *)
LoginRight ==
  /\ mail.login.ssl = "all" /\ ~mailServer.tls => \A i \in DOMAIN commands : commands[i][1] \in Harmless
  /\ ~mailServer.muddled /\ ~mailServer.again
  /\ mailPhase \in {"do", "doing", "perform", "final", "idle"} =>
       \/ mailServer.authed \/ mail.preauth
       \/ mailServer.tried = {} /\ (Proto = "smtp" \/ ~mail.login.user)

Recipients == {mail.o.rcpts[i] : i \in DOMAIN mail.o.rcpts}

(* A mail reported as sent is stored for every recipient the server did not refuse, and
   none was refused unless that is allowed; and it was no part of another mail. *)
SmtpRight ==
  mailPhase = "idle" /\ mail.result = "ok" /\ mail.o.upload /\ Recipients # {} =>
    /\ mailServer.stored = Recipients \ mailServer.refused /\ mailServer.stored # {} /\ ~mailServer.envelope
    /\ mailServer.refused # {} => mail.o.allowFails

(* What is asked of a mailbox is asked while that one is selected, with the UIDVALIDITY the
   application named; a mail that was fetched is whole before its last answer is read. *)
ImapRight ==
  /\ commands # <<>> /\ Head(commands)[1] \in {"FETCH", "SEARCH", "CUSTOM"} /\ mail.o.mailbox # "none" =>
       /\ mailServer.box = mail.o.mailbox
       /\ mail.o.uidvalidity \in {0, UidValidity(mailServer.box)}
  /\ mailPhase = "final" /\ ~mail.o.upload => mail.got = [i \in 1..mailServer.size |-> "body"]

(* A mail reported as received is whole, up to the dot that ends it and not further. *)
Pop3Right ==
  mailPhase = "idle" /\ mail.result = "ok" /\ mail.transfer = "body" =>
    mail.got = [i \in 1..mailServer.size + 1 |-> IF i > mailServer.size THEN "eob" ELSE "body"]

(* What the server gave is not reported as a failure: a login that fails was not accepted,
   and a command that fails was refused, or it was another UIDVALIDITY. *)
FailedRight ==
  mail.result = "failed" /\ (mailPhase = "idle" \/ (mailPhase = "closed" /\ mail.state \notin {"QUIT", "STOP"})) =>
    IF mail.state \in {"SERVERGREET", "EHLO", "HELO", "CAPABILITY", "CAPA", "STARTTLS", "AUTH", "LOGIN", "APOP", "USER", "PASS"}
    THEN ~mailServer.authed
    ELSE \/ ~mailServer.gave
         \/ mail.state = "SELECT" /\ mail.o.uidvalidity \notin {0, UidValidity(mailServer.box)}

\* all of these, for the protocol of the case
MailRight ==
  /\ MailInStep /\ LoginRight /\ FailedRight
  /\ Proto = "smtp" => SmtpRight
  /\ Proto = "imap" => ImapRight
  /\ Proto = "pop3" => Pop3Right

InTransfer == mailPhase \notin {"new", "idle", "closed"}
=============================================================================
