---------------------------------- MODULE Smtp ----------------------------------
(***************************************************************************)
(* The command machine of SMTP (lib/smtp.c): what it sends first, and what *)
(* it makes of a line of an answer.  A line's kind is "caps" or "line" for *)
(* one that more follow, else "ok", "cont" (334, 354), "bad" (334 with     *)
(* what cannot be read), "553" or "no".                                    *)
(***************************************************************************)
EXTENDS Sasl

\* smtp_perform_ehlo, smtp_perform_helo
Ehlo(c) ==
  Sent([c EXCEPT !.sasl.authmechs = {}, !.sasl.authused = "none", !.tls = FALSE, !.auth = {}], <<"EHLO">>, "EHLO")
Helo(c) == Sent([c EXCEPT !.sasl.authused = "none"], <<"HELO">>, "HELO")

\* smtp_perform_authentication; auth says whether AUTH is supported
Authenticate(c) ==
  IF c.auth = {} \/ ~CanAuthenticate(c.sasl, c.login) THEN Stop(c)
  ELSE Authenticating(c, StartSasl(c.sasl, c.login, FALSE, TRUE), Fail(c))

\* smtp_perform_command and smtp_perform_mail
Command(c) == Sent(c, IF c.rcpt = <<>> THEN <<"HELP">> ELSE <<"VRFY", Head(c.rcpt)>>, "COMMAND")
Rcpt(c) == Sent(c, <<"RCPT", Head(c.rcpt)>>, "RCPT")
Perform(d) ==
  LET c == [d EXCEPT !.rcpt = d.o.rcpts, !.rcptOk = FALSE]
  IN  IF c.o.upload /\ c.rcpt # <<>> THEN Sent(c, <<"MAIL">>, "MAIL") ELSE Command(c)

\* smtp_endofresp: of lines that more follow only those of two commands count
IsResponse(c, l) == l.k \in {"caps", "line"} => c.state \in {"EHLO", "COMMAND"}

OnEhlo(c, l) ==
  CASE l.k = "caps" -> Wait([c EXCEPT !.tls = @ \/ l.caps.tls, !.auth = IF l.caps.auth = {} THEN @ ELSE {"sasl"},
                                      !.sasl.authmechs = @ \cup l.caps.auth])
    [] l.k = "ok" ->
         IF c.login.ssl = "no" \/ c.ssl THEN Authenticate(c)
         ELSE IF c.tls THEN Sent(c, <<"STARTTLS">>, "STARTTLS")
         ELSE IF c.login.ssl = "try" THEN Authenticate(c) ELSE Fail(c)
    [] OTHER -> IF c.login.ssl # "all" \/ c.ssl THEN Helo(c) ELSE Fail(c)

OnStartTls(c, l) ==
  CASE c.buf # <<>> -> Fail(c)
    [] c.buf = <<>> /\ l.k = "ok" -> Wait([c EXCEPT !.state = "UPGRADETLS"])
    [] OTHER -> IF c.login.ssl = "try" THEN Authenticate(c) ELSE Fail(c)

\* one recipient was taken or refused: the next one, or DATA when any was taken
OnRcpt(c, l) ==
  IF l.k # "ok" /\ ~c.o.allowFails THEN Fail(c)
  ELSE LET d == [c EXCEPT !.rcpt = Tail(@), !.rcptOk = @ \/ l.k = "ok"]
       IN  IF d.rcpt # <<>> THEN Rcpt(d) ELSE IF d.rcptOk THEN Sent(d, <<"DATA">>, "DATA") ELSE Fail(d)

\* smtp_state_command_resp
OnCommand(c, l) ==
  IF l.k \notin {"ok", "line"} /\ ~(l.k = "553" /\ c.rcpt # <<>>) THEN Fail(c)
  ELSE LET d == [c EXCEPT !.got = Append(@, "line")]
       IN  IF l.k = "line" THEN Wait(d)
           ELSE IF Len(d.rcpt) > 1 THEN Command([d EXCEPT !.rcpt = Tail(@)])
           ELSE Stop([d EXCEPT !.rcpt = <<>>])

OnReply(c, l) ==
  CASE c.state = "SERVERGREET" -> IF l.k = "ok" THEN Ehlo(c) ELSE Fail(c)
    [] c.state = "EHLO" -> OnEhlo(c, l)
    [] c.state = "HELO" -> IF l.k = "ok" THEN Stop(c) ELSE Fail(c)
    [] c.state = "STARTTLS" -> OnStartTls(c, l)
    [] c.state = "AUTH" -> Authenticating(c, ContinueSasl(c.sasl, c.login, l.k, TRUE), Fail(c))
    [] c.state = "COMMAND" -> OnCommand(c, l)
    [] c.state = "MAIL" -> IF l.k = "ok" THEN Rcpt(c) ELSE Fail(c)
    [] c.state = "RCPT" -> OnRcpt(c, l)
    [] c.state = "DATA" -> IF l.k = "cont" THEN Stop([c EXCEPT !.sending = TRUE]) ELSE Fail(c)
    [] c.state = "POSTDATA" -> [Stop(c) EXCEPT !.ok = l.k = "ok"]
    [] c.state = "QUIT" -> Stop(c)

\* smtp_done: the end of the mail went out with its last byte
Done(c) == IF c.o.upload /\ c.o.rcpts # <<>> THEN Sent(c, Nothing, "POSTDATA") ELSE Stop(c)
=============================================================================
