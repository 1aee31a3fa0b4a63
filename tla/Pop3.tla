---------------------------------- MODULE Pop3 ----------------------------------
(***************************************************************************)
(* The command machine of POP3 (lib/pop3.c).  A line of an answer is "ok", *)
(* "no", a continuation ("cont", "bad") or "caps"; the lines of a mail are *)
(* "body" and "eob", the dot at the end.                                   *)
(***************************************************************************)
EXTENDS Sasl

\* pop3_perform_capa; what was learned of the types of login stays
Capa(c) == Sent([c EXCEPT !.sasl.authmechs = {}, !.sasl.authused = "none", !.tls = FALSE], <<"CAPA">>, "CAPA")

User(c) == IF ~c.login.user THEN Stop(c) ELSE Sent(c, <<"USER">>, "USER")
Apop(c) == IF ~c.login.user THEN Stop(c) ELSE Sent(c, <<"APOP">>, "APOP")
Types(c) == c.auth \cap c.login.types
\* no mechanism is left
OtherLogin(c) ==
  CASE "apop" \in Types(c) -> Apop(c)
    [] "apop" \notin Types(c) /\ "cleartext" \in Types(c) -> User(c)
    [] OTHER -> Fail(c)

\* pop3_perform_authentication
Authenticate(c) ==
  CASE ~CanAuthenticate(c.sasl, c.login) -> Stop(c)
    [] CanAuthenticate(c.sasl, c.login) /\ "sasl" \in Types(c) ->
         LET r == StartSasl(c.sasl, c.login, FALSE, TRUE)
         IN  Authenticating(c, r, OtherLogin([c EXCEPT !.sasl = r.sasl]))
    [] OTHER -> OtherLogin(c)

\* pop3_perform_command with pop3_is_multiline
CommandOf(o) == IF o.custom # "no" THEN o.custom ELSE IF ~o.id \/ o.listOnly THEN "LIST" ELSE "RETR"
Multiline == {"LIST", "RETR", "UIDL", "TOP"}
Perform(c) ==
  Sent([c EXCEPT !.transfer = IF (c.o.listOnly /\ c.o.id) \/ CommandOf(c.o) \notin Multiline THEN "info" ELSE "body"],
       <<CommandOf(c.o)>>, "COMMAND")

\* pop3_endofresp
IsResponse(c, l) == l.k \in {"ok", "no", "cont", "bad"} \/ c.state = "CAPA"

OnCapa(c, l) ==
  IF l.k = "caps"
  THEN Wait([c EXCEPT !.tls = @ \/ l.caps.tls, !.sasl.authmechs = @ \cup l.caps.auth,
                      !.auth = @ \cup (IF l.caps.user THEN {"cleartext"} ELSE {})
                                 \cup (IF l.caps.auth # {} THEN {"sasl"} ELSE {})])
  ELSE LET d == IF l.k = "ok" THEN c ELSE [c EXCEPT !.auth = @ \cup {"cleartext"}]
       IN  CASE c.login.ssl = "no" \/ c.ssl -> Authenticate(d)
             [] c.login.ssl # "no" /\ ~c.ssl /\ l.k = "ok" /\ c.tls -> Sent(d, <<"STLS">>, "STARTTLS")
             [] OTHER -> IF c.login.ssl = "try" THEN Authenticate(d) ELSE Fail(d)

OnStartTls(c, l) ==
  CASE c.buf # <<>> -> Fail(c)
    [] c.buf = <<>> /\ l.k = "ok" -> Wait([c EXCEPT !.state = "UPGRADETLS"])
    [] OTHER -> IF c.login.ssl = "try" THEN Authenticate(c) ELSE Fail(c)

OnAuth(c, l) ==
  LET r == ContinueSasl(c.sasl, c.login, l.k, TRUE)
  IN  Authenticating(c, r, OtherLogin([c EXCEPT !.sasl = r.sasl]))

\* pop3_state_command_resp: what of the mail was read along is written
OnCommand(c, l) ==
  CASE l.k # "ok" -> Fail(c)
    [] l.k = "ok" /\ c.transfer = "body" ->
         LET end == c.buf # <<>> /\ c.buf[Len(c.buf)].k = "eob"
         IN  Stop([c EXCEPT !.got = [i \in DOMAIN c.buf |-> c.buf[i].k], !.buf = <<>>, !.toEob = ~end])
    [] OTHER -> Stop(c)

OnReply(c, l) ==
  CASE c.state = "SERVERGREET" -> IF l.k = "ok" THEN Capa([c EXCEPT !.auth = IF l.n > 0 THEN {"apop"} ELSE {}]) ELSE Fail(c)
    [] c.state = "CAPA" -> OnCapa(c, l)
    [] c.state = "STARTTLS" -> OnStartTls(c, l)
    [] c.state = "AUTH" -> OnAuth(c, l)
    [] c.state \in {"APOP", "PASS"} -> IF l.k = "ok" THEN Stop(c) ELSE Fail(c)
    [] c.state = "USER" -> IF l.k = "ok" THEN Sent(c, <<"PASS">>, "PASS") ELSE Fail(c)
    [] c.state = "COMMAND" -> OnCommand(c, l)
    [] c.state = "QUIT" -> Stop(c)
=============================================================================
