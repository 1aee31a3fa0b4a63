---------------------------------- MODULE Imap ----------------------------------
(***************************************************************************)
(* The command machine of IMAP (lib/imap.c).  A line of an answer is tagged*)
(* ("ok", "no"), a continuation ("cont", "bad") or untagged: "caps",       *)
(* "uidvalidity", "line" (what a LIST, a SEARCH or a custom command asked  *)
(* for), "fetch" with the size of a literal, "other"; the bytes of a       *)
(* literal ("body") and the line after it ("rest") are none of these.      *)
(***************************************************************************)
EXTENDS Sasl

\* imap_perform_capability; LOGINDISABLED and SASL-IR stay as they were
Capability(c) == Sent([c EXCEPT !.sasl.authmechs = {}, !.sasl.authused = "none", !.tls = FALSE], <<"CAPABILITY">>, "CAPABILITY")

\* imap_perform_login
Login(c) == IF ~c.login.user THEN Stop(c) ELSE Sent(c, <<"LOGIN">>, "LOGIN")
\* no mechanism is left
PlainLogin(c) == IF ~c.loginDisabled /\ "cleartext" \in c.login.types THEN Login(c) ELSE Fail(c)

\* imap_perform_authentication
Authenticate(c) ==
  IF c.preauth \/ ~CanAuthenticate(c.sasl, c.login) THEN Stop(c)
  ELSE LET r == StartSasl(c.sasl, c.login, c.ir, FALSE)
       IN  Authenticating(c, r, PlainLogin([c EXCEPT !.sasl = r.sasl]))

List(c) == Sent(c, IF c.o.custom THEN <<"CUSTOM">> ELSE <<"LIST">>, "LIST")
Search(c) == Sent(c, <<"SEARCH">>, "SEARCH")
Fetch(c) == Sent(c, <<"FETCH">>, "FETCH")
\* imap_perform_select: what is known of another mailbox goes, but for its UIDVALIDITY
Select(c) == Sent([c EXCEPT !.mailbox = "none"], <<"SELECT", c.o.mailbox>>, "SELECT")

\* Bug variant: UIDVALIDITY is not looked at.
SelectedByName(c) == c.o.mailbox # "none" /\ c.mailbox = c.o.mailbox
Selected(c) ==
  /\ c.o.mailbox # "none" /\ c.mailbox = c.o.mailbox
  /\ c.o.uidvalidity = 0 \/ c.uidvalidity = 0 \/ c.o.uidvalidity = c.uidvalidity

\* imap_perform
Perform(c) ==
  CASE c.o.upload -> IF c.o.mailbox = "none" THEN Fail(c) ELSE Sent(c, <<"APPEND", c.o.mailbox>>, "APPEND")
    [] ~c.o.upload /\ c.o.custom /\ (Selected(c) \/ c.o.mailbox = "none") -> List(c)
    [] ~c.o.upload /\ ~c.o.custom /\ Selected(c) /\ c.o.asks = "uid" -> Fetch(c)
    [] ~c.o.upload /\ ~c.o.custom /\ Selected(c) /\ c.o.asks = "query" -> Search(c)
    [] ~c.o.upload /\ c.o.mailbox # "none" /\ ~Selected(c) /\ (c.o.custom \/ c.o.asks # "nothing") -> Select(c)
    [] OTHER -> List(c)

\* imap_endofresp
IsResponse(c, l) ==
  CASE l.k \in {"ok", "no", "preauth", "cont", "bad"} -> TRUE
    [] l.k = "caps" -> c.state = "CAPABILITY"
    [] l.k \in {"uidvalidity", "other"} -> c.state = "SELECT"
    [] l.k = "line" -> c.state \in {"LIST", "SEARCH", "SELECT"}
    [] l.k = "fetch" -> c.state \in {"FETCH", "SELECT"}
    [] OTHER -> FALSE

OnCapability(c, l) ==
  IF l.k = "caps"
  THEN Wait([c EXCEPT !.tls = @ \/ l.caps.tls, !.sasl.authmechs = @ \cup l.caps.auth,
                      !.loginDisabled = @ \/ l.caps.loginDisabled, !.ir = @ \/ l.caps.ir])
  ELSE CASE c.login.ssl = "no" \/ c.ssl -> Authenticate(c)
         [] c.login.ssl # "no" /\ ~c.ssl /\ l.k = "ok" /\ c.tls /\ ~c.preauth -> Sent(c, <<"STARTTLS">>, "STARTTLS")
         [] OTHER -> IF c.login.ssl = "all" THEN Fail(c) ELSE Authenticate(c)

OnStartTls(c, l) ==
  CASE c.buf # <<>> -> Fail(c)
    [] c.buf = <<>> /\ l.k = "ok" -> Wait([c EXCEPT !.state = "UPGRADETLS"])
    [] OTHER -> IF c.login.ssl = "try" THEN Authenticate(c) ELSE Fail(c)

OnAuth(c, l) ==
  LET r == ContinueSasl(c.sasl, c.login, l.k, FALSE)
  IN  Authenticating(c, r, PlainLogin([c EXCEPT !.sasl = r.sasl]))

\* imap_state_select_resp
OnSelect(c, l) ==
  CASE l.k = "uidvalidity" -> Wait([c EXCEPT !.uidvalidity = l.n])
    [] l.k = "ok" ->
         IF c.o.uidvalidity # 0 /\ c.uidvalidity # 0 /\ c.o.uidvalidity # c.uidvalidity THEN Fail(c)
         ELSE LET d == [c EXCEPT !.mailbox = c.o.mailbox]
              IN  IF c.o.custom THEN List(d) ELSE IF c.o.asks = "query" THEN Search(d) ELSE Fetch(d)
    [] l.k = "no" -> Fail(c)
    [] OTHER -> Wait(c)

\* imap_state_listsearch_resp, without literals
OnList(c, l) ==
  CASE l.k = "line" -> Wait([c EXCEPT !.got = Append(@, "line")])
    [] l.k = "ok" -> Stop(c)
    [] OTHER -> Fail(c)

\* imap_state_fetch_resp: the part of the literal that was read along with the line is
\* written; the rest is received by the transfer
OnFetch(c, l) ==
  IF l.k # "fetch" THEN Fail(c)
  ELSE LET n == IF Len(c.buf) < l.n THEN Len(c.buf) ELSE l.n
       IN  Stop([c EXCEPT !.got = [i \in 1..n |-> c.buf[i].k], !.buf = SubSeq(@, n + 1, Len(@)), !.left = l.n - n])

OnReply(c, l) ==
  CASE c.state = "SERVERGREET" ->
         IF l.k = "no" THEN Fail(c) ELSE Capability([c EXCEPT !.preauth = l.k = "preauth"])
    [] c.state = "CAPABILITY" -> OnCapability(c, l)
    [] c.state = "STARTTLS" -> OnStartTls(c, l)
    [] c.state = "AUTH" -> OnAuth(c, l)
    [] c.state = "LOGIN" -> IF l.k = "ok" THEN Stop(c) ELSE Fail(c)
    [] c.state \in {"LIST", "SEARCH"} -> OnList(c, l)
    [] c.state = "SELECT" -> OnSelect(c, l)
    [] c.state = "FETCH" -> OnFetch(c, l)
    [] c.state = "APPEND" -> IF l.k = "cont" THEN Stop([c EXCEPT !.sending = TRUE]) ELSE Fail(c)
    [] c.state \in {"FETCH_FINAL", "APPEND_FINAL"} -> IF l.k = "ok" THEN Stop(c) ELSE Fail(c)
    [] c.state = "QUIT" -> Stop(c)

\* imap_done: the line end after an upload, and the last answer
Done(c) ==
  CASE c.o.upload -> Sent(c, <<"text">>, "APPEND_FINAL")
    [] ~c.o.upload /\ ~c.o.custom /\ c.o.asks = "uid" -> Sent(c, Nothing, "FETCH_FINAL")
    [] OTHER -> Stop(c)
=============================================================================
