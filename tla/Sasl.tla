---------------------------------- MODULE Sasl ----------------------------------
(***************************************************************************)
(* SASL as SMTP, IMAP and POP3 use it (lib/curl_sasl.c), and the step of a *)
(* command machine (lib/pingpong.c): the connection after it and what it   *)
(* sends.  A command is a sequence of words.                               *)
(*                                                                         *)
(* A connection c has c.sasl, struct SASL, and c.login, what the           *)
(* application set for its login and does not change.                      *)
(***************************************************************************)
EXTENDS Naturals, Sequences

Nothing == <<>>

\* Curl_pp_vsendf sends a command and the state to wait for its answer is entered; a
\* machine may also stop, wait on, or fail.
Sent(c, cmd, st) == [c |-> [c EXCEPT !.state = st], cmd |-> cmd, ok |-> TRUE]
Stop(c) == [c |-> [c EXCEPT !.state = "STOP"], cmd |-> Nothing, ok |-> TRUE]
Wait(c) == [c |-> c, cmd |-> Nothing, ok |-> TRUE]
Fail(c) == [c |-> c, cmd |-> Nothing, ok |-> FALSE]

-----------------------------------------------------------------------------
\* the order in which Curl_sasl_start looks for a mechanism
Preference == <<"EXTERNAL", "DIGEST-MD5", "CRAM-MD5", "NTLM", "OAUTHBEARER", "XOAUTH2", "PLAIN", "LOGIN">>

Fits(m, login) ==
  CASE m = "EXTERNAL" -> ~login.passwd
    [] m \in {"OAUTHBEARER", "XOAUTH2"} -> login.user /\ login.bearer
    [] OTHER -> login.user

CanAuthenticate(s, login) == login.user \/ "EXTERNAL" \in s.authmechs \cap login.mechs

\* For each mechanism: the message that may go with the command, and the states without
\* and with it (state1 and state2).
First ==
  [m \in {"EXTERNAL", "NTLM", "OAUTHBEARER", "XOAUTH2", "PLAIN", "LOGIN"} |->
     CASE m = "EXTERNAL" -> "authzid" [] m = "NTLM" -> "type1" [] m = "PLAIN" -> "plain"
       [] m = "LOGIN" -> "user" [] OTHER -> "token"]
State1(m) ==
  CASE m = "DIGEST-MD5" -> "DIGESTMD5" [] m = "CRAM-MD5" -> "CRAMMD5"
    [] m \in {"OAUTHBEARER", "XOAUTH2"} -> "OAUTH2" [] OTHER -> m
State2(m) ==
  CASE m = "NTLM" -> "NTLM_TYPE2MSG" [] m = "OAUTHBEARER" -> "OAUTH2_RESP" [] m = "LOGIN" -> "LOGIN_PASSWD"
    [] OTHER -> "FINAL"

\* Curl_sasl_start; `limited': a message that is too long does not go with the command
StartSasl(s, login, ir, limited) ==
  LET fits == SelectSeq(Preference, LAMBDA m : m \in s.authmechs \cap login.mechs /\ Fits(m, login))
      t == [s EXCEPT !.forceIr = ir, !.authused = "none"]
      m == Head(fits)
      with == (ir \/ login.saslIr) /\ m \in DOMAIN First /\ ~(limited /\ login.long)
  IN  IF fits = <<>> THEN [sasl |-> t, cmd |-> Nothing, progress |-> "idle", ok |-> TRUE]
      ELSE [sasl |-> [t EXCEPT !.authused = m, !.state = IF with THEN State2(m) ELSE State1(m)],
            cmd |-> <<"AUTH", m>> \o (IF with THEN <<First[m]>> ELSE <<>>),
            progress |-> "inprogress", ok |-> TRUE]

\* what a state sends for a challenge, and the state after it
Reply(s) ==
  CASE s.state = "PLAIN" -> <<"plain", "FINAL">>
    [] s.state = "LOGIN" -> <<"user", "LOGIN_PASSWD">>
    [] s.state = "LOGIN_PASSWD" -> <<"passwd", "FINAL">>
    [] s.state = "EXTERNAL" -> <<"authzid", "FINAL">>
    [] s.state = "CRAMMD5" -> <<"cram", "FINAL">>
    [] s.state = "DIGESTMD5" -> <<"digest", "DIGESTMD5_RESP">>
    [] s.state = "DIGESTMD5_RESP" -> <<"", "FINAL">>
    [] s.state = "NTLM" -> <<"type1", "NTLM_TYPE2MSG">>
    [] s.state = "NTLM_TYPE2MSG" -> <<"type3", "FINAL">>
    [] s.state = "OAUTH2" -> <<"token", IF s.authused = "OAUTHBEARER" THEN "OAUTH2_RESP" ELSE "FINAL">>
    [] s.state = "OAUTH2_RESP" -> <<"abort", "FINAL">>

Cancelled(s) == [s EXCEPT !.authmechs = @ \ {s.authused}, !.authused = "none"]

\* Curl_sasl_continue.  `code' is "cont", "bad" for a challenge that cannot be read,
\* "ok", or "no".
ContinueSasl(s, login, code, limited) ==
  LET ends(ok) == [sasl |-> [s EXCEPT !.state = "STOP"], cmd |-> Nothing, progress |-> "done", ok |-> ok]
      goes(word, st) == [sasl |-> [s EXCEPT !.state = st], cmd |-> <<"data", word>>, progress |-> "inprogress", ok |-> TRUE]
  IN  CASE s.state = "FINAL" -> ends(code = "ok")
        [] s.state = "CANCEL" -> StartSasl(Cancelled(s), login, s.forceIr, limited)
        [] s.state = "OAUTH2_RESP" /\ code = "ok" -> ends(TRUE)
        [] s.state \notin {"FINAL", "CANCEL"} /\ code \in {"no", "ok"} /\ ~(s.state = "OAUTH2_RESP" /\ code = "ok") -> ends(FALSE)
        [] code = "bad" /\ s.state \in {"CRAMMD5", "DIGESTMD5", "NTLM_TYPE2MSG"} -> goes("*", "CANCEL")
        [] OTHER -> goes(Reply(s)[1], Reply(s)[2])

\* Where it led: goes on with the machine's AUTH state, or says what to do next.
Authenticating(c, r, idle) ==
  LET d == [c EXCEPT !.sasl = r.sasl]
  IN  CASE ~r.ok -> Fail(d)
        [] r.ok /\ r.progress = "inprogress" -> Sent(d, r.cmd, "AUTH")
        [] r.ok /\ r.progress = "done" -> Stop(d)
        [] OTHER -> idle
=============================================================================
