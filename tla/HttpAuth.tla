------------------------------ MODULE HttpAuth ------------------------------
(***************************************************************************)
(* HTTP authentication of a transfer, with the host and with a proxy       *)
(* (lib/http.c, http_ntlm.c, http_digest.c, vauth/digest.c), through a     *)
(* plain proxy or the tunnel of cf-h1-proxy.c: Basic, Digest and NTLM,     *)
(* several of them wanted or offered, a POST whose body is held back while *)
(* the exchange goes on, a redirect to another host, connections that are  *)
(* closed in between, and a second transfer with the same easy handle.     *)
(*                                                                         *)
(* `who' is one of the two struct auth: "host" or "proxy".  The servers    *)
(* are honest: they demand what `needs' says and judge what they get.  A   *)
(* step is about a request or its response, not about their bytes.  The    *)
(* pool holds one connection to each destination.                          *)
(***************************************************************************)
EXTENDS Naturals, FiniteSets, SequencesExt

CONSTANTS
  AuthOptions,   \* the sets of options to run with
  MaxRedirs,     \* CURLOPT_MAXREDIRS
  MaxRuns,       \* bound: transfers with the easy handle
  MaxStale       \* bound: how often a server calls a nonce stale

Schemes == {"basic", "digest", "ntlm"}
Who == {"host", "proxy"}

\* options: proxy ("none", "plain", "tunnel"), want (by who), needs (by "proxy", "first" and
\* "other" host), user and proxyUser (is there one), right (credentials, by who), post, big (too
\* much to send on just to keep the connection), fail, moves ("no", or a redirect to another
\* "host" or "port"), unrestricted, closes ("no", "politely", "any"), basicFirst (the order of
\* the schemes in a response)
AuthConstants ==
  /\ MaxRedirs \in Nat /\ MaxRuns \in Nat \ {0} /\ MaxStale \in Nat
  /\ \A o \in AuthOptions :
       /\ o.proxy \in {"none", "plain", "tunnel"} /\ \A w \in Who : o.want[w] \subseteq Schemes
       /\ o.proxy = "none" => ~o.proxyUser
       /\ o.proxy = "plain" /\ o.moves = "port" => "ntlm" \notin o.want["host"]

VARIABLES
  easy,     \* [o, n, phase, problem, authneg, newurl, here, user, redirs, code, result, stales]
  auth,     \* authhost and authproxy: [picked, avail, done, multipass]
  nonce,    \* the challenge in state.digest and state.proxydigest, if there is one
  conns,    \* the pool: by destination, [open, close, tunnel, ntlm, challenged, authed]
  request   \* the last one: [to, line, body]

authVars == <<easy, auth, nonce, conns, request>>

opt == easy.o
Destination(here) == IF opt.proxy = "plain" THEN "proxy" ELSE here
NewConn == [open |-> TRUE, close |-> FALSE, tunnel |-> FALSE, ntlm |-> [w \in Who |-> "none"],
            challenged |-> {}, authed |-> {}]
NoLines == [w \in Who |-> "none"]

Init ==
  /\ \E o \in AuthOptions :
       easy = [o |-> o, n |-> 1, phase |-> "connect", problem |-> FALSE, authneg |-> FALSE, newurl |-> "none",
               here |-> "first", user |-> o.user, redirs |-> 0, code |-> 0, result |-> "none", stales |-> 0]
  /\ auth = [w \in Who |-> [picked |-> {}, avail |-> {}, done |-> FALSE, multipass |-> FALSE]]
  /\ nonce = [w \in Who |-> FALSE]
  /\ conns = [d \in {"proxy", "first", "other"} |-> [NewConn EXCEPT !.open = FALSE]]
  /\ request = [to |-> "none", line |-> NoLines, body |-> FALSE]

\* what the operators work on, and how a step puts it back
Now == [e |-> easy, a |-> auth, d |-> nonce, c |-> conns[Destination(easy.here)], line |-> NoLines]
Becomes(s) ==
  /\ easy' = s.e /\ auth' = s.a /\ nonce' = s.d
  /\ conns' = [conns EXCEPT ![Destination(easy.here)] = s.c]

-----------------------------------------------------------------------------
(* Curl_http_output_auth *)

HasUser(s, w) == IF w = "host" THEN s.e.user ELSE opt.proxyUser
\* Curl_auth_allowed_to_host
Allowed(s) == s.e.here = "first" \/ opt.unrestricted

Ntlm(s, w) ==
  LET st == IF s.c.ntlm[w] = "type3" THEN "last" ELSE s.c.ntlm[w]
      done == st \in {"type2", "last"}
  IN  [s EXCEPT !.c.ntlm[w] = IF st = "type2" THEN "type3" ELSE st,
                !.line[w] = CASE st = "type2" -> "ntlm3" [] st = "last" -> "none" [] OTHER -> "ntlm1",
                !.a[w].done = done, !.a[w].multipass = ~done]
Digest(s, w) ==
  [s EXCEPT !.line[w] = IF s.d[w] THEN "digest" ELSE "none", !.a[w].done = s.d[w], !.a[w].multipass = ~s.d[w]]
Basic(s, w) ==
  [s EXCEPT !.line[w] = IF HasUser(s, w) THEN "basic" ELSE "none", !.a[w].done = TRUE, !.a[w].multipass = FALSE]

OutputLine(s, w) ==
  CASE s.a[w].picked = {"ntlm"} -> Ntlm(s, w)
    [] s.a[w].picked = {"digest"} -> Digest(s, w)
    [] s.a[w].picked = {"basic"} -> Basic(s, w)
    [] OTHER -> [s EXCEPT !.a[w].multipass = FALSE]
Preset(s) ==
  [s EXCEPT !.a = [w \in Who |-> [@[w] EXCEPT !.picked = IF @ = {} THEN opt.want[w] ELSE @]]]
AuthDone(s, w) == [s EXCEPT !.a[w].done = TRUE]
OnGoing(s) == \E w \in Who : s.a[w].multipass /\ ~s.a[w].done

OutputAuth(s, connect) ==
  LET p == IF opt.proxy # "none" /\ (opt.proxy = "tunnel") = connect
           THEN OutputLine(Preset(s), "proxy") ELSE AuthDone(Preset(s), "proxy")
      h == IF Allowed(s) THEN OutputLine(p, "host") ELSE AuthDone(p, "host")
  IN  IF ~opt.proxyUser /\ ~s.e.user THEN AuthDone(AuthDone(s, "proxy"), "host")
      ELSE [h EXCEPT !.e.authneg = OnGoing(h) /\ opt.post /\ ~connect]

-----------------------------------------------------------------------------
(* Curl_http_input_auth *)

\* Curl_input_digest: a new challenge that does not say the last one was stale refuses
\* what was sent
InputDigest(s, w, offer) ==
  IF "digest" \in s.a[w].avail THEN s
  ELSE [s EXCEPT !.a[w].avail = @ \cup {"digest"}, !.d[w] = TRUE,
                 !.e.problem = @ \/ (s.d[w] /\ ~offer.stale)]

\* Curl_input_ntlm
InputNtlm(s, w, offer) ==
  LET st == s.c.ntlm[w]
      seen == [s EXCEPT !.a[w].avail = @ \cup {"ntlm"}]
      to(state, problem) == [seen EXCEPT !.c.ntlm[w] = state, !.e.problem = problem]
  IN  CASE s.a[w].picked # {"ntlm"} -> seen
        [] s.a[w].picked = {"ntlm"} /\ offer.challenge -> to("type2", FALSE)
        [] s.a[w].picked = {"ntlm"} /\ ~offer.challenge ->
             CASE st \in {"none", "last"} -> to("type1", FALSE)
               [] st = "type3" -> to("none", TRUE)
               [] OTHER -> to(st, TRUE)

InputBasic(s, w) ==
  IF s.a[w].picked = {"basic"} THEN [s EXCEPT !.a[w].avail = {}, !.e.problem = TRUE]
  ELSE [s EXCEPT !.a[w].avail = @ \cup {"basic"}]

InputAuth(s, w, offer) ==
  LET read(t, scheme) ==
        CASE scheme \notin offer.schemes -> t
          [] scheme = "digest" /\ scheme \in offer.schemes -> InputDigest(t, w, offer)
          [] scheme = "ntlm" /\ scheme \in offer.schemes -> InputNtlm(t, w, offer)
          [] scheme = "basic" /\ scheme \in offer.schemes -> InputBasic(t, w)
      order == <<"ntlm", "digest", "basic">>
  IN  FoldLeft(read, s, IF opt.basicFirst THEN Reverse(order) ELSE order)

-----------------------------------------------------------------------------
(* Curl_http_auth_act *)

\* pickoneauth
Best(can) ==
  IF "digest" \in can THEN {"digest"} ELSE IF "ntlm" \in can THEN {"ntlm"}
  ELSE IF "basic" \in can THEN {"basic"} ELSE {"picknone"}
CanPick(s, w) == s.a[w].avail \cap opt.want[w] # {}
Pick(s, w) ==
  [s EXCEPT !.a[w].picked = Best(s.a[w].avail \cap opt.want[w]), !.a[w].avail = {},
            !.e.problem = @ \/ ~CanPick(s, w)]

\* http_perhapsrewind; `early' is a response before the whole body was sent
KeepsForNtlm(s) == (\E w \in Who : s.a[w].picked = {"ntlm"}) /\ (\E w \in Who : s.c.ntlm[w] # "none")
PerhapsRewind(s, early) ==
  IF early /\ opt.big /\ ~KeepsForNtlm(s) THEN [s EXCEPT !.c.close = TRUE] ELSE s

\* http_should_fail
ShouldFail(s, code) ==
  /\ opt.fail /\ code >= 400
  /\ code \in {401, 407} => s.e.problem \/ (IF code = 401 THEN ~s.e.user ELSE ~opt.proxyUser)

Asked(s, w, code) ==
  HasUser(s, w) /\ (code = (IF w = "host" THEN 401 ELSE 407) \/ (s.e.authneg /\ code < 300))

\* what follows from the code and from what could be picked; `again' asks for a repetition
\* if an empty request had the response that the one with the body was to get
ActThen(s, code, early, again) ==
  LET h == IF Asked(s, "host", code) THEN Pick(s, "host") ELSE s
      p == IF Asked(s, "proxy", code) THEN Pick(h, "proxy") ELSE h
      picked == \E w \in Who : Asked(s, w, code) /\ CanPick(s, w)
      r == CASE picked -> [PerhapsRewind(p, early) EXCEPT !.e.newurl = "same"]
             [] ~picked /\ again /\ ~p.a["host"].done -> [p EXCEPT !.e.newurl = "same", !.a["host"].done = TRUE]
             [] OTHER -> p
  IN  IF ShouldFail(r, code) THEN [r EXCEPT !.e.result = "http"] ELSE r

\* Bug variant: the answer to the empty request is taken for the transfer's.
ActProbeSuffices(s, code, early) == ActThen(s, code, early, FALSE)

ActUnlessProblem(s, code, early) == ActThen(s, code, early, code < 300 /\ s.e.authneg /\ opt.post)

AuthAct(s, code, early) ==
  IF s.e.problem THEN [s EXCEPT !.e.result = IF opt.fail THEN "http" ELSE @]
  ELSE ActUnlessProblem(s, code, early)

-----------------------------------------------------------------------------
(* The servers.  A judgement is [ok, offer, c]: whether the request gets   *)
(* what it asks for, and what is offered otherwise.                        *)

Party(w) == IF w = "proxy" THEN "proxy" ELSE easy.here
Offer(schemes, challenge, stale) == [schemes |-> schemes, challenge |-> challenge, stale |-> stale]
Nothing == Offer({}, FALSE, FALSE)
Right(w) == opt.right[w] /\ (IF w = "host" THEN easy.user ELSE opt.proxyUser)

Judgements(w, c) ==
  LET party == Party(w)
      line == request.line[w]
      needs == opt.needs[party]
      passes == [ok |-> TRUE, offer |-> Nothing, c |-> c]
      refuses(stale) == [ok |-> FALSE, offer |-> Offer(needs, FALSE, stale), c |-> [c EXCEPT !.challenged = @ \ {party}]]
  IN  IF needs = {} \/ party \in c.authed THEN {passes}
      ELSE CASE line \in needs /\ line = "basic" /\ Right(w) -> {passes}
             [] line \in needs /\ line = "digest" /\ Right(w) ->
                  {passes} \cup IF easy.stales < MaxStale THEN {refuses(TRUE)} ELSE {}
             [] line = "ntlm1" /\ "ntlm" \in needs ->
                  {[ok |-> FALSE, offer |-> Offer({"ntlm"}, TRUE, FALSE), c |-> [c EXCEPT !.challenged = @ \cup {party}]]}
             [] line = "ntlm3" /\ party \in c.challenged /\ Right(w) ->
                  {[passes EXCEPT !.c.challenged = @ \ {party}, !.c.authed = @ \cup {party}]}
             [] OTHER -> {refuses(FALSE)}

\* A server closes the connection when it likes, a polite one not with a challenge for it;
\* a proxy asked for a tunnel is polite.
MayClose(j, polite) ==
  CASE opt.closes = "no" -> {FALSE}
    [] opt.closes = "politely" \/ (opt.closes = "any" /\ polite) -> IF j.offer.challenge THEN {FALSE} ELSE BOOLEAN
    [] OTHER -> BOOLEAN
CountStale(s, offer) == [s EXCEPT !.e.stales = IF offer.stale THEN @ + 1 ELSE @]

-----------------------------------------------------------------------------
\* Curl_connect: the pooled connection, or a new one, which an NTLM exchange that had
\* ended starts afresh on
ForNewConn(a) == IF "ntlm" \in a.picked /\ a.done THEN [a EXCEPT !.picked = {}, !.done = FALSE] ELSE a
Connect ==
  /\ easy.phase = "connect"
  /\ LET pooled == conns[Destination(easy.here)].open
         s == [Now EXCEPT !.e.authneg = FALSE, !.e.newurl = "none", !.e.code = 0]
         t == IF pooled THEN s ELSE [s EXCEPT !.c = NewConn, !.a = [w \in Who |-> ForNewConn(@[w])]]
     IN  Becomes([t EXCEPT !.e.phase = IF opt.proxy = "tunnel" /\ ~t.c.tunnel THEN "tunnel" ELSE "do"])
  /\ UNCHANGED request

\* H1_CONNECT
SendConnect ==
  /\ easy.phase = "tunnel"
  /\ LET s == OutputAuth([Now EXCEPT !.e.newurl = "none"], TRUE)
     IN  /\ Becomes([s EXCEPT !.e.phase = "connectReply"])
         /\ request' = [to |-> "proxy", line |-> [s.line EXCEPT !["host"] = "none"], body |-> FALSE]

Established ==
  /\ easy.phase = "connectReply"
  /\ \E j \in Judgements("proxy", Now.c) :
       /\ j.ok
       /\ Becomes([Now EXCEPT !.c = [j.c EXCEPT !.tunnel = TRUE], !.a["proxy"].done = TRUE,
                              !.a["proxy"].multipass = FALSE, !.e.phase = "do"])
  /\ UNCHANGED request

\* a 407; with a close the connection below the tunnel is made again
Proxy407 ==
  /\ easy.phase = "connectReply"
  /\ \E j \in Judgements("proxy", Now.c) : \E close \in MayClose(j, TRUE) :
       LET s == AuthAct(InputAuth(CountStale([Now EXCEPT !.c = j.c], j.offer), "proxy", j.offer), 407, FALSE)
           again == s.e.newurl # "none" /\ s.e.result = "none"
           other == [s.c EXCEPT !.challenged = {}, !.authed = {}]
       IN  /\ ~j.ok
           /\ IF again THEN Becomes([s EXCEPT !.e.phase = "tunnel", !.c = IF close THEN other ELSE @])
              ELSE Becomes([s EXCEPT !.e.phase = "ended", !.e.code = 407, !.c.open = FALSE,
                                     !.e.result = IF @ = "none" THEN "recv" ELSE @])
  /\ UNCHANGED request

\* Curl_http
Do ==
  /\ easy.phase = "do"
  /\ LET s == OutputAuth(Now, FALSE)
     IN  /\ Becomes([s EXCEPT !.e.phase = "reply"])
         /\ request' = [to |-> easy.here, line |-> s.line, body |-> opt.post /\ ~s.e.authneg]

\* http_on_response
Responded(s, code, early) ==
  LET lost == s.c.close /\ (\/ code = 401 /\ s.c.ntlm["host"] = "type2"
                            \/ code = 407 /\ s.c.ntlm["proxy"] = "type2")
      t == [s EXCEPT !.e.problem = @ \/ lost, !.e.code = code]
      l == IF code = 307 THEN [PerhapsRewind(t, early) EXCEPT !.e.newurl = "other"] ELSE t
      r == IF ShouldFail(l, code) THEN [l EXCEPT !.e.result = "http"] ELSE AuthAct(l, code, early)
      stops == code >= 300 /\ ~r.e.authneg /\ early /\ r.e.newurl = "none"
  IN  IF stops THEN [r EXCEPT !.c.close = TRUE] ELSE r

\* multi_done and Curl_http_follow
Closed(s) == [s EXCEPT !.c.open = ~s.c.close /\ s.e.result = "none",
                       !.a = [w \in Who |-> [@[w] EXCEPT !.multipass = FALSE]]]
Follow(s) ==
  CASE s.e.result # "none" -> [s EXCEPT !.e.phase = "ended"]
    [] s.e.result = "none" /\ s.e.newurl = "none" -> [s EXCEPT !.e.phase = "ended", !.e.result = "ok"]
    [] s.e.result = "none" /\ s.e.newurl # "none" /\ s.e.redirs >= MaxRedirs ->
         [s EXCEPT !.e.phase = "ended", !.e.result = "redirects"]
    [] OTHER -> [s EXCEPT !.e.phase = "connect", !.e.redirs = @ + 1,
                          !.e.here = IF s.e.newurl = "other" THEN "other" ELSE @,
                          !.e.user = @ /\ (s.e.newurl = "other" /\ opt.moves = "port" => opt.unrestricted)]

Answer(s, code, early, close) == Becomes(Follow(Closed(Responded([s EXCEPT !.c.close = close], code, early))))

Early(code) == IF request.body /\ code >= 300 THEN BOOLEAN ELSE {FALSE}

\* a 407 or 401, on a connection as it is after what was judged before
Refuse(w, code, c) ==
  /\ easy.phase = "reply"
  /\ \E j \in Judgements(w, c) : \E close \in MayClose(j, FALSE), early \in Early(code) :
       /\ ~j.ok
       /\ Answer(InputAuth(CountStale([Now EXCEPT !.c = j.c], j.offer), w, j.offer), code, early, close)
  /\ UNCHANGED request
\* a plain proxy judges the request first
Passed(c) ==
  IF opt.proxy # "plain" THEN {c} ELSE {j.c : j \in {j \in Judgements("proxy", c) : j.ok}}
ProxyRefuses == opt.proxy = "plain" /\ Refuse("proxy", 407, Now.c)
HostRefuses == \E c \in Passed(Now.c) : Refuse("host", 401, c)

Serves ==
  /\ easy.phase = "reply"
  /\ \E c \in Passed(Now.c) : \E j \in Judgements("host", c) :
       LET code == IF opt.moves # "no" /\ easy.here = "first" THEN 307 ELSE 200
       IN  \E close \in MayClose(j, FALSE), early \in Early(code) :
             j.ok /\ Answer([Now EXCEPT !.c = j.c], code, early, close)
  /\ UNCHANGED request

\* Curl_pretransfer for another transfer with the handle
Reuse ==
  /\ easy.phase = "ended" /\ easy.n < MaxRuns
  /\ easy' = [easy EXCEPT !.n = @ + 1, !.phase = "connect", !.problem = FALSE, !.here = "first", !.user = opt.user,
                          !.redirs = 0, !.result = "none", !.newurl = "none"]
  /\ auth' = [w \in Who |-> [auth[w] EXCEPT !.picked = @ \cap opt.want[w]]]
  /\ UNCHANGED <<nonce, conns, request>>

Next == Connect \/ SendConnect \/ Established \/ Proxy407 \/ Do \/ ProxyRefuses \/ HostRefuses \/ Serves \/ Reuse
Spec == Init /\ [][Next]_authVars

-----------------------------------------------------------------------------
TypeOK ==
  /\ easy.phase \in {"connect", "tunnel", "connectReply", "do", "reply", "ended"}
  /\ easy.result \in {"none", "ok", "http", "recv", "redirects"} /\ easy.redirs <= MaxRedirs
  /\ \A w \in Who : auth[w].picked \subseteq Schemes \cup {"picknone"} /\ auth[w].avail \subseteq Schemes
  /\ \A d \in DOMAIN conns : \A w \in Who : conns[d].ntlm[w] \in {"none", "type1", "type2", "type3", "last"}

Ended == easy.phase = "ended"

\* A POST that ends with a success was answered to a request with its body: none that
\* held it back for the sake of authentication is taken for the transfer.
BodyDelivered == Ended /\ easy.result = "ok" /\ easy.code = 200 /\ opt.post => request.body

\* With credentials that are right, and a scheme both sides know, a transfer gets what it
\* asks for, on any order of challenges, closed connections and stale nonces, unless it
\* was sent to another host that is not to see them.
WeKnow(w) ==
  LET needs == opt.needs[Party(w)]
  IN  needs = {} \/ (Right(w) /\ needs \cap opt.want[w] # {} /\ ("digest" \in needs => "digest" \in opt.want[w]))
RightUserServed ==
  /\ Ended /\ opt.closes # "any" /\ (easy.n = 1 \/ opt.moves = "no") /\ (opt.proxy # "none" => WeKnow("proxy")) /\ WeKnow("host")
  /\ opt.needs[easy.here] = {} \/ Allowed([e |-> easy])
  => easy.result = "ok" /\ easy.code = 200

\* A failure because of the response code is one of a code that says so.
FailuresTrue == Ended /\ easy.result = "http" => easy.code >= 400

\* Other hosts see no credentials of the first, and the proxy those for it only.
KeptToFirst ==
  /\ request.to = "other" /\ ~opt.unrestricted => request.line["host"] = "none"
  /\ request.to = "proxy" => request.line["host"] = "none"
  /\ opt.proxy # "plain" /\ request.to # "proxy" => request.line["proxy"] = "none"

\* The third message of NTLM goes out only on the connection its challenge came on.
Type3Challenged ==
  easy.phase \in {"connectReply", "reply"} =>
    \A w \in Who : request.line[w] = "ntlm3" => Party(w) \in conns[Destination(easy.here)].challenged

AuthRight == BodyDelivered /\ RightUserServed /\ FailuresTrue /\ KeptToFirst /\ Type3Challenged
=============================================================================
