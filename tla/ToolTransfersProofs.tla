-------------------------- MODULE ToolTransfersProofs --------------------------
(***************************************************************************)
(* For any command line of the curl tool: no retry leaves a file with      *)
(* bytes twice, missing or after an error page, no transfer is tried more  *)
(* often than asked for, and the tool ends with all transfers over and an  *)
(* exit code that tells of a failure.  The argument: a file always ends    *)
(* where the next attempt begins, what is uncreated or waits for its turn  *)
(* keeps the loop going unless there is a reason to wrap up, and the first *)
(* failure is remembered until the tool exits.                             *)
(***************************************************************************)
EXTENDS ToolTransfers, SequenceTheorems, FiniteSetTheorems, WellFoundedInduction, TLAPS

PerFields ==
  {"st", "left", "tries", "sleep", "startat", "since", "abort", "open", "init", "bytes", "resume", "file", "end", "result",
   "took"}
ToolFields ==
  {"o", "phase", "clock", "resumeFrom", "exit", "check", "wrapitup", "aborted", "still", "more", "sleeping", "at"}

Starts == {Bytes(1, k) : k \in 0..BodySize}
EndType == [code : {"ok", "timeout", "cut", "write", "range", "http", "aborted"}, status : Nat, written : Seq(Nat)]
Message == [x : Urls, end : EndType]
Listed == {"ready", "running", "done"}

-----------------------------------------------------------------------------
(* A transfer and its file. *)

\* not created: the file holds a start of the body, or nothing without "-C -"
Fresh(o, p) == p.tries = 0 /\ p.bytes = 0 /\ p.result = "none" /\ \E k \in 0..BodySize : p.file = Bytes(1, k) /\ (~o.resume => k = 0)

\* created: the file ends where the next attempt begins
Begins(o, p) ==
  /\ p.init \in 0..BodySize /\ p.resume = p.init /\ p.bytes = 0 /\ p.file = Bytes(1, p.init)
  /\ p.init > 0 => p.open = TRUE
  /\ p.tries \in Nat /\ p.left \in Nat /\ p.tries + p.left = o.retries /\ p.result = "none"

\* what a success leaves in the file
Whole(file, code, status) == code = "ok" /\ status < 400 => file = Body

\* an attempt has ended so: its bytes continue what was there, or are an error page
Ended(o, p, e) ==
  /\ e \in EndType /\ p.end.code = e.code /\ p.end.status = e.status
  /\ p.init \in Nat /\ p.bytes \in Nat /\ p.resume = p.init
  /\ p.init > 0 \/ p.bytes > 0 => p.open = TRUE
  /\ \/ p.init + p.bytes <= BodySize /\ p.file = Bytes(1, p.init + p.bytes)
     \/ p.init = 0 /\ p.bytes > 0 /\ p.file = Page /\ e.status >= 400
  /\ Whole(p.file, e.code, e.status)
  /\ p.tries \in Nat /\ p.left \in Nat /\ p.tries + p.left = 1 + o.retries /\ p.result = "none"

\* over: the result is known
Gone(o, p) ==
  /\ p.tries \in Nat /\ p.tries <= 1 + o.retries /\ p.result # "none"
  /\ p.file \in Starts \cup {Page}
  /\ p.result = "ok" => Whole(p.file, p.end.code, p.end.status)
  /\ p.result = "ok" <=> (Unsuccessful(o, p) => Overlooked(o, p))

PerOK(o, p) ==
  /\ DOMAIN p = PerFields /\ p.st \in Listed \cup {"none", "gone"} /\ p.open \in BOOLEAN
  /\ p.st = "none" => Fresh(o, p)
  /\ p.st \in {"ready", "running"} => Begins(o, p)
  /\ p.st = "gone" => Gone(o, p)

-----------------------------------------------------------------------------
(* The list, the messages and what the tool will exit with. *)

NoTwice(l) == l \in Seq(Urls) /\ \A i, j \in 1..Len(l) : l[i] = l[j] => i = j
In(x, l) == \E i \in 1..Len(l) : l[i] = x
ListOf(l, p) == NoTwice(l) /\ \A x \in Urls : p[x].st \in Listed <=> In(x, l)
ListOK == ListOf(transfers, per)

OneEach(m) == m \in Seq(Message) /\ \A i, j \in 1..Len(m) : m[i].x = m[j].x => i = j
About(x, m) == \E i \in 1..Len(m) : m[i].x = x
MessagesOf(o, m, p) ==
  /\ OneEach(m)
  /\ \A x \in Urls : p[x].st = "done" <=> About(x, m)
  /\ \A i \in 1..Len(m) : Ended(o, p[m[i].x], m[i].end)

MessagesOK ==
  /\ MessagesOf(opt, messages, per)
  /\ tool.phase \notin {"perform", "check"} => messages = <<>>

\* the tool remembers one of the failures; in serial mode the last transfer's
Failed(p) == p.result \notin {"ok", "none"}
ExitOK ==
  /\ tool.exit \in 0..UrlCount /\ tool.check \in 0..UrlCount
  /\ tool.exit # 0 => Failed(per[tool.exit])
  /\ tool.check # 0 => Failed(per[tool.check])
  /\ (opt.parallel \/ opt.failEarly) /\ (\E x \in Urls : Failed(per[x])) => tool.exit # 0 \/ tool.check # 0

\* wrapping up has a reason
WrapOK == tool.wrapitup => opt.failEarly /\ (tool.exit # 0 \/ tool.check # 0)

Idle(p) == p.st \in {"none", "ready"}

SerialOK ==
  /\ tool.phase \in {"start", "serial"} \/ ~opt.parallel => \A x \in Urls : per[x].st \notin {"running", "done"}
  /\ ~opt.parallel => tool.phase \in {"start", "serial", "cleanup"} /\ tool.check = 0
  /\ opt.parallel => tool.phase # "serial"
  /\ tool.phase = "start" => transfers = <<>> /\ \A x \in Urls : per[x].st = "none"
  /\ tool.phase = "serial" => Len(transfers) = 1
  /\ tool.phase = "serial" /\ opt.failEarly => tool.exit = 0

\* what is left over when the list is gone through
ParallelOK ==
  /\ opt.parallel => Cardinality(Added(per)) <= opt.max
  /\ tool.phase = "adding" =>
       /\ tool.at \in Nat \ {0}
       /\ (\E x \in Urls : per[x].st = "none") =>
             tool.sleeping \/ \E i \in 1..Len(transfers) : i >= tool.at /\ per[transfers[i]].st = "ready"
       /\ ~tool.sleeping => \A i \in 1..Len(transfers) : i < tool.at => per[transfers[i]].st # "ready"
  /\ tool.phase \in {"loop", "perform"} => tool.more \/ tool.wrapitup \/ \A x \in Urls : ~Idle(per[x])
  /\ tool.phase = "loop" => tool.still = Cardinality(Running)
  /\ tool.phase \in {"loop", "perform"} => tool.check = 0

\* when it is over: nothing runs, and what was not tried was left out with a reason
CleanupOK ==
  tool.phase = "cleanup" =>
    /\ \A x \in Urls : per[x].st \notin {"running", "done"}
    /\ tool.check = 0
    /\ (\E x \in Urls : Idle(per[x])) => opt.failEarly /\ tool.exit # 0

OnTheWay ==
  /\ \A x \in Urls : PerOK(opt, per[x])
  /\ ListOK /\ MessagesOK /\ ExitOK /\ WrapOK /\ SerialOK /\ ParallelOK /\ CleanupOK

Phases == {"start", "serial", "adding", "loop", "perform", "check", "cleanup", "ended"}
ToolInv ==
  /\ DOMAIN tool = ToolFields /\ opt \in ToolOptions /\ DOMAIN per = Urls /\ tool.phase \in Phases
  /\ IF tool.phase = "ended" THEN ToolRight ELSE OnTheWay
-----------------------------------------------------------------------------
(* Files. *)

\* the bytes of the body after byte a, b of them
LEMMA BytesAre ==
  ASSUME NEW a \in Nat, NEW b \in Nat
  PROVE  /\ Bytes(a + 1, a + b) \in Seq(Nat) /\ Len(Bytes(a + 1, a + b)) = b
         /\ \A n \in 1..b : Bytes(a + 1, a + b)[n] = a + n
<1> DEFINE f == Bytes(a + 1, a + b)
<1>1. (a + b) + 1 - (a + 1) = b
  OBVIOUS
<1>2. f = [n \in 1..b |-> (a + 1) + n - 1]
  BY <1>1 DEF Bytes
<1>3. \A n \in 1..b : (a + 1) + n - 1 = a + n /\ a + n \in Nat
  OBVIOUS
<1>4. \A n \in 1..b : f[n] = a + n
  BY <1>2, <1>3
<1>5. f \in [1..b -> Nat]
  BY <1>2, <1>3
<1> HIDE DEF f
<1>6. f \in Seq(Nat)
  BY <1>5, SeqDef
<1>7. DOMAIN f = 1..b /\ DOMAIN f = 1..Len(f) /\ Len(f) \in Nat
  BY <1>5, <1>6, LenProperties
<1>8. Len(f) = b
  BY <1>7
<1> QED
  BY <1>4, <1>6, <1>8 DEF f

LEMMA StartIs ==
  ASSUME NEW n \in Nat
  PROVE  /\ Bytes(1, n) \in Seq(Nat) /\ Len(Bytes(1, n)) = n
         /\ \A m \in 1..n : Bytes(1, n)[m] = m
<1> DEFINE z == 0
<1>1. z \in Nat /\ z + 1 = 1 /\ z + n = n /\ \A m \in 1..n : z + m = m
  OBVIOUS
<1> HIDE DEF z
<1>2. /\ Bytes(z + 1, z + n) \in Seq(Nat) /\ Len(Bytes(z + 1, z + n)) = n
      /\ \A m \in 1..n : Bytes(z + 1, z + n)[m] = z + m
  BY <1>1, BytesAre
<1> QED
  BY <1>1, <1>2

LEMMA RestIs ==
  ASSUME NEW n \in Nat, NEW k \in Nat, n <= k
  PROVE  /\ Bytes(n + 1, k) \in Seq(Nat) /\ Len(Bytes(n + 1, k)) = k - n
         /\ \A m \in 1..(k - n) : Bytes(n + 1, k)[m] = n + m
<1> DEFINE b == k - n
<1>1. b \in Nat /\ n + b = k
  OBVIOUS
<1> HIDE DEF b
<1>2. /\ Bytes(n + 1, n + b) \in Seq(Nat) /\ Len(Bytes(n + 1, n + b)) = b
      /\ \A m \in 1..b : Bytes(n + 1, n + b)[m] = n + m
  BY <1>1, BytesAre
<1>3. /\ Bytes(n + 1, k) \in Seq(Nat) /\ Len(Bytes(n + 1, k)) = b
      /\ \A m \in 1..b : Bytes(n + 1, k)[m] = n + m
  BY <1>1, <1>2
<1> QED
  BY <1>3 DEF b

LEMMA NoBytes == Bytes(1, 0) = <<>>
<1>1. Bytes(1, 0) \in Seq(Nat) /\ Len(Bytes(1, 0)) = 0
  BY StartIs
<1> QED
  BY <1>1, EmptySeq

LEMMA SomeBytes ==
  ASSUME NEW n \in Nat, NEW k \in Nat, n <= k
  PROVE  Bytes(n + 1, k) = <<>> <=> n = k
<1>1. Bytes(n + 1, k) \in Seq(Nat) /\ Len(Bytes(n + 1, k)) = k - n
  BY RestIs
<1>2. <<>> \in Seq(Nat) /\ Len(<<>>) = 0
  BY EmptySeq
<1>3. Bytes(n + 1, k) = <<>> => n = k
  BY <1>1, <1>2
<1>4. ASSUME n = k PROVE Bytes(n + 1, k) = <<>>
  <2>1. Len(Bytes(n + 1, k)) = 0
    BY <1>1, <1>4
  <2> QED
    BY <2>1, <1>1, EmptySeq
<1> QED
  BY <1>3, <1>4

\* the rest of the body after what is there
LEMMA Continued ==
  ASSUME NEW n \in Nat, NEW k \in Nat, n <= k
  PROVE  Bytes(1, n) \o Bytes(n + 1, k) = Bytes(1, k)
<1> DEFINE f == Bytes(1, n)
           g == Bytes(n + 1, k)
           h == Bytes(1, k)
<1>1. f \in Seq(Nat) /\ Len(f) = n /\ \A m \in 1..n : f[m] = m
  BY StartIs
<1>2. g \in Seq(Nat) /\ Len(g) = k - n /\ \A m \in 1..(k - n) : g[m] = n + m
  BY RestIs
<1>3. h \in Seq(Nat) /\ Len(h) = k /\ \A m \in 1..k : h[m] = m
  BY StartIs
<1> HIDE DEF f, g, h
<1>4. /\ f \o g \in Seq(Nat) /\ Len(f \o g) = Len(f) + Len(g)
      /\ \A i \in 1..(Len(f) + Len(g)) : (f \o g)[i] = IF i <= Len(f) THEN f[i] ELSE g[i - Len(f)]
  BY <1>1, <1>2, ConcatProperties
<1>5. Len(f) + Len(g) = k
  BY <1>1, <1>2
<1>6. \A i \in 1..k : (f \o g)[i] = IF i <= n THEN f[i] ELSE g[i - n]
  BY <1>1, <1>4, <1>5
<1>7. ASSUME NEW i \in 1..k PROVE (f \o g)[i] = h[i]
  <2>1. CASE i <= n
    BY <2>1, <1>1, <1>3, <1>6
  <2>2. CASE ~(i <= n)
    <3>1. i - n \in 1..(k - n) /\ n + (i - n) = i
      BY <2>2
    <3> QED
      BY <2>2, <3>1, <1>2, <1>3, <1>6
  <2> QED
    BY <2>1, <2>2
<1>8. Len(f \o g) = Len(h) /\ \A i \in 1..Len(f \o g) : (f \o g)[i] = h[i]
  BY <1>3, <1>4, <1>5, <1>7
<1>9. f \o g = h
  BY <1>3, <1>4, <1>8, SeqEqual
<1> QED
  BY <1>9 DEF f, g, h

\* what is cut off again
LEMMA CutOff ==
  ASSUME NEW n \in Nat, NEW k \in Nat, n <= k
  PROVE  SubSeq(Bytes(1, k), 1, n) = Bytes(1, n)
<1> DEFINE f == Bytes(1, n)
           h == Bytes(1, k)
<1>1. f \in Seq(Nat) /\ Len(f) = n /\ \A m \in 1..n : f[m] = m
  BY StartIs
<1>2. h \in Seq(Nat) /\ Len(h) = k /\ \A m \in 1..k : h[m] = m
  BY StartIs
<1> HIDE DEF f, h
<1>3. \A m \in 1..n : h[m] = m /\ h[m] \in Nat /\ 1 + m - 1 = m
  BY <1>2
<1>4. 1 \in Int /\ n \in Int /\ n - 1 + 1 = n /\ (IF 1 <= n THEN n - 1 + 1 ELSE 0) = n
  OBVIOUS
<1> DEFINE s == SubSeq(h, 1, n)
<1>5. /\ s \in Seq(Nat) /\ Len(s) = (IF 1 <= n THEN n - 1 + 1 ELSE 0)
      /\ \A i \in 1 .. n - 1 + 1 : s[i] = h[1 + i - 1]
  BY <1>3, <1>4, SubSeqProperties
<1> HIDE DEF s
<1>6. Len(s) = n /\ \A i \in 1..n : s[i] = h[1 + i - 1]
  BY <1>4, <1>5
<1>7. \A i \in 1..n : s[i] = f[i]
  BY <1>1, <1>3, <1>6
<1>8. s = f
  BY <1>1, <1>5, <1>6, <1>7, SeqEqual
<1> QED
  BY <1>8 DEF s, f, h

LEMMA PageIs == Page \in Seq(Nat) /\ Len(Page) = 1 /\ SubSeq(Page, 1, 0) = <<>> /\ Page # <<>>
<1>1. Page = Append(<<>>, 0)
  BY DEF Page
<1>2. <<>> \in Seq(Nat) /\ Len(<<>>) = 0
  BY EmptySeq
<1>3. Append(<<>>, 0) \in Seq(Nat) /\ Append(<<>>, 0) # <<>> /\ Len(Append(<<>>, 0)) = 1
  BY <1>2, AppendProperties
<1>4. SubSeq(Page, 1, 0) = <<>>
  BY SubSeqEmpty
<1> QED
  BY <1>1, <1>3, <1>4

-----------------------------------------------------------------------------
(* An attempt. *)

\* what an attempt from byte r brings: nothing, the following bytes or an error page;
\* a success brings all that was missing
Brings(r, e) ==
  /\ e \in EndType
  /\ \/ e.written = <<>> /\ (e.code = "ok" /\ e.status < 400 => r = BodySize)
     \/ \E k \in r..BodySize : e.written = Bytes(r + 1, k) /\ (e.code = "ok" /\ e.status < 400 => k = BodySize)
     \/ r = 0 /\ e.written = Page /\ e.status >= 400

LEMMA EndFields ==
  ASSUME NEW code \in {"ok", "timeout", "cut", "write", "range", "http", "aborted"}, NEW status \in Nat,
         NEW written \in Seq(Nat)
  PROVE  /\ End(code, status, written) \in EndType
         /\ End(code, status, written).code = code /\ End(code, status, written).status = status
         /\ End(code, status, written).written = written
BY DEF End, EndType

\* nothing came, and the attempt is no success, or all was there
LEMMA BringsNothing ==
  ASSUME NEW code \in {"ok", "timeout", "cut", "write", "range", "http", "aborted"}, NEW status \in Nat,
         NEW r \in Nat, code = "ok" /\ status < 400 => r = BodySize
  PROVE  Brings(r, End(code, status, <<>>))
<1> DEFINE w == <<>>
<1>1. w \in Seq(Nat)
  BY EmptySeq
<1>2. w = <<>>
  OBVIOUS
<1> HIDE DEF w
<1> DEFINE e == End(code, status, w)
<1>3. e \in EndType /\ e.code = code /\ e.status = status /\ e.written = w
  BY <1>1, EndFields
<1> HIDE DEF e
<1>4. Brings(r, e)
  BY <1>2, <1>3 DEF Brings
<1> QED
  BY <1>2, <1>4 DEF e

LEMMA BringsBytes ==
  ASSUME NEW code \in {"ok", "timeout", "cut", "write", "range", "http", "aborted"}, NEW status \in Nat,
         BodySize \in Nat, NEW r \in Nat, NEW k \in r..BodySize, code = "ok" /\ status < 400 => k = BodySize
  PROVE  Brings(r, End(code, status, Bytes(r + 1, k)))
<1>1. k \in Nat /\ r <= k
  OBVIOUS
<1>2. Bytes(r + 1, k) \in Seq(Nat)
  BY <1>1, RestIs
<1> DEFINE e == End(code, status, Bytes(r + 1, k))
<1>3. e \in EndType /\ e.code = code /\ e.status = status /\ e.written = Bytes(r + 1, k)
  BY <1>2, EndFields
<1> HIDE DEF e
<1>4. Brings(r, e)
  BY <1>3 DEF Brings
<1> QED
  BY <1>4 DEF e

LEMMA BringsPage ==
  ASSUME NEW status \in Nat, status >= 400
  PROVE  Brings(0, End("ok", status, Page))
<1> DEFINE e == End("ok", status, Page)
<1>1. e \in EndType /\ e.code = "ok" /\ e.status = status /\ e.written = Page
  BY PageIs, EndFields
<1> HIDE DEF e
<1>2. Brings(0, e)
  BY <1>1 DEF Brings
<1> QED
  BY <1>2 DEF e

LEMMA BodyBrings ==
  ASSUME NEW status \in Nat, BodySize \in Nat, NEW r \in 0..BodySize, NEW e \in Body200(status, r)
  PROVE  Brings(r, e)
<1>1. r \in Nat /\ BodySize \in r..BodySize
  OBVIOUS
<1>2. CASE e = End("ok", status, Bytes(r + 1, BodySize))
  BY <1>1, <1>2, BringsBytes
<1>3. CASE \E c \in {"timeout", "cut"}, k \in r..BodySize : e = End(c, status, Bytes(r + 1, k))
  BY <1>1, <1>3, BringsBytes
<1>4. CASE \E k \in r..(BodySize - 1) : e = End("write", status, Bytes(r + 1, k))
  <2>1. PICK k \in r..(BodySize - 1) : e = End("write", status, Bytes(r + 1, k))
    BY <1>4
  <2>2. k \in r..BodySize
    OBVIOUS
  <2> QED
    BY <1>1, <2>1, <2>2, BringsBytes
<1> QED
  BY <1>2, <1>3, <1>4 DEF Body200

\* however an attempt ends, it brings that
LEMMA EndsBring ==
  ASSUME ToolConstants, NEW x, per[x].resume \in 0..BodySize, NEW e \in Ends(x)
  PROVE  Brings(per[x].resume, e)
<1> DEFINE r == per[x].resume
<1>0. BodySize \in Nat \ {0} /\ r \in 0..BodySize /\ r \in Nat
  BY DEF ToolConstants
<1>1. e \in NoAnswer \/ e \in Responses(r) \/ e \in Refusals(r) \/ e = End("aborted", 0, <<>>)
  BY DEF Ends
<1> SUFFICES Brings(r, e)
  OBVIOUS
<1> HIDE DEF r
<1>2. CASE e \in NoAnswer
  BY <1>0, <1>2, BringsNothing DEF NoAnswer
<1>3. CASE e \in Responses(r)
  <2>1. \/ r = 0 /\ e \in Body200(200, r)
        \/ r = BodySize /\ e = End("ok", 200, <<>>)
        \/ e = End("range", 200, <<>>)
        \/ e = End("ok", 416, <<>>)
        \/ e \in Body200(206, r)
    BY <1>3 DEF Responses
  <2>2. \A c \in {"ok", "range"}, s \in {200, 416} :
          (c = "ok" /\ s < 400 => r = BodySize) => Brings(r, End(c, s, <<>>))
    BY <1>0, BringsNothing
  <2>3. \A s \in {200, 206} : \A d \in Body200(s, r) : Brings(r, d)
    BY <1>0, BodyBrings
  <2> QED
    BY <2>1, <2>2, <2>3, <1>0
<1>4. CASE e \in Refusals(r)
  <2>1. \/ e = End("http", 503, <<>>) \/ e = End("http", 404, <<>>)
        \/ e = End("range", 503, <<>>) \/ e = End("ok", 503, <<>>)
        \/ r = 0 /\ (e = End("ok", 503, Page) \/ e = End("ok", 404, Page))
    BY <1>0, <1>4 DEF Refusals, Unresumed
  <2>2. \A c \in {"http", "range", "ok"}, s \in {503, 404} : Brings(r, End(c, s, <<>>))
    BY <1>0, BringsNothing
  <2>3. \A s \in {503, 404} : Brings(0, End("ok", s, Page))
    BY BringsPage
  <2> QED
    BY <2>1, <2>2, <2>3, <1>0
<1>5. CASE e = End("aborted", 0, <<>>)
  BY <1>0, <1>5, BringsNothing
<1> QED
  BY <1>1, <1>2, <1>3, <1>4, <1>5

\* after an attempt the file is what Ended says
LEMMA TriedEnds ==
  ASSUME ToolConstants, NEW p, DOMAIN p = PerFields, p.open \in BOOLEAN, Begins(opt, p), opt.retries \in Nat,
         NEW e, Brings(p.resume, e)
  PROVE  /\ DOMAIN Tried(p, e) = PerFields /\ Tried(p, e).open \in BOOLEAN
         /\ Ended(opt, Tried(p, e), e)
<1> DEFINE w == e.written
           q == Received(p, e)
<1>1. BodySize \in Nat \ {0} /\ p.init \in 0..BodySize /\ p.resume = p.init /\ p.bytes = 0 /\ p.file = Bytes(1, p.init)
  BY DEF ToolConstants, Begins
<1>2. e \in EndType /\ w \in Seq(Nat)
  BY DEF Brings, EndType
<1>3. DOMAIN q = PerFields /\ q.tries = p.tries /\ q.left = p.left /\ q.result = p.result /\ q.resume = p.resume
  BY DEF Received, PerFields
<1>4. /\ q.open \in BOOLEAN /\ q.init \in Nat /\ q.bytes \in Nat /\ q.resume = q.init
      /\ q.init > 0 \/ q.bytes > 0 => q.open = TRUE
      /\ \/ q.init + q.bytes <= BodySize /\ q.file = Bytes(1, q.init + q.bytes)
         \/ q.init = 0 /\ q.bytes > 0 /\ q.file = Page /\ e.status >= 400
      /\ Whole(q.file, e.code, e.status)
  <2>1. CASE w = <<>>
    <3>1. q = p
      BY <2>1 DEF Received
    <3>2. e.code = "ok" /\ e.status < 400 => p.init = BodySize
      <4>1. CASE e.code = "ok" /\ e.status < 400 => p.resume = BodySize
        BY <4>1, <1>1
      <4>2. CASE \E k \in p.resume..BodySize : w = Bytes(p.resume + 1, k) /\ (e.code = "ok" /\ e.status < 400 => k = BodySize)
        <5>1. PICK k \in p.resume..BodySize : w = Bytes(p.resume + 1, k) /\ (e.code = "ok" /\ e.status < 400 => k = BodySize)
          BY <4>2
        <5>2. p.resume \in Nat /\ k \in Nat /\ p.resume <= k
          BY <1>1
        <5>3. p.resume = k
          BY <5>1, <5>2, <2>1, SomeBytes
        <5> QED
          BY <5>1, <5>3, <1>1
      <4>3. CASE w = Page
        BY <4>3, <2>1, PageIs
      <4> QED
        BY <4>1, <4>2, <4>3 DEF Brings
    <3>3. p.init > 0 => p.open = TRUE
      BY DEF Begins
    <3>4. Whole(p.file, e.code, e.status)
      BY <3>2, <1>1 DEF Whole, Body
    <3>5. p.init + p.bytes = p.init /\ p.init \in Nat /\ p.init <= BodySize /\ p.bytes \in Nat
      BY <1>1
    <3> HIDE DEF q
    <3> QED
      BY <3>1, <3>3, <3>4, <3>5, <1>1
  <2>2. CASE w # <<>>
    <3> DEFINE old == IF p.open THEN Bytes(1, p.init) ELSE <<>>
    <3>1. p.open = FALSE => p.init = 0
      BY <1>1 DEF Begins
    <3>2. old = Bytes(1, p.init)
      BY <3>1, NoBytes
    <3>3. p.open = FALSE => old \o w = w
      <4>1. <<>> \o w = w
        BY <1>2, ConcatEmptySeq
      <4> QED
        BY <4>1
    <3> HIDE DEF old
    <3>4. Len(w) \in Nat
      BY <1>2, LenProperties
    <3>5. q.open = TRUE /\ q.init = p.init /\ q.bytes = Len(w) /\ q.file = old \o w
      <4>1. CASE p.open
        <5>1. q = [p EXCEPT !.file = @ \o w, !.bytes = @ + Len(w)]
          BY <4>1, <2>2 DEF Received
        <5> HIDE DEF q, w
        <5>2. q.open = p.open /\ q.init = p.init /\ q.bytes = p.bytes + Len(w) /\ q.file = p.file \o w
          BY <5>1 DEF PerFields
        <5>3. p.bytes + Len(w) = Len(w)
          BY <1>1, <3>4
        <5> QED
          BY <4>1, <5>2, <5>3, <1>1, <3>2
      <4>2. CASE p.open = FALSE
        <5>1. q = [p EXCEPT !.file = w, !.open = TRUE, !.init = 0, !.bytes = Len(w)]
          BY <4>2, <2>2 DEF Received
        <5> HIDE DEF q, w
        <5>2. q.open = TRUE /\ q.init = 0 /\ q.bytes = Len(w) /\ q.file = w
          BY <5>1 DEF PerFields
        <5> QED
          BY <4>2, <5>2, <3>1, <3>3
      <4> QED
        BY <4>1, <4>2
    <3> HIDE DEF q
    <3>6. CASE \E k \in p.resume..BodySize : w = Bytes(p.resume + 1, k) /\ (e.code = "ok" /\ e.status < 400 => k = BodySize)
      <4>1. PICK k \in p.resume..BodySize : w = Bytes(p.resume + 1, k) /\ (e.code = "ok" /\ e.status < 400 => k = BodySize)
        BY <3>6
      <4> DEFINE n == p.init
      <4>2. n \in Nat /\ k \in Nat /\ n <= k /\ k <= BodySize /\ w = Bytes(n + 1, k)
        BY <4>1, <1>1
      <4> HIDE DEF n, w
      <4>3. Bytes(1, n) \o w = Bytes(1, k)
        BY <4>2, Continued
      <4>4. Len(w) = k - n
        BY <4>2, RestIs
      <4>5. n + Len(w) = k
        BY <4>2, <4>4
      <4>6. q.file = Bytes(1, k) /\ q.init + q.bytes = k
        BY <3>2, <3>5, <4>3, <4>5 DEF n
      <4>7. Whole(q.file, e.code, e.status)
        BY <4>1, <4>6 DEF Whole, Body
      <4>8. q.file = Bytes(1, q.init + q.bytes) /\ q.init + q.bytes <= BodySize
        BY <4>2, <4>6
      <4>9. q.open = TRUE /\ q.init \in Nat /\ q.bytes \in Nat /\ q.resume = q.init
        BY <3>4, <3>5, <1>1, <1>3
      <4> QED
        BY <4>7, <4>8, <4>9
    <3>7. CASE p.resume = 0 /\ w = Page /\ e.status >= 400
      <4>1. old = <<>> /\ p.init = 0
        BY <3>2, <3>7, <1>1, NoBytes
      <4>2. q.file = Page
        BY <4>1, <3>5, <3>7, <1>2, ConcatEmptySeq
      <4>3. Len(w) = 1
        BY <3>7, PageIs
      <4>4. e.status \in Nat
        BY <1>2 DEF EndType
      <4>5. Whole(q.file, e.code, e.status)
        BY <3>7, <4>4 DEF Whole
      <4> HIDE DEF w
      <4>6. q.open = TRUE /\ q.init = 0 /\ q.bytes = 1 /\ q.resume = q.init
        BY <4>1, <4>3, <3>5, <3>7, <1>3
      <4>7. q.init \in Nat /\ q.bytes \in Nat /\ q.bytes > 0
        BY <4>1, <4>3, <3>4, <3>5
      <4> QED
        BY <4>2, <4>5, <4>6, <4>7, <3>7
    <3> QED
      BY <2>2, <3>6, <3>7 DEF Brings
  <2> QED
    BY <2>1, <2>2
<1> HIDE DEF q
<1> DEFINE t == Tried(p, e)
<1>5. /\ DOMAIN t = PerFields /\ t.tries = q.tries + 1 /\ t.end = [code |-> e.code, status |-> e.status]
      /\ t.left = q.left /\ t.result = q.result /\ t.resume = q.resume
      /\ t.open = q.open /\ t.init = q.init /\ t.bytes = q.bytes /\ t.file = q.file
  BY <1>3 DEF Tried, PerFields, q
<1> HIDE DEF t
<1>6. t.end.code = e.code /\ t.end.status = e.status
  BY <1>5
<1>7. t.tries \in Nat /\ t.left \in Nat /\ t.tries + t.left = 1 + opt.retries /\ t.result = "none"
  <2>1. p.tries \in Nat /\ p.left \in Nat /\ p.tries + p.left = opt.retries /\ p.result = "none"
    BY DEF Begins
  <2> QED
    BY <2>1, <1>3, <1>5
<1>8. Ended(opt, t, e)
  BY <1>2, <1>4, <1>5, <1>6, <1>7 DEF Ended
<1>9. DOMAIN t = PerFields /\ t.open \in BOOLEAN
  BY <1>4, <1>5
<1> QED
  BY <1>8, <1>9 DEF t

\* before a retry the file is kept and resumed, or cut where the attempt began
LEMMA AgainBegins ==
  ASSUME ToolConstants, NEW p, DOMAIN p = PerFields, p.open \in BOOLEAN, NEW e, Ended(opt, p, e), p.left > 0,
         opt.retries \in Nat
  PROVE  PerOK(opt, Again(p, e)) /\ Again(p, e).st = "ready" /\ Again(p, e).result = "none"
<1> DEFINE q == Rewound(p, e)
           a == Again(p, e)
<1>1. /\ BodySize \in Nat \ {0} /\ p.init \in Nat /\ p.bytes \in Nat /\ p.resume = p.init
      /\ p.init > 0 \/ p.bytes > 0 => p.open = TRUE
      /\ \/ p.init + p.bytes <= BodySize /\ p.file = Bytes(1, p.init + p.bytes)
         \/ p.init = 0 /\ p.bytes > 0 /\ p.file = Page /\ e.status >= 400
      /\ e.status \in Nat
  BY DEF ToolConstants, Ended, EndType
<1>2. DOMAIN q = PerFields /\ q.open = p.open /\ q.tries = p.tries /\ q.left = p.left /\ q.result = p.result
  BY DEF Rewound, PerFields
<1>3. /\ q.init \in 0..BodySize /\ q.resume = q.init /\ q.bytes = 0 /\ q.file = Bytes(1, q.init)
      /\ q.init > 0 => q.open = TRUE
  <2>1. CASE Keeps(p, e)
    <3>1. p.bytes > 0 /\ p.open = TRUE /\ e.status < 400
      BY <2>1, <1>1 DEF Keeps
    <3>2. p.init + p.bytes <= BodySize /\ p.file = Bytes(1, p.init + p.bytes) /\ p.init + p.bytes \in Nat
      BY <3>1, <1>1
    <3>3. q = [p EXCEPT !.init = @ + p.bytes, !.bytes = 0, !.resume = p.init + p.bytes]
      BY <2>1 DEF Rewound
    <3> HIDE DEF q
    <3>4. q.init = p.init + p.bytes /\ q.bytes = 0 /\ q.resume = p.init + p.bytes /\ q.file = p.file /\ q.open = p.open
      BY <3>3 DEF PerFields
    <3> QED
      BY <3>1, <3>2, <3>4, <1>1
  <2>2. CASE ~Keeps(p, e)
    <3>1. q = [p EXCEPT !.file = IF p.bytes > 0 /\ p.open THEN SubSeq(@, 1, p.init) ELSE @, !.bytes = 0]
      BY <2>2 DEF Rewound
    <3> HIDE DEF q
    <3>2. /\ q.init = p.init /\ q.bytes = 0 /\ q.resume = p.resume /\ q.open = p.open
          /\ q.file = IF p.bytes > 0 /\ p.open THEN SubSeq(p.file, 1, p.init) ELSE p.file
      BY <3>1 DEF PerFields
    <3>3. p.init \in 0..BodySize
      BY <1>1
    <3>4. CASE p.bytes = 0
      <4>1. p.init + p.bytes = p.init
        BY <3>4, <1>1
      <4> QED
        BY <3>2, <3>3, <3>4, <4>1, <1>1
    <3>5. CASE p.bytes > 0 /\ p.init + p.bytes <= BodySize /\ p.file = Bytes(1, p.init + p.bytes)
      <4>1. SubSeq(p.file, 1, p.init) = Bytes(1, p.init)
        <5> DEFINE k == p.init + p.bytes
        <5>1. k \in Nat /\ p.init <= k /\ p.file = Bytes(1, k)
          BY <3>5, <1>1
        <5> HIDE DEF k
        <5>2. SubSeq(Bytes(1, k), 1, p.init) = Bytes(1, p.init)
          BY <5>1, <1>1, CutOff
        <5> QED
          BY <5>1, <5>2
      <4> QED
        BY <3>2, <3>3, <3>5, <4>1, <1>1
    <3>6. CASE p.bytes > 0 /\ p.init = 0 /\ p.file = Page
      <4>1. SubSeq(p.file, 1, p.init) = <<>>
        BY <3>6, PageIs
      <4>2. p.open = TRUE
        BY <3>6, <1>1
      <4>3. q.file = Bytes(1, q.init)
        BY <3>2, <3>6, <4>1, <4>2, NoBytes
      <4> QED
        BY <3>2, <3>3, <3>6, <4>3, <1>1
    <3>7. p.bytes = 0 \/ p.bytes > 0
      BY <1>1
    <3> QED
      BY <3>4, <3>5, <3>6, <3>7, <1>1
  <2> QED
    BY <2>1, <2>2
<1> HIDE DEF q
<1>4. /\ DOMAIN a = PerFields /\ a.st = "ready" /\ a.left = q.left - 1 /\ a.tries = q.tries /\ a.open = q.open
      /\ a.init = q.init /\ a.bytes = q.bytes /\ a.resume = q.resume /\ a.file = q.file /\ a.result = q.result
  BY <1>2 DEF Again, PerFields, q
<1>5. p.tries \in Nat /\ p.left \in Nat /\ p.tries + p.left = 1 + opt.retries /\ p.result = "none"
  BY DEF Ended
<1> HIDE DEF a
<1>6. a.tries \in Nat /\ a.left \in Nat /\ a.tries + a.left = opt.retries /\ a.result = "none"
  BY <1>2, <1>4, <1>5
<1>7. Begins(opt, a)
  BY <1>3, <1>4, <1>6 DEF Begins
<1>8. PerOK(opt, a)
  BY <1>2, <1>4, <1>7 DEF PerOK, Listed
<1> QED
  BY <1>4, <1>6, <1>8 DEF a

\* what is over is remembered right, and a failure as one
LEMMA OverGone ==
  ASSUME ToolConstants, NEW p, NEW e, Ended(opt, p, e), opt.retries \in Nat
  PROVE  /\ PerOK(opt, Over(p, e)) /\ Over(p, e).st = "gone"
         /\ Over(p, e).result = Verdict(p, e) /\ Verdict(p, e) # "none"
<1> DEFINE a == Over(p, e)
<1>1. /\ a.st = "gone" /\ a.tries = p.tries /\ a.end = p.end /\ a.result = Verdict(p, e) /\ a.file = p.file
      /\ a.open = FALSE /\ DOMAIN a = PerFields /\ a.took = tool.clock - p.since
  BY DEF Over, Uncreated, PerFields
<1>2. Verdict(p, e) # "none" /\ (Verdict(p, e) = "ok" => Verdict(p, e) # "none")
  BY DEF Verdict, Code, Ended, EndType
<1>3. p.file \in Starts \cup {Page}
  <2>1. CASE p.file = Page
    BY <2>1
  <2>2. CASE p.init + p.bytes <= BodySize /\ p.file = Bytes(1, p.init + p.bytes)
    <3>1. p.init + p.bytes \in 0..BodySize
      BY <2>2 DEF Ended, ToolConstants
    <3> QED
      BY <2>2, <3>1 DEF Starts
  <2> QED
    BY <2>1, <2>2 DEF Ended
<1>4. Whole(p.file, p.end.code, p.end.status) /\ p.tries \in Nat /\ p.tries <= 1 + opt.retries
  <2>1. p.end.code = e.code /\ p.end.status = e.status /\ Whole(p.file, e.code, e.status)
    BY DEF Ended
  <2>2. p.tries \in Nat /\ p.left \in Nat /\ p.tries + p.left = 1 + opt.retries
    BY DEF Ended
  <2> QED
    BY <2>1, <2>2
<1> HIDE DEF a
<1>4a. a.result = "ok" <=> (Unsuccessful(opt, a) => Overlooked(opt, a))
  <2>1. /\ p.end.code = e.code /\ p.end.status = e.status /\ e.status \in Nat
        /\ p.left \in Nat /\ p.tries \in Nat /\ p.tries + p.left = 1 + opt.retries
    BY DEF Ended, EndType
  <2>2. p.left > 0 <=> p.tries <= opt.retries
    BY <2>1
  <2>3. Unsuccessful(opt, a) <=> Code(e) # "ok"
    BY <1>1, <2>1 DEF Unsuccessful, Code
  <2>4. Code(e) # "ok" => (TransientHttp(e) <=> opt.fail # "no" /\ e.status = 503 /\ e.code \in {"ok", "http"})
    BY <2>1 DEF TransientHttp, Code
  <2>5. Code(e) # "ok" => (Checked(p, e) /\ TooLate(p, e) <=> Overlooked(opt, a))
    BY <1>1, <2>1, <2>2, <2>4 DEF Checked, TooLate, InTime, Retryable, RetryAfter, Overlooked
  <2> QED
    BY <1>1, <2>3, <2>5 DEF Verdict
<1>5. Gone(opt, a)
  BY <1>1, <1>2, <1>3, <1>4, <1>4a DEF Gone
<1>6. PerOK(opt, a)
  BY <1>1, <1>5 DEF PerOK, Listed
<1> QED
  BY <1>1, <1>2, <1>6 DEF a

-----------------------------------------------------------------------------
(* Lists without repetition. *)

LEMMA EmptyList == NoTwice(<<>>) /\ \A x : ~In(x, <<>>)
<1> DEFINE l == <<>>
<1>1. l \in Seq(Urls) /\ Len(l) = 0
  BY EmptySeq
<1> HIDE DEF l
<1>2. NoTwice(l) /\ \A x : ~In(x, l)
  BY <1>1 DEF NoTwice, In
<1> QED
  BY <1>2 DEF l

LEMMA AppendedList ==
  ASSUME NEW l, NoTwice(l), NEW x \in Urls, ~In(x, l)
  PROVE  /\ NoTwice(Append(l, x)) /\ Len(Append(l, x)) = Len(l) + 1 /\ Append(l, x)[Len(l) + 1] = x
         /\ \A i \in 1..Len(l) : Append(l, x)[i] = l[i]
         /\ \A y : In(y, Append(l, x)) <=> In(y, l) \/ y = x
<1> DEFINE a == Append(l, x)
<1>1. l \in Seq(Urls) /\ Len(l) \in Nat /\ \A i, j \in 1..Len(l) : l[i] = l[j] => i = j
  BY LenProperties DEF NoTwice
<1>2. /\ a \in Seq(Urls) /\ Len(a) = Len(l) + 1 /\ a[Len(l) + 1] = x
      /\ \A i \in 1..Len(l) : a[i] = l[i]
  BY <1>1, AppendProperties
<1>3. \A i \in 1..Len(l) : l[i] # x
  BY DEF In
<1> HIDE DEF a
<1>4. \A i \in 1..Len(a) : i \in 1..Len(l) \/ i = Len(l) + 1
  BY <1>1, <1>2
<1>5. \A i, j \in 1..Len(a) : a[i] = a[j] => i = j
  BY <1>1, <1>2, <1>3, <1>4
<1>6. NoTwice(a)
  BY <1>2, <1>5 DEF NoTwice
<1>7. \A i \in 1..Len(l) : i \in 1..Len(a)
  BY <1>1, <1>2
<1>8. Len(l) + 1 \in 1..Len(a)
  BY <1>1, <1>2
<1>9. \A y : In(y, a) <=> In(y, l) \/ y = x
  BY <1>2, <1>4, <1>7, <1>8 DEF In
<1> QED
  BY <1>2, <1>6, <1>9 DEF a

LEMMA TailOfList ==
  ASSUME NEW l, NoTwice(l), l # <<>>
  PROVE  /\ Head(l) = l[1] /\ Head(l) \in Urls /\ In(Head(l), l)
         /\ NoTwice(Tail(l)) /\ Len(Tail(l)) = Len(l) - 1 /\ Len(l) \in Nat \ {0}
         /\ \A y : In(y, Tail(l)) <=> In(y, l) /\ y # Head(l)
<1> DEFINE t == Tail(l)
<1>1. /\ l \in Seq(Urls) /\ Len(l) \in Nat \ {0} /\ \A i, j \in 1..Len(l) : l[i] = l[j] => i = j
      /\ DOMAIN l = 1..Len(l)
  BY LenProperties, EmptySeq DEF NoTwice
<1>2. Head(l) = l[1] /\ 1 \in 1..Len(l)
  BY <1>1
<1>3. t \in Seq(Urls) /\ Len(t) = Len(l) - 1 /\ \A i \in 1..Len(t) : t[i] = l[i + 1]
  BY <1>1, HeadTailProperties
<1> HIDE DEF t
<1>4. \A i \in 1..Len(t) : i + 1 \in 1..Len(l) /\ i + 1 # 1
  BY <1>1, <1>3
<1>5. ASSUME NEW i \in 1..Len(t), NEW j \in 1..Len(t), t[i] = t[j] PROVE i = j
  <2>1. i + 1 = j + 1
    BY <1>1, <1>3, <1>4, <1>5
  <2> QED
    BY <2>1, <1>1, <1>3
<1>6. NoTwice(t)
  BY <1>3, <1>5 DEF NoTwice
<1>7. ASSUME NEW y, In(y, t) PROVE In(y, l) /\ y # Head(l)
  <2>1. PICK i \in 1..Len(t) : t[i] = y
    BY <1>7 DEF In
  <2>2. l[i + 1] = y /\ i + 1 \in 1..Len(l) /\ i + 1 # 1
    BY <2>1, <1>3, <1>4
  <2> QED
    BY <2>2, <1>1, <1>2 DEF In
<1>8. ASSUME NEW y, In(y, l), y # Head(l) PROVE In(y, t)
  <2>1. PICK i \in 1..Len(l) : l[i] = y
    BY <1>8 DEF In
  <2>2. i # 1
    BY <2>1, <1>2, <1>8
  <2>3. i - 1 \in 1..Len(t) /\ (i - 1) + 1 = i
    BY <2>2, <1>1, <1>3
  <2>4. t[i - 1] = l[i]
    BY <2>3, <1>3
  <2> QED
    BY <2>1, <2>3, <2>4 DEF In
<1>9. Head(l) \in Urls /\ In(Head(l), l)
  BY <1>1, <1>2, ElementOfSeq DEF In
<1> QED
  BY <1>1, <1>2, <1>3, <1>6, <1>7, <1>8, <1>9 DEF t

\* the list without one of its transfers
LEMMA DeletedOfList ==
  ASSUME NoTwice(transfers), NEW x, In(x, transfers)
  PROVE  NoTwice(Deleted(x)) /\ \A y : In(y, Deleted(x)) <=> In(y, transfers) /\ y # x
<1> DEFINE l == transfers
           k == CHOOSE i \in DOMAIN l : l[i] = x
           a == SubSeq(l, 1, k - 1)
           b == SubSeq(l, k + 1, Len(l))
           d == a \o b
<1>1. /\ l \in Seq(Urls) /\ Len(l) \in Nat /\ \A i, j \in 1..Len(l) : l[i] = l[j] => i = j
      /\ DOMAIN l = 1..Len(l) /\ \A i \in 1..Len(l) : l[i] \in Urls
  BY LenProperties, ElementOfSeq DEF NoTwice
<1>2. k \in 1..Len(l) /\ l[k] = x
  BY <1>1 DEF In
<1>3. Deleted(x) = d
  BY DEF Deleted
<1> HIDE DEF l, k
<1>4. a \in Seq(Urls) /\ Len(a) = k - 1 /\ \A i \in 1..(k - 1) : a[i] = l[i]
  <2>1. \A i \in 1..(k - 1) : l[i] \in Urls
    BY <1>1, <1>2
  <2>2. 1 \in Int /\ k - 1 \in Int /\ (k - 1) - 1 + 1 = k - 1 /\ (IF 1 <= k - 1 THEN (k - 1) - 1 + 1 ELSE 0) = k - 1
    BY <1>2
  <2>3. /\ a \in Seq(Urls) /\ Len(a) = (IF 1 <= k - 1 THEN (k - 1) - 1 + 1 ELSE 0)
        /\ \A i \in 1..((k - 1) - 1 + 1) : a[i] = l[1 + i - 1]
    BY <2>1, <2>2, SubSeqProperties
  <2> HIDE DEF a
  <2>4. \A i \in 1..(k - 1) : a[i] = l[1 + i - 1] /\ 1 + i - 1 = i
    BY <2>2, <2>3
  <2> QED
    BY <2>2, <2>3, <2>4
<1>5. b \in Seq(Urls) /\ Len(b) = Len(l) - k /\ \A i \in 1..(Len(l) - k) : b[i] = l[k + i]
  <2> DEFINE n == Len(l)
             m == k + 1
  <2>1. \A i \in m..n : l[i] \in Urls
    BY <1>1, <1>2
  <2>2. n \in Nat /\ k \in Nat /\ k <= n
    BY <1>1, <1>2
  <2> HIDE DEF n
  <2>3. m \in Int /\ n \in Int /\ n - m + 1 = n - k
    BY <2>2
  <2>4. m <= n \/ n - k = 0
    BY <2>2
  <2>5. m \in Int /\ n \in Int /\ n - m + 1 = n - k /\ (IF m <= n THEN n - m + 1 ELSE 0) = n - k
    <3> HIDE DEF m
    <3> QED
      BY <2>3, <2>4
  <2>6. \A i \in 1..(n - k) : m + i - 1 = k + i
    BY <2>2
  <2> HIDE DEF m
  <2> DEFINE c == SubSeq(l, m, n)
  <2>7. /\ c \in Seq(Urls) /\ Len(c) = (IF m <= n THEN n - m + 1 ELSE 0)
        /\ \A i \in 1..(n - m + 1) : c[i] = l[m + i - 1]
    BY <2>1, <2>5, SubSeqProperties
  <2> HIDE DEF c
  <2>8. Len(c) = n - k /\ \A i \in 1..(n - k) : c[i] = l[m + i - 1]
    BY <2>5, <2>7
  <2>9. \A i \in 1..(n - k) : c[i] = l[k + i]
    BY <2>6, <2>8
  <2> QED
    BY <2>7, <2>8, <2>9 DEF c, m, n
<1> HIDE DEF a, b
<1>6. /\ d \in Seq(Urls) /\ Len(d) = Len(a) + Len(b)
      /\ \A i \in 1..(Len(a) + Len(b)) : d[i] = IF i <= Len(a) THEN a[i] ELSE b[i - Len(a)]
  BY <1>4, <1>5, ConcatProperties
<1> HIDE DEF d
<1>7. Len(d) = Len(l) - 1 /\ Len(a) + Len(b) = Len(l) - 1
  BY <1>1, <1>2, <1>4, <1>5, <1>6
<1> DEFINE g(i) == IF i < k THEN i ELSE i + 1
<1>8. ASSUME NEW i \in 1..Len(d) PROVE d[i] = l[g(i)] /\ g(i) \in 1..Len(l) /\ g(i) # k
  <2>1. CASE i < k
    <3>1. i <= Len(a) /\ i \in 1..(k - 1)
      BY <2>1, <1>2, <1>4
    <3>2. d[i] = a[i]
      BY <3>1, <1>6, <1>7
    <3> QED
      BY <2>1, <3>1, <3>2, <1>1, <1>2, <1>4
  <2>2. CASE ~(i < k)
    <3>1. ~(i <= Len(a)) /\ i - Len(a) \in 1..(Len(l) - k) /\ k + (i - Len(a)) = i + 1
      BY <2>2, <1>1, <1>2, <1>4, <1>7
    <3>2. d[i] = b[i - Len(a)]
      BY <3>1, <1>6, <1>7
    <3>3. b[i - Len(a)] = l[k + (i - Len(a))]
      BY <3>1, <1>5
    <3>4. d[i] = l[i + 1]
      BY <3>1, <3>2, <3>3
    <3>5. i + 1 \in 1..Len(l) /\ i + 1 # k
      BY <2>2, <1>1, <1>2, <1>7
    <3> QED
      BY <2>2, <3>4, <3>5
  <2> QED
    BY <2>1, <2>2
<1>9. ASSUME NEW i \in 1..Len(l), i # k PROVE \E j \in 1..Len(d) : g(j) = i
  <2>1. CASE i < k
    <3>1. i \in 1..Len(d) /\ g(i) = i
      BY <2>1, <1>1, <1>2, <1>7
    <3> QED
      BY <3>1
  <2>2. CASE ~(i < k)
    <3>1. i - 1 \in 1..Len(d) /\ g(i - 1) = i
      BY <2>2, <1>1, <1>2, <1>7, <1>9
    <3> QED
      BY <3>1
  <2> QED
    BY <2>1, <2>2
<1>10. \A i, j \in 1..Len(d) : g(i) = g(j) => i = j
  BY <1>2
<1> HIDE DEF g
<1>11. \A i, j \in 1..Len(d) : d[i] = d[j] => i = j
  BY <1>1, <1>8, <1>10
<1>12. NoTwice(d)
  BY <1>6, <1>11 DEF NoTwice
<1>13. ASSUME NEW y, In(y, d) PROVE In(y, l) /\ y # x
  <2>1. PICK i \in 1..Len(d) : d[i] = y
    BY <1>13 DEF In
  <2>2. l[g(i)] = y /\ g(i) \in 1..Len(l) /\ g(i) # k
    BY <2>1, <1>8
  <2>3. y # x
    BY <2>2, <1>1, <1>2
  <2> QED
    BY <2>2, <2>3 DEF In
<1>14. ASSUME NEW y, In(y, l), y # x PROVE In(y, d)
  <2>1. PICK i \in 1..Len(l) : l[i] = y
    BY <1>14 DEF In
  <2>2. i # k
    BY <2>1, <1>2, <1>14
  <2>3. PICK j \in 1..Len(d) : g(j) = i
    BY <2>2, <1>9
  <2>4. d[j] = y
    BY <2>1, <2>3, <1>8
  <2> QED
    BY <2>4 DEF In
<1>15. NoTwice(d) /\ \A y : In(y, d) <=> In(y, l) /\ y # x
  BY <1>12, <1>13, <1>14
<1> QED
  BY <1>3, <1>15 DEF l

-----------------------------------------------------------------------------
(* The next transfer is created. *)

LEMMA LeastExists ==
  ASSUME NEW S, S \subseteq Nat, S # {}
  PROVE  \E x \in S : \A y \in S : x <= y
<1>1. PICK x \in S : \A y \in S : ~(<<y, x>> \in OpToRel(<, Nat))
  BY NatLessThanWellFounded, WFMin
<1>2. \A y \in S : ~(y < x)
  BY <1>1 DEF OpToRel
<1> QED
  BY <1>2

LEMMA CreatedIs ==
  ASSUME UrlCount \in Nat, More
  PROVE  Created(per) \in Urls /\ per[Created(per)].st = "none"
<1> DEFINE S == {x \in Urls : per[x].st = "none"}
<1>1. S \subseteq Nat /\ S # {} /\ Urls \subseteq Nat
  BY DEF More, Urls
<1>2. PICK x \in S : \A y \in S : x <= y
  BY <1>1, LeastExists
<1>3. \A y \in 1..(x - 1) : y \in Urls /\ ~(x <= y)
  BY <1>1, <1>2 DEF Urls
<1>4. \A y \in 1..(x - 1) : per[y].st # "none"
  BY <1>2, <1>3
<1> QED
  BY <1>2, <1>4 DEF Created

\* the others stay as they are
NewOrSame(p, q) ==
  \/ q = p
  \/ p.st = "none" /\ p.result = "none" /\ q.st = "ready" /\ q.result = "none"

LEMMA SetupBegins ==
  ASSUME ToolConstants, opt.retries \in Nat, NEW p, PerOK(opt, p), p.st = "none"
  PROVE  PerOK(opt, Setup(p)) /\ NewOrSame(p, Setup(p)) /\ Setup(p).st = "ready"
<1> DEFINE q == Setup(p)
           n == IF opt.resume THEN Len(p.file) ELSE 0
<1>1. DOMAIN p = PerFields /\ p.tries = 0 /\ p.bytes = 0 /\ p.result = "none"
  BY DEF PerOK, Fresh
<1>2. PICK k \in 0..BodySize : p.file = Bytes(1, k) /\ (~opt.resume => k = 0)
  BY DEF PerOK, Fresh
<1>3. k \in Nat /\ BodySize \in Nat
  BY DEF ToolConstants
<1>4. Len(Bytes(1, k)) = k
  BY <1>3, StartIs
<1>5. n = k
  BY <1>2, <1>4
<1> DEFINE b == n > 0
<1>6. q = [p EXCEPT !.st = "ready", !.left = opt.retries, !.since = tool.clock, !.open = b, !.init = n, !.resume = n]
  BY DEF Setup
<1>7. b \in BOOLEAN /\ (n > 0 => b = TRUE)
  OBVIOUS
<1> HIDE DEF q, n, b
<1>8. /\ DOMAIN q = PerFields /\ q.st = "ready" /\ q.left = opt.retries /\ q.open = b /\ q.init = n
      /\ q.resume = n /\ q.tries = p.tries /\ q.bytes = p.bytes /\ q.file = p.file /\ q.result = p.result
  BY <1>1, <1>6 DEF PerFields
<1>9. q.open \in BOOLEAN /\ (q.init > 0 => q.open = TRUE)
  BY <1>7, <1>8
<1>10. q.tries \in Nat /\ q.left \in Nat /\ q.tries + q.left = opt.retries
  BY <1>1, <1>8
<1>11. q.init \in 0..BodySize /\ q.resume = q.init /\ q.bytes = 0 /\ q.file = Bytes(1, q.init) /\ q.result = "none"
  BY <1>1, <1>2, <1>5, <1>8
<1>12. Begins(opt, q)
  BY <1>9, <1>10, <1>11 DEF Begins
<1>13. PerOK(opt, q)
  BY <1>8, <1>9, <1>12 DEF PerOK, Listed
<1>14. NewOrSame(p, q)
  BY <1>1, <1>8 DEF NewOrSame
<1> QED
  BY <1>8, <1>13, <1>14 DEF q

LEMMA Creation ==
  ASSUME ToolConstants, opt.retries \in Nat, DOMAIN per = Urls, \A x \in Urls : PerOK(opt, per[x]), ListOK
  PROVE  /\ DOMAIN CreatedIn(per) = Urls
         /\ \A x \in Urls : PerOK(opt, CreatedIn(per)[x]) /\ NewOrSame(per[x], CreatedIn(per)[x])
         /\ ListOf(ListWithCreated, CreatedIn(per))
         /\ \A i \in 1..Len(transfers) : ListWithCreated[i] = transfers[i]
         /\ Len(transfers) \in Nat
         /\ More => /\ Len(ListWithCreated) = Len(transfers) + 1
                    /\ CreatedIn(per)[ListWithCreated[Len(transfers) + 1]].st = "ready"
         /\ ~More => ListWithCreated = transfers /\ CreatedIn(per) = per
<1> DEFINE p == CreatedIn(per)
           l == ListWithCreated
<1>1. UrlCount \in Nat
  BY DEF ToolConstants
<1>2. /\ NoTwice(transfers) /\ transfers \in Seq(Urls)
      /\ \A x \in Urls : per[x].st \in Listed <=> In(x, transfers)
  BY DEF ListOK, ListOf, NoTwice
<1>3. Len(transfers) \in Nat
  BY <1>2, LenProperties
<1>4. CASE ~More
  <2>1. p = per /\ l = transfers
    BY <1>4 DEF CreatedIn, ListWithCreated
  <2> HIDE DEF p, l
  <2>2. \A x \in Urls : NewOrSame(per[x], per[x])
    BY DEF NewOrSame
  <2>3. ListOf(transfers, per)
    BY DEF ListOK
  <2>4. /\ DOMAIN p = Urls /\ \A x \in Urls : PerOK(opt, p[x]) /\ NewOrSame(per[x], p[x])
        /\ ListOf(l, p) /\ \A i \in 1..Len(transfers) : l[i] = transfers[i]
    BY <2>1, <2>2, <2>3
  <2> QED
    BY <2>1, <2>4, <1>3, <1>4 DEF p, l
<1>5. CASE More
  <2> DEFINE c == Created(per)
             s == Setup(per[c])
  <2>1. c \in Urls /\ per[c].st = "none"
    BY <1>1, <1>5, CreatedIs
  <2>2. p = [per EXCEPT ![c] = s] /\ l = Append(transfers, c)
    BY <1>5 DEF CreatedIn, ListWithCreated
  <2> HIDE DEF p, l, c
  <2>3. PerOK(opt, s) /\ NewOrSame(per[c], s) /\ s.st = "ready"
    BY <2>1, SetupBegins
  <2> HIDE DEF s
  <2>4. DOMAIN p = Urls /\ p[c] = s /\ \A x \in Urls : x # c => p[x] = per[x]
    BY <2>1, <2>2
  <2>5. \A x \in Urls : NewOrSame(per[x], per[x])
    BY DEF NewOrSame
  <2>6. \A x \in Urls : PerOK(opt, p[x]) /\ NewOrSame(per[x], p[x])
    <3> TAKE x \in Urls
    <3>1. CASE x = c
      BY <3>1, <2>3, <2>4
    <3>2. CASE x # c
      BY <3>2, <2>4, <2>5
    <3> QED
      BY <3>1, <3>2
  <2>7. ~In(c, transfers)
    BY <2>1, <1>2 DEF Listed
  <2>8. /\ NoTwice(l) /\ Len(l) = Len(transfers) + 1 /\ l[Len(transfers) + 1] = c
        /\ \A i \in 1..Len(transfers) : l[i] = transfers[i]
        /\ \A y : In(y, l) <=> In(y, transfers) \/ y = c
    BY <2>1, <2>2, <2>7, <1>2, AppendedList
  <2>9. \A x \in Urls : p[x].st \in Listed <=> In(x, l)
    <3> TAKE x \in Urls
    <3>1. CASE x = c
      BY <3>1, <2>3, <2>4, <2>8 DEF Listed
    <3>2. CASE x # c
      BY <3>2, <2>4, <2>8, <1>2
    <3> QED
      BY <3>1, <3>2
  <2>10. ListOf(l, p)
    BY <2>8, <2>9 DEF ListOf
  <2>11. p[l[Len(transfers) + 1]].st = "ready"
    BY <2>3, <2>4, <2>8
  <2> QED
    BY <2>4, <2>6, <2>8, <2>10, <2>11, <1>3, <1>5 DEF p, l
<1> QED
  BY <1>4, <1>5

-----------------------------------------------------------------------------
(* The messages. *)

LEMMA EmptyMessages ==
  ASSUME NEW p, \A x \in Urls : p[x].st # "done"
  PROVE  MessagesOf(opt, <<>>, p)
<1> DEFINE m == <<>>
<1>1. m \in Seq(Message) /\ Len(m) = 0
  BY EmptySeq
<1> HIDE DEF m
<1>2. \A i \in 1..Len(m) : FALSE
  BY <1>1
<1>3. MessagesOf(opt, m, p)
  BY <1>1, <1>2 DEF MessagesOf, OneEach, About
<1> QED
  BY <1>3 DEF m

LEMMA NothingDone ==
  ASSUME NEW p, MessagesOf(opt, <<>>, p)
  PROVE  \A x \in Urls : p[x].st # "done"
<1> DEFINE m == <<>>
<1>1. Len(m) = 0
  BY EmptySeq
<1> HIDE DEF m
<1>2. \A i \in 1..Len(m) : FALSE
  BY <1>1
<1>3. MessagesOf(opt, m, p)
  BY DEF m
<1> QED
  BY <1>2, <1>3 DEF MessagesOf, About

LEMMA AppendedMessage ==
  ASSUME NEW p, DOMAIN p = Urls, NEW m, MessagesOf(opt, m, p), NEW x \in Urls, p[x].st # "done",
         NEW e \in EndType, NEW q, Ended(opt, q, e), q.st = "done"
  PROVE  MessagesOf(opt, Append(m, [x |-> x, end |-> e]), [p EXCEPT ![x] = q])
<1> DEFINE t == [x |-> x, end |-> e]
           a == Append(m, t)
           r == [p EXCEPT ![x] = q]
<1>1. t \in Message /\ t.x = x /\ t.end = e
  BY DEF Message
<1>2. /\ m \in Seq(Message) /\ \A i, j \in 1..Len(m) : m[i].x = m[j].x => i = j
      /\ \A y \in Urls : p[y].st = "done" <=> About(y, m)
      /\ \A i \in 1..Len(m) : Ended(opt, p[m[i].x], m[i].end)
  BY DEF MessagesOf, OneEach
<1> HIDE DEF t
<1>3. /\ a \in Seq(Message) /\ Len(a) = Len(m) + 1 /\ \A i \in 1..Len(m) : a[i] = m[i]
      /\ a[Len(m) + 1] = t /\ Len(m) \in Nat
  BY <1>1, <1>2, AppendProperties, LenProperties
<1> HIDE DEF a
<1>4. \A i \in 1..Len(m) : m[i].x # x
  BY <1>2 DEF About
<1>5. \A i \in 1..Len(m) : m[i] \in Message
  BY <1>2, ElementOfSeq
<1>6. \A i \in 1..Len(m) : m[i].x \in Urls
  BY <1>5 DEF Message
<1>7. DOMAIN r = Urls /\ r[x] = q /\ \A y \in Urls : y # x => r[y] = p[y]
  OBVIOUS
<1> HIDE DEF r
<1>8. \A i \in 1..Len(a) : i \in 1..Len(m) \/ i = Len(m) + 1
  BY <1>3
<1>9. \A i \in 1..Len(m) : i \in 1..Len(a)
  BY <1>3
<1>10. Len(m) + 1 \in 1..Len(a)
  BY <1>3
<1>11. \A i, j \in 1..Len(a) : a[i].x = a[j].x => i = j
  BY <1>1, <1>2, <1>3, <1>4, <1>8
<1>12. OneEach(a)
  BY <1>3, <1>11 DEF OneEach
<1>13. \A y : About(y, a) <=> About(y, m) \/ y = x
  BY <1>1, <1>3, <1>8, <1>9, <1>10 DEF About
<1>14. \A y \in Urls : r[y].st = "done" <=> About(y, a)
  BY <1>2, <1>7, <1>13
<1>15. \A i \in 1..Len(a) : Ended(opt, r[a[i].x], a[i].end)
  <2> TAKE i \in 1..Len(a)
  <2>1. CASE i \in 1..Len(m)
    <3>1. a[i] = m[i] /\ r[m[i].x] = p[m[i].x]
      BY <2>1, <1>3, <1>4, <1>6, <1>7
    <3> QED
      BY <2>1, <3>1, <1>2
  <2>2. CASE i = Len(m) + 1
    <3>1. r[a[i].x] = q /\ a[i].end = e
      BY <2>2, <1>1, <1>3, <1>7
    <3> QED
      BY <3>1
  <2> QED
    BY <2>1, <2>2, <1>8
<1>16. MessagesOf(opt, a, r)
  BY <1>12, <1>14, <1>15 DEF MessagesOf
<1> QED
  BY <1>16 DEF a, r, t

LEMMA HeadMessage ==
  ASSUME NEW p, NEW m, MessagesOf(opt, m, p), m # <<>>
  PROVE  /\ Head(m).x \in Urls /\ Head(m).end \in EndType
         /\ p[Head(m).x].st = "done" /\ Ended(opt, p[Head(m).x], Head(m).end)
<1>1. /\ m \in Seq(Message)
      /\ \A y \in Urls : p[y].st = "done" <=> About(y, m)
      /\ \A i \in 1..Len(m) : Ended(opt, p[m[i].x], m[i].end)
  BY DEF MessagesOf, OneEach
<1>2. Head(m) = m[1] /\ 1 \in 1..Len(m)
  BY <1>1, EmptySeq, LenProperties
<1>3. Head(m) \in Message
  BY <1>1, HeadTailProperties
<1>4. Head(m).x \in Urls /\ Head(m).end \in EndType
  BY <1>3 DEF Message
<1>5. About(Head(m).x, m)
  BY <1>2 DEF About
<1> QED
  BY <1>1, <1>2, <1>4, <1>5

LEMMA TailOfMessages ==
  ASSUME NEW p, DOMAIN p = Urls, NEW m, MessagesOf(opt, m, p), m # <<>>, NEW q, q.st # "done"
  PROVE  MessagesOf(opt, Tail(m), [p EXCEPT ![Head(m).x] = q])
<1> DEFINE x == Head(m).x
           t == Tail(m)
           r == [p EXCEPT ![x] = q]
<1>1. /\ m \in Seq(Message) /\ \A i, j \in 1..Len(m) : m[i].x = m[j].x => i = j
      /\ \A y \in Urls : p[y].st = "done" <=> About(y, m)
      /\ \A i \in 1..Len(m) : Ended(opt, p[m[i].x], m[i].end)
  BY DEF MessagesOf, OneEach
<1>2. Head(m) = m[1] /\ 1 \in 1..Len(m) /\ Len(m) \in Nat
  BY <1>1, EmptySeq, LenProperties
<1>3. t \in Seq(Message) /\ Len(t) = Len(m) - 1 /\ \A i \in 1..Len(t) : t[i] = m[i + 1]
  BY <1>1, HeadTailProperties
<1>4. \A i \in 1..Len(m) : m[i] \in Message
  BY <1>1, ElementOfSeq
<1>5. \A i \in 1..Len(m) : m[i].x \in Urls
  BY <1>4 DEF Message
<1>6. x = m[1].x /\ x \in Urls
  BY <1>2, <1>5
<1> HIDE DEF t, x
<1>7. DOMAIN r = Urls /\ r[x] = q /\ \A y \in Urls : y # x => r[y] = p[y]
  BY <1>6
<1> HIDE DEF r
<1>8. \A i \in 1..Len(t) : i + 1 \in 1..Len(m) /\ i + 1 # 1
  BY <1>2, <1>3
<1>9. \A i \in 1..Len(t) : t[i].x # x
  BY <1>1, <1>2, <1>3, <1>6, <1>8
<1>10. ASSUME NEW i \in 1..Len(t), NEW j \in 1..Len(t), t[i].x = t[j].x PROVE i = j
  <2>1. i + 1 = j + 1
    BY <1>1, <1>3, <1>8, <1>10
  <2> QED
    BY <2>1, <1>2, <1>3
<1>11. OneEach(t)
  BY <1>3, <1>10 DEF OneEach
<1>12. ASSUME NEW y, About(y, t) PROVE About(y, m) /\ y # x
  <2>1. PICK i \in 1..Len(t) : t[i].x = y
    BY <1>12 DEF About
  <2>2. m[i + 1].x = y /\ i + 1 \in 1..Len(m)
    BY <2>1, <1>3, <1>8
  <2> QED
    BY <2>1, <2>2, <1>9 DEF About
<1>13. ASSUME NEW y, About(y, m), y # x PROVE About(y, t)
  <2>1. PICK i \in 1..Len(m) : m[i].x = y
    BY <1>13 DEF About
  <2>2. i # 1
    BY <2>1, <1>6, <1>13
  <2>3. i - 1 \in 1..Len(t) /\ (i - 1) + 1 = i
    BY <2>2, <1>2, <1>3
  <2>4. t[i - 1] = m[i]
    BY <2>3, <1>3
  <2> QED
    BY <2>1, <2>3, <2>4 DEF About
<1>14. \A y \in Urls : r[y].st = "done" <=> About(y, t)
  <2> TAKE y \in Urls
  <2>1. CASE y = x
    BY <2>1, <1>7, <1>12
  <2>2. CASE y # x
    BY <2>2, <1>1, <1>7, <1>12, <1>13
  <2> QED
    BY <2>1, <2>2
<1>15. \A i \in 1..Len(t) : Ended(opt, r[t[i].x], t[i].end)
  <2> TAKE i \in 1..Len(t)
  <2>1. t[i] = m[i + 1] /\ i + 1 \in 1..Len(m)
    BY <1>3, <1>8
  <2>2. r[t[i].x] = p[t[i].x]
    BY <2>1, <1>5, <1>7, <1>9
  <2> QED
    BY <2>1, <2>2, <1>1
<1>16. MessagesOf(opt, t, r)
  BY <1>11, <1>14, <1>15 DEF MessagesOf
<1> QED
  BY <1>16 DEF t, x, r

-----------------------------------------------------------------------------
(* How many there are at once. *)

LEMMA AddedCount ==
  ASSUME UrlCount \in Nat, NEW p
  PROVE  IsFiniteSet(Added(p)) /\ Cardinality(Added(p)) \in Nat
<1>1. IsFiniteSet(Urls) /\ Added(p) \in SUBSET Urls
  BY FS_Interval DEF Urls, Added
<1> QED
  BY <1>1, FS_Subset, FS_CardinalityType

LEMMA NoMoreAdded ==
  ASSUME UrlCount \in Nat, NEW p, NEW q, Added(q) \subseteq Added(p)
  PROVE  Cardinality(Added(q)) <= Cardinality(Added(p))
BY AddedCount, FS_Subset

LEMMA OneMoreAdded ==
  ASSUME UrlCount \in Nat, NEW p, NEW q, NEW x, Added(q) \subseteq Added(p) \cup {x}
  PROVE  Cardinality(Added(q)) <= Cardinality(Added(p)) + 1
<1>1. IsFiniteSet(Added(p)) /\ Cardinality(Added(p)) \in Nat /\ Cardinality(Added(q)) \in Nat
  BY AddedCount
<1>2. IsFiniteSet(Added(p) \cup {x}) /\ Cardinality(Added(p) \cup {x}) <= Cardinality(Added(p)) + 1
  BY <1>1, FS_AddElement
<1>3. Cardinality(Added(p) \cup {x}) \in Nat
  BY <1>2, FS_CardinalityType
<1>4. Cardinality(Added(q)) <= Cardinality(Added(p) \cup {x})
  BY <1>2, FS_Subset
<1> QED
  BY <1>1, <1>2, <1>3, <1>4

LEMMA NoneAdded ==
  ASSUME NEW p, \A x \in Urls : p[x].st \notin {"running", "done"}
  PROVE  Cardinality(Added(p)) = 0
<1>1. Added(p) = {}
  BY DEF Added
<1> QED
  BY <1>1, FS_EmptySet

LEMMA RunningCount ==
  ASSUME UrlCount \in Nat
  PROVE  Cardinality(Running) \in Nat /\ (Cardinality(Running) = 0 => Running = {})
<1>1. IsFiniteSet(Urls) /\ Running \in SUBSET Urls
  BY FS_Interval DEF Urls, Running
<1>2. IsFiniteSet(Running)
  BY <1>1, FS_Subset
<1> QED
  BY <1>2, FS_CardinalityType, FS_EmptySet

-----------------------------------------------------------------------------
(* The steps. *)

LEMMA Before ==
  ASSUME ToolConstants, ToolInv, tool.phase # "ended"
  PROVE  /\ OnTheWay /\ DOMAIN tool = ToolFields /\ opt \in ToolOptions /\ DOMAIN per = Urls
         /\ UrlCount \in Nat \ {0} /\ opt.max \in Nat \ {0} /\ opt.retries \in Nat
         /\ Len(transfers) \in Nat /\ Cardinality(Running) \in Nat /\ Cardinality(Added(per)) \in Nat
         /\ \A x \in Urls : per[x].st \in Listed \cup {"none", "gone"}
         /\ \A x \in Urls : per[x].result = "none" <=> per[x].st # "gone"
<1>1. OnTheWay /\ DOMAIN tool = ToolFields /\ opt \in ToolOptions /\ DOMAIN per = Urls
  BY DEF ToolInv
<1>2. UrlCount \in Nat \ {0} /\ opt.max \in Nat \ {0} /\ opt.retries \in Nat
  BY <1>1 DEF ToolConstants
<1>3. Len(transfers) \in Nat
  BY <1>1, LenProperties DEF OnTheWay, ListOK, ListOf, NoTwice
<1>4. Cardinality(Running) \in Nat /\ Cardinality(Added(per)) \in Nat
  BY <1>2, RunningCount, AddedCount
<1>5. \A x \in Urls : PerOK(opt, per[x])
  BY <1>1 DEF OnTheWay
<1>6. \A x \in Urls : per[x].st \in Listed \cup {"none", "gone"}
  BY <1>5 DEF PerOK
<1>7. ASSUME NEW x \in Urls PROVE per[x].result = "none" <=> per[x].st # "gone"
  <2>1. CASE per[x].st = "none"
    BY <2>1, <1>5 DEF PerOK, Fresh
  <2>2. CASE per[x].st \in {"ready", "running"}
    BY <2>2, <1>5 DEF PerOK, Begins
  <2>3. CASE per[x].st = "gone"
    BY <2>3, <1>5 DEF PerOK, Gone
  <2>4. CASE per[x].st = "done"
    <3>1. MessagesOf(opt, messages, per)
      BY <1>1 DEF OnTheWay, MessagesOK
    <3>2. PICK i \in 1..Len(messages) : messages[i].x = x /\ Ended(opt, per[messages[i].x], messages[i].end)
      BY <2>4, <3>1 DEF MessagesOf, About
    <3>3. Ended(opt, per[x], messages[i].end)
      BY <3>2
    <3> QED
      BY <2>4, <3>3 DEF Ended
  <2> QED
    BY <2>1, <2>2, <2>3, <2>4, <1>6 DEF Listed
<1> QED
  BY <1>1, <1>2, <1>3, <1>4, <1>6, <1>7

\* steps that leave the transfers alone
LEMMA Unmoved ==
  ASSUME OnTheWay, UNCHANGED <<transfers, per, messages>>, opt' = opt,
         tool'.phase \notin {"perform", "check"} => messages = <<>>
  PROVE  (\A x \in Urls : PerOK(opt, per[x]))' /\ ListOK' /\ MessagesOK'
<1>1. (\A x \in Urls : PerOK(opt, per[x]))'
  BY DEF OnTheWay
<1>2. ListOK'
  BY DEF OnTheWay, ListOK
<1>3. MessagesOK'
  BY DEF OnTheWay, MessagesOK
<1> QED
  BY <1>1, <1>2, <1>3

\* the end of the notification callback
LEMMA Noting ==
  ASSUME NEW t, DOMAIN t = ToolFields, tool' = Noted(t)
  PROVE  /\ DOMAIN tool' = ToolFields /\ tool'.phase = "loop" /\ tool'.o = t.o /\ tool'.more = t.more
         /\ tool'.still = Cardinality(Running) /\ tool'.check = 0
         /\ tool'.exit = IF t.exit = 0 THEN t.check ELSE t.exit
         /\ tool'.wrapitup <=> t.wrapitup \/ (t.check # 0 /\ opt.failEarly)
<1> DEFINE w == t.wrapitup \/ (t.check # 0 /\ opt.failEarly)
           e == IF t.exit = 0 THEN t.check ELSE t.exit
           c == Cardinality(Running)
<1>1. tool' = [t EXCEPT !.phase = "loop", !.still = c, !.check = 0, !.exit = e, !.wrapitup = w]
  BY DEF Noted
<1>2. w \in BOOLEAN
  OBVIOUS
<1> HIDE DEF w, e, c
<1>3. /\ DOMAIN tool' = ToolFields /\ tool'.phase = "loop" /\ tool'.o = t.o /\ tool'.more = t.more
      /\ tool'.still = c /\ tool'.check = 0 /\ tool'.exit = e /\ tool'.wrapitup = w
  BY <1>1 DEF ToolFields
<1>4. tool'.wrapitup <=> w
  BY <1>2, <1>3
<1> QED
  BY <1>3, <1>4 DEF w, e, c

LEMMA NotedOK ==
  ASSUME ToolConstants, ToolInv, tool.phase \in {"adding", "check"}, messages = <<>>,
         NEW t, DOMAIN t = ToolFields, t.o = tool.o, t.exit = tool.exit, t.check = tool.check, t.wrapitup = tool.wrapitup,
         tool' = Noted(t), UNCHANGED <<transfers, per, messages>>,
         t.more \/ t.wrapitup \/ \A x \in Urls : ~Idle(per[x])
  PROVE  ToolInv'
<1>1. /\ OnTheWay /\ opt \in ToolOptions /\ DOMAIN per = Urls
      /\ UrlCount \in Nat \ {0}
  BY Before
<1>2. /\ DOMAIN tool' = ToolFields /\ tool'.phase = "loop" /\ tool'.o = t.o /\ tool'.more = t.more
      /\ tool'.still = Cardinality(Running) /\ tool'.check = 0
      /\ tool'.exit = IF t.exit = 0 THEN t.check ELSE t.exit
      /\ tool'.wrapitup <=> t.wrapitup \/ (t.check # 0 /\ opt.failEarly)
  BY Noting
<1>3. opt' = opt
  BY <1>2 DEF opt
<1>4. (\A x \in Urls : PerOK(opt, per[x]))' /\ ListOK' /\ MessagesOK'
  BY <1>1, <1>2, <1>3, Unmoved
<1>5. ExitOK'
  BY <1>1, <1>2, <1>3 DEF OnTheWay, ExitOK
<1>6. WrapOK'
  BY <1>1, <1>2, <1>3 DEF OnTheWay, WrapOK, ExitOK
<1>7. SerialOK'
  BY <1>1, <1>2, <1>3 DEF OnTheWay, SerialOK
<1>8. Running' = Running /\ Added(per)' = Added(per)
  BY DEF Running, Added
<1>9. ParallelOK'
  BY <1>1, <1>2, <1>3, <1>8 DEF OnTheWay, ParallelOK
<1>10. CleanupOK'
  BY <1>2 DEF CleanupOK
<1>11. OnTheWay'
  BY <1>4, <1>5, <1>6, <1>7, <1>9, <1>10 DEF OnTheWay
<1> QED
  BY <1>1, <1>2, <1>3, <1>11 DEF ToolInv, Phases

LEMMA InitOK == ASSUME ToolConstants, Init PROVE ToolInv
<1>1. PICK o \in ToolOptions :
        /\ tool = [o |-> o, phase |-> "start", clock |-> 0, resumeFrom |-> 0, exit |-> 0, check |-> 0,
                   wrapitup |-> FALSE, aborted |-> FALSE, still |-> 1, more |-> FALSE, sleeping |-> FALSE, at |-> 1]
        /\ \E k \in IF o.resume THEN 0..BodySize ELSE {0} : per = [x \in Urls |-> Uncreated(Bytes(1, k))]
  BY DEF Init
<1>2. PICK k \in IF o.resume THEN 0..BodySize ELSE {0} : per = [x \in Urls |-> Uncreated(Bytes(1, k))]
  BY <1>1
<1>3. /\ DOMAIN tool = ToolFields /\ opt = o /\ tool.phase = "start" /\ tool.exit = 0 /\ tool.check = 0
      /\ tool.wrapitup = FALSE
  BY <1>1 DEF opt, ToolFields
<1>4. k \in 0..BodySize /\ (~opt.resume => k = 0) /\ UrlCount \in Nat \ {0} /\ opt.max \in Nat \ {0}
  <2>1. BodySize \in Nat /\ UrlCount \in Nat \ {0} /\ opt.max \in Nat \ {0}
    BY <1>3 DEF ToolConstants
  <2>2. CASE o.resume
    BY <2>1, <2>2, <1>2, <1>3
  <2>3. CASE ~o.resume
    BY <2>1, <2>3, <1>2, <1>3
  <2> QED
    BY <2>1, <2>2, <2>3
<1> DEFINE u == Uncreated(Bytes(1, k))
<1>5. /\ DOMAIN u = PerFields /\ u.st = "none" /\ u.open = FALSE /\ u.tries = 0 /\ u.bytes = 0
      /\ u.result = "none" /\ u.file = Bytes(1, k)
  BY DEF Uncreated, PerFields
<1> HIDE DEF u
<1>6. DOMAIN per = Urls /\ \A x \in Urls : per[x] = u
  BY <1>2 DEF u
<1>7. Fresh(opt, u)
  BY <1>4, <1>5 DEF Fresh
<1>8. PerOK(opt, u)
  BY <1>5, <1>7 DEF PerOK
<1>9. transfers = <<>> /\ messages = <<>>
  BY DEF Init
<1>10. ListOK
  BY <1>5, <1>6, <1>9, EmptyList DEF ListOK, ListOf, Listed
<1>11. MessagesOK
  BY <1>5, <1>6, <1>9, EmptyMessages DEF MessagesOK
<1>12. ExitOK /\ WrapOK
  BY <1>3, <1>4, <1>5, <1>6 DEF ExitOK, WrapOK, Failed
<1>13. SerialOK
  BY <1>3, <1>5, <1>6, <1>9 DEF SerialOK
<1>14. ParallelOK
  <2>1. Cardinality(Added(per)) = 0
    BY <1>5, <1>6, NoneAdded
  <2> QED
    BY <2>1, <1>3, <1>4 DEF ParallelOK
<1>15. CleanupOK
  BY <1>3 DEF CleanupOK
<1>16. OnTheWay
  BY <1>6, <1>8, <1>10, <1>11, <1>12, <1>13, <1>14, <1>15 DEF OnTheWay
<1> QED
  BY <1>3, <1>6, <1>16 DEF ToolInv, Phases

LEMMA PassByOK == ASSUME ToolConstants, ToolInv, PassBy PROVE ToolInv'
<1> DEFINE p == per[transfers[tool.at]]
<1>1. tool.phase = "adding" /\ tool.at <= Len(transfers) /\ UNCHANGED <<transfers, per, messages>>
  BY DEF PassBy, AddsMore
<1>2. /\ OnTheWay /\ DOMAIN tool = ToolFields /\ opt \in ToolOptions /\ DOMAIN per = Urls
      /\ Len(transfers) \in Nat
  BY <1>1, Before
<1>3. p.st # "ready" \/ tool.clock < p.startat
  BY DEF PassBy
<1>4. tool' = [tool EXCEPT !.at = @ + 1, !.sleeping = @ \/ p.st = "ready"]
  BY DEF PassBy
<1> DEFINE s == tool.sleeping \/ p.st = "ready"
<1>5. tool' = [tool EXCEPT !.at = tool.at + 1, !.sleeping = s]
  BY <1>4
<1>6. s \in BOOLEAN
  OBVIOUS
<1> HIDE DEF s
<1>7. /\ DOMAIN tool' = ToolFields /\ tool'.phase = "adding" /\ tool'.o = tool.o /\ tool'.at = tool.at + 1
      /\ tool'.sleeping = s /\ tool'.exit = tool.exit /\ tool'.check = tool.check /\ tool'.wrapitup = tool.wrapitup
  BY <1>1, <1>2, <1>5 DEF ToolFields
<1>8. tool'.sleeping <=> tool.sleeping \/ p.st = "ready"
  BY <1>6, <1>7 DEF s
<1>9. opt' = opt
  BY <1>7 DEF opt
<1>10. messages = <<>>
  BY <1>1, <1>2 DEF OnTheWay, MessagesOK
<1>11. (\A x \in Urls : PerOK(opt, per[x]))' /\ ListOK' /\ MessagesOK'
  BY <1>1, <1>2, <1>9, <1>10, Unmoved
<1>12. ExitOK' /\ WrapOK'
  BY <1>1, <1>2, <1>7, <1>9 DEF OnTheWay, ExitOK, WrapOK
<1>13. SerialOK'
  BY <1>1, <1>2, <1>7, <1>9 DEF OnTheWay, SerialOK
<1>14. ParallelOK'
  <2>1. /\ tool.at \in Nat \ {0}
        /\ (\E x \in Urls : per[x].st = "none") =>
              tool.sleeping \/ \E i \in 1..Len(transfers) : i >= tool.at /\ per[transfers[i]].st = "ready"
        /\ ~tool.sleeping => \A i \in 1..Len(transfers) : i < tool.at => per[transfers[i]].st # "ready"
        /\ opt.parallel => Cardinality(Added(per)) <= opt.max
    BY <1>1, <1>2 DEF OnTheWay, ParallelOK
  <2>2. ASSUME \E x \in Urls : per[x].st = "none", ~tool'.sleeping
        PROVE  \E i \in 1..Len(transfers) : i >= tool.at + 1 /\ per[transfers[i]].st = "ready"
    <3>1. ~tool.sleeping /\ p.st # "ready"
      BY <2>2, <1>8
    <3>2. PICK i \in 1..Len(transfers) : i >= tool.at /\ per[transfers[i]].st = "ready"
      BY <2>1, <2>2, <3>1
    <3>3. i # tool.at
      BY <3>1, <3>2
    <3>4. i >= tool.at + 1
      BY <3>2, <3>3, <2>1, <1>2
    <3> QED
      BY <3>2, <3>4
  <2>3. ASSUME ~tool'.sleeping, NEW i \in 1..Len(transfers), i < tool.at + 1
        PROVE  per[transfers[i]].st # "ready"
    <3>1. ~tool.sleeping /\ p.st # "ready"
      BY <2>3, <1>8
    <3>2. i < tool.at \/ i = tool.at
      BY <2>1, <2>3, <1>2
    <3> QED
      BY <3>1, <3>2, <2>1
  <2>4. tool.at + 1 \in Nat \ {0}
    BY <2>1
  <2>5. Added(per)' = Added(per)
    BY <1>1 DEF Added
  <2> HIDE DEF p
  <2> QED
    BY <2>1, <2>2, <2>3, <2>4, <2>5, <1>1, <1>7, <1>9 DEF ParallelOK
<1>15. CleanupOK'
  BY <1>7 DEF CleanupOK
<1>16. OnTheWay'
  BY <1>11, <1>12, <1>13, <1>14, <1>15 DEF OnTheWay
<1> QED
  BY <1>1, <1>2, <1>7, <1>9, <1>16 DEF ToolInv, Phases

LEMMA AddingOK == ASSUME ToolConstants, ToolInv, Adding PROVE ToolInv'
<1>1. tool.phase = "adding" /\ ~AddsMore /\ UNCHANGED <<transfers, per, messages>>
  BY DEF Adding
<1> DEFINE m == tool.at <= Len(transfers) \/ tool.sleeping
           t == [tool EXCEPT !.more = m]
<1>2. /\ OnTheWay /\ DOMAIN tool = ToolFields /\ opt \in ToolOptions /\ DOMAIN per = Urls
      /\ Len(transfers) \in Nat /\ \A x \in Urls : per[x].st \in Listed \cup {"none", "gone"}
  BY <1>1, Before
<1>3. tool' = Noted(t)
  BY DEF Adding
<1>4. m \in BOOLEAN
  OBVIOUS
<1> HIDE DEF m
<1>5. /\ DOMAIN t = ToolFields /\ t.o = tool.o /\ t.exit = tool.exit /\ t.check = tool.check
      /\ t.wrapitup = tool.wrapitup /\ t.more = m
  BY <1>2 DEF ToolFields
<1> HIDE DEF t
<1>6. messages = <<>>
  BY <1>1, <1>2 DEF OnTheWay, MessagesOK
<1>7. ASSUME ~t.more, NEW x \in Urls PROVE ~Idle(per[x])
  <2>1. ~(tool.at <= Len(transfers)) /\ ~tool.sleeping
    BY <1>4, <1>5, <1>7 DEF m
  <2>2. /\ tool.at \in Nat \ {0}
        /\ (\E y \in Urls : per[y].st = "none") =>
              tool.sleeping \/ \E i \in 1..Len(transfers) : i >= tool.at /\ per[transfers[i]].st = "ready"
        /\ ~tool.sleeping => \A i \in 1..Len(transfers) : i < tool.at => per[transfers[i]].st # "ready"
    BY <1>1, <1>2 DEF OnTheWay, ParallelOK
  <2>3. \A i \in 1..Len(transfers) : i < tool.at
    BY <2>1, <2>2, <1>2
  <2>4. per[x].st # "none"
    BY <2>1, <2>2, <2>3
  <2>5. ASSUME per[x].st = "ready" PROVE FALSE
    <3>1. PICK i \in 1..Len(transfers) : transfers[i] = x
      BY <2>5, <1>2 DEF OnTheWay, ListOK, ListOf, In, Listed
    <3> QED
      BY <2>1, <2>2, <2>3, <2>5, <3>1
  <2> QED
    BY <2>4, <2>5 DEF Idle
<1> QED
  BY <1>1, <1>3, <1>5, <1>6, <1>7, NotedOK

LEMMA PerformOK == ASSUME ToolConstants, ToolInv, Perform PROVE ToolInv'
<1>1. tool.phase = "perform" /\ UNCHANGED <<transfers, per, messages>>
  BY DEF Perform
<1>2. /\ OnTheWay /\ DOMAIN tool = ToolFields /\ opt \in ToolOptions /\ DOMAIN per = Urls
  BY <1>1, Before
<1>3. /\ DOMAIN tool' = ToolFields /\ tool'.phase = "check" /\ tool'.o = tool.o
      /\ tool'.exit = tool.exit /\ tool'.check = tool.check /\ tool'.wrapitup = tool.wrapitup
  BY <1>2 DEF Perform, ToolFields
<1>4. opt' = opt
  BY <1>3 DEF opt
<1>5. (\A x \in Urls : PerOK(opt, per[x]))' /\ ListOK' /\ MessagesOK'
  BY <1>1, <1>2, <1>3, <1>4, Unmoved
<1>6. ExitOK' /\ WrapOK'
  BY <1>1, <1>2, <1>3, <1>4 DEF OnTheWay, ExitOK, WrapOK
<1>7. SerialOK'
  BY <1>1, <1>2, <1>3, <1>4 DEF OnTheWay, SerialOK
<1>8. ParallelOK'
  <2>1. Added(per)' = Added(per)
    BY <1>1 DEF Added
  <2> QED
    BY <2>1, <1>2, <1>3, <1>4 DEF OnTheWay, ParallelOK
<1>9. CleanupOK'
  BY <1>3 DEF CleanupOK
<1>10. OnTheWay'
  BY <1>5, <1>6, <1>7, <1>8, <1>9 DEF OnTheWay
<1> QED
  BY <1>1, <1>2, <1>3, <1>4, <1>10 DEF ToolInv, Phases

LEMMA PollInVainOK == ASSUME ToolConstants, ToolInv, PollInVain PROVE ToolInv'
<1>1. tool.phase = "perform" /\ messages = <<>> /\ Running = {} /\ UNCHANGED <<transfers, per, messages>>
  BY DEF PollInVain
<1>2. /\ OnTheWay /\ DOMAIN tool = ToolFields /\ opt \in ToolOptions /\ DOMAIN per = Urls
  BY <1>1, Before
<1>3. /\ DOMAIN tool' = ToolFields /\ tool'.phase = "loop" /\ tool'.o = tool.o /\ tool'.still = 0
      /\ tool'.more = tool.more
      /\ tool'.exit = tool.exit /\ tool'.check = tool.check /\ tool'.wrapitup = tool.wrapitup
  BY <1>2 DEF PollInVain, ToolFields
<1>4. opt' = opt
  BY <1>3 DEF opt
<1>5. (\A x \in Urls : PerOK(opt, per[x]))' /\ ListOK' /\ MessagesOK'
  BY <1>1, <1>2, <1>3, <1>4, Unmoved
<1>6. ExitOK' /\ WrapOK'
  BY <1>1, <1>2, <1>3, <1>4 DEF OnTheWay, ExitOK, WrapOK
<1>7. SerialOK'
  BY <1>1, <1>2, <1>3, <1>4 DEF OnTheWay, SerialOK
<1>8. ParallelOK'
  <2>1. Added(per)' = Added(per)
    BY <1>1 DEF Added
  <2>2. Running' = {}
    BY <1>1 DEF Running
  <2>3. Cardinality(Running') = 0
    BY <2>2, FS_EmptySet
  <2> QED
    BY <2>1, <2>3, <1>1, <1>2, <1>3, <1>4 DEF OnTheWay, ParallelOK
<1>9. CleanupOK'
  BY <1>3 DEF CleanupOK
<1>10. OnTheWay'
  BY <1>5, <1>6, <1>7, <1>8, <1>9 DEF OnTheWay
<1> QED
  BY <1>1, <1>2, <1>3, <1>4, <1>10 DEF ToolInv, Phases

LEMMA TickOK == ASSUME ToolConstants, ToolInv, Tick PROVE ToolInv'
<1>1. tool.phase = "perform" /\ UNCHANGED <<transfers, per, messages>>
  BY DEF Tick
<1>2. /\ OnTheWay /\ DOMAIN tool = ToolFields /\ opt \in ToolOptions /\ DOMAIN per = Urls
  BY <1>1, Before
<1>3. /\ DOMAIN tool' = ToolFields /\ tool'.phase = "perform" /\ tool'.o = tool.o /\ tool'.more = tool.more
      /\ tool'.exit = tool.exit /\ tool'.check = tool.check /\ tool'.wrapitup = tool.wrapitup
  BY <1>1, <1>2 DEF Tick, ToolFields
<1>4. opt' = opt
  BY <1>3 DEF opt
<1>5. (\A x \in Urls : PerOK(opt, per[x]))' /\ ListOK' /\ MessagesOK'
  BY <1>1, <1>2, <1>3, <1>4, Unmoved
<1>6. ExitOK' /\ WrapOK'
  BY <1>1, <1>2, <1>3, <1>4 DEF OnTheWay, ExitOK, WrapOK
<1>7. SerialOK'
  BY <1>1, <1>2, <1>3, <1>4 DEF OnTheWay, SerialOK
<1>8. ParallelOK'
  <2>1. Added(per)' = Added(per)
    BY <1>1 DEF Added
  <2> QED
    BY <2>1, <1>1, <1>2, <1>3, <1>4 DEF OnTheWay, ParallelOK
<1>9. CleanupOK'
  BY <1>3 DEF CleanupOK
<1>10. OnTheWay'
  BY <1>5, <1>6, <1>7, <1>8, <1>9 DEF OnTheWay
<1> QED
  BY <1>1, <1>2, <1>3, <1>4, <1>10 DEF ToolInv, Phases

LEMMA LoopEndsOK == ASSUME ToolConstants, ToolInv, LoopEnds PROVE ToolInv'
<1>1. tool.phase = "loop" /\ ~Goes /\ UNCHANGED <<transfers, per, messages>>
  BY DEF LoopEnds
<1>2. /\ OnTheWay /\ DOMAIN tool = ToolFields /\ opt \in ToolOptions /\ DOMAIN per = Urls
      /\ UrlCount \in Nat \ {0} /\ Cardinality(Running) \in Nat
  BY <1>1, Before
<1>3. /\ DOMAIN tool' = ToolFields /\ tool'.phase = "cleanup" /\ tool'.o = tool.o
      /\ tool'.exit = tool.exit /\ tool'.check = tool.check /\ tool'.wrapitup = tool.wrapitup
  BY <1>2 DEF LoopEnds, ToolFields
<1>4. opt' = opt
  BY <1>3 DEF opt
<1>5. messages = <<>>
  BY <1>1, <1>2 DEF OnTheWay, MessagesOK
<1>6. (\A x \in Urls : PerOK(opt, per[x]))' /\ ListOK' /\ MessagesOK'
  BY <1>1, <1>2, <1>3, <1>4, <1>5, Unmoved
<1>7. ExitOK' /\ WrapOK'
  BY <1>1, <1>2, <1>3, <1>4 DEF OnTheWay, ExitOK, WrapOK
<1>8. /\ tool.still = Cardinality(Running) /\ tool.check = 0
      /\ tool.more \/ tool.wrapitup \/ \A x \in Urls : ~Idle(per[x])
  BY <1>1, <1>2 DEF OnTheWay, ParallelOK
<1>9. tool.still = 0 /\ (~tool.more \/ tool.wrapitup)
  BY <1>1, <1>2, <1>8 DEF Goes
<1>10. \A x \in Urls : per[x].st \notin {"running", "done"}
  <2>1. \A x \in Urls : per[x].st # "running"
    BY <1>2, <1>8, <1>9, RunningCount DEF Running
  <2>2. \A x \in Urls : per[x].st # "done"
    BY <1>2, <1>5, NothingDone DEF OnTheWay, MessagesOK
  <2> QED
    BY <2>1, <2>2
<1>11. SerialOK'
  BY <1>1, <1>2, <1>3, <1>4, <1>10 DEF OnTheWay, SerialOK
<1>12. ParallelOK'
  <2>1. Added(per)' = Added(per)
    BY <1>1 DEF Added
  <2> QED
    BY <2>1, <1>2, <1>3, <1>4 DEF OnTheWay, ParallelOK
<1>13. CleanupOK'
  <2>1. ASSUME NEW x \in Urls, Idle(per[x]) PROVE opt.failEarly /\ tool.exit # 0
    <3>1. tool.wrapitup
      BY <2>1, <1>8, <1>9
    <3> QED
      BY <3>1, <1>2, <1>8 DEF OnTheWay, WrapOK
  <2> QED
    BY <2>1, <1>1, <1>3, <1>4, <1>8, <1>10 DEF CleanupOK
<1>14. OnTheWay'
  BY <1>6, <1>7, <1>11, <1>12, <1>13 DEF OnTheWay
<1> QED
  BY <1>1, <1>2, <1>3, <1>4, <1>14 DEF ToolInv, Phases

LEMMA TurnOK == ASSUME ToolConstants, ToolInv, Turn PROVE ToolInv'
<1>1. tool.phase = "loop" /\ UNCHANGED <<transfers, messages>>
  BY DEF Turn
<1>2. /\ OnTheWay /\ DOMAIN tool = ToolFields /\ opt \in ToolOptions /\ DOMAIN per = Urls
      /\ UrlCount \in Nat \ {0}
  BY <1>1, Before
<1>3. /\ DOMAIN tool' = ToolFields /\ tool'.phase = "perform" /\ tool'.o = tool.o /\ tool'.more = tool.more
      /\ tool'.exit = tool.exit /\ tool'.check = tool.check /\ tool'.wrapitup = tool.wrapitup
  BY <1>2 DEF Turn, ToolFields
<1>4. opt' = opt
  BY <1>3 DEF opt
<1>5. \A x \in Urls : DOMAIN per[x] = PerFields
  BY <1>2 DEF OnTheWay, PerOK
\* only the flag that aborts a transfer changes
<1>6. DOMAIN per' = Urls /\ \A x \in Urls : per'[x] = per[x] \/ \E b : per'[x] = [per[x] EXCEPT !.abort = b]
  BY <1>2 DEF Turn
<1>7. \A x \in Urls :
        /\ DOMAIN per'[x] = PerFields /\ per'[x].st = per[x].st /\ per'[x].result = per[x].result
        /\ per'[x].open = per[x].open /\ per'[x].init = per[x].init /\ per'[x].bytes = per[x].bytes
        /\ per'[x].resume = per[x].resume /\ per'[x].file = per[x].file /\ per'[x].end = per[x].end
        /\ per'[x].tries = per[x].tries /\ per'[x].left = per[x].left /\ per'[x].took = per[x].took
  <2> TAKE x \in Urls
  <2>1. CASE per'[x] = per[x]
    BY <2>1, <1>5
  <2>2. CASE \E b : per'[x] = [per[x] EXCEPT !.abort = b]
    BY <2>2, <1>5 DEF PerFields
  <2> QED
    BY <2>1, <2>2, <1>6
<1>8. ASSUME NEW x \in Urls PROVE PerOK(opt, per'[x])
  <2>1. PerOK(opt, per[x])
    BY <1>2 DEF OnTheWay
  <2> QED
    BY <2>1, <1>7 DEF PerOK, Fresh, Begins, Gone, Unsuccessful, Overlooked
<1>9. (\A x \in Urls : PerOK(opt, per[x]))'
  BY <1>4, <1>8
<1>10. ListOK'
  BY <1>1, <1>2, <1>7 DEF OnTheWay, ListOK, ListOf
<1>11. messages = <<>>
  BY <1>1, <1>2 DEF OnTheWay, MessagesOK
<1>12. MessagesOK'
  <2>1. \A x \in Urls : per[x].st # "done"
    BY <1>2, <1>11, NothingDone DEF OnTheWay, MessagesOK
  <2>2. MessagesOf(opt', <<>>, per')
    BY <2>1, <1>4, <1>7, EmptyMessages
  <2> QED
    BY <2>2, <1>1, <1>3, <1>11 DEF MessagesOK
<1>13. \A x \in Urls : (Failed(per'[x]) <=> Failed(per[x])) /\ (Idle(per'[x]) <=> Idle(per[x]))
  BY <1>7 DEF Failed, Idle
<1>14. ExitOK'
  <2>1. tool.exit # 0 => tool.exit \in Urls
    BY <1>2 DEF OnTheWay, ExitOK, Urls
  <2>2. tool.check # 0 => tool.check \in Urls
    BY <1>2 DEF OnTheWay, ExitOK, Urls
  <2> QED
    BY <2>1, <2>2, <1>2, <1>3, <1>4, <1>13 DEF OnTheWay, ExitOK
<1>15. WrapOK'
  BY <1>2, <1>3, <1>4 DEF OnTheWay, WrapOK
<1>16. SerialOK'
  BY <1>1, <1>2, <1>3, <1>4 DEF OnTheWay, SerialOK
<1>17. ParallelOK'
  <2>1. Added(per') = Added(per)
    BY <1>7 DEF Added
  <2> QED
    BY <2>1, <1>1, <1>2, <1>3, <1>4, <1>13 DEF OnTheWay, ParallelOK
<1>18. CleanupOK'
  BY <1>3 DEF CleanupOK
<1>19. OnTheWay'
  BY <1>9, <1>10, <1>12, <1>14, <1>15, <1>16, <1>17, <1>18 DEF OnTheWay
<1> QED
  BY <1>2, <1>3, <1>4, <1>6, <1>19 DEF ToolInv, Phases

LEMMA FinishOK == ASSUME ToolConstants, ToolInv, NEW x \in Urls, Finish(x) PROVE ToolInv'
<1>1. tool.phase = "perform" /\ per[x].st = "running" /\ UNCHANGED <<tool, transfers>>
  BY DEF Finish
<1>2. /\ OnTheWay /\ DOMAIN tool = ToolFields /\ opt \in ToolOptions /\ DOMAIN per = Urls
      /\ UrlCount \in Nat \ {0} /\ opt.retries \in Nat
      /\ \A y \in Urls : per[y].result = "none" <=> per[y].st # "gone"
  BY <1>1, Before
<1>3. opt' = opt
  BY <1>1 DEF opt
<1>4. PICK e \in Ends(x) :
        /\ per' = [per EXCEPT ![x] = [Tried(@, e) EXCEPT !.st = "done"]]
        /\ messages' = Append(messages, [x |-> x, end |-> e])
  BY DEF Finish
<1>5. DOMAIN per[x] = PerFields /\ per[x].open \in BOOLEAN /\ Begins(opt, per[x])
  BY <1>1, <1>2 DEF OnTheWay, PerOK
<1>6. per[x].resume \in 0..BodySize
  BY <1>5 DEF Begins
<1>7. Brings(per[x].resume, e)
  BY <1>6, EndsBring
<1> DEFINE t == Tried(per[x], e)
           q == [t EXCEPT !.st = "done"]
<1>8. DOMAIN t = PerFields /\ t.open \in BOOLEAN /\ Ended(opt, t, e)
  BY <1>2, <1>5, <1>7, TriedEnds
<1>9. per' = [per EXCEPT ![x] = q]
  BY <1>2, <1>4
<1> HIDE DEF t
<1>10. /\ DOMAIN q = PerFields /\ q.st = "done" /\ q.open = t.open /\ q.init = t.init /\ q.bytes = t.bytes
       /\ q.resume = t.resume /\ q.file = t.file /\ q.end = t.end /\ q.tries = t.tries /\ q.left = t.left
       /\ q.result = t.result
  BY <1>8 DEF PerFields
<1> HIDE DEF q
<1>11. Ended(opt, q, e) /\ q.result = "none" /\ e \in EndType
  BY <1>8, <1>10 DEF Ended
<1>12. PerOK(opt, q)
  BY <1>8, <1>10 DEF PerOK, Listed
<1>13. DOMAIN per' = Urls /\ per'[x] = q /\ \A y \in Urls : y # x => per'[y] = per[y]
  BY <1>2, <1>9
<1>14. (\A y \in Urls : PerOK(opt, per[y]))'
  <2>1. \A y \in Urls : PerOK(opt, per'[y])
    <3> TAKE y \in Urls
    <3>1. CASE y = x
      BY <3>1, <1>12, <1>13
    <3>2. CASE y # x
      BY <3>2, <1>2, <1>13 DEF OnTheWay
    <3> QED
      BY <3>1, <3>2
  <2> QED
    BY <2>1, <1>3
<1>15. \A y \in Urls : /\ per'[y].st \in Listed <=> per[y].st \in Listed
                       /\ per'[y].st \in {"running", "done"} <=> per[y].st \in {"running", "done"}
                       /\ per'[y].result = per[y].result
                       /\ Idle(per'[y]) <=> Idle(per[y])
  <2> TAKE y \in Urls
  <2>1. CASE y = x
    BY <2>1, <1>1, <1>2, <1>10, <1>11, <1>13 DEF Idle, Listed
  <2>2. CASE y # x
    BY <2>2, <1>13
  <2> QED
    BY <2>1, <2>2
<1>16. ListOK'
  BY <1>1, <1>2, <1>15 DEF OnTheWay, ListOK, ListOf
<1>17. MessagesOK'
  <2>1. MessagesOf(opt, messages, per)
    BY <1>2 DEF OnTheWay, MessagesOK
  <2>2. MessagesOf(opt, Append(messages, [x |-> x, end |-> e]), [per EXCEPT ![x] = q])
    BY <2>1, <1>1, <1>2, <1>10, <1>11, AppendedMessage
  <2>3. messages' = Append(messages, [x |-> x, end |-> e])
    BY <1>4
  <2>4. MessagesOf(opt', messages', per')
    BY <2>2, <2>3, <1>3, <1>9
  <2> QED
    BY <2>4, <1>1 DEF MessagesOK
<1>18. \A y \in Urls : Failed(per'[y]) <=> Failed(per[y])
  BY <1>15 DEF Failed
<1>19. ExitOK'
  <2>1. tool.exit # 0 => tool.exit \in Urls
    BY <1>2 DEF OnTheWay, ExitOK, Urls
  <2>2. tool.check # 0 => tool.check \in Urls
    BY <1>2 DEF OnTheWay, ExitOK, Urls
  <2> QED
    BY <2>1, <2>2, <1>1, <1>2, <1>3, <1>18 DEF OnTheWay, ExitOK
<1>20. WrapOK'
  BY <1>1, <1>2, <1>3 DEF OnTheWay, WrapOK
<1>21. SerialOK'
  BY <1>1, <1>2, <1>3, <1>15 DEF OnTheWay, SerialOK
<1>22. ParallelOK'
  <2>1. Added(per') = Added(per)
    BY <1>15 DEF Added
  <2> QED
    BY <2>1, <1>1, <1>2, <1>3, <1>15 DEF OnTheWay, ParallelOK
<1>23. CleanupOK'
  BY <1>1 DEF CleanupOK
<1>24. OnTheWay'
  BY <1>14, <1>16, <1>17, <1>19, <1>20, <1>21, <1>22, <1>23 DEF OnTheWay
<1> QED
  BY <1>1, <1>2, <1>3, <1>13, <1>24 DEF ToolInv, Phases

\* what the creation of a transfer leaves as it is
LEMMA NewKeeps ==
  ASSUME NEW p, NEW q, NewOrSame(p, q)
  PROVE  /\ q.result = p.result /\ (Failed(q) <=> Failed(p)) /\ (Idle(q) <=> Idle(p))
         /\ (q.st = "running" <=> p.st = "running") /\ (q.st = "done" <=> p.st = "done")
         /\ (q.st = "none" => p.st = "none") /\ (p.st # "none" => q = p)
BY DEF NewOrSame, Failed, Idle

LEMMA CreatedOK ==
  ASSUME ToolConstants, ToolInv, tool.phase # "ended", messages = <<>>,
         per' = CreatedIn(per), transfers' = ListWithCreated, UNCHANGED messages,
         opt' = opt, tool'.exit = tool.exit, tool'.check = tool.check, tool'.wrapitup = tool.wrapitup
  PROVE  /\ DOMAIN per' = Urls /\ \A x \in Urls : NewOrSame(per[x], per'[x])
         /\ (\A x \in Urls : PerOK(opt, per[x]))' /\ ListOK' /\ MessagesOK' /\ ExitOK' /\ WrapOK'
<1>1. /\ OnTheWay /\ DOMAIN per = Urls /\ opt.retries \in Nat
  BY Before
<1>2. (\A x \in Urls : PerOK(opt, per[x])) /\ ListOK
  BY <1>1 DEF OnTheWay
<1>3. /\ DOMAIN per' = Urls
      /\ \A x \in Urls : PerOK(opt, per'[x]) /\ NewOrSame(per[x], per'[x])
      /\ ListOf(transfers', per')
  BY <1>1, <1>2, Creation
<1>4. \A x \in Urls : (Failed(per'[x]) <=> Failed(per[x])) /\ (per'[x].st = "done" <=> per[x].st = "done")
  BY <1>3, NewKeeps
<1>5. (\A x \in Urls : PerOK(opt, per[x]))'
  BY <1>3
<1>6. ListOK'
  BY <1>3 DEF ListOK
<1>7. MessagesOK'
  <2>1. \A x \in Urls : per[x].st # "done"
    BY <1>1, NothingDone DEF OnTheWay, MessagesOK
  <2>2. MessagesOf(opt, <<>>, per')
    BY <2>1, <1>4, EmptyMessages
  <2> QED
    BY <2>2 DEF MessagesOK
<1>8. ExitOK'
  <2>1. tool.exit # 0 => tool.exit \in Urls
    BY <1>1 DEF OnTheWay, ExitOK, Urls
  <2>2. tool.check # 0 => tool.check \in Urls
    BY <1>1 DEF OnTheWay, ExitOK, Urls
  <2> QED
    BY <2>1, <2>2, <1>1, <1>4 DEF OnTheWay, ExitOK
<1>9. WrapOK'
  BY <1>1 DEF OnTheWay, WrapOK
<1> QED
  BY <1>3, <1>5, <1>6, <1>7, <1>8, <1>9

LEMMA SerialStartOK == ASSUME ToolConstants, ToolInv, SerialStart PROVE ToolInv'
<1>1. /\ tool.phase = "start" /\ ~opt.parallel /\ UNCHANGED messages
      /\ per' = CreatedIn(per) /\ transfers' = ListWithCreated
  BY DEF SerialStart
<1>2. /\ OnTheWay /\ DOMAIN tool = ToolFields /\ opt \in ToolOptions /\ DOMAIN per = Urls
      /\ UrlCount \in Nat \ {0} /\ opt.retries \in Nat
      /\ \A x \in Urls : per[x].result = "none" <=> per[x].st # "gone"
  BY <1>1, Before
<1>3. /\ DOMAIN tool' = ToolFields /\ tool'.phase = "serial" /\ tool'.o = tool.o
      /\ tool'.exit = tool.exit /\ tool'.check = tool.check /\ tool'.wrapitup = tool.wrapitup
  BY <1>2 DEF SerialStart, ToolFields
<1>4. opt' = opt
  BY <1>3 DEF opt
<1>5. transfers = <<>> /\ (\A x \in Urls : per[x].st = "none") /\ messages = <<>>
  BY <1>1, <1>2 DEF OnTheWay, SerialOK, MessagesOK
<1>6. /\ DOMAIN per' = Urls /\ \A x \in Urls : NewOrSame(per[x], per'[x])
      /\ (\A x \in Urls : PerOK(opt, per[x]))' /\ ListOK' /\ MessagesOK' /\ ExitOK' /\ WrapOK'
  BY <1>1, <1>3, <1>4, <1>5, CreatedOK
<1>7. Len(transfers') = 1
  <2>1. More
    BY <1>2, <1>5 DEF More, Urls
  <2>2. Len(transfers) = 0
    BY <1>5, EmptySeq
  <2>3. (\A x \in Urls : PerOK(opt, per[x])) /\ ListOK
    BY <1>2 DEF OnTheWay
  <2>4. Len(ListWithCreated) = Len(transfers) + 1
    BY <1>2, <2>1, <2>3, Creation
  <2> QED
    BY <2>2, <2>4, <1>1
<1>8. \A x \in Urls : per'[x].st \notin {"running", "done"}
  BY <1>5, <1>6, NewKeeps
<1>9. SerialOK'
  <2>1. tool.exit = 0
    <3>1. \A x \in Urls : ~Failed(per[x])
      BY <1>2, <1>5 DEF Failed
    <3>2. tool.exit # 0 => tool.exit \in Urls /\ Failed(per[tool.exit])
      BY <1>2 DEF OnTheWay, ExitOK, Urls
    <3> QED
      BY <3>1, <3>2
  <2>2. tool.check = 0
    BY <1>1, <1>2 DEF OnTheWay, SerialOK
  <2> QED
    BY <2>1, <2>2, <1>1, <1>3, <1>4, <1>7, <1>8 DEF SerialOK
<1>10. ParallelOK'
  BY <1>1, <1>3, <1>4 DEF ParallelOK
<1>11. CleanupOK'
  BY <1>3 DEF CleanupOK
<1>12. OnTheWay'
  BY <1>6, <1>9, <1>10, <1>11 DEF OnTheWay
<1> QED
  BY <1>2, <1>3, <1>4, <1>6, <1>12 DEF ToolInv, Phases

LEMMA StartsAdding ==
  ASSUME ToolConstants, ToolInv, tool.phase \in {"start", "check"}, opt.parallel, messages = <<>>,
         per' = CreatedIn(per), transfers' = ListWithCreated, UNCHANGED messages,
         tool' = AddingFrom(tool, ResumeFromCreated)
  PROVE  ToolInv'
<1>1. tool.phase # "ended"
  OBVIOUS
<1>2. /\ OnTheWay /\ DOMAIN tool = ToolFields /\ opt \in ToolOptions /\ DOMAIN per = Urls
      /\ UrlCount \in Nat \ {0} /\ opt.retries \in Nat /\ opt.max \in Nat \ {0}
      /\ Cardinality(Added(per)) \in Nat
  BY <1>1, Before
<1>3. /\ DOMAIN tool' = ToolFields /\ tool'.phase = "adding" /\ tool'.o = tool.o /\ tool'.at = 1
      /\ tool'.exit = tool.exit /\ tool'.check = tool.check /\ tool'.wrapitup = tool.wrapitup
  BY <1>2 DEF AddingFrom, ToolFields
<1>4. opt' = opt
  BY <1>3 DEF opt
<1>5. /\ DOMAIN per' = Urls /\ \A x \in Urls : NewOrSame(per[x], per'[x])
      /\ (\A x \in Urls : PerOK(opt, per[x]))' /\ ListOK' /\ MessagesOK' /\ ExitOK' /\ WrapOK'
  BY <1>1, <1>3, <1>4, CreatedOK
<1>6. SerialOK'
  BY <1>3, <1>4 DEF SerialOK
<1>7. ParallelOK'
  <2>1. Cardinality(Added(per')) <= opt.max
    <3>1. Added(per') = Added(per)
      BY <1>5, NewKeeps DEF Added
    <3>2. Cardinality(Added(per)) <= opt.max
      BY <1>2 DEF OnTheWay, ParallelOK
    <3> QED
      BY <3>1, <3>2
  <2>2. ASSUME \E x \in Urls : per'[x].st = "none"
        PROVE  \E i \in 1..Len(transfers') : i >= 1 /\ per'[transfers'[i]].st = "ready"
    <3>1. More
      BY <2>2, <1>5, NewKeeps DEF More
    <3>2. (\A x \in Urls : PerOK(opt, per[x])) /\ ListOK
      BY <1>2 DEF OnTheWay
    <3>3. /\ Len(transfers) \in Nat /\ Len(ListWithCreated) = Len(transfers) + 1
          /\ CreatedIn(per)[ListWithCreated[Len(transfers) + 1]].st = "ready"
      BY <1>2, <3>1, <3>2, Creation
    <3> DEFINE n == Len(transfers) + 1
    <3>4. n \in 1..Len(transfers') /\ n >= 1 /\ per'[transfers'[n]].st = "ready"
      BY <3>3
    <3> QED
      BY <3>4
  <2>3. \A i \in 1..Len(transfers') : ~(i < 1)
    <3>1. ListOf(transfers', per')
      BY <1>5 DEF ListOK
    <3>2. Len(transfers') \in Nat
      BY <3>1, LenProperties DEF ListOf, NoTwice
    <3> QED
      BY <3>2
  <2> QED
    BY <2>1, <2>2, <2>3, <1>3, <1>4 DEF ParallelOK
<1>8. CleanupOK'
  BY <1>3 DEF CleanupOK
<1>9. OnTheWay'
  BY <1>5, <1>6, <1>7, <1>8 DEF OnTheWay
<1> QED
  BY <1>2, <1>3, <1>4, <1>5, <1>9 DEF ToolInv, Phases

LEMMA ParallelStartOK == ASSUME ToolConstants, ToolInv, ParallelStart PROVE ToolInv'
<1>1. tool.phase = "start" /\ tool.phase # "ended"
  BY DEF ParallelStart
<1>2. messages = <<>>
  BY <1>1, Before DEF OnTheWay, MessagesOK
<1> QED
  BY <1>1, <1>2, StartsAdding DEF ParallelStart

LEMMA AllReadOK == ASSUME ToolConstants, ToolInv, AllRead PROVE ToolInv'
<1>1. tool.phase = "check" /\ tool.phase # "ended" /\ messages = <<>> /\ UNCHANGED messages
  BY DEF AllRead
<1>2. OnTheWay /\ DOMAIN tool = ToolFields
  BY <1>1, Before
<1>3. opt.parallel
  BY <1>1, <1>2 DEF OnTheWay, SerialOK
<1>4. CASE tool.wrapitup
  <2>1. tool' = Noted(tool) /\ UNCHANGED <<transfers, per, messages>>
    BY <1>4 DEF AllRead
  <2> QED
    BY <2>1, <1>1, <1>2, <1>4, NotedOK
<1>5. CASE ~tool.wrapitup
  <2>1. per' = CreatedIn(per) /\ transfers' = ListWithCreated /\ tool' = AddingFrom(tool, ResumeFromCreated)
    BY <1>5 DEF AllRead
  <2> QED
    BY <2>1, <1>1, <1>3, StartsAdding
<1> QED
  BY <1>4, <1>5

LEMMA AddTransferOK == ASSUME ToolConstants, ToolInv, AddTransfer PROVE ToolInv'
<1> DEFINE x == transfers[tool.at]
           p == CreatedIn(per)
           l == ListWithCreated
           q == [per[x] EXCEPT !.st = "running"]
<1>1. /\ tool.phase = "adding" /\ tool.at <= Len(transfers) /\ Cardinality(Added(per)) < opt.max
      /\ per[x].st = "ready" /\ transfers' = l /\ UNCHANGED messages
  BY DEF AddTransfer, AddsMore
<1>2. /\ OnTheWay /\ DOMAIN tool = ToolFields /\ opt \in ToolOptions /\ DOMAIN per = Urls
      /\ UrlCount \in Nat \ {0} /\ opt.retries \in Nat /\ opt.max \in Nat \ {0}
      /\ Len(transfers) \in Nat /\ Cardinality(Added(per)) \in Nat
      /\ \A y \in Urls : per[y].result = "none" <=> per[y].st # "gone"
  BY <1>1, Before
<1>3. /\ DOMAIN tool' = ToolFields /\ tool'.phase = "adding" /\ tool'.o = tool.o /\ tool'.at = tool.at + 1
      /\ tool'.exit = tool.exit /\ tool'.check = tool.check /\ tool'.wrapitup = tool.wrapitup
      /\ tool'.sleeping = tool.sleeping
  BY <1>1, <1>2 DEF AddTransfer, ToolFields
<1>4. opt' = opt
  BY <1>3 DEF opt
<1>5. /\ tool.at \in Nat \ {0}
      /\ (\E y \in Urls : per[y].st = "none") =>
            tool.sleeping \/ \E i \in 1..Len(transfers) : i >= tool.at /\ per[transfers[i]].st = "ready"
      /\ ~tool.sleeping => \A i \in 1..Len(transfers) : i < tool.at => per[transfers[i]].st # "ready"
  BY <1>1, <1>2 DEF OnTheWay, ParallelOK
<1>6. tool.at \in 1..Len(transfers)
  BY <1>1, <1>2, <1>5
<1>7. /\ NoTwice(transfers) /\ \A y \in Urls : per[y].st \in Listed <=> In(y, transfers)
  BY <1>2 DEF OnTheWay, ListOK, ListOf
<1>8. /\ \A i \in 1..Len(transfers) : transfers[i] \in Urls /\ per[transfers[i]].st \in Listed
      /\ \A i, j \in 1..Len(transfers) : transfers[i] = transfers[j] => i = j
  <2>1. \A i \in 1..Len(transfers) : transfers[i] \in Urls
    BY <1>7, ElementOfSeq DEF NoTwice
  <2> QED
    BY <2>1, <1>7 DEF NoTwice, In
<1>9. x \in Urls
  BY <1>6, <1>8
<1>10. (\A y \in Urls : PerOK(opt, per[y])) /\ ListOK
  BY <1>2 DEF OnTheWay
<1>11. /\ DOMAIN p = Urls
       /\ \A y \in Urls : PerOK(opt, p[y]) /\ NewOrSame(per[y], p[y])
       /\ ListOf(l, p)
       /\ \A i \in 1..Len(transfers) : l[i] = transfers[i]
       /\ More => Len(l) = Len(transfers) + 1 /\ p[l[Len(transfers) + 1]].st = "ready"
       /\ ~More => l = transfers /\ p = per
  BY <1>2, <1>10, Creation
<1>12. per' = [p EXCEPT ![x].st = "running"]
  BY DEF AddTransfer
<1> HIDE DEF p, l, x
<1>13. p[x] = per[x]
  BY <1>1, <1>9, <1>11, NewKeeps
<1>14. per' = [p EXCEPT ![x] = q]
  BY <1>9, <1>11, <1>12, <1>13
<1>15. DOMAIN per[x] = PerFields /\ per[x].open \in BOOLEAN /\ Begins(opt, per[x])
  BY <1>1, <1>9, <1>10 DEF PerOK
<1>16. /\ DOMAIN q = PerFields /\ q.st = "running" /\ q.open = per[x].open /\ q.init = per[x].init
       /\ q.bytes = per[x].bytes /\ q.resume = per[x].resume /\ q.file = per[x].file
       /\ q.tries = per[x].tries /\ q.left = per[x].left /\ q.result = per[x].result
  BY <1>15 DEF PerFields
<1> HIDE DEF q
<1>17. PerOK(opt, q)
  <2>1. Begins(opt, q)
    BY <1>15, <1>16 DEF Begins
  <2> QED
    BY <2>1, <1>15, <1>16 DEF PerOK, Listed
<1>18. DOMAIN per' = Urls /\ per'[x] = q /\ \A y \in Urls : y # x => per'[y] = p[y]
  BY <1>9, <1>11, <1>14
<1>19. (\A y \in Urls : PerOK(opt, per[y]))'
  <2>1. \A y \in Urls : PerOK(opt, per'[y])
    <3> TAKE y \in Urls
    <3>1. CASE y = x
      BY <3>1, <1>17, <1>18
    <3>2. CASE y # x
      BY <3>2, <1>11, <1>18
    <3> QED
      BY <3>1, <3>2
  <2> QED
    BY <2>1, <1>4
<1>20. \A y \in Urls : /\ per'[y].result = per[y].result
                       /\ Failed(per'[y]) <=> Failed(per[y])
                       /\ per'[y].st \in Listed <=> p[y].st \in Listed
                       /\ per'[y].st = "done" <=> per[y].st = "done"
                       /\ per'[y].st = "none" => p[y].st = "none" /\ per[y].st = "none"
                       /\ per'[y].st \in {"running", "done"} => per[y].st \in {"running", "done"} \/ y = x
  <2> TAKE y \in Urls
  <2>1. CASE y = x
    BY <2>1, <1>1, <1>13, <1>16, <1>18 DEF Listed, Failed
  <2>2. CASE y # x
    BY <2>2, <1>11, <1>18, NewKeeps
  <2> QED
    BY <2>1, <2>2
<1>21. ListOK'
  BY <1>1, <1>11, <1>20 DEF ListOK, ListOf
<1>22. messages = <<>>
  BY <1>1, <1>2 DEF OnTheWay, MessagesOK
<1>23. MessagesOK'
  <2>1. \A y \in Urls : per[y].st # "done"
    BY <1>2, <1>22, NothingDone DEF OnTheWay, MessagesOK
  <2>2. MessagesOf(opt, <<>>, per')
    BY <2>1, <1>20, EmptyMessages
  <2> QED
    BY <2>2, <1>1, <1>4, <1>22 DEF MessagesOK
<1>24. ExitOK'
  <2>1. tool.exit # 0 => tool.exit \in Urls
    BY <1>2 DEF OnTheWay, ExitOK, Urls
  <2>2. tool.check # 0 => tool.check \in Urls
    BY <1>2 DEF OnTheWay, ExitOK, Urls
  <2> QED
    BY <2>1, <2>2, <1>2, <1>3, <1>4, <1>20 DEF OnTheWay, ExitOK
<1>25. WrapOK'
  BY <1>2, <1>3, <1>4 DEF OnTheWay, WrapOK
<1>26. SerialOK'
  BY <1>1, <1>2, <1>3, <1>4 DEF OnTheWay, SerialOK
<1>27. ParallelOK'
  <2>1. Cardinality(Added(per')) <= opt.max
    <3>1. Added(per') \subseteq Added(per) \cup {x}
      BY <1>20 DEF Added
    <3>2. Cardinality(Added(per')) <= Cardinality(Added(per)) + 1
      BY <1>2, <3>1, OneMoreAdded
    <3>3. Cardinality(Added(per')) \in Nat
      BY <1>2, AddedCount
    <3> QED
      BY <3>2, <3>3, <1>1, <1>2
  <2>2. ASSUME \E y \in Urls : per'[y].st = "none"
        PROVE  \E i \in 1..Len(transfers') : i >= tool.at + 1 /\ per'[transfers'[i]].st = "ready"
    <3>1. More
      BY <2>2, <1>20 DEF More
    <3> DEFINE n == Len(transfers) + 1
    <3>2. n \in 1..Len(transfers') /\ n >= tool.at + 1 /\ p[l[n]].st = "ready"
      BY <3>1, <1>1, <1>2, <1>5, <1>11
    <3>3. l[n] # x
      <4>1. ListOf(l, p) /\ l[tool.at] = x /\ n # tool.at
        BY <1>2, <1>6, <1>11 DEF x
      <4>2. tool.at \in 1..Len(l) /\ n \in 1..Len(l)
        BY <3>1, <3>2, <1>1, <1>2, <1>6, <1>11
      <4> HIDE DEF n
      <4> QED
        BY <4>1, <4>2 DEF ListOf, NoTwice
    <3> HIDE DEF n
    <3>4. l[n] \in Urls
      BY <3>2, <1>1, <1>11, ElementOfSeq DEF ListOf, NoTwice
    <3>5. per'[transfers'[n]].st = "ready"
      BY <3>2, <3>3, <3>4, <1>1, <1>18
    <3> QED
      BY <3>2, <3>5
  <2>3. ASSUME ~tool.sleeping, NEW i \in 1..Len(transfers'), i < tool.at + 1
        PROVE  per'[transfers'[i]].st # "ready"
    <3>1. i \in 1..Len(transfers) /\ (i < tool.at \/ i = tool.at)
      <4>1. Len(transfers') \in Nat
        BY <1>1, <1>11, LenProperties DEF ListOf, NoTwice
      <4> QED
        BY <4>1, <2>3, <1>1, <1>2, <1>5
    <3>2. transfers'[i] = transfers[i]
      BY <3>1, <1>1, <1>11
    <3>3. CASE i = tool.at
      BY <3>2, <3>3, <1>16, <1>18 DEF x
    <3>4. CASE i < tool.at
      <4>1. transfers[i] # x /\ transfers[i] \in Urls /\ per[transfers[i]].st \in Listed
        BY <3>1, <3>4, <1>5, <1>6, <1>8 DEF x
      <4>2. per'[transfers[i]] = per[transfers[i]]
        BY <4>1, <1>11, <1>18, NewKeeps DEF Listed
      <4> QED
        BY <3>1, <3>2, <3>4, <4>2, <2>3, <1>5
    <3> QED
      BY <3>1, <3>3, <3>4
  <2>4. tool.at + 1 \in Nat \ {0}
    BY <1>5
  <2> QED
    BY <2>1, <2>2, <2>3, <2>4, <1>3, <1>4 DEF ParallelOK
<1>28. CleanupOK'
  BY <1>3 DEF CleanupOK
<1>29. OnTheWay'
  BY <1>19, <1>21, <1>23, <1>24, <1>25, <1>26, <1>27, <1>28 DEF OnTheWay
<1> QED
  BY <1>2, <1>3, <1>4, <1>18, <1>29 DEF ToolInv, Phases

\* an attempt of a transfer that has begun
LEMMA Attempt ==
  ASSUME ToolConstants, opt.retries \in Nat, NEW x, PerOK(opt, per[x]), per[x].st \in {"ready", "running"},
         NEW e \in Ends(x)
  PROVE  /\ DOMAIN Tried(per[x], e) = PerFields /\ Tried(per[x], e).open \in BOOLEAN
         /\ Ended(opt, Tried(per[x], e), e)
<1>1. DOMAIN per[x] = PerFields /\ per[x].open \in BOOLEAN /\ Begins(opt, per[x])
  BY DEF PerOK
<1>2. per[x].resume \in 0..BodySize
  BY <1>1 DEF Begins
<1>3. Brings(per[x].resume, e)
  BY <1>2, EndsBring
<1> QED
  BY <1>1, <1>3, TriedEnds

\* in serial mode the list has one transfer
LEMMA SerialHead ==
  ASSUME ToolConstants, ToolInv, tool.phase = "serial"
  PROVE  /\ transfers # <<>> /\ Head(transfers) \in Urls /\ Head(transfers) = transfers[1]
         /\ per[Head(transfers)].st = "ready"
         /\ NoTwice(transfers) /\ Len(transfers) = 1 /\ ~opt.parallel /\ messages = <<>>
<1>1. OnTheWay
  BY Before
<1>2. Len(transfers) = 1 /\ ~opt.parallel /\ messages = <<>> /\ \A x \in Urls : per[x].st \notin {"running", "done"}
  BY <1>1 DEF OnTheWay, SerialOK, MessagesOK
<1>3. NoTwice(transfers) /\ \A x \in Urls : per[x].st \in Listed <=> In(x, transfers)
  BY <1>1 DEF OnTheWay, ListOK, ListOf
<1>4. transfers # <<>>
  BY <1>2, EmptySeq
<1>5. Head(transfers) \in Urls /\ Head(transfers) = transfers[1] /\ In(Head(transfers), transfers)
  BY <1>3, <1>4, TailOfList
<1>6. per[Head(transfers)].st = "ready"
  BY <1>2, <1>3, <1>5 DEF Listed
<1> QED
  BY <1>2, <1>3, <1>4, <1>5, <1>6

LEMMA SerialRetryOK == ASSUME ToolConstants, ToolInv, SerialRetry PROVE ToolInv'
<1> DEFINE x == Head(transfers)
<1>1. tool.phase = "serial" /\ UNCHANGED <<transfers, messages>>
  BY DEF SerialRetry
<1>2. /\ OnTheWay /\ DOMAIN tool = ToolFields /\ opt \in ToolOptions /\ DOMAIN per = Urls
      /\ UrlCount \in Nat \ {0} /\ opt.retries \in Nat
      /\ \A y \in Urls : per[y].result = "none" <=> per[y].st # "gone"
  BY <1>1, Before
<1>3. x \in Urls /\ per[x].st = "ready" /\ ~opt.parallel /\ messages = <<>>
  BY <1>1, SerialHead
<1>4. PICK e \in Ends(x) :
        /\ Retries(Tried(per[x], e), e)
        /\ per' = [per EXCEPT ![x] = Again(Tried(per[x], e), e)]
        /\ tool' = [tool EXCEPT !.clock = @ + Delay(Tried(per[x], e), e), !.resumeFrom = RewoundResumeFrom(Tried(per[x], e), e)]
  BY DEF SerialRetry
<1> HIDE DEF x
<1> DEFINE t == Tried(per[x], e)
           q == Again(t, e)
<1>5. /\ DOMAIN tool' = ToolFields /\ tool'.phase = "serial" /\ tool'.o = tool.o
      /\ tool'.exit = tool.exit /\ tool'.check = tool.check /\ tool'.wrapitup = tool.wrapitup
  BY <1>1, <1>2, <1>4 DEF ToolFields
<1>6. opt' = opt
  BY <1>5 DEF opt
<1>7. DOMAIN t = PerFields /\ t.open \in BOOLEAN /\ Ended(opt, t, e)
  BY <1>2, <1>3, Attempt DEF OnTheWay
<1>8. t.left > 0
  BY <1>4 DEF Retries, Checked
<1>9. per' = [per EXCEPT ![x] = q]
  BY <1>4
<1> HIDE DEF t
<1>10. PerOK(opt, q) /\ q.st = "ready" /\ q.result = "none"
  BY <1>2, <1>7, <1>8, AgainBegins
<1> HIDE DEF q
<1>11. DOMAIN per' = Urls /\ per'[x] = q /\ \A y \in Urls : y # x => per'[y] = per[y]
  BY <1>2, <1>3, <1>9
<1>12. \A y \in Urls : PerOK(opt, per'[y]) /\ per'[y].st = per[y].st /\ per'[y].result = per[y].result
  <2> TAKE y \in Urls
  <2>1. CASE y = x
    BY <2>1, <1>2, <1>3, <1>10, <1>11
  <2>2. CASE y # x
    BY <2>2, <1>2, <1>11 DEF OnTheWay
  <2> QED
    BY <2>1, <2>2
<1>13. (\A y \in Urls : PerOK(opt, per[y]))'
  BY <1>6, <1>12
<1>14. ListOK'
  BY <1>1, <1>2, <1>12 DEF OnTheWay, ListOK, ListOf
<1>15. MessagesOK'
  <2>1. \A y \in Urls : per[y].st # "done"
    BY <1>2, <1>3, NothingDone DEF OnTheWay, MessagesOK
  <2>2. MessagesOf(opt, <<>>, per')
    BY <2>1, <1>12, EmptyMessages
  <2> QED
    BY <2>2, <1>1, <1>3, <1>6 DEF MessagesOK
<1>16. ExitOK'
  <2>1. \A y \in Urls : Failed(per'[y]) <=> Failed(per[y])
    BY <1>12 DEF Failed
  <2>2. (tool.exit # 0 => tool.exit \in Urls) /\ (tool.check # 0 => tool.check \in Urls)
    BY <1>2 DEF OnTheWay, ExitOK, Urls
  <2> QED
    BY <2>1, <2>2, <1>2, <1>5, <1>6 DEF OnTheWay, ExitOK
<1>17. WrapOK'
  BY <1>2, <1>5, <1>6 DEF OnTheWay, WrapOK
<1>18. SerialOK'
  BY <1>1, <1>2, <1>5, <1>6, <1>12 DEF OnTheWay, SerialOK
<1>19. ParallelOK' /\ CleanupOK'
  BY <1>3, <1>5, <1>6 DEF ParallelOK, CleanupOK
<1>20. OnTheWay'
  BY <1>13, <1>14, <1>15, <1>16, <1>17, <1>18, <1>19 DEF OnTheWay
<1> QED
  BY <1>2, <1>5, <1>6, <1>11, <1>20 DEF ToolInv, Phases

LEMMA SerialNextOK == ASSUME ToolConstants, ToolInv, SerialNext PROVE ToolInv'
<1> DEFINE x == Head(transfers)
<1>1. tool.phase = "serial" /\ UNCHANGED messages
  BY DEF SerialNext
<1>2. /\ OnTheWay /\ DOMAIN tool = ToolFields /\ opt \in ToolOptions /\ DOMAIN per = Urls
      /\ UrlCount \in Nat \ {0} /\ opt.retries \in Nat
      /\ \A y \in Urls : per[y].result = "none" <=> per[y].st # "gone"
  BY <1>1, Before
<1>3. /\ x \in Urls /\ per[x].st = "ready" /\ ~opt.parallel /\ messages = <<>> /\ x = transfers[1]
      /\ NoTwice(transfers) /\ Len(transfers) = 1
  BY <1>1, SerialHead
<1>4. PICK e \in Ends(x) :
        LET p == Tried(per[x], e)
            bad == Verdict(p, e) # "ok"
            bail == bad /\ opt.failEarly
            left == Tail(IF bail THEN transfers ELSE ListWithCreated)
        IN  /\ per' = [IF bail THEN per ELSE CreatedIn(per) EXCEPT ![x] = Over(p, e)]
            /\ transfers' = left
            /\ tool' = [tool EXCEPT !.exit = IF bad THEN x ELSE 0, !.phase = IF left = <<>> \/ bail THEN "cleanup" ELSE @,
                                    !.resumeFrom = IF bail THEN @ ELSE ResumeFromCreated]
  BY DEF SerialNext
<1> DEFINE t == Tried(per[x], e)
           q == Over(t, e)
           bad == Verdict(t, e) # "ok"
           bail == bad /\ opt.failEarly
           s == IF bail THEN transfers ELSE ListWithCreated
           p == IF bail THEN per ELSE CreatedIn(per)
           code == IF bad THEN x ELSE 0
           after == IF Tail(s) = <<>> \/ bail THEN "cleanup" ELSE "serial"
<1>5. per' = [p EXCEPT ![x] = q] /\ transfers' = Tail(s)
  BY <1>4
<1>6. /\ DOMAIN tool' = ToolFields /\ tool'.phase = after /\ tool'.o = tool.o
      /\ tool'.exit = code /\ tool'.check = tool.check /\ tool'.wrapitup = tool.wrapitup
  BY <1>1, <1>2, <1>4 DEF ToolFields
<1>7. opt' = opt
  BY <1>6 DEF opt
<1> HIDE DEF x
<1>8. Ended(opt, t, e)
  BY <1>2, <1>3, Attempt DEF OnTheWay
<1> HIDE DEF t
<1>9. PerOK(opt, q) /\ q.st = "gone" /\ q.result = Verdict(t, e) /\ Verdict(t, e) # "none"
  BY <1>2, <1>8, OverGone
<1> HIDE DEF q
<1>10. (Failed(q) <=> bad) /\ q.result # "none"
  BY <1>9 DEF Failed
\* the next one is created unless the tool bails out
<1>11. (\A y \in Urls : PerOK(opt, per[y])) /\ ListOK /\ ListOf(transfers, per)
  BY <1>2 DEF OnTheWay, ListOK
<1>12. /\ DOMAIN CreatedIn(per) = Urls
       /\ \A y \in Urls : PerOK(opt, CreatedIn(per)[y]) /\ NewOrSame(per[y], CreatedIn(per)[y])
       /\ ListOf(ListWithCreated, CreatedIn(per))
       /\ \A i \in 1..Len(transfers) : ListWithCreated[i] = transfers[i]
       /\ More => Len(ListWithCreated) = Len(transfers) + 1
       /\ ~More => ListWithCreated = transfers /\ CreatedIn(per) = per
  BY <1>2, <1>11, Creation
<1>13. /\ DOMAIN p = Urls /\ ListOf(s, p)
       /\ \A y \in Urls : PerOK(opt, p[y]) /\ NewOrSame(per[y], p[y])
  <2>1. CASE bail
    BY <2>1, <1>2, <1>11 DEF NewOrSame
  <2>2. CASE ~bail
    BY <2>2, <1>12
  <2> QED
    BY <2>1, <2>2
<1>14. s[1] = x /\ Len(s) \in {1, 2} /\ (~bail => (Len(s) = 2 <=> More))
  <2>1. CASE bail
    BY <2>1, <1>3
  <2>2. CASE ~bail
    <3>1. s = ListWithCreated
      BY <2>2
    <3>2. 1 \in 1..Len(transfers) /\ Len(transfers) + 1 = 2
      BY <1>3
    <3> HIDE DEF s, p
    <3>3. s[1] = transfers[1] /\ (More => Len(s) = 2) /\ (~More => Len(s) = 1)
      BY <3>1, <3>2, <1>3, <1>12
    <3> QED
      BY <3>3, <1>3
  <2> QED
    BY <2>1, <2>2
<1> HIDE DEF s, p, bad, bail
<1>15. s # <<>> /\ NoTwice(s)
  BY <1>13, <1>14, EmptySeq DEF ListOf
<1>16. /\ Head(s) = x /\ NoTwice(Tail(s)) /\ Len(Tail(s)) = Len(s) - 1
       /\ \A y : In(y, Tail(s)) <=> In(y, s) /\ y # x
  BY <1>14, <1>15, TailOfList
<1>17. p[x] = per[x]
  BY <1>3, <1>13, NewKeeps
<1>18. DOMAIN per' = Urls /\ per'[x] = q /\ \A y \in Urls : y # x => per'[y] = p[y]
  BY <1>3, <1>5, <1>13
<1>19. (\A y \in Urls : PerOK(opt, per[y]))'
  <2>1. \A y \in Urls : PerOK(opt, per'[y])
    <3> TAKE y \in Urls
    <3>1. CASE y = x
      BY <3>1, <1>9, <1>18
    <3>2. CASE y # x
      BY <3>2, <1>13, <1>18
    <3> QED
      BY <3>1, <3>2
  <2> QED
    BY <2>1, <1>7
<1>20. ListOK'
  <2>1. \A y \in Urls : per'[y].st \in Listed <=> In(y, Tail(s))
    <3> TAKE y \in Urls
    <3>1. CASE y = x
      BY <3>1, <1>9, <1>16, <1>18 DEF Listed
    <3>2. CASE y # x
      BY <3>2, <1>13, <1>16, <1>18 DEF ListOf
    <3> QED
      BY <3>1, <3>2
  <2> QED
    BY <2>1, <1>5, <1>16 DEF ListOK, ListOf
<1>21. \A y \in Urls : y # x =>
         /\ per'[y].st \notin {"running", "done"} /\ per'[y].result = per[y].result
         /\ Failed(per'[y]) <=> Failed(per[y])
  <2>1. \A y \in Urls : per[y].st \notin {"running", "done"}
    BY <1>1, <1>2 DEF OnTheWay, SerialOK
  <2> QED
    BY <2>1, <1>13, <1>18, NewKeeps
<1>22. \A y \in Urls : per'[y].st \notin {"running", "done"}
  BY <1>9, <1>18, <1>21
<1>23. MessagesOK'
  <2>1. MessagesOf(opt, <<>>, per')
    BY <1>22, EmptyMessages
  <2> QED
    BY <2>1, <1>1, <1>3, <1>7 DEF MessagesOK
<1>24. tool.check = 0 /\ (opt.failEarly => tool.exit = 0)
  BY <1>1, <1>2, <1>3 DEF OnTheWay, SerialOK
<1>25. opt.failEarly => \A y \in Urls : ~Failed(per[y])
  BY <1>2, <1>24 DEF OnTheWay, ExitOK
<1>26. ~tool.wrapitup
  BY <1>2, <1>24 DEF OnTheWay, WrapOK
<1>27. ExitOK'
  <2>1. tool'.exit \in 0..UrlCount /\ tool'.check \in 0..UrlCount
    BY <1>2, <1>3, <1>6, <1>24 DEF Urls
  <2>2. tool'.exit # 0 => Failed(per'[tool'.exit])
    BY <1>6, <1>10, <1>18 DEF code
  <2>3. opt.failEarly /\ (\E y \in Urls : Failed(per'[y])) => tool'.exit # 0
    <3>1. x # 0
      BY <1>2, <1>3 DEF Urls
    <3> QED
      BY <3>1, <1>6, <1>10, <1>18, <1>21, <1>25
  <2> QED
    BY <2>1, <2>2, <2>3, <1>3, <1>6, <1>7, <1>24 DEF ExitOK
<1>28. WrapOK'
  BY <1>6, <1>26 DEF WrapOK
<1>29. SerialOK'
  <2>1. ASSUME after = "serial" PROVE Len(transfers') = 1 /\ (opt.failEarly => code = 0)
    <3>1. ~bail /\ Tail(s) # <<>>
      BY <2>1
    <3>2. Len(Tail(s)) # 0
      BY <3>1, <1>16, EmptySeq DEF NoTwice
    <3>3. Len(Tail(s)) = 1
      BY <3>2, <1>14, <1>16
    <3>4. opt.failEarly => ~bad
      BY <3>1 DEF bail
    <3> QED
      BY <3>3, <3>4, <1>5
  <2>2. after \in {"serial", "cleanup"}
    OBVIOUS
  <2> HIDE DEF after, code
  <2> QED
    BY <2>1, <2>2, <1>3, <1>6, <1>7, <1>22, <1>24 DEF SerialOK
<1>30. ParallelOK'
  <2>1. after \in {"serial", "cleanup"}
    OBVIOUS
  <2> QED
    BY <2>1, <1>3, <1>6, <1>7 DEF ParallelOK
<1>31. CleanupOK'
  <2>1. ASSUME after = "cleanup", NEW y \in Urls, Idle(per'[y]) PROVE opt.failEarly /\ tool'.exit # 0
    <3>1. CASE bail
      <4>1. x # 0 /\ bad /\ opt.failEarly
        BY <3>1, <1>2, <1>3 DEF Urls, bail
      <4> QED
        BY <4>1, <1>6
    <3>2. CASE ~bail
      <4>1. Tail(s) = <<>>
        BY <2>1, <3>2
      <4>2. Len(Tail(s)) = 0
        BY <4>1, EmptySeq
      <4>3. ~More
        BY <3>2, <4>2, <1>14, <1>16
      <4>4. y # x
        BY <2>1, <1>9, <1>18 DEF Idle
      <4>5. per[y].st # "none"
        BY <4>3 DEF More
      <4>6. per'[y] = per[y]
        BY <4>4, <4>5, <1>13, <1>18, NewKeeps
      <4>7. per[y].st = "ready"
        BY <2>1, <4>5, <4>6 DEF Idle
      <4>8. In(y, Tail(s))
        BY <4>6, <4>7, <1>5, <1>20 DEF ListOK, ListOf, Listed
      <4> QED
        BY <4>1, <4>8, EmptyList
    <3> QED
      BY <3>1, <3>2
  <2> QED
    BY <2>1, <1>6, <1>7, <1>22, <1>24 DEF CleanupOK
<1>32. OnTheWay'
  BY <1>19, <1>20, <1>23, <1>27, <1>28, <1>29, <1>30, <1>31 DEF OnTheWay
<1>33. tool'.phase \in Phases /\ tool'.phase # "ended"
  BY <1>6 DEF Phases
<1> QED
  BY <1>2, <1>6, <1>7, <1>18, <1>32, <1>33 DEF ToolInv

\* of a message either the transfer is tried again or it is over; it was done
LEMMA MessageRead ==
  ASSUME ToolConstants, ToolInv, tool.phase = "check", messages # <<>>, NEW x, x = Head(messages).x,
         NEW q, PerOK(opt, q), q.st \in {"ready", "gone"}, per' = [per EXCEPT ![x] = q], opt' = opt,
         tool'.phase = "check", messages' = Tail(messages)
  PROVE  /\ x \in Urls /\ per[x].st = "done" /\ DOMAIN per' = Urls /\ per'[x] = q
         /\ \A y \in Urls : y # x => per'[y] = per[y]
         /\ (\A y \in Urls : PerOK(opt, per[y]))' /\ MessagesOK'
         /\ Cardinality(Added(per')) <= Cardinality(Added(per))
<1>1. OnTheWay /\ DOMAIN per = Urls /\ UrlCount \in Nat \ {0}
  BY Before
<1>2. MessagesOf(opt, messages, per)
  BY <1>1 DEF OnTheWay, MessagesOK
<1>3. x \in Urls /\ per[x].st = "done"
  BY <1>2, HeadMessage
<1>4. DOMAIN per' = Urls /\ per'[x] = q /\ \A y \in Urls : y # x => per'[y] = per[y]
  BY <1>1, <1>3
<1>5. (\A y \in Urls : PerOK(opt, per[y]))'
  <2>1. \A y \in Urls : PerOK(opt, per'[y])
    <3> TAKE y \in Urls
    <3>1. CASE y = x
      BY <3>1, <1>4
    <3>2. CASE y # x
      BY <3>2, <1>1, <1>4 DEF OnTheWay
    <3> QED
      BY <3>1, <3>2
  <2> QED
    BY <2>1
<1>6. MessagesOK'
  <2>1. MessagesOf(opt, Tail(messages), [per EXCEPT ![Head(messages).x] = q])
    BY <1>1, <1>2, TailOfMessages
  <2>2. MessagesOf(opt', messages', per')
    BY <2>1
  <2> QED
    BY <2>2 DEF MessagesOK
<1>7. Added(per') \subseteq Added(per)
  <2>1. \A y \in Urls : per'[y].st \in {"running", "done"} => per[y].st \in {"running", "done"}
    BY <1>3, <1>4
  <2> QED
    BY <2>1 DEF Added
<1>8. Cardinality(Added(per')) <= Cardinality(Added(per))
  BY <1>1, <1>7, NoMoreAdded
<1> QED
  BY <1>3, <1>4, <1>5, <1>6, <1>8

LEMMA CheckFinishedOK == ASSUME ToolConstants, ToolInv, CheckFinished PROVE ToolInv'
<1> DEFINE x == Head(messages).x
           e == Head(messages).end
           bad == Verdict(per[x], e) # "ok" /\ (~per[x].abort \/ tool.check = 0)
<1>1. tool.phase = "check" /\ messages # <<>> /\ messages' = Tail(messages)
  BY DEF CheckFinished
<1>2. /\ OnTheWay /\ DOMAIN tool = ToolFields /\ opt \in ToolOptions /\ DOMAIN per = Urls
      /\ UrlCount \in Nat \ {0} /\ opt.retries \in Nat /\ opt.max \in Nat \ {0}
      /\ Cardinality(Added(per)) \in Nat
      /\ \A y \in Urls : per[y].result = "none" <=> per[y].st # "gone"
  BY <1>1, Before
<1>3. x \in Urls /\ per[x].st = "done" /\ Ended(opt, per[x], e)
  BY <1>1, <1>2, HeadMessage DEF OnTheWay, MessagesOK
<1>4. DOMAIN per[x] = PerFields /\ per[x].open \in BOOLEAN
  BY <1>2, <1>3 DEF OnTheWay, PerOK
<1>5. per[x].result = "none"
  BY <1>2, <1>3
<1>6. NoTwice(transfers) /\ \A y \in Urls : per[y].st \in Listed <=> In(y, transfers)
  BY <1>2 DEF OnTheWay, ListOK, ListOf
<1>7. opt.parallel /\ Cardinality(Added(per)) <= opt.max
  BY <1>1, <1>2 DEF OnTheWay, SerialOK, ParallelOK
<1>8. (tool.exit # 0 => tool.exit \in Urls) /\ (tool.check # 0 => tool.check \in Urls)
  BY <1>2 DEF OnTheWay, ExitOK, Urls
<1>9. \A y \in Urls : Failed(per[y]) => y # x
  BY <1>5 DEF Failed
<1>10. CASE Retries(per[x], e)
  <2> DEFINE q == Again(per[x], e)
  <2>1. /\ per' = [per EXCEPT ![x] = Again(@, e)] /\ UNCHANGED transfers
        /\ tool' = [tool EXCEPT !.resumeFrom = RewoundResumeFrom(per[x], e)]
    BY <1>10 DEF CheckFinished
  <2>2. per' = [per EXCEPT ![x] = q]
    BY <2>1, <1>2, <1>3
  <2>3. /\ DOMAIN tool' = ToolFields /\ tool'.phase = "check" /\ tool'.o = tool.o
        /\ tool'.exit = tool.exit /\ tool'.check = tool.check /\ tool'.wrapitup = tool.wrapitup
    BY <2>1, <1>1, <1>2 DEF ToolFields
  <2>4. opt' = opt
    BY <2>3 DEF opt
  <2>5. per[x].left > 0
    BY <1>10 DEF Retries, Checked
  <2>6. PerOK(opt, q) /\ q.st = "ready" /\ q.result = "none"
    BY <2>5, <1>2, <1>3, <1>4, AgainBegins
  <2> HIDE DEF q
  <2>7. /\ DOMAIN per' = Urls /\ per'[x] = q
        /\ \A y \in Urls : y # x => per'[y] = per[y]
        /\ (\A y \in Urls : PerOK(opt, per[y]))' /\ MessagesOK'
        /\ Cardinality(Added(per')) <= Cardinality(Added(per))
    BY <2>2, <2>3, <2>4, <2>6, <1>1, MessageRead
  <2>8. \A y \in Urls : (per'[y].st \in Listed <=> per[y].st \in Listed) /\ per'[y].result = per[y].result
    BY <2>6, <2>7, <1>3, <1>5 DEF Listed
  <2>9. ListOK'
    BY <2>1, <2>8, <1>6 DEF ListOK, ListOf
  <2>10. ExitOK'
    <3>1. \A y \in Urls : Failed(per'[y]) <=> Failed(per[y])
      BY <2>8 DEF Failed
    <3> QED
      BY <3>1, <2>3, <2>4, <1>2, <1>8 DEF OnTheWay, ExitOK
  <2>11. WrapOK'
    BY <2>3, <2>4, <1>2 DEF OnTheWay, WrapOK
  <2>12. SerialOK'
    BY <2>3, <2>4, <1>7 DEF SerialOK
  <2>13. ParallelOK'
    <3>1. Cardinality(Added(per')) \in Nat
      BY <1>2, AddedCount
    <3>2. Cardinality(Added(per')) <= opt.max
      BY <3>1, <2>7, <1>2, <1>7
    <3> QED
      BY <3>2, <2>3, <2>4 DEF ParallelOK
  <2>14. CleanupOK'
    BY <2>3 DEF CleanupOK
  <2>15. OnTheWay'
    BY <2>7, <2>9, <2>10, <2>11, <2>12, <2>13, <2>14 DEF OnTheWay
  <2> QED
    BY <2>3, <2>4, <2>7, <2>15, <1>2 DEF ToolInv, Phases
<1>11. CASE ~Retries(per[x], e)
  <2> DEFINE q == Over(per[x], e)
             c == IF bad THEN x ELSE tool.check
             w == tool.wrapitup \/ (opt.failEarly /\ (bad \/ tool.check # 0))
  <2>1. /\ per' = [per EXCEPT ![x] = Over(@, e)] /\ transfers' = Deleted(x)
        /\ tool' = [tool EXCEPT !.check = c, !.wrapitup = w]
    BY <1>11 DEF CheckFinished
  <2>2. per' = [per EXCEPT ![x] = q]
    BY <2>1, <1>2, <1>3
  <2>3. w \in BOOLEAN
    OBVIOUS
  <2> HIDE DEF c, w
  <2>4. /\ DOMAIN tool' = ToolFields /\ tool'.phase = "check" /\ tool'.o = tool.o
        /\ tool'.exit = tool.exit /\ tool'.check = c /\ tool'.wrapitup = w
    BY <2>1, <1>1, <1>2 DEF ToolFields
  <2>5. opt' = opt
    BY <2>4 DEF opt
  <2>6. PerOK(opt, q) /\ q.st = "gone" /\ q.result = Verdict(per[x], e) /\ Verdict(per[x], e) # "none"
    BY <1>2, <1>3, OverGone
  <2> HIDE DEF q
  <2>7. /\ DOMAIN per' = Urls /\ per'[x] = q
        /\ \A y \in Urls : y # x => per'[y] = per[y]
        /\ (\A y \in Urls : PerOK(opt, per[y]))' /\ MessagesOK'
        /\ Cardinality(Added(per')) <= Cardinality(Added(per))
    BY <2>2, <2>4, <2>5, <2>6, <1>1, MessageRead
  <2>8. ListOK'
    <3>1. In(x, transfers)
      BY <1>3, <1>6 DEF Listed
    <3>2. NoTwice(Deleted(x)) /\ \A y : In(y, Deleted(x)) <=> In(y, transfers) /\ y # x
      BY <3>1, <1>6, DeletedOfList
    <3>3. \A y \in Urls : per'[y].st \in Listed <=> In(y, Deleted(x))
      <4> TAKE y \in Urls
      <4>1. CASE y = x
        BY <4>1, <3>2, <2>6, <2>7 DEF Listed
      <4>2. CASE y # x
        BY <4>2, <3>2, <2>7, <1>6
      <4> QED
        BY <4>1, <4>2
    <3> QED
      BY <3>2, <3>3, <2>1 DEF ListOK, ListOf
  <2>9. Failed(q) <=> Verdict(per[x], e) # "ok"
    BY <2>6 DEF Failed
  <2>10. x # 0 /\ x \in 0..UrlCount
    BY <1>2, <1>3 DEF Urls
  <2>11. /\ tool.exit \in 0..UrlCount /\ tool.check \in 0..UrlCount
         /\ tool.exit # 0 => Failed(per[tool.exit])
         /\ tool.check # 0 => Failed(per[tool.check])
         /\ (\E y \in Urls : Failed(per[y])) => tool.exit # 0 \/ tool.check # 0
    BY <1>2, <1>7 DEF OnTheWay, ExitOK
  <2>12. Failed(q) => c # 0
    BY <2>9, <2>10 DEF c
  <2>13. tool.check # 0 => c # 0
    BY <2>10 DEF c
  <2>14. ExitOK'
    <3>1. tool'.exit # 0 => Failed(per'[tool'.exit])
      BY <2>4, <2>7, <2>11, <1>8, <1>9
    <3>2. tool'.check # 0 => Failed(per'[tool'.check])
      <4>1. CASE bad
        BY <4>1, <2>4, <2>7, <2>9 DEF c
      <4>2. CASE ~bad
        BY <4>2, <2>4, <2>7, <2>11, <1>8, <1>9 DEF c
      <4> QED
        BY <4>1, <4>2
    <3>3. c \in 0..UrlCount
      BY <2>10, <2>11 DEF c
    <3>4. (\E y \in Urls : Failed(per'[y])) => tool'.exit # 0 \/ tool'.check # 0
      <4>1. ASSUME NEW y \in Urls, Failed(per'[y]) PROVE tool.exit # 0 \/ c # 0
        <5>1. CASE y = x
          BY <5>1, <4>1, <2>7, <2>12
        <5>2. CASE y # x
          BY <5>2, <4>1, <2>7, <2>11, <2>13
        <5> QED
          BY <5>1, <5>2
      <4> QED
        BY <4>1, <2>4
    <3> QED
      BY <3>1, <3>2, <3>3, <3>4, <2>4, <2>11 DEF ExitOK
  <2>15. WrapOK'
    <3>1. w => opt.failEarly /\ (tool.exit # 0 \/ c # 0)
      <4>1. bad => c # 0
        BY <2>10 DEF c
      <4> QED
        BY <4>1, <2>13, <1>2 DEF w, OnTheWay, WrapOK
    <3> QED
      BY <3>1, <2>4, <2>5 DEF WrapOK
  <2>16. SerialOK'
    BY <2>4, <2>5, <1>7 DEF SerialOK
  <2>17. ParallelOK'
    <3>1. Cardinality(Added(per')) \in Nat
      BY <1>2, AddedCount
    <3>2. Cardinality(Added(per')) <= opt.max
      BY <3>1, <2>7, <1>2, <1>7
    <3> QED
      BY <3>2, <2>4, <2>5 DEF ParallelOK
  <2>18. CleanupOK'
    BY <2>4 DEF CleanupOK
  <2>19. OnTheWay'
    BY <2>7, <2>8, <2>14, <2>15, <2>16, <2>17, <2>18 DEF OnTheWay
  <2> QED
    BY <2>4, <2>5, <2>7, <2>19, <1>2 DEF ToolInv, Phases
<1> QED
  BY <1>10, <1>11

-----------------------------------------------------------------------------
(* What is promised. *)

LEMMA FilesHold ==
  ASSUME ToolConstants, ToolInv, tool.phase # "ended", NEW x \in Urls
  PROVE  /\ per[x].file \in Starts \cup {Page}
         /\ per[x].result = "ok" => Whole(per[x].file, per[x].end.code, per[x].end.status)
         /\ per[x].tries \in Nat /\ per[x].tries <= 1 + opt.retries
<1>1. /\ OnTheWay /\ opt.retries \in Nat
      /\ per[x].st \in Listed \cup {"none", "gone"} /\ (per[x].result = "none" <=> per[x].st # "gone")
  BY Before
<1>2. PerOK(opt, per[x])
  BY <1>1 DEF OnTheWay
<1>3. BodySize \in Nat
  BY DEF ToolConstants
<1>4. CASE per[x].st = "gone"
  BY <1>2, <1>4 DEF PerOK, Gone
<1>5. CASE per[x].st = "none"
  <2>1. Fresh(opt, per[x])
    BY <1>2, <1>5 DEF PerOK
  <2> QED
    BY <2>1, <1>1 DEF Fresh, Starts
<1>6. CASE per[x].st \in {"ready", "running"}
  <2>1. Begins(opt, per[x])
    BY <1>2, <1>6 DEF PerOK
  <2> QED
    BY <2>1, <1>1 DEF Begins, Starts
<1>7. CASE per[x].st = "done"
  <2>1. MessagesOf(opt, messages, per)
    BY <1>1 DEF OnTheWay, MessagesOK
  <2>2. PICK i \in 1..Len(messages) : messages[i].x = x /\ Ended(opt, per[messages[i].x], messages[i].end)
    BY <1>7, <2>1 DEF MessagesOf, About
  <2>3. Ended(opt, per[x], messages[i].end)
    BY <2>2
  <2>4. per[x].file \in Starts \cup {Page}
    <3>1. CASE per[x].file = Page
      BY <3>1
    <3>2. CASE per[x].init + per[x].bytes <= BodySize /\ per[x].file = Bytes(1, per[x].init + per[x].bytes)
      <4>1. per[x].init + per[x].bytes \in 0..BodySize
        BY <3>2, <2>3, <1>3 DEF Ended
      <4> QED
        BY <3>2, <4>1 DEF Starts
    <3> QED
      BY <3>1, <3>2, <2>3 DEF Ended
  <2>5. per[x].tries \in Nat /\ per[x].left \in Nat /\ per[x].tries + per[x].left = 1 + opt.retries
    BY <2>3 DEF Ended
  <2>6. per[x].tries <= 1 + opt.retries
    BY <2>5, <1>1
  <2> QED
    BY <2>4, <2>5, <2>6, <1>1, <1>7
<1> QED
  BY <1>1, <1>4, <1>5, <1>6, <1>7 DEF Listed

LEMMA ToolInvRight == ASSUME ToolConstants, ToolInv PROVE ToolRight
<1>1. CASE tool.phase = "ended"
  BY <1>1 DEF ToolInv
<1>2. CASE tool.phase # "ended"
  <2>1. FilesRight
    BY <1>2, FilesHold DEF FilesRight, Starts, Whole
  <2>2. AttemptsBounded
    <3>1. opt.parallel => Cardinality(Added(per)) <= opt.max
      BY <1>2, Before DEF OnTheWay, ParallelOK
    <3> QED
      BY <3>1, <1>2, FilesHold DEF AttemptsBounded
  <2>3. ExitRight
    BY <1>2 DEF ExitRight
  <2> QED
    BY <2>1, <2>2, <2>3 DEF ToolRight
<1> QED
  BY <1>1, <1>2

LEMMA CleanupStep == ASSUME ToolConstants, ToolInv, Cleanup PROVE ToolInv'
<1> DEFINE listed(x) == ~\A i \in DOMAIN transfers : transfers[i] # x
           file(x) == IF tool.exit = 0 /\ ~per[x].open /\ per[x].bytes = 0 THEN <<>> ELSE per[x].file
<1>1. tool.phase = "cleanup" /\ tool.phase # "ended"
  BY DEF Cleanup
<1>2. /\ OnTheWay /\ DOMAIN tool = ToolFields /\ opt \in ToolOptions /\ DOMAIN per = Urls
      /\ UrlCount \in Nat \ {0} /\ opt.max \in Nat \ {0}
      /\ \A x \in Urls : per[x].st \in Listed \cup {"none", "gone"}
      /\ \A x \in Urls : per[x].result = "none" <=> per[x].st # "gone"
  BY <1>1, Before
<1>3. DOMAIN tool' = ToolFields /\ tool'.phase = "ended" /\ tool'.o = tool.o /\ tool'.exit = tool.exit
  BY <1>2 DEF Cleanup, ToolFields
<1>4. opt' = opt
  BY <1>3 DEF opt
<1>5. \A x \in Urls : DOMAIN per[x] = PerFields
  BY <1>2 DEF OnTheWay, PerOK
<1>6. DOMAIN per' = Urls /\ \A x \in Urls :
        per'[x] = IF listed(x) THEN [per[x] EXCEPT !.st = "gone", !.file = file(x)] ELSE per[x]
  BY DEF Cleanup
<1>7. /\ \A x \in Urls : per[x].st \notin {"running", "done"}
      /\ tool.check = 0
      /\ (\E x \in Urls : Idle(per[x])) => opt.failEarly /\ tool.exit # 0
  BY <1>1, <1>2 DEF OnTheWay, CleanupOK
<1>8. \A x \in Urls : listed(x) <=> per[x].st = "ready"
  <2>1. NoTwice(transfers) /\ \A x \in Urls : per[x].st \in Listed <=> In(x, transfers)
    BY <1>2 DEF OnTheWay, ListOK, ListOf
  <2>2. DOMAIN transfers = 1..Len(transfers)
    BY <2>1, LenProperties DEF NoTwice
  <2>3. \A x \in Urls : listed(x) <=> In(x, transfers)
    BY <2>2 DEF In
  <2> HIDE DEF listed
  <2> QED
    BY <2>1, <2>3, <1>2, <1>7 DEF Listed
<1>9. \A x \in Urls : file(x) \in {per[x].file, <<>>}
  OBVIOUS
<1> HIDE DEF listed, file
<1>10. \A x \in Urls :
         /\ per'[x].result = per[x].result /\ per'[x].tries = per[x].tries /\ per'[x].end = per[x].end
         /\ per'[x].took = per[x].took
         /\ per'[x].st \in {"none", "gone"} /\ per'[x].file \in {per[x].file, <<>>}
         /\ per[x].st = "gone" => per'[x].file = per[x].file
  <2> TAKE x \in Urls
  <2>1. CASE listed(x)
    BY <2>1, <1>5, <1>6, <1>8, <1>9 DEF PerFields
  <2>2. CASE ~listed(x)
    BY <2>2, <1>2, <1>6, <1>7, <1>8 DEF Listed
  <2> QED
    BY <2>1, <2>2
<1>11. <<>> \in Starts
  BY NoBytes DEF Starts, ToolConstants
<1>12. FilesRight'
  <2>1. ASSUME NEW x \in Urls
        PROVE  /\ per'[x].file \in Starts \cup {Page}
               /\ per'[x].result = "ok" => Whole(per'[x].file, per'[x].end.code, per'[x].end.status)
    BY <1>1, <1>2, <1>10, <1>11, FilesHold
  <2> QED
    BY <2>1 DEF FilesRight, Starts, Whole
<1>13. AttemptsBounded'
  <2>1. \A x \in Urls : per'[x].tries <= 1 + opt.retries
    BY <1>1, <1>10, FilesHold
  <2>2. Cardinality(Added(per')) = 0
    BY <1>10, NoneAdded
  <2> QED
    BY <2>1, <2>2, <1>2, <1>4 DEF AttemptsBounded
<1>13a. \A x \in Urls : Failed(per[x]) <=> Judged(per'[x]) /\ Unsuccessful(opt, per'[x]) /\ ~Overlooked(opt, per'[x])
  <2> TAKE x \in Urls
  <2>1. Unsuccessful(opt, per'[x]) <=> Unsuccessful(opt, per[x])
    BY <1>10 DEF Unsuccessful
  <2>2. Overlooked(opt, per'[x]) <=> Overlooked(opt, per[x])
    BY <1>10 DEF Overlooked
  <2>3. per[x].result # "none" => Gone(opt, per[x])
    BY <1>2 DEF OnTheWay, PerOK
  <2> QED
    BY <2>1, <2>2, <2>3, <1>10 DEF Gone, Failed, Judged
<1>14. ExitRight'
  <2>1. \A x \in Urls : per'[x].st \notin {"running", "done"}
    BY <1>10
  <2>2. (\E x \in Urls : ~Judged(per'[x])) => opt.failEarly /\ tool.exit # 0
    <3>1. ASSUME NEW x \in Urls, ~Judged(per'[x]) PROVE Idle(per[x])
      BY <3>1, <1>2, <1>7, <1>10 DEF Idle, Listed, Judged
    <3> QED
      BY <3>1, <1>7
  <2>3. tool.exit # 0 => tool.exit \in Urls /\ Failed(per[tool.exit])
    BY <1>2 DEF OnTheWay, ExitOK, Urls
  <2>4. opt.parallel \/ opt.failEarly =>
          (tool.exit = 0 <=>
             \A x \in Urls : Judged(per'[x]) /\ Unsuccessful(opt, per'[x]) => Overlooked(opt, per'[x]))
    <3>1. opt.parallel \/ opt.failEarly => ((\E x \in Urls : Failed(per[x])) => tool.exit # 0)
      BY <1>2, <1>7 DEF OnTheWay, ExitOK
    <3> QED
      BY <3>1, <2>3, <1>13a
  <2>5. tool.exit # 0 =>
          /\ Judged(per'[tool.exit]) /\ Unsuccessful(opt, per'[tool.exit]) /\ ~Overlooked(opt, per'[tool.exit])
    BY <2>3, <1>13a
  <2> QED
    BY <2>1, <2>2, <2>4, <2>5, <1>3, <1>4 DEF ExitRight
<1>15. ToolRight'
  BY <1>12, <1>13, <1>14 DEF ToolRight
<1> QED
  BY <1>2, <1>3, <1>4, <1>6, <1>15 DEF ToolInv, Phases

LEMMA StepOK == ASSUME ToolConstants, ToolInv, [Next]_toolVars PROVE ToolInv'
<1>1. CASE SerialStart
  BY <1>1, SerialStartOK
<1>2. CASE SerialRetry
  BY <1>2, SerialRetryOK
<1>3. CASE SerialNext
  BY <1>3, SerialNextOK
<1>4. CASE ParallelStart
  BY <1>4, ParallelStartOK
<1>5. CASE PassBy
  BY <1>5, PassByOK
<1>6. CASE AddTransfer
  BY <1>6, AddTransferOK
<1>7. CASE Adding
  BY <1>7, AddingOK
<1>8. CASE Turn
  BY <1>8, TurnOK
<1>9. CASE \E x \in Urls : Finish(x)
  BY <1>9, FinishOK
<1>10. CASE Perform
  BY <1>10, PerformOK
<1>11. CASE PollInVain
  BY <1>11, PollInVainOK
<1>12. CASE CheckFinished
  BY <1>12, CheckFinishedOK
<1>13. CASE AllRead
  BY <1>13, AllReadOK
<1>14. CASE LoopEnds
  BY <1>14, LoopEndsOK
<1>15. CASE Cleanup
  BY <1>15, CleanupStep
<1>16. CASE Tick
  BY <1>16, TickOK
<1>17. CASE UNCHANGED toolVars
  <2>1. UNCHANGED <<tool, transfers, per, messages>>
    BY <1>17 DEF toolVars
  <2>2. Running' = Running /\ Added(per)' = Added(per) /\ opt' = opt
    BY <2>1 DEF Running, Added, opt
  <2>3. ToolRight' <=> ToolRight
    BY <2>1, <2>2 DEF ToolRight, FilesRight, AttemptsBounded, ExitRight
  <2>4. OnTheWay' <=> OnTheWay
    <3>1. ListOK' <=> ListOK
      BY <2>1 DEF ListOK
    <3>2. MessagesOK' <=> MessagesOK
      BY <2>1, <2>2 DEF MessagesOK
    <3>3. (ExitOK' <=> ExitOK) /\ (WrapOK' <=> WrapOK)
      BY <2>1, <2>2 DEF ExitOK, WrapOK
    <3>4. SerialOK' <=> SerialOK
      BY <2>1, <2>2 DEF SerialOK
    <3>5. ParallelOK' <=> ParallelOK
      BY <2>1, <2>2 DEF ParallelOK
    <3>6. CleanupOK' <=> CleanupOK
      BY <2>1, <2>2 DEF CleanupOK
    <3> QED
      BY <3>1, <3>2, <3>3, <3>4, <3>5, <3>6, <2>1, <2>2 DEF OnTheWay
  <2> QED
    BY <2>1, <2>2, <2>3, <2>4 DEF ToolInv
<1> QED
  BY <1>1, <1>2, <1>3, <1>4, <1>5, <1>6, <1>7, <1>8, <1>9, <1>10, <1>11, <1>12, <1>13, <1>14, <1>15, <1>16, <1>17
     DEF Next, ToolRuns

\* However often transfers are retried, in whatever order they end and whenever the
\* tool wraps up (post_per_transfer, parallel_transfers, serial_transfers): files hold
\* the body's bytes once and in order, no transfer is tried or runs beyond what the
\* options allow, and the exit code tells of a failure.
THEOREM ToolStaysRight == ASSUME ToolConstants PROVE Spec => []ToolRight
<1>1. Init => ToolInv
  BY InitOK
<1>2. ToolInv /\ [Next]_toolVars => ToolInv'
  BY StepOK
<1>3. ToolInv => ToolRight
  BY ToolInvRight
<1> QED
  BY <1>1, <1>2, <1>3, PTL DEF Spec
=============================================================================
