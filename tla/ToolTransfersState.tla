-------------------------- MODULE ToolTransfersState --------------------------
(***************************************************************************)
(* The transfers of one command line of the curl tool                      *)
(* (src/tool_operate.c): their state, and what is promised of them.        *)
(* ToolTransfers has the steps.                                            *)
(***************************************************************************)
EXTENDS Naturals, Sequences, FiniteSets

CONSTANTS
  UrlCount,     \* the URLs of the command line
  BodySize,     \* the length of each body
  ToolOptions,  \* the sets of options to run with
  SleepMax,     \* RETRY_SLEEP_MAX in seconds
  ToolTime      \* bound: the clock stops there

\* options: parallel, max (--parallel-max), failEarly, retries, allErrors, fail ("no", "yes",
\* "body"), short (--retry-delay below a second), retryAfter (seconds in the server's header, 0
\* for none), maxTime (0 for none), resume (-C -), ranges (the server knows ranges)
ToolConstants ==
  /\ UrlCount \in Nat \ {0} /\ BodySize \in Nat \ {0} /\ SleepMax \in Nat \ {0} /\ ToolTime \in Nat
  /\ \A o \in ToolOptions : o.max \in Nat \ {0} /\ o.retries \in Nat /\ o.fail \in {"no", "yes", "body"}

VARIABLES
  tool,      \* [o, phase, clock, resumeFrom, exit, check, wrapitup, aborted, still, more, sleeping, at]
  transfers, \* the list of created transfers that were not deleted
  per,       \* struct per_transfer of each URL
  messages   \* the multi handle's messages: [x, end]

toolVars == <<tool, transfers, per, messages>>

Urls == 1..UrlCount
Bytes(i, j) == [n \in 1..(j + 1 - i) |-> i + n - 1]
Body == Bytes(1, BodySize)
Page == <<0>>

opt == tool.o
Added(p) == {x \in Urls : p[x].st \in {"running", "done"}}

\* A file never holds bytes twice, with a gap, or after an error page; a success
\* leaves the whole body in it, however often the transfer was retried.
FilesRight ==
  \A x \in Urls :
    /\ per[x].file \in {Bytes(1, k) : k \in 0..BodySize} \cup {Page}
    /\ per[x].result = "ok" /\ per[x].end.code = "ok" /\ per[x].end.status < 400 => per[x].file = Body

\* No more attempts than --retry allows, no more at once than --parallel-max.
AttemptsBounded ==
  /\ \A x \in Urls : per[x].tries <= 1 + opt.retries
  /\ opt.parallel => Cardinality(Added(per)) <= opt.max

\* the last attempt failed, to libcurl (which --fail asks to take an error page for one) or to
\* --fail-with-body
Unsuccessful(o, p) == p.end.code # "ok" \/ (o.fail = "body" /\ p.end.status >= 400)

\* what retrycheck takes for a success: with --fail, an error page whose Retry-After leads beyond
\* --retry-max-time while there are retries left
Overlooked(o, p) ==
  /\ o.fail # "no" /\ p.end.status = 503 /\ p.end.code \in {"ok", "http"}
  /\ p.tries <= o.retries /\ o.retryAfter # 0 /\ o.maxTime # 0
  /\ p.took < o.maxTime /\ p.took + o.retryAfter > o.maxTime
Judged(p) == p.result # "none"

\* The tool ends with every transfer done and, in parallel, with an exit code that
\* tells whether one failed; with --fail-early it may leave some out only if it
\* tells of a failure.  The exception is a failure that retrycheck overlooks.
ExitRight ==
  tool.phase = "ended" =>
    /\ \A x \in Urls : per[x].st \notin {"running", "done"}
    /\ (\E x \in Urls : ~Judged(per[x])) => opt.failEarly /\ tool.exit # 0
    /\ opt.parallel \/ opt.failEarly =>
         (tool.exit = 0 <=> \A x \in Urls : Judged(per[x]) /\ Unsuccessful(opt, per[x]) => Overlooked(opt, per[x]))
    /\ tool.exit # 0 => Judged(per[tool.exit]) /\ Unsuccessful(opt, per[tool.exit]) /\ ~Overlooked(opt, per[tool.exit])

ToolRight == FilesRight /\ AttemptsBounded /\ ExitRight
=============================================================================
