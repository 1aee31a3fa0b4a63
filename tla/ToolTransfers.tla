--------------------------- MODULE ToolTransfers ---------------------------
(***************************************************************************)
(* The transfers of one command line of the curl tool                      *)
(* (src/tool_operate.c): one after the other or in parallel over a multi   *)
(* handle, with --retry, --retry-delay, --retry-max-time, --fail-early and *)
(* "-C -", each to a file of its own.                                      *)
(*                                                                         *)
(* In parallel the tool learns of the end of a transfer only in the        *)
(* notification callback, and there it also starts the next ones.          *)
(* Adding transfers is a step per transfer of the list, as is the reading  *)
(* of messages; a serial transfer with all that follows it is one step.    *)
(* A file's content is the sequence of the body's byte numbers, or the     *)
(* page of an error.  Time is in seconds; libcurl and the servers choose   *)
(* how an attempt ends.                                                    *)
(***************************************************************************)
EXTENDS ToolTransfersState

\* not created yet; on disk there may be the start of the body
Uncreated(file) ==
  [st |-> "none", left |-> 0, tries |-> 0, sleep |-> 0, startat |-> 0, since |-> 0, abort |-> FALSE,
   open |-> FALSE, init |-> 0, bytes |-> 0, resume |-> 0, file |-> file, end |-> [code |-> "none", status |-> 0],
   result |-> "none", took |-> 0]

Init ==
  /\ \E o \in ToolOptions :
       /\ tool = [o |-> o, phase |-> "start", clock |-> 0, resumeFrom |-> 0, exit |-> 0, check |-> 0,
                  wrapitup |-> FALSE, aborted |-> FALSE, still |-> 1, more |-> FALSE, sleeping |-> FALSE, at |-> 1]
       /\ \E k \in IF o.resume THEN 0..BodySize ELSE {0} : per = [x \in Urls |-> Uncreated(Bytes(1, k))]
  /\ transfers = <<>> /\ messages = <<>>

Running == {x \in Urls : per[x].st = "running"}

-----------------------------------------------------------------------------
(* create_transfer with single_transfer and setup_outfile.                 *)

More == \E x \in Urls : per[x].st = "none"
Created(p) == CHOOSE x \in Urls : p[x].st = "none" /\ \A y \in 1..(x - 1) : p[y].st # "none"
Setup(p) ==
  LET n == IF opt.resume THEN Len(p.file) ELSE 0
  IN  [p EXCEPT !.st = "ready", !.left = opt.retries, !.since = tool.clock, !.open = n > 0, !.init = n, !.resume = n]
CreatedIn(p) == IF More THEN [p EXCEPT ![Created(per)] = Setup(@)] ELSE p
ListWithCreated == IF More THEN Append(transfers, Created(per)) ELSE transfers
\* config->resume_from is one for all transfers of the options
ResumeFromCreated == IF More /\ opt.resume THEN Len(per[Created(per)].file) ELSE tool.resumeFrom

-----------------------------------------------------------------------------
(* How an attempt ends: libcurl's result, the response code and what the   *)
(* write callback was given.                                               *)

End(code, status, written) == [code |-> code, status |-> status, written |-> written]

\* before there is a response; other errors without one are "cut" without bytes
NoAnswer == {End("timeout", 0, <<>>)}

\* the whole rest of the body after byte r, a part of it and an error
Body200(status, r) ==
  {End("ok", status, Bytes(r + 1, BodySize))}
    \cup {End(c, status, Bytes(r + 1, k)) : c \in {"timeout", "cut"}, k \in r..BodySize}
    \cup {End("write", status, Bytes(r + 1, k)) : k \in r..(BodySize - 1)}

\* http_firstwrite: a response without a range does for a resumed download only
\* when it is as long as what is there
Unresumed(status) == {End("range", status, <<>>), End("ok", status, <<>>)}

Responses(r) ==
  IF r = 0 THEN Body200(200, 0)
  ELSE IF ~opt.ranges THEN {IF r = BodySize THEN End("ok", 200, <<>>) ELSE End("range", 200, <<>>)}
  ELSE IF r = BodySize THEN {End("ok", 416, <<>>)}
  ELSE Body200(206, r)
Refusals(r) ==
  IF opt.fail = "yes" THEN {End("http", 503, <<>>), End("http", 404, <<>>)}
  ELSE IF r > 0 THEN Unresumed(503)
  ELSE {End("ok", 503, Page), End("ok", 404, Page)}

Ends(x) ==
  NoAnswer \cup Responses(per[x].resume) \cup Refusals(per[x].resume)
    \cup IF per[x].abort THEN {End("aborted", 0, <<>>)} ELSE {}

\* tool_write_cb; tool_create_output_file truncates what is there
Received(p, end) ==
  IF end.written = <<>> THEN p
  ELSE IF p.open THEN [p EXCEPT !.file = @ \o end.written, !.bytes = @ + Len(end.written)]
  ELSE [p EXCEPT !.file = end.written, !.open = TRUE, !.init = 0, !.bytes = Len(end.written)]

-----------------------------------------------------------------------------
(* post_per_transfer and retrycheck.  A failing flush, truncation or close *)
(* of the output file is left out.                                         *)

\* --fail-with-body
Code(end) == IF opt.fail = "body" /\ end.code = "ok" /\ end.status >= 400 THEN "http" ELSE end.code

TransientHttp(end) ==
  end.status = 503 /\ (Code(end) = "ok" \/ (opt.fail # "no" /\ Code(end) = "http"))
Retryable(end) ==
  Code(end) = "timeout" \/ TransientHttp(end) \/ (opt.allErrors /\ Code(end) # "ok")

InTime(p) == opt.maxTime = 0 \/ tool.clock - p.since < opt.maxTime
RetryAfter(end) == IF TransientHttp(end) THEN opt.retryAfter ELSE 0
TooLate(p, end) ==
  RetryAfter(end) # 0 /\ opt.maxTime # 0 /\ tool.clock - p.since + RetryAfter(end) > opt.maxTime
Checked(p, end) == p.left > 0 /\ InTime(p) /\ Retryable(end)
Retries(p, end) == Checked(p, end) /\ ~TooLate(p, end)

\* what post_per_transfer returns; retrycheck returns OK when it says no because of
\* the server's Retry-After
Verdict(p, end) == IF Checked(p, end) /\ TooLate(p, end) THEN "ok" ELSE Code(end)

NextSleep(p, end) ==
  IF RetryAfter(end) # 0 \/ opt.short THEN p.sleep
  ELSE IF p.sleep = 0 THEN 1 ELSE IF 2 * p.sleep > SleepMax THEN SleepMax ELSE 2 * p.sleep
Delay(p, end) == IF RetryAfter(end) # 0 THEN RetryAfter(end) ELSE NextSleep(p, end)

\* is_outfile_auto_resumable, and the response that allows it
Keeps(p, end) ==
  /\ opt.resume /\ p.init = tool.resumeFrom /\ p.bytes > 0 /\ p.open
  /\ Code(end) \notin {"write", "range"}
  /\ (end.status = 206 /\ tool.resumeFrom # 0) \/ (end.status = 200 /\ opt.ranges)

\* Bug variant: what was received stays in the file.
RewoundNothing(p, end) == [p EXCEPT !.bytes = 0]

\* the file before the next attempt: kept and resumed, or cut where this one began
Rewound(p, end) ==
  IF Keeps(p, end)
  THEN [p EXCEPT !.init = @ + p.bytes, !.bytes = 0, !.resume = p.init + p.bytes]
  ELSE [p EXCEPT !.file = IF p.bytes > 0 /\ p.open THEN SubSeq(@, 1, p.init) ELSE @, !.bytes = 0]
RewoundResumeFrom(p, end) == IF Keeps(p, end) THEN p.init + p.bytes ELSE tool.resumeFrom

Again(p, end) ==
  [Rewound(p, end) EXCEPT !.st = "ready", !.left = @ - 1, !.sleep = NextSleep(p, end),
                          !.startat = tool.clock + Delay(p, end)]
\* it is deleted; its file, its last attempt, what was returned of it and the time it took are remembered
Over(p, end) ==
  [Uncreated(p.file) EXCEPT !.st = "gone", !.tries = p.tries, !.end = p.end, !.result = Verdict(p, end),
                           !.took = tool.clock - p.since]
Tried(p, end) == [Received(p, end) EXCEPT !.tries = @ + 1, !.end = [code |-> end.code, status |-> end.status]]

-----------------------------------------------------------------------------
(* serial_transfers *)

SerialStart ==
  /\ tool.phase = "start" /\ ~opt.parallel
  /\ per' = CreatedIn(per) /\ transfers' = ListWithCreated
  /\ tool' = [tool EXCEPT !.phase = "serial", !.resumeFrom = ResumeFromCreated]
  /\ UNCHANGED messages

\* curl_easy_perform, and the wait before the retry
SerialRetry ==
  /\ tool.phase = "serial"
  /\ \E end \in Ends(Head(transfers)) :
       LET x == Head(transfers)
           p == Tried(per[x], end)
       IN  /\ Retries(p, end)
           /\ per' = [per EXCEPT ![x] = Again(p, end)]
           /\ tool' = [tool EXCEPT !.clock = @ + Delay(p, end), !.resumeFrom = RewoundResumeFrom(p, end)]
  /\ UNCHANGED <<transfers, messages>>

\* the next transfer is created before this one is deleted
SerialNext ==
  /\ tool.phase = "serial"
  /\ \E end \in Ends(Head(transfers)) :
       LET x == Head(transfers)
           p == Tried(per[x], end)
           bad == Verdict(p, end) # "ok"
           bail == bad /\ opt.failEarly
           left == Tail(IF bail THEN transfers ELSE ListWithCreated)
       IN  /\ ~Retries(p, end)
           /\ per' = [IF bail THEN per ELSE CreatedIn(per) EXCEPT ![x] = Over(p, end)]
           /\ transfers' = left
           /\ tool' = [tool EXCEPT !.exit = IF bad THEN x ELSE 0, !.phase = IF left = <<>> \/ bail THEN "cleanup" ELSE @,
                                   !.resumeFrom = IF bail THEN @ ELSE ResumeFromCreated]
  /\ UNCHANGED messages

-----------------------------------------------------------------------------
(* parallel_transfers, check_finished and add_parallel_transfers           *)

\* a transfer is created, then those that may run are added
AddingFrom(t, resumeFrom) == [t EXCEPT !.phase = "adding", !.at = 1, !.sleeping = FALSE, !.resumeFrom = resumeFrom]

ParallelStart ==
  /\ tool.phase = "start" /\ opt.parallel
  /\ per' = CreatedIn(per) /\ transfers' = ListWithCreated
  /\ tool' = AddingFrom(tool, ResumeFromCreated)
  /\ UNCHANGED messages

AddsMore == tool.phase = "adding" /\ tool.at <= Len(transfers) /\ Cardinality(Added(per)) < opt.max

PassBy ==
  /\ AddsMore
  /\ LET p == per[transfers[tool.at]]
     IN  /\ p.st # "ready" \/ tool.clock < p.startat
         /\ tool' = [tool EXCEPT !.at = @ + 1, !.sleeping = @ \/ p.st = "ready"]
  /\ UNCHANGED <<transfers, per, messages>>

AddTransfer ==
  /\ AddsMore
  /\ LET x == transfers[tool.at]
     IN  /\ per[x].st = "ready" /\ tool.clock >= per[x].startat
         /\ per' = [CreatedIn(per) EXCEPT ![x].st = "running"]
  /\ transfers' = ListWithCreated
  /\ tool' = [tool EXCEPT !.at = @ + 1, !.resumeFrom = ResumeFromCreated]
  /\ UNCHANGED messages

\* the end of check_finished and of the notification callback
Noted(t) ==
  [t EXCEPT !.phase = "loop", !.still = Cardinality(Running), !.check = 0,
            !.exit = IF @ = 0 THEN t.check ELSE @, !.wrapitup = @ \/ (t.check # 0 /\ opt.failEarly)]

Adding ==
  /\ tool.phase = "adding" /\ ~AddsMore
  /\ tool' = Noted([tool EXCEPT !.more = tool.at <= Len(transfers) \/ tool.sleeping])
  /\ UNCHANGED <<transfers, per, messages>>

Goes == (tool.still > 0 \/ tool.more) /\ ~(tool.wrapitup /\ tool.still = 0)

\* the loop's turn until curl_multi_perform
Turn ==
  /\ tool.phase = "loop" /\ Goes
  /\ per' = IF tool.wrapitup /\ ~tool.aborted THEN [x \in Urls |-> [per[x] EXCEPT !.abort = x \in Added(per)]] ELSE per
  /\ tool' = [tool EXCEPT !.phase = "perform", !.aborted = tool.wrapitup]
  /\ UNCHANGED <<transfers, messages>>

\* in curl_multi_perform a transfer ends
Finish(x) ==
  /\ tool.phase = "perform" /\ per[x].st = "running"
  /\ \E end \in Ends(x) :
       /\ per' = [per EXCEPT ![x] = [Tried(@, end) EXCEPT !.st = "done"]]
       /\ messages' = Append(messages, [x |-> x, end |-> end])
  /\ UNCHANGED <<tool, transfers>>

\* With a message the callback is called.  Turns in which no transfer ends are left
\* out as long as one runs; without one curl_multi_poll waits its second.
Perform ==
  /\ tool.phase = "perform" /\ messages # <<>>
  /\ tool' = [tool EXCEPT !.phase = "check", !.still = Cardinality(Running)]
  /\ UNCHANGED <<transfers, per, messages>>

PollInVain ==
  /\ tool.phase = "perform" /\ messages = <<>> /\ Running = {}
  /\ tool' = [tool EXCEPT !.phase = "loop", !.still = 0, !.clock = IF @ < ToolTime THEN @ + 1 ELSE @]
  /\ UNCHANGED <<transfers, per, messages>>

\* del_per_transfer
Deleted(x) ==
  LET i == CHOOSE i \in DOMAIN transfers : transfers[i] = x
  IN  SubSeq(transfers, 1, i - 1) \o SubSeq(transfers, i + 1, Len(transfers))

CheckFinished ==
  /\ tool.phase = "check" /\ messages # <<>>
  /\ LET x == Head(messages).x
         end == Head(messages).end
         bad == Verdict(per[x], end) # "ok" /\ (~per[x].abort \/ tool.check = 0)
     IN  IF Retries(per[x], end)
         THEN /\ per' = [per EXCEPT ![x] = Again(@, end)]
              /\ tool' = [tool EXCEPT !.resumeFrom = RewoundResumeFrom(per[x], end)]
              /\ UNCHANGED transfers
         ELSE /\ per' = [per EXCEPT ![x] = Over(@, end)]
              /\ tool' = [tool EXCEPT !.check = IF bad THEN x ELSE @,
                                      !.wrapitup = @ \/ (opt.failEarly /\ (bad \/ tool.check # 0))]
              /\ transfers' = Deleted(x)
  /\ messages' = Tail(messages)

AllRead ==
  /\ tool.phase = "check" /\ messages = <<>>
  /\ IF tool.wrapitup
     THEN tool' = Noted(tool) /\ UNCHANGED <<per, transfers>>
     ELSE /\ per' = CreatedIn(per) /\ transfers' = ListWithCreated
          /\ tool' = AddingFrom(tool, ResumeFromCreated)
  /\ UNCHANGED messages

LoopEnds ==
  /\ tool.phase = "loop" /\ ~Goes
  /\ tool' = [tool EXCEPT !.phase = "cleanup"]
  /\ UNCHANGED <<transfers, per, messages>>

-----------------------------------------------------------------------------
\* run_all_transfers: what is left of the list is closed with the result there is;
\* a success without output makes an empty file
Cleanup ==
  /\ tool.phase = "cleanup"
  /\ tool' = [tool EXCEPT !.phase = "ended"]
  /\ per' = [x \in Urls |->
       IF \A i \in DOMAIN transfers : transfers[i] # x THEN per[x]
       ELSE [per[x] EXCEPT !.st = "gone", !.file = IF tool.exit = 0 /\ ~per[x].open /\ per[x].bytes = 0 THEN <<>> ELSE @]]
  /\ UNCHANGED <<transfers, messages>>

\* time passes while transfers run; it matters only to a retry that waits for its turn
Tick ==
  /\ tool.phase = "perform" /\ Running # {} /\ tool.sleeping /\ tool.clock < ToolTime
  /\ tool' = [tool EXCEPT !.clock = @ + 1]
  /\ UNCHANGED <<transfers, per, messages>>

ToolRuns ==
  SerialStart \/ SerialRetry \/ SerialNext \/ ParallelStart \/ PassBy \/ AddTransfer \/ Adding \/ Turn
    \/ (\E x \in Urls : Finish(x)) \/ Perform \/ PollInVain
    \/ CheckFinished \/ AllRead \/ LoopEnds \/ Cleanup
Next == ToolRuns \/ Tick

\* The tool runs on, and of the transfers that run one ends some time: they have a
\* timeout.
Spec == Init /\ [][Next]_toolVars /\ WF_toolVars(ToolRuns)

-----------------------------------------------------------------------------
TypeOK ==
  /\ tool.phase \in {"start", "serial", "adding", "loop", "perform", "check", "cleanup", "ended"}
  /\ tool.exit \in 0..UrlCount /\ tool.check \in 0..UrlCount /\ tool.still \in 0..UrlCount
  /\ \A x \in Urls : per[x].st \in {"none", "ready", "running", "done", "gone"} /\ per[x].left \in 0..opt.retries

\* The tool comes to an end.
ToolEnds == <>(tool.phase = "ended")
=============================================================================
