----------------------------- MODULE CurlMulti -----------------------------
(***************************************************************************)
(* libcurl's multi handle (lib/multi.c): the transfers added to it, the    *)
(* state machine each goes through, the sets the multi keeps them in, the  *)
(* connections they use (CurlConnPool) and the two ways an application     *)
(* drives it, curl_multi_perform or, event based, curl_multi_socket_action.*)
(*                                                                         *)
(* Everything runs on the application's thread: a library call runs to its *)
(* end before the next one.  Within a call the steps are the handles it    *)
(* visits, the iterations of multi_runsingle's loop for one handle, and    *)
(* the call's own tail.  What the network does is a choice of the steps    *)
(* that wait for it; time passes between the calls (Tick) and where a call *)
(* reads the clock anew.                                                   *)
(*                                                                         *)
(* A transfer is a number, the mid of its easy handle: the sets are        *)
(* visited in the order of the mids.                                       *)
(***************************************************************************)
EXTENDS CurlConnPool, Sequences

CONSTANTS Easy,        \* mids of the easy handles
          HostOf,      \* destination of each
          NoConn,      \* data->conn is NULL
          EventMode,   \* driven by socket_action, otherwise by perform
          Multiplex,   \* handles that may share a connection (HTTP/2)
          PipeWait,    \* handles with CURLOPT_PIPEWAIT
          MaxStreams,  \* CURLMOPT_MAX_CONCURRENT_STREAMS
          TwoPhase,    \* handles of a protocol like FTP: its own connect
                       \* phase, a DO of several steps, a data connection
          RateLimited, \* handles with a speed limit
          Timed,       \* handles with CURLOPT_TIMEOUT_MS
          Aborting,    \* handles whose progress callback may abort
          Removable,   \* handles the application may remove
          Silent,      \* handles whose server may never answer
          MaxFollows,  \* bound on the redirects and retries of one handle
          MaxAdds      \* bound on the calls of curl_multi_add_handle

ASSUME MultiAssumption ==
  /\ Easy \subseteq Nat \ {0}
  /\ IsFiniteSet(Easy)
  /\ HostOf \in [Easy -> Hosts]
  /\ NoConn \notin Conns
  /\ EventMode \in BOOLEAN
  /\ MaxStreams \in Nat /\ MaxFollows \in Nat /\ MaxAdds \in Nat

VARIABLES added,    \* handles in multi->xfers
          mstate,   \* state of each handle
          process,  \* multi->process: what perform visits
          pending,  \* multi->pending: waiting for a connection
          dirty,    \* multi->dirty: must run soon
          msgsent,  \* multi->msgsent: completed
          alive,    \* multi->xfers_alive, what the application is told runs
          msglist,  \* the queue of CURLMSG_DONE messages
          recheck,  \* multi->recheckstate
          conn,     \* the connections, pool and shutdown list
          xconn,    \* data->conn of each handle
          timer,    \* the timeout of each handle
          follows,  \* redirects and retries so far of each handle
          adds,     \* calls of curl_multi_add_handle so far
          call,     \* the library call that runs, or "app"
          at,       \* the mid that call visited last
          told,     \* the application's timer, as the timer callback set it
          cur,      \* the handle in multi_runsingle, or 0
          phase,    \* where its loop is
          result,   \* result of that handle's run so far
          again     \* rc = CURLM_CALL_MULTI_PERFORM

sets == <<mstate, process, pending, dirty>>
pool == <<conn, xconn, recheck>>
done == <<msgsent, alive, msglist>>
call_ == <<added, adds, call, at, told>>
vars == <<added, mstate, process, pending, dirty, msgsent, alive, msglist,
          recheck, conn, xconn, timer, follows, adds, call, at, told, cur,
          phase, result, again>>

\* CONNECT up to before DO; after DO and before COMPLETED
Connecting == {"CONNECT", "RESOLVING", "CONNECTING", "PROTOCONNECT",
               "PROTOCONNECTING"}
Using == {"DOING", "DOING_MORE", "DID", "PERFORMING", "RATELIMITING", "DONE"}
Completed == {"COMPLETED", "MSGSENT"}
States == {"INIT", "PENDING", "SETUP", "DO"} \cup Connecting \cup Using
            \cup Completed

\* States above CONNECT and below COMPLETED: the handle has a connection.
Attached == (Connecting \ {"CONNECT"}) \cup {"DO"} \cup Using

\* A timeout is armed (in multi->timetree), late (its time has come), or
\* popped (late, and taken out of the tree).
TypeOK ==
  /\ added \subseteq Easy
  /\ mstate \in [Easy -> States]
  /\ process \subseteq Easy /\ pending \subseteq Easy
  /\ dirty \subseteq Easy /\ msgsent \subseteq Easy
  /\ alive \in Nat
  /\ msglist \in Seq(Easy)
  /\ recheck \in BOOLEAN
  /\ conn \in [Conns -> Connection]
  /\ xconn \in [Easy -> Conns \cup {NoConn}]
  /\ timer \in [Easy -> {"none", "armed", "late", "popped"}]
  /\ follows \in [Easy -> 0..MaxFollows]
  /\ adds \in 0..MaxAdds
  /\ call \in {"app", "perform", "first pass", "second pass"}
  /\ at \in Easy \cup {0}
  /\ told \in {"none", "later", "now"}
  /\ cur \in Easy \cup {0}
  /\ phase \in {"top", "late", "end"}
  /\ result \in {"ok", "err"}
  /\ again \in BOOLEAN

Init ==
  /\ added = {}
  /\ mstate = [x \in Easy |-> "INIT"]
  /\ process = {} /\ pending = {} /\ dirty = {} /\ msgsent = {}
  /\ alive = 0
  /\ msglist = <<>>
  /\ recheck = FALSE
  /\ conn = [c \in Conns |-> ClosedConn]
  /\ xconn = [x \in Easy |-> NoConn]
  /\ timer = [x \in Easy |-> "none"]
  /\ follows = [x \in Easy |-> 0]
  /\ adds = 0
  /\ call = "app" /\ at = 0 /\ told = "none"
  /\ cur = 0 /\ phase = "top" /\ result = "ok" /\ again = FALSE
-----------------------------------------------------------------------------
(* Helpers *)

\* Curl_uint_bset_first: the lowest member, as a set
First(S) == {m \in S : \A n \in S : m <= n}

\* move_pending_to_connect marks the handles W, or (bug variant) does not.
MarkedNot(W) == dirty
Marked(W) == dirty \cup W

\* move_pending_to_connect, for the handles W
Wake(W) == /\ mstate' = [y \in Easy |-> IF y \in W THEN "CONNECT"
                                                   ELSE mstate[y]]
           /\ process' = process \cup W
           /\ pending' = pending \ W
           /\ dirty' = Marked(W)

\* x, which is not one of W, goes to state s.
Move(x, s, W) ==
  /\ mstate' = [y \in Easy |-> IF y \in W THEN "CONNECT"
                               ELSE IF y = x THEN s ELSE mstate[y]]
  /\ process' = process \cup W
  /\ pending' = pending \ W
  /\ dirty' = Marked(W)

\* ... and leaves the sets: with its connection multi_done wakes a handle.
\* Bug variant: it does not.
WokenByDoneNone(x) == {}
WokenByDone(x) == IF xconn[x] = NoConn THEN {} ELSE First(pending)

\* The pool becomes cn.
Pool(cn) == conn' = cn /\ recheck' = (recheck \/ Closed(conn, cn))

Users(c) == {x \in Easy : xconn[x] = c}
InUse == {c \in Conns : Users(c) # {}}
InUseBy(others) == {c \in Conns : Users(c) \cap others # {}}
Detached(x) == [xconn EXCEPT ![x] = NoConn]
CloseStream(x) == StreamClose(conn, xconn[x])

\* Bug variants of DonePools: other users are overlooked; so is bits.close.
DonePoolsAlone(x, cn, premature) ==
  LET c == xconn[x]
  IN  IF cn[c].close \/ premature THEN Disconnect(cn, c, premature) ELSE {cn}
DonePoolsKept(x, cn, premature) ==
  LET c == xconn[x]
  IN  IF c \notin InUseBy(Easy \ {x}) /\ premature /\ ~cn[c].mux
        THEN Disconnect(cn, c, premature) ELSE {cn}

\* multi_done_locked, from the pool cn: what happens to the connection of x
\* when x is done with it.  A multiplexed connection may have been told by
\* the server to take no more streams.
DonePools(x, cn, premature) ==
  LET c == xconn[x]
      inUse == InUseBy(Easy \ {x})
      keep == IF MaxConnects = 0 THEN 4 * alive ELSE MaxConnects
  IN  IF c \in inUse THEN {cn}
      ELSE IF cn[c].close \/ (premature /\ ~cn[c].mux)
        THEN Disconnect(cn, c, premature)
      ELSE NowIdle(cn, inUse, keep)
             \cup (IF cn[c].mux THEN Disconnect(cn, c, premature) ELSE {})

\* multi_done: detach x from its connection (its call of
\* process_pending_handles is in the W of the caller's Move).
MultiDone(x, cn, premature) ==
  /\ \E cn2 \in DonePools(x, cn, premature) : Pool(cn2)
  /\ xconn' = Detached(x)

\* Bug variant: only the timers count.
DueTimers == IF \E x \in Easy : timer'[x] = "late" THEN "now"
             ELSE IF \E x \in Easy : timer'[x] = "armed" THEN "later" ELSE "none"

\* Curl_update_timer: what the timer callback tells the application.
Due == IF dirty' \cap process' # {} \/ \E x \in Easy : timer'[x] = "late"
         THEN "now"
       ELSE IF \E x \in Easy : timer'[x] = "armed" THEN "later" ELSE "none"
UpdateTimer == told' = IF EventMode THEN Due ELSE told
-----------------------------------------------------------------------------
(* The application and its clock, between calls *)

\* curl_multi_add_handle
AddHandle(x) ==
  /\ call = "app" /\ x \notin added /\ adds < MaxAdds
  /\ added' = added \cup {x}
  /\ adds' = adds + 1
  /\ mstate' = [mstate EXCEPT ![x] = "INIT"]
  /\ process' = process \cup {x}
  /\ dirty' = dirty \cup {x}
  /\ alive' = alive + 1
  /\ follows' = [follows EXCEPT ![x] = 0]
  /\ UNCHANGED <<pending, msgsent, msglist, timer, call, at, cur, phase,
                 result, again>> /\ UNCHANGED pool
  /\ UpdateTimer

\* Bug variants: the count goes down always, or never.
AliveAlwaysDown(x) == alive - 1
AliveNeverDown(x) == alive
AliveWithout(x) == IF x \in msgsent THEN alive ELSE alive - 1

\* Has x timers in multi->timetree?  Its timeout, and those of the resolver,
\* of the race of connects and of the speed limit.
InTree(x) == \/ timer[x] \in {"armed", "late"}
             \/ mstate[x] \in {"RESOLVING", "CONNECTING", "RATELIMITING"}

\* The message queue without the message of x, if there is one.
DropAt(s, k) == [i \in 1..(Len(s) - 1) |-> IF i < k THEN s[i] ELSE s[i + 1]]
Unread(x) ==
  LET own == {i \in 1..Len(msglist) : msglist[i] = x}
  IN  IF own = {} THEN {msglist} ELSE {DropAt(msglist, k) : k \in First(own)}

\* curl_multi_remove_handle: a transfer cut short closes its connection,
\* or ends its stream.  process_pending_handles runs within multi_done and
\* again at the end.
RemoveHandle(x) ==
  /\ call = "app" /\ x \in added /\ x \in Removable
  /\ added' = added \ {x}
  /\ LET w1 == WokenByDone(x)
         W == w1 \cup First(pending \ (w1 \cup {x}))
     IN  /\ mstate' = [y \in Easy |-> IF y = x THEN "COMPLETED"
                                      ELSE IF y \in W THEN "CONNECT"
                                      ELSE mstate[y]]
         /\ process' = (process \cup W) \ {x}
         /\ pending' = pending \ (W \cup {x})
         /\ dirty' = Marked(W) \ {x}
  /\ IF xconn[x] = NoConn THEN UNCHANGED pool
       ELSE MultiDone(x, IF mstate[x] \in Using THEN CloseStream(x) ELSE conn,
                      mstate[x] \notin Completed)
  /\ alive' = AliveWithout(x)
  /\ msgsent' = msgsent \ {x}
  /\ msglist' \in Unread(x)
  /\ timer' = [timer EXCEPT ![x] = "none"]
  /\ IF InTree(x) THEN UpdateTimer ELSE UNCHANGED told
  /\ UNCHANGED <<follows, adds, call, at, cur, phase, result, again>>

\* curl_multi_info_read
InfoRead ==
  /\ call = "app" /\ msglist # <<>>
  /\ msglist' = Tail(msglist)
  /\ UNCHANGED <<added, adds, msgsent, alive, timer, follows, call, at, told,
                 cur, phase, result, again>>
  /\ UNCHANGED sets /\ UNCHANGED pool

Rest == /\ UNCHANGED <<added, adds, follows, cur, phase, result, again>>
        /\ UNCHANGED pool /\ UNCHANGED done

\* The clock is read anew: any timeouts in t that are armed may have passed.
Later(t) == {[y \in Easy |-> IF y \in S THEN "late" ELSE t[y]] :
               S \in SUBSET {y \in Easy : t[y] = "armed"}}

\* The timeout of x passes.
Tick(x) ==
  /\ call = "app" /\ timer[x] = "armed"
  /\ timer' = [timer EXCEPT ![x] = "late"]
  /\ UNCHANGED <<call, at, told>> /\ UNCHANGED sets /\ Rest

\* curl_multi_perform is called.
CallPerform ==
  /\ ~EventMode
  /\ call = "app"
  /\ call' = "perform" /\ at' = 0
  /\ UNCHANGED <<timer, told>> /\ UNCHANGED sets /\ Rest

\* multi_mark_expired_as_dirty: late timers leave the tree.
Popped(t) == [x \in Easy |-> IF t[x] = "late" THEN "popped" ELSE t[x]]
MarkExpiredPopped(t, d) ==   \* bug variant
  /\ timer' = Popped(t)
  /\ dirty' = d
  /\ UNCHANGED <<mstate, process, pending>>
MarkExpired(t, d) ==
  /\ timer' = Popped(t)
  /\ dirty' = d \cup {x \in Easy : t[x] = "late"}
  /\ UNCHANGED <<mstate, process, pending>>

\* The application's timer fires: curl_multi_socket_action(TIMEOUT).
CallTimeout ==
  /\ EventMode
  /\ call = "app"
  /\ told = "now" \/ (told = "later" /\ \E x \in Easy : timer[x] = "late")
  /\ call' = "first pass" /\ at' = 0 /\ told' = "none"
  /\ MarkExpired(timer, dirty)
  /\ Rest

\* A socket x waits for has an event, or one of its internal timers fires:
\* Curl_multi_ev_dirty_xfers marks every transfer of the connection.
CallEvent(x) ==
  /\ EventMode
  /\ call = "app" /\ x \in added /\ xconn[x] # NoConn
  /\ call' = "first pass" /\ at' = 0
  /\ MarkExpired(timer, dirty \cup Users(xconn[x]))
  /\ UNCHANGED told
  /\ Rest

\* The socket of a connection in shutdown has an event.
CallShutdownEvent ==
  /\ EventMode
  /\ call = "app" /\ Shut(conn) # {}
  /\ call' = "first pass" /\ at' = 0
  /\ MarkExpired(timer, dirty)
  /\ UNCHANGED told
  /\ Rest
-----------------------------------------------------------------------------
(* The calls: which handle runs next, and the tail *)

\* multi_runsingle clears the dirty bit and enters its loop.
Enter(x) ==
  /\ at' = x /\ cur' = x /\ phase' = "top" /\ result' = "ok" /\ again' = FALSE
  /\ dirty' = dirty \ {x}

VisitPerform(x) ==
  /\ call = "perform" /\ cur = 0
  /\ x \in First({y \in process : y > at})
  /\ Enter(x)
  /\ UNCHANGED <<added, adds, mstate, process, pending, timer, follows, call,
                 told>> /\ UNCHANGED pool /\ UNCHANGED done

\* multi_run_dirty: a dirty handle that is not in process loses its mark.
VisitDirty(x) ==
  /\ call \in {"first pass", "second pass"} /\ cur = 0
  /\ x \in First({y \in dirty : y > at})
  /\ IF x \in process THEN Enter(x)
       ELSE /\ at' = x /\ dirty' = dirty \ {x}
            /\ UNCHANGED <<cur, phase, result, again>>
  /\ UNCHANGED <<added, adds, mstate, process, pending, timer, follows, call,
                 told>> /\ UNCHANGED pool /\ UNCHANGED done

\* Another pass: what became dirty behind the first one runs at once.
SecondPass ==
  /\ call = "first pass" /\ cur = 0 /\ {y \in dirty : y > at} = {}
  /\ call' = "second pass" /\ at' = 0
  /\ \E t \in Later(timer) : MarkExpired(t, dirty)
  /\ UNCHANGED told /\ Rest

\* Curl_cshutdn_perform may end any of the shutdowns; a connection that is
\* closed makes the call wake a pending handle.
WokenBy(S) == IF recheck \/ S # {} THEN First(pending) ELSE {}
EndCall(S) ==
  /\ conn' = [c \in Conns |-> IF c \in S THEN ClosedConn ELSE conn[c]]
  /\ recheck' = FALSE
  /\ call' = "app" /\ at' = 0
  /\ UpdateTimer
  /\ UNCHANGED <<added, adds, xconn, follows, cur, phase, result, again>>
  /\ UNCHANGED done

\* Pending handles whose timeout passed; bug variant: they are left alone.
ExpiredNone == {}
Expired == {x \in pending : timer[x] = "late"}

\* The tail of curl_multi_perform: late timers leave the tree, and a handle
\* whose timeout passed while it was pending goes to CONNECT.
EndPerform ==
  /\ call = "perform" /\ cur = 0 /\ {y \in process : y > at} = {}
  /\ timer' = Popped(timer)
  /\ \E S \in SUBSET Shut(conn) :
       /\ Wake(WokenBy(S) \cup Expired)
       /\ EndCall(S)

\* The tail of multi_socket
EndSocket ==
  /\ call = "second pass" /\ cur = 0 /\ {y \in dirty : y > at} = {}
  /\ UNCHANGED timer
  /\ \E S \in SUBSET Shut(conn) : Wake(WokenBy(S)) /\ EndCall(S)
-----------------------------------------------------------------------------
(* multi_runsingle: one iteration of its loop for x is Recheck if the pool  *)
(* changed, then the handle's state (or its timeout), then the end.         *)

AtTop(x) == /\ cur = x /\ phase = "top"
            /\ UNCHANGED call_ /\ UNCHANGED cur

\* multi_ischanged at the top of the loop
Recheck(x) ==
  /\ AtTop(x) /\ recheck
  /\ recheck' = FALSE
  /\ Wake(First(pending))
  /\ UNCHANGED <<conn, xconn, timer, follows, phase, result, again>>
  /\ UNCHANGED done

\* multi_handle_timeout looks at the handle in state s.
TimedOut(x, s) == /\ timer[x] \in {"late", "popped"}
                  /\ s \in Connecting \cup {"DO"} \cup Using

HandleTimeout(x) ==
  /\ result' = "err"
  /\ IF xconn[x] = NoConn
       THEN UNCHANGED pool /\ UNCHANGED sets
       ELSE /\ MultiDone(x, IF mstate[x] \in Using THEN CloseStream(x)
                                                   ELSE conn, TRUE)
            /\ Wake(First(pending))

TopTimeout(x) ==
  /\ AtTop(x) /\ ~recheck /\ TimedOut(x, mstate[x])
  /\ HandleTimeout(x)
  /\ phase' = "end" /\ again' = FALSE
  /\ UNCHANGED <<timer, follows>> /\ UNCHANGED done

\* The switch, for state s
Run(x, s) == /\ AtTop(x) /\ ~recheck /\ mstate[x] = s /\ ~TimedOut(x, s)
             /\ phase' = "late"
             /\ UNCHANGED done

SameTransfer == UNCHANGED <<timer, follows>>
Goes == again' = TRUE /\ UNCHANGED result    \* CURLM_CALL_MULTI_PERFORM
Waits == again' = FALSE /\ UNCHANGED result
FailsUnseen == again' = FALSE /\ UNCHANGED result   \* bug variant
Fails == again' = FALSE /\ result' = "err"
Advance(x, s) == Move(x, s, {}) /\ UNCHANGED pool /\ Goes
Stay == UNCHANGED sets /\ UNCHANGED pool /\ Waits

\* A failure that multi_done has dealt with when the step ends
FailDone(x, cn, premature) ==
  /\ MultiDone(x, cn, premature)
  /\ Wake(First(pending))
  /\ Fails
-----------------------------------------------------------------------------
(* INIT, SETUP and CONNECT are one iteration: the first two fall through.   *)

Starting(x) == \E s \in {"INIT", "SETUP", "CONNECT"} : Run(x, s)

\* Curl_pretransfer fails.
InitFails(x) ==
  /\ Run(x, "INIT")
  /\ UNCHANGED sets /\ UNCHANGED pool /\ SameTransfer /\ Fails

\* SETUP arms the timeout; one that has passed stays passed, since it is
\* counted from the start of the whole operation.
Rearmed(x) == IF x \in Timed
                THEN [timer EXCEPT ![x] = IF timer[x] \in {"none", "armed"}
                                            THEN "armed" ELSE "late"]
                ELSE timer

\* SETUP reads the clock, and so does state_connect when it has a connection.
Connects(x) == /\ Starting(x)
               /\ UNCHANGED follows
               /\ mstate[x] # "CONNECT" => timer' \in Later(Rearmed(x))
GotConn(x) == mstate[x] = "CONNECT" => timer' \in Later(timer)
NoConnYet(x) == mstate[x] = "CONNECT" => UNCHANGED timer

\* url_match_conn: the connections of the pool cn that x could use.  An idle
\* one is taken; one that is in use is shared if it and the transfer can, and
\* only up to the number of streams allowed.  (The server's own limit may
\* forbid it too.)  Whether a connection can be shared is known once it is up;
\* one that can speaks HTTP/2, which the transfer must allow.
Matching(cn, x) == {c \in LiveTo(cn, HostOf[x]) :
                      ~cn[c].close /\ (cn[c].mux => x \in Multiplex)}
IdleMatches(cn, x) == {c \in Matching(cn, x) : cn[c].up /\ c \notin InUse}
SharedMatchesOneMore(cn, x) ==   \* bug variant
  {c \in Matching(cn, x) : /\ cn[c].up /\ c \in InUse
                           /\ cn[c].mux /\ x \in Multiplex
                           /\ Cardinality(Users(c)) <= MaxStreams}
SharedMatches(cn, x) ==
  {c \in Matching(cn, x) : /\ cn[c].up /\ c \in InUse
                           /\ cn[c].mux /\ x \in Multiplex
                           /\ Cardinality(Users(c)) < MaxStreams}

\* url_match_result: wait for a connection that is not up yet and may turn
\* out to be shareable, unless the destination is known not to share.
MustWait(cn, x) ==
  LET busy == {c \in Matching(cn, x) : cn[c].up /\ c \in InUse}
  IN  /\ x \in PipeWait \cap Multiplex
      /\ \E c \in Matching(cn, x) : ~cn[c].up
      /\ (\E c \in busy : ~cn[c].mux) => (\E c \in busy : cn[c].mux)

Attach(x, c) == xconn' = [xconn EXCEPT ![x] = c]

\* create_conn finds a connection.  An idle one passes through CONNECTING,
\* one that others use is ready at once.
ReuseConn(x) ==
  /\ Connects(x)
  /\ \E cn \in PruneDead(conn, InUse) :
     \E c \in IdleMatches(cn, x) \cup SharedMatches(cn, x) :
       /\ Pool([cn EXCEPT ![c] = [cn[c] EXCEPT !.reused = TRUE]])
       /\ Attach(x, c)
       /\ Move(x, IF c \in InUse THEN "PROTOCONNECT" ELSE "CONNECTING",
               First(pending))
  /\ GotConn(x) /\ Goes

\* The pools in which create_conn finds none, once it has made what room it
\* can, or none if it is to wait for another transfer's connection.
Unmatched(x) == {cn \in PruneDead(conn, InUse) : IdleMatches(cn, x) = {}}
Roomy(x) == UNION {CheckLimits(cn, InUse, HostOf[x]) :
                     cn \in {cn1 \in Unmatched(x) : ~MustWait(cn1, x)}}

\* Bug variant: the parked handle stays in process.
ParkRunning(x) ==
  /\ mstate' = [mstate EXCEPT ![x] = "PENDING"]
  /\ pending' = pending \cup {x}
  /\ UNCHANGED <<process, dirty>>

Park(x) ==
  /\ mstate' = [mstate EXCEPT ![x] = "PENDING"]
  /\ process' = process \ {x}
  /\ dirty' = dirty \ {x}
  /\ pending' = pending \cup {x}

\* CURLE_NO_CONNECTION_AVAILABLE: x is parked, and nobody is woken.
WaitForConn(x) ==
  /\ Connects(x)
  /\ \E cn \in {cn1 \in Unmatched(x) : MustWait(cn1, x)} \cup
               {cn1 \in Roomy(x) : LimitReached(cn1, HostOf[x])} : Pool(cn)
  /\ Park(x)
  /\ UNCHANGED xconn
  /\ NoConnYet(x) /\ Waits

\* A new connection; its name is resolved at once or asynchronously.
OpenConn(x) ==
  /\ Connects(x)
  /\ \E cn \in Roomy(x) :
       /\ ~LimitReached(cn, HostOf[x])
       /\ \E c \in First({d \in Conns : cn[d].st = "closed"}) :
            /\ conn' = [cn EXCEPT ![c] = NewConn(HostOf[x])]
            /\ Attach(x, c)
       /\ recheck' = (recheck \/ Closed(conn, cn))
  /\ \/ Move(x, "RESOLVING", First(pending)) /\ Waits
     \/ Move(x, "CONNECTING", First(pending)) /\ Goes
  /\ GotConn(x)

\* Curl_connect fails, before or after it has opened a connection.
ConnectFails(x) ==
  /\ Connects(x)
  /\ \E cn \in PruneDead(conn, InUse) \cup
               {cn1 \in Roomy(x) : ~LimitReached(cn1, HostOf[x])} :
       conn' = cn /\ recheck' \in {recheck \/ Closed(conn, cn), TRUE}
  /\ Move(x, "CONNECT", First(pending))
  /\ UNCHANGED xconn
  /\ NoConnYet(x) /\ Fails
-----------------------------------------------------------------------------
(* RESOLVING up to DO *)

Resolving(x) ==
  /\ Run(x, "RESOLVING")
  /\ Stay \/ Advance(x, "CONNECTING")
  /\ SameTransfer

\* The resolver or Curl_once_resolved fails: the connection is freed.
ResolveFails(x) ==
  /\ Run(x, "RESOLVING")
  /\ Pool(Terminate(conn, xconn[x])) /\ xconn' = Detached(x)
  /\ UNCHANGED sets
  /\ Fails /\ SameTransfer

\* The connection filters: a new connection comes up, shared or not as the
\* server decides; a reused one is up.
AwaitConnect(x) ==
  /\ Run(x, "CONNECTING") /\ ~conn[xconn[x]].up
  /\ Stay /\ SameTransfer

ComesUp(x) ==
  LET c == xconn[x]
  IN  /\ Run(x, "CONNECTING") /\ ~conn[c].up
      /\ \/ /\ conn' = [conn EXCEPT ![c] = [conn[c] EXCEPT !.up = TRUE]]
            /\ UNCHANGED recheck
            /\ Move(x, "PROTOCONNECT", {})
         \/ /\ x \in Multiplex
            /\ conn' = [conn EXCEPT ![c] = [conn[c] EXCEPT !.up = TRUE,
                                                           !.mux = TRUE]]
            /\ recheck' = TRUE
            /\ Move(x, "PROTOCONNECT", First(pending))
      /\ UNCHANGED xconn
      /\ Goes /\ SameTransfer

IsUp(x) ==
  /\ Run(x, "CONNECTING") /\ conn[xconn[x]].up
  /\ Advance(x, "PROTOCONNECT") /\ SameTransfer

ConnectionFails(x) ==
  /\ Run(x, "CONNECTING") /\ ~conn[xconn[x]].up
  /\ FailDone(x, conn, TRUE) /\ SameTransfer

\* A reused connection has its protocol connected already.
ProtoConnect(x) ==
  /\ Run(x, "PROTOCONNECT")
  /\ \/ Advance(x, "DO")
     \/ /\ x \in TwoPhase /\ ~conn[xconn[x]].reused
        /\ Advance(x, "PROTOCONNECTING")
  /\ SameTransfer

ProtoConnecting(x) ==
  /\ Run(x, "PROTOCONNECTING")
  /\ Stay \/ Advance(x, "DO")
  /\ SameTransfer

ProtocolFails(x) ==
  /\ \/ Run(x, "PROTOCONNECTING")
     \/ Run(x, "PROTOCONNECT") /\ ~conn[xconn[x]].reused
  /\ FailDone(x, conn, TRUE) /\ SameTransfer
-----------------------------------------------------------------------------
(* DO up to DONE *)

\* state_do
Do(x) ==
  /\ Run(x, "DO")
  /\ \E s \in {"DID"} \cup (IF x \in TwoPhase THEN {"DOING", "DOING_MORE"} ELSE {}) :
       Advance(x, s)
  /\ SameTransfer

\* Back to SETUP, for a redirect or a retry
Again(x, cn) ==
  /\ follows[x] < MaxFollows
  /\ follows' = [follows EXCEPT ![x] = follows[x] + 1]
  /\ MultiDone(x, cn, FALSE)
  /\ Move(x, "SETUP", First(pending))
  /\ Goes
  /\ UNCHANGED timer

\* A reused connection turned out to be dead: Curl_retry_request marks it
\* to be closed.
DoRetries(x) ==
  /\ Run(x, "DO") /\ conn[xconn[x]].reused
  /\ Again(x, ConnClose(conn, xconn[x]))

\* The pre-request callback aborts (premature), or the protocol fails: its
\* done handler may mark the connection to be closed.
DoFails(x) ==
  /\ Run(x, "DO") \/ Run(x, "DOING") \/ Run(x, "DOING_MORE")
  /\ \/ FailDone(x, conn, FALSE)
     \/ FailDone(x, ConnClose(conn, xconn[x]), FALSE)
     \/ mstate[x] = "DO" /\ FailDone(x, conn, TRUE)
  /\ SameTransfer

Doing(x) ==
  /\ Run(x, "DOING")
  /\ Stay \/ Advance(x, "DOING_MORE") \/ Advance(x, "DID")
  /\ SameTransfer

DoingMore(x) ==
  /\ Run(x, "DOING_MORE")
  /\ Stay \/ Advance(x, "DOING") \/ Advance(x, "DID")
  /\ SameTransfer

\* A transfer without a data phase goes to DONE at once.
Did(x) ==
  /\ Run(x, "DID")
  /\ \E s \in {"PERFORMING"} \cup (IF x \in TwoPhase THEN {"DONE"} ELSE {}) :
       Move(x, s, IF conn[xconn[x]].mux THEN First(pending) ELSE {})
  /\ UNCHANGED pool
  /\ Goes /\ SameTransfer

\* state_performing: the transfer goes on, or is too fast.
Transfers(x) ==
  /\ Run(x, "PERFORMING")
  /\ Stay \/ (/\ x \in RateLimited
              /\ Move(x, "RATELIMITING", {}) /\ UNCHANGED pool /\ Waits)
  /\ SameTransfer

\* All is received.  The response may have asked to close the connection, or
\* not to use it for more streams.
Received(x) ==
  /\ Run(x, "PERFORMING")
  /\ \E cn \in {conn, ConnClose(conn, xconn[x])} : Pool(cn)
  /\ UNCHANGED xconn
  /\ Move(x, "DONE", {}) /\ Goes
  /\ SameTransfer

\* A redirect, or a retry on a reused connection that was closed
Redirected(x) ==
  /\ Run(x, "PERFORMING")
  /\ \E cn \in {conn, ConnClose(conn, xconn[x])} : Again(x, cn)

\* It was a redirect that cannot be followed.
FollowFails(x) ==
  /\ Run(x, "PERFORMING")
  /\ \E cn \in {conn, ConnClose(conn, xconn[x])} : FailDone(x, cn, FALSE)
  /\ SameTransfer

\* An error closes the connection, or only the stream; a protocol with two
\* connections may keep it for multi_done to close.
TransferFails(x) ==
  /\ Run(x, "PERFORMING") \/ Run(x, "RATELIMITING")
  /\ FailDone(x, IF x \in TwoPhase THEN conn ELSE CloseStream(x), TRUE)
  /\ SameTransfer

Unlimited(x) ==
  /\ Run(x, "RATELIMITING")
  /\ Stay \/ Advance(x, "PERFORMING")
  /\ SameTransfer

\* multistate(COMPLETED): out of the process set, timers cleared, connection
\* detached.  multi_done may report an error of its own.
Done(x) ==
  /\ Run(x, "DONE")
  /\ LET W == WokenByDone(x)
     IN  /\ mstate' = [y \in Easy |-> IF y \in W THEN "CONNECT"
                                      ELSE IF y = x THEN "COMPLETED"
                                      ELSE mstate[y]]
         /\ process' = (process \cup W) \ {x}
         /\ pending' = pending \ W
         /\ dirty' = Marked(W)
  /\ IF xconn[x] = NoConn THEN UNCHANGED pool
       ELSE MultiDone(x, conn, result = "err")
  /\ timer' = [timer EXCEPT ![x] = "none"]
  /\ result' \in {result, "err"}
  /\ again' = TRUE
  /\ UNCHANGED follows
-----------------------------------------------------------------------------
(* The end of an iteration *)

\* The check on the last iteration, for a transfer that is connecting
LateCheck(x) == /\ cur = x /\ phase = "late"
                /\ mstate[x] \in Connecting /\ ~again /\ ~recheck
                /\ TimedOut(x, mstate[x])

LateTimeout(x) ==
  /\ LateCheck(x)
  /\ HandleTimeout(x)
  /\ phase' = "end"
  /\ UNCHANGED <<again, timer, follows>> /\ UNCHANGED done
  /\ UNCHANGED call_ /\ UNCHANGED cur

AtEnd(x) == /\ cur = x /\ phase # "top" /\ ~LateCheck(x)
            /\ UNCHANGED call_ /\ UNCHANGED follows

LeaveLoop == cur' = 0 /\ phase' = "top" /\ result' = "ok" /\ again' = FALSE

\* COMPLETED: the message is queued, the handle goes to msgsent.
Finish(x, W) ==
  /\ mstate' = [y \in Easy |-> IF y \in W THEN "CONNECT"
                               ELSE IF y = x THEN "MSGSENT" ELSE mstate[y]]
  /\ process' = (process \cup W) \ {x}
  /\ pending' = pending \ (W \cup {x})
  /\ dirty' = Marked(W) \ {x}
  /\ msgsent' = msgsent \cup {x}
  /\ alive' = alive - 1
  /\ msglist' = Append(msglist, x)
  /\ timer' = [timer EXCEPT ![x] = "none"]
  /\ LeaveLoop

\* A failed transfer is completed where it stands.
Failed(x) ==
  /\ AtEnd(x) /\ result = "err" /\ mstate[x] \notin Completed
  /\ Finish(x, First(pending))
  /\ UNCHANGED pool

Complete(x) ==
  /\ AtEnd(x) /\ mstate[x] = "COMPLETED"
  /\ Finish(x, {})
  /\ UNCHANGED pool

MayAbort(x) == /\ AtEnd(x) /\ x \in Aborting
               /\ result = "ok" /\ mstate[x] \notin Completed
               /\ xconn[x] # NoConn
               /\ Pool(CloseStream(x))

\* The progress callback aborts: to DONE, where multi_done closes the
\* connection.
AbortToDone(x) ==
  /\ MayAbort(x) /\ mstate[x] # "DONE"
  /\ Move(x, "DONE", {})
  /\ phase' = "top" /\ result' = "err" /\ again' = TRUE
  /\ UNCHANGED <<xconn, timer, cur>> /\ UNCHANGED done

\* In DONE already: to COMPLETED, which only detaches the connection.
AbortInDone(x) ==
  /\ MayAbort(x) /\ mstate[x] = "DONE"
  /\ xconn' = Detached(x)
  /\ Finish(x, {})

\* Another iteration, or out of the loop
Loop(x) ==
  /\ AtEnd(x) /\ mstate[x] # "COMPLETED"
  /\ ~(result = "err" /\ mstate[x] \notin Completed)
  /\ IF again \/ recheck
       THEN phase' = "top" /\ again' = FALSE /\ UNCHANGED <<cur, result>>
       ELSE LeaveLoop
  /\ UNCHANGED timer /\ UNCHANGED sets /\ UNCHANGED pool /\ UNCHANGED done
-----------------------------------------------------------------------------
\* A handle that parked itself and is not woken by the recheck: nothing.
Parked(x) == Run(x, "PENDING") /\ Stay /\ SameTransfer

Handle(x) ==
  \/ Recheck(x) \/ TopTimeout(x) \/ Parked(x)
  \/ InitFails(x) \/ ReuseConn(x) \/ WaitForConn(x) \/ OpenConn(x)
  \/ ConnectFails(x)
  \/ Resolving(x) \/ ResolveFails(x)
  \/ AwaitConnect(x) \/ ComesUp(x) \/ IsUp(x) \/ ConnectionFails(x)
  \/ ProtoConnect(x) \/ ProtoConnecting(x) \/ ProtocolFails(x)
  \/ Do(x) \/ DoRetries(x) \/ DoFails(x) \/ Doing(x) \/ DoingMore(x) \/ Did(x)
  \/ Transfers(x) \/ Received(x) \/ Redirected(x) \/ FollowFails(x)
  \/ TransferFails(x) \/ Unlimited(x) \/ Done(x)
  \/ LateTimeout(x) \/ Failed(x) \/ Complete(x)
  \/ AbortToDone(x) \/ AbortInDone(x) \/ Loop(x)

Library == \/ \E x \in Easy : VisitPerform(x) \/ VisitDirty(x) \/ Handle(x)
           \/ SecondPass \/ EndPerform \/ EndSocket

Application ==
  \/ \E x \in Easy : AddHandle(x) \/ RemoveHandle(x) \/ Tick(x) \/ CallEvent(x)
  \/ InfoRead \/ CallPerform \/ CallTimeout \/ CallShutdownEvent

Next == Library \/ Application

Spec == Init /\ [][Next]_vars

\* A library call runs to its end; the application drives the library, calls
\* perform again and again or, event based, as it is told; time passes; a
\* server that is not silent moves its transfer on in the end.
Waiting == {"RESOLVING", "CONNECTING", "PROTOCONNECTING", "DOING",
            "DOING_MORE", "PERFORMING", "RATELIMITING"}
Progress(x) == Handle(x) /\ mstate[x] \in Waiting /\ mstate'[x] # mstate[x]

Fairness == /\ WF_vars(Library)
            /\ \A x \in Timed : SF_vars(Tick(x))
            /\ \A x \in Easy \ Silent : SF_vars(Progress(x))

PerformSpec == Spec /\ Fairness /\ WF_vars(CallPerform)
EventSpec == Spec /\ Fairness /\ SF_vars(CallTimeout)
               /\ \A x \in Easy \ Silent : SF_vars(CallEvent(x))
-----------------------------------------------------------------------------
(* Safety *)

\* The sets are where the states say: what perform and the pending queue act
\* on is what a handle's state calls for.  A handle that is COMPLETED but not
\* finished yet, within its run, is in none.
SetsMatchState ==
  /\ pending = {x \in added : mstate[x] = "PENDING"}
  /\ msgsent = {x \in added : mstate[x] = "MSGSENT"}
  /\ process = {x \in added : mstate[x] \notin Completed \cup {"PENDING"}}
  /\ dirty \subseteq added
  /\ \A x \in added : mstate[x] = "COMPLETED" => x = cur

\* The number of running handles the application is given is the number of
\* transfers it will still get a message for.
RunningCount == alive = Cardinality(added \ msgsent)

\* DEBUGASSERT(data->conn) at the top of the loop; and nobody else has one.
ActiveHasConn ==
  \A x \in Easy :
    /\ xconn[x] # NoConn => x \in added /\ mstate[x] \in Attached
    /\ x \in added /\ mstate[x] \in Attached /\ (cur = x => phase = "top")
         => xconn[x] # NoConn

\* A connection in use is neither closed nor in shutdown, is to the user's
\* destination, and is shared only if multiplexed and not beyond the limit.
NoDangling ==
  \A x \in Easy : LET c == xconn[x] IN
    c # NoConn => /\ conn[c].st = "live" /\ conn[c].host = HostOf[x]
                  /\ \/ Users(c) = {x}
                     \/ conn[c].mux /\ Cardinality(Users(c)) <= MaxStreams

\* A connection nobody uses can be used again: it is up and not marked to be
\* closed, so it can be found, and evicted when room is needed.
IdleIsReusable ==
  \A c \in Live(conn) \ InUse : conn[c].up /\ ~conn[c].close

LimitsHeld ==
  /\ HostLimit > 0 => \A h \in Hosts :
       Cardinality(LiveTo(conn, h)) + Cardinality(ShutTo(conn, h)) <= HostLimit
  /\ TotalLimit > 0 =>
       Cardinality(Live(conn)) + Cardinality(Shut(conn)) <= TotalLimit

\* Pending handles never wait for nothing: some other handle is in process,
\* and its progress wakes one of them.
PendingNeverAlone == pending # {} => process # {} \/ cur # 0

\* Between calls, a transfer is pending only while its host has no connection
\* nobody uses, which it could take, or have closed to open its own, or some
\* handle is about to try again (and wakes the next).
PendingOnlyWithoutConn ==
  call = "app" => \A x \in pending :
    \/ LiveTo(conn, HostOf[x]) \subseteq InUse
    \/ \E y \in process : mstate[y] = "CONNECT"

\* CURLMOPT_MAXCONNECTS bounds the connections kept for later.
IdleWithinMaxConnects ==
  MaxConnects > 0 => Cardinality(Live(conn) \ InUse) <= MaxConnects

\* However connections are opened, kept, evicted and shut down, the application's
\* limits hold (Curl_cpool_check_limits, Curl_cpool_conn_now_idle).
PoolWithinLimits == LimitsHeld /\ IdleWithinMaxConnects

\* Event based: between calls, a handle that does not wait for the network is
\* marked to run.
NothingForgotten ==
  call = "app" => \A x \in process : mstate[x] \in Waiting \/ x \in dirty

\* Event based: what is marked to run has been announced to the application.
DirtyIsAnnounced ==
  EventMode /\ call = "app" /\ dirty \cap process # {} => told = "now"

\* A timeout that left the tree has been seen by its transfer, or will be: it
\* is marked to run.
NoTimeoutLost ==
  call = "app" => \A x \in process : timer[x] = "popped" => x \in dirty

\* The multi implements the transfer service its application sees.
Stage == [x \in Easy |-> IF x \notin added THEN "out"
                         ELSE IF x \in msgsent THEN "done" ELSE "running"]
Service == INSTANCE TransferService WITH
             stage <- Stage, lease <- xconn, running <- alive,
             reports <- msglist
ImplementsService == Service!Spec

(* Liveness *)

\* A transfer ends that has a timeout, wherever it is, and one to a host none
\* of whose transfers may be silent: it is served, in the end, if it is queued.
TransfersEnd ==
  \A x \in Timed \cup {y \in Easy : \A z \in Silent : HostOf[z] # HostOf[y]} :
    x \in added ~> x \in msgsent \/ x \notin added
=============================================================================
