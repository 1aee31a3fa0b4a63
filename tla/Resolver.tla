------------------------------ MODULE Resolver ------------------------------
(***************************************************************************)
(* Name resolution in libcurl: the threaded resolver (asyn-thrdd.c), the   *)
(* DNS-over-HTTPS answers as the resolver sees them (doh.c), and the DNS   *)
(* cache with its reference counted entries (hostip.c).                    *)
(*                                                                         *)
(* One application thread runs libcurl.  A call it makes is a sequence of  *)
(* small steps, `call.todo', because a resolver thread may run between any *)
(* two of them; only the app thread touches handles, cache and entries, so *)
(* the steps in between that do not meet a lookup are left together.       *)
(***************************************************************************)
EXTENDS Naturals, FiniteSets, Sequences

CONSTANTS
  Users,        \* easy handles
  Hosts,        \* cache ids: a host name with its port
  Lookups,      \* addr_ctx objects calloc can deliver: a bound
  Entries,      \* DNS entries calloc can deliver: a bound
  Answers,      \* the sets of address families a name server may answer with
  WantOf,       \* WantOf[u]: the CURLOPT_IPRESOLVE of the handle
  DohUsers,     \* handles with CURLOPT_DOH_URL
  BlockingUsers,\* handles that resolve a second name and wait for it (FTP)
  MaxTurns,     \* bound: resolves, preloads, resets and expiries in a behaviour
  Nil           \* no object

Families == {"v4", "v6"}

\* what is assumed of the constants
ResolverConstants ==
  /\ IsFiniteSet(Users)
  /\ Answers \subseteq SUBSET Families
  /\ DohUsers \subseteq Users /\ BlockingUsers \subseteq Users
  /\ WantOf \in [Users -> Families \cup {"any"}]
  /\ MaxTurns \in Nat
  /\ Nil \notin Lookups \cup Entries \cup Users

ASSUME ResolverAssumption == ResolverConstants

VARIABLES
  lookup,   \* lookup[c]: struct async_thrdd_addr_ctx
  thread,   \* thread[c]: where the resolver thread of c is
  entry,    \* entry[e]: struct Curl_dns_entry
  cache,    \* cache[h]: the entry the hash table holds for h
  user,     \* user[u]: the resolver state of an easy handle
  turns,    \* how many of these there were
  call      \* the libcurl call the application thread is in

resolverVars == <<lookup, thread, entry, cache, user, turns, call>>

Unused == [st |-> "unused", refs |-> 0, host |-> Nil, fam |-> {}, stale |-> FALSE, perm |-> FALSE]
NoLookup == [st |-> "unused", refs |-> 0, abort |-> FALSE, done |-> FALSE, handle |-> "null",
             res |-> {}, want |-> "any"]
Freed(object) == [object EXCEPT !.st = "freed"]

Idle == [who |-> Nil, mode |-> "none", host |-> Nil, todo |-> <<>>, done |-> FALSE, dns |-> Nil]

Init ==
  /\ lookup = [c \in Lookups |-> NoLookup]
  /\ thread = [c \in Lookups |-> "none"]
  /\ entry = [e \in Entries |-> Unused]
  /\ cache = [h \in Hosts |-> Nil]
  /\ user = [u \in Users |-> [st |-> "idle", ctx |-> Nil, dns |-> Nil, host |-> Nil, doh |-> "none", slot |-> <<Nil, Nil>>]]
  /\ turns = 0
  /\ call = Idle

\* what a query may yield: the hints ask for one family only, or for any
AnswersFor(want) == IF want = "any" THEN Answers ELSE {{}, {want}}

\* the same over HTTPS: A is always asked for, AAAA unless only IPv4 is wanted,
\* and all that is answered is kept
DohAnswersFor(want) == IF want = "v4" THEN {{}, {"v4"}} ELSE Answers

-----------------------------------------------------------------------------
(* The DNS cache.  All of it runs in the application thread. *)

\* Curl_resolv_unlink and dnscache_entry_dtor: give up one reference
Drop(ents, e) ==
  IF e = Nil THEN ents
  ELSE [ents EXCEPT ![e] = IF ents[e].refs = 1 THEN Freed(Unused)
                            ELSE [ents[e] EXCEPT !.refs = @ - 1]]

\* calloc: which object it delivers makes no difference; {} once the bound is reached
Calloc(objects) ==
  LET unused == {o \in DOMAIN objects : objects[o].st = "unused"}
  IN  IF unused = {} THEN {} ELSE {CHOOSE o \in unused : TRUE}

\* Curl_dnscache_mk_entry: the cache's own reference is the first one
NewEntry(h, fam, perm) ==
  [st |-> "live", refs |-> 1, host |-> h, fam |-> fam, stale |-> FALSE, perm |-> perm]

\* Bug variant: any family will do.
UsableAny(e, want) == ~entry[e].stale

\* fetch_addr: an entry that is stale or lacks the wanted family leaves the cache
Usable(e, want) == ~entry[e].stale /\ (want = "any" \/ want \in entry[e].fam)
Fetched(h, want) ==
  IF cache[h] # Nil /\ Usable(cache[h], want) THEN cache[h] ELSE Nil

\* what remains of the entries once fetch_addr has looked for h
Zapped(h, want) == IF Fetched(h, want) = Nil THEN Drop(entry, cache[h]) ELSE entry

\* Curl_dnscache_get: the caller owns one more reference on a hit
Fetch(h, want) ==
  /\ cache' = [cache EXCEPT ![h] = Fetched(h, want)]
  /\ entry' = IF Fetched(h, want) = Nil THEN Zapped(h, want)
              ELSE [entry EXCEPT ![cache[h]].refs = @ + 1]

\* Curl_hash_add: a value already stored under the key is destroyed
AddToCache(ents, e, new) ==
  /\ entry' = [Drop(ents, cache[new.host]) EXCEPT ![e] = new]
  /\ cache' = [cache EXCEPT ![new.host] = e]

-----------------------------------------------------------------------------
(* Steps of the resolver thread: getaddrinfo_thread and addr_ctx_unlink. *)

Go(c, pc) == thread' = [thread EXCEPT ![c] = pc]

\* reads do_abort under the mutex
ThreadStart(c) ==
  /\ thread[c] = "start"
  /\ Go(c, IF lookup[c].abort THEN "unlink" ELSE "lookup")
  /\ UNCHANGED <<lookup, entry, cache, user, turns, call>>

\* Bug variant: thrd_done is set before the thread is at its end.
ThreadLookupDone(c) ==
  /\ thread[c] = "lookup"
  /\ \E r \in AnswersFor(lookup[c].want) : lookup' = [lookup EXCEPT ![c].res = r, ![c].done = TRUE]
  /\ Go(c, IF lookup[c].abort THEN "unlink" ELSE "notify")
  /\ UNCHANGED <<entry, cache, user, turns, call>>

\* Curl_getaddrinfo_ex returns, `res' is written with no lock held, and
\* do_abort is read again under the mutex
ThreadLookup(c) ==
  /\ thread[c] = "lookup"
  /\ \E r \in AnswersFor(lookup[c].want) : lookup' = [lookup EXCEPT ![c].res = r]
  /\ Go(c, IF lookup[c].abort THEN "unlink" ELSE "notify")
  /\ UNCHANGED <<entry, cache, user, turns, call>>

\* Bug variant: thrd_done is not set.
ThreadUnlinkSilent(c) ==
  /\ thread[c] \in {"notify", "unlink"}
  /\ lookup' = [lookup EXCEPT ![c].refs = @ - 1]
  /\ Go(c, IF lookup[c].refs = 1 THEN "free" ELSE "exit")
  /\ UNCHANGED <<entry, cache, user, turns, call>>

\* addr_ctx_unlink(&addr_ctx, NULL): thrd_done and the reference go together.
\* From "notify" the socket pair is written first, after the mutex was released.
ThreadUnlink(c) ==
  /\ thread[c] \in {"notify", "unlink"}
  /\ lookup' = [lookup EXCEPT ![c].done = TRUE, ![c].refs = @ - 1]
  /\ Go(c, IF lookup[c].refs = 1 THEN "free" ELSE "exit")
  /\ UNCHANGED <<entry, cache, user, turns, call>>

\* the last reference was the thread's: mutex, sockets and memory go
ThreadFree(c) ==
  /\ thread[c] = "free"
  /\ lookup' = [lookup EXCEPT ![c] = [Freed(NoLookup) EXCEPT !.handle = lookup[c].handle]]
  /\ Go(c, "ended")
  /\ UNCHANGED <<entry, cache, user, turns, call>>

ThreadExit(c) ==
  /\ thread[c] = "exit"
  /\ Go(c, "ended")
  /\ UNCHANGED <<lookup, entry, cache, user, turns, call>>

Thread(c) ==
  ThreadStart(c) \/ ThreadLookup(c) \/ ThreadUnlink(c) \/ ThreadFree(c) \/ ThreadExit(c)

-----------------------------------------------------------------------------
(* The steps calls are made of.  A step is done when it is the head of     *)
(* call.todo; Then puts the steps that follow in front of the rest.        *)

\* Bug variant: the thread handle is neither joined nor detached.
DestroyForgets == <<"mark", "unlink">>

ShutdownThread == <<"mark", "join">>                    \* async_thrdd_shutdown
Shutdown       == <<"mark", "joinForget">>              \* Curl_async_shutdown
Destroy        == <<"mark", "joinOrDetach", "unlink">>  \* async_thrdd_destroy

Me == call.who
Ctx == user[Me].ctx
At(step) == call.todo # <<>> /\ Head(call.todo) = step

Continue(steps, done, dns) ==
  call' = IF steps = <<>> THEN Idle
          ELSE [call EXCEPT !.todo = steps, !.done = done, !.dns = dns]
Holding(e, steps) == Continue(steps \o Tail(call.todo), call.done, e)
Then(steps) == Holding(call.dns, steps)

\* a call is made: the application thread is in no other
Enter(u, mode, host, steps, e) ==
  /\ call = Idle
  /\ call' = [Idle EXCEPT !.who = u, !.mode = mode, !.host = host, !.todo = steps, !.dns = e]

HasHandle == Ctx # Nil /\ lookup[Ctx].handle = "held"

\* do_abort is set and thrd_done read in one critical section
Mark ==
  /\ At("mark")
  /\ lookup' = IF HasHandle THEN [lookup EXCEPT ![Ctx].abort = TRUE] ELSE lookup
  /\ Continue(Tail(call.todo), HasHandle /\ lookup[Ctx].done, call.dns)
  /\ UNCHANGED <<thread, entry, cache, user>>

\* Curl_thread_join returns when the thread has ended
Join == thread[Ctx] = "ended" /\ lookup' = [lookup EXCEPT ![Ctx].handle = "joined"]

\* The wait of async_thrdd_shutdown; Curl_async_shutdown then drops the DoH
\* probes and the hostname of the query
Forgotten == [user EXCEPT ![Me].doh = "none", ![Me].host = Nil]

JoinIfDone ==
  /\ At("join") \/ At("joinForget")
  /\ IF HasHandle /\ call.done THEN Join ELSE UNCHANGED lookup
  /\ user' = IF At("joinForget") THEN Forgotten ELSE user
  /\ Continue(Tail(call.todo), FALSE, call.dns)
  /\ UNCHANGED <<thread, entry, cache>>

JoinOrDetach ==
  /\ At("joinOrDetach")
  /\ IF HasHandle /\ call.done THEN Join
     ELSE lookup' = IF HasHandle THEN [lookup EXCEPT ![Ctx].handle = "detached"] ELSE lookup
  /\ Continue(Tail(call.todo), FALSE, call.dns)
  /\ UNCHANGED <<thread, entry, cache, user>>

\* the wait of asyn_thrdd_await, however long the lookup takes
JoinAlways ==
  /\ At("joinAlways")
  /\ IF HasHandle THEN Join ELSE UNCHANGED lookup
  /\ Continue(Tail(call.todo), FALSE, call.dns)
  /\ UNCHANGED <<thread, entry, cache, user>>

\* addr_ctx_unlink(&thrdd->addr, data); the freeing follows the unlock
Unlink ==
  /\ At("unlink")
  /\ lookup' = IF Ctx = Nil THEN lookup
               ELSE [lookup EXCEPT ![Ctx].refs = @ - 1]
  /\ user' = IF Ctx # Nil /\ lookup[Ctx].refs > 1 THEN [user EXCEPT ![Me].ctx = Nil] ELSE user
  /\ Then(IF Ctx # Nil /\ lookup[Ctx].refs = 1 THEN <<"free">> ELSE <<>>)
  /\ UNCHANGED <<thread, entry, cache>>

Free ==
  /\ At("free")
  /\ lookup' = [lookup EXCEPT ![Ctx] = [Freed(NoLookup) EXCEPT !.handle = lookup[Ctx].handle]]
  /\ user' = [user EXCEPT ![Me].ctx = Nil]
  /\ Then(<<>>)
  /\ UNCHANGED <<thread, entry, cache>>

\* async_thrdd_init; a thread that cannot be created leaves the context to Destroy
Create ==
  /\ At("create")
  /\ \/ \E c \in Calloc(lookup), started \in BOOLEAN :
          /\ lookup' = [lookup EXCEPT ![c] =
               [st |-> "live", refs |-> IF started THEN 2 ELSE 1, abort |-> FALSE,
                done |-> ~started, handle |-> IF started THEN "held" ELSE "null",
                res |-> {}, want |-> WantOf[Me]]]
          /\ Go(c, IF started THEN "start" ELSE "none")
          /\ user' = [user EXCEPT ![Me].ctx = c, ![Me].dns = Nil,
                                  ![Me].host = call.host]
          /\ Then(IF started THEN <<"check">> ELSE Destroy \o Shutdown \o <<"negative", "lost">>)
     \/ /\ Calloc(lookup) = {}                                    \* out of memory
        /\ user' = [user EXCEPT ![Me].dns = Nil, ![Me].host = call.host]
        /\ Then(Destroy \o Shutdown \o <<"negative", "lost">>)
        /\ UNCHANGED <<lookup, thread>>
  /\ UNCHANGED <<entry, cache>>

\* Curl_doh starts the probes; async.dns keeps what it was.  When one cannot be
\* started, out of memory or by a bad URL, the others are dropped and Curl_resolv fails
StartDoh ==
  /\ At("doh")
  /\ \E doh \in {"pending", "none"} :
       /\ user' = [user EXCEPT ![Me].doh = doh, ![Me].host = call.host]
       /\ Then(IF doh = "pending" THEN <<"check">> ELSE Shutdown \o <<"negative", "lost">>)
  /\ UNCHANGED <<lookup, thread, entry, cache>>

\* Curl_resolv_check, first half: somebody else may have resolved the name
Check ==
  /\ At("check")
  /\ Fetch(user[Me].host, WantOf[Me])
  /\ LET e == Fetched(user[Me].host, WantOf[Me])
     IN  IF e # Nil
         THEN /\ user' = [user EXCEPT ![Me].dns = e]
              /\ Holding(e, Shutdown \o <<"deliver">>)
         ELSE /\ Then(IF user[Me].doh = "none" THEN <<"isResolved">> ELSE <<"isDohResolved">>)
              /\ UNCHANGED user
  /\ UNCHANGED <<lookup, thread>>

\* what follows a failure, by the caller of Curl_resolv_check
AfterFailure(noSuchHost) ==
  (IF noSuchHost THEN <<"negative">> ELSE <<>>) \o
  (IF call.mode = "poll" THEN <<"lost">> ELSE Shutdown \o <<"negative", "lost">>)

\* no answer yet: Curl_resolv returns CURLE_AGAIN, a blocking caller waits
NotYet ==
  /\ Then(IF call.mode = "blocking" THEN <<"joinAlways", "awaited">> ELSE <<>>)
  /\ user' = IF call.mode = "connect" THEN [user EXCEPT ![Me].st = "resolving"] ELSE user
  /\ UNCHANGED <<entry, cache>>

\* an answer becomes an entry: one reference for the cache, one handed out.
\* What async.dns referred to before is given up.
Answered(fam, found, missing, nomem) ==
  \/ /\ fam # {}
     /\ \E e \in Calloc(entry) :
          /\ AddToCache(Drop(entry, user[Me].dns), e,
                        [NewEntry(user[Me].host, fam, FALSE) EXCEPT !.refs = 2])
          /\ user' = [user EXCEPT ![Me].dns = e, ![Me].doh = "none"]
          /\ Holding(e, found)
  \/ /\ fam = {} \/ Calloc(entry) = {}
     /\ entry' = Drop(entry, user[Me].dns)
     /\ user' = [user EXCEPT ![Me].dns = Nil, ![Me].doh = "none"]
     /\ Then(IF fam = {} THEN missing ELSE nomem)
     /\ UNCHANGED cache

\* Curl_async_is_resolved, from Curl_resolv_check
IsResolved ==
  /\ At("isResolved")
  /\ IF lookup[Ctx].done
     THEN /\ Answered(lookup[Ctx].res, ShutdownThread \o <<"deliver">>,
                      ShutdownThread \o AfterFailure(TRUE), ShutdownThread \o AfterFailure(FALSE))
          /\ lookup' = [lookup EXCEPT ![Ctx].res = {}]
     ELSE NotYet /\ UNCHANGED lookup
  /\ UNCHANGED thread

\* the same from asyn_thrdd_await: no negative entry is stored here
Awaited ==
  /\ At("awaited")
  /\ Answered(lookup[Ctx].res, ShutdownThread \o <<"deliver">>,
              ShutdownThread \o <<"lost">>, ShutdownThread \o <<"lost">>)
  /\ lookup' = [lookup EXCEPT ![Ctx].res = {}]
  /\ UNCHANGED thread

\* Curl_doh_is_resolved
IsDohResolved ==
  /\ At("isDohResolved")
  /\ IF user[Me].doh = "answered"
     THEN \E fam \in DohAnswersFor(WantOf[Me]) :
            Answered(fam,
                     <<"deliver">>, AfterFailure(TRUE), AfterFailure(FALSE))
     ELSE NotYet
  /\ UNCHANGED <<lookup, thread>>

\* store_negative_resolve
Negative ==
  /\ At("negative")
  /\ \/ \E e \in Calloc(entry) : AddToCache(entry, e, NewEntry(call.host, {}, FALSE))
     \/ Calloc(entry) = {} /\ UNCHANGED <<entry, cache>>             \* out of memory
  /\ Then(<<>>)
  /\ UNCHANGED <<lookup, thread, user>>

\* Curl_conn_setup takes the reference into data->state.dns; with a failing
\* setup it gives it up again, as FTP PORT does after use.  state_resolving
\* has cleared async.dns first (Curl_once_resolved).
Deliver ==
  /\ At("deliver")
  /\ LET i == IF call.mode = "blocking" THEN 2 ELSE 1
         settled == [user EXCEPT ![Me].dns = IF call.mode = "poll" THEN Nil ELSE @]
     IN  \/ /\ entry' = Drop(entry, user[Me].slot[i])
            /\ user' = [settled EXCEPT ![Me].slot[i] = call.dns, ![Me].st = "resolved"]
         \/ /\ entry' = Drop(Drop(entry, user[Me].slot[i]), call.dns)
            /\ user' = [settled EXCEPT ![Me].slot[i] = Nil,
                         ![Me].st = IF call.mode = "blocking" THEN "ending" ELSE "idle"]
         \/ /\ call.mode = "blocking"
            /\ entry' = Drop(entry, call.dns)
            /\ UNCHANGED user
  /\ Holding(Nil, <<>>)
  /\ UNCHANGED <<lookup, thread, cache>>

\* Curl_connect has closed the connection; later failures leave that to multi_done
Lost ==
  /\ At("lost")
  /\ user' = [user EXCEPT ![Me].st = IF call.mode = "connect" THEN "idle" ELSE "ending"]
  /\ Then(<<>>)
  /\ UNCHANGED <<lookup, thread, entry, cache>>

\* Both references of a transfer are given up: multi_done_locked (which then
\* prunes the cache, Curl_dnscache_prune), Curl_close, curl_easy_reset
Released == Drop(Drop(entry, user[Me].slot[1]), user[Me].slot[2])
StaleHosts == {h \in Hosts : cache[h] # Nil /\ entry[cache[h]].stale}

Release ==
  /\ At("release")
  /\ LET pruned == IF call.mode = "done" THEN StaleHosts ELSE {}
     IN  /\ cache' = [h \in Hosts |-> IF h \in pruned THEN Nil ELSE cache[h]]
         /\ entry' = [e \in Entries |->
              IF \E h \in pruned : cache[h] = e THEN Drop(Released, e)[e] ELSE Released[e]]
  /\ user' = [Forgotten EXCEPT ![Me].slot = <<Nil, Nil>>,
                               ![Me].st = IF call.mode = "close" THEN "closed" ELSE "idle"]
  /\ Then(<<>>)
  /\ UNCHANGED <<lookup, thread>>

\* multi_done_locked returns early: others still use the connection
KeepAll ==
  /\ At("keep")
  /\ user' = [user EXCEPT ![Me].st = "idle"]
  /\ Then(<<>>)
  /\ UNCHANGED <<lookup, thread, entry, cache>>

CallStep ==
  /\ UNCHANGED turns
  /\ \/ Mark \/ JoinIfDone \/ JoinOrDetach \/ JoinAlways \/ Unlink \/ Free
     \/ Create \/ StartDoh \/ Check \/ IsResolved \/ Awaited \/ IsDohResolved
     \/ Negative \/ Deliver \/ Lost \/ Release \/ KeepAll

-----------------------------------------------------------------------------
(* The calls. *)

Turn == turns < MaxTurns /\ turns' = turns + 1

\* Curl_resolv: a negative entry is a failure at once
Resolv(u, h, mode) ==
  LET e == Fetched(h, WantOf[u])
  IN  /\ Turn
      /\ IF e = Nil \/ entry[e].fam = {}
         THEN /\ entry' = Zapped(h, WantOf[u])
              /\ cache' = [cache EXCEPT ![h] = e]
              /\ Enter(u, mode, h,
                   IF e # Nil THEN <<"lost">>
                   ELSE IF u \in DohUsers /\ mode = "connect" THEN <<"doh">>
                   ELSE (IF user[u].ctx = Nil THEN <<>> ELSE Destroy) \o <<"create">>, Nil)
         ELSE Fetch(h, WantOf[u]) /\ Enter(u, mode, h, <<"deliver">>, e)
      /\ UNCHANGED <<lookup, thread, user>>

\* Curl_connect, MSTATE_CONNECT
Connect(u) == user[u].st = "idle" /\ \E h \in Hosts : Resolv(u, h, "connect")

\* Curl_resolv_blocking for a data connection
ResolvBlocking(u) ==
  /\ u \in BlockingUsers /\ user[u].st = "resolved"
  /\ \E h \in Hosts : Resolv(u, h, "blocking")

\* state_resolving: EXPIRE_ASYNC_NAME or the socket pair calls it again and again
Poll(u) ==
  /\ user[u].st = "resolving"
  /\ Enter(u, "poll", user[u].host, <<"check">>, Nil)
  /\ UNCHANGED <<lookup, thread, entry, cache, user, turns>>

\* multi_done; nothing is released while others use the connection
Done(u) ==
  /\ user[u].st \in {"resolving", "resolved", "ending"}
  /\ \E inUse \in BOOLEAN :
       Enter(u, "done", Nil, Shutdown \o (IF inUse THEN <<"keep">> ELSE <<"release">>), Nil)
  /\ UNCHANGED <<lookup, thread, entry, cache, user, turns>>

\* Curl_close: waits for the thread unless CURLOPT_QUICK_EXIT
Close(u) ==
  /\ user[u].st = "idle"
  /\ \E quick \in BOOLEAN :
       Enter(u, "close", Nil, (IF quick THEN <<>> ELSE ShutdownThread \o <<"joinAlways">>)
                              \o Destroy \o <<"release">>, Nil)
  /\ UNCHANGED <<lookup, thread, entry, cache, user, turns>>

\* curl_easy_reset
Reset(u) ==
  /\ user[u].st = "idle" /\ Turn
  /\ Enter(u, "reset", Nil, Shutdown \o <<"release">>, Nil)
  /\ UNCHANGED <<lookup, thread, entry, cache, user>>

\* Curl_loadhostpairs (CURLOPT_RESOLVE), run by a transfer about to start
Preload(h) ==
  /\ call = Idle /\ \E u \in Users : user[u].st = "idle"
  /\ Turn
  /\ \/ \E e \in Calloc(entry), fam \in Answers \ {{}}, perm \in BOOLEAN :
          AddToCache(entry, e, NewEntry(h, fam, perm))
     \/ /\ entry' = Drop(entry, cache[h])                       \* "-host:port"
        /\ cache' = [cache EXCEPT ![h] = Nil]
  /\ UNCHANGED <<lookup, thread, user, call>>

\* time passes: CURLOPT_DNS_CACHE_TIMEOUT; permanent entries have no timestamp
GetStale(h) ==
  /\ cache[h] # Nil
  /\ ~entry[cache[h]].perm /\ Turn
  /\ entry' = [entry EXCEPT ![cache[h]].stale = TRUE]
  /\ UNCHANGED <<lookup, thread, cache, user, call>>

\* doh_probe_done for the last probe; multi_done for the probe runs in this thread
DohAnswer(u) ==
  /\ user[u].doh = "pending" /\ call = Idle
  /\ user' = [user EXCEPT ![u].doh = "answered"]
  /\ UNCHANGED <<lookup, thread, entry, cache, turns, call>>

Next ==
  \/ \E c \in Lookups : Thread(c)
  \/ CallStep
  \/ \E u \in Users : Connect(u) \/ ResolvBlocking(u) \/ Poll(u) \/ Done(u) \/ Close(u)
                       \/ Reset(u) \/ DohAnswer(u)
  \/ \E h \in Hosts : Preload(h) \/ GetStale(h)

\* Threads run, a call goes on until it returns, and between the other calls of
\* the application a pending resolve is looked at again and again (its timer is
\* rearmed at each look) and the probes, transfers of the same multi, end.
Fairness ==
  /\ \A c \in Lookups : WF_resolverVars(Thread(c))
  /\ WF_resolverVars(CallStep)
  /\ \A u \in Users : SF_resolverVars(Poll(u)) /\ SF_resolverVars(DohAnswer(u))

Spec == Init /\ [][Next]_resolverVars /\ Fairness

-----------------------------------------------------------------------------
TypeOK ==
  /\ lookup \in [Lookups -> [st : {"unused", "live", "freed"}, refs : 0..2, abort : BOOLEAN,
        done : BOOLEAN, handle : {"null", "held", "joined", "detached"},
        res : SUBSET Families, want : Families \cup {"any"}]]
  /\ thread \in [Lookups -> {"none", "start", "lookup", "notify", "unlink", "free",
                              "exit", "ended"}]
  /\ entry \in [Entries -> [st : {"unused", "live", "freed"}, refs : Nat,
        host : Hosts \cup {Nil}, fam : SUBSET Families, stale : BOOLEAN, perm : BOOLEAN]]
  /\ cache \in [Hosts -> Entries \cup {Nil}]
  /\ user \in [Users -> [st : {"idle", "resolving", "resolved", "ending", "closed"},
        ctx : Lookups \cup {Nil}, dns : Entries \cup {Nil},
        host : Hosts \cup {Nil}, doh : {"none", "pending", "answered"},
        slot : (Entries \cup {Nil}) \X (Entries \cup {Nil})]]
  /\ call.who \in Users \cup {Nil} /\ call.dns \in Entries \cup {Nil} /\ call.done \in BOOLEAN

\* A lookup is used by its thread and by the handle that started it: while
\* either may still touch it it is allocated, its count is the number of them,
\* and the one that gave up the last reference frees it (addr_ctx_unlink).
Running(c) == thread[c] \in {"start", "lookup", "notify", "unlink"}
Freeing(c) == thread[c] = "free" \/ (At("free") /\ Ctx = c)
HoldersOf(c) == {u \in Users : user[u].ctx = c /\ ~(At("free") /\ Me = u)}
                \cup {t \in {Nil} : Running(c)}

LookupShared ==
  \A c \in Lookups :
    /\ lookup[c].refs = Cardinality(HoldersOf(c))
    /\ lookup[c].st = "live" <=> HoldersOf(c) # {} \/ Freeing(c)

\* A thread handle is joined or detached before its context goes: no thread
\* is left unreaped, none is reaped twice.
ThreadReaped == \A c \in Lookups : lookup[c].st = "freed" => lookup[c].handle # "held"

\* Only closing a handle and a blocking resolve wait for a name server; every
\* other call joins a thread that has at most its last instruction to run.
NoWaitForLookup ==
  (At("join") \/ At("joinForget") \/ At("joinOrDetach")) /\ HasHandle /\ call.done
    => thread[Ctx] \in {"exit", "ended"}

\* Every reference to a DNS entry is counted, so no entry is freed that is in
\* use and none is left over.  async.dns owns nothing of its own.
SlotsOf(e) == {s \in Users \X {1, 2} : user[s[1]].slot[s[2]] = e}
EntriesCounted ==
  \A e \in Entries :
    LET held == Cardinality({h \in Hosts : cache[h] = e}) + Cardinality(SlotsOf(e))
                + (IF call.dns = e THEN 1 ELSE 0)
    IN  /\ entry[e].refs = held
        /\ entry[e].st = "live" <=> held > 0

\* Only the DNS-over-HTTPS query for IPv6 asks for a family that is not wanted.
AsksForIts(u) == WantOf[u] # "any" /\ ~(u \in DohUsers /\ WantOf[u] = "v6")

\* The addresses a connection is set up with are those of a family it asked for,
\* whoever's answer of whatever kind the cache held: but for a handle that asks
\* over HTTPS for IPv6 only, which may be given what the A query has found.
AnswerFits ==
  \A u \in Users : LET e == user[u].slot[1] IN
    e # Nil /\ AsksForIts(u) => WantOf[u] \in entry[e].fam

\* a lookup nobody waits for any more
Abandoned(c) == lookup[c].st = "live" /\ \A u \in Users : user[u].ctx # c

\* The memory of lookups, of DNS entries and of threads is given back once, after
\* the last use.
ReferencesCounted == LookupShared /\ ThreadReaped /\ EntriesCounted
=============================================================================
