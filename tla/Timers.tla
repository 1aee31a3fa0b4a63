--------------------------------- MODULE Timers ---------------------------------
(***************************************************************************)
(* Timers of a multi handle that is driven by events (lib/multi.c).  Each  *)
(* transfer keeps a list of its timers, the multi a tree with one time of  *)
(* each transfer (its splay tree, as the module Splay has it), and the     *)
(* application one timer for the earliest of them, which the timer         *)
(* callback sets.                                                          *)
(*                                                                         *)
(* Time is in units of which UnitsPerMs make a millisecond and UnitsPerSec *)
(* a second; lists compare times in milliseconds, the tree in units.  So a *)
(* list is in order to within a millisecond only, and a time in the tree   *)
(* may be replaced by one that is less than a millisecond later.           *)
(***************************************************************************)
EXTENDS Integers, Sequences, FiniteSets, FiniteSetsExt

CONSTANTS
  Handles,       \* transfers
  TimerChoices,  \* which timers (EXPIRE_*) each of them may use
  Delays,        \* delays of timers in milliseconds
  UnitsPerMs, UnitsPerSec,
  LastTime       \* bound: when the clock stops

\* what is assumed of the constants
TimersConstants ==
  /\ UnitsPerMs \in Nat \ {0} /\ UnitsPerSec \in Nat \ {0} /\ UnitsPerSec % UnitsPerMs = 0
  /\ LastTime \in Nat /\ Delays \subseteq Nat
  /\ \A choice \in TimerChoices : DOMAIN choice = Handles

VARIABLES
  timersOf,      \* the timers each transfer uses, which do not change
  clock,         \* the time now
  inside,        \* libcurl is running for the application
  timeoutlist,   \* each transfer's timers, as <<id, time>>
  expiretime,    \* each transfer's time in the tree, 0 without one
  due,           \* the transfers marked dirty
  asked,         \* when each timer was asked for, 0 if it is not
  moved,         \* how often each transfer's time in the tree was replaced by a later one
  appTimer,      \* when the application's timer fires, 0 without one
  lastExpire, lastTimeout   \* multi->last_expire_ts, and last_timeout_ms as whether it is not negative

timerVars == <<timersOf, clock, inside, timeoutlist, expiretime, due, asked, moved, appTimer, lastExpire, lastTimeout>>

\* curlx_timediff: whole seconds and the rest apart, each towards zero
TowardsZero(n, m) == IF n >= 0 THEN n \div m ELSE -((-n) \div m)
TimeDiff(new, old) ==
  ((new \div UnitsPerSec) - (old \div UnitsPerSec)) * (UnitsPerSec \div UnitsPerMs)
  + TowardsZero((new % UnitsPerSec) - (old % UnitsPerSec), UnitsPerMs)
\* Bug variant: the difference is rounded down.
TimeDiffDown(new, old) == TimeDiff(new, old)

\* curlx_timediff_ceil: exact within a second; over the end of one it may be up to
\* two milliseconds too much
TimeDiffCeil(new, old) ==
  ((new \div UnitsPerSec) - (old \div UnitsPerSec)) * (UnitsPerSec \div UnitsPerMs)
  + TowardsZero((new % UnitsPerSec) - (old % UnitsPerSec) + UnitsPerMs - 1, UnitsPerMs)

InTree == {h \in Handles : expiretime[h] # 0}
Earliest == Min({expiretime[h] : h \in InTree})

-----------------------------------------------------------------------------
\* Bug variant: the timer's old time stays in the list.
WithoutNone(list, id) == list

\* multi_deltimeout and multi_addtimeout: before the first timer that is later
Without(list, id) == SelectSeq(list, LAMBDA n : n[1] # id)
Later(list, i, time) == TimeDiff(list[i][2], time) > 0
Inserted(list, id, time) ==
  LET i == Min({j \in 1..Len(list) : Later(list, j, time)} \cup {Len(list) + 1})
  IN  SubSeq(list, 1, i - 1) \o << <<id, time>> >> \o SubSeq(list, i, Len(list))

\* Bug variant: an earlier timer does not replace the one in the tree.
ReplacesNever(time, current) == current = 0

\* the tree keeps its time if the new one is later
Replaces(time, current) == current = 0 \/ TimeDiff(time, current) <= 0

\* add_next_timeout: what is over leaves the list, its new head goes into the tree
Expired(list, now) == Min({j \in 1..Len(list) : list[j][2] > now} \cup {Len(list) + 1}) - 1
NextList(list, now) == SubSeq(list, Expired(list, now) + 1, Len(list))
HeadTime(list) == IF list = <<>> THEN 0 ELSE list[1][2]

Init ==
  /\ timersOf \in TimerChoices
  /\ clock = 1 /\ inside = FALSE
  /\ timeoutlist = [h \in Handles |-> <<>>] /\ expiretime = [h \in Handles |-> 0] /\ due = {}
  /\ asked = [h \in Handles |-> [id \in timersOf[h] |-> 0]] /\ moved = [h \in Handles |-> 0]
  /\ appTimer = 0 /\ lastExpire = 0 /\ lastTimeout = FALSE

ClockTicks ==
  /\ clock < LastTime
  /\ clock' = clock + 1
  /\ UNCHANGED <<timersOf, inside, timeoutlist, expiretime, due, asked, moved, appTimer, lastExpire, lastTimeout>>

\* Curl_expire_ex
Expire(h, id, ms) ==
  LET time == clock + ms * UnitsPerMs
  IN  /\ inside
      /\ timeoutlist' = [timeoutlist EXCEPT ![h] = Inserted(Without(@, id), id, time)]
      /\ expiretime' = [expiretime EXCEPT ![h] = IF Replaces(time, @) THEN time ELSE @]
      /\ asked' = [asked EXCEPT ![h][id] = time]
      /\ moved' = [moved EXCEPT ![h] = IF expiretime[h] # 0 /\ expiretime'[h] > expiretime[h] THEN @ + 1 ELSE @]
      /\ UNCHANGED <<timersOf, clock, inside, due, appTimer, lastExpire, lastTimeout>>

\* Curl_expire_done
ExpireDone(h, id) ==
  /\ inside
  /\ timeoutlist' = [timeoutlist EXCEPT ![h] = Without(@, id)]
  /\ asked' = [asked EXCEPT ![h][id] = 0]
  /\ UNCHANGED <<timersOf, clock, inside, expiretime, due, moved, appTimer, lastExpire, lastTimeout>>

\* Curl_expire_clear
ExpireClear(h) ==
  /\ inside /\ expiretime[h] # 0
  /\ timeoutlist' = [timeoutlist EXCEPT ![h] = <<>>]
  /\ expiretime' = [expiretime EXCEPT ![h] = 0]
  /\ asked' = [asked EXCEPT ![h] = [id \in timersOf[h] |-> 0]]
  /\ moved' = [moved EXCEPT ![h] = 0]
  /\ UNCHANGED <<timersOf, clock, inside, due, appTimer, lastExpire, lastTimeout>>

-----------------------------------------------------------------------------
\* multi_mark_expired_as_dirty
MarkExpired ==
  LET over == {h \in InTree : expiretime[h] <= clock}
  IN  /\ timeoutlist' = [h \in Handles |-> IF h \in over THEN NextList(timeoutlist[h], clock) ELSE timeoutlist[h]]
      /\ expiretime' = [h \in Handles |-> IF h \in over THEN HeadTime(timeoutlist'[h]) ELSE expiretime[h]]
      /\ due' = due \cup over
      /\ moved' = [h \in Handles |-> IF h \in over THEN 0 ELSE moved[h]]
      /\ asked' = [h \in Handles |-> [id \in timersOf[h] |->
                     IF h \in over /\ asked[h][id] <= clock THEN 0 ELSE asked[h][id]]]

\* Bug variant: the time the application's timer was set to is not forgotten.
ForgetNot(last) == last

\* The application's timer fires, once, and curl_multi_socket_action is called; the
\* memory of what the timer was set to is cleared.
Forget(last) == 0
TimerFires ==
  /\ ~inside /\ inside' = TRUE
  /\ appTimer # 0 /\ appTimer <= clock /\ appTimer' = 0
  /\ lastExpire' = Forget(lastExpire)
  /\ MarkExpired
  /\ UNCHANGED <<timersOf, clock, lastTimeout>>

\* curl_multi_socket_action for a socket, which clears nothing
SocketActs ==
  /\ ~inside /\ inside' = TRUE
  /\ MarkExpired
  /\ UNCHANGED <<timersOf, clock, appTimer, lastExpire, lastTimeout>>

\* multi_run_dirty and the second round of it, with new expired timers
RunDirty(h) ==
  /\ inside /\ h \in due
  /\ due' = due \ {h}
  /\ UNCHANGED <<timersOf, clock, inside, timeoutlist, expiretime, asked, moved, appTimer, lastExpire, lastTimeout>>
MarkAgain ==
  /\ inside /\ due = {} /\ MarkExpired
  /\ UNCHANGED <<timersOf, clock, inside, appTimer, lastExpire, lastTimeout>>

\* Curl_update_timer, at the end: multi_timeout, and the callback if it changed
Leave ==
  /\ inside /\ inside' = FALSE
  /\ LET set(expire, wait) ==
           IF lastTimeout /\ lastExpire = expire THEN UNCHANGED <<appTimer, lastExpire, lastTimeout>>
           ELSE appTimer' = clock + wait /\ lastExpire' = expire /\ lastTimeout' = TRUE
     IN  CASE due # {} -> set(clock, 0)
           [] due = {} /\ InTree # {} ->
                set(Earliest, IF Earliest > clock THEN TimeDiffCeil(Earliest, clock) * UnitsPerMs ELSE 0)
           [] OTHER -> IF lastTimeout THEN appTimer' = 0 /\ lastExpire' = 0 /\ lastTimeout' = FALSE
                       ELSE UNCHANGED <<appTimer, lastExpire, lastTimeout>>
  /\ UNCHANGED <<timersOf, clock, timeoutlist, expiretime, due, asked, moved>>

Next ==
  \/ ClockTicks \/ TimerFires \/ SocketActs \/ MarkAgain \/ Leave
  \/ \E h \in Handles : \/ ExpireClear(h) \/ RunDirty(h)
                        \/ \E id \in timersOf[h] : ExpireDone(h, id) \/ \E ms \in Delays : Expire(h, id, ms)

Spec == Init /\ [][Next]_timerVars

-----------------------------------------------------------------------------
TypeOK ==
  /\ timersOf \in TimerChoices /\ clock \in 1..LastTime /\ inside \in BOOLEAN /\ due \subseteq Handles
  /\ \A h \in Handles : Len(timeoutlist[h]) <= Cardinality(timersOf[h])
  /\ lastTimeout \in BOOLEAN

Listed(h, id, time) == \E i \in 1..Len(timeoutlist[h]) : timeoutlist[h][i] = <<id, time>>

\* A timer that was asked for is kept until it is over, and the tree has a time for
\* its transfer that is not a millisecond too late: not one more, that is, than the
\* times the tree's own time was replaced by a later one since it came from the list.
TimersKept ==
  \A h \in Handles : \A id \in timersOf[h] :
    asked[h][id] # 0 =>
      /\ Listed(h, id, asked[h][id])
      /\ expiretime[h] # 0 /\ expiretime[h] < asked[h][id] + (moved[h] + 1) * UnitsPerMs

\* While the application waits, its timer is set to within two milliseconds of the
\* earliest time in the tree and not before it, where the application would be woken
\* to find nothing; and to fire within two milliseconds if transfers are to run.
AppTimerSet ==
  ~inside => /\ InTree # {} => appTimer # 0 /\ appTimer < Max({Earliest, clock}) + 2 * UnitsPerMs
             /\ InTree # {} /\ due = {} => appTimer >= Earliest
             /\ due # {} => appTimer # 0 /\ appTimer < clock + 2 * UnitsPerMs
=============================================================================
