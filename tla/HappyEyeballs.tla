--------------------------- MODULE HappyEyeballs ----------------------------
(***************************************************************************)
(* The filter that connects a host with several addresses                  *)
(* (lib/cf-ip-happy.c).  Attempts of the two address families are started  *)
(* one after the other, a delay apart, and race; the first to connect wins *)
(* and the others are closed.                                              *)
(*                                                                         *)
(* cf_ip_ballers_run evaluates again after each attempt it starts.  An     *)
(* evaluation is one step here, and the network may answer in between.     *)
(* Its timer counts down to 0, the time of EXPIRE_HAPPY_EYEBALLS.          *)
(***************************************************************************)
EXTENDS HappyEyeballsState

NextOf(f) == CHOOSE a \in After(f) : \A b \in After(f) : a <= b

Init ==
  /\ addrs \in AddressLists /\ ipVersion \in IpVersions
  /\ race = "init"
  /\ iter = [f \in Family |-> 0]
  /\ attempts = <<>> /\ winner = 0
  /\ net = [a \in DOMAIN addrs |-> "none"]
  /\ since = 0 /\ lastFamily = "v4"
  /\ timer = Unarmed /\ restarts = 0

\* start_connect, or any later call of cf_ip_happy_connect
Call ==
  /\ race \in {"init", "waiting"}
  /\ race' = "evaluate"
  /\ UNCHANGED <<addrs, ipVersion, iter, attempts, winner, net, since, lastFamily, timer, restarts>>

-----------------------------------------------------------------------------
(* One evaluation.  cf_ip_attempt_connect asks every attempt that has no   *)
(* result yet.                                                             *)

Connects(i) == attempts[i].st = "ongoing" /\ net[attempts[i].addr] = "up"

\* the results once all attempts were asked
Asked ==
  [i \in DOMAIN attempts |->
     IF attempts[i].st # "ongoing" THEN attempts[i]
     ELSE [attempts[i] EXCEPT !.st = CASE net[attempts[i].addr] = "refused" -> "failed"
                                       [] net[attempts[i].addr] = "weird" -> "inconclusive"
                                       [] OTHER -> "ongoing"]]
Ongoing == {i \in DOMAIN Asked : Asked[i].st = "ongoing"}
Inconclusive == {i \in DOMAIN Asked : Asked[i].st = "inconclusive"}

\* Bug variant: the others stay open.
WinKeepsOthers ==
  /\ race = "evaluate"
  /\ \E i \in DOMAIN attempts :
       /\ Connects(i) /\ \A j \in 1..(i - 1) : ~Connects(j)
       /\ winner' = attempts[i].addr
  /\ race' = "done"
  /\ attempts' = <<>>
  /\ timer' = Unarmed
  /\ UNCHANGED <<addrs, ipVersion, iter, net, since, lastFamily, restarts>>

\* The first that is connected wins; cf_ip_happy_connect installs its filter,
\* closes the others and takes the timer down.
Win ==
  /\ race = "evaluate"
  /\ \E i \in DOMAIN attempts :
       /\ Connects(i) /\ \A j \in 1..(i - 1) : ~Connects(j)
       /\ winner' = attempts[i].addr
       /\ net' = [a \in DOMAIN net |-> IF a # attempts[i].addr /\ net[a] # "none" THEN "closed" ELSE net[a]]
  /\ race' = "done"
  /\ attempts' = <<>>
  /\ timer' = Unarmed
  /\ UNCHANGED <<addrs, ipVersion, iter, since, lastFamily, restarts>>

NobodyConnects == race = "evaluate" /\ \A i \in DOMAIN attempts : ~Connects(i)

\* no attempt is under way, or the delay is over and there is another address
DoMore == Ongoing = {} \/ (MorePossible /\ since >= AttemptDelay)

\* IPv6 is next after IPv4, and when there is no more IPv4
NextFamily == IF (lastFamily = "v4" \/ ~HasMore("v4")) /\ HasMore("v6") THEN "v6" ELSE "v4"

\* cf_ip_attempt_new; the socket may answer or fail at once
StartNext ==
  /\ NobodyConnects /\ DoMore /\ HasMore(NextFamily)
  /\ LET a == NextOf(NextFamily)
     IN  /\ attempts' = Append(Asked, [addr |-> a, st |-> "ongoing"])
         /\ iter' = [iter EXCEPT ![NextFamily] = a]
         /\ \E n \in {"pending", "up", "refused", "weird"} : net' = [net EXCEPT ![a] = n]
  /\ lastFamily' = NextFamily
  /\ since' = 0
  /\ UNCHANGED <<addrs, ipVersion, race, winner, timer, restarts>>

\* all addresses were tried; the first inconclusive attempt gets a new socket
Restart ==
  /\ NobodyConnects /\ DoMore /\ ~MorePossible
  /\ Inconclusive # {} /\ since >= AttemptDelay /\ restarts < MaxRestarts
  /\ LET i == CHOOSE i \in Inconclusive : \A j \in Inconclusive : i <= j
     IN  /\ attempts' = [Asked EXCEPT ![i].st = "ongoing"]
         /\ \E n \in {"pending", "up", "refused", "weird"} : net' = [net EXCEPT ![Asked[i].addr] = n]
  /\ since' = 0
  /\ restarts' = restarts + 1
  /\ UNCHANGED <<addrs, ipVersion, race, iter, winner, lastFamily, timer>>

\* nothing is under way and nothing is left to try
GiveUp ==
  /\ NobodyConnects /\ Ongoing = {} /\ ~MorePossible /\ Inconclusive = {}
  /\ race' = "failed"
  /\ attempts' = Asked
  /\ UNCHANGED <<addrs, ipVersion, iter, winner, net, since, lastFamily, timer, restarts>>

\* The call returns and arms the timer for the next address or the next restart;
\* with more addresses and no time to wait it would evaluate again (StartNext).
Returns ==
  /\ NobodyConnects
  /\ IF Ongoing = {} THEN ~MorePossible /\ Inconclusive # {} /\ since < AttemptDelay
     ELSE ~DoMore

Wait ==
  /\ Returns
  /\ race' = "waiting"
  /\ attempts' = Asked
  /\ timer' = IF MorePossible \/ Ongoing = {} THEN AttemptDelay - since ELSE timer
  /\ UNCHANGED <<addrs, ipVersion, iter, winner, net, since, lastFamily, restarts>>

\* Curl_timeleft: the call finds that the time for connecting is over (as it
\* also is, in this model, when the bound on restarts is reached)
TimeOut ==
  /\ Returns \/ (NobodyConnects /\ restarts = MaxRestarts /\ Ongoing = {} /\ ~MorePossible
                /\ Inconclusive # {})
  /\ race' = "timedOut"
  /\ attempts' = Asked
  /\ UNCHANGED <<addrs, ipVersion, iter, winner, net, since, lastFamily, timer, restarts>>

\* cf_ip_happy_close: the filter may be connected again from the start
Close ==
  /\ race \in {"waiting", "done", "failed", "timedOut"}
  /\ race' = "init"
  /\ iter' = [f \in Family |-> 0]
  /\ attempts' = <<>> /\ winner' = 0
  /\ net' = [a \in DOMAIN net |-> "none"]
  /\ lastFamily' = "v4" /\ since' = 0
  /\ UNCHANGED <<addrs, ipVersion, timer, restarts>>

-----------------------------------------------------------------------------
(* The network and the clock. *)

Answer(a) ==
  /\ net[a] = "pending"
  /\ \E n \in {"up", "refused", "weird"} : net' = [net EXCEPT ![a] = n]
  /\ UNCHANGED <<addrs, ipVersion, race, iter, attempts, winner, since, lastFamily, timer, restarts>>

Tick ==
  /\ race \in {"waiting", "evaluate"}
  /\ since < AttemptDelay \/ timer \notin {0, Unarmed}
  /\ since' = IF since < AttemptDelay THEN since + 1 ELSE since
  /\ timer' = IF timer \in {0, Unarmed} THEN timer ELSE timer - 1
  /\ UNCHANGED <<addrs, ipVersion, race, iter, attempts, winner, net, lastFamily, restarts>>

\* what makes the application call: a socket of an attempt, or the timer
Due == \/ timer = 0
       \/ \E i \in DOMAIN attempts : attempts[i].st = "ongoing" /\ net[attempts[i].addr] # "pending"

\* the multi handle takes the expired timer off and runs the transfer
Expire ==
  /\ race = "waiting" /\ timer = 0
  /\ timer' = Unarmed
  /\ race' = "evaluate"
  /\ UNCHANGED <<addrs, ipVersion, iter, attempts, winner, net, since, lastFamily, restarts>>

Evaluate == Win \/ StartNext \/ Restart \/ GiveUp \/ Wait \/ TimeOut

Next ==
  \/ Call \/ Expire \/ Evaluate \/ Close \/ Tick
  \/ \E a \in DOMAIN addrs : Answer(a)

\* An event or the timer makes libcurl run, a call goes on to its end, time
\* passes.  The network owes nothing.
Fairness == WF_eyeballVars(Due /\ (Call \/ Expire)) /\ WF_eyeballVars(Evaluate) /\ WF_eyeballVars(Tick)

Spec == Init /\ [][Next]_eyeballVars /\ Fairness

-----------------------------------------------------------------------------
TypeOK ==
  /\ race \in {"init", "waiting", "evaluate", "done", "failed", "timedOut"}
  /\ iter \in [Family -> 0..Len(addrs)]
  /\ \A i \in DOMAIN attempts : attempts[i].addr \in ToTry
  /\ winner \in 0..Len(addrs)
  /\ net \in [DOMAIN addrs -> {"none", "pending", "up", "refused", "weird", "closed"}]
  /\ since \in 0..AttemptDelay /\ timer \in 0..AttemptDelay \cup {Unarmed}

\* an address that has not had its turn
ToStart(n) == n \in ToTry /\ race \in {"waiting", "evaluate"} /\ net[n] = "none"

=============================================================================
