------------------------- MODULE HappyEyeballsState -------------------------
(***************************************************************************)
(* The race between the addresses of a host (lib/cf-ip-happy.c): its       *)
(* state, and what is promised of it.  HappyEyeballs has the steps.        *)
(***************************************************************************)
EXTENDS Naturals, Sequences, FiniteSets

CONSTANTS
  AddressLists,  \* the lists of address families a resolve may have delivered
  IpVersions,    \* the values of CURLOPT_IPRESOLVE: a subset of {"any", "v4", "v6"}
  AttemptDelay,  \* CURLOPT_HAPPY_EYEBALLS_TIMEOUT_MS, in ticks
  MaxRestarts,   \* bound: how often inconclusive attempts are restarted
  Unarmed        \* no timer is set

\* what is assumed of the constants
EyeballsConstants ==
  /\ AttemptDelay \in Nat \ {0} /\ MaxRestarts \in Nat
  /\ IpVersions \subseteq {"any", "v4", "v6"}
  /\ AddressLists \subseteq Seq({"v4", "v6"})
  /\ Unarmed \notin Nat

VARIABLES
  addrs,       \* dns->addr: the families of the addresses, in order
  ipVersion,   \* conn->ip_version
  race,        \* the filter: "init", "waiting", "evaluate" (in a call), "done", "failed", "timedOut"
  iter,        \* iter[f]: index of the address the iterator of f is at, 0 before the first
  attempts,    \* bs->running: [addr, st], in the order they were started
  winner,      \* bs->winner, an index of addrs, or 0
  net,         \* net[a]: what the network has made of the attempt at address a
  since,       \* ticks since last_attempt_started, counted up to AttemptDelay
  lastFamily,  \* last_attempt_ai_family
  timer,       \* ticks to EXPIRE_HAPPY_EYEBALLS
  restarts     \* how often an attempt was restarted

eyeballVars == <<addrs, ipVersion, race, iter, attempts, winner, net, since, lastFamily, timer,
                 restarts>>

Family == {"v4", "v6"}
Other(f) == IF f = "v4" THEN "v6" ELSE "v4"

\* cf_ip_ballers_init gives an iterator of a family that is not wanted no list
Wanted(f) == ipVersion = "any" \/ ipVersion = f
ToTry == {a \in DOMAIN addrs : Wanted(addrs[a])}

\* cf_ai_iter_next and cf_ai_iter_has_more
After(f) == {a \in ToTry : addrs[a] = f /\ a > iter[f]}
HasMore(f) == After(f) # {}
MorePossible == \E f \in Family : HasMore(f)

InRace(st) == {i \in DOMAIN attempts : attempts[i].st = st}
Open == {a \in DOMAIN net : net[a] \in {"pending", "up", "refused", "weird"}}

\* One attempt per address, every socket that is open has its attempt, and once
\* there is a winner it is connected and no other socket is open.
OneWinner ==
  /\ \A i, j \in DOMAIN attempts : attempts[i].addr = attempts[j].addr => i = j
  /\ race # "done" => Open = {attempts[i].addr : i \in DOMAIN attempts}
  /\ race = "done" => net[winner] = "up" /\ Open = {winner}

\* "Could not connect" is said only when every address of a wanted family was
\* tried and refused.
GivesUpLast == race = "failed" => \A a \in ToTry : net[a] = "refused"

\* Families alternate as long as both have addresses left to try: among the
\* attempts, two neighbours of one family mean the other had run out.
Alternates ==
  \A i \in 2..Len(attempts) :
    LET f == addrs[attempts[i].addr]
    IN  f = addrs[attempts[i - 1].addr] =>
          \A a \in ToTry : addrs[a] = Other(f) =>
             \E j \in 1..(i - 1) : attempts[j].addr = a

\* While the race is on, there is something to wait for: an answer of the
\* network, or the timer when there is something left to start or to restart.
NeverStalls ==
  race = "waiting" =>
    /\ InRace("ongoing") # {} \/ timer # Unarmed
    /\ MorePossible => timer # Unarmed

\* The race has one winner, fails only when all have, takes the families in turns and
\* never waits for nothing.
RaceSound == OneWinner /\ GivesUpLast /\ Alternates /\ NeverStalls
=============================================================================
