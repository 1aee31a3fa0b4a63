------------------------------ MODULE RaceProofs ------------------------------
(***************************************************************************)
(* The two races of connecting.                                            *)
(*                                                                         *)
(* For any list of addresses and any delay the race of connection attempts *)
(* has one winner and no other socket left, gives up only after all have   *)
(* been refused, alternates between the families, and never waits for      *)
(* nothing.  The argument relates the iterators, the attempts and the      *)
(* sockets: an address was tried exactly if its family's iterator is past  *)
(* it, and has a socket exactly if it was tried.                           *)
(*                                                                         *)
(* For any timeouts and one or two ballers: one chain of filters is        *)
(* installed at most, failure is the failure of all, and as long as the    *)
(* second baller was not tried a timer is set that will start it.          *)
(***************************************************************************)
EXTENDS HappyEyeballs, HttpsConnectState, WellFoundedInduction, TLAPS

NetStates == {"none", "pending", "up", "refused", "weird", "closed"}
OpenStates == {"pending", "up", "refused", "weird"}
AttemptType == [addr : 1..Len(addrs), st : {"ongoing", "failed", "inconclusive"}]

Tried(a) == \E i \in 1..Len(attempts) : attempts[i].addr = a

TypesInv ==
  /\ addrs \in Seq({"v4", "v6"})
  /\ race \in {"init", "waiting", "evaluate", "done", "failed", "timedOut"}
  /\ iter \in [Family -> 0..Len(addrs)] /\ winner \in 0..Len(addrs)
  /\ attempts \in Seq(AttemptType)
  /\ net \in [1..Len(addrs) -> NetStates]
  /\ since \in 0..AttemptDelay /\ timer \in 0..AttemptDelay \cup {Unarmed} /\ lastFamily \in Family

\* an attempt for each address that has a socket; the winner's is the only one left
SocketInv ==
  IF race = "done"
  THEN /\ attempts = <<>> /\ winner \in 1..Len(addrs) /\ net[winner] = "up"
       /\ \A a \in 1..Len(addrs) : a # winner => net[a] \notin OpenStates
  ELSE \A a \in 1..Len(addrs) : net[a] \in OpenStates <=> Tried(a)

\* the iterators are past the addresses that were tried
IterInv == race # "done" => \A a \in 1..Len(addrs) : Tried(a) <=> a \in ToTry /\ a <= iter[addrs[a]]

OnceInv == \A i, j \in 1..Len(attempts) : attempts[i].addr = attempts[j].addr => i = j
StatusInv == \A i \in 1..Len(attempts) : attempts[i].st = "failed" => net[attempts[i].addr] = "refused"
LastInv == attempts # <<>> => lastFamily = addrs[attempts[Len(attempts)].addr]

RaceInv ==
  TypesInv /\ SocketInv /\ IterInv /\ OnceInv /\ StatusInv /\ LastInv /\ Alternates /\ GivesUpLast /\ NeverStalls

-----------------------------------------------------------------------------
LEMMA LeastExists ==
  ASSUME NEW S, S \subseteq Nat, S # {}
  PROVE  \E x \in S : \A y \in S : x <= y
<1>1. PICK x \in S : \A y \in S : ~(<<y, x>> \in OpToRel(<, Nat))
  BY NatLessThanWellFounded, WFMin
<1>2. \A y \in S : ~(y < x)
  BY <1>1 DEF OpToRel
<1> QED BY <1>2

LEMMA NextIsLeast ==
  ASSUME TypesInv, NEW f \in Family, HasMore(f)
  PROVE  NextOf(f) \in After(f) /\ \A b \in After(f) : NextOf(f) <= b
<1>1. After(f) \subseteq Nat /\ After(f) # {}
  BY DEF After, ToTry, HasMore, TypesInv
<1>2. \E a \in After(f) : \A b \in After(f) : a <= b
  BY <1>1, LeastExists
<1> QED BY <1>2 DEF NextOf

\* What an evaluation makes of the attempts: their results change, not their addresses.
LEMMA AskedRight ==
  ASSUME TypesInv
  PROVE  /\ Asked \in Seq(AttemptType) /\ Len(Asked) = Len(attempts)
         /\ \A i \in 1..Len(attempts) :
              /\ Asked[i].addr = attempts[i].addr
              /\ Asked[i].st = IF attempts[i].st # "ongoing" THEN attempts[i].st
                               ELSE IF net[attempts[i].addr] = "refused" THEN "failed"
                               ELSE IF net[attempts[i].addr] = "weird" THEN "inconclusive" ELSE "ongoing"
<1>1. Len(attempts) \in Nat /\ DOMAIN attempts = 1..Len(attempts)
      /\ \A i \in 1..Len(attempts) : attempts[i] \in AttemptType
  BY DEF TypesInv
<1>2. ASSUME NEW i \in 1..Len(attempts)
      PROVE  /\ Asked[i] \in AttemptType /\ Asked[i].addr = attempts[i].addr
             /\ Asked[i].st = IF attempts[i].st # "ongoing" THEN attempts[i].st
                               ELSE IF net[attempts[i].addr] = "refused" THEN "failed"
                               ELSE IF net[attempts[i].addr] = "weird" THEN "inconclusive" ELSE "ongoing"
  <2>1. CASE attempts[i].st # "ongoing"
    <3>1. Asked[i] = attempts[i]
      BY <1>1, <2>1 DEF Asked
    <3> QED BY <3>1, <2>1, <1>1
  <2>2. CASE attempts[i].st = "ongoing"
    <3> DEFINE st == CASE net[attempts[i].addr] = "refused" -> "failed"
                       [] net[attempts[i].addr] = "weird" -> "inconclusive"
                       [] OTHER -> "ongoing"
    <3>1. Asked[i] = [attempts[i] EXCEPT !.st = st]
      BY <1>1, <2>2 DEF Asked
    <3>2. st = IF net[attempts[i].addr] = "refused" THEN "failed"
               ELSE IF net[attempts[i].addr] = "weird" THEN "inconclusive" ELSE "ongoing"
      OBVIOUS
    <3> HIDE DEF st
    <3> QED BY <3>1, <3>2, <1>1, <2>2 DEF AttemptType
  <2> QED BY <2>1, <2>2
<1>3. DOMAIN Asked = 1..Len(attempts) /\ Asked = [i \in 1..Len(attempts) |-> Asked[i]]
  BY <1>1 DEF Asked
<1> HIDE DEF Asked
<1> QED BY <1>1, <1>2, <1>3

LEMMA StartsRight ==
  ASSUME EyeballsConstants, Init
  PROVE  RaceInv
<1>1. addrs \in Seq({"v4", "v6"}) /\ Len(addrs) \in Nat /\ DOMAIN addrs = 1..Len(addrs)
  BY DEF EyeballsConstants, Init
<1>2. attempts = <<>> /\ Len(attempts) = 0 /\ \A a : ~Tried(a)
  BY DEF Init, Tried
<1>3. TypesInv
  BY <1>1, <1>2 DEF Init, TypesInv, EyeballsConstants, NetStates, Family
<1>4. SocketInv /\ IterInv
  BY <1>1, <1>2 DEF Init, SocketInv, IterInv, OpenStates, ToTry, Family
<1>5. OnceInv /\ StatusInv /\ LastInv /\ Alternates
  BY <1>2 DEF OnceInv, StatusInv, LastInv, Alternates
<1> QED BY <1>3, <1>4, <1>5 DEF RaceInv, GivesUpLast, NeverStalls, Init

\* An action that keeps the addresses of the attempts and their order keeps what
\* depends on nothing else.
LEMMA SameAttempts ==
  ASSUME TypesInv, OnceInv, LastInv, Alternates,
         UNCHANGED <<addrs, ipVersion, lastFamily>>,
         attempts' \in Seq(AttemptType), Len(attempts') = Len(attempts),
         \A i \in 1..Len(attempts) : attempts'[i].addr = attempts[i].addr
  PROVE  /\ OnceInv' /\ LastInv' /\ Alternates' /\ ToTry' = ToTry
         /\ \A a : Tried(a)' <=> Tried(a)
<1>1. Len(attempts) \in Nat /\ (attempts # <<>> => Len(attempts) \in 1..Len(attempts))
  BY DEF TypesInv
<1>2. attempts' # <<>> => attempts # <<>>
  BY DEF TypesInv
<1>3. OnceInv' /\ \A a : Tried(a)' <=> Tried(a)
  BY DEF OnceInv, Tried
<1>4. LastInv'
  BY <1>1, <1>2 DEF LastInv
<1>5. ToTry' = ToTry
  BY DEF ToTry, Wanted
<1>6. ASSUME NEW i \in 2..Len(attempts'), addrs'[attempts'[i].addr] = addrs'[attempts'[i - 1].addr],
             NEW a \in ToTry', addrs'[a] = Other(addrs'[attempts'[i].addr])
      PROVE  \E j \in 1..(i - 1) : attempts'[j].addr = a
  <2>1. i \in 2..Len(attempts) /\ i \in 1..Len(attempts) /\ i - 1 \in 1..Len(attempts)
    BY <1>1
  <2>2. addrs[attempts[i].addr] = addrs[attempts[i - 1].addr] /\ a \in ToTry
        /\ addrs[a] = Other(addrs[attempts[i].addr])
    BY <2>1, <1>5, <1>6
  <2>3. PICK j \in 1..(i - 1) : attempts[j].addr = a
    BY <2>1, <2>2 DEF Alternates
  <2>4. j \in 1..Len(attempts)
    BY <2>1, <1>1
  <2> QED BY <2>3, <2>4
<1>7. Alternates'
  BY <1>6 DEF Alternates
<1> QED BY <1>3, <1>4, <1>5, <1>7

\* Calls and the clock leave attempts and sockets alone.
LEMMA QuietSteps ==
  ASSUME EyeballsConstants, RaceInv, Call \/ Expire \/ Tick
  PROVE  RaceInv'
<1> USE DEF EyeballsConstants
<1>1. UNCHANGED <<addrs, ipVersion, iter, attempts, winner, net, lastFamily>>
  BY DEF Call, Expire, Tick
<1>2. TypesInv /\ OnceInv /\ LastInv /\ Alternates /\ SocketInv /\ IterInv /\ StatusInv /\ NeverStalls
      /\ attempts \in Seq(AttemptType) /\ since \in 0..AttemptDelay /\ timer \in 0..AttemptDelay \cup {Unarmed}
  BY DEF RaceInv, TypesInv
<1>3. OnceInv' /\ LastInv' /\ Alternates' /\ ToTry' = ToTry /\ \A a : Tried(a)' <=> Tried(a)
  BY <1>1, <1>2, SameAttempts
<1>4. /\ since' \in 0..AttemptDelay /\ timer' \in 0..AttemptDelay \cup {Unarmed}
      /\ race' \in {"waiting", "evaluate"} /\ race # "done"
      /\ race' = "waiting" => race = "waiting" /\ (timer # Unarmed => timer' # Unarmed)
  BY <1>2 DEF Call, Expire, Tick
<1>5. TypesInv'
  BY <1>1, <1>2, <1>4 DEF TypesInv, AttemptType
<1>6. SocketInv' /\ IterInv' /\ StatusInv'
  BY <1>1, <1>2, <1>3, <1>4 DEF SocketInv, IterInv, StatusInv
<1>7. MorePossible' = MorePossible /\ InRace("ongoing")' = InRace("ongoing")
  BY <1>1, <1>3 DEF MorePossible, HasMore, After, InRace
<1>8. NeverStalls' /\ GivesUpLast'
  BY <1>2, <1>4, <1>7 DEF NeverStalls, GivesUpLast
<1> QED BY <1>3, <1>5, <1>6, <1>8 DEF RaceInv

\* An evaluation that starts nothing: it gives up, is out of time, or waits.
LEMMA EndsOfEvaluation ==
  ASSUME EyeballsConstants, RaceInv, GiveUp \/ TimeOut \/ Wait
  PROVE  RaceInv'
<1> USE DEF EyeballsConstants
<1>1. /\ UNCHANGED <<addrs, ipVersion, iter, winner, net, lastFamily, since>> /\ attempts' = Asked
      /\ race = "evaluate" /\ race' \in {"failed", "timedOut", "waiting"}
  BY DEF GiveUp, TimeOut, Wait, Returns, NobodyConnects
<1>2. TypesInv /\ OnceInv /\ LastInv /\ Alternates /\ SocketInv /\ IterInv /\ StatusInv
      /\ since \in 0..AttemptDelay /\ timer \in 0..AttemptDelay \cup {Unarmed} /\ Len(attempts) \in Nat
      /\ addrs \in Seq({"v4", "v6"}) /\ iter \in [Family -> 0..Len(addrs)]
  BY DEF RaceInv, TypesInv
<1>3. /\ attempts' \in Seq(AttemptType) /\ Len(attempts') = Len(attempts)
      /\ \A i \in 1..Len(attempts) :
              /\ attempts'[i].addr = attempts[i].addr
              /\ attempts'[i].st = IF attempts[i].st # "ongoing" THEN attempts[i].st
                               ELSE IF net[attempts[i].addr] = "refused" THEN "failed"
                               ELSE IF net[attempts[i].addr] = "weird" THEN "inconclusive" ELSE "ongoing"
  BY <1>1, <1>2, AskedRight
<1>4. OnceInv' /\ LastInv' /\ Alternates' /\ ToTry' = ToTry /\ \A a : Tried(a)' <=> Tried(a)
  BY <1>1, <1>2, <1>3, SameAttempts
<1>5. timer' \in 0..AttemptDelay \cup {Unarmed}
  BY <1>2 DEF GiveUp, TimeOut, Wait
<1>6. TypesInv'
  <2>1. attempts' \in Seq(AttemptType')
    BY <1>1, <1>3 DEF AttemptType
  <2> QED BY <1>1, <1>2, <1>5, <2>1 DEF TypesInv
<1>7. SocketInv' /\ IterInv'
  BY <1>1, <1>2, <1>4 DEF SocketInv, IterInv
<1>8. StatusInv'
  BY <1>1, <1>2, <1>3 DEF StatusInv
<1>9. GivesUpLast'
  <2> SUFFICES ASSUME race' = "failed", NEW a \in ToTry
               PROVE  net[a] = "refused"
    BY <1>1, <1>4 DEF GivesUpLast
  <2>1. GiveUp
    BY DEF TimeOut, Wait
  <2>2. a \in 1..Len(addrs) /\ addrs[a] \in Family
    BY <1>2 DEF ToTry, Family
  <2>3. a <= iter[addrs[a]]
    BY <2>1, <2>2, <1>2 DEF GiveUp, MorePossible, HasMore, After
  <2>4. PICK i \in 1..Len(attempts) : attempts[i].addr = a
    BY <2>2, <2>3, <1>1, <1>2 DEF IterInv, Tried
  <2>5. attempts'[i] \in AttemptType /\ attempts'[i].st \notin {"ongoing", "inconclusive"}
    BY <2>1, <1>1, <1>3 DEF GiveUp, Ongoing, Inconclusive
  <2>6. attempts'[i].st = "failed" /\ attempts'[i].addr = a
    BY <2>4, <2>5, <1>3 DEF AttemptType
  <2> QED BY <2>6, <1>8, <1>1, <1>3 DEF StatusInv
<1>10. NeverStalls'
  <2> SUFFICES ASSUME race' = "waiting"
               PROVE  /\ InRace("ongoing")' # {} \/ timer' # Unarmed
                      /\ MorePossible' => timer' # Unarmed
    BY DEF NeverStalls
  <2>1. Wait /\ AttemptDelay - since \in Nat
    BY <1>2 DEF GiveUp, TimeOut
  <2>2. MorePossible' = MorePossible
    BY <1>1, <1>4 DEF MorePossible, HasMore, After
  <2>3. Ongoing = InRace("ongoing")'
    BY <1>1 DEF Ongoing, InRace
  <2> QED BY <2>1, <2>2, <2>3 DEF Wait
<1> QED BY <1>4, <1>6, <1>7, <1>8, <1>9, <1>10 DEF RaceInv

LEMMA RestartKeeps ==
  ASSUME EyeballsConstants, RaceInv, Restart
  PROVE  RaceInv'
<1> USE DEF EyeballsConstants
<1>1. UNCHANGED <<addrs, ipVersion, iter, winner, lastFamily, timer>>
      /\ race = "evaluate" /\ race' = "evaluate" /\ since' = 0
  BY DEF Restart, NobodyConnects
<1>2. TypesInv /\ OnceInv /\ LastInv /\ Alternates /\ SocketInv /\ IterInv /\ StatusInv
      /\ timer \in 0..AttemptDelay \cup {Unarmed} /\ Len(attempts) \in Nat
      /\ attempts \in Seq(AttemptType)
      /\ addrs \in Seq({"v4", "v6"}) /\ iter \in [Family -> 0..Len(addrs)]
      /\ net \in [1..Len(addrs) -> NetStates]
  BY DEF RaceInv, TypesInv
<1>3. /\ Asked \in Seq(AttemptType) /\ Len(Asked) = Len(attempts)
      /\ \A i \in 1..Len(attempts) :
              /\ Asked[i].addr = attempts[i].addr
              /\ Asked[i].st = IF attempts[i].st # "ongoing" THEN attempts[i].st
                               ELSE IF net[attempts[i].addr] = "refused" THEN "failed"
                               ELSE IF net[attempts[i].addr] = "weird" THEN "inconclusive" ELSE "ongoing"
  BY <1>1, <1>2, AskedRight
<1>4. PICK i \in 1..Len(attempts), n \in OpenStates :
        attempts' = [Asked EXCEPT ![i].st = "ongoing"] /\ net' = [net EXCEPT ![Asked[i].addr] = n]
  <2> DEFINE k == CHOOSE i \in Inconclusive : \A j \in Inconclusive : i <= j
  <2>0. DOMAIN Asked = 1..Len(attempts)
    <3> HIDE DEF Asked
    <3> QED BY <1>3
  <2>1. Inconclusive \subseteq Nat /\ Inconclusive # {} /\ Inconclusive \subseteq 1..Len(attempts)
    BY <2>0 DEF Restart, Inconclusive
  <2>2. \E i \in Inconclusive : \A j \in Inconclusive : i <= j
    BY <2>1, LeastExists
  <2>3. k \in 1..Len(attempts)
    BY <2>1, <2>2
  <2>4. attempts' = [Asked EXCEPT ![k].st = "ongoing"]
        /\ \E n \in OpenStates : net' = [net EXCEPT ![Asked[k].addr] = n]
    BY DEF Restart, OpenStates
  <2> HIDE DEF k
  <2> QED BY <2>3, <2>4
<1>5. Asked[i] \in AttemptType /\ Asked[i].addr = attempts[i].addr
      /\ \A j \in 1..Len(attempts) : attempts[j].addr \in 1..Len(addrs)
  <2>1. Asked[i] \in AttemptType /\ \A j \in 1..Len(attempts) : attempts[j] \in AttemptType
    BY <1>2, <1>3
  <2> QED BY <2>1, <1>3 DEF AttemptType
<1>6. /\ attempts' \in Seq(AttemptType) /\ Len(attempts') = Len(attempts)
      /\ attempts'[i].addr = attempts[i].addr /\ attempts'[i].st = "ongoing"
      /\ \A j \in 1..Len(attempts) : j # i => attempts'[j] = Asked[j]
  <2> DEFINE r == [Asked[i] EXCEPT !.st = "ongoing"]
  <2>1. r \in AttemptType /\ r.addr = attempts[i].addr /\ r.st = "ongoing"
    BY <1>5 DEF AttemptType
  <2>2. attempts' = [Asked EXCEPT ![i] = r]
    BY <1>4
  <2> HIDE DEF r, Asked
  <2> QED BY <1>3, <2>1, <2>2
<1>7. \A j \in 1..Len(attempts) : attempts'[j].addr = attempts[j].addr
  BY <1>3, <1>6
<1>8. OnceInv' /\ LastInv' /\ Alternates' /\ ToTry' = ToTry /\ \A a : Tried(a)' <=> Tried(a)
  BY <1>1, <1>2, <1>6, <1>7, SameAttempts
<1>9. TypesInv'
  <2>1. attempts' \in Seq(AttemptType')
    BY <1>1, <1>6 DEF AttemptType
  <2>2. net' \in [1..Len(addrs) -> NetStates]
    BY <1>2, <1>4, <1>5 DEF NetStates, OpenStates
  <2> QED BY <1>1, <1>2, <2>1, <2>2 DEF TypesInv, RaceInv
<1>10. SocketInv'
  <2>1. ASSUME NEW a \in 1..Len(addrs) PROVE net'[a] \in OpenStates <=> Tried(a)
    <3>1. CASE a = attempts[i].addr
      BY <3>1, <1>2, <1>4, <1>5 DEF Tried
    <3>2. CASE a # attempts[i].addr
      BY <3>2, <1>1, <1>2, <1>4, <1>5 DEF SocketInv
    <3> QED BY <3>1, <3>2
  <2> QED BY <2>1, <1>1, <1>8 DEF SocketInv
<1>11. IterInv'
  BY <1>1, <1>2, <1>8 DEF IterInv
<1>12. StatusInv'
  <2> SUFFICES ASSUME NEW j \in 1..Len(attempts), attempts'[j].st = "failed"
               PROVE  net'[attempts[j].addr] = "refused"
    BY <1>6, <1>7 DEF StatusInv
  <2>1. j # i /\ attempts'[j] = Asked[j] /\ Asked[j].st = "failed"
    BY <1>6
  <2>2. attempts[j].addr # attempts[i].addr
    BY <2>1, <1>2 DEF OnceInv
  <2>3. net[attempts[j].addr] = "refused"
    BY <2>1, <1>2, <1>3 DEF StatusInv
  <2> QED BY <2>2, <2>3, <1>2, <1>4, <1>5
<1> QED BY <1>1, <1>8, <1>9, <1>10, <1>11, <1>12 DEF RaceInv, GivesUpLast, NeverStalls

LEMMA StartNextKeeps ==
  ASSUME EyeballsConstants, RaceInv, StartNext
  PROVE  RaceInv'
<1> USE DEF EyeballsConstants
<1> DEFINE f == NextFamily
           a == NextOf(f)
           k == Len(attempts)
<1>1. UNCHANGED <<addrs, ipVersion, race, winner, timer>> /\ race = "evaluate" /\ since' = 0 /\ lastFamily' = f
      /\ attempts' = Append(Asked, [addr |-> a, st |-> "ongoing"]) /\ iter' = [iter EXCEPT ![f] = a]
      /\ HasMore(f)
  BY DEF StartNext, NobodyConnects
<1>2. PICK n \in OpenStates : net' = [net EXCEPT ![a] = n]
  BY DEF StartNext, OpenStates
<1>3. TypesInv /\ OnceInv /\ LastInv /\ Alternates /\ SocketInv /\ IterInv /\ StatusInv
      /\ timer \in 0..AttemptDelay \cup {Unarmed} /\ k \in Nat
      /\ attempts \in Seq(AttemptType)
      /\ addrs \in Seq({"v4", "v6"}) /\ iter \in [Family -> 0..Len(addrs)]
      /\ net \in [1..Len(addrs) -> NetStates] /\ Len(addrs) \in Nat
  BY DEF RaceInv, TypesInv
<1>4. f \in Family /\ (f = lastFamily => ~HasMore(Other(f)))
  BY <1>3 DEF NextFamily, Family, Other, TypesInv
<1>5. a \in After(f) /\ \A b \in After(f) : a <= b
  BY <1>1, <1>3, <1>4, NextIsLeast
<1> HIDE DEF a, f
<1>6. a \in 1..Len(addrs) /\ a \in ToTry /\ addrs[a] = f /\ a > iter[f] /\ iter[f] \in Nat
  BY <1>3, <1>4, <1>5 DEF After, ToTry
<1>7. ToTry' = ToTry
  BY <1>1 DEF ToTry, Wanted
<1>8. ~Tried(a)
  BY <1>1, <1>3, <1>6 DEF IterInv
<1>9. /\ Asked \in Seq(AttemptType) /\ Len(Asked) = k
      /\ \A i \in 1..k :
              /\ Asked[i].addr = attempts[i].addr
              /\ Asked[i].st = IF attempts[i].st # "ongoing" THEN attempts[i].st
                               ELSE IF net[attempts[i].addr] = "refused" THEN "failed"
                               ELSE IF net[attempts[i].addr] = "weird" THEN "inconclusive" ELSE "ongoing"
  BY <1>3, AskedRight
<1>10. \A i \in 1..k : attempts[i].addr \in 1..Len(addrs)
  <2>1. \A i \in 1..k : attempts[i] \in AttemptType
    BY <1>3
  <2> QED BY <2>1 DEF AttemptType
<1>11. /\ attempts' \in Seq(AttemptType) /\ Len(attempts') = k + 1
       /\ attempts'[k + 1].addr = a /\ attempts'[k + 1].st = "ongoing"
       /\ \A i \in 1..k : attempts'[i] = Asked[i]
  <2> DEFINE r == [addr |-> a, st |-> "ongoing"]
  <2>1. r \in AttemptType /\ r.addr = a /\ r.st = "ongoing"
    BY <1>6 DEF AttemptType
  <2> HIDE DEF r, Asked
  <2> QED BY <2>1, <1>1, <1>3, <1>9 DEF r
<1>12. \A i \in 1..k : attempts'[i].addr = attempts[i].addr
  BY <1>9, <1>11
<1> HIDE DEF k
<1>13. k \in Nat /\ k + 1 \in 1..(k + 1) /\ \A i : i \in 1..(k + 1) <=> i \in 1..k \/ i = k + 1
  BY <1>3 DEF k
<1>14. \A i \in 1..k : attempts[i].addr # a
  BY <1>8 DEF Tried, k
<1>15. \A b : Tried(b)' <=> Tried(b) \/ b = a
  <2>1. \A b : Tried(b) <=> \E i \in 1..k : attempts[i].addr = b
    BY DEF Tried, k
  <2>2. \A b : Tried(b)' <=> \E i \in 1..(k + 1) : attempts'[i].addr = b
    BY <1>11 DEF Tried
  <2> QED BY <2>1, <2>2, <1>11, <1>12, <1>13
<1>16. TypesInv'
  <2>1. attempts' \in Seq(AttemptType')
    BY <1>1, <1>11 DEF AttemptType
  <2>2. net' \in [1..Len(addrs) -> NetStates]
    BY <1>2, <1>3, <1>6 DEF NetStates, OpenStates
  <2>3. iter' \in [Family -> 0..Len(addrs)]
    BY <1>1, <1>3, <1>4, <1>6
  <2> QED BY <1>1, <1>3, <1>4, <2>1, <2>2, <2>3 DEF TypesInv
<1>17. SocketInv'
  <2>1. ASSUME NEW b \in 1..Len(addrs) PROVE net'[b] \in OpenStates <=> Tried(b) \/ b = a
    <3>1. CASE b = a
      BY <3>1, <1>2, <1>3, <1>6
    <3>2. CASE b # a
      BY <3>2, <1>1, <1>2, <1>3, <1>6 DEF SocketInv
    <3> QED BY <3>1, <3>2
  <2> QED BY <2>1, <1>1, <1>15 DEF SocketInv
<1>18. IterInv'
  <2>1. ASSUME NEW b \in 1..Len(addrs)
        PROVE  Tried(b) \/ b = a <=> b \in ToTry /\ b <= iter'[addrs[b]]
    <3>1. addrs[b] \in Family /\ iter[addrs[b]] \in Nat
      BY <1>3 DEF Family
    <3>2. Tried(b) <=> b \in ToTry /\ b <= iter[addrs[b]]
      BY <1>1, <1>3 DEF IterInv
    <3>3. CASE addrs[b] # f
      BY <3>1, <3>2, <3>3, <1>1, <1>3, <1>4, <1>6
    <3>4. CASE addrs[b] = f
      <4>1. iter'[f] = a
        BY <1>1, <1>3, <1>4
      <4>2. b \in ToTry /\ b > iter[f] => b >= a
        BY <3>4, <1>5, <1>6 DEF After
      <4> QED BY <3>1, <3>2, <3>4, <4>1, <4>2, <1>6
    <3> QED BY <3>3, <3>4
  <2> QED BY <2>1, <1>1, <1>7, <1>15 DEF IterInv
<1>19. OnceInv'
  <2> SUFFICES ASSUME NEW i \in 1..(k + 1), NEW j \in 1..(k + 1), attempts'[i].addr = attempts'[j].addr
               PROVE  i = j
    BY <1>11 DEF OnceInv
  <2>1. CASE i \in 1..k /\ j \in 1..k
    BY <2>1, <1>3, <1>12 DEF OnceInv, k
  <2> QED BY <2>1, <1>11, <1>12, <1>13, <1>14
<1>20. StatusInv'
  <2> SUFFICES ASSUME NEW i \in 1..(k + 1), attempts'[i].st = "failed"
               PROVE  net'[attempts'[i].addr] = "refused"
    BY <1>11 DEF StatusInv
  <2>1. i \in 1..k /\ Asked[i].st = "failed" /\ attempts'[i].addr = attempts[i].addr
    BY <1>11, <1>12, <1>13
  <2>2. net[attempts[i].addr] = "refused"
    BY <2>1, <1>3, <1>9 DEF StatusInv, k
  <2> QED BY <2>1, <2>2, <1>2, <1>3, <1>6, <1>10, <1>14
<1>21. LastInv'
  BY <1>1, <1>6, <1>11 DEF LastInv
<1>22. Alternates'
  <2>0. \A i \in 2..k : addrs[attempts[i].addr] = addrs[attempts[i - 1].addr] =>
          \A b \in ToTry : addrs[b] = Other(addrs[attempts[i].addr]) => \E j \in 1..(i - 1) : attempts[j].addr = b
    BY <1>3 DEF Alternates, k
  <2> SUFFICES ASSUME NEW i \in 2..(k + 1), addrs[attempts'[i].addr] = addrs[attempts'[i - 1].addr],
                      NEW b \in ToTry, addrs[b] = Other(addrs[attempts'[i].addr])
               PROVE  \E j \in 1..(i - 1) : attempts'[j].addr = b
    <3> HIDE <2>0
    <3>1. addrs' = addrs /\ Len(attempts') = k + 1
      BY <1>1, <1>11
    <3> QED BY <3>1, <1>7 DEF Alternates
  <2>1. CASE i \in 1..k
    <3>1. i \in 2..k /\ i - 1 \in 1..k /\ \A j \in 1..(i - 1) : j \in 1..k
      BY <2>1, <1>3
    <3>2. PICK j \in 1..(i - 1) : attempts[j].addr = b
      BY <2>0, <3>1, <1>12
    <3> QED BY <3>1, <3>2, <1>12
  <2>2. CASE i = k + 1
    <3>1. k \in 1..k /\ i - 1 = k /\ attempts # <<>>
      BY <2>2, <1>3 DEF k
    <3>2. lastFamily = addrs[attempts[k].addr] /\ lastFamily = f
      BY <2>2, <3>1, <1>3, <1>6, <1>11, <1>12 DEF LastInv, k
    <3>3. ~HasMore(Other(f)) /\ addrs[b] = Other(f) /\ b \in 1..Len(addrs)
      BY <2>2, <3>2, <1>3, <1>4, <1>6, <1>11 DEF ToTry
    <3>4. addrs[b] \in Family /\ iter[addrs[b]] \in Nat
      BY <3>3, <1>3 DEF Family
    <3>5. b <= iter[addrs[b]]
      BY <3>3, <3>4 DEF HasMore, After
    <3>6. Tried(b)
      BY <3>3, <3>5, <1>1, <1>3 DEF IterInv
    <3> QED BY <3>1, <3>6, <1>12 DEF Tried, k
  <2> QED BY <2>1, <2>2, <1>13, <1>3
<1> QED BY <1>1, <1>16, <1>17, <1>18, <1>19, <1>20, <1>21, <1>22 DEF RaceInv, GivesUpLast, NeverStalls

LEMMA WinKeeps ==
  ASSUME EyeballsConstants, RaceInv, Win
  PROVE  RaceInv'
<1> USE DEF EyeballsConstants
<1>1. UNCHANGED <<addrs, ipVersion, iter, since, lastFamily>> /\ race = "evaluate" /\ race' = "done"
      /\ attempts' = <<>> /\ timer' = Unarmed
  BY DEF Win
<1>2. TypesInv /\ attempts \in Seq(AttemptType) /\ net \in [1..Len(addrs) -> NetStates] /\ DOMAIN net = 1..Len(addrs)
  BY DEF RaceInv, TypesInv
<1>3. PICK i \in 1..Len(attempts) :
         /\ Connects(i) /\ winner' = attempts[i].addr
         /\ net' = [a \in DOMAIN net |-> IF a # attempts[i].addr /\ net[a] # "none" THEN "closed" ELSE net[a]]
  BY <1>2 DEF Win
<1>4. winner' \in 1..Len(addrs) /\ net[winner'] = "up"
  <2>1. attempts[i] \in AttemptType
    BY <1>2
  <2> QED BY <2>1, <1>3 DEF AttemptType, Connects
<1>5. TypesInv'
  <2>1. net' \in [1..Len(addrs) -> NetStates] /\ attempts' \in Seq(AttemptType')
    BY <1>1, <1>2, <1>3 DEF NetStates
  <2>2. winner' \in 0..Len(addrs)
    BY <1>2, <1>4 DEF TypesInv
  <2> QED BY <1>1, <1>2, <2>1, <2>2 DEF TypesInv
<1>6. SocketInv'
  <2>1. net'[winner'] = "up"
    BY <1>2, <1>3, <1>4
  <2>2. ASSUME NEW a \in 1..Len(addrs), a # winner' PROVE net'[a] \notin OpenStates
    BY <2>2, <1>2, <1>3 DEF OpenStates
  <2> QED BY <2>1, <2>2, <1>1, <1>4 DEF SocketInv
<1>7. Len(attempts') = 0
  BY <1>1
<1>8. OnceInv' /\ StatusInv' /\ Alternates' /\ LastInv'
  BY <1>1, <1>7 DEF OnceInv, StatusInv, Alternates, LastInv
<1> QED BY <1>1, <1>5, <1>6, <1>8 DEF RaceInv, IterInv, GivesUpLast, NeverStalls

LEMMA CloseKeeps ==
  ASSUME EyeballsConstants, RaceInv, Close
  PROVE  RaceInv'
<1> USE DEF EyeballsConstants
<1>1. UNCHANGED <<addrs, ipVersion, timer>> /\ race' = "init" /\ attempts' = <<>> /\ Len(attempts') = 0
      /\ iter' = [f \in Family |-> 0] /\ winner' = 0 /\ since' = 0 /\ lastFamily' = "v4"
      /\ net' = [a \in DOMAIN net |-> "none"]
  BY DEF Close
<1>2. TypesInv /\ net \in [1..Len(addrs) -> NetStates] /\ DOMAIN net = 1..Len(addrs)
      /\ addrs \in Seq({"v4", "v6"}) /\ Len(addrs) \in Nat
  BY DEF RaceInv, TypesInv
<1>3. TypesInv'
  <2>1. attempts' \in Seq(AttemptType')
    BY <1>1
  <2> QED BY <1>1, <1>2, <2>1 DEF TypesInv, NetStates, Family
<1>4. \A a : ~Tried(a)'
  BY <1>1 DEF Tried
<1>5. SocketInv'
  BY <1>1, <1>2, <1>4 DEF SocketInv, OpenStates
<1>6. IterInv'
  <2>1. \A a \in 1..Len(addrs) : addrs[a] \in Family /\ ~(a <= iter'[addrs[a]])
    BY <1>1, <1>2 DEF Family
  <2> QED BY <2>1, <1>1, <1>4 DEF IterInv
<1>7. OnceInv' /\ StatusInv' /\ Alternates' /\ LastInv'
  BY <1>1 DEF OnceInv, StatusInv, Alternates, LastInv
<1> QED BY <1>1, <1>3, <1>5, <1>6, <1>7 DEF RaceInv, GivesUpLast, NeverStalls

LEMMA AnswerKeeps ==
  ASSUME EyeballsConstants, RaceInv, NEW a \in DOMAIN addrs, Answer(a)
  PROVE  RaceInv'
<1>1. UNCHANGED <<addrs, ipVersion, race, iter, attempts, winner, since, lastFamily, timer>>
  BY DEF Answer
<1>2. TypesInv /\ OnceInv /\ LastInv /\ Alternates /\ SocketInv /\ IterInv /\ StatusInv /\ NeverStalls /\ GivesUpLast
      /\ attempts \in Seq(AttemptType) /\ net \in [1..Len(addrs) -> NetStates] /\ a \in 1..Len(addrs)
  BY DEF RaceInv, TypesInv
<1>3. PICK n \in {"up", "refused", "weird"} : net' = [net EXCEPT ![a] = n]
  BY DEF Answer
<1>4. net[a] = "pending"
  BY DEF Answer
<1>5. OnceInv' /\ LastInv' /\ Alternates' /\ ToTry' = ToTry /\ \A b : Tried(b)' <=> Tried(b)
  BY <1>1, <1>2, SameAttempts
<1>6. net' \in [1..Len(addrs) -> NetStates] /\ net'[a] \in OpenStates
      /\ \A b \in 1..Len(addrs) : b # a => net'[b] = net[b]
  BY <1>2, <1>3 DEF NetStates, OpenStates
<1>7. TypesInv'
  <2>1. attempts' \in Seq(AttemptType')
    BY <1>1, <1>2 DEF AttemptType
  <2> QED BY <2>1, <1>1, <1>2, <1>6 DEF TypesInv
<1>8. SocketInv'
  <2>1. race # "done"
    BY <1>2, <1>4 DEF SocketInv, OpenStates
  <2>2. \A b \in 1..Len(addrs) : net'[b] \in OpenStates <=> net[b] \in OpenStates
    BY <1>4, <1>6 DEF OpenStates
  <2> QED BY <2>1, <2>2, <1>1, <1>2, <1>5 DEF SocketInv
<1>9. IterInv'
  BY <1>1, <1>2, <1>5 DEF IterInv
<1>10. StatusInv'
  <2>1. \A i \in 1..Len(attempts) : attempts[i] \in AttemptType
    BY <1>2
  <2>2. \A i \in 1..Len(attempts) : attempts[i].addr \in 1..Len(addrs)
    BY <2>1 DEF AttemptType
  <2> QED BY <2>2, <1>1, <1>2, <1>4, <1>6 DEF StatusInv
<1>11. GivesUpLast'
  <2>1. ToTry \subseteq 1..Len(addrs)
    BY <1>2 DEF ToTry, TypesInv
  <2> QED BY <2>1, <1>1, <1>2, <1>4, <1>5, <1>6 DEF GivesUpLast
<1>12. NeverStalls'
  <2>1. MorePossible' = MorePossible /\ InRace("ongoing")' = InRace("ongoing")
    BY <1>1, <1>5 DEF MorePossible, HasMore, After, InRace
  <2> QED BY <2>1, <1>1, <1>2 DEF NeverStalls
<1> QED BY <1>5, <1>7, <1>8, <1>9, <1>10, <1>11, <1>12 DEF RaceInv

LEMMA StepKeeps ==
  ASSUME EyeballsConstants, RaceInv, [Next]_eyeballVars
  PROVE  RaceInv'
<1>1. CASE Next
  <2>1. CASE Call \/ Expire \/ Tick
    BY <2>1, QuietSteps
  <2>2. CASE GiveUp \/ TimeOut \/ Wait
    BY <2>2, EndsOfEvaluation
  <2>3. CASE Win
    BY <2>3, WinKeeps
  <2>4. CASE StartNext
    BY <2>4, StartNextKeeps
  <2>5. CASE Restart
    BY <2>5, RestartKeeps
  <2>6. CASE Close
    BY <2>6, CloseKeeps
  <2>7. CASE \E a \in DOMAIN addrs : Answer(a)
    BY <2>7, AnswerKeeps
  <2> QED BY <1>1, <2>1, <2>2, <2>3, <2>4, <2>5, <2>6, <2>7 DEF Next, Evaluate
<1>2. CASE UNCHANGED eyeballVars
  <2>1. UNCHANGED <<addrs, ipVersion, race, iter, attempts, winner, net, since, lastFamily, timer>>
    BY <1>2 DEF eyeballVars
  <2>2. TypesInv' /\ SocketInv' /\ StatusInv' /\ OnceInv' /\ LastInv'
    BY <2>1 DEF RaceInv, TypesInv, SocketInv, StatusInv, OnceInv, LastInv, AttemptType, Tried
  <2>3. ToTry' = ToTry
    BY <2>1 DEF ToTry, Wanted
  <2>4. IterInv' /\ Alternates' /\ GivesUpLast'
    BY <2>1, <2>3 DEF RaceInv, IterInv, Alternates, GivesUpLast, Tried
  <2>5. NeverStalls'
    BY <2>1, <2>3 DEF RaceInv, NeverStalls, MorePossible, HasMore, After, InRace
  <2> QED BY <2>2, <2>4, <2>5 DEF RaceInv
<1> QED BY <1>1, <1>2

\* What the invariant says of the sockets: each that is open has its one attempt.
LEMMA InvariantIsSound ==
  ASSUME EyeballsConstants, RaceInv
  PROVE  RaceSound /\ TypeOK
<1>1. TypesInv /\ OnceInv /\ SocketInv /\ IterInv /\ Alternates /\ GivesUpLast /\ NeverStalls
      /\ DOMAIN attempts = 1..Len(attempts) /\ DOMAIN net = 1..Len(addrs) /\ DOMAIN addrs = 1..Len(addrs)
      /\ \A i \in 1..Len(attempts) : attempts[i] \in AttemptType
  BY DEF RaceInv, TypesInv
<1>2. \A i \in 1..Len(attempts) : attempts[i].addr \in 1..Len(addrs)
  BY <1>1 DEF AttemptType
<1>3. race # "done" => Open = {attempts[i].addr : i \in DOMAIN attempts}
  <2> SUFFICES ASSUME race # "done" PROVE Open = {attempts[i].addr : i \in 1..Len(attempts)}
    BY <1>1
  <2>1. \A a \in 1..Len(addrs) : net[a] \in OpenStates <=> Tried(a)
    BY <1>1 DEF SocketInv
  <2>2. Open = {a \in 1..Len(addrs) : Tried(a)}
    BY <1>1, <2>1 DEF Open, OpenStates
  <2> QED BY <1>2, <2>2 DEF Tried
<1>4. race = "done" => net[winner] = "up" /\ Open = {winner}
  BY <1>1 DEF SocketInv, Open, OpenStates
<1>5. OneWinner
  BY <1>1, <1>3, <1>4 DEF OneWinner, OnceInv
<1>6. \A i \in DOMAIN attempts : attempts[i].addr \in ToTry
  <2>1. CASE race = "done"
    BY <2>1, <1>1 DEF SocketInv
  <2>2. CASE race # "done"
    BY <2>2, <1>1, <1>2 DEF IterInv, Tried
  <2> QED BY <2>1, <2>2
<1>7. TypeOK
  BY <1>1, <1>6 DEF TypeOK, TypesInv, NetStates
<1> QED BY <1>1, <1>5, <1>7 DEF RaceSound

\* For any list of addresses, either family, both, any delay and any number of
\* restarts: the race of connection attempts has one winner and leaves no other
\* socket open, it fails only when every address was refused, it alternates
\* between the families while both have addresses, and while it waits there is
\* an attempt under way or a timer to end the wait.
THEOREM RaceIsSound ==
  ASSUME EyeballsConstants
  PROVE  Spec => []RaceSound /\ []TypeOK
<1>1. Init => RaceInv
  BY StartsRight
<1>2. RaceInv /\ [Next]_eyeballVars => RaceInv'
  BY StepKeeps
<1>3. RaceInv => RaceSound /\ TypeOK
  BY InvariantIsSound
<1> QED BY <1>1, <1>2, <1>3, PTL DEF Spec

-----------------------------------------------------------------------------
(* The race between HTTP versions. *)

HC == INSTANCE HttpsConnect

BallerType == [cf : BOOLEAN, failed : BOOLEAN, reply : BOOLEAN, net : {"none", "pending", "up", "down"}]

BallerTypesInv ==
  /\ hcState \in {"init", "connect", "success", "failure"}
  /\ hcStep \in {"return", "first", "second", "askSecond"}
  /\ DOMAIN ballers = {1} \/ DOMAIN ballers = {1, 2}
  /\ \A i \in DOMAIN ballers : ballers[i] \in BallerType
  /\ chain \in 0..2 /\ elapsed \in 0..HardTimeout /\ hcTimer \in 0..HardTimeout \cup {NoTimer}

\* what is true of the filters in each state
ChainInv ==
  /\ hcStep # "return" => hcState = "connect"
  /\ hcState \in {"init", "connect"} => chain = 0
  /\ chain # 0 => chain \in DOMAIN ballers /\ ballers[chain].net = "up" /\ \A i \in DOMAIN ballers : ~ballers[i].cf
  /\ hcState = "success" => chain # 0
  /\ hcState = "failure" /\ chain = 0 => \A i \in DOMAIN ballers : ballers[i].failed

\* The timer is never early: it ends the soft timeout or comes later.  In a call
\* that may start the second baller it is set, or the soft timeout has passed.
TimerInv ==
  Untried(2) =>
    /\ hcTimer # NoTimer => elapsed + hcTimer >= SoftTimeout
    /\ hcStep \in {"return", "askSecond"} => ~ballers[1].failed /\ hcTimer # NoTimer
    /\ elapsed < SoftTimeout => hcTimer # NoTimer

BallersInv == BallerTypesInv /\ ChainInv /\ TimerInv

-----------------------------------------------------------------------------
LEMMA FreshType ==
  HC!Fresh \in BallerType /\ HC!Fresh.cf = FALSE /\ HC!Fresh.failed = FALSE
BY DEF HC!Fresh, BallerType

LEMMA BallersInit ==
  ASSUME HttpsConstants, HC!Init
  PROVE  BallersInv
<1>1. PICK count \in BallerCounts : ballers = [i \in 1..count |-> HC!Fresh]
  BY DEF HC!Init
<1>2. 1..1 = {1} /\ 1..2 = {1, 2}
  OBVIOUS
<1>3. count = 1 \/ count = 2
  BY DEF HttpsConstants
<1>4. (DOMAIN ballers = {1} \/ DOMAIN ballers = {1, 2}) /\ \A i \in DOMAIN ballers : ballers[i] = HC!Fresh
  BY <1>1, <1>2, <1>3
<1> QED BY <1>4, FreshType DEF HC!Init, BallersInv, BallerTypesInv, ChainInv, TimerInv, Untried, HttpsConstants

\* What a start makes of a baller.
LEMMA StartedType ==
  ASSUME NEW i, ballers[i] \in BallerType, NEW b \in HC!Started(i)
  PROVE  b \in BallerType /\ (b.failed \/ b.cf) /\ (b.failed = ballers[i].failed \/ b.failed)
<1>1. CASE b = [ballers[i] EXCEPT !.failed = TRUE]
  BY <1>1 DEF BallerType
<1>2. CASE b = [ballers[i] EXCEPT !.cf = TRUE, !.net = "pending"]
  BY <1>2 DEF BallerType
<1> QED BY <1>1, <1>2 DEF HC!Started

LEMMA BeginInv ==
  ASSUME HttpsConstants, BallersInv, HC!Begin
  PROVE  BallersInv'
<1>1. CASE hcState = "init"
  <2>1. PICK b \in HC!Started(1) : ballers' = [ballers EXCEPT ![1] = b]
    BY <1>1 DEF HC!Begin
  <2>2. b \in BallerType /\ 1 \in DOMAIN ballers
    BY StartedType DEF BallersInv, BallerTypesInv
  <2>3. DOMAIN ballers' = DOMAIN ballers /\ \A i \in DOMAIN ballers : ballers'[i] \in BallerType
    BY <2>1, <2>2 DEF BallersInv, BallerTypesInv
  <2>4. BallerTypesInv'
    BY <1>1, <2>3 DEF HC!Begin, BallersInv, BallerTypesInv, HttpsConstants
  <2>5. ChainInv'
    BY <1>1 DEF HC!Begin, BallersInv, ChainInv
  <2>6. TimerInv'
    BY <1>1, <2>3 DEF HC!Begin, TimerInv, Untried, HC!HasSecond, HttpsConstants
  <2> QED BY <2>4, <2>5, <2>6 DEF BallersInv
<1>2. CASE hcState = "connect"
  <2>1. BallerTypesInv'
    BY <1>2 DEF HC!Begin, BallersInv, BallerTypesInv
  <2>2. ChainInv'
    BY <1>2 DEF HC!Begin, BallersInv, ChainInv
  <2>3. TimerInv'
    BY <1>2 DEF HC!Begin, BallersInv, TimerInv, Untried
  <2> QED BY <2>1, <2>2, <2>3 DEF BallersInv
<1> QED BY <1>1, <1>2 DEF HC!Begin

LEMMA WinsInv ==
  ASSUME BallersInv, NEW i \in DOMAIN ballers, HC!Wins(i), UNCHANGED <<elapsed, hcTimer>>
  PROVE  BallersInv'
<1>1. DOMAIN ballers' = DOMAIN ballers
      /\ \A j \in DOMAIN ballers : ballers'[j] = IF j = i THEN [ballers[i] EXCEPT !.cf = FALSE] ELSE HC!Fresh
  BY DEF HC!Wins
<1>2. ballers[i] \in BallerType /\ ballers[i].net = "up" /\ i \in {1, 2}
  BY DEF BallersInv, BallerTypesInv, HC!Wins
<1>3. LET b == [ballers[i] EXCEPT !.cf = FALSE] IN b \in BallerType /\ b.net = "up" /\ b.cf = FALSE
  BY <1>2 DEF BallerType
<1>4. BallerTypesInv'
  BY <1>1, <1>2, <1>3, FreshType DEF HC!Wins, BallersInv, BallerTypesInv
<1>5. ChainInv'
  <2>1. ballers'[i].net = "up" /\ ballers'[i].cf = FALSE
    BY <1>1, <1>3
  <2>2. \A j \in DOMAIN ballers : ballers'[j].cf = FALSE
    BY <1>1, <1>3, FreshType
  <2>3. chain' = i /\ i # 0 /\ hcState' \in {"success", "failure"} /\ hcStep' = "return"
    BY <1>2 DEF HC!Wins
  <2> QED BY <1>1, <2>1, <2>2, <2>3 DEF ChainInv
<1>6. TimerInv'
  BY DEF HC!Wins, TimerInv, Untried
<1> QED BY <1>4, <1>5, <1>6 DEF BallersInv

\* Asking a baller in vain only marks it failed.
LEMMA AskedType ==
  ASSUME BallersInv, NEW i \in DOMAIN ballers
  PROVE  /\ DOMAIN HC!Asked(i) = DOMAIN ballers
         /\ \A j \in DOMAIN ballers : /\ HC!Asked(i)[j] \in BallerType
                                      /\ HC!Asked(i)[j].cf = ballers[j].cf
                                      /\ j # i \/ ~ballers[i].cf => HC!Asked(i)[j] = ballers[j]
<1>1. \A j \in DOMAIN ballers : ballers[j] \in BallerType
  BY DEF BallersInv, BallerTypesInv
<1>2. CASE HC!Active(i) /\ ballers[i].net = "down"
  <2>1. HC!Asked(i) = [ballers EXCEPT ![i].failed = TRUE]
    BY <1>2 DEF HC!Asked
  <2>2. DOMAIN HC!Asked(i) = DOMAIN ballers /\ HC!Asked(i)[i] = [ballers[i] EXCEPT !.failed = TRUE]
        /\ \A j \in DOMAIN ballers \ {i} : HC!Asked(i)[j] = ballers[j]
    BY <2>1
  <2>3. ballers[i].cf
    BY <1>2 DEF HC!Active
  <2>4. HC!Asked(i)[i] \in BallerType /\ HC!Asked(i)[i].cf = ballers[i].cf
    BY <1>1, <2>2 DEF BallerType
  <2>5. ASSUME NEW j \in DOMAIN ballers, j # i PROVE HC!Asked(i)[j] = ballers[j]
    BY <2>2, <2>5
  <2> QED BY <1>1, <2>2, <2>3, <2>4, <2>5
<1>3. CASE ~(HC!Active(i) /\ ballers[i].net = "down")
  BY <1>1, <1>3 DEF HC!Asked
<1> QED BY <1>2, <1>3

LEMMA AskFirstInv ==
  ASSUME HttpsConstants, BallersInv, HC!AskFirst
  PROVE  BallersInv'
<1>1. 1 \in DOMAIN ballers
  BY DEF BallersInv, BallerTypesInv
<1>2. CASE HC!Wins(1)
  BY <1>1, <1>2, WinsInv DEF HC!AskFirst
<1>3. CASE ballers' = HC!Asked(1) /\ hcStep' = "second" /\ UNCHANGED <<hcState, chain, elapsed, hcTimer>>
  <2>1. DOMAIN ballers' = DOMAIN ballers
        /\ \A j \in DOMAIN ballers : ballers'[j] \in BallerType /\ (j = 2 => ballers'[j] = ballers[j])
    BY <1>1, <1>3, AskedType
  <2>2. BallerTypesInv'
    BY <1>3, <2>1 DEF BallersInv, BallerTypesInv
  <2>3. hcState = "connect" /\ chain = 0
    BY DEF HC!AskFirst, BallersInv, ChainInv
  <2>4. ChainInv'
    BY <1>3, <2>3 DEF ChainInv
  <2>5. TimerInv'
    BY <1>3, <2>1 DEF BallersInv, TimerInv, Untried
  <2> QED BY <2>2, <2>4, <2>5 DEF BallersInv
<1> QED BY <1>2, <1>3 DEF HC!AskFirst

LEMMA StartSecondInv ==
  ASSUME HttpsConstants, BallersInv, HC!StartSecond
  PROVE  BallersInv'
<1>1. 2 \in DOMAIN ballers /\ hcState = "connect" /\ chain = 0
  BY DEF HC!StartSecond, HC!SecondIsDue, HC!HasSecond, BallersInv, ChainInv
<1>2. PICK b \in HC!Started(2) : ballers' = [ballers EXCEPT ![2] = b]
  BY DEF HC!StartSecond
<1>3. b \in BallerType /\ (b.failed \/ b.cf)
  BY <1>1, StartedType DEF BallersInv, BallerTypesInv
<1>4. DOMAIN ballers' = DOMAIN ballers /\ ballers'[2] = b /\ \A i \in DOMAIN ballers : ballers'[i] \in BallerType
  BY <1>1, <1>2, <1>3 DEF BallersInv, BallerTypesInv
<1>5. BallerTypesInv'
  BY <1>4 DEF HC!StartSecond, BallersInv, BallerTypesInv
<1>6. ChainInv'
  BY <1>1 DEF HC!StartSecond, ChainInv
<1>7. TimerInv'
  BY <1>3, <1>4 DEF TimerInv, Untried
<1> QED BY <1>5, <1>6, <1>7 DEF BallersInv

LEMMA NoSecondYetInv ==
  ASSUME HttpsConstants, BallersInv, HC!NoSecondYet
  PROVE  BallersInv'
<1>1. elapsed \in 0..HardTimeout /\ SoftTimeout \in Nat /\ HardTimeout \in Nat /\ NoTimer \notin Nat
      /\ SoftTimeout < HardTimeout
  BY DEF BallersInv, BallerTypesInv, HttpsConstants
<1>2. hcState = "connect" /\ chain = 0
  BY DEF HC!NoSecondYet, BallersInv, ChainInv
<1>3. BallerTypesInv'
  BY <1>1 DEF HC!NoSecondYet, BallersInv, BallerTypesInv
<1>4. ChainInv'
  BY <1>2 DEF HC!NoSecondYet, ChainInv
<1>5. ASSUME Untried(2)
      PROVE  /\ hcTimer' # NoTimer => elapsed + hcTimer' >= SoftTimeout
             /\ ~ballers[1].failed /\ hcTimer' # NoTimer
  <2>1. HC!HasSecond /\ ~ballers[2].cf
    BY <1>5 DEF Untried, HC!HasSecond
  <2>2. ~ballers[1].failed
    BY <2>1 DEF HC!NoSecondYet, HC!SecondIsDue
  <2>3. CASE elapsed >= SoftTimeout
    <3>1. hcTimer' = HardTimeout - elapsed
      BY <2>1, <2>3 DEF HC!NoSecondYet
    <3> QED BY <3>1, <1>1, <2>2
  <2>4. CASE ~(elapsed >= SoftTimeout)
    <3>1. hcTimer' = hcTimer
      BY <2>4 DEF HC!NoSecondYet
    <3> QED BY <3>1, <1>1, <1>5, <2>2, <2>4 DEF BallersInv, TimerInv
  <2> QED BY <2>3, <2>4
<1>6. TimerInv'
  BY <1>5 DEF HC!NoSecondYet, TimerInv, Untried
<1> QED BY <1>3, <1>4, <1>6 DEF BallersInv

LEMMA AskSecondInv ==
  ASSUME HttpsConstants, BallersInv, HC!AskSecond
  PROVE  BallersInv'
<1>1. CASE HC!HasSecond /\ HC!Wins(2)
  BY <1>1, WinsInv DEF HC!AskSecond, HC!HasSecond
<1>2. CASE /\ ballers' = IF HC!HasSecond THEN HC!Asked(2) ELSE ballers
           /\ hcState' = IF \A i \in DOMAIN ballers : ballers'[i].failed THEN "failure" ELSE hcState
           /\ hcStep' = "return"
           /\ UNCHANGED <<chain, elapsed, hcTimer>>
  <2>1. DOMAIN ballers' = DOMAIN ballers
        /\ \A j \in DOMAIN ballers : /\ ballers'[j] \in BallerType /\ ballers'[j].cf = ballers[j].cf
                                     /\ j # 2 \/ ~ballers[2].cf => ballers'[j] = ballers[j]
    <3>1. CASE HC!HasSecond
      BY <1>2, <3>1, AskedType DEF HC!HasSecond
    <3>2. CASE ~HC!HasSecond
      BY <1>2, <3>2 DEF BallersInv, BallerTypesInv
    <3> QED BY <3>1, <3>2
  <2>2. hcState = "connect" /\ chain = 0
    BY DEF HC!AskSecond, BallersInv, ChainInv
  <2>3. BallerTypesInv'
    BY <1>2, <2>1 DEF BallersInv, BallerTypesInv
  <2>4. ChainInv'
    BY <1>2, <2>1, <2>2 DEF ChainInv
  <2>5. ASSUME Untried(2)' PROVE Untried(2) /\ ballers'[1] = ballers[1]
    BY <1>2, <2>1, <2>2, <2>5 DEF Untried, BallersInv, BallerTypesInv
  <2>6. TimerInv'
    BY <1>2, <2>5 DEF HC!AskSecond, BallersInv, TimerInv
  <2> QED BY <2>3, <2>4, <2>6 DEF BallersInv
<1> QED BY <1>1, <1>2 DEF HC!AskSecond

LEMMA CloseInv ==
  ASSUME HttpsConstants, BallersInv, HC!Close
  PROVE  BallersInv'
BY FreshType DEF HC!Close, BallersInv, BallerTypesInv, ChainInv, TimerInv, Untried

LEMMA AnswerInv ==
  ASSUME HttpsConstants, BallersInv, NEW i \in DOMAIN ballers, HC!Answer(i)
  PROVE  BallersInv'
<1>1. \A j \in DOMAIN ballers : ballers[j] \in BallerType
  BY DEF BallersInv, BallerTypesInv
<1>2. /\ DOMAIN ballers' = DOMAIN ballers
      /\ \A j \in DOMAIN ballers : /\ ballers'[j] \in BallerType /\ ballers'[j].cf = ballers[j].cf
                                   /\ ballers'[j].failed = ballers[j].failed
  <2>1. CASE \E n \in {"up", "down"} : ballers' = [ballers EXCEPT ![i].net = n]
    BY <1>1, <2>1 DEF BallerType
  <2>2. CASE ballers' = [ballers EXCEPT ![i].reply = TRUE]
    BY <1>1, <2>2 DEF BallerType
  <2> QED BY <2>1, <2>2 DEF HC!Answer
<1>3. chain = 0
  BY DEF HC!Answer, BallersInv, ChainInv
<1>4. BallerTypesInv'
  BY <1>2 DEF HC!Answer, BallersInv, BallerTypesInv
<1>5. ChainInv'
  BY <1>2, <1>3 DEF HC!Answer, BallersInv, ChainInv
<1>6. TimerInv'
  BY <1>2 DEF HC!Answer, BallersInv, BallerTypesInv, TimerInv, Untried
<1> QED BY <1>4, <1>5, <1>6 DEF BallersInv

LEMMA TickInv ==
  ASSUME HttpsConstants, BallersInv, HC!Tick
  PROVE  BallersInv'
<1>1. elapsed \in 0..HardTimeout /\ SoftTimeout \in Nat /\ HardTimeout \in Nat /\ NoTimer \notin Nat
      /\ SoftTimeout < HardTimeout /\ hcTimer \in 0..HardTimeout \cup {NoTimer}
  BY DEF BallersInv, BallerTypesInv, HttpsConstants
<1>2. BallerTypesInv'
  BY <1>1 DEF HC!Tick, BallersInv, BallerTypesInv
<1>3. ChainInv'
  BY DEF HC!Tick, BallersInv, ChainInv
<1>4. /\ elapsed' >= elapsed
      /\ hcTimer # NoTimer <=> hcTimer' # NoTimer
      /\ hcTimer # NoTimer /\ elapsed + hcTimer >= SoftTimeout => elapsed' + hcTimer' >= SoftTimeout
  BY <1>1 DEF HC!Tick
<1>5. TimerInv'
  BY <1>1, <1>4 DEF HC!Tick, BallersInv, TimerInv, Untried
<1> QED BY <1>2, <1>3, <1>5 DEF BallersInv

LEMMA ExpireInv ==
  ASSUME HttpsConstants, BallersInv, HC!Expire
  PROVE  BallersInv'
<1>1. elapsed \in 0..HardTimeout /\ SoftTimeout \in Nat /\ HardTimeout \in Nat /\ NoTimer \notin Nat
  BY DEF BallersInv, BallerTypesInv, HttpsConstants
<1>2. BallerTypesInv'
  BY DEF HC!Expire, BallersInv, BallerTypesInv
<1>3. ChainInv'
  BY DEF HC!Expire, BallersInv, ChainInv
<1>4. TimerInv'
  BY <1>1 DEF HC!Expire, BallersInv, TimerInv, Untried
<1> QED BY <1>2, <1>3, <1>4 DEF BallersInv

\* For any timeouts and one or two ballers: filters that are installed belong to a
\* baller that connected and are the only ones, failure is the failure of all, and the
\* second baller is coming as long as it was not tried (cf_hc_connect).
THEOREM BallersAreRight ==
  ASSUME HttpsConstants
  PROVE  HC!Spec => []BallersRight /\ []HC!TypeOK
<1>1. HC!Init => BallersInv
  BY BallersInit
<1>2. BallersInv /\ [HC!Next]_httpsVars => BallersInv'
  <2> SUFFICES ASSUME BallersInv, [HC!Next]_httpsVars PROVE BallersInv'
    OBVIOUS
  <2>1. CASE UNCHANGED httpsVars
    BY <2>1 DEF httpsVars, BallersInv, BallerTypesInv, ChainInv, TimerInv, Untried
  <2> QED BY <2>1, BeginInv, ExpireInv, AskFirstInv, StartSecondInv, NoSecondYetInv, AskSecondInv,
             CloseInv, TickInv, AnswerInv DEF HC!Next, HC!InCall
<1>3. BallersInv => BallersRight /\ HC!TypeOK
  BY DEF BallersInv, BallerTypesInv, ChainInv, TimerInv, BallersRight, OneChain, FailsLast, SecondIsComing, HC!TypeOK, BallerType
<1> QED BY <1>1, <1>2, <1>3, PTL DEF HC!Spec, HC!httpsVars, httpsVars
=============================================================================
