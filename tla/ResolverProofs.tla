--------------------------- MODULE ResolverProofs ---------------------------
(***************************************************************************)
(* Proofs about Resolver, for any number of handles, hosts, lookups and    *)
(* entries, whatever resolver threads and calls do between each other's    *)
(* steps.  Three questions, each with its part of the invariant:           *)
(*   - who holds a lookup (LookupInv): a thread and at most one handle;    *)
(*     the last of them frees it, after its thread was joined or detached, *)
(*     and nobody but a call meant to wait joins a thread at work;         *)
(*   - who holds a DNS entry (EntryInv): the cache, slots of handles and   *)
(*     the call under way, each counted once; a pending answer (async.dns) *)
(*     that is looked at again holds nothing;                              *)
(*   - what a handle is given (FitsInv): addresses it asked for.           *)
(* All rest on where a call can be (Control): its steps left to do are     *)
(* in an order (Ordered) that lets none come too early.                    *)
(***************************************************************************)
EXTENDS Resolver, FiniteSetTheorems, SequenceTheorems, TLAPS

-----------------------------------------------------------------------------
(* What a call may have left to do: the order its steps are in. *)

LastSteps == {"create", "doh", "check", "isResolved", "isDohResolved", "awaited",
              "deliver", "lost", "release", "keep"}
Joins == {"join", "joinForget", "joinOrDetach"}
Steps == LastSteps \cup Joins \cup {"mark", "joinAlways", "unlink", "free", "negative"}

\* b may be the next step after a
Follows(a, b) ==
  /\ a \notin LastSteps
  /\ b \notin {"free", "doh", "check", "isResolved", "isDohResolved"}
  /\ a = "mark" => b \in Joins
  /\ b = "unlink" => a = "joinOrDetach"
  /\ b = "create" => a \in {"unlink", "free"}
  /\ b = "awaited" => a = "joinAlways"

Ordered(p) ==
  /\ p \in Seq(Steps) /\ p # <<>>
  /\ p[Len(p)] \in LastSteps
  /\ \A i \in 1 .. Len(p) - 1 : Follows(p[i], p[i + 1])
  /\ \A i \in 1 .. Len(p) : p[i] = "negative" => p[Len(p)] = "lost"
  /\ p[Len(p)] = "awaited" => Len(p) <= 2

\* a program that drops the probes and the name of the query on its way
Forgets(p) == \E i \in 1 .. Len(p) : p[i] = "joinForget"

\* what the call under way ends with
Aim == IF call.todo = <<>> THEN "none" ELSE call.todo[Len(call.todo)]
Looks == {"check", "isResolved", "isDohResolved", "awaited"}

-----------------------------------------------------------------------------
(* The invariant. *)

Modes == {"none", "connect", "blocking", "poll", "done", "close", "reset"}

LookupRec == [st : {"unused", "live", "freed"}, refs : 0..2, abort : BOOLEAN, done : BOOLEAN,
              handle : {"null", "held", "joined", "detached"}, res : SUBSET Families,
              want : Families \cup {"any"}]
ThreadAt == {"none", "start", "lookup", "notify", "unlink", "free", "exit", "ended"}
EntryRec == [st : {"unused", "live", "freed"}, refs : Int, host : Hosts \cup {Nil},
             fam : SUBSET Families, stale : BOOLEAN, perm : BOOLEAN]
Slots == (Entries \cup {Nil}) \X (Entries \cup {Nil})
UserRec == [st : {"idle", "resolving", "resolved", "ending", "closed"},
            ctx : Lookups \cup {Nil}, dns : Entries \cup {Nil}, host : Hosts \cup {Nil},
            doh : {"none", "pending", "answered"}, slot : Slots]
CallRec == [who : Users \cup {Nil}, mode : Modes, host : Hosts \cup {Nil},
            todo : Seq(Steps), done : BOOLEAN, dns : Entries \cup {Nil}]

Types ==
  /\ lookup \in [Lookups -> LookupRec]
  /\ thread \in [Lookups -> ThreadAt]
  /\ entry \in [Entries -> EntryRec]
  /\ cache \in [Hosts -> Entries \cup {Nil}]
  /\ user \in [Users -> UserRec]
  /\ call \in CallRec
  /\ turns \in Nat

\* where a call is, and what its handle has then
Control ==
  /\ call = Idle \/ (Ordered(call.todo) /\ Me \in Users)
  /\ Aim \notin {"none", "keep", "release"} => call.host \in Hosts
  /\ Aim \in Looks => user[Me].host \in Hosts
  /\ At("create") => Ctx = Nil
  /\ At("check") => user[Me].doh # "none" \/ Ctx # Nil
  /\ At("isDohResolved") => user[Me].doh # "none"
  /\ Aim \in {"isResolved", "awaited"} => Ctx # Nil
  /\ At("free") => Ctx # Nil
  /\ call.mode = "blocking" => /\ Me \in BlockingUsers /\ user[Me].st = "resolved"
                               /\ user[Me].doh = "none"
  /\ Aim \in {"create", "doh"} => call.mode \in {"connect", "blocking"}
  /\ Aim = "doh" => call.mode = "connect"
  /\ Aim \in Looks => call.mode \in {"connect", "blocking"} \/ user[Me].st = "resolving"

\* a resolve that is looked at again has something to look at
Pollable ==
  \A u \in Users : user[u].st = "resolving" /\ Me # u
    => user[u].host \in Hosts /\ (user[u].doh # "none" \/ user[u].ctx # Nil)

\* probes are out while their answer is waited for, or about to be dropped
Probing ==
  \A u \in Users : user[u].doh # "none"
    => IF Me = u THEN Aim \in {"check", "isDohResolved"} \/ Forgets(call.todo)
       ELSE user[u].st = "resolving"

\* a handle that has a lookup and is not about to free it
Keeps(u, c) == user[u].ctx = c /\ ~(At("free") /\ Me = u)
Owned(c) == \E u \in Users : Keeps(u, c)

\* no lookup of two handles
OneOwner == \A u, v \in Users : user[u].ctx = user[v].ctx /\ user[u].ctx # Nil => u = v

One(condition) == IF condition THEN 1 ELSE 0

LookupAt(c) ==
  /\ lookup[c].refs = One(Owned(c)) + One(Running(c))
  /\ lookup[c].st = "live" <=> Owned(c) \/ Running(c) \/ Freeing(c)
  /\ lookup[c].st = "unused" => thread[c] = "none" /\ lookup[c].handle = "null"
  /\ thread[c] = "none" => lookup[c].handle # "held"
  /\ lookup[c].handle = "held" => \E u \in Users : Keeps(u, c) /\ ~(At("unlink") /\ Me = u)
  /\ lookup[c].handle = "held" /\ lookup[c].done => thread[c] \in {"exit", "ended"}
  /\ thread[c] = "free" => ~Owned(c)
  /\ At("free") /\ Ctx = c => thread[c] \in {"none", "exit", "ended"}
LookupInv == \A c \in Lookups : LookupAt(c)

\* what a lookup finds is what its handle wants
Wanted ==
  /\ \A c \in Lookups : lookup[c].res \in AnswersFor(lookup[c].want) \cup {{}}
  /\ \A u \in Users : user[u].ctx # Nil => lookup[user[u].ctx].want = WantOf[u]

\* what Mark has seen stays true until the step after it
DoneSeen ==
  call.done => /\ Ctx # Nil /\ lookup[Ctx].done
               /\ At("join") \/ At("joinForget") \/ At("joinOrDetach")

LInv == Types /\ Control /\ Pollable /\ Probing /\ OneOwner /\ LookupInv /\ Wanted /\ DoneSeen

\* an answer that will be looked for again is not there yet
NoAnswerYet ==
  /\ Aim \in Looks => user[Me].dns = Nil
  /\ \A u \in Users : user[u].st = "resolving" /\ Me # u => user[u].dns = Nil
  /\ \A u \in DohUsers :
       user[u].dns = Nil \/ (Me = u /\ Aim = "deliver" /\ call.mode = "poll")

\* which calls look for answers, and how far those go that start probes:
\* Curl_doh leaves async.dns as it was, so nothing may be in it
Calls ==
  /\ Aim \in Looks => call.mode \in {"connect", "blocking", "poll"}
  /\ Aim = "awaited" => call.mode = "blocking"
  /\ Aim = "doh" => Me \in DohUsers
  /\ Me \in DohUsers /\ call.mode = "connect"
       => /\ Aim \in {"doh", "check", "isDohResolved", "lost", "deliver"}
          /\ Aim \in {"doh", "check", "isDohResolved"} => cache[call.host] = Nil
          /\ Aim \in {"check", "isDohResolved"}
               => user[Me].host = call.host /\ user[Me].doh = "pending"

\* probes are sent for those who ask over HTTPS
ProbesAsked == \A u \in Users : user[u].doh # "none" => u \in DohUsers

Same(a, b) == One(a = b)

\* who holds an entry: the cache ch, slots of the handles usr, a call with dns
CachedIn(ch, e) == One(\E h \in Hosts : ch[h] = e)
SlotsIn(usr, e) == {s \in Users \X {1, 2} : usr[s[1]].slot[s[2]] = e}
HeldIn(ch, usr, dns) ==
  [e \in Entries |-> CachedIn(ch, e) + Cardinality(SlotsIn(usr, e)) + Same(dns, e)]

\* no entry is cached for two hosts
OneHost(ch) == \A h, k \in Hosts : ch[h] = ch[k] /\ ch[h] # Nil => h = k

\* the counts of the entries are those of their holders; what is held is there
Counted(ents, held) ==
  \A e \in Entries : ents[e].refs = held[e] /\ (ents[e].st = "live" <=> held[e] > 0)

EntryInv ==
  /\ OneHost(cache)
  /\ call.dns # Nil => Aim = "deliver"
  /\ Counted(entry, HeldIn(cache, user, call.dns))

\* an entry has what the handle asks for
Suits(ents, e, u) == e # Nil /\ AsksForIts(u) => WantOf[u] \in ents[e].fam
FitsInv ==
  /\ \A u \in Users : Suits(entry, user[u].slot[1], u)
  /\ call.dns # Nil => Suits(entry, call.dns, Me)

EInv == NoAnswerYet /\ Calls /\ EntryInv /\ FitsInv

-----------------------------------------------------------------------------
(* Sequences of steps. *)

\* What the first step of an ordered sequence says of the rest.
LEMMA OrderedHead ==
  ASSUME NEW p, Ordered(p)
  PROVE  /\ p \in Seq(Steps) /\ p # <<>> /\ Len(p) \in Nat /\ Len(p) >= 1 /\ Head(p) = p[1]
         /\ Head(p) \in LastSteps <=> Len(p) = 1
         /\ Head(p) \in LastSteps => Tail(p) = <<>> /\ p[Len(p)] = Head(p)
<1>1. p \in Seq(Steps) /\ p # <<>> /\ Len(p) \in Nat /\ Len(p) >= 1 /\ Head(p) = p[1]
  BY DEF Ordered
<1>2. ASSUME Len(p) # 1
      PROVE  Head(p) \notin LastSteps
  <2>1. Follows(p[1], p[2])
    <3>1. 1 \in 1 .. Len(p) - 1
      BY <1>1, <1>2, SMTT(20)
    <3> QED BY <3>1 DEF Ordered
  <2> QED BY <2>1, <1>1 DEF Follows
<1>3. ASSUME Len(p) = 1
      PROVE  Head(p) \in LastSteps /\ Tail(p) = <<>> /\ p[Len(p)] = Head(p)
  <2>1. Tail(p) \in Seq(Steps) /\ Len(Tail(p)) = 0
    BY <1>1, <1>3, HeadTailProperties
  <2>2. Tail(p) = <<>>
    BY <2>1, EmptySeq
  <2> QED BY <1>1, <1>3, <2>2 DEF Ordered
<1> QED BY <1>1, <1>2, <1>3

\* A step that is not the last leaves an ordered sequence with the same end.
LEMMA OrderedTail ==
  ASSUME NEW p, Ordered(p), Head(p) \notin LastSteps
  PROVE  /\ Ordered(Tail(p)) /\ Tail(p)[Len(Tail(p))] = p[Len(p)]
         /\ Follows(Head(p), Head(Tail(p)))
<1>1. p \in Seq(Steps) /\ Len(p) \in Nat /\ Len(p) > 1 /\ Head(p) = p[1]
  <2>1. p \in Seq(Steps) /\ Len(p) \in Nat /\ Len(p) >= 1 /\ Len(p) # 1 /\ Head(p) = p[1]
    BY OrderedHead
  <2>2. \A n \in Nat : n >= 1 /\ n # 1 => n > 1
    OBVIOUS
  <2> QED BY <2>1, <2>2, Zenon
<1>2. Tail(p) \in Seq(Steps) /\ Len(Tail(p)) = Len(p) - 1 /\ Tail(p) # <<>>
  <2>1. Tail(p) \in Seq(Steps) /\ Len(Tail(p)) = Len(p) - 1
    BY <1>1, HeadTailProperties
  <2>2. \A n \in Nat : n > 1 => n - 1 # 0
    OBVIOUS
  <2>3. Len(p) - 1 # 0
    BY <1>1, <2>2, Zenon
  <2> QED BY <2>1, <2>3, EmptySeq, Zenon
<1>3. \A i \in 1 .. Len(p) - 1 : Tail(p)[i] = p[i + 1]
  BY <1>1
<1>4. Tail(p)[Len(Tail(p))] = p[Len(p)]
  BY <1>1, <1>2, <1>3
<1>5. \A i \in 1 .. Len(Tail(p)) - 1 : Follows(Tail(p)[i], Tail(p)[i + 1])
  <2> SUFFICES ASSUME NEW i \in 1 .. Len(Tail(p)) - 1
               PROVE  Follows(Tail(p)[i], Tail(p)[i + 1])
    OBVIOUS
  <2>1. i + 1 \in 1 .. Len(p) - 1 /\ i \in 1 .. Len(p) - 1
    BY <1>1, <1>2
  <2>2. Follows(p[i + 1], p[(i + 1) + 1])
    BY <2>1 DEF Ordered
  <2> QED BY <1>3, <2>1, <2>2
<1>6. \A i \in 1 .. Len(Tail(p)) : Tail(p)[i] = "negative" => p[Len(p)] = "lost"
  <2> SUFFICES ASSUME NEW i \in 1 .. Len(Tail(p)), Tail(p)[i] = "negative"
               PROVE  p[Len(p)] = "lost"
    OBVIOUS
  <2>1. i + 1 \in 1 .. Len(p) /\ p[i + 1] = "negative"
    BY <1>1, <1>2, <1>3
  <2> QED BY <2>1 DEF Ordered
<1>7. Head(Tail(p)) = p[2] /\ Follows(p[1], p[2])
  <2>1. 1 \in 1 .. Len(p) - 1
    BY <1>1
  <2>2. Follows(p[1], p[1 + 1]) /\ Tail(p)[1] = p[1 + 1]
    BY <2>1, <1>3 DEF Ordered
  <2> QED BY <2>2, <1>2
<1>8. p[Len(p)] = "awaited" => Len(Tail(p)) <= 2
  BY <1>1, <1>2 DEF Ordered
<1>9. p[Len(p)] \in LastSteps
  BY DEF Ordered
<1> QED BY <1>1, <1>2, <1>4, <1>5, <1>6, <1>7, <1>8, <1>9 DEF Ordered

\* Dropping the probes stays ahead until it is done.
LEMMA ForgetsLater ==
  ASSUME NEW p, Ordered(p), Head(p) \notin LastSteps
  PROVE  /\ Forgets(p) /\ Head(p) # "joinForget" => Forgets(Tail(p))
         /\ Forgets(p) /\ Head(p) # "joinForget" => Forgets(<<"free">> \o Tail(p))
<1>1. p \in Seq(Steps) /\ Len(p) \in Nat /\ Head(p) = p[1]
  BY OrderedHead
<1>2. p # <<>>
  BY OrderedHead
<1>3. Tail(p) \in Seq(Steps) /\ Len(Tail(p)) = Len(p) - 1
  BY <1>1, <1>2, HeadTailProperties
<1>4. \A i \in 1 .. Len(p) - 1 : Tail(p)[i] = p[i + 1]
  BY <1>1
<1>5. ASSUME Forgets(p), Head(p) # "joinForget"
      PROVE  Forgets(Tail(p)) /\ Forgets(<<"free">> \o Tail(p))
  <2>1. PICK i \in 1 .. Len(p) : p[i] = "joinForget"
    BY <1>5 DEF Forgets
  <2>2. i # 1
    BY <2>1, <1>1, <1>5
  <2>3. i - 1 \in 1 .. Len(p) - 1 /\ (i - 1) + 1 = i
    BY <2>1, <2>2, <1>1
  <2>4. Tail(p)[i - 1] = "joinForget"
    BY <2>1, <2>3, <1>4
  <2>5. Forgets(Tail(p))
    BY <2>3, <2>4, <1>3 DEF Forgets
  <2> DEFINE t == Tail(p)
  <2> DEFINE q == <<"free">> \o t
  <2>6. t \in Seq(Steps) /\ Len(t) = Len(p) - 1 /\ t[i - 1] = "joinForget"
    BY <1>3, <2>4
  <2> HIDE DEF t
  <2>7. Len(q) = Len(p) /\ q[i] = t[i - 1]
    <3> DEFINE f == <<"free">>
    <3>1. Len(f) = 1 /\ f \in Seq(Steps)
      BY DEF Steps
    <3> HIDE DEF f
    <3>2. /\ Len(f \o t) = Len(f) + Len(t)
          /\ \A j \in 1 .. Len(f) + Len(t) :
               (f \o t)[j] = IF j <= Len(f) THEN f[j] ELSE t[j - Len(f)]
      BY <3>1, <2>6, ConcatProperties
    <3>3. i \in Nat /\ ~(i <= 1) /\ 1 + (Len(p) - 1) = Len(p)
      BY <2>1, <2>2, <1>1
    <3>4. Len(f \o t) = Len(p) /\ (f \o t)[i] = t[i - 1]
      BY <3>1, <3>2, <3>3, <2>1, <2>6
    <3> QED BY <3>4 DEF f
  <2>8. Forgets(q)
    BY <2>1, <2>6, <2>7 DEF Forgets
  <2> QED BY <2>5, <2>8 DEF t
<1> QED BY <1>5

\* A last step drops no probes.
LEMMA ForgetsEarly ==
  ASSUME NEW p, Ordered(p), Head(p) \in LastSteps
  PROVE  ~Forgets(p)
<1>1. Len(p) = 1 /\ Head(p) = p[1] /\ p[1] # "joinForget"
  BY OrderedHead DEF LastSteps
<1> QED BY <1>1 DEF Forgets

\* Curl_async_shutdown drops them.
LEMMA ShutdownForgets ==
  ASSUME NEW t \in Seq(Steps)
  PROVE  Forgets(Shutdown \o t)
<1>1. Shutdown \in Seq(Steps) /\ Len(Shutdown) = 2 /\ Shutdown[2] = "joinForget"
  BY DEF Shutdown, Steps, Joins
<1>2. /\ Len(Shutdown \o t) = Len(Shutdown) + Len(t)
      /\ \A j \in 1 .. Len(Shutdown) + Len(t) :
           (Shutdown \o t)[j] = IF j <= Len(Shutdown) THEN Shutdown[j] ELSE t[j - Len(Shutdown)]
  BY <1>1, ConcatProperties
<1>3. 2 \in 1 .. Len(Shutdown) + Len(t) /\ 2 <= Len(Shutdown)
  BY <1>1
<1> QED BY <1>1, <1>2, <1>3 DEF Forgets

\* Steps put in front of an ordered sequence that they lead to.
LEMMA OrderedCat ==
  ASSUME NEW t, Ordered(t), t[Len(t)] # "awaited",
         NEW s \in Seq(Steps), s # <<>>,
         \A i \in 1 .. Len(s) - 1 : Follows(s[i], s[i + 1]),
         Follows(s[Len(s)], Head(t)),
         \A i \in 1 .. Len(s) : s[i] = "negative" => t[Len(t)] = "lost"
  PROVE  /\ Ordered(s \o t) /\ (s \o t)[Len(s \o t)] = t[Len(t)]
         /\ Head(s \o t) = Head(s)
<1> DEFINE p == s \o t
<1>1. t \in Seq(Steps) /\ Len(t) \in Nat /\ Len(t) >= 1 /\ Head(t) = t[1]
  BY OrderedHead
<1>2. Len(s) \in Nat /\ Len(s) >= 1 /\ Head(s) = s[1]
  OBVIOUS
<1>3. p \in Seq(Steps) /\ Len(p) = Len(s) + Len(t) /\ p # <<>>
  BY <1>1, <1>2
<1>4. \A i \in 1 .. Len(s) : p[i] = s[i]
  BY <1>1, <1>2
<1>5. \A i \in 1 .. Len(t) : p[Len(s) + i] = t[i]
  BY <1>1, <1>2
<1> HIDE DEF p
<1>6. p[Len(p)] = t[Len(t)] /\ t[Len(t)] \in LastSteps
  <2>1. Len(t) \in 1 .. Len(t)
    BY <1>1
  <2> QED BY <2>1, <1>5, <1>3 DEF Ordered
<1>7. \A i \in 1 .. Len(p) - 1 : Follows(p[i], p[i + 1])
  <2> SUFFICES ASSUME NEW i \in 1 .. Len(p) - 1
               PROVE  Follows(p[i], p[i + 1])
    OBVIOUS
  <2>1. CASE i < Len(s)
    <3>1. i \in 1 .. Len(s) - 1 /\ i \in 1 .. Len(s) /\ i + 1 \in 1 .. Len(s)
      BY <2>1, <1>2
    <3> QED BY <3>1, <1>4
  <2>2. CASE i = Len(s)
    <3>1. i \in 1 .. Len(s) /\ 1 \in 1 .. Len(t)
      BY <2>2, <1>1, <1>2
    <3>2. p[i] = s[Len(s)] /\ p[i + 1] = t[1]
      BY <3>1, <2>2, <1>4, <1>5
    <3> QED BY <3>2, <1>1
  <2>3. CASE i > Len(s)
    <3> DEFINE j == i - Len(s)
    <3>1. j \in 1 .. Len(t) - 1 /\ j \in 1 .. Len(t) /\ j + 1 \in 1 .. Len(t)
          /\ i = Len(s) + j /\ i + 1 = Len(s) + (j + 1)
      BY <2>3, <1>1, <1>2, <1>3
    <3>2. p[i] = t[j] /\ p[i + 1] = t[j + 1]
      BY <3>1, <1>5
    <3> QED BY <3>1, <3>2 DEF Ordered
  <2> QED BY <2>1, <2>2, <2>3, <1>2, <1>3
<1>8. \A i \in 1 .. Len(p) : p[i] = "negative" => t[Len(t)] = "lost"
  <2> SUFFICES ASSUME NEW i \in 1 .. Len(p), p[i] = "negative"
               PROVE  t[Len(t)] = "lost"
    OBVIOUS
  <2>1. CASE i <= Len(s)
    BY <2>1, <1>2, <1>4
  <2>2. CASE i > Len(s)
    <3>1. i - Len(s) \in 1 .. Len(t) /\ i = Len(s) + (i - Len(s))
      BY <2>2, <1>1, <1>2, <1>3
    <3>2. t[i - Len(s)] = "negative"
      BY <3>1, <1>5
    <3> QED BY <3>1, <3>2 DEF Ordered
  <2> QED BY <2>1, <2>2, <1>2, <1>3
<1>9. Head(p) = Head(s)
  <2>1. Head(p) = p[1] /\ 1 \in 1 .. Len(s)
    BY <1>2, <1>3
  <2> QED BY <2>1, <1>2, <1>4
<1>10. Ordered(p)
  BY <1>3, <1>6, <1>7, <1>8 DEF Ordered
<1> QED BY <1>6, <1>9, <1>10, <1>3 DEF p

\* One step alone is ordered if it is one to end with.
LEMMA OrderedOne ==
  ASSUME NEW a \in LastSteps
  PROVE  Ordered(<<a>>) /\ <<a>>[Len(<<a>>)] = a /\ Head(<<a>>) = a
<1>1. a \in Steps /\ a # "negative"
  BY DEF LastSteps, Steps
<1>2. Len(<<a>>) = 1 /\ <<a>>[1] = a /\ <<a>> \in Seq(Steps) /\ Head(<<a>>) = a
  BY <1>1
<1> QED BY <1>1, <1>2 DEF Ordered

\* The wait of a blocking resolve.
LEMMA OrderedAwait ==
  LET p == <<"joinAlways", "awaited">>
  IN  Ordered(p) /\ p[Len(p)] = "awaited" /\ Head(p) = "joinAlways"
<1> DEFINE p == <<"joinAlways", "awaited">>
<1>1. Len(p) = 2 /\ p[1] = "joinAlways" /\ p[2] = "awaited" /\ Head(p) = "joinAlways"
  OBVIOUS
<1>2. p \in Seq(Steps) /\ p # <<>>
  BY DEF Steps, LastSteps
<1> HIDE DEF p
<1>3. Follows(p[1], p[2])
  BY <1>1 DEF Follows, LastSteps
<1>4. \A i \in 1 .. Len(p) - 1 : Follows(p[i], p[i + 1])
  <2> SUFFICES ASSUME NEW i \in 1 .. Len(p) - 1
               PROVE  Follows(p[i], p[i + 1])
    OBVIOUS
  <2>1. i = 1
    BY <1>1
  <2> QED BY <2>1, <1>3
<1>5. \A i \in 1 .. Len(p) : p[i] # "negative"
  <2> SUFFICES ASSUME NEW i \in 1 .. Len(p)
               PROVE  p[i] # "negative"
    OBVIOUS
  <2>1. i = 1 \/ i = 2
    BY <1>1
  <2> QED BY <2>1, <1>1
<1>6. Ordered(p)
  BY <1>1, <1>2, <1>4, <1>5 DEF Ordered, LastSteps
<1> QED BY <1>6, <1>1 DEF p

\* Once the context is unlinked it may have to be freed first.
LEMMA OrderedFree ==
  ASSUME NEW t, Ordered(t), Follows("unlink", Head(t)), t[Len(t)] # "awaited"
  PROVE  /\ Ordered(<<"free">> \o t) /\ (<<"free">> \o t)[Len(<<"free">> \o t)] = t[Len(t)]
         /\ Head(<<"free">> \o t) = "free"
<1> DEFINE s == <<"free">>
<1>1. s \in Seq(Steps) /\ s # <<>> /\ Len(s) = 1 /\ s[1] = "free" /\ Head(s) = "free"
  BY DEF Steps
<1>2. Follows("free", Head(t))
  BY DEF Follows, LastSteps
<1> HIDE DEF s
<1>3. Follows(s[Len(s)], Head(t)) /\ \A i \in 1 .. Len(s) - 1 : Follows(s[i], s[i + 1])
  BY <1>1, <1>2
<1>4. \A i \in 1 .. Len(s) : s[i] # "negative"
  BY <1>1
<1>5. /\ Ordered(s \o t) /\ (s \o t)[Len(s \o t)] = t[Len(t)]
      /\ Head(s \o t) = Head(s)
  BY <1>1, <1>3, <1>4, OrderedCat
<1> QED BY <1>5, <1>1 DEF s

\* What Destroy, the two shutdowns and a negative entry may be followed by.
LEMMA OrderedBefore ==
  ASSUME NEW t, Ordered(t), t[Len(t)] # "awaited",
         Head(t) \in {"mark", "join", "joinAlways", "negative", "deliver", "lost", "release", "keep"},
         NEW s \in {ShutdownThread, Shutdown}
  PROVE  /\ Ordered(s \o t) /\ (s \o t)[Len(s \o t)] = t[Len(t)]
         /\ Head(s \o t) = "mark"
<1>1. /\ s \in Seq(Steps) /\ s # <<>> /\ Len(s) = 2 /\ Head(s) = "mark"
      /\ s[1] = "mark" /\ s[2] \in {"join", "joinForget"}
  <2>1. CASE s = ShutdownThread
    BY <2>1 DEF ShutdownThread, Steps, Joins
  <2>2. CASE s = Shutdown
    BY <2>2 DEF Shutdown, Steps, Joins
  <2> QED BY <2>1, <2>2
<1>2. Follows(s[1], s[2]) /\ Follows(s[2], Head(t))
  BY <1>1 DEF Follows, LastSteps, Joins
<1>3. \A i \in 1 .. Len(s) - 1 : Follows(s[i], s[i + 1])
  <2> SUFFICES ASSUME NEW i \in 1 .. Len(s) - 1
               PROVE  Follows(s[i], s[i + 1])
    OBVIOUS
  <2>1. i = 1
    BY <1>1
  <2> QED BY <2>1, <1>2
<1>4. \A i \in 1 .. Len(s) : s[i] # "negative"
  <2> SUFFICES ASSUME NEW i \in 1 .. Len(s)
               PROVE  s[i] # "negative"
    OBVIOUS
  <2>1. i = 1 \/ i = 2
    BY <1>1
  <2> QED BY <2>1, <1>1
<1> QED BY <1>1, <1>2, <1>3, <1>4, OrderedCat

\* Destroy, put before a program that does not wait.
LEMMA OrderedDestroy ==
  ASSUME NEW t, Ordered(t), t[Len(t)] # "awaited",
         Head(t) \in {"mark", "create", "release"}
  PROVE  /\ Ordered(Destroy \o t) /\ (Destroy \o t)[Len(Destroy \o t)] = t[Len(t)]
         /\ Head(Destroy \o t) = "mark"
<1> DEFINE s == Destroy
<1>1. /\ s \in Seq(Steps) /\ s # <<>> /\ Len(s) = 3 /\ Head(s) = "mark"
      /\ s[1] = "mark" /\ s[2] = "joinOrDetach" /\ s[3] = "unlink"
  BY DEF Destroy, Steps, Joins
<1> HIDE DEF s
<1>2. Follows(s[1], s[2]) /\ Follows(s[2], s[3]) /\ Follows(s[3], Head(t))
  BY <1>1 DEF Follows, LastSteps, Joins
<1>3. \A i \in 1 .. Len(s) - 1 : Follows(s[i], s[i + 1])
  <2> SUFFICES ASSUME NEW i \in 1 .. Len(s) - 1
               PROVE  Follows(s[i], s[i + 1])
    OBVIOUS
  <2>1. i = 1 \/ i = 2
    BY <1>1
  <2> QED BY <2>1, <1>2
<1>4. \A i \in 1 .. Len(s) : s[i] # "negative"
  <2> SUFFICES ASSUME NEW i \in 1 .. Len(s)
               PROVE  s[i] # "negative"
    OBVIOUS
  <2>1. i = 1 \/ i = 2 \/ i = 3
    BY <1>1
  <2> QED BY <2>1, <1>1
<1>5. /\ Ordered(s \o t) /\ (s \o t)[Len(s \o t)] = t[Len(t)]
      /\ Head(s \o t) = Head(s)
  BY <1>1, <1>2, <1>3, <1>4, OrderedCat
<1> QED BY <1>5, <1>1 DEF s

\* A negative entry is only made when the lookup is lost.
LEMMA OrderedNegative ==
  ASSUME NEW t, Ordered(t), t[Len(t)] = "lost", Head(t) \in {"mark", "lost"}
  PROVE  /\ Ordered(<<"negative">> \o t)
         /\ (<<"negative">> \o t)[Len(<<"negative">> \o t)] = "lost"
         /\ Head(<<"negative">> \o t) = "negative"
<1> DEFINE s == <<"negative">>
<1>1. s \in Seq(Steps) /\ s # <<>> /\ Len(s) = 1 /\ s[1] = "negative" /\ Head(s) = "negative"
  BY DEF Steps
<1>2. Follows("negative", Head(t))
  BY DEF Follows, LastSteps
<1> HIDE DEF s
<1>3. Follows(s[Len(s)], Head(t)) /\ \A i \in 1 .. Len(s) - 1 : Follows(s[i], s[i + 1])
  BY <1>1, <1>2
<1>5. /\ Ordered(s \o t) /\ (s \o t)[Len(s \o t)] = t[Len(t)]
      /\ Head(s \o t) = Head(s)
  BY <1>1, <1>3, OrderedCat
<1> QED BY <1>5, <1>1 DEF s

-----------------------------------------------------------------------------
(* Where a step leaves its call. *)

\* A call that goes on.
LEMMA GoesOn ==
  ASSUME call \in CallRec, NEW p, Ordered(p), NEW d \in BOOLEAN, NEW e \in Entries \cup {Nil},
         Continue(p, d, e)
  PROVE  /\ call' \in CallRec /\ call' # Idle
         /\ call'.todo = p /\ call'.done = d /\ call'.dns = e
         /\ Me' = Me /\ call'.mode = call.mode /\ call'.host = call.host
         /\ Aim' = p[Len(p)]
         /\ \A s : At(s)' <=> Head(p) = s
<1>1. p \in Seq(Steps) /\ p # <<>>
  BY OrderedHead
<1>2. call' = [call EXCEPT !.todo = p, !.done = d, !.dns = e]
  BY <1>1 DEF Continue
<1>3. call' \in CallRec /\ call'.todo = p /\ call'.done = d /\ call'.dns = e
      /\ call'.who = call.who /\ call'.mode = call.mode /\ call'.host = call.host
  BY <1>1, <1>2 DEF CallRec
<1>4. call' # Idle
  BY <1>1, <1>3 DEF Idle
<1> QED BY <1>1, <1>3, <1>4 DEF Me, Aim, At

\* Between calls.
LEMMA BetweenCalls ==
  /\ call = Idle => /\ call.todo = <<>> /\ ~call.done /\ call.dns = Nil /\ call.mode = "none"
                    /\ Me = Nil /\ Aim = "none" /\ \A s : ~At(s)
  /\ call' = Idle => /\ call'.todo = <<>> /\ ~call'.done /\ call'.dns = Nil /\ call'.mode = "none"
                     /\ Me' = Nil /\ Aim' = "none" /\ \A s : ~At(s)'
<1>1. Idle.todo = <<>> /\ ~Idle.done /\ Idle.dns = Nil /\ Idle.mode = "none" /\ Idle.who = Nil
  BY DEF Idle
<1> QED BY <1>1 DEF Me, Aim, At

\* Between two calls there is nothing left to do.
LEMMA IdleCall == Idle \in CallRec
BY EmptySeq DEF Idle, CallRec, Modes

\* A call that returns.
LEMMA Returns ==
  ASSUME NEW d, NEW e, Continue(<<>>, d, e)
  PROVE  call' = Idle
BY DEF Continue

\* A step before the last, and what is left after it.
LEMMA AtStep ==
  ASSUME Control, NEW s, s \notin LastSteps, At(s)
  PROVE  /\ call # Idle /\ Me \in Users /\ Aim # "none"
         /\ Ordered(Tail(call.todo))
         /\ Tail(call.todo)[Len(Tail(call.todo))] = Aim
         /\ Follows(s, Head(Tail(call.todo)))
         /\ <<>> \o Tail(call.todo) = Tail(call.todo)
<1>1. call.todo # <<>> /\ Head(call.todo) = s
  BY DEF At
<1>2. call # Idle
  BY <1>1, BetweenCalls
<1>3. Ordered(call.todo) /\ Me \in Users
  BY <1>2 DEF Control
<1>4. Aim = call.todo[Len(call.todo)]
  BY <1>1 DEF Aim
<1>5. /\ Ordered(Tail(call.todo)) /\ Tail(call.todo)[Len(Tail(call.todo))] = Aim
      /\ Follows(s, Head(Tail(call.todo)))
  BY <1>1, <1>3, <1>4, OrderedTail
<1>6. Aim # "none"
  BY <1>3, <1>4 DEF Ordered, LastSteps
<1>7. Tail(call.todo) \in Seq(Steps)
  BY <1>5, OrderedHead
<1>8. <<>> \o Tail(call.todo) = Tail(call.todo)
  BY <1>7, ConcatEmptySeq
<1> QED BY <1>2, <1>3, <1>5, <1>6, <1>8

\* Dropping the probes stays ahead after another step.
LEMMA ForgetsNext ==
  ASSUME Control, NEW s, s \notin LastSteps, s # "joinForget", At(s), Forgets(call.todo)
  PROVE  Forgets(Tail(call.todo)) /\ Forgets(<<"free">> \o Tail(call.todo))
<1>1. call.todo # <<>> /\ Head(call.todo) = s
  BY DEF At
<1>2. Ordered(call.todo)
  BY <1>1, BetweenCalls DEF Control
<1> QED BY <1>1, <1>2, ForgetsLater

\* The last step.
LEMMA AtLast ==
  ASSUME Control, NEW s \in LastSteps, At(s)
  PROVE  /\ call # Idle /\ Me \in Users /\ Aim = s
         /\ Tail(call.todo) = <<>>
         /\ \A steps \in Seq(Steps) : steps \o Tail(call.todo) = steps
         /\ \A t : At(t) <=> t = s
         /\ ~Forgets(call.todo)
<1>1. call.todo # <<>> /\ Head(call.todo) = s
  BY DEF At
<1>2. call # Idle
  BY <1>1, BetweenCalls
<1>3. Ordered(call.todo) /\ Me \in Users
  BY <1>2 DEF Control
<1>4. Tail(call.todo) = <<>> /\ call.todo[Len(call.todo)] = s
  BY <1>1, <1>3, OrderedHead
<1>5. \A steps \in Seq(Steps) : steps \o Tail(call.todo) = steps
  BY <1>4, ConcatEmptySeq
<1>6. ~Forgets(call.todo)
  BY <1>1, <1>3, ForgetsEarly
<1> QED BY <1>1, <1>2, <1>3, <1>4, <1>5, <1>6 DEF Aim, At

\* A call is made.
LEMMA Entered ==
  ASSUME NEW u \in Users, NEW m \in Modes, NEW h \in Hosts \cup {Nil},
         NEW p, Ordered(p), NEW e \in Entries \cup {Nil}, Enter(u, m, h, p, e)
  PROVE  /\ call = Idle /\ call' \in CallRec /\ call' # Idle
         /\ call'.todo = p /\ ~call'.done /\ call'.dns = e
         /\ Me' = u /\ call'.mode = m /\ call'.host = h
         /\ Aim' = p[Len(p)]
         /\ \A s : At(s)' <=> Head(p) = s
<1>1. p \in Seq(Steps) /\ p # <<>>
  BY OrderedHead
<1>2. call = Idle /\ call' = [Idle EXCEPT !.who = u, !.mode = m, !.host = h, !.todo = p, !.dns = e]
  BY DEF Enter
<1>3. call' \in CallRec /\ call'.todo = p /\ ~call'.done /\ call'.dns = e
      /\ call'.who = u /\ call'.mode = m /\ call'.host = h
  BY <1>1, <1>2, IdleCall DEF CallRec, Idle
<1>4. call' # Idle
  BY <1>1, <1>3 DEF Idle
<1> QED BY <1>1, <1>2, <1>3, <1>4 DEF Me, Aim, At

-----------------------------------------------------------------------------
(* Steps that leave the holders of the lookups alone. *)

\* They may tell a thread to stop, take an answer out, and join or detach; no
\* context is given up until the thread of it was joined or detached.
LEMMA LookupsKept ==
  ASSUME Types, OneOwner, LookupInv, Wanted, Types', thread' = thread,
         \A u \in Users : user'[u].ctx = user[u].ctx,
         \A c \in Lookups :
           /\ lookup'[c].refs = lookup[c].refs /\ lookup'[c].st = lookup[c].st
           /\ lookup'[c].done = lookup[c].done /\ lookup'[c].want = lookup[c].want
           /\ lookup'[c].res \in {lookup[c].res, {}}
           /\ \/ lookup'[c].handle = lookup[c].handle
              \/ lookup[c].handle = "held" /\ lookup'[c].handle \in {"joined", "detached"},
         ~At("free"), ~At("free")',
         At("unlink")' => Me' = Me /\ (Ctx = Nil \/ lookup'[Ctx].handle # "held")
  PROVE  OneOwner' /\ LookupInv' /\ Wanted'
<1>1. OneOwner'
  BY DEF OneOwner
<1>2. \A u \in Users, c \in Lookups : Keeps(u, c)' <=> Keeps(u, c)
  BY DEF Keeps
<1>3. \A c \in Lookups : (Owned(c)' <=> Owned(c)) /\ (Running(c)' <=> Running(c))
                          /\ (Freeing(c)' <=> Freeing(c))
  BY <1>2 DEF Owned, Running, Freeing
<1>4. ASSUME NEW c \in Lookups, lookup'[c].handle = "held"
      PROVE  \E u \in Users : Keeps(u, c)' /\ ~(At("unlink")' /\ Me' = u)
  <2>1. lookup[c].handle = "held"
    BY <1>4
  <2>2. PICK u \in Users : Keeps(u, c)
    BY <2>1 DEF LookupInv, LookupAt
  <2>3. Keeps(u, c)' /\ user[u].ctx = c
    BY <2>2, <1>2 DEF Keeps
  <2>4. ~(At("unlink")' /\ Me' = u)
    <3>1. c # Nil
      BY ResolverAssumption DEF ResolverConstants
    <3> QED BY <2>3, <3>1, <1>4 DEF Ctx
  <2> QED BY <2>3, <2>4
<1>5. LookupInv'
  <2> SUFFICES ASSUME NEW c \in Lookups
               PROVE  LookupAt(c)'
    BY DEF LookupInv
  <2>1. LookupAt(c)
    BY DEF LookupInv
  <2>2. One(Owned(c))' = One(Owned(c)) /\ One(Running(c))' = One(Running(c))
    BY <1>3 DEF One
  <2>3. (lookup[c].refs = One(Owned(c)) + One(Running(c)))'
    BY <2>1, <2>2 DEF LookupAt
  <2>4. (lookup[c].st = "live" <=> Owned(c) \/ Running(c) \/ Freeing(c))'
    BY <2>1, <1>3 DEF LookupAt
  <2>5. /\ (lookup[c].st = "unused" => thread[c] = "none" /\ lookup[c].handle = "null")'
        /\ (thread[c] = "none" => lookup[c].handle # "held")'
        /\ (lookup[c].handle = "held" /\ lookup[c].done => thread[c] \in {"exit", "ended"})'
    BY <2>1 DEF LookupAt
  <2>6. (thread[c] = "free" => ~Owned(c))'
    BY <2>1, <1>3 DEF LookupAt
  <2>7. (lookup[c].handle = "held" => \E u \in Users : Keeps(u, c) /\ ~(At("unlink") /\ Me = u))'
    BY <1>4
  <2>8. (At("free") /\ Ctx = c => thread[c] \in {"none", "exit", "ended"})'
    OBVIOUS
  <2> QED BY <2>3, <2>4, <2>5, <2>6, <2>7, <2>8 DEF LookupAt
<1>6. Wanted'
  <2>1. \A c \in Lookups : lookup'[c].res \in AnswersFor(lookup'[c].want) \cup {{}}
    BY DEF Wanted
  <2>2. ASSUME NEW u \in Users, user'[u].ctx # Nil
        PROVE  lookup'[user'[u].ctx].want = WantOf[u]
    <3>1. user[u].ctx \in Lookups
      BY <2>2 DEF Types, UserRec
    <3> QED BY <3>1, <2>2 DEF Wanted
  <2> QED BY <2>1, <2>2 DEF Wanted, AnswersFor
<1> QED BY <1>1, <1>5, <1>6

\* Curl_async_shutdown changes the pending query of the handle only.
LEMMA ForgottenIs ==
  ASSUME user \in [Users -> UserRec], Me \in Users
  PROVE  /\ Forgotten \in [Users -> UserRec]
         /\ \A u \in Users : u # Me => Forgotten[u] = user[u]
         /\ \A u \in Users : Forgotten[u].ctx = user[u].ctx /\ Forgotten[u].st = user[u].st
                             /\ Forgotten[u].dns = user[u].dns /\ Forgotten[u].slot = user[u].slot
         /\ Forgotten[Me].doh = "none" /\ Forgotten[Me].host = Nil
<1>1. /\ Forgotten = [user EXCEPT ![Me] = [user[Me] EXCEPT !.doh = "none", !.host = Nil]]
      /\ user[Me] \in UserRec
  BY DEF Forgotten
<1>2. [user[Me] EXCEPT !.doh = "none", !.host = Nil] \in UserRec
  BY <1>1 DEF UserRec
<1>3. Forgotten \in [Users -> UserRec] /\ \A u \in Users : u # Me => Forgotten[u] = user[u]
  BY <1>1, <1>2
<1>4. Forgotten[Me] = [user[Me] EXCEPT !.doh = "none", !.host = Nil]
  BY <1>1
<1>5. /\ Forgotten[Me].ctx = user[Me].ctx /\ Forgotten[Me].st = user[Me].st
      /\ Forgotten[Me].dns = user[Me].dns /\ Forgotten[Me].slot = user[Me].slot
      /\ Forgotten[Me].doh = "none" /\ Forgotten[Me].host = Nil
  BY <1>1, <1>4 DEF UserRec
<1> QED BY <1>3, <1>5

\* Only the wait of a blocking resolve comes before a look for the answer.
LEMMA LooksLate ==
  ASSUME Control, NEW s, s \notin LastSteps, At(s), Aim \in Looks
  PROVE  s = "joinAlways"
<1> DEFINE p == call.todo
<1>1. p # <<>> /\ Head(p) = s /\ Aim = p[Len(p)]
  BY DEF At, Aim
<1>2. Ordered(p)
  BY <1>1, BetweenCalls DEF Control
<1> HIDE DEF p
<1>3. Len(p) \in Nat /\ Len(p) >= 1 /\ Len(p) # 1 /\ Head(p) = p[1]
  BY <1>1, <1>2, OrderedHead
<1>4. \A n \in Nat : n >= 1 /\ n # 1 => n - 1 \in 1 .. n - 1 /\ (n - 1) + 1 = n
  OBVIOUS
<1>5. Len(p) - 1 \in 1 .. Len(p) - 1 /\ (Len(p) - 1) + 1 = Len(p)
  BY <1>3, <1>4, Zenon
<1>6. Follows(p[Len(p) - 1], p[(Len(p) - 1) + 1])
  BY <1>2, <1>5 DEF Ordered
<1>7. Aim = "awaited" /\ p[Len(p) - 1] = "joinAlways"
  BY <1>1, <1>5, <1>6 DEF Follows, Looks
<1>8. Len(p) <= 2
  BY <1>1, <1>2, <1>7 DEF Ordered
<1>9. \A n \in Nat : n >= 1 /\ n # 1 /\ n <= 2 => n - 1 = 1
  OBVIOUS
<1>10. Len(p) - 1 = 1
  BY <1>3, <1>8, <1>9, Zenon
<1> QED BY <1>1, <1>3, <1>7, <1>10

\* The next step, when the one done was none of those that end a call or drop
\* a context.
LEMMA Onward ==
  ASSUME LInv, NEW s \in Joins \cup {"mark", "joinAlways", "negative"}, At(s),
         NEW d \in BOOLEAN, Continue(Tail(call.todo), d, call.dns)
  PROVE  /\ call' \in CallRec /\ call' # Idle /\ Ordered(call'.todo)
         /\ Me \in Users /\ Me' = Me /\ call'.mode = call.mode /\ call'.host = call.host
         /\ Aim' = Aim /\ call'.done = d /\ call'.dns = call.dns
         /\ ~At("free") /\ ~At("unlink") /\ ~At("free")'
         /\ ~At("create")' /\ ~At("check")' /\ ~At("isDohResolved")'
         /\ At("unlink")' => s = "joinOrDetach"
         /\ s = "mark" => At("join")' \/ At("joinForget")' \/ At("joinOrDetach")'
         /\ Aim \in Looks => s = "joinAlways"
         /\ Forgets(call.todo) /\ s # "joinForget" => Forgets(call'.todo)
<1> DEFINE p == Tail(call.todo)
<1>1. s \notin LastSteps /\ s \notin {"free", "unlink"}
  BY DEF Joins, LastSteps
<1>2. Control /\ call \in CallRec /\ call.dns \in Entries \cup {Nil}
  BY DEF LInv, Types, CallRec
<1>3. /\ Me \in Users /\ Ordered(p) /\ p[Len(p)] = Aim /\ Follows(s, Head(p))
      /\ Forgets(call.todo) /\ s # "joinForget" => Forgets(p)
  BY <1>1, <1>2, AtStep, ForgetsNext
<1> HIDE DEF p
<1>4. /\ call' \in CallRec /\ call' # Idle /\ call'.todo = p /\ call'.done = d /\ call'.dns = call.dns
      /\ Me' = Me /\ call'.mode = call.mode /\ call'.host = call.host
      /\ Aim' = p[Len(p)] /\ \A t : At(t)' <=> Head(p) = t
  BY <1>2, <1>3, GoesOn DEF p
<1>5. ~At("free") /\ ~At("unlink")
  BY <1>1 DEF At
<1>6. /\ Head(p) \notin {"free", "create", "check", "isDohResolved"}
      /\ Head(p) = "unlink" => s = "joinOrDetach"
      /\ s = "mark" => Head(p) \in Joins
  BY <1>1, <1>3 DEF Follows
<1>7. Aim \in Looks => s = "joinAlways"
  BY <1>1, <1>2, LooksLate
<1> QED BY <1>3, <1>4, <1>5, <1>6, <1>7 DEF Joins

\* What such a step keeps of Control, if it touches no more of its handle than
\* the name it resolves and the probes.
LEMMA OnwardKeeps ==
  ASSUME LInv, NEW s \in Joins \cup {"mark", "joinAlways", "negative"}, At(s),
         NEW d \in BOOLEAN, Continue(Tail(call.todo), d, call.dns),
         \A u \in Users : u # Me => user'[u] = user[u],
         user'[Me].st = user[Me].st, user'[Me].ctx = user[Me].ctx,
         user' = user \/ s # "joinAlways",
         user'[Me].doh \in {user[Me].doh, "none"}, s = "joinForget" => user'[Me].doh = "none"
  PROVE  Control' /\ Pollable' /\ Probing'
<1>1. /\ call' # Idle /\ Ordered(call'.todo)
      /\ Me \in Users /\ Me' = Me /\ call'.mode = call.mode /\ call'.host = call.host
      /\ Aim' = Aim /\ ~At("free")' /\ ~At("create")' /\ ~At("check")' /\ ~At("isDohResolved")'
      /\ Aim \in Looks => user' = user
      /\ Forgets(call.todo) /\ s # "joinForget" => Forgets(call'.todo)
  BY Onward
<1>2. Ctx' = Ctx
  BY <1>1 DEF Ctx
<1>3. Control
  BY DEF LInv
<1>4. (Aim \notin {"none", "keep", "release"} => call.host \in Hosts)'
  BY <1>1, <1>3 DEF Control
<1>5. (Aim \in Looks => user[Me].host \in Hosts)'
  BY <1>1, <1>3 DEF Control
<1>6. (Aim \in {"isResolved", "awaited"} => Ctx # Nil)'
  BY <1>1, <1>2, <1>3 DEF Control
<1>7. /\ (call.mode = "blocking" => /\ Me \in BlockingUsers /\ user[Me].st = "resolved"
                                   /\ user[Me].doh = "none")'
      /\ (Aim \in {"create", "doh"} => call.mode \in {"connect", "blocking"})'
      /\ (Aim = "doh" => call.mode = "connect")'
      /\ (Aim \in Looks => call.mode \in {"connect", "blocking"} \/ user[Me].st = "resolving")'
  BY <1>1, <1>3 DEF Control
<1>8. Control'
  BY <1>1, <1>4, <1>5, <1>6, <1>7 DEF Control
<1>9. Pollable'
  BY <1>1 DEF LInv, Pollable
<1>10. Probing'
  <2> SUFFICES ASSUME NEW u \in Users, user'[u].doh # "none"
               PROVE  IF Me = u THEN Aim' \in {"check", "isDohResolved"} \/ Forgets(call'.todo)
                      ELSE user'[u].st = "resolving"
    BY <1>1 DEF Probing
  <2>1. CASE u = Me
    BY <2>1, <1>1 DEF LInv, Probing
  <2>2. CASE u # Me
    BY <2>2 DEF LInv, Probing
  <2> QED BY <2>1, <2>2
<1> QED BY <1>8, <1>9, <1>10

\* The application thread tells the resolver thread to stop and sees how far it is.
LEMMA MarkStep ==
  ASSUME LInv, Mark, turns' = turns
  PROVE  LInv'
<1> DEFINE d == HasHandle /\ lookup[Ctx].done
<1> USE DEF Mark
<1>1. At("mark") /\ d \in BOOLEAN /\ Continue(Tail(call.todo), d, call.dns)
  <2>1. Me \in Users
    BY AtStep DEF LInv, LastSteps
  <2>2. HasHandle => Ctx \in Lookups
    BY <2>1 DEF HasHandle, Ctx, LInv, Types, UserRec
  <2>3. HasHandle => lookup[Ctx].done \in BOOLEAN
    BY <2>2 DEF LInv, Types, LookupRec
  <2> QED BY <2>3
<1>2. "mark" \in Joins \cup {"mark", "joinAlways", "negative"}
  OBVIOUS
<1>3. /\ call' \in CallRec /\ Me \in Users /\ Me' = Me /\ call'.done = d
      /\ ~At("free") /\ ~At("free")' /\ ~At("unlink")'
      /\ At("join")' \/ At("joinForget")' \/ At("joinOrDetach")'
  BY <1>1, <1>2, Onward DEF Joins
<1>4. Control' /\ Pollable' /\ Probing'
  <2>1. user' = user
    OBVIOUS
  <2> QED BY <2>1, <1>1, <1>2, OnwardKeeps
<1>5. HasHandle => Ctx \in Lookups
  BY <1>3 DEF HasHandle, Ctx, LInv, Types, UserRec
<1>6. Types'
  <2>1. CASE HasHandle
    <3>1. lookup' = [lookup EXCEPT ![Ctx].abort = TRUE] /\ lookup \in [Lookups -> LookupRec]
      BY <2>1 DEF LInv, Types
    <3>2. lookup' \in [Lookups -> LookupRec]
      BY <3>1, <1>5, <2>1, ZenonT(30) DEF LookupRec
    <3> QED BY <3>2, <1>3 DEF LInv, Types
  <2>2. CASE ~HasHandle
    BY <2>2, <1>3 DEF LInv, Types
  <2> QED BY <2>1, <2>2
<1>7. \A c \in Lookups : /\ lookup'[c].refs = lookup[c].refs /\ lookup'[c].st = lookup[c].st
                          /\ lookup'[c].done = lookup[c].done /\ lookup'[c].want = lookup[c].want
                          /\ lookup'[c].res = lookup[c].res /\ lookup'[c].handle = lookup[c].handle
  BY <1>5 DEF LInv, Types, LookupRec
<1>8. OneOwner' /\ LookupInv' /\ Wanted'
  BY <1>3, <1>6, <1>7, LookupsKept DEF LInv
<1>9. DoneSeen'
  <2>1. d => Ctx # Nil /\ lookup'[Ctx].done
    BY <1>5, <1>7 DEF HasHandle
  <2> QED BY <2>1, <1>3 DEF DoneSeen, Ctx
<1> QED BY <1>4, <1>6, <1>8, <1>9 DEF LInv

\* A join leaves the lookup as it was but for its thread handle.
LEMMA Joined ==
  ASSUME LInv, Me \in Users, HasHandle,
         NEW h \in {"joined", "detached"}, lookup' = [lookup EXCEPT ![Ctx].handle = h]
  PROVE  /\ lookup' \in [Lookups -> LookupRec] /\ lookup'[Ctx].handle # "held"
         /\ \A c \in Lookups :
              /\ lookup'[c].refs = lookup[c].refs /\ lookup'[c].st = lookup[c].st
              /\ lookup'[c].done = lookup[c].done /\ lookup'[c].want = lookup[c].want
              /\ lookup'[c].res = lookup[c].res
              /\ \/ lookup'[c].handle = lookup[c].handle
                 \/ lookup[c].handle = "held" /\ lookup'[c].handle \in {"joined", "detached"}
<1>1. Ctx \in Lookups /\ lookup[Ctx].handle = "held" /\ lookup \in [Lookups -> LookupRec]
  BY DEF HasHandle, Ctx, LInv, Types, UserRec
<1> QED BY <1>1 DEF LookupRec

\* The steps that wait for the thread of a context, or let it run alone.
LEMMA JoinSteps ==
  ASSUME LInv, JoinIfDone \/ JoinOrDetach \/ JoinAlways, turns' = turns
  PROVE  LInv'
<1>1. PICK s \in Joins \cup {"joinAlways"} : At(s) /\ (JoinOrDetach => s = "joinOrDetach")
                /\ (s = "joinOrDetach" => JoinOrDetach) /\ (user' = user \/ s # "joinAlways")
                /\ (s = "joinForget" => user' = Forgotten)
  <2>1. CASE JoinIfDone
    BY <2>1 DEF JoinIfDone, JoinOrDetach, At, Joins
  <2>2. CASE JoinOrDetach
    <3>1. At("joinOrDetach") /\ user' = user /\ "joinOrDetach" \in Joins \cup {"joinAlways"}
      BY <2>2 DEF JoinOrDetach, Joins
    <3> QED BY <3>1, <2>2, Zenon
  <2>3. CASE JoinAlways
    BY <2>3 DEF JoinAlways, JoinOrDetach, At, Joins
  <2> QED BY <2>1, <2>2, <2>3
<1>2. s \in Joins \cup {"mark", "joinAlways", "negative"} /\ s # "mark"
  BY DEF Joins
<1>3. Continue(Tail(call.todo), FALSE, call.dns) /\ UNCHANGED <<thread, entry, cache>>
  BY DEF JoinIfDone, JoinOrDetach, JoinAlways
<1>4. /\ call' \in CallRec /\ Me \in Users /\ Me' = Me /\ ~call'.done
      /\ ~At("free") /\ ~At("free")' /\ (At("unlink")' => s = "joinOrDetach")
  BY <1>1, <1>2, <1>3, Onward
<1>5. /\ user' \in [Users -> UserRec] /\ \A u \in Users : user'[u].ctx = user[u].ctx
      /\ \A u \in Users : u # Me => user'[u] = user[u]
      /\ user'[Me].st = user[Me].st /\ user'[Me].ctx = user[Me].ctx
      /\ user'[Me].doh \in {user[Me].doh, "none"} /\ (user' = Forgotten => user'[Me].doh = "none")
  <2>0. Forgotten[Me].doh = "none" /\ (user' = user \/ user' = Forgotten)
    BY <1>4, ForgottenIs DEF LInv, Types, JoinIfDone, JoinOrDetach, JoinAlways
  <2>1. CASE user' = user
    BY <2>0, <2>1, <1>4 DEF LInv, Types
  <2>2. CASE user' = Forgotten
    BY <2>0, <2>2, <1>4, ForgottenIs DEF LInv, Types
  <2> QED BY <2>0, <2>1, <2>2
<1>6. Control' /\ Pollable' /\ Probing'
  BY <1>1, <1>2, <1>3, <1>5, OnwardKeeps
<1>7. \/ lookup' = lookup /\ (s = "joinOrDetach" => ~HasHandle)
      \/ HasHandle /\ \E h \in {"joined", "detached"} : lookup' = [lookup EXCEPT ![Ctx].handle = h]
  BY <1>1 DEF JoinIfDone, JoinOrDetach, JoinAlways, Join
<1>8. CASE lookup' = lookup /\ (s = "joinOrDetach" => ~HasHandle)
  <2>1. Types'
    BY <1>3, <1>4, <1>5, <1>8 DEF LInv, Types
  <2>2. At("unlink")' => Ctx = Nil \/ lookup'[Ctx].handle # "held"
    BY <1>4, <1>8 DEF HasHandle
  <2>3. OneOwner' /\ LookupInv' /\ Wanted'
    BY <2>1, <2>2, <1>3, <1>4, <1>5, <1>8, LookupsKept DEF LInv
  <2> QED BY <2>1, <2>3, <1>4, <1>6 DEF LInv, DoneSeen
<1>9. CASE HasHandle /\ \E h \in {"joined", "detached"} : lookup' = [lookup EXCEPT ![Ctx].handle = h]
  <2>1. /\ lookup' \in [Lookups -> LookupRec] /\ lookup'[Ctx].handle # "held"
        /\ \A c \in Lookups :
              /\ lookup'[c].refs = lookup[c].refs /\ lookup'[c].st = lookup[c].st
              /\ lookup'[c].done = lookup[c].done /\ lookup'[c].want = lookup[c].want
              /\ lookup'[c].res = lookup[c].res
              /\ \/ lookup'[c].handle = lookup[c].handle
                 \/ lookup[c].handle = "held" /\ lookup'[c].handle \in {"joined", "detached"}
    BY <1>4, <1>9, Joined
  <2>2. Types'
    BY <2>1, <1>3, <1>4, <1>5 DEF LInv, Types
  <2>3. OneOwner' /\ LookupInv' /\ Wanted'
    BY <2>1, <2>2, <1>3, <1>4, <1>5, LookupsKept DEF LInv
  <2> QED BY <2>2, <2>3, <1>4, <1>6 DEF LInv, DoneSeen
<1> QED BY <1>7, <1>8, <1>9

-----------------------------------------------------------------------------
(* Steps that change who holds a lookup. *)

\* A lookup that a step does not touch, nor its holders.
LEMMA OtherLookup ==
  ASSUME NEW c \in Lookups, LookupAt(c), lookup'[c] = lookup[c], thread'[c] = thread[c],
         \A u \in Users : Keeps(u, c)' <=> Keeps(u, c),
         (At("free") /\ Ctx = c)' <=> At("free") /\ Ctx = c,
         \A u \in Users : Keeps(u, c) /\ (At("unlink") /\ Me = u)' => At("unlink") /\ Me = u
  PROVE  LookupAt(c)'
<1>1. (Owned(c)' <=> Owned(c)) /\ (Running(c)' <=> Running(c)) /\ (Freeing(c)' <=> Freeing(c))
  BY DEF Owned, Running, Freeing
<1>2. One(Owned(c))' = One(Owned(c)) /\ One(Running(c))' = One(Running(c))
  BY <1>1 DEF One
<1>3. (lookup[c].handle = "held" => \E u \in Users : Keeps(u, c) /\ ~(At("unlink") /\ Me = u))'
  BY DEF LookupAt
<1>4. /\ (lookup[c].refs = One(Owned(c)) + One(Running(c)))'
      /\ (lookup[c].st = "live" <=> Owned(c) \/ Running(c) \/ Freeing(c))'
  BY <1>1, <1>2 DEF LookupAt
<1>5. /\ (lookup[c].st = "unused" => thread[c] = "none" /\ lookup[c].handle = "null")'
      /\ (thread[c] = "none" => lookup[c].handle # "held")'
      /\ (lookup[c].handle = "held" /\ lookup[c].done => thread[c] \in {"exit", "ended"})'
      /\ (thread[c] = "free" => ~Owned(c))'
  BY <1>1 DEF LookupAt
<1>6. (At("free") /\ Ctx = c => thread[c] \in {"none", "exit", "ended"})'
  BY DEF LookupAt
<1> QED BY <1>3, <1>4, <1>5, <1>6 DEF LookupAt

\* The context of the handle that runs: held by it, by no other handle, and in
\* Unlink no longer with a thread handle to join.
LEMMA MyContext ==
  ASSUME LInv, Me \in Users, Ctx # Nil
  PROVE  /\ Ctx \in Lookups /\ LookupAt(Ctx)
         /\ \A u \in Users : user[u].ctx = Ctx => u = Me
         /\ ~At("free") => Owned(Ctx) /\ lookup[Ctx].refs = 1 + One(Running(Ctx)) /\ thread[Ctx] # "free"
         /\ At("unlink") => lookup[Ctx].handle # "held"
<1>1. Ctx \in Lookups
  BY DEF Ctx, LInv, Types, UserRec
<1>2. LookupAt(Ctx)
  BY <1>1 DEF LInv, LookupInv
<1>3. \A u \in Users : user[u].ctx = Ctx => u = Me
  BY DEF Ctx, LInv, OneOwner
<1>4. ASSUME ~At("free")
      PROVE  Owned(Ctx)
  BY <1>4 DEF Owned, Keeps, Ctx
<1>5. ASSUME ~At("free")
      PROVE  lookup[Ctx].refs = 1 + One(Running(Ctx)) /\ thread[Ctx] # "free"
  BY <1>2, <1>4, <1>5 DEF LookupAt, One
<1>6. At("unlink") => lookup[Ctx].handle # "held"
  BY <1>2, <1>3 DEF LookupAt, Keeps
<1> QED BY <1>1, <1>2, <1>3, <1>4, <1>5, <1>6

\* A handle whose context is gone.
LEMMA ContextGone ==
  ASSUME NEW users \in [Users -> UserRec], NEW u \in Users
  PROVE  LET gone == [users EXCEPT ![u].ctx = Nil]
         IN  /\ gone \in [Users -> UserRec] /\ gone[u].ctx = Nil
             /\ gone[u].st = users[u].st /\ gone[u].host = users[u].host
             /\ gone[u].doh = users[u].doh /\ gone[u].dns = users[u].dns /\ gone[u].slot = users[u].slot
             /\ \A v \in Users : v # u => gone[v] = users[v]
<1>1. users[u] \in UserRec
  OBVIOUS
<1>2. [users[u] EXCEPT !.ctx = Nil] \in UserRec
  BY <1>1 DEF UserRec
<1> QED BY <1>1, <1>2 DEF UserRec

\* A handle gives up its context; the last to do so frees it.
LEMMA UnlinkStep ==
  ASSUME LInv, Unlink, turns' = turns
  PROVE  LInv'
<1> DEFINE p == Tail(call.todo)
<1>1. At("unlink") /\ "unlink" \notin LastSteps /\ Control /\ call \in CallRec
  BY DEF Unlink, LInv, Types, LastSteps
<1>2. /\ Me \in Users /\ Ordered(p) /\ p[Len(p)] = Aim /\ Follows("unlink", Head(p)) /\ <<>> \o p = p
      /\ call # Idle
  BY <1>1, AtStep
<1>3. Forgets(call.todo) => Forgets(p) /\ Forgets(<<"free">> \o p)
  BY <1>1, ForgetsNext
<1>4. ~At("free") /\ Aim \notin Looks /\ ~call.done /\ call.done \in BOOLEAN /\ call.dns \in Entries \cup {Nil}
  <2>1. ~At("free") /\ ~At("join") /\ ~At("joinForget") /\ ~At("joinOrDetach")
    BY <1>1 DEF At
  <2>2. Aim \notin Looks
    BY <1>1, LooksLate
  <2> QED BY <2>1, <2>2, <1>1 DEF LInv, DoneSeen, CallRec
<1> HIDE DEF p
<1>5. p[Len(p)] # "awaited"
  BY <1>2, <1>4 DEF Looks
<1>6. Head(p) \notin {"free", "unlink", "check", "isDohResolved"}
  BY <1>2 DEF Follows
<1> DEFINE Stays ==
        /\ call' \in CallRec /\ Ordered(call'.todo)
        /\ Me' = Me /\ call'.mode = call.mode /\ call'.host = call.host /\ Aim' = Aim /\ ~call'.done
        /\ ~At("unlink")' /\ ~At("check")' /\ ~At("isDohResolved")'
        /\ Forgets(call.todo) => Forgets(call'.todo)
<1>7. ASSUME Then(<<>>)
      PROVE  Stays /\ ~At("free")'
  <2>1. Continue(p, call.done, call.dns)
    BY <1>7, <1>2 DEF Then, Holding, p
  <2> QED BY <2>1, <1>1, <1>2, <1>3, <1>4, <1>6, GoesOn
<1>8. ASSUME Then(<<"free">>)
      PROVE  Stays /\ At("free")' /\ ~At("create")'
  <2> DEFINE q == <<"free">> \o p
  <2>1. Continue(q, call.done, call.dns)
    BY <1>8 DEF Then, Holding, p
  <2>2. Ordered(q) /\ q[Len(q)] = Aim /\ Head(q) = "free"
    BY <1>2, <1>5, OrderedFree
  <2>3. Forgets(call.todo) => Forgets(q)
    BY <1>3
  <2> HIDE DEF q
  <2> QED BY <2>1, <2>2, <2>3, <1>1, <1>4, GoesOn
<1> HIDE DEF Stays
<1>9. IF Ctx # Nil /\ lookup[Ctx].refs = 1 THEN Then(<<"free">>) ELSE Then(<<>>)
  BY DEF Unlink
<1>10. /\ call' \in CallRec /\ Ordered(call'.todo)
       /\ Me' = Me /\ call'.mode = call.mode /\ call'.host = call.host /\ Aim' = Aim /\ ~call'.done
       /\ ~At("unlink")' /\ ~At("check")' /\ ~At("isDohResolved")'
       /\ At("free")' <=> Ctx # Nil /\ lookup[Ctx].refs = 1
       /\ ~(At("create")' /\ At("free")')
       /\ Forgets(call.todo) => Forgets(call'.todo)
  <2>1. /\ Stays /\ (At("free")' <=> Ctx # Nil /\ lookup[Ctx].refs = 1)
        /\ ~(At("create")' /\ At("free")')
    <3>1. CASE Ctx # Nil /\ lookup[Ctx].refs = 1
      BY <3>1, <1>8, <1>9
    <3>2. CASE ~(Ctx # Nil /\ lookup[Ctx].refs = 1)
      BY <3>2, <1>7, <1>9
    <3> QED BY <3>1, <3>2
  <2> QED BY <2>1 DEF Stays
<1>11. CASE Ctx = Nil
  <2>1. lookup' = lookup /\ user' = user /\ UNCHANGED <<thread, entry, cache>>
    BY <1>11 DEF Unlink
  <2>2. Types'
    BY <2>1, <1>10 DEF LInv, Types
  <2>3. OneOwner' /\ LookupInv' /\ Wanted'
    BY <2>1, <2>2, <1>4, <1>10, <1>11, LookupsKept DEF LInv
  <2>4. Control' /\ Pollable' /\ DoneSeen'
    BY <2>1, <1>1, <1>2, <1>4, <1>10, <1>11 DEF LInv, Control, Pollable, DoneSeen, Ctx, Looks
  <2>5. Probing'
    BY <2>1, <1>4, <1>10 DEF LInv, Probing, Looks
  <2> QED BY <2>2, <2>3, <2>4, <2>5 DEF LInv
<1>12. CASE Ctx # Nil
  <2>0. PICK c \in Lookups : c = Ctx
    BY <1>2, <1>12, MyContext
  <2>1. /\ c \in Lookups /\ LookupAt(c) /\ c # Nil
        /\ \A u \in Users : user[u].ctx = c => u = Me
        /\ lookup[c].refs = 1 + One(Running(c)) /\ thread[c] # "free"
        /\ lookup[c].handle # "held" /\ user[Me].ctx = c
    BY <2>0, <1>1, <1>2, <1>4, <1>12, MyContext DEF Ctx
  <2>2. /\ lookup' = [lookup EXCEPT ![c].refs = @ - 1] /\ UNCHANGED <<thread, entry, cache>>
        /\ user' = IF lookup[c].refs > 1 THEN [user EXCEPT ![Me].ctx = Nil] ELSE user
    BY <2>0, <1>12 DEF Unlink
  <2>3. lookup \in [Lookups -> LookupRec] /\ user \in [Users -> UserRec]
    BY DEF LInv, Types
  <2>4. At("free")' <=> lookup[c].refs = 1
    BY <2>0, <1>10, <1>12
  <2>5. /\ lookup'[c] = [lookup[c] EXCEPT !.refs = @ - 1]
        /\ \A k \in Lookups : k # c => lookup'[k] = lookup[k]
    BY <2>1, <2>2, <2>3
  <2>6. lookup[c].refs \in {1, 2} /\ (lookup[c].refs = 2 <=> Running(c))
    BY <2>1 DEF One
  <2>7. /\ lookup'[c] \in LookupRec /\ lookup'[c].refs = lookup[c].refs - 1
        /\ lookup'[c].st = lookup[c].st /\ lookup'[c].handle = lookup[c].handle
        /\ lookup'[c].want = lookup[c].want /\ lookup'[c].res = lookup[c].res
    <3>1. lookup[c] \in LookupRec
      BY <2>1, <2>3
    <3> QED BY <3>1, <2>5, <2>6 DEF LookupRec
  <2>8. /\ user' \in [Users -> UserRec] /\ user'[Me].st = user[Me].st /\ user'[Me].host = user[Me].host
        /\ user'[Me].doh = user[Me].doh
        /\ user'[Me].ctx = IF Running(c) THEN Nil ELSE c
        /\ \A u \in Users : u # Me => user'[u] = user[u]
    <3>1. CASE lookup[c].refs > 1
      BY <3>1, <2>2, <2>3, <2>6, <1>2, ContextGone
    <3>2. CASE ~(lookup[c].refs > 1)
      BY <3>2, <2>1, <2>2, <2>3, <2>6
    <3> QED BY <3>1, <3>2
  <2>9. Types'
    <3>1. lookup' \in [Lookups -> LookupRec]
      BY <2>1, <2>2, <2>3, <2>7
    <3> QED BY <3>1, <2>2, <2>8, <1>10 DEF LInv, Types
  <2>10. \A u \in Users : u # Me => user'[u].ctx # c
    BY <2>1, <2>8
  <2>11. ~Owned(c)'
    BY <2>1, <2>4, <2>6, <2>8, <2>10, <1>10 DEF Owned, Keeps
  <2>12. Ctx' = user'[Me].ctx /\ (Running(c)' <=> Running(c))
    BY <2>2, <1>10 DEF Ctx, Running
  <2>13. LookupAt(c)'
    <3>1. (lookup[c].refs = One(Owned(c)) + One(Running(c)))'
      BY <2>6, <2>7, <2>11, <2>12 DEF One
    <3>2. lookup[c].st = "live"
      BY <2>0, <2>1, <1>2, <1>4, <1>12, MyContext DEF LookupAt
    <3>3. (lookup[c].st = "live" <=> Owned(c) \/ Running(c) \/ Freeing(c))'
      <4>1. CASE Running(c)
        BY <4>1, <3>2, <2>7, <2>12
      <4>2. CASE ~Running(c)
        BY <4>2, <3>2, <2>4, <2>6, <2>7, <2>8, <2>12 DEF Freeing
      <4> QED BY <4>1, <4>2, <3>2, <2>7
    <3>4. (At("free") /\ Ctx = c => thread[c] \in {"none", "exit", "ended"})'
      <4>1. At("free")' => ~Running(c)
        BY <2>4, <2>6
      <4>2. thread[c] \in ThreadAt
        BY <2>1 DEF LInv, Types
      <4> QED BY <4>1, <4>2, <2>1, <2>2 DEF Running, ThreadAt
    <3>5. lookup'[c].st # "unused" /\ lookup'[c].handle # "held"
      BY <3>2, <2>1, <2>7
    <3> QED BY <3>1, <3>3, <3>4, <3>5, <2>11 DEF LookupAt
  <2>14. ASSUME NEW k \in Lookups, k # c
         PROVE  LookupAt(k)'
    <3>1. LookupAt(k) /\ lookup'[k] = lookup[k] /\ thread'[k] = thread[k]
      BY <2>2, <2>5, <2>14 DEF LInv, LookupInv
    <3>2. k # Nil
      BY ResolverAssumption DEF ResolverConstants
    <3>3. \A u \in Users : Keeps(u, k)' <=> Keeps(u, k)
      BY <3>2, <2>1, <2>8, <2>14, <1>4, <1>10 DEF Keeps
    <3>4. ~(At("free") /\ Ctx = k)' /\ ~(At("free") /\ Ctx = k)
      BY <3>2, <2>8, <2>12, <2>14, <1>4
    <3> QED BY <3>1, <3>3, <3>4, <1>10, OtherLookup
  <2>15. OneOwner'
    BY <2>1, <2>8 DEF LInv, OneOwner
  <2>16. Wanted'
    <3>1. \A k \in Lookups : lookup'[k].want = lookup[k].want /\ lookup'[k].res = lookup[k].res
      BY <2>5, <2>7
    <3>2. \A u \in Users : user'[u].ctx # Nil => user'[u].ctx = user[u].ctx
      BY <2>1, <2>8
    <3>3. \A u \in Users : user'[u].ctx # Nil => user'[u].ctx \in Lookups
      BY <2>8 DEF UserRec
    <3> QED BY <3>1, <3>2, <3>3 DEF LInv, Wanted, AnswersFor
  <2>17. Control'
    <3>1. (At("free") => Ctx # Nil)' /\ (At("create") => Ctx = Nil)'
      <4>1. At("free")' => Ctx' = c
        BY <2>4, <2>6, <2>8, <2>12
      <4>2. ~At("free")' => Ctx' = Nil
        BY <2>4, <2>6, <2>8, <2>12
      <4> QED BY <4>1, <4>2, <2>1, <1>10
    <3>2. Aim' \notin {"check", "isResolved", "isDohResolved", "awaited"}
      BY <1>4, <1>10 DEF Looks
    <3> QED BY <3>1, <3>2, <2>8, <1>1, <1>2, <1>10 DEF Control, Looks
  <2>18. Pollable' /\ DoneSeen'
    BY <2>8, <1>10 DEF LInv, Pollable, DoneSeen
  <2>19. Probing'
    BY <2>8, <1>4, <1>10 DEF LInv, Probing, Looks
  <2>20. LookupInv'
    BY <2>13, <2>14 DEF LookupInv
  <2> QED BY <2>9, <2>15, <2>16, <2>17, <2>18, <2>19, <2>20 DEF LInv
<1> QED BY <1>11, <1>12

\* A freed context: its thread handle stays as it was when the memory went.
LEMMA FreedLookup ==
  ASSUME NEW h \in {"null", "held", "joined", "detached"}
  PROVE  LET freed == [Freed(NoLookup) EXCEPT !.handle = h]
         IN  /\ freed \in LookupRec /\ freed.refs = 0 /\ freed.st = "freed" /\ freed.handle = h
             /\ freed.res = {} /\ ~freed.done /\ freed.want = "any"
<1>1. /\ NoLookup \in LookupRec /\ NoLookup.refs = 0 /\ NoLookup.res = {} /\ ~NoLookup.done
      /\ NoLookup.want = "any"
  BY DEF LookupRec, NoLookup
<1> DEFINE f == Freed(NoLookup)
<1>2. /\ f \in LookupRec /\ f.refs = 0 /\ f.res = {} /\ ~f.done /\ f.want = "any" /\ f.st = "freed"
  BY <1>1 DEF LookupRec, Freed
<1> HIDE DEF f
<1>3. LET freed == [f EXCEPT !.handle = h]
      IN  /\ freed \in LookupRec /\ freed.refs = 0 /\ freed.st = "freed" /\ freed.handle = h
          /\ freed.res = {} /\ ~freed.done /\ freed.want = "any"
  BY <1>2 DEF LookupRec
<1> QED BY <1>3 DEF f

\* The last one frees the context.
LEMMA FreeStep ==
  ASSUME LInv, Free, turns' = turns
  PROVE  LInv'
<1> DEFINE p == Tail(call.todo)
<1>1. At("free") /\ "free" \notin LastSteps /\ Control /\ call \in CallRec /\ Ctx # Nil
  BY DEF Free, LInv, Types, LastSteps, Control
<1>2. /\ Me \in Users /\ Ordered(p) /\ p[Len(p)] = Aim /\ Follows("free", Head(p)) /\ <<>> \o p = p
      /\ Forgets(call.todo) => Forgets(p)
  BY <1>1, AtStep, ForgetsNext
<1>3. Aim \notin Looks /\ ~call.done /\ call.done \in BOOLEAN /\ call.dns \in Entries \cup {Nil}
      /\ ~At("unlink")
  <2>1. ~At("unlink") /\ ~At("join") /\ ~At("joinForget") /\ ~At("joinOrDetach")
    BY <1>1 DEF At
  <2>2. Aim \notin Looks
    BY <1>1, LooksLate
  <2> QED BY <2>1, <2>2, <1>1 DEF LInv, DoneSeen, CallRec
<1> HIDE DEF p
<1>4. Head(p) \notin {"free", "unlink", "check", "isDohResolved"}
  BY <1>2 DEF Follows
<1>5. Continue(p, call.done, call.dns)
  BY <1>2 DEF Free, Then, Holding, p
<1>6. /\ call' \in CallRec /\ Ordered(call'.todo)
      /\ Me' = Me /\ call'.mode = call.mode /\ call'.host = call.host /\ Aim' = Aim /\ ~call'.done
      /\ ~At("free")' /\ ~At("unlink")' /\ ~At("check")' /\ ~At("isDohResolved")'
      /\ Forgets(call.todo) => Forgets(call'.todo)
  BY <1>1, <1>2, <1>3, <1>4, <1>5, GoesOn
<1>7. PICK c \in Lookups : c = Ctx
  BY <1>1, <1>2, MyContext
<1>8. /\ LookupAt(c) /\ c # Nil /\ user[Me].ctx = c
      /\ \A u \in Users : user[u].ctx = c => u = Me
  BY <1>1, <1>2, <1>7, MyContext DEF Ctx
<1>9. /\ lookup' = [lookup EXCEPT ![c] = [Freed(NoLookup) EXCEPT !.handle = lookup[c].handle]]
      /\ user' = [user EXCEPT ![Me].ctx = Nil]
      /\ UNCHANGED <<thread, entry, cache>>
  BY <1>7 DEF Free
<1>10. lookup \in [Lookups -> LookupRec] /\ user \in [Users -> UserRec]
  BY DEF LInv, Types
<1>11. /\ user' \in [Users -> UserRec] /\ user'[Me].ctx = Nil /\ user'[Me].st = user[Me].st
       /\ user'[Me].host = user[Me].host /\ user'[Me].doh = user[Me].doh
       /\ \A u \in Users : u # Me => user'[u] = user[u]
  BY <1>2, <1>9, <1>10, ContextGone
<1>12. /\ lookup'[c] \in LookupRec /\ lookup'[c].refs = 0 /\ lookup'[c].st = "freed"
       /\ lookup'[c].handle = lookup[c].handle /\ lookup'[c].res = {}
       /\ \A k \in Lookups : k # c => lookup'[k] = lookup[k]
  <2>1. lookup[c].handle \in {"null", "held", "joined", "detached"}
    BY <1>10 DEF LookupRec
  <2> QED BY <2>1, <1>9, <1>10, FreedLookup
<1>13. Types'
  <2>1. lookup' \in [Lookups -> LookupRec]
    BY <1>9, <1>10, <1>12
  <2> QED BY <2>1, <1>6, <1>9, <1>11 DEF LInv, Types
<1>14. ~Owned(c) /\ ~Owned(c)'
  BY <1>1, <1>8, <1>11 DEF Owned, Keeps
<1>15. Ctx' = Nil /\ (\A u \in Users : user'[u].ctx # c)
  BY <1>6, <1>8, <1>11 DEF Ctx
<1>16. LookupAt(c)'
  <2>1. lookup[c].handle # "held"
    BY <1>8, <1>14 DEF LookupAt, Owned
  <2>2. thread'[c] \in {"none", "exit", "ended"}
    BY <1>1, <1>7, <1>8, <1>9 DEF LookupAt
  <2>3. ~Running(c)' /\ ~Freeing(c)'
    BY <2>2, <1>6 DEF Running, Freeing
  <2> QED BY <2>1, <2>2, <2>3, <1>6, <1>12, <1>14 DEF LookupAt, One
<1>17. ASSUME NEW k \in Lookups, k # c
       PROVE  LookupAt(k)'
  <2>1. LookupAt(k) /\ lookup'[k] = lookup[k] /\ thread'[k] = thread[k]
    BY <1>9, <1>12, <1>17 DEF LInv, LookupInv
  <2>2. k # Nil
    BY ResolverAssumption DEF ResolverConstants
  <2>3. \A u \in Users : Keeps(u, k)' <=> Keeps(u, k)
    BY <2>2, <1>6, <1>8, <1>11, <1>17 DEF Keeps
  <2>4. ~(At("free") /\ Ctx = k)' /\ ~(At("free") /\ Ctx = k)
    BY <1>6, <1>7, <1>17
  <2> QED BY <2>1, <2>3, <2>4, <1>6, OtherLookup
<1>18. OneOwner'
  BY <1>8, <1>11 DEF LInv, OneOwner
<1>19. Wanted'
  <2>1. \A u \in Users : user'[u].ctx # Nil => user'[u].ctx = user[u].ctx /\ user'[u].ctx # c
    BY <1>11, <1>15
  <2>2. \A u \in Users : user'[u].ctx # Nil => user'[u].ctx \in Lookups
    BY <1>11 DEF UserRec
  <2> QED BY <2>1, <2>2, <1>12 DEF LInv, Wanted, AnswersFor
<1>20. Control'
  BY <1>1, <1>2, <1>3, <1>6, <1>11, <1>15 DEF Control, Looks
<1>21. Pollable' /\ DoneSeen'
  BY <1>6, <1>11 DEF LInv, Pollable, DoneSeen
<1>22. Probing'
  BY <1>3, <1>6, <1>11 DEF LInv, Probing, Looks
<1>23. LookupInv'
  BY <1>16, <1>17 DEF LookupInv
<1> QED BY <1>13, <1>18, <1>19, <1>20, <1>21, <1>22, <1>23 DEF LInv

\* Two steps in a row, as a program.
LEMMA PairOf ==
  ASSUME NEW x \in Steps, NEW y \in Steps
  PROVE  <<x>> \o <<y>> = <<x, y>>
<1> DEFINE s == <<x>> \o <<y>>
<1> DEFINE t == <<x, y>>
<1>1. s \in Seq(Steps) /\ Len(s) = 2 /\ t \in Seq(Steps) /\ Len(t) = 2
  OBVIOUS
<1>2. \A i \in 1 .. 2 : s[i] = t[i]
  OBVIOUS
<1> HIDE DEF s, t
<1>3. s = t
  BY <1>1, <1>2, SeqEqual
<1> QED BY <1>3 DEF s, t

\* What follows when the thread could not be started.
LEMMA LostProgram ==
  LET p == <<"negative", "lost">>
  IN  Ordered(p) /\ p[Len(p)] = "lost" /\ Head(p) = "negative"
<1>1. Ordered(<<"lost">>) /\ <<"lost">>[Len(<<"lost">>)] = "lost" /\ Head(<<"lost">>) = "lost"
  BY OrderedOne DEF LastSteps
<1>2. <<"negative">> \o <<"lost">> = <<"negative", "lost">>
  BY PairOf DEF Steps, LastSteps
<1> QED BY <1>1, <1>2, OrderedNegative

\* ... once the thread was shut down,
LEMMA ShutdownLost ==
  LET p == Shutdown \o <<"negative", "lost">>
  IN  Ordered(p) /\ p[Len(p)] = "lost" /\ Head(p) = "mark"
<1> DEFINE t == <<"negative", "lost">>
<1>1. Ordered(t) /\ t[Len(t)] = "lost" /\ Head(t) = "negative"
  BY LostProgram
<1> HIDE DEF t
<1>2. Ordered(Shutdown \o t) /\ (Shutdown \o t)[Len(Shutdown \o t)] = "lost" /\ Head(Shutdown \o t) = "mark"
  BY <1>1, OrderedBefore
<1> QED BY <1>2 DEF t

\* ... and once the lookup that failed to start was destroyed.
LEMMA FailedStart ==
  LET p == Destroy \o Shutdown \o <<"negative", "lost">>
  IN  Ordered(p) /\ p[Len(p)] = "lost" /\ Head(p) = "mark"
<1> DEFINE t == Shutdown \o <<"negative", "lost">>
<1>1. Ordered(t) /\ t[Len(t)] = "lost" /\ Head(t) = "mark"
  BY ShutdownLost
<1>2. Destroy \o Shutdown \o <<"negative", "lost">> = Destroy \o t
  <2>1. Destroy \in Seq(Steps) /\ Shutdown \in Seq(Steps) /\ <<"negative", "lost">> \in Seq(Steps)
    BY DEF Destroy, Shutdown, Steps, Joins, LastSteps
  <2> QED BY <2>1, ConcatAssociative
<1> HIDE DEF t
<1>3. Ordered(Destroy \o t) /\ (Destroy \o t)[Len(Destroy \o t)] = "lost" /\ Head(Destroy \o t) = "mark"
  BY <1>1, OrderedDestroy
<1> QED BY <1>2, <1>3

\* calloc delivers an object not used before, if there is one.
LEMMA Callocated ==
  ASSUME NEW objects, NEW o \in Calloc(objects)
  PROVE  o \in DOMAIN objects /\ objects[o].st = "unused"
<1> DEFINE unused == {x \in DOMAIN objects : objects[x].st = "unused"}
<1>1. unused # {} /\ o = CHOOSE x \in unused : TRUE
  BY DEF Calloc
<1>2. o \in unused
  BY <1>1
<1> QED BY <1>2

\* async_thrdd_init: the new context has its handle and its thread to hold it.
LEMMA CreateStep ==
  ASSUME LInv, Create, turns' = turns
  PROVE  LInv'
<1> DEFINE failed == Destroy \o Shutdown \o <<"negative", "lost">>
<1>1. /\ At("create") /\ Control /\ call \in CallRec /\ Ctx = Nil /\ UNCHANGED <<entry, cache>>
      /\ lookup \in [Lookups -> LookupRec] /\ user \in [Users -> UserRec] /\ thread \in [Lookups -> ThreadAt]
  BY DEF Create, LInv, Types, Control
<1>2. /\ Me \in Users /\ Aim = "create" /\ call # Idle
      /\ \A steps \in Seq(Steps) : steps \o Tail(call.todo) = steps
      /\ ~At("free") /\ ~At("unlink") /\ ~At("join") /\ ~At("joinForget") /\ ~At("joinOrDetach")
      /\ ~Forgets(call.todo)
  BY <1>1, AtLast DEF LastSteps
<1>3. ~call.done /\ call.done \in BOOLEAN /\ call.dns \in Entries \cup {Nil} /\ call.host \in Hosts
      /\ user[Me].ctx = Nil /\ user[Me].doh = "none" /\ call.mode \in {"connect", "blocking"}
  BY <1>1, <1>2 DEF LInv, DoneSeen, CallRec, Control, Ctx, Probing
<1>4. Ordered(<<"check">>) /\ <<"check">>[Len(<<"check">>)] = "check" /\ Head(<<"check">>) = "check"
      /\ <<"check">> \in Seq(Steps)
  BY OrderedOne DEF LastSteps, Steps
<1>5. Ordered(failed) /\ failed[Len(failed)] = "lost" /\ Head(failed) = "mark" /\ failed \in Seq(Steps)
  BY FailedStart, OrderedHead
<1> HIDE DEF failed
<1> DEFINE Goes(step, aim) ==
      /\ call' \in CallRec /\ call' # Idle /\ Ordered(call'.todo) /\ ~call'.done
      /\ Me' = Me /\ call'.mode = call.mode /\ call'.host = call.host /\ Aim' = aim
      /\ ~At("free")' /\ ~At("unlink")' /\ ~At("create")' /\ ~At("isDohResolved")'
      /\ At("check")' <=> step = "check"
<1>6. ASSUME Then(<<"check">>)
      PROVE  Goes("check", "check")
  <2>1. Continue(<<"check">>, call.done, call.dns)
    BY <1>2, <1>4, <1>6 DEF Then, Holding
  <2> QED BY <2>1, <1>1, <1>3, <1>4, GoesOn
<1>7. ASSUME Then(failed)
      PROVE  Goes("mark", "lost")
  <2>1. Continue(failed, call.done, call.dns)
    BY <1>2, <1>5, <1>7 DEF Then, Holding
  <2> QED BY <2>1, <1>1, <1>3, <1>5, GoesOn
<1> HIDE DEF Goes
<1>8. ASSUME NEW c \in Calloc(lookup), NEW started \in BOOLEAN,
             lookup' = [lookup EXCEPT ![c] =
               [st |-> "live", refs |-> IF started THEN 2 ELSE 1, abort |-> FALSE,
                done |-> ~started, handle |-> IF started THEN "held" ELSE "null",
                res |-> {}, want |-> WantOf[Me]]],
             Go(c, IF started THEN "start" ELSE "none"),
             user' = [user EXCEPT ![Me].ctx = c, ![Me].dns = Nil, ![Me].host = call.host],
             Then(IF started THEN <<"check">> ELSE failed)
      PROVE  LInv'
  <2>1. c \in Lookups /\ lookup[c].st = "unused"
    BY <1>1, Callocated
  <2>2. /\ user' \in [Users -> UserRec] /\ user'[Me].ctx = c /\ user'[Me].host = call.host
        /\ user'[Me].st = user[Me].st /\ user'[Me].doh = "none"
        /\ \A v \in Users : v # Me => user'[v] = user[v]
    <3>1. user[Me] \in UserRec /\ call.host \in Hosts /\ Me \in Users
      BY <1>1, <1>2, <1>3
    <3>2. [user[Me] EXCEPT !.ctx = c, !.dns = Nil, !.host = call.host] \in UserRec
      BY <3>1, <2>1 DEF UserRec
    <3> QED BY <3>1, <3>2, <1>1, <1>3, <1>8 DEF UserRec
  <2>3. Goes(IF started THEN "check" ELSE "mark", IF started THEN "check" ELSE "lost")
    <3>1. CASE started
      BY <3>1, <1>6, <1>8
    <3>2. CASE ~started
      BY <3>2, <1>7, <1>8
    <3> QED BY <3>1, <3>2
  <2>4. c # Nil /\ LookupAt(c) /\ \A u \in Users : user[u].ctx # c
    <3>1. LookupAt(c) /\ c # Nil
      BY <2>1, ResolverAssumption DEF LInv, LookupInv, ResolverConstants
    <3>2. ~Owned(c)
      BY <2>1, <3>1 DEF LookupAt
    <3> QED BY <3>1, <3>2, <1>2 DEF Owned, Keeps
  <2>5. WantOf[Me] \in Families \cup {"any"}
    BY <1>2, ResolverAssumption DEF ResolverConstants
  <2>6. /\ lookup'[c] = [st |-> "live", refs |-> IF started THEN 2 ELSE 1, abort |-> FALSE,
                         done |-> ~started, handle |-> IF started THEN "held" ELSE "null",
                         res |-> {}, want |-> WantOf[Me]]
        /\ \A k \in Lookups : k # c => lookup'[k] = lookup[k]
    BY <1>1, <1>8, <2>1
  <2>7. /\ lookup'[c] \in LookupRec /\ lookup'[c].st = "live" /\ lookup'[c].refs = IF started THEN 2 ELSE 1
        /\ lookup'[c].done = ~started /\ lookup'[c].handle = (IF started THEN "held" ELSE "null")
        /\ lookup'[c].res = {} /\ lookup'[c].want = WantOf[Me]
    BY <2>5, <2>6 DEF LookupRec
  <2>8. /\ thread' \in [Lookups -> ThreadAt] /\ thread'[c] = IF started THEN "start" ELSE "none"
        /\ \A k \in Lookups : k # c => thread'[k] = thread[k]
    BY <1>1, <1>8, <2>1 DEF Go, ThreadAt
  <2>9. Types'
    <3>1. lookup' \in [Lookups -> LookupRec]
      BY <1>1, <1>8, <2>6, <2>7
    <3> QED BY <3>1, <2>2, <2>3, <2>8, <1>1 DEF LInv, Types, Goes
  <2>10. LookupAt(c)'
    <3>0. PICK me \in Users : me = Me
      BY <1>2
    <3>1. Keeps(me, c)' /\ ~At("unlink")' /\ ~At("free")'
      BY <3>0, <2>2, <2>3 DEF Keeps, Goes
    <3>2. Owned(c)' /\ (Running(c)' <=> started)
      BY <3>1, <2>8 DEF Owned, Running
    <3>3. (lookup[c].handle = "held" => \E u \in Users : Keeps(u, c) /\ ~(At("unlink") /\ Me = u))'
      BY <3>1
    <3>4. (lookup[c].refs = One(Owned(c)) + One(Running(c)))'
      BY <3>2, <2>7 DEF One
    <3>5. (lookup[c].st = "live" <=> Owned(c) \/ Running(c) \/ Freeing(c))'
      BY <3>2, <2>7
    <3>6. /\ (lookup[c].st = "unused" => thread[c] = "none" /\ lookup[c].handle = "null")'
          /\ (thread[c] = "none" => lookup[c].handle # "held")'
          /\ (lookup[c].handle = "held" /\ lookup[c].done => thread[c] \in {"exit", "ended"})'
          /\ (thread[c] = "free" => ~Owned(c))'
      BY <2>7, <2>8
    <3>7. (At("free") /\ Ctx = c => thread[c] \in {"none", "exit", "ended"})'
      BY <3>1
    <3> QED BY <3>3, <3>4, <3>5, <3>6, <3>7 DEF LookupAt
  <2>11. ASSUME NEW k \in Lookups, k # c
         PROVE  LookupAt(k)'
    <3>1. LookupAt(k) /\ lookup'[k] = lookup[k] /\ thread'[k] = thread[k]
      BY <2>6, <2>8, <2>11 DEF LInv, LookupInv
    <3>2. k # Nil
      BY ResolverAssumption DEF ResolverConstants
    <3>3. ~At("free")' /\ ~At("unlink")'
      BY <2>3 DEF Goes
    <3>4. \A u \in Users : Keeps(u, k)' <=> Keeps(u, k)
      BY <3>2, <3>3, <1>2, <1>3, <2>2, <2>11 DEF Keeps
    <3> QED BY <3>1, <3>3, <3>4, <1>2, OtherLookup
  <2>12. OneOwner'
    BY <2>2, <2>4 DEF LInv, OneOwner
  <2>13. Wanted'
    <3>1. \A k \in Lookups : lookup'[k].res \in AnswersFor(lookup'[k].want) \cup {{}}
      BY <2>6, <2>7 DEF LInv, Wanted
    <3>2. ASSUME NEW u \in Users, user'[u].ctx # Nil
          PROVE  lookup'[user'[u].ctx].want = WantOf[u]
      <4>1. CASE u = Me
        BY <4>1, <2>2, <2>7
      <4>2. CASE u # Me
        <5>1. user'[u].ctx = user[u].ctx /\ user[u].ctx # c /\ user[u].ctx \in Lookups
          BY <4>2, <3>2, <2>2, <2>4 DEF UserRec
        <5> QED BY <5>1, <3>2, <2>6 DEF LInv, Wanted
      <4> QED BY <4>1, <4>2
    <3> QED BY <3>1, <3>2 DEF Wanted, AnswersFor
  <2>14. Control'
    <3>1. Ctx' = c /\ c # Nil
      BY <2>2, <2>3, <2>4 DEF Ctx, Goes
    <3>2. Aim' \in {"check", "lost"}
      BY <2>3 DEF Goes
    <3> QED BY <3>1, <3>2, <2>2, <2>3, <1>1, <1>2, <1>3 DEF Control, Goes
  <2>15. Pollable' /\ DoneSeen' /\ Probing'
    BY <2>2, <2>3 DEF LInv, Pollable, DoneSeen, Goes, Probing
  <2>16. LookupInv'
    BY <2>10, <2>11 DEF LookupInv
  <2> QED BY <2>9, <2>12, <2>13, <2>14, <2>15, <2>16 DEF LInv
<1>9. ASSUME user' = [user EXCEPT ![Me].dns = Nil, ![Me].host = call.host], Then(failed),
             UNCHANGED <<lookup, thread>>
      PROVE  LInv'
  <2>1. Goes("mark", "lost")
    BY <1>7, <1>9
  <2>2. /\ user' \in [Users -> UserRec] /\ user'[Me].ctx = Nil
        /\ user'[Me].host = call.host /\ user'[Me].st = user[Me].st /\ user'[Me].doh = "none"
        /\ \A v \in Users : v # Me => user'[v] = user[v]
    <3>1. user[Me] \in UserRec /\ call.host \in Hosts /\ Me \in Users
      BY <1>1, <1>2, <1>3
    <3>2. [user[Me] EXCEPT !.dns = Nil, !.host = call.host] \in UserRec
      BY <3>1 DEF UserRec
    <3> QED BY <3>1, <3>2, <1>1, <1>3, <1>9 DEF UserRec
  <2>3. Types'
    BY <2>1, <2>2, <1>1, <1>9 DEF LInv, Types, Goes
  <2>4. \A u \in Users : user'[u].ctx = user[u].ctx
    BY <2>2, <1>3
  <2>5. ~At("free")' /\ ~At("unlink")'
    BY <2>1 DEF Goes
  <2>6. OneOwner' /\ LookupInv' /\ Wanted'
    BY <2>3, <2>4, <2>5, <1>2, <1>9, LookupsKept DEF LInv
  <2>7. Control' /\ Pollable' /\ DoneSeen' /\ Probing'
    BY <2>1, <2>2, <1>1, <1>2, <1>3 DEF LInv, Control, Pollable, DoneSeen, Goes, Looks, Probing
  <2> QED BY <2>3, <2>6, <2>7 DEF LInv
<1> QED BY <1>8, <1>9 DEF Create, failed

-----------------------------------------------------------------------------
(* The steps of resolver threads. *)

\* They change their own lookup only.
LEMMA ThreadFrame ==
  ASSUME LInv, NEW c \in Lookups, UNCHANGED <<entry, cache, user, turns, call>>,
         lookup' \in [Lookups -> LookupRec], thread' \in [Lookups -> ThreadAt],
         \A k \in Lookups : k # c => lookup'[k] = lookup[k] /\ thread'[k] = thread[k],
         LookupAt(c)',
         lookup'[c].res \in AnswersFor(lookup'[c].want) \cup {{}},
         (\E u \in Users : user[u].ctx = c)
           => lookup'[c].want = lookup[c].want
  PROVE  Types' /\ Control' /\ Pollable' /\ Probing' /\ OneOwner' /\ LookupInv' /\ Wanted'
<1>1. Types' /\ Control' /\ Pollable' /\ Probing' /\ OneOwner'
  BY DEF LInv, Types, Control, Pollable, Probing, OneOwner, Ctx, Me, At, Aim
<1>2. ASSUME NEW k \in Lookups, k # c
      PROVE  LookupAt(k)'
  <2>1. LookupAt(k) /\ lookup'[k] = lookup[k] /\ thread'[k] = thread[k]
    BY <1>2 DEF LInv, LookupInv
  <2>2. /\ \A u \in Users : Keeps(u, k)' <=> Keeps(u, k)
        /\ (At("free") /\ Ctx = k)' <=> At("free") /\ Ctx = k
        /\ \A u \in Users : Keeps(u, k) /\ (At("unlink") /\ Me = u)' => At("unlink") /\ Me = u
    BY DEF Keeps, At, Ctx, Me
  <2> QED BY <2>1, <2>2, OtherLookup
<1>3. LookupInv'
  BY <1>2 DEF LookupInv
<1>4. Wanted'
  <2>1. \A k \in Lookups : lookup'[k].res \in AnswersFor(lookup'[k].want) \cup {{}}
    BY DEF LInv, Wanted
  <2>2. ASSUME NEW u \in Users, user[u].ctx # Nil
        PROVE  lookup'[user[u].ctx].want = WantOf[u]
    <3>1. user[u].ctx \in Lookups
      BY <2>2 DEF LInv, Types, UserRec
    <3> QED BY <3>1, <2>2 DEF LInv, Wanted
  <2> QED BY <2>1, <2>2 DEF Wanted, AnswersFor
<1> QED BY <1>1, <1>3, <1>4

\* Who holds a lookup does not change with the state of its thread.
LEMMA ThreadOwners ==
  ASSUME NEW c \in Lookups, UNCHANGED <<user, call>>
  PROVE  /\ Owned(c)' <=> Owned(c)
         /\ \A u \in Users : Keeps(u, c)' <=> Keeps(u, c)
         /\ \A s : At(s)' <=> At(s)
         /\ Me' = Me /\ Ctx' = Ctx
BY DEF Owned, Keeps, At, Me, Ctx

\* No step of a resolver thread takes a lookup from a handle that has it.
LEMMA ThreadSteps ==
  ASSUME LInv, NEW c \in Lookups, Thread(c)
  PROVE  LInv'
<1>1. /\ LookupAt(c) /\ lookup[c] \in LookupRec /\ lookup \in [Lookups -> LookupRec]
      /\ thread \in [Lookups -> ThreadAt] /\ c # Nil
      /\ lookup[c].res \in AnswersFor(lookup[c].want) \cup {{}}
  BY ResolverAssumption DEF LInv, Types, LookupInv, ResolverConstants, Wanted
<1>2. UNCHANGED <<entry, cache, user, turns, call>>
  BY DEF Thread, ThreadStart, ThreadLookup, ThreadUnlink, ThreadFree, ThreadExit
<1>3. /\ Owned(c)' <=> Owned(c)
      /\ \A u \in Users : Keeps(u, c)' <=> Keeps(u, c)
      /\ \A s : At(s)' <=> At(s)
      /\ Me' = Me /\ Ctx' = Ctx
  BY <1>2, ThreadOwners
<1>4. (\E u \in Users : Keeps(u, c) /\ ~(At("unlink") /\ Me = u))
       <=> (\E u \in Users : Keeps(u, c)' /\ ~(At("unlink")' /\ Me' = u))
  BY <1>3
<1>5. (At("free")' /\ Ctx' = c <=> At("free") /\ Ctx = c) /\ One(Owned(c))' = One(Owned(c))
  BY <1>3 DEF One
<1>6. call.done /\ Ctx = c => Owned(c)
  <2>1. call.done => ~At("free") /\ Ctx # Nil /\ Me \in Users
    BY BetweenCalls DEF LInv, DoneSeen, Control, At
  <2> QED BY <2>1 DEF Owned, Keeps, Ctx
<1>7. ASSUME \A k \in Lookups : k # c => lookup'[k] = lookup[k],
             Owned(c) /\ lookup[c].done => lookup'[c].done
      PROVE  DoneSeen'
  <2>1. ASSUME call.done
        PROVE  Ctx \in Lookups /\ lookup'[Ctx].done
    <3>1. Ctx \in Lookups /\ lookup[Ctx].done
      <4>1. call # Idle
        BY <2>1, BetweenCalls
      <4>2. Me \in Users /\ Ctx # Nil /\ lookup[Ctx].done
        BY <4>1, <2>1 DEF LInv, Control, DoneSeen
      <4> QED BY <4>2, MyContext
    <3> QED BY <3>1, <2>1, <1>6, <1>7
  <2> QED BY <2>1, <1>2, <1>3 DEF LInv, DoneSeen
<1>8. CASE ThreadStart(c) \/ ThreadExit(c)
  <2>1. lookup' = lookup /\ \E pc \in ThreadAt : Go(c, pc) /\ (pc = "ended" <=> thread[c] = "exit")
          /\ (pc # "ended" => pc \in {"unlink", "lookup"} /\ thread[c] = "start")
    BY <1>8 DEF ThreadStart, ThreadExit, ThreadAt
  <2>2. /\ thread' \in [Lookups -> ThreadAt] /\ \A k \in Lookups : k # c => thread'[k] = thread[k]
        /\ \/ thread[c] = "start" /\ thread'[c] \in {"unlink", "lookup"}
           \/ thread[c] = "exit" /\ thread'[c] = "ended"
    BY <2>1, <1>1 DEF Go
  <2>3. Running(c)' <=> Running(c)
    BY <2>2 DEF Running
  <2>4. LookupAt(c)'
    <3>1. (lookup[c].refs = One(Owned(c)) + One(Running(c)))'
      BY <2>1, <2>3, <1>1, <1>5 DEF LookupAt, One
    <3>2. (lookup[c].st = "live" <=> Owned(c) \/ Running(c) \/ Freeing(c))'
      BY <2>1, <2>2, <2>3, <1>1, <1>3, <1>5 DEF LookupAt, Freeing
    <3>3. (lookup[c].handle = "held" => \E u \in Users : Keeps(u, c) /\ ~(At("unlink") /\ Me = u))'
      BY <2>1, <1>1, <1>4 DEF LookupAt
    <3> QED BY <3>1, <3>2, <3>3, <2>1, <2>2, <1>1, <1>5 DEF LookupAt
  <2> QED BY <2>1, <2>2, <2>4, <1>1, <1>2, <1>7, ThreadFrame DEF LInv
<1>9. CASE ThreadLookup(c)
  <2>1. /\ \E r \in AnswersFor(lookup[c].want) : lookup' = [lookup EXCEPT ![c].res = r]
        /\ thread[c] = "lookup"
    BY <1>9 DEF ThreadLookup
  <2>2. PICK r \in AnswersFor(lookup[c].want) : lookup' = [lookup EXCEPT ![c].res = r]
    BY <2>1
  <2>3. r \in SUBSET Families
    <3>1. lookup[c].want \in Families \cup {"any"} /\ Answers \subseteq SUBSET Families
      BY <1>1, ResolverAssumption DEF LookupRec, ResolverConstants
    <3> QED BY <3>1 DEF AnswersFor
  <2>4. /\ lookup' \in [Lookups -> LookupRec] /\ \A k \in Lookups : k # c => lookup'[k] = lookup[k]
        /\ lookup'[c].res = r /\ lookup'[c].refs = lookup[c].refs /\ lookup'[c].st = lookup[c].st
        /\ lookup'[c].done = lookup[c].done /\ lookup'[c].handle = lookup[c].handle
        /\ lookup'[c].want = lookup[c].want
    BY <2>2, <2>3, <1>1 DEF LookupRec
  <2>5. /\ thread' \in [Lookups -> ThreadAt] /\ \A k \in Lookups : k # c => thread'[k] = thread[k]
        /\ thread'[c] \in {"unlink", "notify"}
    BY <1>9, <1>1 DEF ThreadLookup, Go, ThreadAt
  <2>6. Running(c)' /\ Running(c)
    BY <2>1, <2>5 DEF Running
  <2>7. LookupAt(c)'
    <3>1. (lookup[c].refs = One(Owned(c)) + One(Running(c)))'
      BY <2>4, <2>6, <1>1, <1>5 DEF LookupAt, One
    <3>2. (lookup[c].handle = "held" => \E u \in Users : Keeps(u, c) /\ ~(At("unlink") /\ Me = u))'
      BY <2>4, <1>1, <1>4 DEF LookupAt
    <3> QED BY <3>1, <3>2, <2>1, <2>4, <2>5, <2>6, <1>1, <1>5 DEF LookupAt
  <2>8. lookup'[c].res \in AnswersFor(lookup'[c].want) \cup {{}}
    BY <2>4
  <2> QED BY <2>4, <2>5, <2>7, <2>8, <1>2, <1>7, ThreadFrame DEF LInv
<1>10. CASE ThreadUnlink(c)
  <2>1. /\ thread[c] \in {"notify", "unlink"} /\ Running(c)
        /\ lookup' = [lookup EXCEPT ![c].done = TRUE, ![c].refs = @ - 1]
    BY <1>10 DEF ThreadUnlink, Running
  <2>2. lookup[c].refs \in {1, 2} /\ (lookup[c].refs = 2 <=> Owned(c)) /\ lookup[c].st = "live"
        /\ lookup[c].refs - 1 = One(Owned(c))
    BY <2>1, <1>1 DEF LookupAt, One
  <2>3. /\ lookup' \in [Lookups -> LookupRec] /\ \A k \in Lookups : k # c => lookup'[k] = lookup[k]
        /\ lookup'[c].res = lookup[c].res /\ lookup'[c].refs = lookup[c].refs - 1
        /\ lookup'[c].st = "live" /\ lookup'[c].done
        /\ lookup'[c].handle = lookup[c].handle /\ lookup'[c].want = lookup[c].want
    BY <2>1, <2>2, <1>1 DEF LookupRec
  <2>4. /\ thread' \in [Lookups -> ThreadAt] /\ \A k \in Lookups : k # c => thread'[k] = thread[k]
        /\ thread'[c] = IF Owned(c) THEN "exit" ELSE "free"
    BY <1>10, <2>2, <1>1 DEF ThreadUnlink, Go, ThreadAt
  <2>5. ~Running(c)' /\ (Owned(c)' \/ Freeing(c)')
    BY <2>4, <1>3 DEF Running, Freeing
  <2>6. lookup[c].handle = "held" => Owned(c)
    BY <1>1 DEF LookupAt, Owned
  <2>7. LookupAt(c)'
    <3>1. (lookup[c].refs = One(Owned(c)) + One(Running(c)))'
      BY <2>2, <2>3, <2>5, <1>5 DEF One
    <3>2. (lookup[c].handle = "held" => \E u \in Users : Keeps(u, c) /\ ~(At("unlink") /\ Me = u))'
      BY <2>3, <1>1, <1>4 DEF LookupAt
    <3>3. ~(At("free") /\ Ctx = c)'
      BY <2>1, <1>1, <1>5 DEF LookupAt
    <3> QED BY <3>1, <3>2, <3>3, <2>3, <2>4, <2>5, <2>6, <1>3 DEF LookupAt
  <2>8. lookup'[c].res \in AnswersFor(lookup'[c].want) \cup {{}}
    BY <2>3, <1>1
  <2> QED BY <2>3, <2>4, <2>7, <2>8, <1>2, <1>7, ThreadFrame DEF LInv
<1>11. CASE ThreadFree(c)
  <2>1. /\ thread[c] = "free" /\ Go(c, "ended")
        /\ lookup' = [lookup EXCEPT ![c] = [Freed(NoLookup) EXCEPT !.handle = lookup[c].handle]]
    BY <1>11 DEF ThreadFree
  <2>2. ~Owned(c) /\ ~(At("free") /\ Ctx = c) /\ lookup[c].handle # "held"
    BY <2>1, <1>1 DEF LookupAt, Owned
  <2>3. /\ lookup' \in [Lookups -> LookupRec] /\ \A k \in Lookups : k # c => lookup'[k] = lookup[k]
        /\ lookup'[c].res = {} /\ lookup'[c].refs = 0 /\ lookup'[c].st = "freed"
        /\ lookup'[c].handle = lookup[c].handle
    <3>1. lookup[c].handle \in {"null", "held", "joined", "detached"}
      BY <1>1 DEF LookupRec
    <3> QED BY <3>1, <2>1, <1>1, FreedLookup
  <2>4. /\ thread' \in [Lookups -> ThreadAt] /\ \A k \in Lookups : k # c => thread'[k] = thread[k]
        /\ thread'[c] = "ended"
    BY <2>1, <1>1 DEF Go, ThreadAt
  <2>5. ~Running(c)' /\ ~Freeing(c)' /\ ~Owned(c)'
    BY <2>2, <2>4, <1>3, <1>5 DEF Running, Freeing
  <2>6. LookupAt(c)'
    BY <2>2, <2>3, <2>4, <2>5 DEF LookupAt, One
  <2>7. ~(\E u \in Users : user[u].ctx = c)
    <3>1. ASSUME NEW u \in Users, user[u].ctx = c
          PROVE  FALSE
      <4>1. At("free") /\ Me = u
        BY <3>1, <2>2 DEF Owned, Keeps
      <4> QED BY <4>1, <3>1, <2>2 DEF Ctx
    <3> QED BY <3>1
  <2> QED BY <2>2, <2>3, <2>4, <2>6, <2>7, <1>2, <1>7, ThreadFrame DEF LInv
<1> QED BY <1>8, <1>9, <1>10, <1>11 DEF Thread

-----------------------------------------------------------------------------
(* The DNS cache and the pending answers: which values the steps leave. *)

\* To give up a reference leaves entries entries.
LEMMA DropTyped ==
  ASSUME NEW ents \in [Entries -> EntryRec], NEW e \in Entries \cup {Nil}
  PROVE  Drop(ents, e) \in [Entries -> EntryRec]
<1>1. CASE e = Nil
  BY <1>1 DEF Drop
<1>2. CASE e # Nil
  <2>1. e \in Entries /\ ents[e] \in EntryRec
    BY <1>2
  <2>2. Unused \in EntryRec
    BY DEF Unused, EntryRec
  <2>3. Freed(Unused) \in EntryRec
    BY <2>2 DEF Freed, EntryRec
  <2>4. [ents[e] EXCEPT !.refs = @ - 1] \in EntryRec
    BY <2>1 DEF EntryRec
  <2>5. CASE ents[e].refs = 1
    <3>1. Drop(ents, e) = [ents EXCEPT ![e] = Freed(Unused)]
      BY <1>2, <2>1, <2>5 DEF Drop
    <3> QED BY <3>1, <2>1, <2>3
  <2>6. CASE ents[e].refs # 1
    <3>1. Drop(ents, e) = [ents EXCEPT ![e] =
            IF ents[e].refs = 1 THEN Freed(Unused) ELSE [ents[e] EXCEPT !.refs = @ - 1]]
      BY <1>2, <2>1 DEF Drop
    <3> QED BY <3>1, <2>1, <2>4, <2>6
  <2> QED BY <2>5, <2>6
<1> QED BY <1>1, <1>2

\* An entry that is made.
LEMMA NewTyped ==
  ASSUME NEW h \in Hosts, NEW fam \in SUBSET Families, NEW perm \in BOOLEAN
  PROVE  /\ NewEntry(h, fam, perm) \in EntryRec
         /\ [NewEntry(h, fam, perm) EXCEPT !.refs = 2] \in EntryRec
         /\ NewEntry(h, fam, perm).host = h
         /\ [NewEntry(h, fam, perm) EXCEPT !.refs = 2].host = h
<1> DEFINE n == NewEntry(h, fam, perm)
<1>1. n \in EntryRec /\ n.host = h
  BY DEF NewEntry, EntryRec
<1> HIDE DEF n
<1>2. [n EXCEPT !.refs = 2] \in EntryRec /\ [n EXCEPT !.refs = 2].host = h
  BY <1>1 DEF EntryRec
<1> QED BY <1>1, <1>2 DEF n

\* A new entry in the cache.
LEMMA AddTyped ==
  ASSUME NEW ents \in [Entries -> EntryRec], NEW e \in Entries, NEW new \in EntryRec,
         new.host \in Hosts, cache \in [Hosts -> Entries \cup {Nil}], AddToCache(ents, e, new)
  PROVE  entry' \in [Entries -> EntryRec] /\ cache' \in [Hosts -> Entries \cup {Nil}]
<1>1. Drop(ents, cache[new.host]) \in [Entries -> EntryRec]
  BY DropTyped
<1> QED BY <1>1 DEF AddToCache

\* What the cache is asked for.
LEMMA FetchTyped ==
  ASSUME entry \in [Entries -> EntryRec], cache \in [Hosts -> Entries \cup {Nil}],
         NEW h \in Hosts, NEW want
  PROVE  /\ Fetched(h, want) \in Entries \cup {Nil}
         /\ Zapped(h, want) \in [Entries -> EntryRec]
         /\ Fetch(h, want) => /\ entry' \in [Entries -> EntryRec]
                              /\ cache' \in [Hosts -> Entries \cup {Nil}]
<1>1. Fetched(h, want) \in Entries \cup {Nil}
  BY DEF Fetched
<1>2. Zapped(h, want) \in [Entries -> EntryRec]
  BY DropTyped DEF Zapped
<1>3. ASSUME Fetched(h, want) # Nil
      PROVE  [entry EXCEPT ![cache[h]].refs = @ + 1] \in [Entries -> EntryRec]
  <2>1. cache[h] \in Entries
    BY <1>3 DEF Fetched
  <2>2. entry[cache[h]] \in EntryRec
    BY <2>1
  <2>3. [entry[cache[h]] EXCEPT !.refs = @ + 1] \in EntryRec
    BY <2>2 DEF EntryRec
  <2> QED BY <2>1, <2>2, <2>3
<1>4. ASSUME Fetch(h, want)
      PROVE  entry' \in [Entries -> EntryRec] /\ cache' \in [Hosts -> Entries \cup {Nil}]
  BY <1>1, <1>2, <1>3, <1>4 DEF Fetch
<1> QED BY <1>1, <1>2, <1>4

-----------------------------------------------------------------------------
(* How the last step of a program goes on. *)

\* The call goes on with the program its last step has chosen.
LEMMA NextProgram ==
  ASSUME Control, call \in CallRec, NEW s \in LastSteps, At(s),
         NEW p, Ordered(p), NEW e \in Entries \cup {Nil}, Holding(e, p)
  PROVE  /\ call' \in CallRec /\ call' # Idle /\ Ordered(call'.todo)
         /\ Me' = Me /\ call'.mode = call.mode /\ call'.host = call.host
         /\ call'.done = call.done /\ call'.dns = e /\ call'.todo = p
         /\ Aim' = p[Len(p)]
         /\ \A t : At(t)' <=> Head(p) = t
<1>1. p \in Seq(Steps)
  BY OrderedHead
<1>2. p \o Tail(call.todo) = p
  BY <1>1, AtLast
<1>3. Continue(p, call.done, e) /\ call.done \in BOOLEAN
  BY <1>2 DEF Holding, CallRec
<1> QED BY <1>3, GoesOn

\* The call returns.
LEMMA LastOne ==
  ASSUME Control, NEW s \in LastSteps, At(s), NEW e, Holding(e, <<>>)
  PROVE  call' = Idle
<1>1. <<>> \o Tail(call.todo) = <<>>
  BY AtLast, EmptySeq
<1> QED BY <1>1 DEF Holding, Continue

\* At the last step of a call nothing is marked and nothing is being freed.
LEMMA LastIsQuiet ==
  ASSUME LInv, NEW s \in LastSteps, At(s)
  PROVE  /\ Me \in Users /\ Aim = s /\ call # Idle /\ ~call.done
         /\ call \in CallRec /\ Control /\ call.dns \in Entries \cup {Nil}
         /\ ~At("free") /\ ~At("unlink") /\ ~Forgets(call.todo)
<1>1. Control /\ call \in CallRec
  BY DEF LInv, Types
<1>2. Me \in Users /\ Aim = s /\ call # Idle /\ ~Forgets(call.todo) /\ \A t : At(t) <=> t = s
  BY <1>1, AtLast
<1>3. s \notin {"free", "unlink", "join", "joinForget", "joinOrDetach"}
  BY DEF LastSteps
<1> QED BY <1>1, <1>2, <1>3 DEF LInv, DoneSeen, CallRec

\* A step that changes neither lookups nor their holders.
LEMMA LookupsLeft ==
  ASSUME LInv, Types', Control', Pollable', Probing', thread' = thread,
         \A u \in Users : user'[u].ctx = user[u].ctx,
         \A c \in Lookups :
           /\ lookup'[c].refs = lookup[c].refs /\ lookup'[c].st = lookup[c].st
           /\ lookup'[c].done = lookup[c].done /\ lookup'[c].want = lookup[c].want
           /\ lookup'[c].res \in {lookup[c].res, {}} /\ lookup'[c].handle = lookup[c].handle,
         ~At("free"), ~At("free")', ~At("unlink")', ~call'.done
  PROVE  LInv'
<1>1. OneOwner' /\ LookupInv' /\ Wanted'
  BY LookupsKept DEF LInv
<1> QED BY <1>1 DEF LInv, DoneSeen

\* Between calls there is nothing to control.
LEMMA IdleControl ==
  call' = Idle => Control'
BY BetweenCalls DEF Control, Looks

\* The program after a failed resolve.
LEMMA OrderedFailure ==
  ASSUME NEW b \in BOOLEAN
  PROVE  LET p == AfterFailure(b)
         IN  Ordered(p) /\ p[Len(p)] = "lost" /\ Head(p) \in {"mark", "negative", "lost"}
<1>1. PICK t : /\ t = IF call.mode = "poll" THEN <<"lost">> ELSE Shutdown \o <<"negative", "lost">>
               /\ Ordered(t) /\ t[Len(t)] = "lost" /\ Head(t) \in {"mark", "lost"}
  <2>1. CASE call.mode = "poll"
    BY <2>1, OrderedOne DEF LastSteps
  <2>2. CASE call.mode # "poll"
    BY <2>2, ShutdownLost
  <2> QED BY <2>1, <2>2
<1>2. CASE b
  <2>1. AfterFailure(b) = <<"negative">> \o t
    BY <1>1, <1>2 DEF AfterFailure
  <2> QED BY <2>1, <1>1, OrderedNegative
<1>3. CASE ~b
  <2>1. t \in Seq(Steps)
    BY <1>1, OrderedHead
  <2>2. AfterFailure(b) = t
    BY <2>1, <1>1, <1>3, ConcatEmptySeq DEF AfterFailure
  <2> QED BY <2>2, <1>1
<1> QED BY <1>2, <1>3

\* The programs of a resolve that has an answer, or has none.
LEMMA OrderedAnswer ==
  ASSUME NEW s \in {ShutdownThread, Shutdown}
  PROVE  /\ Ordered(s \o <<"deliver">>) /\ (s \o <<"deliver">>)[Len(s \o <<"deliver">>)] = "deliver"
         /\ Head(s \o <<"deliver">>) = "mark"
         /\ Ordered(s \o <<"lost">>) /\ (s \o <<"lost">>)[Len(s \o <<"lost">>)] = "lost"
         /\ Head(s \o <<"lost">>) = "mark"
         /\ \A b \in BOOLEAN :
              LET p == s \o AfterFailure(b)
              IN  Ordered(p) /\ p[Len(p)] = "lost" /\ Head(p) = "mark"
<1>1. \A a \in {"deliver", "lost"} : Ordered(<<a>>) /\ <<a>>[Len(<<a>>)] = a /\ Head(<<a>>) = a
  BY OrderedOne DEF LastSteps
<1>2. ASSUME NEW a \in {"deliver", "lost"}
      PROVE  Ordered(s \o <<a>>) /\ (s \o <<a>>)[Len(s \o <<a>>)] = a /\ Head(s \o <<a>>) = "mark"
  <2> DEFINE t == <<a>>
  <2>1. Ordered(t) /\ t[Len(t)] = a /\ Head(t) = a
    BY <1>1
  <2> HIDE DEF t
  <2>2. Ordered(s \o t) /\ (s \o t)[Len(s \o t)] = a /\ Head(s \o t) = "mark"
    BY <2>1, OrderedBefore
  <2> QED BY <2>2 DEF t
<1>3. ASSUME NEW b \in BOOLEAN
      PROVE  LET p == s \o AfterFailure(b)
             IN  Ordered(p) /\ p[Len(p)] = "lost" /\ Head(p) = "mark"
  <2> DEFINE t == AfterFailure(b)
  <2>1. Ordered(t) /\ t[Len(t)] = "lost" /\ Head(t) \in {"mark", "negative", "lost"}
    BY OrderedFailure
  <2> HIDE DEF t
  <2>2. Ordered(s \o t) /\ (s \o t)[Len(s \o t)] = "lost" /\ Head(s \o t) = "mark"
    BY <2>1, OrderedBefore
  <2> QED BY <2>2 DEF t
<1> QED BY <1>2, <1>3

-----------------------------------------------------------------------------
(* The steps that look for an answer. *)

\* The probes of a DoH query are on their way.
LEMMA StartDohStep ==
  ASSUME LInv, StartDoh, turns' = turns
  PROVE  LInv'
<1> DEFINE failed == Shutdown \o <<"negative", "lost">>
<1>1. At("doh") /\ "doh" \in LastSteps /\ UNCHANGED <<lookup, thread, entry, cache>>
  BY DEF StartDoh, LastSteps
<1>2. /\ Me \in Users /\ Aim = "doh" /\ ~call.done /\ call \in CallRec /\ Control
      /\ call.dns \in Entries \cup {Nil} /\ ~At("free")
  BY <1>1, LastIsQuiet
<1>3. PICK doh \in {"pending", "none"} :
        /\ user' = [user EXCEPT ![Me].doh = doh, ![Me].host = call.host]
        /\ Then(IF doh = "pending" THEN <<"check">> ELSE failed)
  BY DEF StartDoh
<1>4. call.host \in Hosts /\ user \in [Users -> UserRec] /\ call.mode = "connect"
  BY <1>2 DEF Control, LInv, Types
<1>5. PICK p : /\ Ordered(p) /\ Holding(call.dns, p)
               /\ doh = "pending" => p[Len(p)] = "check" /\ Head(p) = "check"
               /\ doh = "none" => p[Len(p)] = "lost" /\ Head(p) = "mark"
  <2>1. CASE doh = "pending"
    BY <2>1, <1>3, OrderedOne DEF Then, LastSteps
  <2>2. CASE doh = "none"
    BY <2>2, <1>3, ShutdownLost DEF Then
  <2> QED BY <2>1, <2>2
<1>6. /\ call' \in CallRec /\ call' # Idle /\ Ordered(call'.todo) /\ ~call'.done
      /\ Me' = Me /\ call'.mode = call.mode /\ call'.host = call.host
      /\ Aim' = p[Len(p)] /\ \A t : At(t)' <=> Head(p) = t
  BY <1>1, <1>2, <1>5, NextProgram
<1>7. /\ user' \in [Users -> UserRec] /\ user'[Me].doh = doh /\ user'[Me].host = call.host
      /\ user'[Me].ctx = user[Me].ctx /\ user'[Me].st = user[Me].st
      /\ \A v \in Users : v # Me => user'[v] = user[v]
  <2>1. user[Me] \in UserRec
    BY <1>2, <1>4
  <2>2. [user[Me] EXCEPT !.doh = doh, !.host = call.host] \in UserRec
    BY <2>1, <1>4 DEF UserRec
  <2> QED BY <2>1, <2>2, <1>2, <1>3, <1>4 DEF UserRec
<1>8. Types'
  BY <1>1, <1>6, <1>7 DEF LInv, Types
<1>9. Control' /\ Pollable' /\ Probing'
  <2>1. CASE doh = "pending"
    BY <2>1, <1>2, <1>4, <1>5, <1>6, <1>7 DEF LInv, Control, Pollable, Probing, Looks
  <2>2. CASE doh = "none"
    BY <2>2, <1>2, <1>4, <1>5, <1>6, <1>7 DEF LInv, Control, Pollable, Probing, Looks
  <2> QED BY <2>1, <2>2
<1>10. \A u \in Users : user'[u].ctx = user[u].ctx
  BY <1>7
<1>11. ~At("free")' /\ ~At("unlink")'
  BY <1>5, <1>6
<1> QED BY <1>1, <1>2, <1>6, <1>8, <1>9, <1>10, <1>11, LookupsLeft

\* Somebody else may have resolved the name meanwhile.
LEMMA CheckStep ==
  ASSUME LInv, Check, turns' = turns
  PROVE  LInv'
<1> DEFINE e == Fetched(user[Me].host, WantOf[Me])
<1>1. /\ At("check") /\ "check" \in LastSteps /\ UNCHANGED <<lookup, thread>>
      /\ Fetch(user[Me].host, WantOf[Me])
      /\ IF e # Nil THEN user' = [user EXCEPT ![Me].dns = e] /\ Holding(e, Shutdown \o <<"deliver">>)
         ELSE /\ user' = user
              /\ Then(IF user[Me].doh = "none" THEN <<"isResolved">> ELSE <<"isDohResolved">>)
  BY DEF Check, LastSteps
<1>2. /\ Me \in Users /\ Aim = "check" /\ ~call.done /\ call \in CallRec /\ Control
      /\ call.dns \in Entries \cup {Nil} /\ ~At("free") /\ call # Idle
      /\ ~Forgets(call.todo)
  BY <1>1, LastIsQuiet
<1>3. user[Me].host \in Hosts /\ user \in [Users -> UserRec] /\ call.host \in Hosts
  BY <1>2 DEF Control, LInv, Types, Looks
<1>4. e \in Entries \cup {Nil} /\ entry' \in [Entries -> EntryRec] /\ cache' \in [Hosts -> Entries \cup {Nil}]
  BY <1>1, <1>3, FetchTyped DEF LInv, Types
<1> HIDE DEF e
<1>5. /\ user' \in [Users -> UserRec] /\ user'[Me].doh = user[Me].doh /\ user'[Me].host = user[Me].host
      /\ user'[Me].ctx = user[Me].ctx /\ user'[Me].st = user[Me].st
      /\ \A v \in Users : v # Me => user'[v] = user[v]
  <2>1. user[Me] \in UserRec
    BY <1>2, <1>3
  <2>2. [user[Me] EXCEPT !.dns = e] \in UserRec
    BY <2>1, <1>4 DEF UserRec
  <2>3. CASE e # Nil
    BY <2>1, <2>2, <2>3, <1>1, <1>2, <1>3 DEF UserRec
  <2>4. CASE e = Nil
    BY <2>4, <1>1, <1>3
  <2> QED BY <2>3, <2>4
<1>6. /\ call' \in CallRec /\ call' # Idle /\ Ordered(call'.todo) /\ ~call'.done
      /\ Me' = Me /\ call'.mode = call.mode /\ call'.host = call.host
      /\ ~At("free")' /\ ~At("unlink")' /\ ~At("create")' /\ ~At("check")'
      /\ At("isDohResolved")' => user[Me].doh # "none"
      /\ Aim' \in {"deliver", "isResolved", "isDohResolved"}
      /\ Aim' = "isResolved" => user[Me].doh = "none"
      /\ Aim' = "deliver" => Forgets(call'.todo)
  <2>1. CASE e # Nil
    <3> DEFINE p == Shutdown \o <<"deliver">>
    <3>1. Ordered(p) /\ p[Len(p)] = "deliver" /\ Head(p) = "mark" /\ Holding(e, p)
      BY <2>1, <1>1, OrderedAnswer
    <3>2. Forgets(p)
      <4>1. <<"deliver">> \in Seq(Steps)
        BY DEF Steps, LastSteps
      <4> QED BY <4>1, ShutdownForgets
    <3> HIDE DEF p
    <3> QED BY <3>1, <3>2, <1>1, <1>2, <1>4, NextProgram
  <2>2. CASE e = Nil
    <3>1. PICK a \in {"isResolved", "isDohResolved"} :
            (a = "isResolved" <=> user[Me].doh = "none") /\ Holding(call.dns, <<a>>)
      BY <2>2, <1>1 DEF Then
    <3> DEFINE p == <<a>>
    <3>2. Ordered(p) /\ p[Len(p)] = a /\ Head(p) = a /\ Holding(call.dns, p)
      BY <3>1, OrderedOne DEF LastSteps
    <3> HIDE DEF p
    <3> QED BY <3>1, <3>2, <1>1, <1>2, NextProgram
  <2> QED BY <2>1, <2>2
<1>7. Types'
  BY <1>1, <1>4, <1>5, <1>6 DEF LInv, Types
<1>8. Aim' = "isResolved" => Ctx # Nil
  BY <1>1, <1>2, <1>6 DEF Control
<1>9. Control' /\ Pollable' /\ Probing'
  BY <1>2, <1>3, <1>5, <1>6, <1>8 DEF LInv, Control, Pollable, Probing, Looks, Ctx
<1>10. \A u \in Users : user'[u].ctx = user[u].ctx
  BY <1>5
<1> QED BY <1>1, <1>2, <1>6, <1>7, <1>9, <1>10, LookupsLeft

\* There is no answer yet: the call returns, or waits if it is one that blocks.
LEMMA NotYetIs ==
  ASSUME LInv, NEW s \in {"isResolved", "isDohResolved"}, At(s), NotYet, turns' = turns,
         UNCHANGED <<lookup, thread>>
  PROVE  LInv'
<1>1. s \in LastSteps /\ s \in Looks /\ UNCHANGED <<entry, cache>>
  BY DEF LastSteps, NotYet, Looks
<1>2. /\ Me \in Users /\ Aim = s /\ ~call.done /\ call \in CallRec /\ Control
      /\ call.dns \in Entries \cup {Nil} /\ ~At("free") /\ call # Idle
      /\ ~Forgets(call.todo)
  BY <1>1, LastIsQuiet
<1>3. /\ user[Me].host \in Hosts /\ user \in [Users -> UserRec] /\ call.host \in Hosts
      /\ user[Me].doh # "none" \/ Ctx # Nil
      /\ call.mode = "blocking" => s = "isResolved"
  BY <1>1, <1>2 DEF Control, LInv, Types, Looks
<1>4. /\ user' \in [Users -> UserRec] /\ user'[Me].doh = user[Me].doh /\ user'[Me].host = user[Me].host
      /\ user'[Me].ctx = user[Me].ctx /\ (call.mode # "connect" => user' = user)
      /\ (call.mode = "connect" => user'[Me].st = "resolving")
      /\ \A v \in Users : v # Me => user'[v] = user[v]
  <2>1. user[Me] \in UserRec
    BY <1>2, <1>3
  <2>2. [user[Me] EXCEPT !.st = "resolving"] \in UserRec
    BY <2>1 DEF UserRec
  <2>3. CASE call.mode = "connect"
    <3>1. user' = [user EXCEPT ![Me].st = "resolving"]
      BY <2>3 DEF NotYet
    <3> QED BY <3>1, <2>1, <2>2, <2>3, <1>2, <1>3 DEF UserRec
  <2>4. CASE call.mode # "connect"
    BY <2>4, <1>3 DEF NotYet
  <2> QED BY <2>3, <2>4
<1>5. \A u \in Users : user'[u].ctx = user[u].ctx
  BY <1>4
<1>6. CASE call.mode = "blocking" /\ s = "isResolved"
  <2> DEFINE p == <<"joinAlways", "awaited">>
  <2>1. Ordered(p) /\ p[Len(p)] = "awaited" /\ Head(p) = "joinAlways" /\ Holding(call.dns, p)
    BY <1>6, OrderedAwait DEF NotYet, Then
  <2> HIDE DEF p
  <2>2. /\ call' \in CallRec /\ call' # Idle /\ Ordered(call'.todo) /\ ~call'.done
        /\ Me' = Me /\ call'.mode = call.mode /\ call'.host = call.host
        /\ Aim' = "awaited" /\ \A t : At(t)' <=> "joinAlways" = t
    BY <2>1, <1>1, <1>2, NextProgram
  <2>3. Types'
    BY <2>2, <1>1, <1>4 DEF LInv, Types
  <2>4. Ctx # Nil
    BY <1>2, <1>6 DEF Control
  <2>5. Control' /\ Pollable' /\ Probing'
    BY <2>2, <2>4, <1>2, <1>3, <1>4, <1>6 DEF LInv, Control, Pollable, Probing, Looks, Ctx
  <2>6. ~At("free")' /\ ~At("unlink")'
    BY <2>2
  <2> QED BY <2>2, <2>3, <2>5, <2>6, <1>2, <1>5, LookupsLeft
<1>7. CASE call.mode # "blocking"
  <2>1. Holding(call.dns, <<>>)
    BY <1>7 DEF NotYet, Then
  <2>2. call' = Idle
    BY <2>1, <1>1, <1>2, LastOne
  <2>3. Types'
    BY <2>2, <1>1, <1>4, IdleCall DEF LInv, Types
  <2>4. Pollable'
    BY <1>3, <1>4 DEF LInv, Pollable, Ctx
  <2>5. Probing'
    <3>1. user'[Me].st = "resolving"
      BY <1>1, <1>2, <1>4, <1>7 DEF Control
    <3>2. Me' \notin Users
      BY <2>2, BetweenCalls, ResolverAssumption DEF ResolverConstants
    <3>3. ASSUME NEW u \in Users, user'[u].doh # "none"
          PROVE  user'[u].st = "resolving"
      <4>1. CASE u = Me
        BY <4>1, <3>1
      <4>2. CASE u # Me
        BY <4>2, <3>3, <1>4 DEF LInv, Probing
      <4> QED BY <4>1, <4>2
    <3> QED BY <3>2, <3>3 DEF Probing
  <2>6. Control' /\ ~At("free")' /\ ~At("unlink")' /\ ~call'.done
    BY <2>2, IdleControl, BetweenCalls
  <2> QED BY <2>3, <2>4, <2>5, <2>6, <1>2, <1>5, LookupsLeft
<1> QED BY <1>3, <1>6, <1>7

\* What an answer, or none, leaves to the handle.
LEMMA AnsweredIs ==
  ASSUME LInv, Me \in Users, user[Me].host \in Hosts, NEW fam \in SUBSET Families,
         NEW found, NEW missing, NEW nomem, Answered(fam, found, missing, nomem)
  PROVE  /\ entry' \in [Entries -> EntryRec] /\ cache' \in [Hosts -> Entries \cup {Nil}]
         /\ user' \in [Users -> UserRec]
         /\ user'[Me].doh = "none" /\ user'[Me].host = user[Me].host
         /\ user'[Me].ctx = user[Me].ctx /\ user'[Me].st = user[Me].st
         /\ \A v \in Users : v # Me => user'[v] = user[v]
         /\ \/ \E e \in Entries : Holding(e, found)
            \/ Then(missing) \/ Then(nomem)
<1>1. /\ user \in [Users -> UserRec] /\ entry \in [Entries -> EntryRec]
      /\ cache \in [Hosts -> Entries \cup {Nil}] /\ user[Me] \in UserRec
  BY DEF LInv, Types
<1>2. user[Me].dns \in Entries \cup {Nil}
  BY <1>1 DEF UserRec
<1>3. Drop(entry, user[Me].dns) \in [Entries -> EntryRec]
  BY <1>1, <1>2, DropTyped
<1>4. ASSUME NEW e \in Entries \cup {Nil}, user' = [user EXCEPT ![Me].dns = e, ![Me].doh = "none"]
      PROVE  /\ user' \in [Users -> UserRec]
             /\ user'[Me].doh = "none" /\ user'[Me].host = user[Me].host
             /\ user'[Me].ctx = user[Me].ctx /\ user'[Me].st = user[Me].st
             /\ \A v \in Users : v # Me => user'[v] = user[v]
  <2>1. [user[Me] EXCEPT !.dns = e, !.doh = "none"] \in UserRec
    BY <1>1 DEF UserRec
  <2> QED BY <2>1, <1>1, <1>4 DEF UserRec
<1>5. CASE fam # {} /\ \E e \in Calloc(entry) :
             /\ AddToCache(Drop(entry, user[Me].dns), e,
                           [NewEntry(user[Me].host, fam, FALSE) EXCEPT !.refs = 2])
             /\ user' = [user EXCEPT ![Me].dns = e, ![Me].doh = "none"]
             /\ Holding(e, found)
  <2>1. PICK e \in Calloc(entry) :
             /\ AddToCache(Drop(entry, user[Me].dns), e,
                           [NewEntry(user[Me].host, fam, FALSE) EXCEPT !.refs = 2])
             /\ user' = [user EXCEPT ![Me].dns = e, ![Me].doh = "none"]
             /\ Holding(e, found)
    BY <1>5
  <2>2. e \in Entries
    BY <1>1, Callocated
  <2> DEFINE new == [NewEntry(user[Me].host, fam, FALSE) EXCEPT !.refs = 2]
  <2>3. new \in EntryRec /\ new.host \in Hosts
    BY NewTyped
  <2> HIDE DEF new
  <2>4. AddToCache(Drop(entry, user[Me].dns), e, new)
    BY <2>1 DEF new
  <2>5. entry' \in [Entries -> EntryRec] /\ cache' \in [Hosts -> Entries \cup {Nil}]
    BY <2>2, <2>3, <2>4, <1>1, <1>3, AddTyped
  <2> QED BY <2>1, <2>2, <2>5, <1>4
<1>6. CASE /\ fam = {} \/ Calloc(entry) = {}
           /\ entry' = Drop(entry, user[Me].dns)
           /\ user' = [user EXCEPT ![Me].dns = Nil, ![Me].doh = "none"]
           /\ Then(IF fam = {} THEN missing ELSE nomem)
           /\ UNCHANGED cache
  <2>1. Then(missing) \/ Then(nomem)
    BY <1>6
  <2> QED BY <2>1, <1>1, <1>3, <1>4, <1>6
<1> QED BY <1>5, <1>6 DEF Answered

\* The call goes on with what it found, or with the failure.
LEMMA AnsweredKeeps ==
  ASSUME LInv, NEW s \in {"isResolved", "isDohResolved", "awaited"}, At(s),
         NEW fam \in SUBSET Families,
         NEW found, NEW missing, NEW nomem, Answered(fam, found, missing, nomem),
         Ordered(found), found[Len(found)] = "deliver", Head(found) \in {"mark", "deliver"},
         \A p \in {missing, nomem} :
           Ordered(p) /\ p[Len(p)] = "lost" /\ Head(p) \in {"mark", "negative", "lost"},
         thread' = thread, turns' = turns, lookup' \in [Lookups -> LookupRec],
         \A c \in Lookups :
           /\ lookup'[c].refs = lookup[c].refs /\ lookup'[c].st = lookup[c].st
           /\ lookup'[c].done = lookup[c].done /\ lookup'[c].want = lookup[c].want
           /\ lookup'[c].res \in {lookup[c].res, {}} /\ lookup'[c].handle = lookup[c].handle
  PROVE  LInv'
<1>1. s \in LastSteps /\ s \in Looks
  BY DEF LastSteps, Looks
<1>2. /\ Me \in Users /\ Aim = s /\ ~call.done /\ call \in CallRec /\ Control
      /\ call.dns \in Entries \cup {Nil} /\ ~At("free") /\ call # Idle
  BY <1>1, LastIsQuiet
<1>3. user[Me].host \in Hosts /\ call.host \in Hosts
  BY <1>1, <1>2 DEF Control, Looks
<1>4. /\ entry' \in [Entries -> EntryRec] /\ cache' \in [Hosts -> Entries \cup {Nil}]
      /\ user' \in [Users -> UserRec]
      /\ user'[Me].doh = "none" /\ user'[Me].host = user[Me].host
      /\ user'[Me].ctx = user[Me].ctx /\ user'[Me].st = user[Me].st
      /\ \A v \in Users : v # Me => user'[v] = user[v]
      /\ \/ \E e \in Entries : Holding(e, found)
         \/ Then(missing) \/ Then(nomem)
  BY <1>2, <1>3, AnsweredIs
<1>5. PICK p \in {found, missing, nomem}, e \in Entries \cup {Nil} : Holding(e, p)
  BY <1>2, <1>4 DEF Then
<1>6. /\ Ordered(p) /\ p[Len(p)] \in {"deliver", "lost"}
      /\ Head(p) \in {"mark", "negative", "deliver", "lost"}
  BY <1>5
<1>7. /\ call' \in CallRec /\ call' # Idle /\ Ordered(call'.todo) /\ ~call'.done
      /\ Me' = Me /\ call'.mode = call.mode /\ call'.host = call.host
      /\ Aim' = p[Len(p)] /\ \A t : At(t)' <=> Head(p) = t
  BY <1>1, <1>2, <1>5, <1>6, NextProgram
<1>8. Types'
  BY <1>4, <1>7 DEF LInv, Types
<1>9. Control' /\ Pollable' /\ Probing'
  BY <1>2, <1>3, <1>4, <1>6, <1>7 DEF LInv, Control, Pollable, Probing, Looks
<1>10. ~At("free")' /\ ~At("unlink")' /\ ~call'.done /\ \A u \in Users : user'[u].ctx = user[u].ctx
  BY <1>4, <1>6, <1>7
<1> QED BY <1>2, <1>8, <1>9, <1>10, LookupsLeft

\* An answer is taken out of the context.
LEMMA ResultTaken ==
  ASSUME lookup \in [Lookups -> LookupRec], lookup' = [lookup EXCEPT ![Ctx].res = {}]
  PROVE  /\ lookup' \in [Lookups -> LookupRec]
         /\ \A c \in Lookups :
              /\ lookup'[c].refs = lookup[c].refs /\ lookup'[c].st = lookup[c].st
              /\ lookup'[c].done = lookup[c].done /\ lookup'[c].want = lookup[c].want
              /\ lookup'[c].res \in {lookup[c].res, {}} /\ lookup'[c].handle = lookup[c].handle
BY ZenonT(30) DEF LookupRec

\* The context a call looks into.
LEMMA ContextThere ==
  ASSUME LInv, NEW s \in {"isResolved", "awaited"}, At(s)
  PROVE  Ctx \in Lookups /\ lookup[Ctx].res \in SUBSET Families
<1>1. s \in LastSteps
  BY DEF LastSteps
<1>2. Me \in Users /\ Aim = s /\ Control
  BY <1>1, LastIsQuiet
<1>3. Ctx # Nil
  BY <1>2 DEF Control
<1>4. Ctx \in Lookups
  BY <1>2, <1>3, MyContext
<1> QED BY <1>4 DEF LInv, Types, LookupRec

\* Curl_async_is_resolved finds the thread at its end, or not yet.
LEMMA IsResolvedStep ==
  ASSUME LInv, IsResolved, turns' = turns
  PROVE  LInv'
<1>1. At("isResolved") /\ thread' = thread
  BY DEF IsResolved
<1>2. CASE lookup[Ctx].done
  <2> DEFINE found == ShutdownThread \o <<"deliver">>
  <2> DEFINE missing == ShutdownThread \o AfterFailure(TRUE)
  <2> DEFINE nomem == ShutdownThread \o AfterFailure(FALSE)
  <2>1. /\ Answered(lookup[Ctx].res, found, missing, nomem)
        /\ lookup' = [lookup EXCEPT ![Ctx].res = {}]
    BY <1>2 DEF IsResolved
  <2>2. Ordered(found) /\ found[Len(found)] = "deliver" /\ Head(found) = "mark"
    BY OrderedAnswer
  <2>3. Ordered(missing) /\ missing[Len(missing)] = "lost" /\ Head(missing) = "mark"
    BY OrderedAnswer
  <2>4. Ordered(nomem) /\ nomem[Len(nomem)] = "lost" /\ Head(nomem) = "mark"
    BY OrderedAnswer
  <2> HIDE DEF found, missing, nomem
  <2>5. PICK fam \in SUBSET Families : fam = lookup[Ctx].res
    BY <1>1, ContextThere
  <2>6. /\ lookup' \in [Lookups -> LookupRec]
        /\ \A c \in Lookups :
              /\ lookup'[c].refs = lookup[c].refs /\ lookup'[c].st = lookup[c].st
              /\ lookup'[c].done = lookup[c].done /\ lookup'[c].want = lookup[c].want
              /\ lookup'[c].res \in {lookup[c].res, {}} /\ lookup'[c].handle = lookup[c].handle
    BY <2>1, ResultTaken DEF LInv, Types
  <2>7. Answered(fam, found, missing, nomem)
    BY <2>1, <2>5
  <2> QED BY <1>1, <2>2, <2>3, <2>4, <2>6, <2>7, AnsweredKeeps
<1>3. CASE ~lookup[Ctx].done
  BY <1>1, <1>3, NotYetIs DEF IsResolved
<1> QED BY <1>2, <1>3

\* The same after the wait of a blocking resolve.
LEMMA AwaitedStep ==
  ASSUME LInv, Awaited, turns' = turns
  PROVE  LInv'
<1> DEFINE found == ShutdownThread \o <<"deliver">>
<1> DEFINE missing == ShutdownThread \o <<"lost">>
<1>1. At("awaited") /\ thread' = thread
  BY DEF Awaited
<1>2. /\ Answered(lookup[Ctx].res, found, missing, missing)
      /\ lookup' = [lookup EXCEPT ![Ctx].res = {}]
  BY DEF Awaited
<1>3. Ordered(found) /\ found[Len(found)] = "deliver" /\ Head(found) = "mark"
  BY OrderedAnswer
<1>4. Ordered(missing) /\ missing[Len(missing)] = "lost" /\ Head(missing) = "mark"
  BY OrderedAnswer
<1> HIDE DEF found, missing
<1>5. PICK fam \in SUBSET Families : fam = lookup[Ctx].res
  BY <1>1, ContextThere
<1>6. /\ lookup' \in [Lookups -> LookupRec]
      /\ \A c \in Lookups :
            /\ lookup'[c].refs = lookup[c].refs /\ lookup'[c].st = lookup[c].st
            /\ lookup'[c].done = lookup[c].done /\ lookup'[c].want = lookup[c].want
            /\ lookup'[c].res \in {lookup[c].res, {}} /\ lookup'[c].handle = lookup[c].handle
  BY <1>2, ResultTaken DEF LInv, Types
<1>7. PICK nomem : nomem = missing
  OBVIOUS
<1>8. Answered(fam, found, missing, nomem)
  BY <1>2, <1>5, <1>7
<1>9. Ordered(nomem) /\ nomem[Len(nomem)] = "lost" /\ Head(nomem) = "mark"
  BY <1>4, <1>7
<1> QED BY <1>1, <1>3, <1>4, <1>6, <1>8, <1>9, AnsweredKeeps

\* Curl_doh_is_resolved.
LEMMA IsDohResolvedStep ==
  ASSUME LInv, IsDohResolved, turns' = turns
  PROVE  LInv'
<1>1. At("isDohResolved") /\ UNCHANGED <<lookup, thread>>
  BY DEF IsDohResolved
<1>2. Me \in Users
  BY <1>1, LastIsQuiet DEF LastSteps
<1>3. CASE user[Me].doh = "answered"
  <2> DEFINE found == <<"deliver">>
  <2> DEFINE missing == AfterFailure(TRUE)
  <2> DEFINE nomem == AfterFailure(FALSE)
  <2>1. PICK fam \in DohAnswersFor(WantOf[Me]) : Answered(fam, found, missing, nomem)
    BY <1>3 DEF IsDohResolved
  <2>2. Ordered(found) /\ found[Len(found)] = "deliver" /\ Head(found) = "deliver"
    BY OrderedOne DEF LastSteps
  <2>3. Ordered(missing) /\ missing[Len(missing)] = "lost" /\ Head(missing) \in {"mark", "negative", "lost"}
    BY OrderedFailure
  <2>4. Ordered(nomem) /\ nomem[Len(nomem)] = "lost" /\ Head(nomem) \in {"mark", "negative", "lost"}
    BY OrderedFailure
  <2> HIDE DEF found, missing, nomem
  <2>5. fam \in SUBSET Families
    <3>1. WantOf[Me] \in Families \cup {"any"} /\ Answers \subseteq SUBSET Families
      BY <1>2, ResolverAssumption DEF ResolverConstants
    <3> QED BY <3>1 DEF DohAnswersFor, Families
  <2>6. /\ lookup' \in [Lookups -> LookupRec]
        /\ \A c \in Lookups : lookup'[c] = lookup[c]
    BY <1>1 DEF LInv, Types
  <2> QED BY <1>1, <2>1, <2>2, <2>3, <2>4, <2>5, <2>6, AnsweredKeeps
<1>4. CASE user[Me].doh # "answered"
  BY <1>1, <1>4, NotYetIs DEF IsDohResolved
<1> QED BY <1>3, <1>4

-----------------------------------------------------------------------------
(* The other steps of calls. *)

\* store_negative_resolve puts an entry without addresses into the cache.
LEMMA NegativeStep ==
  ASSUME LInv, Negative, turns' = turns
  PROVE  LInv'
<1>1. At("negative") /\ UNCHANGED <<lookup, thread, user>> /\ Then(<<>>)
  BY DEF Negative
<1>2. /\ call \in CallRec /\ Control /\ entry \in [Entries -> EntryRec]
      /\ cache \in [Hosts -> Entries \cup {Nil}]
  BY DEF LInv, Types
<1>3. Me \in Users /\ call # Idle /\ <<>> \o Tail(call.todo) = Tail(call.todo)
  BY <1>1, <1>2, AtStep DEF LastSteps
<1>4. /\ Continue(Tail(call.todo), call.done, call.dns) /\ call.done \in BOOLEAN
      /\ "negative" \in Joins \cup {"mark", "joinAlways", "negative"}
  BY <1>1, <1>2, <1>3 DEF Then, Holding, CallRec
<1>5. ~call.done
  <2>1. ~At("join") /\ ~At("joinForget") /\ ~At("joinOrDetach")
    BY <1>1 DEF At
  <2> QED BY <2>1 DEF LInv, DoneSeen
<1>6. /\ call' \in CallRec /\ ~call'.done /\ Me' = Me /\ Aim \notin Looks
      /\ ~At("free") /\ ~At("free")' /\ ~At("unlink")'
  BY <1>1, <1>4, <1>5, Onward
<1>7. Control' /\ Pollable' /\ Probing'
  BY <1>1, <1>3, <1>4, OnwardKeeps
<1>8. call.host \in Hosts
  <2>1. Aim = "lost"
    <3> DEFINE p == call.todo
    <3>1. Ordered(p) /\ p # <<>> /\ Head(p) = "negative" /\ Aim = p[Len(p)]
      BY <1>1, <1>2, <1>3 DEF Control, At, Aim
    <3> HIDE DEF p
    <3>2. Len(p) \in Nat /\ Len(p) >= 1 /\ Head(p) = p[1]
      BY <3>1, OrderedHead
    <3>3. 1 \in 1 .. Len(p)
      BY <3>2
    <3> QED BY <3>1, <3>2, <3>3 DEF Ordered
  <2> QED BY <2>1, <1>2 DEF Control
<1>9. entry' \in [Entries -> EntryRec] /\ cache' \in [Hosts -> Entries \cup {Nil}]
  <2>1. CASE \E e \in Calloc(entry) : AddToCache(entry, e, NewEntry(call.host, {}, FALSE))
    <3>1. PICK e \in Calloc(entry) : AddToCache(entry, e, NewEntry(call.host, {}, FALSE))
      BY <2>1
    <3>2. e \in Entries
      BY <1>2, Callocated
    <3> DEFINE new == NewEntry(call.host, {}, FALSE)
    <3>3. new \in EntryRec /\ new.host \in Hosts
      BY <1>8, NewTyped
    <3> HIDE DEF new
    <3> QED BY <3>1, <3>2, <3>3, <1>2, AddTyped DEF new
  <2>2. CASE UNCHANGED <<entry, cache>>
    BY <2>2, <1>2
  <2> QED BY <2>1, <2>2 DEF Negative
<1>10. Types'
  BY <1>1, <1>6, <1>9 DEF LInv, Types
<1> QED BY <1>1, <1>6, <1>7, <1>10, LookupsLeft

\* A call that returns and leaves its handle with no resolve under way.
LEMMA CallOver ==
  ASSUME LInv, NEW s \in {"deliver", "lost", "release", "keep"}, At(s),
         NEW e, Holding(e, <<>>), UNCHANGED <<lookup, thread, turns>>,
         entry' \in [Entries -> EntryRec], cache' \in [Hosts -> Entries \cup {Nil}],
         user' \in [Users -> UserRec], \A v \in Users : v # Me => user'[v] = user[v],
         user'[Me].ctx = user[Me].ctx, user'[Me].st # "resolving",
         user'[Me].doh \in {user[Me].doh, "none"}
  PROVE  LInv'
<1>1. s \in LastSteps /\ s \notin Looks
  BY DEF LastSteps, Looks
<1>2. /\ Me \in Users /\ Aim = s /\ ~call.done /\ ~At("free") /\ Control /\ ~Forgets(call.todo)
  BY <1>1, LastIsQuiet
<1>3. call' = Idle
  BY <1>1, <1>2, LastOne
<1>4. Types'
  BY <1>3, IdleCall DEF LInv, Types
<1>5. Control' /\ ~At("free")' /\ ~At("unlink")' /\ ~call'.done /\ Me' = Nil
  BY <1>3, IdleControl, BetweenCalls
<1>6. Pollable'
  BY DEF LInv, Pollable
<1>7. user[Me].doh = "none"
  BY <1>1, <1>2 DEF LInv, Probing, Looks
<1>8. Probing'
  <2>1. Nil \notin Users
    BY ResolverAssumption DEF ResolverConstants
  <2>2. ASSUME NEW u \in Users, user'[u].doh # "none"
        PROVE  user'[u].st = "resolving"
    <3>1. u # Me
      BY <2>2, <1>7
    <3> QED BY <3>1, <2>2 DEF LInv, Probing
  <2> QED BY <2>1, <2>2, <1>5 DEF Probing
<1>9. \A u \in Users : user'[u].ctx = user[u].ctx
  OBVIOUS
<1> QED BY <1>2, <1>4, <1>5, <1>6, <1>8, <1>9, LookupsLeft

\* A call that gives the lookup up, or leaves everything to a later one, changes
\* no lookup (Curl_once_resolved, multi_done of a connection in use).
LEMMA LostStep ==
  ASSUME LInv, Lost \/ KeepAll, turns' = turns
  PROVE  LInv'
<1>1. PICK s \in {"lost", "keep"} : At(s)
  BY DEF Lost, KeepAll
<1>2. Me \in Users /\ user[Me] \in UserRec /\ user \in [Users -> UserRec]
  BY <1>1, LastIsQuiet DEF LastSteps, LInv, Types
<1>3. PICK st \in {"idle", "ending"} : user' = [user EXCEPT ![Me].st = st]
  BY DEF Lost, KeepAll
<1>4. [user[Me] EXCEPT !.st = st] \in UserRec
  BY <1>2 DEF UserRec
<1>5. /\ user' \in [Users -> UserRec] /\ \A v \in Users : v # Me => user'[v] = user[v]
      /\ user'[Me].ctx = user[Me].ctx /\ user'[Me].st # "resolving"
      /\ user'[Me].doh = user[Me].doh
  BY <1>2, <1>3, <1>4 DEF UserRec
<1>6. Holding(call.dns, <<>>) /\ UNCHANGED <<lookup, thread, entry, cache>>
  BY DEF Lost, KeepAll, Then
<1>7. entry' \in [Entries -> EntryRec] /\ cache' \in [Hosts -> Entries \cup {Nil}]
  BY <1>6 DEF LInv, Types
<1> QED BY <1>1, <1>5, <1>6, <1>7, CallOver

\* The answer goes where the connection keeps it.
LEMMA DeliverStep ==
  ASSUME LInv, Deliver, turns' = turns
  PROVE  LInv'
<1>1. At("deliver") /\ "deliver" \in LastSteps /\ UNCHANGED <<lookup, thread, cache>> /\ Holding(Nil, <<>>)
  BY DEF Deliver, LastSteps
<1>2. /\ Me \in Users /\ user[Me] \in UserRec /\ user \in [Users -> UserRec] /\ call.dns \in Entries \cup {Nil}
      /\ entry \in [Entries -> EntryRec] /\ cache' \in [Hosts -> Entries \cup {Nil}] /\ Control
      /\ call # Idle
  BY <1>1, LastIsQuiet DEF LInv, Types
<1> DEFINE i == IF call.mode = "blocking" THEN 2 ELSE 1
<1> DEFINE settled == [user EXCEPT ![Me].dns = IF call.mode = "poll" THEN Nil ELSE @]
<1> DEFINE slot == user[Me].slot[i]
<1>3. i \in {1, 2} /\ slot \in Entries \cup {Nil}
  BY <1>2 DEF UserRec, Slots
<1>4. /\ settled \in [Users -> UserRec] /\ \A v \in Users : v # Me => settled[v] = user[v]
      /\ settled[Me].ctx = user[Me].ctx /\ settled[Me].doh = user[Me].doh
      /\ settled[Me].slot = user[Me].slot
  <2>1. [user[Me] EXCEPT !.dns = IF call.mode = "poll" THEN Nil ELSE @] \in UserRec
    BY <1>2 DEF UserRec
  <2> QED BY <2>1, <1>2 DEF UserRec
<1> HIDE DEF i, settled
<1>5. ASSUME NEW e \in Entries \cup {Nil}, NEW st \in {"resolved", "ending", "idle"},
             user' = [settled EXCEPT ![Me].slot[i] = e, ![Me].st = st]
      PROVE  /\ user' \in [Users -> UserRec] /\ \A v \in Users : v # Me => user'[v] = user[v]
             /\ user'[Me].ctx = user[Me].ctx /\ user'[Me].st # "resolving"
             /\ user'[Me].doh = user[Me].doh
  <2>1. settled[Me] \in UserRec
    BY <1>2, <1>4
  <2>2. [settled[Me].slot EXCEPT ![i] = e] \in Slots
    BY <2>1, <1>3 DEF UserRec, Slots
  <2> DEFINE new == [settled[Me] EXCEPT !.slot = [settled[Me].slot EXCEPT ![i] = e], !.st = st]
  <2>3. new \in UserRec /\ new.ctx = settled[Me].ctx /\ new.st = st /\ new.doh = settled[Me].doh
    BY <2>1, <2>2 DEF UserRec
  <2>4. user' = [settled EXCEPT ![Me] = new]
    BY <1>5
  <2> HIDE DEF new
  <2> QED BY <2>3, <2>4, <1>2, <1>4
<1>6. /\ Drop(entry, slot) \in [Entries -> EntryRec]
      /\ Drop(entry, call.dns) \in [Entries -> EntryRec]
      /\ Drop(Drop(entry, slot), call.dns) \in [Entries -> EntryRec]
  BY <1>2, <1>3, DropTyped
<1>7. \/ /\ entry' = Drop(entry, slot)
         /\ user' = [settled EXCEPT ![Me].slot[i] = call.dns, ![Me].st = "resolved"]
      \/ /\ entry' = Drop(Drop(entry, slot), call.dns)
         /\ user' = [settled EXCEPT ![Me].slot[i] = Nil,
                         ![Me].st = IF call.mode = "blocking" THEN "ending" ELSE "idle"]
      \/ /\ call.mode = "blocking"
         /\ entry' = Drop(entry, call.dns)
         /\ UNCHANGED user
  BY DEF Deliver, i, settled
<1>8. /\ user' \in [Users -> UserRec] /\ \A v \in Users : v # Me => user'[v] = user[v]
      /\ user'[Me].ctx = user[Me].ctx /\ user'[Me].st # "resolving"
      /\ user'[Me].doh = user[Me].doh
  <2>1. CASE user' = [settled EXCEPT ![Me].slot[i] = call.dns, ![Me].st = "resolved"]
    BY <2>1, <1>2, <1>5
  <2>2. CASE user' = [settled EXCEPT ![Me].slot[i] = Nil,
                         ![Me].st = IF call.mode = "blocking" THEN "ending" ELSE "idle"]
    <3>1. PICK st \in {"resolved", "ending", "idle"} :
             st = IF call.mode = "blocking" THEN "ending" ELSE "idle"
      OBVIOUS
    <3>2. user' = [settled EXCEPT ![Me].slot[i] = Nil, ![Me].st = st]
      BY <2>2, <3>1
    <3>3. Nil \in Entries \cup {Nil}
      OBVIOUS
    <3> QED BY <3>2, <3>3, <1>5
  <2>3. CASE call.mode = "blocking" /\ UNCHANGED user
    <3>1. user[Me].st = "resolved"
      BY <2>3, <1>2 DEF Control
    <3> QED BY <3>1, <2>3, <1>2
  <2> QED BY <2>1, <2>2, <2>3, <1>7
<1>9. entry' \in [Entries -> EntryRec]
  BY <1>6, <1>7
<1> QED BY <1>1, <1>2, <1>8, <1>9, CallOver

\* Both references of a transfer are given up.
LEMMA ReleaseStep ==
  ASSUME LInv, Release, turns' = turns
  PROVE  LInv'
<1> DEFINE pruned == IF call.mode = "done" THEN StaleHosts ELSE {}
<1>1. /\ At("release") /\ "release" \in LastSteps /\ UNCHANGED <<lookup, thread>>
      /\ Holding(call.dns, <<>>)
      /\ cache' = [h \in Hosts |-> IF h \in pruned THEN Nil ELSE cache[h]]
      /\ entry' = [e \in Entries |->
              IF \E h \in pruned : cache[h] = e THEN Drop(Released, e)[e] ELSE Released[e]]
      /\ user' = [Forgotten EXCEPT ![Me].slot = <<Nil, Nil>>,
                               ![Me].st = IF call.mode = "close" THEN "closed" ELSE "idle"]
  BY DEF Release, LastSteps, Then
<1>2. /\ Me \in Users /\ user[Me] \in UserRec /\ user \in [Users -> UserRec]
      /\ entry \in [Entries -> EntryRec] /\ cache \in [Hosts -> Entries \cup {Nil}]
  BY <1>1, LastIsQuiet DEF LInv, Types
<1> HIDE DEF pruned
<1>3. Released \in [Entries -> EntryRec]
  <2>1. user[Me].slot[1] \in Entries \cup {Nil} /\ user[Me].slot[2] \in Entries \cup {Nil}
    BY <1>2 DEF UserRec, Slots
  <2>2. Drop(entry, user[Me].slot[1]) \in [Entries -> EntryRec]
    BY <2>1, <1>2, DropTyped
  <2> QED BY <2>1, <2>2, DropTyped DEF Released
<1>4. entry' \in [Entries -> EntryRec]
  <2>1. \A e \in Entries : Drop(Released, e) \in [Entries -> EntryRec]
    BY <1>3, DropTyped
  <2>2. \A e \in Entries : Drop(Released, e)[e] \in EntryRec /\ Released[e] \in EntryRec
    BY <2>1, <1>3
  <2> QED BY <2>2, <1>1
<1>5. cache' \in [Hosts -> Entries \cup {Nil}]
  BY <1>1, <1>2
<1>6. /\ user' \in [Users -> UserRec] /\ \A v \in Users : v # Me => user'[v] = user[v]
      /\ user'[Me].ctx = user[Me].ctx /\ user'[Me].st # "resolving"
      /\ user'[Me].doh = "none"
  <2>1. /\ Forgotten \in [Users -> UserRec] /\ Forgotten[Me] \in UserRec
        /\ \A u \in Users : u # Me => Forgotten[u] = user[u]
        /\ Forgotten[Me].ctx = user[Me].ctx /\ Forgotten[Me].doh = "none"
    BY <1>2, ForgottenIs
  <2>2. PICK st \in {"closed", "idle"} : user' = [Forgotten EXCEPT ![Me].slot = <<Nil, Nil>>, ![Me].st = st]
    BY <1>1
  <2>3. <<Nil, Nil>> \in Slots
    BY DEF Slots
  <2>4. [Forgotten[Me] EXCEPT !.slot = <<Nil, Nil>>, !.st = st] \in UserRec
    BY <2>1, <2>3 DEF UserRec
  <2> QED BY <2>1, <2>2, <2>4, <1>2 DEF UserRec
<1> QED BY <1>1, <1>4, <1>5, <1>6, CallOver

-----------------------------------------------------------------------------
(* The calls. *)

\* What a call needs to find to start.
LEMMA CallStarts ==
  ASSUME LInv, NEW u \in Users, NEW m \in Modes, NEW h \in Hosts \cup {Nil},
         NEW p, Ordered(p), NEW e \in Entries \cup {Nil}, Enter(u, m, h, p, e),
         UNCHANGED <<lookup, thread, user>>, turns' \in Nat,
         entry' \in [Entries -> EntryRec], cache' \in [Hosts -> Entries \cup {Nil}],
         Head(p) \notin {"free", "unlink", "isDohResolved"},
         p[Len(p)] \notin {"isResolved", "isDohResolved", "awaited"},
         p[Len(p)] \notin {"keep", "release"} => h \in Hosts,
         Head(p) = "create" => user[u].ctx = Nil,
         p[Len(p)] = "check" \/ Head(p) = "check" => user[u].st = "resolving" /\ p[Len(p)] = "check",
         p[Len(p)] \in {"create", "doh"} => m \in {"connect", "blocking"},
         p[Len(p)] = "doh" => m = "connect",
         m = "blocking" => u \in BlockingUsers /\ user[u].st = "resolved",
         user[u].st = "resolving" => p[Len(p)] = "check" \/ Forgets(p)
  PROVE  LInv'
<1>1. /\ call = Idle /\ call' \in CallRec /\ call' # Idle
      /\ call'.todo = p /\ ~call'.done
      /\ Me' = u /\ call'.mode = m /\ call'.host = h
      /\ Aim' = p[Len(p)] /\ \A s : At(s)' <=> Head(p) = s
  BY Entered
<1>2. Me = Nil /\ (\A s : ~At(s)) /\ Nil \notin Users
  BY <1>1, BetweenCalls, ResolverAssumption DEF ResolverConstants
<1>3. Types'
  BY <1>1 DEF LInv, Types
<1>4. /\ user[u].st = "resolving" => user[u].host \in Hosts /\ (user[u].doh # "none" \/ user[u].ctx # Nil)
      /\ user[u].st # "resolving" => user[u].doh = "none"
  BY <1>2 DEF LInv, Pollable, Probing
<1>5. user'[u] = user[u] /\ Ctx' = user[u].ctx
  BY <1>1 DEF Ctx
<1>6. Control'
  <2>1. (Aim \notin {"none", "keep", "release"} => call.host \in Hosts)'
    BY <1>1
  <2>2. (Aim \in Looks => user[Me].host \in Hosts)'
    BY <1>1, <1>4, <1>5 DEF Looks
  <2>3. /\ (At("create") => Ctx = Nil)'
        /\ (At("check") => user[Me].doh # "none" \/ Ctx # Nil)'
        /\ (At("isDohResolved") => user[Me].doh # "none")'
        /\ (Aim \in {"isResolved", "awaited"} => Ctx # Nil)'
        /\ (At("free") => Ctx # Nil)'
    BY <1>1, <1>4, <1>5
  <2>4. (call.mode = "blocking" => /\ Me \in BlockingUsers /\ user[Me].st = "resolved"
                                   /\ user[Me].doh = "none")'
    BY <1>1, <1>4, <1>5
  <2>5. /\ (Aim \in {"create", "doh"} => call.mode \in {"connect", "blocking"})'
        /\ (Aim = "doh" => call.mode = "connect")'
        /\ (Aim \in Looks => call.mode \in {"connect", "blocking"} \/ user[Me].st = "resolving")'
    BY <1>1, <1>5 DEF Looks
  <2> QED BY <2>1, <2>2, <2>3, <2>4, <2>5, <1>1 DEF Control
<1>7. Pollable'
  BY <1>2 DEF LInv, Pollable
<1>8. Probing'
  BY <1>1, <1>2, <1>4 DEF LInv, Probing
<1>9. \A x \in Users : user'[x].ctx = user[x].ctx
  OBVIOUS
<1>10. ~At("free") /\ ~At("free")' /\ ~At("unlink")'
  BY <1>1, <1>2
<1> QED BY <1>1, <1>3, <1>6, <1>7, <1>8, <1>9, <1>10, LookupsLeft

\* The programs of the calls.
LEMMA OrderedCalls ==
  /\ \A a \in LastSteps : Ordered(<<a>>) /\ <<a>>[Len(<<a>>)] = a /\ Head(<<a>>) = a
  /\ LET p == Destroy \o <<"create">>
     IN  Ordered(p) /\ p[Len(p)] = "create" /\ Head(p) = "mark"
  /\ \A a \in {"keep", "release"} :
       LET p == Shutdown \o <<a>>
       IN  Ordered(p) /\ p[Len(p)] = a /\ Head(p) = "mark" /\ Forgets(p)
  /\ LET p == Destroy \o <<"release">>
     IN  Ordered(p) /\ p[Len(p)] = "release" /\ Head(p) = "mark"
<1>1. \A a \in LastSteps : Ordered(<<a>>) /\ <<a>>[Len(<<a>>)] = a /\ Head(<<a>>) = a
  BY OrderedOne
<1>2. ASSUME NEW a \in {"create", "release"}
      PROVE  LET p == Destroy \o <<a>>
             IN  Ordered(p) /\ p[Len(p)] = a /\ Head(p) = "mark"
  <2> DEFINE t == <<a>>
  <2>1. Ordered(t) /\ t[Len(t)] = a /\ Head(t) = a
    BY <1>1 DEF LastSteps
  <2> HIDE DEF t
  <2>2. Ordered(Destroy \o t) /\ (Destroy \o t)[Len(Destroy \o t)] = a /\ Head(Destroy \o t) = "mark"
    BY <2>1, OrderedDestroy
  <2> QED BY <2>2 DEF t
<1>3. ASSUME NEW a \in {"keep", "release"}
      PROVE  LET p == Shutdown \o <<a>>
             IN  Ordered(p) /\ p[Len(p)] = a /\ Head(p) = "mark" /\ Forgets(p)
  <2> DEFINE t == <<a>>
  <2>1. Ordered(t) /\ t[Len(t)] = a /\ Head(t) = a /\ t \in Seq(Steps)
    BY <1>1, OrderedHead DEF LastSteps
  <2> HIDE DEF t
  <2>2. Ordered(Shutdown \o t) /\ (Shutdown \o t)[Len(Shutdown \o t)] = a /\ Head(Shutdown \o t) = "mark"
    BY <2>1, OrderedBefore
  <2>3. Forgets(Shutdown \o t)
    BY <2>1, ShutdownForgets
  <2> QED BY <2>2, <2>3 DEF t
<1> QED BY <1>1, <1>2, <1>3

\* Closing a handle waits for its thread first.
LEMMA OrderedClose ==
  LET p == ShutdownThread \o <<"joinAlways">> \o Destroy \o <<"release">>
  IN  Ordered(p) /\ p[Len(p)] = "release" /\ Head(p) = "mark"
<1> DEFINE t == Destroy \o <<"release">>
<1> DEFINE s == <<"joinAlways">>
<1>1. Ordered(t) /\ t[Len(t)] = "release" /\ Head(t) = "mark" /\ t \in Seq(Steps)
  BY OrderedCalls, OrderedHead
<1>2. /\ s \in Seq(Steps) /\ s # <<>> /\ Len(s) = 1 /\ s[1] = "joinAlways" /\ Head(s) = "joinAlways"
  BY DEF Steps
<1>3. ShutdownThread \o <<"joinAlways">> \o Destroy \o <<"release">> = ShutdownThread \o (s \o t)
  <2>1. /\ Destroy \in Seq(Steps) /\ ShutdownThread \in Seq(Steps) /\ <<"release">> \in Seq(Steps)
    BY DEF Destroy, ShutdownThread, Steps, Joins, LastSteps
  <2> DEFINE r == <<"release">>
  <2>2. s \in Seq(Steps) /\ r \in Seq(Steps)
    BY <1>2, <2>1
  <2> HIDE DEF s, r
  <2>3. ((ShutdownThread \o s) \o Destroy) \o r = (ShutdownThread \o s) \o (Destroy \o r)
    <3> DEFINE both == ShutdownThread \o s
    <3>1. both \in Seq(Steps)
      BY <2>1, <2>2, ConcatProperties
    <3> HIDE DEF both
    <3>2. (both \o Destroy) \o r = both \o (Destroy \o r)
      BY <3>1, <2>1, <2>2, ConcatAssociative, SMTT(20)
    <3> QED BY <3>2 DEF both
  <2>4. (ShutdownThread \o s) \o (Destroy \o r) = ShutdownThread \o (s \o (Destroy \o r))
    <3> DEFINE last == Destroy \o r
    <3>1. last \in Seq(Steps)
      BY <2>1, <2>2, ConcatProperties
    <3> HIDE DEF last
    <3>2. (ShutdownThread \o s) \o last = ShutdownThread \o (s \o last)
      BY <3>1, <2>1, <2>2, ConcatAssociative, SMTT(20)
    <3> QED BY <3>2 DEF last
  <2> QED BY <2>3, <2>4 DEF s, r
<1> HIDE DEF s, t
<1>4. Follows(s[Len(s)], Head(t))
  BY <1>1, <1>2 DEF Follows, LastSteps, Joins
<1>5. Ordered(s \o t) /\ (s \o t)[Len(s \o t)] = "release" /\ Head(s \o t) = "joinAlways"
  BY <1>1, <1>2, <1>4, OrderedCat
<1>6. PICK q : q = s \o t
  OBVIOUS
<1>7. /\ Ordered(ShutdownThread \o q) /\ (ShutdownThread \o q)[Len(ShutdownThread \o q)] = "release"
      /\ Head(ShutdownThread \o q) = "mark"
  BY <1>5, <1>6, OrderedBefore
<1> QED BY <1>3, <1>6, <1>7

\* Curl_resolv, for a connect or for a data connection.
LEMMA ResolvCalls ==
  ASSUME LInv, NEW u \in Users, NEW h \in Hosts, NEW m \in {"connect", "blocking"},
         Resolv(u, h, m), user[u].st # "resolving",
         m = "blocking" => u \in BlockingUsers /\ user[u].st = "resolved"
  PROVE  LInv'
<1> DEFINE e == Fetched(h, WantOf[u])
<1>1. /\ UNCHANGED <<lookup, thread, user>> /\ turns' = turns + 1
      /\ IF e = Nil \/ entry[e].fam = {}
         THEN /\ entry' = Zapped(h, WantOf[u])
              /\ cache' = [cache EXCEPT ![h] = e]
              /\ Enter(u, m, h,
                   IF e # Nil THEN <<"lost">>
                   ELSE IF u \in DohUsers /\ m = "connect" THEN <<"doh">>
                   ELSE (IF user[u].ctx = Nil THEN <<>> ELSE Destroy) \o <<"create">>, Nil)
         ELSE Fetch(h, WantOf[u]) /\ Enter(u, m, h, <<"deliver">>, e)
  BY DEF Resolv, Turn
<1>2. /\ entry \in [Entries -> EntryRec] /\ cache \in [Hosts -> Entries \cup {Nil}] /\ turns \in Nat
  BY DEF LInv, Types
<1>3. /\ e \in Entries \cup {Nil} /\ Zapped(h, WantOf[u]) \in [Entries -> EntryRec]
      /\ Fetch(h, WantOf[u]) => /\ entry' \in [Entries -> EntryRec]
                                /\ cache' \in [Hosts -> Entries \cup {Nil}]
  BY <1>2, FetchTyped
<1> HIDE DEF e
<1>4. /\ entry' \in [Entries -> EntryRec] /\ cache' \in [Hosts -> Entries \cup {Nil}] /\ turns' \in Nat
  BY <1>1, <1>2, <1>3
<1> DEFINE Starts(p, d) ==
        /\ Enter(u, m, h, p, d) /\ Ordered(p)
        /\ p[Len(p)] \in {"lost", "doh", "create", "deliver"}
        /\ Head(p) \in {"lost", "doh", "create", "deliver", "mark"}
        /\ p[Len(p)] = "doh" => m = "connect"
        /\ Head(p) = "create" => user[u].ctx = Nil
<1> HIDE DEF Starts
<1>5. PICK d \in Entries \cup {Nil} : \E p : Starts(p, d)
  <2>1. CASE ~(e = Nil \/ entry[e].fam = {})
    <3>1. PICK q : q = <<"deliver">>
      OBVIOUS
    <3>2. Ordered(q) /\ q[Len(q)] = "deliver" /\ Head(q) = "deliver"
      BY <3>1, OrderedCalls DEF LastSteps
    <3>3. Enter(u, m, h, q, e)
      BY <3>1, <2>1, <1>1
    <3>4. Starts(q, e)
      BY <3>2, <3>3, <2>1 DEF Starts
    <3> QED BY <3>4, <1>3
  <2>2. CASE (e = Nil \/ entry[e].fam = {}) /\ e # Nil
    <3>1. PICK q : q = <<"lost">>
      OBVIOUS
    <3>2. Ordered(q) /\ q[Len(q)] = "lost" /\ Head(q) = "lost"
      BY <3>1, OrderedCalls DEF LastSteps
    <3>3. Enter(u, m, h, q, Nil)
      BY <3>1, <2>2, <1>1
    <3>4. Starts(q, Nil)
      BY <3>2, <3>3, <2>2 DEF Starts
    <3> QED BY <3>4, <1>3
  <2>3. CASE e = Nil /\ u \in DohUsers /\ m = "connect"
    <3>1. PICK q : q = <<"doh">>
      OBVIOUS
    <3>2. Ordered(q) /\ q[Len(q)] = "doh" /\ Head(q) = "doh"
      BY <3>1, OrderedCalls DEF LastSteps
    <3>3. Enter(u, m, h, q, Nil)
      BY <3>1, <2>3, <1>1
    <3>4. Starts(q, Nil)
      BY <3>2, <3>3, <2>3 DEF Starts
    <3> QED BY <3>4, <1>3
  <2>4. CASE e = Nil /\ ~(u \in DohUsers /\ m = "connect") /\ user[u].ctx = Nil
    <3>1. PICK q : q = <<"create">>
      OBVIOUS
    <3>2. Ordered(q) /\ q[Len(q)] = "create" /\ Head(q) = "create"
      BY <3>1, OrderedCalls DEF LastSteps
    <3>3. <<>> \o <<"create">> = <<"create">>
      BY ConcatEmptySeq
    <3>4. Enter(u, m, h, q, Nil)
      BY <3>1, <3>3, <2>4, <1>1
    <3>5. Starts(q, Nil)
      BY <3>2, <3>4, <2>4 DEF Starts
    <3> QED BY <3>5, <1>3
  <2>5. CASE e = Nil /\ ~(u \in DohUsers /\ m = "connect") /\ user[u].ctx # Nil
    <3>1. PICK q : q = Destroy \o <<"create">>
      OBVIOUS
    <3>2. Ordered(q) /\ q[Len(q)] = "create" /\ Head(q) = "mark"
      BY <3>1, OrderedCalls DEF LastSteps
    <3>3. Enter(u, m, h, q, Nil)
      BY <3>1, <2>5, <1>1
    <3>4. Starts(q, Nil)
      BY <3>2, <3>3, <2>5 DEF Starts
    <3> QED BY <3>4, <1>3
  <2> QED BY <2>1, <2>2, <2>3, <2>4, <2>5
<1>6. PICK p : Starts(p, d)
  BY <1>5
<1>7. m \in Modes /\ h \in Hosts \cup {Nil}
  BY DEF Modes
<1> QED BY <1>1, <1>4, <1>6, <1>7, CallStarts DEF Starts

\* The calls that look at a pending resolve, or end one.
LEMMA OtherCalls ==
  ASSUME LInv, NEW u \in Users, Poll(u) \/ Done(u) \/ Close(u) \/ Reset(u)
  PROVE  LInv'
<1>1. UNCHANGED <<lookup, thread, entry, cache, user>>
  BY DEF Poll, Done, Close, Reset
<1>2. /\ entry' \in [Entries -> EntryRec] /\ cache' \in [Hosts -> Entries \cup {Nil}] /\ turns' \in Nat
  BY <1>1 DEF LInv, Types, Poll, Done, Close, Reset, Turn
<1>3. CASE Poll(u)
  <2>1. Enter(u, "poll", user[u].host, <<"check">>, Nil) /\ user[u].st = "resolving"
    BY <1>3 DEF Poll
  <2>2. user[u].host \in Hosts
    <3>1. Me # u
      BY <2>1, BetweenCalls, ResolverAssumption DEF Enter, ResolverConstants
    <3> QED BY <3>1, <2>1 DEF LInv, Pollable
  <2>3. PICK p : p = <<"check">>
    OBVIOUS
  <2>4. Ordered(p) /\ p[Len(p)] = "check" /\ Head(p) = "check"
    BY <2>3, OrderedCalls DEF LastSteps
  <2>5. Enter(u, "poll", user[u].host, p, Nil) /\ "poll" \in Modes
    BY <2>1, <2>3 DEF Modes
  <2> QED BY <2>1, <2>2, <2>4, <2>5, <1>1, <1>2, CallStarts
<1>4. ASSUME NEW m \in {"done", "close", "reset"}, NEW p, Enter(u, m, Nil, p, Nil), Ordered(p),
             p[Len(p)] \in {"keep", "release"}, Head(p) = "mark",
             user[u].st = "resolving" => Forgets(p)
      PROVE  LInv'
  <2>1. m \in Modes
    BY DEF Modes
  <2> QED BY <2>1, <1>1, <1>2, <1>4, CallStarts
<1>5. CASE Done(u)
  <2>1. PICK a \in {"keep", "release"} : Enter(u, "done", Nil, Shutdown \o <<a>>, Nil)
    <3>1. PICK inUse \in BOOLEAN :
       Enter(u, "done", Nil, Shutdown \o (IF inUse THEN <<"keep">> ELSE <<"release">>), Nil)
      BY <1>5 DEF Done
    <3>2. CASE inUse
      BY <3>1, <3>2
    <3>3. CASE ~inUse
      BY <3>1, <3>3
    <3> QED BY <3>2, <3>3
  <2> DEFINE p == Shutdown \o <<a>>
  <2>2. Ordered(p) /\ p[Len(p)] = a /\ Head(p) = "mark" /\ Forgets(p)
    BY OrderedCalls
  <2> HIDE DEF p
  <2>3. Enter(u, "done", Nil, p, Nil)
    BY <2>1 DEF p
  <2> QED BY <2>2, <2>3, <1>4
<1>6. CASE Close(u)
  <2>1. PICK quick \in BOOLEAN :
       Enter(u, "close", Nil, (IF quick THEN <<>> ELSE ShutdownThread \o <<"joinAlways">>)
                              \o Destroy \o <<"release">>, Nil)
    BY <1>6 DEF Close
  <2>2. user[u].st = "idle"
    BY <1>6 DEF Close
  <2>3. CASE quick
    <3>1. <<>> \o Destroy \o <<"release">> = Destroy \o <<"release">>
      BY ConcatEmptySeq DEF Destroy
    <3> DEFINE p == Destroy \o <<"release">>
    <3>2. Ordered(p) /\ p[Len(p)] = "release" /\ Head(p) = "mark"
      BY OrderedCalls
    <3>3. Enter(u, "close", Nil, p, Nil)
      BY <2>1, <2>3, <3>1
    <3> HIDE DEF p
    <3> QED BY <3>2, <3>3, <2>2, <1>4
  <2>4. CASE ~quick
    <3> DEFINE p == ShutdownThread \o <<"joinAlways">> \o Destroy \o <<"release">>
    <3>1. Ordered(p) /\ p[Len(p)] = "release" /\ Head(p) = "mark"
      BY OrderedClose
    <3>2. Enter(u, "close", Nil, p, Nil)
      BY <2>1, <2>4
    <3> HIDE DEF p
    <3> QED BY <3>1, <3>2, <2>2, <1>4
  <2> QED BY <2>3, <2>4
<1>7. CASE Reset(u)
  <2> DEFINE p == Shutdown \o <<"release">>
  <2>1. Ordered(p) /\ p[Len(p)] = "release" /\ Head(p) = "mark" /\ Forgets(p)
    BY OrderedCalls
  <2>2. Enter(u, "reset", Nil, p, Nil)
    BY <1>7 DEF Reset
  <2> HIDE DEF p
  <2> QED BY <2>1, <2>2, <1>4
<1> QED BY <1>3, <1>5, <1>6, <1>7

-----------------------------------------------------------------------------
(* The invariant of the lookups. *)

\* A probe is answered; entries come and go behind the handles' back.
LEMMA OtherEvents ==
  ASSUME LInv, (\E u \in Users : DohAnswer(u)) \/ (\E h \in Hosts : Preload(h) \/ GetStale(h))
  PROVE  LInv'
<1>1. UNCHANGED <<lookup, thread, call>>
  BY DEF DohAnswer, Preload, GetStale
<1>2. /\ user \in [Users -> UserRec] /\ entry \in [Entries -> EntryRec]
      /\ cache \in [Hosts -> Entries \cup {Nil}] /\ turns \in Nat
  BY DEF LInv, Types
<1>3. /\ Me' = Me /\ Aim' = Aim /\ \A s : At(s)' <=> At(s)
  BY <1>1 DEF Me, Aim, At
<1>4. ASSUME NEW u \in Users, DohAnswer(u)
      PROVE  LInv'
  <2>1. /\ user[u].doh = "pending" /\ call = Idle /\ UNCHANGED <<entry, cache, turns>>
        /\ user' = [user EXCEPT ![u].doh = "answered"]
    BY <1>4 DEF DohAnswer
  <2>2. /\ user' \in [Users -> UserRec] /\ \A v \in Users : v # u => user'[v] = user[v]
        /\ user'[u].ctx = user[u].ctx /\ user'[u].st = user[u].st /\ user'[u].host = user[u].host
        /\ user'[u].doh = "answered"
    <3>1. user[u] \in UserRec
      BY <1>2
    <3>2. [user[u] EXCEPT !.doh = "answered"] \in UserRec
      BY <3>1 DEF UserRec
    <3> QED BY <3>1, <3>2, <1>2, <2>1 DEF UserRec
  <2>3. Types'
    BY <1>1, <1>2, <2>1, <2>2 DEF LInv, Types
  <2>4. Me = Nil /\ Nil \notin Users /\ (\A s : ~At(s)) /\ ~call.done /\ call' = Idle
    BY <1>1, <2>1, BetweenCalls, ResolverAssumption DEF ResolverConstants
  <2>5. Control'
    BY <2>4, IdleControl
  <2>6. Pollable' /\ Probing'
    BY <1>3, <2>1, <2>2, <2>4 DEF LInv, Pollable, Probing
  <2>7. ~At("free")' /\ ~At("unlink")' /\ ~call'.done
    BY <2>4, BetweenCalls
  <2>8. \A v \in Users : user'[v].ctx = user[v].ctx
    BY <2>2
  <2> QED BY <1>1, <2>3, <2>4, <2>5, <2>6, <2>7, <2>8, LookupsLeft
<1>5. ASSUME user' = user, turns' = turns + 1, entry' \in [Entries -> EntryRec],
             cache' \in [Hosts -> Entries \cup {Nil}]
      PROVE  LInv'
  <2>1. Types'
    BY <1>1, <1>2, <1>5 DEF LInv, Types
  <2>2. Control' /\ Pollable' /\ Probing' /\ OneOwner' /\ Wanted' /\ DoneSeen'
    BY <1>1, <1>3, <1>5 DEF LInv, Control, Pollable, Probing, OneOwner, Wanted, DoneSeen, Ctx
  <2>3. \A c \in Lookups :
          /\ Owned(c)' <=> Owned(c)
          /\ \A u \in Users : Keeps(u, c)' <=> Keeps(u, c)
    BY <1>1, <1>5, ThreadOwners
  <2>4. ASSUME NEW c \in Lookups
        PROVE  LookupAt(c)'
    <3>1. LookupAt(c) /\ Ctx' = Ctx
      BY <1>1, <1>5, ThreadOwners DEF LInv, LookupInv
    <3> QED BY <3>1, <2>3, <1>1, <1>3, OtherLookup
  <2> QED BY <2>1, <2>2, <2>4 DEF LInv, LookupInv
<1>6. ASSUME NEW h \in Hosts, Preload(h)
      PROVE  LInv'
  <2>1. user' = user /\ turns' = turns + 1
    BY <1>6 DEF Preload, Turn
  <2>2. CASE \E e \in Calloc(entry), fam \in Answers \ {{}}, perm \in BOOLEAN :
               AddToCache(entry, e, NewEntry(h, fam, perm))
    <3>1. PICK e \in Calloc(entry), fam \in Answers \ {{}}, perm \in BOOLEAN :
               AddToCache(entry, e, NewEntry(h, fam, perm))
      BY <2>2
    <3>2. e \in Entries /\ fam \in SUBSET Families
      BY <1>2, Callocated, ResolverAssumption DEF ResolverConstants
    <3> DEFINE new == NewEntry(h, fam, perm)
    <3>3. new \in EntryRec /\ new.host \in Hosts
      BY <3>2, NewTyped
    <3> HIDE DEF new
    <3>4. AddToCache(entry, e, new)
      BY <3>1 DEF new
    <3>5. entry' \in [Entries -> EntryRec] /\ cache' \in [Hosts -> Entries \cup {Nil}]
      BY <3>2, <3>3, <3>4, <1>2, AddTyped
    <3> QED BY <3>5, <2>1, <1>5
  <2>3. CASE entry' = Drop(entry, cache[h]) /\ cache' = [cache EXCEPT ![h] = Nil]
    <3>1. entry' \in [Entries -> EntryRec] /\ cache' \in [Hosts -> Entries \cup {Nil}]
      BY <2>3, <1>2, DropTyped
    <3> QED BY <3>1, <2>1, <1>5
  <2> QED BY <2>2, <2>3, <1>6 DEF Preload
<1>7. ASSUME NEW h \in Hosts, GetStale(h)
      PROVE  LInv'
  <2>1. /\ user' = user /\ turns' = turns + 1 /\ cache' = cache /\ cache[h] \in Entries
        /\ entry' = [entry EXCEPT ![cache[h]].stale = TRUE]
    BY <1>2, <1>7 DEF GetStale, Turn
  <2>2. [entry[cache[h]] EXCEPT !.stale = TRUE] \in EntryRec
    <3>1. entry[cache[h]] \in EntryRec
      BY <1>2, <2>1
    <3> QED BY <3>1 DEF EntryRec
  <2>3. entry' \in [Entries -> EntryRec]
    BY <1>2, <2>1, <2>2
  <2> QED BY <2>1, <2>3, <1>2, <1>5
<1> QED BY <1>4, <1>6, <1>7

\* In the beginning nothing is held.
LEMMA LookupsInit ==
  ASSUME Init
  PROVE  LInv
<1>1. /\ lookup = [c \in Lookups |-> NoLookup] /\ thread = [c \in Lookups |-> "none"]
      /\ entry = [e \in Entries |-> Unused] /\ cache = [h \in Hosts |-> Nil]
      /\ user = [u \in Users |-> [st |-> "idle", ctx |-> Nil, dns |-> Nil, host |-> Nil, doh |-> "none",
                                  slot |-> <<Nil, Nil>>]]
      /\ turns = 0 /\ call = Idle
  BY DEF Init
<1>2. Me = Nil /\ Aim = "none" /\ (\A s : ~At(s)) /\ ~call.done /\ call.mode = "none"
  BY <1>1, BetweenCalls
<1>3. Types
  <2>1. NoLookup \in LookupRec /\ Unused \in EntryRec
    BY DEF NoLookup, LookupRec, Unused, EntryRec
  <2>2. <<Nil, Nil>> \in Slots
    BY DEF Slots
  <2>3. [st |-> "idle", ctx |-> Nil, dns |-> Nil, host |-> Nil, doh |-> "none",
         slot |-> <<Nil, Nil>>] \in UserRec
    BY <2>2 DEF UserRec
  <2> QED BY <1>1, <2>1, <2>3, IdleCall DEF Types, ThreadAt
<1>4. \A u \in Users : user[u].ctx = Nil /\ user[u].doh = "none" /\ user[u].st = "idle"
  BY <1>1
<1>5. Control /\ Pollable /\ Probing /\ OneOwner /\ DoneSeen
  BY <1>1, <1>2, <1>4 DEF Control, Pollable, Probing, OneOwner, DoneSeen, Looks
<1>6. Nil \notin Lookups
  BY ResolverAssumption DEF ResolverConstants
<1>7. /\ NoLookup.refs = 0 /\ NoLookup.st = "unused" /\ NoLookup.handle = "null" /\ NoLookup.res = {}
  BY DEF NoLookup
<1>8. ASSUME NEW c \in Lookups
      PROVE  LookupAt(c)
  <2>1. ~Owned(c) /\ ~Running(c) /\ ~Freeing(c)
    BY <1>1, <1>2, <1>4, <1>6 DEF Owned, Keeps, Running, Freeing
  <2> QED BY <2>1, <1>1, <1>2, <1>7 DEF LookupAt, One
<1>9. Wanted
  BY <1>1, <1>4, <1>7 DEF Wanted
<1> QED BY <1>3, <1>5, <1>8, <1>9 DEF LInv, LookupInv

\* Nothing happens.
LEMMA LookupsStutter ==
  ASSUME LInv, UNCHANGED resolverVars
  PROVE  LInv'
<1>1. UNCHANGED <<lookup, thread, entry, cache, user, turns, call>>
  BY DEF resolverVars
<1>2. Me' = Me /\ Aim' = Aim /\ Ctx' = Ctx /\ \A s : At(s)' <=> At(s)
  BY <1>1 DEF Me, Aim, At, Ctx
<1>3. Types' /\ Control' /\ Pollable' /\ Probing' /\ OneOwner' /\ Wanted' /\ DoneSeen'
  BY <1>1, <1>2 DEF LInv, Types, Control, Pollable, Probing, OneOwner, Wanted, DoneSeen
<1>4. ASSUME NEW c \in Lookups
      PROVE  LookupAt(c)'
  <2>1. LookupAt(c) /\ \A u \in Users : Keeps(u, c)' <=> Keeps(u, c)
    BY <1>1, ThreadOwners DEF LInv, LookupInv
  <2> QED BY <2>1, <1>1, <1>2, OtherLookup
<1> QED BY <1>3, <1>4 DEF LInv, LookupInv

\* A step of the call under way.
LEMMA CallSteps ==
  ASSUME LInv, CallStep
  PROVE  LInv'
<1>1. turns' = turns
  BY DEF CallStep
<1> QED BY <1>1, MarkStep, JoinSteps, UnlinkStep, FreeStep, CreateStep, StartDohStep, CheckStep,
           IsResolvedStep, AwaitedStep, IsDohResolvedStep, NegativeStep, DeliverStep, LostStep,
           ReleaseStep DEF CallStep

\* Whatever happens next.
LEMMA LookupsNext ==
  ASSUME LInv, [Next]_resolverVars
  PROVE  LInv'
<1>1. ASSUME NEW u \in Users, Connect(u)
      PROVE  LInv'
  <2>1. PICK h \in Hosts : Resolv(u, h, "connect")
    BY <1>1 DEF Connect
  <2>2. user[u].st # "resolving"
    BY <1>1 DEF Connect
  <2> QED BY <2>1, <2>2, ResolvCalls
<1>2. ASSUME NEW u \in Users, ResolvBlocking(u)
      PROVE  LInv'
  <2>1. PICK h \in Hosts : Resolv(u, h, "blocking")
    BY <1>2 DEF ResolvBlocking
  <2>2. u \in BlockingUsers /\ user[u].st = "resolved"
    BY <1>2 DEF ResolvBlocking
  <2> QED BY <2>1, <2>2, ResolvCalls
<1>3. ASSUME NEW u \in Users, Poll(u) \/ Done(u) \/ Close(u) \/ Reset(u)
      PROVE  LInv'
  BY <1>3, OtherCalls
<1>4. CASE \E c \in Lookups : Thread(c)
  BY <1>4, ThreadSteps
<1>5. CASE UNCHANGED resolverVars
  BY <1>5, LookupsStutter
<1> QED BY <1>1, <1>2, <1>3, <1>4, <1>5, CallSteps, OtherEvents DEF Next

\* Whatever threads and calls do, every lookup has the holders it counts, and
\* the handles a resolve under way.
THEOREM Lookups_Held == Spec => []LInv
<1>1. Init => LInv
  BY LookupsInit
<1>2. LInv /\ [Next]_resolverVars => LInv'
  BY LookupsNext
<1> QED BY <1>1, <1>2, PTL DEF Spec

-----------------------------------------------------------------------------
(* What it means for the program. *)

\* Only closing a handle and a blocking resolve wait for a name server: every
\* other call that joins a thread has seen thrd_done, which the thread sets with
\* its last instructions ahead (async_thrdd_shutdown, async_thrdd_destroy).
THEOREM Joins_Never_Wait == Spec => []NoWaitForLookup
<1>1. LInv => NoWaitForLookup
  <2> SUFFICES ASSUME LInv, At("join") \/ At("joinForget") \/ At("joinOrDetach"), HasHandle, call.done
               PROVE  thread[Ctx] \in {"exit", "ended"}
    BY DEF NoWaitForLookup
  <2>1. Me \in Users
    BY BetweenCalls DEF LInv, Control
  <2>2. Ctx \in Lookups /\ LookupAt(Ctx)
    BY <2>1, MyContext DEF HasHandle
  <2>3. lookup[Ctx].handle = "held" /\ lookup[Ctx].done
    BY DEF HasHandle, LInv, DoneSeen
  <2> QED BY <2>2, <2>3 DEF LookupAt
<1> QED BY <1>1, Lookups_Held, PTL

\* The holders of a lookup are the handle that keeps it and its running thread.
LEMMA HoldersCounted ==
  ASSUME LInv, NEW c \in Lookups
  PROVE  /\ IsFiniteSet(HoldersOf(c)) /\ Cardinality(HoldersOf(c)) = One(Owned(c)) + One(Running(c))
         /\ HoldersOf(c) # {} <=> Owned(c) \/ Running(c)
<1> DEFINE owners == {u \in Users : user[u].ctx = c /\ ~(At("free") /\ Me = u)}
<1> DEFINE threads == {t \in {Nil} : Running(c)}
<1>1. HoldersOf(c) = owners \cup threads
  BY DEF HoldersOf
<1>2. c # Nil /\ Nil \notin Users
  BY ResolverAssumption DEF ResolverConstants
<1>3. IF Owned(c) THEN \E u \in Users : owners = {u} ELSE owners = {}
  <2>1. CASE Owned(c)
    <3>1. PICK u \in Users : Keeps(u, c)
      BY <2>1 DEF Owned
    <3>2. \A v \in owners : v = u
      BY <3>1, <1>2 DEF Keeps, LInv, OneOwner
    <3> QED BY <3>1, <3>2, <2>1 DEF Keeps
  <2>2. CASE ~Owned(c)
    BY <2>2 DEF Owned, Keeps
  <2> QED BY <2>1, <2>2
<1>4. IF Running(c) THEN threads = {Nil} ELSE threads = {}
  OBVIOUS
<1>5. owners \subseteq Users
  OBVIOUS
<1> HIDE DEF owners, threads
<1>6. Cardinality({}) = 0 /\ IsFiniteSet({})
  BY FS_EmptySet
<1>7. \A x : Cardinality({x}) = 1 /\ IsFiniteSet({x})
  BY FS_Singleton
<1>8. CASE Owned(c) /\ Running(c)
  <2>1. PICK u \in Users : owners = {u}
    BY <1>3, <1>8
  <2>2. HoldersOf(c) = {u} \cup {Nil} /\ u # Nil
    BY <1>1, <1>2, <1>4, <1>8, <2>1
  <2>3. IsFiniteSet({u} \cup {Nil}) /\ Cardinality({u} \cup {Nil}) = Cardinality({u}) + 1
    BY <1>7, <2>2, FS_AddElement
  <2> QED BY <1>7, <1>8, <2>2, <2>3 DEF One
<1>9. CASE Owned(c) /\ ~Running(c)
  <2>1. PICK u \in Users : owners = {u}
    BY <1>3, <1>9
  <2>2. HoldersOf(c) = {u}
    BY <1>1, <1>4, <1>9, <2>1
  <2>3. Cardinality({u}) = 1 /\ IsFiniteSet({u}) /\ {u} # {}
    BY <1>7
  <2>4. Cardinality(HoldersOf(c)) = 1 /\ IsFiniteSet(HoldersOf(c)) /\ HoldersOf(c) # {}
    BY <2>2, <2>3, Zenon
  <2> QED BY <1>9, <2>4 DEF One
<1>10. CASE ~Owned(c) /\ Running(c)
  <2>1. HoldersOf(c) = {Nil}
    BY <1>1, <1>3, <1>4, <1>10
  <2>2. Cardinality({Nil}) = 1 /\ IsFiniteSet({Nil}) /\ {Nil} # {}
    BY <1>7
  <2>3. Cardinality(HoldersOf(c)) = 1 /\ IsFiniteSet(HoldersOf(c)) /\ HoldersOf(c) # {}
    BY <2>1, <2>2, Zenon
  <2> QED BY <1>10, <2>3 DEF One
<1>11. CASE ~Owned(c) /\ ~Running(c)
  <2>1. HoldersOf(c) = {}
    BY <1>1, <1>3, <1>4, <1>11
  <2> QED BY <1>6, <1>11, <2>1 DEF One
<1> QED BY <1>8, <1>9, <1>10, <1>11

\* A lookup is there as long as its thread or its handle may touch it, its count
\* is the number of them, and the last one frees it (addr_ctx_unlink); its thread
\* was joined or detached by then.
THEOREM Lookups_Freed_By_The_Last == Spec => [](LookupShared /\ ThreadReaped)
<1>1. LInv => LookupShared /\ ThreadReaped
  <2> SUFFICES ASSUME LInv
               PROVE  LookupShared /\ ThreadReaped
    OBVIOUS
  <2>1. LookupShared
    <3> SUFFICES ASSUME NEW c \in Lookups
                 PROVE  /\ lookup[c].refs = Cardinality(HoldersOf(c))
                        /\ lookup[c].st = "live" <=> HoldersOf(c) # {} \/ Freeing(c)
      BY DEF LookupShared
    <3>1. LookupAt(c)
      BY DEF LInv, LookupInv
    <3> QED BY <3>1, HoldersCounted DEF LookupAt
  <2>2. ThreadReaped
    <3> SUFFICES ASSUME NEW c \in Lookups, lookup[c].handle = "held"
                 PROVE  lookup[c].st # "freed"
      BY DEF ThreadReaped
    <3>1. LookupAt(c)
      BY DEF LInv, LookupInv
    <3>2. Owned(c)
      BY <3>1 DEF LookupAt, Owned
    <3> QED BY <3>1, <3>2 DEF LookupAt
  <2> QED BY <2>1, <2>2
<1> QED BY <1>1, Lookups_Held, PTL

-----------------------------------------------------------------------------
(* Counting the holders of entries. *)

\* A set with one element taken out.
LEMMA Without ==
  ASSUME NEW S, IsFiniteSet(S), NEW x
  PROVE  /\ IsFiniteSet(S \ {x}) /\ Cardinality(S) \in Nat
         /\ Cardinality(S) = Cardinality(S \ {x}) + One(x \in S)
<1>1. Cardinality(S) \in Nat
  BY FS_CardinalityType
<1>2. CASE x \in S
  <2>1. IsFiniteSet(S \ {x}) /\ Cardinality(S \ {x}) = Cardinality(S) - 1
    BY <1>2, FS_RemoveElement
  <2> QED BY <1>1, <1>2, <2>1 DEF One
<1>3. CASE x \notin S
  <2>1. S \ {x} = S
    BY <1>3
  <2>2. Cardinality(S \ {x}) = Cardinality(S) /\ IsFiniteSet(S \ {x})
    BY <2>1, Zenon
  <2> QED BY <1>1, <1>3, <2>2 DEF One
<1> QED BY <1>2, <1>3

\* Handles have finitely many slots.
LEMMA SlotsFinite ==
  ASSUME NEW usr, NEW e
  PROVE  IsFiniteSet(SlotsIn(usr, e)) /\ Cardinality(SlotsIn(usr, e)) \in Nat
<1>1. IsFiniteSet(Users) /\ IsFiniteSet({1} \cup {2})
  BY ResolverAssumption, FS_Singleton, FS_AddElement DEF ResolverConstants
<1>2. IsFiniteSet(Users \X {1, 2})
  BY <1>1, FS_Product
<1>3. SlotsIn(usr, e) \subseteq Users \X {1, 2}
  BY DEF SlotsIn
<1>4. IsFiniteSet(SlotsIn(usr, e))
  BY <1>2, <1>3, FS_Subset
<1> QED BY <1>4, FS_CardinalityType

\* Counts are numbers, and who holds an entry is counted.
LEMMA HeldTyped ==
  ASSUME NEW ch, NEW usr, NEW dns
  PROVE  /\ HeldIn(ch, usr, dns) \in [Entries -> Nat]
         /\ \A e \in Entries, h \in Hosts : ch[h] = e => HeldIn(ch, usr, dns)[e] > 0
         /\ \A e \in Entries, u \in Users, i \in {1, 2} :
              usr[u].slot[i] = e => HeldIn(ch, usr, dns)[e] > 0
         /\ \A e \in Entries : dns = e => HeldIn(ch, usr, dns)[e] > 0
<1> DEFINE held == HeldIn(ch, usr, dns)
<1>1. ASSUME NEW e \in Entries
      PROVE  /\ held[e] = CachedIn(ch, e) + Cardinality(SlotsIn(usr, e)) + Same(dns, e)
             /\ CachedIn(ch, e) \in Nat /\ Cardinality(SlotsIn(usr, e)) \in Nat /\ Same(dns, e) \in Nat
  BY SlotsFinite DEF HeldIn, CachedIn, One, Same
<1>2. held \in [Entries -> Nat]
  <2>1. \A e \in Entries : CachedIn(ch, e) + Cardinality(SlotsIn(usr, e)) + Same(dns, e) \in Nat
    BY <1>1
  <2> QED BY <2>1 DEF HeldIn
<1> HIDE DEF held
<1>3. ASSUME NEW e \in Entries, NEW h \in Hosts, ch[h] = e
      PROVE  held[e] > 0
  <2>1. CachedIn(ch, e) = 1
    BY <1>3 DEF CachedIn, One, Same
  <2> QED BY <2>1, <1>1
<1>4. ASSUME NEW e \in Entries, NEW u \in Users, NEW i \in {1, 2}, usr[u].slot[i] = e
      PROVE  held[e] > 0
  <2>1. <<u, i>> \in SlotsIn(usr, e)
    BY <1>4 DEF SlotsIn
  <2>2. Cardinality(SlotsIn(usr, e)) # 0
    BY <2>1, SlotsFinite, FS_EmptySet
  <2> QED BY <2>2, <1>1
<1>5. ASSUME NEW e \in Entries, dns = e
      PROVE  held[e] > 0
  <2>1. Same(dns, e) = 1
    BY <1>5 DEF One, Same
  <2> QED BY <2>1, <1>1
<1> QED BY <1>2, <1>3, <1>4, <1>5 DEF held

\* Slot i of u gets d, an entry or none; no other slot changes.
SlotGets(usr, new, u, i, d) ==
  \A v \in Users, j \in {1, 2} :
    new[v].slot[j] = IF v = u /\ j = i THEN d ELSE usr[v].slot[j]

\* What that does to the slots that hold an entry.
LEMMA SlotSet ==
  ASSUME NEW usr, NEW new, NEW u \in Users, NEW i \in {1, 2}, NEW d,
         SlotGets(usr, new, u, i, d), NEW e
  PROVE  Cardinality(SlotsIn(new, e))
           = (Cardinality(SlotsIn(usr, e)) + Same(d, e)) - Same(usr[u].slot[i], e)
<1> DEFINE s == <<u, i>>
<1> DEFINE A == SlotsIn(usr, e)
<1> DEFINE B == SlotsIn(new, e)
<1>1. A \ {s} = B \ {s}
  <2>1. ASSUME NEW t \in Users \X {1, 2}, t # s
        PROVE  t \in A <=> t \in B
    <3>1. t = <<t[1], t[2]>> /\ t[1] \in Users /\ t[2] \in {1, 2}
      OBVIOUS
    <3>2. ~(t[1] = u /\ t[2] = i)
      BY <2>1, <3>1
    <3>3. new[t[1]].slot[t[2]] = usr[t[1]].slot[t[2]]
      BY <3>1, <3>2 DEF SlotGets
    <3> QED BY <3>3 DEF SlotsIn
  <2>2. A \subseteq Users \X {1, 2} /\ B \subseteq Users \X {1, 2}
    BY DEF SlotsIn
  <2> QED BY <2>1, <2>2
<1>2. (s \in A <=> usr[u].slot[i] = e) /\ (s \in B <=> d = e)
  <2>1. s \in Users \X {1, 2} /\ s[1] = u /\ s[2] = i
    OBVIOUS
  <2> QED BY <2>1 DEF SlotsIn, SlotGets
<1>3. IsFiniteSet(A) /\ IsFiniteSet(B)
  BY SlotsFinite
<1> HIDE DEF s, A, B
<1>4. Cardinality(A) = Cardinality(A \ {s}) + One(s \in A) /\ IsFiniteSet(A \ {s})
  BY <1>3, Without
<1>5. Cardinality(B) = Cardinality(B \ {s}) + One(s \in B)
  BY <1>3, Without
<1>6. Cardinality(A \ {s}) = Cardinality(B \ {s}) /\ Cardinality(A \ {s}) \in Nat
  BY <1>1, <1>4, FS_CardinalityType, Zenon
<1>7. One(s \in A) = Same(usr[u].slot[i], e) /\ One(s \in B) = Same(d, e)
      /\ One(s \in A) \in Nat /\ One(s \in B) \in Nat
  BY <1>2 DEF One, Same
<1>8. Cardinality(B) = (Cardinality(A) + Same(d, e)) - Same(usr[u].slot[i], e)
  BY <1>4, <1>5, <1>6, <1>7
<1> QED BY <1>8 DEF A, B

\* The cache gets another entry, or none, under a key.
LEMMA CacheSet ==
  ASSUME NEW ch \in [Hosts -> Entries \cup {Nil}], OneHost(ch), NEW h \in Hosts,
         NEW d \in Entries \cup {Nil}, d = Nil \/ d = ch[h] \/ \A k \in Hosts : ch[k] # d,
         NEW new, new = [ch EXCEPT ![h] = d]
  PROVE  /\ OneHost(new)
         /\ \A e \in Entries : CachedIn(new, e) = (CachedIn(ch, e) + Same(d, e)) - Same(ch[h], e)
<1>1. new[h] = d /\ \A k \in Hosts : k # h => new[k] = ch[k]
  OBVIOUS
<1>2. OneHost(new)
  BY <1>1 DEF OneHost
<1>3. ASSUME NEW e \in Entries
      PROVE  CachedIn(new, e) = (CachedIn(ch, e) + Same(d, e)) - Same(ch[h], e)
  <2>0. e # Nil
    BY ResolverAssumption DEF ResolverConstants
  <2>1. CASE d = e
    <3>1. (\E k \in Hosts : new[k] = e)
      BY <1>1, <2>1
    <3>2. (\E k \in Hosts : ch[k] = e) <=> ch[h] = e
      BY <2>0, <2>1
    <3> QED BY <3>1, <3>2, <2>1 DEF CachedIn, One, Same
  <2>2. CASE d # e /\ ch[h] = e
    <3>1. ~(\E k \in Hosts : new[k] = e)
      BY <1>1, <2>0, <2>2 DEF OneHost
    <3>2. \E k \in Hosts : ch[k] = e
      BY <2>2
    <3> QED BY <3>1, <3>2, <2>2 DEF CachedIn, One, Same
  <2>3. CASE d # e /\ ch[h] # e
    <3>1. (\E k \in Hosts : new[k] = e) <=> (\E k \in Hosts : ch[k] = e)
      BY <1>1, <2>3
    <3> QED BY <3>1, <2>3 DEF CachedIn, One, Same
  <2> QED BY <2>1, <2>2, <2>3
<1> QED BY <1>2, <1>3

\* A reference less; of an entry there is one.
Less(held, e) == [x \in Entries |-> IF x = e THEN held[x] - 1 ELSE held[x]]

\* To give up a reference that is held leaves the rest counted.
LEMMA DropCounts ==
  ASSUME NEW ents \in [Entries -> EntryRec], NEW held \in [Entries -> Nat], Counted(ents, held),
         NEW e \in Entries \cup {Nil}, e # Nil => held[e] > 0
  PROVE  /\ Drop(ents, e) \in [Entries -> EntryRec]
         /\ Less(held, e) \in [Entries -> Nat]
         /\ Counted(Drop(ents, e), Less(held, e))
         /\ \A x \in Entries : Less(held, e)[x] > 0 => Drop(ents, e)[x].fam = ents[x].fam
         /\ \A x \in Entries : ents[x].st = "unused" <=> Drop(ents, e)[x].st = "unused"
<1>1. Drop(ents, e) \in [Entries -> EntryRec]
  BY DropTyped
<1>2. CASE e = Nil
  <2>1. Nil \notin Entries
    BY ResolverAssumption DEF ResolverConstants
  <2>2. Drop(ents, e) = ents /\ Less(held, e) = held
    BY <1>2, <2>1 DEF Drop, Less
  <2> QED BY <1>1, <2>2
<1>3. CASE e # Nil
  <2>1. e \in Entries /\ held[e] \in Nat /\ held[e] > 0 /\ ents[e] \in EntryRec
        /\ ents[e].refs = held[e] /\ ents[e].st = "live"
    BY <1>3 DEF Counted
  <2>2. Less(held, e) \in [Entries -> Nat] /\ Less(held, e)[e] = held[e] - 1
        /\ \A x \in Entries : x # e => Less(held, e)[x] = held[x]
    BY <2>1 DEF Less
  <2>3. \A x \in Entries : x # e => Drop(ents, e)[x] = ents[x]
    BY <1>3 DEF Drop
  <2>4. /\ Drop(ents, e)[e].refs = held[e] - 1
        /\ Drop(ents, e)[e].st = "live" <=> held[e] - 1 > 0
        /\ held[e] - 1 > 0 => Drop(ents, e)[e].fam = ents[e].fam
        /\ Drop(ents, e)[e].st # "unused"
    <3>1. CASE held[e] = 1
      <4>1. Drop(ents, e) = [ents EXCEPT ![e] = Freed(Unused)]
        BY <1>3, <2>1, <3>1 DEF Drop
      <4>2. Drop(ents, e)[e] = Freed(Unused)
        BY <4>1, <2>1
      <4>3. Freed(Unused).refs = 0 /\ Freed(Unused).st = "freed"
        BY DEF Freed, Unused
      <4> QED BY <3>1, <4>2, <4>3
    <3>2. CASE held[e] # 1
      <4> DEFINE less == [ents[e] EXCEPT !.refs = @ - 1]
      <4>1. less.refs = held[e] - 1 /\ less.st = "live" /\ less.fam = ents[e].fam
        BY <2>1 DEF EntryRec
      <4>2. Drop(ents, e) = [ents EXCEPT ![e] = less]
        BY <1>3, <2>1, <3>2 DEF Drop
      <4> HIDE DEF less
      <4>3. Drop(ents, e)[e] = less
        BY <4>2, <2>1
      <4> QED BY <3>2, <4>1, <4>3, <2>1
    <3> QED BY <3>1, <3>2
  <2>5. Counted(Drop(ents, e), Less(held, e))
    <3> SUFFICES ASSUME NEW x \in Entries
                 PROVE  /\ Drop(ents, e)[x].refs = Less(held, e)[x]
                        /\ Drop(ents, e)[x].st = "live" <=> Less(held, e)[x] > 0
      BY DEF Counted
    <3>1. CASE x = e
      BY <3>1, <2>2, <2>4
    <3>2. CASE x # e
      BY <3>2, <2>2, <2>3 DEF Counted
    <3> QED BY <3>1, <3>2
  <2>6. \A x \in Entries : Less(held, e)[x] > 0 => Drop(ents, e)[x].fam = ents[x].fam
    BY <2>2, <2>3, <2>4
  <2>7. \A x \in Entries : ents[x].st = "unused" <=> Drop(ents, e)[x].st = "unused"
    BY <2>1, <2>3, <2>4
  <2> QED BY <1>1, <2>2, <2>5, <2>6, <2>7
<1> QED BY <1>2, <1>3

-----------------------------------------------------------------------------
(* What looking in the cache and adding to it leave. *)

\* The count of an entry, term by term.
LEMMA HeldIs ==
  ASSUME NEW ch, NEW usr, NEW dns, NEW e \in Entries
  PROVE  /\ HeldIn(ch, usr, dns)[e] = CachedIn(ch, e) + Cardinality(SlotsIn(usr, e)) + Same(dns, e)
         /\ CachedIn(ch, e) \in Nat /\ Cardinality(SlotsIn(usr, e)) \in Nat /\ Same(dns, e) \in Nat
BY SlotsFinite DEF HeldIn, CachedIn, One, Same

\* Slots that stay.
LEMMA SlotsSame ==
  ASSUME NEW usr, NEW new, \A u \in Users : new[u].slot = usr[u].slot
  PROVE  /\ \A e : SlotsIn(new, e) = SlotsIn(usr, e)
         /\ \A ch, dns : HeldIn(ch, new, dns) = HeldIn(ch, usr, dns)
<1>1. ASSUME NEW e
      PROVE  SlotsIn(new, e) = SlotsIn(usr, e)
  <2>1. \A s \in Users \X {1, 2} : s[1] \in Users
    OBVIOUS
  <2> QED BY <2>1 DEF SlotsIn
<1> QED BY <1>1 DEF HeldIn

\* The slots of a handle hold entries, or nothing.
LEMMA SlotTyped ==
  ASSUME Types, NEW u \in Users
  PROVE  user[u] \in UserRec /\ user[u].slot \in Slots /\ \A i \in {1, 2} : user[u].slot[i] \in Entries \cup {Nil}
<1>1. user[u] \in UserRec /\ user[u].slot \in Slots
  BY DEF Types, UserRec
<1> QED BY <1>1 DEF Slots

\* An entry that is held before and after keeps its addresses: then so do the
\* handles that have it.
LEMMA FitsKept ==
  ASSUME Types, FitsInv,
         \A u \in Users : user'[u].slot[1] = user[u].slot[1] \/ Suits(entry', user'[u].slot[1], u),
         \A x \in Entries : HeldIn(cache', user', call'.dns)[x] > 0 /\ HeldIn(cache, user, call.dns)[x] > 0
                              => entry'[x].fam = entry[x].fam,
         call'.dns # Nil => Suits(entry', call'.dns, Me')
  PROVE  FitsInv'
<1>1. ASSUME NEW u \in Users
      PROVE  Suits(entry', user'[u].slot[1], u)
  <2>0. SUFFICES ASSUME user'[u].slot[1] = user[u].slot[1]
                PROVE  Suits(entry', user'[u].slot[1], u)
    OBVIOUS
  <2>1. user'[u].slot[1] = user[u].slot[1] /\ user[u].slot[1] \in Entries \cup {Nil}
    BY <2>0, SlotTyped
  <2>2. CASE user[u].slot[1] = Nil
    BY <2>1, <2>2 DEF Suits
  <2>3. CASE user[u].slot[1] \in Entries
    <3>1. PICK x \in Entries : x = user[u].slot[1]
      BY <2>3
    <3>2. HeldIn(cache', user', call'.dns)[x] > 0 /\ HeldIn(cache, user, call.dns)[x] > 0
      BY <2>1, <3>1, HeldTyped
    <3>3. entry'[x].fam = entry[x].fam /\ Suits(entry, x, u)
      BY <3>1, <3>2 DEF FitsInv
    <3> QED BY <2>1, <3>1, <3>3 DEF Suits
  <2> QED BY <2>1, <2>2, <2>3
<1> QED BY <1>1 DEF FitsInv

\* A step that leaves cache, slots and counts as they were.
LEMMA EntriesKept ==
  ASSUME Types, EntryInv, FitsInv, cache' = cache, \A u \in Users : user'[u].slot = user[u].slot,
         call'.dns = call.dns, call.dns # Nil => Aim' = "deliver" /\ Me' = Me,
         \A e \in Entries : /\ entry'[e].refs = entry[e].refs /\ entry'[e].st = entry[e].st
                             /\ entry'[e].fam = entry[e].fam
  PROVE  EntryInv' /\ FitsInv'
<1>1. HeldIn(cache', user', call'.dns) = HeldIn(cache, user, call.dns)
  BY SlotsSame
<1>2. EntryInv'
  BY <1>1 DEF EntryInv, Counted
<1>3. call'.dns # Nil => Suits(entry', call'.dns, Me')
  <2>1. call.dns \in Entries \cup {Nil}
    BY DEF Types, CallRec
  <2> QED BY <2>1 DEF FitsInv, Suits
<1>4. FitsInv'
  BY <1>3, FitsKept
<1> QED BY <1>2, <1>4

\* The cache after a look.
LEMMA CacheMoves ==
  ASSUME cache \in [Hosts -> Entries \cup {Nil}], OneHost(cache), NEW h \in Hosts,
         NEW d \in Entries \cup {Nil}, d = Nil \/ d = cache[h] \/ \A k \in Hosts : cache[k] # d,
         cache' = [cache EXCEPT ![h] = d]
  PROVE  /\ OneHost(cache')
         /\ \A e \in Entries :
              CachedIn(cache', e) = (CachedIn(cache, e) + Same(d, e)) - Same(cache[h], e)
BY CacheSet

\* An entry leaves the cache.
LEMMA Uncached ==
  ASSUME Types, EntryInv, FitsInv, NEW h \in Hosts,
         cache' = [cache EXCEPT ![h] = Nil], entry' = Drop(entry, cache[h]),
         \A v \in Users : user'[v].slot = user[v].slot, call.dns = Nil, call'.dns = Nil
  PROVE  EntryInv' /\ FitsInv'
<1> DEFINE held == HeldIn(cache, user, Nil)
<1> DEFINE after == HeldIn(cache', user', Nil)
<1>1. /\ entry \in [Entries -> EntryRec] /\ cache \in [Hosts -> Entries \cup {Nil}]
      /\ OneHost(cache) /\ Counted(entry, held) /\ Nil \notin Entries
  BY ResolverAssumption DEF Types, EntryInv, ResolverConstants
<1>2. /\ held \in [Entries -> Nat] /\ \A x \in Entries : cache[h] = x => held[x] > 0
      /\ after = HeldIn(cache', user, Nil)
  <2>1. held \in [Entries -> Nat] /\ \A x \in Entries : cache[h] = x => held[x] > 0
    BY HeldTyped
  <2>2. after = HeldIn(cache', user, Nil)
    BY SlotsSame
  <2> QED BY <2>1, <2>2
<1>3. /\ OneHost(cache')
      /\ \A x \in Entries : CachedIn(cache', x) = (CachedIn(cache, x) + Same(Nil, x)) - Same(cache[h], x)
  <2>1. Nil \in Entries \cup {Nil}
    OBVIOUS
  <2> QED BY <1>1, <2>1, CacheMoves
<1>4. ASSUME NEW x \in Entries
      PROVE  after[x] = Less(held, cache[h])[x]
  <2>1. /\ held[x] = CachedIn(cache, x) + Cardinality(SlotsIn(user, x)) + Same(Nil, x)
        /\ after[x] = CachedIn(cache', x) + Cardinality(SlotsIn(user, x)) + Same(Nil, x)
        /\ CachedIn(cache, x) \in Nat /\ CachedIn(cache', x) \in Nat
        /\ Cardinality(SlotsIn(user, x)) \in Nat
    BY <1>2, HeldIs
  <2>2. Same(Nil, x) = 0 /\ Same(cache[h], x) \in Nat
    BY <1>1 DEF One, Same
  <2>3. CachedIn(cache', x) = CachedIn(cache, x) - Same(cache[h], x)
    <3>1. CachedIn(cache', x) = (CachedIn(cache, x) + Same(Nil, x)) - Same(cache[h], x)
      BY <1>3
    <3> QED BY <3>1, <2>1, <2>2
  <2>4. CASE x = cache[h]
    <3>1. Same(cache[h], x) = 1 /\ Less(held, cache[h])[x] = held[x] - 1
      BY <2>4 DEF One, Same, Less
    <3> QED BY <2>1, <2>2, <2>3, <3>1
  <2>5. CASE x # cache[h]
    <3>1. Same(cache[h], x) = 0 /\ Less(held, cache[h])[x] = held[x]
      BY <2>5 DEF One, Same, Less
    <3> QED BY <2>1, <2>2, <2>3, <3>1
  <2> QED BY <2>4, <2>5
<1> HIDE DEF held, after
<1>5. /\ Counted(entry', Less(held, cache[h]))
      /\ \A x \in Entries : Less(held, cache[h])[x] > 0 => entry'[x].fam = entry[x].fam
  BY <1>1, <1>2, DropCounts
<1>6. Counted(entry', after)
  BY <1>4, <1>5 DEF Counted
<1>7. \A x \in Entries : after[x] > 0 => entry'[x].fam = entry[x].fam
  BY <1>4, <1>5
<1>8. EntryInv'
  BY <1>3, <1>6 DEF EntryInv, after
<1>9. FitsInv'
  BY <1>7, FitsKept DEF after, held
<1> QED BY <1>8, <1>9

\* The cache is asked: what it has is held once more, what it has no use for goes.
LEMMA Looked ==
  ASSUME Types, EntryInv, FitsInv, NEW h \in Hosts, NEW u \in Users, Fetch(h, WantOf[u]),
         \A v \in Users : user'[v].slot = user[v].slot,
         call.dns = Nil, call'.dns = Fetched(h, WantOf[u]),
         call'.dns # Nil => Aim' = "deliver" /\ Me' = u
  PROVE  EntryInv' /\ FitsInv'
<1> DEFINE e == Fetched(h, WantOf[u])
<1> DEFINE held == HeldIn(cache, user, Nil)
<1> DEFINE after == HeldIn(cache', user', call'.dns)
<1>1. /\ entry \in [Entries -> EntryRec] /\ cache \in [Hosts -> Entries \cup {Nil}]
      /\ OneHost(cache) /\ Counted(entry, held) /\ Nil \notin Entries
  BY ResolverAssumption DEF Types, EntryInv, ResolverConstants
<1>2. /\ held \in [Entries -> Nat] /\ \A x \in Entries : cache[h] = x => held[x] > 0
      /\ after = HeldIn(cache', user, e)
  BY HeldTyped, SlotsSame
<1>3. e = Nil \/ (e = cache[h] /\ Usable(e, WantOf[u]))
  BY DEF Fetched
<1>4. cache' = [cache EXCEPT ![h] = e]
  BY DEF Fetch
<1>5. /\ OneHost(cache')
      /\ \A x \in Entries : CachedIn(cache', x) = (CachedIn(cache, x) + Same(e, x)) - Same(cache[h], x)
  <2>1. e \in Entries \cup {Nil} /\ (e = Nil \/ e = cache[h])
    BY <1>1, <1>3
  <2>2. PICK d \in Entries \cup {Nil} : d = e
    BY <2>1
  <2> HIDE DEF e
  <2>3. OneHost(cache') /\ \A x \in Entries :
          CachedIn(cache', x) = (CachedIn(cache, x) + Same(d, x)) - Same(cache[h], x)
    BY <1>1, <1>4, <2>1, <2>2, CacheMoves
  <2> QED BY <2>2, <2>3
<1>6. CASE e = Nil
  <2>1. entry' = Drop(entry, cache[h]) /\ cache' = [cache EXCEPT ![h] = Nil] /\ call'.dns = Nil
    BY <1>4, <1>6 DEF Fetch, Zapped
  <2> HIDE DEF e, held, after
  <2> QED BY <2>1, Uncached
<1>7. CASE e # Nil
  <2>1. e \in Entries /\ e = cache[h] /\ cache' = cache
    BY <1>1, <1>3, <1>4, <1>7
  <2>2. entry' = [entry EXCEPT ![e].refs = @ + 1] /\ entry[e] \in EntryRec
    BY <1>1, <1>7, <2>1 DEF Fetch
  <2>3. /\ entry'[e].refs = entry[e].refs + 1 /\ entry'[e].st = entry[e].st
        /\ \A x \in Entries : entry'[x].fam = entry[x].fam
        /\ \A x \in Entries : x # e => entry'[x] = entry[x]
    BY <1>1, <2>1, <2>2 DEF EntryRec
  <2>4. ASSUME NEW x \in Entries
        PROVE  after[x] = IF x = e THEN held[x] + 1 ELSE held[x]
    <3>1. /\ held[x] = CachedIn(cache, x) + Cardinality(SlotsIn(user, x)) + Same(Nil, x)
          /\ after[x] = CachedIn(cache, x) + Cardinality(SlotsIn(user, x)) + Same(e, x)
          /\ CachedIn(cache, x) \in Nat /\ Cardinality(SlotsIn(user, x)) \in Nat
      BY <1>2, <2>1, HeldIs
    <3>2. Same(Nil, x) = 0 /\ Same(e, x) = IF x = e THEN 1 ELSE 0
      BY <1>1 DEF One, Same
    <3> QED BY <3>1, <3>2
  <2> HIDE DEF held, after
  <2>5. Counted(entry', after)
    <3> SUFFICES ASSUME NEW x \in Entries
                 PROVE  entry'[x].refs = after[x] /\ (entry'[x].st = "live" <=> after[x] > 0)
      BY DEF Counted
    <3>1. entry[x].refs = held[x] /\ (entry[x].st = "live" <=> held[x] > 0) /\ held[x] \in Nat
      BY <1>1, <1>2 DEF Counted
    <3>2. CASE x = e
      <4>1. held[x] > 0
        BY <1>2, <2>1, <3>2
      <4> QED BY <2>3, <2>4, <3>1, <3>2, <4>1
    <3>3. CASE x # e
      BY <2>3, <2>4, <3>1, <3>3
    <3> QED BY <3>2, <3>3
  <2>6. EntryInv'
    BY <1>5, <1>7, <2>5 DEF EntryInv, after
  <2>7. Suits(entry', call'.dns, Me')
    <3>1. WantOf[u] = "any" \/ WantOf[u] \in entry[e].fam
      BY <1>3, <1>7 DEF Usable
    <3> QED BY <1>7, <2>1, <2>3, <3>1 DEF Suits, AsksForIts
  <2>8. FitsInv'
    BY <2>3, <2>7, FitsKept
  <2> QED BY <2>6, <2>8
<1> QED BY <1>6, <1>7

\* A new entry takes the place of what the cache had for its host.
LEMMA Added ==
  ASSUME Types, EntryInv, FitsInv, NEW e \in Calloc(entry), NEW new \in EntryRec,
         new.host \in Hosts, new.st = "live", new.refs \in {1, 2}, AddToCache(entry, e, new),
         \A u \in Users : user'[u].slot = user[u].slot,
         call.dns = Nil, call'.dns = IF new.refs = 2 THEN e ELSE Nil,
         new.refs = 2 => Aim' = "deliver" /\ (AsksForIts(Me') => WantOf[Me'] \in new.fam)
  PROVE  EntryInv' /\ FitsInv'
<1> DEFINE held == HeldIn(cache, user, Nil)
<1> DEFINE after == HeldIn(cache', user', call'.dns)
<1> DEFINE old == cache[new.host]
<1> DEFINE dropped == Drop(entry, old)
<1>1. /\ entry \in [Entries -> EntryRec] /\ cache \in [Hosts -> Entries \cup {Nil}]
      /\ OneHost(cache) /\ Counted(entry, held) /\ Nil \notin Entries
  BY ResolverAssumption DEF Types, EntryInv, ResolverConstants
<1>2. e \in Entries /\ entry[e].st = "unused"
  BY <1>1, Callocated
<1>3. /\ held \in [Entries -> Nat] /\ \A x \in Entries, h \in Hosts : cache[h] = x => held[x] > 0
      /\ after = HeldIn(cache', user, call'.dns)
  <2>1. held \in [Entries -> Nat] /\ \A x \in Entries, h \in Hosts : cache[h] = x => held[x] > 0
    BY HeldTyped
  <2>2. after = HeldIn(cache', user, call'.dns)
    BY SlotsSame
  <2> QED BY <2>1, <2>2
<1>4. held[e] = 0
  BY <1>1, <1>2, <1>3 DEF Counted
<1>5. /\ \A h \in Hosts : cache[h] # e
      /\ old \in Entries \cup {Nil} /\ old # e /\ (old # Nil => held[old] > 0)
  BY <1>1, <1>2, <1>3, <1>4
<1>6. /\ dropped \in [Entries -> EntryRec] /\ Less(held, old) \in [Entries -> Nat]
      /\ Counted(dropped, Less(held, old))
      /\ \A x \in Entries : Less(held, old)[x] > 0 => dropped[x].fam = entry[x].fam
  BY <1>1, <1>3, <1>5, DropCounts
<1>7. entry' = [dropped EXCEPT ![e] = new] /\ cache' = [cache EXCEPT ![new.host] = e]
  BY DEF AddToCache
<1>8. /\ OneHost(cache')
      /\ \A x \in Entries : CachedIn(cache', x) = (CachedIn(cache, x) + Same(e, x)) - Same(old, x)
  BY <1>1, <1>2, <1>5, <1>7, CacheMoves
<1>9. ASSUME NEW x \in Entries
      PROVE  after[x] = IF x = e THEN new.refs ELSE Less(held, old)[x]
  <2>1. /\ held[x] = CachedIn(cache, x) + Cardinality(SlotsIn(user, x)) + Same(Nil, x)
        /\ after[x] = CachedIn(cache', x) + Cardinality(SlotsIn(user, x)) + Same(call'.dns, x)
        /\ CachedIn(cache, x) \in Nat /\ Cardinality(SlotsIn(user, x)) \in Nat
    BY <1>3, HeldIs
  <2>2. CachedIn(cache', x) = (CachedIn(cache, x) + Same(e, x)) - Same(old, x) /\ Same(Nil, x) = 0
    BY <1>1, <1>8 DEF Same, One
  <2>3. CASE x = e
    <3>1. Same(e, x) = 1 /\ Same(old, x) = 0 /\ Same(call'.dns, x) = new.refs - 1
      BY <1>1, <1>2, <1>5, <2>3 DEF Same, One
    <3>2. CachedIn(cache, x) = 0 /\ Cardinality(SlotsIn(user, x)) = 0
      BY <1>4, <2>1, <2>2, <2>3
    <3> QED BY <2>1, <2>2, <2>3, <3>1, <3>2
  <2>4. CASE x # e
    <3>1. Same(e, x) = 0 /\ Same(call'.dns, x) = 0
      BY <1>1, <2>4 DEF Same, One
    <3>2. Less(held, old)[x] = held[x] - Same(old, x)
      <4>1. CASE x = old
        BY <1>3, <4>1 DEF Less, Same, One
      <4>2. CASE x # old
        BY <1>3, <4>2 DEF Less, Same, One
      <4> QED BY <4>1, <4>2
    <3>3. Same(old, x) \in Nat
      BY DEF Same, One
    <3> QED BY <2>1, <2>2, <2>4, <3>1, <3>2, <3>3
  <2> QED BY <2>3, <2>4
<1> HIDE DEF held, after, old, dropped
<1>10. entry'[e] = new /\ \A x \in Entries : x # e => entry'[x] = dropped[x]
  BY <1>2, <1>6, <1>7
<1>11. Counted(entry', after)
  <2> SUFFICES ASSUME NEW x \in Entries
               PROVE  entry'[x].refs = after[x] /\ (entry'[x].st = "live" <=> after[x] > 0)
    BY DEF Counted
  <2>1. CASE x = e
    BY <2>1, <1>9, <1>10
  <2>2. CASE x # e
    BY <2>2, <1>6, <1>9, <1>10 DEF Counted
  <2> QED BY <2>1, <2>2
<1>12. call'.dns # Nil => Aim' = "deliver" /\ Suits(entry', call'.dns, Me')
  BY <1>10 DEF Suits
<1>13. EntryInv'
  BY <1>8, <1>11, <1>12 DEF EntryInv, after
<1>14. ASSUME NEW x \in Entries, after[x] > 0, held[x] > 0
       PROVE  entry'[x].fam = entry[x].fam
  BY <1>4, <1>6, <1>9, <1>10, <1>14
<1>15. FitsInv'
  BY <1>12, <1>14, FitsKept DEF held, after
<1> QED BY <1>13, <1>15

-----------------------------------------------------------------------------
(* Where answers are still to come. *)

\* A call that goes on towards the same end.
LEMMA CallsKept ==
  ASSUME Control, NoAnswerYet, Calls, Me' = Me, call'.mode = call.mode, call'.host = call.host, Aim' = Aim,
         \A u \in Users : user'[u].dns = user[u].dns /\ user'[u].st = user[u].st,
         cache' = cache \/ Aim \notin {"doh", "check", "isDohResolved"},
         \/ \A u \in Users : user'[u].host = user[u].host /\ user'[u].doh = user[u].doh
         \/ Aim \notin Looks
  PROVE  NoAnswerYet' /\ Calls'
<1>1. DohUsers \subseteq Users
  BY ResolverAssumption DEF ResolverConstants
<1>2. Aim \in Looks => Me \in Users
  BY BetweenCalls DEF Control, Looks
<1>3. NoAnswerYet'
  <2>1. Aim' \in Looks => user'[Me'].dns = Nil
    BY <1>2 DEF NoAnswerYet
  <2>2. \A u \in Users : user'[u].st = "resolving" /\ Me' # u => user'[u].dns = Nil
    BY DEF NoAnswerYet
  <2>3. \A u \in DohUsers : user'[u].dns = Nil \/ (Me' = u /\ Aim' = "deliver" /\ call'.mode = "poll")
    BY <1>1 DEF NoAnswerYet
  <2> QED BY <2>1, <2>2, <2>3 DEF NoAnswerYet
<1>4. Calls'
  BY <1>1, <1>2 DEF Calls, Looks
<1> QED BY <1>3, <1>4

\* A call that returns.
LEMMA CallsReturn ==
  ASSUME NoAnswerYet, call' = Idle, \A v \in Users : v # Me => user'[v] = user[v],
         user'[Me].st # "resolving" \/ user'[Me].dns = Nil,
         user'[Me].dns \in {user[Me].dns, Nil},
         Aim = "deliver" /\ call.mode = "poll" => user'[Me].dns = Nil
  PROVE  NoAnswerYet' /\ Calls'
<1>1. DohUsers \subseteq Users /\ Nil \notin Users
  BY ResolverAssumption DEF ResolverConstants
<1>2. Aim' = "none" /\ Me' = Nil
  BY BetweenCalls
<1>3. ASSUME NEW u \in Users, user'[u].st = "resolving"
      PROVE  user'[u].dns = Nil
  BY <1>3 DEF NoAnswerYet
<1>4. ASSUME NEW u \in DohUsers
      PROVE  user'[u].dns = Nil
  BY <1>1 DEF NoAnswerYet
<1>5. NoAnswerYet'
  BY <1>2, <1>3, <1>4 DEF NoAnswerYet, Looks
<1>6. Calls'
  BY <1>1, <1>2 DEF Calls, Looks
<1> QED BY <1>5, <1>6

-----------------------------------------------------------------------------
(* The steps that hand entries on. *)

\* One slot of a handle changes and the call gives up what it has.
LEMMA SlotHeld ==
  ASSUME NEW u \in Users, NEW i \in {1, 2}, NEW d \in Entries \cup {Nil},
         SlotGets(user, user', u, i, d), cache' = cache, NEW x \in Entries
  PROVE  /\ HeldIn(cache', user', Nil)[x] =
              ((HeldIn(cache, user, call.dns)[x] + Same(d, x)) - Same(user[u].slot[i], x)) - Same(call.dns, x)
         /\ HeldIn(cache', user', Nil)[x] \in Nat
<1>1. Cardinality(SlotsIn(user', x)) = (Cardinality(SlotsIn(user, x)) + Same(d, x)) - Same(user[u].slot[i], x)
  BY SlotSet
<1>2. /\ HeldIn(cache', user', Nil)[x] = CachedIn(cache', x) + Cardinality(SlotsIn(user', x)) + Same(Nil, x)
      /\ CachedIn(cache', x) \in Nat /\ Cardinality(SlotsIn(user', x)) \in Nat
  BY HeldIs
<1>3. /\ HeldIn(cache, user, call.dns)[x] = CachedIn(cache, x) + Cardinality(SlotsIn(user, x)) + Same(call.dns, x)
      /\ Cardinality(SlotsIn(user, x)) \in Nat
  BY HeldIs
<1>4. Same(Nil, x) = 0 /\ Same(d, x) \in Nat /\ Same(user[u].slot[i], x) \in Nat /\ Same(call.dns, x) \in Nat
  BY ResolverAssumption DEF Same, One, ResolverConstants
<1> QED BY <1>1, <1>2, <1>3, <1>4

\* What a reference less leaves.
LEMMA LessIs ==
  ASSUME NEW held \in [Entries -> Nat], NEW e, NEW x \in Entries
  PROVE  Less(held, e)[x] = held[x] - Same(e, x)
<1>1. CASE x = e
  BY <1>1 DEF Less, Same, One
<1>2. CASE x # e
  BY <1>2 DEF Less, Same, One
<1> QED BY <1>1, <1>2

\* Two references go, a and b: what is left is counted when both were held.
LEMMA DropTwo ==
  ASSUME NEW ents \in [Entries -> EntryRec], NEW held \in [Entries -> Nat], Counted(ents, held),
         NEW a \in Entries \cup {Nil}, NEW b \in Entries \cup {Nil},
         \A x \in Entries : (held[x] - Same(a, x)) - Same(b, x) \in Nat
  PROVE  /\ Drop(Drop(ents, a), b) \in [Entries -> EntryRec]
         /\ Less(Less(held, a), b) \in [Entries -> Nat]
         /\ Counted(Drop(Drop(ents, a), b), Less(Less(held, a), b))
         /\ \A x \in Entries : Less(Less(held, a), b)[x] > 0 => Drop(Drop(ents, a), b)[x].fam = ents[x].fam
         /\ \A x \in Entries : Less(Less(held, a), b)[x] = (held[x] - Same(a, x)) - Same(b, x)
<1> DEFINE less == Less(held, a)
<1> DEFINE rest == Drop(ents, a)
<1>0. \A x \in Entries : /\ Same(a, x) \in Nat /\ Same(b, x) \in Nat
                         /\ (a = x => Same(a, x) = 1) /\ (b = x => Same(b, x) = 1)
  BY DEF Same, One
<1>1. a # Nil => held[a] > 0
  <2> SUFFICES ASSUME a # Nil PROVE held[a] > 0
    OBVIOUS
  <2>1. a \in Entries /\ held[a] \in Nat
    OBVIOUS
  <2>2. Same(a, a) = 1 /\ Same(b, a) \in Nat /\ (held[a] - Same(a, a)) - Same(b, a) \in Nat
    BY <1>0, <2>1
  <2> QED BY <2>1, <2>2
<1>2. /\ rest \in [Entries -> EntryRec] /\ less \in [Entries -> Nat] /\ Counted(rest, less)
      /\ \A x \in Entries : less[x] > 0 => rest[x].fam = ents[x].fam
  BY <1>1, DropCounts
<1>3. \A x \in Entries : less[x] = held[x] - Same(a, x)
  BY LessIs
<1> HIDE DEF less, rest
<1>4. b # Nil => less[b] > 0
  <2> SUFFICES ASSUME b # Nil PROVE less[b] > 0
    OBVIOUS
  <2>1. b \in Entries /\ less[b] \in Nat
    BY <1>2
  <2>2. Same(b, b) = 1 /\ less[b] - Same(b, b) \in Nat
    BY <1>0, <1>3, <2>1
  <2> QED BY <2>1, <2>2
<1>5. /\ Drop(rest, b) \in [Entries -> EntryRec] /\ Less(less, b) \in [Entries -> Nat]
      /\ Counted(Drop(rest, b), Less(less, b))
      /\ \A x \in Entries : Less(less, b)[x] > 0 => Drop(rest, b)[x].fam = rest[x].fam
  BY <1>2, <1>4, DropCounts
<1>6. \A x \in Entries : Less(less, b)[x] = less[x] - Same(b, x)
  BY <1>2, LessIs
<1>7. \A x \in Entries : Less(less, b)[x] > 0 => less[x] > 0
  BY <1>0, <1>2, <1>5, <1>6
<1>8. \A x \in Entries : Less(less, b)[x] > 0 => Drop(rest, b)[x].fam = ents[x].fam
  BY <1>2, <1>5, <1>7
<1>9. \A x \in Entries : Less(less, b)[x] = (held[x] - Same(a, x)) - Same(b, x)
  BY <1>3, <1>6
<1> QED BY <1>5, <1>8, <1>9 DEF less, rest

\* A call returns: a slot of its handle gets d, and of slot, answer and what the
\* slot had before the references left over, a and b, are given up.
LEMMA SlotSettles ==
  ASSUME Types, EntryInv, FitsInv, NEW u \in Users, NEW i \in {1, 2}, NEW d \in Entries \cup {Nil},
         SlotGets(user, user', u, i, d), cache' = cache, call'.dns = Nil,
         i = 1 => d = user[u].slot[1] \/ Suits(entry, d, u),
         NEW a \in Entries \cup {Nil}, NEW b \in Entries \cup {Nil}, entry' = Drop(Drop(entry, a), b),
         \A x \in Entries :
           Same(a, x) + Same(b, x) + Same(d, x) = Same(user[u].slot[i], x) + Same(call.dns, x)
  PROVE  EntryInv' /\ FitsInv'
<1> DEFINE held == HeldIn(cache, user, call.dns)
<1> DEFINE after == HeldIn(cache', user', Nil)
<1> DEFINE less == Less(Less(held, a), b)
<1>1. /\ entry \in [Entries -> EntryRec] /\ OneHost(cache) /\ Counted(entry, held)
      /\ Nil \notin Entries
  BY ResolverAssumption DEF Types, EntryInv, ResolverConstants
<1>2. held \in [Entries -> Nat]
  BY HeldTyped
<1>3. ASSUME NEW x \in Entries
      PROVE  after[x] = (held[x] - Same(a, x)) - Same(b, x) /\ after[x] \in Nat
  <2>1. /\ after[x] = ((held[x] + Same(d, x)) - Same(user[u].slot[i], x)) - Same(call.dns, x)
        /\ after[x] \in Nat
    BY SlotHeld
  <2>2. /\ Same(a, x) \in Nat /\ Same(b, x) \in Nat /\ Same(d, x) \in Nat
        /\ Same(user[u].slot[i], x) \in Nat /\ Same(call.dns, x) \in Nat
    BY DEF Same, One
  <2>3. Same(a, x) + Same(b, x) + Same(d, x) = Same(user[u].slot[i], x) + Same(call.dns, x)
    OBVIOUS
  <2>4. held[x] \in Nat
    BY <1>2
  <2> HIDE DEF held, after
  <2> QED BY <2>1, <2>2, <2>3, <2>4
<1>4. \A x \in Entries : (held[x] - Same(a, x)) - Same(b, x) \in Nat
  BY <1>3
<1> HIDE DEF held
<1>5. /\ Counted(entry', less)
      /\ \A x \in Entries : less[x] > 0 => entry'[x].fam = entry[x].fam
      /\ \A x \in Entries : less[x] = (held[x] - Same(a, x)) - Same(b, x)
  BY <1>1, <1>2, <1>4, DropTwo
<1>6. \A x \in Entries : after[x] = less[x]
  BY <1>3, <1>5
<1> HIDE DEF after, less
<1>7. Counted(entry', after)
  BY <1>5, <1>6 DEF Counted
<1>8. \A x \in Entries : after[x] > 0 => entry'[x].fam = entry[x].fam
  BY <1>5, <1>6
<1>9. EntryInv'
  BY <1>1, <1>7 DEF EntryInv, after
<1>10. ASSUME NEW v \in Users
       PROVE  user'[v].slot[1] = user[v].slot[1] \/ Suits(entry', user'[v].slot[1], v)
  <2>1. user'[v].slot[1] = IF v = u /\ 1 = i THEN d ELSE user[v].slot[1]
    BY DEF SlotGets
  <2>2. CASE v = u /\ i = 1 /\ d # user[u].slot[1] /\ d # Nil
    <3>1. d \in Entries /\ user'[u].slot[1] = d /\ Suits(entry, d, u)
      BY <2>1, <2>2
    <3>2. after[d] > 0
      BY <2>1, <2>2, <3>1, HeldTyped DEF after
    <3>3. entry'[d].fam = entry[d].fam
      BY <1>8, <3>1, <3>2
    <3> QED BY <2>2, <3>1, <3>3 DEF Suits
  <2>3. CASE d = Nil /\ v = u /\ i = 1
    BY <2>1, <2>3 DEF Suits
  <2> QED BY <2>1, <2>2, <2>3
<1>11. FitsInv'
  BY <1>8, <1>10, FitsKept DEF after, held
<1> QED BY <1>9, <1>11

\* The answer goes where the connection keeps it, or is given up.
LEMMA DeliverKeeps ==
  ASSUME LInv, EInv, Deliver
  PROVE  EInv'
<1>1. At("deliver") /\ "deliver" \in LastSteps /\ cache' = cache /\ Holding(Nil, <<>>)
  BY DEF Deliver, LastSteps
<1>2. /\ Me \in Users /\ user[Me] \in UserRec /\ user \in [Users -> UserRec] /\ call.dns \in Entries \cup {Nil}
      /\ Control /\ Types /\ Aim = "deliver"
  BY <1>1, LastIsQuiet DEF LInv, Types
<1>3. call' = Idle
  BY <1>1, <1>2, LastOne
<1>4. call'.dns = Nil
  BY <1>3, BetweenCalls
<1>5. NoAnswerYet /\ EntryInv /\ FitsInv
  BY DEF EInv
<1> DEFINE i == IF call.mode = "blocking" THEN 2 ELSE 1
<1> DEFINE settled == [user EXCEPT ![Me].dns = IF call.mode = "poll" THEN Nil ELSE @]
<1> DEFINE slot == user[Me].slot[i]
<1>6. i \in {1, 2} /\ slot \in Entries \cup {Nil}
  BY <1>2 DEF UserRec, Slots
<1>7. /\ \A v \in Users : v # Me => settled[v] = user[v]
      /\ settled \in [Users -> UserRec]
      /\ settled[Me].slot = user[Me].slot
      /\ settled[Me].dns = IF call.mode = "poll" THEN Nil ELSE user[Me].dns
  <2>1. [user[Me] EXCEPT !.dns = IF call.mode = "poll" THEN Nil ELSE @] \in UserRec
    BY <1>2 DEF UserRec
  <2> QED BY <2>1, <1>2 DEF UserRec
<1>8. \/ /\ entry' = Drop(entry, slot)
         /\ user' = [settled EXCEPT ![Me].slot[i] = call.dns, ![Me].st = "resolved"]
      \/ /\ entry' = Drop(Drop(entry, slot), call.dns)
         /\ user' = [settled EXCEPT ![Me].slot[i] = Nil,
                         ![Me].st = IF call.mode = "blocking" THEN "ending" ELSE "idle"]
      \/ /\ call.mode = "blocking"
         /\ entry' = Drop(entry, call.dns)
         /\ UNCHANGED user
  BY DEF Deliver
<1>9. i = 1 => Suits(entry, call.dns, Me)
  BY <1>5 DEF FitsInv, Suits
<1> HIDE DEF i, settled, slot
<1>10. ASSUME NEW d \in Entries \cup {Nil}, NEW st \in {"resolved", "ending", "idle"},
              user' = [settled EXCEPT ![Me].slot[i] = d, ![Me].st = st]
       PROVE  /\ SlotGets(user, user', Me, i, d) /\ \A v \in Users : v # Me => user'[v] = user[v]
              /\ user'[Me].st # "resolving"
              /\ user'[Me].dns = IF call.mode = "poll" THEN Nil ELSE user[Me].dns
  <2>1. settled[Me] \in UserRec /\ settled[Me].slot \in Slots
    BY <1>2, <1>7 DEF UserRec
  <2> DEFINE moved == [settled[Me].slot EXCEPT ![i] = d]
  <2>2. moved \in Slots /\ \A j \in {1, 2} : moved[j] = IF j = i THEN d ELSE user[Me].slot[j]
    BY <2>1, <1>6, <1>7 DEF Slots
  <2> DEFINE new == [settled[Me] EXCEPT !.slot = moved, !.st = st]
  <2>3. user' = [settled EXCEPT ![Me] = new]
    BY <1>10
  <2> HIDE DEF moved
  <2>4. new.slot = moved /\ new.st = st /\ new.dns = settled[Me].dns
    BY <2>1, <2>2 DEF UserRec
  <2> HIDE DEF new
  <2>5. user'[Me] = new /\ \A v \in Users : v # Me => user'[v] = user[v]
    BY <2>3, <1>2, <1>7
  <2>6. SlotGets(user, user', Me, i, d)
    BY <2>2, <2>4, <2>5 DEF SlotGets
  <2> QED BY <2>4, <2>5, <2>6, <1>7
<1>11. ASSUME SlotGets(user, user', Me, i, call.dns), entry' = Drop(entry, slot)
       PROVE  EntryInv' /\ FitsInv'
  <2>1. entry' = Drop(Drop(entry, slot), Nil)
    BY <1>11 DEF Drop
  <2>2. Nil \in Entries \cup {Nil} /\ Nil \notin Entries
    BY ResolverAssumption DEF ResolverConstants
  <2>3. \A x \in Entries :
          Same(slot, x) + Same(Nil, x) + Same(call.dns, x) = Same(user[Me].slot[i], x) + Same(call.dns, x)
    BY <2>2 DEF Same, One, slot
  <2> QED BY <1>1, <1>2, <1>4, <1>5, <1>6, <1>9, <1>11, <2>1, <2>2, <2>3, SlotSettles DEF slot
<1>12. ASSUME SlotGets(user, user', Me, i, Nil), entry' = Drop(Drop(entry, slot), call.dns)
       PROVE  EntryInv' /\ FitsInv'
  <2>1. Nil \in Entries \cup {Nil} /\ Nil \notin Entries /\ Suits(entry, Nil, Me)
    BY ResolverAssumption DEF ResolverConstants, Suits
  <2>2. \A x \in Entries :
          Same(slot, x) + Same(call.dns, x) + Same(Nil, x) = Same(user[Me].slot[i], x) + Same(call.dns, x)
    BY <2>1 DEF Same, One, slot
  <2> QED BY <1>1, <1>2, <1>4, <1>5, <1>6, <1>12, <2>1, <2>2, SlotSettles DEF slot
<1>13. ASSUME UNCHANGED user, entry' = Drop(entry, call.dns)
       PROVE  EntryInv' /\ FitsInv'
  <2>1. entry' = Drop(Drop(entry, call.dns), Nil)
    BY <1>13 DEF Drop
  <2>2. Nil \in Entries \cup {Nil} /\ Nil \notin Entries
    BY ResolverAssumption DEF ResolverConstants
  <2>3. \A x \in Entries :
          Same(call.dns, x) + Same(Nil, x) + Same(slot, x) = Same(user[Me].slot[i], x) + Same(call.dns, x)
    BY <2>2 DEF Same, One, slot
  <2>4. SlotGets(user, user', Me, i, slot)
    BY <1>13, <1>6 DEF SlotGets, slot
  <2>5. i = 1 => slot = user[Me].slot[1] \/ Suits(entry, slot, Me)
    BY DEF slot
  <2> QED BY <1>1, <1>2, <1>4, <1>5, <1>6, <2>1, <2>2, <2>3, <2>4, <2>5, SlotSettles
<1>14. EntryInv' /\ FitsInv' /\ NoAnswerYet' /\ Calls'
  <2>1. CASE /\ entry' = Drop(entry, slot)
             /\ user' = [settled EXCEPT ![Me].slot[i] = call.dns, ![Me].st = "resolved"]
    <3>1. /\ SlotGets(user, user', Me, i, call.dns) /\ \A v \in Users : v # Me => user'[v] = user[v]
          /\ user'[Me].st # "resolving"
          /\ user'[Me].dns = IF call.mode = "poll" THEN Nil ELSE user[Me].dns
      BY <2>1, <1>2, <1>10
    <3>2. NoAnswerYet' /\ Calls'
      BY <3>1, <1>3, <1>5, CallsReturn
    <3> QED BY <2>1, <3>1, <3>2, <1>11
  <2>2. CASE /\ entry' = Drop(Drop(entry, slot), call.dns)
             /\ user' = [settled EXCEPT ![Me].slot[i] = Nil,
                         ![Me].st = IF call.mode = "blocking" THEN "ending" ELSE "idle"]
    <3>1. PICK st \in {"resolved", "ending", "idle"} :
             st = IF call.mode = "blocking" THEN "ending" ELSE "idle"
      OBVIOUS
    <3>2. user' = [settled EXCEPT ![Me].slot[i] = Nil, ![Me].st = st] /\ Nil \in Entries \cup {Nil}
      BY <2>2, <3>1
    <3>3. /\ SlotGets(user, user', Me, i, Nil) /\ \A v \in Users : v # Me => user'[v] = user[v]
          /\ user'[Me].st # "resolving"
          /\ user'[Me].dns = IF call.mode = "poll" THEN Nil ELSE user[Me].dns
      BY <3>2, <1>10
    <3>4. NoAnswerYet' /\ Calls'
      BY <3>3, <1>3, <1>5, CallsReturn
    <3> QED BY <2>2, <3>3, <3>4, <1>12
  <2>3. CASE call.mode = "blocking" /\ entry' = Drop(entry, call.dns) /\ UNCHANGED user
    <3>1. user[Me].st = "resolved"
      BY <2>3, <1>2 DEF Control
    <3>2. NoAnswerYet' /\ Calls'
      BY <2>3, <3>1, <1>3, <1>5, CallsReturn
    <3> QED BY <2>3, <3>2, <1>13
  <2> QED BY <2>1, <2>2, <2>3, <1>8
<1> QED BY <1>14 DEF EInv

\* A call fails, or leaves everything as it is.
LEMMA LostKeeps ==
  ASSUME LInv, EInv, Lost \/ KeepAll
  PROVE  EInv'
<1>1. PICK s \in {"lost", "keep"} : At(s)
  BY DEF Lost, KeepAll
<1>2. s \in LastSteps /\ Holding(call.dns, <<>>) /\ UNCHANGED <<entry, cache>>
  BY DEF LastSteps, Lost, KeepAll, Then
<1>3. Me \in Users /\ Aim = s /\ Types /\ user[Me] \in UserRec /\ Control
  BY <1>1, <1>2, LastIsQuiet DEF LInv, Types
<1>4. PICK st \in {"idle", "ending"} : user' = [user EXCEPT ![Me].st = st]
  BY DEF Lost, KeepAll
<1>5. /\ \A v \in Users : v # Me => user'[v] = user[v]
      /\ user'[Me].st # "resolving" /\ user'[Me].dns = user[Me].dns /\ user'[Me].slot = user[Me].slot
  BY <1>3, <1>4 DEF Types, UserRec
<1>6. call' = Idle /\ call.dns = Nil
  BY <1>1, <1>2, <1>3, LastOne DEF EInv, EntryInv
<1>7. NoAnswerYet' /\ Calls'
  BY <1>1, <1>3, <1>5, <1>6, CallsReturn DEF EInv
<1>8. call'.dns = call.dns
  BY <1>6, BetweenCalls
<1>9. EntryInv' /\ FitsInv'
  BY <1>2, <1>3, <1>5, <1>6, <1>8, EntriesKept DEF EInv
<1> QED BY <1>7, <1>9 DEF EInv

\* The entries pruned from the cache, whoever else holds them.
LEMMA Pruned ==
  ASSUME NEW hosts \in SUBSET Hosts, cache \in [Hosts -> Entries \cup {Nil}], OneHost(cache),
         cache' = [h \in Hosts |-> IF h \in hosts THEN Nil ELSE cache[h]]
  PROVE  /\ OneHost(cache')
         /\ \A e \in Entries : CachedIn(cache', e) = IF \E h \in hosts : cache[h] = e THEN 0 ELSE CachedIn(cache, e)
         /\ \A e \in Entries : (\E h \in hosts : cache[h] = e) => CachedIn(cache, e) = 1
<1>1. Nil \notin Entries /\ \A h \in Hosts : cache'[h] = IF h \in hosts THEN Nil ELSE cache[h]
  BY ResolverAssumption DEF ResolverConstants
<1>2. OneHost(cache')
  BY <1>1 DEF OneHost
<1>3. ASSUME NEW e \in Entries
      PROVE  CachedIn(cache', e) = IF \E h \in hosts : cache[h] = e THEN 0 ELSE CachedIn(cache, e)
  <2>1. CASE \E h \in hosts : cache[h] = e
    <3>1. ~(\E k \in Hosts : cache'[k] = e)
      BY <1>1, <2>1 DEF OneHost
    <3> QED BY <2>1, <3>1 DEF CachedIn, One
  <2>2. CASE ~(\E h \in hosts : cache[h] = e)
    <3>1. (\E k \in Hosts : cache'[k] = e) <=> (\E k \in Hosts : cache[k] = e)
      BY <1>1, <2>2
    <3> QED BY <2>2, <3>1 DEF CachedIn, One
  <2> QED BY <2>1, <2>2
<1>4. ASSUME NEW e \in Entries, \E h \in hosts : cache[h] = e
      PROVE  CachedIn(cache, e) = 1
  BY <1>4 DEF CachedIn, One
<1> QED BY <1>2, <1>3, <1>4

\* A handle gives up both its slots.
LEMMA BothSlots ==
  ASSUME NEW usr, NEW mid, NEW new, NEW u \in Users,
         SlotGets(usr, mid, u, 1, Nil), SlotGets(mid, new, u, 2, Nil), NEW x \in Entries
  PROVE  /\ Cardinality(SlotsIn(new, x))
              = (Cardinality(SlotsIn(usr, x)) - Same(usr[u].slot[1], x)) - Same(usr[u].slot[2], x)
         /\ Cardinality(SlotsIn(new, x)) \in Nat
<1>1. Same(Nil, x) = 0
  BY ResolverAssumption DEF ResolverConstants, Same, One
<1>2. mid[u].slot[2] = usr[u].slot[2]
  BY DEF SlotGets
<1>3. Cardinality(SlotsIn(mid, x)) = (Cardinality(SlotsIn(usr, x)) + Same(Nil, x)) - Same(usr[u].slot[1], x)
  BY SlotSet
<1>4. Cardinality(SlotsIn(new, x)) = (Cardinality(SlotsIn(mid, x)) + Same(Nil, x)) - Same(mid[u].slot[2], x)
  <2>1. \A a, b : SlotGets(a, b, u, 2, Nil)
          => Cardinality(SlotsIn(b, x)) = (Cardinality(SlotsIn(a, x)) + Same(Nil, x)) - Same(a[u].slot[2], x)
    BY SlotSet
  <2> QED BY <2>1
<1>5. /\ Cardinality(SlotsIn(usr, x)) \in Nat /\ Cardinality(SlotsIn(mid, x)) \in Nat
      /\ Cardinality(SlotsIn(new, x)) \in Nat
  BY SlotsFinite
<1>6. Same(usr[u].slot[1], x) \in Nat /\ Same(usr[u].slot[2], x) \in Nat
  BY DEF Same, One
<1> QED BY <1>1, <1>2, <1>3, <1>4, <1>5, <1>6

\* Both references of a transfer are given up, and stale entries leave the cache.
LEMMA ReleaseKeeps ==
  ASSUME LInv, EInv, Release
  PROVE  EInv'
<1> DEFINE pruned == IF call.mode = "done" THEN StaleHosts ELSE {}
<1> DEFINE goes(e) == \E h \in pruned : cache[h] = e
<1>1. /\ At("release") /\ "release" \in LastSteps /\ Holding(call.dns, <<>>)
      /\ cache' = [h \in Hosts |-> IF h \in pruned THEN Nil ELSE cache[h]]
      /\ entry' = [e \in Entries |-> IF goes(e) THEN Drop(Released, e)[e] ELSE Released[e]]
      /\ user' = [Forgotten EXCEPT ![Me].slot = <<Nil, Nil>>,
                               ![Me].st = IF call.mode = "close" THEN "closed" ELSE "idle"]
  BY DEF Release, LastSteps, Then
<1>2. /\ Me \in Users /\ user[Me] \in UserRec /\ user \in [Users -> UserRec] /\ Control /\ Aim = "release"
      /\ entry \in [Entries -> EntryRec] /\ cache \in [Hosts -> Entries \cup {Nil}] /\ Types
  BY <1>1, LastIsQuiet DEF LInv, Types
<1>3. /\ NoAnswerYet /\ EntryInv /\ FitsInv /\ OneHost(cache) /\ call.dns = Nil
      /\ Nil \notin Entries
  BY <1>2, ResolverAssumption DEF EInv, EntryInv, ResolverConstants
<1>4. call' = Idle /\ call'.dns = Nil
  BY <1>1, <1>2, LastOne, BetweenCalls
<1>5. pruned \in SUBSET Hosts
  BY DEF StaleHosts
<1> HIDE DEF pruned
<1> DEFINE s1 == user[Me].slot[1]
<1> DEFINE s2 == user[Me].slot[2]
<1>6. s1 \in Entries \cup {Nil} /\ s2 \in Entries \cup {Nil}
  BY <1>2, SlotTyped
<1>7. /\ user'[Me].st # "resolving" /\ user'[Me].dns = user[Me].dns
      /\ user'[Me].slot = <<Nil, Nil>> /\ \A v \in Users : v # Me => user'[v] = user[v]
  <2>1. /\ Forgotten \in [Users -> UserRec] /\ Forgotten[Me] \in UserRec
        /\ \A u \in Users : u # Me => Forgotten[u] = user[u]
        /\ Forgotten[Me].dns = user[Me].dns
    BY <1>2, ForgottenIs
  <2>2. PICK st \in {"closed", "idle"} : user' = [Forgotten EXCEPT ![Me].slot = <<Nil, Nil>>, ![Me].st = st]
    BY <1>1
  <2> DEFINE new == [Forgotten[Me] EXCEPT !.slot = <<Nil, Nil>>, !.st = st]
  <2>3. new.slot = <<Nil, Nil>> /\ new.st = st /\ new.dns = Forgotten[Me].dns
    BY <2>1 DEF UserRec
  <2>4. user' = [Forgotten EXCEPT ![Me] = new]
    BY <2>2
  <2> HIDE DEF new
  <2> QED BY <2>1, <2>3, <2>4, <1>2
<1>8. NoAnswerYet' /\ Calls'
  BY <1>2, <1>3, <1>4, <1>7, CallsReturn
<1> DEFINE mid == [user EXCEPT ![Me].slot = <<Nil, user[Me].slot[2]>>]
<1>9. SlotGets(user, mid, Me, 1, Nil) /\ SlotGets(mid, user', Me, 2, Nil)
  <2>1. mid[Me].slot = <<Nil, user[Me].slot[2]>> /\ \A v \in Users : v # Me => mid[v] = user[v]
    BY <1>2 DEF UserRec
  <2> HIDE DEF mid
  <2>2. \A v \in Users, j \in {1, 2} : mid[v].slot[j] = IF v = Me /\ j = 1 THEN Nil ELSE user[v].slot[j]
    BY <2>1
  <2>3. \A v \in Users, j \in {1, 2} : user'[v].slot[j] = IF v = Me /\ j = 2 THEN Nil ELSE mid[v].slot[j]
    BY <1>7, <2>1
  <2> QED BY <2>2, <2>3 DEF SlotGets
<1> HIDE DEF mid
<1> DEFINE held == HeldIn(cache, user, Nil)
<1> DEFINE left == HeldIn(cache, user', Nil)
<1> DEFINE after == HeldIn(cache', user', Nil)
<1>10. ASSUME NEW x \in Entries
       PROVE  left[x] = (held[x] - Same(s1, x)) - Same(s2, x) /\ left[x] \in Nat
  <2>1. /\ Cardinality(SlotsIn(user', x)) = (Cardinality(SlotsIn(user, x)) - Same(s1, x)) - Same(s2, x)
        /\ Cardinality(SlotsIn(user', x)) \in Nat
    BY <1>2, <1>9, BothSlots
  <2>2. /\ held[x] = CachedIn(cache, x) + Cardinality(SlotsIn(user, x)) + Same(Nil, x)
        /\ CachedIn(cache, x) \in Nat /\ Cardinality(SlotsIn(user, x)) \in Nat
    BY HeldIs
  <2>3. left[x] = CachedIn(cache, x) + Cardinality(SlotsIn(user', x)) + Same(Nil, x)
    BY HeldIs
  <2>4. Same(Nil, x) \in Nat /\ Same(s1, x) \in Nat /\ Same(s2, x) \in Nat
    BY DEF Same, One
  <2> HIDE DEF held, left, s1, s2
  <2> QED BY <2>1, <2>2, <2>3, <2>4
<1>11. Counted(entry, held) /\ held \in [Entries -> Nat]
  BY <1>3, HeldTyped DEF EntryInv
<1> DEFINE less == Less(Less(held, s1), s2)
<1>12. /\ Released \in [Entries -> EntryRec] /\ less \in [Entries -> Nat] /\ Counted(Released, less)
       /\ \A x \in Entries : less[x] > 0 => Released[x].fam = entry[x].fam
       /\ \A x \in Entries : less[x] = (held[x] - Same(s1, x)) - Same(s2, x)
  <2> HIDE DEF held
  <2>1. \A x \in Entries : (held[x] - Same(s1, x)) - Same(s2, x) \in Nat
    BY <1>10 DEF held
  <2>2. Released = Drop(Drop(entry, s1), s2)
    BY DEF Released
  <2> HIDE DEF s1, s2
  <2> QED BY <1>2, <1>6, <1>11, <2>1, <2>2, DropTwo
<1>13. \A x \in Entries : left[x] = less[x]
  BY <1>10, <1>12
<1>14. /\ OneHost(cache')
       /\ \A e \in Entries : CachedIn(cache', e) = IF goes(e) THEN 0 ELSE CachedIn(cache, e)
       /\ \A e \in Entries : goes(e) => CachedIn(cache, e) = 1
  BY <1>1, <1>2, <1>3, <1>5, Pruned
<1> HIDE DEF goes
<1>15. ASSUME NEW x \in Entries
       PROVE  after[x] = IF goes(x) THEN less[x] - 1 ELSE less[x]
  <2>1. /\ after[x] = CachedIn(cache', x) + Cardinality(SlotsIn(user', x)) + Same(Nil, x)
        /\ Cardinality(SlotsIn(user', x)) \in Nat
    BY HeldIs
  <2>2. /\ left[x] = CachedIn(cache, x) + Cardinality(SlotsIn(user', x)) + Same(Nil, x)
        /\ CachedIn(cache, x) \in Nat /\ Same(Nil, x) \in Nat
    BY HeldIs
  <2>3. left[x] = less[x]
    BY <1>13
  <2> HIDE DEF after, left, less
  <2> QED BY <2>1, <2>2, <2>3, <1>14
<1>16. \A x \in Entries : after[x] \in Nat /\ (goes(x) => less[x] > 0)
  <2>1. \A x \in Entries : after[x] \in Nat
    BY HeldTyped
  <2> HIDE DEF after, less
  <2>2. \A x \in Entries : less[x] \in Nat
    BY <1>12
  <2> QED BY <2>1, <2>2, <1>15
<1> HIDE DEF after, left, held, less
<1>17. ASSUME NEW x \in Entries
       PROVE  /\ entry'[x].refs = after[x] /\ (entry'[x].st = "live" <=> after[x] > 0)
              /\ after[x] > 0 => entry'[x].fam = entry[x].fam
  <2>1. CASE goes(x)
    <3>1. entry'[x] = Drop(Released, x)[x]
      BY <1>1, <2>1
    <3>2. /\ Counted(Drop(Released, x), Less(less, x))
          /\ Less(less, x)[x] > 0 => Drop(Released, x)[x].fam = Released[x].fam
      BY <1>12, <1>16, <2>1, DropCounts
    <3>3. Less(less, x)[x] = after[x] /\ after[x] \in Nat /\ less[x] \in Nat
      BY <1>12, <1>15, <1>16, <2>1 DEF Less
    <3>4. /\ Drop(Released, x)[x].refs = Less(less, x)[x]
          /\ Drop(Released, x)[x].st = "live" <=> Less(less, x)[x] > 0
      BY <3>2 DEF Counted
    <3> QED BY <3>1, <3>2, <3>3, <3>4, <1>12, <1>16, <2>1
  <2>2. CASE ~goes(x)
    <3>1. entry'[x] = Released[x]
      BY <1>1, <2>2
    <3> QED BY <3>1, <2>2, <1>12, <1>15 DEF Counted
  <2> QED BY <2>1, <2>2
<1>18. EntryInv'
  BY <1>4, <1>14, <1>17 DEF EntryInv, Counted, after
<1>19. ASSUME NEW u \in Users
       PROVE  user'[u].slot[1] = user[u].slot[1] \/ Suits(entry', user'[u].slot[1], u)
  BY <1>7 DEF Suits
<1>20. FitsInv'
  BY <1>2, <1>3, <1>4, <1>17, <1>19, FitsKept DEF after, held
<1> QED BY <1>8, <1>18, <1>20 DEF EInv

\* A step that hands no entry on.
LEMMA QuietKeeps ==
  ASSUME LInv, EInv, UNCHANGED <<entry, cache>>,
         Me' = Me, call'.mode = call.mode, call'.host = call.host, Aim' = Aim, call'.dns = call.dns,
         \A u \in Users : /\ user'[u].dns = user[u].dns /\ user'[u].st = user[u].st
                          /\ user'[u].slot = user[u].slot,
         \/ \A u \in Users : user'[u].host = user[u].host /\ user'[u].doh = user[u].doh
         \/ Aim \notin Looks
  PROVE  EInv'
<1>1. Types /\ Control /\ NoAnswerYet /\ Calls /\ EntryInv /\ FitsInv
  BY DEF LInv, EInv
<1>2. NoAnswerYet' /\ Calls'
  BY <1>1, CallsKept
<1>3. call.dns # Nil => Aim' = "deliver" /\ Me' = Me
  BY <1>1 DEF EntryInv
<1>4. EntryInv' /\ FitsInv'
  BY <1>1, <1>3, EntriesKept
<1> QED BY <1>2, <1>4 DEF EInv

\* A call that has more to do, with the same end.
LEMMA SameAim ==
  ASSUME LInv, NEW s, s \notin LastSteps, At(s), NEW d \in BOOLEAN,
         \/ Continue(Tail(call.todo), d, call.dns)
         \/ s = "unlink" /\ Continue(<<"free">> \o Tail(call.todo), d, call.dns)
  PROVE  /\ Me' = Me /\ call'.mode = call.mode /\ call'.host = call.host /\ Aim' = Aim
         /\ call'.dns = call.dns /\ Me \in Users
         /\ Aim \in Looks => s = "joinAlways"
<1> DEFINE p == Tail(call.todo)
<1>1. Control /\ call \in CallRec /\ call.dns \in Entries \cup {Nil}
  BY DEF LInv, Types, CallRec
<1>2. Me \in Users /\ Ordered(p) /\ p[Len(p)] = Aim /\ Follows(s, Head(p))
  BY <1>1, AtStep
<1>3. Aim \in Looks => s = "joinAlways"
  BY <1>1, LooksLate
<1> HIDE DEF p
<1>4. CASE Continue(p, d, call.dns)
  BY <1>1, <1>2, <1>3, <1>4, GoesOn
<1>5. CASE s = "unlink" /\ Continue(<<"free">> \o p, d, call.dns)
  <2> DEFINE q == <<"free">> \o p
  <2>1. p[Len(p)] # "awaited"
    BY <1>2, <1>3, <1>5 DEF Looks
  <2>2. Ordered(q) /\ q[Len(q)] = Aim
    BY <1>2, <1>5, <2>1, OrderedFree
  <2>3. Continue(q, d, call.dns)
    BY <1>5
  <2> HIDE DEF q
  <2> QED BY <2>2, <2>3, <1>1, <1>2, <1>3, <1>5, GoesOn
<1> QED BY <1>4, <1>5 DEF p

\* What the steps of destroying and shutting down a lookup have in common.
LEMMA QuietStep ==
  ASSUME LInv, EInv, UNCHANGED <<entry, cache>>, NEW s, s \notin LastSteps, At(s), NEW d \in BOOLEAN,
         \/ Continue(Tail(call.todo), d, call.dns)
         \/ s = "unlink" /\ Continue(<<"free">> \o Tail(call.todo), d, call.dns),
         \/ user' = user
         \/ user' = Forgotten /\ s # "joinAlways"
         \/ user' = [user EXCEPT ![Me].ctx = Nil]
  PROVE  EInv'
<1>1. /\ Me' = Me /\ call'.mode = call.mode /\ call'.host = call.host /\ Aim' = Aim
      /\ call'.dns = call.dns /\ Me \in Users
      /\ Aim \in Looks => s = "joinAlways"
  BY SameAim
<1>2. user \in [Users -> UserRec]
  BY DEF LInv, Types
<1>3. /\ \A u \in Users : /\ user'[u].dns = user[u].dns /\ user'[u].st = user[u].st
                          /\ user'[u].slot = user[u].slot
      /\ \/ \A u \in Users : user'[u].host = user[u].host /\ user'[u].doh = user[u].doh
         \/ Aim \notin Looks
  <2>1. CASE user' = user
    BY <2>1
  <2>2. CASE user' = Forgotten /\ s # "joinAlways"
    BY <2>2, <1>1, <1>2, ForgottenIs
  <2>3. CASE user' = [user EXCEPT ![Me].ctx = Nil]
    <3>1. /\ user'[Me].st = user[Me].st /\ user'[Me].host = user[Me].host
          /\ user'[Me].doh = user[Me].doh /\ user'[Me].dns = user[Me].dns /\ user'[Me].slot = user[Me].slot
          /\ \A v \in Users : v # Me => user'[v] = user[v]
      BY <2>3, <1>1, <1>2, ContextGone
    <3> QED BY <3>1
  <2> QED BY <2>1, <2>2, <2>3
<1> QED BY <1>1, <1>3, QuietKeeps

\* None of them hands an entry on.
LEMMA QuietSteps ==
  ASSUME LInv, EInv, Mark \/ JoinIfDone \/ JoinOrDetach \/ JoinAlways \/ Unlink \/ Free
  PROVE  EInv'
<1>1. Control /\ FALSE \in BOOLEAN /\ call.done \in BOOLEAN
  BY DEF LInv, Types, CallRec
<1>2. {"mark", "join", "joinForget", "joinOrDetach", "joinAlways", "unlink", "free"} \cap LastSteps = {}
  BY DEF LastSteps
<1>3. ASSUME NEW s, s \notin LastSteps, At(s), NEW e, Then(e)
      PROVE  Continue(e \o Tail(call.todo), call.done, call.dns) /\ <<>> \o Tail(call.todo) = Tail(call.todo)
  BY <1>1, <1>3, AtStep DEF Then, Holding
<1>4. CASE Mark
  <2>1. (HasHandle /\ lookup[Ctx].done) \in BOOLEAN
    <3>1. Me \in Users
      BY <1>1, <1>2, <1>4, AtStep DEF Mark
    <3>2. HasHandle => Ctx \in Lookups
      BY <3>1 DEF HasHandle, Ctx, LInv, Types, UserRec
    <3> QED BY <3>2 DEF LInv, Types, LookupRec
  <2>2. /\ At("mark") /\ UNCHANGED <<entry, cache, user>> /\ "mark" \notin LastSteps
        /\ Continue(Tail(call.todo), HasHandle /\ lookup[Ctx].done, call.dns)
    BY <1>2, <1>4 DEF Mark
  <2> QED BY <2>1, <2>2, QuietStep
<1>5. CASE JoinIfDone
  <2>1. PICK s \in {"join", "joinForget"} : At(s)
    BY <1>5 DEF JoinIfDone
  <2>2. /\ UNCHANGED <<entry, cache>> /\ (user' = Forgotten \/ user' = user)
        /\ Continue(Tail(call.todo), FALSE, call.dns) /\ s \notin LastSteps /\ s # "joinAlways"
    BY <1>2, <1>5 DEF JoinIfDone
  <2> QED BY <1>1, <2>1, <2>2, QuietStep
<1>6. CASE JoinOrDetach
  <2>1. /\ At("joinOrDetach") /\ UNCHANGED <<entry, cache, user>> /\ "joinOrDetach" \notin LastSteps
        /\ Continue(Tail(call.todo), FALSE, call.dns)
    BY <1>2, <1>6 DEF JoinOrDetach
  <2> QED BY <1>1, <2>1, QuietStep
<1>7. CASE JoinAlways
  <2>1. /\ At("joinAlways") /\ UNCHANGED <<entry, cache, user>> /\ "joinAlways" \notin LastSteps
        /\ Continue(Tail(call.todo), FALSE, call.dns)
    BY <1>2, <1>7 DEF JoinAlways
  <2> QED BY <1>1, <2>1, QuietStep
<1>8. CASE Unlink
  <2>1. /\ At("unlink") /\ UNCHANGED <<entry, cache>> /\ "unlink" \notin LastSteps
        /\ Then(<<"free">>) \/ Then(<<>>)
        /\ user' = user \/ user' = [user EXCEPT ![Me].ctx = Nil]
    BY <1>2, <1>8 DEF Unlink
  <2>2. \/ Continue(Tail(call.todo), call.done, call.dns)
        \/ Continue(<<"free">> \o Tail(call.todo), call.done, call.dns)
    <3>1. CASE Then(<<"free">>)
      BY <2>1, <3>1 DEF Then, Holding
    <3>2. CASE Then(<<>>)
      BY <2>1, <3>2, <1>3
    <3> QED BY <2>1, <3>1, <3>2
  <2> QED BY <1>1, <2>1, <2>2, QuietStep
<1>9. CASE Free
  <2>1. /\ At("free") /\ UNCHANGED <<entry, cache>> /\ "free" \notin LastSteps /\ Then(<<>>)
        /\ user' = [user EXCEPT ![Me].ctx = Nil]
    BY <1>2, <1>9 DEF Free
  <2>2. Continue(Tail(call.todo), call.done, call.dns)
    BY <2>1, <1>3
  <2> QED BY <1>1, <2>1, <2>2, QuietStep
<1> QED BY <1>4, <1>5, <1>6, <1>7, <1>8, <1>9

\* Nor does what happens behind the call: a thread's step, a probe's answer,
\* an entry that gets old.
LEMMA QuietEvents ==
  ASSUME LInv, EInv,
         \/ \E c \in Lookups : Thread(c)
         \/ \E u \in Users : DohAnswer(u)
         \/ \E h \in Hosts : GetStale(h)
         \/ UNCHANGED resolverVars
  PROVE  EInv'
<1>1. call' = call /\ cache' = cache
  BY DEF Thread, ThreadStart, ThreadLookup, ThreadUnlink, ThreadFree, ThreadExit, DohAnswer, GetStale,
         resolverVars
<1>2. Me' = Me /\ Aim' = Aim
  BY <1>1 DEF Me, Aim
<1>3. CASE UNCHANGED <<entry, user>>
  BY <1>1, <1>2, <1>3, QuietKeeps
<1>4. ASSUME NEW u \in Users, DohAnswer(u)
      PROVE  EInv'
  <2>1. entry' = entry /\ call = Idle /\ user' = [user EXCEPT ![u].doh = "answered"]
    BY <1>4 DEF DohAnswer
  <2>2. \A v \in Users : /\ user'[v].dns = user[v].dns /\ user'[v].st = user[v].st
                         /\ user'[v].slot = user[v].slot
    BY <2>1 DEF LInv, Types, UserRec
  <2>3. Aim \notin Looks
    BY <2>1, BetweenCalls DEF Looks
  <2> QED BY <1>1, <1>2, <2>1, <2>2, <2>3, QuietKeeps
<1>5. ASSUME NEW h \in Hosts, GetStale(h)
      PROVE  EInv'
  <2>1. user' = user /\ entry' = [entry EXCEPT ![cache[h]].stale = TRUE] /\ entry \in [Entries -> EntryRec]
    BY <1>5 DEF GetStale, LInv, Types
  <2>2. \A e \in Entries : /\ entry'[e].refs = entry[e].refs /\ entry'[e].st = entry[e].st
                           /\ entry'[e].fam = entry[e].fam
    BY <2>1 DEF EntryRec
  <2>3. Types /\ Control /\ NoAnswerYet /\ Calls /\ EntryInv /\ FitsInv
    BY DEF LInv, EInv
  <2>4. NoAnswerYet' /\ Calls'
    BY <1>1, <1>2, <2>1, <2>3, CallsKept
  <2>5. call.dns # Nil => Aim' = "deliver" /\ Me' = Me
    BY <1>2, <2>3 DEF EntryInv
  <2>6. EntryInv' /\ FitsInv'
    BY <1>1, <2>1, <2>2, <2>3, <2>5, EntriesKept
  <2> QED BY <2>4, <2>6 DEF EInv
<1>6. CASE (\E c \in Lookups : Thread(c)) \/ UNCHANGED resolverVars
  <2>1. UNCHANGED <<entry, user>>
    BY <1>6 DEF Thread, ThreadStart, ThreadLookup, ThreadUnlink, ThreadFree, ThreadExit, resolverVars
  <2> QED BY <2>1, <1>3
<1> QED BY <1>4, <1>5, <1>6

-----------------------------------------------------------------------------
(* The steps of a resolve, from its start to its answer. *)

\* A call that resolves goes on: an answer is kept for delivery only.
LEMMA AnswersMove ==
  ASSUME NoAnswerYet, Me \in Users, Me' = Me, call'.mode = call.mode, Aim # "deliver",
         \A v \in Users : v # Me => user'[v] = user[v],
         \/ user'[Me].dns = Nil
         \/ Aim' = "deliver" /\ (Me \in DohUsers => call.mode = "poll")
         \/ user'[Me].dns = user[Me].dns /\ Aim' \notin Looks
  PROVE  NoAnswerYet'
<1>1. DohUsers \subseteq Users
  BY ResolverAssumption DEF ResolverConstants
<1>2. Aim' \in Looks => user'[Me'].dns = Nil
  BY DEF Looks
<1>3. \A u \in Users : user'[u].st = "resolving" /\ Me' # u => user'[u].dns = Nil
  BY DEF NoAnswerYet
<1>4. ASSUME NEW u \in DohUsers
      PROVE  user'[u].dns = Nil \/ (Me' = u /\ Aim' = "deliver" /\ call'.mode = "poll")
  <2>1. CASE u = Me
    BY <2>1 DEF NoAnswerYet
  <2>2. CASE u # Me
    BY <2>2, <1>1 DEF NoAnswerYet
  <2> QED BY <2>1, <2>2
<1> QED BY <1>2, <1>3, <1>4 DEF NoAnswerYet

\* What is known at the last step of a program.
LEMMA AtTheEnd ==
  ASSUME LInv, EInv, NEW s \in LastSteps, At(s)
  PROVE  /\ Me \in Users /\ Aim = s /\ user[Me] \in UserRec /\ call.done \in BOOLEAN
         /\ s # "deliver" => call.dns = Nil
         /\ \A p, e : Ordered(p) /\ e \in Entries \cup {Nil} /\ Holding(e, p)
              => /\ Me' = Me /\ call'.mode = call.mode /\ call'.host = call.host
                 /\ call'.dns = e /\ Aim' = p[Len(p)]
         /\ \A p : Ordered(p) /\ Then(p)
              => /\ Me' = Me /\ call'.mode = call.mode /\ call'.host = call.host
                 /\ call'.dns = call.dns /\ Aim' = p[Len(p)]
<1>1. /\ Me \in Users /\ Aim = s /\ call \in CallRec /\ Control /\ call.dns \in Entries \cup {Nil}
  BY LastIsQuiet
<1>2. user[Me] \in UserRec /\ call.done \in BOOLEAN
  BY <1>1 DEF LInv, Types, CallRec
<1>3. s # "deliver" => call.dns = Nil
  BY <1>1 DEF EInv, EntryInv
<1>4. ASSUME NEW p, NEW e, Ordered(p), e \in Entries \cup {Nil}, Holding(e, p)
      PROVE  /\ Me' = Me /\ call'.mode = call.mode /\ call'.host = call.host
             /\ call'.dns = e /\ Aim' = p[Len(p)]
  BY <1>1, <1>4, NextProgram
<1>5. \A p : Ordered(p) /\ Then(p)
              => /\ Me' = Me /\ call'.mode = call.mode /\ call'.host = call.host
                 /\ call'.dns = call.dns /\ Aim' = p[Len(p)]
  BY <1>1, <1>4 DEF Then
<1> QED BY <1>1, <1>2, <1>3, <1>4, <1>5

\* A lookup is started.
LEMMA CreateKeeps ==
  ASSUME LInv, EInv, Create
  PROVE  EInv'
<1> DEFINE failed == Destroy \o Shutdown \o <<"negative", "lost">>
<1>1. At("create") /\ "create" \in LastSteps /\ UNCHANGED <<entry, cache>>
  BY DEF Create, LastSteps
<1>2. /\ Me \in Users /\ Aim = "create" /\ user[Me] \in UserRec /\ call.dns = Nil
  BY <1>1, AtTheEnd
<1>3. /\ Types /\ Control /\ NoAnswerYet /\ Calls /\ EntryInv /\ FitsInv
      /\ user \in [Users -> UserRec]
  BY DEF LInv, EInv, Types
<1>4. Then(<<"check">>) \/ Then(failed)
  BY DEF Create
<1>5. Ordered(<<"check">>) /\ <<"check">>[Len(<<"check">>)] = "check"
  BY OrderedOne DEF LastSteps
<1>6. Ordered(failed) /\ failed[Len(failed)] = "lost"
  BY FailedStart
<1> HIDE DEF failed
<1>7. /\ Me' = Me /\ call'.mode = call.mode /\ call'.host = call.host /\ call'.dns = Nil
      /\ Aim' \in {"check", "lost"}
  <2>1. CASE Then(<<"check">>)
    BY <2>1, <1>1, <1>2, <1>5, AtTheEnd
  <2>2. CASE Then(failed)
    BY <2>2, <1>1, <1>2, <1>6, AtTheEnd
  <2> QED BY <2>1, <2>2, <1>4
<1>8. /\ \A v \in Users : v # Me => user'[v] = user[v]
      /\ user'[Me].dns = Nil /\ user'[Me].slot = user[Me].slot
  <2>1. \/ \E c : user' = [user EXCEPT ![Me].ctx = c, ![Me].dns = Nil, ![Me].host = call.host]
        \/ user' = [user EXCEPT ![Me].dns = Nil, ![Me].host = call.host]
    BY DEF Create
  <2>2. ASSUME NEW c, user' = [user EXCEPT ![Me].ctx = c, ![Me].dns = Nil, ![Me].host = call.host]
        PROVE  /\ \A v \in Users : v # Me => user'[v] = user[v]
               /\ user'[Me].dns = Nil /\ user'[Me].slot = user[Me].slot
    <3> DEFINE new == [user[Me] EXCEPT !.ctx = c, !.dns = Nil, !.host = call.host]
    <3>1. user' = [user EXCEPT ![Me] = new]
      BY <2>2
    <3>2. new.dns = Nil /\ new.slot = user[Me].slot
      BY <1>2 DEF UserRec
    <3> HIDE DEF new
    <3> QED BY <3>1, <3>2, <1>2, <1>3
  <2>3. ASSUME user' = [user EXCEPT ![Me].dns = Nil, ![Me].host = call.host]
        PROVE  /\ \A v \in Users : v # Me => user'[v] = user[v]
               /\ user'[Me].dns = Nil /\ user'[Me].slot = user[Me].slot
    BY <2>3, <1>2, <1>3 DEF UserRec
  <2> QED BY <2>1, <2>2, <2>3
<1>9. NoAnswerYet'
  BY <1>2, <1>3, <1>7, <1>8, AnswersMove
<1>10. ~(Me \in DohUsers /\ call.mode = "connect") /\ call.mode \in {"connect", "blocking"}
  BY <1>2, <1>3 DEF Calls, Control
<1>11. Calls'
  BY <1>7, <1>10 DEF Calls, Looks
<1>12. EntryInv' /\ FitsInv'
  BY <1>1, <1>2, <1>3, <1>7, <1>8, EntriesKept
<1> QED BY <1>9, <1>11, <1>12 DEF EInv

\* Probes are sent.
LEMMA StartDohKeeps ==
  ASSUME LInv, EInv, StartDoh
  PROVE  EInv'
<1> DEFINE failed == Shutdown \o <<"negative", "lost">>
<1>1. At("doh") /\ "doh" \in LastSteps /\ UNCHANGED <<entry, cache>>
  BY DEF StartDoh, LastSteps
<1>2. PICK doh \in {"pending", "none"} :
        /\ user' = [user EXCEPT ![Me].doh = doh, ![Me].host = call.host]
        /\ Then(IF doh = "pending" THEN <<"check">> ELSE failed)
  BY DEF StartDoh
<1>3. /\ Me \in Users /\ Aim = "doh" /\ user[Me] \in UserRec /\ call.dns = Nil
  BY <1>1, AtTheEnd
<1>4. /\ Types /\ Control /\ NoAnswerYet /\ Calls /\ EntryInv /\ FitsInv
      /\ user \in [Users -> UserRec]
  BY DEF LInv, EInv, Types
<1>5. /\ Me' = Me /\ call'.mode = call.mode /\ call'.host = call.host /\ call'.dns = Nil
      /\ Aim' = IF doh = "pending" THEN "check" ELSE "lost"
  <2>1. CASE doh = "pending"
    <3>1. Ordered(<<"check">>) /\ <<"check">>[Len(<<"check">>)] = "check" /\ Then(<<"check">>)
      BY <2>1, <1>2, OrderedOne DEF LastSteps
    <3> QED BY <2>1, <3>1, <1>1, <1>3, AtTheEnd
  <2>2. CASE doh = "none"
    <3>1. Ordered(failed) /\ failed[Len(failed)] = "lost" /\ Then(failed)
      BY <2>2, <1>2, ShutdownLost
    <3> HIDE DEF failed
    <3> QED BY <2>2, <3>1, <1>1, <1>3, AtTheEnd
  <2> QED BY <2>1, <2>2
<1>6. /\ \A v \in Users : v # Me => user'[v] = user[v]
      /\ user'[Me].dns = user[Me].dns /\ user'[Me].slot = user[Me].slot
      /\ user'[Me].host = call.host /\ user'[Me].doh = doh
  BY <1>2, <1>3, <1>4 DEF UserRec
<1>7. Me \in DohUsers /\ call.mode = "connect" /\ user[Me].dns = Nil /\ cache[call.host] = Nil
  BY <1>3, <1>4 DEF Calls, Control, NoAnswerYet
<1>8. NoAnswerYet'
  BY <1>3, <1>4, <1>5, <1>6, <1>7, AnswersMove
<1>9. Calls'
  BY <1>1, <1>5, <1>6, <1>7 DEF Calls, Looks
<1>10. EntryInv' /\ FitsInv'
  BY <1>1, <1>3, <1>4, <1>5, <1>6, EntriesKept
<1> QED BY <1>8, <1>9, <1>10 DEF EInv

\* Handles that use DNS-over-HTTPS do not wait for a second name: Curl_doh leaves
\* async.dns as the wait has set it, and its answer would then give up a reference
\* that async.dns does not own.  (With u2 in both sets and MaxTurns = 6, TLC finds
\* that count below zero.)
Separate == DohUsers \cap BlockingUsers = {}

\* The cache is asked before the answer.
LEMMA CheckKeeps ==
  ASSUME Separate, LInv, EInv, Check
  PROVE  EInv'
<1> DEFINE h == user[Me].host
<1> DEFINE e == Fetched(h, WantOf[Me])
<1> DEFINE found == Shutdown \o <<"deliver">>
<1>1. At("check") /\ "check" \in LastSteps /\ Fetch(h, WantOf[Me])
  BY DEF Check, LastSteps
<1>2. /\ Me \in Users /\ Aim = "check" /\ user[Me] \in UserRec /\ call.dns = Nil
  BY <1>1, AtTheEnd
<1>3. /\ Types /\ Control /\ NoAnswerYet /\ Calls /\ EntryInv /\ FitsInv
      /\ user \in [Users -> UserRec] /\ entry \in [Entries -> EntryRec]
      /\ cache \in [Hosts -> Entries \cup {Nil}]
  BY DEF LInv, EInv, Types
<1>4. h \in Hosts /\ e \in Entries \cup {Nil}
  BY <1>2, <1>3, FetchTyped DEF Control, Looks
<1>5. /\ Ordered(found) /\ found[Len(found)] = "deliver"
  BY OrderedAnswer
<1>6. \A a \in {"isResolved", "isDohResolved"} : Ordered(<<a>>) /\ <<a>>[Len(<<a>>)] = a
  BY OrderedOne DEF LastSteps
<1>7. Me \in DohUsers /\ call.mode = "connect" => cache[h] = Nil /\ user[Me].doh = "pending" /\ h = call.host
  BY <1>2, <1>3 DEF Calls
<1>8. Me \in DohUsers => call.mode \in {"connect", "poll"}
  BY <1>2, <1>3 DEF Calls, Looks, Control, Separate
<1>9. /\ e # Nil => user' = [user EXCEPT ![Me].dns = e] /\ Holding(e, found)
      /\ e = Nil => /\ user' = user
                    /\ \/ user[Me].doh = "none" /\ Then(<<"isResolved">>)
                       \/ user[Me].doh # "none" /\ Then(<<"isDohResolved">>)
  BY DEF Check
<1>10. cache' = [cache EXCEPT ![h] = e]
  BY <1>1 DEF Fetch
<1>11. user[Me].dns = Nil
  BY <1>2, <1>3 DEF NoAnswerYet, Looks
<1>12. cache[h] = Nil => e = Nil
  BY DEF Fetched
<1> HIDE DEF h, e, found
<1>13. CASE e # Nil
  <2>1. /\ Me' = Me /\ call'.mode = call.mode /\ call'.host = call.host /\ call'.dns = e
        /\ Aim' = "deliver"
    BY <1>1, <1>4, <1>5, <1>9, <1>13, AtTheEnd
  <2>2. /\ \A v \in Users : v # Me => user'[v] = user[v]
        /\ \A v \in Users : user'[v].slot = user[v].slot
    BY <1>2, <1>3, <1>9, <1>13 DEF UserRec
  <2>3. Me \in DohUsers => call.mode = "poll"
    BY <1>7, <1>8, <1>12, <1>13
  <2>4. NoAnswerYet'
    BY <1>2, <1>3, <2>1, <2>2, <2>3, AnswersMove
  <2>5. Calls'
    BY <2>1 DEF Calls, Looks
  <2>6. EntryInv' /\ FitsInv'
    BY <1>1, <1>2, <1>3, <1>4, <2>1, <2>2, Looked DEF e
  <2> QED BY <2>4, <2>5, <2>6 DEF EInv
<1>14. CASE e = Nil
  <2>1. /\ Me' = Me /\ call'.mode = call.mode /\ call'.host = call.host /\ call'.dns = e
        /\ \/ user[Me].doh = "none" /\ Aim' = "isResolved"
           \/ user[Me].doh # "none" /\ Aim' = "isDohResolved"
    <3>1. CASE user[Me].doh = "none" /\ Then(<<"isResolved">>)
      BY <3>1, <1>1, <1>2, <1>6, <1>14, AtTheEnd
    <3>2. CASE user[Me].doh # "none" /\ Then(<<"isDohResolved">>)
      BY <3>2, <1>1, <1>2, <1>6, <1>14, AtTheEnd
    <3> QED BY <3>1, <3>2, <1>9, <1>14
  <2>2. user' = user
    BY <1>9, <1>14
  <2>3. NoAnswerYet'
    BY <1>2, <1>3, <1>11, <2>1, <2>2, AnswersMove
  <2>4. cache'[h] = Nil
    BY <1>3, <1>4, <1>10, <1>14
  <2>5. Calls'
    BY <1>2, <1>3, <1>7, <2>1, <2>2, <2>4 DEF Calls, Looks, h
  <2>6. EntryInv' /\ FitsInv'
    BY <1>1, <1>2, <1>3, <1>4, <1>14, <2>1, <2>2, Looked DEF e
  <2> QED BY <2>3, <2>5, <2>6 DEF EInv
<1> QED BY <1>13, <1>14

\* There is no answer yet.
LEMMA NotYetKeeps ==
  ASSUME LInv, EInv, NEW s \in {"isResolved", "isDohResolved"}, At(s), NotYet
  PROVE  EInv'
<1> DEFINE wait == <<"joinAlways", "awaited">>
<1>1. s \in LastSteps /\ s \in Looks /\ UNCHANGED <<entry, cache>>
  BY DEF NotYet, LastSteps, Looks
<1>2. /\ Me \in Users /\ Aim = s /\ user[Me] \in UserRec /\ call.dns = Nil
  BY <1>1, AtTheEnd DEF LastSteps
<1>3. /\ Types /\ Control /\ NoAnswerYet /\ Calls /\ EntryInv /\ FitsInv
      /\ user \in [Users -> UserRec]
  BY DEF LInv, EInv, Types
<1>4. user[Me].dns = Nil
  BY <1>1, <1>2, <1>3 DEF NoAnswerYet
<1>5. /\ \A v \in Users : v # Me => user'[v] = user[v]
      /\ user'[Me].dns = Nil /\ \A v \in Users : user'[v].slot = user[v].slot
  <2>1. user' = user \/ user' = [user EXCEPT ![Me].st = "resolving"]
    BY DEF NotYet
  <2> QED BY <2>1, <1>2, <1>3, <1>4 DEF UserRec
<1>6. Ordered(wait) /\ wait[Len(wait)] = "awaited"
  BY OrderedAwait
<1>7. IF call.mode = "blocking" THEN Then(wait) ELSE Then(<<>>)
  BY DEF NotYet
<1> HIDE DEF wait
<1>8. CASE call.mode = "blocking"
  <2>1. /\ Me' = Me /\ call'.mode = call.mode /\ call'.host = call.host /\ call'.dns = Nil
        /\ Aim' = "awaited"
    BY <1>1, <1>2, <1>6, <1>7, <1>8, AtTheEnd
  <2>2. NoAnswerYet'
    BY <1>1, <1>2, <1>3, <1>5, <2>1, AnswersMove DEF Looks
  <2>3. Calls'
    BY <1>8, <2>1 DEF Calls, Looks
  <2>4. EntryInv' /\ FitsInv'
    BY <1>1, <1>2, <1>3, <1>5, <2>1, EntriesKept
  <2> QED BY <2>2, <2>3, <2>4 DEF EInv
<1>9. CASE call.mode # "blocking"
  <2>1. call' = Idle /\ call'.dns = Nil
    BY <1>1, <1>3, <1>7, <1>9, LastOne, BetweenCalls DEF Then
  <2>2. NoAnswerYet' /\ Calls'
    BY <1>1, <1>3, <1>5, <2>1, CallsReturn
  <2>3. EntryInv' /\ FitsInv'
    BY <1>1, <1>2, <1>3, <1>5, <2>1, EntriesKept
  <2> QED BY <2>2, <2>3 DEF EInv
<1> QED BY <1>8, <1>9

\* An answer becomes an entry that is cached and handed out, or is none.
LEMMA AnsweredFits ==
  ASSUME LInv, EInv, NEW s \in {"isResolved", "isDohResolved", "awaited"}, At(s),
         NEW fam \in SUBSET Families, AsksForIts(Me) /\ fam # {} => WantOf[Me] \in fam,
         Me \in DohUsers => call.mode = "poll",
         NEW found, NEW missing, NEW nomem, Answered(fam, found, missing, nomem),
         Ordered(found), found[Len(found)] = "deliver",
         \A p \in {missing, nomem} : Ordered(p) /\ p[Len(p)] = "lost"
  PROVE  EInv'
<1>1. s \in LastSteps /\ s \in Looks
  BY DEF LastSteps, Looks
<1>2. /\ Me \in Users /\ Aim = s /\ user[Me] \in UserRec /\ call.dns = Nil
  BY <1>1, AtTheEnd DEF LastSteps
<1>3. /\ Types /\ Control /\ NoAnswerYet /\ Calls /\ EntryInv /\ FitsInv
      /\ user \in [Users -> UserRec] /\ entry \in [Entries -> EntryRec]
  BY DEF LInv, EInv, Types
<1>4. user[Me].dns = Nil /\ user[Me].host \in Hosts
  BY <1>1, <1>2, <1>3 DEF NoAnswerYet, Control
<1>5. Drop(entry, user[Me].dns) = entry
  BY <1>4 DEF Drop
<1>6. ASSUME NEW d, user' = [user EXCEPT ![Me].dns = d, ![Me].doh = "none"]
      PROVE  /\ \A v \in Users : v # Me => user'[v] = user[v]
             /\ user'[Me].dns = d /\ \A v \in Users : user'[v].slot = user[v].slot
  <2> DEFINE new == [user[Me] EXCEPT !.dns = d, !.doh = "none"]
  <2>1. user' = [user EXCEPT ![Me] = new]
    BY <1>6
  <2>2. new.dns = d /\ new.slot = user[Me].slot
    BY <1>2 DEF UserRec
  <2> HIDE DEF new
  <2> QED BY <2>1, <2>2, <1>2, <1>3
<1> DEFINE new == [NewEntry(user[Me].host, fam, FALSE) EXCEPT !.refs = 2]
<1>7. /\ new \in EntryRec /\ new.host = user[Me].host /\ new.st = "live" /\ new.refs = 2 /\ new.fam = fam
  BY <1>4, NewTyped DEF NewEntry
<1>8. \/ /\ fam # {}
         /\ \E e \in Calloc(entry) :
              /\ AddToCache(entry, e, new)
              /\ user' = [user EXCEPT ![Me].dns = e, ![Me].doh = "none"]
              /\ Holding(e, found)
      \/ /\ entry' = entry /\ cache' = cache
         /\ user' = [user EXCEPT ![Me].dns = Nil, ![Me].doh = "none"]
         /\ Then(missing) \/ Then(nomem)
  BY <1>5 DEF Answered
<1> HIDE DEF new
<1>9. ASSUME fam # {}, NEW e \in Calloc(entry), AddToCache(entry, e, new),
             user' = [user EXCEPT ![Me].dns = e, ![Me].doh = "none"], Holding(e, found)
      PROVE  EInv'
  <2>1. e \in Entries
    BY <1>3, Callocated
  <2>2. /\ Me' = Me /\ call'.mode = call.mode /\ call'.host = call.host /\ call'.dns = e
        /\ Aim' = "deliver"
    BY <1>1, <1>9, <2>1, AtTheEnd
  <2>3. /\ \A v \in Users : v # Me => user'[v] = user[v]
        /\ user'[Me].dns = e /\ \A v \in Users : user'[v].slot = user[v].slot
    BY <1>6, <1>9
  <2>4. NoAnswerYet'
    BY <1>1, <1>2, <1>3, <2>2, <2>3, AnswersMove DEF Looks
  <2>5. Calls'
    BY <2>2 DEF Calls, Looks
  <2>6. new.host \in Hosts /\ new.refs \in {1, 2} /\ call'.dns = IF new.refs = 2 THEN e ELSE Nil
    BY <1>4, <1>7, <2>2
  <2>7. new.refs = 2 => Aim' = "deliver" /\ (AsksForIts(Me') => WantOf[Me'] \in new.fam)
    BY <1>7, <1>9, <2>2
  <2>8. EntryInv' /\ FitsInv'
    BY <1>2, <1>3, <1>7, <1>9, <2>3, <2>6, <2>7, Added
  <2> QED BY <2>4, <2>5, <2>8 DEF EInv
<1>10. ASSUME UNCHANGED <<entry, cache>>, user' = [user EXCEPT ![Me].dns = Nil, ![Me].doh = "none"],
              NEW p \in {missing, nomem}, Then(p)
       PROVE  EInv'
  <2>1. Ordered(p) /\ p[Len(p)] = "lost"
    OBVIOUS
  <2>2. /\ Me' = Me /\ call'.mode = call.mode /\ call'.host = call.host /\ call'.dns = Nil
        /\ Aim' = "lost"
    BY <1>1, <1>2, <1>10, <2>1, AtTheEnd
  <2>3. /\ \A v \in Users : v # Me => user'[v] = user[v]
        /\ user'[Me].dns = Nil /\ \A v \in Users : user'[v].slot = user[v].slot
    BY <1>6, <1>10
  <2>4. NoAnswerYet'
    BY <1>1, <1>2, <1>3, <2>2, <2>3, AnswersMove DEF Looks
  <2>5. Calls'
    BY <2>2 DEF Calls, Looks
  <2>6. EntryInv' /\ FitsInv'
    BY <1>2, <1>3, <1>10, <2>2, <2>3, EntriesKept
  <2> QED BY <2>4, <2>5, <2>6 DEF EInv
<1> QED BY <1>8, <1>9, <1>10

\* The addresses of a lookup suit its handle.
LEMMA LookupSuits ==
  ASSUME LInv, NEW s \in {"isResolved", "awaited"}, At(s), Me \in Users
  PROVE  AsksForIts(Me) /\ lookup[Ctx].res # {} => WantOf[Me] \in lookup[Ctx].res
<1>1. Ctx \in Lookups /\ Ctx # Nil
  BY ContextThere, ResolverAssumption DEF ResolverConstants
<1>2. lookup[Ctx].want = WantOf[Me] /\ lookup[Ctx].res \in AnswersFor(lookup[Ctx].want) \cup {{}}
  BY <1>1 DEF LInv, Wanted, Ctx
<1> QED BY <1>2 DEF AnswersFor, AsksForIts

\* The answer of the thread (Curl_async_is_resolved).
LEMMA IsResolvedKeeps ==
  ASSUME Separate, LInv, EInv, IsResolved
  PROVE  EInv'
<1>1. At("isResolved") /\ "isResolved" \in LastSteps
  BY DEF IsResolved, LastSteps
<1>2. Me \in Users /\ Aim = "isResolved"
  BY <1>1, AtTheEnd
<1>3. Me \in DohUsers => call.mode = "poll"
  BY <1>2 DEF LInv, EInv, Calls, Looks, Control, Separate
<1>4. CASE lookup[Ctx].done
  <2> DEFINE found == ShutdownThread \o <<"deliver">>
  <2> DEFINE missing == ShutdownThread \o AfterFailure(TRUE)
  <2> DEFINE nomem == ShutdownThread \o AfterFailure(FALSE)
  <2>1. Answered(lookup[Ctx].res, found, missing, nomem)
    BY <1>4 DEF IsResolved
  <2>2. Ordered(found) /\ found[Len(found)] = "deliver"
    BY OrderedAnswer
  <2>3. Ordered(missing) /\ missing[Len(missing)] = "lost"
    BY OrderedAnswer
  <2>4. Ordered(nomem) /\ nomem[Len(nomem)] = "lost"
    BY OrderedAnswer
  <2> HIDE DEF found, missing, nomem
  <2>5. PICK fam \in SUBSET Families : fam = lookup[Ctx].res
    BY <1>1, ContextThere
  <2>6. AsksForIts(Me) /\ fam # {} => WantOf[Me] \in fam
    BY <1>1, <1>2, <2>5, LookupSuits
  <2>7. Answered(fam, found, missing, nomem)
    BY <2>1, <2>5
  <2> QED BY <1>1, <1>3, <2>2, <2>3, <2>4, <2>6, <2>7, AnsweredFits
<1>5. CASE ~lookup[Ctx].done
  BY <1>1, <1>5, NotYetKeeps DEF IsResolved
<1> QED BY <1>4, <1>5

\* The answer a call waited for (asyn_thrdd_await).
LEMMA AwaitedKeeps ==
  ASSUME Separate, LInv, EInv, Awaited
  PROVE  EInv'
<1> DEFINE found == ShutdownThread \o <<"deliver">>
<1> DEFINE missing == ShutdownThread \o <<"lost">>
<1>1. At("awaited") /\ "awaited" \in LastSteps /\ Answered(lookup[Ctx].res, found, missing, missing)
  BY DEF Awaited, LastSteps
<1>2. Me \in Users /\ Aim = "awaited"
  BY <1>1, AtTheEnd
<1>3. Me \in DohUsers => call.mode = "poll"
  BY <1>2 DEF LInv, EInv, Calls, Control, Separate
<1>4. Ordered(found) /\ found[Len(found)] = "deliver"
  BY OrderedAnswer
<1>5. Ordered(missing) /\ missing[Len(missing)] = "lost"
  BY OrderedAnswer
<1> HIDE DEF found, missing
<1>6. PICK fam \in SUBSET Families : fam = lookup[Ctx].res
  BY <1>1, ContextThere
<1>7. AsksForIts(Me) /\ fam # {} => WantOf[Me] \in fam
  BY <1>1, <1>2, <1>6, LookupSuits
<1>8. PICK nomem : nomem = missing
  OBVIOUS
<1>9. Answered(fam, found, missing, nomem)
  BY <1>1, <1>6, <1>8
<1>10. \A p \in {missing, nomem} : Ordered(p) /\ p[Len(p)] = "lost"
  BY <1>5, <1>8
<1>11. PICK s \in {"isResolved", "isDohResolved", "awaited"} : At(s)
  BY <1>1
<1> QED BY <1>3, <1>4, <1>7, <1>9, <1>10, <1>11, AnsweredFits

\* The answers of the probes (Curl_doh_is_resolved).
LEMMA IsDohResolvedKeeps ==
  ASSUME Separate, LInv, EInv, ProbesAsked, IsDohResolved
  PROVE  EInv'
<1>1. At("isDohResolved") /\ "isDohResolved" \in LastSteps
  BY DEF IsDohResolved, LastSteps
<1>2. Me \in Users /\ Aim = "isDohResolved"
  BY <1>1, AtTheEnd
<1>3. CASE user[Me].doh = "answered"
  <2> DEFINE found == <<"deliver">>
  <2> DEFINE missing == AfterFailure(TRUE)
  <2> DEFINE nomem == AfterFailure(FALSE)
  <2>1. PICK fam \in DohAnswersFor(WantOf[Me]) : Answered(fam, found, missing, nomem)
    BY <1>3 DEF IsDohResolved
  <2>2. Ordered(found) /\ found[Len(found)] = "deliver"
    BY OrderedOne DEF LastSteps
  <2>3. Ordered(missing) /\ missing[Len(missing)] = "lost"
    BY OrderedFailure
  <2>4. Ordered(nomem) /\ nomem[Len(nomem)] = "lost"
    BY OrderedFailure
  <2> HIDE DEF found, missing, nomem
  <2>5. fam \in SUBSET Families
    <3>1. WantOf[Me] \in Families \cup {"any"} /\ Answers \subseteq SUBSET Families
      BY <1>2, ResolverAssumption DEF ResolverConstants
    <3> QED BY <3>1 DEF DohAnswersFor, Families
  <2>6. AsksForIts(Me) /\ fam # {} => WantOf[Me] \in fam
    <3>1. Me \in DohUsers
      BY <1>2, <1>3 DEF ProbesAsked
    <3>2. WantOf[Me] \in Families \cup {"any"}
      BY <1>2, ResolverAssumption DEF ResolverConstants
    <3> QED BY <2>1, <3>1, <3>2 DEF DohAnswersFor, AsksForIts, Families
  <2>7. Me \in DohUsers => call.mode = "poll"
    BY <1>2, <1>3 DEF LInv, EInv, Calls, Looks, Control, Separate
  <2> QED BY <1>1, <2>1, <2>2, <2>3, <2>4, <2>5, <2>6, <2>7, AnsweredFits
<1>4. CASE user[Me].doh # "answered"
  BY <1>1, <1>4, NotYetKeeps DEF IsDohResolved
<1> QED BY <1>3, <1>4

\* That there is no answer is cached, too.
LEMMA NegativeKeeps ==
  ASSUME LInv, EInv, Negative
  PROVE  EInv'
<1>1. At("negative") /\ "negative" \notin LastSteps /\ user' = user /\ Then(<<>>)
  BY DEF Negative, LastSteps
<1>2. /\ call \in CallRec /\ Control /\ entry \in [Entries -> EntryRec] /\ call.done \in BOOLEAN
      /\ Types /\ NoAnswerYet /\ Calls /\ EntryInv /\ FitsInv
  BY DEF LInv, Types, CallRec, EInv
<1>3. Me \in Users /\ call # Idle /\ <<>> \o Tail(call.todo) = Tail(call.todo)
  BY <1>1, <1>2, AtStep
<1>4. Continue(Tail(call.todo), call.done, call.dns)
  BY <1>1, <1>3 DEF Then, Holding
<1>5. /\ Me' = Me /\ call'.mode = call.mode /\ call'.host = call.host /\ Aim' = Aim
      /\ call'.dns = call.dns
  BY <1>1, <1>2, <1>4, SameAim
<1>6. Aim = "lost"
  <2> DEFINE p == call.todo
  <2>1. Ordered(p) /\ p # <<>> /\ Head(p) = "negative" /\ Aim = p[Len(p)]
    BY <1>1, <1>2, <1>3 DEF Control, At, Aim
  <2> HIDE DEF p
  <2>2. Len(p) \in Nat /\ Len(p) >= 1 /\ Head(p) = p[1]
    BY <2>1, OrderedHead
  <2>3. 1 \in 1 .. Len(p)
    BY <2>2
  <2> QED BY <2>1, <2>2, <2>3 DEF Ordered
<1>7. call.host \in Hosts /\ call.dns = Nil
  BY <1>2, <1>6 DEF Control, EntryInv
<1>8. CASE UNCHANGED <<entry, cache>>
  BY <1>1, <1>5, <1>8, QuietKeeps
<1>9. ASSUME NEW e \in Calloc(entry), AddToCache(entry, e, NewEntry(call.host, {}, FALSE))
      PROVE  EInv'
  <2> DEFINE new == NewEntry(call.host, {}, FALSE)
  <2>1. new \in EntryRec /\ new.host \in Hosts /\ new.st = "live" /\ new.refs = 1
    BY <1>7, NewTyped DEF NewEntry
  <2>2. AddToCache(entry, e, new)
    BY <1>9
  <2> HIDE DEF new
  <2>3. new.refs \in {1, 2} /\ call'.dns = IF new.refs = 2 THEN e ELSE Nil
    BY <2>1, <1>5, <1>7
  <2>4. new.refs = 2 => Aim' = "deliver" /\ (AsksForIts(Me') => WantOf[Me'] \in new.fam)
    BY <2>1
  <2>5. EntryInv' /\ FitsInv'
    BY <1>1, <1>2, <1>7, <2>1, <2>2, <2>3, <2>4, Added
  <2>6. NoAnswerYet' /\ Calls'
    BY <1>1, <1>2, <1>5, <1>6, CallsKept DEF Looks
  <2> QED BY <2>5, <2>6 DEF EInv
<1> QED BY <1>8, <1>9 DEF Negative

\* A call begins: what it looks for, if anything, is not there yet.
LEMMA EntersQuietly ==
  ASSUME LInv, EInv, NEW u \in Users, NEW m \in Modes, NEW h \in Hosts \cup {Nil},
         NEW p, Ordered(p), NEW e \in Entries \cup {Nil}, Enter(u, m, h, p, e), user' = user,
         p[Len(p)] \in {"check", "deliver", "lost", "doh", "create", "release", "keep"},
         p[Len(p)] = "check" => m = "poll" /\ user[u].st = "resolving",
         p[Len(p)] = "doh" => u \in DohUsers /\ cache'[h] = Nil,
         u \in DohUsers /\ m = "connect" => p[Len(p)] \in {"doh", "lost", "deliver"}
  PROVE  NoAnswerYet' /\ Calls'
<1>1. call = Idle /\ Me' = u /\ call'.mode = m /\ call'.host = h /\ Aim' = p[Len(p)]
  BY Entered
<1>2. Me = Nil /\ Aim = "none" /\ Nil \notin Users /\ DohUsers \subseteq Users
  BY <1>1, BetweenCalls, ResolverAssumption DEF ResolverConstants
<1>3. NoAnswerYet
  BY DEF EInv
<1>4. NoAnswerYet'
  BY <1>1, <1>2, <1>3 DEF NoAnswerYet, Looks
<1>5. Calls'
  BY <1>1 DEF Calls, Looks
<1> QED BY <1>4, <1>5

\* Curl_resolv: an entry that is cached is handed out at once.
LEMMA ResolvKeeps ==
  ASSUME LInv, EInv, NEW u \in Users, NEW h \in Hosts, NEW m \in {"connect", "blocking"},
         Resolv(u, h, m)
  PROVE  EInv'
<1> DEFINE e == Fetched(h, WantOf[u])
<1>1. /\ user' = user
      /\ IF e = Nil \/ entry[e].fam = {}
         THEN /\ entry' = Zapped(h, WantOf[u])
              /\ cache' = [cache EXCEPT ![h] = e]
              /\ Enter(u, m, h,
                   IF e # Nil THEN <<"lost">>
                   ELSE IF u \in DohUsers /\ m = "connect" THEN <<"doh">>
                   ELSE (IF user[u].ctx = Nil THEN <<>> ELSE Destroy) \o <<"create">>, Nil)
         ELSE Fetch(h, WantOf[u]) /\ Enter(u, m, h, <<"deliver">>, e)
  BY DEF Resolv
<1>2. /\ entry \in [Entries -> EntryRec] /\ cache \in [Hosts -> Entries \cup {Nil}]
      /\ Types /\ EntryInv /\ FitsInv
  BY DEF LInv, EInv, Types
<1>3. e \in Entries \cup {Nil} /\ (e = Nil \/ (e = cache[h] /\ Zapped(h, WantOf[u]) = entry))
  BY <1>2, FetchTyped DEF Fetched, Zapped
<1>4. e = Nil /\ entry' = Zapped(h, WantOf[u]) /\ cache' = [cache EXCEPT ![h] = e]
        => Fetch(h, WantOf[u])
  BY DEF Fetch
<1>5. m \in Modes /\ h \in Hosts \cup {Nil} /\ Nil \in Entries \cup {Nil}
  BY DEF Modes
<1> HIDE DEF e
<1>6. ASSUME NEW d \in Entries \cup {Nil}, NEW p, Enter(u, m, h, p, d), Ordered(p)
      PROVE  call.dns = Nil /\ call'.dns = d /\ Me' = u /\ Aim' = p[Len(p)]
  <2>1. call = Idle /\ call'.dns = d /\ Me' = u /\ Aim' = p[Len(p)]
    BY <1>5, <1>6, Entered
  <2> QED BY <2>1, BetweenCalls
<1>7. ASSUME NEW q, Ordered(q), Enter(u, m, h, q, Nil), q[Len(q)] \in {"doh", "create"},
             q[Len(q)] = "doh" <=> u \in DohUsers /\ m = "connect",
             e = Nil, entry' = Zapped(h, WantOf[u]), cache' = [cache EXCEPT ![h] = e]
      PROVE  EInv'
  <2>1. call.dns = Nil /\ call'.dns = Nil
    BY <1>5, <1>6, <1>7
  <2>2. Fetch(h, WantOf[u])
    BY <1>4, <1>7
  <2>3. EntryInv' /\ FitsInv'
    BY <1>1, <1>2, <1>7, <2>1, <2>2, Looked DEF e
  <2>4. cache'[h] = Nil
    BY <1>2, <1>7
  <2>5. NoAnswerYet' /\ Calls'
    BY <1>1, <1>5, <1>7, <2>4, EntersQuietly
  <2> QED BY <2>3, <2>5 DEF EInv
<1>8. CASE ~(e = Nil \/ entry[e].fam = {})
  <2>1. PICK q : q = <<"deliver">>
    OBVIOUS
  <2>2. Ordered(q) /\ q[Len(q)] = "deliver"
    BY <2>1, OrderedCalls DEF LastSteps
  <2>3. Enter(u, m, h, q, e) /\ Fetch(h, WantOf[u])
    BY <1>1, <1>8, <2>1
  <2>4. call.dns = Nil /\ call'.dns = e /\ Me' = u /\ Aim' = "deliver"
    BY <1>3, <1>6, <2>2, <2>3
  <2>5. EntryInv' /\ FitsInv'
    BY <1>1, <1>2, <2>3, <2>4, Looked DEF e
  <2>6. NoAnswerYet' /\ Calls'
    BY <1>1, <1>3, <1>5, <2>2, <2>3, EntersQuietly
  <2> QED BY <2>5, <2>6 DEF EInv
<1>9. CASE (e = Nil \/ entry[e].fam = {}) /\ e # Nil
  <2>1. PICK q : q = <<"lost">>
    OBVIOUS
  <2>2. Ordered(q) /\ q[Len(q)] = "lost"
    BY <2>1, OrderedCalls DEF LastSteps
  <2>3. Enter(u, m, h, q, Nil) /\ entry' = entry /\ cache' = cache
    BY <1>1, <1>2, <1>3, <1>9, <2>1
  <2>4. call.dns = Nil /\ call'.dns = Nil
    BY <1>5, <1>6, <2>2, <2>3
  <2>5. EntryInv' /\ FitsInv'
    BY <1>1, <1>2, <2>3, <2>4, EntriesKept
  <2>6. NoAnswerYet' /\ Calls'
    BY <1>1, <1>5, <2>2, <2>3, EntersQuietly
  <2> QED BY <2>5, <2>6 DEF EInv
<1>10. CASE e = Nil /\ u \in DohUsers /\ m = "connect"
  <2>1. PICK q : q = <<"doh">>
    OBVIOUS
  <2>2. Ordered(q) /\ q[Len(q)] = "doh"
    BY <2>1, OrderedCalls DEF LastSteps
  <2>3. Enter(u, m, h, q, Nil)
    BY <1>1, <1>10, <2>1
  <2> QED BY <1>1, <1>7, <1>10, <2>2, <2>3
<1>11. CASE e = Nil /\ ~(u \in DohUsers /\ m = "connect")
  <2>1. PICK q : q = IF user[u].ctx = Nil THEN <<"create">> ELSE Destroy \o <<"create">>
    OBVIOUS
  <2>2. Ordered(q) /\ q[Len(q)] = "create"
    BY <2>1, OrderedCalls DEF LastSteps
  <2>3. <<>> \o <<"create">> = <<"create">>
    BY ConcatEmptySeq
  <2>4. Enter(u, m, h, q, Nil)
    BY <1>1, <1>11, <2>1, <2>3
  <2> QED BY <1>1, <1>7, <1>11, <2>2, <2>4
<1> QED BY <1>8, <1>9, <1>10, <1>11

\* The calls that look at a pending resolve, or end one, hand nothing on yet.
LEMMA OtherCallsKeep ==
  ASSUME LInv, EInv, NEW u \in Users, Poll(u) \/ Done(u) \/ Close(u) \/ Reset(u)
  PROVE  EInv'
<1>1. UNCHANGED <<entry, cache, user>>
  BY DEF Poll, Done, Close, Reset
<1>2. Types /\ EntryInv /\ FitsInv /\ Nil \in Entries \cup {Nil} /\ Nil \in Hosts \cup {Nil}
  BY DEF LInv, EInv
<1>3. ASSUME NEW m \in Modes, NEW h \in Hosts \cup {Nil}, NEW p, Ordered(p), Enter(u, m, h, p, Nil),
             p[Len(p)] \in {"check", "release", "keep"}, m # "connect",
             p[Len(p)] = "check" => m = "poll" /\ user[u].st = "resolving"
      PROVE  EInv'
  <2>1. NoAnswerYet' /\ Calls'
    BY <1>1, <1>2, <1>3, EntersQuietly
  <2>2. call = Idle /\ call'.dns = Nil
    BY <1>2, <1>3, Entered
  <2>3. call.dns = Nil
    BY <2>2, BetweenCalls
  <2>4. EntryInv' /\ FitsInv'
    BY <1>1, <1>2, <2>2, <2>3, EntriesKept
  <2> QED BY <2>1, <2>4 DEF EInv
<1>4. CASE Poll(u)
  <2>1. Enter(u, "poll", user[u].host, <<"check">>, Nil) /\ user[u].st = "resolving"
    BY <1>4 DEF Poll
  <2>2. user[u].host \in Hosts \cup {Nil}
    BY DEF LInv, Types, UserRec
  <2>3. PICK p : p = <<"check">>
    OBVIOUS
  <2>4. Ordered(p) /\ p[Len(p)] = "check"
    BY <2>3, OrderedCalls DEF LastSteps
  <2>5. Enter(u, "poll", user[u].host, p, Nil) /\ "poll" \in Modes
    BY <2>1, <2>3 DEF Modes
  <2> QED BY <2>1, <2>2, <2>4, <2>5, <1>3
<1>5. CASE Done(u)
  <2>1. PICK a \in {"keep", "release"} : Enter(u, "done", Nil, Shutdown \o <<a>>, Nil)
    <3>1. PICK inUse \in BOOLEAN :
       Enter(u, "done", Nil, Shutdown \o (IF inUse THEN <<"keep">> ELSE <<"release">>), Nil)
      BY <1>5 DEF Done
    <3>2. CASE inUse
      BY <3>1, <3>2
    <3>3. CASE ~inUse
      BY <3>1, <3>3
    <3> QED BY <3>2, <3>3
  <2> DEFINE p == Shutdown \o <<a>>
  <2>2. Ordered(p) /\ p[Len(p)] = a
    BY OrderedCalls
  <2> HIDE DEF p
  <2>3. Enter(u, "done", Nil, p, Nil) /\ "done" \in Modes
    BY <2>1 DEF p, Modes
  <2> QED BY <2>2, <2>3, <1>2, <1>3
<1>6. CASE Close(u)
  <2>1. PICK quick \in BOOLEAN :
       Enter(u, "close", Nil, (IF quick THEN <<>> ELSE ShutdownThread \o <<"joinAlways">>)
                              \o Destroy \o <<"release">>, Nil)
    BY <1>6 DEF Close
  <2>2. "close" \in Modes
    BY DEF Modes
  <2>3. CASE quick
    <3>1. <<>> \o Destroy \o <<"release">> = Destroy \o <<"release">>
      BY ConcatEmptySeq DEF Destroy
    <3> DEFINE p == Destroy \o <<"release">>
    <3>2. Ordered(p) /\ p[Len(p)] = "release"
      BY OrderedCalls
    <3>3. Enter(u, "close", Nil, p, Nil)
      BY <2>1, <2>3, <3>1
    <3> HIDE DEF p
    <3> QED BY <3>2, <3>3, <2>2, <1>2, <1>3
  <2>4. CASE ~quick
    <3> DEFINE p == ShutdownThread \o <<"joinAlways">> \o Destroy \o <<"release">>
    <3>1. Ordered(p) /\ p[Len(p)] = "release"
      BY OrderedClose
    <3>2. Enter(u, "close", Nil, p, Nil)
      BY <2>1, <2>4
    <3> HIDE DEF p
    <3> QED BY <3>1, <3>2, <2>2, <1>2, <1>3
  <2> QED BY <2>3, <2>4
<1>7. CASE Reset(u)
  <2> DEFINE p == Shutdown \o <<"release">>
  <2>1. Ordered(p) /\ p[Len(p)] = "release"
    BY OrderedCalls
  <2>2. Enter(u, "reset", Nil, p, Nil) /\ "reset" \in Modes
    BY <1>7 DEF Reset, Modes
  <2> HIDE DEF p
  <2> QED BY <2>1, <2>2, <1>2, <1>3
<1> QED BY <1>4, <1>5, <1>6, <1>7

\* CURLOPT_RESOLVE puts entries into the cache and takes them out.
LEMMA PreloadKeeps ==
  ASSUME LInv, EInv, NEW h \in Hosts, Preload(h)
  PROVE  EInv'
<1>1. call = Idle /\ call' = call /\ user' = user
  BY DEF Preload
<1>2. /\ Aim = "none" /\ call.dns = Nil /\ call'.dns = Nil
      /\ Me' = Me /\ Aim' = Aim
  BY <1>1, BetweenCalls DEF Me, Aim
<1>3. Types /\ Control /\ NoAnswerYet /\ Calls /\ EntryInv /\ FitsInv /\ entry \in [Entries -> EntryRec]
  BY DEF LInv, EInv, Types
<1>4. NoAnswerYet' /\ Calls'
  BY <1>1, <1>2, <1>3, CallsKept DEF Looks
<1>5. CASE \E e \in Calloc(entry), fam \in Answers \ {{}}, perm \in BOOLEAN :
             AddToCache(entry, e, NewEntry(h, fam, perm))
  <2>1. PICK e \in Calloc(entry), fam \in Answers \ {{}}, perm \in BOOLEAN :
             AddToCache(entry, e, NewEntry(h, fam, perm))
    BY <1>5
  <2>2. fam \in SUBSET Families
    BY ResolverAssumption DEF ResolverConstants
  <2> DEFINE new == NewEntry(h, fam, perm)
  <2>3. new \in EntryRec /\ new.host \in Hosts /\ new.st = "live" /\ new.refs = 1
    BY <2>2, NewTyped DEF NewEntry
  <2>4. AddToCache(entry, e, new)
    BY <2>1
  <2> HIDE DEF new
  <2>5. new.refs \in {1, 2} /\ call'.dns = IF new.refs = 2 THEN e ELSE Nil
    BY <2>3, <1>2
  <2>6. new.refs = 2 => Aim' = "deliver" /\ (AsksForIts(Me') => WantOf[Me'] \in new.fam)
    BY <2>3
  <2>7. EntryInv' /\ FitsInv'
    BY <1>1, <1>2, <1>3, <2>3, <2>4, <2>5, <2>6, Added
  <2> QED BY <2>7, <1>4 DEF EInv
<1>6. CASE entry' = Drop(entry, cache[h]) /\ cache' = [cache EXCEPT ![h] = Nil]
  <2>1. EntryInv' /\ FitsInv'
    BY <1>1, <1>2, <1>3, <1>6, Uncached
  <2> QED BY <2>1, <1>4 DEF EInv
<1> QED BY <1>5, <1>6 DEF Preload

-----------------------------------------------------------------------------
(* The invariant of the entries. *)

\* In the beginning there is none.
LEMMA EntriesInit ==
  ASSUME Init
  PROVE  EInv
<1>1. /\ entry = [e \in Entries |-> Unused] /\ cache = [h \in Hosts |-> Nil]
      /\ user = [u \in Users |-> [st |-> "idle", ctx |-> Nil, dns |-> Nil, host |-> Nil, doh |-> "none",
                                  slot |-> <<Nil, Nil>>]]
      /\ call = Idle
  BY DEF Init
<1>2. Me = Nil /\ Aim = "none" /\ call.dns = Nil /\ Nil \notin Entries /\ Nil \notin Users /\ DohUsers \subseteq Users
  BY <1>1, BetweenCalls, ResolverAssumption DEF ResolverConstants
<1>3. \A u \in Users : user[u].dns = Nil /\ user[u].slot = <<Nil, Nil>> /\ user[u].slot[1] = Nil /\ user[u].slot[2] = Nil
  BY <1>1
<1>4. NoAnswerYet /\ Calls
  BY <1>2, <1>3 DEF NoAnswerYet, Calls, Looks
<1>5. ASSUME NEW e \in Entries
      PROVE  HeldIn(cache, user, Nil)[e] = 0
  <2>1. CachedIn(cache, e) = 0 /\ Same(Nil, e) = 0
    BY <1>1, <1>2 DEF CachedIn, Same, One
  <2>2. SlotsIn(user, e) = {}
    <3>1. ASSUME NEW s \in Users \X {1, 2}
          PROVE  user[s[1]].slot[s[2]] # e
      <4>1. s[1] \in Users /\ s[2] \in {1, 2}
        OBVIOUS
      <4> QED BY <4>1, <1>2, <1>3
    <3> QED BY <3>1 DEF SlotsIn
  <2>3. Cardinality(SlotsIn(user, e)) = 0
    BY <2>2, FS_EmptySet, Zenon
  <2>4. HeldIn(cache, user, Nil)[e] = CachedIn(cache, e) + Cardinality(SlotsIn(user, e)) + Same(Nil, e)
    BY HeldIs
  <2> QED BY <2>1, <2>3, <2>4
<1>6. OneHost(cache)
  BY <1>1 DEF OneHost
<1>7. Counted(entry, HeldIn(cache, user, Nil))
  <2>1. \A e \in Entries : entry[e].refs = 0 /\ entry[e].st = "unused"
    BY <1>1 DEF Unused
  <2> QED BY <2>1, <1>5 DEF Counted
<1>8. EntryInv
  BY <1>2, <1>6, <1>7 DEF EntryInv
<1>9. FitsInv
  BY <1>2, <1>3 DEF FitsInv, Suits
<1> QED BY <1>4, <1>8, <1>9 DEF EInv

\* Whatever happens next.
LEMMA EntriesNext ==
  ASSUME Separate, LInv, EInv, ProbesAsked, [Next]_resolverVars
  PROVE  EInv'
<1>1. ASSUME NEW u \in Users, Connect(u)
      PROVE  EInv'
  <2>1. PICK h \in Hosts : Resolv(u, h, "connect")
    BY <1>1 DEF Connect
  <2> QED BY <2>1, ResolvKeeps
<1>2. ASSUME NEW u \in Users, ResolvBlocking(u)
      PROVE  EInv'
  <2>1. PICK h \in Hosts : Resolv(u, h, "blocking")
    BY <1>2 DEF ResolvBlocking
  <2> QED BY <2>1, ResolvKeeps
<1>3. ASSUME NEW u \in Users, Poll(u) \/ Done(u) \/ Close(u) \/ Reset(u)
      PROVE  EInv'
  BY <1>3, OtherCallsKeep
<1>4. CASE CallStep
  <2>1. Mark \/ JoinIfDone \/ JoinOrDetach \/ JoinAlways \/ Unlink \/ Free
        \/ Create \/ StartDoh \/ Check \/ IsResolved \/ Awaited \/ IsDohResolved
        \/ Negative \/ Deliver \/ Lost \/ Release \/ KeepAll
    BY <1>4 DEF CallStep
  <2> QED BY <2>1, QuietSteps, CreateKeeps, StartDohKeeps, CheckKeeps, IsResolvedKeeps, AwaitedKeeps,
             IsDohResolvedKeeps, NegativeKeeps, DeliverKeeps, LostKeeps, ReleaseKeeps
<1>5. ASSUME NEW h \in Hosts, Preload(h)
      PROVE  EInv'
  BY <1>5, PreloadKeeps
<1>6. CASE \/ \E c \in Lookups : Thread(c)
           \/ \E u \in Users : DohAnswer(u)
           \/ \E h \in Hosts : GetStale(h)
           \/ UNCHANGED resolverVars
  BY <1>6, QuietEvents
<1> QED BY <1>1, <1>2, <1>3, <1>4, <1>5, <1>6 DEF Next

\* Probes begin where StartDoh sends them.
LEMMA ProbesNext ==
  ASSUME LInv, EInv, ProbesAsked, [Next]_resolverVars
  PROVE  ProbesAsked'
<1>1. user \in [Users -> UserRec] /\ DohUsers \subseteq Users
  BY ResolverAssumption DEF LInv, Types, ResolverConstants
<1>2. ASSUME \A u \in Users : user'[u].doh \in {user[u].doh, "none"}
      PROVE  ProbesAsked'
  BY <1>2 DEF ProbesAsked
<1>3. ASSUME NEW new, user' = [user EXCEPT ![Me] = new],
             Me \in Users => new.doh = user[Me].doh
      PROVE  ProbesAsked'
  BY <1>1, <1>2, <1>3
<1>4. CASE user' = user
  BY <1>2, <1>4
<1>5. CASE StartDoh
  <2>1. At("doh") /\ "doh" \in LastSteps
    BY <1>5 DEF StartDoh, LastSteps
  <2>2. Me \in DohUsers
    BY <2>1, AtTheEnd DEF EInv, Calls
  <2>3. PICK doh : user' = [user EXCEPT ![Me].doh = doh, ![Me].host = call.host]
    BY <1>5 DEF StartDoh
  <2> QED BY <1>1, <2>2, <2>3 DEF ProbesAsked
<1>6. CASE \E u \in Users : DohAnswer(u)
  <2>1. PICK u \in Users : user[u].doh = "pending" /\ user' = [user EXCEPT ![u].doh = "answered"]
    BY <1>6 DEF DohAnswer
  <2> QED BY <1>1, <2>1 DEF ProbesAsked
<1>7. CASE Create
  <2>1. \/ \E c : user' = [user EXCEPT ![Me].ctx = c, ![Me].dns = Nil, ![Me].host = call.host]
        \/ user' = [user EXCEPT ![Me].dns = Nil, ![Me].host = call.host]
    BY <1>7 DEF Create
  <2>2. ASSUME NEW c, user' = [user EXCEPT ![Me].ctx = c, ![Me].dns = Nil, ![Me].host = call.host]
        PROVE  ProbesAsked'
    <3> DEFINE new == [user[Me] EXCEPT !.ctx = c, !.dns = Nil, !.host = call.host]
    <3>1. user' = [user EXCEPT ![Me] = new] /\ (Me \in Users => new.doh = user[Me].doh)
      BY <1>1, <2>2 DEF UserRec
    <3> HIDE DEF new
    <3> QED BY <3>1, <1>3
  <2>3. ASSUME user' = [user EXCEPT ![Me].dns = Nil, ![Me].host = call.host]
        PROVE  ProbesAsked'
    BY <1>1, <1>2, <2>3 DEF UserRec
  <2> QED BY <2>1, <2>2, <2>3
<1>8. CASE Unlink \/ Free
  BY <1>1, <1>2, <1>8 DEF Unlink, Free, UserRec
<1>9. CASE JoinIfDone
  BY <1>1, <1>2, <1>9 DEF JoinIfDone, Forgotten, UserRec
<1>10. CASE Check
  BY <1>1, <1>2, <1>10 DEF Check, UserRec
<1>11. ASSUME NotYet
       PROVE  ProbesAsked'
  BY <1>1, <1>2, <1>11 DEF NotYet, UserRec
<1>12. ASSUME NEW fam, NEW found, NEW missing, NEW nomem, Answered(fam, found, missing, nomem)
       PROVE  ProbesAsked'
  <2>1. \E d : user' = [user EXCEPT ![Me].dns = d, ![Me].doh = "none"]
    BY <1>12 DEF Answered
  <2> QED BY <1>1, <1>2, <2>1 DEF UserRec
<1>13. CASE IsResolved \/ Awaited \/ IsDohResolved
  BY <1>11, <1>12, <1>13 DEF IsResolved, Awaited, IsDohResolved
<1>14. CASE Deliver
  <2> DEFINE i == IF call.mode = "blocking" THEN 2 ELSE 1
  <2> DEFINE settled == [user EXCEPT ![Me].dns = IF call.mode = "poll" THEN Nil ELSE @]
  <2>1. \/ \E d, st : user' = [settled EXCEPT ![Me].slot[i] = d, ![Me].st = st]
        \/ user' = user
    BY <1>14 DEF Deliver
  <2>2. ASSUME NEW d, NEW st, user' = [settled EXCEPT ![Me].slot[i] = d, ![Me].st = st]
        PROVE  ProbesAsked'
    <3> DEFINE old == [user[Me] EXCEPT !.dns = IF call.mode = "poll" THEN Nil ELSE @]
    <3> DEFINE new == [old EXCEPT !.slot[i] = d, !.st = st]
    <3>1. Me \in Users => user[Me] \in UserRec
      BY <1>1
    <3>2. DOMAIN settled = Users /\ (Me \in Users => settled[Me] = old)
          /\ \A u \in Users : u # Me => settled[u] = user[u]
      BY <1>1
    <3>3. Me \in Users => new.doh = user[Me].doh
      BY <3>1 DEF UserRec
    <3> HIDE DEF settled, old, new
    <3>4. \A u \in Users : user'[u] = IF u = Me THEN new ELSE user[u]
      BY <2>2, <3>2 DEF new
    <3> QED BY <1>2, <3>3, <3>4
  <2> QED BY <1>4, <2>1, <2>2
<1>15. CASE Lost \/ KeepAll
  BY <1>1, <1>2, <1>15 DEF Lost, KeepAll, UserRec
<1>16. CASE Release
  BY <1>1, <1>2, <1>16 DEF Release, Forgotten, UserRec
<1>17. CASE \/ Mark \/ JoinOrDetach \/ JoinAlways \/ Negative
  BY <1>4, <1>17 DEF Mark, JoinOrDetach, JoinAlways, Negative
<1>18. CASE CallStep
  BY <1>5, <1>7, <1>8, <1>9, <1>10, <1>13, <1>14, <1>15, <1>16, <1>17, <1>18 DEF CallStep
<1>19. CASE (\E c \in Lookups : Thread(c)) \/ UNCHANGED resolverVars
  BY <1>4, <1>19 DEF Thread, ThreadStart, ThreadLookup, ThreadUnlink, ThreadFree, ThreadExit, resolverVars
<1>20. CASE \E u \in Users : Connect(u) \/ ResolvBlocking(u) \/ Poll(u) \/ Done(u) \/ Close(u) \/ Reset(u)
  BY <1>4, <1>20 DEF Connect, ResolvBlocking, Resolv, Poll, Done, Close, Reset
<1>21. CASE \E h \in Hosts : Preload(h) \/ GetStale(h)
  BY <1>4, <1>21 DEF Preload, GetStale
<1> QED BY <1>6, <1>18, <1>19, <1>20, <1>21 DEF Next

\* The references of an entry, counted one by one, are those the properties count.
LEMMA CountsAgree ==
  ASSUME EntryInv, NEW e \in Entries
  PROVE  LET held == Cardinality({h \in Hosts : cache[h] = e}) + Cardinality(SlotsOf(e))
                     + (IF call.dns = e THEN 1 ELSE 0)
         IN  HeldIn(cache, user, call.dns)[e] = held
<1>1. e # Nil /\ OneHost(cache)
  BY ResolverAssumption DEF EntryInv, ResolverConstants
<1>2. SlotsOf(e) = SlotsIn(user, e)
  BY DEF SlotsOf, SlotsIn
<1>3. Same(call.dns, e) = IF call.dns = e THEN 1 ELSE 0
  BY DEF Same, One
<1> DEFINE keys == {h \in Hosts : cache[h] = e}
<1>4. Cardinality(keys) = CachedIn(cache, e)
  <2>1. CASE \E h \in Hosts : cache[h] = e
    <3>1. PICK h \in Hosts : cache[h] = e
      BY <2>1
    <3>2. keys = {h}
      BY <1>1, <3>1 DEF OneHost
    <3>3. Cardinality({h}) = 1
      BY FS_Singleton
    <3>4. Cardinality(keys) = 1
      BY <3>2, <3>3, Zenon
    <3> QED BY <2>1, <3>4 DEF CachedIn, One
  <2>2. CASE ~(\E h \in Hosts : cache[h] = e)
    <3>1. keys = {}
      BY <2>2
    <3>2. Cardinality(keys) = 0
      BY <3>1, FS_EmptySet, Zenon
    <3> QED BY <2>2, <3>2 DEF CachedIn, One
  <2> QED BY <2>1, <2>2
<1> HIDE DEF keys
<1>5. HeldIn(cache, user, call.dns)[e] = CachedIn(cache, e) + Cardinality(SlotsIn(user, e)) + Same(call.dns, e)
  BY HeldIs
<1>6. HeldIn(cache, user, call.dns)[e] = Cardinality(keys) + Cardinality(SlotsOf(e)) + (IF call.dns = e THEN 1 ELSE 0)
  BY <1>2, <1>3, <1>4, <1>5
<1> QED BY <1>6 DEF keys

\* Every holder of an entry is counted, once, whatever threads and calls do.
THEOREM Entries_Held ==
  ASSUME Separate
  PROVE  Spec => [](LInv /\ EInv /\ ProbesAsked)
<1>1. Init => LInv /\ EInv /\ ProbesAsked
  <2>1. Init => ProbesAsked
    BY DEF Init, ProbesAsked
  <2> QED BY <2>1, LookupsInit, EntriesInit
<1>2. LInv /\ EInv /\ ProbesAsked /\ [Next]_resolverVars => LInv' /\ EInv' /\ ProbesAsked'
  BY LookupsNext, EntriesNext, ProbesNext
<1> QED BY <1>1, <1>2, PTL DEF Spec

\* Lookups, threads and DNS entries are given back once, after their last use: a
\* lookup by the later of its thread and its handle (addr_ctx_unlink), a thread by
\* a join or a detach before that, an entry with the last reference of cache,
\* transfers and the call under way (Curl_resolv_unlink, dnscache_entry_free).
THEOREM References_Are_Counted ==
  ASSUME Separate
  PROVE  Spec => []ReferencesCounted
<1>1. LInv /\ EInv => EntriesCounted
  <2> SUFFICES ASSUME EInv, NEW e \in Entries
               PROVE  LET held == Cardinality({h \in Hosts : cache[h] = e}) + Cardinality(SlotsOf(e))
                                  + (IF call.dns = e THEN 1 ELSE 0)
                      IN  /\ entry[e].refs = held
                          /\ entry[e].st = "live" <=> held > 0
    BY DEF EntriesCounted
  <2>1. EntryInv
    BY DEF EInv
  <2>2. /\ entry[e].refs = HeldIn(cache, user, call.dns)[e]
        /\ entry[e].st = "live" <=> HeldIn(cache, user, call.dns)[e] > 0
    BY <2>1 DEF EntryInv, Counted
  <2> QED BY <2>1, <2>2, CountsAgree
<1>2. Spec => [](LInv /\ EInv)
  BY Entries_Held
<1> QED BY <1>1, <1>2, Lookups_Freed_By_The_Last, PTL DEF ReferencesCounted

\* A connection is set up with addresses of the family that was asked for, whoever
\* put them into the cache and by whatever resolver (fetch_addr, the hints of
\* getaddrinfo_thread, the queries of Curl_doh): but for a handle that asks over
\* HTTPS for IPv6 only, where the A query is sent too and its addresses are kept.
THEOREM Answers_Fit ==
  ASSUME Separate
  PROVE  Spec => []AnswerFits
<1>1. LInv /\ EInv => AnswerFits
  BY DEF EInv, FitsInv, Suits, AnswerFits
<1> QED BY <1>1, Entries_Held, PTL

\* The variables have their types; counts do not go below zero.
THEOREM Resolver_Types ==
  ASSUME Separate
  PROVE  Spec => []TypeOK
<1>1. LInv /\ EInv => TypeOK
  <2> SUFFICES ASSUME LInv, EInv
               PROVE  TypeOK
    OBVIOUS
  <2>1. Types /\ HeldIn(cache, user, call.dns) \in [Entries -> Nat]
    BY HeldTyped DEF LInv
  <2>2. ASSUME NEW e \in Entries
        PROVE  entry[e] \in [st : {"unused", "live", "freed"}, refs : Nat,
                  host : Hosts \cup {Nil}, fam : SUBSET Families, stale : BOOLEAN, perm : BOOLEAN]
    <3>1. entry[e].refs \in Nat /\ entry[e] \in EntryRec
      BY <2>1 DEF EInv, EntryInv, Counted, Types
    <3> QED BY <3>1 DEF EntryRec
  <2>3. entry \in [Entries -> [st : {"unused", "live", "freed"}, refs : Nat,
          host : Hosts \cup {Nil}, fam : SUBSET Families, stale : BOOLEAN, perm : BOOLEAN]]
    BY <2>1, <2>2 DEF Types
  <2>4. /\ lookup \in [Lookups -> [st : {"unused", "live", "freed"}, refs : 0..2, abort : BOOLEAN,
              done : BOOLEAN, handle : {"null", "held", "joined", "detached"},
              res : SUBSET Families, want : Families \cup {"any"}]]
        /\ thread \in [Lookups -> {"none", "start", "lookup", "notify", "unlink", "free",
                                    "exit", "ended"}]
    BY <2>1 DEF Types, LookupRec, ThreadAt
  <2>5. /\ cache \in [Hosts -> Entries \cup {Nil}]
        /\ call.who \in Users \cup {Nil} /\ call.dns \in Entries \cup {Nil} /\ call.done \in BOOLEAN
    BY <2>1 DEF Types, CallRec
  <2>6. user \in [Users -> [st : {"idle", "resolving", "resolved", "ending", "closed"},
        ctx : Lookups \cup {Nil}, dns : Entries \cup {Nil},
        host : Hosts \cup {Nil}, doh : {"none", "pending", "answered"},
        slot : (Entries \cup {Nil}) \X (Entries \cup {Nil})]]
    BY <2>1 DEF Types, UserRec, Slots
  <2> QED BY <2>3, <2>4, <2>5, <2>6 DEF TypeOK
<1> QED BY <1>1, Entries_Held, PTL
=============================================================================
