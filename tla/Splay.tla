---------------------------------- MODULE Splay ---------------------------------
(***************************************************************************)
(* The splay tree of timers (lib/splay.c).  Nodes with the same key are a  *)
(* ring behind the one that is in the tree; a node of a ring has the key   *)
(* SubNode.  The reference is the plain set of nodes with their keys.      *)
(***************************************************************************)
EXTENDS Naturals, FiniteSets

CONSTANTS
  TreeNodes,     \* the nodes there are
  TreeKeys,      \* the keys they may have, as positive numbers
  Header,        \* the dummy node Curl_splay hangs the halves on
  NoNode

\* what is assumed of the constants
SplayConstants == TreeKeys \subseteq Nat \ {0} /\ Header \notin TreeNodes /\ NoNode \notin TreeNodes \cup {Header}

VARIABLES
  mem,           \* the fields of each node: mem["smaller"][n] and so on
  root,
  inserted,      \* the reference: each node's key, 0 without one
  answer         \* what the last operation returned

splayVars == <<mem, root, inserted, answer>>

SubNode == 0
Store(m, field, n, value) == [m EXCEPT ![field][n] = value]
Opposite(side) == IF side = "smaller" THEN "larger" ELSE "smaller"
Side(i, key) == IF i < key THEN "smaller" ELSE "larger"

-----------------------------------------------------------------------------
\* Curl_splay: down from t; ends[side] is where nodes passed on that side are hung
RECURSIVE Down(_, _, _, _)
Link(m, t, ends, i, side) == Down(Store(m, side, ends[side], t), m[side][t], [ends EXCEPT ![side] = t], i)
Turned(m, t, y, side) == Store(Store(m, side, t, m[Opposite(side)][y]), Opposite(side), y, t)
Down(m, t, ends, i) ==
  LET side == Side(i, m.key[t])
      y == m[side][t]
      zigzig == i # m.key[y] /\ Side(i, m.key[y]) = side
  IN  IF i = m.key[t] \/ y = NoNode THEN [m |-> m, t |-> t, ends |-> ends]
      ELSE IF ~zigzig THEN Link(m, t, ends, i, side)
      ELSE IF m[side][y] = NoNode THEN [m |-> Turned(m, t, y, side), t |-> y, ends |-> ends]
      ELSE Link(Turned(m, t, y, side), y, ends, i, side)

\* the subtrees of the new root t are hung at the ends, then t gets the two halves
ClearHeader(m) == Store(Store(m, "smaller", Header, NoNode), "larger", Header, NoNode)
HangUnder(d, side) == [d EXCEPT !.m = Store(@, side, d.ends[side], d.m[Opposite(side)][d.t])]
Halves(d, m) ==
  [m |-> ClearHeader(Store(Store(m, "smaller", d.t, m.larger[Header]), "larger", d.t, m.smaller[Header])), t |-> d.t]
Assembled(d) == Halves(d, HangUnder(HangUnder(d, "larger"), "smaller").m)

Splayed(m, t, i) ==
  IF t = NoNode THEN [m |-> m, t |-> t]
  ELSE Assembled(Down(m, t, [smaller |-> Header, larger |-> Header], i))

\* Bug variant: the ring is not closed backwards.
JoinRingHalf(m, t, n) ==
  Store(Store(Store(Store(m, "key", n, SubNode), "samen", n, t), "samep", n, m.samep[t]), "samen", m.samep[t], n)

\* Curl_splayinsert, after splaying
JoinRing(m, t, n) ==
  Store(Store(Store(Store(Store(m, "key", n, SubNode), "samen", n, t), "samep", n, m.samep[t]),
              "samen", m.samep[t], n), "samep", t, n)
Alone(m, n, i) == Store(Store(Store(m, "key", n, i), "samen", n, n), "samep", n, n)
Above(m, t, n, side) ==
  Store(Store(Store(m, side, n, m[side][t]), Opposite(side), n, t), side, t, NoNode)
InsertAt(s, n, i) ==
  IF s.t = NoNode
  THEN [m |-> Alone(Store(Store(s.m, "smaller", n, NoNode), "larger", n, NoNode), n, i), t |-> n]
  ELSE IF s.m.key[s.t] = i THEN [m |-> JoinRing(s.m, s.t, n), t |-> s.t]
  ELSE [m |-> Alone(Above(s.m, s.t, n, Side(i, s.m.key[s.t])), n, i), t |-> n]
Insert(m, t, n, i) == InsertAt(Splayed(m, t, i), n, i)

\* the next node x of t's ring takes its place in the tree
RingFrom(m, t, x) == Store(Store(m, "samep", x, m.samep[t]), "samen", m.samep[t], x)
InTreeFrom(m, t, x) == Store(Store(Store(m, "key", x, m.key[t]), "larger", x, m.larger[t]), "smaller", x, m.smaller[t])
TakePlace(m, t) == RingFrom(InTreeFrom(m, t, m.samen[t]), t, m.samen[t])

\* Curl_splaygetbest
BestAt(s, i) ==
  IF s.t = NoNode \/ i < s.m.key[s.t] THEN [m |-> s.m, t |-> s.t, removed |-> NoNode]
  ELSE IF s.m.samen[s.t] # s.t
  THEN [m |-> TakePlace(s.m, s.t), t |-> s.m.samen[s.t], removed |-> s.t]
  ELSE [m |-> s.m, t |-> s.m.larger[s.t], removed |-> s.t]
GetBest(m, t, i) == BestAt(Splayed(m, t, 0), i)

\* Curl_splayremove; result 2 is a node that is not in the tree, 3 one that is in no ring
LeaveRing(m, n) ==
  Store(Store(Store(m, "samen", m.samep[n], m.samen[n]), "samep", m.samen[n], m.samep[n]), "samen", n, n)
Joined(low, larger) == [m |-> Store(low.m, "larger", low.t, larger), t |-> low.t, rc |-> 0]
RemoveAt(s, t, n, key) ==
  IF s.t # n THEN [m |-> s.m, t |-> t, rc |-> 2]
  ELSE IF s.m.samen[n] # n THEN [m |-> TakePlace(s.m, n), t |-> s.m.samen[n], rc |-> 0]
  ELSE IF s.m.smaller[n] = NoNode THEN [m |-> s.m, t |-> s.m.larger[n], rc |-> 0]
  ELSE Joined(Splayed(s.m, s.m.smaller[n], key), s.m.larger[n])
Remove(m, t, n) ==
  IF m.key[n] # SubNode THEN RemoveAt(Splayed(m, t, m.key[n]), t, n, m.key[n])
  ELSE IF m.samen[n] = n THEN [m |-> m, t |-> t, rc |-> 3]
  ELSE [m |-> LeaveRing(m, n), t |-> t, rc |-> 0]

-----------------------------------------------------------------------------
\* the fields of a node that is out of the tree are written before they are read
Blank(m, n) ==
  IF n = NoNode THEN m
  ELSE Store(Store(Store(Store(Store(m, "key", n, SubNode), "smaller", n, NoNode), "larger", n, NoNode),
                   "samen", n, n), "samep", n, n)
NoAnswer == [asked |-> 0, node |-> NoNode, key |-> 0, rc |-> 0]

Init ==
  LET nodes == TreeNodes \cup {Header, NoNode}
  IN  /\ mem = [smaller |-> [n \in nodes |-> NoNode], larger |-> [n \in nodes |-> NoNode],
                samen |-> [n \in nodes |-> n], samep |-> [n \in nodes |-> n], key |-> [n \in nodes |-> SubNode]]
      /\ root = NoNode /\ inserted = [n \in TreeNodes |-> 0] /\ answer = NoAnswer

InsertNode(n, i) ==
  /\ inserted[n] = 0
  /\ LET r == Insert(mem, root, n, i) IN mem' = r.m /\ root' = r.t
  /\ inserted' = [inserted EXCEPT ![n] = i]
  /\ answer' = NoAnswer

TakeBest(i) ==
  LET r == GetBest(mem, root, i)
  IN  /\ mem' = Blank(r.m, r.removed) /\ root' = r.t
      /\ inserted' = [n \in TreeNodes |-> IF n = r.removed THEN 0 ELSE inserted[n]]
      /\ answer' = [asked |-> i, node |-> r.removed, key |-> IF r.removed = NoNode THEN 0 ELSE inserted[r.removed],
                    rc |-> 0]

RemoveNode(n) ==
  /\ inserted[n] # 0
  /\ LET r == Remove(mem, root, n)
     IN  mem' = Blank(r.m, n) /\ root' = r.t /\ answer' = [NoAnswer EXCEPT !.rc = r.rc]
  /\ inserted' = [inserted EXCEPT ![n] = 0]

Next ==
  \E i \in TreeKeys : TakeBest(i) \/ \E n \in TreeNodes : InsertNode(n, i) \/ RemoveNode(n)

Spec == Init /\ [][Next]_splayVars

-----------------------------------------------------------------------------
TypeOK == root \in TreeNodes \cup {NoNode} /\ answer.rc \in {0, 1, 2, 3} /\ inserted \in [TreeNodes -> TreeKeys \cup {0}]

RECURSIVE Ring(_, _), Under(_)
Ring(n, seen) == IF mem.samen[n] \in seen THEN seen ELSE Ring(mem.samen[n], seen \cup {mem.samen[n]})
Under(n) == IF n = NoNode THEN {} ELSE Under(mem.smaller[n]) \cup {n} \cup Under(mem.larger[n])

\* The tree holds exactly the nodes that were inserted and not removed, each under
\* its key and in order.
HoldsInserted ==
  /\ {n \in TreeNodes : inserted[n] # 0} = UNION {Ring(n, {n}) : n \in Under(root)}
  /\ \A n \in Under(root) :
       /\ \A k \in Ring(n, {n}) : inserted[k] = mem.key[n]
       /\ \A k \in Under(mem.smaller[n]) : mem.key[k] < mem.key[n]
       /\ \A k \in Under(mem.larger[n]) : mem.key[k] > mem.key[n]

\* What is taken is one of the earliest and due; nothing is taken only if nothing is
\* due; and a node that is in the tree can be removed.
BestIsEarliest ==
  /\ answer.rc = 0
  /\ answer.asked # 0 =>
       LET left == {n \in TreeNodes : inserted[n] # 0}
       IN  IF answer.node = NoNode THEN \A n \in left : inserted[n] > answer.asked
           ELSE answer.key <= answer.asked /\ \A n \in left : inserted[n] >= answer.key

\* The tree is the set of timers it stands for, and takes the earliest first.
TreeRight == HoldsInserted /\ BestIsEarliest
=============================================================================
