-------------------------- MODULE TransferService --------------------------
(***************************************************************************)
(* What a multi handle promises its application, whatever happens inside:  *)
(* a transfer that was added runs until it is done, done transfers are     *)
(* reported once each and in the order in which they became done, a        *)
(* transfer that was removed is heard of no more, the number of running    *)
(* transfers is known, and no transfer is done while it still holds a      *)
(* connection, nor holds one that others hold unless they may share it.    *)
(***************************************************************************)
EXTENDS Naturals, FiniteSets, Sequences

CONSTANTS Easy,        \* transfers
          Conns,       \* connections
          NoConn,      \* no connection
          Multiplex,   \* transfers that may share a connection
          MaxStreams   \* most transfers on one connection

VARIABLES stage,    \* "out", "running" or "done" for each transfer
          lease,    \* the connection each transfer holds
          running,  \* the number the application is told
          reports   \* done transfers the application has not read of yet

vars == <<stage, lease, running, reports>>

Init == /\ stage = [x \in Easy |-> "out"]
        /\ lease = [x \in Easy |-> NoConn]
        /\ running = 0
        /\ reports = <<>>

Add(x) == /\ stage[x] = "out"
          /\ stage' = [stage EXCEPT ![x] = "running"]
          /\ running' = running + 1
          /\ UNCHANGED <<lease, reports>>

\* The report of x, if it has not been read, is withdrawn.
Withdraw(x) ==
  /\ \/ UNCHANGED reports
     \/ \E k \in 1..Len(reports) :
          /\ reports[k] = x
          /\ reports' = SubSeq(reports, 1, k - 1) \o SubSeq(reports, k + 1, Len(reports))
  /\ \A k \in 1..Len(reports') : reports'[k] # x

Remove(x) == /\ stage[x] # "out"
             /\ stage' = [stage EXCEPT ![x] = "out"]
             /\ lease' = [lease EXCEPT ![x] = NoConn]
             /\ running' = IF stage[x] = "running" THEN running - 1 ELSE running
             /\ Withdraw(x)

Holders(c) == {x \in Easy : lease[x] = c}

Acquire(x, c) ==
  /\ stage[x] = "running" /\ lease[x] = NoConn
  /\ \/ Holders(c) = {}
     \/ /\ Holders(c) \cup {x} \subseteq Multiplex
        /\ Cardinality(Holders(c)) < MaxStreams
  /\ lease' = [lease EXCEPT ![x] = c]
  /\ UNCHANGED <<stage, running, reports>>

Release(x) == /\ lease[x] # NoConn
              /\ lease' = [lease EXCEPT ![x] = NoConn]
              /\ UNCHANGED <<stage, running, reports>>

\* A transfer is done when it has let go of its connection, or lets go of it.
Finish(x) == /\ stage[x] = "running"
             /\ stage' = [stage EXCEPT ![x] = "done"]
             /\ lease' = [lease EXCEPT ![x] = NoConn]
             /\ running' = running - 1
             /\ reports' = Append(reports, x)

Read == /\ reports # <<>>
        /\ reports' = Tail(reports)
        /\ UNCHANGED <<stage, lease, running>>

Next == \/ \E x \in Easy : Add(x) \/ Remove(x) \/ Release(x) \/ Finish(x)
        \/ \E x \in Easy, c \in Conns : Acquire(x, c)
        \/ Read

Spec == Init /\ [][Next]_vars
=============================================================================
