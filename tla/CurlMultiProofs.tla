-------------------------- MODULE CurlMultiProofs --------------------------
(***************************************************************************)
(* Theorems about CurlMulti, for every number of transfers, connections    *)
(* and hosts, every limit, and every mix of protocols, time-outs, aborts   *)
(* and removals: the sets and counts of the multi, and that no connection  *)
(* is closed, shut down or given to somebody else while a transfer uses it.*)
(* Then what the multi does for its application: it keeps to the limits on *)
(* connections, forgets no transfer that could run and loses no timeout,   *)
(* announces when it is to be called, lets none wait for nothing, and      *)
(* implements the service.                                                 *)
(***************************************************************************)
EXTENDS CurlMulti, FiniteSetTheorems, SequenceTheorems, TLAPS

-----------------------------------------------------------------------------
(* The operators of the pool return pools, for any slot: a change of a slot *)
(* that is none changes nothing.                                          *)

Pools == [Conns -> Connection]

\* A slot that is closed or opened anew has the type of a connection.
LEMMA ClosedConnType == ClosedConn \in Connection
BY DEF ClosedConn, Connection

LEMMA NewConnType == ASSUME NEW h \in Hosts PROVE NewConn(h) \in Connection
BY DEF NewConn, Connection

\* Marking a connection to be closed, at once or only its stream.
LEMMA CloseType ==
  ASSUME NEW cn \in Pools, NEW c
  PROVE  ConnClose(cn, c) \in Pools /\ StreamClose(cn, c) \in Pools
BY DEF ConnClose, StreamClose, Pools, Connection

\* Closing a connection.
LEMMA TerminateType ==
  ASSUME NEW cn \in Pools, NEW c
  PROVE  Terminate(cn, c) \in Pools
BY ClosedConnType DEF Terminate, Pools

\* Moving a connection to the shutdown list.
LEMMA ShutType ==
  ASSUME NEW cn \in Pools, NEW c
  PROVE  [cn EXCEPT ![c] = [cn[c] EXCEPT !.st = "shut"]] \in Pools
BY DEF Pools, Connection

\* ... where the oldest one there may be closed to make room.
LEMMA AddToShutdownType ==
  ASSUME NEW cn \in Pools, NEW c
  PROVE  AddToShutdown(cn, c) \subseteq Pools
<1> DEFINE cn1 == [cn EXCEPT ![c] = [cn[c] EXCEPT !.st = "shut"]]
<1>1. cn1 \in Pools
  BY ShutType
<1>2. Shut(cn) \subseteq Conns
  BY DEF Shut
<1>3. \A o \in Shut(cn) : Terminate(cn1, o) \in Pools
  BY <1>1, <1>2, TerminateType
<1>4. AddToShutdown(cn, c) \subseteq {Terminate(cn1, o) : o \in Shut(cn)} \cup {cn1}
  BY DEF AddToShutdown
<1> QED
  BY <1>1, <1>3, <1>4

\* Closing or shutting down.
LEMMA DisconnectType ==
  ASSUME NEW cn \in Pools, NEW c, NEW aborted
  PROVE  Disconnect(cn, c, aborted) \subseteq Pools
BY TerminateType, AddToShutdownType DEF Disconnect

\* Trimming the pool when a connection becomes idle.
LEMMA NowIdleType ==
  ASSUME NEW cn \in Pools, NEW inUse, NEW keep
  PROVE  NowIdle(cn, inUse, keep) \subseteq Pools
<1>1. OldestIdle(cn, inUse) \subseteq Conns
  BY DEF OldestIdle, Live
<1>2. \A o \in OldestIdle(cn, inUse) : Disconnect(cn, o, FALSE) \subseteq Pools
  BY <1>1, DisconnectType
<1> QED
  BY <1>2 DEF NowIdle

\* Removing dead connections.
LEMMA PruneDeadType ==
  ASSUME NEW cn \in Pools, NEW inUse
  PROVE  PruneDead(cn, inUse) \subseteq Pools
<1>1. \A c \in Conns : cn[c] \in Connection
  BY DEF Pools
<1>2. \A c \in Conns : [cn[c] EXCEPT !.st = "shut"] \in Connection
  BY <1>1 DEF Connection
<1>3. \A ended, ending : Pruned(cn, ended, ending) \in Pools
  BY <1>1, <1>2, ClosedConnType DEF Pools, Pruned
<1> QED
  BY <1>3 DEF PruneDead

\* Making room for a new connection.
LEMMA CheckLimitsType ==
  ASSUME NEW cn \in Pools, NEW inUse, NEW h
  PROVE  CheckLimits(cn, inUse, h) \subseteq Pools
<1>1. ASSUME NEW q \in Pools, NEW shuts \in SUBSET Conns, NEW idles \in SUBSET Conns
      PROVE  CloseOne(q, shuts, idles) \subseteq Pools
  BY TerminateType DEF CloseOne
<1>2. \A q \in Pools : /\ Shut(q) \subseteq Conns /\ ShutTo(q, h) \subseteq Conns
                       /\ OldestIdle(q, inUse) \subseteq Conns
                       /\ OldestIdleTo(q, inUse, h) \subseteq Conns
  BY DEF Shut, ShutTo, OldestIdle, OldestIdleTo, Live, LiveTo
<1>3. HostRoom(cn, inUse, h) \subseteq Pools
  BY <1>1, <1>2 DEF HostRoom
<1>4. \A q \in Pools : TotalRoom(q, inUse, h) \subseteq Pools
  BY <1>1, <1>2 DEF TotalRoom
<1> QED
  BY <1>3, <1>4 DEF CheckLimits
-----------------------------------------------------------------------------
(* What the operators of the multi change *)

LEMMA FirstMember == ASSUME NEW S PROVE First(S) \subseteq S
BY DEF First

\* multi_done leaves a pool behind.
LEMMA DonePoolsType ==
  ASSUME NEW x, NEW cn \in Pools, NEW premature
  PROVE  DonePools(x, cn, premature) \subseteq Pools
BY DisconnectType, NowIdleType DEF DonePools
-----------------------------------------------------------------------------
(* The inductive invariant.  Besides the properties it says what a call in *)
(* progress may assume of the transfer it runs.                            *)

Control ==
  /\ call = "app" => cur = 0
  /\ cur # 0 => cur \in added /\ mstate[cur] # "MSGSENT"
  /\ cur # 0 /\ result = "err" => /\ mstate[cur] # "PENDING"
                                  /\ phase = "top" => mstate[cur] = "DONE"

\* Within an iteration, a transfer that failed has no connection any more, and
\* another one has a connection if its state calls for one.
CurConn ==
  cur # 0 /\ phase # "top" =>
    IF result = "err" THEN xconn[cur] = NoConn
                      ELSE mstate[cur] \in Attached <=> xconn[cur] # NoConn

\* Only a transfer of the multi has timers in its tree.
TimersOfAdded == \A x \in Easy : timer[x] # "none" => x \in added

IInv == /\ TypeOK /\ SetsMatchState /\ RunningCount
        /\ Control /\ ActiveHasConn /\ CurConn /\ TimersOfAdded

-----------------------------------------------------------------------------
(* How a step of a transfer changes the sets: each action has one of a few *)
(* shapes, and the shapes preserve what the sets say.                      *)

Running == States \ (Completed \cup {"PENDING"})

Kept == UNCHANGED <<added, msgsent, alive, msglist>>
Stands == Kept /\ UNCHANGED sets
Wakes == Kept /\ \E W \in SUBSET pending : Wake(W)
Moves(x) == /\ Kept /\ x \in process
            /\ \E s \in Running, W \in SUBSET pending : Move(x, s, W)
Parks(x) == Kept /\ x \in process /\ Park(x)
Ends(x) ==
  /\ Kept /\ x \in process
  /\ \E W \in SUBSET pending :
       /\ mstate' = [y \in Easy |-> IF y \in W THEN "CONNECT"
                                    ELSE IF y = x THEN "COMPLETED" ELSE mstate[y]]
       /\ process' = (process \cup W) \ {x}
       /\ pending' = pending \ W
       /\ dirty' = Marked(W)
Finishes(x) ==
  /\ UNCHANGED added /\ x \in added \ msgsent
  /\ \E W \in SUBSET (pending \ {x}) :
       /\ mstate' = [y \in Easy |-> IF y \in W THEN "CONNECT"
                                    ELSE IF y = x THEN "MSGSENT" ELSE mstate[y]]
       /\ process' = (process \cup W) \ {x}
       /\ pending' = pending \ (W \cup {x})
       /\ dirty' = Marked(W) \ {x}
  /\ msgsent' = msgsent \cup {x}
  /\ alive' = alive - 1
  /\ msglist' = Append(msglist, x)

\* An error is on its way to the end of the iteration, or to DONE.
ErrorKnown(x) == result' = "err" => /\ mstate'[x] # "PENDING"
                                    /\ phase' = "top" => mstate'[x] = "DONE"
Shape(x) ==
  \/ /\ cur' = x /\ ErrorKnown(x)
     /\ Stands \/ Wakes \/ Moves(x) \/ Parks(x) \/ Ends(x)
  \/ cur' = 0 /\ (Finishes(x) \/ (Stands /\ mstate[x] # "COMPLETED"))

\* What the shape of a step depends on.
Ready(x) ==
  /\ cur = x /\ x \in Easy /\ x # 0
  /\ mstate \in [Easy -> States]
  /\ First(pending) \subseteq pending
  /\ x \in process <=> mstate[x] \in Running
  /\ x \in pending <=> mstate[x] = "PENDING"
  /\ x \in added
  /\ x \in msgsent <=> mstate[x] = "MSGSENT"
  /\ mstate[x] # "MSGSENT"
  /\ result = "err" => /\ mstate[x] # "PENDING"
                       /\ phase = "top" => mstate[x] = "DONE"
  /\ xconn[x] # NoConn => mstate[x] \in Attached

\* The invariant gives a running transfer what the shapes need.
LEMMA Readiness ==
  ASSUME IInv, NEW x \in Easy, cur = x
  PROVE  Ready(x)
<1>1. x # 0
  BY MultiAssumption
<1>2. First(pending) \subseteq pending
  BY FirstMember
<1>3. mstate \in [Easy -> States]
  BY DEF IInv, TypeOK
<1>4. /\ x \in added /\ mstate[x] # "MSGSENT"
      /\ result = "err" => /\ mstate[x] # "PENDING"
                           /\ phase = "top" => mstate[x] = "DONE"
  BY <1>1 DEF IInv, Control
<1>5. /\ x \in process <=> mstate[x] \in Running
      /\ x \in pending <=> mstate[x] = "PENDING"
      /\ x \in msgsent <=> mstate[x] = "MSGSENT"
  BY <1>3, <1>4 DEF IInv, SetsMatchState, Running
<1>6. xconn[x] # NoConn => mstate[x] \in Attached
  BY DEF IInv, ActiveHasConn
<1> QED
  BY <1>1, <1>2, <1>3, <1>4, <1>5, <1>6 DEF Ready

\* The switch for state s leaves counts and messages alone.
LEMMA RunKeeps ==
  ASSUME NEW x, NEW s, Ready(x), Run(x, s)
  PROVE  Kept /\ cur' = x /\ phase' = "late" /\ mstate[x] = s
BY DEF Ready, Run, AtTop, call_, done, Kept

\* An iteration that ends in a move to a running state.
LEMMA RunMoves ==
  ASSUME NEW x, NEW s \in Running, NEW t \in Running, NEW W \in SUBSET pending,
         Ready(x), Run(x, s), Move(x, t, W)
  PROVE  Shape(x)
<1>1. Kept /\ cur' = x /\ phase' = "late" /\ mstate[x] = s
  BY RunKeeps
<1>2. x \notin W /\ x \in process
  BY <1>1 DEF Ready, Running
<1>3. mstate'[x] = t
  BY <1>2 DEF Move, Ready
<1> QED
  BY <1>1, <1>2, <1>3 DEF Shape, Moves, ErrorKnown, Running

\* An iteration that fails and wakes a queued transfer.
LEMMA RunFails ==
  ASSUME NEW x, NEW s \in Running, Ready(x), Run(x, s), Wake(First(pending))
  PROVE  Shape(x)
<1>1. Kept /\ cur' = x /\ phase' = "late" /\ mstate[x] = s
  BY RunKeeps
<1>2. First(pending) \in SUBSET pending /\ x \notin First(pending)
  BY <1>1 DEF Ready, Running
<1>3. mstate'[x] = mstate[x]
  BY <1>2 DEF Wake, Ready
<1> QED
  BY <1>1, <1>2, <1>3 DEF Shape, Wakes, ErrorKnown, Running

\* An iteration that leaves all sets alone.
LEMMA RunStands ==
  ASSUME NEW x, NEW s, Ready(x), Run(x, s), UNCHANGED sets,
         result' = "err" => s # "PENDING"
  PROVE  Shape(x)
<1>1. Kept /\ cur' = x /\ phase' = "late" /\ mstate[x] = s
  BY RunKeeps
<1> QED
  BY <1>1 DEF Shape, Stands, ErrorKnown, sets

\* INIT, SETUP and CONNECT.
LEMMA StartingShape ==
  ASSUME NEW x, Ready(x),
         InitFails(x) \/ ReuseConn(x) \/ WaitForConn(x) \/ OpenConn(x) \/ ConnectFails(x)
  PROVE  Shape(x)
<1>1. CASE InitFails(x)
  BY <1>1, RunStands DEF InitFails
<1>2. ASSUME Starting(x), NEW t \in Running, NEW W \in SUBSET pending, Move(x, t, W)
      PROVE  Shape(x)
  <2>1. PICK s \in {"INIT", "SETUP", "CONNECT"} : Run(x, s)
    BY <1>2 DEF Starting
  <2>2. s \in Running
    BY DEF Running, States, Connecting, Using, Completed
  <2> QED
    BY <1>2, <2>1, <2>2, RunMoves
<1>3. /\ First(pending) \in SUBSET pending
      /\ {"RESOLVING", "CONNECTING", "PROTOCONNECT", "CONNECT"} \subseteq Running
  BY DEF Ready, Running, States, Connecting, Using, Completed
<1>4. CASE ReuseConn(x)
  <2>1. Starting(x) /\ \E t \in Running : Move(x, t, First(pending))
    BY <1>3, <1>4 DEF ReuseConn, Connects
  <2> QED
    BY <1>2, <1>3, <2>1
<1>5. CASE OpenConn(x)
  <2>1. Starting(x) /\ \E t \in Running : Move(x, t, First(pending))
    BY <1>3, <1>5 DEF OpenConn, Connects
  <2> QED
    BY <1>2, <1>3, <2>1
<1>6. CASE ConnectFails(x)
  <2>1. Starting(x) /\ Move(x, "CONNECT", First(pending))
    BY <1>6 DEF ConnectFails, Connects
  <2> QED
    BY <1>2, <1>3, <2>1
<1>7. CASE WaitForConn(x)
  <2>1. Starting(x) /\ Park(x) /\ result' = result
    BY <1>7 DEF WaitForConn, Connects, Waits
  <2>2. PICK s \in {"INIT", "SETUP", "CONNECT"} : Run(x, s)
    BY <2>1 DEF Starting
  <2>3. Kept /\ cur' = x /\ phase' = "late" /\ mstate[x] = s /\ phase = "top"
    BY <2>2, RunKeeps DEF Run, AtTop
  <2>4. x \in process /\ result # "err"
    BY <2>3 DEF Ready, Running, States, Connecting, Using, Completed
  <2> QED
    BY <2>1, <2>3, <2>4 DEF Shape, Parks, ErrorKnown
<1> QED
  BY <1>1, <1>4, <1>5, <1>6, <1>7

\* From RESOLVING up to DO.
LEMMA ConnectingShape ==
  ASSUME NEW x, Ready(x),
         \/ Resolving(x) \/ ResolveFails(x) \/ AwaitConnect(x) \/ ComesUp(x)
         \/ IsUp(x) \/ ConnectionFails(x) \/ ProtoConnect(x)
         \/ ProtoConnecting(x) \/ ProtocolFails(x)
  PROVE  Shape(x)
<1>1. /\ First(pending) \in SUBSET pending /\ {} \in SUBSET pending
      /\ {"RESOLVING", "CONNECTING", "PROTOCONNECT", "PROTOCONNECTING", "DO"}
           \subseteq Running
  BY DEF Ready, Running, States, Connecting, Using, Completed
<1>2. CASE Resolving(x)
  BY <1>1, <1>2, RunStands, RunMoves DEF Resolving, Stay, Advance
<1>3. CASE ResolveFails(x)
  BY <1>3, RunStands DEF ResolveFails
<1>4. CASE AwaitConnect(x)
  BY <1>4, RunStands DEF AwaitConnect, Stay
<1>5. CASE ComesUp(x)
  BY <1>1, <1>5, RunMoves DEF ComesUp
<1>6. CASE IsUp(x)
  BY <1>1, <1>6, RunMoves DEF IsUp, Advance
<1>7. CASE ConnectionFails(x)
  BY <1>1, <1>7, RunFails DEF ConnectionFails, FailDone
<1>8. CASE ProtoConnect(x)
  BY <1>1, <1>8, RunMoves DEF ProtoConnect, Advance
<1>9. CASE ProtoConnecting(x)
  BY <1>1, <1>9, RunStands, RunMoves DEF ProtoConnecting, Stay, Advance
<1>10. CASE ProtocolFails(x)
  BY <1>1, <1>10, RunFails DEF ProtocolFails, FailDone
<1> QED
  BY <1>2, <1>3, <1>4, <1>5, <1>6, <1>7, <1>8, <1>9, <1>10

\* From DO up to DONE.
LEMMA UsingShape ==
  ASSUME NEW x, Ready(x),
         \/ Do(x) \/ DoRetries(x) \/ DoFails(x) \/ Doing(x) \/ DoingMore(x)
         \/ Did(x) \/ Transfers(x) \/ Received(x) \/ Redirected(x)
         \/ FollowFails(x) \/ TransferFails(x) \/ Unlimited(x)
  PROVE  Shape(x)
<1>1. /\ First(pending) \in SUBSET pending /\ {} \in SUBSET pending
      /\ {"DO", "DOING", "DOING_MORE", "DID", "PERFORMING", "RATELIMITING",
          "DONE", "SETUP"} \subseteq Running
  BY DEF Ready, Running, States, Connecting, Using, Completed
<1>2. CASE Do(x)
  <2>1. Run(x, "DO") /\ \E t \in Running : Move(x, t, {})
    BY <1>1, <1>2 DEF Do, Advance
  <2> QED
    BY <1>1, <2>1, RunMoves
<1>3. CASE DoRetries(x)
  BY <1>1, <1>3, RunMoves DEF DoRetries, Again
<1>4. CASE DoFails(x)
  BY <1>1, <1>4, RunFails DEF DoFails, FailDone
<1>5. CASE Doing(x)
  BY <1>1, <1>5, RunStands, RunMoves DEF Doing, Stay, Advance
<1>6. CASE DoingMore(x)
  BY <1>1, <1>6, RunStands, RunMoves DEF DoingMore, Stay, Advance
<1>7. CASE Did(x)
  <2>1. Run(x, "DID") /\ \E t \in Running, W \in SUBSET pending : Move(x, t, W)
    BY <1>1, <1>7 DEF Did
  <2> QED
    BY <1>1, <2>1, RunMoves
<1>8. CASE Transfers(x)
  BY <1>1, <1>8, RunStands, RunMoves DEF Transfers, Stay
<1>9. CASE Received(x)
  BY <1>1, <1>9, RunMoves DEF Received
<1>10. CASE Redirected(x)
  BY <1>1, <1>10, RunMoves DEF Redirected, Again
<1>11. CASE FollowFails(x)
  BY <1>1, <1>11, RunFails DEF FollowFails, FailDone
<1>12. CASE TransferFails(x)
  BY <1>1, <1>12, RunFails DEF TransferFails, FailDone
<1>13. CASE Unlimited(x)
  BY <1>1, <1>13, RunStands, RunMoves DEF Unlimited, Stay, Advance
<1> QED
  BY <1>2, <1>3, <1>4, <1>5, <1>6, <1>7, <1>8, <1>9, <1>10, <1>11, <1>12, <1>13

\* The end of the loop, and the steps that come before the state's own.
LEMMA LoopShape ==
  ASSUME NEW x, Ready(x),
         \/ Recheck(x) \/ TopTimeout(x) \/ Parked(x) \/ Done(x) \/ LateTimeout(x)
         \/ Failed(x) \/ Complete(x) \/ AbortToDone(x) \/ AbortInDone(x) \/ Loop(x)
  PROVE  Shape(x)
<1>1. /\ First(pending) \in SUBSET pending /\ {} \in SUBSET pending
      /\ Connecting \cup {"DO"} \cup Using \subseteq Running
      /\ Attached \subseteq Running
  BY DEF Ready, Running, States, Connecting, Using, Completed, Attached
<1>2. CASE Recheck(x)
  <2>1. Kept /\ cur' = x /\ Wake(First(pending)) /\ result' = result /\ phase' = phase
    BY <1>2 DEF Recheck, AtTop, Ready, Kept, done, call_
  <2>2. phase = "top"
    BY <1>2 DEF Recheck, AtTop
  <2>3. ErrorKnown(x)
    <3>1. SUFFICES ASSUME result = "err" PROVE mstate'[x] = "DONE"
      BY <2>1 DEF ErrorKnown
    <3>2. mstate[x] = "DONE" /\ x \notin First(pending)
      BY <3>1, <2>2 DEF Ready
    <3> QED
      BY <3>2, <2>1 DEF Wake, Ready
  <2> QED
    BY <1>1, <2>1, <2>3 DEF Shape, Wakes
<1>3. ASSUME HandleTimeout(x), TimedOut(x, mstate[x]), Kept, cur' = x, phase' # "top"
      PROVE  Shape(x)
  <2>1. mstate[x] \in Running
    BY <1>1, <1>3 DEF TimedOut
  <2>2. CASE UNCHANGED sets
    BY <1>3, <2>1, <2>2 DEF Shape, Stands, ErrorKnown, sets, Running
  <2>3. CASE Wake(First(pending))
    <3>1. mstate'[x] = mstate[x]
      BY <2>1, <2>3 DEF Wake, Ready, Running
    <3> QED
      BY <1>1, <1>3, <2>1, <2>3, <3>1 DEF Shape, Wakes, ErrorKnown, Running
  <2> QED
    BY <1>3, <2>2, <2>3 DEF HandleTimeout
<1>4. CASE TopTimeout(x)
  <2>1. /\ HandleTimeout(x) /\ TimedOut(x, mstate[x]) /\ Kept
        /\ cur' = x /\ phase' # "top"
    BY <1>4 DEF TopTimeout, AtTop, Ready, Kept, done, call_
  <2> QED
    BY <1>3, <2>1
<1>5. CASE Parked(x)
  <2>1. Run(x, "PENDING") /\ UNCHANGED sets /\ result' = result
    BY <1>5 DEF Parked, Stay, Waits
  <2>2. mstate[x] = "PENDING"
    BY <2>1 DEF Run
  <2>3. result # "err"
    BY <2>2 DEF Ready
  <2> QED
    BY <2>1, <2>3, RunStands
<1>6. CASE Done(x)
  <2>1. Kept /\ cur' = x /\ phase' = "late" /\ mstate[x] = "DONE"
    BY <1>6, RunKeeps DEF Done
  <2>2. PICK W \in SUBSET pending :
          /\ mstate' = [y \in Easy |-> IF y \in W THEN "CONNECT"
                                       ELSE IF y = x THEN "COMPLETED" ELSE mstate[y]]
          /\ process' = (process \cup W) \ {x}
          /\ pending' = pending \ W
          /\ dirty' = Marked(W)
    <3>1. WokenByDone(x) \in SUBSET pending
      BY <1>1 DEF WokenByDone
    <3> QED
      BY <3>1, <1>6 DEF Done
  <2>3. x \in process /\ x \notin W
    BY <1>1, <2>1 DEF Ready, Using
  <2>4. mstate'[x] = "COMPLETED"
    BY <2>2, <2>3 DEF Ready
  <2> QED
    BY <2>1, <2>2, <2>3, <2>4 DEF Shape, Ends, ErrorKnown
<1>7. CASE LateTimeout(x)
  <2>1. /\ HandleTimeout(x) /\ TimedOut(x, mstate[x]) /\ Kept
        /\ cur' = x /\ phase' # "top"
    BY <1>7 DEF LateTimeout, LateCheck, Ready, Kept, done, call_
  <2> QED
    BY <1>3, <2>1
<1>8. ASSUME NEW W \in SUBSET (pending \ {x}), Finish(x, W), AtEnd(x)
      PROVE  Shape(x)
  <2>1. UNCHANGED added /\ cur' = 0 /\ x \in added \ msgsent
    BY <1>8 DEF AtEnd, call_, Finish, LeaveLoop, Ready
  <2>2. Finishes(x)
    BY <1>8, <2>1 DEF Finishes, Finish
  <2> QED
    BY <2>1, <2>2 DEF Shape
<1>9. CASE Failed(x)
  <2>1. mstate[x] # "PENDING"
    BY <1>9 DEF Failed, Ready, AtEnd
  <2>2. First(pending) \in SUBSET (pending \ {x})
    BY <1>1, <2>1 DEF Ready
  <2> QED
    BY <1>8, <1>9, <2>2 DEF Failed
<1>10. CASE Complete(x)
  BY <1>8, <1>10 DEF Complete
<1>11. CASE AbortToDone(x)
  <2>1. /\ Kept /\ cur' = x /\ Move(x, "DONE", {}) /\ mstate[x] \in Running
        /\ "DONE" \in Running
    BY <1>1, <1>11
    DEF AbortToDone, MayAbort, AtEnd, Ready, Kept, done, call_, Using
  <2>2. mstate'[x] = "DONE"
    BY <2>1 DEF Move, Ready
  <2> QED
    BY <1>1, <2>1, <2>2 DEF Shape, Moves, ErrorKnown, Ready
<1>12. CASE AbortInDone(x)
  BY <1>8, <1>12 DEF AbortInDone, MayAbort
<1>13. CASE Loop(x)
  <2>1. UNCHANGED sets /\ Kept
    BY <1>13 DEF Loop, AtEnd, Kept, done, call_
  <2>2. result # "err" /\ mstate[x] # "COMPLETED"
    BY <1>13 DEF Loop, Ready, Completed
  <2>3. \/ cur' = x /\ result' = result
        \/ cur' = 0
    BY <1>13 DEF Loop, LeaveLoop, Ready
  <2> QED
    BY <2>1, <2>2, <2>3 DEF Shape, Stands, ErrorKnown
<1> QED
  BY <1>2, <1>4, <1>5, <1>6, <1>7, <1>9, <1>10, <1>11, <1>12, <1>13

\* Only the transfer in multi_runsingle runs, and the call goes on.
LEMMA HandleIsCur ==
  ASSUME NEW x, Handle(x)
  PROVE  cur = x /\ UNCHANGED call_
BY DEF Handle, Recheck, TopTimeout, Parked, InitFails, ReuseConn, WaitForConn,
   OpenConn, ConnectFails, Connects, Starting, Resolving, ResolveFails,
   AwaitConnect, ComesUp, IsUp, ConnectionFails, ProtoConnect, ProtoConnecting,
   ProtocolFails, Do, DoRetries, DoFails, Doing, DoingMore, Did, Transfers,
   Received, Redirected, FollowFails, TransferFails, Unlimited, Done,
   LateTimeout, LateCheck, Failed, Complete, AbortToDone, AbortInDone,
   MayAbort, Loop, AtEnd, Run, AtTop

\* Every step of a transfer has a shape.
LEMMA HandleShape ==
  ASSUME IInv, NEW x \in Easy, Handle(x)
  PROVE  Shape(x)
<1>1. cur = x
  BY HandleIsCur
<1>2. Ready(x)
  BY <1>1, Readiness
<1> QED
  BY <1>2, StartingShape, ConnectingShape, UsingShape, LoopShape DEF Handle
-----------------------------------------------------------------------------
(* The sets, the count and the control state are preserved. *)

LEMMA Numbers == 0 \notin Easy /\ \A S \in SUBSET Easy : IsFiniteSet(S)
BY MultiAssumption, FS_Subset

\* Each shape keeps the sets what the states say.
LEMMA ShapeSets ==
  ASSUME IInv, NEW x \in Easy, cur = x, Shape(x)
  PROVE  SetsMatchState'
<1> USE DEF SetsMatchState
<1>1. /\ SetsMatchState /\ mstate \in [Easy -> States]
      /\ added \subseteq Easy /\ process \subseteq Easy /\ pending \subseteq Easy
      /\ Ready(x)
  BY Readiness DEF IInv, TypeOK
<1>2. x \in Easy /\ x # 0
  BY Numbers
<1>3. CASE cur' = x /\ Stands
  BY <1>1, <1>3 DEF Stands, Kept, sets
<1>4. CASE cur' = x /\ Wakes
  <2>1. PICK W \in SUBSET pending : Wake(W)
    BY <1>4 DEF Wakes
  <2>2. added' = added /\ msgsent' = msgsent
    BY <1>4 DEF Wakes, Kept
  <2>3. \A y \in Easy : mstate'[y] = IF y \in W THEN "CONNECT" ELSE mstate[y]
    BY <2>1 DEF Wake
  <2>4. /\ process' = process \cup W /\ pending' = pending \ W
        /\ dirty' = dirty \cup W
    BY <2>1 DEF Wake, Marked
  <2> QED
    BY <1>1, <1>4, <2>2, <2>3, <2>4 DEF Completed
<1>5. CASE cur' = x /\ Moves(x)
  <2>1. PICK s \in Running, W \in SUBSET pending : Move(x, s, W)
    BY <1>5 DEF Moves
  <2>2. added' = added /\ msgsent' = msgsent /\ x \in process
    BY <1>5 DEF Moves, Kept
  <2>3. \A y \in Easy : mstate'[y] = IF y \in W THEN "CONNECT"
                                     ELSE IF y = x THEN s ELSE mstate[y]
    BY <2>1 DEF Move
  <2>4. /\ process' = process \cup W /\ pending' = pending \ W
        /\ dirty' = dirty \cup W
    BY <2>1 DEF Move, Marked
  <2> QED
    BY <1>1, <1>5, <2>2, <2>3, <2>4 DEF Completed, Running
<1>6. CASE cur' = x /\ Parks(x)
  <2>1. added' = added /\ msgsent' = msgsent /\ x \in process /\ Park(x)
    BY <1>6 DEF Parks, Kept
  <2>2. \A y \in Easy : mstate'[y] = IF y = x THEN "PENDING" ELSE mstate[y]
    BY <1>1, <2>1 DEF Park
  <2> QED
    BY <1>1, <1>6, <2>1, <2>2 DEF Completed, Park
<1>7. CASE cur' = x /\ Ends(x)
  <2>1. PICK W \in SUBSET pending :
          /\ mstate' = [y \in Easy |-> IF y \in W THEN "CONNECT"
                                       ELSE IF y = x THEN "COMPLETED" ELSE mstate[y]]
          /\ process' = (process \cup W) \ {x}
          /\ pending' = pending \ W
          /\ dirty' = Marked(W)
    BY <1>7 DEF Ends
  <2>2. added' = added /\ msgsent' = msgsent /\ x \in process
    BY <1>7 DEF Ends, Kept
  <2>3. \A y \in Easy : mstate'[y] = IF y \in W THEN "CONNECT"
                                     ELSE IF y = x THEN "COMPLETED" ELSE mstate[y]
    BY <2>1
  <2>4. dirty' = dirty \cup W
    BY <2>1 DEF Marked
  <2> QED
    BY <1>1, <1>7, <2>1, <2>2, <2>3, <2>4 DEF Completed
<1>8. CASE cur' = 0 /\ Finishes(x)
  <2>1. PICK W \in SUBSET (pending \ {x}) :
          /\ mstate' = [y \in Easy |-> IF y \in W THEN "CONNECT"
                                       ELSE IF y = x THEN "MSGSENT" ELSE mstate[y]]
          /\ process' = (process \cup W) \ {x}
          /\ pending' = pending \ (W \cup {x})
          /\ dirty' = Marked(W) \ {x}
    BY <1>8 DEF Finishes
  <2>2. added' = added /\ msgsent' = msgsent \cup {x} /\ x \in added
    BY <1>8 DEF Finishes
  <2>3. \A y \in Easy : mstate'[y] = IF y \in W THEN "CONNECT"
                                     ELSE IF y = x THEN "MSGSENT" ELSE mstate[y]
    BY <2>1
  <2>4. dirty' = (dirty \cup W) \ {x}
    BY <2>1 DEF Marked
  <2> QED
    BY <1>1, <1>8, <2>1, <2>2, <2>3, <2>4 DEF Completed
<1>9. CASE cur' = 0 /\ Stands /\ mstate[x] # "COMPLETED"
  <2>1. added' = added /\ msgsent' = msgsent /\ UNCHANGED sets
    BY <1>9 DEF Stands, Kept
  <2> QED
    BY <1>1, <1>9, <2>1 DEF sets
<1> QED
  BY <1>3, <1>4, <1>5, <1>6, <1>7, <1>8, <1>9 DEF Shape

\* Only a transfer that finishes is counted down, and once.
LEMMA ShapeCount ==
  ASSUME IInv, NEW x \in Easy, Shape(x)
  PROVE  RunningCount' /\ alive' \in Nat
<1>1. /\ RunningCount /\ alive \in Nat /\ added \subseteq Easy
      /\ IsFiniteSet(added \ msgsent)
  <2>1. RunningCount /\ alive \in Nat /\ added \subseteq Easy
    BY DEF IInv, TypeOK
  <2> QED
    BY <2>1, Numbers
<1>2. CASE Kept
  BY <1>1, <1>2 DEF Kept, RunningCount
<1>3. CASE Finishes(x)
  <2>1. /\ added' \ msgsent' = (added \ msgsent) \ {x}
        /\ x \in added \ msgsent /\ alive' = alive - 1
    BY <1>3 DEF Finishes
  <2>2. Cardinality((added \ msgsent) \ {x}) = Cardinality(added \ msgsent) - 1
    BY <1>1, <2>1, FS_RemoveElement
  <2>3. IsFiniteSet((added \ msgsent) \ {x})
    BY <1>1, FS_RemoveElement
  <2>4. Cardinality((added \ msgsent) \ {x}) \in Nat
    BY <2>3, FS_CardinalityType
  <2> QED
    BY <1>1, <2>1, <2>2, <2>4 DEF RunningCount
<1> QED
  BY <1>2, <1>3 DEF Shape, Stands, Wakes, Moves, Parks, Ends

\* The transfer that runs stays one that may run.
LEMMA ShapeControl ==
  ASSUME IInv, NEW x \in Easy, cur = x, Shape(x), UNCHANGED call
  PROVE  Control'
<1>1. /\ Ready(x) /\ call # "app" /\ mstate \in [Easy -> States]
  BY Readiness, Numbers DEF IInv, Control, TypeOK
<1>2. CASE cur' = 0
  BY <1>2 DEF Control
<1>3. CASE cur' # 0
  <2>1. /\ cur' = x /\ ErrorKnown(x)
        /\ Stands \/ Wakes \/ Moves(x) \/ Parks(x) \/ Ends(x)
    BY <1>3 DEF Shape
  <2>2. added' = added
    BY <2>1 DEF Stands, Wakes, Moves, Parks, Ends, Kept
  <2>3. mstate'[x] # "MSGSENT"
    <3>1. CASE Stands
      BY <1>1, <3>1 DEF Stands, sets, Ready
    <3>2. CASE Wakes
      BY <1>1, <3>2 DEF Wakes, Wake, Ready
    <3>3. CASE Moves(x)
      BY <1>1, <3>3 DEF Moves, Move, Ready, Running, Completed
    <3>4. CASE Parks(x)
      BY <1>1, <3>4 DEF Parks, Park, Ready
    <3>5. CASE Ends(x)
      BY <1>1, <3>5 DEF Ends, Ready
    <3> QED
      BY <2>1, <3>1, <3>2, <3>3, <3>4, <3>5
  <2> QED
    BY <1>1, <1>3, <2>1, <2>2, <2>3 DEF Control, ErrorKnown, Ready
<1> QED
  BY <1>2, <1>3
-----------------------------------------------------------------------------
(* The types of what the sets do not cover, and the connection a transfer    *)
(* is left with.                                                             *)

Clocks == [Easy -> {"none", "armed", "late", "popped"}]
OtherTypes ==
  /\ conn \in Pools /\ recheck \in BOOLEAN
  /\ xconn \in [Easy -> Conns \cup {NoConn}]
  /\ timer \in Clocks
  /\ follows \in [Easy -> 0..MaxFollows]
  /\ phase \in {"top", "late", "end"}
  /\ result \in {"ok", "err"}
  /\ again \in BOOLEAN

Linked(x) ==
  IF cur' = x /\ phase' # "top" /\ result' = "err"
    THEN xconn'[x] = NoConn
    ELSE mstate'[x] \in Attached <=> xconn'[x] # NoConn
Settled(x) == /\ OtherTypes' /\ Linked(x)
              /\ \A y \in Easy \ {x} : xconn'[y] = xconn[y]

\* What the connection left behind depends on.
Holding(x) ==
  /\ x \in Easy /\ Ready(x) /\ OtherTypes
  /\ IF phase # "top" /\ result = "err"
       THEN xconn[x] = NoConn
       ELSE mstate[x] \in Attached <=> xconn[x] # NoConn

\* The invariant has these types,
LEMMA OtherTypesHold == ASSUME IInv PROVE OtherTypes
BY DEF IInv, TypeOK, OtherTypes, Pools, Clocks

\* and tells what connection the running transfer has.
LEMMA Holds ==
  ASSUME IInv, NEW x \in Easy, cur = x
  PROVE  Holding(x)
<1>1. Ready(x) /\ OtherTypes /\ x # 0
  BY Readiness, OtherTypesHold, Numbers
<1>2. ActiveHasConn /\ CurConn
  BY DEF IInv
<1> QED
  BY <1>1, <1>2 DEF ActiveHasConn, CurConn, Holding, Ready

\* A step from one pool to another
LEMMA PoolTypes ==
  ASSUME NEW cn \in Pools, OtherTypes, Pool(cn)
  PROVE  conn' \in Pools /\ recheck' \in BOOLEAN
BY DEF Pool, OtherTypes

\* multi_done takes the connection of x, and of nobody else.
LEMMA MultiDoneTypes ==
  ASSUME NEW x \in Easy, NEW cn \in Pools, NEW premature, OtherTypes,
         MultiDone(x, cn, premature)
  PROVE  /\ conn' \in Pools /\ recheck' \in BOOLEAN
         /\ xconn' \in [Easy -> Conns \cup {NoConn}]
         /\ xconn'[x] = NoConn /\ \A y \in Easy \ {x} : xconn'[y] = xconn[y]
<1>1. PICK cn2 \in Pools : Pool(cn2)
  BY DonePoolsType DEF MultiDone
<1>2. conn' \in Pools /\ recheck' \in BOOLEAN
  BY <1>1, PoolTypes
<1>3. xconn' = [xconn EXCEPT ![x] = NoConn]
  BY DEF MultiDone, Detached
<1> QED
  BY <1>2, <1>3 DEF OtherTypes

\* The clocks, and what else a step sets for itself.
Steps(x) == /\ timer' \in Clocks /\ follows' \in [Easy -> 0..MaxFollows]
            /\ phase' \in {"top", "late", "end"}
            /\ result' \in {"ok", "err"} /\ again' \in BOOLEAN

\* Clocks stay clocks as time passes and timers are set, cleared or popped.
LEMMA ClockTypes ==
  ASSUME NEW t \in Clocks
  PROVE  /\ Later(t) \subseteq Clocks /\ Popped(t) \in Clocks
         /\ \A x : timer = t => Rearmed(x) \in Clocks
         /\ \A x : [t EXCEPT ![x] = "none"] \in Clocks
         /\ \A x : [t EXCEPT ![x] = "late"] \in Clocks
BY DEF Clocks, Later, Popped, Rearmed

\* What an iteration of the switch sets for itself.
LEMMA RunSteps ==
  ASSUME NEW x, NEW s, OtherTypes, Run(x, s), timer' \in Clocks,
         UNCHANGED follows, Goes \/ Waits \/ Fails
  PROVE  Steps(x)
<1>1. phase' = "late"
  BY DEF Run
<1>2. again' \in BOOLEAN /\ result' \in {"ok", "err"}
  BY DEF Goes, Waits, Fails, OtherTypes
<1> QED
  BY <1>1, <1>2 DEF OtherTypes, Steps

\* The connection stays as it is, in a state that calls for it or not.
LEMMA Keeps ==
  ASSUME NEW x, Holding(x), Steps(x), UNCHANGED xconn,
         conn' \in Pools, recheck' \in BOOLEAN,
         \/ mstate'[x] \in Attached <=> xconn[x] # NoConn
         \/ cur' = x /\ xconn[x] = NoConn /\ result' = "err" /\ phase' # "top",
         result' = "err" => \/ cur' # x \/ phase' = "top"
                            \/ xconn[x] = NoConn
  PROVE  Settled(x)
<1>1. OtherTypes'
  BY DEF Holding, OtherTypes, Steps
<1> QED
  BY <1>1 DEF Settled, Linked

\* The transfer goes on with the connection it has, or without one.
LEMMA GoesOn ==
  ASSUME NEW x, Holding(x), NEW s \in Running, NEW t, NEW W \in SUBSET pending,
         Run(x, s), Move(x, t, W), s # "DONE", s \in Attached <=> t \in Attached,
         UNCHANGED <<xconn, timer, follows>>, conn' \in Pools,
         recheck' \in BOOLEAN, Goes \/ Waits
  PROVE  Settled(x)
<1>1. phase = "top" /\ phase' = "late" /\ mstate[x] = s
  BY DEF Run, AtTop
<1>2. mstate'[x] = t
  BY <1>1 DEF Holding, Ready, Move, Running
<1>3. t \in Attached <=> xconn[x] # NoConn
  BY <1>1 DEF Holding
<1>4. result' = result /\ result # "err"
  BY <1>1 DEF Goes, Waits, Holding, Ready
<1>5. Steps(x)
  BY RunSteps DEF Holding, OtherTypes
<1> QED
  BY <1>2, <1>3, <1>4, <1>5, Keeps

\* Nothing happened: the transfer waits for the network.
LEMMA Stays ==
  ASSUME NEW x, Holding(x), NEW s, Run(x, s), s # "DONE", Stay, SameTransfer
  PROVE  Settled(x)
<1>1. phase = "top" /\ mstate[x] = s /\ mstate'[x] = s /\ UNCHANGED <<xconn, conn, recheck>>
  BY DEF Run, AtTop, Stay, sets, pool
<1>2. s \in Attached <=> xconn[x] # NoConn
  BY <1>1 DEF Holding
<1>3. result' = result /\ result # "err"
  BY <1>1 DEF Stay, Waits, Holding, Ready
<1>4. Steps(x)
  BY RunSteps DEF Holding, OtherTypes, Stay, SameTransfer
<1> QED
  BY <1>1, <1>2, <1>3, <1>4, Keeps DEF Holding, OtherTypes

\* The transfer loses its connection, because of an error or for good.
LEMMA Drops ==
  ASSUME NEW x, Holding(x), Steps(x), NEW cn \in Pools, NEW premature,
         MultiDone(x, cn, premature),
         \/ mstate'[x] \notin Attached
         \/ cur' = x /\ result' = "err" /\ phase' # "top"
  PROVE  Settled(x)
<1>1. /\ conn' \in Pools /\ recheck' \in BOOLEAN
      /\ xconn' \in [Easy -> Conns \cup {NoConn}]
      /\ xconn'[x] = NoConn /\ \A y \in Easy \ {x} : xconn'[y] = xconn[y]
  BY MultiDoneTypes DEF Holding
<1>2. OtherTypes'
  BY <1>1 DEF OtherTypes, Steps
<1> QED
  BY <1>1, <1>2 DEF Settled, Linked

\* The transfer fails and multi_done takes its connection.
LEMMA FailsSettled ==
  ASSUME NEW x, Holding(x), NEW s, Run(x, s), NEW cn \in Pools, NEW premature,
         FailDone(x, cn, premature), SameTransfer
  PROVE  Settled(x)
<1>1. Steps(x)
  BY RunSteps DEF Holding, OtherTypes, SameTransfer, FailDone
<1>2. cur' = x /\ result' = "err" /\ phase' = "late"
  BY DEF FailDone, Fails, Run, AtTop
<1> QED
  BY <1>1, <1>2, Drops DEF FailDone

\* The pools an attempt to connect may leave behind.
LEMMA StartingPools ==
  ASSUME NEW x \in Easy, conn \in Pools
  PROVE  /\ PruneDead(conn, InUse) \subseteq Pools
         /\ Unmatched(x) \subseteq Pools /\ Roomy(x) \subseteq Pools
<1>1. PruneDead(conn, InUse) \subseteq Pools
  BY PruneDeadType
<1>2. Unmatched(x) \subseteq Pools
  BY <1>1 DEF Unmatched
<1>3. \A cn \in Pools : CheckLimits(cn, InUse, HostOf[x]) \subseteq Pools
  BY CheckLimitsType
<1> QED
  BY <1>1, <1>2, <1>3 DEF Roomy

\* INIT, SETUP and CONNECT: with a connection on, or without.
LEMMA StartingSettled ==
  ASSUME NEW x, Holding(x),
         InitFails(x) \/ ReuseConn(x) \/ WaitForConn(x) \/ OpenConn(x) \/ ConnectFails(x)
  PROVE  Settled(x)
<1>1. /\ x \in Easy /\ conn \in Pools /\ recheck \in BOOLEAN /\ timer \in Clocks
      /\ xconn \in [Easy -> Conns \cup {NoConn}]
      /\ result \in {"ok", "err"} /\ mstate \in [Easy -> States]
      /\ follows \in [Easy -> 0..MaxFollows]
  BY DEF Holding, OtherTypes, Ready
<1>2. PICK s \in {"INIT", "SETUP", "CONNECT"} : Run(x, s)
  BY DEF InitFails, ReuseConn, WaitForConn, OpenConn, ConnectFails, Connects,
     Starting
<1>3. /\ phase = "top" /\ phase' = "late" /\ mstate[x] = s /\ xconn[x] = NoConn
      /\ cur' = x
  BY <1>2 DEF Run, AtTop, Holding, Attached, Connecting, Using, Ready
<1>4. result # "err"
  BY <1>3 DEF Holding, Ready
<1>5. /\ PruneDead(conn, InUse) \subseteq Pools
      /\ Unmatched(x) \subseteq Pools /\ Roomy(x) \subseteq Pools
  BY <1>1, StartingPools
<1>6. ASSUME Connects(x), GotConn(x) \/ NoConnYet(x)
      PROVE  timer' \in Clocks /\ UNCHANGED follows
  <2>1. Later(Rearmed(x)) \subseteq Clocks /\ Later(timer) \subseteq Clocks
    BY <1>1, ClockTypes
  <2> QED
    BY <1>1, <1>6, <2>1 DEF Connects, GotConn, NoConnYet
<1>7. ASSUME Connects(x), GotConn(x) \/ NoConnYet(x), Goes \/ Waits \/ Fails
      PROVE  Steps(x)
  BY <1>1, <1>2, <1>6, <1>7, RunSteps DEF Holding
<1>8. ASSUME NEW t, NEW W \in SUBSET pending, Move(x, t, W)
      PROVE  mstate'[x] = t
  BY <1>3, <1>8 DEF Move, Holding, Ready
<1>9. First(pending) \in SUBSET pending
  BY FirstMember
<1>10. CASE InitFails(x)
  <2>1. Steps(x)
    BY <1>1, <1>2, <1>10, RunSteps DEF InitFails, SameTransfer, Holding
  <2>2. UNCHANGED <<xconn, conn, recheck, mstate>>
    BY <1>10 DEF InitFails, pool, sets
  <2>3. mstate'[x] \in Attached <=> xconn[x] # NoConn
    BY <1>3, <2>2 DEF Attached, Connecting, Using
  <2> QED
    BY <1>1, <1>3, <2>1, <2>2, <2>3, Keeps
<1>11. ASSUME NEW c \in Conns, Attach(x, c), Steps(x), conn' \in Pools,
              recheck' \in BOOLEAN, mstate'[x] \in Attached, Goes \/ Waits
       PROVE  Settled(x)
  <2>1. xconn' \in [Easy -> Conns \cup {NoConn}] /\ xconn'[x] = c /\ c # NoConn
        /\ \A y \in Easy \ {x} : xconn'[y] = xconn[y]
    BY <1>1, <1>11, MultiAssumption DEF Attach
  <2>2. OtherTypes'
    BY <1>11, <2>1 DEF Steps, OtherTypes
  <2>3. result' # "err"
    BY <1>4, <1>11 DEF Goes, Waits
  <2> QED
    BY <1>11, <2>1, <2>2, <2>3 DEF Settled, Linked
<1>12. CASE ReuseConn(x)
  <2>1. PICK cn \in Pools, c \in Conns :
          /\ Pool([cn EXCEPT ![c] = [cn[c] EXCEPT !.reused = TRUE]])
          /\ Attach(x, c)
          /\ Move(x, IF c \in InUse THEN "PROTOCONNECT" ELSE "CONNECTING",
                  First(pending))
    BY <1>5, <1>12 DEF ReuseConn, IdleMatches, SharedMatches, Matching, LiveTo, Live
  <2>2. [cn EXCEPT ![c] = [cn[c] EXCEPT !.reused = TRUE]] \in Pools
    BY DEF Pools, Connection
  <2>3. conn' \in Pools /\ recheck' \in BOOLEAN
    BY <2>1, <2>2, PoolTypes DEF Holding
  <2>4. mstate'[x] \in Attached
    BY <1>8, <1>9, <2>1 DEF Attached, Connecting
  <2>5. Steps(x) /\ Goes
    BY <1>7, <1>12 DEF ReuseConn
  <2> QED
    BY <1>11, <2>1, <2>3, <2>4, <2>5
<1>13. CASE WaitForConn(x)
  <2>1. Steps(x) /\ Waits /\ UNCHANGED xconn /\ Park(x)
    BY <1>7, <1>13 DEF WaitForConn
  <2>2. \E cn \in Pools : Pool(cn)
    BY <1>5, <1>13 DEF WaitForConn
  <2>3. conn' \in Pools /\ recheck' \in BOOLEAN
    BY <2>2, PoolTypes DEF Holding
  <2>4. mstate'[x] = "PENDING" /\ result' # "err"
    BY <1>1, <1>4, <2>1 DEF Park, Waits
  <2> QED
    BY <1>3, <2>1, <2>3, <2>4, Keeps DEF Attached, Connecting, Using
<1>14. CASE OpenConn(x)
  <2>1. PICK cn \in Pools, c \in Conns :
          /\ conn' = [cn EXCEPT ![c] = NewConn(HostOf[x])]
          /\ Attach(x, c)
          /\ recheck' = (recheck \/ Closed(conn, cn))
    BY <1>5, <1>14, FirstMember DEF OpenConn
  <2>2. NewConn(HostOf[x]) \in Connection
    BY <1>1, NewConnType, MultiAssumption
  <2>3. conn' \in Pools /\ recheck' \in BOOLEAN
    BY <1>1, <2>1, <2>2 DEF Pools
  <2>4. mstate'[x] \in Attached
    BY <1>8, <1>9, <1>14 DEF OpenConn, Attached, Connecting
  <2>5. Steps(x) /\ (Goes \/ Waits)
    BY <1>7, <1>14 DEF OpenConn
  <2> QED
    BY <1>11, <2>1, <2>3, <2>4, <2>5
<1>15. CASE ConnectFails(x)
  <2>1. Steps(x) /\ UNCHANGED xconn
    BY <1>7, <1>15 DEF ConnectFails
  <2>2. conn' \in Pools /\ recheck' \in BOOLEAN
    BY <1>1, <1>5, <1>15 DEF ConnectFails
  <2>3. mstate'[x] = "CONNECT"
    BY <1>8, <1>9, <1>15 DEF ConnectFails
  <2> QED
    BY <1>3, <2>1, <2>2, <2>3, Keeps DEF Attached, Connecting, Using
<1> QED
  BY <1>10, <1>12, <1>13, <1>14, <1>15

\* From RESOLVING up to DO the connection is kept, or lost by an error.
LEMMA ConnectingSettled ==
  ASSUME NEW x, Holding(x),
         \/ Resolving(x) \/ ResolveFails(x) \/ AwaitConnect(x) \/ ComesUp(x)
         \/ IsUp(x) \/ ConnectionFails(x) \/ ProtoConnect(x)
         \/ ProtoConnecting(x) \/ ProtocolFails(x)
  PROVE  Settled(x)
<1>1. /\ x \in Easy /\ conn \in Pools /\ recheck \in BOOLEAN
      /\ First(pending) \in SUBSET pending /\ {} \in SUBSET pending
  BY FirstMember DEF Holding, OtherTypes
<1>2. \A s \in Connecting \ {"CONNECT"} : s \in Attached /\ s \in Running /\ s # "DONE"
  BY DEF Attached, Connecting, Running, States, Completed, Using
<1>3. "DO" \in Attached /\ "DO" \in Running
  BY DEF Attached, Running, States, Completed
<1>4. ASSUME NEW s \in Connecting \ {"CONNECT"},
             NEW t \in (Connecting \ {"CONNECT"}) \cup {"DO"},
             Run(x, s), Advance(x, t), SameTransfer
      PROVE  Settled(x)
  <2>1. Move(x, t, {}) /\ UNCHANGED <<conn, xconn, recheck, timer, follows>> /\ Goes
    BY <1>4 DEF Advance, pool, SameTransfer
  <2>2. s \in Attached /\ t \in Attached /\ s \in Running /\ s # "DONE"
    BY <1>2, <1>3
  <2> QED
    BY <1>1, <1>4, <2>1, <2>2, GoesOn
<1>5. {"RESOLVING", "CONNECTING", "PROTOCONNECT", "PROTOCONNECTING"}
        \subseteq Connecting \ {"CONNECT"}
  BY DEF Connecting
<1>6. CASE Resolving(x)
  BY <1>4, <1>5, <1>6, Stays DEF Resolving
<1>7. CASE ResolveFails(x)
  <2>1. Terminate(conn, xconn[x]) \in Pools
    BY <1>1, TerminateType
  <2>2. conn' \in Pools /\ recheck' \in BOOLEAN
    BY <1>7, <2>1, PoolTypes DEF ResolveFails, Holding
  <2>3. Steps(x)
    BY <1>7, RunSteps DEF ResolveFails, SameTransfer, Holding, OtherTypes
  <2>4. xconn' = [xconn EXCEPT ![x] = NoConn] /\ xconn \in [Easy -> Conns \cup {NoConn}]
    BY <1>7 DEF ResolveFails, Detached, Holding, OtherTypes
  <2>5. cur' = x /\ result' = "err" /\ phase' = "late"
    BY <1>7 DEF ResolveFails, Run, AtTop, Fails
  <2>6. OtherTypes'
    BY <2>2, <2>3, <2>4 DEF Steps, OtherTypes
  <2> QED
    BY <1>1, <2>4, <2>5, <2>6 DEF Settled, Linked
<1>8. CASE AwaitConnect(x)
  BY <1>8, Stays DEF AwaitConnect
<1>9. CASE ComesUp(x)
  <2>3. \A c : /\ [conn EXCEPT ![c] = [conn[c] EXCEPT !.up = TRUE]] \in Pools
               /\ [conn EXCEPT ![c] = [conn[c] EXCEPT !.up = TRUE, !.mux = TRUE]]
                    \in Pools
    BY <1>1 DEF Pools, Connection
  <2>1. conn' \in Pools /\ recheck' \in BOOLEAN
    BY <1>1, <1>9, <2>3 DEF ComesUp
  <2>2. /\ Run(x, "CONNECTING") /\ Goes /\ UNCHANGED <<xconn, timer, follows>>
        /\ \E W \in SUBSET pending : Move(x, "PROTOCONNECT", W)
    BY <1>1, <1>9 DEF ComesUp, SameTransfer
  <2> QED
    BY <1>2, <1>5, <2>1, <2>2, GoesOn
<1>10. CASE IsUp(x)
  BY <1>4, <1>5, <1>10 DEF IsUp
<1>11. CASE ConnectionFails(x)
  BY <1>1, <1>11, FailsSettled DEF ConnectionFails
<1>12. CASE ProtoConnect(x)
  BY <1>4, <1>5, <1>12 DEF ProtoConnect
<1>13. CASE ProtoConnecting(x)
  BY <1>4, <1>5, <1>13, Stays DEF ProtoConnecting
<1>14. CASE ProtocolFails(x)
  BY <1>1, <1>14, FailsSettled DEF ProtocolFails
<1> QED
  BY <1>6, <1>7, <1>8, <1>9, <1>10, <1>11, <1>12, <1>13, <1>14

\* From DO up to DONE it is kept, lost by an error, or given up to start again.
LEMMA UsingSettled ==
  ASSUME NEW x, Holding(x),
         \/ Do(x) \/ DoRetries(x) \/ DoFails(x) \/ Doing(x) \/ DoingMore(x)
         \/ Did(x) \/ Transfers(x) \/ Received(x) \/ Redirected(x)
         \/ FollowFails(x) \/ TransferFails(x) \/ Unlimited(x)
  PROVE  Settled(x)
<1>1. /\ x \in Easy /\ conn \in Pools /\ recheck \in BOOLEAN
      /\ First(pending) \in SUBSET pending /\ {} \in SUBSET pending
  BY FirstMember DEF Holding, OtherTypes
<1>2. \A s \in {"DO"} \cup Using : s \in Attached /\ s \in Running
  BY DEF Attached, Running, States, Connecting, Using, Completed
<1>3. {"DOING", "DOING_MORE", "DID", "PERFORMING", "RATELIMITING", "DONE"} \subseteq Using
  BY DEF Using
<1>4. ASSUME NEW s \in ({"DO"} \cup Using) \ {"DONE"}, NEW t \in Using,
             NEW W \in SUBSET pending, Run(x, s), Move(x, t, W),
             UNCHANGED xconn, conn' \in Pools, recheck' \in BOOLEAN,
             Goes \/ Waits, SameTransfer
      PROVE  Settled(x)
  BY <1>2, <1>4, GoesOn DEF SameTransfer
<1>5. ASSUME NEW s \in ({"DO"} \cup Using) \ {"DONE"}, NEW t \in Using,
             Run(x, s), Advance(x, t), SameTransfer
      PROVE  Settled(x)
  <2>1. Move(x, t, {}) /\ UNCHANGED <<conn, xconn, recheck>> /\ Goes
    BY <1>5 DEF Advance, pool
  <2> QED
    BY <1>1, <1>4, <1>5, <2>1
<1>6. ConnClose(conn, xconn[x]) \in Pools /\ CloseStream(x) \in Pools
  BY <1>1, CloseType DEF CloseStream
<1>7. ASSUME NEW s, Run(x, s), NEW cn \in Pools, Again(x, cn), s \in Running
      PROVE  Settled(x)
  <2>1. follows' \in [Easy -> 0..MaxFollows]
    BY <1>1, <1>7, MultiAssumption DEF Again, Holding, OtherTypes
  <2>2. phase' = "late" /\ mstate[x] = s /\ timer' = timer /\ Goes
    BY <1>7 DEF Run, Again
  <2>3. Steps(x)
    BY <2>1, <2>2 DEF Steps, Goes, Holding, OtherTypes
  <2>4. mstate'[x] = "SETUP"
    BY <1>1, <1>7, <2>2 DEF Again, Move, Holding, Ready, Running
  <2> QED
    BY <1>7, <2>3, <2>4, Drops DEF Again, Attached, Connecting, Using
<1>8. CASE Do(x)
  BY <1>3, <1>5, <1>8 DEF Do
<1>9. CASE DoRetries(x)
  BY <1>2, <1>6, <1>7, <1>9 DEF DoRetries
<1>10. CASE DoFails(x)
  BY <1>1, <1>6, <1>10, FailsSettled DEF DoFails
<1>11. CASE Doing(x)
  BY <1>3, <1>5, <1>11, Stays DEF Doing
<1>12. CASE DoingMore(x)
  BY <1>3, <1>5, <1>12, Stays DEF DoingMore
<1>13. CASE Did(x)
  <2>1. /\ Run(x, "DID") /\ Goes /\ SameTransfer /\ UNCHANGED <<conn, xconn, recheck>>
        /\ \E t \in {"PERFORMING", "DONE"}, W \in SUBSET pending : Move(x, t, W)
    BY <1>1, <1>13 DEF Did, pool
  <2> QED
    BY <1>1, <1>3, <1>4, <2>1
<1>14. CASE Transfers(x)
  <2>1. CASE Stay
    BY <1>14, <2>1, Stays DEF Transfers
  <2>2. CASE Move(x, "RATELIMITING", {}) /\ UNCHANGED pool /\ Waits
    BY <1>1, <1>3, <1>4, <1>14, <2>2 DEF Transfers, pool
  <2> QED
    BY <1>14, <2>1, <2>2 DEF Transfers
<1>15. CASE Received(x)
  <2>1. conn' \in Pools /\ recheck' \in BOOLEAN
    BY <1>1, <1>6, <1>15, PoolTypes DEF Received, Holding
  <2> QED
    BY <1>1, <1>3, <1>4, <1>15, <2>1 DEF Received
<1>16. CASE Redirected(x)
  BY <1>1, <1>2, <1>3, <1>6, <1>7, <1>16 DEF Redirected
<1>17. CASE FollowFails(x)
  BY <1>1, <1>6, <1>17, FailsSettled DEF FollowFails
<1>18. CASE TransferFails(x)
  BY <1>1, <1>6, <1>18, FailsSettled DEF TransferFails
<1>19. CASE Unlimited(x)
  BY <1>3, <1>5, <1>19, Stays DEF Unlimited
<1> QED
  BY <1>8, <1>9, <1>10, <1>11, <1>12, <1>13, <1>14, <1>15, <1>16, <1>17, <1>18, <1>19

\* The checks around the switch, and the states that end a transfer.
LEMMA LoopSettled ==
  ASSUME NEW x, Holding(x),
         \/ Recheck(x) \/ TopTimeout(x) \/ Parked(x) \/ Done(x) \/ LateTimeout(x)
         \/ Failed(x) \/ Complete(x) \/ AbortToDone(x) \/ AbortInDone(x) \/ Loop(x)
  PROVE  Settled(x)
<1>1. /\ x \in Easy /\ x # 0 /\ cur = x
      /\ conn \in Pools /\ recheck \in BOOLEAN /\ timer \in Clocks
      /\ xconn \in [Easy -> Conns \cup {NoConn}]
      /\ result \in {"ok", "err"} /\ again \in BOOLEAN
      /\ phase \in {"top", "late", "end"} /\ mstate \in [Easy -> States]
      /\ follows \in [Easy -> 0..MaxFollows]
  BY DEF Holding, OtherTypes, Ready
<1>2. /\ First(pending) \in SUBSET pending
      /\ {"PENDING", "CONNECT", "COMPLETED", "MSGSENT"} \cap Attached = {}
      /\ "DONE" \in Attached
      /\ Completed \cap Attached = {}
  BY FirstMember DEF Attached, Connecting, Using, Completed
<1>3. [timer EXCEPT ![x] = "none"] \in Clocks
  BY <1>1, ClockTypes
<1>4. conn \in Pools /\ CloseStream(x) \in Pools
  BY <1>1, CloseType DEF CloseStream
<1>5. CASE Recheck(x)
  <2>1. /\ Wake(First(pending)) /\ UNCHANGED <<xconn, conn, result, phase>>
        /\ recheck' = FALSE /\ phase = "top" /\ cur' = x
        /\ UNCHANGED <<timer, follows, again>>
    BY <1>1, <1>5 DEF Recheck, AtTop
  <2>2. Steps(x)
    BY <1>1, <2>1 DEF Steps
  <2>3. mstate'[x] \in Attached <=> mstate[x] \in Attached
    BY <1>1, <1>2, <2>1 DEF Wake, Holding, Ready
  <2> QED
    BY <1>1, <2>1, <2>2, <2>3, Keeps DEF Holding
<1>6. ASSUME HandleTimeout(x), cur' = x, phase' \in {"late", "end"}, again' \in BOOLEAN,
             UNCHANGED <<timer, follows>>
      PROVE  Settled(x)
  <2>1. result' = "err"
    BY <1>6 DEF HandleTimeout
  <2>2. Steps(x)
    BY <1>1, <1>6, <2>1 DEF Steps
  <2>3. CASE xconn[x] = NoConn
    <3>1. UNCHANGED <<conn, xconn, recheck>>
      BY <1>6, <2>3 DEF HandleTimeout, pool
    <3> QED
      BY <1>1, <1>6, <2>1, <2>2, <2>3, <3>1, Keeps
  <2>4. CASE xconn[x] # NoConn
    <3>1. \E cn \in Pools : MultiDone(x, cn, TRUE)
      BY <1>4, <1>6, <2>4 DEF HandleTimeout
    <3> QED
      BY <1>6, <2>1, <2>2, <3>1, Drops
  <2> QED
    BY <2>3, <2>4
<1>7. CASE TopTimeout(x)
  BY <1>1, <1>6, <1>7 DEF TopTimeout, AtTop
<1>8. CASE LateTimeout(x)
  BY <1>1, <1>6, <1>8 DEF LateTimeout
<1>9. CASE Parked(x)
  BY <1>9, Stays DEF Parked
<1>10. CASE Done(x)
  <2>1. /\ timer' \in Clocks /\ phase' = "late" /\ cur' = x /\ mstate[x] = "DONE"
        /\ result' \in {"ok", "err"} /\ again' = TRUE /\ UNCHANGED follows
    BY <1>1, <1>3, <1>10 DEF Done, Run, AtTop
  <2>2. Steps(x)
    BY <1>1, <2>1 DEF Steps
  <2>3. x \notin WokenByDone(x)
    BY <1>2, <2>1 DEF WokenByDone, Holding, Ready
  <2>4. mstate'[x] = "COMPLETED"
    BY <1>1, <1>10, <2>3 DEF Done
  <2>5. CASE xconn[x] = NoConn
    <3>1. UNCHANGED <<conn, xconn, recheck>>
      BY <1>10, <2>5 DEF Done, pool
    <3> QED
      BY <1>1, <1>2, <2>2, <2>4, <2>5, <3>1, Keeps
  <2>6. CASE xconn[x] # NoConn
    <3>1. MultiDone(x, conn, result = "err")
      BY <1>10, <2>6 DEF Done
    <3> QED
      BY <1>2, <1>4, <2>2, <2>4, <3>1, Drops
  <2> QED
    BY <2>5, <2>6
<1>11. ASSUME NEW W \in SUBSET (pending \ {x}), Finish(x, W), AtEnd(x)
       PROVE  Steps(x) /\ mstate'[x] = "MSGSENT" /\ cur' = 0
  BY <1>1, <1>3, <1>11 DEF Finish, AtEnd, LeaveLoop, Steps
<1>12. ASSUME NEW W \in SUBSET (pending \ {x}), Finish(x, W), AtEnd(x),
              UNCHANGED pool, xconn[x] = NoConn
       PROVE  Settled(x)
  <2>1. UNCHANGED <<conn, xconn, recheck>>
    BY <1>12 DEF pool
  <2> QED
    BY <1>1, <1>2, <1>11, <1>12, <2>1, Keeps
<1>13. CASE Failed(x)
  <2>1. xconn[x] = NoConn /\ mstate[x] # "PENDING"
    BY <1>13 DEF Failed, AtEnd, Holding, Ready
  <2>2. First(pending) \in SUBSET (pending \ {x})
    BY <1>2, <2>1 DEF Holding, Ready
  <2> QED
    BY <1>12, <1>13, <2>1, <2>2 DEF Failed
<1>14. CASE Complete(x)
  <2>1. xconn[x] = NoConn
    BY <1>2, <1>14 DEF Complete, AtEnd, Holding
  <2> QED
    BY <1>12, <1>14, <2>1 DEF Complete
<1>15. CASE AbortToDone(x)
  <2>1. /\ mstate'[x] = "DONE" /\ cur' = x /\ phase' = "top" /\ result' = "err"
        /\ again' = TRUE /\ UNCHANGED <<xconn, timer>> /\ xconn[x] # NoConn
    BY <1>1, <1>15 DEF AbortToDone, Move, MayAbort
  <2>2. UNCHANGED follows /\ Pool(CloseStream(x))
    BY <1>15 DEF AbortToDone, MayAbort, AtEnd
  <2>3. Steps(x)
    BY <1>1, <2>1, <2>2 DEF Steps
  <2>4. conn' \in Pools /\ recheck' \in BOOLEAN
    BY <1>4, <2>2, PoolTypes DEF Holding
  <2> QED
    BY <1>2, <2>1, <2>3, <2>4, Keeps
<1>16. CASE AbortInDone(x)
  <2>1. Finish(x, {}) /\ AtEnd(x) /\ Pool(CloseStream(x)) /\ xconn' = [xconn EXCEPT ![x] = NoConn]
    BY <1>16 DEF AbortInDone, MayAbort, Detached
  <2>2. Steps(x) /\ mstate'[x] = "MSGSENT" /\ cur' = 0
    BY <1>11, <2>1
  <2>3. conn' \in Pools /\ recheck' \in BOOLEAN
    BY <1>4, <2>1, PoolTypes DEF Holding
  <2>4. OtherTypes'
    BY <1>1, <2>1, <2>2, <2>3 DEF OtherTypes, Steps
  <2> QED
    BY <1>1, <1>2, <2>1, <2>2, <2>4 DEF Settled, Linked
<1>17. CASE Loop(x)
  <2>1. /\ UNCHANGED <<timer, follows, mstate, xconn, conn, recheck>>
        /\ phase # "top" /\ mstate[x] # "COMPLETED"
        /\ ~(result = "err" /\ mstate[x] \notin Completed)
    BY <1>17 DEF Loop, AtEnd, sets, pool
  <2>2. result # "err"
    BY <2>1 DEF Completed, Holding, Ready
  <2>3. /\ phase' = "top" /\ again' = FALSE /\ result' = "ok"
    BY <1>1, <1>17, <2>2 DEF Loop, LeaveLoop
  <2>4. Steps(x)
    BY <1>1, <2>1, <2>3 DEF Steps
  <2>5. mstate[x] \in Attached <=> xconn[x] # NoConn
    BY <2>2 DEF Holding
  <2> QED
    BY <1>1, <2>1, <2>3, <2>4, <2>5, Keeps
<1> QED
  BY <1>5, <1>7, <1>8, <1>9, <1>10, <1>13, <1>14, <1>15, <1>16, <1>17

\* Every step of a transfer leaves it with the connection its state calls for.
LEMMA HandleSettled ==
  ASSUME IInv, NEW x \in Easy, Handle(x)
  PROVE  Settled(x) /\ cur = x
<1>1. cur = x
  BY HandleIsCur
<1>2. Holding(x)
  BY <1>1, Holds
<1> QED
  BY <1>1, <1>2, StartingSettled, ConnectingSettled, UsingSettled, LoopSettled
  DEF Handle
-----------------------------------------------------------------------------
(* A step of a transfer preserves the invariant. *)

SetTypes == /\ mstate \in [Easy -> States]
            /\ process \subseteq Easy /\ pending \subseteq Easy
            /\ dirty \subseteq Easy /\ msgsent \subseteq Easy
            /\ msglist \in Seq(Easy)
CallTypes == /\ added \subseteq Easy /\ adds \in 0..MaxAdds
             /\ call \in {"app", "perform", "first pass", "second pass"}
             /\ at \in Easy \cup {0} /\ told \in {"none", "later", "now"}
             /\ cur \in Easy \cup {0}

\* The type invariant by its parts, in this state and in the next.
LEMMA TypeParts == TypeOK <=> SetTypes /\ CallTypes /\ OtherTypes /\ alive \in Nat
BY DEF TypeOK, SetTypes, CallTypes, OtherTypes, Pools, Clocks

LEMMA TypePartsNext ==
  TypeOK' <=> SetTypes' /\ CallTypes' /\ OtherTypes' /\ alive' \in Nat
BY DEF TypeOK, SetTypes, CallTypes, OtherTypes, Pools, Clocks

\* Waking queued transfers keeps the types of the sets,
LEMMA WakeTypes ==
  ASSUME SetTypes, NEW W \in SUBSET pending, Wake(W)
  PROVE  /\ mstate' \in [Easy -> States]
         /\ process' \subseteq Easy /\ pending' \subseteq Easy /\ dirty' \subseteq Easy
<1>1. "CONNECT" \in States
  BY DEF States, Connecting
<1> QED
  BY <1>1 DEF SetTypes, Wake, Marked

\* and so do all shapes.
LEMMA ShapeTypes ==
  ASSUME SetTypes, NEW x \in Easy, Shape(x)
  PROVE  SetTypes'
<1>1. /\ {"CONNECT", "PENDING", "COMPLETED", "MSGSENT"} \subseteq States
      /\ Running \subseteq States
  BY DEF States, Connecting, Completed, Running
<1>2. CASE Stands
  BY <1>2 DEF Stands, Kept, sets, SetTypes
<1>3. CASE Wakes
  BY <1>3, WakeTypes DEF Wakes, Kept, SetTypes
<1>4. CASE Moves(x)
  BY <1>1, <1>4 DEF Moves, Kept, Move, Marked, SetTypes
<1>5. CASE Parks(x)
  BY <1>1, <1>5 DEF Parks, Kept, Park, SetTypes
<1>6. CASE Ends(x)
  <2>1. PICK W \in SUBSET pending :
          /\ mstate' = [y \in Easy |-> IF y \in W THEN "CONNECT"
                                       ELSE IF y = x THEN "COMPLETED" ELSE mstate[y]]
          /\ process' = (process \cup W) \ {x}
          /\ pending' = pending \ W
          /\ dirty' = dirty \cup W
    BY <1>6 DEF Ends, Marked
  <2> QED
    BY <1>1, <1>6, <2>1 DEF Ends, Kept, SetTypes
<1>7. CASE Finishes(x)
  <2>1. PICK W \in SUBSET (pending \ {x}) :
          /\ mstate' = [y \in Easy |-> IF y \in W THEN "CONNECT"
                                       ELSE IF y = x THEN "MSGSENT" ELSE mstate[y]]
          /\ process' = (process \cup W) \ {x}
          /\ pending' = pending \ (W \cup {x})
          /\ dirty' = (dirty \cup W) \ {x}
    BY <1>7 DEF Finishes, Marked
  <2>2. msgsent' = msgsent \cup {x} /\ msglist' = Append(msglist, x)
    BY <1>7 DEF Finishes
  <2>3. msglist' \in Seq(Easy)
    BY <2>2 DEF SetTypes
  <2> QED
    BY <1>1, <2>1, <2>2, <2>3 DEF SetTypes
<1> QED
  BY <1>2, <1>3, <1>4, <1>5, <1>6, <1>7 DEF Shape

\* Waking moves a handle between states that have no connection.
LEMMA ShapeOthers ==
  ASSUME IInv, NEW x \in Easy, Shape(x)
  PROVE  /\ added' = added
         /\ \A y \in Easy \ {x} : mstate'[y] \in Attached <=> mstate[y] \in Attached
<1>1. /\ \A W \in SUBSET pending : \A y \in W : mstate[y] = "PENDING"
      /\ "PENDING" \notin Attached /\ "CONNECT" \notin Attached
  BY DEF IInv, SetsMatchState, Attached, Connecting, Using
<1>2. added' = added
  BY DEF Shape, Stands, Wakes, Moves, Parks, Ends, Finishes, Kept
<1>3. CASE UNCHANGED mstate
  BY <1>2, <1>3
<1>4. CASE \E W \in SUBSET pending : \E s :
             mstate' = [y \in Easy |-> IF y \in W THEN "CONNECT"
                                       ELSE IF y = x THEN s ELSE mstate[y]]
  BY <1>1, <1>2, <1>4
<1>5. CASE Wakes
  <2>1. PICK W \in SUBSET pending : Wake(W)
    BY <1>5 DEF Wakes
  <2> QED
    BY <1>1, <1>2, <2>1 DEF Wake
<1>6. CASE Parks(x)
  BY <1>2, <1>6 DEF Parks, Park, IInv, TypeOK
<1>7. CASE Moves(x)
  BY <1>4, <1>7 DEF Moves, Move
<1>8. CASE Ends(x)
  BY <1>4, <1>8 DEF Ends
<1>9. CASE Finishes(x)
  <2>1. PICK W \in SUBSET (pending \ {x}) :
          mstate' = [y \in Easy |-> IF y \in W THEN "CONNECT"
                                    ELSE IF y = x THEN "MSGSENT" ELSE mstate[y]]
    BY <1>9 DEF Finishes
  <2>2. W \in SUBSET pending
    OBVIOUS
  <2> QED
    BY <1>4, <2>1, <2>2
<1> QED
  BY <1>3, <1>5, <1>6, <1>7, <1>8, <1>9 DEF Shape, Stands, sets

\* A step that has a shape and settles its transfer keeps ActiveHasConn.
LEMMA ShapeConn ==
  ASSUME IInv, NEW x \in Easy, cur = x, Shape(x), Settled(x)
  PROVE  ActiveHasConn' /\ CurConn'
<1>1. /\ added' = added /\ x \in added /\ x # 0 /\ cur' \in {x, 0}
      /\ \A y \in Easy \ {x} : mstate'[y] \in Attached <=> mstate[y] \in Attached
  BY ShapeOthers, Readiness DEF Ready, Shape
<1>2. ActiveHasConn
  BY DEF IInv
<1>3. \A y \in Easy \ {x} : xconn'[y] = xconn[y]
  BY DEF Settled
<1>4. Linked(x)
  BY DEF Settled
<1>5. \A y \in Easy \ {x} :
        /\ xconn'[y] # NoConn => y \in added' /\ mstate'[y] \in Attached
        /\ y \in added' /\ mstate'[y] \in Attached => xconn'[y] # NoConn
  BY <1>1, <1>2, <1>3 DEF ActiveHasConn
<1>6. /\ xconn'[x] # NoConn => x \in added' /\ mstate'[x] \in Attached
      /\ mstate'[x] \in Attached /\ (cur' = x => phase' = "top")
           => xconn'[x] # NoConn
  BY <1>1, <1>4 DEF Linked
<1>7. ActiveHasConn'
  BY <1>5, <1>6 DEF ActiveHasConn
<1>8. CurConn'
  BY <1>1, <1>4 DEF CurConn, Linked
<1> QED
  BY <1>7, <1>8

\* The clock is read, or the timeout of x is set anew or cleared.
LEMMA HandleClock ==
  ASSUME NEW x, Handle(x)
  PROVE  \/ UNCHANGED timer \/ timer' = [timer EXCEPT ![x] = "none"]
         \/ timer' \in Later(timer) \cup Later(Rearmed(x))
BY DEF Handle, Recheck, TopTimeout, Parked, InitFails, ReuseConn, WaitForConn,
   OpenConn, ConnectFails, Connects, GotConn, NoConnYet, SameTransfer,
   Resolving, ResolveFails, AwaitConnect, ComesUp, IsUp, ConnectionFails,
   ProtoConnect, ProtoConnecting, ProtocolFails, Do, DoRetries, DoFails, Doing,
   DoingMore, Did, Transfers, Received, Redirected, Again, FollowFails,
   TransferFails, Unlimited, Done, LateTimeout, Failed, Complete, Finish,
   AbortToDone, AbortInDone, Loop

\* A step of a transfer sets no timer of another one.
LEMMA HandleTimers ==
  ASSUME IInv, NEW x \in Easy, Handle(x)
  PROVE  TimersOfAdded'
<1>1. /\ timer \in Clocks /\ x \in added /\ added' = added /\ TimersOfAdded
  BY HandleIsCur, Readiness DEF IInv, TypeOK, Clocks, Ready, call_
<1>2. \/ UNCHANGED timer \/ timer' = [timer EXCEPT ![x] = "none"]
      \/ timer' \in Later(timer) \cup Later(Rearmed(x))
  BY HandleClock
<1>3. \A y \in Easy \ {x} : timer'[y] # "none" => timer[y] # "none"
  BY <1>1, <1>2 DEF Later, Rearmed, Clocks
<1> QED
  BY <1>1, <1>3 DEF TimersOfAdded

\* A step of a transfer preserves the invariant.
LEMMA HandleInv ==
  ASSUME IInv, NEW x \in Easy, Handle(x)
  PROVE  IInv'
<1>1. cur = x /\ UNCHANGED call_ /\ Shape(x) /\ Settled(x)
  BY HandleIsCur, HandleShape, HandleSettled
<1>2. TypeOK'
  <2>1. SetTypes' /\ OtherTypes' /\ alive' \in Nat
    BY <1>1, ShapeTypes, ShapeCount, TypeParts DEF IInv, Settled
  <2>2. cur' \in Easy \cup {0}
    BY <1>1 DEF Shape
  <2>3. CallTypes'
    BY <1>1, <2>2, TypeParts DEF IInv, CallTypes, call_
  <2> QED
    BY <2>1, <2>3, TypePartsNext
<1>3. UNCHANGED call
  BY <1>1 DEF call_
<1> QED
  BY <1>1, <1>2, <1>3, ShapeSets, ShapeCount, ShapeControl, ShapeConn,
     HandleTimers DEF IInv
-----------------------------------------------------------------------------
(* The application's calls, the visits of the handles and the tails of the   *)
(* calls: no transfer runs.                                                  *)

LEMMA Idle ==
  ASSUME IInv, call = "app" \/ cur = 0
  PROVE  /\ cur = 0
         /\ \A x \in added : x \in Easy /\ mstate[x] # "COMPLETED"
         /\ \A x \in Easy : x \in added /\ mstate[x] \in Attached <=> xconn[x] # NoConn
<1>1. cur = 0 /\ added \subseteq Easy
  BY DEF IInv, Control, TypeOK
<1> QED
  BY <1>1, Numbers DEF IInv, SetsMatchState, ActiveHasConn

\* A step that changes marks, timers and control only.
LEMMA QuietInv ==
  ASSUME IInv, cur = 0, TypeOK', TimersOfAdded', dirty' \subseteq added,
         UNCHANGED <<added, mstate, process, pending, msgsent, alive, xconn>>,
         \/ cur' = 0
         \/ /\ cur' \in process /\ phase' = "top" /\ result' = "ok"
            /\ UNCHANGED call /\ call # "app"
  PROVE  IInv'
<1>1. \A x \in added : mstate[x] # "COMPLETED"
  BY Idle
<1>2. SetsMatchState'
  BY <1>1 DEF IInv, SetsMatchState
<1>3. RunningCount'
  BY DEF IInv, RunningCount
<1>4. Control'
  <2>1. \A x \in process : x \in added /\ mstate[x] # "MSGSENT"
    BY DEF IInv, SetsMatchState, Completed
  <2> QED
    BY <2>1 DEF Control
<1>5. ActiveHasConn'
  BY Idle DEF ActiveHasConn
<1>6. CurConn'
  BY DEF CurConn
<1> QED
  BY <1>2, <1>3, <1>4, <1>5, <1>6 DEF IInv

\* A step that, besides, wakes some of the pending handles.
LEMMA AwakeInv ==
  ASSUME IInv, cur = 0, cur' = 0, TypeOK', TimersOfAdded',
         NEW W \in SUBSET pending, Wake(W),
         UNCHANGED <<added, msgsent, alive, xconn>>
  PROVE  IInv'
<1>1. /\ \A x \in added : x \in Easy /\ mstate[x] # "COMPLETED"
      /\ \A x \in Easy : x \in added /\ mstate[x] \in Attached <=> xconn[x] # NoConn
  BY Idle
<1>2. \A y \in Easy : mstate'[y] = IF y \in W THEN "CONNECT" ELSE mstate[y]
  BY DEF Wake
<1>3. /\ process' = process \cup W /\ pending' = pending \ W /\ dirty' = dirty \cup W
  BY DEF Wake, Marked
<1>4. SetsMatchState /\ W \subseteq Easy
  BY DEF IInv, TypeOK
<1>5. SetsMatchState'
  BY <1>1, <1>2, <1>3, <1>4 DEF SetsMatchState, Completed
<1>6. \A y \in Easy : mstate'[y] \in Attached <=> mstate[y] \in Attached
  BY <1>2, <1>4 DEF SetsMatchState, Attached, Connecting, Using
<1>7. ActiveHasConn'
  BY <1>1, <1>6 DEF ActiveHasConn
<1>8. RunningCount' /\ Control' /\ CurConn'
  BY DEF IInv, RunningCount, Control, CurConn
<1> QED
  BY <1>5, <1>7, <1>8 DEF IInv

\* Curl_update_timer
LEMMA UpdateTimerType ==
  ASSUME TypeOK, UpdateTimer \/ UNCHANGED told
  PROVE  told' \in {"none", "later", "now"}
BY DEF UpdateTimer, Due, TypeOK

\* curl_multi_add_handle: one more transfer, and one more that runs.
LEMMA AddHandleInv ==
  ASSUME IInv, NEW x \in Easy, AddHandle(x)
  PROVE  IInv'
<1>1. /\ call = "app" /\ x \notin added /\ adds < MaxAdds
      /\ added' = added \cup {x} /\ adds' = adds + 1
      /\ mstate' = [mstate EXCEPT ![x] = "INIT"]
      /\ process' = process \cup {x} /\ dirty' = dirty \cup {x}
      /\ alive' = alive + 1
      /\ follows' = [follows EXCEPT ![x] = 0]
      /\ UNCHANGED <<pending, msgsent, msglist, timer, call, at, cur, phase,
                     result, again, conn, xconn, recheck>>
  BY DEF AddHandle, pool
<1>2. TypeOK /\ SetsMatchState /\ RunningCount /\ TimersOfAdded
  BY DEF IInv
<1>3. /\ cur = 0 /\ \A y \in added : y \in Easy /\ mstate[y] # "COMPLETED"
      /\ \A y \in Easy : y \in added /\ mstate[y] \in Attached <=> xconn[y] # NoConn
  BY <1>1, Idle
<1>4. "INIT" \in States /\ "INIT" \notin Attached \cup Completed \cup {"PENDING"}
  BY DEF States, Attached, Connecting, Using, Completed
<1>5. TypeOK'
  <2>1. SetTypes' /\ alive' \in Nat
    BY <1>1, <1>2, <1>4, TypeParts DEF SetTypes
  <2>2. told' \in {"none", "later", "now"}
    BY <1>2, UpdateTimerType DEF AddHandle
  <2>3. CallTypes'
    BY <1>1, <1>2, <2>2, TypeParts, MultiAssumption DEF CallTypes
  <2>4. OtherTypes'
    BY <1>1, <1>2, TypeParts, MultiAssumption DEF OtherTypes
  <2> QED
    BY <2>1, <2>3, <2>4, TypePartsNext
<1>6. SetsMatchState'
  <2>1. \A y \in Easy : mstate'[y] = IF y = x THEN "INIT" ELSE mstate[y]
    BY <1>1, <1>2 DEF TypeOK
  <2> QED
    BY <1>1, <1>2, <1>3, <1>4, <2>1 DEF SetsMatchState
<1>7. RunningCount'
  <2>1. x \notin msgsent /\ IsFiniteSet(added \ msgsent)
    BY <1>1, <1>2, Numbers DEF SetsMatchState, TypeOK
  <2>2. added' \ msgsent' = (added \ msgsent) \cup {x} /\ x \notin added \ msgsent
    BY <1>1, <2>1
  <2>3. Cardinality((added \ msgsent) \cup {x}) = Cardinality(added \ msgsent) + 1
    BY <2>1, <2>2, FS_AddElement
  <2> QED
    BY <1>1, <1>2, <2>2, <2>3 DEF RunningCount
<1>8. ActiveHasConn'
  <2>1. \A y \in Easy : mstate'[y] = IF y = x THEN "INIT" ELSE mstate[y]
    BY <1>1, <1>2 DEF TypeOK
  <2> QED
    BY <1>1, <1>3, <1>4, <2>1 DEF ActiveHasConn
<1>9. Control' /\ CurConn' /\ TimersOfAdded'
  BY <1>1, <1>2, <1>3 DEF Control, CurConn, TimersOfAdded
<1> QED
  BY <1>5, <1>6, <1>7, <1>8, <1>9 DEF IInv

\* Taking one message from the queue leaves a queue of messages.
LEMMA DropAtType ==
  ASSUME NEW s \in Seq(Easy), NEW k \in 1..Len(s)
  PROVE  DropAt(s, k) \in Seq(Easy)
<1>1. Len(s) \in Nat /\ Len(s) - 1 \in Nat
  OBVIOUS
<1>2. \A i \in 1..(Len(s) - 1) : (IF i < k THEN s[i] ELSE s[i + 1]) \in Easy
  OBVIOUS
<1> QED
  BY <1>1, <1>2 DEF DropAt

LEMMA UnreadType ==
  ASSUME msglist \in Seq(Easy), NEW x
  PROVE  Unread(x) \subseteq Seq(Easy)
<1> DEFINE own == {i \in 1..Len(msglist) : msglist[i] = x}
<1>1. \A k \in First(own) : DropAt(msglist, k) \in Seq(Easy)
  BY FirstMember, DropAtType
<1> QED
  BY <1>1 DEF Unread

\* curl_multi_remove_handle: one less, counted if it still ran.
LEMMA RemoveHandleInv ==
  ASSUME IInv, NEW x \in Easy, RemoveHandle(x)
  PROVE  IInv'
<1>1. /\ call = "app" /\ x \in added /\ added' = added \ {x}
      /\ alive' = AliveWithout(x) /\ msgsent' = msgsent \ {x}
      /\ msglist' \in Unread(x) /\ timer' = [timer EXCEPT ![x] = "none"]
      /\ UNCHANGED <<follows, adds, call, at, cur, phase, result, again>>
  BY DEF RemoveHandle
<1>2. PICK W \in SUBSET pending :
        /\ mstate' = [y \in Easy |-> IF y = x THEN "COMPLETED"
                                     ELSE IF y \in W THEN "CONNECT"
                                     ELSE mstate[y]]
        /\ process' = (process \cup W) \ {x}
        /\ pending' = pending \ (W \cup {x})
        /\ dirty' = (dirty \cup W) \ {x}
  <2>1. WokenByDone(x) \subseteq pending
    BY FirstMember DEF WokenByDone
  <2>2. WokenByDone(x) \cup First(pending \ (WokenByDone(x) \cup {x})) \in SUBSET pending
    BY <2>1, FirstMember
  <2> QED
    BY <2>2 DEF RemoveHandle, Marked
<1>3. /\ TypeOK /\ SetsMatchState /\ RunningCount /\ TimersOfAdded
      /\ SetTypes /\ CallTypes /\ OtherTypes
  BY TypeParts DEF IInv
<1>4. /\ cur = 0 /\ \A y \in added : y \in Easy /\ mstate[y] # "COMPLETED"
      /\ \A y \in Easy : y \in added /\ mstate[y] \in Attached <=> xconn[y] # NoConn
  BY <1>1, Idle
<1>5. /\ conn' \in Pools /\ recheck' \in BOOLEAN
      /\ xconn' \in [Easy -> Conns \cup {NoConn}]
      /\ xconn'[x] = NoConn /\ \A y \in Easy \ {x} : xconn'[y] = xconn[y]
  <2>1. CASE xconn[x] = NoConn
    <3>1. UNCHANGED <<conn, xconn, recheck>>
      BY <2>1 DEF RemoveHandle, pool
    <3> QED
      BY <1>3, <2>1, <3>1 DEF OtherTypes
  <2>2. CASE xconn[x] # NoConn
    <3>1. conn \in Pools /\ CloseStream(x) \in Pools
      BY <1>3, CloseType DEF CloseStream, OtherTypes
    <3>2. PICK cn \in Pools, premature \in BOOLEAN : MultiDone(x, cn, premature)
      BY <2>2, <3>1 DEF RemoveHandle
    <3> QED
      BY <1>3, <3>2, MultiDoneTypes
  <2> QED
    BY <2>1, <2>2
<1>6. \A y \in Easy : mstate'[y] = IF y = x THEN "COMPLETED"
                                   ELSE IF y \in W THEN "CONNECT" ELSE mstate[y]
  BY <1>2
<1>7. RunningCount' /\ alive' \in Nat
  <2>1. IsFiniteSet(added \ msgsent) /\ alive \in Nat
    BY <1>3, Numbers DEF TypeOK
  <2>2. CASE x \in msgsent
    <3>1. added' \ msgsent' = added \ msgsent /\ alive' = alive
      BY <1>1, <2>2 DEF AliveWithout
    <3> QED
      BY <1>3, <2>1, <3>1 DEF RunningCount
  <2>3. CASE x \notin msgsent
    <3>1. added' \ msgsent' = (added \ msgsent) \ {x} /\ alive' = alive - 1
      BY <1>1, <2>3 DEF AliveWithout
    <3>2. /\ Cardinality((added \ msgsent) \ {x}) = Cardinality(added \ msgsent) - 1
          /\ IsFiniteSet((added \ msgsent) \ {x})
      BY <1>1, <2>1, <2>3, FS_RemoveElement
    <3>3. Cardinality((added \ msgsent) \ {x}) \in Nat
      BY <3>2, FS_CardinalityType
    <3> QED
      BY <1>3, <3>1, <3>2, <3>3 DEF RunningCount
  <2> QED
    BY <2>2, <2>3
<1>8. TypeOK'
  <2>1. SetTypes'
    <3>1. "COMPLETED" \in States /\ "CONNECT" \in States
      BY DEF States, Connecting, Completed
    <3>2. msglist' \in Seq(Easy)
      BY <1>1, <1>3, UnreadType DEF SetTypes
    <3> QED
      BY <1>1, <1>2, <1>3, <3>1, <3>2 DEF SetTypes
  <2>2. told' \in {"none", "later", "now"}
    BY <1>3, UpdateTimerType DEF RemoveHandle
  <2>3. CallTypes'
    BY <1>1, <1>3, <2>2 DEF CallTypes
  <2>4. timer' \in Clocks
    BY <1>1, <1>3, ClockTypes DEF OtherTypes
  <2>5. OtherTypes'
    BY <1>1, <1>3, <1>5, <2>4 DEF OtherTypes
  <2> QED
    BY <1>7, <2>1, <2>3, <2>5, TypePartsNext
<1>9. SetsMatchState'
  BY <1>1, <1>2, <1>3, <1>4, <1>6 DEF SetsMatchState, Completed
<1>10. ActiveHasConn'
  <2>1. \A y \in W : mstate[y] = "PENDING"
    BY <1>3 DEF SetsMatchState
  <2>2. \A y \in Easy \ {x} : mstate'[y] \in Attached <=> mstate[y] \in Attached
    BY <1>6, <2>1 DEF Attached, Connecting, Using
  <2> QED
    BY <1>1, <1>4, <1>5, <2>2 DEF ActiveHasConn
<1>11. Control' /\ CurConn'
  BY <1>1, <1>4 DEF Control, CurConn
<1>12. TimersOfAdded'
  BY <1>1, <1>3 DEF TimersOfAdded, OtherTypes, Clocks
<1> QED
  BY <1>7, <1>8, <1>9, <1>10, <1>11, <1>12 DEF IInv

\* curl_multi_info_read
LEMMA InfoReadInv == ASSUME IInv, InfoRead PROVE IInv'
<1>1. /\ call = "app" /\ msglist # <<>> /\ msglist' = Tail(msglist)
      /\ UNCHANGED <<added, adds, msgsent, alive, timer, follows, call, at, told,
                     cur, phase, result, again, mstate, process, pending, dirty,
                     conn, xconn, recheck>>
  BY DEF InfoRead, sets, pool
<1>2. /\ TypeOK /\ TimersOfAdded /\ dirty \subseteq added /\ cur = 0
  BY <1>1, Idle DEF IInv, SetsMatchState
<1>3. msglist' \in Seq(Easy)
  BY <1>1, <1>2 DEF TypeOK
<1>4. TypeOK' /\ TimersOfAdded'
  BY <1>1, <1>2, <1>3 DEF TypeOK, TimersOfAdded
<1> QED
  BY <1>1, <1>2, <1>4, QuietInv

\* Time that passes, or is seen to have passed, and a call that begins.
LEMMA CallsInv ==
  ASSUME IInv,
         \/ \E x \in Easy : Tick(x) \/ CallEvent(x)
         \/ CallPerform \/ CallTimeout \/ CallShutdownEvent \/ SecondPass
  PROVE  IInv'
<1>1. /\ cur = 0 /\ UNCHANGED <<added, adds, follows, cur, phase, result, again,
                                conn, xconn, recheck, msgsent, alive, msglist>>
      /\ UNCHANGED <<mstate, process, pending>>
  BY Idle DEF Tick, CallEvent, CallPerform, CallTimeout, CallShutdownEvent,
     SecondPass, Rest, pool, done, sets, MarkExpired
<1>2. /\ TypeOK /\ SetTypes /\ CallTypes /\ OtherTypes /\ TimersOfAdded
      /\ dirty \subseteq added /\ added \subseteq Easy
  BY TypeParts DEF IInv, SetsMatchState, TypeOK
<1>3. /\ call' \in {"app", "perform", "first pass", "second pass"}
      /\ at' \in Easy \cup {0} /\ told' \in {"none", "later", "now"}
  BY <1>2 DEF Tick, CallEvent, CallPerform, CallTimeout, CallShutdownEvent,
     SecondPass, CallTypes
<1>4. ASSUME NEW t \in Clocks, NEW d \in SUBSET added, MarkExpired(t, d),
             \A y \in Easy : t[y] # "none" => y \in added
      PROVE  timer' \in Clocks /\ dirty' \subseteq added /\ TimersOfAdded'
  BY <1>1, <1>4 DEF MarkExpired, Popped, Clocks, TimersOfAdded
<1>5. timer' \in Clocks /\ dirty' \subseteq added /\ TimersOfAdded'
  <2>1. ASSUME NEW x \in Easy, Tick(x)
        PROVE  timer' \in Clocks /\ dirty' \subseteq added /\ TimersOfAdded'
    BY <1>1, <1>2, <2>1 DEF Tick, sets, OtherTypes, Clocks, TimersOfAdded
  <2>2. CASE CallPerform
    BY <1>1, <1>2, <2>2 DEF CallPerform, sets, OtherTypes, TimersOfAdded
  <2>3. ASSUME NEW x \in Easy, CallEvent(x)
        PROVE  timer' \in Clocks /\ dirty' \subseteq added /\ TimersOfAdded'
    <3>1. Users(xconn[x]) \subseteq added
      BY <2>3, Idle DEF CallEvent, Users
    <3> QED
      BY <1>2, <1>4, <2>3, <3>1 DEF CallEvent, OtherTypes, TimersOfAdded
  <2>4. CASE CallTimeout
    BY <1>2, <1>4, <2>4 DEF CallTimeout, OtherTypes, TimersOfAdded
  <2>5. CASE CallShutdownEvent
    BY <1>2, <1>4, <2>5 DEF CallShutdownEvent, OtherTypes, TimersOfAdded
  <2>6. CASE SecondPass
    <3>1. PICK t \in Later(timer) : MarkExpired(t, dirty)
      BY <2>6 DEF SecondPass
    <3>2. t \in Clocks
      BY <1>2, ClockTypes DEF OtherTypes
    <3>3. \A y \in Easy : t[y] # "none" => y \in added
      BY <1>2 DEF Later, TimersOfAdded
    <3> QED
      BY <1>2, <1>4, <3>1, <3>2, <3>3
  <2> QED
    BY <2>1, <2>2, <2>3, <2>4, <2>5, <2>6
<1>6. SetTypes' /\ CallTypes' /\ OtherTypes' /\ alive' \in Nat
  BY <1>1, <1>2, <1>3, <1>5 DEF SetTypes, CallTypes, OtherTypes, TypeOK
<1> QED
  BY <1>1, <1>5, <1>6, TypePartsNext, QuietInv

\* multi_runsingle is entered, or a stale mark is dropped.
LEMMA VisitInv ==
  ASSUME IInv, NEW x \in Easy, VisitPerform(x) \/ VisitDirty(x)
  PROVE  IInv'
<1>1. /\ cur = 0 /\ call # "app"
      /\ UNCHANGED <<added, adds, mstate, process, pending, timer, follows, call,
                     told, conn, xconn, recheck, msgsent, alive, msglist>>
  BY DEF VisitPerform, VisitDirty, pool, done
<1>2. /\ TypeOK /\ TimersOfAdded /\ dirty \subseteq added
  BY DEF IInv, SetsMatchState
<1>3. dirty' = dirty \ {x} /\ at' = x
  BY DEF VisitPerform, VisitDirty, Enter
<1>4. \/ /\ cur' = x /\ x \in process /\ phase' = "top" /\ result' = "ok"
         /\ again' = FALSE
      \/ UNCHANGED <<cur, phase, result, again>>
  BY FirstMember DEF VisitPerform, VisitDirty, Enter
<1>5. TypeOK' /\ TimersOfAdded'
  BY <1>1, <1>2, <1>3, <1>4 DEF TypeOK, TimersOfAdded
<1> QED
  BY <1>1, <1>2, <1>3, <1>4, <1>5, QuietInv

\* The tails of the calls wake a queued transfer, or those that are late.
LEMMA EndInv ==
  ASSUME IInv, EndPerform \/ EndSocket
  PROVE  IInv'
<1>1. PICK S : EndCall(S) /\ cur = 0 /\ \E W \in SUBSET pending : Wake(W)
  <2>1. \A S : WokenBy(S) \subseteq pending
    BY FirstMember DEF WokenBy
  <2>2. Expired \subseteq pending
    BY DEF Expired
  <2>3. \A S : WokenBy(S) \in SUBSET pending /\ WokenBy(S) \cup Expired \in SUBSET pending
    BY <2>1, <2>2
  <2> QED
    BY <2>3 DEF EndPerform, EndSocket
<1>2. timer' = timer \/ timer' = Popped(timer)
  BY DEF EndPerform, EndSocket
<1>3. PICK W \in SUBSET pending : Wake(W)
  BY <1>1
<1>4. /\ TypeOK /\ SetTypes /\ CallTypes /\ OtherTypes /\ TimersOfAdded
  BY TypeParts DEF IInv
<1>5. /\ recheck' = FALSE /\ call' = "app" /\ at' = 0
      /\ UNCHANGED <<added, adds, xconn, follows, cur, phase, result, again,
                     msgsent, alive, msglist>>
      /\ told' \in {"none", "later", "now"}
  BY <1>1, <1>4, UpdateTimerType DEF EndCall, done
<1>6. conn' \in Pools
  BY <1>1, <1>4, ClosedConnType DEF EndCall, OtherTypes, Pools
<1>7. timer' \in Clocks /\ TimersOfAdded'
  <2>1. timer' \in Clocks
    BY <1>2, <1>4, ClockTypes DEF OtherTypes
  <2>2. \A y \in Easy : timer'[y] # "none" => timer[y] # "none"
    BY <1>2 DEF Popped
  <2> QED
    BY <1>4, <1>5, <2>1, <2>2 DEF TimersOfAdded
<1>8. TypeOK'
  <2>1. SetTypes'
    BY <1>3, <1>4, <1>5, WakeTypes DEF SetTypes
  <2>2. CallTypes' /\ OtherTypes' /\ alive' \in Nat
    BY <1>4, <1>5, <1>6, <1>7 DEF CallTypes, OtherTypes, TypeOK
  <2> QED
    BY <2>1, <2>2, TypePartsNext
<1> QED
  BY <1>1, <1>3, <1>5, <1>7, <1>8, AwakeInv
-----------------------------------------------------------------------------
\* The invariant holds initially, and every step preserves it.
LEMMA InitInv == Init => IInv
<1> SUFFICES ASSUME Init PROVE IInv
  OBVIOUS
<1>1. /\ "INIT" \in States /\ "INIT" \notin Attached
  BY DEF States, Attached, Connecting, Using
<1>2. SetTypes /\ CallTypes /\ alive \in Nat
  BY <1>1, MultiAssumption DEF Init, SetTypes, CallTypes
<1>3. OtherTypes
  <2>1. conn \in Pools
    BY ClosedConnType DEF Init, Pools
  <2>2. xconn \in [Easy -> Conns \cup {NoConn}] /\ timer \in Clocks
    BY DEF Init, Clocks
  <2>3. follows \in [Easy -> 0..MaxFollows]
    BY MultiAssumption DEF Init
  <2> QED
    BY <2>1, <2>2, <2>3 DEF Init, OtherTypes
<1>4. TypeOK
  BY <1>2, <1>3, TypeParts
<1>5. RunningCount
  BY FS_EmptySet DEF Init, RunningCount
<1>6. SetsMatchState /\ Control /\ CurConn
  BY DEF Init, SetsMatchState, Control, CurConn
<1>7. ActiveHasConn /\ TimersOfAdded
  BY <1>1 DEF Init, ActiveHasConn, TimersOfAdded
<1> QED
  BY <1>4, <1>5, <1>6, <1>7 DEF IInv

LEMMA StutterInv == ASSUME IInv, UNCHANGED vars PROVE IInv'
<1>1. /\ UNCHANGED <<added, mstate, process, pending, dirty, msgsent, alive, msglist>>
      /\ UNCHANGED <<recheck, conn, xconn, timer, follows, adds>>
      /\ UNCHANGED <<call, at, told, cur, phase, result, again>>
  BY DEF vars
<1>2. TypeOK /\ SetsMatchState /\ RunningCount /\ Control /\ ActiveHasConn
      /\ CurConn /\ TimersOfAdded
  BY DEF IInv
<1>3. SetTypes' /\ CallTypes' /\ OtherTypes'
  <2>1. SetTypes /\ CallTypes /\ OtherTypes
    BY <1>2, TypeParts
  <2>2. SetTypes'
    BY <1>1, <2>1 DEF SetTypes
  <2>3. CallTypes'
    BY <1>1, <2>1 DEF CallTypes
  <2>4. OtherTypes'
    BY <1>1, <2>1 DEF OtherTypes
  <2> QED
    BY <2>2, <2>3, <2>4
<1>4. TypeOK'
  BY <1>1, <1>2, <1>3, TypeParts, TypePartsNext
<1>5. SetsMatchState'
  BY <1>1, <1>2 DEF SetsMatchState
<1>6. RunningCount'
  BY <1>1, <1>2 DEF RunningCount
<1>7. Control' /\ CurConn'
  BY <1>1, <1>2 DEF Control, CurConn
<1>8. ActiveHasConn' /\ TimersOfAdded'
  BY <1>1, <1>2 DEF ActiveHasConn, TimersOfAdded
<1> QED
  BY <1>4, <1>5, <1>6, <1>7, <1>8 DEF IInv

LEMMA NextInv == ASSUME IInv, [Next]_vars PROVE IInv'
<1>1. CASE Library
  <2>1. ASSUME NEW x \in Easy, VisitPerform(x) \/ VisitDirty(x) PROVE IInv'
    BY <2>1, VisitInv
  <2>2. ASSUME NEW x \in Easy, Handle(x) PROVE IInv'
    BY <2>2, HandleInv
  <2>3. CASE SecondPass
    BY <2>3, CallsInv
  <2>4. CASE EndPerform \/ EndSocket
    BY <2>4, EndInv
  <2> QED
    BY <1>1, <2>1, <2>2, <2>3, <2>4 DEF Library
<1>2. CASE Application
  <2>1. ASSUME NEW x \in Easy, AddHandle(x) PROVE IInv'
    BY <2>1, AddHandleInv
  <2>2. ASSUME NEW x \in Easy, RemoveHandle(x) PROVE IInv'
    BY <2>2, RemoveHandleInv
  <2>3. ASSUME NEW x \in Easy, Tick(x) \/ CallEvent(x) PROVE IInv'
    BY <2>3, CallsInv
  <2>4. CASE InfoRead
    BY <2>4, InfoReadInv
  <2>5. CASE CallPerform \/ CallTimeout \/ CallShutdownEvent
    BY <2>5, CallsInv
  <2> QED
    BY <1>2, <2>1, <2>2, <2>3, <2>4, <2>5 DEF Application
<1>3. CASE UNCHANGED vars
  BY <1>3, StutterInv
<1> QED
  BY <1>1, <1>2, <1>3 DEF Next

\* The invariant holds in every reachable state.
THEOREM Invariant == Spec => []IInv
<1>1. Init => IInv
  BY InitInv
<1>2. IInv /\ [Next]_vars => IInv'
  BY NextInv
<1> QED
  BY <1>1, <1>2, PTL DEF Spec

\* Every variable of the multi keeps its type: no state outside the machine's,
\* no set with a handle that is none, a message queue of handles.
THEOREM TypeCorrect == Spec => []TypeOK
<1>1. IInv => TypeOK
  BY DEF IInv
<1> QED
  BY <1>1, Invariant, PTL

\* multi->process, pending, msgsent and dirty are what the states of the
\* handles call for, however calls, wakes, failures and removals follow each
\* other: no handle is in two of them, and none is in none.
THEOREM SetsAgree == Spec => []SetsMatchState
<1>1. IInv => SetsMatchState
  BY DEF IInv
<1> QED
  BY <1>1, Invariant, PTL

\* What curl_multi_perform reports as running (multi->xfers_alive) is exactly
\* the number of transfers that were added and have not completed.
THEOREM CountIsRight == Spec => []RunningCount
<1>1. IInv => RunningCount
  BY DEF IInv
<1> QED
  BY <1>1, Invariant, PTL

\* multi_runsingle never finds a transfer beyond CONNECT without a connection
\* at the top of its loop (its DEBUGASSERT), and no transfer that is over, that
\* waits or that was removed still holds one.
THEOREM ConnectionWhereNeeded == Spec => []ActiveHasConn
<1>1. IInv => ActiveHasConn
  BY DEF IInv
<1> QED
  BY <1>1, Invariant, PTL
-----------------------------------------------------------------------------
(* Connections.  The operators of the pool are given the connections in use: *)
(* what they are and whom they connect to does not change.                   *)

(* Pools that agree with cn on the connections in U, but for marks *)
Untouched(cn, U) == {q \in Pools : \A c \in U : /\ q[c].st = cn[c].st
                                               /\ q[c].host = cn[c].host
                                               /\ q[c].mux = cn[c].mux}

\* Of two changes that leave U alone, the second may rely on U being live.
LEMMA UntouchedTwice ==
  ASSUME NEW cn \in Pools, NEW U \in SUBSET Live(cn), NEW q \in Untouched(cn, U)
  PROVE  /\ q \in Pools /\ U \in SUBSET Live(q)
         /\ Untouched(q, U) \subseteq Untouched(cn, U)
BY DEF Untouched, Live

\* The pool itself, and smaller sets of connections.
LEMMA UntouchedLess ==
  ASSUME NEW cn \in Pools, NEW U, NEW V \in SUBSET U
  PROVE  cn \in Untouched(cn, U) /\ Untouched(cn, U) \subseteq Untouched(cn, V)
BY DEF Untouched

\* Closing a connection that is not in U, or moving it to the shutdown list.
LEMMA TerminateLeaves ==
  ASSUME NEW cn \in Pools, NEW U \in SUBSET Conns, NEW c, c \notin U
  PROVE  /\ Terminate(cn, c) \in Untouched(cn, U)
         /\ [cn EXCEPT ![c] = [cn[c] EXCEPT !.st = "shut"]] \in Untouched(cn, U)
<1>1. /\ Terminate(cn, c) \in Pools
      /\ [cn EXCEPT ![c] = [cn[c] EXCEPT !.st = "shut"]] \in Pools
  BY TerminateType, ShutType
<1>2. \A d \in U : /\ Terminate(cn, c)[d] = cn[d]
                   /\ [cn EXCEPT ![c] = [cn[c] EXCEPT !.st = "shut"]][d] = cn[d]
  BY DEF Terminate, Pools
<1> QED
  BY <1>1, <1>2 DEF Untouched

\* A mark does not matter here.
LEMMA CloseLeaves ==
  ASSUME NEW cn \in Pools, NEW U \in SUBSET Conns, NEW c
  PROVE  ConnClose(cn, c) \in Untouched(cn, U) /\ StreamClose(cn, c) \in Untouched(cn, U)
<1>1. \A d \in U : /\ ConnClose(cn, c)[d].st = cn[d].st
                   /\ ConnClose(cn, c)[d].host = cn[d].host
                   /\ ConnClose(cn, c)[d].mux = cn[d].mux
  BY DEF ConnClose, Pools, Connection
<1>2. ConnClose(cn, c) \in Untouched(cn, U)
  BY <1>1, CloseType DEF Untouched
<1> QED
  BY <1>2, UntouchedLess DEF StreamClose

LEMMA AddToShutdownLeaves ==
  ASSUME NEW cn \in Pools, NEW U \in SUBSET Live(cn), NEW c, c \notin U
  PROVE  AddToShutdown(cn, c) \subseteq Untouched(cn, U)
<1> DEFINE cn1 == [cn EXCEPT ![c] = [cn[c] EXCEPT !.st = "shut"]]
<1>1. U \in SUBSET Conns /\ Shut(cn) \cap U = {}
  BY DEF Live, Shut
<1>2. cn1 \in Untouched(cn, U)
  BY <1>1, TerminateLeaves
<1>3. cn1 \in Pools /\ Untouched(cn1, U) \subseteq Untouched(cn, U)
  BY <1>2, UntouchedTwice
<1>4. \A o \in Shut(cn) : Terminate(cn1, o) \in Untouched(cn, U)
  BY <1>1, <1>3, TerminateLeaves
<1>5. AddToShutdown(cn, c) \subseteq {Terminate(cn1, o) : o \in Shut(cn)} \cup {cn1}
  BY DEF AddToShutdown
<1> QED
  BY <1>2, <1>4, <1>5

LEMMA DisconnectLeaves ==
  ASSUME NEW cn \in Pools, NEW U \in SUBSET Live(cn), NEW c, c \notin U, NEW aborted
  PROVE  Disconnect(cn, c, aborted) \subseteq Untouched(cn, U)
<1>1. U \in SUBSET Conns
  BY DEF Live
<1> QED
  BY <1>1, TerminateLeaves, AddToShutdownLeaves DEF Disconnect

LEMMA NowIdleLeaves ==
  ASSUME NEW cn \in Pools, NEW U \in SUBSET Live(cn), NEW keep
  PROVE  NowIdle(cn, U, keep) \subseteq Untouched(cn, U)
<1>1. \A o \in OldestIdle(cn, U) : Disconnect(cn, o, FALSE) \subseteq Untouched(cn, U)
  BY DisconnectLeaves DEF OldestIdle
<1>2. cn \in Untouched(cn, U)
  BY UntouchedLess
<1>3. UNION {Disconnect(cn, o, FALSE) : o \in OldestIdle(cn, U)} \subseteq Untouched(cn, U)
  BY <1>1
<1> QED
  BY <1>2, <1>3 DEF NowIdle

LEMMA PruneDeadLeaves ==
  ASSUME NEW cn \in Pools, NEW U \in SUBSET Live(cn)
  PROVE  PruneDead(cn, U) \subseteq Untouched(cn, U)
<1>1. PruneDead(cn, U) \subseteq Pools
  BY PruneDeadType
<1>2. ASSUME NEW ended \in SUBSET (Live(cn) \ U), NEW ending \in SUBSET (Live(cn) \ U),
             NEW c \in U
      PROVE  Pruned(cn, ended, ending)[c] = cn[c]
  BY DEF Pruned, Live
<1> QED
  BY <1>1, <1>2 DEF Untouched, PruneDead

LEMMA CheckLimitsLeaves ==
  ASSUME NEW cn \in Pools, NEW U \in SUBSET Live(cn), NEW h
  PROVE  CheckLimits(cn, U, h) \subseteq Untouched(cn, U)
<1>1. ASSUME NEW q \in Pools, U \in SUBSET Live(q), NEW shuts, NEW idles,
             shuts \cap U = {}, idles \cap U = {}
      PROVE  CloseOne(q, shuts, idles) \subseteq Untouched(q, U)
  <2>1. U \in SUBSET Conns
    BY DEF Live
  <2>2. \A c \in shuts \cup idles : Terminate(q, c) \in Untouched(q, U)
    BY <1>1, <2>1, TerminateLeaves
  <2> QED
    BY <1>1, <2>2, UntouchedLess DEF CloseOne
<1>2. ASSUME NEW q \in Pools, U \in SUBSET Live(q)
      PROVE  /\ Shut(q) \cap U = {} /\ ShutTo(q, h) \cap U = {}
             /\ OldestIdle(q, U) \cap U = {} /\ OldestIdleTo(q, U, h) \cap U = {}
  BY <1>2 DEF Shut, ShutTo, Live, OldestIdle, OldestIdleTo
<1>3. HostRoom(cn, U, h) \subseteq Untouched(cn, U)
  BY <1>1, <1>2, UntouchedLess DEF HostRoom
<1>4. ASSUME NEW q \in Untouched(cn, U)
      PROVE  TotalRoom(q, U, h) \subseteq Untouched(cn, U)
  <2>1. q \in Pools /\ U \in SUBSET Live(q) /\ Untouched(q, U) \subseteq Untouched(cn, U)
    BY UntouchedTwice
  <2>2. TotalRoom(q, U, h) \subseteq Untouched(q, U)
    BY <1>1, <1>2, <2>1, UntouchedLess DEF TotalRoom
  <2> QED
    BY <2>1, <2>2
<1> QED
  BY <1>3, <1>4 DEF CheckLimits

\* multi_done leaves the connections of the other transfers alone.
LEMMA DonePoolsLeaves ==
  ASSUME NEW x, NEW cn \in Pools, NEW premature,
         InUseBy(Easy \ {x}) \in SUBSET Live(cn)
  PROVE  DonePools(x, cn, premature) \subseteq Untouched(cn, InUseBy(Easy \ {x}))
<1> DEFINE U == InUseBy(Easy \ {x})
<1> HIDE DEF U
<1>1. U \in SUBSET Live(cn)
  BY DEF U
<1>2. \A keep : NowIdle(cn, U, keep) \subseteq Untouched(cn, U)
  BY <1>1, NowIdleLeaves
<1>3. xconn[x] \notin U => Disconnect(cn, xconn[x], premature) \subseteq Untouched(cn, U)
  BY <1>1, DisconnectLeaves
<1>4. cn \in Untouched(cn, U)
  BY UntouchedLess
<1>5. DonePools(x, cn, premature) \subseteq Untouched(cn, U)
  BY <1>2, <1>3, <1>4 DEF DonePools, U
<1> QED
  BY <1>5 DEF U
-----------------------------------------------------------------------------
(* The invariant: a connection that can be shared has only users that may    *)
(* share it, and one whose name is being resolved is nobody else's.          *)

Sharing ==
  \A x \in Easy : xconn[x] # NoConn =>
    /\ conn[xconn[x]].mux => x \in Multiplex
    /\ mstate[x] = "RESOLVING" => ~conn[xconn[x]].mux

CInv == NoDangling /\ Sharing

LEMMA InUseLive ==
  ASSUME IInv, CInv
  PROVE  /\ InUse \in SUBSET Live(conn)
         /\ \A x : /\ InUseBy(Easy \ {x}) \in SUBSET Live(conn)
                   /\ InUseBy(Easy \ {x}) \in SUBSET InUse
<1>1. \A x \in Easy : xconn[x] # NoConn => conn[xconn[x]].st = "live"
  BY DEF CInv, NoDangling
<1>2. \A c \in Conns : c # NoConn
  BY MultiAssumption
<1>3. InUse \in SUBSET Live(conn)
  BY <1>1, <1>2 DEF InUse, Users, Live
<1>4. \A x : InUseBy(Easy \ {x}) \in SUBSET InUse
  BY DEF InUse, InUseBy
<1> QED
  BY <1>3, <1>4

\* What is known of the connection of one transfer, and of those who share it.
LEMMA HeldConn ==
  ASSUME IInv, CInv, NEW x \in Easy, xconn[x] # NoConn
  PROVE  /\ xconn[x] \in Conns /\ xconn[x] \in InUse
         /\ conn[xconn[x]].st = "live" /\ conn[xconn[x]].host = HostOf[x]
         /\ \A y \in Easy \ {x} : xconn[y] = xconn[x] => conn[xconn[x]].mux
<1>1. xconn[x] \in Conns
  BY DEF IInv, TypeOK
<1>2. /\ conn[xconn[x]].st = "live" /\ conn[xconn[x]].host = HostOf[x]
      /\ Users(xconn[x]) = {x} \/ conn[xconn[x]].mux
  BY DEF CInv, NoDangling
<1> QED
  BY <1>1, <1>2 DEF InUse, Users

\* Nobody gets a connection, some may lose theirs, and those still in use are
\* untouched.
LEMMA NobodyGains ==
  ASSUME IInv, CInv,
         \A y \in Easy : xconn'[y] = xconn[y] \/ xconn'[y] = NoConn,
         NEW U, conn' \in Untouched(conn, U),
         \A y \in Easy : xconn'[y] # NoConn => xconn[y] \in U,
         \A y \in Easy : mstate'[y] = "RESOLVING" => mstate[y] = "RESOLVING"
  PROVE  CInv'
<1>1. ASSUME NEW x \in Easy, xconn'[x] # NoConn
      PROVE  /\ conn'[xconn'[x]].st = "live" /\ conn'[xconn'[x]].host = HostOf[x]
             /\ conn'[xconn'[x]].mux = conn[xconn[x]].mux /\ xconn'[x] = xconn[x]
  <2>1. xconn'[x] = xconn[x] /\ xconn[x] \in U /\ xconn[x] # NoConn
    BY <1>1
  <2>2. conn[xconn[x]].st = "live" /\ conn[xconn[x]].host = HostOf[x]
    BY <2>1, HeldConn
  <2> QED
    BY <2>1, <2>2 DEF Untouched
<1>2. Sharing'
  BY <1>1 DEF CInv, Sharing
<1>3. NoDangling'
  <2>1. SUFFICES ASSUME NEW x \in Easy, xconn'[x] # NoConn
                 PROVE  \/ Users(xconn[x])' = {x}
                        \/ /\ conn'[xconn[x]].mux
                           /\ Cardinality(Users(xconn[x])') <= MaxStreams
    BY <1>1 DEF NoDangling, Users
  <2> DEFINE old == Users(xconn[x])
             new == {y \in Easy : xconn'[y] = xconn[x]}
  <2>2. xconn'[x] = xconn[x] /\ Users(xconn[x])' = new
    BY <1>1, <2>1 DEF Users
  <2>3. new \subseteq old /\ x \in new /\ old \subseteq Easy
    BY <2>1, <2>2 DEF Users
  <2>4. CASE old = {x}
    BY <2>2, <2>3, <2>4
  <2>5. CASE conn[xconn[x]].mux /\ Cardinality(old) <= MaxStreams
    <3>1. IsFiniteSet(old) /\ IsFiniteSet(new)
      BY <2>3, Numbers
    <3>2. Cardinality(new) <= Cardinality(old)
      BY <2>3, <3>1, FS_Subset
    <3>3. Cardinality(new) \in Nat /\ Cardinality(old) \in Nat /\ MaxStreams \in Nat
      BY <3>1, FS_CardinalityType, MultiAssumption
    <3>4. Cardinality(new) <= MaxStreams
      BY <2>5, <3>2, <3>3
    <3> QED
      BY <1>1, <2>1, <2>2, <2>5, <3>4
  <2> QED
    BY <2>1, <2>2, <2>4, <2>5 DEF CInv, NoDangling
<1> QED
  BY <1>2, <1>3 DEF CInv

\* x gets a connection nobody used: an idle one, or a new one.
LEMMA GainsAlone ==
  ASSUME IInv, CInv, NEW x \in Easy, NEW c \in Conns \ InUse,
         xconn[x] = NoConn, xconn' = [xconn EXCEPT ![x] = c],
         conn' \in Untouched(conn, InUse),
         conn'[c].st = "live", conn'[c].host = HostOf[x],
         conn'[c].mux => x \in Multiplex /\ mstate'[x] # "RESOLVING",
         \A y \in Easy \ {x} : mstate'[y] = "RESOLVING" => mstate[y] = "RESOLVING"
  PROVE  CInv'
<1>1. /\ xconn'[x] = c /\ \A y \in Easy \ {x} : xconn'[y] = xconn[y]
      /\ \A y \in Easy \ {x} : xconn[y] # c
  BY DEF IInv, TypeOK, InUse, Users
<1>2. ASSUME NEW y \in Easy \ {x}, xconn[y] # NoConn
      PROVE  /\ conn'[xconn[y]].st = "live" /\ conn'[xconn[y]].host = HostOf[y]
             /\ conn'[xconn[y]].mux = conn[xconn[y]].mux
             /\ Users(xconn[y])' = Users(xconn[y])
  <2>1. /\ xconn[y] \in InUse
        /\ conn[xconn[y]].st = "live" /\ conn[xconn[y]].host = HostOf[y]
    BY <1>2, HeldConn
  <2>2. {z \in Easy : xconn'[z] = xconn[y]} = {z \in Easy : xconn[z] = xconn[y]}
    BY <1>1, <1>2
  <2>3. Users(xconn[y])' = Users(xconn[y])
    BY <1>1, <2>2 DEF Users
  <2> QED
    BY <2>1, <2>3 DEF Untouched
<1>3. Users(c)' = {x}
  BY <1>1 DEF Users
<1>4. NoDangling'
  <2>1. ASSUME NEW y \in Easy \ {x}, xconn[y] # NoConn
        PROVE  /\ conn'[xconn'[y]].st = "live" /\ conn'[xconn'[y]].host = HostOf[y]
               /\ \/ Users(xconn[y])' = {y}
                  \/ /\ conn'[xconn[y]].mux
                     /\ Cardinality(Users(xconn[y])') <= MaxStreams
    BY <1>1, <1>2, <2>1 DEF CInv, NoDangling
  <2> QED
    BY <1>1, <1>3, <2>1 DEF NoDangling, Users
<1>5. Sharing'
  BY <1>1, <1>2 DEF CInv, Sharing
<1> QED
  BY <1>4, <1>5 DEF CInv

\* x joins others on a connection that has room for one more.
LEMMA GainsShared ==
  ASSUME IInv, CInv, NEW x \in Easy, NEW c \in InUse,
         xconn[x] = NoConn, xconn' = [xconn EXCEPT ![x] = c],
         conn' \in Untouched(conn, InUse), x \in Multiplex,
         conn[c].mux, conn[c].host = HostOf[x], Cardinality(Users(c)) < MaxStreams,
         mstate'[x] # "RESOLVING",
         \A y \in Easy \ {x} : mstate'[y] = "RESOLVING" => mstate[y] = "RESOLVING"
  PROVE  CInv'
<1>1. /\ xconn'[x] = c /\ \A y \in Easy \ {x} : xconn'[y] = xconn[y]
      /\ c \in Conns /\ c # NoConn /\ x \notin Users(c)
  BY MultiAssumption DEF IInv, TypeOK, InUse, Users
<1>2. ASSUME NEW y \in Easy, xconn'[y] # NoConn
      PROVE  /\ xconn'[y] \in InUse
             /\ conn[xconn'[y]].st = "live" /\ conn[xconn'[y]].host = HostOf[y]
  <2>1. conn[c].st = "live"
    BY InUseLive DEF Live
  <2> QED
    BY <1>1, <1>2, <2>1, HeldConn
<1>3. ASSUME NEW y \in Easy, xconn'[y] # NoConn
      PROVE  /\ conn'[xconn'[y]].st = "live" /\ conn'[xconn'[y]].host = HostOf[y]
             /\ conn'[xconn'[y]].mux = conn[xconn'[y]].mux
  BY <1>2, <1>3 DEF Untouched
<1>4. {y \in Easy : xconn'[y] = c} = Users(c) \cup {x}
  BY <1>1 DEF Users
<1>5. Cardinality(Users(c) \cup {x}) <= MaxStreams
  <2>1. IsFiniteSet(Users(c))
    BY Numbers DEF Users
  <2>2. Cardinality(Users(c) \cup {x}) = Cardinality(Users(c)) + 1
    BY <1>1, <2>1, FS_AddElement
  <2>3. Cardinality(Users(c)) \in Nat /\ MaxStreams \in Nat
    BY <2>1, FS_CardinalityType, MultiAssumption
  <2> QED
    BY <2>2, <2>3
<1>6. NoDangling'
  <2>1. SUFFICES ASSUME NEW y \in Easy, xconn'[y] # NoConn,
                        NEW D, D = {z \in Easy : xconn'[z] = xconn'[y]}
                 PROVE  \/ D = {y}
                        \/ conn'[xconn'[y]].mux /\ Cardinality(D) <= MaxStreams
    BY <1>3 DEF NoDangling, Users
  <2>2. CASE xconn'[y] = c
    <3>1. D = Users(c) \cup {x}
      BY <1>4, <2>1, <2>2
    <3>2. Cardinality(D) <= MaxStreams
      BY <1>5, <3>1
    <3> QED
      BY <1>3, <2>1, <2>2, <3>2
  <2>3. CASE xconn'[y] # c
    <3>1. y # x /\ xconn'[y] = xconn[y] /\ D = Users(xconn[y])
      BY <1>1, <2>1, <2>3 DEF Users
    <3>2. D = {y} \/ (conn[xconn[y]].mux /\ Cardinality(D) <= MaxStreams)
      BY <2>1, <3>1 DEF CInv, NoDangling
    <3> QED
      BY <1>3, <2>1, <3>1, <3>2
  <2> QED
    BY <2>2, <2>3
<1>7. Sharing'
  <2>1. ASSUME NEW y \in Easy \ {x}, xconn[y] # NoConn
        PROVE  /\ conn'[xconn'[y]].mux => y \in Multiplex
               /\ mstate'[y] = "RESOLVING" => ~conn'[xconn'[y]].mux
    BY <1>1, <1>3, <2>1 DEF CInv, Sharing
  <2> QED
    BY <1>1, <2>1 DEF Sharing
<1> QED
  BY <1>6, <1>7 DEF CInv
-----------------------------------------------------------------------------
(* What each step of a transfer does with connections *)

Retains(x) == UNCHANGED xconn /\ conn' \in Untouched(conn, InUse)
Loses(x) == /\ xconn' = Detached(x)
            /\ conn' \in Untouched(conn, InUseBy(Easy \ {x}))

\* The pools multi_done and the states start from.
LEMMA Marks ==
  ASSUME IInv, NEW x
  PROVE  /\ conn \in Untouched(conn, InUse) /\ CloseStream(x) \in Untouched(conn, InUse)
         /\ ConnClose(conn, xconn[x]) \in Untouched(conn, InUse)
         /\ conn \in Pools /\ InUse \in SUBSET Conns
<1>1. conn \in Pools /\ InUse \in SUBSET Conns
  BY DEF IInv, TypeOK, Pools, InUse
<1> QED
  BY <1>1, UntouchedLess, CloseLeaves DEF CloseStream

LEMMA DoneLoses ==
  ASSUME IInv, CInv, NEW x \in Easy, NEW cn \in Untouched(conn, InUse),
         NEW premature, MultiDone(x, cn, premature)
  PROVE  Loses(x)
<1> DEFINE U == InUseBy(Easy \ {x})
<1>1. /\ conn \in Pools /\ U \in SUBSET InUse /\ U \in SUBSET Live(conn)
      /\ InUse \in SUBSET Live(conn)
  BY Marks, InUseLive
<1> HIDE DEF U
<1>2. cn \in Untouched(conn, U)
  BY <1>1, UntouchedLess
<1>3. cn \in Pools /\ U \in SUBSET Live(cn) /\ Untouched(cn, U) \subseteq Untouched(conn, U)
  BY <1>1, <1>2, UntouchedTwice
<1>4. DonePools(x, cn, premature) \subseteq Untouched(conn, U)
  BY <1>3, DonePoolsLeaves DEF U
<1>5. conn' \in Untouched(conn, U) /\ xconn' = Detached(x)
  BY <1>4 DEF MultiDone, Pool
<1> QED
  BY <1>5 DEF Loses, U

\* The pools an attempt to connect may leave behind.
LEMMA StartingLeaves ==
  ASSUME IInv, CInv, NEW x \in Easy
  PROVE  /\ PruneDead(conn, InUse) \subseteq Untouched(conn, InUse)
         /\ Unmatched(x) \subseteq Untouched(conn, InUse)
         /\ Roomy(x) \subseteq Untouched(conn, InUse)
<1>1. conn \in Pools /\ InUse \in SUBSET Live(conn)
  BY Marks, InUseLive
<1>2. PruneDead(conn, InUse) \subseteq Untouched(conn, InUse)
  BY <1>1, PruneDeadLeaves
<1>3. Unmatched(x) \subseteq Untouched(conn, InUse)
  BY <1>2 DEF Unmatched
<1>4. ASSUME NEW cn \in Untouched(conn, InUse)
      PROVE  CheckLimits(cn, InUse, HostOf[x]) \subseteq Untouched(conn, InUse)
  <2> DEFINE U == InUse
  <2>1. U \in SUBSET Live(conn) /\ cn \in Untouched(conn, U)
    BY <1>1, <1>4
  <2> HIDE DEF U
  <2>2. /\ cn \in Pools /\ U \in SUBSET Live(cn)
        /\ Untouched(cn, U) \subseteq Untouched(conn, U)
    BY <1>1, <2>1, UntouchedTwice
  <2>3. CheckLimits(cn, U, HostOf[x]) \subseteq Untouched(conn, U)
    BY <2>2, CheckLimitsLeaves
  <2> QED
    BY <2>3 DEF U
<1>5. Roomy(x) \subseteq Untouched(conn, InUse)
  BY <1>3, <1>4 DEF Roomy
<1> QED
  BY <1>2, <1>3, <1>5

\* All steps but three keep the connection or lose it.
LEMMA StepConn ==
  ASSUME IInv, CInv, NEW x \in Easy, Handle(x)
  PROVE  \/ Retains(x) \/ Loses(x)
         \/ ReuseConn(x) \/ OpenConn(x) \/ ComesUp(x)
<1>1. /\ conn \in Untouched(conn, InUse) /\ CloseStream(x) \in Untouched(conn, InUse)
      /\ ConnClose(conn, xconn[x]) \in Untouched(conn, InUse)
  BY Marks
<1>2. /\ PruneDead(conn, InUse) \subseteq Untouched(conn, InUse)
      /\ Unmatched(x) \subseteq Untouched(conn, InUse)
      /\ Roomy(x) \subseteq Untouched(conn, InUse)
  BY StartingLeaves
<1>3. UNCHANGED pool => Retains(x)
  BY <1>1 DEF Retains, pool
<1>4. \A cn \in Untouched(conn, InUse) : Pool(cn) /\ UNCHANGED xconn => Retains(x)
  BY DEF Pool, Retains
<1>5. \A cn \in Untouched(conn, InUse) : \A premature :
        FailDone(x, cn, premature) \/ Again(x, cn) => Loses(x)
  BY DoneLoses DEF FailDone, Again
<1>6. CASE \/ Recheck(x) \/ Parked(x) \/ InitFails(x) \/ Resolving(x)
           \/ AwaitConnect(x) \/ IsUp(x) \/ ProtoConnect(x) \/ ProtoConnecting(x)
           \/ Do(x) \/ Doing(x) \/ DoingMore(x) \/ Did(x) \/ Transfers(x)
           \/ Unlimited(x) \/ Failed(x) \/ Complete(x) \/ Loop(x)
  <2>1. UNCHANGED <<conn, xconn>>
    BY <1>6 DEF Recheck, Parked, InitFails, Resolving, AwaitConnect, IsUp,
       ProtoConnect, ProtoConnecting, Do, Doing, DoingMore, Did, Transfers,
       Unlimited, Failed, Complete, Loop, Stay, Advance, pool
  <2> QED
    BY <1>1, <2>1 DEF Retains
<1>7. CASE \/ ConnectionFails(x) \/ ProtocolFails(x) \/ DoRetries(x) \/ DoFails(x)
           \/ Redirected(x) \/ FollowFails(x) \/ TransferFails(x)
  <2>1. \E cn \in Untouched(conn, InUse) :
          Again(x, cn) \/ \E premature : FailDone(x, cn, premature)
    BY <1>1, <1>7 DEF ConnectionFails, ProtocolFails, DoRetries, DoFails,
       Redirected, FollowFails, TransferFails
  <2> QED
    BY <1>5, <2>1
<1>8. CASE WaitForConn(x) \/ ConnectFails(x)
  <2>1. UNCHANGED xconn /\ \E cn \in Untouched(conn, InUse) : conn' = cn
    BY <1>2, <1>8 DEF WaitForConn, ConnectFails, Pool
  <2> QED
    BY <2>1 DEF Retains
<1>9. ASSUME HandleTimeout(x)
      PROVE  Retains(x) \/ Loses(x)
  <2>1. CASE xconn[x] = NoConn
    BY <1>3, <1>9, <2>1 DEF HandleTimeout
  <2>2. CASE xconn[x] # NoConn
    <3>1. \E cn \in Untouched(conn, InUse) : MultiDone(x, cn, TRUE)
      BY <1>1, <1>9, <2>2 DEF HandleTimeout
    <3> QED
      BY <3>1, DoneLoses
  <2> QED
    BY <2>1, <2>2
<1>10. CASE TopTimeout(x) \/ LateTimeout(x)
  BY <1>9, <1>10 DEF TopTimeout, LateTimeout
<1>11. CASE Done(x)
  <2>1. CASE xconn[x] = NoConn
    BY <1>3, <1>11, <2>1 DEF Done
  <2>2. CASE xconn[x] # NoConn
    <3>1. MultiDone(x, conn, result = "err")
      BY <1>11, <2>2 DEF Done
    <3> QED
      BY <1>1, <3>1, DoneLoses
  <2> QED
    BY <2>1, <2>2
<1>12. CASE Received(x)
  BY <1>1, <1>4, <1>12 DEF Received
<1>13. CASE AbortToDone(x)
  BY <1>1, <1>4, <1>13 DEF AbortToDone, MayAbort
<1>14. CASE AbortInDone(x)
  <2>1. conn' \in Untouched(conn, InUse) /\ xconn' = Detached(x)
    BY <1>1, <1>14 DEF AbortInDone, MayAbort, Pool
  <2>2. Untouched(conn, InUse) \subseteq Untouched(conn, InUseBy(Easy \ {x}))
    BY Marks, InUseLive, UntouchedLess
  <2> QED
    BY <2>1, <2>2 DEF Loses
<1>15. CASE ResolveFails(x)
  <2>1. xconn[x] # NoConn /\ mstate[x] = "RESOLVING"
    <3>1. Holding(x) /\ phase = "top" /\ mstate[x] = "RESOLVING"
      BY <1>15, HandleIsCur, Holds DEF ResolveFails, Run, AtTop
    <3> QED
      BY <3>1 DEF Holding, Attached, Connecting
  <2>2. ~conn[xconn[x]].mux
    BY <2>1 DEF CInv, Sharing
  <2>3. xconn[x] \notin InUseBy(Easy \ {x})
    BY <2>1, <2>2, HeldConn DEF InUseBy, Users
  <2>4. InUseBy(Easy \ {x}) \in SUBSET Conns /\ conn \in Pools
    BY Marks DEF InUseBy
  <2>5. Terminate(conn, xconn[x]) \in Untouched(conn, InUseBy(Easy \ {x}))
    BY <2>3, <2>4, TerminateLeaves
  <2> QED
    BY <1>15, <2>5 DEF ResolveFails, Pool, Loses
<1> QED
  BY <1>6, <1>7, <1>8, <1>10, <1>11, <1>12, <1>13, <1>14, <1>15 DEF Handle

\* Only OpenConn starts to resolve a name.
LEMMA StepResolving ==
  ASSUME IInv, NEW x \in Easy, Handle(x), NEW y \in Easy, mstate'[y] = "RESOLVING"
  PROVE  mstate[y] = "RESOLVING" \/ (y = x /\ OpenConn(x))
<1>1. mstate \in [Easy -> States]
  BY DEF IInv, TypeOK
<1>2. ASSUME NEW t, t # "RESOLVING", NEW W, Move(x, t, W)
      PROVE  mstate[y] = "RESOLVING"
  BY <1>1, <1>2 DEF Move
<1>3. ASSUME NEW W, Wake(W)
      PROVE  mstate[y] = "RESOLVING"
  BY <1>1, <1>3 DEF Wake
<1>4. ASSUME NEW W, Finish(x, W)
      PROVE  mstate[y] = "RESOLVING"
  BY <1>1, <1>4 DEF Finish
<1>5. UNCHANGED sets => mstate[y] = "RESOLVING"
  BY DEF sets
<1>6. CASE OpenConn(x)
  <2>1. PICK t, W : Move(x, t, W)
    BY <1>6 DEF OpenConn
  <2> QED
    BY <1>1, <1>6, <2>1 DEF Move
<1>7. CASE ReuseConn(x) \/ WaitForConn(x) \/ ConnectFails(x) \/ InitFails(x)
  <2>1. CASE WaitForConn(x)
    BY <1>1, <2>1 DEF WaitForConn, Park
  <2> QED
    BY <1>2, <1>5, <1>7, <2>1 DEF ReuseConn, ConnectFails, InitFails
<1>8. CASE \/ Resolving(x) \/ ResolveFails(x) \/ AwaitConnect(x) \/ ComesUp(x)
           \/ IsUp(x) \/ ConnectionFails(x) \/ ProtoConnect(x)
           \/ ProtoConnecting(x) \/ ProtocolFails(x)
  BY <1>2, <1>3, <1>5, <1>8
  DEF Resolving, ResolveFails, AwaitConnect, ComesUp, IsUp, ConnectionFails,
      ProtoConnect, ProtoConnecting, ProtocolFails, Stay, Advance, FailDone
<1>9. CASE \/ Do(x) \/ DoRetries(x) \/ DoFails(x) \/ Doing(x) \/ DoingMore(x) \/ Did(x)
  BY <1>2, <1>3, <1>5, <1>9
  DEF Do, DoRetries, DoFails, Doing, DoingMore, Did, Stay, Advance, FailDone, Again
<1>10. CASE \/ Transfers(x) \/ Received(x) \/ Redirected(x) \/ FollowFails(x)
            \/ TransferFails(x) \/ Unlimited(x)
  BY <1>2, <1>3, <1>5, <1>10
  DEF Transfers, Received, Redirected, FollowFails, TransferFails, Unlimited,
      Stay, Advance, FailDone, Again
<1>11. CASE Done(x)
  BY <1>1, <1>11 DEF Done
<1>12. CASE \/ Recheck(x) \/ TopTimeout(x) \/ Parked(x) \/ LateTimeout(x)
            \/ Failed(x) \/ Complete(x) \/ AbortToDone(x) \/ AbortInDone(x) \/ Loop(x)
  BY <1>2, <1>3, <1>4, <1>5, <1>12
  DEF Recheck, TopTimeout, Parked, LateTimeout, HandleTimeout, Failed, Complete,
      AbortToDone, AbortInDone, Loop, Stay
<1> QED
  BY <1>6, <1>7, <1>8, <1>9, <1>10, <1>11, <1>12 DEF Handle

\* An idle connection that matches becomes the transfer's own, one that has
\* room for another stream is shared.
LEMMA ReuseConnInv ==
  ASSUME IInv, CInv, NEW x \in Easy, Handle(x), ReuseConn(x)
  PROVE  CInv'
<1>1. xconn[x] = NoConn /\ mstate[x] # "RESOLVING"
  <2>1. Holding(x) /\ phase = "top" /\ mstate[x] \in {"INIT", "SETUP", "CONNECT"}
    BY HandleIsCur, Holds DEF ReuseConn, Connects, Starting, Run, AtTop
  <2> QED
    BY <2>1 DEF Holding, Attached, Connecting, Using
<1>10. PICK cn \in Untouched(conn, InUse) :
         \E c \in IdleMatches(cn, x) \cup SharedMatches(cn, x) :
           /\ conn' = [cn EXCEPT ![c] = [cn[c] EXCEPT !.reused = TRUE]]
           /\ xconn' = [xconn EXCEPT ![x] = c]
  BY StartingLeaves DEF ReuseConn, Pool, Attach
<1>2. PICK c \in IdleMatches(cn, x) \cup SharedMatches(cn, x) :
        /\ conn' = [cn EXCEPT ![c] = [cn[c] EXCEPT !.reused = TRUE]]
        /\ xconn' = [xconn EXCEPT ![x] = c]
  BY <1>10
<1>3. /\ c \in Conns /\ cn[c].st = "live" /\ cn[c].host = HostOf[x]
      /\ cn[c].mux => x \in Multiplex
      /\ cn \in Pools
  BY DEF IdleMatches, SharedMatches, Matching, LiveTo, Live, Untouched
<1>4. /\ conn' \in Pools
      /\ \A d \in Conns : /\ conn'[d].st = cn[d].st /\ conn'[d].host = cn[d].host
                          /\ conn'[d].mux = cn[d].mux
  BY <1>2, <1>3 DEF Pools, Connection
<1>5. conn' \in Untouched(conn, InUse)
  <2>1. InUse \in SUBSET Conns
    BY Marks
  <2> QED
    BY <1>4, <2>1 DEF Untouched
<1>6. \A y \in Easy : mstate'[y] = "RESOLVING" => mstate[y] = "RESOLVING"
  <2>1. PICK t, W : Move(x, t, W) /\ t # "RESOLVING"
    BY DEF ReuseConn
  <2> QED
    BY <2>1 DEF Move, IInv, TypeOK
<1>7. CASE c \notin InUse
  BY <1>1, <1>2, <1>3, <1>4, <1>5, <1>6, <1>7, GainsAlone
<1>8. CASE c \in InUse
  <2>1. cn[c].mux /\ x \in Multiplex /\ Cardinality(Users(c)) < MaxStreams
    BY <1>8 DEF IdleMatches, SharedMatches
  <2>2. conn[c].mux /\ conn[c].host = HostOf[x]
    BY <1>3, <1>8, <2>1 DEF Untouched
  <2> QED
    BY <1>1, <1>2, <1>5, <1>6, <1>8, <2>1, <2>2, GainsShared
<1> QED
  BY <1>7, <1>8

\* A new connection takes a slot that is closed, so nobody's.
LEMMA OpenConnInv ==
  ASSUME IInv, CInv, NEW x \in Easy, Handle(x), OpenConn(x)
  PROVE  CInv'
<1>1. xconn[x] = NoConn
  <2>1. Holding(x) /\ phase = "top" /\ mstate[x] \in {"INIT", "SETUP", "CONNECT"}
    BY HandleIsCur, Holds DEF OpenConn, Connects, Starting, Run, AtTop
  <2> QED
    BY <2>1 DEF Holding, Attached, Connecting, Using
<1>2. PICK cn \in Untouched(conn, InUse), c \in Conns :
        /\ cn[c].st = "closed"
        /\ conn' = [cn EXCEPT ![c] = NewConn(HostOf[x])]
        /\ xconn' = [xconn EXCEPT ![x] = c]
  BY StartingLeaves, FirstMember DEF OpenConn, Attach
<1>3. c \notin InUse /\ InUse \in SUBSET Conns /\ cn \in Pools
  <2>1. \A d \in InUse : cn[d].st = "live"
    BY InUseLive DEF Untouched, Live
  <2> QED
    BY <1>2, <2>1, Marks DEF Untouched
<1>4. /\ conn'[c].st = "live" /\ conn'[c].host = HostOf[x] /\ ~conn'[c].mux
      /\ \A d \in InUse : conn'[d] = cn[d]
  BY <1>2, <1>3 DEF NewConn, Pools
<1>5. conn' \in Untouched(conn, InUse)
  <2>1. NewConn(HostOf[x]) \in Connection
    BY NewConnType, MultiAssumption
  <2>2. conn' \in Pools
    BY <1>2, <1>3, <2>1 DEF Pools
  <2> QED
    BY <1>4, <2>2 DEF Untouched
<1>6. \A y \in Easy \ {x} : mstate'[y] = "RESOLVING" => mstate[y] = "RESOLVING"
  BY StepResolving
<1> QED
  BY <1>1, <1>2, <1>3, <1>4, <1>5, <1>6, GainsAlone

\* A connection that comes up may turn out to be one that can be shared: its
\* only user may share it.
LEMMA ComesUpInv ==
  ASSUME IInv, CInv, NEW x \in Easy, Handle(x), ComesUp(x)
  PROVE  CInv'
<1> DEFINE c == xconn[x]
<1>1. c # NoConn
  <2>1. Holding(x) /\ phase = "top" /\ mstate[x] = "CONNECTING"
    BY HandleIsCur, Holds DEF ComesUp, Run, AtTop
  <2> QED
    BY <2>1 DEF Holding, Attached, Connecting
<1>2. UNCHANGED xconn /\ conn \in Pools /\ c \in Conns
  BY <1>1, Marks, HeldConn DEF ComesUp
<1>3. /\ \A d \in Conns : conn'[d].st = conn[d].st /\ conn'[d].host = conn[d].host
      /\ \A d \in Conns \ {c} : conn'[d].mux = conn[d].mux
      /\ conn'[c].mux # conn[c].mux => conn'[c].mux = TRUE /\ x \in Multiplex
      /\ conn[c].mux \in BOOLEAN
  <2>1. conn[c] \in Connection
    BY <1>2 DEF Pools
  <2>2. CASE conn' = [conn EXCEPT ![c] = [conn[c] EXCEPT !.up = TRUE]]
    BY <1>2, <2>1, <2>2 DEF Pools, Connection
  <2>3. CASE /\ conn' = [conn EXCEPT ![c] = [conn[c] EXCEPT !.up = TRUE, !.mux = TRUE]]
             /\ x \in Multiplex
    BY <1>2, <2>1, <2>3 DEF Pools, Connection
  <2> QED
    BY <2>2, <2>3 DEF ComesUp
<1>4. mstate'[x] # "RESOLVING"
  <2>1. PICK W : Move(x, "PROTOCONNECT", W)
    BY DEF ComesUp
  <2> QED
    BY <2>1 DEF Move, IInv, TypeOK
<1>5. \A y \in Easy : mstate'[y] = "RESOLVING" => mstate[y] = "RESOLVING"
  BY <1>4, StepResolving
<1>6. ASSUME NEW y \in Easy, xconn[y] # NoConn
      PROVE  /\ conn'[xconn[y]].st = "live" /\ conn'[xconn[y]].host = HostOf[y]
             /\ conn[xconn[y]].mux => conn'[xconn[y]].mux
             /\ conn'[xconn[y]].mux => y \in Multiplex
             /\ mstate'[y] = "RESOLVING" => ~conn'[xconn[y]].mux
  <2>1. /\ xconn[y] \in Conns
        /\ conn[xconn[y]].st = "live" /\ conn[xconn[y]].host = HostOf[y]
    BY <1>6, HeldConn
  <2>2. /\ conn[xconn[y]].mux => y \in Multiplex
        /\ mstate[y] = "RESOLVING" => ~conn[xconn[y]].mux
    BY <1>6 DEF CInv, Sharing
  <2>3. CASE conn'[xconn[y]].mux = conn[xconn[y]].mux
    BY <1>3, <1>5, <2>1, <2>2, <2>3
  <2>4. CASE conn'[xconn[y]].mux # conn[xconn[y]].mux
    <3>1. xconn[y] = c /\ conn'[c].mux = TRUE /\ x \in Multiplex
      BY <1>3, <2>1, <2>4
    <3>2. conn[c].mux = FALSE
      BY <1>3, <2>4, <3>1
    <3>3. y = x
      BY <1>1, <3>1, <3>2, HeldConn
    <3> QED
      BY <1>3, <1>4, <2>1, <3>1, <3>3
  <2> QED
    BY <2>3, <2>4
<1>7. \A y \in Easy : Users(xconn[y])' = Users(xconn[y])
  BY <1>2 DEF Users
<1>8. NoDangling'
  <2>1. ASSUME NEW y \in Easy, xconn[y] # NoConn
        PROVE  \/ Users(xconn[y])' = {y}
               \/ /\ conn'[xconn[y]].mux
                  /\ Cardinality(Users(xconn[y])') <= MaxStreams
    BY <1>6, <1>7, <2>1 DEF CInv, NoDangling
  <2> QED
    BY <1>2, <1>6, <2>1 DEF NoDangling
<1>9. Sharing'
  BY <1>2, <1>6 DEF Sharing
<1> QED
  BY <1>8, <1>9 DEF CInv

LEMMA HandleConn ==
  ASSUME IInv, CInv, NEW x \in Easy, Handle(x)
  PROVE  CInv'
<1>1. CASE Retains(x) /\ ~OpenConn(x)
  <2>1. \A y \in Easy : mstate'[y] = "RESOLVING" => mstate[y] = "RESOLVING"
    BY <1>1, StepResolving
  <2>2. xconn' = xconn /\ conn' \in Untouched(conn, InUse)
    BY <1>1 DEF Retains
  <2>3. \A y \in Easy : xconn[y] # NoConn => xconn[y] \in InUse
    BY HeldConn
  <2> QED
    BY <2>1, <2>2, <2>3, NobodyGains
<1>2. CASE Loses(x) /\ ~OpenConn(x)
  <2>1. \A y \in Easy : mstate'[y] = "RESOLVING" => mstate[y] = "RESOLVING"
    BY <1>2, StepResolving
  <2>2. /\ xconn' = [xconn EXCEPT ![x] = NoConn]
        /\ conn' \in Untouched(conn, InUseBy(Easy \ {x}))
    BY <1>2 DEF Loses, Detached
  <2>3. xconn'[x] = NoConn /\ \A y \in Easy \ {x} : xconn'[y] = xconn[y]
    BY <2>2 DEF IInv, TypeOK
  <2>4. \A y \in Easy \ {x} : xconn[y] # NoConn => xconn[y] \in InUseBy(Easy \ {x})
    BY HeldConn DEF InUseBy, Users
  <2>5. \A y \in Easy : xconn'[y] # NoConn => xconn[y] \in InUseBy(Easy \ {x})
    BY <2>3, <2>4
  <2> QED
    BY <2>1, <2>2, <2>3, <2>5, NobodyGains
<1> QED
  BY <1>1, <1>2, StepConn, ReuseConnInv, OpenConnInv, ComesUpInv
-----------------------------------------------------------------------------
(* The other actions: no transfer begins to resolve and none gets a         *)
(* connection.                                                              *)

NoneResolves ==
  \A y \in Easy : mstate'[y] = "RESOLVING" => mstate[y] = "RESOLVING"

\* Steps that leave the connections alone.
LEMMA SameConns ==
  ASSUME IInv, CInv, UNCHANGED <<conn, xconn>>, NoneResolves
  PROVE  CInv'
<1>1. conn' \in Untouched(conn, InUse)
  BY Marks
<1>2. \A y \in Easy : xconn[y] # NoConn => xconn[y] \in InUse
  BY HeldConn
<1> QED
  BY <1>1, <1>2, NobodyGains DEF NoneResolves

LEMMA AddHandleConn ==
  ASSUME IInv, CInv, NEW x \in Easy, AddHandle(x)
  PROVE  CInv'
<1>1. NoneResolves
  BY DEF AddHandle, NoneResolves, IInv, TypeOK
<1>2. UNCHANGED <<conn, xconn>>
  BY DEF AddHandle, pool
<1> QED
  BY <1>1, <1>2, SameConns

\* A removed transfer is done with its connection, if it has one.
LEMMA RemoveHandleConn ==
  ASSUME IInv, CInv, NEW x \in Easy, RemoveHandle(x)
  PROVE  CInv'
<1>1. NoneResolves
  BY DEF RemoveHandle, NoneResolves
<1>2. CASE xconn[x] = NoConn
  <2>1. UNCHANGED <<conn, xconn>>
    BY <1>2 DEF RemoveHandle, pool
  <2> QED
    BY <1>1, <2>1, SameConns
<1>3. CASE xconn[x] # NoConn
  <2>1. PICK cn \in Untouched(conn, InUse), premature \in BOOLEAN :
          MultiDone(x, cn, premature)
    BY <1>3, Marks DEF RemoveHandle
  <2>2. /\ xconn' = [xconn EXCEPT ![x] = NoConn]
        /\ conn' \in Untouched(conn, InUseBy(Easy \ {x}))
    BY <2>1, DoneLoses DEF Loses, Detached
  <2>3. xconn'[x] = NoConn /\ \A y \in Easy \ {x} : xconn'[y] = xconn[y]
    BY <2>2 DEF IInv, TypeOK
  <2>4. \A y \in Easy \ {x} : xconn[y] # NoConn => xconn[y] \in InUseBy(Easy \ {x})
    BY HeldConn DEF InUseBy, Users
  <2> QED
    BY <1>1, <2>2, <2>3, <2>4, NobodyGains DEF NoneResolves
<1> QED
  BY <1>2, <1>3

\* The shutdowns that end at the tail of a call are nobody's connections.
LEMMA EndConn ==
  ASSUME IInv, CInv, EndPerform \/ EndSocket
  PROVE  CInv'
<1>1. PICK S \in SUBSET Shut(conn) : EndCall(S) /\ \E W : Wake(W)
  BY DEF EndPerform, EndSocket
<1>2. NoneResolves
  BY <1>1 DEF Wake, NoneResolves
<1>3. UNCHANGED xconn
  BY <1>1 DEF EndCall
<1>4. conn' \in Pools
  BY <1>1, Marks, ClosedConnType DEF EndCall, Pools
<1>5. \A c \in InUse : conn'[c] = conn[c]
  <2>1. InUse \in SUBSET Live(conn)
    BY InUseLive
  <2> QED
    BY <1>1, <2>1 DEF EndCall, Live, Shut
<1>6. conn' \in Untouched(conn, InUse)
  BY <1>4, <1>5 DEF Untouched
<1>7. \A y \in Easy : xconn[y] # NoConn => xconn[y] \in InUse
  BY HeldConn
<1> QED
  BY <1>2, <1>3, <1>6, <1>7, NobodyGains DEF NoneResolves

\* Visits, calls, the clock and reading a message.
LEMMA QuietConn ==
  ASSUME IInv, CInv, NEW x \in Easy,
         \/ VisitPerform(x) \/ VisitDirty(x) \/ Tick(x) \/ CallEvent(x)
         \/ SecondPass \/ InfoRead \/ CallPerform \/ CallTimeout
         \/ CallShutdownEvent
  PROVE  CInv'
<1>1. UNCHANGED <<conn, xconn>>
  BY DEF VisitPerform, VisitDirty, Tick, CallEvent, SecondPass, InfoRead,
         CallPerform, CallTimeout, CallShutdownEvent, Rest, pool
<1>2. UNCHANGED mstate
  BY DEF VisitPerform, VisitDirty, Tick, CallEvent, SecondPass, InfoRead,
         CallPerform, CallTimeout, CallShutdownEvent, MarkExpired, sets
<1> QED
  BY <1>1, <1>2, SameConns DEF NoneResolves

\* Every step preserves it.
LEMMA NextConn == ASSUME IInv, CInv, [Next]_vars PROVE CInv'
<1>1. ASSUME NEW x \in Easy,
             \/ VisitPerform(x) \/ VisitDirty(x) \/ Tick(x) \/ CallEvent(x)
      PROVE  CInv'
  BY <1>1, QuietConn
<1>2. CASE \/ SecondPass \/ InfoRead \/ CallPerform \/ CallTimeout
           \/ CallShutdownEvent
  <2>1. CASE Easy = {}
    BY <2>1 DEF CInv, NoDangling, Sharing
  <2>2. CASE Easy # {}
    <3>1. PICK x : x \in Easy
      BY <2>2
    <3> QED
      BY <1>2, <3>1, QuietConn
  <2> QED
    BY <2>1, <2>2
<1>3. ASSUME NEW x \in Easy, AddHandle(x) \/ RemoveHandle(x) \/ Handle(x)
      PROVE  CInv'
  BY <1>3, AddHandleConn, RemoveHandleConn, HandleConn
<1>4. CASE EndPerform \/ EndSocket
  BY <1>4, EndConn
<1>5. CASE UNCHANGED vars
  <2>1. UNCHANGED <<conn, xconn>> /\ UNCHANGED mstate
    BY <1>5 DEF vars
  <2> QED
    BY <2>1, SameConns DEF NoneResolves
<1> QED
  BY <1>1, <1>2, <1>3, <1>4, <1>5 DEF Next, Library, Application

LEMMA InitConn == Init => CInv
BY DEF Init, CInv, NoDangling, Sharing

\* A connection that a transfer uses is never closed under it, is not being
\* shut down, leads to the transfer's host, and is shared only when it is
\* multiplexed and never by more than CURLMOPT_MAX_CONCURRENT_STREAMS allows:
\* whatever the eviction, trimming and pruning of the pool, the failures of the
\* other transfers and the ends of shutdowns do in between.
THEOREM ConnectionsSurvive == Spec => []NoDangling
<1>1. Init => IInv /\ CInv
  BY InitInv, InitConn
<1>2. (IInv /\ CInv) /\ [Next]_vars => (IInv /\ CInv)'
  BY NextInv, NextConn
<1>3. IInv /\ CInv => NoDangling
  BY DEF CInv
<1> QED
  BY <1>1, <1>2, <1>3, PTL DEF Spec

-----------------------------------------------------------------------------
(* The application's limits: all that happens to the pool but a new           *)
(* connection leaves fewer connections than before, each to the host it was   *)
(* to; a new one is opened only below the limits; and a connection that falls *)
(* idle takes the place of one that is evicted.                               *)

(* Fewer connections *)

Taken(cn) == Live(cn) \cup Shut(cn)
TakenTo(cn, h) == LiveTo(cn, h) \cup ShutTo(cn, h)

Smaller(cn) == {q \in Pools : /\ Taken(q) \subseteq Taken(cn) /\ Live(q) \subseteq Live(cn)
                              /\ \A c \in Taken(q) : q[c].host = cn[c].host}

LEMMA SmallerTwice ==
  ASSUME NEW cn \in Pools, NEW q \in Smaller(cn)
  PROVE  cn \in Smaller(cn) /\ q \in Pools /\ Smaller(q) \subseteq Smaller(cn)
BY DEF Smaller

\* Only marks change: bits.close, bits.reuse, what is known of the connection.
LEMMA MarksSmaller ==
  ASSUME NEW cn \in Pools, NEW q \in Pools, \A c \in Conns : q[c].st = cn[c].st /\ q[c].host = cn[c].host
  PROVE  q \in Smaller(cn) /\ Live(q) = Live(cn)
<1>1. Live(q) = Live(cn) /\ Shut(q) = Shut(cn)
  BY DEF Live, Shut
<1>2. \A c \in Taken(q) : c \in Conns
  BY DEF Taken, Live, Shut
<1> QED
  BY <1>1, <1>2 DEF Smaller, Taken

LEMMA TerminateSmaller ==
  ASSUME NEW cn \in Pools, NEW c
  PROVE  Terminate(cn, c) \in Smaller(cn) /\ c \notin Live(Terminate(cn, c))
<1>1. Terminate(cn, c) \in Pools
  BY TerminateType
<1>2. \A d \in Conns : Terminate(cn, c)[d] = IF d = c THEN ClosedConn ELSE cn[d]
  BY DEF Terminate, Pools
<1> QED
  BY <1>1, <1>2 DEF Smaller, Taken, Live, Shut, ClosedConn

LEMMA ShutSmaller ==
  ASSUME NEW cn \in Pools, NEW c \in Live(cn)
  PROVE  LET q == [cn EXCEPT ![c] = [cn[c] EXCEPT !.st = "shut"]]
         IN  q \in Smaller(cn) /\ c \notin Live(q)
<1> DEFINE q == [cn EXCEPT ![c] = [cn[c] EXCEPT !.st = "shut"]]
<1>1. q \in Pools
  BY ShutType
<1>2. /\ \A d \in Conns \ {c} : q[d] = cn[d]
      /\ c \in Conns /\ q[c].st = "shut" /\ q[c].host = cn[c].host
  BY DEF Pools, Connection, Live
<1> HIDE DEF q
<1>3. q \in Smaller(cn) /\ c \notin Live(q)
  BY <1>1, <1>2 DEF Smaller, Taken, Live, Shut
<1> QED
  BY <1>3 DEF q

LEMMA DisconnectSmaller ==
  ASSUME NEW cn \in Pools, NEW c \in Live(cn), NEW aborted, NEW q \in Disconnect(cn, c, aborted)
  PROVE  q \in Smaller(cn) /\ c \notin Live(q)
<1> DEFINE cn1 == [cn EXCEPT ![c] = [cn[c] EXCEPT !.st = "shut"]]
<1>1. cn1 \in Smaller(cn) /\ c \notin Live(cn1) /\ cn1 \in Pools
  BY ShutSmaller, SmallerTwice
<1>2. q = Terminate(cn, c) \/ q = cn1 \/ \E o \in Shut(cn) : q = Terminate(cn1, o)
  BY DEF Disconnect, AddToShutdown
<1> HIDE DEF cn1
<1>3. CASE q = Terminate(cn, c) \/ q = cn1
  BY <1>1, <1>3, TerminateSmaller
<1>4. CASE \E o \in Shut(cn) : q = Terminate(cn1, o)
  <2>1. q \in Smaller(cn1)
    BY <1>1, <1>4, TerminateSmaller
  <2> QED
    BY <1>1, <2>1, SmallerTwice DEF Smaller
<1> QED
  BY <1>2, <1>3, <1>4

LEMMA PruneDeadSmaller ==
  ASSUME NEW cn \in Pools, NEW U
  PROVE  PruneDead(cn, U) \subseteq Smaller(cn)
<1>1. PruneDead(cn, U) \subseteq Pools
  BY PruneDeadType
<1>2. ASSUME NEW ended \in SUBSET (Live(cn) \ U), NEW ending \in SUBSET (Live(cn) \ U),
             Pruned(cn, ended, ending) \in Pools
      PROVE  Pruned(cn, ended, ending) \in Smaller(cn)
  <2> DEFINE q == Pruned(cn, ended, ending)
  <2>1. \A c \in Conns : q[c] = IF c \in ended THEN ClosedConn
                                ELSE IF c \in ending THEN [cn[c] EXCEPT !.st = "shut"] ELSE cn[c]
    BY DEF Pruned
  <2>2. \A c \in Conns : /\ q[c].st = IF c \in ended THEN "closed" ELSE IF c \in ending THEN "shut" ELSE cn[c].st
                         /\ c \notin ended => q[c].host = cn[c].host
    <3>1. \A c \in Conns : /\ [cn[c] EXCEPT !.st = "shut"].st = "shut"
                           /\ [cn[c] EXCEPT !.st = "shut"].host = cn[c].host
      BY DEF Pools, Connection
    <3>2. SUFFICES ASSUME NEW c \in Conns
                   PROVE  /\ q[c].st = IF c \in ended THEN "closed" ELSE IF c \in ending THEN "shut" ELSE cn[c].st
                          /\ c \notin ended => q[c].host = cn[c].host
      OBVIOUS
    <3>3. CASE c \in ended
      <4>1. q[c] = ClosedConn
        BY <2>1, <3>3
      <4> QED
        BY <3>3, <4>1 DEF ClosedConn
    <3>4. CASE c \notin ended /\ c \in ending
      <4>1. q[c] = [cn[c] EXCEPT !.st = "shut"]
        BY <2>1, <3>4
      <4> QED
        BY <3>1, <3>4, <4>1
    <3>5. CASE c \notin ended /\ c \notin ending
      <4>1. q[c] = cn[c]
        BY <2>1, <3>5
      <4> QED
        BY <3>5, <4>1
    <3> QED
      BY <3>3, <3>4, <3>5
  <2>3. q \in Pools
    BY <1>2
  <2> HIDE DEF q
  <2>4. Live(q) \subseteq Live(cn) /\ Taken(q) \subseteq Taken(cn)
    BY <2>2 DEF Taken, Live, Shut
  <2>5. \A c \in Taken(q) : q[c].host = cn[c].host
    BY <2>2 DEF Taken, Live, Shut
  <2>6. q \in Smaller(cn)
    BY <2>3, <2>4, <2>5 DEF Smaller
  <2> QED
    BY <2>6 DEF q
<1> QED
  BY <1>1, <1>2 DEF PruneDead

LEMMA CheckLimitsSmaller ==
  ASSUME NEW cn \in Pools, NEW U, NEW h
  PROVE  CheckLimits(cn, U, h) \subseteq Smaller(cn)
<1>1. ASSUME NEW q \in Pools, NEW shuts, NEW idles
      PROVE  CloseOne(q, shuts, idles) \subseteq Smaller(q)
  <2>1. q \in Smaller(q)
    BY DEF Smaller
  <2> QED
    BY <2>1, TerminateSmaller DEF CloseOne
<1>2. HostRoom(cn, U, h) \subseteq Smaller(cn)
  BY <1>1 DEF HostRoom, Smaller
<1>3. ASSUME NEW q \in Smaller(cn)
      PROVE  TotalRoom(q, U, h) \subseteq Smaller(cn)
  <2>1. q \in Pools /\ Smaller(q) \subseteq Smaller(cn) /\ q \in Smaller(q)
    BY SmallerTwice DEF Smaller
  <2>2. TotalRoom(q, U, h) \subseteq Smaller(q)
    BY <1>1, <2>1 DEF TotalRoom
  <2> QED
    BY <2>1, <2>2
<1> QED
  BY <1>2, <1>3 DEF CheckLimits
-----------------------------------------------------------------------------
(* The invariant.  Without aborts in DONE, which leave a connection to the    *)
(* pool without a look at its size, idle connections are bounded as well.     *)

IdleConns == Live(conn) \ InUse
IdleBound == Aborting = {} => IdleWithinMaxConnects

LimitsInv == IsFiniteSet(Taken(conn)) /\ LimitsHeld /\ IdleBound

\* The limits count the connections taken.
LEMMA TakenCounted ==
  ASSUME NEW cn \in Pools, IsFiniteSet(Taken(cn))
  PROVE  /\ Cardinality(Live(cn)) + Cardinality(Shut(cn)) = Cardinality(Taken(cn))
         /\ Cardinality(Taken(cn)) \in Nat
         /\ \A h : /\ IsFiniteSet(TakenTo(cn, h)) /\ Cardinality(TakenTo(cn, h)) \in Nat
                  /\ Cardinality(LiveTo(cn, h)) + Cardinality(ShutTo(cn, h)) = Cardinality(TakenTo(cn, h))
<1>1. ASSUME NEW S, NEW T, S \cap T = {}, S \cup T \subseteq Taken(cn)
      PROVE  /\ IsFiniteSet(S \cup T) /\ Cardinality(S \cup T) \in Nat
             /\ Cardinality(S) + Cardinality(T) = Cardinality(S \cup T)
  <2>1. IsFiniteSet(S) /\ IsFiniteSet(T) /\ IsFiniteSet(S \cup T)
    BY <1>1, FS_Subset
  <2>2. Cardinality(S \cup T) = Cardinality(S) + Cardinality(T) - Cardinality(S \cap T)
    BY <2>1, FS_Union
  <2>3. Cardinality(S) \in Nat /\ Cardinality(T) \in Nat /\ Cardinality(S \cap T) = 0
    BY <1>1, <2>1, FS_CardinalityType, FS_EmptySet
  <2> QED
    BY <2>1, <2>2, <2>3
<1>2. Live(cn) \cap Shut(cn) = {} /\ Live(cn) \cup Shut(cn) = Taken(cn)
  BY DEF Live, Shut, Taken
<1>3. \A h : /\ LiveTo(cn, h) \cap ShutTo(cn, h) = {}
             /\ LiveTo(cn, h) \cup ShutTo(cn, h) = TakenTo(cn, h) /\ TakenTo(cn, h) \subseteq Taken(cn)
  BY <1>2 DEF LiveTo, ShutTo, TakenTo
<1> QED
  BY <1>1, <1>2, <1>3, ZenonT(30)

Within(cn) ==
  /\ IsFiniteSet(Taken(cn))
  /\ HostLimit > 0 => \A h \in Hosts : Cardinality(TakenTo(cn, h)) <= HostLimit
  /\ TotalLimit > 0 => Cardinality(Taken(cn)) <= TotalLimit

LEMMA WithinHeld ==
  ASSUME conn \in Pools, IsFiniteSet(Taken(conn))
  PROVE  LimitsHeld <=> Within(conn)
BY TakenCounted DEF LimitsHeld, Within

LEMMA WithinHeldNext ==
  ASSUME conn' \in Pools, Within(conn')
  PROVE  IsFiniteSet(Taken(conn)') /\ LimitsHeld'
<1>1. IsFiniteSet(Taken(conn'))
  BY DEF Within
<1>2. /\ HostLimit > 0 => \A h \in Hosts :
           Cardinality(LiveTo(conn', h)) + Cardinality(ShutTo(conn', h)) <= HostLimit
      /\ TotalLimit > 0 => Cardinality(Live(conn')) + Cardinality(Shut(conn')) <= TotalLimit
  BY <1>1, TakenCounted DEF Within
<1> QED
  BY <1>1, <1>2 DEF LimitsHeld, Taken, Live, Shut, LiveTo, ShutTo

\* A smaller pool is within the limits too.
LEMMA SmallerWithin ==
  ASSUME IInv, LimitsInv, NEW cn \in Smaller(conn)
  PROVE  Within(cn)
<1>1. conn \in Pools /\ Taken(cn) \subseteq Taken(conn)
  BY Marks DEF Smaller
<1>2. IsFiniteSet(Taken(conn)) /\ IsFiniteSet(Taken(cn))
  BY <1>1, FS_Subset DEF LimitsInv
<1>3. \A h : TakenTo(cn, h) \subseteq TakenTo(conn, h)
  BY <1>1 DEF Smaller, TakenTo, LiveTo, ShutTo, Taken
<1>4. \A h : IsFiniteSet(TakenTo(conn, h)) /\ Cardinality(TakenTo(conn, h)) \in Nat
  BY <1>1, <1>2, TakenCounted
<1>5. /\ Cardinality(Taken(cn)) <= Cardinality(Taken(conn))
      /\ Cardinality(Taken(cn)) \in Nat /\ Cardinality(Taken(conn)) \in Nat
      /\ \A h : /\ Cardinality(TakenTo(cn, h)) <= Cardinality(TakenTo(conn, h))
               /\ Cardinality(TakenTo(cn, h)) \in Nat
  BY <1>1, <1>2, <1>3, <1>4, FS_Subset, FS_CardinalityType
<1>6. Within(conn)
  BY <1>1, <1>2, WithinHeld DEF LimitsInv
<1> QED
  BY <1>2, <1>4, <1>5, <1>6, PoolAssumption DEF Within

LEMMA SmallerHeld ==
  ASSUME IInv, LimitsInv, conn' \in Smaller(conn)
  PROVE  IsFiniteSet(Taken(conn)') /\ LimitsHeld'
<1>1. conn' \in Pools
  BY DEF Smaller
<1> QED
  BY <1>1, SmallerWithin, WithinHeldNext

\* So are idle connections that are no others than before.
LEMMA SameIdle ==
  ASSUME IInv, LimitsInv, Live(conn)' \ InUse' \subseteq IdleConns
  PROVE  IdleBound'
<1>1. IsFiniteSet(IdleConns)
  BY FS_Subset DEF LimitsInv, IdleConns, Taken
<1>2. /\ Cardinality(Live(conn)' \ InUse') <= Cardinality(IdleConns)
      /\ Cardinality(Live(conn)' \ InUse') \in Nat /\ Cardinality(IdleConns) \in Nat
  BY <1>1, FS_Subset, FS_CardinalityType
<1>3. MaxConnects \in Nat
  BY PoolAssumption
<1>4. Aborting = {} /\ MaxConnects > 0 => Cardinality(IdleConns) <= MaxConnects
  BY DEF LimitsInv, IdleBound, IdleWithinMaxConnects, IdleConns
<1> QED
  BY <1>2, <1>3, <1>4 DEF IdleBound, IdleWithinMaxConnects

\* multi_done: the connection that falls idle, if the pool is full, is evicted or
\* takes the place of one that is.
LEMMA DonePoolsBound ==
  ASSUME IInv, CInv, LimitsInv, NEW x \in Easy, xconn[x] # NoConn,
         NEW cn \in Smaller(conn), Live(cn) = Live(conn), NEW premature, MultiDone(x, cn, premature)
  PROVE  conn' \in Smaller(conn) /\ IdleBound'
<1> DEFINE c == xconn[x]
           U == InUseBy(Easy \ {x})
           keep == IF MaxConnects = 0 THEN 4 * alive ELSE MaxConnects
<1>1. /\ conn \in Pools /\ cn \in Pools /\ c \in Live(cn) /\ Smaller(cn) \subseteq Smaller(conn)
      /\ cn \in Smaller(cn)
  BY Marks, HeldConn, SmallerTwice DEF Live, Smaller
<1>2. InUse' = U /\ InUse = U \cup {c}
  <2>1. xconn'[x] = NoConn /\ \A y \in Easy \ {x} : xconn'[y] = xconn[y]
    BY DEF MultiDone, Detached, IInv, TypeOK
  <2>2. \A d \in Conns : Users(d)' = Users(d) \ {x}
    BY <2>1, MultiAssumption DEF Users
  <2>3. c \in Conns
    BY HeldConn
  <2> QED
    BY <2>2, <2>3 DEF InUse, InUseBy, Users
<1>3. PICK q \in DonePools(x, cn, premature) : conn' = q
  BY DEF MultiDone, Pool
<1>4. IdleConns = Live(cn) \ (U \cup {c})
  BY <1>2 DEF IdleConns
<1> HIDE DEF U
<1>5. CASE c \in U /\ q = cn
  <2>1. Live(conn') \ InUse' \subseteq IdleConns
    BY <1>2, <1>3, <1>4, <1>5
  <2> QED
    BY <1>3, <1>5, <2>1, SameIdle DEF Live
<1>6. CASE q \in Disconnect(cn, c, premature)
  <2>1. q \in Smaller(cn) /\ c \notin Live(q)
    BY <1>1, <1>6, DisconnectSmaller
  <2>2. Live(conn') \ InUse' \subseteq IdleConns
    BY <1>2, <1>3, <1>4, <2>1 DEF Smaller
  <2> QED
    BY <1>1, <1>3, <2>1, <2>2, SameIdle DEF Live
<1>7. CASE c \notin U /\ ~cn[c].close /\ q \in NowIdle(cn, U, keep)
  <2>1. c \in OldestIdle(cn, U)
    BY <1>1, <1>7 DEF OldestIdle
  <2>2. CASE Cardinality(Live(cn)) > keep
    <3>1. PICK o \in OldestIdle(cn, U) : q \in Disconnect(cn, o, FALSE)
      BY <1>7, <2>1, <2>2 DEF NowIdle
    <3>2. q \in Smaller(cn) /\ o \notin Live(q) /\ o \in Live(cn) \ U
      BY <1>1, <3>1, DisconnectSmaller DEF OldestIdle
    <3>3. Live(conn') \ InUse' \subseteq (IdleConns \cup {c}) \ {o} /\ o \in IdleConns \cup {c} /\ c \notin IdleConns
      BY <1>2, <1>3, <1>4, <3>2 DEF Smaller
    <3>4. IsFiniteSet(IdleConns) /\ IsFiniteSet(IdleConns \cup {c}) /\ IsFiniteSet((IdleConns \cup {c}) \ {o})
      <4>1. IsFiniteSet(IdleConns)
        BY FS_Subset DEF LimitsInv, IdleConns, Taken
      <4> QED
        BY <4>1, FS_AddElement, FS_RemoveElement
    <3>5. Cardinality((IdleConns \cup {c}) \ {o}) = Cardinality(IdleConns)
      <4>1. Cardinality(IdleConns \cup {c}) = Cardinality(IdleConns) + 1 /\ Cardinality(IdleConns) \in Nat
        BY <3>3, <3>4, FS_AddElement, FS_CardinalityType
      <4>2. Cardinality((IdleConns \cup {c}) \ {o}) = Cardinality(IdleConns \cup {c}) - 1
        BY <3>3, <3>4, FS_RemoveElement
      <4> QED
        BY <4>1, <4>2
    <3>6. Cardinality(Live(conn') \ InUse') <= Cardinality(IdleConns)
      BY <3>3, <3>4, <3>5, FS_Subset
    <3>7. Aborting = {} /\ MaxConnects > 0 => Cardinality(IdleConns) <= MaxConnects
      BY DEF LimitsInv, IdleBound, IdleWithinMaxConnects, IdleConns
    <3>8. Cardinality(Live(conn') \ InUse') \in Nat /\ Cardinality(IdleConns) \in Nat /\ MaxConnects \in Nat
      BY <3>3, <3>4, FS_Subset, FS_CardinalityType, PoolAssumption
    <3>9. Aborting = {} /\ MaxConnects > 0 => Cardinality(Live(conn') \ InUse') <= MaxConnects
      BY <3>6, <3>7, <3>8
    <3> QED
      BY <1>1, <1>3, <3>2, <3>9 DEF IdleBound, IdleWithinMaxConnects, Live
  <2>3. CASE ~(Cardinality(Live(cn)) > keep)
    <3>1. q = cn
      BY <1>7, <2>3 DEF NowIdle
    <3>2. IsFiniteSet(Live(cn))
      BY FS_Subset DEF LimitsInv, Taken
    <3>3. Cardinality(Live(conn') \ InUse') <= Cardinality(Live(cn))
      BY <1>3, <3>1, <3>2, FS_Subset
    <3>4. /\ Cardinality(Live(conn') \ InUse') \in Nat /\ Cardinality(Live(cn)) \in Nat
          /\ MaxConnects \in Nat
      BY <1>3, <3>1, <3>2, FS_Subset, FS_CardinalityType, PoolAssumption
    <3>5. MaxConnects > 0 => Cardinality(Live(conn') \ InUse') <= MaxConnects
      BY <2>3, <3>3, <3>4
    <3> QED
      BY <1>3, <3>1, <3>5 DEF IdleBound, IdleWithinMaxConnects, Live
  <2> QED
    BY <2>2, <2>3
<1> QED
  BY <1>3, <1>5, <1>6, <1>7 DEF DonePools, U
-----------------------------------------------------------------------------
(* The steps *)

Lessens == conn' \in Smaller(conn) /\ IdleBound'

LEMMA LessensInv ==
  ASSUME IInv, LimitsInv, Lessens
  PROVE  LimitsInv'
BY SmallerHeld DEF Lessens, LimitsInv

\* Connections in use stay in use: what is idle is no more than before.
LEMMA UsersStay ==
  ASSUME IInv, LimitsInv, conn' \in Smaller(conn), InUse \subseteq InUse'
  PROVE  Lessens
<1>1. Live(conn)' \ InUse' \subseteq IdleConns
  BY DEF Smaller, IdleConns, Live
<1> QED
  BY <1>1, SameIdle DEF Lessens

LEMMA MarkedSmaller ==
  ASSUME IInv, NEW x
  PROVE  \A cn \in {conn, CloseStream(x), ConnClose(conn, xconn[x])} : cn \in Smaller(conn) /\ Live(cn) = Live(conn)
<1>1. conn \in Pools /\ ConnClose(conn, xconn[x]) \in Pools /\ CloseStream(x) \in Pools
  BY Marks, CloseType DEF CloseStream
<1>2. \A c \in Conns : /\ ConnClose(conn, xconn[x])[c].st = conn[c].st
                       /\ ConnClose(conn, xconn[x])[c].host = conn[c].host
  BY <1>1 DEF ConnClose, Pools, Connection
<1>3. CloseStream(x) = conn \/ CloseStream(x) = ConnClose(conn, xconn[x])
  BY DEF CloseStream, StreamClose
<1> QED
  BY <1>1, <1>2, <1>3, MarksSmaller

\* The pools an attempt to connect may leave behind.
LEMMA StartingSmaller ==
  ASSUME IInv, NEW x \in Easy
  PROVE  /\ PruneDead(conn, InUse) \subseteq Smaller(conn)
         /\ Unmatched(x) \subseteq Smaller(conn) /\ Roomy(x) \subseteq Smaller(conn)
<1>1. conn \in Pools
  BY Marks
<1>2. PruneDead(conn, InUse) \subseteq Smaller(conn)
  BY <1>1, PruneDeadSmaller
<1>3. \A cn \in Smaller(conn) : CheckLimits(cn, InUse, HostOf[x]) \subseteq Smaller(conn)
  BY <1>1, CheckLimitsSmaller, SmallerTwice
<1> QED
  BY <1>2, <1>3 DEF Unmatched, Roomy

\* All steps of a transfer but one lessen the pool, or abort in DONE.
LEMMA StepLessens ==
  ASSUME IInv, CInv, LimitsInv, NEW x \in Easy, Handle(x)
  PROVE  Lessens \/ AbortInDone(x) \/ OpenConn(x)
<1>1. \A cn \in {conn, CloseStream(x), ConnClose(conn, xconn[x])} : cn \in Smaller(conn) /\ Live(cn) = Live(conn)
  BY MarkedSmaller
<1>2. \A cn \in Smaller(conn) : conn' = cn /\ UNCHANGED xconn => Lessens
  BY UsersStay DEF InUse, Users
<1>3. UNCHANGED pool => Lessens
  BY <1>1, <1>2 DEF pool
<1>4. ASSUME NEW cn \in {conn, CloseStream(x), ConnClose(conn, xconn[x])}, NEW premature,
             MultiDone(x, cn, premature), xconn[x] # NoConn
      PROVE  Lessens
  BY <1>1, <1>4, DonePoolsBound DEF Lessens
<1>5. ASSUME NEW cn \in {conn, CloseStream(x), ConnClose(conn, xconn[x])}, NEW premature,
             FailDone(x, cn, premature) \/ Again(x, cn), xconn[x] # NoConn
      PROVE  Lessens
  BY <1>4, <1>5 DEF FailDone, Again
<1>6. CASE \/ Recheck(x) \/ Parked(x) \/ InitFails(x) \/ Resolving(x)
           \/ AwaitConnect(x) \/ IsUp(x) \/ ProtoConnect(x) \/ ProtoConnecting(x)
           \/ Do(x) \/ Doing(x) \/ DoingMore(x) \/ Did(x) \/ Transfers(x)
           \/ Unlimited(x) \/ Failed(x) \/ Complete(x) \/ Loop(x)
  <2>1. UNCHANGED <<conn, xconn>>
    BY <1>6 DEF Recheck, Parked, InitFails, Resolving, AwaitConnect, IsUp,
       ProtoConnect, ProtoConnecting, Do, Doing, DoingMore, Did, Transfers,
       Unlimited, Failed, Complete, Loop, Stay, Advance, pool
  <2> QED
    BY <1>1, <1>2, <2>1
<1>7. CASE \/ ConnectionFails(x) \/ ProtocolFails(x) \/ DoRetries(x) \/ DoFails(x)
           \/ Redirected(x) \/ FollowFails(x) \/ TransferFails(x)
  <2>1. \E cn \in {conn, CloseStream(x), ConnClose(conn, xconn[x])} :
          Again(x, cn) \/ \E premature : FailDone(x, cn, premature)
    BY <1>7 DEF ConnectionFails, ProtocolFails, DoRetries, DoFails,
       Redirected, FollowFails, TransferFails
  <2>2. xconn[x] # NoConn
    <3>1. Holding(x) /\ phase = "top"
          /\ mstate[x] \in {"CONNECTING", "PROTOCONNECT", "PROTOCONNECTING", "DO", "DOING", "DOING_MORE", "PERFORMING",
                           "RATELIMITING"}
      BY <1>7, HandleIsCur, Holds DEF ConnectionFails, ProtocolFails, DoRetries, DoFails,
         Redirected, FollowFails, TransferFails, Run, AtTop
    <3> QED
      BY <3>1 DEF Holding, Attached, Connecting, Using
  <2> QED
    BY <1>5, <2>1, <2>2
<1>8. CASE WaitForConn(x) \/ ConnectFails(x)
  <2>1. UNCHANGED xconn /\ \E cn \in Smaller(conn) : conn' = cn
    BY <1>8, StartingSmaller DEF WaitForConn, ConnectFails, Pool
  <2> QED
    BY <1>2, <2>1
<1>9. ASSUME HandleTimeout(x)
      PROVE  Lessens
  <2>1. CASE xconn[x] = NoConn
    BY <1>3, <1>9, <2>1 DEF HandleTimeout
  <2>2. CASE xconn[x] # NoConn
    <3>1. \E cn \in {conn, CloseStream(x), ConnClose(conn, xconn[x])} : MultiDone(x, cn, TRUE)
      BY <1>9, <2>2 DEF HandleTimeout
    <3> QED
      BY <1>4, <2>2, <3>1
  <2> QED
    BY <2>1, <2>2
<1>10. CASE TopTimeout(x) \/ LateTimeout(x)
  BY <1>9, <1>10 DEF TopTimeout, LateTimeout
<1>11. CASE Done(x)
  <2>1. CASE xconn[x] = NoConn
    BY <1>3, <1>11, <2>1 DEF Done
  <2>2. CASE xconn[x] # NoConn
    BY <1>4, <1>11, <2>2 DEF Done
  <2> QED
    BY <2>1, <2>2
<1>12. CASE Received(x)
  BY <1>1, <1>2, <1>12 DEF Received, Pool
<1>13. CASE AbortToDone(x)
  BY <1>1, <1>2, <1>13 DEF AbortToDone, MayAbort, Pool
<1>14. CASE ReuseConn(x)
  <2>0. PICK cn \in Smaller(conn) :
          \E c \in IdleMatches(cn, x) \cup SharedMatches(cn, x) :
            /\ conn' = [cn EXCEPT ![c] = [cn[c] EXCEPT !.reused = TRUE]]
            /\ xconn' = [xconn EXCEPT ![x] = c]
    BY <1>14, StartingSmaller DEF ReuseConn, Pool, Attach
  <2>1. PICK c \in IdleMatches(cn, x) \cup SharedMatches(cn, x) :
          /\ conn' = [cn EXCEPT ![c] = [cn[c] EXCEPT !.reused = TRUE]]
          /\ xconn' = [xconn EXCEPT ![x] = c]
    BY <2>0
  <2>2. conn \in Pools /\ cn \in Pools /\ Smaller(cn) \subseteq Smaller(conn)
    BY Marks, SmallerTwice
  <2>3. /\ conn' \in Pools
        /\ \A d \in Conns : conn'[d].st = cn[d].st /\ conn'[d].host = cn[d].host
    <3>1. \A d \in Conns : cn[d] \in Connection
      BY <2>2 DEF Pools
    <3>2. \A d \in Conns : LET r == [cn[d] EXCEPT !.reused = TRUE]
                          IN  r \in Connection /\ r.st = cn[d].st /\ r.host = cn[d].host
      BY <3>1 DEF Connection
    <3> QED
      BY <2>1, <2>2, <3>1, <3>2 DEF Pools
  <2>4. conn' \in Smaller(conn)
    BY <2>2, <2>3, MarksSmaller
  <2>5. xconn[x] = NoConn
    <3>1. Holding(x) /\ phase = "top" /\ mstate[x] \in {"INIT", "SETUP", "CONNECT"}
      BY <1>14, HandleIsCur, Holds DEF ReuseConn, Connects, Starting, Run, AtTop
    <3> QED
      BY <3>1 DEF Holding, Attached, Connecting, Using
  <2>6. InUse \subseteq InUse'
    BY <2>1, <2>5, MultiAssumption DEF InUse, Users, IInv, TypeOK
  <2> QED
    BY <2>4, <2>6, UsersStay
<1>15. CASE ComesUp(x)
  <2>1. UNCHANGED xconn /\ conn \in Pools
    BY <1>15, Marks DEF ComesUp
  <2>2. /\ conn' \in Pools
        /\ \A d \in Conns : conn'[d].st = conn[d].st /\ conn'[d].host = conn[d].host
    <3>1. xconn[x] \in Conns => conn[xconn[x]] \in Connection
      BY <2>1 DEF Pools
    <3>2. CASE conn' = [conn EXCEPT ![xconn[x]] = [conn[xconn[x]] EXCEPT !.up = TRUE]]
      BY <2>1, <3>1, <3>2 DEF Pools, Connection
    <3>3. CASE conn' = [conn EXCEPT ![xconn[x]] = [conn[xconn[x]] EXCEPT !.up = TRUE, !.mux = TRUE]]
      BY <2>1, <3>1, <3>3 DEF Pools, Connection
    <3> QED
      BY <1>15, <3>2, <3>3 DEF ComesUp
  <2> QED
    BY <1>2, <2>1, <2>2, MarksSmaller
<1>16. CASE ResolveFails(x)
  <2>1. conn' = Terminate(conn, xconn[x]) /\ xconn' = Detached(x)
    BY <1>16 DEF ResolveFails, Pool
  <2>2. conn' \in Smaller(conn) /\ xconn[x] \notin Live(conn')
    BY <2>1, Marks, TerminateSmaller
  <2>3. InUse \ {xconn[x]} \subseteq InUse'
    <3>1. \A y \in Easy \ {x} : xconn'[y] = xconn[y]
      BY <2>1 DEF Detached, IInv, TypeOK
    <3> QED
      BY <3>1 DEF InUse, Users
  <2>4. Live(conn)' \ InUse' \subseteq IdleConns
    BY <2>2, <2>3 DEF Smaller, IdleConns, Live
  <2> QED
    BY <2>2, <2>4, SameIdle DEF Lessens
<1> QED
  BY <1>6, <1>7, <1>8, <1>10, <1>11, <1>12, <1>13, <1>14, <1>15, <1>16 DEF Handle

\* A connection is opened in a free slot, for a transfer, and below the limits.
LEMMA OpenConnLimits ==
  ASSUME IInv, CInv, LimitsInv, NEW x \in Easy, Handle(x), OpenConn(x)
  PROVE  LimitsInv'
<1> DEFINE h == HostOf[x]
<1>1. PICK cn \in Smaller(conn), c \in Conns :
        /\ cn[c].st = "closed" /\ ~LimitReached(cn, h)
        /\ conn' = [cn EXCEPT ![c] = NewConn(h)] /\ xconn' = [xconn EXCEPT ![x] = c]
  BY StartingSmaller, FirstMember DEF OpenConn, Attach
<1>2. cn \in Pools /\ conn' \in Pools
  <2>1. NewConn(h) \in Connection
    BY NewConnType, MultiAssumption
  <2> QED
    BY <1>1, <2>1 DEF Smaller, Pools
<1>3. /\ \A d \in Conns \ {c} : conn'[d] = cn[d]
      /\ conn'[c].st = "live" /\ conn'[c].host = h
  BY <1>1, <1>2 DEF NewConn, Pools
<1> HIDE DEF h
<1>4. /\ Taken(conn') = Taken(cn) \cup {c} /\ c \notin Taken(cn)
      /\ \A g : /\ TakenTo(conn', g) = IF g = h THEN TakenTo(cn, g) \cup {c} ELSE TakenTo(cn, g)
               /\ c \notin TakenTo(cn, g)
  <2>1. /\ Live(conn') = Live(cn) \cup {c} /\ Shut(conn') = Shut(cn)
        /\ c \notin Live(cn) /\ c \notin Shut(cn)
    BY <1>1, <1>3 DEF Live, Shut
  <2>2. \A g : /\ LiveTo(conn', g) = IF g = h THEN LiveTo(cn, g) \cup {c} ELSE LiveTo(cn, g)
               /\ ShutTo(conn', g) = ShutTo(cn, g)
    BY <1>3, <2>1 DEF LiveTo, ShutTo, Live, Shut
  <2> QED
    BY <2>1, <2>2 DEF Taken, TakenTo, LiveTo, ShutTo
<1>5. Within(cn)
  BY <1>1, SmallerWithin
<1>6. /\ IsFiniteSet(Taken(cn)) /\ Cardinality(Taken(cn)) \in Nat
      /\ \A g : IsFiniteSet(TakenTo(cn, g)) /\ Cardinality(TakenTo(cn, g)) \in Nat
  BY <1>2, <1>5, TakenCounted DEF Within
<1>7. /\ IsFiniteSet(Taken(conn')) /\ Cardinality(Taken(conn')) = Cardinality(Taken(cn)) + 1
      /\ Cardinality(TakenTo(conn', h)) = Cardinality(TakenTo(cn, h)) + 1
  <2>1. TakenTo(conn', h) = TakenTo(cn, h) \cup {c} /\ c \notin TakenTo(cn, h)
    BY <1>4
  <2>2. ASSUME NEW S, IsFiniteSet(S), c \notin S
        PROVE  IsFiniteSet(S \cup {c}) /\ Cardinality(S \cup {c}) = Cardinality(S) + 1
    BY <2>2, FS_AddElement
  <2>3. IsFiniteSet(Taken(cn)) /\ IsFiniteSet(TakenTo(cn, h)) /\ c \notin Taken(cn)
    BY <1>4, <1>6
  <2>4. /\ IsFiniteSet(Taken(cn) \cup {c}) /\ Cardinality(Taken(cn) \cup {c}) = Cardinality(Taken(cn)) + 1
        /\ Cardinality(TakenTo(cn, h) \cup {c}) = Cardinality(TakenTo(cn, h)) + 1
    BY <2>1, <2>2, <2>3
  <2>5. Taken(conn') = Taken(cn) \cup {c}
    BY <1>4
  <2> QED
    BY <2>1, <2>4, <2>5
<1>8. /\ HostLimit > 0 => Cardinality(TakenTo(cn, h)) < HostLimit
      /\ TotalLimit > 0 => Cardinality(Taken(cn)) < TotalLimit
  BY <1>1, <1>2, <1>6, TakenCounted, PoolAssumption DEF LimitReached, HostFull, TotalFull
<1>9. Within(conn')
  <2>1. TotalLimit > 0 => Cardinality(Taken(conn')) <= TotalLimit
    BY <1>6, <1>7, <1>8, PoolAssumption
  <2>2. ASSUME HostLimit > 0, NEW g \in Hosts
        PROVE  Cardinality(TakenTo(conn', g)) <= HostLimit
    <3>1. CASE g = h
      BY <1>6, <1>7, <1>8, <2>2, <3>1, PoolAssumption
    <3>2. CASE g # h
      BY <1>4, <1>5, <2>2, <3>2 DEF Within
    <3> QED
      BY <3>1, <3>2
  <2> QED
    BY <1>7, <2>1, <2>2 DEF Within
<1>10. xconn[x] = NoConn
  <2>1. Holding(x) /\ phase = "top" /\ mstate[x] \in {"INIT", "SETUP", "CONNECT"}
    BY HandleIsCur, Holds DEF OpenConn, Connects, Starting, Run, AtTop
  <2> QED
    BY <2>1 DEF Holding, Attached, Connecting, Using
<1>11. InUse \cup {c} \subseteq InUse'
  BY <1>1, <1>10, MultiAssumption DEF InUse, Users, IInv, TypeOK
<1>12. Live(conn)' \ InUse' \subseteq IdleConns
  BY <1>1, <1>3, <1>11 DEF Smaller, IdleConns, Live
<1> QED
  BY <1>2, <1>9, <1>12, WithinHeldNext, SameIdle DEF LimitsInv

LEMMA HandleLimits ==
  ASSUME IInv, CInv, LimitsInv, NEW x \in Easy, Handle(x)
  PROVE  LimitsInv'
<1>1. CASE AbortInDone(x)
  <2>1. conn' = CloseStream(x) /\ x \in Aborting
    BY <1>1 DEF AbortInDone, MayAbort, Pool
  <2>2. conn' \in Smaller(conn)
    BY <2>1, MarkedSmaller
  <2> QED
    BY <2>1, <2>2, LessensInv DEF Lessens, IdleBound
<1> QED
  BY <1>1, StepLessens, LessensInv, OpenConnLimits

LEMMA OthersLimits ==
  ASSUME IInv, CInv, LimitsInv, UNCHANGED <<conn, xconn>>
  PROVE  LimitsInv'
<1>1. conn' \in Smaller(conn) /\ InUse' = InUse
  BY Marks, SmallerTwice DEF Smaller, InUse, Users
<1> QED
  BY <1>1, UsersStay, LessensInv

LEMMA NextLimits == ASSUME IInv, CInv, LimitsInv, [Next]_vars PROVE LimitsInv'
<1>1. ASSUME NEW x \in Easy, VisitPerform(x) \/ VisitDirty(x) \/ Tick(x) \/ CallEvent(x) \/ AddHandle(x)
      PROVE  LimitsInv'
  BY <1>1, OthersLimits DEF VisitPerform, VisitDirty, Tick, CallEvent, AddHandle, Rest, pool
<1>2. CASE SecondPass \/ InfoRead \/ CallPerform \/ CallTimeout \/ CallShutdownEvent
  BY <1>2, OthersLimits DEF SecondPass, InfoRead, CallPerform, CallTimeout, CallShutdownEvent, Rest, pool
<1>3. ASSUME NEW x \in Easy, RemoveHandle(x)
      PROVE  LimitsInv'
  <2>1. CASE xconn[x] = NoConn
    BY <1>3, <2>1, OthersLimits DEF RemoveHandle, pool
  <2>2. CASE xconn[x] # NoConn
    <3>1. PICK cn \in {conn, CloseStream(x), ConnClose(conn, xconn[x])}, premature \in BOOLEAN :
            MultiDone(x, cn, premature)
      BY <1>3, <2>2 DEF RemoveHandle
    <3>2. cn \in Smaller(conn) /\ Live(cn) = Live(conn)
      BY MarkedSmaller
    <3> QED
      BY <2>2, <3>1, <3>2, DonePoolsBound, LessensInv DEF Lessens
  <2> QED
    BY <2>1, <2>2
<1>4. CASE EndPerform \/ EndSocket
  <2>1. PICK S \in SUBSET Shut(conn) : EndCall(S)
    BY <1>4 DEF EndPerform, EndSocket
  <2>2. /\ conn \in Pools /\ conn' = [c \in Conns |-> IF c \in S THEN ClosedConn ELSE conn[c]]
        /\ UNCHANGED xconn
    BY <2>1, Marks DEF EndCall
  <2>3. conn' \in Smaller(conn)
    BY <2>2, ClosedConnType DEF Smaller, Taken, Live, Shut, ClosedConn, Pools
  <2> QED
    BY <2>2, <2>3, UsersStay, LessensInv DEF InUse, Users
<1>5. CASE UNCHANGED vars
  BY <1>5, OthersLimits DEF vars
<1> QED
  BY <1>1, <1>2, <1>3, <1>4, <1>5, HandleLimits DEF Next, Library, Application

LEMMA InitLimits == ASSUME Init PROVE LimitsInv
<1>1. conn \in Pools /\ Taken(conn) = {} /\ \A h : TakenTo(conn, h) = {}
  BY ClosedConnType DEF Init, Pools, Taken, TakenTo, LiveTo, ShutTo, Live, Shut, ClosedConn
<1>2. IsFiniteSet(Taken(conn)) /\ Cardinality({}) = 0
  BY <1>1, FS_EmptySet
<1>3. LimitsHeld
  BY <1>1, <1>2, WithinHeld, PoolAssumption DEF Within
<1>4. Live(conn) \ InUse = {}
  BY <1>1 DEF Taken
<1> QED
  BY <1>2, <1>3, <1>4, PoolAssumption DEF LimitsInv, IdleBound, IdleWithinMaxConnects

\* The limits the application sets on the connections to one host and on all of them
\* hold, connections in shutdown included, and unless progress callbacks abort, no more
\* connections are kept idle than CURLMOPT_MAXCONNECTS (Curl_cpool_check_limits,
\* Curl_cpool_conn_now_idle, Curl_cshutdn_add).
THEOREM LimitsRespected == Spec => [](LimitsHeld /\ (Aborting = {} => PoolWithinLimits))
<1>1. Init => IInv /\ CInv /\ LimitsInv
  BY InitInv, InitConn, InitLimits
<1>2. (IInv /\ CInv /\ LimitsInv) /\ [Next]_vars => (IInv /\ CInv /\ LimitsInv)'
  BY NextInv, NextConn, NextLimits
<1>3. LimitsInv => LimitsHeld /\ (Aborting = {} => PoolWithinLimits)
  BY DEF LimitsInv, IdleBound, PoolWithinLimits
<1> QED
  BY <1>1, <1>2, <1>3, PTL DEF Spec
-----------------------------------------------------------------------------
(* What a step of the running transfer does to the others: each that runs    *)
(* afterwards ran before, in the same state, or is marked to run.            *)

OthersMarked(x) ==
  \A y \in process' \ {x} :
    \/ y \in process /\ mstate'[y] = mstate[y] /\ (y \in dirty => y \in dirty')
    \/ y \in dirty'

LEMMA ShapeMarks ==
  ASSUME IInv, NEW x \in Easy, Shape(x)
  PROVE  OthersMarked(x)
<1>1. mstate \in [Easy -> States] /\ process \subseteq Easy /\ pending \subseteq Easy
  BY DEF IInv, TypeOK
<1>2. CASE Stands
  BY <1>2 DEF Stands, sets, OthersMarked
<1>3. CASE Wakes
  <2>1. PICK W \in SUBSET pending : Wake(W)
    BY <1>3 DEF Wakes
  <2> QED
    BY <1>1, <2>1 DEF Wake, Marked, OthersMarked
<1>4. CASE Moves(x)
  <2>1. PICK s \in Running, W \in SUBSET pending : Move(x, s, W)
    BY <1>4 DEF Moves
  <2>2. \A y \in Easy : mstate'[y] = IF y \in W THEN "CONNECT" ELSE IF y = x THEN s ELSE mstate[y]
    BY <2>1 DEF Move
  <2>3. process' = process \cup W /\ dirty' = dirty \cup W
    BY <2>1 DEF Move, Marked
  <2> QED
    BY <1>1, <2>2, <2>3 DEF OthersMarked
<1>5. CASE Parks(x)
  BY <1>1, <1>5 DEF Parks, Park, OthersMarked
<1>6. CASE Ends(x)
  <2>1. PICK W \in SUBSET pending :
          /\ mstate' = [y \in Easy |-> IF y \in W THEN "CONNECT"
                                       ELSE IF y = x THEN "COMPLETED" ELSE mstate[y]]
          /\ process' = (process \cup W) \ {x}
          /\ dirty' = dirty \cup W
    BY <1>6 DEF Ends, Marked
  <2> QED
    BY <1>1, <2>1 DEF OthersMarked
<1>7. CASE Finishes(x)
  <2>1. PICK W \in SUBSET (pending \ {x}) :
          /\ mstate' = [y \in Easy |-> IF y \in W THEN "CONNECT"
                                       ELSE IF y = x THEN "MSGSENT" ELSE mstate[y]]
          /\ process' = (process \cup W) \ {x}
          /\ dirty' = (dirty \cup W) \ {x}
    BY <1>7 DEF Finishes, Marked
  <2> QED
    BY <1>1, <2>1 DEF OthersMarked
<1> QED
  BY <1>2, <1>3, <1>4, <1>5, <1>6, <1>7 DEF Shape

-----------------------------------------------------------------------------
(* Nothing is forgotten.  Within an iteration the transfer that runs may be  *)
(* in any state; at its end it asks for another one, has failed, is over, or *)
(* waits for the network or for a connection.                                *)

Asks == again \/ result = "err"
NoneForgotten ==
  /\ \A x \in process : x # cur => mstate[x] \in Waiting \/ x \in dirty
  /\ cur # 0 /\ phase # "top" =>
       Asks \/ mstate[cur] \in Waiting \cup {"PENDING", "COMPLETED"}

\* How an iteration for x ends
IterationEnds(x) ==
  cur' = x /\ phase' # "top" =>
    Asks' \/ mstate'[x] \in Waiting \cup {"PENDING", "COMPLETED"}

\* The steps that ask for another iteration or fail say so; a step that stays
\* does so in a state that waits.
LEMMA StayWaits ==
  ASSUME NEW x, NEW s \in Waiting \cup {"PENDING"}, Run(x, s), Stay
  PROVE  IterationEnds(x)
BY DEF Run, Stay, sets, IterationEnds

LEMMA StartingEnds ==
  ASSUME NEW x, Ready(x),
         InitFails(x) \/ ReuseConn(x) \/ WaitForConn(x) \/ OpenConn(x) \/ ConnectFails(x)
  PROVE  IterationEnds(x)
<1>1. CASE InitFails(x) \/ ReuseConn(x) \/ ConnectFails(x)
  BY <1>1 DEF InitFails, ReuseConn, ConnectFails, Goes, Fails, IterationEnds, Asks
<1>2. CASE WaitForConn(x)
  <2>1. mstate'[x] = "PENDING"
    BY <1>2 DEF WaitForConn, Park, Ready
  <2> QED
    BY <2>1 DEF IterationEnds
<1>3. CASE OpenConn(x)
  <2>1. CASE Goes
    BY <2>1 DEF Goes, IterationEnds, Asks
  <2>2. CASE Move(x, "RESOLVING", First(pending))
    <3>1. mstate[x] \in {"INIT", "SETUP", "CONNECT"}
      BY <1>3 DEF OpenConn, Connects, Starting, Run
    <3>2. x \notin First(pending)
      BY <3>1 DEF Ready
    <3>3. mstate'[x] = "RESOLVING"
      BY <2>2, <3>2 DEF Move, Ready
    <3> QED
      BY <3>3 DEF IterationEnds, Waiting
  <2> QED
    BY <1>3, <2>1, <2>2 DEF OpenConn
<1> QED
  BY <1>1, <1>2, <1>3

LEMMA RunningEnds ==
  ASSUME NEW x, Ready(x),
         \/ Resolving(x) \/ ResolveFails(x) \/ AwaitConnect(x) \/ ComesUp(x)
         \/ IsUp(x) \/ ConnectionFails(x) \/ ProtoConnect(x)
         \/ ProtoConnecting(x) \/ ProtocolFails(x)
         \/ Do(x) \/ DoRetries(x) \/ DoFails(x) \/ Doing(x) \/ DoingMore(x)
         \/ Did(x) \/ Transfers(x) \/ Received(x) \/ Redirected(x)
         \/ FollowFails(x) \/ TransferFails(x) \/ Unlimited(x)
  PROVE  IterationEnds(x)
<1>1. CASE Goes \/ Fails
  BY <1>1 DEF Goes, Fails, IterationEnds, Asks
<1>2. ASSUME NEW s \in Waiting, Run(x, s), Stay PROVE IterationEnds(x)
  BY <1>2, StayWaits
<1>3. {"RESOLVING", "CONNECTING", "PROTOCONNECTING", "DOING", "DOING_MORE",
       "PERFORMING", "RATELIMITING"} \subseteq Waiting
  BY DEF Waiting
<1>4. CASE Resolving(x)
  BY <1>1, <1>2, <1>3, <1>4 DEF Resolving, Advance
<1>5. CASE AwaitConnect(x)
  BY <1>2, <1>3, <1>5 DEF AwaitConnect
<1>6. CASE ProtoConnecting(x)
  BY <1>1, <1>2, <1>3, <1>6 DEF ProtoConnecting, Advance
<1>7. CASE Doing(x) \/ DoingMore(x)
  BY <1>1, <1>2, <1>3, <1>7 DEF Doing, DoingMore, Advance
<1>8. CASE Transfers(x)
  <2>1. CASE Stay
    BY <1>2, <1>3, <1>8, <2>1 DEF Transfers
  <2>2. CASE Move(x, "RATELIMITING", {})
    <3>1. mstate'[x] = "RATELIMITING"
      BY <2>2 DEF Move, Ready
    <3> QED
      BY <1>3, <3>1 DEF IterationEnds
  <2> QED
    BY <1>8, <2>1, <2>2 DEF Transfers
<1>9. CASE Unlimited(x)
  BY <1>1, <1>2, <1>3, <1>9 DEF Unlimited, Advance
<1>10. CASE \/ ResolveFails(x) \/ ComesUp(x) \/ IsUp(x) \/ ConnectionFails(x)
            \/ ProtoConnect(x) \/ ProtocolFails(x)
  BY <1>1, <1>10 DEF ResolveFails, ComesUp, IsUp, ConnectionFails, ProtoConnect,
                     ProtocolFails, FailDone, Advance
<1>11. CASE \/ Do(x) \/ DoRetries(x) \/ DoFails(x) \/ Did(x) \/ Received(x)
            \/ Redirected(x) \/ FollowFails(x) \/ TransferFails(x)
  BY <1>1, <1>11 DEF Do, DoRetries, DoFails, Did, Received, Redirected,
                     FollowFails, TransferFails, FailDone, Advance, Again
<1> QED
  BY <1>4, <1>5, <1>6, <1>7, <1>8, <1>9, <1>10, <1>11

LEMMA LoopEnds ==
  ASSUME NEW x, Ready(x),
         \/ Recheck(x) \/ TopTimeout(x) \/ Parked(x) \/ Done(x) \/ LateTimeout(x)
         \/ Failed(x) \/ Complete(x) \/ AbortToDone(x) \/ AbortInDone(x) \/ Loop(x)
  PROVE  IterationEnds(x)
<1>1. CASE Recheck(x) \/ AbortToDone(x) \/ Loop(x)
  BY <1>1 DEF Recheck, AtTop, AbortToDone, Loop, LeaveLoop, IterationEnds, Ready
<1>2. CASE TopTimeout(x) \/ LateTimeout(x)
  BY <1>2 DEF TopTimeout, LateTimeout, HandleTimeout, IterationEnds, Asks
<1>3. CASE Parked(x)
  BY <1>3, StayWaits DEF Parked
<1>4. CASE Done(x)
  BY <1>4 DEF Done, IterationEnds, Asks
<1>5. CASE Failed(x) \/ Complete(x) \/ AbortInDone(x)
  BY <1>5 DEF Failed, Complete, AbortInDone, Finish, LeaveLoop, IterationEnds, Ready
<1> QED
  BY <1>1, <1>2, <1>3, <1>4, <1>5

\* Every iteration ends like this.
LEMMA HandleEnds ==
  ASSUME IInv, NEW x \in Easy, Handle(x)
  PROVE  IterationEnds(x)
<1>1. Ready(x)
  BY HandleIsCur, Readiness
<1> QED
  BY <1>1, StartingEnds, RunningEnds, LoopEnds DEF Handle

\* A transfer that leaves its run is over, or the loop ends without an error
LEMMA LeavesByLoop ==
  ASSUME IInv, NEW x \in Easy, Handle(x), cur' = 0, x \in process'
  PROVE  /\ Loop(x) /\ Stands /\ phase # "top" /\ ~again /\ result # "err"
         /\ mstate[x] \in Running /\ mstate'[x] = mstate[x]
<1>1. cur = x /\ Ready(x) /\ Shape(x)
  BY HandleIsCur, Readiness, HandleShape
<1>2. ~Finishes(x)
  BY DEF Finishes
<1>3. Stands
  BY <1>1, <1>2 DEF Shape, Ready
<1>4. Loop(x)
  <2>1. ~(Failed(x) \/ Complete(x) \/ AbortInDone(x))
    BY DEF Failed, Complete, AbortInDone, Finish
  <2>2. cur' # cur
    BY <1>1 DEF Ready
  <2> QED
    BY <2>1, <2>2
    DEF Handle, Recheck, TopTimeout, Parked, InitFails, ReuseConn, WaitForConn,
        OpenConn, ConnectFails, Connects, Starting, Resolving, ResolveFails,
        AwaitConnect, ComesUp, IsUp, ConnectionFails, ProtoConnect, ProtoConnecting,
        ProtocolFails, Do, DoRetries, DoFails, Doing, DoingMore, Did, Transfers,
        Received, Redirected, FollowFails, TransferFails, Unlimited, Done,
        LateTimeout, AbortToDone, Run, AtTop
<1>5. /\ phase # "top" /\ ~again /\ mstate[x] # "COMPLETED"
      /\ ~(result = "err" /\ mstate[x] \notin Completed)
  BY <1>1, <1>4 DEF Loop, AtEnd, Ready
<1>6. result # "err"
  BY <1>1, <1>5 DEF Ready, Completed
<1>7. mstate'[x] = mstate[x] /\ x \in process
  BY <1>3 DEF Stands, sets
<1> QED
  BY <1>1, <1>3, <1>4, <1>5, <1>6, <1>7 DEF Ready

LEMMA NotOver == Running \cap {"PENDING", "COMPLETED", "MSGSENT"} = {}
BY DEF Running, Completed

\* in a state that waits.
LEMMA LeavesWaiting ==
  ASSUME IInv, NoneForgotten, NEW x \in Easy, Handle(x), cur' = 0, x \in process'
  PROVE  mstate'[x] \in Waiting
<1>1. cur = x /\ x # 0
  BY HandleIsCur, Readiness DEF Ready
<1>2. /\ phase # "top" /\ ~again /\ result # "err"
      /\ mstate[x] \in Running /\ mstate'[x] = mstate[x]
  BY LeavesByLoop
<1>3. mstate[x] \in Waiting \cup {"PENDING", "COMPLETED"}
  BY <1>1, <1>2 DEF NoneForgotten, Asks
<1> QED
  BY <1>2, <1>3, NotOver

\* A step of a transfer forgets nothing,
LEMMA HandleForgets ==
  ASSUME IInv, NoneForgotten, NEW x \in Easy, Handle(x)
  PROVE  NoneForgotten'
<1>1. cur = x /\ x # 0 /\ Shape(x) /\ OthersMarked(x) /\ IterationEnds(x)
  BY HandleIsCur, Readiness, HandleShape, ShapeMarks, HandleEnds DEF Ready
<1>2. \A y \in process' \ {x} : mstate'[y] \in Waiting \/ y \in dirty'
  BY <1>1 DEF OthersMarked, NoneForgotten
<1>3. cur' \in {x, 0}
  BY <1>1 DEF Shape
<1>4. CASE cur' = x
  BY <1>1, <1>2, <1>4 DEF NoneForgotten, IterationEnds
<1>5. CASE cur' = 0
  BY <1>2, <1>5, LeavesWaiting DEF NoneForgotten
<1> QED
  BY <1>3, <1>4, <1>5

\* nor does any other step.
LEMMA NextForgets ==
  ASSUME IInv, NoneForgotten, [Next]_vars
  PROVE  NoneForgotten'
<1>1. mstate \in [Easy -> States] /\ process \subseteq Easy /\ pending \subseteq Easy
  BY DEF IInv, TypeOK
<1>2. call = "app" => cur = 0
  BY DEF IInv, Control
<1>3. ASSUME cur = 0, cur' = 0, NEW W \in SUBSET pending,
             \A y \in Easy \ W : mstate'[y] = mstate[y],
             process' \subseteq process \cup W, (dirty \cap process') \cup (W \cap process') \subseteq dirty'
      PROVE  NoneForgotten'
  BY <1>1, <1>3 DEF NoneForgotten
<1>4. ASSUME cur = 0, cur' = 0, UNCHANGED <<mstate, process>>, dirty \subseteq dirty'
      PROVE  NoneForgotten'
  BY <1>4 DEF NoneForgotten
<1>5. ASSUME NEW x \in Easy, AddHandle(x) PROVE NoneForgotten'
  BY <1>1, <1>2, <1>5 DEF AddHandle, NoneForgotten
<1>6. ASSUME NEW x \in Easy, RemoveHandle(x) PROVE NoneForgotten'
  <2> DEFINE w1 == WokenByDone(x)
             W == w1 \cup First(pending \ (w1 \cup {x}))
  <2>1. W \in SUBSET pending
    BY FirstMember DEF WokenByDone
  <2>2. /\ mstate' = [y \in Easy |-> IF y = x THEN "COMPLETED"
                                     ELSE IF y \in W THEN "CONNECT" ELSE mstate[y]]
        /\ process' = (process \cup W) \ {x} /\ dirty' = (dirty \cup W) \ {x}
        /\ call = "app" /\ cur' = cur
    BY <1>6 DEF RemoveHandle, Marked
  <2> HIDE DEF W
  <2> QED
    BY <1>1, <1>2, <2>1, <2>2 DEF NoneForgotten
<1>7. ASSUME NEW x \in Easy, Tick(x) \/ CallEvent(x) PROVE NoneForgotten'
  BY <1>2, <1>4, <1>7 DEF Tick, CallEvent, MarkExpired, Rest, sets
<1>8. CASE InfoRead \/ CallPerform \/ CallTimeout \/ CallShutdownEvent \/ SecondPass
  BY <1>2, <1>4, <1>8
  DEF InfoRead, CallPerform, CallTimeout, CallShutdownEvent, SecondPass, MarkExpired,
      Rest, sets
<1>9. CASE EndPerform \/ EndSocket
  <2>1. PICK W \in SUBSET pending : Wake(W) /\ cur = 0 /\ cur' = 0
    BY <1>9, FirstMember DEF EndPerform, EndSocket, EndCall, WokenBy, Expired
  <2>2. /\ \A y \in Easy \ W : mstate'[y] = mstate[y]
        /\ process' = process \cup W /\ dirty' = dirty \cup W
    BY <2>1 DEF Wake, Marked
  <2> QED
    BY <1>3, <2>1, <2>2
<1>10. ASSUME NEW x \in Easy, VisitPerform(x) \/ VisitDirty(x) PROVE NoneForgotten'
  <2>1. cur = 0 /\ UNCHANGED <<mstate, process>> /\ dirty' = dirty \ {x}
    BY <1>10 DEF VisitPerform, VisitDirty, Enter
  <2>2. \/ cur' = x /\ phase' = "top"
        \/ cur' = 0 /\ x \notin process
    BY <1>10, <2>1 DEF VisitPerform, VisitDirty, Enter
  <2>3. process \subseteq Easy /\ \A y \in Easy : y # 0
    BY Numbers DEF IInv, TypeOK
  <2>4. \A y \in process : mstate[y] \in Waiting \/ y \in dirty
    BY <2>1, <2>3 DEF NoneForgotten
  <2>5. \A y \in process' : y # cur' => mstate'[y] \in Waiting \/ y \in dirty'
    BY <2>1, <2>2, <2>4
  <2> QED
    BY <2>2, <2>5 DEF NoneForgotten
<1>11. ASSUME NEW x \in Easy, Handle(x) PROVE NoneForgotten'
  BY <1>11, HandleForgets
<1>12. CASE UNCHANGED vars
  <2>1. UNCHANGED <<mstate, process, dirty, cur, phase, result, again>>
    BY <1>12 DEF vars
  <2> QED
    BY <2>1 DEF NoneForgotten, Asks
<1> QED
  BY <1>5, <1>6, <1>7, <1>8, <1>9, <1>10, <1>11, <1>12 DEF Next, Library, Application

\* Between calls of the application, however it drives the multi, a transfer in
\* multi->process waits for the network or is marked dirty: no path that wakes
\* one, moves it on or leaves its loop early forgets it.
THEOREM EveryoneIsServed == Spec => []NothingForgotten
<1>1. Init => NoneForgotten
  BY DEF Init, NoneForgotten
<1>2. (IInv /\ NoneForgotten) /\ [Next]_vars => (IInv /\ NoneForgotten)'
  BY NextInv, NextForgets
<1>3. IInv /\ NoneForgotten => NothingForgotten
  <2>1. ASSUME IInv, NoneForgotten, call = "app" PROVE \A x \in process : x # cur
    BY <2>1, Numbers DEF IInv, Control, TypeOK
  <2> QED
    BY <2>1 DEF NoneForgotten, NothingForgotten
<1> QED
  BY <1>1, <1>2, <1>3, InitInv, PTL DEF Spec
-----------------------------------------------------------------------------
(* No timeout is lost, event based.  One leaves the tree only with its        *)
(* transfer marked to run; and a transfer whose timeout has left the tree does*)
(* not get through an iteration: it is armed anew, fails or is parked.        *)

TimersSeen ==
  /\ call # "perform"
  /\ \A x \in Easy : timer[x] # "none" => x \in Timed
  /\ \A x \in process : x # cur /\ timer[x] = "popped" => x \in dirty
  /\ cur # 0 /\ phase # "top" /\ timer[cur] = "popped"
       => result = "err" \/ mstate[cur] \in {"PENDING", "COMPLETED"}

\* How an iteration for x ends
TimerSeen(x) ==
  cur' = x /\ phase' # "top" /\ timer'[x] = "popped" =>
    result' = "err" \/ mstate'[x] \in {"PENDING", "COMPLETED"}

\* Reading the clock takes no timeout out of the tree, and SETUP puts one back.
LEMMA LaterKeeps ==
  ASSUME NEW t, NEW u \in Later(t), NEW y \in Easy, u[y] = "popped"
  PROVE  t[y] = "popped"
BY DEF Later

LEMMA RearmedNotPopped ==
  ASSUME timer \in Clocks, NEW x \in Easy, timer[x] # "none" => x \in Timed,
         NEW u \in Later(Rearmed(x))
  PROVE  u[x] # "popped" /\ \A y \in Easy \ {x} : u[y] = "popped" => timer[y] = "popped"
<1>1. \A y \in Easy : u[y] = "popped" => Rearmed(x)[y] = "popped"
  BY LaterKeeps
<1>2. CASE x \in Timed
  BY <1>1, <1>2 DEF Rearmed, Clocks
<1>3. CASE x \notin Timed
  BY <1>1, <1>3 DEF Rearmed
<1> QED
  BY <1>2, <1>3

\* A state that multi_handle_timeout looks at is not entered with a timeout
\* that has popped.
LEMMA NotTimedOut ==
  ASSUME timer \in Clocks, NEW x \in Easy,
         NEW s \in Connecting \cup {"DO"} \cup Using, Run(x, s),
         \/ UNCHANGED timer \/ timer' = [timer EXCEPT ![x] = "none"]
         \/ timer' \in Later(timer)
  PROVE  TimerSeen(x)
<1>1. timer[x] # "popped"
  BY DEF Run, TimedOut
<1>2. timer'[x] # "popped"
  BY <1>1, LaterKeeps DEF Clocks
<1> QED
  BY <1>2 DEF TimerSeen

LEMMA StartingSeen ==
  ASSUME timer \in Clocks, NEW x \in Easy, timer[x] # "none" => x \in Timed,
         InitFails(x) \/ ReuseConn(x) \/ WaitForConn(x) \/ OpenConn(x) \/ ConnectFails(x)
  PROVE  TimerSeen(x)
<1>1. CASE InitFails(x)
  BY <1>1 DEF InitFails, Fails, TimerSeen
<1>2. ASSUME Connects(x), GotConn(x) \/ NoConnYet(x) PROVE TimerSeen(x)
  <2>1. CASE mstate[x] = "CONNECT"
    <3>1. Run(x, "CONNECT")
      BY <1>2, <2>1 DEF Connects, Starting, Run
    <3>2. UNCHANGED timer \/ timer' \in Later(timer)
      BY <1>2, <2>1 DEF GotConn, NoConnYet
    <3> QED
      BY <3>1, <3>2, NotTimedOut DEF Connecting
  <2>2. CASE mstate[x] # "CONNECT"
    <3>1. timer' \in Later(Rearmed(x))
      BY <1>2, <2>2 DEF Connects
    <3> QED
      BY <3>1, RearmedNotPopped DEF TimerSeen
  <2> QED
    BY <2>1, <2>2
<1> QED
  BY <1>1, <1>2 DEF ReuseConn, WaitForConn, OpenConn, ConnectFails

LEMMA RunningSeen ==
  ASSUME timer \in Clocks, NEW x \in Easy,
         \/ Resolving(x) \/ ResolveFails(x) \/ AwaitConnect(x) \/ ComesUp(x)
         \/ IsUp(x) \/ ConnectionFails(x) \/ ProtoConnect(x)
         \/ ProtoConnecting(x) \/ ProtocolFails(x)
         \/ Do(x) \/ DoRetries(x) \/ DoFails(x) \/ Doing(x) \/ DoingMore(x)
         \/ Did(x) \/ Transfers(x) \/ Received(x) \/ Redirected(x)
         \/ FollowFails(x) \/ TransferFails(x) \/ Unlimited(x) \/ Done(x)
  PROVE  TimerSeen(x)
<1>1. \/ UNCHANGED timer \/ timer' = [timer EXCEPT ![x] = "none"]
  BY DEF Resolving, ResolveFails, AwaitConnect, ComesUp, IsUp, ConnectionFails,
         ProtoConnect, ProtoConnecting, ProtocolFails, Do, DoRetries, DoFails,
         Doing, DoingMore, Did, Transfers, Received, Redirected, Again,
         FollowFails, TransferFails, Unlimited, Done, SameTransfer
<1>2. \E s \in {"RESOLVING", "CONNECTING", "PROTOCONNECT", "PROTOCONNECTING", "DO",
                "DOING", "DOING_MORE", "DID", "PERFORMING", "RATELIMITING", "DONE"} :
        Run(x, s)
  BY DEF Resolving, ResolveFails, AwaitConnect, ComesUp, IsUp, ConnectionFails,
         ProtoConnect, ProtoConnecting, ProtocolFails, Do, DoRetries, DoFails,
         Doing, DoingMore, Did, Transfers, Received, Redirected,
         FollowFails, TransferFails, Unlimited, Done
<1>3. {"RESOLVING", "CONNECTING", "PROTOCONNECT", "PROTOCONNECTING", "DO",
       "DOING", "DOING_MORE", "DID", "PERFORMING", "RATELIMITING", "DONE"}
        \subseteq Connecting \cup {"DO"} \cup Using
  BY DEF Connecting, Using
<1> QED
  BY <1>1, <1>2, <1>3, NotTimedOut

LEMMA HandleSeen ==
  ASSUME IInv, NEW x \in Easy, timer[x] # "none" => x \in Timed, Handle(x)
  PROVE  TimerSeen(x)
<1>1. timer \in Clocks /\ Ready(x)
  BY HandleIsCur, Readiness DEF IInv, TypeOK, Clocks
<1>2. CASE Recheck(x) \/ AbortToDone(x) \/ Loop(x)
  BY <1>1, <1>2 DEF Recheck, AtTop, AbortToDone, Loop, LeaveLoop, TimerSeen, Ready
<1>3. CASE TopTimeout(x) \/ LateTimeout(x)
  BY <1>3 DEF TopTimeout, LateTimeout, HandleTimeout, TimerSeen
<1>4. CASE Parked(x)
  BY <1>4 DEF Parked, Run, Stay, sets, TimerSeen
<1>5. CASE Failed(x) \/ Complete(x) \/ AbortInDone(x)
  BY <1>1, <1>5 DEF Failed, Complete, AbortInDone, Finish, LeaveLoop, TimerSeen, Ready
<1> QED
  BY <1>1, <1>2, <1>3, <1>4, <1>5, StartingSeen, RunningSeen DEF Handle

\* The timers of a step of a transfer,
LEMMA HandleLosesNone ==
  ASSUME IInv, TimersSeen, NEW x \in Easy, Handle(x)
  PROVE  TimersSeen'
<1>1. /\ timer \in Clocks /\ cur = x /\ x # 0 /\ UNCHANGED call
      /\ \A y \in Easy : timer[y] # "none" => y \in Timed
  BY HandleIsCur, Readiness DEF IInv, TypeOK, Clocks, Ready, call_, TimersSeen
<1>2. /\ Shape(x) /\ OthersMarked(x) /\ TimerSeen(x) /\ cur' \in {x, 0}
  BY <1>1, HandleShape, ShapeMarks, HandleSeen DEF Shape
<1>3. \/ UNCHANGED timer \/ timer' = [timer EXCEPT ![x] = "none"]
      \/ timer' \in Later(timer) \cup Later(Rearmed(x))
  BY HandleClock
<1>4. \A y \in Easy : timer'[y] # "none" => y \in Timed
  BY <1>1, <1>3 DEF Later, Rearmed, Clocks
<1>5. \A y \in Easy \ {x} : timer'[y] = "popped" => timer[y] = "popped"
  BY <1>1, <1>3, LaterKeeps, RearmedNotPopped DEF Clocks
<1>6. process' \subseteq Easy
  BY HandleInv DEF IInv, TypeOK
<1>7. \A y \in process' : y # x /\ timer'[y] = "popped" => y \in dirty'
  BY <1>1, <1>2, <1>5, <1>6 DEF OthersMarked, TimersSeen
<1>8. CASE cur' = x
  BY <1>1, <1>2, <1>4, <1>7, <1>8 DEF TimersSeen, TimerSeen
<1>9. CASE cur' = 0
  <2>1. x \in process' => timer'[x] # "popped"
    <3>1. SUFFICES ASSUME x \in process' PROVE timer'[x] # "popped"
      OBVIOUS
    <3>2. Loop(x) /\ phase # "top" /\ result # "err" /\ mstate[x] \in Running
      BY <1>9, <3>1, LeavesByLoop
    <3>3. timer'[x] = timer[x]
      BY <3>2 DEF Loop
    <3> QED
      BY <1>1, <3>2, <3>3, NotOver DEF TimersSeen
  <2> QED
    BY <1>1, <1>4, <1>7, <1>9, <2>1 DEF TimersSeen
<1> QED
  BY <1>2, <1>8, <1>9

\* and of every other step.
LEMMA NextLosesNone ==
  ASSUME IInv, EventMode, TimersSeen, [Next]_vars
  PROVE  TimersSeen'
<1>1. /\ process \subseteq Easy /\ pending \subseteq Easy /\ timer \in Clocks
      /\ \A y \in Easy : y # 0
  BY Numbers DEF IInv, TypeOK, Clocks
<1>2. call = "app" => cur = 0
  BY DEF IInv, Control
<1>3. ASSUME cur = 0, cur' = 0, call' # "perform",
             process' \subseteq Easy,
             \A y \in Easy : timer'[y] # "none" => timer[y] # "none",
             \A y \in process' : timer'[y] = "popped" =>
                y \in dirty' \/ (y \in process /\ timer[y] = "popped" /\ (y \in dirty => y \in dirty'))
      PROVE  TimersSeen'
  BY <1>1, <1>3 DEF TimersSeen
<1>4. ASSUME NEW x \in Easy, AddHandle(x) PROVE TimersSeen'
  BY <1>1, <1>2, <1>3, <1>4 DEF AddHandle
<1>5. ASSUME NEW x \in Easy, RemoveHandle(x) PROVE TimersSeen'
  <2> DEFINE w1 == WokenByDone(x)
             W == w1 \cup First(pending \ (w1 \cup {x}))
  <2>1. W \in SUBSET pending
    BY FirstMember DEF WokenByDone
  <2>2. /\ process' = (process \cup W) \ {x} /\ dirty' = (dirty \cup W) \ {x}
        /\ call = "app" /\ cur' = cur /\ call' = call
        /\ timer' = [timer EXCEPT ![x] = "none"]
    BY <1>5 DEF RemoveHandle, Marked
  <2> HIDE DEF W
  <2>3. \A y \in Easy : timer'[y] = IF y = x THEN "none" ELSE timer[y]
    BY <1>1, <2>2 DEF Clocks
  <2> QED
    BY <1>1, <1>2, <1>3, <2>1, <2>2, <2>3
<1>6. ASSUME NEW x \in Easy, Tick(x) PROVE TimersSeen'
  <2>1. \A y \in Easy : timer'[y] = IF y = x THEN "late" ELSE timer[y]
    BY <1>1, <1>6 DEF Tick, Clocks
  <2>2. /\ timer[x] = "armed" /\ call = "app" /\ cur' = cur /\ call' = call
        /\ process' = process /\ dirty' = dirty
    BY <1>6 DEF Tick, Rest, sets
  <2> QED
    BY <1>1, <1>2, <1>3, <2>1, <2>2
<1>7. ASSUME NEW t \in Clocks, NEW d, dirty \subseteq d, MarkExpired(t, d),
             \A y \in Easy : /\ t[y] = "popped" => timer[y] = "popped"
                             /\ t[y] # "none" => timer[y] # "none",
             cur = 0, cur' = 0, call' # "perform"
      PROVE  TimersSeen'
  <2>1. \A y \in Easy : timer'[y] = IF t[y] = "late" THEN "popped" ELSE t[y]
    BY <1>7 DEF MarkExpired, Popped
  <2>2. process' = process /\ dirty \subseteq dirty'
        /\ \A y \in Easy : t[y] = "late" => y \in dirty'
    BY <1>7 DEF MarkExpired
  <2> QED
    BY <1>1, <1>3, <1>7, <2>1, <2>2
<1>8. CASE \/ CallTimeout \/ CallShutdownEvent
           \/ \E x \in Easy : CallEvent(x)
  <2>1. \E d : dirty \subseteq d /\ MarkExpired(timer, d)
    BY <1>8 DEF CallTimeout, CallShutdownEvent, CallEvent
  <2>2. call = "app" /\ call' = "first pass" /\ cur' = cur
    BY <1>8 DEF CallTimeout, CallShutdownEvent, CallEvent, Rest
  <2> QED
    BY <1>1, <1>2, <1>7, <2>1, <2>2
<1>9. CASE SecondPass
  <2>1. PICK t \in Later(timer) : MarkExpired(t, dirty)
    BY <1>9 DEF SecondPass
  <2>2. t \in Clocks /\ \A y \in Easy : /\ t[y] = "popped" => timer[y] = "popped"
                                        /\ t[y] # "none" => timer[y] # "none"
    BY <1>1, <2>1, LaterKeeps DEF Later, Clocks
  <2>3. cur = 0 /\ cur' = 0 /\ call' # "perform"
    BY <1>9 DEF SecondPass, Rest
  <2> QED
    BY <1>7, <2>1, <2>2, <2>3
<1>10. CASE InfoRead
  BY <1>1, <1>2, <1>3, <1>10 DEF InfoRead, sets
<1>11. CASE EndSocket
  <2>1. PICK W \in SUBSET pending : Wake(W)
    BY <1>11, FirstMember DEF EndSocket, WokenBy
  <2>2. cur = 0 /\ cur' = 0 /\ call' = "app" /\ UNCHANGED timer
    BY <1>11 DEF EndSocket, EndCall
  <2>3. process' = process \cup W /\ dirty' = dirty \cup W
    BY <2>1 DEF Wake, Marked
  <2> QED
    BY <1>1, <1>3, <2>1, <2>2, <2>3
<1>12. ASSUME NEW x \in Easy, VisitDirty(x) PROVE TimersSeen'
  <2>1. /\ cur = 0 /\ UNCHANGED <<call, timer, process>> /\ dirty' = dirty \ {x}
    BY <1>12 DEF VisitDirty, Enter
  <2>2. \/ cur' = x /\ phase' = "top"
        \/ cur' = 0 /\ x \notin process
    BY <1>12, <2>1 DEF VisitDirty, Enter
  <2> QED
    BY <1>1, <2>1, <2>2 DEF TimersSeen
<1>13. CASE \/ CallPerform \/ EndPerform \/ \E x \in Easy : VisitPerform(x)
  BY <1>13 DEF CallPerform, EndPerform, VisitPerform, TimersSeen
<1>14. ASSUME NEW x \in Easy, Handle(x) PROVE TimersSeen'
  BY <1>14, HandleLosesNone
<1>15. CASE UNCHANGED vars
  BY <1>15 DEF vars, TimersSeen
<1> QED
  BY <1>4, <1>5, <1>6, <1>8, <1>9, <1>10, <1>11, <1>12, <1>13, <1>14, <1>15
  DEF Next, Library, Application

\* Event based, between calls, a timeout that has left the timer tree has been
\* seen by its transfer or is going to be: the transfer is marked to run.
THEOREM TimeoutsAreSeen ==
  ASSUME EventMode
  PROVE  Spec => []NoTimeoutLost
<1>1. Init => TimersSeen
  BY DEF Init, TimersSeen
<1>2. (IInv /\ TimersSeen) /\ [Next]_vars => (IInv /\ TimersSeen)'
  BY NextInv, NextLosesNone
<1>3. IInv /\ TimersSeen => NoTimeoutLost
  <2>1. ASSUME IInv, TimersSeen, call = "app" PROVE \A x \in process : x # cur
    BY <2>1, Numbers DEF IInv, Control, TypeOK
  <2> QED
    BY <2>1 DEF TimersSeen, NoTimeoutLost
<1> QED
  BY <1>1, <1>2, <1>3, InitInv, PTL DEF Spec
-----------------------------------------------------------------------------
(* The application is told.  A removal of a transfer without timers returns  *)
(* without Curl_update_timer, though it may have woken and marked another:   *)
(* every other step keeps what is marked announced.                          *)

LEMMA Told == UpdateTimer => DirtyIsAnnounced'
BY DEF UpdateTimer, Due, DirtyIsAnnounced

\* The steps that announce nothing, other than the removal of a transfer without
\* timers, mark nothing, or leave the application waiting for the call to end.
LEMMA NextAnnounces ==
  ASSUME IInv, DirtyIsAnnounced, [Next]_vars,
         \A x \in Easy : RemoveHandle(x) => InTree(x)
  PROVE  DirtyIsAnnounced'
<1>1. ASSUME UNCHANGED <<call, dirty, process, told>> PROVE DirtyIsAnnounced'
  BY <1>1 DEF DirtyIsAnnounced
<1>2. ASSUME call' # "app" PROVE DirtyIsAnnounced'
  BY <1>2 DEF DirtyIsAnnounced
<1>3. ASSUME NEW x \in Easy, AddHandle(x) \/ RemoveHandle(x) PROVE UpdateTimer
  BY <1>3 DEF AddHandle, RemoveHandle
<1>4. ASSUME NEW x \in Easy, Tick(x) PROVE DirtyIsAnnounced'
  BY <1>1, <1>4 DEF Tick, sets
<1>5. CASE InfoRead \/ UNCHANGED vars
  BY <1>1, <1>5 DEF InfoRead, sets, vars
<1>6. CASE \/ CallPerform \/ CallTimeout \/ CallShutdownEvent \/ SecondPass
           \/ \E x \in Easy : CallEvent(x) \/ VisitPerform(x) \/ VisitDirty(x)
  BY <1>2, <1>6 DEF CallPerform, CallTimeout, CallShutdownEvent, CallEvent,
                    SecondPass, VisitPerform, VisitDirty
<1>7. CASE EndPerform \/ EndSocket
  BY <1>7, Told DEF EndPerform, EndSocket, EndCall
<1>8. ASSUME NEW x \in Easy, Handle(x) PROVE DirtyIsAnnounced'
  <2>1. cur = x /\ UNCHANGED call /\ x # 0
    BY <1>8, HandleIsCur, Numbers DEF call_
  <2> QED
    BY <1>2, <2>1 DEF IInv, Control
<1> QED
  BY <1>3, <1>4, <1>5, <1>6, <1>7, <1>8, Told DEF Next, Library, Application

\* Event based, the application knows of all that is marked to run, and goes on
\* knowing it, except across the removal of a transfer that has no timers
\* (curl_multi_remove_handle updates the timer only for one that had some).
THEOREM OnlyRemovalIsSilent ==
  Spec => [][(\A x \in Easy : RemoveHandle(x) => InTree(x))
               => (DirtyIsAnnounced => DirtyIsAnnounced')]_vars
<1>1. IInv /\ [Next]_vars =>
        [(\A x \in Easy : RemoveHandle(x) => InTree(x))
           => (DirtyIsAnnounced => DirtyIsAnnounced')]_vars
  BY NextAnnounces
<1> QED
  BY <1>1, InitInv, NextInv, PTL DEF Spec

\* An application that removes no transfer is always told.
THEOREM DirtyAnnounced ==
  ASSUME Removable = {}
  PROVE  Spec => []DirtyIsAnnounced
<1>1. Init => DirtyIsAnnounced
  BY DEF Init, DirtyIsAnnounced
<1>2. \A x \in Easy : ~RemoveHandle(x)
  BY DEF RemoveHandle
<1>3. (IInv /\ DirtyIsAnnounced) /\ [Next]_vars => (IInv /\ DirtyIsAnnounced)'
  BY <1>2, NextInv, NextAnnounces
<1> QED
  BY <1>1, <1>3, InitInv, PTL DEF Spec
-----------------------------------------------------------------------------
(* What is left of a pool: connections are closed or leave it for the list of *)
(* those in shutdown; those that stay are as they were.                       *)

Survivors(cn) == {q \in Pools : \A c \in Live(q) : q[c] = cn[c]}

LEMMA AllSurvive == ASSUME NEW cn \in Pools PROVE cn \in Survivors(cn)
BY DEF Survivors

LEMMA SurvivorsTwice ==
  ASSUME NEW cn \in Pools, NEW q \in Survivors(cn)
  PROVE  /\ q \in Pools
         /\ Survivors(q) \subseteq Survivors(cn) /\ Live(q) \subseteq Live(cn)
BY DEF Survivors, Live

LEMMA TerminateSurvivors ==
  ASSUME NEW cn \in Pools, NEW c
  PROVE  /\ Terminate(cn, c) \in Survivors(cn)
         /\ [cn EXCEPT ![c] = [cn[c] EXCEPT !.st = "shut"]] \in Survivors(cn)
<1> DEFINE q == [cn EXCEPT ![c] = [cn[c] EXCEPT !.st = "shut"]]
<1>1. Terminate(cn, c) \in Pools /\ q \in Pools
  BY TerminateType, ShutType
<1>2. \A d \in Live(Terminate(cn, c)) : Terminate(cn, c)[d] = cn[d]
  BY DEF Terminate, Pools, Live, ClosedConn
<1>3. ASSUME NEW d \in Live(q) PROVE q[d] = cn[d]
  <2>1. d \in Conns /\ q[d].st = "live"
    BY <1>3 DEF Live
  <2>2. CASE d # c
    BY <2>1, <2>2 DEF Pools
  <2>3. CASE d = c
    <3>1. cn[c] \in Connection /\ q[c] = [cn[c] EXCEPT !.st = "shut"]
      BY <2>1, <2>3 DEF Pools
    <3>2. q[c].st = "shut"
      BY <3>1 DEF Connection
    <3> QED
      BY <2>1, <2>3, <3>2
  <2> QED
    BY <2>2, <2>3
<1> QED
  BY <1>1, <1>2, <1>3 DEF Survivors

LEMMA DisconnectSurvivors ==
  ASSUME NEW cn \in Pools, NEW c \in Live(cn), NEW aborted,
         NEW q \in Disconnect(cn, c, aborted)
  PROVE  q \in Survivors(cn) /\ c \notin Live(q)
<1> DEFINE cn1 == [cn EXCEPT ![c] = [cn[c] EXCEPT !.st = "shut"]]
<1> HIDE DEF cn1
<1>1. cn1 \in Survivors(cn) /\ cn1 \in Pools /\ Survivors(cn1) \subseteq Survivors(cn)
  BY TerminateSurvivors, SurvivorsTwice DEF cn1
<1>2. AddToShutdown(cn, c) \subseteq {Terminate(cn1, o) : o \in Shut(cn)} \cup {cn1}
  BY DEF AddToShutdown, cn1
<1>3. AddToShutdown(cn, c) \subseteq Survivors(cn)
  BY <1>1, <1>2, TerminateSurvivors
<1>4. q \in Survivors(cn)
  BY <1>3, TerminateSurvivors DEF Disconnect
<1> QED
  BY <1>4, DisconnectSmaller

LEMMA NowIdleSurvivors ==
  ASSUME NEW cn \in Pools, NEW U, NEW keep
  PROVE  NowIdle(cn, U, keep) \subseteq Survivors(cn)
<1>1. \A o \in OldestIdle(cn, U) : Disconnect(cn, o, FALSE) \subseteq Survivors(cn)
  BY DisconnectSurvivors DEF OldestIdle
<1>2. UNION {Disconnect(cn, o, FALSE) : o \in OldestIdle(cn, U)} \subseteq Survivors(cn)
  BY <1>1
<1> QED
  BY <1>2, AllSurvive DEF NowIdle

LEMMA PruneDeadSurvivors ==
  ASSUME NEW cn \in Pools, NEW U
  PROVE  PruneDead(cn, U) \subseteq Survivors(cn)
<1>1. PruneDead(cn, U) \subseteq Pools
  BY PruneDeadType
<1>2. ASSUME NEW ended, NEW ending, Pruned(cn, ended, ending) \in Pools,
             NEW c \in Live(Pruned(cn, ended, ending))
      PROVE  Pruned(cn, ended, ending)[c] = cn[c]
  <2>1. c \in Conns /\ Pruned(cn, ended, ending)[c].st = "live"
    BY DEF Live
  <2>2. Pruned(cn, ended, ending)[c] = IF c \in ended THEN ClosedConn
                                       ELSE IF c \in ending THEN [cn[c] EXCEPT !.st = "shut"]
                                       ELSE cn[c]
    BY <2>1 DEF Pruned
  <2>3. ClosedConn.st = "closed" /\ [cn[c] EXCEPT !.st = "shut"].st = "shut"
    BY <2>1 DEF ClosedConn, Pools, Connection
  <2> QED
    BY <2>1, <2>2, <2>3
<1> QED
  BY <1>1, <1>2 DEF PruneDead, Survivors

LEMMA CheckLimitsSurvivors ==
  ASSUME NEW cn \in Pools, NEW U, NEW h
  PROVE  CheckLimits(cn, U, h) \subseteq Survivors(cn)
<1>1. ASSUME NEW q \in Pools, NEW shuts, NEW idles
      PROVE  q \in Survivors(q) /\ CloseOne(q, shuts, idles) \subseteq Survivors(q)
  <2>1. q \in Survivors(q) /\ \A c : Terminate(q, c) \in Survivors(q)
    BY <1>1, TerminateSurvivors, AllSurvive
  <2> QED
    BY <2>1 DEF CloseOne
<1>2. HostRoom(cn, U, h) \subseteq Survivors(cn)
  BY <1>1 DEF HostRoom
<1>3. ASSUME NEW q \in Survivors(cn)
      PROVE  TotalRoom(q, U, h) \subseteq Survivors(cn)
  <2>1. q \in Pools /\ Survivors(q) \subseteq Survivors(cn)
    BY SurvivorsTwice
  <2>2. TotalRoom(q, U, h) \subseteq Survivors(q)
    BY <1>1, <2>1 DEF TotalRoom
  <2> QED
    BY <2>1, <2>2
<1> QED
  BY <1>2, <1>3 DEF CheckLimits

\* The pools an attempt to connect may leave behind.
LEMMA StartingSurvivors ==
  ASSUME IInv, NEW x \in Easy
  PROVE  /\ PruneDead(conn, InUse) \subseteq Survivors(conn)
         /\ Unmatched(x) \subseteq Survivors(conn) /\ Roomy(x) \subseteq Survivors(conn)
<1>1. conn \in Pools
  BY Marks
<1>2. PruneDead(conn, InUse) \subseteq Survivors(conn)
  BY <1>1, PruneDeadSurvivors
<1>3. \A cn \in Survivors(conn) : CheckLimits(cn, InUse, HostOf[x]) \subseteq Survivors(conn)
  BY <1>1, CheckLimitsSurvivors, SurvivorsTwice
<1> QED
  BY <1>2, <1>3 DEF Unmatched, Roomy
-----------------------------------------------------------------------------
(* What is idle can be used again, unless a progress callback aborts.  A      *)
(* connection is up once its transfer is past CONNECTING, and one that can be *)
(* shared is up: multi_done leaves idle what is up and not to be closed.      *)

Ups ==
  /\ \A c \in Live(conn) : conn[c].mux => conn[c].up
  /\ \A x \in Easy : xconn[x] # NoConn /\ mstate[x] \notin {"RESOLVING", "CONNECTING"}
       => conn[xconn[x]].up
  /\ IdleIsReusable

\* What a step keeps of the connections that are not closed: whether they are up
\* and can be shared and, but for c, their marks.
KeepsMarks(cn, c) ==
  \A d \in Live(cn) :
    /\ d \in Live(conn) /\ cn[d].up = conn[d].up /\ cn[d].mux = conn[d].mux
    /\ d # c => cn[d].close = conn[d].close

\* x keeps its connection, or leaves it to others, closed, or fit to be used again.
Keeps1(x) == UNCHANGED xconn /\ KeepsMarks(conn', xconn[x])
Frees(x) ==
  /\ xconn' = Detached(x) /\ KeepsMarks(conn', xconn[x])
  /\ LET c == xconn[x]
     IN  c \in Live(conn)' \ InUseBy(Easy \ {x}) => conn'[c].up /\ ~conn'[c].close

LEMMA SurvivorsKeep ==
  ASSUME NEW cn \in Pools, NEW c, KeepsMarks(cn, c), NEW q \in Survivors(cn)
  PROVE  KeepsMarks(q, c)
BY SurvivorsTwice DEF KeepsMarks, Survivors

\* The pools a step of x starts from.
LEMMA MarksKept ==
  ASSUME IInv, NEW x
  PROVE  \A cn \in {conn, CloseStream(x), ConnClose(conn, xconn[x])} :
           /\ cn \in Pools /\ KeepsMarks(cn, xconn[x])
           /\ \A d \in Conns : cn[d].up = conn[d].up /\ cn[d].mux = conn[d].mux
                               /\ cn[d].st = conn[d].st
<1>1. conn \in Pools /\ ConnClose(conn, xconn[x]) \in Pools
  BY Marks, CloseType
<1>2. \A d \in Conns : /\ ConnClose(conn, xconn[x])[d].st = conn[d].st
                       /\ ConnClose(conn, xconn[x])[d].up = conn[d].up
                       /\ ConnClose(conn, xconn[x])[d].mux = conn[d].mux
                       /\ d # xconn[x] => ConnClose(conn, xconn[x])[d] = conn[d]
  BY <1>1 DEF ConnClose, Pools, Connection
<1>3. CloseStream(x) = conn \/ CloseStream(x) = ConnClose(conn, xconn[x])
  BY DEF CloseStream, StreamClose
<1>4. /\ KeepsMarks(conn, xconn[x])
      /\ KeepsMarks(ConnClose(conn, xconn[x]), xconn[x])
  BY <1>2 DEF KeepsMarks, Live
<1> QED
  BY <1>1, <1>2, <1>3, <1>4

LEMMA DonePoolsFree ==
  ASSUME NEW x, NEW cn \in Pools, NEW premature, xconn[x] \in Live(cn),
         cn[xconn[x]].up \/ (premature /\ ~cn[xconn[x]].mux),
         NEW q \in DonePools(x, cn, premature)
  PROVE  /\ q \in Survivors(cn)
         /\ xconn[x] \in Live(q) \ InUseBy(Easy \ {x})
              => q[xconn[x]].up /\ ~q[xconn[x]].close
<1> DEFINE c == xconn[x]
           U == InUseBy(Easy \ {x})
<1> HIDE DEF U, c
<1>1. \A p \in Disconnect(cn, c, premature) : p \in Survivors(cn) /\ c \notin Live(p)
  BY DisconnectSurvivors DEF c
<1>2. \A keep : NowIdle(cn, U, keep) \subseteq Survivors(cn)
  BY NowIdleSurvivors
<1>3. cn \in Survivors(cn)
  BY AllSurvive
<1>4. \/ c \in U /\ q = cn
      \/ q \in Disconnect(cn, c, premature)
      \/ /\ c \notin U /\ ~cn[c].close /\ ~(premature /\ ~cn[c].mux)
         /\ \E keep : q \in NowIdle(cn, U, keep)
  BY DEF DonePools, U, c
<1>5. q \in Survivors(cn)
  BY <1>1, <1>2, <1>3, <1>4
<1>6. ASSUME c \in Live(q) \ U PROVE q[c].up /\ ~q[c].close
  <2>1. cn[c].up /\ ~cn[c].close
    BY <1>1, <1>4, <1>6 DEF c
  <2> QED
    BY <1>5, <1>6, <2>1 DEF Survivors
<1> QED
  BY <1>5, <1>6 DEF U, c

LEMMA DoneFrees ==
  ASSUME IInv, CInv, Ups, NEW x \in Easy, xconn[x] # NoConn,
         NEW cn \in {conn, CloseStream(x), ConnClose(conn, xconn[x])},
         NEW premature \in BOOLEAN, MultiDone(x, cn, premature),
         ~premature => mstate[x] \notin {"RESOLVING", "CONNECTING"}
  PROVE  Frees(x)
<1> DEFINE c == xconn[x]
<1> HIDE DEF c
<1>1. c \in Conns /\ conn[c].st = "live" /\ conn \in Pools
  BY HeldConn, Marks DEF c
<1>2. /\ cn \in Pools /\ KeepsMarks(cn, c) /\ c \in Live(cn)
      /\ cn[c].up = conn[c].up /\ cn[c].mux = conn[c].mux
  BY <1>1, MarksKept DEF c, Live
<1>3. conn[c].up \/ (premature /\ ~conn[c].mux)
  <2>1. conn[c].mux => conn[c].up
    BY <1>1 DEF Ups, Live
  <2>2. ~premature => conn[c].up
    BY DEF Ups, c
  <2> QED
    BY <2>1, <2>2
<1>4. PICK q \in DonePools(x, cn, premature) : conn' = q /\ xconn' = Detached(x)
  BY DEF MultiDone, Pool
<1>5. /\ q \in Survivors(cn)
      /\ c \in Live(q) \ InUseBy(Easy \ {x}) => q[c].up /\ ~q[c].close
  BY <1>2, <1>3, DonePoolsFree DEF c
<1>6. KeepsMarks(q, c)
  BY <1>2, <1>5, SurvivorsKeep
<1> QED
  BY <1>4, <1>5, <1>6 DEF Frees, c

\* The steps of a transfer that does not abort: but for three, they keep the
\* connection or free it.
LEMMA StepFrees ==
  ASSUME IInv, CInv, Ups, Aborting = {}, NEW x \in Easy, Handle(x)
  PROVE  \/ Keeps1(x) \/ Frees(x)
         \/ ReuseConn(x) \/ OpenConn(x) \/ ComesUp(x)
<1>1. \A cn \in {conn, CloseStream(x), ConnClose(conn, xconn[x])} :
        cn \in Pools /\ KeepsMarks(cn, xconn[x])
  BY MarksKept
<1>2. \A cn \in Survivors(conn) : conn' = cn /\ UNCHANGED xconn => Keeps1(x)
  BY <1>1, SurvivorsKeep DEF Keeps1
<1>3. UNCHANGED <<conn, xconn>> => Keeps1(x)
  BY <1>1 DEF Keeps1
<1>4. Holding(x) /\ cur = x /\ xconn \in [Easy -> Conns \cup {NoConn}]
  BY HandleIsCur, Holds DEF IInv, TypeOK
<1>5. ASSUME NEW cn \in {conn, CloseStream(x), ConnClose(conn, xconn[x])},
             NEW premature \in BOOLEAN, FailDone(x, cn, premature),
             xconn[x] # NoConn,
             ~premature => mstate[x] \notin {"RESOLVING", "CONNECTING"}
      PROVE  Frees(x)
  BY <1>5, DoneFrees DEF FailDone
<1>6. CASE \/ Recheck(x) \/ Parked(x) \/ InitFails(x) \/ Resolving(x)
           \/ AwaitConnect(x) \/ IsUp(x) \/ ProtoConnect(x) \/ ProtoConnecting(x)
           \/ Do(x) \/ Doing(x) \/ DoingMore(x) \/ Did(x) \/ Transfers(x)
           \/ Unlimited(x) \/ Failed(x) \/ Complete(x) \/ Loop(x)
  <2>1. UNCHANGED <<conn, xconn>>
    BY <1>6 DEF Recheck, Parked, InitFails, Resolving, AwaitConnect, IsUp,
       ProtoConnect, ProtoConnecting, Do, Doing, DoingMore, Did, Transfers,
       Unlimited, Failed, Complete, Loop, Stay, Advance, pool
  <2> QED
    BY <1>3, <2>1
<1>7. CASE ConnectionFails(x) \/ ProtocolFails(x) \/ TransferFails(x)
  <2>1. /\ mstate[x] \in {"CONNECTING", "PROTOCONNECT", "PROTOCONNECTING", "PERFORMING",
                          "RATELIMITING"}
        /\ phase = "top"
    BY <1>7 DEF ConnectionFails, ProtocolFails, TransferFails, Run, AtTop
  <2>2. xconn[x] # NoConn
    BY <1>4, <2>1 DEF Holding, Attached, Connecting, Using
  <2>3. \E cn \in {conn, CloseStream(x), ConnClose(conn, xconn[x])} : FailDone(x, cn, TRUE)
    BY <1>7 DEF ConnectionFails, ProtocolFails, TransferFails
  <2> QED
    BY <1>5, <2>2, <2>3
<1>8. CASE DoRetries(x) \/ DoFails(x) \/ Redirected(x) \/ FollowFails(x)
  <2>1. mstate[x] \in {"DO", "DOING", "DOING_MORE", "PERFORMING"} /\ phase = "top"
    BY <1>8 DEF DoRetries, DoFails, Redirected, FollowFails, Run, AtTop
  <2>2. xconn[x] # NoConn
    BY <1>4, <2>1 DEF Holding, Attached, Connecting, Using
  <2>3. \E cn \in {conn, CloseStream(x), ConnClose(conn, xconn[x])} :
        \E premature \in BOOLEAN : MultiDone(x, cn, premature)
    BY <1>8 DEF DoRetries, DoFails, Redirected, FollowFails, Again, FailDone
  <2> QED
    BY <2>1, <2>2, <2>3, DoneFrees
<1>9. CASE WaitForConn(x) \/ ConnectFails(x)
  <2>1. UNCHANGED xconn /\ \E cn \in Survivors(conn) : conn' = cn
    BY <1>9, StartingSurvivors DEF WaitForConn, ConnectFails, Pool
  <2> QED
    BY <1>2, <2>1
<1>10. ASSUME HandleTimeout(x)
       PROVE  Keeps1(x) \/ Frees(x)
  <2>1. CASE xconn[x] = NoConn
    BY <1>3, <1>10, <2>1 DEF HandleTimeout, pool
  <2>2. CASE xconn[x] # NoConn
    <3>1. \E cn \in {conn, CloseStream(x), ConnClose(conn, xconn[x])} : MultiDone(x, cn, TRUE)
      BY <1>10, <2>2 DEF HandleTimeout
    <3> QED
      BY <2>2, <3>1, DoneFrees
  <2> QED
    BY <2>1, <2>2
<1>11. CASE TopTimeout(x) \/ LateTimeout(x)
  BY <1>10, <1>11 DEF TopTimeout, LateTimeout
<1>12. CASE Done(x)
  <2>1. CASE xconn[x] = NoConn
    BY <1>3, <1>12, <2>1 DEF Done, pool
  <2>2. CASE xconn[x] # NoConn
    <3>1. MultiDone(x, conn, result = "err") /\ mstate[x] = "DONE"
      BY <1>12, <2>2 DEF Done, Run
    <3> QED
      BY <2>2, <3>1, DoneFrees
  <2> QED
    BY <2>1, <2>2
<1>13. CASE Received(x)
  <2>1. UNCHANGED xconn /\ \E cn \in {conn, ConnClose(conn, xconn[x])} : conn' = cn
    BY <1>13 DEF Received, Pool
  <2> QED
    BY <1>1, <2>1 DEF Keeps1
<1>14. CASE AbortToDone(x) \/ AbortInDone(x)
  BY <1>14 DEF AbortToDone, AbortInDone, MayAbort
<1>15. CASE ResolveFails(x)
  <2>1. /\ conn' = Terminate(conn, xconn[x]) /\ xconn' = Detached(x)
    BY <1>15 DEF ResolveFails, Pool
  <2>2. conn' \in Survivors(conn) /\ xconn[x] \notin Live(conn')
    BY <1>1, <2>1, TerminateSurvivors, TerminateSmaller
  <2>3. Live(conn') = Live(conn)'
    BY DEF Live
  <2> QED
    BY <1>1, <2>1, <2>2, <2>3, SurvivorsKeep DEF Frees
<1> QED
  BY <1>6, <1>7, <1>8, <1>9, <1>11, <1>12, <1>13, <1>14, <1>15 DEF Handle

\* A connection whose transfer leaves CONNECTING is up.
LEMMA LeavesConnecting ==
  ASSUME IInv, Aborting = {}, NEW x \in Easy, Handle(x), xconn'[x] # NoConn,
         mstate[x] \in {"RESOLVING", "CONNECTING"},
         mstate'[x] \notin {"RESOLVING", "CONNECTING"}
  PROVE  IsUp(x) \/ ComesUp(x)
<1>1. Holding(x) /\ Ready(x) /\ cur = x
  BY HandleIsCur, Holds DEF Holding
<1>2. \A s \in {"INIT", "SETUP", "CONNECT", "PENDING", "PROTOCONNECT", "PROTOCONNECTING",
                "DO", "DOING", "DOING_MORE", "DID", "PERFORMING", "RATELIMITING", "DONE"} :
        ~Run(x, s)
  BY DEF Run
<1>3. \A W \in SUBSET pending : Wake(W) => mstate'[x] = mstate[x]
  BY <1>1 DEF Wake, Ready
<1>4. UNCHANGED sets => mstate'[x] = mstate[x]
  BY DEF sets
<1>5. xconn' # Detached(x)
  BY <1>1 DEF Detached, Holding, OtherTypes
<1>6. ~HandleTimeout(x) \/ UNCHANGED sets
  BY <1>5 DEF HandleTimeout, MultiDone
<1>7. ~(Recheck(x) \/ TopTimeout(x) \/ LateTimeout(x) \/ Loop(x))
  <2>1. First(pending) \in SUBSET pending
    BY FirstMember
  <2> QED
    BY <1>3, <1>4, <1>6, <2>1 DEF Recheck, TopTimeout, LateTimeout, Loop
<1>8. ~(\/ InitFails(x) \/ ReuseConn(x) \/ WaitForConn(x) \/ OpenConn(x)
        \/ ConnectFails(x) \/ Parked(x))
  BY <1>2 DEF InitFails, ReuseConn, WaitForConn, OpenConn, ConnectFails, Connects,
              Starting, Parked
<1>9. ~(\/ ProtoConnect(x) \/ ProtoConnecting(x) \/ ProtocolFails(x) \/ Do(x)
        \/ DoRetries(x) \/ DoFails(x) \/ Doing(x) \/ DoingMore(x) \/ Did(x)
        \/ Transfers(x) \/ Received(x) \/ Redirected(x) \/ FollowFails(x)
        \/ TransferFails(x) \/ Unlimited(x) \/ Done(x))
  BY <1>2 DEF ProtoConnect, ProtoConnecting, ProtocolFails, Do, DoRetries, DoFails,
       Doing, DoingMore, Did, Transfers, Received, Redirected, FollowFails,
       TransferFails, Unlimited, Done
<1>10. ~(ResolveFails(x) \/ ConnectionFails(x) \/ AwaitConnect(x))
  BY <1>4, <1>5 DEF ResolveFails, ConnectionFails, AwaitConnect, FailDone, MultiDone, Stay
<1>11. ~Resolving(x)
  <2>1. Move(x, "CONNECTING", {}) => mstate'[x] = "CONNECTING"
    BY <1>1 DEF Move, Ready
  <2> QED
    BY <1>4, <2>1 DEF Resolving, Advance, Stay
<1>12. ~(Complete(x) \/ AbortToDone(x) \/ AbortInDone(x))
  BY DEF Complete, AbortToDone, AbortInDone, MayAbort
<1>13. ~Failed(x)
  <2>1. SUFFICES ASSUME Failed(x) PROVE FALSE
    OBVIOUS
  <2>2. phase # "top" /\ result = "err" /\ UNCHANGED xconn
    BY <2>1 DEF Failed, AtEnd, pool
  <2> QED
    BY <1>1, <2>2 DEF Holding
<1> QED
  BY <1>7, <1>8, <1>9, <1>10, <1>11, <1>12, <1>13 DEF Handle

\* A transfer that runs leaves the state of those with a connection alone.
LEMMA OthersStand ==
  ASSUME IInv, NEW x \in Easy, Handle(x), NEW y \in Easy \ {x}, xconn[y] # NoConn
  PROVE  mstate'[y] = mstate[y] /\ xconn'[y] = xconn[y]
<1>1. Shape(x) /\ Settled(x)
  BY HandleShape, HandleSettled
<1>2. mstate[y] \in Attached /\ y \notin pending
  BY DEF IInv, ActiveHasConn, SetsMatchState, Attached, Connecting, Using
<1>3. mstate'[y] = mstate[y]
  BY <1>1, <1>2 DEF Shape, Stands, Wakes, Moves, Parks, Ends, Finishes, Wake, Move,
                    Park, sets, IInv, TypeOK
<1> QED
  BY <1>1, <1>3 DEF Settled

\* Connections that are kept or freed keep the invariant.
LEMMA FreesUps ==
  ASSUME IInv, CInv, Ups, IInv', CInv', NEW x \in Easy, Keeps1(x) \/ Frees(x),
         \A y \in Easy : xconn'[y] # NoConn /\ mstate'[y] \notin {"RESOLVING", "CONNECTING"}
           => conn[xconn[y]].up
  PROVE  Ups'
<1>1. KeepsMarks(conn', xconn[x]) /\ Live(conn') = Live(conn)'
  BY DEF Keeps1, Frees, Live
<1>2. /\ \A y \in Easy \ {x} : xconn'[y] = xconn[y]
      /\ xconn'[x] \in {xconn[x], NoConn}
      /\ \A c \in Conns : c # NoConn
  BY MultiAssumption DEF Keeps1, Frees, Detached, IInv, TypeOK
<1>3. \A c \in Live(conn)' : conn'[c].mux => conn'[c].up
  BY <1>1 DEF KeepsMarks, Ups
<1>4. ASSUME NEW y \in Easy, xconn'[y] # NoConn
      PROVE  xconn'[y] = xconn[y] /\ xconn[y] \in Live(conn')
  <2>1. xconn'[y] = xconn[y]
    BY <1>2, <1>4
  <2>2. conn'[xconn'[y]].st = "live"
    BY <1>4 DEF CInv, NoDangling
  <2>3. xconn'[y] \in Conns
    BY <1>4 DEF IInv, TypeOK
  <2> QED
    BY <2>1, <2>2, <2>3 DEF Live
<1>5. \A y \in Easy : xconn'[y] # NoConn /\ mstate'[y] \notin {"RESOLVING", "CONNECTING"}
        => conn'[xconn'[y]].up
  BY <1>1, <1>4 DEF KeepsMarks
<1>6. ASSUME NEW c \in Live(conn)' \ InUse'
      PROVE  conn'[c].up /\ ~conn'[c].close
  <2>1. c \in Conns /\ \A y \in Easy : xconn'[y] # c
    BY <1>6 DEF Live, InUse, Users
  <2>2. CASE c # xconn[x]
    <3>1. c \in Live(conn) \ InUse
      BY <1>1, <1>2, <1>6, <2>1, <2>2 DEF KeepsMarks, InUse, Users
    <3> QED
      BY <1>1, <1>6, <2>2, <3>1 DEF Ups, IdleIsReusable, KeepsMarks
  <2>3. CASE c = xconn[x]
    <3>1. Frees(x)
      BY <2>1, <2>3 DEF Keeps1
    <3>2. c \notin InUseBy(Easy \ {x})
      BY <1>2, <2>1 DEF InUseBy, Users
    <3> QED
      BY <1>6, <2>3, <3>1, <3>2 DEF Frees
  <2> QED
    BY <2>2, <2>3
<1> QED
  BY <1>3, <1>5, <1>6 DEF Ups, IdleIsReusable

\* x takes a connection of the pool that is up and fit for it, or a new one.
LEMMA GainsUps ==
  ASSUME IInv, CInv, Ups, IInv', CInv', NEW x \in Easy, Handle(x),
         NEW c \in Conns, xconn' = [xconn EXCEPT ![x] = c],
         \A d \in Live(conn)' \ {c} : d \in Live(conn) /\ conn'[d] = conn[d],
         \/ /\ c \in Live(conn) /\ conn[c].up
            /\ conn'[c].up = conn[c].up /\ conn'[c].mux = conn[c].mux
         \/ /\ mstate'[x] \in {"RESOLVING", "CONNECTING"} /\ ~conn'[c].mux
            /\ c \notin InUse,
         xconn[x] = NoConn
  PROVE  Ups'
<1>1. /\ xconn'[x] = c /\ \A y \in Easy \ {x} : xconn'[y] = xconn[y]
      /\ c # NoConn /\ \A d \in Conns : d # NoConn
  BY MultiAssumption DEF IInv, TypeOK
<1>2. \A d \in Live(conn)' : conn'[d].mux => conn'[d].up
  BY DEF Ups
<1>3. ASSUME NEW y \in Easy \ {x}, xconn'[y] # NoConn,
             mstate'[y] \notin {"RESOLVING", "CONNECTING"}
      PROVE  conn'[xconn'[y]].up
  <2>1. xconn'[y] = xconn[y] /\ mstate'[y] = mstate[y] /\ conn[xconn[y]].up
    BY <1>1, <1>3, OthersStand DEF Ups
  <2>2. xconn[y] \in Live(conn)' /\ xconn[y] \in InUse
    <3>1. conn'[xconn'[y]].st = "live" /\ xconn'[y] \in Conns
      BY <1>3, ZenonT(30) DEF CInv, NoDangling, IInv, TypeOK
    <3> QED
      BY <2>1, <3>1 DEF Live, InUse, Users
  <2> QED
    BY <2>1, <2>2
<1>4. xconn'[x] # NoConn /\ mstate'[x] \notin {"RESOLVING", "CONNECTING"} => conn'[xconn'[x]].up
  BY <1>1
<1>5. ASSUME NEW d \in Live(conn)' \ InUse'
      PROVE  conn'[d].up /\ ~conn'[d].close
  <2>1. d \in Conns /\ \A y \in Easy : xconn'[y] # d
    BY <1>5 DEF Live, InUse, Users
  <2>2. d # c /\ \A y \in Easy : xconn[y] # d
    BY <1>1, <2>1
  <2>3. d \in Live(conn) \ InUse /\ conn'[d] = conn[d]
    BY <1>5, <2>2 DEF InUse, Users
  <2> QED
    BY <2>3 DEF Ups, IdleIsReusable
<1> QED
  BY <1>2, <1>3, <1>4, <1>5 DEF Ups, IdleIsReusable

\* A transfer that starts has no connection yet.
LEMMA StartsFree ==
  ASSUME IInv, NEW x \in Easy, Handle(x), Connects(x)
  PROVE  xconn[x] = NoConn
<1>1. Holding(x) /\ phase = "top" /\ mstate[x] \in {"INIT", "SETUP", "CONNECT"}
  BY HandleIsCur, Holds DEF Connects, Starting, Run, AtTop
<1> QED
  BY <1>1 DEF Holding, Attached, Connecting, Using

LEMMA ReuseConnUps ==
  ASSUME IInv, CInv, Ups, IInv', CInv', NEW x \in Easy, Handle(x), ReuseConn(x)
  PROVE  Ups'
<1>1. xconn[x] = NoConn
  BY StartsFree DEF ReuseConn
<1>2. PICK cn \in Survivors(conn) : \E c \in IdleMatches(cn, x) \cup SharedMatches(cn, x) :
        /\ conn' = [cn EXCEPT ![c] = [cn[c] EXCEPT !.reused = TRUE]]
        /\ xconn' = [xconn EXCEPT ![x] = c]
  BY StartingSurvivors DEF ReuseConn, Pool, Attach
<1>3. PICK c \in IdleMatches(cn, x) \cup SharedMatches(cn, x) :
        /\ conn' = [cn EXCEPT ![c] = [cn[c] EXCEPT !.reused = TRUE]]
        /\ xconn' = [xconn EXCEPT ![x] = c]
  BY <1>2
<1>4. c \in Conns /\ c \in Live(cn) /\ cn[c].up
  BY DEF IdleMatches, SharedMatches, Matching, LiveTo, Live
<1>5. /\ cn \in Pools /\ Live(cn) \subseteq Live(conn)
      /\ \A d \in Live(cn) : cn[d] = conn[d]
  BY Marks, SurvivorsTwice DEF Survivors
<1>6. /\ conn'[c].up = cn[c].up /\ conn'[c].mux = cn[c].mux
      /\ \A d \in Conns \ {c} : conn'[d] = cn[d]
  <2>1. cn[c] \in Connection
    BY <1>4, <1>5 DEF Pools
  <2> QED
    BY <1>3, <1>4, <1>5, <2>1 DEF Pools, Connection
<1>7. \A d \in Live(conn)' \ {c} : d \in Live(conn) /\ conn'[d] = conn[d]
  BY <1>5, <1>6 DEF Live
<1>8. c \in Live(conn) /\ cn[c] = conn[c]
  BY <1>4, <1>5
<1> QED
  BY <1>1, <1>3, <1>4, <1>6, <1>7, <1>8, GainsUps

LEMMA OpenConnUps ==
  ASSUME IInv, CInv, Ups, IInv', CInv', NEW x \in Easy, Handle(x), OpenConn(x)
  PROVE  Ups'
<1>1. xconn[x] = NoConn
  BY StartsFree DEF OpenConn
<1>2. PICK cn \in Survivors(conn) \cap Untouched(conn, InUse), c \in Conns :
        /\ cn[c].st = "closed"
        /\ conn' = [cn EXCEPT ![c] = NewConn(HostOf[x])]
        /\ xconn' = [xconn EXCEPT ![x] = c]
  BY StartingSurvivors, StartingLeaves, FirstMember DEF OpenConn, Attach
<1>3. /\ cn \in Pools /\ Live(cn) \subseteq Live(conn)
      /\ \A d \in Live(cn) : cn[d] = conn[d]
  BY Marks, SurvivorsTwice DEF Survivors
<1>4. c \notin InUse
  <2>1. \A d \in InUse : cn[d].st = "live"
    BY InUseLive DEF Untouched, Live
  <2> QED
    BY <1>2, <2>1
<1>5. ~conn'[c].mux /\ \A d \in Conns \ {c} : conn'[d] = cn[d]
  BY <1>2, <1>3 DEF NewConn, Pools
<1>6. \A d \in Live(conn)' \ {c} : d \in Live(conn) /\ conn'[d] = conn[d]
  BY <1>3, <1>5 DEF Live
<1>7. mstate'[x] \in {"RESOLVING", "CONNECTING"}
  <2>1. Ready(x) /\ mstate[x] \in {"INIT", "SETUP", "CONNECT"}
    BY HandleIsCur, Readiness DEF OpenConn, Connects, Starting, Run
  <2>2. PICK t \in {"RESOLVING", "CONNECTING"} : Move(x, t, First(pending))
    BY DEF OpenConn
  <2>3. x \notin First(pending)
    BY <2>1 DEF Ready
  <2> QED
    BY <2>1, <2>2, <2>3 DEF Move, Ready
<1> QED
  BY <1>1, <1>2, <1>4, <1>5, <1>6, <1>7, GainsUps

LEMMA ComesUpUps ==
  ASSUME IInv, CInv, Ups, IInv', CInv', NEW x \in Easy, Handle(x), ComesUp(x)
  PROVE  Ups'
<1> DEFINE c == xconn[x]
<1>1. c # NoConn
  <2>1. Holding(x) /\ phase = "top" /\ mstate[x] = "CONNECTING"
    BY HandleIsCur, Holds DEF ComesUp, Run, AtTop
  <2> QED
    BY <2>1 DEF Holding, Attached, Connecting
<1>2. UNCHANGED xconn /\ conn \in Pools /\ c \in Conns /\ conn[c] \in Connection
  BY <1>1, Marks, HeldConn DEF ComesUp, Pools
<1>3. /\ conn'[c].up
      /\ \A d \in Conns \ {c} : conn'[d] = conn[d]
  <2>1. CASE conn' = [conn EXCEPT ![c] = [conn[c] EXCEPT !.up = TRUE]]
    BY <1>2, <2>1 DEF Pools, Connection
  <2>2. CASE conn' = [conn EXCEPT ![c] = [conn[c] EXCEPT !.up = TRUE, !.mux = TRUE]]
    BY <1>2, <2>2 DEF Pools, Connection
  <2> QED
    BY <2>1, <2>2 DEF ComesUp
<1>4. \A d \in Live(conn)' : conn'[d].mux => conn'[d].up
  BY <1>3 DEF Ups, Live
<1>5. ASSUME NEW y \in Easy, xconn'[y] # NoConn,
             mstate'[y] \notin {"RESOLVING", "CONNECTING"}
      PROVE  conn'[xconn'[y]].up
  <2>1. xconn'[y] = xconn[y] /\ xconn[y] \in Conns
    BY <1>2, <1>5 DEF IInv, TypeOK
  <2>2. CASE xconn[y] = c
    BY <1>3, <2>1, <2>2
  <2>3. CASE xconn[y] # c
    <3>1. y # x
      BY <2>3
    <3>2. mstate'[y] = mstate[y]
      BY <1>5, <2>1, <3>1, OthersStand
    <3> QED
      BY <1>3, <1>5, <2>1, <2>3, <3>2 DEF Ups
  <2> QED
    BY <2>2, <2>3
<1>6. IdleIsReusable'
  <2>1. ASSUME NEW d \in Live(conn)' \ InUse' PROVE conn'[d].up /\ ~conn'[d].close
    <3>1. d \in Conns /\ d # c /\ d \notin InUse
      BY <1>2, <2>1 DEF Live, InUse, Users
    <3> QED
      BY <1>3, <2>1, <3>1 DEF Ups, IdleIsReusable, Live
  <2> QED
    BY <2>1 DEF IdleIsReusable
<1> QED
  BY <1>4, <1>5, <1>6 DEF Ups

LEMMA HandleUps ==
  ASSUME IInv, CInv, Ups, Aborting = {}, NEW x \in Easy, Handle(x)
  PROVE  Ups'
<1>1. IInv' /\ CInv'
  BY HandleInv, HandleConn
<1>2. ASSUME Keeps1(x) \/ Frees(x), ~ComesUp(x)
      PROVE  Ups'
  <2>1. ASSUME NEW y \in Easy, xconn'[y] # NoConn,
               mstate'[y] \notin {"RESOLVING", "CONNECTING"}
        PROVE  conn[xconn[y]].up
    <3>1. xconn'[y] = xconn[y]
      BY <1>2, <2>1 DEF Keeps1, Frees, Detached, IInv, TypeOK
    <3>2. CASE mstate[y] \notin {"RESOLVING", "CONNECTING"}
      BY <2>1, <3>1, <3>2 DEF Ups
    <3>3. CASE mstate[y] \in {"RESOLVING", "CONNECTING"}
      <4>1. y = x
        BY <2>1, <3>1, <3>3, OthersStand
      <4>2. IsUp(x)
        BY <1>2, <2>1, <3>3, <4>1, LeavesConnecting
      <4> QED
        BY <4>1, <4>2 DEF IsUp
    <3> QED
      BY <3>2, <3>3
  <2> QED
    BY <1>1, <1>2, <2>1, FreesUps
<1> QED
  BY <1>1, <1>2, StepFrees, ReuseConnUps, OpenConnUps, ComesUpUps

\* No transfer runs: none leaves CONNECTING with its connection.
LEMMA OtherUps ==
  ASSUME IInv, CInv, Ups, UNCHANGED xconn, conn' \in Survivors(conn),
         \A y \in Easy : xconn[y] # NoConn => mstate'[y] = mstate[y], CInv'
  PROVE  Ups'
<1>1. \A c \in Live(conn)' : c \in Live(conn) /\ conn'[c] = conn[c]
  <2>1. Live(conn') \subseteq Live(conn) /\ Live(conn') = Live(conn)'
    BY Marks, SurvivorsTwice DEF Live
  <2> QED
    BY <2>1 DEF Survivors
<1>2. \A y \in Easy : xconn[y] # NoConn => xconn[y] \in Live(conn)'
  BY ZenonT(30) DEF CInv, NoDangling, IInv, TypeOK, Live
<1>3. InUse' = InUse
  BY DEF InUse, Users
<1> QED
  BY <1>1, <1>2, <1>3 DEF Ups, IdleIsReusable

LEMMA RemoveHandleUps ==
  ASSUME IInv, CInv, Ups, IInv', CInv', NEW x \in Easy, RemoveHandle(x)
  PROVE  Ups'
<1> DEFINE w1 == WokenByDone(x)
           W == w1 \cup First(pending \ (w1 \cup {x}))
<1>1. W \in SUBSET pending
  BY FirstMember DEF WokenByDone
<1>2. mstate' = [y \in Easy |-> IF y = x THEN "COMPLETED"
                                ELSE IF y \in W THEN "CONNECT" ELSE mstate[y]]
  BY DEF RemoveHandle
<1> HIDE DEF W
<1>3. \A y \in Easy \ {x} : xconn[y] # NoConn => mstate'[y] = mstate[y]
  <2>1. \A y \in Easy : xconn[y] # NoConn => y \notin pending
    BY DEF IInv, ActiveHasConn, SetsMatchState, Attached, Connecting, Using
  <2> QED
    BY <1>1, <1>2, <2>1
<1>4. CASE xconn[x] = NoConn
  <2>1. UNCHANGED <<conn, xconn>>
    BY <1>4 DEF RemoveHandle, pool
  <2> QED
    BY <1>3, <1>4, <2>1, OtherUps, AllSurvive, Marks
<1>5. CASE xconn[x] # NoConn
  <2>1. mstate[x] \in Attached
    BY <1>5 DEF IInv, ActiveHasConn
  <2>2. mstate[x] \notin Completed
    BY <2>1 DEF Attached, Connecting, Using, Completed
  <2>3. \E cn \in {conn, CloseStream(x), ConnClose(conn, xconn[x])} : MultiDone(x, cn, TRUE)
    BY <1>5, <2>2 DEF RemoveHandle
  <2>4. Frees(x)
    BY <1>5, <2>3, DoneFrees
  <2>5. xconn'[x] = NoConn /\ \A y \in Easy \ {x} : xconn'[y] = xconn[y]
    BY <2>4 DEF Frees, Detached, IInv, TypeOK
  <2>6. \A y \in Easy : xconn'[y] # NoConn /\ mstate'[y] \notin {"RESOLVING", "CONNECTING"}
          => conn[xconn[y]].up
    BY <1>3, <2>5 DEF Ups
  <2> QED
    BY <2>4, <2>6, FreesUps
<1> QED
  BY <1>4, <1>5

LEMMA NextUps ==
  ASSUME IInv, CInv, Ups, Aborting = {}, [Next]_vars
  PROVE  Ups'
<1>1. IInv' /\ CInv'
  BY NextInv, NextConn
<1>2. conn \in Pools /\ conn \in Survivors(conn)
  BY Marks, AllSurvive
<1>3. ASSUME UNCHANGED <<conn, xconn>>, \A y \in Easy : xconn[y] # NoConn => mstate'[y] = mstate[y]
      PROVE  Ups'
  BY <1>1, <1>2, <1>3, OtherUps
<1>4. ASSUME NEW x \in Easy, AddHandle(x) PROVE Ups'
  <2>1. \A y \in Easy : xconn[y] # NoConn => y # x
    BY <1>4 DEF AddHandle, IInv, ActiveHasConn
  <2> QED
    BY <1>3, <1>4, <2>1 DEF AddHandle, pool, IInv, TypeOK
<1>5. ASSUME NEW x \in Easy,
             \/ VisitPerform(x) \/ VisitDirty(x) \/ Tick(x) \/ CallEvent(x)
      PROVE  Ups'
  BY <1>3, <1>5 DEF VisitPerform, VisitDirty, Tick, CallEvent, MarkExpired, Rest, pool, sets
<1>6. CASE \/ SecondPass \/ InfoRead \/ CallPerform \/ CallTimeout
           \/ CallShutdownEvent
  BY <1>3, <1>6 DEF SecondPass, InfoRead, CallPerform, CallTimeout, CallShutdownEvent,
                    MarkExpired, Rest, pool, sets
<1>7. CASE EndPerform \/ EndSocket
  <2>1. PICK S \in SUBSET Shut(conn), W \in SUBSET pending : EndCall(S) /\ Wake(W)
    BY <1>7, FirstMember DEF EndPerform, EndSocket, WokenBy, Expired
  <2>2. /\ UNCHANGED xconn
        /\ conn' = [c \in Conns |-> IF c \in S THEN ClosedConn ELSE conn[c]]
    BY <2>1 DEF EndCall
  <2>3. conn' \in Survivors(conn)
    <3>1. conn' \in Pools
      BY <1>2, <2>2, ClosedConnType DEF Pools
    <3>2. ClosedConn.st = "closed"
      BY DEF ClosedConn
    <3> QED
      BY <2>2, <3>1, <3>2 DEF Survivors, Live
  <2>4. \A y \in Easy : xconn[y] # NoConn => mstate'[y] = mstate[y]
    <3>1. \A y \in Easy : xconn[y] # NoConn => y \notin pending
      BY DEF IInv, ActiveHasConn, SetsMatchState, Attached, Connecting, Using
    <3> QED
      BY <2>1, <3>1 DEF Wake
  <2> QED
    BY <1>1, <2>2, <2>3, <2>4, OtherUps
<1>8. ASSUME NEW x \in Easy, Handle(x) PROVE Ups'
  BY <1>8, HandleUps
<1>9. ASSUME NEW x \in Easy, RemoveHandle(x) PROVE Ups'
  BY <1>1, <1>9, RemoveHandleUps
<1>10. CASE UNCHANGED vars
  BY <1>3, <1>10 DEF vars
<1> QED
  BY <1>4, <1>5, <1>6, <1>7, <1>8, <1>9, <1>10 DEF Next, Library, Application

LEMMA InitUps == Init => Ups
<1>1. Init => Live(conn) = {}
  BY DEF Init, Live, ClosedConn
<1> QED
  BY <1>1 DEF Init, Ups, IdleIsReusable

\* If no progress callback aborts, a connection that nobody uses is connected and
\* not marked to be closed: the next transfer can find it, and it can be evicted
\* when room is needed (multi_done, cpool_get_oldest_idle).
THEOREM IdleReusable ==
  ASSUME Aborting = {}
  PROVE  Spec => []IdleIsReusable
<1>1. Init => IInv /\ CInv /\ Ups
  BY InitInv, InitConn, InitUps
<1>2. (IInv /\ CInv /\ Ups) /\ [Next]_vars => (IInv /\ CInv /\ Ups)'
  BY NextInv, NextConn, NextUps
<1>3. IInv /\ CInv /\ Ups => IdleIsReusable
  BY DEF Ups
<1> QED
  BY <1>1, <1>2, <1>3, PTL DEF Spec
-----------------------------------------------------------------------------
(* A pending transfer never waits alone, if no progress callback aborts: some *)
(* connection is in use when it is parked, since what is idle would have made *)
(* room, and who ends wakes one of those that wait.                           *)

\* Curl_uint_bset_first finds one: the intervals 0..n of the members are ordered
\* by inclusion, which is well founded.
LEMMA FirstExists ==
  ASSUME NEW S \in SUBSET Nat, S # {}
  PROVE  First(S) # {}
<1> DEFINE T == {0..n : n \in S}
           R == StrictSubsetOrdering(Nat)
<1>1. T \subseteq FiniteSubsetsOf(Nat) /\ T # {}
  <2>1. \A n \in S : 0..n \in SUBSET Nat /\ IsFiniteSet(0..n)
    BY FS_Interval
  <2> QED
    BY <2>1 DEF FiniteSubsetsOf
<1>2. IsWellFoundedOn(R, FiniteSubsetsOf(Nat))
  BY FS_StrictSubsetOrderingWellFounded
<1> HIDE DEF R, T
<1>3. PICK I \in T : \A J \in T : <<J, I>> \notin R
  BY <1>1, <1>2, WFMin
<1> USE DEF T
<1>4. PICK m \in S : I = 0..m
  OBVIOUS
<1>5. ASSUME NEW n \in S, n < m PROVE FALSE
  <2>1. 0..n \subseteq 0..m /\ 0..n # 0..m
    BY <1>5
  <2>2. <<0..n, 0..m>> \in R
    BY <2>1 DEF R, StrictSubsetOrdering
  <2> QED
    BY <1>3, <1>4, <2>2
<1> QED
  BY <1>5 DEF First

\* A pool within the limits in which a connection is closed has room.
LEMMA RoomMade ==
  ASSUME NEW p \in Pools, Within(p), NEW h \in Hosts, NEW c
  PROVE  /\ c \in Taken(p) => ~TotalFull(Terminate(p, c))
         /\ c \in TakenTo(p, h) \/ ~HostFull(p, h) => ~HostFull(Terminate(p, c), h)
<1> DEFINE r == Terminate(p, c)
<1>1. r \in Pools /\ \A d \in Conns : r[d] = IF d = c THEN ClosedConn ELSE p[d]
  BY TerminateType DEF Terminate, Pools
<1> HIDE DEF r
<1>2. Live(r) = Live(p) \ {c} /\ Shut(r) = Shut(p) \ {c}
  BY <1>1 DEF Live, Shut, ClosedConn
<1>3. LiveTo(r, h) = LiveTo(p, h) \ {c} /\ ShutTo(r, h) = ShutTo(p, h) \ {c}
  BY <1>1, <1>2 DEF LiveTo, ShutTo, Live, Shut
<1>4. /\ Taken(r) = Taken(p) \ {c} /\ TakenTo(r, h) = TakenTo(p, h) \ {c}
      /\ TakenTo(p, h) \subseteq Taken(p)
  BY <1>2, <1>3 DEF Taken, TakenTo, LiveTo, ShutTo
<1>5. IsFiniteSet(Taken(p)) /\ IsFiniteSet(TakenTo(p, h)) /\ IsFiniteSet(Taken(r))
  BY <1>4, TakenCounted, FS_Subset DEF Within
<1>6. ASSUME NEW S, IsFiniteSet(S)
      PROVE  /\ Cardinality(S \ {c}) = IF c \in S THEN Cardinality(S) - 1 ELSE Cardinality(S)
             /\ Cardinality(S) \in Nat
  BY <1>6, FS_RemoveElement, FS_CardinalityType
<1>7. /\ TotalFull(r) <=> TotalLimit > 0 /\ Cardinality(Taken(r)) >= TotalLimit
      /\ HostFull(r, h) <=> HostLimit > 0 /\ Cardinality(TakenTo(r, h)) >= HostLimit
      /\ HostFull(p, h) <=> HostLimit > 0 /\ Cardinality(TakenTo(p, h)) >= HostLimit
  BY <1>1, <1>5, TakenCounted DEF TotalFull, HostFull
<1>8. /\ TotalLimit > 0 => Cardinality(Taken(p)) <= TotalLimit
      /\ HostLimit > 0 => Cardinality(TakenTo(p, h)) <= HostLimit
  BY DEF Within
<1>9. c \in Taken(p) => ~TotalFull(r)
  BY <1>4, <1>5, <1>6, <1>7, <1>8, PoolAssumption
<1>10. c \in TakenTo(p, h) \/ ~HostFull(p, h) => ~HostFull(r, h)
  BY <1>4, <1>5, <1>6, <1>7, <1>8, PoolAssumption
<1> QED
  BY <1>9, <1>10 DEF r

\* A full pool has a connection to close.
LEMMA FullIsTaken ==
  ASSUME NEW p \in Pools, Within(p), NEW h
  PROVE  /\ HostFull(p, h) => TakenTo(p, h) # {}
         /\ TotalFull(p) => Taken(p) # {}
<1>1. /\ IsFiniteSet(Taken(p)) /\ IsFiniteSet(TakenTo(p, h))
      /\ Cardinality(LiveTo(p, h)) + Cardinality(ShutTo(p, h)) = Cardinality(TakenTo(p, h))
      /\ Cardinality(Live(p)) + Cardinality(Shut(p)) = Cardinality(Taken(p))
  BY TakenCounted DEF Within
<1>2. /\ TakenTo(p, h) = {} => Cardinality(TakenTo(p, h)) = 0
      /\ Taken(p) = {} => Cardinality(Taken(p)) = 0
  BY FS_EmptySet
<1> QED
  BY <1>1, <1>2, PoolAssumption DEF HostFull, TotalFull

\* When a limit is still reached after Curl_cpool_check_limits has made what room
\* it can, some connection is in use.
LEMMA LimitsInUse ==
  ASSUME IInv, CInv, LimitsInv, Ups, NEW cn \in Smaller(conn), cn \in Survivors(conn),
         NEW h \in Hosts, NEW q \in CheckLimits(cn, InUse, h), LimitReached(q, h)
  PROVE  InUse # {}
<1> SUFFICES ASSUME InUse = {} PROVE FALSE
  OBVIOUS
<1>1. conn \in Pools
  BY Marks
<1>2. ASSUME NEW p \in Smaller(conn), p \in Survivors(conn)
      PROVE  /\ p \in Pools /\ Within(p)
             /\ OldestIdle(p, {}) = Live(p) /\ OldestIdleTo(p, {}, h) = LiveTo(p, h)
             /\ \A c : Terminate(p, c) \in Smaller(conn) /\ Terminate(p, c) \in Survivors(conn)
  <2>1. p \in Pools /\ Within(p)
    BY SmallerWithin DEF Smaller
  <2>2. ASSUME NEW c \in Live(p) PROVE ~p[c].close
    <3>1. c \in Live(conn) /\ p[c] = conn[c]
      BY <1>1, <1>2, SurvivorsTwice DEF Survivors
    <3> QED
      BY <3>1 DEF Ups, IdleIsReusable
  <2>3. \A c : Terminate(p, c) \in Smaller(conn) /\ Terminate(p, c) \in Survivors(conn)
    BY <1>1, <1>2, <2>1, TerminateSmaller, SmallerTwice, TerminateSurvivors, SurvivorsTwice
  <2> QED
    BY <2>1, <2>2, <2>3 DEF OldestIdle, OldestIdleTo
<1>3. PICK cn1 \in HostRoom(cn, {}, h) : q \in TotalRoom(cn1, {}, h)
  BY DEF CheckLimits
<1>4. ~HostFull(cn1, h) /\ cn1 \in Smaller(conn) /\ cn1 \in Survivors(conn)
  <2>1. CASE ~HostFull(cn, h)
    BY <1>3, <2>1 DEF HostRoom
  <2>2. CASE HostFull(cn, h)
    <3>1. ShutTo(cn, h) \cup LiveTo(cn, h) # {} /\ TakenTo(cn, h) = ShutTo(cn, h) \cup LiveTo(cn, h)
      BY <1>2, <2>2, FullIsTaken DEF TakenTo
    <3>2. \E c \in TakenTo(cn, h) : cn1 = Terminate(cn, c)
      BY <1>2, <1>3, <2>2, <3>1 DEF HostRoom, CloseOne
    <3> QED
      BY <1>2, <3>2, RoomMade
  <2> QED
    BY <2>1, <2>2
<1>5. ~HostFull(q, h) /\ ~TotalFull(q)
  <2>1. CASE ~TotalFull(cn1)
    BY <1>3, <1>4, <2>1 DEF TotalRoom
  <2>2. CASE TotalFull(cn1)
    <3>1. Shut(cn1) \cup Live(cn1) # {} /\ Taken(cn1) = Shut(cn1) \cup Live(cn1)
      BY <1>2, <1>4, <2>2, FullIsTaken DEF Taken
    <3>2. \E c \in Taken(cn1) : q = Terminate(cn1, c)
      BY <1>2, <1>3, <1>4, <2>2, <3>1 DEF TotalRoom, CloseOne
    <3> QED
      BY <1>2, <1>4, <3>2, RoomMade
  <2> QED
    BY <2>1, <2>2
<1> QED
  BY <1>5 DEF LimitReached

\* A transfer is parked for want of a connection that some other one has.
LEMMA WaitsForOthers ==
  ASSUME IInv, CInv, LimitsInv, Ups, NEW x \in Easy, Handle(x), WaitForConn(x)
  PROVE  process \ {x} # {}
<1>1. xconn[x] = NoConn
  BY StartsFree DEF WaitForConn
<1>2. HostOf[x] \in Hosts /\ conn \in Pools
  BY MultiAssumption, Marks
<1>3. InUse # {}
  <2>1. \/ \E cn \in Unmatched(x) : MustWait(cn, x)
        \/ \E cn \in Unmatched(x) : \E q \in CheckLimits(cn, InUse, HostOf[x]) :
             LimitReached(q, HostOf[x])
    BY DEF WaitForConn, Roomy
  <2>2. CASE \E cn \in Unmatched(x) : MustWait(cn, x)
    <3>1. PICK cn \in Survivors(conn) : \E c \in Matching(cn, x) : ~cn[c].up
      BY <2>2, StartingSurvivors DEF MustWait
    <3>2. PICK c \in Matching(cn, x) : ~cn[c].up
      BY <3>1
    <3>3. c \in Live(cn)
      BY DEF Matching, LiveTo
    <3>4. c \in Live(conn) /\ ~conn[c].up
      BY <1>2, <3>1, <3>2, <3>3, SurvivorsTwice DEF Survivors
    <3> QED
      BY <3>4 DEF Ups, IdleIsReusable
  <2>3. ASSUME NEW cn \in Unmatched(x), NEW q \in CheckLimits(cn, InUse, HostOf[x]),
               LimitReached(q, HostOf[x])
        PROVE  InUse # {}
    BY <1>2, <2>3, StartingSurvivors, StartingSmaller, LimitsInUse
  <2> QED
    BY <2>1, <2>2, <2>3
<1>4. PICK y \in Easy : xconn[y] \in Conns
  BY <1>3 DEF InUse, Users
<1>5. xconn[y] # NoConn /\ y # x
  BY <1>1, <1>4, MultiAssumption
<1>6. y \in added /\ mstate[y] \in Attached
  BY <1>5 DEF IInv, ActiveHasConn
<1>7. y \in process
  BY <1>6 DEF IInv, SetsMatchState, Attached, Connecting, Using, Completed
<1> QED
  BY <1>5, <1>7

\* But for the steps that park or end a transfer, none takes one out of process.
LEMMA StaysInProcess ==
  ASSUME IInv, Aborting = {}, NEW x \in Easy, Handle(x),
         ~WaitForConn(x), ~Done(x), ~Failed(x), ~Complete(x)
  PROVE  process \subseteq process' /\ pending' \subseteq pending
<1>1. ASSUME NEW W, Wake(W) PROVE process \subseteq process' /\ pending' \subseteq pending
  BY <1>1 DEF Wake
<1>2. ASSUME NEW s, NEW W, Move(x, s, W)
      PROVE  process \subseteq process' /\ pending' \subseteq pending
  BY <1>2 DEF Move
<1>3. UNCHANGED sets => process \subseteq process' /\ pending' \subseteq pending
  BY DEF sets
<1>4. CASE InitFails(x) \/ ReuseConn(x) \/ OpenConn(x) \/ ConnectFails(x)
  BY <1>2, <1>3, <1>4 DEF InitFails, ReuseConn, OpenConn, ConnectFails
<1>5. CASE \/ Resolving(x) \/ ResolveFails(x) \/ AwaitConnect(x) \/ ComesUp(x)
           \/ IsUp(x) \/ ConnectionFails(x) \/ ProtoConnect(x)
           \/ ProtoConnecting(x) \/ ProtocolFails(x)
  BY <1>1, <1>2, <1>3, <1>5
  DEF Resolving, ResolveFails, AwaitConnect, ComesUp, IsUp, ConnectionFails,
      ProtoConnect, ProtoConnecting, ProtocolFails, Stay, Advance, FailDone
<1>6. CASE \/ Do(x) \/ DoRetries(x) \/ DoFails(x) \/ Doing(x) \/ DoingMore(x) \/ Did(x)
  BY <1>1, <1>2, <1>3, <1>6
  DEF Do, DoRetries, DoFails, Doing, DoingMore, Did, Stay, Advance, FailDone, Again
<1>7. CASE \/ Transfers(x) \/ Received(x) \/ Redirected(x) \/ FollowFails(x)
           \/ TransferFails(x) \/ Unlimited(x)
  BY <1>1, <1>2, <1>3, <1>7
  DEF Transfers, Received, Redirected, FollowFails, TransferFails, Unlimited,
      Stay, Advance, FailDone, Again
<1>8. CASE \/ Recheck(x) \/ TopTimeout(x) \/ Parked(x) \/ LateTimeout(x)
           \/ AbortToDone(x) \/ AbortInDone(x) \/ Loop(x)
  BY <1>1, <1>2, <1>3, <1>8
  DEF Recheck, TopTimeout, Parked, LateTimeout, HandleTimeout, AbortToDone,
      AbortInDone, MayAbort, Loop, Stay
<1> QED
  BY <1>4, <1>5, <1>6, <1>7, <1>8 DEF Handle

NoneWaitsAlone == pending # {} => process # {}

\* A transfer that ends wakes one of those that wait.
LEMMA HandleWakes ==
  ASSUME IInv, CInv, LimitsInv, Ups, Aborting = {}, NoneWaitsAlone,
         NEW x \in Easy, Handle(x)
  PROVE  NoneWaitsAlone'
<1>1. Ready(x) /\ Holding(x)
  BY HandleIsCur, Holds DEF Holding
<1>2. First(pending) \subseteq pending /\ (pending # {} => First(pending) # {})
  <2>1. pending \in SUBSET Nat
    BY MultiAssumption DEF IInv, TypeOK
  <2> QED
    BY <2>1, FirstExists, FirstMember
<1>3. ASSUME NEW W, W = First(pending), x \notin pending,
             process' = (process \cup W) \ {x}, pending' \subseteq pending
      PROVE  NoneWaitsAlone'
  BY <1>2, <1>3 DEF NoneWaitsAlone
<1>4. CASE WaitForConn(x)
  <2>1. process' = process \ {x}
    BY <1>4 DEF WaitForConn, Park
  <2> QED
    BY <1>4, <2>1, WaitsForOthers DEF NoneWaitsAlone
<1>5. CASE Done(x)
  <2>1. xconn[x] # NoConn /\ x \notin pending
    <3>1. mstate[x] = "DONE" /\ phase = "top"
      BY <1>5 DEF Done, Run, AtTop
    <3> QED
      BY <1>1, <3>1 DEF Holding, Ready, Attached, Using
  <2>2. process' = (process \cup First(pending)) \ {x} /\ pending' = pending \ First(pending)
    BY <1>5, <2>1 DEF Done, WokenByDone
  <2> QED
    BY <1>3, <2>1, <2>2
<1>6. CASE Failed(x)
  <2>1. result = "err"
    BY <1>6 DEF Failed
  <2>2. x \notin pending
    BY <1>1, <2>1 DEF Ready
  <2>3. /\ process' = (process \cup First(pending)) \ {x}
        /\ pending' = pending \ (First(pending) \cup {x})
    BY <1>6 DEF Failed, Finish
  <2> QED
    BY <1>3, <2>2, <2>3
<1>7. CASE Complete(x)
  <2>1. mstate[x] = "COMPLETED"
    BY <1>7 DEF Complete
  <2>2. x \notin process
    BY <1>1, <2>1 DEF Ready, Running, Completed
  <2>3. process' = process \ {x} /\ pending' = pending \ {x}
    BY <1>7 DEF Complete, Finish
  <2> QED
    BY <2>2, <2>3 DEF NoneWaitsAlone
<1> QED
  BY <1>4, <1>5, <1>6, <1>7, StaysInProcess DEF NoneWaitsAlone

LEMMA NextWakes ==
  ASSUME IInv, CInv, LimitsInv, Ups, Aborting = {}, NoneWaitsAlone, [Next]_vars
  PROVE  NoneWaitsAlone'
<1>1. ASSUME process \subseteq process', pending' \subseteq pending PROVE NoneWaitsAlone'
  BY <1>1 DEF NoneWaitsAlone
<1>2. ASSUME NEW x \in Easy, AddHandle(x) PROVE NoneWaitsAlone'
  BY <1>1, <1>2 DEF AddHandle
<1>3. ASSUME NEW x \in Easy, RemoveHandle(x) PROVE NoneWaitsAlone'
  <2> DEFINE w1 == WokenByDone(x)
             W == w1 \cup First(pending \ (w1 \cup {x}))
  <2>1. process' = (process \cup W) \ {x} /\ pending' = pending \ (W \cup {x})
    BY <1>3 DEF RemoveHandle
  <2>2. SUFFICES ASSUME pending' # {} PROVE process' # {}
    BY DEF NoneWaitsAlone
  <2>3. pending \ (w1 \cup {x}) # {} /\ pending \ (w1 \cup {x}) \in SUBSET Nat
    BY <2>1, <2>2, MultiAssumption DEF IInv, TypeOK
  <2> HIDE DEF w1
  <2>4. \E y : y \in First(pending \ (w1 \cup {x}))
    BY <2>3, FirstExists
  <2>5. \A y \in First(pending \ (w1 \cup {x})) : y # x
    BY FirstMember
  <2> QED
    BY <2>1, <2>4, <2>5
<1>4. ASSUME NEW x \in Easy, VisitPerform(x) \/ VisitDirty(x) \/ Tick(x) \/ CallEvent(x)
      PROVE  NoneWaitsAlone'
  BY <1>1, <1>4 DEF VisitPerform, VisitDirty, Tick, CallEvent, MarkExpired, sets
<1>5. CASE \/ SecondPass \/ InfoRead \/ CallPerform \/ CallTimeout
           \/ CallShutdownEvent \/ UNCHANGED vars
  BY <1>1, <1>5 DEF SecondPass, InfoRead, CallPerform, CallTimeout, CallShutdownEvent,
                    MarkExpired, sets, vars
<1>6. CASE EndPerform \/ EndSocket
  BY <1>1, <1>6 DEF EndPerform, EndSocket, Wake
<1>7. ASSUME NEW x \in Easy, Handle(x) PROVE NoneWaitsAlone'
  BY <1>7, HandleWakes
<1> QED
  BY <1>2, <1>3, <1>4, <1>5, <1>6, <1>7 DEF Next, Library, Application

\* If no progress callback aborts, a transfer that is pending never waits for
\* nothing: some other one is in process, whose progress wakes one that waits.
THEOREM NobodyWaitsAlone ==
  ASSUME Aborting = {}
  PROVE  Spec => []PendingNeverAlone
<1> DEFINE I == IInv /\ CInv /\ LimitsInv /\ Ups /\ NoneWaitsAlone
<1>1. Init => I
  BY InitInv, InitConn, InitLimits, InitUps DEF Init, NoneWaitsAlone
<1>2. I /\ [Next]_vars => I'
  BY NextInv, NextConn, NextLimits, NextUps, NextWakes
<1>3. I => PendingNeverAlone
  BY DEF NoneWaitsAlone, PendingNeverAlone
<1> QED
  BY <1>1, <1>2, <1>3, PTL DEF Spec
-----------------------------------------------------------------------------
(* The multi implements the service: each step of it is one of the service's *)
(* or changes nothing the service shows.                                     *)

(* The queue of messages *)

LEMMA DropAtIs ==
  ASSUME NEW s \in Seq(Easy), NEW k \in 1..Len(s)
  PROVE  /\ DropAt(s, k) \in Seq(Easy) /\ Len(DropAt(s, k)) = Len(s) - 1
         /\ \A i \in 1..(Len(s) - 1) :
              DropAt(s, k)[i] = IF i < k THEN s[i] ELSE s[i + 1]
         /\ DropAt(s, k) = SubSeq(s, 1, k - 1) \o SubSeq(s, k + 1, Len(s))
<1> DEFINE d == [i \in 1..(Len(s) - 1) |-> IF i < k THEN s[i] ELSE s[i + 1]]
           l == SubSeq(s, 1, k - 1)
           r == SubSeq(s, k + 1, Len(s))
<1>1. Len(s) \in Nat /\ Len(s) - 1 \in Nat /\ k \in 1..Len(s)
  OBVIOUS
<1>2. d \in Seq(Easy) /\ Len(d) = Len(s) - 1
  <2>1. \A i \in 1..(Len(s) - 1) : (IF i < k THEN s[i] ELSE s[i + 1]) \in Easy
    BY <1>1
  <2>2. d \in [1..(Len(s) - 1) -> Easy]
    BY <2>1
  <2> QED
    BY <1>1, <2>2
<1>3. /\ l \in Seq(Easy) /\ Len(l) = k - 1
      /\ \A i \in 1..(k - 1) : l[i] = s[i]
  BY <1>1, SubSeqProperties
<1>4. /\ r \in Seq(Easy) /\ Len(r) = Len(s) - k
      /\ \A i \in 1..(Len(s) - k) : r[i] = s[k + i]
  BY <1>1, SubSeqProperties
<1> HIDE DEF l, r
<1>5. l \o r \in Seq(Easy) /\ Len(l \o r) = Len(s) - 1
  BY <1>1, <1>3, <1>4
<1>6. \A i \in 1..(Len(s) - 1) : (l \o r)[i] = IF i < k THEN s[i] ELSE s[i + 1]
  BY <1>1, <1>3, <1>4
<1>7. d = l \o r
  <2>1. \A i \in 1..Len(d) : d[i] = (l \o r)[i]
    BY <1>2, <1>6
  <2> HIDE DEF d
  <2> QED
    BY <1>2, <1>5, <2>1, SeqEqual
<1> QED
  BY <1>2, <1>7 DEF DropAt, l, r

\* Each message is about a transfer that is done, and none about the same.
Reported ==
  /\ \A i, j \in 1..Len(msglist) : msglist[i] = msglist[j] => i = j
  /\ \A i \in 1..Len(msglist) : msglist[i] \in msgsent

\* The message of a transfer that is removed is dropped, and no other one.
LEMMA RemovedUnread ==
  ASSUME IInv, Reported, NEW x \in Easy, msglist' \in Unread(x), msgsent' = msgsent \ {x}
  PROVE  Reported' /\ Service!Withdraw(x)
<1> DEFINE own == {i \in 1..Len(msglist) : msglist[i] = x}
<1>1. msglist \in Seq(Easy)
  BY DEF IInv, TypeOK
<1>2. CASE own = {}
  <2>1. msglist' = msglist
    BY <1>2 DEF Unread
  <2> QED
    BY <1>2, <2>1 DEF Reported, Service!Withdraw
<1>3. CASE own # {}
  <2>1. PICK k \in First(own) : msglist' = DropAt(msglist, k)
    BY <1>3 DEF Unread
  <2>2. k \in 1..Len(msglist) /\ msglist[k] = x
    BY FirstMember
  <2>3. /\ Len(msglist') = Len(msglist) - 1
        /\ msglist' = SubSeq(msglist, 1, k - 1) \o SubSeq(msglist, k + 1, Len(msglist))
        /\ \A i \in 1..Len(msglist') : msglist'[i] = IF i < k THEN msglist[i]
                                                     ELSE msglist[i + 1]
    BY <1>1, <2>1, <2>2, DropAtIs
  <2> DEFINE from(i) == IF i < k THEN i ELSE i + 1
  <2>4. Len(msglist) \in Nat
    BY <1>1
  <2>5. \A i \in 1..Len(msglist') : msglist'[i] = msglist[from(i)]
    BY <2>3
  <2>6. \A i \in 1..Len(msglist') : from(i) \in (1..Len(msglist)) \ {k}
    BY <2>2, <2>3, <2>4
  <2>7. \A i, j \in 1..Len(msglist') : from(i) = from(j) => i = j
    BY <2>2, <2>3, <2>4
  <2> HIDE DEF from
  <2>8. \A i \in 1..Len(msglist') : msglist'[i] # x /\ msglist'[i] \in msgsent
    BY <2>2, <2>5, <2>6 DEF Reported
  <2>9. \A i, j \in 1..Len(msglist') : msglist'[i] = msglist'[j] => i = j
    BY <2>5, <2>6, <2>7 DEF Reported
  <2> QED
    BY <2>2, <2>3, <2>8, <2>9 DEF Reported, Service!Withdraw
<1> QED
  BY <1>2, <1>3

LEMMA NextReported == ASSUME IInv, Reported, [Next]_vars PROVE Reported'
<1>1. msglist \in Seq(Easy) /\ msgsent \subseteq added
  BY DEF IInv, TypeOK, SetsMatchState
<1>2. ASSUME UNCHANGED <<msgsent, msglist>> PROVE Reported'
  BY <1>2 DEF Reported
<1>3. ASSUME NEW x \in Easy, Handle(x) PROVE Reported'
  <2>1. Kept \/ Finishes(x)
    BY <1>3, HandleShape DEF Shape, Stands, Wakes, Moves, Parks, Ends
  <2>2. CASE Finishes(x)
    <3>1. msglist' = Append(msglist, x) /\ msgsent' = msgsent \cup {x} /\ x \notin msgsent
      BY <2>2 DEF Finishes
    <3>2. /\ Len(msglist') = Len(msglist) + 1 /\ msglist'[Len(msglist) + 1] = x
          /\ \A i \in 1..Len(msglist) : msglist'[i] = msglist[i]
      BY <1>1, <3>1
    <3> QED
      BY <1>1, <3>1, <3>2 DEF Reported
  <2> QED
    BY <1>2, <2>1, <2>2 DEF Kept
<1>4. ASSUME NEW x \in Easy, RemoveHandle(x) PROVE Reported'
  BY <1>4, RemovedUnread DEF RemoveHandle
<1>5. CASE InfoRead
  <2>1. msglist' = Tail(msglist) /\ msglist # <<>> /\ msgsent' = msgsent
    BY <1>5 DEF InfoRead
  <2>2. /\ Len(msglist') = Len(msglist) - 1
        /\ \A i \in 1..Len(msglist') : msglist'[i] = msglist[i + 1]
    BY <1>1, <2>1
  <2> QED
    BY <1>1, <2>1, <2>2 DEF Reported
<1>6. ASSUME NEW x \in Easy,
             AddHandle(x) \/ Tick(x) \/ CallEvent(x) \/ VisitPerform(x) \/ VisitDirty(x)
      PROVE  Reported'
  BY <1>2, <1>6 DEF AddHandle, Tick, CallEvent, VisitPerform, VisitDirty, Rest, done
<1>7. CASE \/ SecondPass \/ EndPerform \/ EndSocket \/ CallPerform \/ CallTimeout
           \/ CallShutdownEvent \/ UNCHANGED vars
  BY <1>2, <1>7 DEF SecondPass, EndPerform, EndSocket, EndCall, CallPerform,
                    CallTimeout, CallShutdownEvent, Rest, done, vars
<1> QED
  BY <1>3, <1>4, <1>5, <1>6, <1>7 DEF Next, Library, Application

\* The application is told once of each transfer, and only of ones that are done.
THEOREM ReportedOnce == Spec => []Reported
<1>1. Init => IInv /\ Reported
  BY InitInv DEF Init, Reported
<1>2. (IInv /\ Reported) /\ [Next]_vars => (IInv /\ Reported)'
  BY NextInv, NextReported
<1> QED
  BY <1>1, <1>2, PTL DEF Spec

(* The steps *)

LEMMA StageOf ==
  ASSUME IInv, NEW x \in Easy
  PROVE  /\ Stage[x] \in {"out", "running", "done"}
         /\ Stage[x] = "out" <=> x \notin added
         /\ Stage[x] = "running" <=> x \in added \ msgsent
BY DEF Stage

\* A step that takes no connection and ends no transfer
LEMMA ShowsNothing ==
  ASSUME UNCHANGED <<added, msgsent, alive, msglist, xconn>>
  PROVE  UNCHANGED Service!vars
BY DEF Service!vars, Stage

LEMMA ReleaseStep ==
  ASSUME IInv, NEW x \in Easy, Kept, xconn' = Detached(x)
  PROVE  Service!Release(x) \/ UNCHANGED Service!vars
<1>1. Stage' = Stage /\ UNCHANGED <<alive, msglist>>
  BY DEF Kept, Stage
<1>2. xconn[x] = NoConn => xconn' = xconn
  BY DEF Detached, IInv, TypeOK
<1> QED
  BY <1>1, <1>2 DEF Service!Release, Service!vars, Detached

\* A transfer that starts gets a connection of its own, or one it may share.
LEMMA AcquireStep ==
  ASSUME IInv, CInv, NEW x \in Easy, Handle(x), ReuseConn(x) \/ OpenConn(x)
  PROVE  \E c \in Conns : Service!Acquire(x, c)
<1>1. Kept /\ Connects(x) /\ xconn[x] = NoConn
  <2>1. Connects(x)
    BY DEF ReuseConn, OpenConn
  <2>2. UNCHANGED done /\ UNCHANGED call_
    BY <2>1 DEF Connects, Starting, Run, AtTop
  <2> QED
    BY <2>1, <2>2, StartsFree DEF Kept, done, call_
<1>2. Stage[x] = "running" /\ Stage' = Stage
  <2>1. Ready(x)
    BY HandleIsCur, Readiness
  <2> QED
    BY <1>1, <2>1 DEF Kept, Stage, Ready
<1>3. \E c \in Conns :
        /\ xconn' = [xconn EXCEPT ![x] = c]
        /\ \/ c \notin InUse
           \/ /\ c \in InUse /\ x \in Multiplex /\ conn[c].mux
              /\ Cardinality(Users(c)) < MaxStreams
  <2>1. CASE OpenConn(x)
    <3>1. PICK cn \in Untouched(conn, InUse), c \in Conns :
            cn[c].st = "closed" /\ xconn' = [xconn EXCEPT ![x] = c]
      BY <2>1, StartingLeaves, FirstMember DEF OpenConn, Attach
    <3>2. \A d \in InUse : cn[d].st = "live"
      BY InUseLive DEF Untouched, Live
    <3> QED
      BY <3>1, <3>2
  <2>2. CASE ReuseConn(x)
    <3>1. PICK cn \in Untouched(conn, InUse) :
            \E c \in IdleMatches(cn, x) \cup SharedMatches(cn, x) :
              xconn' = [xconn EXCEPT ![x] = c]
      BY <2>2, StartingLeaves DEF ReuseConn, Attach
    <3>2. PICK c \in IdleMatches(cn, x) \cup SharedMatches(cn, x) :
            xconn' = [xconn EXCEPT ![x] = c]
      BY <3>1
    <3>3. /\ c \in Conns
          /\ \/ c \notin InUse
             \/ /\ c \in InUse /\ x \in Multiplex /\ cn[c].mux
                /\ Cardinality(Users(c)) < MaxStreams
      BY DEF IdleMatches, SharedMatches, Matching, LiveTo, Live
    <3>4. c \in InUse => conn[c].mux = cn[c].mux
      BY DEF Untouched
    <3> QED
      BY <3>2, <3>3, <3>4
  <2> QED
    BY <2>1, <2>2
<1>4. PICK c \in Conns :
        /\ xconn' = [xconn EXCEPT ![x] = c]
        /\ \/ c \notin InUse
           \/ /\ c \in InUse /\ x \in Multiplex /\ conn[c].mux
              /\ Cardinality(Users(c)) < MaxStreams
  BY <1>3
<1>5. Users(c) = Service!Holders(c)
  BY DEF Users, Service!Holders
<1>6. c \notin InUse => Users(c) = {}
  BY DEF InUse
<1>7. conn[c].mux => Users(c) \subseteq Multiplex
  <2>1. c # NoConn
    BY MultiAssumption
  <2> QED
    BY <2>1 DEF CInv, Sharing, Users
<1>8. Service!Acquire(x, c)
  <2>1. \/ Service!Holders(c) = {}
        \/ /\ Service!Holders(c) \cup {x} \subseteq Multiplex
           /\ Cardinality(Service!Holders(c)) < MaxStreams
    BY <1>4, <1>5, <1>6, <1>7
  <2>2. UNCHANGED <<Stage, alive, msglist>> /\ xconn' = [xconn EXCEPT ![x] = c]
    BY <1>1, <1>2, <1>4 DEF Kept
  <2>3. Service!Cardinality(Service!Holders(c)) = Cardinality(Service!Holders(c))
    BY DEF Service!Cardinality, Cardinality
  <2> QED
    BY <1>1, <1>2, <2>1, <2>2, <2>3 DEF Service!Acquire
<1> QED
  BY <1>8

\* A transfer that ends has let go of its connection.
LEMMA FinishStep ==
  ASSUME IInv, NEW x \in Easy, Handle(x), Finishes(x), IInv'
  PROVE  Service!Finish(x)
<1>1. Stage[x] = "running" /\ Stage' = [Stage EXCEPT ![x] = "done"]
  BY DEF Finishes, Stage
<1>2. xconn' = [xconn EXCEPT ![x] = NoConn]
  <2>1. \A y \in Easy \ {x} : xconn'[y] = xconn[y]
    BY HandleSettled DEF Settled
  <2>2. xconn'[x] = NoConn
    <3>1. mstate'[x] = "MSGSENT"
      BY FirstMember DEF Finishes
    <3> QED
      BY <3>1 DEF IInv, ActiveHasConn, Attached, Connecting, Using
  <2> QED
    BY <2>1, <2>2 DEF IInv, TypeOK
<1> QED
  BY <1>1, <1>2 DEF Finishes, Service!Finish

LEMMA HandleImplements ==
  ASSUME IInv, CInv, NEW x \in Easy, Handle(x), IInv'
  PROVE  [Service!Next]_(Service!vars)
<1>1. Kept \/ Finishes(x)
  BY HandleShape DEF Shape, Stands, Wakes, Moves, Parks, Ends
<1>2. CASE Finishes(x)
  BY <1>2, FinishStep DEF Service!Next
<1>3. CASE ReuseConn(x) \/ OpenConn(x)
  BY <1>3, AcquireStep DEF Service!Next
<1>4. CASE Kept /\ (Retains(x) \/ ComesUp(x))
  BY <1>4, ShowsNothing DEF Kept, Retains, ComesUp
<1>5. CASE Kept /\ Loses(x)
  BY <1>5, ReleaseStep DEF Loses, Service!Next
<1> QED
  BY <1>1, <1>2, <1>3, <1>4, <1>5, StepConn

LEMMA AddImplements ==
  ASSUME IInv, NEW x \in Easy, AddHandle(x)
  PROVE  Service!Add(x)
<1>1. msgsent \subseteq added
  BY DEF IInv, SetsMatchState
<1>2. Stage[x] = "out" /\ Stage' = [Stage EXCEPT ![x] = "running"]
  BY <1>1 DEF AddHandle, Stage
<1> QED
  BY <1>2 DEF AddHandle, pool, Service!Add

LEMMA RemoveImplements ==
  ASSUME IInv, Reported, NEW x \in Easy, RemoveHandle(x)
  PROVE  Service!Remove(x)
<1>1. Stage[x] # "out" /\ Stage' = [Stage EXCEPT ![x] = "out"]
  BY DEF RemoveHandle, Stage
<1>2. xconn' = [xconn EXCEPT ![x] = NoConn]
  BY DEF RemoveHandle, MultiDone, Detached, pool, IInv, TypeOK
<1>3. alive' = IF Stage[x] = "running" THEN alive - 1 ELSE alive
  BY DEF RemoveHandle, AliveWithout, Stage
<1>4. Service!Withdraw(x)
  BY RemovedUnread DEF RemoveHandle
<1> QED
  BY <1>1, <1>2, <1>3, <1>4 DEF Service!Remove

LEMMA NextImplements ==
  ASSUME IInv, CInv, Reported, [Next]_vars, IInv'
  PROVE  [Service!Next]_(Service!vars)
<1>1. ASSUME NEW x \in Easy, AddHandle(x) \/ RemoveHandle(x) \/ Handle(x)
      PROVE  [Service!Next]_(Service!vars)
  BY <1>1, AddImplements, RemoveImplements, HandleImplements DEF Service!Next
<1>2. CASE InfoRead
  <2>1. UNCHANGED <<added, msgsent, alive, xconn>>
    BY <1>2 DEF InfoRead, pool
  <2> QED
    BY <1>2, <2>1 DEF InfoRead, Stage, Service!Read, Service!Next
<1>3. ASSUME NEW x \in Easy, Tick(x) \/ CallEvent(x) \/ VisitPerform(x) \/ VisitDirty(x)
      PROVE  [Service!Next]_(Service!vars)
  BY <1>3, ShowsNothing DEF Tick, CallEvent, VisitPerform, VisitDirty, Rest, done, pool
<1>4. CASE \/ SecondPass \/ EndPerform \/ EndSocket \/ CallPerform \/ CallTimeout
           \/ CallShutdownEvent \/ UNCHANGED vars
  BY <1>4, ShowsNothing DEF SecondPass, EndPerform, EndSocket, EndCall, CallPerform,
                            CallTimeout, CallShutdownEvent, Rest, done, pool, vars
<1> QED
  BY <1>1, <1>2, <1>3, <1>4 DEF Next, Library, Application

\* What the application sees of the multi is the transfer service: a transfer runs
\* until it is done, is reported once, and no more after its removal; the number it is
\* told is that of the running ones; a transfer that is done holds no connection, and
\* one connection is held by several only if they may share it.
THEOREM Implemented == Spec => ImplementsService
<1> DEFINE I == IInv /\ CInv /\ Reported
<1>1. Init => I
  BY InitInv, InitConn DEF Init, Reported
<1>2. I /\ [Next]_vars => I'
  BY NextInv, NextConn, NextReported
<1>3. Init => Service!Init
  BY DEF Init, Service!Init, Stage
<1>4. I /\ [Next]_vars /\ I' => [Service!Next]_(Service!vars)
  BY NextImplements
<1> QED
  BY <1>1, <1>2, <1>3, <1>4, PTL DEF Spec, ImplementsService, Service!Spec
=============================================================================
