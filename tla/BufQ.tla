-------------------------------- MODULE BufQ --------------------------------
(***************************************************************************)
(* The queue of bytes in chunks (lib/bufq.c) between two sides that write  *)
(* and read at their own pace.  Empty chunks are kept as spares, by the    *)
(* queue or by a pool that it shares with other queues.                    *)
(*                                                                         *)
(* A byte is its number in the stream that is written.  One action is one  *)
(* turn of the loop in a call; Curl_bufq_write_pass is a sequence of the   *)
(* other calls.                                                            *)
(***************************************************************************)
EXTENDS BufQState

-----------------------------------------------------------------------------
Empty == [r |-> 0, data |-> <<>>]
Lesser(a, b) == IF a < b THEN a ELSE b

Idle == [call |-> "none", left |-> 0]

WithTail == IF HasTail THEN chunks ELSE Append(chunks, Empty)

\* get_spare, when there is no tail to write to
TakeSpare ==
  IF HasTail THEN UNCHANGED <<spare, count, pool>>
  ELSE IF spare > 0 THEN spare' = spare - 1 /\ UNCHANGED <<count, pool>>
  ELSE /\ count' = count + 1
       /\ pool' = IF opts.pooled /\ pool > 0 THEN pool - 1 ELSE pool
       /\ UNCHANGED spare

\* the next n bytes of the stream are appended to the tail
Filled(n) == [WithTail EXCEPT ![Len(WithTail)].data = @ \o [i \in 1..n |-> put + i]]
TailRoom == Room(WithTail[Len(WithTail)])

-----------------------------------------------------------------------------
Init ==
  /\ opts \in QueueOptions
  /\ chunks = <<>> /\ spare = 0 /\ count = 0 /\ pool \in 0..SpareMax
  /\ put = 0 /\ got = 0 /\ taken = <<>> /\ op = Idle

Begin(call, n) ==
  /\ Between
  /\ op' = [call |-> call, left |-> n]
  /\ taken' = <<>>
  /\ UNCHANGED <<opts, chunks, spare, count, pool, put, got>>

\* Curl_bufq_write; Curl_bufq_sipn and Curl_bufq_slurp, where a reader fills the tail
Write(n) == put + n <= MaxBytes /\ Begin("write", n)
Sip == put < MaxBytes /\ Begin("sip", 1)
Slurp == put < MaxBytes /\ Begin("slurp", 1)

WriteTurn ==
  /\ op.call = "write" /\ op.left > 0 /\ (HasTail \/ HasSpare)
  /\ LET n == Lesser(TailRoom, op.left)
     IN  /\ chunks' = Filled(n)
         /\ put' = put + n
         /\ op' = [op EXCEPT !.left = @ - n]
  /\ TakeSpare
  /\ UNCHANGED <<opts, got, taken>>

\* a reader has n bytes; it is asked again if it filled the chunk.  The chunk stays in
\* the queue if there is nothing to read.
ReadIn(n) ==
  /\ op.call \in {"sip", "slurp"} /\ op.left > 0 /\ (HasTail \/ HasSpare)
  /\ n <= TailRoom
  /\ chunks' = Filled(n)
  /\ put' = put + n
  /\ op' = [op EXCEPT !.left = IF op.call = "slurp" /\ n > 0 /\ n = TailRoom THEN 1 ELSE 0]
  /\ TakeSpare
  /\ UNCHANGED <<opts, got, taken>>

\* Curl_bufq_read, Curl_bufq_skip and Curl_bufq_pass; Curl_bufq_peek prunes only
Read(n) == Begin("read", n)
Skip(n) == Begin("skip", n)
Pass == Begin("pass", 1)
Peek == chunks # <<>> /\ Unread(chunks[1]) = 0 /\ Begin("prune", 0)

\* Bug variant: the offset is left where it is when a part of a chunk is read.
AdvancedWhole(c, n) == IF n = Unread(c) THEN Empty ELSE c

\* chunk_read and chunk_skip: n bytes leave a chunk, and then the queue
Advanced(c, n) == IF n = Unread(c) THEN Empty ELSE [c EXCEPT !.r = @ + n]

Takes(n) ==
  /\ taken' = SubSeq(chunks[1].data, chunks[1].r + 1, chunks[1].r + n)
  /\ got' = got + n
  /\ chunks' = [chunks EXCEPT ![1] = Advanced(chunks[1], n)]

Pruning == chunks # <<>> /\ Unread(chunks[1]) = 0 /\ op.call \in {"read", "skip", "pass", "prune"}

ReadTurn ==
  /\ op.call \in {"read", "skip"} /\ op.left > 0 /\ chunks # <<>> /\ ~Pruning
  /\ LET n == Lesser(Unread(chunks[1]), op.left)
     IN  Takes(n) /\ op' = [op EXCEPT !.left = @ - n]
  /\ UNCHANGED <<opts, spare, count, pool, put>>

\* the writer takes n bytes of what is in the head; none: it cannot take more
PassTurn(n) ==
  /\ op.call = "pass" /\ op.left > 0 /\ chunks # <<>> /\ ~Pruning
  /\ n <= Unread(chunks[1])
  /\ Takes(n)
  /\ op' = [op EXCEPT !.left = IF n = 0 THEN 0 ELSE 1]
  /\ UNCHANGED <<opts, spare, count, pool, put>>

\* one turn of prune_head
PruneTurn ==
  /\ Pruning
  /\ chunks' = Tail(chunks)
  /\ IF opts.pooled
     THEN count' = count - 1 /\ pool' = (IF pool < SpareMax THEN pool + 1 ELSE pool) /\ UNCHANGED spare
     ELSE IF count > opts.max \/ ~opts.spares THEN count' = count - 1 /\ UNCHANGED <<spare, pool>>
     ELSE spare' = spare + 1 /\ UNCHANGED <<count, pool>>
  /\ taken' = <<>>
  /\ UNCHANGED <<opts, put, got, op>>

\* the call returns: there is nothing left to do, or no room, or no byte
Returns ==
  /\ ~Between /\ ~Pruning
  /\ \/ op.left = 0
     \/ op.call \in {"write", "sip", "slurp"} /\ ~(HasTail \/ HasSpare)
     \/ op.call \in {"read", "skip", "pass"} /\ chunks = <<>>
  /\ op' = Idle
  /\ taken' = <<>>
  /\ UNCHANGED <<opts, chunks, spare, count, pool, put, got>>

\* Curl_bufq_reset: the chunks become spares; Curl_bufq_free
Reset ==
  /\ Between
  /\ chunks' = <<>> /\ got' = put /\ taken' = <<>>
  /\ spare' = spare + Len(chunks)
  /\ UNCHANGED <<opts, count, pool, put, op>>
Free ==
  /\ Between
  /\ chunks' = <<>> /\ spare' = 0 /\ count' = 0 /\ got' = put /\ taken' = <<>>
  /\ UNCHANGED <<opts, pool, put, op>>

\* other queues of the same pool
OtherQueues ==
  /\ Between /\ opts.pooled
  /\ pool' \in 0..SpareMax
  /\ UNCHANGED <<opts, chunks, spare, count, put, got, taken, op>>

Next ==
  \/ \E n \in 1..MaxBytes : Write(n) \/ Read(n) \/ Skip(n)
  \/ \E n \in 0..MaxBytes : (put + n <= MaxBytes /\ ReadIn(n)) \/ PassTurn(n)
  \/ Sip \/ Slurp \/ Pass \/ Peek \/ WriteTurn \/ ReadTurn \/ PruneTurn \/ Returns
  \/ Reset \/ Free \/ OtherQueues

Spec == Init /\ [][Next]_bufqVars

-----------------------------------------------------------------------------
Calls == {"none", "write", "sip", "slurp", "read", "skip", "pass", "prune"}
TypeOK ==
  /\ opts \in QueueOptions
  /\ chunks \in Seq([r : Nat, data : Seq(Nat)])
  /\ spare \in Nat /\ count \in Nat /\ pool \in 0..SpareMax
  /\ put \in Nat /\ got \in Nat /\ taken \in Seq(Nat)
  /\ op \in [call : Calls, left : Nat]

=============================================================================
