----------------------------- MODULE BufQState ------------------------------
(***************************************************************************)
(* The queue of bytes in chunks (lib/bufq.c): its state, and what is       *)
(* promised of it.  BufQ has the calls.                                    *)
(***************************************************************************)
EXTENDS Naturals, Sequences

CONSTANTS
  ChunkSize,     \* chunk_size
  QueueOptions,  \* max chunks, soft limit, keeping spares, using the pool: the queues there are
  SpareMax,      \* spare_max of the pool
  MaxBytes       \* bound: how many bytes are written

\* what is assumed of the constants
BufQConstants ==
  /\ ChunkSize \in Nat \ {0} /\ SpareMax \in Nat /\ MaxBytes \in Nat
  /\ QueueOptions \subseteq [max : Nat \ {0}, soft : BOOLEAN, spares : BOOLEAN, pooled : BOOLEAN]

VARIABLES
  opts,          \* max_chunks, opts and pool of the queue
  chunks,        \* head to tail: r_offset and the bytes up to w_offset
  spare,         \* how many chunks are on the spare list
  count,         \* chunk_count
  pool,          \* spare_count of the pool
  put, got,      \* the last byte written, the last byte taken out
  taken,         \* the bytes the last turn took out
  op             \* the call that runs: what it is about, and how many bytes are left to do

bufqVars == <<opts, chunks, spare, count, pool, put, got, taken, op>>

Unread(c) == Len(c.data) - c.r
Room(c) == ChunkSize - Len(c.data)

Between == op.call = "none"

\* get_non_full_tail: there is one, or get_spare finds a chunk
HasTail == chunks # <<>> /\ Room(chunks[Len(chunks)]) > 0
HasSpare == spare > 0 \/ count < opts.max \/ opts.soft

\* Curl_bufq_is_full and Curl_bufq_is_empty
IsFull ==
  /\ chunks # <<>> /\ spare = 0
  /\ count > opts.max \/ (count = opts.max /\ Room(chunks[Len(chunks)]) = 0)
IsEmpty == chunks = <<>> \/ Unread(chunks[1]) = 0

\* What is taken out is what was written, in order and without a gap, whichever calls
\* take it out and however the bytes lie in the chunks.
InOrder == \A i \in 1..Len(taken) : taken[i] = got - Len(taken) + i

\* Looking at the head is enough to know that the queue is empty; a queue with a hard
\* limit says that it is full exactly when a write gets no room.
SaysTruly ==
  Between => /\ IsEmpty <=> got = put
             /\ ~opts.soft => (IsFull <=> ~(HasTail \/ HasSpare))

\* Every chunk is counted, in use or spare; a hard limit holds, after whatever calls,
\* and the pool does not keep more than it should.
ChunksCounted ==
  /\ count = Len(chunks) + spare
  /\ ~opts.soft => count <= opts.max
  /\ pool <= SpareMax

\* A queue loses nothing, knows its state, and keeps to its limits.
QueueRight == InOrder /\ SaysTruly /\ ChunksCounted
=============================================================================
