--------------------------- MODULE QueueAndEventProofs ---------------------------
(***************************************************************************)
(* Two tables of libcurl that are right whatever is done with them.        *)
(*                                                                         *)
(* A buffer queue gives back what it was given, says truly whether it is   *)
(* empty or full, and counts its chunks, whatever the sizes, the options   *)
(* and the calls: its bytes lie in the chunks as a run without a gap.      *)
(*                                                                         *)
(* For any sockets, transfers and connections the application watches each *)
(* socket for what its users need together, and an event reaches them.     *)
(* The argument keeps, for each socket, the set of users that read it and  *)
(* the set of those that write it; the entry counts both.                  *)
(***************************************************************************)
EXTENDS BufQ, MultiEventsState, FiniteSetTheorems, TLAPS

ReadCalls == {"read", "skip", "pass", "prune"}

-----------------------------------------------------------------------------
(* The inductive invariant.  How the bytes lie in the chunks: *)

\* one chunk: a run of bytes without a gap, none of them yet to be written, and the
\* offset is inside
Run(c) ==
  /\ Len(c.data) <= ChunkSize
  /\ c.data = <<>> => c.r = 0
  /\ c.data # <<>> => c.r < Len(c.data) /\ c.data[Len(c.data)] <= put
  /\ \A k \in 1..Len(c.data) : c.data[k] = c.data[1] + k - 1

\* a chunk and the next: the first is full, except an empty head that is about to be
\* pruned, the second is not read yet and goes on where the first ends
Joined(c, d, head) ==
  /\ c.data = <<>> => head
  /\ c.data # <<>> => Len(c.data) = ChunkSize
  /\ d.r = 0
  /\ c.data # <<>> /\ d.data # <<>> => d.data[1] = c.data[Len(c.data)] + 1
  /\ c.data # <<>> /\ d.data = <<>> => c.data[Len(c.data)] = put
  /\ c.data = <<>> /\ d.data # <<>> => d.data[1] = got + 1
  /\ c.data = <<>> /\ d.data = <<>> => got = put

Ends ==
  /\ chunks = <<>> => got = put
  /\ chunks # <<>> =>
       LET h == chunks[1]
           l == chunks[Len(chunks)]
       IN  /\ h.data # <<>> => h.data[1] + h.r = got + 1
           /\ h.data = <<>> /\ Len(chunks) = 1 => got = put
           /\ l.data # <<>> => l.data[Len(l.data)] = put

\* an empty head with others behind it is only met while the head is pruned
HeadPruned == op.call \notin ReadCalls /\ Len(chunks) > 1 => chunks[1].data # <<>>

Bytes ==
  /\ \A i \in 1..Len(chunks) : Run(chunks[i])
  /\ \A i \in 1..Len(chunks) - 1 : Joined(chunks[i], chunks[i + 1], i = 1)
  /\ Ends
  /\ HeadPruned

IInv == TypeOK /\ InOrder /\ ChunksCounted /\ Bytes

\* Chunk is what a chunk is.
Chunk == [r : Nat, data : Seq(Nat)]

\* A sequence that is not empty has a first and a last element.
LEMMA FirstAndLast ==
  ASSUME NEW S, NEW s \in Seq(S), s # <<>>
  PROVE  Len(s) \in Nat \ {0} /\ s[1] \in S /\ s[Len(s)] \in S
<1>1. Len(s) \in Nat /\ Len(s) # 0
  OBVIOUS
<1>2. 1 \in 1..Len(s) /\ Len(s) \in 1..Len(s)
  BY <1>1
<1> QED BY <1>1, <1>2

-----------------------------------------------------------------------------
\* The properties follow from the invariant: the head is looked at, the last byte of
\* the head is at most the last one written.
LEMMA InvSays == ASSUME BufQConstants, IInv PROVE SaysTruly
<1>1. ASSUME Between PROVE IsEmpty <=> got = put
  <2>1. CASE chunks = <<>>
    BY <2>1 DEF IInv, Bytes, Ends, IsEmpty
  <2>2. CASE chunks # <<>>
    <3>0. chunks \in Seq(Chunk) /\ put \in Nat /\ got \in Nat
      BY DEF IInv, TypeOK, Chunk
    <3>1. Len(chunks) \in Nat \ {0} /\ chunks[1] \in Chunk
      BY <2>2, <3>0, FirstAndLast
    <3>2. CASE chunks[1].data = <<>>
      <4>1. Len(chunks) = 1
        <5>1. op.call \notin ReadCalls
          BY <1>1 DEF Between, ReadCalls
        <5>2. HeadPruned
          BY DEF IInv, Bytes
        <5>3. ~(Len(chunks) > 1)
          BY <3>2, <5>1, <5>2 DEF HeadPruned
        <5> QED BY <3>1, <5>3
      <4>2. got = put
        BY <2>2, <3>2, <4>1 DEF IInv, Bytes, Ends
      <4>3. chunks[1].r = 0
        BY <3>1, <3>2 DEF IInv, Bytes, Run
      <4> QED BY <3>2, <4>2, <4>3 DEF IsEmpty, Unread
    <3>3. CASE chunks[1].data # <<>>
      <4>1. Run(chunks[1]) /\ chunks[1].data[1] + chunks[1].r = got + 1
        BY <2>2, <3>1, <3>3 DEF IInv, Bytes, Ends
      <4> DEFINE c == chunks[1]
      <4>2. Len(c.data) \in Nat \ {0} /\ c.r \in Nat /\ c.data[1] \in Nat
        BY <3>1, <3>3, FirstAndLast DEF Chunk
      <4>3. c.data[Len(c.data)] = c.data[1] + Len(c.data) - 1 /\ c.r < Len(c.data) /\ c.data[Len(c.data)] <= put
        <5>1. Len(c.data) \in 1..Len(c.data)
          BY <4>2
        <5> QED BY <4>1, <3>3, <5>1 DEF Run
      <4>4. got < put
        BY <3>0, <4>1, <4>2, <4>3
      <4>5. Unread(c) # 0
        BY <4>2, <4>3 DEF Unread
      <4> QED BY <2>2, <4>4, <4>5 DEF IsEmpty, IInv, TypeOK
    <3> QED BY <3>2, <3>3
  <2> QED BY <2>1, <2>2
<1>2. ASSUME ~opts.soft PROVE IsFull <=> ~(HasTail \/ HasSpare)
  <2>1. /\ opts.max \in Nat \ {0} /\ opts.soft \in BOOLEAN /\ spare \in Nat /\ count \in Nat
        /\ count = Len(chunks) + spare /\ count <= opts.max
    BY <1>2 DEF IInv, TypeOK, ChunksCounted, BufQConstants
  <2>2. CASE chunks = <<>>
    BY <1>2, <2>1, <2>2 DEF IsFull, HasTail, HasSpare
  <2>3. CASE chunks # <<>>
    <3>0. chunks \in Seq(Chunk)
      BY DEF IInv, TypeOK, Chunk
    <3>1. Len(chunks) \in Nat \ {0} /\ chunks[Len(chunks)] \in Chunk
      BY <2>3, <3>0, FirstAndLast
    <3>2. Run(chunks[Len(chunks)])
      <4>1. Len(chunks) \in 1..Len(chunks)
        BY <3>1
      <4> QED BY <4>1 DEF IInv, Bytes
    <3>3. Room(chunks[Len(chunks)]) \in Nat
      BY <3>1, <3>2 DEF Room, Run, BufQConstants, Chunk
    <3> QED BY <1>2, <2>1, <2>3, <3>3 DEF IsFull, HasTail, HasSpare
  <2> QED BY <2>2, <2>3
<1> QED BY <1>1, <1>2 DEF SaysTruly

-----------------------------------------------------------------------------
LEMMA InitInv == ASSUME BufQConstants, Init PROVE IInv
<1>1. TypeOK
  BY DEF Init, TypeOK, Idle, Calls
<1>2. InOrder /\ ChunksCounted
  BY DEF Init, InOrder, ChunksCounted, BufQConstants
<1>3. Bytes
  BY DEF Init, Bytes, Ends, HeadPruned
<1> QED BY <1>1, <1>2, <1>3 DEF IInv

\* The queue with a tail to write to: nothing changes but that it may get an empty
\* chunk at its end, after one that is full.
LEMMA WithTailBytes ==
  ASSUME BufQConstants, IInv, op.call \in {"write", "sip", "slurp"}
  PROVE  /\ WithTail \in Seq(Chunk) /\ Len(WithTail) \in Nat \ {0}
         /\ Room(WithTail[Len(WithTail)]) \in Nat \ {0}
         /\ \A i \in 1..Len(WithTail) : Run(WithTail[i])
         /\ \A i \in 1..Len(WithTail) - 1 : Joined(WithTail[i], WithTail[i + 1], i = 1) /\ WithTail[i].data # <<>>
         /\ LET h == WithTail[1]
                l == WithTail[Len(WithTail)]
            IN  /\ h.data # <<>> => h.data[1] + h.r = got + 1
                /\ h.data = <<>> /\ Len(WithTail) = 1 => got = put
                /\ l.data # <<>> => l.data[Len(l.data)] = put
<1> USE DEF Chunk
<1>0. chunks \in Seq(Chunk) /\ put \in Nat /\ got \in Nat /\ ChunkSize \in Nat \ {0}
  BY DEF IInv, TypeOK, BufQConstants
<1>1. \A i \in 1..Len(chunks) : Run(chunks[i])
  BY DEF IInv, Bytes
<1>2. \A i \in 1..Len(chunks) - 1 : Joined(chunks[i], chunks[i + 1], i = 1)
  BY DEF IInv, Bytes
<1>3. \A i \in 1..Len(chunks) - 1 : chunks[i].data # <<>>
  <2>1. TAKE i \in 1..Len(chunks) - 1
  <2>2. CASE i = 1
    BY <1>0, <2>2 DEF IInv, Bytes, HeadPruned, ReadCalls
  <2>3. CASE i # 1
    BY <1>0, <1>2, <2>3 DEF Joined
  <2> QED BY <2>2, <2>3
<1>4. CASE HasTail
  <2>1. WithTail = chunks
    BY <1>4 DEF WithTail
  <2>2. Len(chunks) \in Nat \ {0} /\ chunks[Len(chunks)] \in Chunk
    BY <1>0, <1>4, FirstAndLast DEF HasTail
  <2>3. Room(chunks[Len(chunks)]) \in Nat \ {0}
    BY <1>0, <1>1, <1>4, <2>2 DEF HasTail, Room, Run
  <2>4. Ends
    BY DEF IInv, Bytes
  <2> QED BY <1>0, <1>1, <1>2, <1>3, <1>4, <2>1, <2>2, <2>3, <2>4 DEF Ends, HasTail
<1>5. CASE ~HasTail
  <2>1. WithTail = Append(chunks, Empty)
    BY <1>5 DEF WithTail
  <2>2. Empty \in Chunk /\ Empty.data = <<>> /\ Empty.r = 0 /\ Run(Empty) /\ Room(Empty) = ChunkSize
    BY <1>0 DEF Empty, Run, Room
  <2>3. /\ WithTail \in Seq(Chunk) /\ Len(WithTail) = Len(chunks) + 1
        /\ \A i \in 1..Len(chunks) : WithTail[i] = chunks[i]
        /\ WithTail[Len(chunks) + 1] = Empty
    BY <1>0, <2>1, <2>2
  <2>4. \A i \in 1..Len(WithTail) : Run(WithTail[i])
    <3>1. TAKE i \in 1..Len(WithTail)
    <3>2. Len(chunks) \in Nat /\ (i \in 1..Len(chunks) \/ i = Len(chunks) + 1)
      BY <1>0, <2>3, <3>1
    <3> QED BY <1>1, <2>2, <2>3, <3>2
  <2>5. CASE chunks = <<>>
    BY <1>0, <2>2, <2>3, <2>4, <2>5 DEF IInv, Bytes, Ends
  <2>6. CASE chunks # <<>>
    <3> DEFINE l == chunks[Len(chunks)]
    <3>1. Len(chunks) \in Nat \ {0} /\ l \in Chunk /\ Run(l)
      <4>1. Len(chunks) \in Nat \ {0} /\ l \in Chunk
        BY <1>0, <2>6, FirstAndLast
      <4>2. Len(chunks) \in 1..Len(chunks)
        BY <4>1
      <4> QED BY <1>1, <4>1, <4>2
    <3>2. Len(l.data) = ChunkSize
      BY <1>0, <1>5, <2>6, <3>1 DEF HasTail, Room, Run
    <3>3. l.data # <<>> /\ l.data[Len(l.data)] = put
      BY <1>0, <2>6, <3>1, <3>2 DEF IInv, Bytes, Ends
    <3>4. Joined(l, Empty, Len(chunks) = 1)
      BY <2>2, <3>2, <3>3 DEF Joined
    <3>5. \A i \in 1..Len(WithTail) - 1 : Joined(WithTail[i], WithTail[i + 1], i = 1) /\ WithTail[i].data # <<>>
      <4>1. TAKE i \in 1..Len(WithTail) - 1
      <4>2. CASE i = Len(chunks)
        BY <2>3, <3>1, <3>3, <3>4, <4>2
      <4>3. CASE i # Len(chunks)
        <5>1. i \in 1..Len(chunks) - 1 /\ i \in 1..Len(chunks) /\ i + 1 \in 1..Len(chunks)
          BY <2>3, <3>1, <4>1, <4>3
        <5>2. WithTail[i] = chunks[i] /\ WithTail[i + 1] = chunks[i + 1]
          BY <2>3, <5>1
        <5> QED BY <1>2, <1>3, <5>1, <5>2
      <4> QED BY <4>2, <4>3
    <3>6. chunks[1].data # <<>> /\ chunks[1].data[1] + chunks[1].r = got + 1
      <4>1. chunks[1].data # <<>>
        BY <1>3, <3>1, <3>3
      <4> QED BY <2>6, <4>1 DEF IInv, Bytes, Ends
    <3>7. Len(WithTail) \in Nat \ {0} /\ WithTail[1] = chunks[1] /\ WithTail[Len(WithTail)] = Empty /\ Len(WithTail) # 1
      BY <2>3, <3>1
    <3>8. Room(WithTail[Len(WithTail)]) \in Nat \ {0}
      BY <1>0, <2>2, <3>7
    <3> QED BY <2>2, <2>3, <2>4, <3>5, <3>6, <3>7, <3>8
  <2> QED BY <2>5, <2>6
<1> QED BY <1>4, <1>5

\* What appending the next n bytes of the stream to the tail makes of it.
LEMMA FilledTail ==
  ASSUME BufQConstants, IInv, op.call \in {"write", "sip", "slurp"},
         NEW n \in Nat, n <= TailRoom, chunks' = Filled(n), put' = put + n, got' = got, opts' = opts,
         op'.call \in {"write", "sip", "slurp"}
  PROVE  chunks' \in Seq(Chunk) /\ Bytes' /\ Len(chunks') = Len(WithTail)
<1> DEFINE m == Len(WithTail)
           l == WithTail[m]
           more == [i \in 1..n |-> put + i]
           f == [l EXCEPT !.data = @ \o more]
<1>0. put \in Nat /\ got \in Nat /\ ChunkSize \in Nat \ {0}
  BY DEF IInv, TypeOK, BufQConstants
<1>1. WithTail \in Seq(Chunk) /\ m \in Nat \ {0} /\ Room(l) \in Nat \ {0}
  BY WithTailBytes
<1>2. \A i \in 1..m : Run(WithTail[i])
  BY WithTailBytes
<1>3. \A i \in 1..m - 1 : Joined(WithTail[i], WithTail[i + 1], i = 1) /\ WithTail[i].data # <<>>
  BY WithTailBytes
<1>4. /\ WithTail[1].data # <<>> => WithTail[1].data[1] + WithTail[1].r = got + 1
      /\ WithTail[1].data = <<>> /\ m = 1 => got = put
      /\ l.data # <<>> => l.data[Len(l.data)] = put
  BY WithTailBytes
<1>5. l \in Chunk /\ Run(l) /\ l.data \in Seq(Nat) /\ l.r \in Nat
  <2>1. m \in 1..m
    BY <1>1
  <2>2. l \in Chunk
    BY <1>1, <2>1
  <2> QED BY <1>2, <2>1, <2>2 DEF Chunk
<1>6. more \in Seq(Nat) /\ Len(more) = n /\ \A k \in 1..n : more[k] = put + k
  BY <1>0
<1>7. /\ f \in Chunk /\ f.r = l.r /\ f.data = l.data \o more /\ f.data \in Seq(Nat)
      /\ Len(f.data) = Len(l.data) + n
      /\ \A k \in 1..Len(l.data) : f.data[k] = l.data[k]
      /\ \A k \in 1..n : f.data[Len(l.data) + k] = put + k
  <2>1. f.r = l.r /\ f.data = l.data \o more
    BY <1>5 DEF Chunk
  <2>2. l.data \o more \in Seq(Nat) /\ Len(l.data \o more) = Len(l.data) + n
    BY <1>5, <1>6
  <2>3. f \in Chunk
    BY <1>5, <2>1, <2>2 DEF Chunk
  <2>4. \A k \in 1..Len(l.data) : (l.data \o more)[k] = l.data[k]
    BY <1>5, <1>6
  <2>5. \A k \in 1..n : (l.data \o more)[Len(l.data) + k] = more[k]
    BY <1>5, <1>6
  <2> QED BY <1>6, <2>1, <2>2, <2>3, <2>4, <2>5
<1>8. Len(f.data) \in Nat /\ Len(l.data) \in Nat /\ Len(f.data) <= ChunkSize
  <2>1. Len(l.data) \in Nat /\ Len(f.data) = Len(l.data) + n
    BY <1>5, <1>7
  <2>2. n <= ChunkSize - Len(l.data)
    BY DEF TailRoom, Room
  <2> QED BY <1>0, <2>1, <2>2
<1> HIDE DEF f, more
\* the bytes of the tail, old and new, are a run
<1>9. n > 0 \/ l.data # <<>> => f.data # <<>> /\ f.data[Len(f.data)] = put + n /\ f.data[1] = put + n + 1 - Len(f.data)
  <2>1. CASE l.data = <<>> /\ n > 0
    <3>1. f.data[1] = put + 1 /\ f.data[n] = put + n /\ Len(f.data) = n /\ f.data # <<>>
      <4>1. Len(l.data) = 0 /\ 1 \in 1..n /\ n \in 1..n
        BY <2>1
      <4> QED BY <1>7, <2>1, <4>1
    <3> QED BY <1>0, <3>1
  <2>2. CASE l.data # <<>>
    <3>1. Len(l.data) \in Nat \ {0} /\ l.data[1] \in Nat /\ l.data[Len(l.data)] = put
      BY <1>4, <1>5, <2>2, FirstAndLast
    <3>2. 1 \in 1..Len(l.data) /\ Len(l.data) \in 1..Len(l.data)
      BY <3>1
    <3>3. l.data[1] = put + 1 - Len(l.data) /\ f.data[1] = l.data[1] /\ f.data # <<>>
      <4>1. l.data[Len(l.data)] = l.data[1] + Len(l.data) - 1
        BY <1>5, <3>2 DEF Run
      <4>2. f.data[1] = l.data[1]
        BY <1>7, <3>2
      <4>3. Len(f.data) # 0
        BY <1>7, <3>1
      <4>4. f.data # <<>>
        BY <4>3
      <4>5. l.data[1] = put + 1 - Len(l.data)
        <5>1. put = l.data[1] + Len(l.data) - 1
          BY <3>1, <4>1
        <5> QED BY <1>0, <3>1, <5>1, SMTT(30)
      <4> QED BY <4>2, <4>4, <4>5
    <3>4. f.data[Len(f.data)] = put + n
      <4>1. CASE n = 0
        BY <1>0, <1>7, <3>1, <3>2, <4>1
      <4>2. CASE n # 0
        BY <1>7, <4>2
      <4> QED BY <4>1, <4>2
    <3> QED BY <1>0, <1>7, <3>1, <3>3, <3>4
  <2> QED BY <2>1, <2>2
<1>10. \A k \in 1..Len(f.data) : f.data[k] = f.data[1] + k - 1
  <2>1. TAKE k \in 1..Len(f.data)
  <2>2. n > 0 \/ l.data # <<>>
    BY <1>7, <2>1
  <2>3. CASE k \in 1..Len(l.data)
    <3>1. f.data[k] = l.data[1] + k - 1 /\ f.data[1] = l.data[1]
      <4>1. 1 \in 1..Len(l.data)
        BY <1>8, <2>3
      <4> QED BY <1>5, <1>7, <2>3, <4>1 DEF Run
    <3> QED BY <3>1
  <2>4. CASE k \notin 1..Len(l.data)
    <3>1. k - Len(l.data) \in 1..n /\ k = Len(l.data) + (k - Len(l.data))
      BY <1>7, <1>8, <2>1, <2>4
    <3>2. f.data[k] = put + (k - Len(l.data))
      BY <1>7, <3>1
    <3>3. f.data[1] = put + 1 - Len(l.data)
      <4>1. Len(f.data) = Len(l.data) + n
        BY <1>7
      <4>2. f.data[1] = put + n + 1 - Len(f.data)
        BY <1>9, <2>2
      <4> QED BY <1>0, <1>8, <4>1, <4>2
    <3> QED BY <1>0, <1>8, <2>1, <3>2, <3>3
  <2> QED BY <2>3, <2>4
\* hence the whole queue is in order
<1>11. chunks' = [WithTail EXCEPT ![m] = f]
  BY DEF Filled, f, more
<1>12. chunks' \in Seq(Chunk) /\ Len(chunks') = m /\ chunks'[m] = f /\ \A i \in 1..m - 1 : chunks'[i] = WithTail[i]
  BY <1>1, <1>7, <1>11
<1> HIDE DEF l
<1>13. (\A i \in 1..Len(chunks) : Run(chunks[i]))'
  <2>1. SUFFICES ASSUME NEW i \in 1..m PROVE Run(chunks[i])'
    BY <1>12
  <2>2. CASE i = m
    <3>1. f.data # <<>> => f.r < Len(f.data) /\ f.data[Len(f.data)] <= put'
      <4>1. CASE l.data # <<>>
        <5>1. l.r < Len(l.data) /\ Len(l.data) <= Len(f.data)
          BY <1>5, <1>7, <1>8, <4>1 DEF Run
        <5>2. f.data[Len(f.data)] = put'
          BY <1>9, <4>1
        <5>3. f.r < Len(f.data)
          BY <1>5, <1>7, <1>8, <5>1
        <5> QED BY <1>0, <5>2, <5>3
      <4>2. CASE l.data = <<>> /\ n > 0
        <5>1. f.r = 0 /\ Len(f.data) = n
          BY <1>5, <1>7, <4>2 DEF Run
        <5> QED BY <1>0, <1>9, <4>2, <5>1
      <4>3. CASE l.data = <<>> /\ n = 0
        BY <1>7, <1>8, <4>3
      <4> QED BY <4>1, <4>2, <4>3
    <3>2. f.data = <<>> => f.r = 0
      BY <1>5, <1>7 DEF Run
    <3> QED BY <1>8, <1>10, <1>12, <2>2, <3>1, <3>2 DEF Run
  <2>3. CASE i # m
    <3>1. i \in 1..m - 1 /\ chunks'[i] = WithTail[i] /\ Run(WithTail[i])
      BY <1>1, <1>2, <1>12, <2>1, <2>3
    <3>2. WithTail[i] \in Chunk
      BY <1>1, <2>1
    <3>3. WithTail[i].data # <<>> => WithTail[i].data[Len(WithTail[i].data)] <= put'
      <4>1. ASSUME WithTail[i].data # <<>> PROVE WithTail[i].data[Len(WithTail[i].data)] \in Nat
        BY <3>2, <4>1, FirstAndLast DEF Chunk
      <4> QED BY <1>0, <3>1, <4>1 DEF Run
    <3> QED BY <3>1, <3>3 DEF Run
  <2> QED BY <2>2, <2>3
<1>14. (\A i \in 1..Len(chunks) - 1 : Joined(chunks[i], chunks[i + 1], i = 1))'
  <2>1. SUFFICES ASSUME NEW i \in 1..m - 1 PROVE Joined(chunks[i], chunks[i + 1], i = 1)'
    BY <1>12
  <2>2. Joined(WithTail[i], WithTail[i + 1], i = 1) /\ WithTail[i].data # <<>> /\ chunks'[i] = WithTail[i]
    BY <1>3, <1>12, <2>1
  <2>3. CASE i + 1 = m
    <3>1. Joined(WithTail[i], l, i = 1)
      BY <2>2, <2>3 DEF l
    <3>2. CASE l.data # <<>>
      <4>1. f.data[1] = l.data[1] /\ f.data # <<>>
        <5>1. 1 \in 1..Len(l.data)
          BY <1>5, <3>2, FirstAndLast
        <5> QED BY <1>7, <1>9, <3>2, <5>1
      <4> QED BY <1>7, <1>12, <2>2, <2>3, <3>1, <3>2, <4>1 DEF Joined
    <3>3. CASE l.data = <<>> /\ n > 0
      <4>1. f.data # <<>> /\ f.data[1] = put + 1
        BY <1>0, <1>7, <1>9, <3>3
      <4> QED BY <1>7, <1>12, <2>2, <2>3, <3>1, <3>3, <4>1 DEF Joined
    <3>4. CASE l.data = <<>> /\ n = 0
      <4>1. f.data = <<>> /\ put' = put
        BY <1>0, <1>7, <1>8, <3>4
      <4> QED BY <1>7, <1>12, <2>2, <2>3, <3>1, <3>4, <4>1 DEF Joined
    <3> QED BY <3>2, <3>3, <3>4
  <2>4. CASE i + 1 # m
    <3>1. i + 1 \in 1..m - 1 /\ chunks'[i + 1] = WithTail[i + 1] /\ WithTail[i + 1].data # <<>>
      BY <1>1, <1>3, <1>12, <2>1, <2>4
    <3> QED BY <2>2, <3>1 DEF Joined
  <2> QED BY <2>3, <2>4
<1>15. Ends'
  <2>1. CASE m = 1
    <3>1. f.data # <<>> => f.data[1] + f.r = got + 1
      <4>1. CASE l.data = <<>>
        <5>1. got = put /\ f.r = 0
          BY <1>4, <1>5, <1>7, <2>1, <4>1 DEF l, Run
        <5>2. f.data # <<>> => n > 0
          BY <1>7, <1>8, <4>1
        <5> QED BY <1>0, <1>7, <1>9, <4>1, <5>1, <5>2
      <4>2. CASE l.data # <<>>
        <5>1. 1 \in 1..Len(l.data)
          BY <1>5, <4>2, FirstAndLast
        <5> QED BY <1>4, <1>7, <2>1, <4>2, <5>1 DEF l
      <4> QED BY <4>1, <4>2
    <3>2. f.data = <<>> => got = put'
      <4> SUFFICES ASSUME f.data = <<>> PROVE got = put'
        OBVIOUS
      <4>1. n = 0 /\ l.data = <<>>
        BY <1>0, <1>9
      <4>2. WithTail[1].data = <<>>
        BY <2>1, <4>1 DEF l
      <4> QED BY <1>0, <1>4, <2>1, <4>1, <4>2
    <3>3. f.data # <<>> => f.data[Len(f.data)] = put'
      BY <1>7, <1>8, <1>9, SMTT(30)
    <3>4. Len(chunks') = 1 /\ chunks'[1] = f
      BY <1>12, <2>1
    <3>5. chunks' # <<>>
      BY <3>4
    <3> QED BY <3>1, <3>2, <3>3, <3>4, <3>5 DEF Ends
  <2>2. CASE m # 1
    <3>1. 1 \in 1..m - 1 /\ chunks'[1] = WithTail[1] /\ WithTail[1].data # <<>>
      BY <1>1, <1>3, <1>12, <2>2
    <3>2. f.data # <<>> => f.data[Len(f.data)] = put'
      BY <1>7, <1>8, <1>9, SMTT(30)
    <3>3. chunks'[1].data[1] + chunks'[1].r = got + 1
      BY <1>4, <3>1
    <3>4. Len(chunks') = m /\ chunks'[Len(chunks')] = f /\ chunks' # <<>>
      BY <1>1, <1>12
    <3> QED BY <2>2, <3>1, <3>2, <3>3, <3>4 DEF Ends
  <2> QED BY <2>1, <2>2
<1>16. HeadPruned'
  <2>1. m > 1 => 1 \in 1..m - 1 /\ chunks'[1] = WithTail[1] /\ WithTail[1].data # <<>>
    BY <1>1, <1>3, <1>12
  <2> QED BY <1>12, <2>1 DEF HeadPruned
<1> QED BY <1>12, <1>13, <1>14, <1>15, <1>16 DEF Bytes

-----------------------------------------------------------------------------
\* A part of a run of bytes is a run.
LEMMA RunTaken ==
  ASSUME NEW d \in Seq(Nat), NEW r \in Nat, NEW n \in Nat, NEW g \in Nat, r + n <= Len(d),
         \A k \in 1..Len(d) : d[k] = g + k - r
  PROVE  LET t == SubSeq(d, r + 1, r + n)
         IN  t \in Seq(Nat) /\ Len(t) = n /\ \A i \in 1..n : t[i] = g + i
<1>1. SubSeq(d, r + 1, r + n) \in Seq(Nat) /\ Len(SubSeq(d, r + 1, r + n)) = n
  OBVIOUS
<1>2. ASSUME NEW i \in 1..n PROVE SubSeq(d, r + 1, r + n)[i] = g + i
  <2>1. r + i \in 1..Len(d) /\ SubSeq(d, r + 1, r + n)[i] = d[r + i]
    OBVIOUS
  <2> QED BY <2>1
<1> QED BY <1>1, <1>2

\* What taking n bytes from the head makes of the queue: they are the next ones, and
\* the head goes on after them or is empty.
LEMMA TakenBytes ==
  ASSUME BufQConstants, IInv, op'.call \in ReadCalls, chunks # <<>>, Unread(chunks[1]) # 0,
         NEW n \in Nat, n <= Unread(chunks[1]), Takes(n), put' = put
  PROVE  /\ chunks' \in Seq(Chunk) /\ Len(chunks') = Len(chunks) /\ got' \in Nat
         /\ taken' \in Seq(Nat) /\ InOrder' /\ Bytes'
<1> DEFINE h == chunks[1]
           m == Len(chunks)
           e == Advanced(h, n)
<1>0. put \in Nat /\ got \in Nat /\ ChunkSize \in Nat \ {0} /\ chunks \in Seq(Chunk)
  BY DEF IInv, TypeOK, BufQConstants, Chunk
<1>1. m \in Nat \ {0} /\ h \in Chunk /\ 1 \in 1..m
  BY <1>0, FirstAndLast
<1>2. h.r \in Nat /\ h.data \in Seq(Nat) /\ Run(h)
  BY <1>1 DEF Chunk, IInv, Bytes
<1>3. h.data # <<>> /\ Len(h.data) \in Nat \ {0}
  <2>1. h.data # <<>>
    BY <1>2 DEF Unread, Run
  <2> QED BY <1>2, <2>1, FirstAndLast
<1>4. h.r + n <= Len(h.data) /\ Unread(h) = Len(h.data) - h.r /\ h.r < Len(h.data)
  BY <1>2, <1>3 DEF Unread, Run
<1>5. got' = got + n /\ taken' = SubSeq(h.data, h.r + 1, h.r + n) /\ chunks' = [chunks EXCEPT ![1] = e]
  BY DEF Takes
<1>6. h.data[1] + h.r = got + 1 /\ h.data[1] \in Nat
  <2>1. h.data[1] + h.r = got + 1
    BY <1>3 DEF IInv, Bytes, Ends
  <2> QED BY <1>2, <1>3, <2>1, FirstAndLast
<1> DEFINE d == h.data
           r == h.r
<1> HIDE DEF h, m, e
<1>16. \A k \in 1..Len(d) : d[k] = got + k - r
  <2>1. d \in Seq(Nat) /\ r \in Nat /\ d[1] + r = got + 1 /\ d[1] \in Nat /\ Len(d) \in Nat
    BY <1>2, <1>3, <1>6
  <2>2. \A k \in 1..Len(d) : d[k] = d[1] + k - 1
    BY <1>2 DEF Run
  <2> HIDE DEF d, r
  <2> QED BY <1>0, <2>1, <2>2
<1>7. taken' \in Seq(Nat) /\ InOrder'
  <2>1. d \in Seq(Nat) /\ r \in Nat /\ r + n <= Len(d) /\ taken' = SubSeq(d, r + 1, r + n)
    BY <1>2, <1>4, <1>5
  <2> HIDE DEF d, r
  <2>2. taken' \in Seq(Nat) /\ Len(taken') = n /\ \A i \in 1..n : taken'[i] = got + i
    BY <1>0, <1>16, <2>1, RunTaken, SMTT(30)
  <2>3. \A i \in 1..Len(taken') : taken'[i] = got' - Len(taken') + i
    BY <1>0, <1>5, <2>2
  <2> QED BY <2>2, <2>3 DEF InOrder
<1>8. h.data[Len(h.data)] = got + Len(h.data) - h.r
  <2>1. Len(h.data) \in 1..Len(h.data)
    BY <1>3
  <2> QED BY <1>16, <2>1
<1>9. /\ e \in Chunk
      /\ \/ n = Unread(h) /\ e.data = <<>> /\ e.r = 0 /\ h.data[Len(h.data)] = got'
         \/ n # Unread(h) /\ e.data = h.data /\ e.r = h.r + n /\ e.r < Len(h.data)
  <2>1. CASE n = Unread(h)
    <3>1. e = Empty /\ Empty \in Chunk /\ Empty.data = <<>> /\ Empty.r = 0
      BY <2>1 DEF e, Empty, Chunk, Advanced
    <3>2. h.data[Len(h.data)] = got'
      BY <1>0, <1>2, <1>3, <1>4, <1>5, <1>8, <2>1
    <3> QED BY <2>1, <3>1, <3>2
  <2>2. CASE n # Unread(h)
    <3>1. e = [h EXCEPT !.r = h.r + n]
      BY <2>2 DEF e, Advanced
    <3>2. e \in Chunk /\ e.data = h.data /\ e.r = h.r + n
      BY <1>1, <1>2, <3>1 DEF Chunk
    <3>3. h.r + n < Len(h.data)
      <4>1. h.r \in Nat /\ Len(h.data) \in Nat /\ n # Len(h.data) - h.r /\ n <= Len(h.data) - h.r
        BY <1>2, <1>3, <1>4, <2>2
      <4> QED BY <4>1
    <3> QED BY <2>2, <3>2, <3>3
  <2> QED BY <2>1, <2>2
<1>10. chunks' \in Seq(Chunk) /\ Len(chunks') = m /\ chunks'[1] = e /\ \A i \in 2..m : chunks'[i] = chunks[i]
  BY <1>0, <1>1, <1>5, <1>9 DEF m
<1>11. (\A i \in 1..Len(chunks) : Run(chunks[i]))'
  <2>1. SUFFICES ASSUME NEW i \in 1..m PROVE Run(chunks[i])'
    BY <1>10
  <2>2. CASE i = 1
    <3>1. CASE n = Unread(h)
      <4>1. e.data = <<>> /\ e.r = 0 /\ Len(e.data) = 0
        BY <1>9, <3>1
      <4> QED BY <1>0, <1>10, <2>2, <4>1 DEF Run
    <3>2. CASE n # Unread(h)
      <4>1. e.data = h.data /\ e.r < Len(h.data)
        BY <1>9, <3>2
      <4> QED BY <1>2, <1>3, <1>10, <2>2, <4>1 DEF Run
    <3> QED BY <3>1, <3>2
  <2>3. CASE i # 1
    <3>1. i \in 2..m /\ chunks'[i] = chunks[i] /\ Run(chunks[i])
      BY <1>1, <1>10, <2>1, <2>3 DEF IInv, Bytes, m
    <3> QED BY <3>1 DEF Run
  <2> QED BY <2>2, <2>3
<1>12. (\A i \in 1..Len(chunks) - 1 : Joined(chunks[i], chunks[i + 1], i = 1))'
  <2>1. SUFFICES ASSUME NEW i \in 1..m - 1 PROVE Joined(chunks[i], chunks[i + 1], i = 1)'
    BY <1>10
  <2>2. Joined(chunks[i], chunks[i + 1], i = 1) /\ i + 1 \in 2..m /\ chunks'[i + 1] = chunks[i + 1]
    BY <1>1, <1>10, <2>1 DEF IInv, Bytes, m
  <2>3. CASE i = 1
    <3>1. Joined(h, chunks[i + 1], i = 1) /\ chunks'[i] = e
      BY <1>10, <2>2, <2>3 DEF h
    <3>2. CASE n = Unread(h)
      <4>1. e.data = <<>> /\ h.data[Len(h.data)] = got'
        BY <1>9, <3>2
      <4> QED BY <1>3, <2>2, <2>3, <3>1, <4>1 DEF Joined
    <3>3. CASE n # Unread(h)
      <4>1. e.data = h.data
        BY <1>9, <3>3
      <4> QED BY <1>3, <2>2, <2>3, <3>1, <4>1 DEF Joined
    <3> QED BY <3>2, <3>3
  <2>4. CASE i # 1
    <3>1. i \in 2..m /\ chunks'[i] = chunks[i] /\ chunks[i].data # <<>>
      BY <1>1, <1>10, <2>1, <2>2, <2>4 DEF Joined
    <3> QED BY <2>2, <2>4, <3>1 DEF Joined
  <2> QED BY <2>3, <2>4
<1>13. Ends'
  <2>1. chunks' # <<>> /\ Len(chunks') = m
    BY <1>1, <1>10
  <2>2. e.data # <<>> => e.data[1] + e.r = got' + 1
    <3>1. h.data[1] = got + 1 - h.r
      BY <1>3, <1>16
    <3>2. CASE n = Unread(h)
      BY <1>9, <3>2
    <3>3. CASE n # Unread(h)
      <4>1. e.data = h.data /\ e.r = h.r + n
        BY <1>9, <3>3
      <4> QED BY <1>0, <1>2, <1>5, <3>1, <4>1
    <3> QED BY <3>2, <3>3
  <2>3. CASE m = 1
    <3>1. h.data[Len(h.data)] = put
      BY <1>3, <2>3 DEF IInv, Bytes, Ends, h, m
    <3>2. e.data = <<>> => got' = put'
      BY <1>3, <1>9, <3>1
    <3>3. e.data # <<>> => e.data[Len(e.data)] = put'
      BY <1>9, <3>1
    <3> QED BY <1>10, <2>1, <2>2, <2>3, <3>2, <3>3 DEF Ends
  <2>4. CASE m # 1
    <3>1. m \in 2..m /\ chunks'[m] = chunks[m]
      BY <1>1, <1>10, <2>4
    <3>2. chunks[m].data # <<>> => chunks[m].data[Len(chunks[m].data)] = put'
      BY DEF IInv, Bytes, Ends, m
    <3> QED BY <1>10, <2>1, <2>2, <2>4, <3>1, <3>2 DEF Ends
  <2> QED BY <2>3, <2>4
<1>14. HeadPruned'
  BY DEF HeadPruned
<1> QED BY <1>0, <1>5, <1>7, <1>10, <1>11, <1>12, <1>13, <1>14 DEF Bytes, m

\* What removing an empty head makes of the queue.
LEMMA PrunedBytes ==
  ASSUME BufQConstants, IInv, op' = op, op.call \in ReadCalls, chunks # <<>>, Unread(chunks[1]) = 0,
         chunks' = Tail(chunks), put' = put, got' = got
  PROVE  chunks' \in Seq(Chunk) /\ Len(chunks') = Len(chunks) - 1 /\ Bytes'
<1> DEFINE m == Len(chunks)
<1>0. put \in Nat /\ got \in Nat /\ ChunkSize \in Nat \ {0} /\ chunks \in Seq(Chunk)
  BY DEF IInv, TypeOK, BufQConstants, Chunk
<1>1. m \in Nat \ {0} /\ chunks[1] \in Chunk /\ 1 \in 1..m
  BY <1>0, FirstAndLast
<1>2. chunks[1].data = <<>>
  <2>1. Run(chunks[1]) /\ chunks[1].r \in Nat /\ Len(chunks[1].data) \in Nat
    BY <1>1 DEF Chunk, IInv, Bytes
  <2> QED BY <2>1 DEF Run, Unread
<1>3. chunks' \in Seq(Chunk) /\ Len(chunks') = m - 1 /\ \A i \in 1..m - 1 : chunks'[i] = chunks[i + 1]
  BY <1>0, <1>1
<1> HIDE DEF m
<1>4. (\A i \in 1..Len(chunks) : Run(chunks[i]))'
  <2>1. SUFFICES ASSUME NEW i \in 1..m - 1 PROVE Run(chunks[i])'
    BY <1>3
  <2>2. i + 1 \in 1..m /\ chunks'[i] = chunks[i + 1]
    BY <1>1, <1>3, <2>1
  <2>3. Run(chunks[i + 1])
    BY <2>2 DEF IInv, Bytes, m
  <2> QED BY <2>2, <2>3 DEF Run
<1>5. (\A i \in 1..Len(chunks) - 1 : Joined(chunks[i], chunks[i + 1], i = 1))'
  <2>1. SUFFICES ASSUME NEW i \in 1..m - 2 PROVE Joined(chunks[i], chunks[i + 1], i = 1)'
    BY <1>1, <1>3
  <2>2. i + 1 \in 1..m - 1 /\ i + 1 # 1 /\ chunks'[i] = chunks[i + 1] /\ chunks'[i + 1] = chunks[i + 2]
    BY <1>1, <1>3, <2>1
  <2>3. Joined(chunks[i + 1], chunks[i + 2], FALSE)
    <3>1. i + 1 + 1 = i + 2
      BY <2>1
    <3> QED BY <2>2, <3>1 DEF IInv, Bytes, m
  <2> QED BY <2>2, <2>3 DEF Joined
<1>6. Ends'
  <2>1. CASE m = 1
    <3>1. got = put /\ chunks' = <<>>
      BY <1>2, <1>3, <2>1 DEF IInv, Bytes, Ends, m
    <3> QED BY <3>1 DEF Ends
  <2>2. CASE m # 1
    <3>1. 1 \in 1..m - 1 /\ m - 1 \in 1..m - 1 /\ chunks'[1] = chunks[2] /\ chunks'[m - 1] = chunks[m]
      BY <1>1, <1>3, <2>2
    <3>2. Joined(chunks[1], chunks[2], 1 = 1)
      <4>1. \A i \in 1..m - 1 : Joined(chunks[i], chunks[i + 1], i = 1)
        BY DEF IInv, Bytes, m
      <4>2. chunks[1 + 1] = chunks[2]
        OBVIOUS
      <4> QED BY <3>1, <4>1, <4>2
    <3>3. chunks[2].data # <<>> => chunks[2].data[1] + chunks[2].r = got + 1
      <4>1. ASSUME chunks[2].data # <<>> PROVE chunks[2].r = 0 /\ chunks[2].data[1] = got + 1
        BY <1>2, <3>2, <4>1 DEF Joined
      <4> QED BY <1>0, <4>1
    <3>4. chunks[2].data = <<>> => got = put
      BY <1>2, <3>2 DEF Joined
    <3>5. chunks[m].data # <<>> => chunks[m].data[Len(chunks[m].data)] = put
      BY DEF IInv, Bytes, Ends, m
    <3>6. Len(chunks') = m - 1 /\ chunks' # <<>>
      BY <1>3, <3>1
    <3> QED BY <3>1, <3>3, <3>4, <3>5, <3>6 DEF Ends
  <2> QED BY <2>1, <2>2
<1>7. HeadPruned'
  BY DEF HeadPruned
<1> QED BY <1>3, <1>4, <1>5, <1>6, <1>7 DEF Bytes, m
-----------------------------------------------------------------------------
\* What the definitions say of the queue's options, counters and calls.
LEMMA Typed ==
  ASSUME BufQConstants, IInv
  PROVE  /\ opts.max \in Nat \ {0} /\ opts.soft \in BOOLEAN /\ opts.spares \in BOOLEAN /\ opts.pooled \in BOOLEAN
         /\ put \in Nat /\ got \in Nat /\ spare \in Nat /\ count \in Nat /\ pool \in Nat /\ SpareMax \in Nat
         /\ op \in [call : Calls, left : Nat] /\ op.call \in Calls /\ op.left \in Nat
         /\ chunks \in Seq(Chunk) /\ Len(chunks) \in Nat
         /\ count = Len(chunks) + spare /\ (~opts.soft => count <= opts.max) /\ pool <= SpareMax
BY DEF BufQConstants, IInv, TypeOK, ChunksCounted, Chunk

\* A step that leaves the bytes where they are keeps what is said of them.
LEMMA SameBytes ==
  ASSUME IInv, UNCHANGED <<chunks, put, got>>, HeadPruned'
  PROVE  Bytes'
<1>1. Ends'
  BY DEF IInv, Bytes, Ends
<1>2. (\A i \in 1..Len(chunks) : Run(chunks[i]))'
  BY DEF IInv, Bytes, Run
<1>3. (\A i \in 1..Len(chunks) - 1 : Joined(chunks[i], chunks[i + 1], i = 1))'
  BY DEF IInv, Bytes, Joined
<1> QED BY <1>1, <1>2, <1>3 DEF Bytes

\* Nothing is taken: what was taken is in order.
LEMMA NothingTaken == ASSUME taken' = <<>> PROVE taken' \in Seq(Nat) /\ InOrder'
BY DEF InOrder

-----------------------------------------------------------------------------
(* One lemma per kind of step. *)

LEMMA BeginStep ==
  ASSUME BufQConstants, IInv, NEW c \in Calls, NEW n \in Nat, Begin(c, n)
  PROVE  IInv'
<1>1. TypeOK'
  BY NothingTaken DEF Begin, IInv, TypeOK
<1>2. InOrder' /\ ChunksCounted'
  BY NothingTaken DEF Begin, IInv, ChunksCounted
<1>3. HeadPruned'
  BY DEF Begin, Between, IInv, Bytes, HeadPruned, ReadCalls
<1>4. Bytes'
  BY <1>3, SameBytes DEF Begin
<1> QED BY <1>1, <1>2, <1>4 DEF IInv

\* A turn that writes: the tail there is gets the bytes, or a chunk that was spare or
\* that the limit has room for.
LEMMA FillStep ==
  ASSUME BufQConstants, IInv, op.call \in {"write", "sip", "slurp"}, HasTail \/ HasSpare,
         NEW n \in Nat, n <= TailRoom, chunks' = Filled(n), put' = put + n, TakeSpare,
         op'.call = op.call, op' \in [call : Calls, left : Nat], UNCHANGED <<opts, got, taken>>
  PROVE  IInv'
<1>1. chunks' \in Seq(Chunk) /\ Bytes' /\ Len(chunks') = Len(WithTail)
  BY FilledTail
<1>2. ChunksCounted' /\ spare' \in Nat /\ count' \in Nat /\ pool' \in Nat /\ pool' <= SpareMax
  <2>1. CASE HasTail
    <3>1. Len(chunks') = Len(chunks)
      BY <1>1, <2>1 DEF WithTail
    <3> QED BY <2>1, <3>1, Typed DEF TakeSpare, ChunksCounted
  <2>2. CASE ~HasTail
    <3>1. Len(chunks') = Len(chunks) + 1
      BY <1>1, <2>2, Typed DEF WithTail
    <3>2. CASE spare > 0
      BY <2>2, <3>1, <3>2, Typed DEF TakeSpare, ChunksCounted
    <3>3. CASE ~(spare > 0)
      <4>0. /\ opts.max \in Nat /\ count \in Nat /\ pool \in Nat /\ SpareMax \in Nat
            /\ pool <= SpareMax /\ count = Len(chunks) + spare /\ spare \in Nat
        BY Typed
      <4>1. count < opts.max \/ opts.soft
        BY <2>2, <3>3 DEF HasSpare
      <4>2. spare' = spare /\ count' = count + 1 /\ pool' = (IF opts.pooled /\ pool > 0 THEN pool - 1 ELSE pool)
        BY <2>2, <3>3 DEF TakeSpare
      <4>3. pool' \in Nat /\ pool' <= SpareMax
        BY <4>0, <4>2
      <4>4. ASSUME ~opts.soft PROVE count' <= opts.max
        <5>1. count < opts.max
          BY <4>1, <4>4
        <5> QED BY <4>0, <4>2, <5>1
      <4>5. count' = Len(chunks') + spare' /\ spare' \in Nat /\ count' \in Nat
        BY <3>1, <4>0, <4>2
      <4>6. ~opts'.soft => count' <= opts'.max
        BY <4>4
      <4> QED BY <4>3, <4>5, <4>6 DEF ChunksCounted
    <3> QED BY <3>2, <3>3
  <2> QED BY <2>1, <2>2
<1>3. TypeOK'
  BY <1>1, <1>2, Typed DEF TypeOK, IInv, Chunk
<1>4. InOrder'
  BY DEF IInv, InOrder
<1> QED BY <1>1, <1>2, <1>3, <1>4 DEF IInv

LEMMA WriteStep == ASSUME BufQConstants, IInv, WriteTurn PROVE IInv'
<1> DEFINE n == Lesser(TailRoom, op.left)
<1>1. TailRoom \in Nat /\ op \in [call : Calls, left : Nat]
  BY WithTailBytes, Typed DEF WriteTurn, TailRoom
<1>2. n \in Nat /\ n <= TailRoom /\ n <= op.left
  BY <1>1 DEF Lesser
<1>3. chunks' = Filled(n) /\ put' = put + n /\ op' = [op EXCEPT !.left = @ - n]
  BY DEF WriteTurn
<1> HIDE DEF n
<1>4. op'.call = op.call /\ op' \in [call : Calls, left : Nat]
  BY <1>1, <1>2, <1>3
<1> QED BY <1>2, <1>3, <1>4, FillStep DEF WriteTurn

LEMMA ReadInStep == ASSUME BufQConstants, IInv, NEW n \in Nat, ReadIn(n) PROVE IInv'
<1>1. op'.call = op.call /\ op' \in [call : Calls, left : Nat]
  BY Typed DEF ReadIn
<1> QED BY <1>1, FillStep DEF ReadIn

\* A turn that takes bytes from the head.
LEMMA TakeStep ==
  ASSUME BufQConstants, IInv, op'.call \in ReadCalls, op' \in [call : Calls, left : Nat],
         chunks # <<>>, Unread(chunks[1]) # 0, NEW n \in Nat, n <= Unread(chunks[1]), Takes(n),
         UNCHANGED <<opts, spare, count, pool, put>>
  PROVE  IInv'
<1>1. /\ chunks' \in Seq(Chunk) /\ Len(chunks') = Len(chunks) /\ got' \in Nat
      /\ taken' \in Seq(Nat) /\ InOrder' /\ Bytes'
  BY TakenBytes
<1>2. TypeOK'
  BY <1>1 DEF IInv, TypeOK, Chunk
<1>3. ChunksCounted'
  BY <1>1 DEF IInv, ChunksCounted
<1> QED BY <1>1, <1>2, <1>3 DEF IInv

LEMMA HeadUnread == ASSUME BufQConstants, IInv, chunks # <<>> PROVE Unread(chunks[1]) \in Nat
<1>1. chunks[1] \in Chunk /\ 1 \in 1..Len(chunks)
  BY Typed, FirstAndLast
<1>2. Run(chunks[1])
  BY <1>1 DEF IInv, Bytes
<1>3. Len(chunks[1].data) \in Nat /\ chunks[1].r \in Nat /\ (chunks[1].data = <<>> => Len(chunks[1].data) = 0)
  BY <1>1 DEF Chunk
<1> QED BY <1>2, <1>3 DEF Run, Unread

LEMMA ReadStep == ASSUME BufQConstants, IInv, ReadTurn PROVE IInv'
<1> DEFINE n == Lesser(Unread(chunks[1]), op.left)
<1>1. chunks # <<>> /\ Unread(chunks[1]) \in Nat \ {0} /\ op.call \in ReadCalls
  BY HeadUnread DEF ReadTurn, Pruning, ReadCalls
<1>2. n \in Nat /\ n <= Unread(chunks[1]) /\ n <= op.left
  BY <1>1, Typed DEF Lesser
<1>3. Takes(n) /\ op' = [op EXCEPT !.left = @ - n]
  BY DEF ReadTurn
<1> HIDE DEF n
<1>4. op'.call = op.call /\ op' \in [call : Calls, left : Nat]
  <2>1. op \in [call : Calls, left : Nat] /\ op.left - n \in Nat
    BY <1>2, Typed
  <2> QED BY <1>3, <2>1
<1> QED BY <1>1, <1>2, <1>3, <1>4, TakeStep DEF ReadTurn

LEMMA PassStep == ASSUME BufQConstants, IInv, NEW n \in Nat, PassTurn(n) PROVE IInv'
<1>1. chunks # <<>> /\ Unread(chunks[1]) # 0 /\ op.call \in ReadCalls
  BY DEF PassTurn, Pruning, ReadCalls
<1>2. op'.call = op.call /\ op' \in [call : Calls, left : Nat]
  BY Typed DEF PassTurn
<1> QED BY <1>1, <1>2, TakeStep DEF PassTurn

\* An empty head leaves the queue; a queue of a pool does not keep spares of its own.
LEMMA PruneStep == ASSUME BufQConstants, IInv, PruneTurn PROVE IInv'
<1>1. chunks' \in Seq(Chunk) /\ Len(chunks') = Len(chunks) - 1 /\ Bytes'
  BY PrunedBytes DEF PruneTurn, Pruning, ReadCalls
<1>2. Len(chunks) \in Nat \ {0}
  BY Typed, FirstAndLast DEF PruneTurn, Pruning
<1>3. ChunksCounted' /\ spare' \in Nat /\ count' \in Nat /\ pool' \in Nat /\ pool' <= SpareMax
  <2>1. /\ spare \in Nat /\ count \in Nat /\ pool \in Nat /\ SpareMax \in Nat /\ pool <= SpareMax
        /\ count = Len(chunks) + spare /\ (~opts.soft => count <= opts.max) /\ opts.max \in Nat
    BY Typed
  <2>2. opts' = opts
    BY DEF PruneTurn
  <2>3. CASE opts.pooled
    <3>1. count' = count - 1 /\ spare' = spare /\ pool' = (IF pool < SpareMax THEN pool + 1 ELSE pool)
      BY <2>3 DEF PruneTurn
    <3> QED BY <1>1, <1>2, <2>1, <2>2, <3>1 DEF ChunksCounted
  <2>4. CASE ~opts.pooled /\ (count > opts.max \/ ~opts.spares)
    <3>1. count' = count - 1 /\ UNCHANGED <<spare, pool>>
      BY <2>4 DEF PruneTurn
    <3> QED BY <1>1, <1>2, <2>1, <2>2, <3>1 DEF ChunksCounted
  <2>5. CASE ~opts.pooled /\ ~(count > opts.max \/ ~opts.spares)
    <3>1. spare' = spare + 1 /\ UNCHANGED <<count, pool>>
      BY <2>5 DEF PruneTurn
    <3> QED BY <1>1, <1>2, <2>1, <2>2, <3>1 DEF ChunksCounted
  <2> QED BY <2>3, <2>4, <2>5
<1>4. TypeOK' /\ InOrder'
  BY <1>1, <1>3, Typed, NothingTaken DEF PruneTurn, TypeOK, IInv, Chunk
<1> QED BY <1>1, <1>3, <1>4 DEF IInv

\* A call that read does not return while the head is empty and others are behind it.
LEMMA ReturnsStep == ASSUME BufQConstants, IInv, Returns PROVE IInv'
<1>1. HeadPruned'
  <2>1. ASSUME Len(chunks) > 1 PROVE chunks[1].data # <<>>
    <3>1. CASE op.call \in ReadCalls
      <4>1. chunks # <<>> /\ chunks[1] \in Chunk /\ 1 \in 1..Len(chunks)
        BY <2>1, Typed, FirstAndLast
      <4>2. Run(chunks[1]) /\ Unread(chunks[1]) # 0
        BY <3>1, <4>1 DEF IInv, Bytes, Returns, Pruning, ReadCalls
      <4>3. chunks[1].data = <<>> => Len(chunks[1].data) = 0
        OBVIOUS
      <4> QED BY <4>2, <4>3 DEF Run, Unread
    <3>2. CASE op.call \notin ReadCalls
      BY <2>1, <3>2 DEF IInv, Bytes, HeadPruned
    <3> QED BY <3>1, <3>2
  <2> QED BY <2>1 DEF HeadPruned, Returns
<1>2. Bytes'
  BY <1>1, SameBytes DEF Returns
<1>3. TypeOK' /\ InOrder'
  BY NothingTaken DEF Returns, IInv, TypeOK, Idle, Calls
<1>4. ChunksCounted'
  BY DEF Returns, IInv, ChunksCounted
<1> QED BY <1>2, <1>3, <1>4 DEF IInv

\* An empty queue from which all that was written has been taken.
LEMMA EmptyBytes == ASSUME chunks' = <<>>, got' = put' PROVE Bytes'
BY DEF Bytes, Ends, HeadPruned

LEMMA ResetStep == ASSUME BufQConstants, IInv, Reset PROVE IInv'
<1>1. Bytes' /\ InOrder' /\ taken' \in Seq(Nat)
  BY EmptyBytes, NothingTaken DEF Reset
<1>2. spare' = count /\ chunks' = <<>>
  BY Typed DEF Reset
<1>3. TypeOK' /\ ChunksCounted'
  BY <1>1, <1>2, Typed DEF Reset, TypeOK, IInv, ChunksCounted
<1> QED BY <1>1, <1>3 DEF IInv

LEMMA FreeStep == ASSUME BufQConstants, IInv, Free PROVE IInv'
<1>1. Bytes' /\ InOrder' /\ taken' \in Seq(Nat)
  BY EmptyBytes, NothingTaken DEF Free
<1>2. TypeOK' /\ ChunksCounted'
  BY <1>1, Typed DEF Free, TypeOK, IInv, ChunksCounted
<1> QED BY <1>1, <1>2 DEF IInv

LEMMA OthersStep == ASSUME BufQConstants, IInv, OtherQueues PROVE IInv'
<1>1. Bytes'
  <2>1. HeadPruned'
    BY DEF OtherQueues, IInv, Bytes, HeadPruned
  <2> QED BY <2>1, SameBytes DEF OtherQueues
<1>2. TypeOK' /\ InOrder' /\ ChunksCounted'
  BY Typed DEF OtherQueues, TypeOK, IInv, InOrder, ChunksCounted
<1> QED BY <1>1, <1>2 DEF IInv

\* No step breaks the invariant.
LEMMA NextInv == ASSUME BufQConstants, IInv, [Next]_bufqVars PROVE IInv'
<1>1. ASSUME NEW n \in 1..MaxBytes, Write(n) \/ Read(n) \/ Skip(n) PROVE IInv'
  BY <1>1, BeginStep DEF Write, Read, Skip, Calls, BufQConstants
<1>2. ASSUME NEW n \in 0..MaxBytes, (put + n <= MaxBytes /\ ReadIn(n)) \/ PassTurn(n) PROVE IInv'
  BY <1>2, ReadInStep, PassStep DEF BufQConstants
<1>3. CASE Sip \/ Slurp \/ Pass \/ Peek
  BY <1>3, BeginStep DEF Sip, Slurp, Pass, Peek, Calls
<1>4. CASE WriteTurn \/ ReadTurn \/ PruneTurn \/ Returns
  BY <1>4, WriteStep, ReadStep, PruneStep, ReturnsStep
<1>5. CASE Reset \/ Free \/ OtherQueues
  BY <1>5, ResetStep, FreeStep, OthersStep
<1>6. CASE UNCHANGED bufqVars
  <2>1. HeadPruned'
    BY <1>6 DEF bufqVars, IInv, Bytes, HeadPruned
  <2>2. Bytes'
    BY <1>6, <2>1, SameBytes DEF bufqVars
  <2> QED BY <1>6, <2>2 DEF bufqVars, IInv, TypeOK, InOrder, ChunksCounted
<1> QED BY <1>1, <1>2, <1>3, <1>4, <1>5, <1>6 DEF Next

-----------------------------------------------------------------------------
\* What is taken out of a queue is what was written, in order and without a gap; it
\* says truly whether it is empty or full, and its limit holds: for every chunk size,
\* every option and every sequence of calls.
THEOREM QueueIsRight == ASSUME BufQConstants PROVE Spec => [](TypeOK /\ QueueRight)
<1>1. Init => IInv
  BY InitInv
<1>2. IInv /\ [Next]_bufqVars => IInv'
  BY NextInv
<1>3. IInv => TypeOK /\ QueueRight
  BY InvSays DEF IInv, QueueRight
<1> QED BY <1>1, <1>2, <1>3, PTL DEF Spec

-----------------------------------------------------------------------------
(* The event sets. *)

ME == INSTANCE MultiEvents

EntryType == [there : BOOLEAN, users : SUBSET PollUsers, readers : Nat, writers : Nat,
              action : SUBSET ME!Actions, announced : BOOLEAN]

\* what is needed of a socket that R read and W write
Sum(R, W) == (IF R = {} THEN {} ELSE {"IN"}) \cup (IF W = {} THEN {} ELSE {"OUT"})

\* the entry of a socket, and what the application was told of it
SocketRight(e, told, R, W) ==
  /\ e \in EntryType
  /\ e.users = R \cup W
  /\ e.readers = Cardinality(R) /\ e.writers = Cardinality(W)
  /\ e.action = Sum(R, W) /\ told = Sum(R, W)
  /\ IF R \cup W = {} THEN e = ME!NoEntry ELSE e.there = TRUE /\ e.announced = TRUE

By(act, s) == {v \in PollUsers : s \in DOMAIN needs[v] /\ act \in needs[v][s]}

EventsInv ==
  /\ open \subseteq Fds /\ dirtyXfers \subseteq Xfers
  /\ DOMAIN shEntry = Fds /\ DOMAIN watched = Fds
  /\ DOMAIN needs = PollUsers /\ DOMAIN lastPs = PollUsers
  /\ \A v \in PollUsers : DOMAIN needs[v] \subseteq Fds /\ DOMAIN lastPs[v] \subseteq Fds
  /\ \A v \in PollUsers : \A s \in DOMAIN needs[v] :
       /\ needs[v][s] \subseteq ME!Actions /\ needs[v][s] # {}
       /\ s \in DOMAIN lastPs[v] /\ lastPs[v][s] = needs[v][s]
  /\ \A s \in Fds : SocketRight(shEntry[s], watched[s], By("IN", s), By("OUT", s))

-----------------------------------------------------------------------------
\* one user joins a set or leaves it
Changed(R, u, in) == IF in THEN R \cup {u} ELSE R \ {u}

\* Counting one user's difference keeps the count of a set exact.
LEMMA CountedIsExact ==
  ASSUME NEW R, IsFiniteSet(R), NEW u, NEW act, NEW before, NEW now, act \in before <=> u \in R
  PROVE  /\ ME!Counted(Cardinality(R), act, before, now) = Cardinality(Changed(R, u, act \in now))
         /\ IsFiniteSet(Changed(R, u, act \in now))
<1>1. Cardinality(R) \in Nat
  BY FS_CardinalityType
<1>2. CASE act \in now
  <2>1. IsFiniteSet(R \cup {u}) /\ Cardinality(R \cup {u}) = IF u \in R THEN Cardinality(R) ELSE Cardinality(R) + 1
    BY FS_AddElement
  <2> QED BY <2>1, <1>1, <1>2 DEF ME!Counted, Changed
<1>3. CASE act \notin now
  <2>1. IsFiniteSet(R \ {u}) /\ Cardinality(R \ {u}) = IF u \in R THEN Cardinality(R) - 1 ELSE Cardinality(R)
    BY FS_RemoveElement
  <2> QED BY <2>1, <1>1, <1>3 DEF ME!Counted, Changed
<1> QED BY <1>2, <1>3

\* mev_sh_entry_update keeps the counts and the sum of an entry right.
LEMMA UpdateIsRight ==
  ASSUME NEW e \in EntryType, NEW R, NEW W, IsFiniteSet(R), IsFiniteSet(W), NEW u, NEW before, NEW now,
         e.readers = Cardinality(R), e.writers = Cardinality(W), e.action = Sum(R, W),
         "IN" \in before <=> u \in R, "OUT" \in before <=> u \in W
  PROVE  /\ ME!Update(e, before, now) \in EntryType
         /\ ME!Update(e, before, now).users = e.users
         /\ ME!Update(e, before, now).there = e.there
         /\ ME!Update(e, before, now).readers = Cardinality(Changed(R, u, "IN" \in now))
         /\ ME!Update(e, before, now).writers = Cardinality(Changed(W, u, "OUT" \in now))
         /\ ME!Update(e, before, now).action = Sum(Changed(R, u, "IN" \in now), Changed(W, u, "OUT" \in now))
         /\ ME!Update(e, before, now).announced =
              (e.announced \/ Sum(Changed(R, u, "IN" \in now), Changed(W, u, "OUT" \in now)) # Sum(R, W))
<1> DEFINE R2 == Changed(R, u, "IN" \in now)
           W2 == Changed(W, u, "OUT" \in now)
           r == ME!Counted(e.readers, "IN", before, now)
           w == ME!Counted(e.writers, "OUT", before, now)
           combo == (IF r > 0 THEN {"IN"} ELSE {}) \cup (IF w > 0 THEN {"OUT"} ELSE {})
<1>1. r = Cardinality(R2) /\ IsFiniteSet(R2) /\ w = Cardinality(W2) /\ IsFiniteSet(W2)
  <2>1. r = Cardinality(R2) /\ IsFiniteSet(R2)
    BY CountedIsExact
  <2>2. w = Cardinality(W2) /\ IsFiniteSet(W2)
    BY CountedIsExact
  <2> QED BY <2>1, <2>2
<1>2. r \in Nat /\ w \in Nat
  BY <1>1, FS_CardinalityType
<1>3. (r = 0 <=> R2 = {}) /\ (w = 0 <=> W2 = {})
  BY <1>1, FS_EmptySet
<1>4. combo = Sum(R2, W2) /\ combo \subseteq ME!Actions
  <2> HIDE DEF r, w, R2, W2
  <2> QED BY <1>2, <1>3 DEF Sum, ME!Actions
<1>5. ME!Update(e, before, now) = [e EXCEPT !.readers = r, !.writers = w, !.action = combo,
                                         !.announced = @ \/ combo # e.action]
  BY DEF ME!Update
<1> HIDE DEF r, w, combo
<1> QED BY <1>1, <1>2, <1>4, <1>5 DEF EntryType

\* mev_pollset_diff and the callback keep each socket's entry right, whatever the
\* sockets are the user needs now.
LEMMA DiffedIsRight ==
  ASSUME NEW s \in Fds, NEW u \in PollUsers, NEW ps, NEW R, NEW W, NEW R2, NEW W2,
         R \subseteq PollUsers, W \subseteq PollUsers, IsFiniteSet(R), IsFiniteSet(W),
         SocketRight(shEntry[s], watched[s], R, W),
         u \in R \cup W => s \in DOMAIN lastPs[u],
         u \in R \cup W => ("IN" \in lastPs[u][s] <=> u \in R) /\ ("OUT" \in lastPs[u][s] <=> u \in W),
         s \in DOMAIN ps => ps[s] \subseteq ME!Actions /\ ps[s] # {},
         R2 = Changed(R, u, s \in DOMAIN ps /\ "IN" \in ps[s]),
         W2 = Changed(W, u, s \in DOMAIN ps /\ "OUT" \in ps[s])
  PROVE  SocketRight(ME!Diffed(u, s, ps), ME!Told(s, ME!Diffed(u, s, ps)), R2, W2)
<1> DEFINE e == shEntry[s]
           known == e.there /\ u \in e.users
           before == IF known /\ s \in DOMAIN lastPs[u] THEN lastPs[u][s] ELSE {}
           d == ME!Diffed(u, s, ps)
<1>1. e \in EntryType /\ e.users = R \cup W /\ e.readers = Cardinality(R) /\ e.writers = Cardinality(W)
      /\ e.action = Sum(R, W) /\ watched[s] = Sum(R, W)
  BY DEF SocketRight
<1>2. R \cup W = {} => e = ME!NoEntry /\ e.there = FALSE
  BY DEF SocketRight, ME!NoEntry
<1>3. R \cup W # {} => e.there = TRUE /\ e.announced = TRUE
  BY DEF SocketRight
<1>4. known <=> u \in R \cup W
  BY <1>1, <1>2, <1>3
<1>5. ("IN" \in before <=> u \in R) /\ ("OUT" \in before <=> u \in W)
  BY <1>4
<1>6. Cardinality({}) = 0
  BY FS_EmptySet
<1>7. CASE s \in DOMAIN ps
  <2> DEFINE e2 == [e EXCEPT !.there = TRUE, !.users = @ \cup {u}]
  <2>1. d = ME!Update(e2, before, ps[s])
    BY <1>7 DEF ME!Diffed
  <2>2. e2 \in EntryType /\ e2.users = R \cup W \cup {u} /\ e2.there = TRUE /\ e2.readers = Cardinality(R)
        /\ e2.writers = Cardinality(W) /\ e2.action = Sum(R, W) /\ e2.announced = e.announced
    BY <1>1 DEF EntryType
  <2>3. R2 = Changed(R, u, "IN" \in ps[s]) /\ W2 = Changed(W, u, "OUT" \in ps[s])
    BY <1>7
  <2>4. R2 \cup W2 = R \cup W \cup {u}
    <3>1. "IN" \in ps[s] \/ "OUT" \in ps[s]
      BY <1>7 DEF ME!Actions
    <3> QED BY <3>1, <2>3 DEF Changed
  <2> HIDE DEF e2, before, e, known, d
  <2>5. /\ d \in EntryType /\ d.users = R \cup W \cup {u} /\ d.there = TRUE
        /\ d.readers = Cardinality(R2) /\ d.writers = Cardinality(W2) /\ d.action = Sum(R2, W2)
        /\ d.announced = (e.announced \/ Sum(R2, W2) # Sum(R, W))
    <3> DEFINE up == ME!Update(e2, before, ps[s])
    <3>1. /\ up \in EntryType /\ up.users = e2.users /\ up.there = e2.there
          /\ up.readers = Cardinality(R2) /\ up.writers = Cardinality(W2) /\ up.action = Sum(R2, W2)
          /\ up.announced = (e2.announced \/ Sum(R2, W2) # Sum(R, W))
      <4> HIDE DEF up
      <4> DEFINE now == ps[s]
      <4>1. R2 = Changed(R, u, "IN" \in now) /\ W2 = Changed(W, u, "OUT" \in now) /\ up = ME!Update(e2, before, now)
        BY <2>3 DEF up
      <4> HIDE DEF now
      <4> QED BY <4>1, <2>2, <1>5, UpdateIsRight
    <3> QED BY <3>1, <2>1, <2>2
  <2>6. d.announced = TRUE
    <3>1. CASE R \cup W = {}
      <4>1. Sum(R, W) = {} /\ Sum(R2, W2) # {}
        BY <3>1, <2>4 DEF Sum
      <4> QED BY <4>1, <2>5
    <3>2. CASE R \cup W # {}
      BY <3>2, <1>3, <2>5
    <3> QED BY <3>1, <3>2
  <2>7. ME!Told(s, d) = Sum(R2, W2)
    BY <2>5, <1>1 DEF ME!Told, e
  <2>8. R2 \cup W2 # {}
    BY <2>4
  <2> QED BY <2>4, <2>5, <2>6, <2>7, <2>8 DEF SocketRight, d
<1>8. CASE s \notin DOMAIN ps
  <2>1. R2 = R \ {u} /\ W2 = W \ {u}
    BY <1>8 DEF Changed
  <2>2. CASE ~known
    <3>1. d = e
      BY <1>8, <2>2 DEF ME!Diffed
    <3>2. R2 = R /\ W2 = W
      BY <2>1, <2>2, <1>4
    <3>3. ME!Told(s, e) = watched[s]
      BY <1>2, <1>3 DEF ME!Told
    <3> QED BY <3>1, <3>2, <3>3
  <2>3. CASE known /\ e.users = {u}
    <3>1. d = ME!NoEntry
      BY <1>8, <2>3, <1>4 DEF ME!Diffed
    <3>2. R2 = {} /\ W2 = {}
      BY <2>1, <2>3, <1>1
    <3>3. ME!Told(s, ME!NoEntry) = {}
      BY <2>3, <1>3, <1>4 DEF ME!Told, ME!NoEntry
    <3>4. ME!NoEntry \in EntryType /\ ME!NoEntry.users = {} /\ ME!NoEntry.readers = 0 /\ ME!NoEntry.writers = 0
          /\ ME!NoEntry.action = {}
      BY DEF ME!NoEntry, EntryType
    <3>5. Sum({}, {}) = {}
      BY DEF Sum
    <3> QED BY <3>1, <3>2, <3>3, <3>4, <3>5, <1>6 DEF SocketRight
  <2>4. CASE known /\ e.users # {u}
    <3> DEFINE e2 == [e EXCEPT !.users = @ \ {u}]
    <3>1. d = ME!Update(e2, before, {})
      BY <1>8, <2>4, <1>4 DEF ME!Diffed
    <3>2. e2 \in EntryType /\ e2.users = R2 \cup W2 /\ e2.there = TRUE /\ e2.readers = Cardinality(R)
          /\ e2.writers = Cardinality(W) /\ e2.action = Sum(R, W) /\ e2.announced = TRUE
      BY <1>1, <1>3, <1>4, <2>1, <2>4 DEF EntryType
    <3>3. R2 = Changed(R, u, "IN" \in {}) /\ W2 = Changed(W, u, "OUT" \in {})
      BY <2>1 DEF Changed
    <3>4. R2 \cup W2 # {}
      BY <2>1, <2>4, <1>1, <1>4
    <3> HIDE DEF e2, before, e, known, d
    <3>5. /\ d \in EntryType /\ d.users = R2 \cup W2 /\ d.there = TRUE
          /\ d.readers = Cardinality(R2) /\ d.writers = Cardinality(W2) /\ d.action = Sum(R2, W2)
          /\ d.announced = (TRUE \/ Sum(R2, W2) # Sum(R, W))
      <4> DEFINE up == ME!Update(e2, before, {})
      <4>1. /\ up \in EntryType /\ up.users = e2.users /\ up.there = e2.there
            /\ up.readers = Cardinality(R2) /\ up.writers = Cardinality(W2) /\ up.action = Sum(R2, W2)
            /\ up.announced = (e2.announced \/ Sum(R2, W2) # Sum(R, W))
        <5> HIDE DEF up
        <5> DEFINE now == {}
        <5>1. R2 = Changed(R, u, "IN" \in now) /\ W2 = Changed(W, u, "OUT" \in now) /\ up = ME!Update(e2, before, now)
          BY <3>3 DEF up
        <5> HIDE DEF now
        <5> QED BY <5>1, <3>2, <1>5, UpdateIsRight
      <4> QED BY <4>1, <3>1, <3>2
    <3>6. ME!Told(s, d) = Sum(R2, W2)
      BY <3>5, <1>1 DEF ME!Told, e
    <3> QED BY <3>4, <3>5, <3>6 DEF SocketRight, d
  <2> QED BY <2>2, <2>3, <2>4
<1> QED BY <1>7, <1>8

-----------------------------------------------------------------------------
LEMMA UsersFinite ==
  ASSUME EventsConstants
  PROVE  IsFiniteSet(PollUsers)
BY FS_Union DEF EventsConstants, PollUsers

LEMMA EventsInitInv ==
  ASSUME EventsConstants, ME!Init
  PROVE  EventsInv
<1>1. \A s \in Fds : By("IN", s) = {} /\ By("OUT", s) = {}
  BY DEF ME!Init, By, ME!Nothing, ME!PollUsers, PollUsers
<1>2. Cardinality({}) = 0
  BY FS_EmptySet
<1>3. ME!NoEntry \in EntryType /\ ME!NoEntry.users = {} /\ ME!NoEntry.readers = 0 /\ ME!NoEntry.writers = 0
      /\ ME!NoEntry.action = {}
  BY DEF ME!NoEntry, EntryType
<1>4. Sum({}, {}) = {}
  BY DEF Sum
<1>5. \A s \in Fds : SocketRight(ME!NoEntry, {}, {}, {})
  BY <1>2, <1>3, <1>4 DEF SocketRight
<1>6. \A s \in Fds : SocketRight(shEntry[s], watched[s], By("IN", s), By("OUT", s))
  BY <1>1, <1>5 DEF ME!Init
<1>7. \A v \in PollUsers : needs[v] = ME!Nothing /\ lastPs[v] = ME!Nothing
  BY DEF ME!Init, ME!PollUsers, PollUsers
<1> QED BY <1>6, <1>7 DEF ME!Init, EventsInv, ME!Nothing, ME!PollUsers, PollUsers

\* An assessment of u, or its end, that finds the pollset ps.
LEMMA AssessedInv ==
  ASSUME EventsConstants, EventsInv, NEW u \in PollUsers, NEW ps,
         DOMAIN ps \subseteq Fds, \A s \in DOMAIN ps : ps[s] \subseteq ME!Actions /\ ps[s] # {},
         ME!Diff(u, ps), lastPs' = [lastPs EXCEPT ![u] = ps], needs' = [needs EXCEPT ![u] = ps],
         UNCHANGED <<open, dirtyXfers>>
  PROVE  EventsInv'
<1>1. \A s \in Fds : SocketRight(shEntry[s], watched[s], By("IN", s), By("OUT", s))
  BY DEF EventsInv
<1>2. needs'[u] = ps /\ lastPs'[u] = ps /\ DOMAIN needs' = PollUsers /\ DOMAIN lastPs' = PollUsers
      /\ \A v \in PollUsers \ {u} : needs'[v] = needs[v] /\ lastPs'[v] = lastPs[v]
  BY DEF EventsInv
<1>3. ASSUME NEW s \in Fds
      PROVE  SocketRight(shEntry'[s], watched'[s], By("IN", s)', By("OUT", s)')
  <2> DEFINE R == By("IN", s)  W == By("OUT", s)
             R2 == Changed(R, u, s \in DOMAIN ps /\ "IN" \in ps[s])
             W2 == Changed(W, u, s \in DOMAIN ps /\ "OUT" \in ps[s])
  <2>1. R \subseteq PollUsers /\ W \subseteq PollUsers
    BY DEF By
  <2>2. IsFiniteSet(R) /\ IsFiniteSet(W)
    BY <2>1, UsersFinite, FS_Subset
  <2>3. /\ u \in R \cup W => s \in DOMAIN lastPs[u]
        /\ u \in R \cup W => ("IN" \in lastPs[u][s] <=> u \in R) /\ ("OUT" \in lastPs[u][s] <=> u \in W)
    BY DEF EventsInv, By
  <2>4. By("IN", s)' = R2 /\ By("OUT", s)' = W2
    BY <1>2 DEF By, Changed
  <2>5. shEntry'[s] = ME!Diffed(u, s, ps) /\ watched'[s] = ME!Told(s, ME!Diffed(u, s, ps))
    BY DEF ME!Diff
  <2>6. SocketRight(shEntry[s], watched[s], R, W) /\ (s \in DOMAIN ps => ps[s] \subseteq ME!Actions /\ ps[s] # {})
    BY <1>1
  <2> HIDE DEF R, W
  <2>7. SocketRight(ME!Diffed(u, s, ps), ME!Told(s, ME!Diffed(u, s, ps)), R2, W2)
    BY <2>1, <2>2, <2>3, <2>6, DiffedIsRight
  <2> QED BY <2>4, <2>5, <2>7
<1>4. DOMAIN shEntry' = Fds /\ DOMAIN watched' = Fds
  BY DEF ME!Diff
<1>5. ASSUME NEW v \in PollUsers
      PROVE  /\ DOMAIN needs'[v] \subseteq Fds /\ DOMAIN lastPs'[v] \subseteq Fds
             /\ \A s \in DOMAIN needs'[v] :
                  /\ needs'[v][s] \subseteq ME!Actions /\ needs'[v][s] # {}
                  /\ s \in DOMAIN lastPs'[v] /\ lastPs'[v][s] = needs'[v][s]
  <2>1. CASE v = u
    BY <2>1, <1>2
  <2>2. CASE v # u
    BY <2>2, <1>2 DEF EventsInv
  <2> QED BY <2>1, <2>2
<1>6. open' \subseteq Fds /\ dirtyXfers' \subseteq Xfers
  BY DEF EventsInv
<1> QED BY <1>2, <1>3, <1>4, <1>5, <1>6 DEF EventsInv

LEMMA CloseInv ==
  ASSUME EventsConstants, EventsInv, NEW s \in Fds, ME!CloseSocket(s)
  PROVE  EventsInv'
<1>1. \A t \in Fds : SocketRight(shEntry[t], watched[t], By("IN", t), By("OUT", t))
  BY DEF EventsInv
<1>2. DOMAIN needs' = PollUsers /\ lastPs' = lastPs
      /\ \A v \in PollUsers : needs'[v] = [t \in DOMAIN needs[v] \ {s} |-> needs[v][t]]
  BY DEF ME!CloseSocket, ME!PollUsers, PollUsers
<1>3. ASSUME NEW t \in Fds
      PROVE  SocketRight(shEntry'[t], watched'[t], By("IN", t)', By("OUT", t)')
  <2>1. CASE t = s
    <3>1. By("IN", t)' = {} /\ By("OUT", t)' = {}
      BY <2>1, <1>2 DEF By
    <3>2. Cardinality({}) = 0
      BY FS_EmptySet
    <3>3. ME!NoEntry \in EntryType /\ ME!NoEntry.users = {} /\ ME!NoEntry.readers = 0 /\ ME!NoEntry.writers = 0
          /\ ME!NoEntry.action = {} /\ ME!NoEntry.there = FALSE
      BY DEF ME!NoEntry, EntryType
    <3>4. Sum({}, {}) = {}
      BY DEF Sum
    <3>5. shEntry'[t] = ME!NoEntry /\ watched'[t] = ME!Told(t, ME!NoEntry)
      BY <2>1 DEF ME!CloseSocket, ME!Forgotten, EventsInv
    <3>6. ME!Told(t, ME!NoEntry) = {}
      <4>1. CASE By("IN", t) \cup By("OUT", t) = {}
        BY <4>1, <1>1, <3>3, <3>4 DEF ME!Told, SocketRight
      <4>2. CASE By("IN", t) \cup By("OUT", t) # {}
        BY <4>2, <1>1, <3>3 DEF ME!Told, SocketRight
      <4> QED BY <4>1, <4>2
    <3> QED BY <3>1, <3>2, <3>3, <3>4, <3>5, <3>6 DEF SocketRight
  <2>2. CASE t # s
    <3>1. By("IN", t)' = By("IN", t) /\ By("OUT", t)' = By("OUT", t)
      <4>1. \A v \in PollUsers : /\ DOMAIN needs'[v] = DOMAIN needs[v] \ {s}
                                 /\ \A x \in DOMAIN needs[v] \ {s} : needs'[v][x] = needs[v][x]
        BY <1>2
      <4>2. \A v \in PollUsers : /\ t \in DOMAIN needs'[v] <=> t \in DOMAIN needs[v]
                                 /\ t \in DOMAIN needs[v] => needs'[v][t] = needs[v][t]
        BY <4>1, <2>2
      <4> QED BY <4>2 DEF By
    <3>2. shEntry'[t] = shEntry[t] /\ watched'[t] = watched[t]
      BY <2>2 DEF ME!CloseSocket, EventsInv
    <3> QED BY <1>1, <3>1, <3>2
  <2> QED BY <2>1, <2>2
<1>4. DOMAIN shEntry' = Fds /\ DOMAIN watched' = Fds /\ open' \subseteq Fds /\ dirtyXfers' \subseteq Xfers
  BY DEF ME!CloseSocket, EventsInv
<1>5. ASSUME NEW v \in PollUsers
      PROVE  /\ DOMAIN needs'[v] \subseteq Fds /\ DOMAIN lastPs'[v] \subseteq Fds
             /\ \A t \in DOMAIN needs'[v] :
                  /\ needs'[v][t] \subseteq ME!Actions /\ needs'[v][t] # {}
                  /\ t \in DOMAIN lastPs'[v] /\ lastPs'[v][t] = needs'[v][t]
  <2>1. /\ DOMAIN needs'[v] = DOMAIN needs[v] \ {s} /\ lastPs'[v] = lastPs[v]
        /\ \A x \in DOMAIN needs[v] \ {s} : needs'[v][x] = needs[v][x]
    BY <1>2
  <2>2. /\ DOMAIN needs[v] \subseteq Fds /\ DOMAIN lastPs[v] \subseteq Fds
        /\ \A x \in DOMAIN needs[v] :
             /\ needs[v][x] \subseteq ME!Actions /\ needs[v][x] # {}
             /\ x \in DOMAIN lastPs[v] /\ lastPs[v][x] = needs[v][x]
    BY DEF EventsInv
  <2> QED BY <2>1, <2>2
<1> QED BY <1>2, <1>3, <1>4, <1>5 DEF EventsInv

-----------------------------------------------------------------------------
LEMMA StepInv ==
  ASSUME EventsConstants, EventsInv, [ME!Next]_evVars
  PROVE  EventsInv'
<1>1. ASSUME NEW u \in PollUsers, ME!Assess(u) PROVE EventsInv'
  <2>1. PICK used \in SUBSET open : \E ps \in [used -> (SUBSET ME!Actions) \ {{}}] :
          /\ ME!Diff(u, ps) /\ lastPs' = [lastPs EXCEPT ![u] = ps] /\ needs' = [needs EXCEPT ![u] = ps]
    BY <1>1 DEF ME!Assess
  <2>2. PICK ps \in [used -> (SUBSET ME!Actions) \ {{}}] :
          /\ ME!Diff(u, ps) /\ lastPs' = [lastPs EXCEPT ![u] = ps] /\ needs' = [needs EXCEPT ![u] = ps]
    BY <2>1
  <2>3. DOMAIN ps \subseteq Fds /\ \A s \in DOMAIN ps : ps[s] \subseteq ME!Actions /\ ps[s] # {}
    BY DEF EventsInv
  <2>4. UNCHANGED <<open, dirtyXfers>>
    BY <1>1 DEF ME!Assess
  <2> QED BY <2>2, <2>3, <2>4, AssessedInv
<1>2. ASSUME NEW u \in PollUsers, ME!UserDone(u) PROVE EventsInv'
  <2>1. DOMAIN ME!Nothing = {}
    BY DEF ME!Nothing
  <2>2. /\ ME!Diff(u, ME!Nothing) /\ lastPs' = [lastPs EXCEPT ![u] = ME!Nothing]
        /\ needs' = [needs EXCEPT ![u] = ME!Nothing] /\ UNCHANGED <<open, dirtyXfers>>
    BY <1>2 DEF ME!UserDone
  <2> QED BY <2>1, <2>2, AssessedInv
<1>3. ASSUME NEW s \in Fds, ME!CloseSocket(s) PROVE EventsInv'
  BY <1>3, CloseInv
<1>4. ASSUME UNCHANGED <<shEntry, lastPs, watched, needs>>, open' \subseteq Fds, dirtyXfers' \subseteq Xfers
      PROVE  EventsInv'
  BY <1>4 DEF EventsInv, By
<1>5. ASSUME NEW s \in Fds, ME!OpenSocket(s) PROVE EventsInv'
  BY <1>4, <1>5 DEF ME!OpenSocket, EventsInv
<1>6. ASSUME NEW s \in Fds, ME!SocketEvent(s) PROVE EventsInv'
  BY <1>4, <1>6 DEF ME!SocketEvent, EventsInv
<1>7. CASE UNCHANGED evVars
  BY <1>4, <1>7 DEF evVars, EventsInv
<1> QED BY <1>1, <1>2, <1>3, <1>5, <1>6, <1>7 DEF ME!Next, ME!PollUsers, PollUsers

LEMMA InvImplies ==
  ASSUME EventsConstants, EventsInv
  PROVE  EventsRight /\ ME!TypeOK
<1>1. \A s \in Fds : SocketRight(shEntry[s], watched[s], By("IN", s), By("OUT", s))
  BY DEF EventsInv
<1>2. ASSUME NEW s \in Fds
      PROVE  /\ By("IN", s) \cup By("OUT", s) = NeededBy(s)
             /\ Sum(By("IN", s), By("OUT", s)) = UNION {needs[u][s] : u \in NeededBy(s)}
  <2>1. \A v \in NeededBy(s) : needs[v][s] \subseteq ME!Actions /\ needs[v][s] # {}
    BY DEF EventsInv, NeededBy
  <2>2. By("IN", s) \cup By("OUT", s) = NeededBy(s)
    BY <2>1 DEF By, NeededBy, ME!Actions
  <2>3. "IN" \in UNION {needs[u][s] : u \in NeededBy(s)} <=> By("IN", s) # {}
    BY DEF By, NeededBy
  <2>4. "OUT" \in UNION {needs[u][s] : u \in NeededBy(s)} <=> By("OUT", s) # {}
    BY DEF By, NeededBy
  <2>5. UNION {needs[u][s] : u \in NeededBy(s)} \subseteq ME!Actions
    BY <2>1
  <2> QED BY <2>2, <2>3, <2>4, <2>5 DEF Sum, ME!Actions
<1>3. EventsRight
  BY <1>1, <1>2 DEF EventsRight, WatchedAsNeeded, EventReachesUsers, SocketRight
<1>4. ASSUME NEW s \in Fds
      PROVE  shEntry[s].users \subseteq PollUsers /\ shEntry[s].readers \in 0..Cardinality(PollUsers)
  <2>1. By("IN", s) \subseteq PollUsers
    BY DEF By
  <2>2. /\ Cardinality(By("IN", s)) \in Nat /\ Cardinality(PollUsers) \in Nat
        /\ Cardinality(By("IN", s)) <= Cardinality(PollUsers)
    BY <2>1, UsersFinite, FS_Subset, FS_CardinalityType
  <2> QED BY <1>1, <2>2 DEF SocketRight, EntryType
<1>5. ME!PollUsers = PollUsers
  BY DEF ME!PollUsers, PollUsers
<1>6. /\ \A s \in Fds : /\ shEntry[s].users \subseteq PollUsers
                        /\ shEntry[s].readers \in 0..Cardinality(PollUsers)
      /\ \A u \in PollUsers : DOMAIN lastPs[u] \subseteq Fds
      /\ open \subseteq Fds /\ dirtyXfers \subseteq Xfers
  BY <1>4 DEF EventsInv
<1>7. ME!TypeOK
  BY <1>5, <1>6 DEF ME!TypeOK, ME!Cardinality, Cardinality
<1> QED BY <1>3, <1>7

\* For any sockets and users the application watches each socket for exactly what its
\* users need together, and an event reaches each of them, across every order of
\* assessments, ends, closed sockets and reused socket numbers (mev_assess,
\* mev_pollset_diff, mev_sh_entry_update, mev_forget_socket).
THEOREM EventsAreRight ==
  ASSUME EventsConstants
  PROVE  ME!Spec => []EventsRight /\ []ME!TypeOK
<1>1. ME!Init => EventsInv
  BY EventsInitInv
<1>2. EventsInv /\ [ME!Next]_evVars => EventsInv'
  BY StepInv
<1>3. EventsInv => EventsRight /\ ME!TypeOK
  BY InvImplies
<1> QED BY <1>1, <1>2, <1>3, PTL DEF ME!Spec, ME!evVars, evVars
=============================================================================
