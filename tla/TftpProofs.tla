------------------------------ MODULE TftpProofs ------------------------------
(***************************************************************************)
(* For files of any length, any block number modulus, and any loss, order, *)
(* repetition and refusal: the blocks of a TFTP transfer arrive each once  *)
(* and in order, success means all of them, and a transfer whose packets   *)
(* all arrive in time does not fail.  The two exceptions are those of the  *)
(* properties: an OACK that is read after the first block, from which on   *)
(* nothing is claimed (anew), and an upload that ends on a wrap.           *)
(***************************************************************************)
EXTENDS Tftp, Integers, TLAPS

-----------------------------------------------------------------------------
(* Block numbers. *)

\* A number is a multiple of the modulus and its remainder.
LEMMA DivMod ==
  ASSUME NEW M \in Nat, M > 0, NEW a \in Nat
  PROVE  (a % M) \in 0..(M - 1) /\ \E q \in Nat : a = M * q + (a % M)
<1> DEFINE q == a \div M
<1>1. (a % M) \in 0..(M - 1) /\ q \in Nat
  OBVIOUS
<1>2. a = M * q + (a % M)
  OBVIOUS
<1> QED
  BY <1>1, <1>2

\* A multiple of the modulus that is closer to 0 than the modulus is 0.
LEMMA NoMultiple ==
  ASSUME NEW M \in Nat, M > 0, NEW d \in Int, NEW e \in Int, M * d = e, e < M, -e < M
  PROVE  e = 0
OBVIOUS

\* The remainder of a multiple and a rest.
LEMMA Remainder ==
  ASSUME NEW M \in Nat, M > 0, NEW q \in Nat, NEW r \in 0..(M - 1)
  PROVE  ((M * q + r) % M) = r
OBVIOUS

\* Equal remainders of numbers less than the modulus apart are those of one number.
LEMMA CloseModulo ==
  ASSUME NEW M \in Nat, M > 0, NEW a \in Nat, NEW b \in Nat, (a % M) = (b % M), a < b + M, b < a + M
  PROVE  a = b
<1> DEFINE r == a % M
<1>1. PICK p \in Nat : a = M * p + r
  BY DivMod
<1>2. PICK q \in Nat : b = M * q + r
  BY DivMod
<1>3. r \in 0..(M - 1)
  BY DivMod
<1> HIDE DEF r
<1>4. M * (p - q) = a - b
  BY <1>1, <1>2, <1>3
<1>5. a - b = 0
  BY <1>4, NoMultiple
<1> QED
  BY <1>5

\* The remainder of the successor.
LEMMA SuccModulo ==
  ASSUME NEW M \in Nat, M > 1, NEW a \in Nat
  PROVE  ((a + 1) % M) = IF (a % M) = M - 1 THEN 0 ELSE (a % M) + 1
<1> DEFINE r == a % M
<1>0. M > 0
  OBVIOUS
<1>1. PICK p \in Nat : a = M * p + r
  BY DivMod, <1>0
<1>2. r \in 0..(M - 1)
  BY DivMod, <1>0
<1> HIDE DEF r
<1>3. CASE r = M - 1
  <2>1. a + 1 = M * (p + 1) + 0
    BY <1>1, <1>3
  <2>2. ((M * (p + 1) + 0) % M) = 0
    BY Remainder, <1>0
  <2> QED
    BY <2>1, <2>2, <1>3 DEF r
<1>4. CASE r # M - 1
  <2>1. a + 1 = M * p + (r + 1)
    BY <1>1, <1>2
  <2>2. ((M * p + (r + 1)) % M) = r + 1
    BY Remainder, <1>2, <1>4, <1>0
  <2> QED
    BY <2>1, <2>2, <1>4 DEF r
<1> QED
  BY <1>3, <1>4

\* What the model's block numbers are: equal for blocks less than Modulus apart
\* only if it is the same block.
LEMMA Numbers ==
  ASSUME TftpConstants
  PROVE  /\ \A a \in Nat : Num(a) \in 0..(Modulus - 1)
         /\ \A a, b \in Nat : Num(a) = Num(b) /\ a < b + Modulus /\ b < a + Modulus => a = b
         /\ \A a \in Nat : Num(a + 1) = IF Num(a) = Modulus - 1 THEN 0 ELSE Num(a) + 1
         /\ \A a \in Nat : Num(Num(a) + 1) = Num(a + 1)
         /\ Num(0) = 0 /\ Num(1) = 1
<1>1. Modulus \in Nat /\ Modulus > 2 /\ Modulus > 1 /\ Modulus > 0
  BY DEF TftpConstants
<1>2. \A a \in Nat : Num(a) \in 0..(Modulus - 1)
  BY <1>1, DivMod DEF Num
<1>3. ASSUME NEW a \in Nat, NEW b \in Nat, Num(a) = Num(b), a < b + Modulus, b < a + Modulus
      PROVE  a = b
  <2>1. (a % Modulus) = (b % Modulus)
    BY <1>3 DEF Num
  <2> QED
    BY <1>1, <1>3, <2>1, CloseModulo
<1>4. ASSUME NEW a \in Nat
      PROVE  Num(a + 1) = IF Num(a) = Modulus - 1 THEN 0 ELSE Num(a) + 1
  <2>1. ((a + 1) % Modulus) = IF (a % Modulus) = Modulus - 1 THEN 0 ELSE (a % Modulus) + 1
    BY <1>1, SuccModulo
  <2> QED
    BY <2>1 DEF Num
<1>5. ((Modulus * 0 + 0) % Modulus) = 0 /\ ((Modulus * 0 + 1) % Modulus) = 1
  BY <1>1, Remainder
<1>6. Num(0) = 0 /\ Num(1) = 1
  BY <1>1, <1>5 DEF Num
<1>7. ASSUME NEW a \in Nat
      PROVE  Num(Num(a) + 1) = Num(a + 1)
  <2>1. PICK b \in 0..(Modulus - 1) : b = Num(a)
    BY <1>2
  <2>2. ((Modulus * 0 + b) % Modulus) = b
    BY <1>1, Remainder
  <2>3. Num(b) = b /\ b \in Nat
    BY <1>1, <2>2 DEF Num
  <2>4. Num(b + 1) = IF Num(b) = Modulus - 1 THEN 0 ELSE Num(b) + 1
    BY <1>4, <2>3
  <2> QED
    BY <1>4, <2>1, <2>3, <2>4
<1> QED
  BY <1>2, <1>3, <1>4, <1>6, <1>7

-----------------------------------------------------------------------------
(* The invariant. *)

PacketTypes ==
  [to : {"client", "server"}, port : 0..2, type : {"REQUEST", "DATA", "ACK", "OACK", "ERROR"},
   seq : Nat, num : Nat, chunk : Nat]
ClientTypes ==
  [o : TftpFiles, state : {"START", "RX", "TX", "FIN"}, block : Nat, seq : Nat, retries : Nat, short : BOOLEAN,
   read : Nat, written : Seq(Nat), pinned : 0..2, last : PacketTypes, result : {"none", "ok", "error"}]
SessionTypes ==
  [phase : {"free", "open", "all", "done"}, at : Nat, stored : Seq(Nat), tries : Nat, last : PacketTypes]

\* the first packet of a server acknowledges the request or has the first block
FirstSeq(o) == IF o.oack \/ o.upload THEN 0 ELSE 1
TheRequest == Packet("server", 0, "REQUEST", 0, 0, 0)
TheOack(port) == Packet("client", port, "OACK", 0, 0, 0)

\* what the client c may have sent
FromClient(c, p) ==
  /\ p.to = "server"
  /\ \/ p = TheRequest
     \/ p.type = "ERROR"
     \/ /\ c.pinned # 0 /\ p.port = c.pinned /\ p.seq <= c.seq /\ p.num = Num(p.seq)
        /\ p.type = IF c.o.upload THEN "DATA" ELSE "ACK"
        /\ c.o.upload => p.seq > 0 /\ p.chunk = IF p.seq <= c.o.n THEN p.seq ELSE 0

\* what a server may have sent that has o to do and got to block `at'
FromServer(o, at, p) ==
  /\ p.to = "client" /\ p.port \in Ports
  /\ \/ p.type = "ERROR"
     \/ p = TheOack(p.port) /\ o.oack
     \/ /\ o.upload /\ p.type = "ACK" /\ p.seq <= at
        /\ p.num = Num(p.seq) \/ (p.num = Modulus - 1 /\ p.seq > 0 /\ Num(p.seq) = 0)
     \/ ~o.upload /\ p.type = "DATA" /\ p.seq \in 1..at /\ p.num = Num(p.seq) /\ p.chunk = p.seq

\* The client on its own: what it has done, and how far it has read what it uploads.
Done(c) ==
  /\ c.block = Num(c.seq) /\ FirstBlocks(c.written)
  /\ Len(c.written) = IF c.o.upload THEN 0 ELSE c.seq
  /\ c.pinned = 0 => c.seq = 0 /\ c.last = TheRequest /\ c.result # "ok"
  /\ FromClient(c, c.last)
HasRead(c) ==
  c.o.upload /\ c.result = "none" =>
    /\ c.pinned = 0 => c.read = 0
    /\ c.pinned # 0 => c.seq > 0 /\ (c.short <=> (c.seq >= c.o.n)) /\ c.read = IF c.seq <= c.o.n THEN c.seq ELSE c.o.n

\* a session of the server, which the client is pinned to or not
SessionRight(o, pinned, port, s) ==
  /\ s.at <= o.n /\ FirstBlocks(s.stored)
  /\ Len(s.stored) = IF o.upload THEN s.at ELSE 0
  /\ s.phase = "free" => s.at = 0
  /\ o.upload /\ s.phase = "open" => s.at < o.n
  /\ s.phase \in {"open", "all"} =>
       /\ FromServer(o, s.at, s.last) /\ s.last.port = port /\ s.last.type # "ERROR"
       /\ s.last.type = "OACK" => s.at = 0
  /\ port # pinned =>
       /\ s.at <= FirstSeq(o)
       /\ s.phase \in {"open", "all"} /\ o.oack => s.last.type = "OACK"

\* How far the client and the session s it talks to can be apart.  The second
\* case of an upload is that of an acknowledgement of 65535 that was late.
Near(c, s) ==
  /\ c.o.upload => s.at <= c.seq /\ (c.seq <= s.at + 1 \/ (c.seq = s.at + 2 /\ Num(c.seq) = 1))
  /\ ~c.o.upload => c.seq <= s.at /\ s.at <= c.seq + 1
Apart(c, s) ==
  /\ Near(c, s)
  /\ c.result = "none" => s.phase # "free"
  /\ c.result = "ok" => (IF c.o.upload THEN s.at ELSE c.seq) = c.o.n

\* a packet on the wire, from the client or from a server's session
PacketRight(c, ss, p) ==
  \/ FromClient(c, p)
  \/ /\ FromServer(c.o, ss[p.port].at, p)
     /\ p.type # "ERROR" => ss[p.port].phase # "free"
     /\ p.port # c.pinned /\ c.o.oack => p.type \in {"OACK", "ERROR"}

TypesInv == tftp \in ClientTypes /\ sessions \in [Ports -> SessionTypes] /\ wire \subseteq PacketTypes /\ calm \in BOOLEAN
SessionsInv == \A port \in Ports : SessionRight(tftp.o, tftp.pinned, port, sessions[port])
ApartInv == tftp.pinned # 0 => Apart(tftp, sessions[tftp.pinned])
WireInv == \A p \in wire : PacketRight(tftp, sessions, p)

IInv == TypesInv /\ Done(tftp) /\ HasRead(tftp) /\ SessionsInv /\ ApartInv /\ WireInv

-----------------------------------------------------------------------------
(* The client's steps. *)

\* What is assumed of a transfer.
LEMMA FileTypes ==
  ASSUME TftpConstants, NEW o \in TftpFiles
  PROVE  /\ o.upload \in BOOLEAN /\ o.oack \in BOOLEAN /\ o.hpa \in BOOLEAN
         /\ o.n \in Nat /\ o.n > 0
BY DEF TftpConstants

\* What was sent stays what the client may have sent.
LEMMA FromClientLater ==
  ASSUME NEW c \in ClientTypes, NEW d \in ClientTypes, NEW p \in PacketTypes, d.o = c.o, c.seq <= d.seq,
         c.pinned # 0 => d.pinned = c.pinned, FromClient(c, p)
  PROVE  FromClient(d, p)
<1>1. c.seq \in Nat /\ d.seq \in Nat /\ p.seq \in Nat
  BY DEF ClientTypes, PacketTypes
<1> QED
  BY <1>1 DEF FromClient

\* The same for a server that got further.
LEMMA FromServerLater ==
  ASSUME NEW o, NEW at \in Nat, NEW later \in Nat, at <= later, NEW p \in PacketTypes, FromServer(o, at, p)
  PROVE  FromServer(o, later, p)
BY DEF FromServer, PacketTypes

\* After a step of a running client that reads p: it is right, and so is what it sends.
Sound(c, after, s) ==
  /\ after.c \in ClientTypes /\ after.c.o = c.o /\ after.c.pinned = c.pinned /\ c.seq <= after.c.seq
  /\ Done(after.c) /\ HasRead(after.c) /\ Apart(after.c, s)
  /\ \A x \in after.send : x \in PacketTypes /\ FromClient(after.c, x)

\* ... unless it failed, which changes nothing it has done.
LEMMA FailureIsSound ==
  ASSUME NEW c \in ClientTypes, NEW s, Done(c), c.pinned # 0, Near(c, s), NEW r \in Nat
  PROVE  Sound(c, Finish([c EXCEPT !.retries = r], "error"), s)
<1> DEFINE e == [c EXCEPT !.retries = r]
           d == [e EXCEPT !.state = "FIN", !.result = "error"]
<1>1. Finish(e, "error") = [c |-> d, send |-> {}]
  BY DEF Finish
<1>2. /\ d \in ClientTypes /\ d.o = c.o /\ d.pinned = c.pinned /\ d.seq = c.seq /\ d.block = c.block
      /\ d.written = c.written /\ d.last = c.last /\ d.result = "error" /\ c.seq \in Nat
  BY DEF ClientTypes
<1> HIDE DEF d
<1>3. Done(d) /\ HasRead(d)
  BY <1>2 DEF Done, HasRead, FromClient
<1>4. Apart(d, s)
  BY <1>2 DEF Apart, Near
<1>5. Sound(c, Finish(e, "error"), s)
  BY <1>1, <1>2, <1>3, <1>4 DEF Sound
<1> QED
  BY <1>5

\* To send the last packet again is sound.
LEMMA RepeatIsSound ==
  ASSUME NEW c \in ClientTypes, NEW s, Done(c), HasRead(c), c.pinned # 0, Apart(c, s), NEW r \in Nat
  PROVE  Sound(c, Repeat([c EXCEPT !.retries = r]), s)
<1> DEFINE d == [c EXCEPT !.retries = r]
<1>1. Repeat(d).c = d /\ Repeat(d).send = {d.last}
  BY DEF Repeat
<1>2. /\ d \in ClientTypes /\ d.o = c.o /\ d.pinned = c.pinned /\ d.seq = c.seq /\ d.block = c.block /\ d.short = c.short
      /\ d.written = c.written /\ d.last = c.last /\ d.result = c.result /\ d.read = c.read /\ c.seq \in Nat
      /\ d.last \in PacketTypes
  BY DEF ClientTypes
<1> HIDE DEF d
<1>3. Done(d) /\ HasRead(d)
  BY <1>2 DEF Done, HasRead, FromClient
<1>4. Apart(d, s)
  BY <1>2 DEF Apart, Near
<1>5. FromClient(d, d.last)
  BY <1>3 DEF Done
<1>6. Sound(c, Repeat(d), s)
  BY <1>1, <1>2, <1>3, <1>4, <1>5 DEF Sound
<1> QED
  BY <1>6 DEF d

\* The upload after its next block is counted.
Counted(c) == [c EXCEPT !.block = Num(c.seq + 1), !.seq = c.seq + 1]

\* What tftp_tx sends: the block that is due, or an empty one after the last.
LEMMA NextBlockIsSound ==
  ASSUME TftpConstants, NEW c \in ClientTypes, NEW s, NEW e \in ClientTypes, c.o = tftp.o, c.o.upload, c.pinned # 0,
         e = Counted(c),
         Done(c), c.result = "none", ~(e.block > 1 /\ e.short), s.at \in Nat,
         c.read = IF c.seq <= c.o.n THEN c.seq ELSE c.o.n, Apart(e, s)
  PROVE  /\ Sound(c, NextBlock(e), s)
         /\ NextBlock(e).send = {NextBlock(e).c.last} /\ NextBlock(e).c.last.type = "DATA"
         /\ NextBlock(e).c.last.seq = c.seq + 1 /\ NextBlock(e).c.seq = c.seq + 1 /\ NextBlock(e).c.result = "none"
<1> DEFINE chunk == ChunkAfter(e.read)
           d == [e EXCEPT !.state = "TX", !.retries = 0]
           m == ToServer(d, "DATA", chunk)
           f == [d EXCEPT !.read = IF chunk = 0 THEN @ ELSE chunk, !.short = Short(chunk)]
           g == [f EXCEPT !.last = m]
<1>1. NextBlock(e) = [c |-> g, send |-> {m}]
  BY DEF NextBlock, Transmit
<1>2. c.o.n \in Nat /\ c.o.n > 0 /\ c.seq \in Nat /\ c.read \in Nat /\ c.o \in TftpFiles
  BY FileTypes DEF ClientTypes
<1>3. Num(c.seq + 1) \in Nat
  BY Numbers, <1>2
<1>4. /\ e.o = c.o /\ e.seq = c.seq + 1 /\ e.block = Num(c.seq + 1) /\ e.read = c.read /\ e.pinned = c.pinned
      /\ e.result = "none" /\ e.written = c.written
  BY <1>2 DEF ClientTypes, Counted
<1>5. chunk = IF c.seq + 1 <= c.o.n THEN c.seq + 1 ELSE 0
  BY <1>2, <1>4 DEF ChunkAfter
<1>6. Short(chunk) <=> (c.seq + 1 >= c.o.n)
  BY <1>2, <1>5 DEF Short
<1> HIDE DEF chunk
<1>5a. chunk \in Nat /\ c.seq + 1 \in Nat
  BY <1>5, <1>2
<1>7. m = Packet("server", c.pinned, "DATA", c.seq + 1, Num(c.seq + 1), chunk)
  BY <1>4 DEF ToServer, ClientTypes
<1> HIDE DEF m
<1>8. /\ m \in PacketTypes /\ m.to = "server" /\ m.type = "DATA" /\ m.port = c.pinned /\ m.seq = c.seq + 1
      /\ m.num = Num(c.seq + 1) /\ m.chunk = chunk
  BY <1>7, <1>3, <1>5a DEF Packet, PacketTypes, ClientTypes
<1>9. /\ g \in ClientTypes /\ g.o = c.o /\ g.seq = c.seq + 1 /\ g.block = Num(c.seq + 1) /\ g.pinned = c.pinned
      /\ g.result = "none" /\ g.written = c.written /\ g.last = m /\ (g.short <=> (c.seq + 1 >= c.o.n))
      /\ g.read = IF chunk = 0 THEN c.read ELSE chunk
  <2>1. PICK r \in Nat : r = IF chunk = 0 THEN e.read ELSE chunk
    BY <1>2, <1>4, <1>5
  <2>2. PICK b \in BOOLEAN : b <=> (c.seq + 1 >= c.o.n)
    OBVIOUS
  <2>2a. Short(chunk) <=> b
    BY <1>6, <2>2
  <2>3. d \in ClientTypes /\ d.read = e.read
    BY DEF ClientTypes
  <2>4. f = [d EXCEPT !.read = r, !.short = b]
    BY <2>1, <2>2a, <2>3 DEF Short
  <2>5. g = [e EXCEPT !.state = "TX", !.retries = 0, !.read = r, !.short = b, !.last = m]
    BY <2>4 DEF ClientTypes
  <2> HIDE DEF g
  <2>6. /\ g \in ClientTypes /\ g.o = e.o /\ g.seq = e.seq /\ g.block = e.block /\ g.pinned = e.pinned
        /\ g.result = e.result /\ g.written = e.written /\ g.last = m /\ g.short = b /\ g.read = r
    BY <2>5, <1>8 DEF ClientTypes
  <2> QED
    BY <2>6, <2>1, <2>2, <1>4, <1>6
<1> HIDE DEF g
<1>10. FromClient(g, m)
  BY <1>9, <1>8, <1>5, <1>2 DEF FromClient
<1>11. Done(g) /\ HasRead(g)
  BY <1>9, <1>10, <1>5, <1>2 DEF Done, HasRead
<1>12. Apart(g, s)
  BY <1>9, <1>4, <1>2 DEF Apart, Near
<1> QED
  BY <1>1, <1>2, <1>8, <1>9, <1>10, <1>11, <1>12 DEF Sound

\* The acknowledgement that is taken is that of the block that was sent last, or
\* of the one before it, when the number of the last one is 0.
LEMMA AckTaken ==
  ASSUME TftpConstants, NEW seq \in Nat, NEW p \in PacketTypes, p.seq <= seq, ~Lived(p, seq),
         p.num = Num(p.seq) \/ (p.num = Modulus - 1 /\ p.seq > 0 /\ Num(p.seq) = 0),
         p.num = Num(seq) \/ (Num(seq) = 0 /\ p.num = Modulus - 1)
  PROVE  p.seq = seq \/ (p.seq + 1 = seq /\ Num(seq) = 0)
<1>1. PICK a \in Nat : a = p.seq
  BY DEF PacketTypes
<1>2. Modulus \in Nat /\ Modulus > 2
  BY DEF TftpConstants
<1>3. a <= seq /\ seq < a + Modulus - 1
  BY <1>1, <1>2 DEF Lived
<1>4. Num(a) = Num(seq) => a = seq
  BY <1>2, <1>3, Numbers
<1>5. ASSUME Num(a + 1) = Num(seq)
      PROVE  a + 1 = seq
  <2>1. a + 1 \in Nat
    OBVIOUS
  <2> QED
    BY <1>2, <1>3, <1>5, <2>1, Numbers
<1>6. ASSUME Num(a) = Num(seq + 1)
      PROVE  a = seq + 1
  <2>1. seq + 1 \in Nat
    OBVIOUS
  <2> QED
    BY <1>2, <1>3, <1>6, <2>1, Numbers
<1>7. Num(a + 1) = (IF Num(a) = Modulus - 1 THEN 0 ELSE Num(a) + 1)
      /\ Num(seq + 1) = (IF Num(seq) = Modulus - 1 THEN 0 ELSE Num(seq) + 1)
  BY Numbers
<1>8. CASE Num(a) = Num(seq)
  BY <1>8, <1>4, <1>1
<1>9. CASE Num(a) = Modulus - 1 /\ Num(seq) = 0
  BY <1>9, <1>7, <1>5, <1>1
<1>10. CASE Num(a) = 0 /\ Num(seq) = Modulus - 1
  BY <1>10, <1>7, <1>6, <1>3
<1> QED
  BY <1>1, <1>8, <1>9, <1>10

\* the end of an upload
LEMMA EndIsSound ==
  ASSUME NEW c \in ClientTypes, NEW s, NEW b \in Nat, c.pinned # 0, c.o.upload, Done(c), s.at = c.o.n, c.seq = s.at,
         c.o.n \in Nat, b = Num(c.seq + 1)
  PROVE  Sound(c, Finish([c EXCEPT !.block = b, !.seq = c.seq + 1, !.state = "TX", !.retries = 0], "ok"), s)
<1> DEFINE e == [c EXCEPT !.block = b, !.seq = c.seq + 1, !.state = "TX", !.retries = 0]
           d == [e EXCEPT !.state = "FIN", !.result = "ok"]
<1>1. Finish(e, "ok") = [c |-> d, send |-> {}]
  BY DEF Finish
<1>2. /\ d \in ClientTypes /\ d.o = c.o /\ d.pinned = c.pinned /\ d.seq = c.seq + 1 /\ d.block = b
      /\ d.written = c.written /\ d.last = c.last /\ d.result = "ok" /\ c.seq \in Nat /\ c.last \in PacketTypes
  <2>1. /\ e \in ClientTypes /\ e.o = c.o /\ e.pinned = c.pinned /\ e.seq = c.seq + 1 /\ e.block = b
        /\ e.written = c.written /\ e.last = c.last /\ c.seq \in Nat /\ c.last \in PacketTypes
    <3>1. PICK n \in Nat : n = c.seq + 1
      BY DEF ClientTypes
    <3>2. e = [c EXCEPT !.block = b, !.seq = n, !.state = "TX", !.retries = 0]
      BY <3>1
    <3> HIDE DEF e
    <3> QED
      BY <3>1, <3>2 DEF ClientTypes
  <2> HIDE DEF e
  <2> QED
    BY <2>1 DEF ClientTypes
<1> HIDE DEF d
<1>3. FromClient(d, c.last)
  BY <1>2, FromClientLater DEF Done
<1>4. Done(d) /\ HasRead(d)
  BY <1>2, <1>3 DEF Done, HasRead
<1>5. Apart(d, s)
  BY <1>2 DEF Apart, Near
<1>6. Sound(c, Finish(e, "ok"), s)
  BY <1>1, <1>2, <1>4, <1>5 DEF Sound
<1> QED
  BY <1>6

\* tftp_tx for an acknowledgement
LEMMA TxAckIsSound ==
  ASSUME TftpConstants, NEW c \in ClientTypes, NEW s \in SessionTypes, c.o = tftp.o, c.o.upload, c.pinned # 0,
         c.result = "none", Done(c), c.seq = 0 => c.read = 0, c.seq > 0 => HasRead(c), Apart(c, s), s.at <= c.o.n,
         NEW p \in PacketTypes, FromServer(c.o, s.at, p), p.type = "ACK", ~Lived(p, c.seq)
  PROVE  Sound(c, TxAck(c, p.num), s)
<1>1. /\ c.o.n \in Nat /\ c.o.n > 0 /\ c.seq \in Nat /\ c.read \in Nat /\ c.retries \in Nat /\ s.at \in Nat /\ p.seq \in Nat
      /\ c.o \in TftpFiles
  BY FileTypes DEF ClientTypes, SessionTypes, PacketTypes
<1>2. p.seq <= s.at /\ (p.num = Num(p.seq) \/ (p.num = Modulus - 1 /\ p.seq > 0 /\ Num(p.seq) = 0))
  BY DEF FromServer, TheOack, Packet
<1>3. s.at <= c.seq /\ (c.seq <= s.at + 1 \/ (c.seq = s.at + 2 /\ Num(c.seq) = 1)) /\ s.phase # "free"
  BY DEF Apart, Near
<1>4. c.block = Num(c.seq)
  BY DEF Done
<1>5. c.read = IF c.seq <= c.o.n THEN c.seq ELSE c.o.n
  BY <1>1 DEF HasRead
<1>6. CASE p.num # c.block /\ ~(c.block = 0 /\ p.num = Modulus - 1)
  <2>1. c.seq > 0
    <3>1. c.seq = 0 => p.seq = 0 /\ p.num = c.block
      BY <1>1, <1>2, <1>3, <1>4
    <3> QED
      BY <3>1, <1>6, <1>1
  <2> DEFINE d == [c EXCEPT !.retries = c.retries + 1]
  <2>2. TxAck(c, p.num) = IF d.retries > RetryMax THEN Finish(d, "error") ELSE Repeat(d)
    BY <1>6 DEF TxAck
  <2>3. HasRead(c) /\ c.retries + 1 \in Nat
    BY <2>1, <1>1
  <2>4. Sound(c, Finish(d, "error"), s)
    BY <2>3, FailureIsSound DEF Apart
  <2>5. Sound(c, Repeat(d), s)
    BY <2>3, RepeatIsSound
  <2> HIDE DEF d
  <2> QED
    BY <2>2, <2>4, <2>5
<1>7. CASE p.num = c.block \/ (c.block = 0 /\ p.num = Modulus - 1)
  <2> DEFINE e == [c EXCEPT !.block = Num(c.seq + 1), !.seq = c.seq + 1]
  <2>1. p.seq = c.seq \/ (p.seq + 1 = c.seq /\ Num(c.seq) = 0)
    BY <1>1, <1>2, <1>3, <1>4, <1>7, AckTaken
  <2>2. Num(c.seq + 1) \in Nat /\ Num(Num(c.seq) + 1) = Num(c.seq + 1) /\ (Num(c.seq) = 0 => Num(c.seq + 1) = 1)
        /\ Num(0) = 0 /\ Num(1) = 1
    BY <1>1, Numbers, SMTT(30) DEF TftpConstants
  <2>3. TxAck(c, p.num) = NextBlock(e)
    BY <1>7, <1>4, <2>2 DEF TxAck
  <2>4. /\ e \in ClientTypes /\ e.o = c.o /\ e.seq = c.seq + 1 /\ e.block = Num(c.seq + 1) /\ e.short = c.short
        /\ e.result = "none"
    <3>1. PICK n \in Nat : n = c.seq + 1
      BY <1>1
    <3>2. PICK b \in Nat : b = Num(c.seq + 1)
      BY <2>2
    <3>3. e = [c EXCEPT !.block = b, !.seq = n]
      BY <3>1, <3>2
    <3> HIDE DEF e
    <3> QED
      BY <3>1, <3>2, <3>3 DEF ClientTypes
  <2>5. c.seq <= s.at \/ (c.seq = s.at + 1 /\ Num(c.seq) = 0)
    BY <2>1, <1>1, <1>2, <1>3
  <2>6. Apart(e, s)
    BY <2>2, <2>4, <2>5, <1>1, <1>3 DEF Apart, Near
  <2>7. CASE ~(e.block > 1 /\ e.short)
    <3> HIDE DEF e
    <3>1. e = Counted(c)
      BY DEF e, Counted
    <3>2. s.at \in Nat /\ c.seq \in Nat /\ Done(c) /\ c.result = "none" /\ ~(e.block > 1 /\ e.short) /\ e \in ClientTypes
      BY <2>4, <2>7, <1>1
    <3>3. Sound(c, NextBlock(e), s)
      BY <2>6, <3>2, <1>5, <3>1, NextBlockIsSound, SMTT(30)
    <3> QED
      BY <2>3, <3>3
  <2>8. CASE e.block > 1 /\ e.short
    <3>1. c.seq > 0 /\ Num(c.seq) # 0
      BY <2>2, <2>4, <2>8, <1>1
    <3>2. c.seq >= c.o.n
      BY <3>1, <2>4, <2>8 DEF HasRead
    <3>3. s.at = c.o.n /\ c.seq = s.at
      BY <3>1, <3>2, <2>5, <1>1, <1>3
    <3> DEFINE f == [c EXCEPT !.block = Num(c.seq + 1), !.seq = c.seq + 1, !.state = "TX", !.retries = 0]
    <3>4. NextBlock(e) = Finish(f, "ok")
      BY <2>8 DEF NextBlock
    <3>5. Sound(c, Finish(f, "ok"), s)
      BY <3>3, <2>2, <1>1, EndIsSound
    <3> HIDE DEF f
    <3> QED
      BY <3>4, <3>5, <2>3
  <2> QED
    BY <2>7, <2>8
<1> QED
  BY <1>6, <1>7

\* tftp_tx and tftp_rx for the answer to the options, which comes first
LEMMA TxOackIsSound ==
  ASSUME TftpConstants, NEW c \in ClientTypes, NEW s \in SessionTypes, c.o = tftp.o, c.o.upload, c.pinned # 0,
         c.result = "none", Done(c), c.seq = 0, c.read = 0, Apart(c, s)
  PROVE  Sound(c, TxOack(c), s)
<1> DEFINE e == [c EXCEPT !.block = 1, !.seq = 1]
<1>1. Num(0) = 0 /\ Num(1) = 1 /\ c.o.n \in Nat /\ s.at \in Nat /\ c.o \in TftpFiles /\ c.o.n > 0
  BY Numbers, FileTypes DEF ClientTypes, SessionTypes
<1>2. e \in ClientTypes /\ e.o = c.o /\ e.block = 1 /\ e.seq = 1 /\ e.result = "none"
  BY DEF ClientTypes
<1>3. e = Counted(c)
  <2>1. c.seq + 1 = 1
    OBVIOUS
  <2> QED
    BY <1>1, <2>1 DEF Counted
<1>4. Apart(e, s)
  BY <1>1, <1>2 DEF Apart, Near
<1>5. TxOack(c) = NextBlock(e)
  BY DEF TxOack
<1> HIDE DEF e
<1>6. ~(e.block > 1 /\ e.short) /\ c.read = IF c.seq <= c.o.n THEN c.seq ELSE c.o.n
  BY <1>1, <1>2
<1>7. Sound(c, NextBlock(e), s)
  BY <1>1, <1>2, <1>3, <1>4, <1>6, NextBlockIsSound
<1> QED
  BY <1>5, <1>7

\* The same for a download.
LEMMA RxOackIsSound ==
  ASSUME TftpConstants, NEW c \in ClientTypes, NEW s \in SessionTypes, ~c.o.upload, c.pinned # 0,
         c.result = "none", Done(c), c.seq = 0, Apart(c, s)
  PROVE  Sound(c, RxOack(c), s)
<1> DEFINE e == [c EXCEPT !.state = "RX", !.block = 0, !.seq = 0, !.retries = 0]
           m == ToServer(e, "ACK", 0)
           d == [e EXCEPT !.last = m]
<1>1. RxOack(c) = [c |-> d, send |-> {m}]
  BY DEF RxOack, Transmit
<1>2. Num(0) = 0
  BY Numbers
<1>3. /\ e \in ClientTypes /\ e.o = c.o /\ e.block = 0 /\ e.seq = 0 /\ e.result = "none" /\ e.pinned = c.pinned
      /\ e.written = c.written /\ c.pinned \in 0..2
  BY DEF ClientTypes
<1>4. m = Packet("server", c.pinned, "ACK", 0, 0, 0)
  BY <1>3 DEF ToServer
<1> HIDE DEF m, e
<1>5. m \in PacketTypes /\ m.to = "server" /\ m.type = "ACK" /\ m.port = c.pinned /\ m.seq = 0 /\ m.num = 0
  BY <1>4, <1>3 DEF Packet, PacketTypes
<1>6. /\ d \in ClientTypes /\ d.o = c.o /\ d.block = 0 /\ d.seq = 0 /\ d.result = "none" /\ d.pinned = c.pinned
      /\ d.written = c.written /\ d.last = m
  BY <1>3, <1>5 DEF ClientTypes
<1> HIDE DEF d
<1>7. FromClient(d, m)
  BY <1>2, <1>5, <1>6 DEF FromClient
<1>8. Done(d) /\ HasRead(d)
  BY <1>2, <1>6, <1>7 DEF Done, HasRead
<1>9. Apart(d, s)
  BY <1>6 DEF Apart, Near
<1> QED
  BY <1>1, <1>5, <1>6, <1>7, <1>8, <1>9 DEF Sound

\* The data that is written is that of the next block, the data that is
\* acknowledged again that of the last one.
LEMMA DataTaken ==
  ASSUME TftpConstants, NEW seq \in Nat, NEW p \in PacketTypes, p.num = Num(p.seq), ~Lived(p, seq), p.seq <= seq + 1
  PROVE  (p.num = Num(seq + 1) => p.seq = seq + 1) /\ (p.num = Num(seq) => p.seq = seq)
<1>1. PICK a \in Nat : a = p.seq
  BY DEF PacketTypes
<1>2. Modulus \in Nat /\ Modulus > 2 /\ seq + 1 \in Nat
  BY DEF TftpConstants
<1>3. a <= seq + 1 /\ seq < a + Modulus - 1
  BY <1>1, <1>2 DEF Lived
<1>4. Num(a) = Num(seq + 1) => a = seq + 1
  BY <1>2, <1>3, Numbers
<1>5. Num(a) = Num(seq) => a = seq
  BY <1>2, <1>3, Numbers
<1> QED
  BY <1>1, <1>4, <1>5

\* The end of a download, after its last acknowledgement.
LEMMA EndOfReply ==
  ASSUME NEW x, NEW y
  PROVE  [[c |-> x, send |-> y] EXCEPT !.c.state = "FIN", !.c.result = "ok"]
           = [c |-> [x EXCEPT !.state = "FIN", !.result = "ok"], send |-> y]
<1> DEFINE r == [c |-> x, send |-> y]
           z == [x EXCEPT !.state = "FIN"]
<1>1. [r EXCEPT !.c.state = "FIN"] = [c |-> z, send |-> y]
  OBVIOUS
<1>2. [[c |-> z, send |-> y] EXCEPT !.c.result = "ok"] = [c |-> [z EXCEPT !.result = "ok"], send |-> y]
  OBVIOUS
<1> QED
  BY <1>1, <1>2

\* tftp_rx for a block
LEMMA RxDataIsSound ==
  ASSUME TftpConstants, NEW c \in ClientTypes, NEW s \in SessionTypes, c.o = tftp.o, ~c.o.upload, c.pinned # 0,
         c.result = "none", Done(c), Apart(c, s), s.at <= c.o.n,
         NEW p \in PacketTypes, FromServer(c.o, s.at, p), p.type = "DATA", ~Lived(p, c.seq)
  PROVE  Sound(c, RxData(c, p), s)
<1> DEFINE next == Num(c.block + 1) = p.num
<1>1. /\ c.o.n \in Nat /\ c.o.n > 0 /\ c.seq \in Nat /\ s.at \in Nat /\ p.seq \in Nat /\ c.written \in Seq(Nat)
      /\ c.pinned \in 0..2 /\ p.chunk \in Nat /\ p.num \in Nat /\ c.o \in TftpFiles
  BY FileTypes DEF ClientTypes, SessionTypes, PacketTypes
<1>2. p.seq \in 1..s.at /\ p.num = Num(p.seq) /\ p.chunk = p.seq
  BY DEF FromServer, TheOack, Packet
<1>3. c.seq <= s.at /\ s.at <= c.seq + 1 /\ s.phase # "free"
  BY DEF Apart, Near
<1>4. c.block = Num(c.seq) /\ FirstBlocks(c.written) /\ Len(c.written) = c.seq /\ FromClient(c, c.last)
  BY DEF Done
<1>5. Num(c.block + 1) = Num(c.seq + 1)
  BY <1>1, <1>4, Numbers
<1>6. (p.num = Num(c.seq + 1) => p.seq = c.seq + 1) /\ (p.num = Num(c.seq) => p.seq = c.seq)
  BY <1>1, <1>2, <1>3, DataTaken
<1>7. Short(p.chunk) <=> p.seq = c.o.n
  BY <1>1, <1>2 DEF Short
<1>8. CASE ~next /\ c.block # p.num
  <2> DEFINE d == [c EXCEPT !.state = "RX"]
  <2>1. RxData(c, p) = [c |-> d, send |-> {}]
    BY <1>8 DEF RxData
  <2>2. /\ d \in ClientTypes /\ d.o = c.o /\ d.pinned = c.pinned /\ d.seq = c.seq /\ d.block = c.block
        /\ d.written = c.written /\ d.last = c.last /\ d.result = "none"
    BY DEF ClientTypes
  <2> HIDE DEF d
  <2>3. Done(d) /\ HasRead(d) /\ Apart(d, s)
    BY <2>2, <1>1 DEF Done, HasRead, Apart, Near, FromClient
  <2> QED
    BY <2>1, <2>2, <2>3, <1>1 DEF Sound
<1>9. CASE next \/ c.block = p.num
  <2>1. PICK e \in ClientTypes :
          /\ e = IF next THEN [c EXCEPT !.state = "RX", !.block = p.num, !.seq = @ + 1, !.retries = 0,
                                        !.written = Append(@, p.chunk)]
                 ELSE [c EXCEPT !.state = "RX"]
          /\ e.o = c.o /\ e.pinned = c.pinned /\ e.result = "none" /\ e.block = Num(e.seq) /\ e.seq = p.seq
          /\ e.seq >= c.seq /\ e.seq <= s.at /\ s.at <= e.seq + 1
          /\ FirstBlocks(e.written) /\ Len(e.written) = e.seq
    <3>1. CASE next
      <4>1. PICK n \in Nat : n = c.seq + 1
        BY <1>1
      <4>2. PICK w \in Seq(Nat) : w = Append(c.written, p.chunk)
        <5>1. Append(c.written, p.chunk) \in Seq(Nat)
          BY <1>1
        <5> QED
          BY <5>1
      <4>3. p.seq = n
        BY <4>1, <1>5, <1>6, <3>1
      <4>4. Len(w) = n /\ FirstBlocks(w)
        BY <4>1, <4>2, <4>3, <1>1, <1>2, <1>4 DEF FirstBlocks
      <4> DEFINE e == [c EXCEPT !.state = "RX", !.block = p.num, !.seq = n, !.retries = 0, !.written = w]
      <4>5. /\ e \in ClientTypes /\ e.o = c.o /\ e.pinned = c.pinned /\ e.result = "none" /\ e.block = p.num /\ e.seq = n
            /\ e.written = w
        BY <1>1 DEF ClientTypes
      <4>6. e = [c EXCEPT !.state = "RX", !.block = p.num, !.seq = @ + 1, !.retries = 0,
                          !.written = Append(@, p.chunk)]
        BY <4>1, <4>2
      <4> HIDE DEF e
      <4>7. e.block = Num(e.seq) /\ e.seq >= c.seq /\ e.seq <= s.at /\ s.at <= e.seq + 1
        BY <4>5, <4>1, <4>3, <1>1, <1>2, <1>3
      <4> QED
        BY <4>3, <4>4, <4>5, <4>6, <4>7, <3>1
    <3>2. CASE ~next
      <4>1. p.seq = c.seq
        BY <1>4, <1>6, <1>9, <3>2
      <4> DEFINE e == [c EXCEPT !.state = "RX"]
      <4>2. /\ e \in ClientTypes /\ e.o = c.o /\ e.pinned = c.pinned /\ e.result = "none" /\ e.block = c.block
            /\ e.seq = c.seq /\ e.written = c.written
        BY DEF ClientTypes
      <4> HIDE DEF e
      <4>3. e.block = Num(e.seq) /\ e.seq >= c.seq /\ e.seq <= s.at /\ s.at <= e.seq + 1
            /\ FirstBlocks(e.written) /\ Len(e.written) = e.seq
        BY <4>2, <1>1, <1>3, <1>4
      <4>4. e = [c EXCEPT !.state = "RX"]
        BY DEF e
      <4> QED
        BY <4>1, <4>2, <4>3, <4>4, <3>2
    <3> QED
      BY <3>1, <3>2
  <2> DEFINE m == ToServer(e, "ACK", 0)
             d == [e EXCEPT !.last = m]
             f == [d EXCEPT !.state = "FIN", !.result = "ok"]
  <2>2. RxData(c, p) = IF Short(p.chunk) THEN [[c |-> d, send |-> {m}] EXCEPT !.c.state = "FIN", !.c.result = "ok"]
                       ELSE [c |-> d, send |-> {m}]
    BY <1>9, <2>1 DEF RxData, Transmit
  <2>3. [[c |-> d, send |-> {m}] EXCEPT !.c.state = "FIN", !.c.result = "ok"] = [c |-> f, send |-> {m}]
    BY EndOfReply
  <2>4. m = Packet("server", c.pinned, "ACK", e.seq, Num(e.seq), 0) /\ e.seq \in Nat /\ Num(e.seq) \in Nat
    <3>1. e.seq \in Nat /\ Num(e.seq) \in Nat
      BY <2>1, <1>1, <1>2
    <3> QED
      BY <3>1, <2>1 DEF ToServer
  <2> HIDE DEF m
  <2>5. m \in PacketTypes /\ m.to = "server" /\ m.type = "ACK" /\ m.port = c.pinned /\ m.seq = e.seq /\ m.num = Num(e.seq)
    BY <2>4, <1>1 DEF Packet, PacketTypes
  <2>6. ASSUME NEW g \in {d, f}
        PROVE  /\ g \in ClientTypes /\ g.o = c.o /\ g.pinned = c.pinned /\ g.block = e.block /\ g.seq = e.seq
               /\ g.written = e.written /\ g.last = m
    <3>1. /\ d \in ClientTypes /\ d.o = c.o /\ d.pinned = c.pinned /\ d.block = e.block /\ d.seq = e.seq
          /\ d.written = e.written /\ d.last = m
      BY <2>1, <2>5 DEF ClientTypes
    <3> HIDE DEF d
    <3>2. /\ f \in ClientTypes /\ f.o = c.o /\ f.pinned = c.pinned /\ f.block = e.block /\ f.seq = e.seq
          /\ f.written = e.written /\ f.last = m
      BY <3>1 DEF ClientTypes
    <3> QED
      BY <3>1, <3>2
  <2>7. d.result = "none" /\ f.result = "ok"
    BY <2>1 DEF ClientTypes
  <2> HIDE DEF d, f
  <2>8. ASSUME NEW g \in {d, f}
        PROVE  FromClient(g, m) /\ Done(g) /\ HasRead(g)
    <3>1. FromClient(g, m)
      BY <2>4, <2>5, <2>6 DEF FromClient
    <3> QED
      BY <3>1, <2>1, <2>6, <1>1 DEF Done, HasRead
  <2>9. Apart(d, s) /\ (Short(p.chunk) => Apart(f, s))
    BY <2>1, <2>6, <2>7, <1>3, <1>7 DEF Apart, Near
  <2>10. Sound(c, [c |-> d, send |-> {m}], s)
    BY <2>1, <2>5, <2>6, <2>8, <2>9 DEF Sound
  <2>11. Short(p.chunk) => Sound(c, [c |-> f, send |-> {m}], s)
    BY <2>1, <2>5, <2>6, <2>8, <2>9 DEF Sound
  <2> QED
    BY <2>2, <2>3, <2>10, <2>11
<1> QED
  BY <1>8, <1>9

\* A running client reads a packet.  One that pins it to its server is, apart from
\* an error, that server's first; an answer to the options comes before the first block.
LEMMA Receives ==
  ASSUME TftpConstants, IInv, Running, NEW p \in wire, p.to = "client", ~Lived(p, tftp.seq), ~BeginsAnew(p),
         NEW q, q = [tftp EXCEPT !.pinned = IF tftp.pinned = 0 THEN p.port ELSE tftp.pinned]
  PROVE  /\ q.pinned \in Ports /\ q.o = tftp.o /\ q.seq = tftp.seq /\ q \in ClientTypes
         /\ tftp.pinned # 0 => q.pinned = tftp.pinned
         /\ tftp.pinned = 0 => q.pinned = p.port
         /\ Sound(q, OnPacket(q, p), sessions[q.pinned])
         /\ p.type = "ERROR" => OnPacket(q, p).c.result # "none"
<1> DEFINE s == sessions[q.pinned]
           o == tftp.o
<1>1. tftp \in ClientTypes /\ p \in PacketTypes /\ sessions \in [Ports -> SessionTypes] /\ tftp.result = "none"
  BY DEF IInv, TypesInv, Running
<1>2. /\ o.upload \in BOOLEAN /\ o.oack \in BOOLEAN /\ o.n \in Nat /\ o.n > 0 /\ tftp.seq \in Nat /\ tftp.pinned \in 0..2
      /\ o \in TftpFiles
  BY <1>1, FileTypes DEF ClientTypes
<1>3. PacketRight(tftp, sessions, p)
  BY DEF IInv, WireInv
<1>4. /\ FromServer(o, sessions[p.port].at, p)
      /\ p.type # "ERROR" => sessions[p.port].phase # "free"
      /\ p.port # tftp.pinned /\ o.oack => p.type \in {"OACK", "ERROR"}
  BY <1>1, <1>3 DEF PacketRight, FromClient
<1>5. p.port \in Ports /\ Ports = {1, 2}
  BY <1>4 DEF FromServer, Ports
<1>6. PICK port \in Ports : port = IF tftp.pinned = 0 THEN p.port ELSE tftp.pinned
  BY <1>2, <1>5
<1>7. /\ q \in ClientTypes /\ q.pinned = port /\ q.o = o /\ q.seq = tftp.seq /\ q.block = tftp.block /\ q.result = "none"
      /\ q.written = tftp.written /\ q.last = tftp.last /\ q.read = tftp.read /\ q.short = tftp.short
  <2>1. q = [tftp EXCEPT !.pinned = port] /\ port \in 0..2
    BY <1>5, <1>6
  <2> QED
    BY <2>1, <1>1 DEF ClientTypes
<1>8. port # 0 /\ port \in Ports
  BY <1>5
<1>9. s \in SessionTypes /\ SessionRight(o, tftp.pinned, port, s)
  BY <1>1, <1>7, <1>8 DEF IInv, SessionsInv
<1>10. s.at \in Nat /\ s.at <= o.n
  BY <1>9 DEF SessionTypes, SessionRight
<1>11. Done(tftp) /\ HasRead(tftp)
  BY DEF IInv
<1>12. tftp.pinned = 0 => tftp.seq = 0 /\ (o.upload => tftp.read = 0)
  BY <1>11, <1>1 DEF Done, HasRead
<1>13. tftp.pinned # 0 => port = tftp.pinned /\ Apart(tftp, s)
  BY <1>6, <1>7 DEF IInv, ApartInv
<1>14. Near(q, s)
  <2>1. CASE tftp.pinned = 0
    <3>1. s.at <= FirstSeq(o)
      BY <2>1, <1>8, <1>9 DEF SessionRight
    <3> QED
      BY <3>1, <2>1, <1>7, <1>10, <1>12 DEF FirstSeq, Near
  <2>2. CASE tftp.pinned # 0
    BY <2>2, <1>13, <1>7 DEF Apart, Near
  <2> QED
    BY <2>1, <2>2
<1>15. Done(q)
  <2>1. FromClient(tftp, tftp.last) /\ tftp.last \in PacketTypes
    BY <1>11, <1>1 DEF Done, ClientTypes
  <2>2. FromClient(q, tftp.last)
    <3>1. (tftp.pinned # 0 => q.pinned = tftp.pinned) /\ tftp.seq <= q.seq /\ q.o = tftp.o
      BY <1>2, <1>7, <1>13
    <3> QED
      BY <3>1, <2>1, <1>1, <1>7, FromClientLater
  <2> QED
    BY <2>2, <1>7, <1>8, <1>11 DEF Done
<1>16. q.pinned # 0
  BY <1>7, <1>8
<1> HIDE DEF s
<1>17. CASE q.pinned # p.port \/ p.type = "ERROR"
  <2>1. OnPacket(q, p) = Finish(q, "error")
    BY <1>17 DEF OnPacket
  <2>2. PICK r \in Nat : r = q.retries
    BY <1>7 DEF ClientTypes
  <2>3. [q EXCEPT !.retries = r] = q
    BY <2>2, <1>7 DEF ClientTypes
  <2>4. Sound(q, Finish(q, "error"), s)
    BY <2>3, <1>7, <1>14, <1>15, <1>16, FailureIsSound
  <2>5. Finish(q, "error").c.result = "error"
    BY <1>7 DEF Finish, ClientTypes
  <2> QED
    BY <2>1, <2>4, <2>5, <1>6, <1>7, <1>13 DEF s
<1>18. CASE q.pinned = p.port /\ p.type # "ERROR"
  <2>1. s.phase # "free" /\ FromServer(q.o, s.at, p)
    BY <1>18, <1>4, <1>7 DEF s
  <2>2. Apart(q, s)
    BY <2>1, <1>7, <1>14 DEF Apart
  <2>3. p.type \in {"DATA", "ACK", "OACK"}
    BY <2>1, <1>18 DEF FromServer, TheOack, Packet
  <2>4. p.type = "OACK" => tftp.seq = 0
    BY <1>2, <1>6, <1>7, <1>12, <1>18 DEF BeginsAnew
  <2>5. o.upload /\ tftp.seq = 0 => tftp.pinned = 0
    BY <1>1, <1>11 DEF HasRead
  <2>6. o.upload => (q.seq = 0 => q.read = 0) /\ (q.seq > 0 => HasRead(q))
    <3>1. q.seq > 0 => tftp.pinned # 0 /\ HasRead(q)
      BY <1>7, <1>11, <1>12, <1>16 DEF HasRead
    <3> QED
      BY <3>1, <2>5, <1>12, <1>7
  <2>7. ~Lived(p, q.seq)
    BY <1>7
  <2>8. CASE p.type = "DATA"
    <3>1. ~o.upload
      BY <2>1, <2>8, <1>7 DEF FromServer, TheOack, Packet
    <3>2. Sound(q, RxData(q, p), s)
      BY <3>1, <2>1, <2>2, <2>7, <2>8, <1>1, <1>7, <1>9, <1>10, <1>15, <1>16, RxDataIsSound
    <3>3. OnPacket(q, p) = RxData(q, p)
      BY <2>8, <1>18 DEF OnPacket
    <3> QED
      BY <3>2, <3>3, <2>8, <1>6, <1>7, <1>13 DEF s
  <2>9. CASE p.type = "ACK"
    <3>1. o.upload
      BY <2>1, <2>9, <1>7 DEF FromServer, TheOack, Packet
    <3>2. Sound(q, TxAck(q, p.num), s)
      BY <3>1, <2>1, <2>2, <2>6, <2>7, <2>9, <1>1, <1>7, <1>9, <1>10, <1>15, <1>16, TxAckIsSound
    <3>3. OnPacket(q, p) = TxAck(q, p.num)
      BY <2>9, <1>18 DEF OnPacket
    <3> QED
      BY <3>2, <3>3, <2>9, <1>6, <1>7, <1>13 DEF s
  <2>10. CASE p.type = "OACK"
    <3>1. q.seq = 0 /\ (o.upload => q.read = 0)
      BY <2>4, <2>5, <2>10, <1>7, <1>12
    <3>2. o.upload => Sound(q, TxOack(q), s)
      BY <3>1, <2>2, <1>7, <1>9, <1>15, <1>16, TxOackIsSound
    <3>3. ~o.upload => Sound(q, RxOack(q), s)
      BY <3>1, <2>2, <1>7, <1>9, <1>15, <1>16, RxOackIsSound
    <3>4. OnPacket(q, p) = IF o.upload THEN TxOack(q) ELSE RxOack(q)
      BY <2>10, <1>18, <1>7 DEF OnPacket
    <3> QED
      BY <3>2, <3>3, <3>4, <2>10, <1>6, <1>7, <1>13 DEF s
  <2> QED
    BY <2>3, <2>8, <2>9, <2>10
<1> QED
  BY <1>17, <1>18

\* A step of the client, on which some of the packets of before are left.
LEMMA ClientMoves ==
  ASSUME TftpConstants, IInv, NEW d \in ClientTypes, NEW rest \in SUBSET wire, NEW send,
         tftp' = d, sessions' = sessions, calm' \in BOOLEAN, wire' \subseteq rest \cup send,
         d.o = tftp.o, tftp.seq <= d.seq, tftp.pinned # 0 => d.pinned = tftp.pinned,
         Done(d), HasRead(d), d.pinned # 0 => Apart(d, sessions[d.pinned]),
         \A x \in send : x \in PacketTypes /\ FromClient(d, x)
  PROVE  IInv'
<1>1. tftp \in ClientTypes /\ wire \subseteq PacketTypes /\ sessions \in [Ports -> SessionTypes]
  BY DEF IInv, TypesInv
<1>2. TypesInv'
  BY <1>1 DEF TypesInv
<1>3. Done(tftp') /\ HasRead(tftp')
  OBVIOUS
<1>4. ApartInv'
  BY DEF ApartInv
<1>5. ASSUME NEW port \in Ports
      PROVE  SessionRight(d.o, d.pinned, port, sessions[port])
  <2>1. SessionRight(tftp.o, tftp.pinned, port, sessions[port])
    BY DEF IInv, SessionsInv
  <2>2. port # d.pinned => port # tftp.pinned
    BY DEF Ports
  <2> QED
    BY <2>1, <2>2 DEF SessionRight
<1>6. ASSUME NEW x \in rest
      PROVE  PacketRight(d, sessions, x)
  <2>1. x \in PacketTypes /\ PacketRight(tftp, sessions, x)
    BY <1>1 DEF IInv, WireInv
  <2>2. CASE FromClient(tftp, x)
    <3>1. FromClient(d, x)
      BY <2>1, <2>2, <1>1, FromClientLater
    <3> QED
      BY <3>1 DEF PacketRight
  <2>3. CASE ~FromClient(tftp, x)
    <3>1. /\ FromServer(d.o, sessions[x.port].at, x)
          /\ x.type # "ERROR" => sessions[x.port].phase # "free"
          /\ x.port # tftp.pinned /\ d.o.oack => x.type \in {"OACK", "ERROR"}
      BY <2>1, <2>3 DEF PacketRight
    <3>2. x.port # d.pinned => x.port # tftp.pinned
      BY <3>1 DEF FromServer, Ports
    <3> QED
      BY <3>1, <3>2 DEF PacketRight
  <2> QED
    BY <2>2, <2>3
<1>7. WireInv'
  BY <1>6 DEF WireInv, PacketRight
<1>8. SessionsInv'
  BY <1>5 DEF SessionsInv
<1> QED
  BY <1>2, <1>3, <1>4, <1>7, <1>8 DEF IInv

\* What a step that sends the packets ps leaves on the wire.
LEMMA Flown ==
  ASSUME NEW rest, NEW ps, Flight(rest, ps)
  PROVE  wire' \subseteq rest \cup ps /\ calm' \in BOOLEAN /\ (calm' => calm /\ wire' = rest \cup ps)
BY DEF Flight

\* The client reads a packet.
LEMMA ReceiveInv ==
  ASSUME TftpConstants, IInv, Receive, ~anew'
  PROVE  IInv'
<1>1. PICK p \in wire :
        /\ p.to = "client" /\ ~Lived(p, tftp.seq) /\ ~BeginsAnew(p)
        /\ LET after == OnPacket([tftp EXCEPT !.pinned = IF @ = 0 THEN p.port ELSE @], p)
           IN  tftp' = after.c /\ Flight(wire \ {p}, after.send)
  BY DEF Receive
<1>2. PICK q : q = [tftp EXCEPT !.pinned = IF tftp.pinned = 0 THEN p.port ELSE tftp.pinned]
  OBVIOUS
<1>3. tftp' = OnPacket(q, p).c /\ Flight(wire \ {p}, OnPacket(q, p).send) /\ sessions' = sessions /\ Running
  BY <1>1, <1>2 DEF Receive
<1>4. PICK after : after = OnPacket(q, p)
  OBVIOUS
<1>5. /\ q.pinned \in Ports /\ q.o = tftp.o /\ q.seq = tftp.seq
      /\ tftp.pinned # 0 => q.pinned = tftp.pinned
      /\ tftp.pinned = 0 => q.pinned = p.port
      /\ Sound(q, after, sessions[q.pinned])
      /\ p.type = "ERROR" => after.c.result # "none"
  BY <1>1, <1>2, <1>3, <1>4, Receives
<1>6. PICK d : d = after.c
  OBVIOUS
<1>7. /\ d \in ClientTypes /\ d.o = tftp.o /\ d.pinned = q.pinned /\ tftp.seq <= d.seq
      /\ Done(d) /\ HasRead(d) /\ Apart(d, sessions[d.pinned])
      /\ \A x \in after.send : x \in PacketTypes /\ FromClient(d, x)
  BY <1>5, <1>6 DEF Sound
<1>8. tftp' = d /\ wire' \subseteq (wire \ {p}) \cup after.send /\ calm' \in BOOLEAN
  BY <1>3, <1>4, <1>6, Flown
<1>9. tftp.pinned # 0 => d.pinned = tftp.pinned
  BY <1>5, <1>7
<1> QED
  BY <1>3, <1>7, <1>8, <1>9, ClientMoves

\* The client stands still, or gives up.
LEMMA StandsStill ==
  ASSUME IInv, NEW d \in ClientTypes, d.o = tftp.o, d.seq = tftp.seq, d.block = tftp.block, d.written = tftp.written,
         d.pinned = tftp.pinned, d.last = tftp.last,
         d.result = "error" \/ (d.result = tftp.result /\ d.short = tftp.short /\ d.read = tftp.read)
  PROVE  Done(d) /\ HasRead(d) /\ (d.pinned # 0 => Apart(d, sessions[d.pinned]))
<1>1. Done(tftp) /\ HasRead(tftp) /\ (tftp.pinned # 0 => Apart(tftp, sessions[tftp.pinned]))
  BY DEF IInv, ApartInv
<1>2. d.result = "error" => d.result # "ok" /\ d.result # "none"
  OBVIOUS
<1>3. Done(d)
  BY <1>1, <1>2 DEF Done, FromClient
<1>4. HasRead(d)
  BY <1>1, <1>2 DEF HasRead
<1>5. d.pinned # 0 => Apart(d, sessions[d.pinned])
  BY <1>1, <1>2 DEF Apart, Near
<1> QED
  BY <1>3, <1>4, <1>5

\* The retry time is over.
LEMMA TimeoutInv ==
  ASSUME TftpConstants, IInv, Timeout
  PROVE  IInv'
<1>1. tftp \in ClientTypes /\ Done(tftp) /\ tftp.last \in PacketTypes
  BY DEF IInv, TypesInv, ClientTypes
<1>2. PICK r \in Nat : r = tftp.retries + 1
  BY <1>1 DEF ClientTypes
<1> DEFINE d == [tftp EXCEPT !.retries = r]
           f == [d EXCEPT !.state = "FIN", !.result = "error"]
<1>3. sessions' = sessions /\ calm' \in BOOLEAN /\ Running
  BY DEF Timeout, IInv, TypesInv
<1>4. \E send \in {{}, {d.last}} : tftp' = (IF r > RetryMax THEN f ELSE d) /\ wire' \subseteq wire \cup send
        /\ (send = {} \/ ~(r > RetryMax))
  BY <1>2 DEF Timeout, Finish, Repeat
<1>5. PICK send \in {{}, {d.last}} : tftp' = (IF r > RetryMax THEN f ELSE d) /\ wire' \subseteq wire \cup send
        /\ (send = {} \/ ~(r > RetryMax))
  BY <1>4
<1>6. /\ d \in ClientTypes /\ d.o = tftp.o /\ d.seq = tftp.seq /\ d.block = tftp.block /\ d.written = tftp.written
      /\ d.pinned = tftp.pinned /\ d.last = tftp.last /\ d.result = tftp.result /\ d.short = tftp.short /\ d.read = tftp.read
  BY <1>1 DEF ClientTypes
<1> HIDE DEF d
<1>7. /\ f \in ClientTypes /\ f.o = d.o /\ f.seq = d.seq /\ f.block = d.block /\ f.written = d.written
      /\ f.pinned = d.pinned /\ f.last = d.last /\ f.result = "error"
  BY <1>6 DEF ClientTypes
<1> HIDE DEF f
<1>8. PICK g \in {d, f} : tftp' = g
  BY <1>5
<1>9. /\ g \in ClientTypes /\ g.o = tftp.o /\ g.seq = tftp.seq /\ g.block = tftp.block /\ g.written = tftp.written
      /\ g.pinned = tftp.pinned /\ g.last = tftp.last
      /\ g.result = "error" \/ (g.result = tftp.result /\ g.short = tftp.short /\ g.read = tftp.read)
  BY <1>6, <1>7
<1>10. Done(g) /\ HasRead(g) /\ (g.pinned # 0 => Apart(g, sessions[g.pinned]))
  BY <1>9, StandsStill
<1>11. \A x \in send : x \in PacketTypes /\ FromClient(g, x)
  BY <1>1, <1>5, <1>6, <1>9, <1>10 DEF Done
<1>12. tftp.seq <= g.seq
  BY <1>1, <1>9 DEF ClientTypes
<1> QED
  BY <1>3, <1>5, <1>8, <1>9, <1>10, <1>11, <1>12, ClientMoves

\* The application gives up.
LEMMA GiveUpInv ==
  ASSUME TftpConstants, IInv, GiveUp
  PROVE  IInv'
<1>1. tftp \in ClientTypes
  BY DEF IInv, TypesInv
<1> DEFINE d == [tftp EXCEPT !.state = "FIN", !.result = "error"]
           m == ToServer(tftp, "ERROR", 0)
<1>2. tftp' = d /\ sessions' = sessions /\ calm' \in BOOLEAN /\ wire' \subseteq wire \cup {m}
  BY DEF GiveUp, Finish
<1>3. /\ d \in ClientTypes /\ d.o = tftp.o /\ d.seq = tftp.seq /\ d.block = tftp.block /\ d.written = tftp.written
      /\ d.pinned = tftp.pinned /\ d.last = tftp.last /\ d.result = "error" /\ d.seq \in Nat
  BY <1>1 DEF ClientTypes
<1>4. m \in PacketTypes /\ m.to = "server" /\ m.type = "ERROR"
  BY <1>1 DEF ToServer, Packet, PacketTypes, ClientTypes
<1> HIDE DEF d, m
<1>5. Done(d) /\ HasRead(d) /\ (d.pinned # 0 => Apart(d, sessions[d.pinned]))
  BY <1>3, StandsStill
<1>6. \A x \in {m} : x \in PacketTypes /\ FromClient(d, x)
  BY <1>4 DEF FromClient
<1>7. tftp.seq <= d.seq
  BY <1>3
<1> QED
  BY <1>2, <1>3, <1>5, <1>6, <1>7, ClientMoves

-----------------------------------------------------------------------------
(* The server's steps. *)

\* What an answer has.
LEMMA Answered ==
  ASSUME TftpConstants, tftp.o.hpa \in BOOLEAN, NEW port \in Ports, NEW type \in {"DATA", "ACK", "OACK", "ERROR"},
         NEW seq \in Nat, NEW chunk \in Nat, NEW p, p = Answer(port, type, seq, chunk)
  PROVE  /\ p \in PacketTypes /\ p.to = "client" /\ p.port = port /\ p.type = type /\ p.seq = seq /\ p.chunk = chunk
         /\ p.num = Num(seq) \/ (type = "ACK" /\ p.num = Modulus - 1 /\ seq > 0 /\ Num(seq) = 0)
         /\ p = Packet("client", port, type, seq, p.num, chunk)
<1>1. Modulus \in Nat /\ Modulus > 2 /\ Num(seq) \in Nat
  BY Numbers DEF TftpConstants
<1>2. PICK num \in Nat : /\ num = IF tftp.o.hpa /\ type = "ACK" /\ seq > 0 /\ Num(seq) = 0 THEN Modulus - 1 ELSE Num(seq)
                         /\ num = Num(seq) \/ (type = "ACK" /\ num = Modulus - 1 /\ seq > 0 /\ Num(seq) = 0)
  BY <1>1
<1>3. p = Packet("client", port, type, seq, num, chunk)
  BY <1>2 DEF Answer
<1> QED
  BY <1>2, <1>3 DEF Packet, PacketTypes, Ports

\* what the session n of a port may send
Sendable(port, n, x) ==
  /\ x \in PacketTypes /\ x.port = port /\ FromServer(tftp.o, n.at, x) /\ n.phase # "free"
  /\ port # tftp.pinned /\ tftp.o.oack => x.type = "OACK"

\* A step of the server's session of one port.
LEMMA ServerMoves ==
  ASSUME TftpConstants, IInv, NEW port \in Ports, NEW n \in SessionTypes, NEW send,
         sessions' = [sessions EXCEPT ![port] = n], tftp' = tftp, calm' \in BOOLEAN, wire' \subseteq wire \cup send,
         sessions[port].at <= n.at, sessions[port].phase # "free" => n.phase # "free",
         SessionRight(tftp.o, tftp.pinned, port, n), port = tftp.pinned => Apart(tftp, n),
         \A x \in send : Sendable(port, n, x)
  PROVE  IInv'
<1>1. tftp \in ClientTypes /\ wire \subseteq PacketTypes /\ sessions \in [Ports -> SessionTypes]
  BY DEF IInv, TypesInv
<1>2. sessions' \in [Ports -> SessionTypes] /\ sessions'[port] = n
      /\ \A q \in Ports : q # port => sessions'[q] = sessions[q]
  BY <1>1
<1>3. TypesInv'
  BY <1>1, <1>2 DEF TypesInv, Sendable
<1>4. Done(tftp') /\ HasRead(tftp')
  BY DEF IInv
<1>5. \A q \in Ports : SessionRight(tftp.o, tftp.pinned, q, sessions'[q])
  BY <1>2 DEF IInv, SessionsInv
<1>6. SessionsInv'
  BY <1>5 DEF SessionsInv
<1>7. tftp.pinned # 0 => tftp.pinned \in Ports
  BY <1>1 DEF ClientTypes, Ports
<1>8. tftp.pinned # 0 => Apart(tftp, sessions'[tftp.pinned])
  BY <1>2, <1>7 DEF IInv, ApartInv
<1>9. ApartInv'
  BY <1>8 DEF ApartInv
<1>10. ASSUME NEW x \in wire
       PROVE  PacketRight(tftp, sessions', x)
  <2>1. x \in PacketTypes /\ PacketRight(tftp, sessions, x)
    BY <1>1 DEF IInv, WireInv
  <2>2. CASE FromClient(tftp, x)
    BY <2>2 DEF PacketRight
  <2>3. CASE ~FromClient(tftp, x)
    <3>1. /\ FromServer(tftp.o, sessions[x.port].at, x)
          /\ x.type # "ERROR" => sessions[x.port].phase # "free"
          /\ x.port # tftp.pinned /\ tftp.o.oack => x.type \in {"OACK", "ERROR"}
      BY <2>1, <2>3 DEF PacketRight
    <3>2. x.port \in Ports
      BY <3>1 DEF FromServer
    <3>3. sessions[x.port].at \in Nat /\ sessions'[x.port].at \in Nat /\ sessions[x.port].at <= sessions'[x.port].at
          /\ (sessions[x.port].phase # "free" => sessions'[x.port].phase # "free")
      BY <1>1, <1>2, <3>2 DEF SessionTypes
    <3>4. FromServer(tftp.o, sessions'[x.port].at, x)
      BY <2>1, <3>1, <3>3, FromServerLater
    <3> QED
      BY <3>1, <3>3, <3>4 DEF PacketRight
  <2> QED
    BY <2>2, <2>3
<1>11. ASSUME NEW x \in send
       PROVE  PacketRight(tftp, sessions', x)
  BY <1>2 DEF PacketRight, Sendable
<1>12. WireInv'
  BY <1>10, <1>11 DEF WireInv
<1> QED
  BY <1>3, <1>4, <1>6, <1>9, <1>12 DEF IInv

\* Packets get lost, or are sent by nobody's session.
LEMMA WireMoves ==
  ASSUME TftpConstants, IInv, UNCHANGED <<tftp, sessions>>, calm' \in BOOLEAN,
         \A x \in wire' : x \in wire \/ (x \in PacketTypes /\ PacketRight(tftp, sessions, x))
  PROVE  IInv'
<1>1. TypesInv'
  BY DEF IInv, TypesInv
<1>2. WireInv'
  BY DEF IInv, WireInv
<1> QED
  BY <1>1, <1>2 DEF IInv, SessionsInv, ApartInv

\* A packet is lost.
LEMMA LoseInv ==
  ASSUME TftpConstants, IInv, Lose
  PROVE  IInv'
<1>1. UNCHANGED <<tftp, sessions>> /\ calm' \in BOOLEAN /\ \A x \in wire' : x \in wire
  BY DEF Lose
<1> QED
  BY <1>1, WireMoves

\* The request is refused.
LEMMA ServerRefusesInv ==
  ASSUME TftpConstants, IInv, ServerRefuses
  PROVE  IInv'
<1>1. tftp.o.hpa \in BOOLEAN /\ 1 \in Ports
  BY FileTypes DEF IInv, TypesInv, ClientTypes, Ports
<1>2. PICK m : m = Answer(1, "ERROR", 0, 0)
  OBVIOUS
<1>3. m \in PacketTypes /\ m.to = "client" /\ m.port = 1 /\ m.type = "ERROR"
  BY <1>1, <1>2, Answered
<1>4. PacketRight(tftp, sessions, m)
  BY <1>1, <1>3 DEF PacketRight, FromServer
<1>5. UNCHANGED <<tftp, sessions>> /\ calm' \in BOOLEAN /\ wire' \subseteq wire \cup {m}
  BY <1>2 DEF ServerRefuses
<1> QED
  BY <1>3, <1>4, <1>5, WireMoves

\* A session is opened; the client does not talk to it yet.
LEMMA ServerAcceptsInv ==
  ASSUME TftpConstants, IInv, ServerAccepts
  PROVE  IInv'
<1> DEFINE o == tftp.o
<1>1. /\ o \in TftpFiles /\ o.upload \in BOOLEAN /\ o.oack \in BOOLEAN /\ o.hpa \in BOOLEAN /\ o.n \in Nat /\ o.n > 0
      /\ tftp \in ClientTypes /\ sessions \in [Ports -> SessionTypes] /\ tftp.seq \in Nat
  BY FileTypes DEF IInv, TypesInv, ClientTypes
<1>a. PICK port \in Ports :
        /\ sessions[port].phase = "free"
        /\ \E first : /\ first = CASE o.oack -> Answer(port, "OACK", 0, 0)
                                   [] o.upload /\ ~o.oack -> Answer(port, "ACK", 0, 0)
                                   [] OTHER -> Answer(port, "DATA", 1, ChunkAfter(0))
                      /\ Serve(port, "open", first.seq, <<>>, first) /\ Flight(wire \ {Request(0)}, {first})
  BY DEF ServerAccepts
<1>2. PICK first :
        /\ sessions[port].phase = "free"
        /\ first = CASE o.oack -> Answer(port, "OACK", 0, 0)
                     [] o.upload /\ ~o.oack -> Answer(port, "ACK", 0, 0)
                     [] OTHER -> Answer(port, "DATA", 1, ChunkAfter(0))
        /\ Serve(port, "open", first.seq, <<>>, first) /\ Flight(wire \ {Request(0)}, {first})
  BY <1>a
<1>3. /\ first \in PacketTypes /\ first.port = port /\ first.seq = FirstSeq(o) /\ FromServer(o, first.seq, first)
      /\ first.type # "ERROR" /\ (first.type = "OACK" => first.seq = 0) /\ (o.oack => first.type = "OACK")
  <2>1. CASE o.oack
    <3>1. first = Answer(port, "OACK", 0, 0)
      BY <2>1, <1>2
    <3>2. first \in PacketTypes /\ first.seq = 0 /\ first.type = "OACK" /\ first.port = port /\ first.to = "client"
          /\ first.num = Num(0) /\ first = Packet("client", port, "OACK", 0, first.num, 0)
      BY <3>1, <1>1, Answered
    <3>3. first = TheOack(port)
      BY <3>2, Numbers DEF TheOack
    <3> QED
      BY <3>2, <3>3, <2>1 DEF FromServer, FirstSeq
  <2>2. CASE o.upload /\ ~o.oack
    <3>1. first = Answer(port, "ACK", 0, 0)
      BY <2>2, <1>2
    <3>2. first \in PacketTypes /\ first.seq = 0 /\ first.type = "ACK" /\ first.port = port /\ first.to = "client"
          /\ first.num = Num(0)
      BY <3>1, <1>1, Answered
    <3> QED
      BY <3>2, <2>2 DEF FromServer, FirstSeq
  <2>3. CASE ~o.upload /\ ~o.oack
    <3>1. first = Answer(port, "DATA", 1, 1)
      BY <2>3, <1>1, <1>2 DEF ChunkAfter
    <3>2. first \in PacketTypes /\ first.seq = 1 /\ first.type = "DATA" /\ first.port = port /\ first.to = "client"
          /\ first.num = Num(1) /\ first.chunk = 1
      BY <3>1, <1>1, Answered
    <3> QED
      BY <3>2, <2>3 DEF FromServer, FirstSeq
  <2> QED
    BY <2>1, <2>2, <2>3, <1>1
<1> DEFINE n == [phase |-> "open", at |-> first.seq, stored |-> <<>>, tries |-> 0, last |-> first]
<1>4. sessions' = [sessions EXCEPT ![port] = n] /\ tftp' = tftp
  BY <1>2 DEF Serve, ServerAccepts
<1>5. first.seq \in {0, 1} /\ (o.upload => first.seq = 0)
  BY <1>3 DEF FirstSeq
<1>6. n \in SessionTypes /\ n.phase = "open" /\ n.at = first.seq /\ n.stored = <<>> /\ n.last = first
  BY <1>3, <1>5 DEF SessionTypes
<1> HIDE DEF n
<1>7. SessionRight(o, tftp.pinned, port, sessions[port]) /\ sessions[port].at = 0
  BY <1>2 DEF IInv, SessionsInv, SessionRight
<1>8. SessionRight(o, tftp.pinned, port, n)
  <2>1. first.seq <= FirstSeq(o) /\ first.seq <= o.n /\ (o.upload => first.seq < o.n)
    BY <1>1, <1>3, <1>5
  <2>2. FirstBlocks(n.stored) /\ Len(n.stored) = IF o.upload THEN n.at ELSE 0
    BY <1>5, <1>6 DEF FirstBlocks
  <2> QED
    BY <2>1, <2>2, <1>3, <1>6 DEF SessionRight
<1>9. port = tftp.pinned => Apart(tftp, n)
  <2>1. SUFFICES ASSUME port = tftp.pinned PROVE Apart(tftp, n)
    OBVIOUS
  <2>2. Apart(tftp, sessions[port])
    BY <2>1 DEF IInv, ApartInv, Ports
  <2> QED
    BY <2>2, <1>1, <1>2, <1>5, <1>6, <1>7 DEF Apart, Near
<1>10. PICK send : send = {first} /\ wire' \subseteq wire \cup send /\ calm' \in BOOLEAN
  BY <1>2, Flown
<1>11. \A x \in send : Sendable(port, n, x)
  BY <1>3, <1>6, <1>10 DEF Sendable
<1>12. sessions[port].at <= n.at /\ (sessions[port].phase # "free" => n.phase # "free")
  BY <1>5, <1>6, <1>7
<1> QED
  BY <1>4, <1>6, <1>8, <1>9, <1>10, <1>11, <1>12, ServerMoves

\* What the client sent about block `at', or the one after it, and is not older than it can be.
LEMMA ServerReceivesInv ==
  ASSUME TftpConstants, IInv, ServerReceives
  PROVE  IInv'
<1> DEFINE o == tftp.o
<1>1. /\ o \in TftpFiles /\ o.upload \in BOOLEAN /\ o.oack \in BOOLEAN /\ o.hpa \in BOOLEAN /\ o.n \in Nat /\ o.n > 0
      /\ tftp \in ClientTypes /\ sessions \in [Ports -> SessionTypes] /\ tftp.seq \in Nat /\ wire \subseteq PacketTypes
  BY FileTypes DEF IInv, TypesInv, ClientTypes
<1>2. PICK p \in wire :
        /\ p.to = "server" /\ p.port # 0
        /\ LET s == sessions[p.port]
               data == Answer(p.port, "DATA", s.at + 1, ChunkAfter(s.at))
               ack == Answer(p.port, "ACK", s.at + 1, 0)
               heard == s.phase # "done" /\ ~Lived(p, s.at)
               acked == heard /\ p.type = "ACK" /\ p.num = Num(s.at)
               next == heard /\ p.type = "DATA" /\ p.num = Num(s.at + 1) /\ s.phase = "open"
               again == heard /\ p.type = "DATA" /\ p.num = Num(s.at) /\ s.at > 0
               ended == heard /\ p.type = "ERROR"
           IN  /\ CASE acked /\ s.at < tftp.o.n -> Serve(p.port, "open", s.at + 1, <<>>, data)
                    [] (acked /\ s.at = tftp.o.n) \/ ended -> Serve(p.port, "done", s.at, s.stored, s.last)
                    [] next -> Serve(p.port, IF Short(p.chunk) THEN "all" ELSE "open", s.at + 1,
                                     Append(s.stored, p.chunk), ack)
                    [] OTHER -> UNCHANGED sessions
               /\ Flight(wire \ {p}, CASE acked /\ s.at < tftp.o.n -> {data}
                                       [] next -> {ack}
                                       [] again -> {s.last}
                                       [] OTHER -> {})
  BY DEF ServerReceives
<1>3. PICK port \in Ports : port = p.port
  BY <1>1, <1>2 DEF PacketTypes, Ports
<1>4. PICK s \in SessionTypes : s = sessions[port] /\ SessionRight(o, tftp.pinned, port, s)
  BY <1>1 DEF IInv, SessionsInv
<1>5. s.at \in Nat /\ s.at + 1 \in Nat /\ s.at <= o.n /\ s.stored \in Seq(Nat) /\ s.last \in PacketTypes
  BY <1>4, <1>1 DEF SessionTypes, SessionRight
<1>6. PacketRight(tftp, sessions, p)
  BY DEF IInv, WireInv
<1>7. FromClient(tftp, p)
  BY <1>2, <1>6 DEF PacketRight, FromServer
<1>8. p.type = "ERROR" \/
      /\ tftp.pinned = port /\ p.seq <= tftp.seq /\ p.num = Num(p.seq) /\ p.type = IF o.upload THEN "DATA" ELSE "ACK"
      /\ o.upload => p.seq > 0 /\ p.chunk = IF p.seq <= o.n THEN p.seq ELSE 0
  BY <1>2, <1>3, <1>7 DEF FromClient, TheRequest, Packet
<1>9. port = tftp.pinned => Apart(tftp, s)
  BY <1>4 DEF IInv, ApartInv, Ports
<1>10a. PICK data, ack : data = Answer(port, "DATA", s.at + 1, ChunkAfter(s.at)) /\ ack = Answer(port, "ACK", s.at + 1, 0)
  OBVIOUS
<1>10. PICK heard \in BOOLEAN : heard <=> s.phase # "done" /\ ~Lived(p, s.at)
  OBVIOUS
<1>10b. Num(s.at + 1) # Num(s.at)
  <2>1. Modulus \in Nat /\ Modulus > 2
    BY DEF TftpConstants
  <2>2. s.at < s.at + 1 + Modulus /\ s.at + 1 < s.at + Modulus /\ s.at # s.at + 1
    BY <2>1, <1>5
  <2> QED
    BY <2>2, <1>5, Numbers
<1>11. PICK send :
         send = CASE heard /\ p.type = "ACK" /\ p.num = Num(s.at) /\ s.at < o.n -> {data}
                  [] heard /\ p.type = "DATA" /\ p.num = Num(s.at + 1) /\ s.phase = "open" -> {ack}
                  [] heard /\ p.type = "DATA" /\ p.num = Num(s.at) /\ s.at > 0 -> {s.last}
                  [] OTHER -> {}
  OBVIOUS
<1>12. /\ CASE heard /\ p.type = "ACK" /\ p.num = Num(s.at) /\ s.at < o.n -> Serve(port, "open", s.at + 1, <<>>, data)
            [] (heard /\ p.type = "ACK" /\ p.num = Num(s.at) /\ s.at = o.n) \/ (heard /\ p.type = "ERROR") ->
                 Serve(port, "done", s.at, s.stored, s.last)
            [] heard /\ p.type = "DATA" /\ p.num = Num(s.at + 1) /\ s.phase = "open" ->
                 Serve(port, IF Short(p.chunk) THEN "all" ELSE "open", s.at + 1, Append(s.stored, p.chunk), ack)
            [] OTHER -> UNCHANGED sessions
       /\ Flight(wire \ {p}, send)
  BY <1>2, <1>3, <1>4, <1>10, <1>10a, <1>11
<1>13. wire' \subseteq wire \cup send /\ calm' \in BOOLEAN /\ tftp' = tftp
  BY <1>12, Flown DEF ServerReceives
<1>14. heard /\ p.type = "ACK" /\ p.num = Num(s.at) => p.seq = s.at /\ tftp.seq = s.at /\ ~o.upload /\ port = tftp.pinned
  <2>1. SUFFICES ASSUME heard, p.type = "ACK", p.num = Num(s.at)
                 PROVE  p.seq = s.at /\ tftp.seq = s.at /\ ~o.upload /\ port = tftp.pinned
    OBVIOUS
  <2>2. /\ ~o.upload /\ port = tftp.pinned /\ p.seq <= tftp.seq /\ p.num = Num(p.seq) /\ tftp.seq <= s.at
        /\ ~Lived(p, s.at) /\ p.seq \in Nat /\ p \in PacketTypes
    BY <2>1, <1>1, <1>8, <1>9, <1>10 DEF Apart, Near, PacketTypes
  <2>3. p.seq = s.at
    <3>1. p.seq <= s.at + 1
      BY <2>2, <1>1, <1>5
    <3> QED
      BY <3>1, <2>1, <2>2, <1>5, DataTaken
  <2> QED
    BY <2>2, <2>3, <1>1, <1>5
<1>15. heard /\ p.type = "DATA" /\ p.num = Num(s.at + 1) => p.seq = s.at + 1 /\ o.upload /\ port = tftp.pinned
  <2>1. SUFFICES ASSUME heard, p.type = "DATA", p.num = Num(s.at + 1)
                 PROVE  p.seq = s.at + 1 /\ o.upload /\ port = tftp.pinned
    OBVIOUS
  <2>2. /\ o.upload /\ port = tftp.pinned /\ p.seq <= tftp.seq /\ p.num = Num(p.seq) /\ tftp.seq <= s.at + 2
        /\ ~Lived(p, s.at) /\ p.seq \in Nat /\ p \in PacketTypes
    BY <2>1, <1>1, <1>5, <1>8, <1>9, <1>10 DEF Apart, Near, PacketTypes
  <2>3. Modulus \in Nat /\ Modulus > 2 /\ s.at < p.seq + Modulus - 1
    BY <2>2, <1>5 DEF TftpConstants, Lived
  <2>4. p.seq < s.at + 1 + Modulus /\ s.at + 1 < p.seq + Modulus
    BY <2>2, <2>3, <1>1, <1>5
  <2>5. p.seq = s.at + 1
    BY <2>1, <2>2, <2>4, <1>5, Numbers
  <2> QED
    BY <2>2, <2>5
<1>16. CASE heard /\ p.type = "ACK" /\ p.num = Num(s.at) /\ s.at < o.n
  <2> DEFINE n == [phase |-> "open", at |-> s.at + 1, stored |-> <<>>, tries |-> 0, last |-> data]
  <2>1. send = {data}
    BY <1>16, <1>11
  <2>2. sessions' = [sessions EXCEPT ![port] = n]
    BY <1>16, <1>12, <1>1, <1>5 DEF Serve
  <2>3. p.seq = s.at /\ tftp.seq = s.at /\ ~o.upload /\ port = tftp.pinned
    BY <1>14, <1>16
  <2>4. ChunkAfter(s.at) = s.at + 1
    BY <1>16 DEF ChunkAfter
  <2>5. /\ data \in PacketTypes /\ data.to = "client" /\ data.port = port /\ data.type = "DATA" /\ data.seq = s.at + 1
        /\ data.chunk = s.at + 1 /\ data.num = Num(s.at + 1)
    BY <2>4, <1>1, <1>5, <1>10a, Answered
  <2>6. n \in SessionTypes /\ n.phase = "open" /\ n.at = s.at + 1 /\ n.stored = <<>> /\ n.last = data
    BY <2>5, <1>5 DEF SessionTypes
  <2> HIDE DEF n
  <2>7. FromServer(o, n.at, data)
    BY <2>3, <2>5, <2>6, <1>5 DEF FromServer
  <2>8. SessionRight(o, tftp.pinned, port, n)
    <3>1. FirstBlocks(n.stored) /\ Len(n.stored) = 0
      BY <2>6 DEF FirstBlocks
    <3> QED
      BY <3>1, <2>3, <2>5, <2>6, <2>7, <1>1, <1>5, <1>16 DEF SessionRight
  <2>9. Apart(tftp, n)
    BY <2>3, <2>6, <1>5, <1>9 DEF Apart, Near
  <2>10. s.at <= n.at /\ n.phase # "free"
    BY <2>6, <1>5
  <2>10a. sessions[port].at <= n.at /\ (sessions[port].phase # "free" => n.phase # "free")
    BY <2>10, <1>4
  <2>10b. \A x \in send : Sendable(port, n, x)
    BY <2>1, <2>3, <2>5, <2>7, <2>10 DEF Sendable
  <2> QED
    BY <2>2, <2>6, <2>8, <2>9, <2>10a, <2>10b, <1>13, ServerMoves
<1>17. CASE heard /\ (p.type = "ERROR" \/ (p.type = "ACK" /\ p.num = Num(s.at) /\ s.at = o.n))
  <2> DEFINE n == [phase |-> "done", at |-> s.at, stored |-> s.stored, tries |-> 0, last |-> s.last]
  <2>1. send = {}
    BY <1>17, <1>11, <1>5
  <2>2. sessions' = [sessions EXCEPT ![port] = n]
    BY <1>17, <1>12, <1>5 DEF Serve
  <2>3. n \in SessionTypes /\ n.phase = "done" /\ n.at = s.at /\ n.stored = s.stored /\ n.last = s.last
    BY <1>5 DEF SessionTypes
  <2> HIDE DEF n
  <2>4. SessionRight(o, tftp.pinned, port, n)
    BY <2>3, <1>4 DEF SessionRight
  <2>5. port = tftp.pinned => Apart(tftp, n)
    BY <2>3, <1>9 DEF Apart, Near
  <2>6. s.at <= n.at /\ n.phase # "free"
    BY <2>3, <1>5
  <2>6a. sessions[port].at <= n.at /\ (sessions[port].phase # "free" => n.phase # "free")
    BY <2>6, <1>4
  <2>6b. \A x \in send : Sendable(port, n, x)
    BY <2>1
  <2> QED
    BY <2>2, <2>3, <2>4, <2>5, <2>6a, <2>6b, <1>13, ServerMoves
<1>18. CASE heard /\ p.type = "DATA" /\ p.num = Num(s.at + 1) /\ s.phase = "open"
  <2>1. send = {ack}
    BY <1>18, <1>11, <1>10b
  <2>2. p.seq = s.at + 1 /\ o.upload /\ port = tftp.pinned
    BY <1>15, <1>18
  <2>3. s.at < o.n
    BY <2>2, <1>4, <1>18 DEF SessionRight
  <2>4. p.chunk = s.at + 1 /\ (Short(p.chunk) <=> s.at + 1 = o.n)
    BY <2>2, <2>3, <1>1, <1>5, <1>8, <1>18 DEF Short
  <2>5. PICK w \in Seq(Nat) : w = Append(s.stored, p.chunk)
    <3>1. Append(s.stored, p.chunk) \in Seq(Nat)
      BY <2>4, <1>5
    <3> QED
      BY <3>1
  <2>6. PICK ph \in {"all", "open"} : ph = IF Short(p.chunk) THEN "all" ELSE "open"
    OBVIOUS
  <2> DEFINE n == [phase |-> ph, at |-> s.at + 1, stored |-> w, tries |-> 0, last |-> ack]
  <2>7. sessions' = [sessions EXCEPT ![port] = n]
    BY <2>5, <2>6, <1>18, <1>12 DEF Serve
  <2>8. /\ ack \in PacketTypes /\ ack.to = "client" /\ ack.port = port /\ ack.type = "ACK" /\ ack.seq = s.at + 1
        /\ ack.num = Num(s.at + 1) \/ (ack.num = Modulus - 1 /\ s.at + 1 > 0 /\ Num(s.at + 1) = 0)
    BY <1>1, <1>5, <1>10a, Answered, SMTT(30)
  <2>9. n \in SessionTypes /\ n.phase = ph /\ n.at = s.at + 1 /\ n.stored = w /\ n.last = ack
    BY <2>8, <1>5 DEF SessionTypes
  <2> HIDE DEF n
  <2>10. FromServer(o, n.at, ack)
    BY <2>2, <2>8, <2>9, <1>5 DEF FromServer
  <2>11. FirstBlocks(w) /\ Len(w) = s.at + 1
    BY <2>2, <2>4, <2>5, <1>4, <1>5 DEF SessionRight, FirstBlocks
  <2>12. SessionRight(o, tftp.pinned, port, n)
    BY <2>2, <2>3, <2>4, <2>6, <2>8, <2>9, <2>10, <2>11, <1>1, <1>5 DEF SessionRight
  <2>13. Apart(tftp, n)
    <3>1. p.seq <= tftp.seq /\ Near(tftp, s) /\ (tftp.result = "ok" => s.at = o.n)
      BY <2>2, <1>8, <1>9, <1>18 DEF Apart
    <3> QED
      BY <3>1, <2>2, <2>3, <2>9, <1>1, <1>5 DEF Apart, Near
  <2>14. s.at <= n.at /\ n.phase # "free"
    BY <2>9, <2>6, <1>5
  <2>14a. sessions[port].at <= n.at /\ (sessions[port].phase # "free" => n.phase # "free")
    BY <2>14, <1>4
  <2>14b. \A x \in send : Sendable(port, n, x)
    BY <2>1, <2>2, <2>8, <2>10, <2>14 DEF Sendable
  <2> QED
    BY <2>7, <2>9, <2>12, <2>13, <2>14a, <2>14b, <1>13, ServerMoves
<1>19. CASE ~ \/ heard /\ p.type = "ACK" /\ p.num = Num(s.at) /\ s.at < o.n
              \/ heard /\ (p.type = "ERROR" \/ (p.type = "ACK" /\ p.num = Num(s.at) /\ s.at = o.n))
              \/ heard /\ p.type = "DATA" /\ p.num = Num(s.at + 1) /\ s.phase = "open"
  <2>1. sessions' = sessions
    BY <1>12, <1>19
  <2>2. CASE heard /\ p.type = "DATA" /\ p.num = Num(s.at) /\ s.at > 0
    <3>1. send = {s.last}
      BY <2>2, <1>11, <1>19
    <3>2. port = tftp.pinned /\ s.phase \in {"open", "all"}
      BY <2>2, <1>4, <1>8, <1>10 DEF SessionRight, SessionTypes
    <3>3. FromServer(o, s.at, s.last) /\ s.last.port = port /\ s.last.type # "OACK"
      BY <3>2, <2>2, <1>4, <1>5 DEF SessionRight
    <3>4. PacketRight(tftp, sessions, s.last)
      BY <3>2, <3>3, <1>4 DEF PacketRight
    <3> QED
      BY <2>1, <3>1, <3>4, <1>5, <1>13, WireMoves
  <2>3. CASE ~(heard /\ p.type = "DATA" /\ p.num = Num(s.at) /\ s.at > 0)
    <3>1. send = {}
      BY <2>3, <1>11, <1>19
    <3> QED
      BY <2>1, <3>1, <1>13, WireMoves
  <2> QED
    BY <2>2, <2>3
<1> QED
  BY <1>16, <1>17, <1>18, <1>19

\* The server's timer sends the last packet again.
LEMMA ServerRepeatsInv ==
  ASSUME TftpConstants, IInv, ServerRepeats
  PROVE  IInv'
<1>1. /\ tftp.o \in TftpFiles /\ tftp \in ClientTypes /\ sessions \in [Ports -> SessionTypes]
  BY DEF IInv, TypesInv, ClientTypes
<1>2. PICK port \in Ports :
        /\ sessions[port].phase = "open"
        /\ sessions' = [sessions EXCEPT ![port].tries = @ + 1] /\ wire' \subseteq wire \cup {sessions[port].last}
  BY DEF ServerRepeats
<1>3. PICK s \in SessionTypes : s = sessions[port] /\ SessionRight(tftp.o, tftp.pinned, port, s)
  BY <1>1 DEF IInv, SessionsInv
<1>4. s.at \in Nat /\ s.tries + 1 \in Nat /\ s.last \in PacketTypes
  BY <1>3 DEF SessionTypes
<1> DEFINE n == [s EXCEPT !.tries = s.tries + 1]
<1>5. sessions' = [sessions EXCEPT ![port] = n]
  BY <1>1, <1>2, <1>3
<1>6. n \in SessionTypes /\ n.phase = s.phase /\ n.at = s.at /\ n.stored = s.stored /\ n.last = s.last
  BY <1>4 DEF SessionTypes
<1> HIDE DEF n
<1>7. SessionRight(tftp.o, tftp.pinned, port, n)
  BY <1>3, <1>6 DEF SessionRight
<1>8. port = tftp.pinned => Apart(tftp, n)
  <2>1. port = tftp.pinned => Apart(tftp, s)
    BY <1>3 DEF IInv, ApartInv, Ports
  <2> QED
    BY <2>1, <1>6 DEF Apart, Near
<1>9. FromServer(tftp.o, n.at, s.last) /\ s.last.port = port /\ n.phase # "free"
      /\ (port # tftp.pinned /\ tftp.o.oack => s.last.type = "OACK")
  BY <1>2, <1>3, <1>6 DEF SessionRight
<1>10. PICK send : send = {s.last} /\ tftp' = tftp /\ calm' \in BOOLEAN /\ wire' \subseteq wire \cup send
  BY <1>2, <1>3 DEF ServerRepeats
<1>10a. sessions[port].at <= n.at /\ (sessions[port].phase # "free" => n.phase # "free")
  BY <1>3, <1>4, <1>6, <1>9
<1>10b. \A x \in send : Sendable(port, n, x)
  BY <1>4, <1>9, <1>10 DEF Sendable
<1> QED
  BY <1>5, <1>6, <1>7, <1>8, <1>10, <1>10a, <1>10b, ServerMoves

\* The server forgets a session that has all.
LEMMA ServerLeavesInv ==
  ASSUME TftpConstants, IInv, ServerLeaves
  PROVE  IInv'
<1>1. /\ tftp \in ClientTypes /\ sessions \in [Ports -> SessionTypes] /\ calm \in BOOLEAN
  BY DEF IInv, TypesInv
<1>2. PICK port \in Ports : sessions' = [sessions EXCEPT ![port].phase = "done"]
  BY DEF ServerLeaves
<1>3. PICK s \in SessionTypes : s = sessions[port] /\ SessionRight(tftp.o, tftp.pinned, port, s)
  BY <1>1 DEF IInv, SessionsInv
<1> DEFINE n == [s EXCEPT !.phase = "done"]
<1>4. sessions' = [sessions EXCEPT ![port] = n]
  BY <1>1, <1>2, <1>3
<1>5. n \in SessionTypes /\ n.phase = "done" /\ n.at = s.at /\ n.stored = s.stored /\ n.last = s.last /\ s.at \in Nat
  BY DEF SessionTypes
<1> HIDE DEF n
<1>6. SessionRight(tftp.o, tftp.pinned, port, n)
  BY <1>3, <1>5 DEF SessionRight
<1>7. port = tftp.pinned => Apart(tftp, n)
  <2>1. port = tftp.pinned => Apart(tftp, s)
    BY <1>3 DEF IInv, ApartInv, Ports
  <2> QED
    BY <2>1, <1>5 DEF Apart, Near
<1>8. PICK send : send = {} /\ wire' \subseteq wire \cup send
  BY DEF ServerLeaves
<1>9. tftp' = tftp /\ calm' \in BOOLEAN
  BY <1>1 DEF ServerLeaves
<1>10. sessions[port].at <= n.at /\ (sessions[port].phase # "free" => n.phase # "free")
  BY <1>3, <1>5
<1>11. \A x \in send : Sendable(port, n, x)
  BY <1>8
<1> QED
  BY <1>4, <1>5, <1>6, <1>7, <1>8, <1>9, <1>10, <1>11, ServerMoves

-----------------------------------------------------------------------------
(* The specification. *)

\* The first state has the invariant.
LEMMA InitInv ==
  ASSUME TftpConstants, Init
  PROVE  IInv
<1>1. PICK o \in TftpFiles :
        tftp = [o |-> o, state |-> "START", block |-> 0, seq |-> 0, retries |-> 1, short |-> TRUE, read |-> 0,
                written |-> <<>>, pinned |-> 0, last |-> Request(0), result |-> "none"]
  BY DEF Init
<1>2. Request(0) = TheRequest /\ TheRequest \in PacketTypes /\ TheRequest.to = "server"
  BY DEF Request, TheRequest, Packet, PacketTypes
<1>3. /\ tftp \in ClientTypes /\ tftp.o = o /\ tftp.block = 0 /\ tftp.seq = 0 /\ tftp.written = <<>> /\ tftp.pinned = 0
      /\ tftp.last = TheRequest /\ tftp.result = "none" /\ tftp.read = 0
  BY <1>1, <1>2 DEF ClientTypes
<1>4. o.n \in Nat /\ o.n > 0 /\ Num(0) = 0
  BY FileTypes, Numbers
<1>5. FirstBlocks(<<>>)
  BY DEF FirstBlocks
<1>6. Done(tftp) /\ HasRead(tftp) /\ FromClient(tftp, TheRequest)
  BY <1>2, <1>3, <1>4, <1>5 DEF Done, HasRead, FromClient
<1>7. ASSUME NEW port \in Ports
      PROVE  sessions[port] \in SessionTypes /\ SessionRight(tftp.o, tftp.pinned, port, sessions[port])
  <2>1. sessions[port] = [phase |-> "free", at |-> 0, stored |-> <<>>, tries |-> 0, last |-> TheRequest]
    BY <1>2 DEF Init
  <2>2. sessions[port] \in SessionTypes
    BY <2>1, <1>2 DEF SessionTypes
  <2> QED
    BY <2>1, <2>2, <1>3, <1>4, <1>5 DEF SessionRight, FirstSeq
<1>8. sessions \in [Ports -> SessionTypes] /\ SessionsInv
  BY <1>7 DEF Init, SessionsInv
<1>9. TypesInv /\ WireInv /\ ApartInv
  BY <1>2, <1>3, <1>6, <1>8 DEF Init, TypesInv, WireInv, PacketRight, ApartInv
<1> QED
  BY <1>6, <1>8, <1>9 DEF IInv

\* Every step keeps the invariant.
LEMMA StepInv ==
  ASSUME TftpConstants, IInv, [Next]_tftpVars, ~anew'
  PROVE  IInv'
<1>1. CASE UNCHANGED tftpVars
  BY <1>1 DEF tftpVars, IInv, TypesInv, SessionsInv, ApartInv, WireInv
<1>2. CASE Next
  BY <1>2, ReceiveInv, TimeoutInv, GiveUpInv, LoseInv, ServerAcceptsInv, ServerRefusesInv, ServerReceivesInv,
     ServerRepeatsInv, ServerLeavesInv DEF Next
<1> QED
  BY <1>1, <1>2

\* Once an OACK has come again, it has.
LEMMA AnewStays ==
  ASSUME anew, [Next]_tftpVars
  PROVE  anew'
BY DEF Next, tftpVars, Receive, Timeout, GiveUp, Lose, ServerAccepts, ServerRefuses, ServerReceives, ServerRepeats, ServerLeaves

\* What the invariant says of the data.
LEMMA IntactBecauseInv ==
  ASSUME TftpConstants, anew \/ IInv
  PROVE  DataIntact
<1> SUFFICES ASSUME IInv PROVE DataIntact
  BY DEF DataIntact
<1>1. tftp \in ClientTypes /\ Done(tftp) /\ SessionsInv /\ ApartInv /\ sessions \in [Ports -> SessionTypes]
  BY DEF IInv, TypesInv
<1>2. FirstBlocks(tftp.written) /\ \A port \in Ports : FirstBlocks(sessions[port].stored)
  BY <1>1 DEF Done, SessionsInv, SessionRight
<1>3. ASSUME tftp.result = "ok"
      PROVE  Len(IF tftp.o.upload THEN sessions[tftp.pinned].stored ELSE tftp.written) = tftp.o.n
  <2>1. tftp.pinned # 0 /\ tftp.pinned \in Ports
    BY <1>1, <1>3 DEF Done, ClientTypes, Ports
  <2>2. Apart(tftp, sessions[tftp.pinned]) /\ SessionRight(tftp.o, tftp.pinned, tftp.pinned, sessions[tftp.pinned])
    BY <2>1, <1>1 DEF ApartInv, SessionsInv
  <2> QED
    BY <2>2, <1>1, <1>3 DEF Apart, SessionRight, Done
<1> QED
  BY <1>2, <1>3 DEF DataIntact

\* What was received is the file's blocks in order (tftp_rx, tftp_tx and the server), and a
\* transfer that ended well has them all: for every file, and every loss, repetition and order of
\* packets, unless an OACK is read after the first block.
THEOREM TransferIsIntact ==
  ASSUME TftpConstants
  PROVE  Spec => []DataIntact
<1> DEFINE Inv == anew \/ IInv
<1>1. Init => Inv
  BY InitInv
<1>2. Inv /\ [Next]_tftpVars => Inv'
  BY StepInv, AnewStays
<1>3. Inv => DataIntact
  BY IntactBecauseInv
<1> QED
  BY <1>1, <1>2, <1>3, PTL DEF Spec

-----------------------------------------------------------------------------
(* A transfer without loss. *)

\* The one packet p on its way: the request, the server's first, and then those of an upload or of a download.
Asking(c, ss, p) == c.pinned = 0 /\ p = TheRequest /\ \A port \in Ports : ss[port].phase = "free"
Answering(c, ss, p) ==
  /\ c.pinned = 0 /\ ss[1].phase = "open" /\ ss[1].at = FirstSeq(c.o) /\ ss[2].phase = "free"
  /\ p = ss[1].last /\ p.seq = ss[1].at
Uploading(c, s, p) ==
  /\ c.o.upload /\ c.seq <= c.o.n /\ (s.at < c.o.n => s.phase = "open")
  /\ \/ p.type = "DATA" /\ p.seq = c.seq /\ c.seq = s.at + 1
     \/ p.type = "ACK" /\ p.seq = s.at /\ c.seq = s.at
Downloading(c, s, p) ==
  /\ ~c.o.upload /\ c.seq < c.o.n /\ s.phase = "open"
  /\ \/ p.type = "ACK" /\ p.seq = c.seq /\ c.seq = s.at
     \/ p.type = "DATA" /\ p.seq = s.at /\ s.at = c.seq + 1
Moving(c, s, p) == c.pinned # 0 /\ p.port = c.pinned /\ (Uploading(c, s, p) \/ Downloading(c, s, p))
OnItsWay(c, ss, p) == Asking(c, ss, p) \/ Answering(c, ss, p) \/ Moving(c, ss[c.pinned], p)

Calmly == tftp.result = "none" /\ \E p \in wire : wire = {p} /\ OnItsWay(tftp, sessions, p)
CalmInv == calm /\ ~EndsOnWrap(tftp.o) => tftp.result = "ok" \/ Calmly

\* the client is through, or has one packet for the session s
GoesOn(after, s) ==
  after.c.result = "ok" \/ (after.c.result = "none" /\ \E x : after.send = {x} /\ Moving(after.c, s, x))

\* The block that is due is sent, or the upload ends.
LEMMA NextBlockGoesOn ==
  ASSUME TftpConstants, NEW c \in ClientTypes, NEW s \in SessionTypes, NEW e \in ClientTypes,
         ~EndsOnWrap(tftp.o), c.o = tftp.o, c.o.upload, c.pinned # 0, e = Counted(c),
         Done(c), c.result = "none", c.seq = 0 => c.read = 0, c.seq > 0 => HasRead(c),
         s.at = c.seq, s.at <= c.o.n, s.phase # "free", s.at < c.o.n => s.phase = "open"
  PROVE  GoesOn(NextBlock(e), s)
<1>1. c.o.n \in Nat /\ c.o.n > 0 /\ c.seq \in Nat /\ c.read \in Nat /\ c.o \in TftpFiles /\ s.at \in Nat
  BY FileTypes DEF ClientTypes, SessionTypes
<1>2. Num(c.seq + 1) \in Nat /\ Num(1) = 1 /\ Num(c.o.n + 1) > 1
  BY <1>1, Numbers DEF EndsOnWrap, Num
<1>3. /\ e.o = c.o /\ e.seq = c.seq + 1 /\ e.block = Num(c.seq + 1) /\ e.pinned = c.pinned /\ e.short = c.short
      /\ e.result = "none"
  BY <1>1 DEF ClientTypes, Counted
<1>4. CASE e.block > 1 /\ e.short
  <2> DEFINE d == [e EXCEPT !.state = "TX", !.retries = 0]
  <2>1. NextBlock(e).c = [d EXCEPT !.state = "FIN", !.result = "ok"]
    BY <1>4 DEF NextBlock, Finish
  <2>2. d \in ClientTypes
    BY DEF ClientTypes
  <2> HIDE DEF d
  <2>2a. [d EXCEPT !.state = "FIN", !.result = "ok"].result = "ok"
    BY <2>2 DEF ClientTypes
  <2>3. NextBlock(e).c.result = "ok"
    BY <2>1, <2>2a
  <2> QED
    BY <2>3 DEF GoesOn
<1>5. CASE ~(e.block > 1 /\ e.short)
  <2>1. c.seq < c.o.n
    <3>1. c.seq = c.o.n => c.short /\ c.seq > 0
      BY <1>1 DEF HasRead
    <3> QED
      BY <3>1, <1>1, <1>2, <1>3, <1>5
  <2>2. c.read = IF c.seq <= c.o.n THEN c.seq ELSE c.o.n
    BY <1>1 DEF HasRead
  <2>3. Apart(e, s)
    BY <1>1, <1>3 DEF Apart, Near
  <2>4. PICK x : x = NextBlock(e).c.last
    OBVIOUS
  <2>5. PICK d : d = NextBlock(e).c
    OBVIOUS
  <2>6. Sound(c, NextBlock(e), s) /\ NextBlock(e).send = {x} /\ x.type = "DATA" /\ x.seq = c.seq + 1
        /\ d.seq = c.seq + 1 /\ d.result = "none"
    BY <1>1, <1>5, <2>2, <2>3, <2>4, <2>5, NextBlockIsSound
  <2>7. d.o = c.o /\ d.pinned = c.pinned /\ x.port = c.pinned
    <3>1. d.o = c.o /\ d.pinned = c.pinned /\ FromClient(d, x)
      BY <2>5, <2>6 DEF Sound
    <3> QED
      BY <3>1, <2>6 DEF FromClient, TheRequest, Packet
  <2>8. Moving(d, s, x)
    BY <2>1, <2>6, <2>7, <1>1 DEF Moving, Uploading
  <2> QED
    BY <2>5, <2>6, <2>8 DEF GoesOn
<1> QED
  BY <1>4, <1>5

\* ... for an acknowledgement or the answer to the options.
LEMMA TxGoesOn ==
  ASSUME TftpConstants, NEW c \in ClientTypes, NEW s \in SessionTypes,
         ~EndsOnWrap(tftp.o), c.o = tftp.o, c.o.upload, c.pinned # 0,
         Done(c), c.result = "none", c.seq = 0 => c.read = 0, c.seq > 0 => HasRead(c),
         s.at = c.seq, s.at <= c.o.n, s.phase # "free", s.at < c.o.n => s.phase = "open"
  PROVE  /\ c.seq = 0 => GoesOn(TxOack(c), s)
         /\ \A num : num = c.block \/ (c.block = 0 /\ num = Modulus - 1) => GoesOn(TxAck(c, num), s)
<1> DEFINE e == [c EXCEPT !.block = Num(c.seq + 1), !.seq = c.seq + 1]
<1>1. c.seq \in Nat /\ Num(1) = 1 /\ c.block = Num(c.seq)
  BY Numbers DEF ClientTypes, Done
<1>2. Num(c.seq + 1) \in Nat /\ Num(Num(c.seq) + 1) = Num(c.seq + 1)
  BY <1>1, Numbers
<1>3. e \in ClientTypes
  <2>1. PICK n \in Nat : n = c.seq + 1
    BY <1>1
  <2>2. PICK b \in Nat : b = Num(c.seq + 1)
    BY <1>2
  <2>3. e = [c EXCEPT !.block = b, !.seq = n]
    BY <2>1, <2>2
  <2> HIDE DEF e
  <2> QED
    BY <2>3 DEF ClientTypes
<1>4. GoesOn(NextBlock(e), s)
  <2>1. PICK f : f = e
    OBVIOUS
  <2>2. f \in ClientTypes /\ f = Counted(c)
    BY <2>1, <1>3 DEF Counted
  <2> HIDE DEF e
  <2>3. GoesOn(NextBlock(f), s)
    BY <2>2, NextBlockGoesOn
  <2> QED
    BY <2>1, <2>3
<1>5. ASSUME c.seq = 0
      PROVE  GoesOn(TxOack(c), s)
  <2>1. TxOack(c) = NextBlock(e)
    <3>1. c.seq + 1 = 1
      BY <1>5
    <3> QED
      BY <3>1, <1>1 DEF TxOack
  <2> QED
    BY <2>1, <1>4
<1>6. ASSUME NEW num, num = c.block \/ (c.block = 0 /\ num = Modulus - 1)
      PROVE  GoesOn(TxAck(c, num), s)
  <2>1. TxAck(c, num) = NextBlock(e)
    BY <1>1, <1>2, <1>6 DEF TxAck
  <2> QED
    BY <2>1, <1>4
<1> QED
  BY <1>5, <1>6

\* A download starts.
LEMMA RxOackGoesOn ==
  ASSUME TftpConstants, NEW c \in ClientTypes, NEW s \in SessionTypes, ~c.o.upload, c.pinned # 0,
         c.result = "none", s.at = 0, s.phase = "open"
  PROVE  GoesOn(RxOack(c), s)
<1> DEFINE e == [c EXCEPT !.state = "RX", !.block = 0, !.seq = 0, !.retries = 0]
           m == ToServer(e, "ACK", 0)
           d == [e EXCEPT !.last = m]
<1>1. RxOack(c) = [c |-> d, send |-> {m}]
  BY DEF RxOack, Transmit
<1>2. e \in ClientTypes /\ e.o = c.o /\ e.seq = 0 /\ e.result = "none" /\ e.pinned = c.pinned
  BY DEF ClientTypes
<1> HIDE DEF e
<1>3. m.type = "ACK" /\ m.seq = 0 /\ m.port = c.pinned
  BY <1>2 DEF ToServer, Packet
<1>4. d.o = c.o /\ d.seq = 0 /\ d.result = "none" /\ d.pinned = c.pinned
  BY <1>2 DEF ClientTypes
<1> HIDE DEF d, m
<1>5. c.o.n \in Nat /\ c.o.n > 0
  BY FileTypes DEF ClientTypes
<1>6. Moving(d, s, m)
  BY <1>3, <1>4, <1>5 DEF Moving, Downloading
<1> QED
  BY <1>1, <1>4, <1>6 DEF GoesOn

\* A download takes its next block.
LEMMA RxDataGoesOn ==
  ASSUME TftpConstants, NEW c \in ClientTypes, NEW s \in SessionTypes, c.o = tftp.o, ~c.o.upload, c.pinned # 0,
         c.result = "none", Done(c), NEW p \in PacketTypes, s.phase = "open",
         s.at = c.seq + 1, s.at <= c.o.n, p.seq = s.at, p.num = Num(p.seq), p.chunk = p.seq
  PROVE  GoesOn(RxData(c, p), s)
<1>1. /\ c.o.n \in Nat /\ c.o.n > 0 /\ c.seq \in Nat /\ c.written \in Seq(Nat) /\ p.chunk \in Nat /\ p.num \in Nat
      /\ c.o \in TftpFiles
  BY FileTypes DEF ClientTypes, PacketTypes
<1>2. Num(c.block + 1) = p.num
  BY <1>1, Numbers DEF Done
<1>3. Short(p.chunk) <=> s.at = c.o.n
  BY <1>1 DEF Short
<1>4. PICK n \in Nat : n = c.seq + 1
  BY <1>1
<1>5. PICK w \in Seq(Nat) : w = Append(c.written, p.chunk)
  <2>1. Append(c.written, p.chunk) \in Seq(Nat)
    BY <1>1
  <2> QED
    BY <2>1
<1> DEFINE e == [c EXCEPT !.state = "RX", !.block = p.num, !.seq = n, !.retries = 0, !.written = w]
           m == ToServer(e, "ACK", 0)
           d == [e EXCEPT !.last = m]
           f == [d EXCEPT !.state = "FIN", !.result = "ok"]
<1>6. RxData(c, p) = IF Short(p.chunk) THEN [[c |-> d, send |-> {m}] EXCEPT !.c.state = "FIN", !.c.result = "ok"]
                     ELSE [c |-> d, send |-> {m}]
  <2>1. e = [c EXCEPT !.state = "RX", !.block = p.num, !.seq = @ + 1, !.retries = 0, !.written = Append(@, p.chunk)]
    BY <1>4, <1>5
  <2> HIDE DEF e
  <2> QED
    BY <2>1, <1>2 DEF RxData, Transmit
<1>7. [[c |-> d, send |-> {m}] EXCEPT !.c.state = "FIN", !.c.result = "ok"] = [c |-> f, send |-> {m}]
  BY EndOfReply
<1>8. e \in ClientTypes /\ e.o = c.o /\ e.pinned = c.pinned /\ e.seq = n /\ e.result = "none"
  BY <1>1 DEF ClientTypes
<1> HIDE DEF e
<1>9. m.type = "ACK" /\ m.seq = n /\ m.port = c.pinned
  BY <1>8 DEF ToServer, Packet
<1> HIDE DEF m
<1>10. d.o = c.o /\ d.pinned = c.pinned /\ d.seq = n /\ d.result = "none" /\ f.result = "ok"
  BY <1>8 DEF ClientTypes
<1> HIDE DEF d, f
<1>11. CASE Short(p.chunk)
  <2>1. RxData(c, p) = [c |-> f, send |-> {m}]
    BY <1>11, <1>6, <1>7
  <2>2. RxData(c, p).c = f
    BY <2>1
  <2> QED
    BY <2>2, <1>10 DEF GoesOn
<1>12. CASE ~Short(p.chunk)
  <2>1. RxData(c, p).c = d /\ RxData(c, p).send = {m}
    BY <1>12, <1>6
  <2>2. Moving(d, s, m)
    BY <1>1, <1>3, <1>4, <1>9, <1>10, <1>12 DEF Moving, Downloading
  <2> QED
    BY <2>1, <2>2, <1>10 DEF GoesOn
<1> QED
  BY <1>11, <1>12

\* What a running client reads, if nothing was lost, is what it waits for.
LEMMA ReceiveCalm ==
  ASSUME TftpConstants, IInv, CalmInv, Receive, ~anew'
  PROVE  CalmInv'
<1>1. PICK p \in wire :
        /\ p.to = "client" /\ ~Lived(p, tftp.seq) /\ ~BeginsAnew(p)
        /\ LET after == OnPacket([tftp EXCEPT !.pinned = IF @ = 0 THEN p.port ELSE @], p)
           IN  tftp' = after.c /\ Flight(wire \ {p}, after.send)
  BY DEF Receive
<1>2. PICK q : q = [tftp EXCEPT !.pinned = IF tftp.pinned = 0 THEN p.port ELSE tftp.pinned]
  OBVIOUS
<1>3. PICK after : after = OnPacket(q, p)
  OBVIOUS
<1>4. tftp' = after.c /\ Flight(wire \ {p}, after.send) /\ sessions' = sessions /\ tftp.result = "none"
  BY <1>1, <1>2, <1>3 DEF Receive, Running
<1>4a. tftp'.o = tftp.o
  BY <1>1, <1>2, <1>3, <1>4, Receives DEF Sound, Running
<1>5. SUFFICES ASSUME calm', ~EndsOnWrap(tftp.o) PROVE CalmInv'
  BY <1>4a DEF CalmInv
<1>6. calm /\ wire' = (wire \ {p}) \cup after.send
  BY <1>4, <1>5, Flown
<1>7. wire = {p} /\ OnItsWay(tftp, sessions, p)
  BY <1>4, <1>5, <1>6 DEF CalmInv, Calmly
<1>8. /\ tftp \in ClientTypes /\ tftp.o \in TftpFiles /\ tftp.o.upload \in BOOLEAN /\ tftp.o.n \in Nat /\ tftp.o.n > 0
      /\ tftp.seq \in Nat /\ tftp.pinned \in 0..2 /\ p \in PacketTypes /\ p.seq \in Nat
      /\ sessions \in [Ports -> SessionTypes] /\ Done(tftp) /\ HasRead(tftp) /\ Ports = {1, 2}
  BY <1>1, FileTypes DEF IInv, TypesInv, ClientTypes, PacketTypes, Ports
<1>9. FromServer(tftp.o, sessions[p.port].at, p) /\ (p.type # "ERROR" => sessions[p.port].phase # "free")
  BY <1>1 DEF IInv, WireInv, PacketRight, FromClient
<1>11. p.port \in {1, 2}
  BY <1>8, <1>9 DEF FromServer
<1>12. /\ q.pinned \in Ports /\ q.o = tftp.o /\ q.seq = tftp.seq /\ q \in ClientTypes
       /\ tftp.pinned # 0 => q.pinned = tftp.pinned
       /\ tftp.pinned = 0 => q.pinned = p.port
       /\ Sound(q, after, sessions[q.pinned])
  BY <1>1, <1>2, <1>3, <1>4, Receives DEF Running
<1>13. q.result = "none" /\ q.block = tftp.block /\ q.written = tftp.written /\ q.last = tftp.last /\ q.read = tftp.read
       /\ q.short = tftp.short
  BY <1>2, <1>4, <1>8 DEF ClientTypes
<1>14. PICK s \in SessionTypes : s = sessions[q.pinned] /\ SessionRight(tftp.o, tftp.pinned, q.pinned, s)
  BY <1>8, <1>12 DEF IInv, SessionsInv
<1>15. Done(q) /\ q.pinned # 0
  <2>1. FromClient(tftp, tftp.last) /\ tftp.last \in PacketTypes
    BY <1>8 DEF Done, ClientTypes
  <2>2. tftp.seq <= q.seq /\ (tftp.pinned # 0 => q.pinned = tftp.pinned) /\ q.o = tftp.o
    BY <1>8, <1>12
  <2>3. FromClient(q, tftp.last)
    BY <2>1, <2>2, <1>8, <1>12, FromClientLater
  <2> QED
    BY <2>3, <1>8, <1>12, <1>13 DEF Done
<1>16. /\ q.o.upload /\ q.seq = 0 => q.read = 0
       /\ q.o.upload /\ q.seq > 0 => HasRead(q)
  <2>1. SUFFICES ASSUME q.o.upload
                 PROVE  (q.seq = 0 => q.read = 0) /\ (q.seq > 0 => HasRead(q))
    OBVIOUS
  <2>2. CASE tftp.pinned = 0
    BY <2>1, <2>2, <1>4, <1>8, <1>12, <1>13 DEF Done, HasRead
  <2>3. CASE tftp.pinned # 0
    BY <2>1, <2>3, <1>4, <1>8, <1>12, <1>13 DEF HasRead
  <2> QED
    BY <2>2, <2>3
<1>17. s.at \in Nat /\ s.at <= q.o.n /\ q.o = tftp.o
  BY <1>12, <1>14 DEF SessionRight, SessionTypes
<1>18. /\ q.pinned = p.port /\ p.type \in {"DATA", "ACK", "OACK"} /\ s.phase # "free" /\ p.seq = s.at
       /\ q.o.upload => q.seq = s.at /\ (s.at < q.o.n => s.phase = "open") /\ p.type \in {"ACK", "OACK"}
       /\ ~q.o.upload => s.phase = "open" /\ p.type \in {"DATA", "OACK"}
       /\ ~q.o.upload /\ p.type = "DATA" => s.at = q.seq + 1
       /\ p.type = "OACK" => s.at = 0
  <2>1. CASE Answering(tftp, sessions, p)
    <3>1. p = sessions[1].last /\ sessions[1].phase = "open" /\ SessionRight(tftp.o, tftp.pinned, 1, sessions[1])
          /\ p.seq = sessions[1].at /\ sessions[1].at = FirstSeq(tftp.o) /\ tftp.pinned = 0
      BY <2>1, <1>8 DEF Answering, IInv, SessionsInv
    <3>2. p.port = 1 /\ p.type # "ERROR" /\ (tftp.o.oack => p.type = "OACK") /\ (p.type = "OACK" => p.seq = 0)
      BY <3>1 DEF SessionRight
    <3>3. s = sessions[1] /\ tftp.seq = 0
      BY <3>1, <3>2, <1>8, <1>12, <1>14 DEF Done
    <3>4. /\ p.type \in {"DATA", "ACK", "OACK"}
          /\ tftp.o.upload => p.type \in {"ACK", "OACK"}
          /\ ~tftp.o.upload => p.type \in {"DATA", "OACK"}
          /\ p.type = "OACK" => tftp.o.oack
      BY <3>2, <1>8, <1>9 DEF FromServer, TheOack, Packet
    <3> QED
      BY <3>1, <3>2, <3>3, <3>4, <1>8, <1>12 DEF FirstSeq
  <2>2. CASE Moving(tftp, sessions[tftp.pinned], p)
    <3>1. tftp.pinned # 0 /\ s = sessions[tftp.pinned]
      BY <2>2, <1>12, <1>14 DEF Moving, Uploading, Downloading
    <3>2. p.type \in {"DATA", "ACK"} /\ (tftp.o.upload => p.type = "ACK") /\ (~tftp.o.upload => p.type = "DATA")
          /\ tftp.o.upload \in BOOLEAN
      BY <2>2, <1>8, <1>9 DEF Moving, Uploading, Downloading, FromServer, TheOack, Packet
    <3>3. p.port = tftp.pinned
      BY <2>2 DEF Moving
    <3>4. q.pinned = p.port /\ s.phase # "free" /\ q.o = tftp.o /\ q.seq = tftp.seq
      BY <3>1, <3>2, <3>3, <1>9, <1>12
    <3>5. CASE tftp.o.upload
      BY <2>2, <3>1, <3>2, <3>4, <3>5 DEF Moving, Uploading, Downloading
    <3>6. CASE ~tftp.o.upload
      BY <2>2, <3>1, <3>2, <3>4, <3>6 DEF Moving, Uploading, Downloading
    <3> QED
      BY <3>2, <3>5, <3>6
  <2>3. CASE Asking(tftp, sessions, p)
    BY <2>3, <1>1 DEF Asking, TheRequest, Packet
  <2> QED
    BY <2>1, <2>2, <2>3, <1>7 DEF OnItsWay
<1>19. OnPacket(q, p) = CASE p.type = "DATA" -> RxData(q, p)
                          [] p.type = "ACK" -> TxAck(q, p.num)
                          [] p.type = "OACK" -> IF q.o.upload THEN TxOack(q) ELSE RxOack(q)
  BY <1>18 DEF OnPacket
<1>20. GoesOn(after, s)
  <2>1. CASE q.o.upload /\ p.type = "ACK"
    <3>1. p.num = Num(q.seq) \/ (Num(q.seq) = 0 /\ p.num = Modulus - 1)
      BY <2>1, <1>9, <1>12, <1>18 DEF FromServer, TheOack, Packet
    <3>2. p.num = q.block \/ (q.block = 0 /\ p.num = Modulus - 1)
      BY <3>1, <1>15 DEF Done
    <3>3. GoesOn(TxAck(q, p.num), s)
      BY <2>1, <3>2, <1>12, <1>13, <1>5, <1>15, <1>16, <1>17, <1>18, TxGoesOn
    <3> QED
      BY <2>1, <3>3, <1>3, <1>19
  <2>2. CASE q.o.upload /\ p.type = "OACK"
    <3>1. GoesOn(TxOack(q), s)
      BY <2>2, <1>12, <1>13, <1>5, <1>15, <1>16, <1>17, <1>18, TxGoesOn
    <3> QED
      BY <2>2, <3>1, <1>3, <1>19
  <2>3. CASE ~q.o.upload /\ p.type = "DATA"
    <3>1. p.num = Num(p.seq) /\ p.chunk = p.seq
      BY <2>3, <1>9, <1>12 DEF FromServer, TheOack, Packet
    <3>2. GoesOn(RxData(q, p), s)
      BY <2>3, <3>1, <1>8, <1>12, <1>13, <1>15, <1>17, <1>18, RxDataGoesOn
    <3> QED
      BY <2>3, <3>2, <1>3, <1>19
  <2>4. CASE ~q.o.upload /\ p.type = "OACK"
    <3>1. GoesOn(RxOack(q), s)
      BY <2>4, <1>12, <1>13, <1>15, <1>18, RxOackGoesOn
    <3> QED
      BY <2>4, <3>1, <1>3, <1>19
  <2> QED
    BY <2>1, <2>2, <2>3, <2>4, <1>18
<1>21. tftp'.pinned = q.pinned
  BY <1>4, <1>12 DEF Sound
<1>22. CASE after.c.result = "ok"
  BY <1>22, <1>4 DEF CalmInv
<1>23. CASE after.c.result # "ok"
  <2>1. PICK x : after.send = {x} /\ Moving(after.c, s, x) /\ after.c.result = "none"
    BY <1>20, <1>23 DEF GoesOn
  <2>2. wire' = {x}
    BY <2>1, <1>6, <1>7
  <2>3. OnItsWay(tftp', sessions', x)
    BY <2>1, <1>4, <1>14, <1>21 DEF OnItsWay
  <2>4. Calmly'
    BY <2>1, <2>2, <2>3, <1>4 DEF Calmly
  <2> QED
    BY <2>4 DEF CalmInv
<1> QED
  BY <1>22, <1>23

\* The request is taken and answered.
LEMMA ServerAcceptsCalm ==
  ASSUME TftpConstants, IInv, CalmInv, ServerAccepts
  PROVE  CalmInv'
<1>1. PICK port \in Ports :
        /\ Request(0) \in wire
        /\ \A q \in Ports : q < port => sessions[q].phase # "free"
        /\ LET o == tftp.o
               first == CASE o.oack -> Answer(port, "OACK", 0, 0)
                          [] o.upload /\ ~o.oack -> Answer(port, "ACK", 0, 0)
                          [] OTHER -> Answer(port, "DATA", 1, ChunkAfter(0))
           IN  Serve(port, "open", first.seq, <<>>, first) /\ Flight(wire \ {Request(0)}, {first})
  BY DEF ServerAccepts
<1>2. PICK first : first = CASE tftp.o.oack -> Answer(port, "OACK", 0, 0)
                             [] tftp.o.upload /\ ~tftp.o.oack -> Answer(port, "ACK", 0, 0)
                             [] OTHER -> Answer(port, "DATA", 1, ChunkAfter(0))
  OBVIOUS
<1>3. Serve(port, "open", first.seq, <<>>, first) /\ Flight(wire \ {Request(0)}, {first}) /\ tftp' = tftp
  BY <1>1, <1>2 DEF ServerAccepts
<1>4. SUFFICES ASSUME calm', ~EndsOnWrap(tftp.o), tftp.result # "ok" PROVE CalmInv'
  BY <1>3 DEF CalmInv
<1>5. calm /\ wire' = (wire \ {Request(0)}) \cup {first}
  BY <1>3, <1>4, Flown
<1>6. tftp.result = "none" /\ wire = {Request(0)} /\ OnItsWay(tftp, sessions, Request(0))
  BY <1>1, <1>4, <1>5 DEF CalmInv, Calmly
<1>7. /\ sessions \in [Ports -> SessionTypes] /\ Ports = {1, 2} /\ tftp.o.oack \in BOOLEAN /\ tftp.o.upload \in BOOLEAN
      /\ tftp.o.hpa \in BOOLEAN
  BY FileTypes DEF IInv, TypesInv, ClientTypes, Ports
<1>8. Asking(tftp, sessions, Request(0))
  <2>1. Request(0).type = "REQUEST" /\ Request(0).to = "server"
    BY DEF Request, Packet
  <2>2. ~Answering(tftp, sessions, Request(0))
    <3>1. sessions[1].phase = "open" => sessions[1].last.to = "client"
      BY <1>7 DEF IInv, SessionsInv, SessionRight, FromServer
    <3> QED
      BY <2>1, <3>1 DEF Answering
  <2> QED
    BY <2>1, <2>2, <1>6 DEF OnItsWay, Moving, Uploading, Downloading
<1>9. port = 1 /\ tftp.pinned = 0 /\ sessions[2].phase = "free"
  BY <1>1, <1>7, <1>8 DEF Asking
<1>10. first.seq = FirstSeq(tftp.o)
  BY <1>2, <1>7 DEF Answer, Packet, FirstSeq
<1>11. sessions' = [sessions EXCEPT ![1] = [phase |-> "open", at |-> first.seq, stored |-> <<>>, tries |-> 0, last |-> first]]
  BY <1>3, <1>9 DEF Serve
<1>12. wire' = {first}
  BY <1>5, <1>6
<1>13. Answering(tftp', sessions', first)
  BY <1>3, <1>7, <1>9, <1>10, <1>11 DEF Answering
<1> QED
  BY <1>3, <1>6, <1>12, <1>13 DEF CalmInv, Calmly, OnItsWay

\* A session takes what the client sends next, and answers.
LEMMA ServerReceivesCalm ==
  ASSUME TftpConstants, IInv, CalmInv, ServerReceives
  PROVE  CalmInv'
<1>1. PICK p \in wire :
        /\ p.to = "server" /\ p.port # 0
        /\ LET s == sessions[p.port]
               data == Answer(p.port, "DATA", s.at + 1, ChunkAfter(s.at))
               ack == Answer(p.port, "ACK", s.at + 1, 0)
               heard == s.phase # "done" /\ ~Lived(p, s.at)
               acked == heard /\ p.type = "ACK" /\ p.num = Num(s.at)
               next == heard /\ p.type = "DATA" /\ p.num = Num(s.at + 1) /\ s.phase = "open"
               again == heard /\ p.type = "DATA" /\ p.num = Num(s.at) /\ s.at > 0
               ended == heard /\ p.type = "ERROR"
           IN  /\ CASE acked /\ s.at < tftp.o.n -> Serve(p.port, "open", s.at + 1, <<>>, data)
                    [] (acked /\ s.at = tftp.o.n) \/ ended -> Serve(p.port, "done", s.at, s.stored, s.last)
                    [] next -> Serve(p.port, IF Short(p.chunk) THEN "all" ELSE "open", s.at + 1,
                                     Append(s.stored, p.chunk), ack)
                    [] OTHER -> UNCHANGED sessions
               /\ Flight(wire \ {p}, CASE acked /\ s.at < tftp.o.n -> {data}
                                       [] next -> {ack}
                                       [] again -> {s.last}
                                       [] OTHER -> {})
  BY DEF ServerReceives
<1>2. tftp' = tftp
  BY DEF ServerReceives
<1>3. SUFFICES ASSUME calm', ~EndsOnWrap(tftp.o), tftp.result # "ok" PROVE CalmInv'
  BY <1>2 DEF CalmInv
<1>4. PICK s : s = sessions[p.port]
  OBVIOUS
<1>5. PICK data, ack : data = Answer(p.port, "DATA", s.at + 1, ChunkAfter(s.at)) /\ ack = Answer(p.port, "ACK", s.at + 1, 0)
  OBVIOUS
<1>6. PICK heard \in BOOLEAN : heard <=> s.phase # "done" /\ ~Lived(p, s.at)
  OBVIOUS
<1>7. PICK send :
        send = CASE heard /\ p.type = "ACK" /\ p.num = Num(s.at) /\ s.at < tftp.o.n -> {data}
                 [] heard /\ p.type = "DATA" /\ p.num = Num(s.at + 1) /\ s.phase = "open" -> {ack}
                 [] heard /\ p.type = "DATA" /\ p.num = Num(s.at) /\ s.at > 0 -> {s.last}
                 [] OTHER -> {}
  OBVIOUS
<1>8. /\ CASE heard /\ p.type = "ACK" /\ p.num = Num(s.at) /\ s.at < tftp.o.n ->
                Serve(p.port, "open", s.at + 1, <<>>, data)
           [] (heard /\ p.type = "ACK" /\ p.num = Num(s.at) /\ s.at = tftp.o.n) \/ (heard /\ p.type = "ERROR") ->
                Serve(p.port, "done", s.at, s.stored, s.last)
           [] heard /\ p.type = "DATA" /\ p.num = Num(s.at + 1) /\ s.phase = "open" ->
                Serve(p.port, IF Short(p.chunk) THEN "all" ELSE "open", s.at + 1, Append(s.stored, p.chunk), ack)
           [] OTHER -> UNCHANGED sessions
      /\ Flight(wire \ {p}, send)
  BY <1>1, <1>4, <1>5, <1>6, <1>7
<1>9. calm /\ wire' = (wire \ {p}) \cup send
  BY <1>3, <1>8, Flown
<1>10. tftp.result = "none" /\ wire = {p} /\ OnItsWay(tftp, sessions, p)
  BY <1>3, <1>9 DEF CalmInv, Calmly
<1>11. /\ sessions \in [Ports -> SessionTypes] /\ Ports = {1, 2} /\ tftp.o.upload \in BOOLEAN /\ tftp.o.n \in Nat /\ tftp.seq \in Nat
       /\ tftp.o.n > 0 /\ tftp.pinned \in 0..2 /\ p.seq \in Nat
  BY <1>10, FileTypes DEF IInv, TypesInv, ClientTypes, Ports, PacketTypes
<1>12. Moving(tftp, sessions[tftp.pinned], p)
  <2>1. ~Asking(tftp, sessions, p)
    BY <1>1 DEF Asking, TheRequest, Packet
  <2>2. ~Answering(tftp, sessions, p)
    <3>1. sessions[1].phase = "open" => sessions[1].last.to = "client"
      BY <1>11 DEF IInv, SessionsInv, SessionRight, FromServer
    <3> QED
      BY <1>1, <3>1 DEF Answering
  <2> QED
    BY <2>1, <2>2, <1>10 DEF OnItsWay
<1>13. FromClient(tftp, p)
  BY <1>1 DEF IInv, WireInv, PacketRight, FromServer
<1>14. tftp.pinned # 0 /\ p.port = tftp.pinned /\ s = sessions[tftp.pinned] /\ s \in SessionTypes /\ s.at \in Nat
  BY <1>4, <1>11, <1>12 DEF Moving, SessionTypes
<1>15. /\ p.num = Num(p.seq) /\ p.type = IF tftp.o.upload THEN "DATA" ELSE "ACK"
       /\ tftp.o.upload => p.chunk = IF p.seq <= tftp.o.n THEN p.seq ELSE 0
  BY <1>12, <1>13 DEF FromClient, Moving, Uploading, Downloading, TheRequest, Packet
<1>16. CASE tftp.o.upload
  <2>1. p.type = "DATA" /\ p.seq = tftp.seq /\ tftp.seq = s.at + 1 /\ tftp.seq <= tftp.o.n /\ s.phase = "open"
    BY <1>11, <1>12, <1>14, <1>15, <1>16 DEF Moving, Uploading, Downloading
  <2>2. heard /\ p.num = Num(s.at + 1) /\ p.chunk = s.at + 1
    BY <2>1, <1>6, <1>11, <1>14, <1>15, <1>16 DEF Lived, TftpConstants
  <2>3. Short(p.chunk) => s.at + 1 = tftp.o.n
    BY <2>2, <1>14 DEF Short
  <2>3a. Num(s.at + 1) # Num(s.at)
    <3>1. /\ s.at + 1 \in Nat /\ s.at + 1 # s.at /\ s.at < s.at + 1 + Modulus /\ s.at + 1 < s.at + Modulus
      BY <1>14 DEF TftpConstants
    <3> QED
      BY <3>1, <1>14, Numbers
  <2>4. send = {ack}
    BY <2>1, <2>2, <2>3a, <1>7
  <2>5. PICK ph : ph = IF Short(p.chunk) THEN "all" ELSE "open"
    OBVIOUS
  <2>6. sessions' = [sessions EXCEPT ![tftp.pinned] = [phase |-> ph, at |-> s.at + 1, stored |-> Append(s.stored, p.chunk),
                                                       tries |-> 0, last |-> ack]]
    BY <2>1, <2>2, <2>5, <1>8, <1>14 DEF Serve
  <2>7. sessions'[tftp.pinned].phase = ph /\ sessions'[tftp.pinned].at = s.at + 1
    BY <2>6, <1>11, <1>14
  <2>8. ack.type = "ACK" /\ ack.seq = s.at + 1 /\ ack.port = tftp.pinned
    BY <1>5, <1>14 DEF Answer, Packet
  <2>9. Moving(tftp, sessions'[tftp.pinned], ack)
    BY <2>1, <2>3, <2>5, <2>7, <2>8, <1>11, <1>14, <1>16 DEF Moving, Uploading
  <2> QED
    BY <2>4, <2>9, <1>2, <1>9, <1>10 DEF CalmInv, Calmly, OnItsWay
<1>17. CASE ~tftp.o.upload
  <2>1. p.type = "ACK" /\ p.seq = tftp.seq /\ tftp.seq = s.at /\ tftp.seq < tftp.o.n /\ s.phase = "open"
    BY <1>11, <1>12, <1>14, <1>15, <1>17 DEF Moving, Uploading, Downloading
  <2>2. heard /\ p.num = Num(s.at)
    BY <2>1, <1>6, <1>11, <1>14, <1>15 DEF Lived, TftpConstants
  <2>3. send = {data}
    BY <2>1, <2>2, <1>7
  <2>4. sessions' = [sessions EXCEPT ![tftp.pinned] = [phase |-> "open", at |-> s.at + 1, stored |-> <<>>, tries |-> 0, last |-> data]]
    BY <2>1, <2>2, <1>8, <1>14 DEF Serve
  <2>5. sessions'[tftp.pinned].phase = "open" /\ sessions'[tftp.pinned].at = s.at + 1
    BY <2>4, <1>11, <1>14
  <2>6. data.type = "DATA" /\ data.seq = s.at + 1 /\ data.port = tftp.pinned
    BY <1>5, <1>14 DEF Answer, Packet
  <2>7. Moving(tftp, sessions'[tftp.pinned], data)
    BY <2>1, <2>5, <2>6, <1>11, <1>14, <1>17 DEF Moving, Downloading
  <2> QED
    BY <2>3, <2>7, <1>2, <1>9, <1>10 DEF CalmInv, Calmly, OnItsWay
<1> QED
  BY <1>11, <1>16, <1>17

\* A session that leaves has all blocks.
LEMMA ServerLeavesCalm ==
  ASSUME TftpConstants, IInv, CalmInv, ServerLeaves
  PROVE  CalmInv'
<1>1. PICK port \in Ports : sessions[port].phase = "all" /\ sessions' = [sessions EXCEPT ![port].phase = "done"]
  BY DEF ServerLeaves
<1>2. UNCHANGED <<tftp, wire, calm>>
  BY DEF ServerLeaves
<1>3. SUFFICES ASSUME calm, ~EndsOnWrap(tftp.o), tftp.result # "ok" PROVE CalmInv'
  BY <1>2 DEF CalmInv
<1>4. PICK p \in wire : wire = {p} /\ OnItsWay(tftp, sessions, p) /\ tftp.result = "none"
  BY <1>3 DEF CalmInv, Calmly
<1>5. sessions \in [Ports -> SessionTypes] /\ Ports = {1, 2} /\ tftp.pinned \in 0..2
  BY DEF IInv, TypesInv, ClientTypes, Ports
<1>6. ~Asking(tftp, sessions, p) /\ ~Answering(tftp, sessions, p)
  BY <1>1, <1>5 DEF Asking, Answering
<1>7. Moving(tftp, sessions[tftp.pinned], p) /\ tftp.pinned \in Ports
  BY <1>4, <1>5, <1>6 DEF OnItsWay, Moving
<1>8. PICK s \in SessionTypes : s = sessions[tftp.pinned]
  BY <1>5, <1>7
<1>9. Moving(tftp, sessions'[tftp.pinned], p)
  <2>1. CASE port # tftp.pinned
    BY <2>1, <1>1, <1>5, <1>7
  <2>2. CASE port = tftp.pinned
    <3>1. s.phase = "all" /\ sessions'[tftp.pinned] = [s EXCEPT !.phase = "done"]
      BY <2>2, <1>1, <1>5, <1>8
    <3>2. PICK t : t = sessions'[tftp.pinned]
      OBVIOUS
    <3>3. t.at = s.at
      BY <3>1, <3>2 DEF SessionTypes
    <3>4. tftp.o.upload /\ Moving(tftp, s, p) /\ ~(s.at < tftp.o.n)
      BY <3>1, <1>7, <1>8 DEF Moving, Uploading, Downloading
    <3>5. Moving(tftp, t, p)
      BY <3>3, <3>4 DEF Moving, Uploading, Downloading
    <3> QED
      BY <3>2, <3>5
  <2> QED
    BY <2>1, <2>2
<1> QED
  BY <1>2, <1>4, <1>9 DEF CalmInv, Calmly, OnItsWay

\* Any other step ends the calm, or comes after the end.
LEMMA CalmStep ==
  ASSUME TftpConstants, IInv, CalmInv, [Next]_tftpVars, ~anew'
  PROVE  CalmInv'
<1>1. CASE UNCHANGED tftpVars
  BY <1>1 DEF tftpVars, CalmInv, Calmly
<1>2. CASE Timeout
  <2>1. tftp.result = "none" /\ (calm' => calm /\ wire = {})
    BY <1>2 DEF Timeout, Running
  <2>2. tftp'.o = tftp.o
    BY <1>2 DEF Timeout, Repeat, Finish, IInv, TypesInv, ClientTypes
  <2> QED
    BY <2>1, <2>2 DEF CalmInv, Calmly
<1>3. CASE GiveUp \/ Lose \/ ServerRefuses
  BY <1>3 DEF GiveUp, Lose, ServerRefuses, CalmInv
<1>4. CASE ServerRepeats
  <2>1. tftp' = tftp /\ (calm' => calm /\ wire = {})
    BY <1>4 DEF ServerRepeats
  <2> QED
    BY <2>1 DEF CalmInv, Calmly
<1> QED
  BY <1>1, <1>2, <1>3, <1>4, ReceiveCalm, ServerAcceptsCalm, ServerReceivesCalm, ServerLeavesCalm DEF Next

\* The request is on its way.
LEMMA CalmInit ==
  ASSUME Init
  PROVE  CalmInv
<1>1. tftp.result = "none" /\ tftp.pinned = 0 /\ wire = {TheRequest} /\ \A port \in Ports : sessions[port].phase = "free"
  BY DEF Init, Request, TheRequest
<1> QED
  BY <1>1 DEF CalmInv, Calmly, OnItsWay, Asking

\* The same, and: a transfer fails only if a packet was lost, late or refused, or somebody gave
\* up -- unless an upload ends where the block after its last has the number 0 or 1 (tftp_tx).
THEOREM TransferIsRight ==
  ASSUME TftpConstants
  PROVE  Spec => []TftpRight
<1> DEFINE Inv == anew \/ (IInv /\ CalmInv)
<1>1. Init => Inv
  BY InitInv, CalmInit
<1>2. Inv /\ [Next]_tftpVars => Inv'
  BY StepInv, CalmStep, AnewStays
<1>3. Inv => TftpRight
  <2>1. anew \/ CalmInv => CalmSucceeds
    BY DEF CalmInv, Calmly, CalmSucceeds
  <2> QED
    BY <2>1, IntactBecauseInv DEF TftpRight
<1> QED
  BY <1>1, <1>2, <1>3, PTL DEF Spec

===============================================================================
