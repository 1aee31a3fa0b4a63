---------------------------------- MODULE Tftp ---------------------------------
(***************************************************************************)
(* A TFTP transfer (lib/tftp.c) with a server over a network that loses    *)
(* and reorders packets; retransmissions make duplicates.                  *)
(*                                                                         *)
(* Block numbers in packets are taken modulo Modulus (65536 in the code),  *)
(* and a packet does not live as long as that many blocks take.            *)
(***************************************************************************)
EXTENDS TftpState, FiniteSets

Num(k) == k % Modulus

\* the block after the last one is empty; it and the last one are short
Short(chunk) == chunk = 0 \/ chunk = tftp.o.n
ChunkAfter(k) == IF k < tftp.o.n THEN k + 1 ELSE 0

\* `seq' tells how old a packet is, which neither side sees
Packet(to, port, type, seq, num, chunk) ==
  [to |-> to, port |-> port, type |-> type, seq |-> seq, num |-> num, chunk |-> chunk]
Lived(p, seq) == p.seq + Modulus - 1 <= seq

\* After `rest', the packets ps are sent; one that does not fit is lost.
Flight(rest, ps) ==
  LET fits(p) == p \in rest \/ Cardinality({q \in rest : q.to = p.to}) < NetSize
  IN  /\ wire' = rest \cup {p \in ps : fits(p)}
      /\ calm' = (calm /\ \A p \in ps : fits(p))

-----------------------------------------------------------------------------
(* The client. *)

Running == tftp.result = "none"
ToServer(c, type, chunk) == Packet("server", c.pinned, type, c.seq, c.block, chunk)

\* a new spacket, sent
Transmit(c, p) == [c |-> [c EXCEPT !.last = p], send |-> {p}]
Repeat(c) == [c |-> c, send |-> {c.last}]
Finish(c, result) == [c |-> [c EXCEPT !.state = "FIN", !.result = result], send |-> {}]

\* the next data block of an upload, or its end
NextBlock(c) ==
  LET d == [c EXCEPT !.state = "TX", !.retries = 0]
      chunk == ChunkAfter(c.read)
  IN  IF c.block > 1 /\ c.short THEN Finish(d, "ok")
      ELSE Transmit([d EXCEPT !.read = IF chunk = 0 THEN @ ELSE chunk, !.short = Short(chunk)],
                    ToServer(d, "DATA", chunk))

\* Bug variant: the block number after a wrap is taken exactly.
TxAckExact(c, num) ==
  IF num # c.block
  THEN LET d == [c EXCEPT !.retries = @ + 1]
       IN  IF d.retries > RetryMax THEN Finish(d, "error") ELSE Repeat(d)
  ELSE NextBlock([c EXCEPT !.block = Num(@ + 1), !.seq = @ + 1])

\* tftp_tx.  When block 0 is due, the number before it is taken as well.
TxAck(c, num) ==
  IF num # c.block /\ ~(c.block = 0 /\ num = Modulus - 1)
  THEN LET d == [c EXCEPT !.retries = @ + 1]
       IN  IF d.retries > RetryMax THEN Finish(d, "error") ELSE Repeat(d)
  ELSE NextBlock([c EXCEPT !.block = Num(@ + 1), !.seq = @ + 1])
TxOack(c) == NextBlock([c EXCEPT !.block = 1, !.seq = 1])

\* Bug variant: a block that was received before is written again.
RxDataTwice(c, p) ==
  LET next == Num(c.block + 1) = p.num
      d == [c EXCEPT !.state = "RX", !.block = p.num, !.seq = IF next THEN @ + 1 ELSE @, !.retries = 0,
                     !.written = Append(@, p.chunk)]
      sent == Transmit(d, ToServer(d, "ACK", 0))
  IN  IF ~next /\ c.block # p.num THEN [c |-> [c EXCEPT !.state = "RX"], send |-> {}]
      ELSE IF Short(p.chunk) THEN [sent EXCEPT !.c.state = "FIN", !.c.result = "ok"] ELSE sent

\* tftp_receive_packet and tftp_rx
RxData(c, p) ==
  LET next == Num(c.block + 1) = p.num
      d == IF next THEN [c EXCEPT !.state = "RX", !.block = p.num, !.seq = @ + 1, !.retries = 0,
                                  !.written = Append(@, p.chunk)]
           ELSE [c EXCEPT !.state = "RX"]
      sent == Transmit(d, ToServer(d, "ACK", 0))
  IN  IF ~next /\ c.block # p.num THEN [c |-> d, send |-> {}]
      ELSE IF Short(p.chunk) THEN [sent EXCEPT !.c.state = "FIN", !.c.result = "ok"] ELSE sent
RxOack(c) ==
  LET d == [c EXCEPT !.state = "RX", !.block = 0, !.seq = 0, !.retries = 0]
  IN  Transmit(d, ToServer(d, "ACK", 0))

\* tftp_state_machine for a packet; a server is pinned by its first packet
OnPacket(c, p) ==
  IF c.pinned # p.port \/ p.type = "ERROR" THEN Finish(c, "error")
  ELSE CASE p.type = "DATA" -> RxData(c, p)
         [] p.type = "ACK" -> TxAck(c, p.num)
         [] p.type = "OACK" -> IF c.o.upload THEN TxOack(c) ELSE RxOack(c)

Request(c) == Packet("server", 0, "REQUEST", 0, 0, 0)

\* an OACK sets the block number to 0 or 1, whatever was received or sent before
BeginsAnew(p) == p.type = "OACK" /\ p.port = tftp.pinned /\ tftp.seq > 0

Init ==
  /\ \E o \in TftpFiles :
       tftp = [o |-> o, state |-> "START", block |-> 0, seq |-> 0, retries |-> 1, short |-> TRUE, read |-> 0,
               written |-> <<>>, pinned |-> 0, last |-> Request(0), result |-> "none"]
  /\ sessions = [port \in Ports |-> [phase |-> "free", at |-> 0, stored |-> <<>>, tries |-> 0, last |-> Request(0)]]
  /\ wire = {Request(0)} /\ calm = TRUE /\ anew = FALSE

Receive ==
  /\ Running
  /\ \E p \in wire :
       /\ p.to = "client" /\ ~Lived(p, tftp.seq)
       /\ LET after == OnPacket([tftp EXCEPT !.pinned = IF @ = 0 THEN p.port ELSE @], p)
          IN  tftp' = after.c /\ Flight(wire \ {p}, after.send)
       /\ anew' = (anew \/ BeginsAnew(p))
  /\ UNCHANGED sessions

\* Bug variant: timeouts are not counted.
TimeoutUncounted ==
  /\ Running
  /\ tftp' = Repeat(tftp).c
  /\ wire' = wire \cup {p \in Repeat(tftp).send : Cardinality({q \in wire : q.to = "server"}) < NetSize}
  /\ calm' = (calm /\ wire = {})
  /\ UNCHANGED <<sessions, anew>>

\* the retry time is over in any state: the last packet is sent again
Timeout ==
  /\ Running
  /\ LET d == [tftp EXCEPT !.retries = @ + 1]
         after == IF d.retries > RetryMax THEN Finish(d, "error") ELSE Repeat(d)
     IN  /\ tftp' = after.c
         /\ wire' = wire \cup {p \in after.send : Cardinality({q \in wire : q.to = "server"}) < NetSize}
  /\ calm' = (calm /\ wire = {})
  /\ UNCHANGED <<sessions, anew>>

\* the application cannot take the data or ends the transfer, or its time is up
GiveUp ==
  /\ Running
  /\ tftp' = Finish(tftp, "error").c
  /\ calm' = FALSE
  /\ \E told \in BOOLEAN : wire' = IF told THEN wire \cup {ToServer(tftp, "ERROR", 0)} ELSE wire
  /\ UNCHANGED <<sessions, anew>>

-----------------------------------------------------------------------------
(* The network and the server. *)

Lose ==
  /\ \E p \in wire : wire' = wire \ {p}
  /\ calm' = FALSE
  /\ UNCHANGED <<tftp, sessions, anew>>

Answer(port, type, seq, chunk) ==
  Packet("client", port, type, seq,
         IF tftp.o.hpa /\ type = "ACK" /\ seq > 0 /\ Num(seq) = 0 THEN Modulus - 1 ELSE Num(seq), chunk)
Serve(port, phase, at, stored, p) ==
  sessions' = [sessions EXCEPT ![port] = [phase |-> phase, at |-> at, stored |-> stored, tries |-> 0, last |-> p]]

\* every request that arrives opens a port of its own, or is refused
ServerAccepts ==
  /\ \E port \in Ports :
       /\ Request(0) \in wire /\ sessions[port].phase = "free"
       /\ \A q \in Ports : q < port => sessions[q].phase # "free"
       /\ LET o == tftp.o
              first == CASE o.oack -> Answer(port, "OACK", 0, 0)
                         [] o.upload /\ ~o.oack -> Answer(port, "ACK", 0, 0)
                         [] OTHER -> Answer(port, "DATA", 1, ChunkAfter(0))
          IN  Serve(port, "open", first.seq, <<>>, first) /\ Flight(wire \ {Request(0)}, {first})
  /\ UNCHANGED <<tftp, anew>>

ServerRefuses ==
  /\ Request(0) \in wire
  /\ wire' = (wire \ {Request(0)}) \cup {Answer(1, "ERROR", 0, 0)}
  /\ calm' = FALSE
  /\ UNCHANGED <<tftp, sessions, anew>>

\* what an open session does with an acknowledgement or data; it acknowledges its
\* last block again
ServerReceives ==
  /\ \E p \in wire :
       /\ p.to = "server" /\ p.port # 0
       /\ LET s == sessions[p.port]
              data == Answer(p.port, "DATA", s.at + 1, ChunkAfter(s.at))
              ack == Answer(p.port, "ACK", s.at + 1, 0)
              heard == s.phase # "done" /\ ~Lived(p, s.at)
              acked == heard /\ p.type = "ACK" /\ p.num = Num(s.at)
              next == heard /\ p.type = "DATA" /\ p.num = Num(s.at + 1) /\ s.phase = "open"
              again == heard /\ p.type = "DATA" /\ p.num = Num(s.at) /\ s.at > 0
              ended == heard /\ p.type = "ERROR"
          IN  /\ CASE acked /\ s.at < tftp.o.n -> Serve(p.port, "open", s.at + 1, <<>>, data)
                   [] (acked /\ s.at = tftp.o.n) \/ ended -> Serve(p.port, "done", s.at, s.stored, s.last)
                   [] next -> Serve(p.port, IF Short(p.chunk) THEN "all" ELSE "open", s.at + 1,
                                    Append(s.stored, p.chunk), ack)
                   [] OTHER -> UNCHANGED sessions
              /\ Flight(wire \ {p}, CASE acked /\ s.at < tftp.o.n -> {data}
                                      [] next -> {ack}
                                      [] again -> {s.last}
                                      [] OTHER -> {})
  /\ UNCHANGED <<tftp, anew>>

\* the server's timer
ServerRepeats ==
  /\ \E port \in Ports :
       LET s == sessions[port]
       IN  /\ s.phase = "open" /\ s.tries < ServerTries
           /\ sessions' = [sessions EXCEPT ![port].tries = @ + 1]
           /\ wire' = wire \cup {p \in {s.last} : Cardinality({q \in wire : q.to = "client"}) < NetSize}
  /\ calm' = (calm /\ wire = {})
  /\ UNCHANGED <<tftp, anew>>

ServerLeaves ==
  /\ \E port \in Ports : sessions[port].phase = "all" /\ sessions' = [sessions EXCEPT ![port].phase = "done"]
  /\ UNCHANGED <<tftp, wire, calm, anew>>

Next ==
  \/ Receive \/ Timeout \/ GiveUp
  \/ Lose \/ ServerAccepts \/ ServerRefuses \/ ServerReceives \/ ServerRepeats \/ ServerLeaves

\* libcurl's timer is looked at again and again; nothing is asked of the network
Fairness == WF_tftpVars(Timeout)

Spec == Init /\ [][Next]_tftpVars /\ Fairness

-----------------------------------------------------------------------------
TypeOK ==
  /\ tftp.state \in {"START", "RX", "TX", "FIN"} /\ tftp.result \in {"none", "ok", "error"}
  /\ tftp.block \in 0..(Modulus - 1) /\ tftp.retries \in 0..(RetryMax + 1) /\ anew \in BOOLEAN
  /\ \A port \in Ports : sessions[port].phase \in {"free", "open", "all", "done"}
  /\ Cardinality(wire) <= 2 * NetSize + 2

=============================================================================
