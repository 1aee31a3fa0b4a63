------------------------------- MODULE TftpState -------------------------------
(***************************************************************************)
(* The state of a TFTP transfer (lib/tftp.c) and what is promised of it.   *)
(* A file is its blocks 1 to n, of which the last one is short.            *)
(***************************************************************************)
EXTENDS Naturals, Sequences

CONSTANTS
  TftpFiles,      \* the transfers: records [upload, n, oack, hpa]
  Modulus,        \* block numbers are modulo this
  RetryMax,       \* retry_max: timeouts in a row before giving up
  ServerTries,    \* bound: how often the server sends one packet again
  NetSize         \* bound: packets in flight to one side

\* what is assumed of the constants
TftpConstants ==
  /\ Modulus \in Nat /\ Modulus > 2 /\ RetryMax \in Nat /\ ServerTries \in Nat /\ NetSize \in Nat
  /\ TftpFiles \subseteq [upload : BOOLEAN, n : Nat \ {0}, oack : BOOLEAN, hpa : BOOLEAN]

VARIABLES
  tftp,       \* struct tftp_conn, with the data handed over and the result
  sessions,   \* the server's side of each request it received, by port
  wire,       \* the packets in flight
  calm,       \* no packet was lost, no timer fired early and nobody gave up
  anew        \* an OACK came again after the first block, and the block numbers began anew

tftpVars == <<tftp, sessions, wire, calm, anew>>

Ports == 1..2

-----------------------------------------------------------------------------
FirstBlocks(blocks) == \A i \in 1..Len(blocks) : blocks[i] = i

\* What is received are the blocks of the file, each once and in order; success means all of
\* them were received, by the server if it is an upload.  The exception is an OACK that is
\* read after the first block: tftp_rx and tftp_tx take it for the first one.
DataIntact == ~anew =>
  /\ FirstBlocks(tftp.written)
  /\ \A port \in Ports : FirstBlocks(sessions[port].stored)
  /\ tftp.result = "ok" => LET got == IF tftp.o.upload THEN sessions[tftp.pinned].stored ELSE tftp.written
                           IN  Len(got) = tftp.o.n

\* the number after that of the last block is one at which tftp_tx does not see the end
EndsOnWrap(o) == o.upload /\ (o.n + 1) % Modulus \in {0, 1}

\* A transfer fails only if a packet was lost or late, or somebody gave up; or if it is an
\* upload that ends where the block numbers wrap.
CalmSucceeds == calm /\ ~anew /\ ~EndsOnWrap(tftp.o) => tftp.result # "error"

TftpRight == DataIntact /\ CalmSucceeds

=============================================================================
