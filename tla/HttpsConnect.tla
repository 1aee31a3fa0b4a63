---------------------------- MODULE HttpsConnect ----------------------------
(***************************************************************************)
(* The filter that races two HTTP versions for one https connection        *)
(* (lib/cf-https-connect.c), HTTP/3 against HTTP/2 say.  Each baller is a  *)
(* chain of filters of its own.  The second starts when the first has      *)
(* failed, is silent after the soft timeout, or after the hard timeout.    *)
(*                                                                         *)
(* cf_hc_connect is three steps: it begins, asks the first baller, then    *)
(* the second; the network may answer in between.                          *)
(***************************************************************************)
EXTENDS HttpsConnectState

\* after cf_hc_baller_reset: no filters and no result
Fresh == [cf |-> FALSE, failed |-> FALSE, reply |-> FALSE, net |-> "none"]

Init ==
  /\ hcState = "init" /\ hcStep = "return"
  /\ \E count \in BallerCounts : ballers = [i \in 1..count |-> Fresh]
  /\ chain = 0 /\ elapsed = 0 /\ hcTimer = NoTimer

HasSecond == 2 \in DOMAIN ballers
Active(i) == ballers[i].cf /\ ~ballers[i].failed

\* cf_hc_baller_init: inserting the chain may fail
Started(i) ==
  {[ballers[i] EXCEPT !.failed = TRUE]} \cup
  {b \in {[ballers[i] EXCEPT !.cf = TRUE, !.net = "pending"]} : ~b.failed}

\* the call begins, the first one with starting the first baller
Begin ==
  /\ hcStep = "return" /\ hcState \in {"init", "connect"}
  /\ IF hcState = "init"
     THEN /\ \E b \in Started(1) : ballers' = [ballers EXCEPT ![1] = b]
          /\ elapsed' = 0
          /\ hcTimer' = IF HasSecond THEN SoftTimeout ELSE hcTimer
     ELSE UNCHANGED <<ballers, elapsed, hcTimer>>
  /\ hcState' = "connect"
  /\ hcStep' = "first"
  /\ UNCHANGED chain

\* Bug variant: the other baller keeps its filters.
WinsBeside(i) ==
  /\ Active(i) /\ ballers[i].net = "up"
  /\ ballers' = [ballers EXCEPT ![i].cf = FALSE]
  /\ chain' = i
  /\ hcState' \in {"success", "failure"}
  /\ hcStep' = "return"

\* baller_connected: the others are reset and the winner's filters installed;
\* switching them to HTTP/2 may fail
Wins(i) ==
  /\ Active(i) /\ ballers[i].net = "up"
  /\ ballers' = [j \in DOMAIN ballers |-> IF j = i THEN [ballers[i] EXCEPT !.cf = FALSE] ELSE Fresh]
  /\ chain' = i
  /\ hcState' \in {"success", "failure"}
  /\ hcStep' = "return"

\* cf_hc_baller_connect when it does not connect
Asked(i) ==
  IF Active(i) /\ ballers[i].net = "down" THEN [ballers EXCEPT ![i].failed = TRUE] ELSE ballers
NotUp(i) == ~(Active(i) /\ ballers[i].net = "up")

AskFirst ==
  /\ hcStep = "first"
  /\ \/ Wins(1)
     \/ /\ NotUp(1)
        /\ ballers' = Asked(1)
        /\ hcStep' = "second"
        /\ UNCHANGED <<hcState, chain>>
  /\ UNCHANGED <<elapsed, hcTimer>>

\* time_to_start_next: a baller whose filters could not be inserted counts as not
\* started, and is tried again in vain
SecondIsDue ==
  /\ HasSecond /\ ~ballers[2].cf
  /\ \/ ballers[1].failed
     \/ elapsed = HardTimeout
     \/ elapsed >= SoftTimeout /\ ~ballers[1].reply

StartSecond ==
  /\ hcStep = "second" /\ SecondIsDue
  /\ \E b \in Started(2) : ballers' = [ballers EXCEPT ![2] = b]
  /\ hcStep' = "askSecond"
  /\ UNCHANGED <<hcState, chain, elapsed, hcTimer>>

\* the first has seen data in time: it has until the hard timeout
NoSecondYet ==
  /\ hcStep = "second" /\ ~SecondIsDue
  /\ hcTimer' = IF HasSecond /\ ~ballers[2].cf /\ elapsed >= SoftTimeout
                THEN HardTimeout - elapsed ELSE hcTimer
  /\ hcStep' = "askSecond"
  /\ UNCHANGED <<hcState, ballers, chain, elapsed>>

AskSecond ==
  /\ hcStep = "askSecond"
  /\ \/ HasSecond /\ Wins(2)
     \/ /\ HasSecond => NotUp(2)
        /\ ballers' = IF HasSecond THEN Asked(2) ELSE ballers
        /\ hcState' = IF \A i \in DOMAIN ballers : ballers'[i].failed THEN "failure" ELSE hcState
        /\ hcStep' = "return"
        /\ UNCHANGED chain
  /\ UNCHANGED <<elapsed, hcTimer>>

\* cf_hc_close and cf_hc_reset
Close ==
  /\ hcStep = "return"
  /\ hcState' = "init"
  /\ ballers' = [i \in DOMAIN ballers |-> Fresh]
  /\ chain' = 0
  /\ UNCHANGED <<hcStep, elapsed, hcTimer>>

-----------------------------------------------------------------------------
(* The network and the clock. *)

\* the chain of a baller connects or fails; before, it may see a first reply
Answer(i) ==
  /\ ballers[i].cf /\ ballers[i].net = "pending"
  /\ \/ \E n \in {"up", "down"} : ballers' = [ballers EXCEPT ![i].net = n]
     \/ ~ballers[i].reply /\ ballers' = [ballers EXCEPT ![i].reply = TRUE]
  /\ UNCHANGED <<hcState, hcStep, chain, elapsed, hcTimer>>

Tick ==
  /\ hcState = "connect" /\ (elapsed < HardTimeout \/ hcTimer \notin {0, NoTimer})
  /\ elapsed' = IF elapsed < HardTimeout THEN elapsed + 1 ELSE elapsed
  /\ hcTimer' = IF hcTimer \in {0, NoTimer} THEN hcTimer ELSE hcTimer - 1
  /\ UNCHANGED <<hcState, hcStep, ballers, chain>>

\* the multi handle takes the expired timer off and runs the transfer
Expire ==
  /\ hcTimer = 0 /\ hcState = "connect" /\ hcStep = "return"
  /\ hcTimer' = NoTimer
  /\ hcStep' = "first"
  /\ UNCHANGED <<hcState, ballers, chain, elapsed>>

InCall == AskFirst \/ StartSecond \/ NoSecondYet \/ AskSecond

Next ==
  \/ Begin \/ Expire \/ InCall \/ Close \/ Tick
  \/ \E i \in DOMAIN ballers : Answer(i)

\* a socket of a chain is ready
SocketEvent == \E i \in DOMAIN ballers : Active(i) /\ ballers[i].net \in {"up", "down"}

Fairness ==
  /\ WF_httpsVars(hcState = "connect" /\ SocketEvent /\ Begin) /\ WF_httpsVars(Expire)
  /\ WF_httpsVars(InCall) /\ WF_httpsVars(Tick)

Spec == Init /\ [][Next]_httpsVars /\ Fairness

-----------------------------------------------------------------------------
TypeOK ==
  /\ hcState \in {"init", "connect", "success", "failure"}
  /\ hcStep \in {"return", "first", "second", "askSecond"}
  /\ \A i \in DOMAIN ballers :
       ballers[i] \in [cf : BOOLEAN, failed : BOOLEAN, reply : BOOLEAN,
                       net : {"none", "pending", "up", "down"}]
  /\ chain \in 0..2 /\ elapsed \in 0..HardTimeout /\ hcTimer \in 0..HardTimeout \cup {NoTimer}

=============================================================================
