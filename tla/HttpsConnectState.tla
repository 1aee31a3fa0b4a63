------------------------- MODULE HttpsConnectState --------------------------
(***************************************************************************)
(* The race between HTTP versions (lib/cf-https-connect.c): its state, and *)
(* what is promised of it.  HttpsConnect has the steps.                    *)
(***************************************************************************)
EXTENDS Naturals

CONSTANTS
  BallerCounts,  \* alpn_count: a subset of {1, 2}
  SoftTimeout,   \* happy_eyeballs_timeout / 4, in ticks
  HardTimeout,   \* happy_eyeballs_timeout
  NoTimer        \* EXPIRE_ALPN_EYEBALLS is not set

\* what is assumed of the constants
HttpsConstants ==
  /\ SoftTimeout \in Nat \ {0} /\ HardTimeout \in Nat /\ SoftTimeout < HardTimeout
  /\ BallerCounts \subseteq {1, 2} /\ NoTimer \notin Nat

VARIABLES
  hcState,   \* ctx->state: "init", "connect", "success" or "failure"
  hcStep,    \* what cf_hc_connect does next; "return" between calls
  ballers,   \* ballers[i]: struct cf_hc_baller, with what the network made of it
  chain,     \* cf->next: the baller whose filters are installed, or 0
  elapsed,   \* ticks since ctx->started, counted up to HardTimeout
  hcTimer    \* ticks to EXPIRE_ALPN_EYEBALLS

httpsVars == <<hcState, hcStep, ballers, chain, elapsed, hcTimer>>

\* Filters that are installed belong to a baller that connected, and then no
\* other baller has filters left.
OneChain ==
  /\ chain # 0 => ballers[chain].net = "up"
  /\ chain # 0 => \A i \in DOMAIN ballers : ~ballers[i].cf
  /\ hcState = "success" => chain # 0

\* The filter fails without a chain only when every baller was tried and failed.
FailsLast ==
  hcState = "failure" /\ chain = 0 => \A i \in DOMAIN ballers : ballers[i].failed

\* a baller that has not been tried
Untried(i) == hcState = "connect" /\ i \in DOMAIN ballers /\ ~ballers[i].cf /\ ~ballers[i].failed

\* As long as the second baller has not been tried, the first has not failed
\* and the timer is set that will start it at the latest.
SecondIsComing ==
  Untried(2) /\ hcStep = "return" => ~ballers[1].failed /\ hcTimer # NoTimer

\* One chain is installed, failure is the failure of all, and the second is coming.
BallersRight == OneChain /\ FailsLast /\ SecondIsComing
=============================================================================
