---------------------------- MODULE CurlConnPool ----------------------------
(***************************************************************************)
(* libcurl's connection pool (lib/conncache.c) and its list of connections *)
(* in shutdown (lib/cshutdn.c), as operators on the value the two hold     *)
(* together: a function cn from connection slots to connections.  A slot   *)
(* is closed (no connection), live (in the pool) or shut (out of the pool, *)
(* being shut down gracefully).                                            *)
(*                                                                         *)
(* Which transfers use a connection is the multi's state: the operators    *)
(* that need it take the set of connections in use.  "The oldest" of       *)
(* several candidates is any of them, since no property here tells the age *)
(* of two connections apart; an operator whose outcome is not determined   *)
(* is the set of its outcomes.                                             *)
(***************************************************************************)
EXTENDS Naturals, FiniteSets

CONSTANTS Conns,       \* slots for connections
          Hosts,       \* destinations (host name and port)
          NoHost,      \* the destination of a closed slot
          HostLimit,   \* CURLMOPT_MAX_HOST_CONNECTIONS, 0 for none
          TotalLimit,  \* CURLMOPT_MAX_TOTAL_CONNECTIONS, 0 for none
          MaxConnects  \* CURLMOPT_MAXCONNECTS, 0 for the default

ASSUME PoolAssumption == /\ NoHost \notin Hosts
                         /\ HostLimit \in Nat
                         /\ TotalLimit \in Nat
                         /\ MaxConnects \in Nat

\* up: the connection filters are connected; mux: several transfers may share
\* it; reused: bits.reuse; close: bits.close, no transfer may join it.
Connection == [st : {"closed", "live", "shut"}, host : Hosts \cup {NoHost},
               up : BOOLEAN, mux : BOOLEAN, reused : BOOLEAN, close : BOOLEAN]

ClosedConn == [st |-> "closed", host |-> NoHost, up |-> FALSE, mux |-> FALSE,
               reused |-> FALSE, close |-> FALSE]

NewConn(h) == [st |-> "live", host |-> h, up |-> FALSE, mux |-> FALSE,
               reused |-> FALSE, close |-> FALSE]

Live(cn) == {c \in Conns : cn[c].st = "live"}
Shut(cn) == {c \in Conns : cn[c].st = "shut"}
LiveTo(cn, h) == {c \in Live(cn) : cn[c].host = h}
ShutTo(cn, h) == {c \in Shut(cn) : cn[c].host = h}

\* Some connection was closed on the way from one pool to the other: every
\* close goes through Curl_cshutdn_terminate, which calls connchanged.
Closed(cn, cn2) == \E c \in Conns : cn[c].st # "closed" /\ cn2[c].st = "closed"
-----------------------------------------------------------------------------
\* connclose: nobody may reuse the connection, multiplexed or not.
ConnClose(cn, c) == [cn EXCEPT ![c] = [cn[c] EXCEPT !.close = TRUE]]

\* streamclose: on a multiplexed connection it ends only the stream.
StreamClose(cn, c) == IF cn[c].mux THEN cn ELSE ConnClose(cn, c)

\* Curl_cshutdn_terminate
Terminate(cn, c) == [cn EXCEPT ![c] = ClosedConn]

\* Curl_cshutdn_add: when pool and list together have reached the total
\* limit, the oldest connection in shutdown is closed to make room.
AddToShutdown(cn, c) ==
  LET cn1 == [cn EXCEPT ![c] = [cn[c] EXCEPT !.st = "shut"]]
      full == /\ TotalLimit > 0
              /\ Cardinality(Live(cn1)) + Cardinality(Shut(cn)) >= TotalLimit
  IN  IF full /\ Shut(cn) # {} THEN {Terminate(cn1, o) : o \in Shut(cn)}
                               ELSE {cn1}

\* Curl_conn_terminate of a connection nobody uses: an aborted one is closed
\* at once; of another one shutdown is tried, and what cannot end at once
\* (only a connected one has filters to shut down) joins the list.
Disconnect(cn, c, aborted) ==
  {Terminate(cn, c)}
    \cup (IF aborted \/ ~cn[c].up THEN {} ELSE AddToShutdown(cn, c))

\* cpool_get_oldest_idle: never one that is marked to be closed.
\* cpool_bundle_get_oldest_idle: any that is not in use.
OldestIdle(cn, inUse) == {c \in Live(cn) \ inUse : ~cn[c].close}
OldestIdleTo(cn, inUse, h) == LiveTo(cn, h) \ inUse

\* Bug variant: one more than the pool may keep.
NowIdleOneMore(cn, inUse, keep) ==
  IF Cardinality(Live(cn)) > keep + 1 /\ OldestIdle(cn, inUse) # {}
    THEN UNION {Disconnect(cn, o, FALSE) : o \in OldestIdle(cn, inUse)}
    ELSE {cn}

\* Curl_cpool_conn_now_idle, for a pool that may keep this many connections:
\* when it holds more, the oldest idle one is disconnected.
NowIdle(cn, inUse, keep) ==
  IF Cardinality(Live(cn)) > keep /\ OldestIdle(cn, inUse) # {}
    THEN UNION {Disconnect(cn, o, FALSE) : o \in OldestIdle(cn, inUse)}
    ELSE {cn}

\* Curl_cpool_prune_dead, and the idle candidates found dead by
\* url_match_conn: any of the idle connections may be dead.
Pruned(cn, ended, ending) ==
  [c \in Conns |-> IF c \in ended THEN ClosedConn
                   ELSE IF c \in ending THEN [cn[c] EXCEPT !.st = "shut"]
                   ELSE cn[c]]
PruneDead(cn, inUse) ==
  UNION {{Pruned(cn, ended, ending) : ending \in SUBSET (Live(cn) \ inUse)} :
           ended \in SUBSET (Live(cn) \ inUse)}
-----------------------------------------------------------------------------
(* Curl_cpool_check_limits.  Its loops stop after one connection is closed: *)
(* connections are only ever created below a limit that does not change, so *)
(* closing one makes room.  An idle connection whose shutdown does not end  *)
(* at once joins the list and is what the loop closes next.                 *)

\* Bug variant: connections in shutdown are not counted.
HostFullLive(cn, h) == HostLimit > 0 /\ Cardinality(LiveTo(cn, h)) >= HostLimit
HostFull(cn, h) ==
  /\ HostLimit > 0
  /\ Cardinality(LiveTo(cn, h)) + Cardinality(ShutTo(cn, h)) >= HostLimit

TotalFull(cn) ==
  /\ TotalLimit > 0
  /\ Cardinality(Live(cn)) + Cardinality(Shut(cn)) >= TotalLimit

CloseOne(cn, shuts, idles) ==
  IF shuts # {} THEN {Terminate(cn, c) : c \in shuts}
  ELSE IF idles # {} THEN {Terminate(cn, c) : c \in idles}
  ELSE {cn}

HostRoom(cn, inUse, h) ==
  IF HostFull(cn, h)
    THEN CloseOne(cn, ShutTo(cn, h), OldestIdleTo(cn, inUse, h)) ELSE {cn}

TotalRoom(cn, inUse, h) ==
  IF ~HostFull(cn, h) /\ TotalFull(cn)
    THEN CloseOne(cn, Shut(cn), OldestIdle(cn, inUse)) ELSE {cn}

\* The pools check_limits may leave behind; CPOOL_LIMIT_OK for one that is
\* not full.
CheckLimits(cn, inUse, h) ==
  UNION {TotalRoom(cn1, inUse, h) : cn1 \in HostRoom(cn, inUse, h)}

LimitReached(cn, h) == HostFull(cn, h) \/ TotalFull(cn)
=============================================================================
