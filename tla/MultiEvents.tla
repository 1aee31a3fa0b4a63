---------------------------- MODULE MultiEvents -----------------------------
(***************************************************************************)
(* Which sockets the application is asked to watch (lib/multi_ev.c).  Each *)
(* transfer, and each connection that is being shut down, is assessed from *)
(* time to time: the difference between the sockets it needs now and those *)
(* it needed last changes the socket's entry, and the socket callback is   *)
(* called when the sum over all its users changes.  Sockets are closed     *)
(* between two assessments, and the system hands out their numbers again.  *)
(***************************************************************************)
EXTENDS MultiEventsState

Actions == {"IN", "OUT"}
Nothing == [s \in {} |-> {}]
NoEntry == [there |-> FALSE, users |-> {}, readers |-> 0, writers |-> 0, action |-> {}, announced |-> FALSE]

\* one connection at most is known to an entry
Holder(entry) == entry.users \cap ClosingConns

-----------------------------------------------------------------------------
Counted(n, act, before, now) ==
  IF act \in now THEN (IF act \in before THEN n ELSE n + 1) ELSE (IF act \in before THEN n - 1 ELSE n)

\* mev_sh_entry_update: the callback is called if the sum of actions changes
Update(entry, before, now) ==
  LET readers == Counted(entry.readers, "IN", before, now)
      writers == Counted(entry.writers, "OUT", before, now)
      combo == (IF readers > 0 THEN {"IN"} ELSE {}) \cup (IF writers > 0 THEN {"OUT"} ELSE {})
  IN  [entry EXCEPT !.readers = readers, !.writers = writers, !.action = combo,
                    !.announced = @ \/ combo # entry.action]

\* mev_pollset_diff for one socket: used now, or not any more.  A socket whose entry
\* does not know the user starts from nothing, whatever the last pollset says.
Diffed(u, s, ps) ==
  LET entry == shEntry[s]
      known == entry.there /\ u \in entry.users
      before == IF known /\ s \in DOMAIN lastPs[u] THEN lastPs[u][s] ELSE {}
  IN  IF s \in DOMAIN ps
      THEN Update([entry EXCEPT !.there = TRUE, !.users = @ \cup {u}], before, ps[s])
      ELSE IF s \in DOMAIN lastPs[u] /\ known
      THEN IF entry.users = {u} THEN NoEntry
           ELSE Update([entry EXCEPT !.users = @ \ {u}], lastPs[u][s], {})
      ELSE entry

\* what the callback says of the socket: the sum, or CURL_POLL_REMOVE
Told(s, entry) ==
  IF entry.there THEN (IF entry.action # shEntry[s].action THEN entry.action ELSE watched[s])
  ELSE IF shEntry[s].there /\ shEntry[s].announced THEN {} ELSE watched[s]

Diff(u, ps) ==
  /\ shEntry' = [s \in Fds |-> Diffed(u, s, ps)]
  /\ watched' = [s \in Fds |-> Told(s, shEntry'[s])]

Init ==
  /\ shEntry = [s \in Fds |-> NoEntry] /\ lastPs = [u \in PollUsers |-> Nothing]
  /\ open = {} /\ watched = [s \in Fds |-> {}] /\ needs = [u \in PollUsers |-> Nothing] /\ dirtyXfers = {}

\* mev_assess; a connection that shuts down has its socket for itself
Assess(u) ==
  /\ \E used \in SUBSET open : \E ps \in [used -> (SUBSET Actions) \ {{}}] :
       /\ u \in ClosingConns => \A s \in used : Holder(shEntry[s]) \subseteq {u}
       /\ Diff(u, ps)
       /\ lastPs' = [lastPs EXCEPT ![u] = ps]
       /\ needs' = [needs EXCEPT ![u] = ps]
  /\ UNCHANGED <<open, dirtyXfers>>

\* Curl_multi_ev_xfer_done and Curl_multi_ev_conn_done: nothing is needed any more
UserDone(u) ==
  /\ Diff(u, Nothing)
  /\ lastPs' = [lastPs EXCEPT ![u] = Nothing]
  /\ needs' = [needs EXCEPT ![u] = Nothing]
  /\ UNCHANGED <<open, dirtyXfers>>

\* Bug variant: the entry outlives its socket.
ForgottenNot(s) == shEntry[s]

\* Curl_multi_will_close before the socket is closed: mev_forget_socket
Forgotten(s) == NoEntry
CloseSocket(s) ==
  /\ s \in open
  /\ open' = open \ {s}
  /\ shEntry' = [shEntry EXCEPT ![s] = Forgotten(s)]
  /\ watched' = [watched EXCEPT ![s] = Told(s, NoEntry)]
  /\ needs' = [u \in PollUsers |-> [t \in DOMAIN needs[u] \ {s} |-> needs[u][t]]]
  /\ UNCHANGED <<lastPs, dirtyXfers>>

OpenSocket(s) ==
  /\ s \notin open
  /\ open' = open \cup {s}
  /\ UNCHANGED <<shEntry, lastPs, watched, needs, dirtyXfers>>

\* Curl_multi_ev_dirty_xfers: an event on a socket the application watches
SocketEvent(s) ==
  /\ watched[s] # {}
  /\ dirtyXfers' = shEntry[s].users \cap Xfers
  /\ UNCHANGED <<shEntry, lastPs, open, watched, needs>>

Next ==
  \/ \E u \in PollUsers : Assess(u) \/ UserDone(u)
  \/ \E s \in Fds : CloseSocket(s) \/ OpenSocket(s) \/ SocketEvent(s)

Spec == Init /\ [][Next]_evVars

-----------------------------------------------------------------------------
TypeOK ==
  /\ \A s \in Fds : shEntry[s].users \subseteq PollUsers /\ shEntry[s].readers \in 0..Cardinality(PollUsers)
  /\ \A u \in PollUsers : DOMAIN lastPs[u] \subseteq Fds
  /\ open \subseteq Fds /\ dirtyXfers \subseteq Xfers

=============================================================================
