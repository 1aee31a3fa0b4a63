-------------------------- MODULE MultiEventsState --------------------------
(***************************************************************************)
(* The sockets of a multi handle that is driven by events                  *)
(* (lib/multi_ev.c): the state, and what is promised of it.  MultiEvents   *)
(* has the steps.                                                          *)
(***************************************************************************)
EXTENDS Naturals, FiniteSets

CONSTANTS
  Fds,           \* socket numbers
  Xfers,         \* transfers
  ClosingConns   \* connections that are being shut down

\* what is assumed of the constants
EventsConstants == IsFiniteSet(Xfers) /\ IsFiniteSet(ClosingConns)

VARIABLES
  shEntry,       \* each socket's entry in the hash, or none
  lastPs,        \* each user's pollset of the last assessment: actions by socket
  open,          \* which sockets are open
  watched,       \* what the socket callback was last told of each socket
  needs,         \* what each user needed when last assessed, of sockets still open since
  dirtyXfers     \* the transfers marked to run by the last event

evVars == <<shEntry, lastPs, open, watched, needs, dirtyXfers>>

PollUsers == Xfers \cup ClosingConns

\* The application watches each socket for exactly what its users need together, and
\* a socket nobody needs not at all, however sockets were closed and numbers reused.
NeededBy(s) == {u \in PollUsers : s \in DOMAIN needs[u]}
WatchedAsNeeded == \A s \in Fds : watched[s] = UNION {needs[u][s] : u \in NeededBy(s)}

\* An event reaches every transfer that needs the socket, and no other.
EventReachesUsers == \A s \in Fds : shEntry[s].users = NeededBy(s)

\* What the application watches and whom an event wakes agree with what transfers need.
EventsRight == WatchedAsNeeded /\ EventReachesUsers
=============================================================================
