------------------------------ MODULE MultiNotify ------------------------------
(***************************************************************************)
(* Notifications of a multi handle (lib/multi_ntfy.c) and its messages:    *)
(* what a transfer's end puts into the queue of chunks, what the dispatch  *)
(* at the end of curl_multi_perform hands to the application's callback,   *)
(* and what the application may do from that callback.                     *)
(***************************************************************************)
EXTENDS Naturals, Sequences, FiniteSets

CONSTANTS
  Transfers,     \* the easy handles, each added once
  ChunkSize,     \* CURL_MNTFY_CHUNK_SIZE
  Chunks,        \* the chunks there is memory for
  NoChunk

\* what is assumed of the constants
NotifyConstants == ChunkSize \in Nat \ {0} /\ NoChunk \notin Chunks

VARIABLES
  multiCall,     \* "none", "perform", "dispatch", "callback" or "chunkDone": in which call the multi is
  xfer,          \* each transfer: "new", "running", "DONE", "MSGSENT" or "removed"
  msglist,       \* the transfers whose messages wait to be read
  enabled,       \* the types of notifications that are enabled
  chunk,         \* each chunk that is allocated: [entries, r, next]
  head, tail,    \* multi->ntfy
  failure,       \* multi->ntfy.failure is set
  doneTold,      \* how often each transfer's end was told to the callback
  readTold,      \* INFO_READ was told since the list of messages was last empty
  missing        \* what the application cannot expect: disabled types, or it was told of a failure

notifyVars == <<multiCall, xfer, msglist, enabled, chunk, head, tail, failure, doneTold, readTold, missing>>

Types == {"DONE", "READ"}
Done(t) == [type |-> "DONE", of |-> t]
Read == [type |-> "READ", of |-> "admin"]
EmptyChunk == [entries |-> <<>>, r |-> 0, next |-> NoChunk]

-----------------------------------------------------------------------------
\* mntfy_chunk_append to the tail
Append2Tail(e) == chunk' = [chunk EXCEPT ![tail].entries = Append(@, e)] /\ UNCHANGED <<head, tail, failure>>

\* a new chunk with the entry, behind the tail if there is one
NewTail(c, e) ==
  LET d == [EmptyChunk EXCEPT !.entries = <<e>>]
  IN  /\ chunk' = [i \in DOMAIN chunk \cup {c} |->
                     IF i = c THEN d ELSE IF i = tail THEN [chunk[i] EXCEPT !.next = c] ELSE chunk[i]]
      /\ head' = IF tail = NoChunk THEN c ELSE head
      /\ tail' = c
      /\ UNCHANGED failure

\* Curl_mntfy_add: without memory for a chunk the failure is kept for the dispatch
Add(e) ==
  IF failure \/ e.type \notin enabled THEN UNCHANGED <<chunk, head, tail, failure>>
  ELSE IF tail # NoChunk /\ Len(chunk[tail].entries) < ChunkSize THEN Append2Tail(e)
  ELSE \/ \E c \in Chunks \ DOMAIN chunk : NewTail(c, e)
       \/ failure' = TRUE /\ UNCHANGED <<chunk, head, tail>>

\* what a failure or a disabled type hides from the application
Missed(e) == missing' = IF failure' \/ e.type \notin enabled THEN missing \cup {e.type} ELSE missing

Init ==
  /\ multiCall = "none" /\ xfer = [t \in Transfers |-> "new"] /\ msglist = <<>>
  /\ enabled \in {Types, {"DONE"}, {"READ"}}
  /\ chunk = <<>> /\ head = NoChunk /\ tail = NoChunk /\ failure = FALSE
  /\ doneTold = [t \in Transfers |-> 0] /\ readTold = FALSE /\ missing = {}

-----------------------------------------------------------------------------
(* curl_multi_perform. *)

Perform ==
  /\ multiCall = "none" /\ multiCall' = "perform"
  /\ UNCHANGED <<xfer, msglist, enabled, chunk, head, tail, failure, doneTold, readTold, missing>>

\* mstate to DONE, or from an earlier state to COMPLETED
Ends(t) ==
  /\ multiCall = "perform" /\ xfer[t] = "running"
  /\ xfer' = [xfer EXCEPT ![t] = "DONE"]
  /\ Add(Done(t)) /\ Missed(Done(t))
  /\ UNCHANGED <<multiCall, msglist, enabled, doneTold, readTold>>

\* COMPLETED to MSGSENT with multi_addmsg
AddMessage(t) ==
  /\ multiCall = "perform" /\ xfer[t] = "DONE"
  /\ xfer' = [xfer EXCEPT ![t] = "MSGSENT"]
  /\ msglist' = Append(msglist, t)
  /\ IF msglist = <<>> THEN Add(Read) /\ Missed(Read)
     ELSE UNCHANGED <<chunk, head, tail, failure, missing>>
  /\ UNCHANGED <<multiCall, enabled, doneTold, readTold>>

\* the dispatch, unless a transfer failed in a way that ends the call
EndPerform ==
  /\ multiCall = "perform"
  /\ multiCall' \in {"dispatch", "none"}
  /\ UNCHANGED <<xfer, msglist, enabled, chunk, head, tail, failure, doneTold, readTold, missing>>

-----------------------------------------------------------------------------
(* Curl_mntfy_dispatch_all. *)

Entry == chunk[head].entries[chunk[head].r + 1]
More == head # NoChunk /\ ~failure /\ chunk[head].r < Len(chunk[head].entries)
Wanted(e) == e.type \in enabled /\ (e.type = "DONE" => xfer[e.of] # "removed")

\* the callback is called; without a wanted entry the next one is looked at
Dispatch ==
  /\ multiCall = "dispatch" /\ More
  /\ IF Wanted(Entry)
     THEN /\ multiCall' = "callback"
          /\ doneTold' = IF Entry.type = "DONE" THEN [doneTold EXCEPT ![Entry.of] = @ + 1] ELSE doneTold
          /\ readTold' = (readTold \/ Entry.type = "READ")
          /\ UNCHANGED <<chunk, missing>>
     ELSE /\ chunk' = [chunk EXCEPT ![head].r = @ + 1]
          /\ missing' = IF Entry.type \in enabled THEN missing ELSE missing \cup {Entry.type}
          /\ UNCHANGED <<multiCall, doneTold, readTold>>
  /\ UNCHANGED <<xfer, msglist, enabled, head, tail, failure>>

\* Bug variant: an entry is counted before the callback and again after it.
CallbackReturnsTwice ==
  /\ multiCall = "callback" /\ multiCall' = "dispatch"
  /\ chunk' = [chunk EXCEPT ![head].r = @ + 2]
  /\ UNCHANGED <<xfer, msglist, enabled, head, tail, failure, doneTold, readTold, missing>>

CallbackReturns ==
  /\ multiCall = "callback" /\ multiCall' = "dispatch"
  /\ chunk' = [chunk EXCEPT ![head].r = @ + 1]
  /\ UNCHANGED <<xfer, msglist, enabled, head, tail, failure, doneTold, readTold, missing>>

\* Bug variant: only the reading starts over.
ResetRead(c) == [c EXCEPT !.r = 0]

\* mnfty_chunk_reset clears the chunk with its link to the next one
Reset(c) == EmptyChunk

ChunkDispatched ==
  /\ multiCall = "dispatch" /\ head # NoChunk /\ ~failure /\ ~More
  /\ chunk' = [chunk EXCEPT ![head] = Reset(chunk[head])]
  /\ multiCall' = IF head = tail THEN "none" ELSE "chunkDone"
  /\ UNCHANGED <<xfer, msglist, enabled, head, tail, failure, doneTold, readTold, missing>>

\* it was not the last chunk
NextChunk ==
  /\ multiCall = "chunkDone" /\ multiCall' = "dispatch"
  /\ head' = chunk[head].next
  /\ chunk' = [c \in DOMAIN chunk \ {head} |-> chunk[c]]
  /\ UNCHANGED <<xfer, msglist, enabled, tail, failure, doneTold, readTold, missing>>

\* nothing to dispatch, or a failure, which the caller is told once
DispatchEnds ==
  /\ multiCall = "dispatch" /\ (head = NoChunk \/ failure)
  /\ multiCall' = "none" /\ failure' = FALSE
  /\ UNCHANGED <<xfer, msglist, enabled, chunk, head, tail, doneTold, readTold, missing>>

-----------------------------------------------------------------------------
(* The application, between calls and from the callback. *)

AtApplication == multiCall \in {"none", "callback"}

AddHandle(t) ==
  /\ AtApplication /\ xfer[t] = "new"
  /\ xfer' = [xfer EXCEPT ![t] = "running"]
  /\ UNCHANGED <<multiCall, msglist, enabled, chunk, head, tail, failure, doneTold, readTold, missing>>

\* curl_multi_remove_handle takes the message along and notifies nobody
RemoveHandle(t) ==
  /\ AtApplication /\ xfer[t] \in {"running", "DONE", "MSGSENT"}
  /\ xfer' = [xfer EXCEPT ![t] = "removed"]
  /\ msglist' = SelectSeq(msglist, LAMBDA u : u # t)
  /\ readTold' = (readTold /\ msglist' # <<>>)
  /\ UNCHANGED <<multiCall, enabled, chunk, head, tail, failure, doneTold, missing>>

\* curl_multi_info_read, one message a call
InfoRead ==
  /\ AtApplication /\ msglist # <<>>
  /\ msglist' = Tail(msglist)
  /\ readTold' = (readTold /\ msglist' # <<>>)
  /\ UNCHANGED <<multiCall, xfer, enabled, chunk, head, tail, failure, doneTold, missing>>

\* curl_multi_notify_enable and _disable
Switch(type) ==
  /\ AtApplication
  /\ enabled' = IF type \in enabled THEN enabled \ {type} ELSE enabled \cup {type}
  /\ UNCHANGED <<multiCall, xfer, msglist, chunk, head, tail, failure, doneTold, readTold, missing>>

Next ==
  \/ Perform \/ EndPerform \/ Dispatch \/ CallbackReturns \/ ChunkDispatched \/ NextChunk \/ DispatchEnds
  \/ InfoRead
  \/ \E t \in Transfers : Ends(t) \/ AddMessage(t) \/ AddHandle(t) \/ RemoveHandle(t)
  \/ \E type \in Types : Switch(type)

\* the application calls curl_multi_perform, which goes on; not every call fails
Advance == Perform \/ EndPerform \/ Dispatch \/ CallbackReturns \/ ChunkDispatched \/ NextChunk \/ DispatchEnds
DispatchFollows == EndPerform /\ multiCall' = "dispatch"
Fairness == WF_notifyVars(Advance) /\ SF_notifyVars(DispatchFollows)

Spec == Init /\ [][Next]_notifyVars /\ Fairness

-----------------------------------------------------------------------------
TypeOK ==
  /\ multiCall \in {"none", "perform", "dispatch", "callback", "chunkDone"}
  /\ enabled \subseteq Types /\ missing \subseteq Types /\ {head, tail} \subseteq Chunks \cup {NoChunk}
  /\ DOMAIN chunk \subseteq Chunks
  /\ \A c \in DOMAIN chunk : chunk[c].r <= Len(chunk[c].entries) /\ Len(chunk[c].entries) <= ChunkSize

\* the entries that are still to be dispatched, from where the dispatch stands
RECURSIVE EntriesFrom(_)
EntriesFrom(c) ==
  IF c = NoChunk THEN {}
  ELSE {chunk[c].entries[i] : i \in (chunk[c].r + 1)..Len(chunk[c].entries)} \cup EntriesFrom(chunk[c].next)

\* The list of messages is not empty only if the application was told since it
\* was, or is about to be; unless it disabled the type or was told of a failure.
MessagesAnnounced ==
  msglist # <<>> /\ "READ" \notin missing => readTold \/ Read \in EntriesFrom(head)

\* The end of a transfer is told exactly once, or is about to be told.
EndsToldOnce ==
  \A t \in Transfers :
    /\ doneTold[t] <= 1
    /\ xfer[t] \in {"DONE", "MSGSENT"} /\ "DONE" \notin missing =>
         doneTold[t] = 1 \/ Done(t) \in EntriesFrom(head)

\* No notification is lost or doubled, whatever callbacks do in between.
NotificationsKept == MessagesAnnounced /\ EndsToldOnce

\* an end that the application is to be told of, unless it removes the transfer
Untold(t) == t \in Transfers /\ xfer[t] \in {"DONE", "MSGSENT"} /\ "DONE" \notin missing /\ doneTold[t] = 0

\* The assertion of Curl_mntfy_dispatch_all: a chunk that is not the last one has a
\* next one.
ChunkHasNext == multiCall = "chunkDone" => chunk[head].next # NoChunk
=============================================================================
