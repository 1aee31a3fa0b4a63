--------------------------- MODULE UploadService ---------------------------
(***************************************************************************)
(* The upload service of this repository: the Android activity of          *)
(* MainActivity.kt, whose Send button starts one IO coroutine per click,   *)
(* and the single-threaded HTTP server of server.py, which stores every    *)
(* "file" part it receives under the name file_<n>, n = 1 + the number of  *)
(* entries of the upload directory.                                        *)
(*                                                                         *)
(* An upload is one click on Send that passed the activity's checks; other *)
(* HTTP clients of the server are uploads too.  A request carries a path   *)
(* and a number of "file" parts (the activity always sends one).  A stored *)
(* file is the record of the upload and part it came from and of whether   *)
(* its bytes are all written.  A server that dies is started again over    *)
(* the same directory; a write may fail (disk full, I/O error).            *)
(*                                                                         *)
(* Neither side sets a time-out.  A connection may go silent: nothing more *)
(* gets through and nobody is told.  A coroutine that waits for its        *)
(* response then waits for ever, and so does the server, with every other  *)
(* client behind it, while it reads a request that has not all arrived.    *)
(***************************************************************************)
EXTENDS Naturals, FiniteSets, Sequences

CONSTANTS Uploads,     \* requests that will ever be made
          NoUpload,    \* no request is being handled
          MaxParts,    \* most "file" parts in one request
          MaxCrashes   \* bound on the server crashes explored

ASSUME UploadAssumption == /\ NoUpload \notin Uploads
                           /\ MaxParts \in Nat
                           /\ MaxCrashes \in Nat

VARIABLES coroutine,  \* what the coroutine of each upload is doing
          request,    \* the request of each upload: its path, type and parts
          fileUri,    \* has the user picked a file?
          backlog,    \* requests the server has not accepted, in order
          handling,   \* the upload whose do_POST is running
          stored,     \* parts of that request whose file was opened
          writing,    \* number of the file that is open for writing, or 0
          dir,        \* the upload directory: file number -> contents
          response,   \* status the server sent for each upload, 0 if none
          stuck,      \* the server's thread waits for the rest of a request
          silent,     \* uploads whose connection went silent
          shown,      \* the status line the user saw for each upload
          crashes

appVars == <<coroutine, request, fileUri, shown>>
netVars == <<stuck, silent>>
srvVars == <<backlog, handling, stored, writing, dir, response, crashes>>
vars == <<coroutine, request, fileUri, shown, backlog, handling, stored,
          writing, dir, response, crashes, stuck, silent>>

\* A type that is "bad" is missing, or multipart without boundary or length.
Requests == [path : {"/upload", "/other"}, ctype : {"multipart", "other", "bad"},
             parts : 0..MaxParts]
File == [by : Uploads, part : 1..MaxParts, whole : BOOLEAN]

TypeOK ==
  /\ coroutine \in [Uploads -> {"none", "started", "waiting", "ended"}]
  /\ request \in [Uploads -> Requests]
  /\ fileUri \in BOOLEAN
  /\ backlog \in Seq(Uploads)
  /\ handling \in Uploads \cup {NoUpload}
  /\ stored \in 0..MaxParts
  /\ writing \in Nat
  /\ DOMAIN dir \subseteq Nat \ {0}
  /\ \A n \in DOMAIN dir : dir[n] \in File
  /\ response \in [Uploads -> {0, 200, 400, 404, 500}]
  /\ shown \in [Uploads -> {"none", "response", "error"}]
  /\ crashes \in 0..MaxCrashes
  /\ stuck \in BOOLEAN /\ silent \in SUBSET Uploads

Init ==
  /\ coroutine = [u \in Uploads |-> "none"]
  /\ request \in [Uploads -> Requests]
  /\ fileUri = FALSE
  /\ backlog = <<>>
  /\ handling = NoUpload
  /\ stored = 0
  /\ writing = 0
  /\ dir = [n \in {} |-> 0]
  /\ response = [u \in Uploads |-> 0]
  /\ shown = [u \in Uploads |-> "none"]
  /\ crashes = 0
  /\ stuck = FALSE /\ silent = {}
-----------------------------------------------------------------------------
(* The activity *)

\* The file chooser returned: data?.data may be null.
OnActivityResult ==
  /\ fileUri' \in BOOLEAN
  /\ UNCHANGED <<coroutine, request, shown>> /\ UNCHANGED <<srvVars, netVars>>

\* Send: without a picked file nothing starts.
UploadFile(u) ==
  /\ fileUri
  /\ coroutine[u] = "none"
  /\ coroutine' = [coroutine EXCEPT ![u] = "started"]
  /\ UNCHANGED <<request, fileUri, shown>> /\ UNCHANGED <<srvVars, netVars>>

\* The coroutine reads the file; HttpURLConnection buffers the whole request
\* and hands it to the network when the response is asked for; nothing of it
\* gets to the server if the network was lost before.
SendRequest(u) ==
  /\ coroutine[u] = "started"
  /\ coroutine' = [coroutine EXCEPT ![u] = "waiting"]
  /\ backlog' = IF u \in silent THEN backlog ELSE Append(backlog, u)
  /\ UNCHANGED <<request, fileUri, shown, handling, stored, writing, dir,
                 response, crashes, netVars>>

ShowError(u) ==
  /\ coroutine' = [coroutine EXCEPT ![u] = "ended"]
  /\ shown' = [shown EXCEPT ![u] = "error"]

\* The response arrived: getInputStream throws for a status of 400 or more,
\* and for a connection that ended without a response (500 stands for that).
ReadResponse(u) ==
  /\ coroutine[u] = "waiting" /\ u \notin silent
  /\ response[u] # 0
  /\ IF response[u] = 200
       THEN /\ coroutine' = [coroutine EXCEPT ![u] = "ended"]
            /\ shown' = [shown EXCEPT ![u] = "response"]
       ELSE ShowError(u)
  /\ UNCHANGED <<request, fileUri>> /\ UNCHANGED <<srvVars, netVars>>

\* Any exception of the coroutine: unreadable file, network failure.  What
\* was sent stays sent.
UploadFails(u) ==
  /\ coroutine[u] \in {"started", "waiting"}
  /\ ShowError(u)
  /\ UNCHANGED <<request, fileUri>> /\ UNCHANGED <<srvVars, netVars>>

\* The network between the application and the server is lost: no reset and no
\* end of the connection arrives, and neither side has a time-out.
GoesSilent(u) ==
  /\ coroutine[u] \in {"started", "waiting"} /\ u \notin silent
  /\ silent' = silent \cup {u}
  /\ UNCHANGED <<stuck, appVars, srvVars>>
-----------------------------------------------------------------------------
(* The server *)

Accepts(u) == /\ request[u].path = "/upload"
              /\ request[u].ctype = "multipart"
              /\ request[u].parts > 0

\* An exception of the handler leaves the connection closed without an answer.
Refusal(u) == IF request[u].path # "/upload" THEN 404
              ELSE IF request[u].ctype = "bad" THEN 500 ELSE 400

\* do_POST up to its loop over the parts; all of the request has arrived
DoPost ==
  /\ handling = NoUpload
  /\ backlog # <<>>
  /\ backlog' = Tail(backlog)
  /\ LET u == Head(backlog) IN
       IF Accepts(u)
         THEN handling' = u /\ UNCHANGED response
         ELSE /\ response' = [response EXCEPT ![u] = Refusal(u)]
              /\ UNCHANGED handling
  /\ UNCHANGED <<stored, writing, dir, crashes>> /\ UNCHANGED <<appVars, netVars>>

\* The request at the head of the queue has not all arrived when its connection
\* goes silent: reading its headers, or parse_multipart, waits.
Stalls ==
  /\ handling = NoUpload
  /\ backlog # <<>> /\ Head(backlog) \in silent
  /\ handling' = Head(backlog) /\ backlog' = Tail(backlog)
  /\ stuck' = TRUE
  /\ UNCHANGED <<stored, writing, dir, response, crashes, silent, appVars>>

\* A reset gets through after all: parse_multipart raises and the handler ends.
StallEnds ==
  /\ stuck /\ stuck' = FALSE
  /\ response' = [response EXCEPT ![handling] = 500]
  /\ handling' = NoUpload
  /\ UNCHANGED <<backlog, stored, writing, dir, crashes, silent, appVars>>

\* Bug variants: the number of the part in its own request; one skipped.
NextNameFromPart == stored + 1
NextNameSkips == Cardinality(DOMAIN dir) + 2

\* len(os.listdir(UPLOAD_DIR)) + 1
NextName == Cardinality(DOMAIN dir) + 1

Contents(n, whole) == [by |-> handling, part |-> n, whole |-> whole]

Leave == handling' = NoUpload /\ stored' = 0 /\ writing' = 0

\* open(path, 'wb') of the next part: creates the file, or truncates it
OpenFile ==
  /\ handling # NoUpload /\ ~stuck
  /\ writing = 0
  /\ stored < request[handling].parts
  /\ dir' = [n \in DOMAIN dir \cup {NextName} |->
               IF n = NextName THEN Contents(stored + 1, FALSE) ELSE dir[n]]
  /\ writing' = NextName
  /\ stored' = stored + 1
  /\ UNCHANGED <<backlog, handling, response, crashes>> /\ UNCHANGED <<appVars, netVars>>

\* listdir or open raised (no such directory, no more files): nothing was created
OpenFails ==
  /\ handling # NoUpload /\ ~stuck
  /\ writing = 0
  /\ stored < request[handling].parts
  /\ response' = [response EXCEPT ![handling] = 500]
  /\ Leave
  /\ UNCHANGED <<backlog, dir, crashes>> /\ UNCHANGED <<appVars, netVars>>

\* f.write and the close at the end of the with block
WriteFile ==
  /\ writing # 0
  /\ dir' = [dir EXCEPT ![writing] = Contents(stored, TRUE)]
  /\ writing' = 0
  /\ UNCHANGED <<backlog, handling, stored, response, crashes>>
  /\ UNCHANGED <<appVars, netVars>>

\* Bug variants: a failed write answers nothing and keeps the connection;
\* the file number is still taken for open.
WriteFailsSilently ==
  /\ writing # 0
  /\ Leave
  /\ UNCHANGED <<backlog, response, dir, crashes>> /\ UNCHANGED <<appVars, netVars>>
WriteFailsOpen ==
  /\ writing # 0
  /\ response' = [response EXCEPT ![handling] = 500]
  /\ handling' = NoUpload /\ UNCHANGED <<stored, writing>>
  /\ UNCHANGED <<backlog, dir, crashes>> /\ UNCHANGED <<appVars, netVars>>

\* f.write raised: the handler ends, the connection closes unanswered
WriteFails ==
  /\ writing # 0
  /\ response' = [response EXCEPT ![handling] = 500]
  /\ Leave
  /\ UNCHANGED <<backlog, dir, crashes>> /\ UNCHANGED <<appVars, netVars>>

\* Bug variant: 200 without waiting for the loop over the parts to end.
RespondEarly ==
  /\ handling # NoUpload /\ ~stuck
  /\ writing = 0
  /\ response' = [response EXCEPT ![handling] = 200]
  /\ Leave
  /\ UNCHANGED <<backlog, dir, crashes>> /\ UNCHANGED <<appVars, netVars>>

Respond ==
  /\ handling # NoUpload /\ ~stuck
  /\ writing = 0
  /\ stored = request[handling].parts
  /\ response' = [response EXCEPT ![handling] = 200]
  /\ Leave
  /\ UNCHANGED <<backlog, dir, crashes>> /\ UNCHANGED <<appVars, netVars>>

\* The server process dies and is started again: os.makedirs keeps the
\* directory; accepted and queued connections are reset.
Restart ==
  /\ crashes < MaxCrashes
  /\ crashes' = crashes + 1
  /\ response' = [u \in Uploads |->
                    IF u = handling \/ \E i \in DOMAIN backlog : backlog[i] = u
                      THEN 500 ELSE response[u]]
  /\ backlog' = <<>>
  /\ Leave /\ stuck' = FALSE
  /\ UNCHANGED <<dir, silent, appVars>>

Serve == DoPost \/ Stalls \/ OpenFile \/ OpenFails \/ WriteFile \/ WriteFails \/ Respond

Next ==
  \/ OnActivityResult
  \/ \E u \in Uploads : \/ UploadFile(u) \/ SendRequest(u)
                         \/ ReadResponse(u) \/ UploadFails(u) \/ GoesSilent(u)
  \/ DoPost \/ Stalls \/ StallEnds \/ OpenFile \/ OpenFails \/ WriteFile \/ WriteFails
  \/ Respond \/ Restart

Spec == Init /\ [][Next]_vars

\* The server's thread runs unless it waits for a client, and so do the
\* coroutines; the user need not click, nothing needs to fail, and a connection
\* that went silent need not be reset.
Fairness ==
  /\ WF_vars(Serve)
  /\ \A u \in Uploads : WF_vars(SendRequest(u) \/ ReadResponse(u))

FairSpec == Spec /\ Fairness
-----------------------------------------------------------------------------
(* Properties *)

\* The name a new part gets is never that of a file already there: the
\* numbers in use are always 1..n, whatever failed or was restarted.
NamesContiguous == DOMAIN dir = 1..Cardinality(DOMAIN dir)

\* A file, once opened for a part, keeps belonging to that part, and once
\* whole it stays whole: open(.., 'wb') never truncates an earlier upload.
NeverOverwritten ==
  [][\A n \in DOMAIN dir :
       /\ n \in DOMAIN dir'
       /\ dir'[n].by = dir[n].by /\ dir'[n].part = dir[n].part
       /\ dir[n].whole => dir'[n].whole]_dir

\* "Server response" on the screen means every part of that request is in
\* the directory, written to its end; what the user is told is true.
SuccessMeansStored ==
  \A u \in Uploads : shown[u] = "response" =>
    \A p \in 1..request[u].parts :
      \E n \in DOMAIN dir : dir[n] = [by |-> u, part |-> p, whole |-> TRUE]

\* Every Send ends in a status line, however the server fares, unless its own
\* connection goes silent or the server stays blocked on a client whose
\* connection did: no request is forgotten for any other reason.
EverySendAnswered ==
  \A u \in Uploads :
    coroutine[u] = "started" ~> (shown[u] # "none" \/ u \in silent \/ []stuck)
=============================================================================
