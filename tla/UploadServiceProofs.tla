------------------------ MODULE UploadServiceProofs ------------------------
(* Proofs about UploadService, for any set of requests, any number of parts *)
(* and any number of crashes.                                               *)
EXTENDS UploadService, FiniteSetTheorems, SequenceTheorems, TLAPS

IsStored(u, p) == \E n \in DOMAIN dir :
                    dir[n] = [by |-> u, part |-> p, whole |-> TRUE]

\* Where the loop over the parts stands: the file open for writing is the
\* current part's, and every part before it is whole.
HandlingInv ==
  /\ handling = NoUpload => stored = 0 /\ writing = 0
  /\ handling # NoUpload => stored <= request[handling].parts
  /\ stuck => handling # NoUpload /\ stored = 0 /\ writing = 0
  /\ writing # 0 => /\ writing \in DOMAIN dir /\ handling # NoUpload
                    /\ stored # 0
                    /\ dir[writing] = [by |-> handling, part |-> stored,
                                       whole |-> FALSE]
  /\ \A p \in 1..stored : IsStored(handling, p) \/ (writing # 0 /\ p = stored)

AnsweredInv == \A u \in Uploads : response[u] = 200 =>
                 \A p \in 1..request[u].parts : IsStored(u, p)

DirInv == IsFiniteSet(DOMAIN dir) /\ NamesContiguous

\* Names in use are 1..n in every reachable state.
LEMMA OpenFresh ==
  ASSUME TypeOK, DirInv
  PROVE  /\ NextName \in Nat \ {0}
         /\ NextName \notin DOMAIN dir
         /\ DOMAIN dir \cup {NextName} = 1..NextName
         /\ IsFiniteSet(1..NextName)
         /\ Cardinality(1..NextName) = NextName
<1> DEFINE c == Cardinality(DOMAIN dir)
<1>1. c \in Nat
  BY FS_CardinalityType DEF DirInv
<1>2. DOMAIN dir = 1..c
  BY DEF DirInv, NamesContiguous
<1>3. NextName = c + 1
  BY DEF NextName
<1> HIDE DEF c
<1>4. /\ NextName \in Nat \ {0} /\ NextName \notin DOMAIN dir
      /\ DOMAIN dir \cup {NextName} = 1..NextName
  BY <1>1, <1>2, <1>3
<1>5. IsFiniteSet(1..NextName) /\ Cardinality(1..NextName) = NextName
  BY <1>4, FS_Interval
<1> QED BY <1>4, <1>5


\* Every variable keeps its type.
LEMMA TypeInit == Init => TypeOK
<1> SUFFICES ASSUME Init PROVE TypeOK
  OBVIOUS
<1> USE UploadAssumption DEF Init
<1>1. backlog \in Seq(Uploads)
  OBVIOUS
<1>2. DOMAIN dir = {}
  OBVIOUS
<1>3. DOMAIN dir \subseteq Nat \ {0} /\ \A n \in DOMAIN dir : dir[n] \in File
  BY <1>2
<1>4. stored \in 0..MaxParts /\ crashes \in 0..MaxCrashes /\ writing \in Nat
  OBVIOUS
<1>5. /\ coroutine \in [Uploads -> {"none", "started", "waiting", "ended"}]
      /\ shown \in [Uploads -> {"none", "response", "error"}]
      /\ response \in [Uploads -> {0, 200, 400, 404, 500}]
      /\ request \in [Uploads -> Requests] /\ fileUri \in BOOLEAN
      /\ handling \in Uploads \cup {NoUpload}
  OBVIOUS
<1>6. stuck \in BOOLEAN /\ silent \in SUBSET Uploads
  OBVIOUS
<1> QED BY <1>1, <1>3, <1>4, <1>5, <1>6, Zenon DEF TypeOK

\* Every step keeps the types; a new file's number needs the invariant.
LEMMA TypeStep == TypeOK /\ DirInv /\ HandlingInv /\ [Next]_vars => TypeOK'
<1> SUFFICES ASSUME TypeOK, DirInv, HandlingInv, [Next]_vars PROVE TypeOK'
  OBVIOUS
<1> USE UploadAssumption DEF TypeOK, appVars, srvVars, netVars
<1>1. CASE OnActivityResult
  BY <1>1 DEF OnActivityResult
<1>2. ASSUME NEW u \in Uploads, UploadFile(u) PROVE TypeOK'
  BY <1>2 DEF UploadFile
<1>3. ASSUME NEW u \in Uploads, SendRequest(u) PROVE TypeOK'
  <2>1. backlog' \in Seq(Uploads)
    BY <1>3, AppendProperties DEF SendRequest
  <2> QED BY <1>3, <2>1 DEF SendRequest
<1>4. ASSUME NEW u \in Uploads, ReadResponse(u) \/ UploadFails(u) PROVE TypeOK'
  <2>1. UNCHANGED <<request, fileUri>> /\ UNCHANGED <<srvVars, netVars>>
    BY <1>4 DEF ReadResponse, UploadFails
  <2>2. coroutine' = [coroutine EXCEPT ![u] = "ended"]
        /\ shown' \in {[shown EXCEPT ![u] = "response"], [shown EXCEPT ![u] = "error"]}
    BY <1>4 DEF ReadResponse, UploadFails, ShowError
  <2>3. coroutine' \in [Uploads -> {"none", "started", "waiting", "ended"}]
        /\ shown' \in [Uploads -> {"none", "response", "error"}]
    BY <2>2
  <2> QED BY <2>1, <2>3
<1>5. CASE DoPost
  <2>1. Head(backlog) \in Uploads /\ backlog' \in Seq(Uploads)
    BY <1>5, HeadTailProperties DEF DoPost
  <2>2. UNCHANGED <<coroutine, request, fileUri, shown, stored, writing, dir, crashes, stuck, silent>>
    BY <1>5 DEF DoPost
  <2>3. handling' \in Uploads \cup {NoUpload}
    BY <1>5, <2>1 DEF DoPost
  <2>4. response' = response \/ response' = [response EXCEPT ![Head(backlog)] = Refusal(Head(backlog))]
    BY <1>5 DEF DoPost
  <2>5. Refusal(Head(backlog)) \in {400, 404, 500}
    BY DEF Refusal
  <2>6. response' \in [Uploads -> {0, 200, 400, 404, 500}]
    BY <2>4, <2>5
  <2> QED BY <2>1, <2>2, <2>3, <2>6
<1>6. CASE OpenFile
  <2>1. stored' \in 1..MaxParts
    BY <1>6 DEF OpenFile, Requests
  <2>2. Contents(stored + 1, FALSE) \in File
    BY <1>6, <2>1 DEF OpenFile, File, Contents
  <2>3. /\ DOMAIN dir' \subseteq Nat \ {0}
        /\ \A n \in DOMAIN dir' : dir'[n] \in File
    <3>1. /\ DOMAIN dir' = DOMAIN dir \cup {NextName}
          /\ \A n \in DOMAIN dir' : dir'[n] = IF n = NextName
               THEN Contents(stored + 1, FALSE) ELSE dir[n]
      BY <1>6 DEF OpenFile
    <3>2. NextName \in Nat \ {0}
      BY OpenFresh
    <3>3. DOMAIN dir \subseteq Nat \ {0} /\ \A n \in DOMAIN dir : dir[n] \in File
      OBVIOUS
    <3> HIDE DEF TypeOK
    <3> QED BY <2>2, <3>1, <3>2, <3>3
  <2>4. writing' \in Nat
    BY <1>6, OpenFresh DEF OpenFile
  <2> HIDE DEF TypeOK
  <2>5. UNCHANGED <<coroutine, request, fileUri, shown, backlog, handling,
                    response, crashes, stuck, silent>>
    BY <1>6 DEF OpenFile
  <2> QED BY <2>1, <2>3, <2>4, <2>5 DEF TypeOK
<1>7. CASE WriteFile
  <2>1. DOMAIN dir' = DOMAIN dir
    BY <1>7 DEF WriteFile
  <2>2. ASSUME NEW n \in DOMAIN dir PROVE dir'[n] \in File
    <3>1. CASE n = writing
      <4>1. dir'[n] = Contents(stored, TRUE)
        BY <1>7, <3>1 DEF WriteFile
      <4>2. handling \in Uploads /\ stored \in 1..MaxParts
        BY <1>7 DEF WriteFile, HandlingInv
      <4> QED BY <4>1, <4>2 DEF File, Contents
    <3>2. CASE n # writing
      <4>1. dir'[n] = dir[n]
        BY <1>7, <3>2 DEF WriteFile
      <4> QED BY <4>1 DEF TypeOK
    <3> QED BY <3>1, <3>2
  <2> QED BY <1>7, <2>1, <2>2 DEF WriteFile
<1>8. CASE WriteFails \/ Respond \/ OpenFails
  BY <1>8 DEF WriteFails, Respond, OpenFails, Leave
<1>9. CASE Restart
  <2>1. /\ UNCHANGED <<coroutine, request, fileUri, shown, dir, silent>>
        /\ backlog' \in Seq(Uploads) /\ crashes' \in 0..MaxCrashes
        /\ handling' = NoUpload /\ stored' = 0 /\ writing' = 0
        /\ response' \in [Uploads -> {0, 200, 400, 404, 500}]
    BY <1>9, EmptySeq DEF Restart, Leave
  <2>2. stuck' \in BOOLEAN
    BY <1>9, Zenon DEF Restart
  <2> QED BY <2>1, <2>2
<1>10. CASE UNCHANGED vars
  BY <1>10 DEF vars
<1>11. ASSUME NEW u \in Uploads, GoesSilent(u) PROVE TypeOK'
  BY <1>11 DEF GoesSilent
<1>12. CASE Stalls
  <2>1. Head(backlog) \in Uploads /\ backlog' \in Seq(Uploads)
    BY <1>12, HeadTailProperties DEF Stalls
  <2> QED BY <1>12, <2>1 DEF Stalls
<1>13. CASE StallEnds
  <2>1. /\ UNCHANGED <<backlog, stored, writing, dir, crashes, silent, appVars>>
        /\ response' = [response EXCEPT ![handling] = 500]
        /\ handling' = NoUpload /\ stuck' \in BOOLEAN
    BY <1>13, Zenon DEF StallEnds
  <2>2. response' \in [Uploads -> {0, 200, 400, 404, 500}]
    BY <2>1
  <2> QED BY <2>1, <2>2
<1> QED
  BY <1>1, <1>2, <1>3, <1>4, <1>5, <1>6, <1>7, <1>8, <1>9, <1>10, <1>11, <1>12, <1>13 DEF Next

Inv == TypeOK /\ DirInv /\ HandlingInv /\ AnsweredInv /\ SuccessMeansStored

\* Init establishes the invariant.
LEMMA InvInit == Init => Inv
<1> SUFFICES ASSUME Init PROVE Inv
  OBVIOUS
<1>1. TypeOK
  BY TypeInit
<1>2. DOMAIN dir = {}
  BY DEF Init
<1>3. DirInv
  <2>1. IsFiniteSet({}) /\ Cardinality({}) = 0
    BY FS_EmptySet
  <2> QED BY <1>2, <2>1 DEF DirInv, NamesContiguous
<1>4. HandlingInv
  BY DEF Init, HandlingInv
<1>5. AnsweredInv
  BY DEF Init, AnsweredInv
<1>6. SuccessMeansStored
  BY DEF Init, SuccessMeansStored
<1> QED BY <1>1, <1>3, <1>4, <1>5, <1>6 DEF Inv

\* What a step may do to the directory, from the invariant.
LEMMA DirStep ==
  ASSUME Inv, [Next]_vars
  PROVE  /\ DirInv'
         /\ \A n \in DOMAIN dir : /\ n \in DOMAIN dir'
                                  /\ dir'[n].by = dir[n].by
                                  /\ dir'[n].part = dir[n].part
                                  /\ dir[n].whole => dir'[n] = dir[n]
<1>1. CASE OpenFile
  <2>1. DOMAIN dir' = DOMAIN dir \cup {NextName}
    BY <1>1 DEF OpenFile
  <2>2. DOMAIN dir' = 1..NextName
    BY <2>1, OpenFresh DEF Inv
  <2>3. DirInv'
    BY <2>2, OpenFresh DEF DirInv, NamesContiguous, Inv
  <2>4. \A n \in DOMAIN dir : n # NextName
    BY OpenFresh DEF Inv
  <2>5. \A n \in DOMAIN dir : n \in DOMAIN dir' /\ dir'[n] = dir[n]
    BY <1>1, <2>1, <2>4 DEF OpenFile
  <2> QED BY <2>3, <2>5
<1>2. CASE WriteFile
  <2>1. DOMAIN dir' = DOMAIN dir
    BY <1>2 DEF WriteFile
  <2>2. DirInv'
    BY <2>1 DEF DirInv, NamesContiguous, Inv
  <2>3. writing \in DOMAIN dir /\ ~dir[writing].whole
    BY <1>2 DEF WriteFile, Inv, HandlingInv
  <2>4. ASSUME NEW n \in DOMAIN dir, n # writing PROVE dir'[n] = dir[n]
    BY <1>2, <2>4 DEF WriteFile
  <2>5. dir[writing] = Contents(stored, FALSE)
    BY <1>2 DEF WriteFile, Inv, HandlingInv, Contents
  <2>6. dir'[writing] = Contents(stored, TRUE)
    BY <1>2, <2>3 DEF WriteFile
  <2>7. dir'[writing].by = dir[writing].by /\ dir'[writing].part = dir[writing].part
    BY <2>5, <2>6 DEF Contents
  <2> QED BY <2>1, <2>2, <2>3, <2>4, <2>7
<1>3. ASSUME UNCHANGED dir
      PROVE  /\ DirInv'
             /\ \A n \in DOMAIN dir : n \in DOMAIN dir' /\ dir'[n] = dir[n]
  BY <1>3 DEF DirInv, NamesContiguous, Inv
<1>4. OpenFile \/ WriteFile \/ UNCHANGED dir
  BY DEF Next, OnActivityResult, UploadFile, SendRequest, ReadResponse,
         UploadFails, GoesSilent, DoPost, Stalls, StallEnds, OpenFails, WriteFails,
         Respond, Restart, srvVars, vars
<1> QED BY <1>1, <1>2, <1>3, <1>4

\* A part that is stored stays stored, under the same name.
LEMMA StoredStays ==
  ASSUME Inv, [Next]_vars, NEW u \in Uploads, NEW p, IsStored(u, p)
  PROVE  IsStored(u, p)'
<1>1. PICK n \in DOMAIN dir : dir[n] = [by |-> u, part |-> p, whole |-> TRUE]
  BY DEF IsStored
<1>2. dir[n].whole
  BY <1>1
<1>3. n \in DOMAIN dir' /\ dir'[n] = dir[n]
  BY <1>2, DirStep
<1> QED BY <1>1, <1>3 DEF IsStored

\* The loop over the parts keeps its invariant.
LEMMA HandlingStep == Inv /\ [Next]_vars => HandlingInv'
<1> SUFFICES ASSUME Inv, [Next]_vars PROVE HandlingInv'
  OBVIOUS
<1> USE UploadAssumption
<1>1. CASE DoPost
  <2>1. stored = 0 /\ writing = 0
    BY <1>1 DEF DoPost, Inv, HandlingInv
  <2>2. stored' = 0 /\ writing' = 0 /\ ~stuck'
    BY <1>1, <2>1 DEF DoPost, netVars, Inv, TypeOK, HandlingInv
  <2>3. request' = request
    BY <1>1 DEF DoPost, appVars
  <2>4. handling' # NoUpload => handling' \in Uploads
    BY <1>1, HeadTailProperties DEF DoPost, Inv, TypeOK
  <2>5. handling' # NoUpload => 0 <= request[handling'].parts
    BY <2>4 DEF Inv, TypeOK, Requests
  <2> QED BY <2>2, <2>3, <2>5 DEF HandlingInv
<1>2. CASE OpenFile
  <2>1. PICK h \in Uploads, k \in Nat : h = handling /\ k = stored
    BY <1>2 DEF OpenFile, Inv, TypeOK
  <2>2. /\ handling' = h /\ request' = request /\ h # NoUpload
        /\ stored' = k + 1 /\ writing' = NextName
        /\ k < request[h].parts /\ request[h].parts \in Nat /\ ~stuck'
    BY <1>2, <2>1 DEF OpenFile, appVars, netVars, Inv, TypeOK, Requests
  <2>3. /\ NextName \in DOMAIN dir'
        /\ dir'[NextName] = [by |-> h, part |-> k + 1, whole |-> FALSE]
    BY <1>2, <2>1 DEF OpenFile, Contents
  <2>4. \A p \in 1..k : IsStored(h, p)
    BY <1>2, <2>1 DEF OpenFile, Inv, HandlingInv
  <2>5. \A p \in 1..k : IsStored(h, p)'
    BY <2>4, StoredStays
  <2>6. \A p \in 1..(k + 1) : p \in 1..k \/ p = k + 1
    BY <2>1
  <2>7. NextName \in Nat \ {0}
    BY OpenFresh DEF Inv
  <2>8. \A p \in 1..stored' : (IsStored(handling, p) \/ p = stored)'
    BY <2>2, <2>5, <2>6 DEF IsStored
  <2> QED BY <2>2, <2>3, <2>7, <2>8 DEF HandlingInv
<1>3. CASE WriteFile
  <2>1. PICK h \in Uploads, k \in Nat : h = handling /\ k = stored
    BY <1>3 DEF WriteFile, Inv, HandlingInv, TypeOK
  <2>2. /\ handling' = h /\ request' = request /\ stored' = k /\ writing' = 0
        /\ h # NoUpload /\ k <= request[h].parts /\ ~stuck'
    BY <1>3, <2>1 DEF WriteFile, appVars, netVars, Inv, HandlingInv
  <2>3. /\ writing \in DOMAIN dir
        /\ dir[writing] = [by |-> h, part |-> k, whole |-> FALSE]
    BY <1>3, <2>1 DEF WriteFile, Inv, HandlingInv
  <2>5. dir'[writing] = [by |-> h, part |-> k, whole |-> TRUE]
    BY <1>3, <2>1, <2>3 DEF WriteFile, Contents
  <2>6. writing \in DOMAIN dir'
    BY <2>3, DirStep
  <2>7. IsStored(h, k)'
    BY <2>5, <2>6 DEF IsStored
  <2>8. \A p \in 1..k : p = k \/ IsStored(h, p)
    BY <2>1 DEF Inv, HandlingInv
  <2>9. \A p \in 1..k : IsStored(h, p)'
    BY <2>7, <2>8, StoredStays
  <2>10. \A p \in 1..stored' : IsStored(handling, p)'
    BY <2>2, <2>9 DEF IsStored
  <2> QED BY <2>2, <2>10 DEF HandlingInv
<1>4. CASE WriteFails \/ Respond \/ Restart \/ OpenFails
  BY <1>4 DEF WriteFails, Respond, Restart, OpenFails, Leave, netVars, HandlingInv, Inv, TypeOK
<1>5. ASSUME UNCHANGED <<handling, stored, writing, request, dir, stuck>>
      PROVE  HandlingInv'
  BY <1>5 DEF HandlingInv, Inv, IsStored
<1>6. CASE Stalls
  <2>1. stored = 0 /\ writing = 0
    BY <1>6 DEF Stalls, Inv, HandlingInv
  <2>2. Head(backlog) \in Uploads
    BY <1>6, HeadTailProperties DEF Stalls, Inv, TypeOK
  <2>3. /\ handling' \in Uploads /\ handling' # NoUpload /\ request' = request
        /\ stored' = 0 /\ writing' = 0
    BY <1>6, <2>1, <2>2 DEF Stalls, appVars
  <2>4. 0 <= request'[handling'].parts
    BY <2>3 DEF Inv, TypeOK, Requests
  <2> QED BY <2>3, <2>4 DEF HandlingInv
<1>7. CASE StallEnds
  BY <1>7 DEF StallEnds, HandlingInv, Inv
<1>8. \/ DoPost \/ OpenFile \/ WriteFile \/ WriteFails \/ Respond \/ Restart
      \/ OpenFails \/ Stalls \/ StallEnds
      \/ UNCHANGED <<handling, stored, writing, request, dir, stuck>>
  BY DEF Next, OnActivityResult, UploadFile, SendRequest, ReadResponse,
         UploadFails, GoesSilent, appVars, srvVars, netVars, vars
<1> QED BY <1>1, <1>2, <1>3, <1>4, <1>5, <1>6, <1>7, <1>8

\* A 200 is only ever sent for a request whose parts are all stored.
LEMMA AnsweredStep == Inv /\ [Next]_vars => AnsweredInv' /\ SuccessMeansStored'
<1> SUFFICES ASSUME Inv, [Next]_vars PROVE AnsweredInv' /\ SuccessMeansStored'
  OBVIOUS
<1>1. request' = request
  BY DEF Next, OnActivityResult, UploadFile, SendRequest, ReadResponse,
         UploadFails, GoesSilent, DoPost, Stalls, StallEnds, OpenFile, OpenFails,
         WriteFile, WriteFails, Respond, Restart, srvVars, appVars, netVars, vars
<1>2. ASSUME NEW u \in Uploads, response[u] = 200, NEW p \in 1..request[u].parts
      PROVE  IsStored(u, p)'
  BY <1>2, StoredStays DEF Inv, AnsweredInv
<1>3. ASSUME NEW u \in Uploads, response'[u] = 200, response[u] # 200,
             NEW p \in 1..request[u].parts
      PROVE  IsStored(u, p)'
  <2>1. CASE Respond
    <3>1. u = handling
      BY <1>3, <2>1 DEF Respond, Inv, TypeOK
    <3>2. IsStored(u, p)
      BY <1>3, <2>1, <3>1 DEF Respond, Inv, HandlingInv
    <3> QED BY <3>2, StoredStays
  <2>2. CASE DoPost
    BY <1>3, <2>2 DEF DoPost, Refusal, Inv, TypeOK
  <2>3. CASE WriteFails \/ Restart \/ OpenFails \/ StallEnds
    BY <1>3, <2>3 DEF WriteFails, Restart, OpenFails, StallEnds, Inv, TypeOK
  <2>4. CASE UNCHANGED response
    BY <1>3, <2>4
  <2> QED
    BY <2>1, <2>2, <2>3, <2>4 DEF Next, OnActivityResult, UploadFile,
       SendRequest, ReadResponse, UploadFails, GoesSilent, Stalls, OpenFile,
       WriteFile, srvVars, vars
<1>4. AnsweredInv'
  BY <1>1, <1>2, <1>3 DEF AnsweredInv, IsStored
<1>5. ASSUME NEW u \in Uploads, shown'[u] = "response",
             NEW p \in 1..request[u].parts
      PROVE  IsStored(u, p)'
  <2>1. shown[u] = "response" \/ response[u] = 200
    <3>1. ASSUME NEW v \in Uploads, ReadResponse(v) \/ UploadFails(v)
          PROVE  shown[u] = "response" \/ response[u] = 200
      BY <1>5, <3>1 DEF ReadResponse, UploadFails, ShowError, Inv, TypeOK
    <3>2. CASE UNCHANGED shown
      BY <1>5, <3>2
    <3> QED
      BY <3>1, <3>2 DEF Next, OnActivityResult, UploadFile, SendRequest,
         GoesSilent, DoPost, Stalls, StallEnds, OpenFile, OpenFails, WriteFile,
         WriteFails, Respond, Restart, appVars, vars
  <2>2. IsStored(u, p)
    BY <1>5, <2>1 DEF Inv, AnsweredInv, SuccessMeansStored, IsStored
  <2> QED BY <2>2, StoredStays
<1> QED BY <1>1, <1>4, <1>5 DEF SuccessMeansStored, IsStored

\* The invariant holds in every reachable state.
THEOREM Invariance == Spec => []Inv
<1>1. Init => Inv
  BY InvInit
<1>2. Inv /\ [Next]_vars => Inv'
  <2> SUFFICES ASSUME Inv, [Next]_vars PROVE Inv'
    OBVIOUS
  <2>1. TypeOK'
    BY TypeStep DEF Inv
  <2>2. DirInv'
    BY DirStep
  <2> QED BY <2>1, <2>2, HandlingStep, AnsweredStep DEF Inv
<1> QED BY <1>1, <1>2, PTL DEF Spec

\* Every variable keeps its type.
THEOREM TypeCorrect == Spec => []TypeOK
<1>1. Inv => TypeOK
  BY DEF Inv
<1> QED BY <1>1, Invariance, PTL

\* File names in use are always 1..n, so the next one is always new.
THEOREM NamesAreContiguous == Spec => []NamesContiguous
<1>1. Inv => NamesContiguous
  BY DEF Inv, DirInv
<1> QED BY <1>1, Invariance, PTL

\* The success line on the screen is true of the directory, always.
THEOREM SuccessIsTrue == Spec => []SuccessMeansStored
<1>1. Inv => SuccessMeansStored
  BY DEF Inv
<1> QED BY <1>1, Invariance, PTL

\* No upload is ever overwritten, truncated or removed by the server.
THEOREM UploadsSurvive == Spec => NeverOverwritten
<1>1. Inv /\ [Next]_vars =>
        [\A n \in DOMAIN dir :
           /\ n \in DOMAIN dir'
           /\ dir'[n].by = dir[n].by /\ dir'[n].part = dir[n].part
           /\ dir[n].whole => dir'[n].whole]_dir
  BY DirStep
<1> QED BY <1>1, Invariance, PTL DEF Spec, NeverOverwritten
=============================================================================
