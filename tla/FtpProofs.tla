------------------------------- MODULE FtpProofs -------------------------------
(***************************************************************************)
(* For any transfers an application may ask for, libcurl and the server    *)
(* stay in step on the control connection of lib/ftp.c, and a file is      *)
(* named to the server only in its directory.  The argument follows the    *)
(* functions that send the next command: each sends one command and enters *)
(* the state that waits for its reply, or sends nothing and stops.         *)
(***************************************************************************)
EXTENDS Ftp, SequenceTheorems, TLAPS

Fields ==
  {"o", "state", "count1", "count2", "count3", "cwdcount", "cwddone", "cwdfail", "transfer", "type", "pending",
   "ctlValid", "doMore", "waitData", "moving", "epsv", "eprt", "dontCheck", "tls", "alternative", "entrypath",
   "os", "reuse", "prevpath"}

\* the same transfer, in the same place
Kin(f, g) ==
  /\ DOMAIN f = Fields /\ DOMAIN g = Fields
  /\ g.o = f.o /\ g.reuse = f.reuse /\ g.prevpath = f.prevpath /\ g.dontCheck = f.dontCheck
Alike(f, g) ==
  /\ Kin(f, g)
  /\ g.ctlValid = f.ctlValid /\ g.cwddone = f.cwddone /\ g.entrypath = f.entrypath
Flow(f, g) == g.moving = f.moving /\ g.waitData = f.waitData
Like(f, g) == Alike(f, g) /\ Flow(f, g) /\ g.cwdfail = f.cwdfail

\* A step asks the server something, stops or fails.
Asks(s, S) == s.error = "no" /\ s.ftp.state \in S /\ s.cmd = CommandOf(s.ftp.state) /\ s.ftp.pending = TRUE
Stops(s) == s.error = "no" /\ s.ftp.state = "STOP" /\ s.cmd = "" /\ s.ftp.pending = FALSE
Fails(s) == s.error \in {"kept", "fatal"} /\ s.cmd = "" /\ s.ftp.pending = FALSE

LoginStates == {"WAIT220", "AUTH", "USER", "PASS", "ACCT", "PBSZ", "PROT", "CCC", "PWD", "SYST", "NAMEFMT"}
DirStates == {"QUOTE", "CWD", "MKD"}
DoingStates == {"MDTM", "TYPE", "SIZE", "REST", "PRET", "PASV", "PORT", "RETR_PREQUOTE"}
MoreStates == {"LIST_TYPE", "RETR_TYPE", "STOR_TYPE", "RETR_LIST_TYPE", "RETR_PREQUOTE", "STOR_PREQUOTE",
               "LIST_PREQUOTE", "RETR_SIZE", "STOR_SIZE", "RETR_REST", "RETR", "STOR", "LIST"}

\* before the data connection: quotes in RETR_PREQUOTE and an early end without a body only
DoingStep(f, s) ==
  /\ Like(f, s.ftp)
  /\ \/ Asks(s, DoingStates) /\ (s.ftp.state = "RETR_PREQUOTE" => s.ftp.transfer # "body")
     \/ Stops(s) /\ s.ftp.transfer # "body"
     \/ Fails(s)

\* with a data connection
MoreStep(f, s) ==
  /\ Like(f, s.ftp)
  /\ (Asks(s, MoreStates) /\ s.ftp.transfer = "body") \/ Stops(s) \/ Fails(s)

LoginStep(f, s) == Kin(f, s.ftp) /\ Flow(f, s.ftp) /\ (Asks(s, LoginStates) \/ Stops(s) \/ (Fails(s) /\ s.error = "fatal"))

Quiet(f) == DOMAIN f = Fields /\ f.pending = FALSE

-----------------------------------------------------------------------------
(* One lemma for each way to end a function. *)

\* s is f with a command sent; a command sent is the command its state waits for
IsSent(s, f, cmd, st) ==
  /\ s.error = "no" /\ s.cmd = cmd /\ s.ftp.state = st /\ s.ftp.pending = TRUE
  /\ Like(f, s.ftp) /\ s.ftp.transfer = f.transfer /\ s.ftp.cwdcount = f.cwdcount

LEMMA SentIs ==
  ASSUME NEW f, DOMAIN f = Fields, NEW cmd, NEW st
  PROVE  IsSent(Sent(f, cmd, st), f, cmd, st)
  BY DEF Sent, Step, Like, Alike, Kin, Flow, IsSent, Fields

LEMMA SentAsks ==
  ASSUME NEW f, DOMAIN f = Fields, NEW S, NEW st \in S, NEW cmd, cmd = CommandOf(st), NEW s, s = Sent(f, cmd, st)
  PROVE  Asks(s, S) /\ Like(f, s.ftp)
<1>1. IsSent(s, f, cmd, st)
  BY SentIs
<1> QED
  BY <1>1 DEF IsSent, Asks

LEMMA SentDoing ==
  ASSUME NEW f, DOMAIN f = Fields, NEW st \in DoingStates, NEW cmd, cmd = CommandOf(st),
         st = "RETR_PREQUOTE" => f.transfer # "body", NEW s, s = Sent(f, cmd, st)
  PROVE  DoingStep(f, s)
<1>1. Asks(s, DoingStates) /\ Like(f, s.ftp)
  BY SentAsks
<1>2. IsSent(s, f, cmd, st)
  BY SentIs
<1> QED
  BY <1>1, <1>2 DEF DoingStep, IsSent

LEMMA Same == ASSUME NEW f, DOMAIN f = Fields PROVE Like(f, f)
  BY DEF Like, Alike, Kin, Flow

LEMMA StopIs ==
  ASSUME NEW f, Quiet(f), NEW s, s = Stop(f)
  PROVE  Stops(s) /\ Like(f, s.ftp) /\ s.ftp.transfer = f.transfer
  BY DEF Stop, Step, Stops, Like, Alike, Kin, Flow, Quiet, Fields

LEMMA FailIs ==
  ASSUME NEW f, Quiet(f), NEW s, s = Kept(f) \/ s = Fatal(f)
  PROVE  Fails(s) /\ s.ftp = f /\ Like(f, s.ftp)
<1>1. CASE s = Kept(f)
  BY <1>1 DEF Kept, Error, Fails, Like, Alike, Kin, Flow, Quiet
<1>2. CASE s = Fatal(f)
  BY <1>2 DEF Fatal, Error, Fails, Like, Alike, Kin, Flow, Quiet
<1> QED
  BY <1>1, <1>2

LEMMA Commands ==
  /\ \A st \in {"QUOTE", "RETR_PREQUOTE", "STOR_PREQUOTE", "LIST_PREQUOTE", "POSTQUOTE"} : CommandOf(st) = "QUOTE"
  /\ \A st \in {"TYPE", "LIST_TYPE", "RETR_TYPE", "STOR_TYPE", "RETR_LIST_TYPE"} : CommandOf(st) = "TYPE"
  /\ \A st \in {"SIZE", "RETR_SIZE", "STOR_SIZE"} : CommandOf(st) = "SIZE"
  /\ \A st \in {"REST", "RETR_REST"} : CommandOf(st) = "REST"
  /\ CommandOf("WAIT220") = "greeting"
  /\ \A st \in {"AUTH", "USER", "PASS", "ACCT", "PBSZ", "PROT", "CCC", "PWD", "SYST", "NAMEFMT", "CWD", "MKD",
                "MDTM", "PRET", "PASV", "PORT", "RETR", "STOR", "LIST"} : CommandOf(st) = st
  BY DEF CommandOf

LEMMA LikeTrans == ASSUME NEW f, NEW g, NEW h, Like(f, g), Like(g, h) PROVE Like(f, h)
  BY DEF Like, Alike, Kin, Flow

LEMMA DoingTrans == ASSUME NEW f, NEW g, Like(f, g), NEW s, DoingStep(g, s) PROVE DoingStep(f, s)
  BY LikeTrans DEF DoingStep

\* what is changed on the way to a command
Near(f, g) == Quiet(g) /\ Like(f, g) /\ g.transfer = f.transfer
Counted(f, g) == Near(f, g) /\ g.cwdcount = f.cwdcount

LEMMA Count1 == ASSUME NEW f, Quiet(f), NEW n PROVE Counted(f, [f EXCEPT !.count1 = n])
  BY DEF Quiet, Like, Alike, Kin, Flow, Fields, Near, Counted
LEMMA Count2 == ASSUME NEW f, Quiet(f), NEW n PROVE Counted(f, [f EXCEPT !.count2 = n])
  BY DEF Quiet, Like, Alike, Kin, Flow, Fields, Near, Counted
LEMMA SetEprt == ASSUME NEW f, Quiet(f), NEW n PROVE Counted(f, [f EXCEPT !.eprt = n])
  BY DEF Quiet, Like, Alike, Kin, Flow, Fields, Near, Counted
LEMMA SetEpsv == ASSUME NEW f, Quiet(f), NEW n, NEW v PROVE Counted(f, [f EXCEPT !.epsv = n, !.count1 = v])
  BY DEF Quiet, Like, Alike, Kin, Flow, Fields, Near, Counted
LEMMA TypeSet == ASSUME NEW f, Quiet(f), NEW n PROVE Counted(f, [f EXCEPT !.type = n])
  BY DEF Quiet, Like, Alike, Kin, Flow, Fields, Near, Counted
LEMMA SetCwdcount == ASSUME NEW f, Quiet(f), NEW n, NEW g, g = [f EXCEPT !.cwdcount = n] PROVE Near(f, g) /\ g.cwdcount = n
  BY DEF Quiet, Like, Alike, Kin, Flow, Fields, Near
LEMMA SetTransfer == ASSUME NEW f, Quiet(f), NEW n, NEW g, g = [f EXCEPT !.transfer = n] PROVE Quiet(g) /\ Like(f, g) /\ g.transfer = n
  BY DEF Quiet, Like, Alike, Kin, Flow, Fields

-----------------------------------------------------------------------------
(* The functions before the data connection. *)

LEMMA InfoPrequote ==
  ASSUME NEW f, Quiet(f), f.transfer # "body", NEW n, NEW s \in Prequote(f, "RETR_PREQUOTE", n)
  PROVE  DoingStep(f, s)
<1> DEFINE g == [f EXCEPT !.count1 = n]
<1>1. Counted(f, g)
  BY Count1
<1>2. Quiet(g) /\ Like(f, g) /\ g.transfer # "body" /\ DOMAIN g = Fields
  BY <1>1 DEF Counted, Near, Quiet
<1>3. s \in {Sent(g, "QUOTE", "RETR_PREQUOTE"), Stop(g)}
  BY <1>2 DEF Prequote
<1> HIDE DEF g
<1>4. CASE s = Sent(g, "QUOTE", "RETR_PREQUOTE")
  <2>1. DoingStep(g, s)
    BY <1>2, <1>4, SentDoing, Commands DEF DoingStates
  <2> QED
    BY <1>2, <2>1, DoingTrans
<1>5. CASE s = Stop(g)
  <2>1. Stops(s) /\ Like(g, s.ftp) /\ s.ftp.transfer # "body"
    BY <1>2, <1>5, StopIs
  <2> QED
    BY <1>2, <2>1, LikeTrans DEF DoingStep
<1> QED
  BY <1>3, <1>4, <1>5

LEMMA UsesPasv == ASSUME NEW f, Quiet(f) PROVE DoingStep(f, UsePasv(f))
<1> DEFINE g == [f EXCEPT !.count1 = IF f.epsv THEN 0 ELSE 1]
<1>1. Like(f, g) /\ DOMAIN g = Fields
  BY Count1 DEF Counted, Near, Quiet
<1>2. UsePasv(f) = Sent(g, "PASV", "PASV")
  BY DEF UsePasv
<1> HIDE DEF g
<1>3. DoingStep(g, UsePasv(f))
  BY <1>1, <1>2, SentDoing, Commands DEF DoingStates
<1> QED
  BY <1>1, <1>3, DoingTrans

LEMMA UsesPort == ASSUME NEW f, Quiet(f), NEW n, NEW s \in UsePort(f, n) PROVE DoingStep(f, s)
<1> DEFINE g == [f EXCEPT !.count1 = IF n = 0 /\ ~f.eprt THEN 1 ELSE n]
<1>1. Like(f, g) /\ DOMAIN g = Fields
  BY Count1 DEF Counted, Near, Quiet
<1>2. s \in {Sent(g, "PORT", "PORT"), Kept(f)}
  BY DEF UsePort
<1> HIDE DEF g
<1>3. CASE s = Sent(g, "PORT", "PORT")
  <2>1. DoingStep(g, s)
    BY <1>1, <1>3, SentDoing, Commands DEF DoingStates
  <2> QED
    BY <1>1, <2>1, DoingTrans
<1>4. CASE s = Kept(f)
  BY <1>4, FailIs DEF DoingStep
<1> QED
  BY <1>2, <1>3, <1>4

LEMMA Prepares == ASSUME NEW f, Quiet(f), NEW s \in Prepare(f) PROVE DoingStep(f, s)
<1>1. CASE f.transfer # "body"
  BY <1>1, InfoPrequote DEF Prepare
<1>2. CASE f.transfer = "body" /\ f.o.port
  BY <1>2, UsesPort DEF Prepare
<1>3. CASE f.transfer = "body" /\ ~f.o.port
  <2>1. s = Sent(f, "PRET", "PRET") \/ s = UsePasv(f)
    BY <1>3 DEF Prepare
  <2>2. CASE s = Sent(f, "PRET", "PRET")
    BY <2>2, SentDoing, Commands DEF DoingStates, Quiet
  <2> QED
    BY <2>1, <2>2, UsesPasv
<1> QED
  BY <1>1, <1>2, <1>3

LEMMA Rests == ASSUME NEW f, Quiet(f), NEW s \in Rest(f) PROVE DoingStep(f, s)
<1>1. CASE s = Sent(f, "REST", "REST")
  BY <1>1, SentDoing, Commands DEF DoingStates, Quiet
<1> QED
  BY <1>1, Prepares DEF Rest

LEMMA Sizes == ASSUME NEW f, Quiet(f), NEW s \in Size(f) PROVE DoingStep(f, s)
<1>1. CASE s = Sent(f, "SIZE", "SIZE")
  BY <1>1, SentDoing, Commands DEF DoingStates, Quiet
<1> QED
  BY <1>1, Rests DEF Size

LEMMA Types == ASSUME NEW f, Quiet(f), NEW s \in Type(f) PROVE DoingStep(f, s)
<1> DEFINE g == [f EXCEPT !.transfer = "info"]
           h == [g EXCEPT !.type = Ascii(f)]
<1>1. Quiet(g) /\ Like(f, g)
  BY SetTransfer
<1>2. Like(g, h) /\ DOMAIN h = Fields
  <2> HIDE DEF g
  <2> QED
    BY <1>1, TypeSet DEF Counted, Near, Quiet
<1>3. s \in Size(f) \/ s \in Size(g) \/ s = Sent(h, "TYPE", "TYPE")
  BY DEF Type, SetType, Typed
<1> HIDE DEF g, h
<1>4. CASE s \in Size(g)
  BY <1>1, <1>4, Sizes, DoingTrans
<1>5. CASE s = Sent(h, "TYPE", "TYPE")
  <2>1. DoingStep(h, s)
    BY <1>2, <1>5, SentDoing, Commands DEF DoingStates
  <2> QED
    BY <2>1, <1>1, <1>2, DoingTrans
<1> QED
  BY <1>3, <1>4, <1>5, Sizes

LEMMA Mdtms == ASSUME NEW f, Quiet(f), NEW s \in Mdtm(f) PROVE DoingStep(f, s)
<1>1. CASE s = Sent(f, "MDTM", "MDTM")
  BY <1>1, SentDoing, Commands DEF DoingStates, Quiet
<1> QED
  BY <1>1, Types DEF Mdtm

\* the way to the directory: it is entered already, or CWD is sent
CwdStep(f, s) ==
  \/ DoingStep(f, s) /\ (f.cwddone \/ (~(f.reuse /\ f.entrypath) /\ f.o.dir = <<>>))
  \/ /\ Like(f, s.ftp) /\ Asks(s, {"CWD"}) /\ ~f.cwddone
     /\ \/ f.reuse /\ f.entrypath /\ s.ftp.cwdcount = 0
        \/ ~(f.reuse /\ f.entrypath) /\ f.o.dir # <<>> /\ s.ftp.cwdcount = 1

LEMMA Cwds == ASSUME NEW f, Quiet(f), NEW s \in Cwd(f) PROVE CwdStep(f, s)
<1>1. CASE f.cwddone
  BY <1>1, Mdtms DEF Cwd, CwdStep
<1>2. CASE ~f.cwddone
  <2> DEFINE g == [f EXCEPT !.count2 = 0]
             h(n) == [g EXCEPT !.cwdcount = n]
             r(n) == Sent(h(n), "CWD", "CWD")
  <2>1. Quiet(g) /\ Like(f, g)
    BY Count2 DEF Counted, Near
  <2>2. \A n : Like(g, h(n)) /\ DOMAIN h(n) = Fields /\ h(n).cwdcount = n
    <3> TAKE n
    <3>1. Near(g, h(n)) /\ h(n).cwdcount = n
      <4> HIDE DEF g
      <4> QED
        BY <2>1, SetCwdcount
    <3> HIDE DEF g, h
    <3> QED
      BY <3>1 DEF Near, Quiet
  <2>3. ASSUME NEW n PROVE Like(f, r(n).ftp) /\ Asks(r(n), {"CWD"}) /\ r(n).ftp.cwdcount = n
    <3>1. Like(h(n), r(n).ftp) /\ Asks(r(n), {"CWD"})
      <4> HIDE DEF h
      <4> QED
        BY <2>2, SentAsks, Commands
    <3>2. IsSent(r(n), h(n), "CWD", "CWD")
      <4> HIDE DEF h
      <4> QED
        BY <2>2, SentIs
    <3>3. Like(f, h(n))
      <4> HIDE DEF g
      <4> QED
        BY <2>1, <2>2, LikeTrans
    <3>4. r(n).ftp.cwdcount = n
      <4> HIDE DEF r, h
      <4> QED
        BY <2>2, <3>2 DEF IsSent
    <3> HIDE DEF r, h
    <3> QED
      BY <3>1, <3>3, <3>4, LikeTrans
  <2>4. \/ f.reuse /\ f.entrypath /\ s = r(0)
        \/ ~(f.reuse /\ f.entrypath) /\ f.o.dir # <<>> /\ s = r(1)
        \/ ~(f.reuse /\ f.entrypath) /\ f.o.dir = <<>> /\ s \in Mdtm(g)
    <3>1. g.o = f.o /\ g.reuse = f.reuse /\ g.entrypath = f.entrypath
      BY <2>1 DEF Like, Alike, Kin
    <3> QED
      BY <1>2, <3>1 DEF Cwd
  <2> HIDE DEF g, h, r
  <2> QED
    BY <1>2, <2>1, <2>3, <2>4, Mdtms, DoingTrans DEF CwdStep
<1> QED
  BY <1>1, <1>2

QuoteStep(f, s) == CwdStep(f, s) \/ (Like(f, s.ftp) /\ Asks(s, {"QUOTE"}))

LEMMA Quotes == ASSUME NEW f, Quiet(f), NEW n, NEW s \in Quote(f, n) PROVE QuoteStep(f, s)
<1> DEFINE g == [f EXCEPT !.count1 = n]
<1>1. Quiet(g) /\ Like(f, g) /\ DOMAIN g = Fields
  BY Count1 DEF Counted, Near, Quiet
<1>2. s = Sent(g, "QUOTE", "QUOTE") \/ s \in Cwd(g)
  BY DEF Quote
<1> HIDE DEF g
<1>3. CASE s = Sent(g, "QUOTE", "QUOTE")
  <2>1. Like(g, s.ftp) /\ Asks(s, {"QUOTE"})
    BY <1>1, <1>3, SentAsks, Commands
  <2> QED
    BY <1>1, <2>1, LikeTrans DEF QuoteStep
<1>4. CASE s \in Cwd(g)
  <2>1. CwdStep(g, s)
    BY <1>1, <1>4, Cwds
  <2>2. g.o = f.o /\ g.reuse = f.reuse /\ g.entrypath = f.entrypath /\ g.cwddone = f.cwddone
    BY <1>1 DEF Like, Alike, Kin
  <2> QED
    BY <1>1, <2>1, <2>2, LikeTrans, DoingTrans DEF CwdStep, QuoteStep
<1> QED
  BY <1>2, <1>3, <1>4
-----------------------------------------------------------------------------
(* The functions with a data connection. *)

LEMMA SentMore ==
  ASSUME NEW f, DOMAIN f = Fields, f.transfer = "body", NEW st \in MoreStates, NEW cmd, cmd = CommandOf(st),
         NEW s, s = Sent(f, cmd, st)
  PROVE  MoreStep(f, s)
<1>1. Asks(s, MoreStates) /\ Like(f, s.ftp)
  BY SentAsks
<1>2. IsSent(s, f, cmd, st)
  BY SentIs
<1> QED
  BY <1>1, <1>2 DEF MoreStep, IsSent

LEMMA MoreTrans == ASSUME NEW f, NEW g, Like(f, g), NEW s, MoreStep(g, s) PROVE MoreStep(f, s)
  BY LikeTrans DEF MoreStep

LEMMA MoreEnds ==
  ASSUME NEW f, Quiet(f), NEW n, NEW s, s = Stop([f EXCEPT !.transfer = n]) \/ s = Kept(f) \/ s = Fatal(f)
  PROVE  MoreStep(f, s)
<1> DEFINE g == [f EXCEPT !.transfer = n]
<1>1. Quiet(g) /\ Like(f, g)
  BY SetTransfer
<1> HIDE DEF g
<1>2. CASE s = Stop(g)
  <2>1. Stops(s) /\ Like(g, s.ftp)
    BY <1>1, <1>2, StopIs
  <2> QED
    BY <1>1, <2>1, LikeTrans DEF MoreStep
<1>3. CASE s = Kept(f) \/ s = Fatal(f)
  BY <1>3, FailIs DEF MoreStep
<1> QED
  BY <1>2, <1>3 DEF g

LEMMA Uploads ==
  ASSUME NEW f, Quiet(f), f.transfer = "body", NEW b, NEW s \in UploadSetup(f, b)
  PROVE  MoreStep(f, s)
<1>1. s = Sent(f, "SIZE", "STOR_SIZE") \/ s = Sent(f, "STOR", "STOR") \/ s = Stop([f EXCEPT !.transfer = "none"]) \/ s = Fatal(f)
  BY DEF UploadSetup
<1>2. DOMAIN f = Fields
  BY DEF Quiet
<1>3. CASE s = Sent(f, "SIZE", "STOR_SIZE")
  BY <1>2, <1>3, SentMore, Commands DEF MoreStates
<1>4. CASE s = Sent(f, "STOR", "STOR")
  BY <1>2, <1>4, SentMore, Commands DEF MoreStates
<1> QED
  BY <1>1, <1>3, <1>4, MoreEnds

LEMMA BodyPrequote ==
  ASSUME NEW f, Quiet(f), f.transfer = "body", NEW n, NEW st \in {"RETR_PREQUOTE", "STOR_PREQUOTE", "LIST_PREQUOTE"},
         NEW s \in Prequote(f, st, n)
  PROVE  MoreStep(f, s)
<1> DEFINE g == [f EXCEPT !.count1 = n]
<1>1. Quiet(g) /\ Like(f, g) /\ g.transfer = "body" /\ DOMAIN g = Fields
  BY Count1 DEF Counted, Near, Quiet
<1>2. \/ s \in {Sent(g, "QUOTE", st), Sent(g, "LIST", "LIST"), Sent(g, "RETR", "RETR"), Sent(g, "SIZE", "RETR_SIZE")}
      \/ s \in UploadSetup(g, FALSE)
  BY <1>1 DEF Prequote, RetrSize
<1> HIDE DEF g
<1>3. MoreStep(g, s)
  <2>1. CASE s = Sent(g, "QUOTE", st)
    BY <1>1, <2>1, SentMore, Commands DEF MoreStates
  <2>2. CASE s = Sent(g, "LIST", "LIST")
    BY <1>1, <2>2, SentMore, Commands DEF MoreStates
  <2>3. CASE s = Sent(g, "RETR", "RETR")
    BY <1>1, <2>3, SentMore, Commands DEF MoreStates
  <2>4. CASE s = Sent(g, "SIZE", "RETR_SIZE")
    BY <1>1, <2>4, SentMore, Commands DEF MoreStates
  <2> QED
    BY <1>1, <1>2, <2>1, <2>2, <2>3, <2>4, Uploads
<1> QED
  BY <1>1, <1>3, MoreTrans

TypeStates == {"LIST_TYPE", "RETR_TYPE", "STOR_TYPE", "RETR_LIST_TYPE"}

LEMMA BodyTyped ==
  ASSUME NEW f, Quiet(f), f.transfer = "body", NEW st \in TypeStates, NEW s \in Typed(f, st)
  PROVE  MoreStep(f, s)
<1>1. CASE st = "LIST_TYPE"
  <2>1. s = Sent(f, "LIST", "LIST")
    BY <1>1 DEF Typed
  <2> QED
    BY <2>1, SentMore, Commands DEF MoreStates, Quiet
<1>2. CASE st # "LIST_TYPE"
  <2>1. \E q \in {"RETR_PREQUOTE", "STOR_PREQUOTE", "LIST_PREQUOTE"} : s \in Prequote(f, q, 0)
    BY <1>2 DEF Typed, TypeStates
  <2> QED
    BY <2>1, BodyPrequote
<1> QED
  BY <1>1, <1>2

LEMMA BodyType ==
  ASSUME NEW f, Quiet(f), f.transfer = "body", NEW a, NEW st \in TypeStates, NEW s \in SetType(f, a, st)
  PROVE  MoreStep(f, s)
<1> DEFINE g == [f EXCEPT !.type = a]
<1>1. Like(f, g) /\ g.transfer = "body" /\ DOMAIN g = Fields
  BY TypeSet DEF Counted, Near, Quiet
<1>2. s \in Typed(f, st) \/ s = Sent(g, "TYPE", st)
  BY DEF SetType
<1> HIDE DEF g
<1>3. CASE s = Sent(g, "TYPE", st)
  <2>1. MoreStep(g, s)
    BY <1>1, <1>3, SentMore, Commands DEF MoreStates, TypeStates
  <2> QED
    BY <1>1, <2>1, MoreTrans
<1> QED
  BY <1>2, <1>3, BodyTyped

LEMMA FirstCommands ==
  ASSUME NEW f, Quiet(f), f.transfer = "body", NEW s \in FirstCommand(f)
  PROVE  MoreStep(f, s)
<1>1. \E a \in {"A", "I"}, st \in TypeStates : s \in SetType(f, a, st)
  BY DEF FirstCommand, TypeStates, Ascii
<1> QED
  BY <1>1, BodyType

-----------------------------------------------------------------------------
(* What each state makes of a reply. *)

LEMMA MoreReplies ==
  ASSUME NEW f, Quiet(f), f.transfer = "body", f.state \in MoreStates, f.state \notin DataCommands,
         NEW code, NEW s \in OnReply(f, code)
  PROVE  MoreStep(f, s)
<1>1. DOMAIN f = Fields
  BY DEF Quiet
<1>2. CASE f.state \in {"RETR_PREQUOTE", "STOR_PREQUOTE", "LIST_PREQUOTE"}
  <2>1. s = Fatal(f) \/ s \in Prequote(f, f.state, f.count1 + 1)
    BY <1>2 DEF OnReply, OnQuote
  <2> QED
    BY <1>2, <2>1, BodyPrequote, MoreEnds
<1>3. CASE f.state \in TypeStates
  <2>1. s = Kept(f) \/ s \in Typed(f, f.state)
    BY <1>3 DEF OnReply, TypeStates
  <2> QED
    BY <1>3, <2>1, BodyTyped, MoreEnds
<1>4. CASE f.state = "STOR_SIZE"
  <2>1. s \in UploadSetup(f, TRUE)
    BY <1>4 DEF OnReply, OnSize
  <2> QED
    BY <2>1, Uploads
<1>5. CASE f.state = "RETR_SIZE"
  <2>1. s \in {Kept(f), Sent(f, "RETR", "RETR"), Sent(f, "REST", "RETR_REST"), Stop([f EXCEPT !.transfer = "none"])}
    BY <1>5 DEF OnReply, OnSize, Retr
  <2>2. CASE s = Sent(f, "RETR", "RETR")
    BY <1>1, <2>2, SentMore, Commands DEF MoreStates
  <2>3. CASE s = Sent(f, "REST", "RETR_REST")
    BY <1>1, <2>3, SentMore, Commands DEF MoreStates
  <2> QED
    BY <2>1, <2>2, <2>3, MoreEnds
<1>6. CASE f.state = "RETR_REST"
  <2>1. s \in {Fatal(f), Sent(f, "RETR", "RETR")}
    BY <1>6 DEF OnReply
  <2>2. CASE s = Sent(f, "RETR", "RETR")
    BY <1>1, <2>2, SentMore, Commands DEF MoreStates
  <2> QED
    BY <2>1, <2>2, MoreEnds
<1> QED
  BY <1>2, <1>3, <1>4, <1>5, <1>6 DEF MoreStates, TypeStates, DataCommands

\* what a reply to the data command leads to, with a 1xx
DataStep(f, s) ==
  /\ Alike(f, s.ftp) /\ s.ftp.cwdfail = f.cwdfail /\ s.ftp.transfer = f.transfer
  /\ s.error = "no" /\ s.cmd = "" /\ s.ftp.state = "STOP"
  /\ \/ s.ftp.waitData = TRUE /\ s.ftp.moving = f.moving /\ s.ftp.pending = FALSE
     \/ s.ftp.waitData = FALSE /\ s.ftp.moving = TRUE /\ s.ftp.pending = TRUE

LEMMA Initiates == ASSUME NEW f, DOMAIN f = Fields PROVE DataStep(f, Initiate(f))
  BY DEF Initiate, Step, DataStep, Alike, Kin, Fields

LEMMA DataReplies ==
  ASSUME NEW f, Quiet(f), f.transfer = "body", f.state \in DataCommands, NEW code, NEW s \in OnReply(f, code)
  PROVE  IF code = "1xx" THEN DataStep(f, s) ELSE MoreStep(f, s)
<1>1. s \in OnData(f, code)
  BY DEF OnReply, DataCommands
<1>2. DOMAIN f = Fields
  BY DEF Quiet
<1>3. CASE code = "1xx"
  <2>1. CASE s = Stop([f EXCEPT !.waitData = TRUE])
    <3> DEFINE g == [f EXCEPT !.waitData = TRUE]
    <3>1. /\ Quiet(g) /\ Alike(f, g) /\ g.cwdfail = f.cwdfail /\ g.transfer = f.transfer /\ g.moving = f.moving
          /\ g.waitData = TRUE
      BY DEF Alike, Kin, Fields, Quiet
    <3> HIDE DEF g
    <3>2. Stops(s) /\ Like(g, s.ftp) /\ s.ftp.transfer = g.transfer
      BY <2>1, <3>1, StopIs DEF g
    <3> QED
      BY <1>3, <3>1, <3>2 DEF DataStep, Stops, Like, Flow, Alike, Kin
  <2>2. s = Stop([f EXCEPT !.waitData = TRUE]) \/ s = Initiate(f)
    BY <1>1, <1>3 DEF OnData
  <2> QED
    BY <1>2, <1>3, <2>1, <2>2, Initiates
<1>4. CASE code # "1xx"
  <2>1. s = Kept(f) \/ s = Stop([f EXCEPT !.transfer = "none"])
    BY <1>1, <1>4 DEF OnData
  <2> QED
    BY <1>4, <2>1, MoreEnds
<1> QED
  BY <1>3, <1>4

LEMMA Disables == ASSUME NEW f, Quiet(f), NEW s \in EpsvDisable(f) PROVE DoingStep(f, s) /\ ~Stops(s)
<1> DEFINE g == [f EXCEPT !.epsv = FALSE, !.count1 = f.count1 + 1]
<1>1. Like(f, g) /\ DOMAIN g = Fields
  BY SetEpsv DEF Counted, Near, Quiet
<1>2. s = Fatal(f) \/ s = Sent(g, "PASV", "PASV")
  BY DEF EpsvDisable
<1> HIDE DEF g
<1>3. CASE s = Sent(g, "PASV", "PASV")
  <2>1. DoingStep(g, s)
    BY <1>1, <1>3, SentDoing, Commands DEF DoingStates
  <2>2. IsSent(s, g, "PASV", "PASV")
    BY <1>1, <1>3, SentIs
  <2>3. ~Stops(s)
    BY <2>2 DEF IsSent, Stops
  <2> QED
    BY <1>1, <2>1, <2>3, DoingTrans
<1>4. CASE s = Fatal(f)
  <2>1. Fails(s) /\ Like(f, s.ftp)
    BY <1>4, FailIs
  <2> QED
    BY <2>1 DEF DoingStep, Fails, Stops
<1> QED
  BY <1>2, <1>3, <1>4

\* a reply before the data connection; PASV or PORT may lead to one
DoingReply(f, s) == DoingStep(f, s) \/ (f.state \in {"PASV", "PORT"} /\ Like(f, s.ftp) /\ Stops(s))

LEMMA DoingReplies ==
  ASSUME NEW f, Quiet(f), f.ctlValid = TRUE, f.state \in DoingStates, f.state = "RETR_PREQUOTE" => f.transfer # "body",
         NEW code, NEW s \in OnReply(f, code)
  PROVE  DoingReply(f, s)
<1>0. DoingStep(f, s) => DoingReply(f, s)
  BY DEF DoingReply
<1>1. s = Kept(f) \/ s = Fatal(f) => DoingReply(f, s)
  BY <1>0, FailIs DEF DoingStep
<1>2. CASE f.state = "MDTM"
  <2> DEFINE g == [f EXCEPT !.transfer = "none"]
  <2>1. Quiet(g) /\ Like(f, g) /\ g.transfer # "body"
    BY SetTransfer
  <2>2. s = Stop(g) \/ s \in Type(f)
    BY <1>2 DEF OnReply, DataCommands
  <2> HIDE DEF g
  <2>3. CASE s = Stop(g)
    <3>1. Stops(s) /\ Like(g, s.ftp) /\ s.ftp.transfer # "body"
      BY <2>1, <2>3, StopIs
    <3> QED
      BY <2>1, <3>1, <1>0, LikeTrans DEF DoingStep
  <2> QED
    BY <1>0, <2>2, <2>3, Types
<1>3. CASE f.state = "TYPE"
  <2>1. s = Kept(f) \/ s \in Size(f)
    BY <1>3 DEF OnReply, Typed, DataCommands
  <2> QED
    BY <1>0, <1>1, <2>1, Sizes
<1>4. CASE f.state = "SIZE"
  <2>1. s = Kept(f) \/ s \in Rest(f)
    BY <1>4 DEF OnReply, OnSize, DataCommands
  <2> QED
    BY <1>0, <1>1, <2>1, Rests
<1>5. CASE f.state = "REST"
  <2>1. s \in Prepare(f)
    BY <1>5 DEF OnReply, DataCommands
  <2> QED
    BY <1>0, <2>1, Prepares
<1>6. CASE f.state = "PRET"
  <2>1. s = UsePasv(f) \/ s = Fatal(f)
    BY <1>6 DEF OnReply, DataCommands
  <2> QED
    BY <1>0, <1>1, <2>1, UsesPasv
<1>7. CASE f.state = "PASV"
  <2>1. s \in {Stop([f EXCEPT !.doMore = TRUE]), Kept(f), Fatal(f)} \/ s \in EpsvDisable(f)
    BY <1>7 DEF OnReply, OnPasv, DataCommands
  <2>2. CASE s = Stop([f EXCEPT !.doMore = TRUE])
    BY <1>7, <2>2 DEF Stop, Step, Stops, DoingReply, Like, Alike, Kin, Flow, Fields, Quiet
  <2> QED
    BY <1>0, <1>1, <2>1, <2>2, Disables
<1>8. CASE f.state = "PORT"
  <2> DEFINE g == [f EXCEPT !.eprt = FALSE]
  <2>1. Quiet(g) /\ Like(f, g)
    BY SetEprt DEF Counted, Near
  <2>2. \/ s = Stop([f EXCEPT !.doMore = TRUE, !.ctlValid = TRUE])
        \/ \E h \in {f, g} : s = Kept(h) \/ s \in UsePort(h, f.count1 + 1)
    <3>1. g.count1 = f.count1
      BY DEF Fields, Quiet
    <3> QED
      BY <1>8, <3>1 DEF OnReply, OnPort, DataCommands
  <2> HIDE DEF g
  <2>3. CASE s = Stop([f EXCEPT !.doMore = TRUE, !.ctlValid = TRUE])
    BY <1>8, <2>3 DEF Stop, Step, Stops, DoingReply, Like, Alike, Kin, Flow, Fields, Quiet
  <2>4. CASE \E h \in {f, g} : s = Kept(h) \/ s \in UsePort(h, f.count1 + 1)
    <3>1. PICK h \in {f, g} : s = Kept(h) \/ s \in UsePort(h, f.count1 + 1)
      BY <2>4
    <3>2. Quiet(h) /\ Like(f, h)
      BY <2>1, <3>1, Same DEF Quiet
    <3>3. CASE s = Kept(h)
      <4>1. Fails(s) /\ Like(h, s.ftp)
        BY <3>2, <3>3, FailIs
      <4> QED
        BY <3>2, <4>1, <1>0, LikeTrans DEF DoingStep
    <3> QED
      BY <1>0, <3>1, <3>2, <3>3, UsesPort, DoingTrans
  <2> QED
    BY <2>2, <2>3, <2>4
<1>9. CASE f.state = "RETR_PREQUOTE"
  <2>1. s = Fatal(f) \/ s \in Prequote(f, "RETR_PREQUOTE", f.count1 + 1)
    BY <1>9 DEF OnReply, OnQuote, DataCommands
  <2> QED
    BY <1>0, <1>1, <1>9, <2>1, InfoPrequote
<1> QED
  BY <1>2, <1>3, <1>4, <1>5, <1>6, <1>7, <1>8, <1>9 DEF DoingStates

\* a reply to CWD or MKD
DirStep(f, code, s) ==
  IF f.state = "CWD" /\ Ok(code)
  THEN \/ DoingStep(f, s) /\ f.cwdcount >= Len(f.o.dir)
       \/ /\ Like(f, s.ftp) /\ Asks(s, {"CWD"}) /\ ~(f.cwdcount >= Len(f.o.dir))
          /\ s.ftp.cwdcount = f.cwdcount + 1
  ELSE \/ /\ Like(f, s.ftp) /\ Asks(s, {"CWD", "MKD"}) /\ s.ftp.cwdcount = f.cwdcount
          /\ f.state = "CWD" => f.cwdcount > 0
       \/ Fails(s) /\ Alike(f, s.ftp) /\ Flow(f, s.ftp) /\ (s.ftp.cwdfail = TRUE \/ f.o.mkdir = "once")

LEMMA DirReplies ==
  ASSUME NEW f, Quiet(f), f.state \in {"CWD", "MKD"}, NEW code, NEW s \in OnReply(f, code)
  PROVE  DirStep(f, code, s)
<1>1. s \in OnDirectory(f, code)
  BY DEF OnReply, DataCommands
<1>2. DOMAIN f = Fields
  BY DEF Quiet
<1>3. CASE f.state = "CWD" /\ Ok(code)
  <2> DEFINE g == [f EXCEPT !.count2 = 0]
             h == [g EXCEPT !.cwdcount = g.cwdcount + 1]
  <2>1. Quiet(g) /\ Like(f, g) /\ g.cwdcount = f.cwdcount /\ g.o = f.o /\ DOMAIN g = Fields
    <3>1. Counted(f, g)
      BY Count2
    <3> QED
      BY <3>1 DEF Counted, Near, Quiet, Like, Alike, Kin
  <2>2. \/ f.cwdcount >= Len(f.o.dir) /\ s \in Mdtm(g)
        \/ ~(f.cwdcount >= Len(f.o.dir)) /\ s = Sent(h, "CWD", "CWD")
    BY <1>1, <1>3, <2>1 DEF OnDirectory
  <2>3. Like(g, h) /\ DOMAIN h = Fields /\ h.cwdcount = f.cwdcount + 1
    <3> HIDE DEF g
    <3>1. Near(g, h) /\ h.cwdcount = g.cwdcount + 1
      BY <2>1, SetCwdcount
    <3> QED
      BY <2>1, <3>1 DEF Near, Quiet
  <2> HIDE DEF g, h
  <2>4. CASE s = Sent(h, "CWD", "CWD") /\ ~(f.cwdcount >= Len(f.o.dir))
    <3>1. Asks(s, {"CWD"}) /\ Like(h, s.ftp)
      BY <2>3, <2>4, SentAsks, Commands
    <3>2. IsSent(s, h, "CWD", "CWD")
      BY <2>3, <2>4, SentIs
    <3>3. s.ftp.cwdcount = f.cwdcount + 1
      BY <2>3, <3>2 DEF IsSent
    <3>4. Like(f, s.ftp)
      BY <2>1, <2>3, <3>1, LikeTrans
    <3> QED
      BY <1>3, <2>4, <3>1, <3>3, <3>4 DEF DirStep
  <2>5. CASE s \in Mdtm(g) /\ f.cwdcount >= Len(f.o.dir)
    <3>1. DoingStep(f, s)
      BY <2>1, <2>5, Mdtms, DoingTrans
    <3> QED
      BY <1>3, <2>5, <3>1 DEF DirStep
  <2> QED
    BY <2>2, <2>4, <2>5
<1>4. CASE ~(f.state = "CWD" /\ Ok(code))
  <2>1. \/ s = Sent([f EXCEPT !.count2 = 1], "MKD", "MKD") /\ f.cwdcount > 0
        \/ s = Sent(f, "CWD", "CWD") /\ f.state # "CWD"
        \/ s = Kept([f EXCEPT !.cwdfail = TRUE])
        \/ s = Kept(f) /\ f.o.mkdir = "once"
    <3>1. CASE f.state = "CWD"
      <4>1. ~Ok(code)
        BY <1>4, <3>1
      <4>2. s = IF f.o.mkdir # "no" /\ f.cwdcount > 0 /\ f.count2 = 0
                THEN Sent([f EXCEPT !.count2 = 1], "MKD", "MKD") ELSE Kept([f EXCEPT !.cwdfail = TRUE])
        BY <1>1, <3>1, <4>1 DEF OnDirectory
      <4> QED
        BY <4>2
    <3>2. CASE f.state = "MKD"
      BY <1>1, <3>2 DEF OnDirectory
    <3> QED
      BY <3>1, <3>2
  <2>2. ASSUME NEW g, Counted(f, g), NEW st \in {"CWD", "MKD"}, s = Sent(g, st, st)
        PROVE  Asks(s, {"CWD", "MKD"}) /\ Like(f, s.ftp) /\ s.ftp.cwdcount = f.cwdcount
    <3>1. DOMAIN g = Fields /\ Like(f, g) /\ g.cwdcount = f.cwdcount
      BY <2>2 DEF Counted, Near, Quiet
    <3>2. Asks(s, {"CWD", "MKD"}) /\ Like(g, s.ftp)
      BY <2>2, <3>1, SentAsks, Commands
    <3>3. IsSent(s, g, st, st)
      BY <2>2, <3>1, SentIs
    <3>4. s.ftp.cwdcount = f.cwdcount
      BY <3>1, <3>3 DEF IsSent
    <3> QED
      BY <3>1, <3>2, <3>4, LikeTrans
  <2>3. CASE s = Sent([f EXCEPT !.count2 = 1], "MKD", "MKD") /\ f.cwdcount > 0
    <3>1. Asks(s, {"CWD", "MKD"}) /\ Like(f, s.ftp) /\ s.ftp.cwdcount = f.cwdcount
      <4>1. Counted(f, [f EXCEPT !.count2 = 1])
        BY Count2
      <4> QED
        BY <2>2, <2>3, <4>1
    <3> QED
      BY <1>4, <2>3, <3>1 DEF DirStep
  <2>4. CASE s = Sent(f, "CWD", "CWD") /\ f.state # "CWD"
    <3>1. Asks(s, {"CWD", "MKD"}) /\ Like(f, s.ftp) /\ s.ftp.cwdcount = f.cwdcount
      <4>1. Counted(f, f)
        BY Same, <1>2 DEF Counted, Near
      <4> QED
        BY <2>2, <2>4, <4>1
    <3> QED
      BY <1>4, <2>4, <3>1 DEF DirStep
  <2>5. CASE s = Kept([f EXCEPT !.cwdfail = TRUE])
    <3> DEFINE g == [f EXCEPT !.cwdfail = TRUE]
    <3>1. Quiet(g) /\ Alike(f, g) /\ Flow(f, g) /\ g.cwdfail = TRUE
      BY DEF Alike, Kin, Flow, Fields, Quiet
    <3> HIDE DEF g
    <3>2. Fails(s) /\ s.ftp = g
      BY <2>5, <3>1, FailIs DEF g
    <3> QED
      BY <1>4, <3>1, <3>2 DEF DirStep
  <2>6. CASE s = Kept(f) /\ f.o.mkdir = "once"
    <3>1. Fails(s) /\ Alike(f, s.ftp) /\ Flow(f, s.ftp)
      BY <2>6, FailIs DEF Like
    <3> QED
      BY <1>4, <2>6, <3>1 DEF DirStep
  <2> QED
    BY <2>1, <2>3, <2>4, <2>5, <2>6
<1> QED
  BY <1>3, <1>4

LEMMA QuoteReplies ==
  ASSUME NEW f, Quiet(f), f.state = "QUOTE", NEW code, NEW s \in OnReply(f, code)
  PROVE  QuoteStep(f, s) \/ (Fails(s) /\ s.error = "fatal" /\ Like(f, s.ftp))
<1>1. s = Fatal(f) \/ s \in Quote(f, f.count1 + 1)
  BY DEF OnReply, OnQuote, DataCommands
<1>2. CASE s = Fatal(f)
  <2>1. Fails(s) /\ Like(f, s.ftp)
    BY <1>2, FailIs
  <2> QED
    BY <1>2, <2>1 DEF Fatal, Error
<1> QED
  BY <1>1, <1>2, Quotes

-----------------------------------------------------------------------------
(* The login. *)

Logged(f, g) == Quiet(g) /\ Kin(f, g) /\ Flow(f, g)

LEMMA LoginSets ==
  ASSUME NEW f, Quiet(f), NEW v
  PROVE  /\ Logged(f, f)
         /\ Logged(f, [f EXCEPT !.alternative = v])
         /\ Logged(f, [f EXCEPT !.count3 = v])
         /\ Logged(f, [f EXCEPT !.tls = v])
         /\ Logged(f, [f EXCEPT !.entrypath = v])
         /\ Logged(f, [f EXCEPT !.os = v])
  BY DEF Logged, Quiet, Kin, Flow, Fields

LEMMA LoginTrans ==
  ASSUME NEW f, NEW g, Logged(f, g), NEW s, LoginStep(g, s) PROVE LoginStep(f, s)
  BY DEF Logged, LoginStep, Kin, Flow

LEMMA SentLogin ==
  ASSUME NEW f, Quiet(f), NEW g, Logged(f, g), NEW st \in LoginStates, NEW cmd, cmd = CommandOf(st),
         NEW s, s = Sent(g, cmd, st)
  PROVE  LoginStep(f, s)
<1>1. DOMAIN g = Fields
  BY DEF Logged, Quiet
<1>2. Asks(s, LoginStates) /\ Like(g, s.ftp)
  BY <1>1, SentAsks
<1>3. LoginStep(g, s)
  BY <1>2 DEF LoginStep, Like, Alike
<1> QED
  BY <1>3, LoginTrans

LEMMA LoginEnds ==
  ASSUME NEW f, Quiet(f), NEW g, Logged(f, g), NEW s, s = Stop(g) \/ s = Fatal(g)
  PROVE  LoginStep(f, s)
<1>1. Quiet(g)
  BY DEF Logged
<1>2. (Stops(s) \/ (Fails(s) /\ s.error = "fatal")) /\ Like(g, s.ftp)
  <2>1. CASE s = Fatal(g)
    <3>1. s.error = "fatal"
      BY <2>1 DEF Fatal, Error
    <3> QED
      BY <1>1, <2>1, <3>1, FailIs
  <2> QED
    BY <1>1, <2>1, StopIs
<1>3. LoginStep(g, s)
  BY <1>2 DEF LoginStep, Like, Alike
<1> QED
  BY <1>3, LoginTrans

LEMMA Users == ASSUME NEW f, Quiet(f), NEW g, Logged(f, g), NEW s, s = User(g) PROVE LoginStep(f, s)
<1> DEFINE h == [g EXCEPT !.alternative = FALSE]
<1>1. Quiet(g) /\ Logged(g, h)
  BY LoginSets DEF Logged
<1>2. s = Sent(h, "USER", "USER")
  BY DEF User
<1> HIDE DEF h
<1>3. LoginStep(g, s)
  BY <1>1, <1>2, SentLogin, Commands DEF LoginStates
<1> QED
  BY <1>3, LoginTrans

LEMMA LoggedIns == ASSUME NEW f, Quiet(f), NEW s, s = LoggedIn(f) \/ s = Pwd(f) PROVE LoginStep(f, s)
<1>1. s = Sent(f, "PBSZ", "PBSZ") \/ s = Sent(f, "PWD", "PWD")
  BY DEF LoggedIn, Pwd
<1>2. Logged(f, f)
  BY LoginSets
<1>3. CASE s = Sent(f, "PBSZ", "PBSZ")
  BY <1>2, <1>3, SentLogin, Commands DEF LoginStates
<1>4. CASE s = Sent(f, "PWD", "PWD")
  BY <1>2, <1>4, SentLogin, Commands DEF LoginStates
<1> QED
  BY <1>1, <1>3, <1>4

LEMMA LoginReplies ==
  ASSUME NEW f, Quiet(f), f.state \in LoginStates, NEW code, NEW s \in OnReply(f, code)
  PROVE  LoginStep(f, s)
<1>1. s \in OnLogin(f, code)
  BY DEF OnReply, LoginStates, DataCommands
<1>2. Logged(f, f)
  BY LoginSets
<1>3. s = Fatal(f) \/ s = Stop(f) => LoginStep(f, s)
  BY <1>2, LoginEnds
<1>4. ASSUME NEW st \in LoginStates, st # "WAIT220", NEW g, Logged(f, g), s = Sent(g, st, st) PROVE LoginStep(f, s)
  BY <1>4, SentLogin, Commands DEF LoginStates
<1>5. CASE f.state = "WAIT220"
  <2> DEFINE g == [f EXCEPT !.count3 = 0]
  <2>1. s \in {Fatal(f), User(f), Sent(g, "AUTH", "AUTH")}
    BY <1>1, <1>5 DEF OnLogin
  <2>2. Logged(f, g)
    BY LoginSets
  <2> HIDE DEF g
  <2>3. CASE s = Sent(g, "AUTH", "AUTH")
    BY <1>4, <2>2, <2>3 DEF LoginStates
  <2> QED
    BY <1>2, <1>3, <2>1, <2>3, Users
<1>6. CASE f.state = "AUTH"
  <2> DEFINE g == [f EXCEPT !.count3 = f.count3 + 1]
             h == [f EXCEPT !.tls = TRUE]
  <2>1. s \in {User(h), User(f), Fatal(f), Sent(g, "AUTH", "AUTH")}
    BY <1>1, <1>6 DEF OnLogin
  <2>2. Logged(f, g) /\ Logged(f, h)
    BY LoginSets
  <2> HIDE DEF g, h
  <2>3. CASE s = Sent(g, "AUTH", "AUTH")
    BY <1>4, <2>2, <2>3 DEF LoginStates
  <2> QED
    BY <1>2, <1>3, <2>1, <2>2, <2>3, Users
<1>7. CASE f.state \in {"USER", "PASS"}
  <2> DEFINE g == [f EXCEPT !.alternative = TRUE]
  <2>1. s \in {Fatal(f), LoggedIn(f), Sent(f, "PASS", "PASS"), Sent(f, "ACCT", "ACCT"), Sent(g, "USER", "USER")}
    <3>1. s \in UserResp(f, code)
      BY <1>1, <1>7 DEF OnLogin
    <3>2. CASE code = "3xx" /\ f.state = "USER"
      BY <3>1, <3>2 DEF UserResp
    <3>3. CASE code # "3xx" \/ f.state # "USER"
      BY <3>1, <3>3 DEF UserResp
    <3> QED
      BY <3>2, <3>3
  <2>2. Logged(f, g)
    BY LoginSets
  <2> HIDE DEF g
  <2>3. CASE s = Sent(f, "PASS", "PASS")
    BY <1>2, <1>4, <2>3 DEF LoginStates
  <2>4. CASE s = Sent(f, "ACCT", "ACCT")
    BY <1>2, <1>4, <2>4 DEF LoginStates
  <2>5. CASE s = Sent(g, "USER", "USER")
    BY <1>4, <2>2, <2>5 DEF LoginStates
  <2> QED
    BY <1>3, <2>1, <2>3, <2>4, <2>5, LoggedIns
<1>8. CASE f.state \in {"ACCT", "PBSZ", "PROT", "CCC"}
  <2>1. s \in {Fatal(f), LoggedIn(f), Pwd(f), Sent(f, "PROT", "PROT"), Sent(f, "CCC", "CCC")}
    BY <1>1, <1>8 DEF OnLogin
  <2>2. CASE s = Sent(f, "PROT", "PROT")
    BY <1>2, <1>4, <2>2 DEF LoginStates
  <2>3. CASE s = Sent(f, "CCC", "CCC")
    BY <1>2, <1>4, <2>3 DEF LoginStates
  <2> QED
    BY <1>3, <2>1, <2>2, <2>3, LoggedIns
<1>9. CASE f.state \in {"PWD", "SYST", "NAMEFMT"}
  <2> DEFINE g == [f EXCEPT !.entrypath = Ok(code)]
             h == [f EXCEPT !.entrypath = TRUE]
             i == [f EXCEPT !.os = Ok(code)]
             j == [f EXCEPT !.os = TRUE]
  <2>1. s \in {Stop(f), Pwd(f), Stop(g), Stop(i), Sent(h, "SYST", "SYST"), Sent(j, "NAMEFMT", "NAMEFMT")}
    <3>1. CASE f.state = "PWD"
      BY <1>1, <3>1 DEF OnLogin
    <3>2. CASE f.state = "SYST"
      BY <1>1, <3>2 DEF OnLogin
    <3>3. CASE f.state = "NAMEFMT"
      BY <1>1, <3>3 DEF OnLogin
    <3> QED
      BY <1>9, <3>1, <3>2, <3>3
  <2>2. Logged(f, g) /\ Logged(f, h) /\ Logged(f, i) /\ Logged(f, j)
    BY LoginSets
  <2> HIDE DEF g, h, i, j
  <2>3. CASE s = Sent(h, "SYST", "SYST")
    BY <1>4, <2>2, <2>3 DEF LoginStates
  <2>4. CASE s = Sent(j, "NAMEFMT", "NAMEFMT")
    BY <1>4, <2>2, <2>4 DEF LoginStates
  <2> QED
    BY <1>3, <2>1, <2>2, <2>3, <2>4, LoginEnds, LoggedIns
<1> QED
  BY <1>5, <1>6, <1>7, <1>8, <1>9 DEF LoginStates

-----------------------------------------------------------------------------
(* The invariant: what is owed in each phase. *)

\* No reply comes late, and a range is not asked for with quotes after it: the ABOR
\* of a range that was complete is not waited for.
InOrder ==
  /\ ~LateReplies
  /\ \A opt \in FtpOptions : opt.range => opt.postquote = 0

AllStates == LoginStates \cup DirStates \cup DoingStates \cup MoreStates \cup {"POSTQUOTE"}

\* what a server may owe an answer to
Owable == AllStates \cup {"greeting", "final", "ABOR"}

Waits(f, ow, S) == f.state \in S /\ ow = <<CommandOf(f.state)>>
Still(f) == f.moving = FALSE /\ f.waitData = FALSE

StepOK(f, ph, ow, dc) ==
  /\ DOMAIN f = Fields /\ f.o \in FtpOptions /\ ow \in Seq(Owable)
  /\ ph # "closed" => f.pending = FALSE \/ ow # <<>>
  /\ f.dontCheck => f.o.range
  /\ ph \in {"new", "do"} => ow = <<>> /\ f.pending = FALSE
  /\ ph = "new" => f.state = "STOP" /\ Still(f) /\ f.dontCheck = FALSE
  /\ ph = "login" => Still(f) /\ f.dontCheck = FALSE /\ Waits(f, ow, LoginStates)
  /\ ph \in {"doing", "more", "perform", "ok"} => f.ctlValid = TRUE
  /\ ph = "doing" => Still(f) /\ Waits(f, ow, DirStates \cup DoingStates) /\ (f.state = "RETR_PREQUOTE" => f.transfer # "body")
  /\ ph = "more" =>
       /\ f.transfer = "body" /\ f.moving = FALSE
       /\ \/ Waits(f, ow, MoreStates) /\ f.waitData = FALSE /\ dc \notin {"connecting", "broken"}
          \/ f.state = "STOP" /\ f.waitData = TRUE /\ ow = <<"final">> /\ dc \notin {"connecting", "broken"}
          \/ f.state = "STOP" /\ f.waitData = FALSE /\ ow = <<>>
  /\ ph \in {"perform", "ok"} =>
       \/ f.moving = TRUE /\ f.transfer = "body" /\ f.pending = TRUE /\ ow = <<"final">>
       \/ f.moving = FALSE /\ ow = <<>>
  /\ ph = "quotes" => f.dontCheck = FALSE /\ Waits(f, ow, {"POSTQUOTE"})
  /\ ph = "idle" /\ ow = <<>> => f.dontCheck = FALSE /\ f.pending = FALSE
  /\ ph = "do" => f.dontCheck = FALSE

StepInv == StepOK(ftp, ftpPhase, owed, dataConn)

LEMMA CommandNames ==
  ASSUME NEW st \in AllStates
  PROVE  CommandOf(st) \in Owable /\ CommandOf(st) # ""
<1>1. CASE st \in {"QUOTE", "RETR_PREQUOTE", "STOR_PREQUOTE", "LIST_PREQUOTE", "POSTQUOTE"}
  <2>1. CommandOf(st) = "QUOTE"
    BY <1>1, Commands
  <2> QED
    BY <2>1 DEF Owable, AllStates, LoginStates, DirStates, DoingStates, MoreStates
<1>2. CASE st \in {"TYPE", "LIST_TYPE", "RETR_TYPE", "STOR_TYPE", "RETR_LIST_TYPE"}
  <2>1. CommandOf(st) = "TYPE"
    BY <1>2, Commands
  <2> QED
    BY <2>1 DEF Owable, AllStates, LoginStates, DirStates, DoingStates, MoreStates
<1>3. CASE st \in {"SIZE", "RETR_SIZE", "STOR_SIZE", "REST", "RETR_REST", "WAIT220"}
  <2>1. CommandOf(st) \in {"SIZE", "REST", "greeting"}
    BY <1>3, Commands
  <2> QED
    BY <2>1 DEF Owable, AllStates, LoginStates, DirStates, DoingStates, MoreStates
<1>4. CASE st \in {"AUTH", "USER", "PASS", "ACCT", "PBSZ", "PROT", "CCC", "PWD", "SYST", "NAMEFMT", "CWD", "MKD",
                   "MDTM", "PRET", "PASV", "PORT", "RETR", "STOR", "LIST"}
  <2>1. CommandOf(st) = st
    BY <1>4, Commands
  <2> QED
    BY <1>4, <2>1 DEF Owable
<1> QED
  BY <1>1, <1>2, <1>3, <1>4 DEF AllStates, LoginStates, DirStates, DoingStates, MoreStates

LEMMA One ==
  /\ <<>> \in Seq(Owable)
  /\ \A x \in Owable : /\ Append(<<>>, x) = <<x>> /\ <<x>> \in Seq(Owable)
                       /\ Tail(<<x>>) = <<>> /\ Head(<<x>>) = x /\ <<x>> # <<>>
<1>1. <<>> \in Seq(Owable)
  BY EmptySeq
<1>2. ASSUME NEW x \in Owable
      PROVE  Append(<<>>, x) = <<x>> /\ Tail(<<x>>) = <<>> /\ Head(<<x>>) = x /\ <<x>> # <<>>
  OBVIOUS
<1>3. ASSUME NEW x \in Owable PROVE <<x>> \in Seq(Owable)
  BY <1>1, <1>2, AppendProperties
<1> QED
  BY <1>1, <1>2, <1>3

LEMMA Sending ==
  ASSUME NEW s, NEW left, Sends(s, left)
  PROVE  /\ ftp' = s.ftp
         /\ s.cmd = "" => owed' = left
         /\ s.cmd # "" => owed' = Append(left, s.cmd)
  BY DEF Sends

\* what is sent is owed
LEMMA AskedOwes ==
  ASSUME NEW s, NEW S \in SUBSET AllStates, Asks(s, S), Sends(s, <<>>)
  PROVE  /\ ftp' = s.ftp /\ Waits(s.ftp, owed', S) /\ owed' \in Seq(Owable) /\ owed' # <<>>
         /\ s.error = "no" /\ s.ftp.state # "STOP"
<1>1. s.cmd = CommandOf(s.ftp.state) /\ s.ftp.state \in S /\ s.ftp.state \in AllStates /\ s.error = "no"
  BY DEF Asks
<1>2. s.cmd \in Owable /\ s.cmd # ""
  BY <1>1, CommandNames
<1>3. ftp' = s.ftp /\ owed' = <<s.cmd>>
  BY <1>2, Sending, One
<1>4. s.ftp.state # "STOP"
  BY <1>1 DEF AllStates, LoginStates, DirStates, DoingStates, MoreStates
<1> QED
  BY <1>1, <1>2, <1>3, <1>4, One DEF Waits

LEMMA EndOwes ==
  ASSUME NEW s, Stops(s) \/ Fails(s), NEW left, Sends(s, left)
  PROVE  ftp' = s.ftp /\ owed' = left
  BY Sending DEF Stops, Fails

LEMMA LoginOK ==
  ASSUME NEW f, f.o \in FtpOptions, Still(f), f.dontCheck = FALSE, NEW s, LoginStep(f, s),
         Sends(s, <<>>), ftpPhase' = Leads(s, "login")
  PROVE  StepInv'
<1>1. Kin(f, s.ftp) /\ Flow(f, s.ftp)
  BY DEF LoginStep
<1>2. DOMAIN s.ftp = Fields /\ s.ftp.o \in FtpOptions /\ Still(s.ftp) /\ s.ftp.dontCheck = FALSE
  BY <1>1 DEF Kin, Flow, Still
<1>3. CASE Asks(s, LoginStates)
  <2>1. LoginStates \in SUBSET AllStates
    BY DEF AllStates
  <2>2. /\ ftp' = s.ftp /\ Waits(s.ftp, owed', LoginStates) /\ owed' \in Seq(Owable) /\ owed' # <<>>
        /\ s.error = "no" /\ s.ftp.state # "STOP"
    BY <1>3, <2>1, AskedOwes
  <2>3. ftpPhase' = "login"
    BY <2>2 DEF Leads
  <2> QED
    BY <1>2, <2>2, <2>3 DEF StepInv, StepOK
<1>4. CASE Stops(s)
  <2>1. ftp' = s.ftp /\ owed' = <<>>
    BY <1>4, EndOwes
  <2>2. ftpPhase' = "do" /\ s.ftp.pending = FALSE
    BY <1>4 DEF Leads, AfterStop, Stops
  <2> QED
    BY <1>2, <2>1, <2>2, One DEF StepInv, StepOK
<1>5. CASE Fails(s) /\ s.error = "fatal"
  <2>1. ftp' = s.ftp /\ owed' = <<>>
    BY <1>5, EndOwes
  <2>2. ftpPhase' = "fatal" /\ s.ftp.pending = FALSE
    BY <1>5 DEF Leads, Fails
  <2> QED
    BY <1>2, <2>1, <2>2, One DEF StepInv, StepOK
<1> QED
  BY <1>3, <1>4, <1>5 DEF LoginStep

\* any step before the data connection
DoingResult(f, s) ==
  /\ Alike(f, s.ftp) /\ Flow(f, s.ftp)
  /\ \/ Asks(s, DirStates \cup DoingStates) /\ (s.ftp.state = "RETR_PREQUOTE" => s.ftp.transfer # "body")
     \/ Stops(s)
     \/ Fails(s)

LEMMA DoingOK ==
  ASSUME NEW f, f.o \in FtpOptions, Still(f), f.ctlValid = TRUE, f.dontCheck => f.o.range, NEW s, DoingResult(f, s),
         Sends(s, <<>>), ftpPhase' = Leads(s, "doing")
  PROVE  StepInv'
<1>1. Alike(f, s.ftp) /\ Flow(f, s.ftp)
  BY DEF DoingResult
<1>2. DOMAIN s.ftp = Fields /\ s.ftp.o \in FtpOptions /\ Still(s.ftp) /\ (s.ftp.dontCheck => s.ftp.o.range) /\ s.ftp.ctlValid = TRUE
  BY <1>1 DEF Alike, Kin, Flow, Still
<1>3. CASE Asks(s, DirStates \cup DoingStates) /\ (s.ftp.state = "RETR_PREQUOTE" => s.ftp.transfer # "body")
  <2>1. DirStates \cup DoingStates \in SUBSET AllStates
    BY DEF AllStates
  <2>2. /\ ftp' = s.ftp /\ Waits(s.ftp, owed', DirStates \cup DoingStates) /\ owed' \in Seq(Owable) /\ owed' # <<>>
        /\ s.error = "no" /\ s.ftp.state # "STOP"
    BY <1>3, <2>1, AskedOwes
  <2>3. ftpPhase' = "doing"
    BY <2>2 DEF Leads
  <2> QED
    BY <1>2, <1>3, <2>2, <2>3 DEF StepInv, StepOK
<1>4. CASE Stops(s)
  <2>1. ftp' = s.ftp /\ owed' = <<>>
    BY <1>4, EndOwes
  <2>2. s.ftp.pending = FALSE /\ s.ftp.state = "STOP"
    BY <1>4 DEF Stops
  <2>3. IF s.ftp.transfer = "body" THEN ftpPhase' = "more" ELSE ftpPhase' = "perform"
    BY <1>4 DEF Leads, AfterStop, Stops
  <2> QED
    BY <1>2, <2>1, <2>2, <2>3, One DEF StepInv, StepOK, Still
<1>5. CASE Fails(s)
  <2>1. ftp' = s.ftp /\ owed' = <<>>
    BY <1>5, EndOwes
  <2>2. ftpPhase' \in {"kept", "fatal"} /\ s.ftp.pending = FALSE
    BY <1>5 DEF Leads, Fails
  <2> QED
    BY <1>2, <2>1, <2>2, One DEF StepInv, StepOK
<1> QED
  BY <1>3, <1>4, <1>5 DEF DoingResult

LEMMA MoreOK ==
  ASSUME NEW f, f.o \in FtpOptions, Still(f), f.ctlValid = TRUE, f.dontCheck => f.o.range, NEW s, MoreStep(f, s),
         Sends(s, <<>>), ftpPhase' = Leads(s, "more"), dataConn' \notin {"connecting", "broken"}
  PROVE  StepInv'
<1>1. Alike(f, s.ftp) /\ Flow(f, s.ftp)
  BY DEF MoreStep, Like
<1>2. DOMAIN s.ftp = Fields /\ s.ftp.o \in FtpOptions /\ Still(s.ftp) /\ (s.ftp.dontCheck => s.ftp.o.range) /\ s.ftp.ctlValid = TRUE
  BY <1>1 DEF Alike, Kin, Flow, Still
<1>3. CASE Asks(s, MoreStates) /\ s.ftp.transfer = "body"
  <2>1. MoreStates \in SUBSET AllStates
    BY DEF AllStates
  <2>2. /\ ftp' = s.ftp /\ Waits(s.ftp, owed', MoreStates) /\ owed' \in Seq(Owable) /\ owed' # <<>>
        /\ s.error = "no" /\ s.ftp.state # "STOP"
    BY <1>3, <2>1, AskedOwes
  <2>3. ftpPhase' = "more"
    BY <2>2 DEF Leads
  <2> QED
    BY <1>2, <1>3, <2>2, <2>3 DEF StepInv, StepOK, Still
<1>4. CASE Stops(s)
  <2>1. ftp' = s.ftp /\ owed' = <<>>
    BY <1>4, EndOwes
  <2>2. s.ftp.pending = FALSE /\ s.ftp.state = "STOP"
    BY <1>4 DEF Stops
  <2>3. ftpPhase' = "perform"
    BY <1>2, <1>4 DEF Leads, AfterStop, Stops, Still
  <2> QED
    BY <1>2, <2>1, <2>2, <2>3, One DEF StepInv, StepOK, Still
<1>5. CASE Fails(s)
  <2>1. ftp' = s.ftp /\ owed' = <<>>
    BY <1>5, EndOwes
  <2>2. ftpPhase' \in {"kept", "fatal"} /\ s.ftp.pending = FALSE
    BY <1>5 DEF Leads, Fails
  <2> QED
    BY <1>2, <2>1, <2>2, One DEF StepInv, StepOK
<1> QED
  BY <1>3, <1>4, <1>5 DEF MoreStep

LEMMA DataOK ==
  ASSUME NEW f, f.o \in FtpOptions, f.moving = FALSE, f.ctlValid = TRUE, f.dontCheck => f.o.range, f.transfer = "body",
         NEW s, DataStep(f, s), Sends(s, <<"final">>), ftpPhase' = Leads(s, "more"), dataConn' \notin {"connecting", "broken"}
  PROVE  StepInv'
<1>1. Alike(f, s.ftp) /\ s.ftp.transfer = "body" /\ s.error = "no" /\ s.cmd = "" /\ s.ftp.state = "STOP"
  BY DEF DataStep
<1>2. DOMAIN s.ftp = Fields /\ s.ftp.o \in FtpOptions /\ (s.ftp.dontCheck => s.ftp.o.range) /\ s.ftp.ctlValid = TRUE
  BY <1>1 DEF Alike, Kin
<1>3. ftp' = s.ftp /\ owed' = <<"final">> /\ owed' \in Seq(Owable) /\ owed' # <<>>
  BY <1>1, Sending, One DEF Owable
<1>4. CASE s.ftp.waitData = TRUE /\ s.ftp.moving = f.moving /\ s.ftp.pending = FALSE
  <2>1. ftpPhase' = "more"
    BY <1>1, <1>4 DEF Leads, AfterStop
  <2> QED
    BY <1>1, <1>2, <1>3, <1>4, <2>1 DEF StepInv, StepOK
<1>5. CASE s.ftp.waitData = FALSE /\ s.ftp.moving = TRUE /\ s.ftp.pending = TRUE
  <2>1. ftpPhase' = "perform"
    BY <1>1, <1>5 DEF Leads, AfterStop
  <2> QED
    BY <1>1, <1>2, <1>3, <1>5, <2>1 DEF StepInv, StepOK
<1> QED
  BY <1>4, <1>5 DEF DataStep

-----------------------------------------------------------------------------
(* One lemma per action. *)

LEMMA Answers ==
  ASSUME NEW x \in Owable, NEW code
  PROVE  Answered(code, <<x>>) = IF code = "1xx" THEN <<"final">> ELSE <<>>
<1>1. Tail(<<x>>) = <<>>
  BY One
<1>2. <<"final">> \o <<>> = <<"final">> /\ <<>> \o <<>> = <<>>
  OBVIOUS
<1> QED
  BY <1>1, <1>2 DEF Answered

LEMMA NoInterim ==
  ASSUME NEW st \in AllStates \cup {"final"}, NEW code
  PROVE  /\ st = "final" /\ code \in Codes(st) => code # "1xx"
         /\ st \in AllStates \ DataCommands /\ code \in Codes(CommandOf(st)) => code # "1xx"
<1>1. ASSUME NEW cmd, cmd \notin DataCommands, code \in Codes(cmd) PROVE code # "1xx"
  BY <1>1 DEF Codes
<1>2. "final" \notin DataCommands
  BY DEF DataCommands
<1>3. ASSUME st \in AllStates \ DataCommands PROVE CommandOf(st) \notin DataCommands
  <2>1. CASE st \in {"QUOTE", "RETR_PREQUOTE", "STOR_PREQUOTE", "LIST_PREQUOTE", "POSTQUOTE"}
    BY <2>1, Commands DEF DataCommands
  <2>2. CASE st \in {"TYPE", "LIST_TYPE", "RETR_TYPE", "STOR_TYPE", "RETR_LIST_TYPE"}
    BY <2>2, Commands DEF DataCommands
  <2>3. CASE st \in {"SIZE", "RETR_SIZE", "STOR_SIZE", "REST", "RETR_REST", "WAIT220"}
    BY <2>3, Commands DEF DataCommands
  <2>4. CASE st \in {"AUTH", "USER", "PASS", "ACCT", "PBSZ", "PROT", "CCC", "PWD", "SYST", "NAMEFMT", "CWD", "MKD",
                     "MDTM", "PRET", "PASV", "PORT"}
    BY <2>4, Commands DEF DataCommands
  <2> QED
    BY <1>3, <2>1, <2>2, <2>3, <2>4 DEF AllStates, LoginStates, DirStates, DoingStates, MoreStates, DataCommands
<1> QED
  BY <1>1, <1>2, <1>3

\* the record once the reply is there
Replied == [ftp EXCEPT !.pending = FALSE]

LEMMA RepliedIs ==
  ASSUME DOMAIN ftp = Fields
  PROVE  /\ Quiet(Replied) /\ Like(ftp, Replied) /\ Replied.transfer = ftp.transfer /\ Replied.state = ftp.state
         /\ Replied.cwdcount = ftp.cwdcount /\ Replied.o = ftp.o
  BY DEF Replied, Quiet, Like, Alike, Kin, Flow, Fields

\* what a reply leads to
Proceeds(code, s) ==
  /\ Sends(s, Answered(code, owed)) /\ ftpPhase' = Leads(s, ftpPhase)
  /\ dataConn' = CASE ftp.state = "PASV" /\ s.ftp.state = "STOP" -> "connecting"
                   [] s.cmd = "PORT" -> "listening"
                   [] s.cmd = "PASV" -> "none"
                   [] OTHER -> dataConn

LEMMA ReplyCases ==
  ASSUME DOMAIN ftp = Fields, ftp.o \in FtpOptions, ftp.dontCheck => ftp.o.range, Reply,
         NEW x \in Owable, owed = <<x>>
  PROVE  \E code \in Codes(x) :
           /\ serverDir' = Moves(ftp, code)
           /\ \/ /\ ftpPhase' = "fatal" /\ StepInv'
                 /\ code = "421"
              \/ \E s \in OnReply(Replied, code) : Proceeds(code, s)
<1>1. PICK code \in Codes(Head(owed)) :
        /\ serverDir' = Moves(ftp, code)
        /\ \/ /\ code = "421"
              /\ Sends(Fatal([Replied EXCEPT !.state = "STOP"]), Answered(code, owed))
              /\ ftpPhase' = "fatal"
           \/ \E s \in OnReply(Replied, code) : Proceeds(code, s)
  BY DEF Reply, Replied, Proceeds
<1>2. code \in Codes(x)
  BY <1>1, One
<1>3. CASE /\ code = "421" /\ ftpPhase' = "fatal"
           /\ Sends(Fatal([Replied EXCEPT !.state = "STOP"]), Answered(code, owed))
  <2> DEFINE g == [Replied EXCEPT !.state = "STOP"]
  <2>1. DOMAIN Replied = Fields /\ Replied.o = ftp.o /\ Replied.pending = FALSE /\ Replied.dontCheck = ftp.dontCheck
    BY RepliedIs DEF Quiet, Like, Alike, Kin
  <2>2. DOMAIN g = Fields /\ g.o = ftp.o /\ g.pending = FALSE /\ g.dontCheck = ftp.dontCheck
    BY <2>1 DEF Fields
  <2>3. ftp' = g /\ owed' = <<>>
    <3> HIDE DEF g
    <3>1. Fatal(g).ftp = g /\ Fatal(g).cmd = ""
      BY DEF Fatal, Error
    <3>2. Answered(code, owed) = <<>>
      BY <1>3, Answers
    <3> QED
      BY <1>3, <3>1, <3>2, Sending DEF g
  <2> HIDE DEF g
  <2>4. StepInv'
    BY <1>3, <2>2, <2>3, One DEF StepInv, StepOK
  <2> QED
    BY <1>1, <1>2, <1>3, <2>4
<1> QED
  BY <1>1, <1>2, <1>3

LEMMA AReply == ASSUME StepInv, Reply PROVE StepInv'
<1>1. DOMAIN ftp = Fields /\ ftp.o \in FtpOptions /\ (ftp.dontCheck => ftp.o.range)
  BY DEF StepInv, StepOK
<1> DEFINE g == Replied
<1>2. Quiet(g) /\ Like(ftp, g) /\ g.transfer = ftp.transfer /\ g.state = ftp.state /\ g.o = ftp.o
  BY <1>1, RepliedIs
<1>3. g.o \in FtpOptions /\ (g.dontCheck => g.o.range) /\ g.moving = ftp.moving /\ g.waitData = ftp.waitData
      /\ g.ctlValid = ftp.ctlValid /\ g.dontCheck = ftp.dontCheck
  BY <1>1, <1>2 DEF Like, Alike, Kin, Flow
<1>4. ASSUME NEW S \in SUBSET AllStates, Waits(ftp, owed, S)
      PROVE  \/ StepInv'
             \/ \E code \in Codes(CommandOf(ftp.state)) : \E s \in OnReply(g, code) : Proceeds(code, s)
  <2>1. owed = <<CommandOf(ftp.state)>> /\ CommandOf(ftp.state) \in Owable
    BY <1>4, CommandNames DEF Waits
  <2> QED
    BY <1>1, <2>1, ReplyCases
<1>5. ASSUME NEW S \in SUBSET AllStates, Waits(ftp, owed, S), NEW code \in Codes(CommandOf(ftp.state)),
             ftp.state \notin DataCommands
      PROVE  Answered(code, owed) = <<>>
  <2>1. owed = <<CommandOf(ftp.state)>> /\ CommandOf(ftp.state) \in Owable /\ ftp.state \in AllStates
    BY <1>5, CommandNames DEF Waits
  <2>2. code # "1xx"
    BY <1>5, <2>1, NoInterim
  <2> QED
    BY <2>1, <2>2, Answers
<1>6. CASE ftpPhase = "login"
  <2>1. Waits(ftp, owed, LoginStates) /\ Still(ftp) /\ ftp.dontCheck = FALSE
    BY <1>6 DEF StepInv, StepOK
  <2>2. LoginStates \in SUBSET AllStates /\ ftp.state \in LoginStates /\ ftp.state \notin DataCommands
    BY <2>1 DEF AllStates, LoginStates, DataCommands, Waits
  <2>3. ASSUME NEW code \in Codes(CommandOf(ftp.state)), NEW s \in OnReply(g, code), Proceeds(code, s) PROVE StepInv'
    <3>1. LoginStep(g, s)
      <4> HIDE DEF g
      <4> QED
        BY <1>2, <2>2, <2>3, LoginReplies
    <3>2. Sends(s, <<>>) /\ ftpPhase' = Leads(s, "login")
      BY <1>5, <1>6, <2>1, <2>2, <2>3 DEF Proceeds
    <3>3. Still(g) /\ g.dontCheck = FALSE
      BY <1>3, <2>1 DEF Still
    <3> HIDE DEF g
    <3> QED
      BY <1>3, <3>1, <3>2, <3>3, LoginOK
  <2> QED
    BY <1>4, <2>1, <2>2, <2>3
<1>7. CASE ftpPhase = "doing"
  <2> DEFINE S == DirStates \cup DoingStates
  <2>1. Waits(ftp, owed, S) /\ Still(ftp) /\ ftp.ctlValid = TRUE /\ (ftp.state = "RETR_PREQUOTE" => ftp.transfer # "body")
    BY <1>7 DEF StepInv, StepOK
  <2>2. S \in SUBSET AllStates /\ ftp.state \in S /\ ftp.state \notin DataCommands
    BY <2>1 DEF AllStates, DirStates, DoingStates, DataCommands, Waits
  <2>3. ASSUME NEW code \in Codes(CommandOf(ftp.state)), NEW s \in OnReply(g, code), Proceeds(code, s) PROVE StepInv'
    <3>1. DoingResult(g, s)
      <4> HIDE DEF g
      <4>1. CASE ftp.state \in {"CWD", "MKD"}
        <5>1. DirStep(g, code, s)
          BY <1>2, <2>3, <4>1, DirReplies
        <5>2. Asks(s, {"CWD", "MKD"}) \/ Asks(s, {"CWD"}) => Asks(s, DirStates \cup DoingStates) /\ s.ftp.state # "RETR_PREQUOTE"
          BY DEF Asks, DirStates
        <5> QED
          BY <5>1, <5>2 DEF DirStep, DoingResult, DoingStep, Asks, Like
      <4>2. CASE ftp.state = "QUOTE"
        <5>1. QuoteStep(g, s) \/ (Fails(s) /\ s.error = "fatal" /\ Like(g, s.ftp))
          BY <1>2, <2>3, <4>2, QuoteReplies
        <5>2. Asks(s, {"CWD"}) \/ Asks(s, {"QUOTE"}) => Asks(s, DirStates \cup DoingStates) /\ s.ftp.state # "RETR_PREQUOTE"
          BY DEF Asks, DirStates
        <5> QED
          BY <5>1, <5>2 DEF QuoteStep, CwdStep, DoingResult, DoingStep, Asks, Like
      <4>3. CASE ftp.state \in DoingStates
        <5>1. DoingReply(g, s)
          <6>1. g.ctlValid = TRUE /\ g.state \in DoingStates /\ (g.state = "RETR_PREQUOTE" => g.transfer # "body")
            BY <1>2, <1>3, <2>1, <4>3
          <6> QED
            BY <1>2, <2>3, <6>1, DoingReplies
        <5> QED
          BY <5>1 DEF DoingReply, DoingResult, DoingStep, Asks, Like
      <4> QED
        BY <2>2, <4>1, <4>2, <4>3 DEF DirStates
    <3>2. Sends(s, <<>>) /\ ftpPhase' = Leads(s, "doing")
      <4> HIDE DEF S
      <4> QED
        BY <1>5, <1>7, <2>1, <2>2, <2>3 DEF Proceeds
    <3>3. Still(g) /\ g.ctlValid = TRUE
      BY <1>3, <2>1 DEF Still
    <3> HIDE DEF g
    <3> QED
      BY <1>3, <3>1, <3>2, <3>3, DoingOK
  <2> HIDE DEF S
  <2> QED
    BY <1>4, <2>1, <2>2, <2>3
<1>8. CASE InDataPhase
  <2>1. ftpPhase = "more" /\ dataConn \notin {"connecting", "broken"} /\ ftp.state # "STOP"
    BY <1>8 DEF InDataPhase, Reply
  <2>2. Waits(ftp, owed, MoreStates) /\ Still(ftp) /\ ftp.ctlValid = TRUE /\ ftp.transfer = "body"
    BY <2>1 DEF StepInv, StepOK, Still
  <2>3. MoreStates \in SUBSET AllStates /\ ftp.state \in MoreStates
    BY <2>2 DEF AllStates, Waits
  <2>4. ASSUME NEW code \in Codes(CommandOf(ftp.state)), NEW s \in OnReply(g, code), Proceeds(code, s) PROVE StepInv'
    <3> HIDE DEF g
    <3>1. Still(g) /\ g.ctlValid = TRUE /\ g.moving = FALSE
      BY <1>3, <2>2 DEF Still
    <3>2. ftpPhase' = Leads(s, "more") /\ Sends(s, Answered(code, owed))
      BY <2>1, <2>4 DEF Proceeds
    <3>3. dataConn' \notin {"connecting", "broken"}
      <4>1. ftp.state # "PASV"
        BY <2>3 DEF MoreStates
      <4> QED
        BY <2>1, <2>4, <4>1 DEF Proceeds
    <3>4. CASE ftp.state \notin DataCommands
      <4>1. MoreStep(g, s)
        BY <1>2, <2>2, <2>3, <2>4, <3>4, MoreReplies
      <4>2. Answered(code, owed) = <<>>
        BY <1>5, <2>2, <2>3, <2>4, <3>4
      <4> QED
        BY <1>3, <3>1, <3>2, <3>3, <4>1, <4>2, MoreOK
    <3>5. CASE ftp.state \in DataCommands
      <4>1. IF code = "1xx" THEN DataStep(g, s) ELSE MoreStep(g, s)
        BY <1>2, <2>2, <2>4, <3>5, DataReplies
      <4>2. owed = <<CommandOf(ftp.state)>> /\ CommandOf(ftp.state) \in Owable
        BY <2>2, <2>3, CommandNames DEF Waits
      <4>3. Answered(code, owed) = IF code = "1xx" THEN <<"final">> ELSE <<>>
        BY <4>2, Answers
      <4>4. CASE code = "1xx"
        BY <1>2, <1>3, <2>2, <3>1, <3>2, <3>3, <4>1, <4>3, <4>4, DataOK
      <4>5. CASE code # "1xx"
        BY <1>3, <3>1, <3>2, <3>3, <4>1, <4>3, <4>5, MoreOK
      <4> QED
        BY <4>4, <4>5
    <3> QED
      BY <3>4, <3>5
  <2> QED
    BY <1>4, <2>2, <2>3, <2>4
<1> QED
  BY <1>6, <1>7, <1>8 DEF Reply

LEMMA AnInit == ASSUME Init PROVE StepInv
<1>1. PICK opt \in FtpOptions : ftp = NewFtp(opt)
  BY DEF Init
<1>2. ftpPhase = "new" /\ owed = <<>>
  BY DEF Init
<1>3. /\ DOMAIN ftp = Fields /\ ftp.o = opt /\ ftp.pending = FALSE /\ ftp.dontCheck = FALSE /\ ftp.state = "STOP"
      /\ ftp.moving = FALSE /\ ftp.waitData = FALSE
  BY <1>1 DEF NewFtp, Fields
<1> QED
  BY <1>2, <1>3, One DEF StepInv, StepOK, Still

LEMMA AConnect == ASSUME StepInv, Connect PROVE StepInv'
<1> DEFINE s == Sent(ftp, "greeting", "WAIT220")
<1>1. /\ DOMAIN ftp = Fields /\ ftp.o \in FtpOptions /\ Still(ftp) /\ ftp.dontCheck = FALSE
      /\ ftpPhase' = "login" /\ Sends(s, <<>>)
  BY DEF StepInv, StepOK, Connect
<1>2. Asks(s, LoginStates) /\ Like(ftp, s.ftp)
  BY <1>1, SentAsks, Commands DEF LoginStates
<1> HIDE DEF s
<1>3. LoginStep(ftp, s)
  BY <1>2 DEF LoginStep, Like, Alike
<1>4. ftpPhase' = Leads(s, "login")
  BY <1>1, <1>2 DEF Leads, Asks, LoginStates
<1> QED
  BY <1>1, <1>3, <1>4, LoginOK

LEMMA ParsedIs ==
  ASSUME NEW f, DOMAIN f = Fields, f.pending = FALSE
  PROVE  /\ Quiet(Parsed(f)) /\ Kin(f, Parsed(f)) /\ Still(Parsed(f)) /\ Parsed(f).ctlValid = TRUE
         /\ Parsed(f).entrypath = f.entrypath
         /\ Parsed(f).cwddone = IF f.reuse THEN f.prevpath = f.o.dir ELSE f.o.dir = <<>>
  BY DEF Parsed, Quiet, Kin, Still, Fields

LEMMA ADo == ASSUME StepInv, Do PROVE StepInv'
<1> DEFINE f == Parsed(ftp)
<1>1. DOMAIN ftp = Fields /\ ftp.o \in FtpOptions /\ ftp.pending = FALSE /\ ftp.dontCheck = FALSE /\ owed = <<>>
  BY DEF StepInv, StepOK, Do
<1>2. Quiet(f) /\ Kin(ftp, f) /\ Still(f) /\ f.ctlValid = TRUE
  BY <1>1, ParsedIs
<1>3. PICK s \in Quote(f, 0) : Sends(s, owed) /\ ftpPhase' = Leads(s, "doing")
  BY DEF Do
<1> HIDE DEF f
<1>4. f.o \in FtpOptions /\ f.dontCheck = FALSE
  BY <1>1, <1>2 DEF Kin
<1>5. QuoteStep(f, s)
  BY <1>2, <1>3, Quotes
<1>6. DoingResult(f, s)
  <2>1. Asks(s, {"CWD"}) \/ Asks(s, {"QUOTE"}) => Asks(s, DirStates \cup DoingStates) /\ s.ftp.state # "RETR_PREQUOTE"
    BY DEF Asks, DirStates
  <2> QED
    BY <1>5, <2>1 DEF QuoteStep, CwdStep, DoingResult, DoingStep, Asks, Like
<1> QED
  BY <1>1, <1>2, <1>3, <1>4, <1>6, DoingOK

LEMMA ADataFails == ASSUME StepInv, DataFails PROVE StepInv'
<1>1. /\ DOMAIN ftp = Fields /\ ftp.o \in FtpOptions /\ Still(ftp) /\ owed = <<>> /\ ftp.ctlValid = TRUE /\ ftp.pending = FALSE
      /\ (ftp.dontCheck => ftp.o.range)
  BY DEF StepInv, StepOK, DataFails, Still
<1>2. PICK s \in (IF ftp.count1 = 0 THEN EpsvDisable(ftp) ELSE {Fatal(ftp)}) :
        Sends(s, <<>>) /\ ftpPhase' = IF s.error = "no" THEN "doing" ELSE s.error
  BY <1>1 DEF DataFails
<1>3. Quiet(ftp)
  BY <1>1 DEF Quiet
<1>4. DoingStep(ftp, s) /\ ~Stops(s)
  <2>1. CASE s = Fatal(ftp)
    <3>1. Fails(s) /\ Like(ftp, s.ftp)
      BY <1>3, <2>1, FailIs
    <3> QED
      BY <3>1 DEF DoingStep, Fails, Stops
  <2> QED
    BY <1>2, <1>3, <2>1, Disables
<1>5. DoingResult(ftp, s)
  BY <1>4 DEF DoingResult, DoingStep, Asks, Like
<1>6. ftpPhase' = Leads(s, "doing")
  BY <1>2, <1>4 DEF DoingStep, Leads, Asks, Fails, Stops, DoingStates
<1> QED
  BY <1>1, <1>2, <1>5, <1>6, DoingOK

LEMMA AKickstart == ASSUME StepInv, Kickstart PROVE StepInv'
<1> DEFINE f == [ftp EXCEPT !.dontCheck = ftp.o.range /\ ~ftp.o.upload]
<1>1. /\ DOMAIN ftp = Fields /\ ftp.o \in FtpOptions /\ Still(ftp) /\ owed = <<>> /\ ftp.ctlValid = TRUE /\ ftp.pending = FALSE
      /\ ftp.transfer = "body" /\ dataConn' \notin {"connecting", "broken"}
  BY DEF StepInv, StepOK, Kickstart, InDataPhase, Still, Waits, MoreStates
<1>2. PICK s \in FirstCommand(f) : Sends(s, <<>>) /\ ftpPhase' = Leads(s, "more")
  BY <1>1 DEF Kickstart
<1>3. Quiet(f) /\ f.o = ftp.o /\ Still(f) /\ f.ctlValid = TRUE /\ f.transfer = "body" /\ (f.dontCheck => f.o.range)
  BY <1>1 DEF Quiet, Still, Fields
<1> HIDE DEF f
<1>4. MoreStep(f, s)
  BY <1>2, <1>3, FirstCommands
<1> QED
  BY <1>1, <1>2, <1>3, <1>4, MoreOK

LEMMA AnAccepted == ASSUME StepInv, Accepted PROVE StepInv'
<1>1. /\ DOMAIN ftp = Fields /\ ftp.o \in FtpOptions /\ ftp.moving = FALSE /\ owed = <<"final">> /\ ftp.ctlValid = TRUE
      /\ ftp.transfer = "body" /\ (ftp.dontCheck => ftp.o.range) /\ dataConn' \notin {"connecting", "broken"}
  BY DEF StepInv, StepOK, Accepted, InDataPhase, Waits, MoreStates
<1>2. DataStep(ftp, Initiate(ftp)) /\ Sends(Initiate(ftp), <<"final">>) /\ ftpPhase' = "perform"
  BY <1>1, Initiates DEF Accepted
<1>3. Initiate(ftp).ftp.waitData = FALSE /\ Initiate(ftp).error = "no" /\ Initiate(ftp).ftp.state = "STOP"
  BY <1>1 DEF Initiate, Step, Fields
<1>4. ftpPhase' = Leads(Initiate(ftp), "more")
  BY <1>2, <1>3 DEF Leads, AfterStop
<1> QED
  BY <1>1, <1>2, <1>4, DataOK

LEMMA ANoDataConnection == ASSUME StepInv, NoDataConnection PROVE StepInv'
<1> DEFINE f == [ftp EXCEPT !.pending = FALSE]
<1>1. /\ DOMAIN ftp = Fields /\ ftp.o \in FtpOptions /\ owed = <<"final">> /\ (ftp.dontCheck => ftp.o.range)
  BY DEF StepInv, StepOK, NoDataConnection, InDataPhase, Waits, MoreStates
<1>2. Sends(Step(f, ""), Tail(owed)) /\ ftpPhase' \in {"kept", "fatal"}
  BY DEF NoDataConnection
<1>3. DOMAIN f = Fields /\ f.o = ftp.o /\ f.pending = FALSE /\ f.dontCheck = ftp.dontCheck
  BY <1>1 DEF Fields
<1>4. Tail(owed) = <<>>
  BY <1>1, One DEF Owable
<1> HIDE DEF f
<1>5. ftp' = f /\ owed' = <<>>
  <2>1. Step(f, "").ftp = f /\ Step(f, "").cmd = ""
    BY DEF Step
  <2> QED
    BY <1>2, <1>4, <2>1, Sending
<1> QED
  BY <1>1, <1>2, <1>3, <1>5, One DEF StepInv, StepOK

LEMMA APhase ==
  ASSUME StepInv, Performed \/ Interrupted \/ AcceptTimeout \/ DataConnects
  PROVE  StepInv'
<1>1. UNCHANGED <<ftp, owed>>
  BY DEF Performed, Interrupted, AcceptTimeout, DataConnects
<1>2. CASE Performed
  <2>1. ftpPhase = "perform" /\ ftpPhase' \in {"ok", "fatal"}
    BY <1>2 DEF Performed
  <2> QED
    BY <1>1, <2>1 DEF StepInv, StepOK
<1>3. CASE Interrupted
  <2>1. ftpPhase # "closed" /\ ftpPhase' = "fatal"
    BY <1>3 DEF Interrupted
  <2> QED
    BY <1>1, <2>1 DEF StepInv, StepOK
<1>4. CASE AcceptTimeout
  <2>1. ftpPhase # "closed" /\ ftpPhase' = "kept"
    BY <1>4 DEF AcceptTimeout, InDataPhase
  <2> QED
    BY <1>1, <2>1 DEF StepInv, StepOK
<1>5. CASE DataConnects
  <2>1. ftpPhase' = ftpPhase /\ (dataConn \in {"connecting", "broken"} \/ dataConn' \notin {"connecting", "broken"})
    BY <1>5 DEF DataConnects
  <2> QED
    BY <1>1, <2>1 DEF StepInv, StepOK
<1> QED
  BY <1>2, <1>3, <1>4, <1>5

LEMMA AClosed == ASSUME StepInv, Closed \/ FoundUnclean PROVE StepInv'
<1>1. DOMAIN ftp = Fields /\ ftp.o \in FtpOptions /\ (ftp.dontCheck => ftp.o.range)
  BY DEF StepInv, StepOK
<1>2. ftpPhase' = "closed" /\ owed' = <<>>
  BY DEF Closed, FoundUnclean
<1>3. DOMAIN ftp' = Fields /\ ftp'.o = ftp.o /\ ftp'.dontCheck = ftp.dontCheck
  BY <1>1 DEF Closed, FoundUnclean, Fields
<1> QED
  BY <1>1, <1>2, <1>3, One DEF StepInv, StepOK

LEMMA Owing ==
  ASSUME NEW ow \in Seq(Owable)
  PROVE  /\ Append(ow, "ABOR") \in Seq(Owable) /\ Append(ow, "ABOR") # <<>>
         /\ ow # <<>> => \A code : Answered(code, ow) \in Seq(Owable)
<1>1. "ABOR" \in Owable /\ "final" \in Owable
  BY DEF Owable
<1>2. Append(ow, "ABOR") \in Seq(Owable) /\ Append(ow, "ABOR") # <<>>
  BY <1>1, AppendProperties
<1>3. ASSUME ow # <<>>, NEW code PROVE Answered(code, ow) \in Seq(Owable)
  <2>1. Tail(ow) \in Seq(Owable)
    BY <1>3
  <2>2. <<"final">> \in Seq(Owable) /\ <<>> \in Seq(Owable)
    BY <1>1, One
  <2>3. Answered(code, ow) = <<"final">> \o Tail(ow) \/ Answered(code, ow) = <<>> \o Tail(ow)
    BY DEF Answered
  <2> QED
    BY <2>1, <2>2, <2>3, ConcatProperties
<1> QED
  BY <1>2, <1>3

LEMMA RememberedIs ==
  ASSUME DOMAIN ftp = Fields
  PROVE  /\ DOMAIN Remembered = Fields /\ Remembered.o = ftp.o /\ Remembered.pending = ftp.pending
         /\ Remembered.dontCheck = ftp.dontCheck /\ Remembered.entrypath = ftp.entrypath
         /\ Remembered.prevpath = IF ftp.cwdfail THEN NoPath ELSE ftp.o.dir
  BY DEF Remembered, Fields

Finished == [Remembered EXCEPT !.transfer = "body", !.pending = FALSE, !.dontCheck = FALSE, !.count3 = ftp.o.postquote]

LEMMA FinishedIs ==
  ASSUME DOMAIN ftp = Fields
  PROVE  /\ Quiet(Finished) /\ Finished.o = ftp.o /\ Finished.dontCheck = FALSE /\ Finished.count3 = ftp.o.postquote
         /\ Finished.entrypath = ftp.entrypath
         /\ Finished.prevpath = IF ftp.cwdfail THEN NoPath ELSE ftp.o.dir
<1>1. /\ DOMAIN Remembered = Fields /\ Remembered.o = ftp.o /\ Remembered.entrypath = ftp.entrypath
      /\ Remembered.prevpath = IF ftp.cwdfail THEN NoPath ELSE ftp.o.dir
  BY RememberedIs
<1> QED
  BY <1>1 DEF Finished, Quiet, Fields

\* where a transfer that is over goes
LEMMA Finishes ==
  ASSUME DOMAIN ftp = Fields, NEW code, NEW left, NEW waited, Finish(code, left, waited)
  PROVE  \/ ftp' = Finished /\ owed' = <<>> /\ ftpPhase' = "closed"
         \/ ftp' = Finished /\ owed' = left /\ ftpPhase' = "idle"
         \/ /\ Sends(Sent(Finished, "QUOTE", "POSTQUOTE"), left) /\ ftpPhase' = "quotes"
            /\ ftpPhase = "ok" /\ code = "2xx" /\ ~(waited /\ Aborts) /\ ftp.o.postquote > 0
<1>1. Finished.count3 = ftp.o.postquote
  BY FinishedIs
<1> QED
  BY <1>1 DEF Finish, Finished

LEMMA AFinish ==
  ASSUME StepInv, NEW code, NEW left \in Seq(Owable), NEW waited, Finish(code, left, waited),
         ftpPhase = "ok" /\ code = "2xx" /\ ~(waited /\ Aborts) /\ ftp.o.postquote > 0 => left = <<>>
  PROVE  StepInv'
<1>1. DOMAIN ftp = Fields /\ ftp.o \in FtpOptions
  BY DEF StepInv, StepOK
<1>2. Quiet(Finished) /\ Finished.o \in FtpOptions /\ Finished.dontCheck = FALSE
  BY <1>1, FinishedIs
<1>3. CASE ftp' = Finished /\ owed' = <<>> /\ ftpPhase' = "closed"
  BY <1>2, <1>3, One DEF StepInv, StepOK, Quiet
<1>4. CASE ftp' = Finished /\ owed' = left /\ ftpPhase' = "idle"
  BY <1>2, <1>4 DEF StepInv, StepOK, Quiet
<1>5. CASE left = <<>> /\ Sends(Sent(Finished, "QUOTE", "POSTQUOTE"), left) /\ ftpPhase' = "quotes"
  <2> DEFINE s == Sent(Finished, "QUOTE", "POSTQUOTE")
  <2>1. Asks(s, {"POSTQUOTE"}) /\ Like(Finished, s.ftp) /\ Sends(s, <<>>)
    BY <1>2, <1>5, SentAsks, Commands DEF Quiet
  <2> HIDE DEF s
  <2>2. {"POSTQUOTE"} \in SUBSET AllStates
    BY DEF AllStates
  <2>3. ftp' = s.ftp /\ Waits(s.ftp, owed', {"POSTQUOTE"}) /\ owed' \in Seq(Owable) /\ owed' # <<>>
    BY <2>1, <2>2, AskedOwes
  <2>4. DOMAIN s.ftp = Fields /\ s.ftp.o = Finished.o /\ s.ftp.dontCheck = FALSE
    BY <1>2, <2>1 DEF Like, Alike, Kin
  <2> QED
    BY <1>2, <1>5, <2>3, <2>4 DEF StepInv, StepOK
<1> QED
  BY <1>1, <1>3, <1>4, <1>5, Finishes

LEMMA AtEnd ==
  ASSUME StepInv
  PROVE  /\ owed \in Seq(Owable) /\ OwedAtEnd \in Seq(Owable)
         /\ ~Aborts => OwedAtEnd = owed
         /\ ftpPhase \in {"ok", "kept"} /\ WaitsForLast => OwedAtEnd # <<>>
<1>1. owed \in Seq(Owable) /\ (ftpPhase \in {"ok", "kept"} /\ ftp.pending => owed # <<>>)
  BY DEF StepInv, StepOK
<1>2. CASE Aborts
  BY <1>1, <1>2, Owing DEF OwedAtEnd
<1>3. CASE ~Aborts
  BY <1>1, <1>3 DEF OwedAtEnd, WaitsForLast
<1> QED
  BY <1>1, <1>2, <1>3

LEMMA ADone == ASSUME StepInv, InOrder, Done PROVE StepInv'
<1>1. Finish("2xx", OwedAtEnd, FALSE) /\ ~WaitsForLast
  BY DEF Done
<1>2. OwedAtEnd \in Seq(Owable) /\ (~Aborts => OwedAtEnd = owed)
  BY AtEnd
<1>3. ASSUME ftpPhase = "ok", ftp.o.postquote > 0 PROVE OwedAtEnd = <<>>
  <2>1. ftp.o \in FtpOptions /\ (ftp.dontCheck => ftp.o.range) /\ ftp.ctlValid = TRUE
    BY <1>3 DEF StepInv, StepOK
  <2>2. ~Aborts
    <3>1. ftp.o.range => ftp.o.postquote = 0
      BY <2>1 DEF InOrder
    <3>2. ~ftp.o.range
      BY <1>3, <3>1
    <3> QED
      BY <2>1, <3>2 DEF Aborts
  <2>3. owed = <<>>
    BY <1>1, <1>3, <2>1 DEF StepInv, StepOK, WaitsForLast
  <2> QED
    BY <1>2, <2>2, <2>3
<1> QED
  BY <1>1, <1>2, <1>3, AFinish

LEMMA ALastReply == ASSUME StepInv, LastReply PROVE StepInv'
<1>1. PICK code \in Codes(Head(OwedAtEnd)) : Finish(code, Answered(code, OwedAtEnd), TRUE)
  BY DEF LastReply
<1>2. WaitsForLast /\ OwedAtEnd # <<>> /\ OwedAtEnd \in Seq(Owable) /\ (~Aborts => OwedAtEnd = owed)
  BY AtEnd DEF LastReply
<1>3. Answered(code, OwedAtEnd) \in Seq(Owable)
  BY <1>2, Owing
<1>4. ASSUME ftpPhase = "ok", ~(TRUE /\ Aborts) PROVE Answered(code, OwedAtEnd) = <<>>
  <2>1. ftp.pending /\ OwedAtEnd = owed
    BY <1>2, <1>4 DEF WaitsForLast
  <2>2. owed = <<"final">>
    BY <1>4, <2>1 DEF StepInv, StepOK
  <2>3. "final" \in Owable /\ Head(OwedAtEnd) = "final"
    BY <2>1, <2>2, One DEF Owable
  <2>4. code # "1xx"
    BY <1>1, <2>3, NoInterim
  <2> QED
    BY <2>1, <2>2, <2>3, <2>4, Answers
<1> QED
  BY <1>1, <1>3, <1>4, AFinish

LEMMA ALastReplyAborted == ASSUME StepInv, LastReplyAborted PROVE StepInv'
<1>1. /\ DOMAIN ftp = Fields /\ ftp.o \in FtpOptions /\ (ftp.dontCheck => ftp.o.range) /\ owed \in Seq(Owable) /\ owed # <<>>
  BY DEF StepInv, StepOK, LastReplyAborted, WaitsForLast
<1>2. ftp' = Remembered /\ ftpPhase' = "idle" /\ owed' = owed
  BY DEF LastReplyAborted
<1>3. DOMAIN Remembered = Fields /\ Remembered.o = ftp.o /\ Remembered.dontCheck = ftp.dontCheck
  BY <1>1, RememberedIs
<1> QED
  BY <1>1, <1>2, <1>3 DEF StepInv, StepOK

LEMMA APostQuote == ASSUME StepInv, PostQuote PROVE StepInv'
<1>1. /\ DOMAIN ftp = Fields /\ ftp.o \in FtpOptions /\ ftp.dontCheck = FALSE /\ owed = <<"QUOTE">> /\ ftpPhase = "quotes"
  BY Commands DEF StepInv, StepOK, PostQuote, Waits
<1> DEFINE f == [ftp EXCEPT !.count3 = ftp.count3 - 1, !.pending = FALSE]
<1>2. PICK code \in Codes("QUOTE") :
        \/ Sends(Sent(f, "QUOTE", "POSTQUOTE"), Answered(code, owed)) /\ UNCHANGED ftpPhase
        \/ Sends(Stop(f), Answered(code, owed)) /\ ftpPhase' = "idle"
  <2>1. Head(owed) = "QUOTE"
    BY <1>1, One DEF Owable, AllStates, DirStates
  <2> QED
    BY <2>1 DEF PostQuote
<1>3. Quiet(f) /\ f.o = ftp.o /\ f.dontCheck = FALSE
  BY <1>1 DEF Quiet, Fields
<1> HIDE DEF f
<1>4. Answered(code, owed) = <<>>
  <2>1. "QUOTE" \in Owable /\ "QUOTE" \in AllStates /\ "QUOTE" \notin DataCommands /\ CommandOf("QUOTE") = "QUOTE"
    BY Commands DEF Owable, AllStates, DirStates, DataCommands
  <2>2. code # "1xx"
    BY <1>2, <2>1, NoInterim
  <2> QED
    BY <1>1, <2>1, <2>2, Answers
<1>5. CASE Sends(Sent(f, "QUOTE", "POSTQUOTE"), Answered(code, owed)) /\ UNCHANGED ftpPhase
  <2> DEFINE s == Sent(f, "QUOTE", "POSTQUOTE")
  <2>1. Asks(s, {"POSTQUOTE"}) /\ Like(f, s.ftp) /\ Sends(s, <<>>)
    BY <1>3, <1>4, <1>5, SentAsks, Commands DEF Quiet
  <2> HIDE DEF s
  <2>2. {"POSTQUOTE"} \in SUBSET AllStates
    BY DEF AllStates
  <2>3. ftp' = s.ftp /\ Waits(s.ftp, owed', {"POSTQUOTE"}) /\ owed' \in Seq(Owable) /\ owed' # <<>>
    BY <2>1, <2>2, AskedOwes
  <2>4. DOMAIN s.ftp = Fields /\ s.ftp.o = ftp.o /\ s.ftp.dontCheck = FALSE
    BY <1>3, <2>1 DEF Like, Alike, Kin
  <2> QED
    BY <1>1, <1>5, <2>3, <2>4 DEF StepInv, StepOK
<1>6. CASE Sends(Stop(f), Answered(code, owed)) /\ ftpPhase' = "idle"
  <2> DEFINE s == Stop(f)
  <2>1. Stops(s) /\ Like(f, s.ftp) /\ Sends(s, <<>>)
    BY <1>3, <1>4, <1>6, StopIs
  <2> HIDE DEF s
  <2>2. ftp' = s.ftp /\ owed' = <<>>
    BY <2>1, EndOwes
  <2>3. DOMAIN s.ftp = Fields /\ s.ftp.o = ftp.o /\ s.ftp.dontCheck = FALSE /\ s.ftp.pending = FALSE
    BY <1>3, <2>1 DEF Like, Alike, Kin, Stops
  <2> QED
    BY <1>1, <1>6, <2>2, <2>3, One DEF StepInv, StepOK
<1> QED
  BY <1>2, <1>5, <1>6

LEMMA AReuse == ASSUME StepInv, InOrder, Reuse PROVE StepInv'
<1>1. /\ DOMAIN ftp = Fields /\ ftp.dontCheck = FALSE /\ ftp.pending = FALSE /\ owed = <<>> /\ ftpPhase' = "do" /\ owed' = <<>>
  BY DEF StepInv, StepOK, Reuse, InOrder
<1>2. PICK opt \in FtpOptions : ftp' = [ftp EXCEPT !.o = opt, !.reuse = TRUE]
  BY DEF Reuse
<1>3. DOMAIN ftp' = Fields /\ ftp'.o = opt /\ ftp'.dontCheck = FALSE /\ ftp'.pending = FALSE
  BY <1>1, <1>2 DEF Fields
<1> QED
  BY <1>1, <1>2, <1>3, One DEF StepInv, StepOK

LEMMA StepInvNext == ASSUME StepInv, InOrder, [Next]_ftpVars PROVE StepInv'
<1>1. CASE UNCHANGED ftpVars
  BY <1>1 DEF ftpVars, StepInv, StepOK
<1> QED
  BY <1>1, AConnect, ADo, AReply, ADataFails, AKickstart, AnAccepted, ANoDataConnection, APhase, AClosed, ADone,
     ALastReply, ALastReplyAborted, APostQuote, AReuse DEF Next

\* If replies are not late, and ranges are asked for without quotes after them, what
\* is owed on the control connection is the reply the state waits for
\* (ftp_pp_statemachine, ftp_done).
THEOREM RepliesInStep ==
  ASSUME InOrder
  PROVE  Spec => []InStep
<1>1. Init => StepInv
  BY AnInit
<1>2. StepInv /\ [Next]_ftpVars => StepInv'
  BY StepInvNext
<1>3. StepInv => InStep
  <2>1. ASSUME StepInv, ftpPhase \in {"login", "doing", "more", "quotes"}, ftp.state # "STOP"
        PROVE  owed = <<CommandOf(ftp.state)>>
    BY <2>1 DEF StepInv, StepOK, Waits
  <2> QED
    BY <2>1, AtEnd DEF InStep
<1> QED
  BY <1>1, <1>2, <1>3, PTL DEF Spec

-----------------------------------------------------------------------------
(* The directory. *)

\* what is assumed of the paths; a refused MKD is not taken for a failure of CWD
Paths ==
  /\ \A opt \in FtpOptions : opt.dir \in Seq(STRING) /\ opt.dir # NoPath
  /\ \A opt \in FtpOptions : opt.mkdir # "once"

\* how far the server is on the way to the file
OnTheWay(f, d) ==
  /\ f.cwdcount \in Nat /\ f.cwdcount <= Len(f.o.dir)
  /\ f.state = "MKD" => f.cwdcount > 0
  /\ f.entrypath /\ f.cwdcount > 0 => d = SubSeq(f.o.dir, 1, f.cwdcount - 1)

DirOK(f, ph, d) ==
  /\ ph \in {"new", "login"} => f.reuse = FALSE /\ d = <<>>
  /\ ph = "do" /\ f.entrypath => IF f.reuse THEN f.prevpath = NoPath \/ d = f.prevpath ELSE d = <<>>
  /\ ph = "doing" /\ f.state = "QUOTE" /\ f.entrypath =>
       IF f.cwddone THEN d = f.o.dir ELSE f.reuse \/ d = <<>>
  /\ ph = "doing" /\ f.state \in {"CWD", "MKD"} => OnTheWay(f, d)
  /\ (ph = "doing" /\ f.state \notin DirStates) \/ ph \in {"more", "perform", "ok"} => (f.entrypath => d = f.o.dir)
  /\ ph = "kept" => (f.entrypath /\ ~f.cwdfail => d = f.o.dir)
  /\ ph \in {"idle", "quotes"} => (f.entrypath => f.prevpath = NoPath \/ d = f.prevpath)

DirInv == DirOK(ftp, ftpPhase, serverDir)

LEMMA Prefixes ==
  ASSUME NEW d \in Seq(STRING), NEW n \in Nat, n > 0, n <= Len(d)
  PROVE  /\ Append(SubSeq(d, 1, n - 1), d[n]) = SubSeq(d, 1, n)
         /\ SubSeq(d, 1, Len(d)) = d
         /\ SubSeq(d, 1, 0) = <<>>
<1>1. SubSeq(d, 1, Len(d)) = d
  BY SubSeqFull
<1>2. SubSeq(d, 1, 0) = <<>>
  BY SubSeqEmpty
<1>3. Append(SubSeq(d, 1, n - 1), d[n]) = SubSeq(d, 1, n)
  BY SubSeqRecursiveSecond
<1> QED
  BY <1>1, <1>2, <1>3

\* with the server in the directory the steps before the data connection stay there
LEMMA DoingDir ==
  ASSUME NEW f, NEW s, DoingStep(f, s) \/ (Like(f, s.ftp) /\ Stops(s)), ftp' = s.ftp, ftpPhase' = Leads(s, "doing"),
         f.entrypath => serverDir' = f.o.dir
  PROVE  DirInv'
<1>1. Like(f, s.ftp) /\ (Asks(s, DoingStates) \/ Stops(s) \/ Fails(s))
  BY DEF DoingStep
<1>2. s.ftp.entrypath => serverDir' = s.ftp.o.dir
  BY <1>1 DEF Like, Alike, Kin
<1>3. CASE Asks(s, DoingStates)
  <2>1. ftpPhase' = "doing" /\ s.ftp.state \notin DirStates
    BY <1>3 DEF Asks, Leads, DoingStates, DirStates
  <2> QED
    BY <1>2, <2>1 DEF DirInv, DirOK, DirStates
<1>4. CASE Stops(s)
  <2>1. ftpPhase' \in {"more", "perform"}
    BY <1>4 DEF Stops, Leads, AfterStop
  <2> QED
    BY <1>2, <2>1 DEF DirInv, DirOK
<1>5. CASE Fails(s)
  <2>1. ftpPhase' \in {"kept", "fatal"}
    BY <1>5 DEF Fails, Leads
  <2> QED
    BY <1>2, <2>1 DEF DirInv, DirOK
<1> QED
  BY <1>1, <1>3, <1>4, <1>5

LEMMA QuoteDir ==
  ASSUME NEW f, NEW s, QuoteStep(f, s), ftp' = s.ftp, ftpPhase' = Leads(s, "doing"), f.o.dir \in Seq(STRING),
         f.entrypath => IF f.cwddone THEN serverDir' = f.o.dir ELSE f.reuse \/ serverDir' = <<>>
  PROVE  DirInv'
<1>1. CASE DoingStep(f, s) /\ (f.cwddone \/ (~(f.reuse /\ f.entrypath) /\ f.o.dir = <<>>))
  <2>1. f.entrypath => serverDir' = f.o.dir
    BY <1>1
  <2> QED
    BY <1>1, <2>1, DoingDir
<1>2. CASE /\ Like(f, s.ftp) /\ Asks(s, {"CWD"}) /\ ~f.cwddone
           /\ \/ f.reuse /\ f.entrypath /\ s.ftp.cwdcount = 0
              \/ ~(f.reuse /\ f.entrypath) /\ f.o.dir # <<>> /\ s.ftp.cwdcount = 1
  <2>1. s.ftp.o = f.o /\ s.ftp.entrypath = f.entrypath
    BY <1>2 DEF Like, Alike, Kin
  <2>2. s.ftp.state = "CWD" /\ ftpPhase' = "doing"
    BY <1>2 DEF Asks, Leads
  <2>3. OnTheWay(s.ftp, serverDir')
    <3>1. CASE s.ftp.cwdcount = 0
      BY <2>1, <2>2, <3>1 DEF OnTheWay
    <3>2. CASE s.ftp.cwdcount = 1 /\ f.o.dir # <<>> /\ ~(f.reuse /\ f.entrypath)
      <4>1. 1 <= Len(f.o.dir) /\ SubSeq(f.o.dir, 1, 0) = <<>>
        BY <3>2, SubSeqEmpty, EmptySeq
      <4>2. f.entrypath => serverDir' = <<>>
        BY <1>2, <3>2
      <4>3. s.ftp.cwdcount \in Nat /\ s.ftp.cwdcount - 1 = 0 /\ s.ftp.cwdcount <= Len(s.ftp.o.dir)
        BY <2>1, <3>2, <4>1
      <4>4. s.ftp.entrypath => serverDir' = SubSeq(s.ftp.o.dir, 1, s.ftp.cwdcount - 1)
        BY <2>1, <4>1, <4>2, <4>3
      <4> QED
        BY <2>2, <4>3, <4>4 DEF OnTheWay
    <3> QED
      BY <1>2, <3>1, <3>2
  <2> QED
    BY <2>2, <2>3 DEF DirInv, DirOK, DirStates
<1>3. CASE Like(f, s.ftp) /\ Asks(s, {"QUOTE"})
  <2>1. s.ftp.o = f.o /\ s.ftp.entrypath = f.entrypath /\ s.ftp.reuse = f.reuse /\ s.ftp.cwddone = f.cwddone
    BY <1>3 DEF Like, Alike, Kin
  <2>2. s.ftp.state = "QUOTE" /\ ftpPhase' = "doing"
    BY <1>3 DEF Asks, Leads
  <2> QED
    BY <2>1, <2>2 DEF DirInv, DirOK, DirStates
<1> QED
  BY <1>1, <1>2, <1>3 DEF QuoteStep, CwdStep

\* with a data connection the server stays where it is
LEMMA MoreDir ==
  ASSUME NEW f, NEW s, MoreStep(f, s) \/ DataStep(f, s), ftp' = s.ftp, ftpPhase' = Leads(s, "more"),
         f.entrypath => serverDir' = f.o.dir
  PROVE  DirInv'
<1>1. Alike(f, s.ftp) /\ (Asks(s, MoreStates) \/ (s.error = "no" /\ s.ftp.state = "STOP") \/ s.error \in {"kept", "fatal"})
  BY DEF MoreStep, DataStep, Like, Stops, Fails
<1>2. s.ftp.entrypath => serverDir' = s.ftp.o.dir
  BY <1>1 DEF Alike, Kin
<1>3. ftpPhase' \in {"more", "perform", "kept", "fatal"}
  BY <1>1 DEF Leads, AfterStop, Asks
<1> QED
  BY <1>2, <1>3 DEF DirInv, DirOK

LEMMA OnlyCwd == ASSUME NEW st \in AllStates, CommandOf(st) = "CWD" PROVE st = "CWD"
<1>1. CASE st \in {"QUOTE", "RETR_PREQUOTE", "STOR_PREQUOTE", "LIST_PREQUOTE", "POSTQUOTE"}
  BY <1>1, Commands
<1>2. CASE st \in {"TYPE", "LIST_TYPE", "RETR_TYPE", "STOR_TYPE", "RETR_LIST_TYPE"}
  BY <1>2, Commands
<1>3. CASE st \in {"SIZE", "RETR_SIZE", "STOR_SIZE", "REST", "RETR_REST", "WAIT220"}
  BY <1>3, Commands
<1>4. CASE st \in {"AUTH", "USER", "PASS", "ACCT", "PBSZ", "PROT", "CCC", "PWD", "SYST", "NAMEFMT", "CWD", "MKD",
                   "MDTM", "PRET", "PASV", "PORT", "RETR", "STOR", "LIST"}
  BY <1>4, Commands
<1> QED
  BY <1>1, <1>2, <1>3, <1>4 DEF AllStates, LoginStates, DirStates, DoingStates, MoreStates

\* a reply to CWD or MKD brings the server one directory further, or leaves it
LEMMA CwdDir ==
  ASSUME Paths, NEW f, f.o \in FtpOptions, f.state \in {"CWD", "MKD"}, NEW code, NEW s, DirStep(f, code, s), ftp' = s.ftp,
         ftpPhase' = Leads(s, "doing"), OnTheWay(f, serverDir),
         serverDir' = IF f.state = "CWD" /\ Ok(code)
                      THEN IF f.cwdcount = 0 THEN <<>> ELSE Append(serverDir, f.o.dir[f.cwdcount])
                      ELSE serverDir
  PROVE  DirInv'
<1>1. f.o.dir \in Seq(STRING) /\ f.o.mkdir # "once" /\ f.cwdcount \in Nat /\ f.cwdcount <= Len(f.o.dir)
  BY DEF Paths, OnTheWay
<1>2. CASE f.state = "CWD" /\ Ok(code)
  <2>1. f.entrypath => serverDir' = SubSeq(f.o.dir, 1, f.cwdcount)
    <3>1. CASE f.cwdcount = 0
      <4>1. SubSeq(f.o.dir, 1, 0) = <<>>
        BY SubSeqEmpty
      <4>2. serverDir' = <<>>
        BY <1>2, <3>1
      <4> QED
        BY <3>1, <4>1, <4>2
    <3>2. CASE f.cwdcount > 0
      <4>1. Append(SubSeq(f.o.dir, 1, f.cwdcount - 1), f.o.dir[f.cwdcount]) = SubSeq(f.o.dir, 1, f.cwdcount)
        BY <1>1, <3>2, Prefixes
      <4>2. f.entrypath => serverDir = SubSeq(f.o.dir, 1, f.cwdcount - 1)
        BY <3>2 DEF OnTheWay
      <4>3. serverDir' = Append(serverDir, f.o.dir[f.cwdcount])
        BY <1>1, <1>2, <3>2
      <4> QED
        BY <4>1, <4>2, <4>3
    <3> QED
      BY <1>1, <3>1, <3>2
  <2>2. CASE DoingStep(f, s) /\ f.cwdcount >= Len(f.o.dir)
    <3>1. f.cwdcount = Len(f.o.dir) /\ SubSeq(f.o.dir, 1, Len(f.o.dir)) = f.o.dir
      BY <1>1, <2>2, SubSeqFull
    <3>2. f.entrypath => serverDir' = f.o.dir
      BY <2>1, <3>1
    <3> QED
      BY <2>2, <3>2, DoingDir
  <2>3. CASE /\ Like(f, s.ftp) /\ Asks(s, {"CWD"}) /\ ~(f.cwdcount >= Len(f.o.dir))
             /\ s.ftp.cwdcount = f.cwdcount + 1
    <3>1. s.ftp.o = f.o /\ s.ftp.entrypath = f.entrypath
      BY <2>3 DEF Like, Alike, Kin
    <3>2. s.ftp.state = "CWD" /\ ftpPhase' = "doing"
      BY <2>3 DEF Asks, Leads
    <3>3. s.ftp.cwdcount \in Nat /\ s.ftp.cwdcount <= Len(s.ftp.o.dir) /\ s.ftp.cwdcount - 1 = f.cwdcount
      BY <1>1, <2>3, <3>1
    <3>4. OnTheWay(s.ftp, serverDir')
      BY <2>1, <3>1, <3>2, <3>3 DEF OnTheWay
    <3> QED
      BY <3>2, <3>4 DEF DirInv, DirOK, DirStates
  <2> QED
    BY <1>2, <2>2, <2>3 DEF DirStep
<1>3. CASE ~(f.state = "CWD" /\ Ok(code))
  <2>1. serverDir' = serverDir
    BY <1>3
  <2>2. CASE /\ Like(f, s.ftp) /\ Asks(s, {"CWD", "MKD"}) /\ s.ftp.cwdcount = f.cwdcount
             /\ f.state = "CWD" => f.cwdcount > 0
    <3>1. s.ftp.o = f.o /\ s.ftp.entrypath = f.entrypath
      BY <2>2 DEF Like, Alike, Kin
    <3>2. s.ftp.state \in {"CWD", "MKD"} /\ ftpPhase' = "doing"
      BY <2>2 DEF Asks, Leads
    <3>3. f.cwdcount > 0
      BY <2>2 DEF OnTheWay
    <3>4. OnTheWay(s.ftp, serverDir')
      BY <2>1, <2>2, <3>1, <3>3 DEF OnTheWay
    <3> QED
      BY <3>2, <3>4 DEF DirInv, DirOK, DirStates
  <2>3. CASE Fails(s) /\ s.ftp.cwdfail = TRUE
    <3>1. ftpPhase' \in {"kept", "fatal"}
      BY <2>3 DEF Fails, Leads
    <3> QED
      BY <2>3, <3>1 DEF DirInv, DirOK
  <2> QED
    BY <1>1, <1>3, <2>2, <2>3 DEF DirStep
<1> QED
  BY <1>2, <1>3

LEMMA ReplyDir == ASSUME Paths, StepInv, StepInv', DirInv, Reply PROVE DirInv'
<1>1. DOMAIN ftp = Fields /\ ftp.o \in FtpOptions /\ (ftp.dontCheck => ftp.o.range)
  BY DEF StepInv, StepOK
<1> DEFINE g == Replied
<1>2. Quiet(g) /\ Like(ftp, g) /\ g.transfer = ftp.transfer /\ g.state = ftp.state /\ g.o = ftp.o /\ g.cwdcount = ftp.cwdcount
  BY <1>1, RepliedIs
<1>3. g.o \in FtpOptions /\ g.ctlValid = ftp.ctlValid /\ g.reuse = ftp.reuse /\ g.entrypath = ftp.entrypath /\ g.cwddone = ftp.cwddone
  BY <1>1, <1>2 DEF Like, Alike, Kin
<1>4. CASE ftpPhase' = "fatal"
  BY <1>4 DEF DirInv, DirOK
<1>5. ASSUME NEW S \in SUBSET AllStates, Waits(ftp, owed, S), ftpPhase' # "fatal"
      PROVE  \E code \in Codes(CommandOf(ftp.state)) :
               /\ serverDir' = IF ftp.state = "CWD" /\ Ok(code)
                               THEN IF ftp.cwdcount = 0 THEN <<>> ELSE Append(serverDir, ftp.o.dir[ftp.cwdcount])
                               ELSE serverDir
               /\ \E s \in OnReply(g, code) : ftp' = s.ftp /\ ftpPhase' = Leads(s, ftpPhase)
  <2>1. owed = <<CommandOf(ftp.state)>> /\ CommandOf(ftp.state) \in Owable /\ ftp.state \in AllStates
    BY <1>5, CommandNames DEF Waits
  <2>2. PICK code \in Codes(CommandOf(ftp.state)) :
          serverDir' = Moves(ftp, code) /\ \E s \in OnReply(Replied, code) : Proceeds(code, s)
    BY <1>1, <1>5, <2>1, ReplyCases
  <2>3. Head(owed) = CommandOf(ftp.state)
    BY <2>1, One
  <2>4. Head(owed) = "CWD" <=> ftp.state = "CWD"
    BY <2>1, <2>3, OnlyCwd, Commands
  <2>5. serverDir' = IF ftp.state = "CWD" /\ Ok(code)
                     THEN IF ftp.cwdcount = 0 THEN <<>> ELSE Append(serverDir, ftp.o.dir[ftp.cwdcount])
                     ELSE serverDir
    BY <2>2, <2>4 DEF Moves
  <2> QED
    BY <2>2, <2>5 DEF Proceeds, Sends
<1>6. CASE ftpPhase = "login" /\ ftpPhase' # "fatal"
  <2>1. Waits(ftp, owed, LoginStates) /\ ftp.reuse = FALSE /\ serverDir = <<>>
    BY <1>6 DEF StepInv, StepOK, DirInv, DirOK
  <2>2. LoginStates \in SUBSET AllStates /\ ftp.state \in LoginStates /\ ftp.state # "CWD"
    BY <2>1 DEF AllStates, LoginStates, Waits
  <2>9. PICK code \in Codes(CommandOf(ftp.state)) :
          serverDir' = serverDir /\ \E s \in OnReply(g, code) : ftp' = s.ftp /\ ftpPhase' = Leads(s, "login")
    BY <1>5, <1>6, <2>1, <2>2
  <2>3. PICK s \in OnReply(g, code) : ftp' = s.ftp /\ ftpPhase' = Leads(s, "login")
    BY <2>9
  <2>4. LoginStep(g, s)
    <3> HIDE DEF g
    <3> QED
      BY <1>2, <2>2, <2>3, LoginReplies
  <2>5. ftp'.reuse = FALSE /\ ftpPhase' \in {"login", "do"}
    <3> HIDE DEF g
    <3>1. s.ftp.reuse = FALSE
      BY <1>3, <2>1, <2>4 DEF LoginStep, Kin
    <3> QED
      BY <1>6, <2>3, <2>4, <3>1 DEF LoginStep, Asks, Stops, Fails, Leads, AfterStop
  <2> QED
    BY <2>1, <2>9, <2>5 DEF DirInv, DirOK
<1>7. CASE ftpPhase = "doing" /\ ftpPhase' # "fatal"
  <2> DEFINE S == DirStates \cup DoingStates
  <2>1. Waits(ftp, owed, S) /\ ftp.ctlValid = TRUE /\ (ftp.state = "RETR_PREQUOTE" => ftp.transfer # "body")
    BY <1>7 DEF StepInv, StepOK
  <2>2. S \in SUBSET AllStates /\ ftp.state \in S
    BY <2>1 DEF AllStates, Waits
  <2>9. PICK code \in Codes(CommandOf(ftp.state)) :
          /\ serverDir' = IF ftp.state = "CWD" /\ Ok(code)
                          THEN IF ftp.cwdcount = 0 THEN <<>> ELSE Append(serverDir, ftp.o.dir[ftp.cwdcount])
                          ELSE serverDir
          /\ \E s \in OnReply(g, code) : ftp' = s.ftp /\ ftpPhase' = Leads(s, "doing")
    <3> HIDE DEF S
    <3> QED
      BY <1>5, <1>7, <2>1, <2>2
  <2>3. PICK s \in OnReply(g, code) : ftp' = s.ftp /\ ftpPhase' = Leads(s, "doing")
    BY <2>9
  <2> HIDE DEF g
  <2>4. CASE ftp.state \in {"CWD", "MKD"}
    <3>1. DirStep(g, code, s)
      BY <1>2, <2>3, <2>4, DirReplies
    <3>2. OnTheWay(g, serverDir)
      BY <1>2, <1>3, <1>7, <2>4 DEF DirInv, DirOK, OnTheWay
    <3>3. serverDir' = IF g.state = "CWD" /\ Ok(code)
                       THEN IF g.cwdcount = 0 THEN <<>> ELSE Append(serverDir, g.o.dir[g.cwdcount])
                       ELSE serverDir
      BY <1>2, <2>9
    <3>4. g.state \in {"CWD", "MKD"}
      BY <1>2, <2>4
    <3> QED
      BY <1>3, <2>3, <3>1, <3>2, <3>3, <3>4, CwdDir
  <2>5. CASE ftp.state = "QUOTE"
    <3>1. QuoteStep(g, s)
      <4>1. QuoteStep(g, s) \/ s.error = "fatal"
        BY <1>2, <2>3, <2>5, QuoteReplies
      <4> QED
        BY <1>7, <2>3, <4>1 DEF Leads
    <3>2. serverDir' = serverDir /\ g.o.dir \in Seq(STRING)
      BY <1>3, <2>9, <2>5 DEF Paths
    <3>3. g.entrypath => IF g.cwddone THEN serverDir' = g.o.dir ELSE g.reuse \/ serverDir' = <<>>
      BY <1>2, <1>3, <1>7, <2>5, <3>2 DEF DirInv, DirOK
    <3> QED
      BY <2>3, <3>1, <3>2, <3>3, QuoteDir
  <2>6. CASE ftp.state \in DoingStates
    <3>1. g.ctlValid = TRUE /\ g.state \in DoingStates /\ (g.state = "RETR_PREQUOTE" => g.transfer # "body")
      BY <1>2, <1>3, <2>1, <2>6
    <3>2. DoingReply(g, s)
      BY <1>2, <2>3, <3>1, DoingReplies
    <3>3. DoingStep(g, s) \/ (Like(g, s.ftp) /\ Stops(s))
      BY <3>2 DEF DoingReply
    <3>4. ftp.state \notin DirStates
      BY <2>6 DEF DoingStates, DirStates
    <3>5. serverDir' = serverDir
      BY <2>9, <3>4 DEF DirStates
    <3>6. g.entrypath => serverDir' = g.o.dir
      BY <1>2, <1>3, <1>7, <3>4, <3>5 DEF DirInv, DirOK
    <3> QED
      BY <2>3, <3>3, <3>6, DoingDir
  <2> QED
    BY <2>2, <2>4, <2>5, <2>6 DEF DirStates
<1>8. CASE InDataPhase /\ ftpPhase' # "fatal"
  <2>1. ftpPhase = "more" /\ ftp.state # "STOP"
    BY <1>8 DEF InDataPhase, Reply
  <2>2. Waits(ftp, owed, MoreStates) /\ ftp.transfer = "body"
    BY <2>1 DEF StepInv, StepOK
  <2>3. MoreStates \in SUBSET AllStates /\ ftp.state \in MoreStates /\ ftp.state # "CWD"
    BY <2>2 DEF AllStates, Waits, MoreStates
  <2>9. PICK code \in Codes(CommandOf(ftp.state)) :
          serverDir' = serverDir /\ \E s \in OnReply(g, code) : ftp' = s.ftp /\ ftpPhase' = Leads(s, "more")
    BY <1>5, <1>8, <2>1, <2>2, <2>3
  <2>4. PICK s \in OnReply(g, code) : ftp' = s.ftp /\ ftpPhase' = Leads(s, "more")
    BY <2>9
  <2> HIDE DEF g
  <2>5. MoreStep(g, s) \/ DataStep(g, s)
    <3>1. CASE ftp.state \in DataCommands
      BY <1>2, <2>2, <2>4, <3>1, DataReplies
    <3>2. CASE ftp.state \notin DataCommands
      BY <1>2, <2>2, <2>3, <2>4, <3>2, MoreReplies
    <3> QED
      BY <3>1, <3>2
  <2>6. g.entrypath => serverDir' = g.o.dir
    BY <1>2, <1>3, <2>1, <2>9 DEF DirInv, DirOK
  <2> QED
    BY <2>4, <2>5, <2>6, MoreDir
<1> QED
  BY <1>4, <1>6, <1>7, <1>8 DEF Reply

LEMMA InitDir == ASSUME Init PROVE DirInv
<1>1. PICK opt \in FtpOptions : ftp = NewFtp(opt)
  BY DEF Init
<1>2. ftpPhase = "new" /\ serverDir = <<>>
  BY DEF Init
<1>3. ftp.reuse = FALSE
  BY <1>1 DEF NewFtp
<1> QED
  BY <1>2, <1>3 DEF DirInv, DirOK

LEMMA ConnectDir == ASSUME StepInv, DirInv, Connect PROVE DirInv'
<1> DEFINE s == Sent(ftp, "greeting", "WAIT220")
<1>1. DOMAIN ftp = Fields /\ ftpPhase' = "login" /\ Sends(s, <<>>) /\ serverDir' = serverDir
  BY DEF StepInv, StepOK, Connect
<1>2. ftp.reuse = FALSE /\ serverDir = <<>>
  BY DEF DirInv, DirOK, Connect
<1>3. IsSent(s, ftp, "greeting", "WAIT220")
  BY <1>1, SentIs
<1> HIDE DEF s
<1>4. ftp' = s.ftp /\ s.ftp.reuse = FALSE
  BY <1>1, <1>2, <1>3 DEF Sends, IsSent, Like, Alike, Kin
<1> QED
  BY <1>1, <1>2, <1>4 DEF DirInv, DirOK

\* a remembered directory that is this one needs no CWD
LEMMA DoDir == ASSUME Paths, StepInv, DirInv, Do PROVE DirInv'
<1> DEFINE f == Parsed(ftp)
<1>1. DOMAIN ftp = Fields /\ ftp.o \in FtpOptions /\ ftp.pending = FALSE /\ serverDir' = serverDir
  BY DEF StepInv, StepOK, Do
<1>2. /\ Quiet(f) /\ Kin(ftp, f) /\ Still(f) /\ f.ctlValid = TRUE /\ f.entrypath = ftp.entrypath
      /\ f.cwddone = IF ftp.reuse THEN ftp.prevpath = ftp.o.dir ELSE ftp.o.dir = <<>>
  BY <1>1, ParsedIs
<1>3. PICK s \in Quote(f, 0) : Sends(s, owed) /\ ftpPhase' = Leads(s, "doing")
  BY DEF Do
<1> HIDE DEF f
<1>4. f.o = ftp.o /\ f.reuse = ftp.reuse
  BY <1>2 DEF Kin
<1>5. QuoteStep(f, s) /\ ftp' = s.ftp
  BY <1>2, <1>3, Quotes DEF Sends
<1>6. f.o.dir \in Seq(STRING) /\ f.o.dir # NoPath
  BY <1>1, <1>4 DEF Paths
<1>7. f.entrypath => IF f.reuse THEN ftp.prevpath = NoPath \/ serverDir = ftp.prevpath ELSE serverDir = <<>>
  BY <1>2, <1>4 DEF DirInv, DirOK, Do
<1>8. f.entrypath => IF f.cwddone THEN serverDir' = f.o.dir ELSE f.reuse \/ serverDir' = <<>>
  BY <1>1, <1>2, <1>4, <1>6, <1>7
<1> QED
  BY <1>3, <1>5, <1>6, <1>8, QuoteDir

LEMMA DataFailsDir == ASSUME StepInv, DirInv, DataFails PROVE DirInv'
<1>1. /\ DOMAIN ftp = Fields /\ ftp.pending = FALSE /\ serverDir' = serverDir /\ (ftp.entrypath => serverDir = ftp.o.dir)
  BY DEF StepInv, StepOK, DataFails, DirInv, DirOK
<1>2. PICK s \in (IF ftp.count1 = 0 THEN EpsvDisable(ftp) ELSE {Fatal(ftp)}) :
        Sends(s, owed) /\ ftpPhase' = IF s.error = "no" THEN "doing" ELSE s.error
  BY DEF DataFails
<1>3. Quiet(ftp)
  BY <1>1 DEF Quiet
<1>4. DoingStep(ftp, s) /\ ~Stops(s)
  <2>1. CASE s = Fatal(ftp)
    <3>1. Fails(s) /\ Like(ftp, s.ftp)
      BY <1>3, <2>1, FailIs
    <3> QED
      BY <3>1 DEF DoingStep, Fails, Stops
  <2> QED
    BY <1>2, <1>3, <2>1, Disables
<1>5. ftpPhase' = Leads(s, "doing") /\ ftp' = s.ftp
  BY <1>2, <1>4 DEF DoingStep, Leads, Asks, Fails, Stops, DoingStates, Sends
<1> QED
  BY <1>1, <1>4, <1>5, DoingDir

LEMMA KickstartDir == ASSUME StepInv, DirInv, Kickstart PROVE DirInv'
<1> DEFINE f == [ftp EXCEPT !.dontCheck = ftp.o.range /\ ~ftp.o.upload]
<1>1. /\ DOMAIN ftp = Fields /\ ftp.pending = FALSE /\ ftp.transfer = "body" /\ serverDir' = serverDir
      /\ (ftp.entrypath => serverDir = ftp.o.dir)
  BY DEF StepInv, StepOK, DirInv, DirOK, Kickstart, InDataPhase, Waits, MoreStates
<1>2. PICK s \in FirstCommand(f) : Sends(s, owed) /\ ftpPhase' = Leads(s, "more")
  BY DEF Kickstart
<1>3. Quiet(f) /\ f.o = ftp.o /\ f.entrypath = ftp.entrypath /\ f.transfer = "body"
  BY <1>1 DEF Quiet, Fields
<1> HIDE DEF f
<1>4. MoreStep(f, s) /\ ftp' = s.ftp
  BY <1>2, <1>3, FirstCommands DEF Sends
<1>5. f.entrypath => serverDir' = f.o.dir
  BY <1>1, <1>3
<1> QED
  BY <1>2, <1>4, <1>5, MoreDir

LEMMA AcceptedDir == ASSUME StepInv, DirInv, Accepted PROVE DirInv'
<1>1. /\ DOMAIN ftp = Fields /\ serverDir' = serverDir /\ (ftp.entrypath => serverDir = ftp.o.dir)
      /\ ftpPhase' = "perform"
  BY DEF StepInv, StepOK, DirInv, DirOK, Accepted, InDataPhase
<1>2. ftp' = Initiate(ftp).ftp
  BY DEF Accepted, Sends
<1>3. DataStep(ftp, Initiate(ftp))
  BY <1>1, Initiates
<1>4. ftp'.entrypath = ftp.entrypath /\ ftp'.o = ftp.o
  BY <1>2, <1>3 DEF DataStep, Alike, Kin
<1> QED
  BY <1>1, <1>4 DEF DirInv, DirOK

LEMMA NoDataDir == ASSUME StepInv, DirInv, NoDataConnection PROVE DirInv'
<1> DEFINE f == [ftp EXCEPT !.pending = FALSE]
<1>1. /\ DOMAIN ftp = Fields /\ serverDir' = serverDir /\ (ftp.entrypath => serverDir = ftp.o.dir)
      /\ ftpPhase' \in {"kept", "fatal"} /\ ftp' = Step(f, "").ftp
  BY DEF StepInv, StepOK, DirInv, DirOK, NoDataConnection, InDataPhase, Sends
<1>2. ftp'.entrypath = ftp.entrypath /\ ftp'.o = ftp.o
  BY <1>1 DEF Step, Fields
<1> QED
  BY <1>1, <1>2 DEF DirInv, DirOK

LEMMA PhaseDir ==
  ASSUME DirInv, Performed \/ Interrupted \/ AcceptTimeout \/ DataConnects \/ UNCHANGED ftpVars
  PROVE  DirInv'
<1>1. UNCHANGED <<ftp, serverDir>>
  BY DEF Performed, Interrupted, AcceptTimeout, DataConnects, ftpVars
<1>2. CASE Performed
  <2>1. ftpPhase = "perform" /\ ftpPhase' \in {"ok", "fatal"}
    BY <1>2 DEF Performed
  <2> QED
    BY <1>1, <2>1 DEF DirInv, DirOK
<1>3. CASE Interrupted
  <2>1. ftpPhase' = "fatal"
    BY <1>3 DEF Interrupted
  <2> QED
    BY <1>1, <2>1 DEF DirInv, DirOK
<1>4. CASE AcceptTimeout
  <2>1. ftpPhase = "more" /\ ftpPhase' = "kept"
    BY <1>4 DEF AcceptTimeout, InDataPhase
  <2> QED
    BY <1>1, <2>1 DEF DirInv, DirOK
<1>5. CASE DataConnects \/ UNCHANGED ftpVars
  <2>1. ftpPhase' = ftpPhase
    BY <1>5 DEF DataConnects, ftpVars
  <2> QED
    BY <1>1, <2>1 DEF DirInv, DirOK
<1> QED
  BY <1>2, <1>3, <1>4, <1>5

LEMMA ClosedDir == ASSUME Closed \/ FoundUnclean PROVE DirInv'
<1>1. ftpPhase' = "closed"
  BY DEF Closed, FoundUnclean
<1> QED
  BY <1>1 DEF DirInv, DirOK

\* what is remembered at the end is where the server is
LEMMA FinishDir ==
  ASSUME StepInv, DirInv, ftpPhase \in {"ok", "kept"}, NEW code, NEW left, NEW waited, Finish(code, left, waited)
  PROVE  DirInv'
<1>1. DOMAIN ftp = Fields /\ (ftp.entrypath /\ ~ftp.cwdfail => serverDir = ftp.o.dir)
  BY DEF StepInv, StepOK, DirInv, DirOK
<1>2. /\ Quiet(Finished) /\ Finished.entrypath = ftp.entrypath
      /\ Finished.prevpath = IF ftp.cwdfail THEN NoPath ELSE ftp.o.dir
  BY <1>1, FinishedIs
<1>3. Finished.entrypath => Finished.prevpath = NoPath \/ serverDir = Finished.prevpath
  BY <1>1, <1>2
<1>4. serverDir' = serverDir
  BY DEF Finish
<1>5. CASE ftp' = Finished /\ ftpPhase' \in {"closed", "idle"}
  BY <1>3, <1>4, <1>5 DEF DirInv, DirOK
<1>6. CASE Sends(Sent(Finished, "QUOTE", "POSTQUOTE"), left) /\ ftpPhase' = "quotes"
  <2> DEFINE s == Sent(Finished, "QUOTE", "POSTQUOTE")
  <2>1. IsSent(s, Finished, "QUOTE", "POSTQUOTE") /\ ftp' = s.ftp
    BY <1>2, <1>6, SentIs DEF Quiet, Sends
  <2> HIDE DEF s
  <2>2. ftp'.entrypath = Finished.entrypath /\ ftp'.prevpath = Finished.prevpath
    BY <2>1 DEF IsSent, Like, Alike, Kin
  <2> QED
    BY <1>3, <1>4, <1>6, <2>2 DEF DirInv, DirOK
<1> QED
  BY <1>1, <1>5, <1>6, Finishes

LEMMA EndDir == ASSUME StepInv, DirInv, Done \/ LastReply \/ LastReplyAborted PROVE DirInv'
<1>1. CASE Done
  BY <1>1, FinishDir DEF Done
<1>2. CASE LastReply
  BY <1>2, FinishDir DEF LastReply
<1>3. CASE LastReplyAborted
  <2>1. ftp' = Remembered /\ ftpPhase' = "idle" /\ serverDir' = serverDir /\ ftpPhase \in {"ok", "kept"}
    BY <1>3 DEF LastReplyAborted
  <2>2. DOMAIN ftp = Fields /\ (ftp.entrypath /\ ~ftp.cwdfail => serverDir = ftp.o.dir)
    BY <2>1 DEF StepInv, StepOK, DirInv, DirOK
  <2>3. Remembered.entrypath = ftp.entrypath /\ Remembered.prevpath = IF ftp.cwdfail THEN NoPath ELSE ftp.o.dir
    BY <2>2, RememberedIs
  <2> QED
    BY <2>1, <2>2, <2>3 DEF DirInv, DirOK
<1> QED
  BY <1>1, <1>2, <1>3

LEMMA PostQuoteDir == ASSUME StepInv, DirInv, PostQuote PROVE DirInv'
<1> DEFINE f == [ftp EXCEPT !.count3 = ftp.count3 - 1, !.pending = FALSE]
<1>1. DOMAIN ftp = Fields /\ serverDir' = serverDir /\ (ftp.entrypath => ftp.prevpath = NoPath \/ serverDir = ftp.prevpath)
  BY DEF StepInv, StepOK, DirInv, DirOK, PostQuote
<1>2. PICK s \in {Sent(f, "QUOTE", "POSTQUOTE"), Stop(f)} : ftp' = s.ftp /\ ftpPhase' \in {"quotes", "idle"}
  BY DEF PostQuote, Sends
<1>3. Quiet(f) /\ f.entrypath = ftp.entrypath /\ f.prevpath = ftp.prevpath
  BY <1>1 DEF Quiet, Fields
<1> HIDE DEF f
<1>4. Like(f, s.ftp)
  <2>1. CASE s = Sent(f, "QUOTE", "POSTQUOTE")
    <3>1. IsSent(s, f, "QUOTE", "POSTQUOTE")
      BY <1>3, <2>1, SentIs DEF Quiet
    <3> QED
      BY <3>1 DEF IsSent
  <2> QED
    BY <1>2, <1>3, <2>1, StopIs
<1>5. ftp'.entrypath = ftp.entrypath /\ ftp'.prevpath = ftp.prevpath
  BY <1>2, <1>3, <1>4 DEF Like, Alike, Kin
<1> QED
  BY <1>1, <1>2, <1>5 DEF DirInv, DirOK

LEMMA ReuseDir == ASSUME StepInv, DirInv, Reuse PROVE DirInv'
<1>1. /\ DOMAIN ftp = Fields /\ serverDir' = serverDir /\ ftpPhase' = "do"
      /\ (ftp.entrypath => ftp.prevpath = NoPath \/ serverDir = ftp.prevpath)
  BY DEF StepInv, StepOK, DirInv, DirOK, Reuse
<1>2. ftp'.entrypath = ftp.entrypath /\ ftp'.prevpath = ftp.prevpath /\ ftp'.reuse = TRUE
  BY <1>1 DEF Reuse, Fields
<1> QED
  BY <1>1, <1>2 DEF DirInv, DirOK

LEMMA DirInvNext == ASSUME InOrder, Paths, StepInv, StepInv', DirInv, [Next]_ftpVars PROVE DirInv'
BY ConnectDir, DoDir, ReplyDir, DataFailsDir, KickstartDir, AcceptedDir, NoDataDir, PhaseDir, ClosedDir, EndDir,
   PostQuoteDir, ReuseDir DEF Next

\* With the same assumptions, and if a directory that cannot be made is tried for
\* again (CURLFTP_CREATE_DIR_RETRY) or none is made, what is remembered for the next
\* transfer is where the server is, and a file is named only in its directory
\* (ftp_state_cwd, ftp_done).  This is the other part of FtpRight.
THEOREM FtpStaysRight ==
  ASSUME InOrder, Paths
  PROVE  Spec => []FtpRight
<1>1. Init => StepInv /\ DirInv
  BY AnInit, InitDir
<1>2. StepInv /\ DirInv /\ [Next]_ftpVars => (StepInv /\ DirInv)'
  BY StepInvNext, DirInvNext
<1>3. DirInv => RightDirectory
  <2>1. Named \cap DirStates = {}
    BY DEF Named, DirStates, DataCommands
  <2> QED
    BY <2>1 DEF RightDirectory, DirInv, DirOK
<1>4. Spec => [](StepInv /\ DirInv)
  BY <1>1, <1>2, PTL DEF Spec
<1> QED
  BY <1>3, <1>4, RepliesInStep, PTL DEF FtpRight
=============================================================================
