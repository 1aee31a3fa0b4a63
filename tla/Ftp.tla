---------------------------------- MODULE Ftp ----------------------------------
(***************************************************************************)
(* FTP transfers one after the other on a control connection (lib/ftp.c    *)
(* over lib/pingpong.c): login, the DO phase, the data connection, the end *)
(* of a transfer, and what is remembered for the next one.                 *)
(*                                                                         *)
(* `ftp' is struct ftp_conn with struct FTP.  The functions that send the  *)
(* next command are operators from one such record to the next; each sends *)
(* at most one command.  A server answers in order, with any reply the     *)
(* protocol allows for the command.                                        *)
(***************************************************************************)
EXTENDS FtpState

\* A step of the code: the record after it, and what it sends ("" for nothing).
Step(f, cmd) == [ftp |-> f, cmd |-> cmd, error |-> "no"]
Sent(f, cmd, st) == Step([f EXCEPT !.state = st, !.pending = TRUE], cmd)
Stop(f) == Step([f EXCEPT !.state = "STOP"], "")
Error(f, e) == [ftp |-> f, cmd |-> "", error |-> e]

\* The results ftp_done takes for harmless to the control connection, as "kept";
\* any other is "fatal".
Kept(f) == Error(f, "kept")
Fatal(f) == Error(f, "fatal")

-----------------------------------------------------------------------------
(* The functions that go on, from the last to the first. *)

\* ftp_state_ul_setup; with all of the file there already nothing is sent
UploadSetup(f, sizechecked) ==
  IF f.o.resume = "end" /\ ~sizechecked THEN {Sent(f, "SIZE", "STOR_SIZE")}
  ELSE {Sent(f, "STOR", "STOR")} \cup
       (IF f.o.resume = "no" THEN {} ELSE {Stop([f EXCEPT !.transfer = "none"]), Fatal(f)})

\* the filesize step of FTP_RETR_PREQUOTE
RetrSize(f) == Sent(f, IF f.o.ascii THEN "RETR" ELSE "SIZE", IF f.o.ascii THEN "RETR" ELSE "RETR_SIZE")

\* ftp_state_quote, for the quotes before the data: item n of the list
Prequote(f, st, n) ==
  IF n < f.o.prequote THEN {Sent([f EXCEPT !.count1 = n], "QUOTE", st)}
  ELSE LET g == [f EXCEPT !.count1 = n]
       IN  CASE st = "STOR_PREQUOTE" -> UploadSetup(g, FALSE)
             [] st = "LIST_PREQUOTE" -> {Sent(g, "LIST", "LIST")}
             [] OTHER -> {IF g.transfer # "body" THEN Stop(g) ELSE RetrSize(g)}

\* ftp_state_use_pasv: count1 tells EPSV, 0, from PASV, 1
UsePasv(f) == Sent([f EXCEPT !.count1 = IF f.epsv THEN 0 ELSE 1], "PASV", "PASV")

\* ftp_state_use_port: EPRT is 0, PORT 1, DONE 2; binding a socket may fail
UsePort(f, fcmd) ==
  {Sent([f EXCEPT !.count1 = IF fcmd = 0 /\ ~f.eprt THEN 1 ELSE fcmd], "PORT", "PORT"), Kept(f)}

\* ftp_state_prepare_transfer
Prepare(f) ==
  CASE f.transfer # "body" -> Prequote(f, "RETR_PREQUOTE", 0)
    [] f.transfer = "body" /\ f.o.port -> UsePort(f, 0)
    [] OTHER -> {IF f.o.pret THEN Sent(f, "PRET", "PRET") ELSE UsePasv(f)}

\* ftp_state_rest and ftp_state_size
Rest(f) == IF f.transfer # "body" /\ f.o.file THEN {Sent(f, "REST", "REST")} ELSE Prepare(f)
Size(f) == IF f.transfer = "info" /\ f.o.file THEN {Sent(f, "SIZE", "SIZE")} ELSE Rest(f)

\* ftp_state_type_resp once the type is set
Typed(f, st) ==
  CASE st = "TYPE" -> Size(f)
    [] st = "LIST_TYPE" -> {Sent(f, "LIST", "LIST")}
    [] st = "RETR_TYPE" -> Prequote(f, "RETR_PREQUOTE", 0)
    [] st = "STOR_TYPE" -> Prequote(f, "STOR_PREQUOTE", 0)
    [] st = "RETR_LIST_TYPE" -> Prequote(f, "LIST_PREQUOTE", 0)

\* ftp_nb_type
SetType(f, ascii, st) ==
  IF f.type = ascii THEN Typed(f, st) ELSE {Sent([f EXCEPT !.type = ascii], "TYPE", st)}
Ascii(f) == IF f.o.ascii THEN "A" ELSE "I"

\* ftp_state_type and ftp_state_mdtm
Type(f) ==
  IF f.o.noBody /\ f.o.file /\ f.type # Ascii(f)
  THEN SetType([f EXCEPT !.transfer = "info"], Ascii(f), "TYPE") ELSE Size(f)
Mdtm(f) == IF f.o.mdtm /\ f.o.file THEN {Sent(f, "MDTM", "MDTM")} ELSE Type(f)

\* ftp_state_cwd: on a reused connection first back to where the login ended
Cwd(f) ==
  IF f.cwddone THEN Mdtm(f)
  ELSE LET g == [f EXCEPT !.count2 = 0]
       IN  IF f.reuse /\ f.entrypath THEN {Sent([g EXCEPT !.cwdcount = 0], "CWD", "CWD")}
           ELSE IF f.o.dir # <<>> THEN {Sent([g EXCEPT !.cwdcount = 1], "CWD", "CWD")}
           ELSE Mdtm(g)

Quote(f, n) ==
  IF n < f.o.quote THEN {Sent([f EXCEPT !.count1 = n], "QUOTE", "QUOTE")}
  ELSE Cwd([f EXCEPT !.count1 = n])

\* ftp_epsv_disable; over IPv6 there is no PASV
EpsvDisable(f) ==
  {Fatal(f), Sent([f EXCEPT !.epsv = FALSE, !.count1 = @ + 1], "PASV", "PASV")}

Pwd(f) == Sent(f, "PWD", "PWD")
User(f) == Sent([f EXCEPT !.alternative = FALSE], "USER", "USER")
LoggedIn(f) == IF f.tls THEN Sent(f, "PBSZ", "PBSZ") ELSE Pwd(f)

\* ftp_state_user_resp
UserResp(f, code) ==
  CASE code = "3xx" /\ f.state = "USER" -> {Sent(f, "PASS", "PASS")}
    [] code = "2xx" -> {LoggedIn(f)}
    [] code = "332" -> {IF f.o.account THEN Sent(f, "ACCT", "ACCT") ELSE Fatal(f)}
    [] OTHER -> {IF f.o.alternative /\ ~f.alternative
                 THEN Sent([f EXCEPT !.alternative = TRUE], "USER", "USER") ELSE Fatal(f)}

-----------------------------------------------------------------------------
(* ftp_pp_statemachine: what each state makes of a reply. *)

Ok(code) == code = "2xx"
Bad(code) == code \in {"4xx", "550"}

OnLogin(f, code) ==
  CASE f.state = "WAIT220" ->
         {IF ~Ok(code) THEN Fatal(f)
          ELSE IF f.o.ssl = "no" THEN User(f) ELSE Sent([f EXCEPT !.count3 = 0], "AUTH", "AUTH")}
    [] f.state = "AUTH" ->
         IF code \in {"2xx", "3xx"} THEN {User([f EXCEPT !.tls = TRUE]), Fatal(f)}
         ELSE IF f.count3 < 1 THEN {Sent([f EXCEPT !.count3 = @ + 1], "AUTH", "AUTH")}
         ELSE {IF f.o.ssl = "all" THEN Fatal(f) ELSE User(f)}
    [] f.state \in {"USER", "PASS"} -> UserResp(f, code)
    [] f.state = "ACCT" -> {IF Ok(code) THEN LoggedIn(f) ELSE Fatal(f)}
    [] f.state = "PBSZ" -> {Sent(f, "PROT", "PROT")}
    [] f.state = "PROT" ->
         {IF ~Ok(code) /\ f.o.ssl = "all" THEN Fatal(f)
          ELSE IF f.o.ccc THEN Sent(f, "CCC", "CCC") ELSE Pwd(f)}
    [] f.state = "CCC" -> {Pwd(f), Fatal(f)}
    [] f.state = "PWD" ->
         {Stop([f EXCEPT !.entrypath = Ok(code)])} \cup
         (IF Ok(code) /\ ~f.os THEN {Sent([f EXCEPT !.entrypath = TRUE], "SYST", "SYST")} ELSE {})
    [] f.state = "SYST" ->
         {Stop([f EXCEPT !.os = Ok(code)])} \cup
         (IF Ok(code) THEN {Sent([f EXCEPT !.os = TRUE], "NAMEFMT", "NAMEFMT")} ELSE {})
    [] f.state = "NAMEFMT" -> {IF Ok(code) THEN Pwd(f) ELSE Stop(f)}

OnQuote(f, code) ==
  IF Bad(code) THEN {Fatal(f)}
  ELSE IF f.state = "QUOTE" THEN Quote(f, f.count1 + 1) ELSE Prequote(f, f.state, f.count1 + 1)

\* FTP_CWD and FTP_MKD.  A refused MKD does not set cwdfail.
OnDirectory(f, code) ==
  IF f.state = "CWD"
  THEN IF Ok(code)
       THEN LET g == [f EXCEPT !.count2 = 0]
            IN  IF g.cwdcount >= Len(g.o.dir) THEN Mdtm(g)
                ELSE {Sent([g EXCEPT !.cwdcount = @ + 1], "CWD", "CWD")}
       ELSE {IF f.o.mkdir # "no" /\ f.cwdcount > 0 /\ f.count2 = 0
             THEN Sent([f EXCEPT !.count2 = 1], "MKD", "MKD")
             ELSE Kept([f EXCEPT !.cwdfail = TRUE])}
  ELSE {IF ~Ok(code) /\ f.o.mkdir = "once" THEN Kept(f) ELSE Sent(f, "CWD", "CWD")}

\* ftp_state_retr: the size is known; there may be nothing left to get
Retr(f) ==
  {IF f.o.resume = "no" THEN Sent(f, "RETR", "RETR") ELSE Sent(f, "REST", "RETR_REST"), Kept(f)}
  \cup (IF f.o.resume = "end" THEN {Stop([f EXCEPT !.transfer = "none"])} ELSE {})

OnSize(f, code) ==
  IF f.state = "STOR_SIZE" THEN UploadSetup(f, TRUE)
  ELSE IF code = "550" THEN {Kept(f)}
  ELSE IF f.state = "SIZE" THEN Rest(f) ELSE Retr(f)

\* ftp_state_pasv_resp; the data connection may not be possible
OnPasv(f, code) ==
  IF Ok(code) THEN {Stop([f EXCEPT !.doMore = TRUE]), Kept(f), Fatal(f)}
                   \cup (IF f.count1 = 0 THEN EpsvDisable(f) ELSE {})
  ELSE IF f.count1 = 0 THEN EpsvDisable(f) ELSE {Kept(f)}

\* ftp_state_port_resp
OnPort(f, code) ==
  IF Ok(code) THEN {Stop([f EXCEPT !.doMore = TRUE, !.ctlValid = TRUE])}
  ELSE LET g == IF f.count1 = 0 THEN [f EXCEPT !.eprt = FALSE] ELSE f
       IN  IF f.count1 = 1 THEN {Kept(g)} ELSE UsePort(g, f.count1 + 1)

\* ftp_initiate_transfer: the last reply is still to come
Initiate(f) == Step([f EXCEPT !.state = "STOP", !.pending = TRUE, !.moving = TRUE, !.waitData = FALSE], "")

\* ftp_state_get_resp and ftp_state_stor_resp; in active mode the server connects
OnData(f, code) ==
  IF code = "1xx"
  THEN {IF f.o.port /\ dataConn # "up" THEN Stop([f EXCEPT !.waitData = TRUE]) ELSE Initiate(f)}
  ELSE IF f.state = "LIST" /\ code = "4xx" THEN {Stop([f EXCEPT !.transfer = "none"]), Kept(f)}
  ELSE {Kept(f)}

OnReply(f, code) ==
  CASE f.state \in {"WAIT220", "AUTH", "USER", "PASS", "ACCT", "PBSZ", "PROT", "CCC", "PWD", "SYST",
                    "NAMEFMT"} -> OnLogin(f, code)
    [] f.state \in {"QUOTE", "RETR_PREQUOTE", "STOR_PREQUOTE", "LIST_PREQUOTE"} -> OnQuote(f, code)
    [] f.state \in {"CWD", "MKD"} -> OnDirectory(f, code)
    [] f.state = "MDTM" -> {Stop([f EXCEPT !.transfer = "none"])} \cup Type(f)
    [] f.state \in {"TYPE", "LIST_TYPE", "RETR_TYPE", "STOR_TYPE", "RETR_LIST_TYPE"} ->
         IF Ok(code) THEN Typed(f, f.state) ELSE {Kept(f)}
    [] f.state \in {"SIZE", "RETR_SIZE", "STOR_SIZE"} -> OnSize(f, code)
    [] f.state = "REST" -> Prepare(f)
    [] f.state = "RETR_REST" -> {IF code = "3xx" THEN Sent(f, "RETR", "RETR") ELSE Fatal(f)}
    [] f.state = "PRET" -> {IF Ok(code) THEN UsePasv(f) ELSE Fatal(f)}
    [] f.state = "PASV" -> OnPasv(f, code)
    [] f.state = "PORT" -> OnPort(f, code)
    [] f.state \in DataCommands -> OnData(f, code)

-----------------------------------------------------------------------------
(* Commands and replies on the wire. *)

Codes(cmd) ==
  CASE cmd = "final" -> {"2xx", "4xx", "421"}
    [] cmd \in DataCommands -> {"1xx", "4xx", "550", "421"}
    [] cmd \in {"USER", "PASS"} -> {"2xx", "3xx", "332", "4xx", "421"}
    [] cmd \in {"AUTH", "REST"} -> {"2xx", "3xx", "4xx"}
    [] cmd \in {"SIZE", "CWD"} -> {"2xx", "550", "421"}
    [] OTHER -> {"2xx", "4xx"}

\* the server has taken its reply from the queue; after a 1xx the last one is due
Answered(code, due) == (IF code = "1xx" THEN <<"final">> ELSE <<>>) \o Tail(due)

\* CWD moves the server: back to the start, or one level down
Moves(f, code) ==
  IF Head(owed) = "CWD" /\ Ok(code)
  THEN IF f.cwdcount = 0 THEN <<>> ELSE Append(serverDir, f.o.dir[f.cwdcount])
  ELSE serverDir

\* the state the transfer is left in, and the command it sends, if any
Sends(s, left) ==
  /\ ftp' = s.ftp
  /\ owed' = IF s.cmd = "" THEN left ELSE Append(left, s.cmd)

NewFtp(o) ==
  [o |-> o, state |-> "STOP", count1 |-> 0, count2 |-> 0, count3 |-> 0, cwdcount |-> 0, cwddone |-> FALSE,
   cwdfail |-> FALSE, transfer |-> "body", type |-> "none", pending |-> FALSE, ctlValid |-> FALSE,
   doMore |-> FALSE, waitData |-> FALSE, moving |-> FALSE, epsv |-> TRUE, eprt |-> TRUE,
   dontCheck |-> FALSE, tls |-> FALSE, alternative |-> FALSE, entrypath |-> FALSE, os |-> FALSE, reuse |-> FALSE,
   prevpath |-> NoPath]

Init ==
  /\ \E o \in FtpOptions : ftp = NewFtp(o)
  /\ ftpPhase = "new" /\ owed = <<>> /\ dataConn = "none" /\ serverDir = <<>> /\ ftpTransfers = 1

\* ftp_connect: the greeting is the first reply
Connect ==
  /\ ftpPhase = "new"
  /\ ftpPhase' = "login"
  /\ Sends(Sent(ftp, "greeting", "WAIT220"), <<>>)
  /\ UNCHANGED <<dataConn, serverDir, ftpTransfers>>

\* where the multi goes when the state machine has stopped: ftp_dophase_done
AfterStop(f, phase) ==
  CASE phase = "login" -> "do"
    [] phase = "doing" -> IF f.transfer = "body" THEN "more" ELSE "perform"
    [] phase = "more" -> IF f.waitData THEN "more" ELSE "perform"

\* where a step leads the multi
Leads(s, phase) ==
  IF s.error # "no" THEN s.error ELSE IF s.ftp.state = "STOP" THEN AfterStop(s.ftp, phase) ELSE phase

\* ftp_do: ftp_parse_url_path, then the first command of ftp_perform.  With the
\* directory remembered to be this one there is no CWD.
Parsed(f) ==
  [f EXCEPT !.ctlValid = TRUE, !.cwdfail = FALSE, !.waitData = FALSE, !.moving = FALSE,
            !.transfer = IF f.o.noBody THEN "info" ELSE "body", !.doMore = FALSE,
            !.cwddone = IF f.reuse THEN f.prevpath = f.o.dir ELSE f.o.dir = <<>>]

Do ==
  /\ ftpPhase = "do"
  /\ \E s \in Quote(Parsed(ftp), 0) :
       /\ Sends(s, owed)
       /\ ftpPhase' = Leads(s, "doing")
       /\ dataConn' = IF s.cmd = "PORT" THEN "listening" ELSE "none"
  /\ UNCHANGED <<serverDir, ftpTransfers>>

\* a reply in login, doing or more; more needs the data connection set up first
InDataPhase == ftpPhase = "more" /\ dataConn \in {"up", "listening"}

Reply ==
  /\ ftpPhase \in {"login", "doing"} \/ InDataPhase
  /\ ftp.state # "STOP" /\ owed # <<>>
  /\ \E code \in Codes(Head(owed)) :
       /\ serverDir' = Moves(ftp, code)
       /\ LET g == [ftp EXCEPT !.pending = FALSE]
          IN  IF code = "421"
              THEN /\ Sends(Fatal([g EXCEPT !.state = "STOP"]), Answered(code, owed))
                   /\ ftpPhase' = "fatal"
                   /\ UNCHANGED dataConn
              ELSE \E s \in OnReply(g, code) :
                     /\ Sends(s, Answered(code, owed))
                     /\ ftpPhase' = Leads(s, ftpPhase)
                     /\ dataConn' = CASE ftp.state = "PASV" /\ s.ftp.state = "STOP" -> "connecting"
                                      [] s.cmd = "PORT" -> "listening"
                                      [] s.cmd = "PASV" -> "none"
                                      [] OTHER -> dataConn
  /\ UNCHANGED ftpTransfers

-----------------------------------------------------------------------------
(* ftp_do_more *)

\* EPSV did not lead to a connection: PASV is tried; or it is over
DataFails ==
  /\ ftpPhase = "more" /\ dataConn = "broken"
  /\ \E s \in IF ftp.count1 = 0 THEN EpsvDisable(ftp) ELSE {Fatal(ftp)} :
       /\ Sends(s, owed)
       /\ ftpPhase' = IF s.error = "no" THEN "doing" ELSE s.error
  /\ dataConn' = "none"
  /\ UNCHANGED <<serverDir, ftpTransfers>>

\* the first command once the data connection is set up
FirstCommand(f) ==
  IF f.o.upload THEN SetType(f, Ascii(f), "STOR_TYPE")
  ELSE IF ~f.o.file THEN SetType(f, "A", IF f.o.prequote = 0 THEN "LIST_TYPE" ELSE "RETR_LIST_TYPE")
  ELSE SetType(f, Ascii(f), "RETR_TYPE")

Kickstart ==
  /\ InDataPhase /\ ftp.state = "STOP" /\ ~ftp.waitData
  /\ \E s \in FirstCommand([ftp EXCEPT !.dontCheck = ftp.o.range /\ ~ftp.o.upload]) :
       /\ Sends(s, owed)
       /\ ftpPhase' = Leads(s, "more")
  /\ UNCHANGED <<dataConn, serverDir, ftpTransfers>>

\* active mode: the server has connected after its 1xx
Accepted ==
  /\ InDataPhase /\ ftp.state = "STOP" /\ ftp.waitData /\ dataConn = "up"
  /\ Sends(Initiate(ftp), owed)
  /\ ftpPhase' = "perform"
  /\ UNCHANGED <<dataConn, serverDir, ftpTransfers>>

\* ftp_check_ctrl_on_data_wait: the server gives its last reply instead
NoDataConnection ==
  /\ InDataPhase /\ ftp.state = "STOP" /\ ftp.waitData /\ dataConn = "listening"
  /\ \E bad \in BOOLEAN : ftpPhase' = IF bad THEN "kept" ELSE "fatal"
  /\ Sends(Step([ftp EXCEPT !.pending = FALSE], ""), Tail(owed))
  /\ UNCHANGED <<dataConn, serverDir, ftpTransfers>>

\* the accept filter gives up (CURLE_FTP_ACCEPT_TIMEOUT)
AcceptTimeout ==
  /\ Impatient /\ InDataPhase /\ dataConn = "listening"
  /\ ftpPhase' = "kept"
  /\ UNCHANGED <<ftp, owed, dataConn, serverDir, ftpTransfers>>

\* the network; in active mode the server connects when it has a data command
DataConnects ==
  /\ \/ dataConn = "connecting" /\ dataConn' \in {"up", "broken"}
     \/ /\ dataConn = "listening" /\ dataConn' = "up"
        /\ owed # <<>> /\ Head(owed) \in DataCommands \cup {"final"}
  /\ UNCHANGED <<ftp, ftpPhase, owed, serverDir, ftpTransfers>>

-----------------------------------------------------------------------------
(* The end of a transfer: multi_done with ftp_done. *)

\* the transfer is over, or fails in the middle ("fatal": multi_done is premature)
Performed ==
  /\ ftpPhase = "perform"
  /\ ftpPhase' \in IF ftp.moving THEN {"ok", "fatal"} ELSE {"ok"}
  /\ UNCHANGED <<ftp, owed, dataConn, serverDir, ftpTransfers>>

\* a time-out of the transfer, a broken connection or an abort by a callback
Interrupted ==
  /\ ftpPhase \in {"login", "doing", "more"}
  /\ ftpPhase' = "fatal"
  /\ UNCHANGED <<ftp, owed, dataConn, serverDir, ftpTransfers>>

\* the connection is closed with the transfer
Closed ==
  /\ ftpPhase = "fatal"
  /\ ftpPhase' = "closed"
  /\ ftp' = [ftp EXCEPT !.ctlValid = FALSE, !.cwdfail = TRUE, !.prevpath = NoPath]
  /\ owed' = <<>> /\ dataConn' = "none"
  /\ UNCHANGED <<serverDir, ftpTransfers>>

\* Bug variant: a directory that could not be entered is remembered.
RememberedAlways == [ftp EXCEPT !.prevpath = ftp.o.dir]

\* The directory is remembered.
Remembered == [ftp EXCEPT !.prevpath = IF ftp.cwdfail THEN NoPath ELSE ftp.o.dir]

\* The connection is closed if an ABOR was answered, but not if it was sent and
\* there was nothing to wait for; then the quotes for after a good transfer are
\* sent, each with its reply.
Finish(code, left, waited) ==
  LET f == [Remembered EXCEPT !.transfer = "body", !.pending = FALSE, !.dontCheck = FALSE,
                              !.count3 = ftp.o.postquote]
      good == ftpPhase = "ok" /\ code = "2xx"
  IN  /\ dataConn' = "none"
      /\ IF code = "421" \/ (waited /\ Aborts) THEN ftp' = f /\ owed' = <<>> /\ ftpPhase' = "closed"
         ELSE IF good /\ f.count3 > 0 THEN Sends(Sent(f, "QUOTE", "POSTQUOTE"), left) /\ ftpPhase' = "quotes"
         ELSE ftp' = f /\ owed' = left /\ ftpPhase' = "idle"
      /\ UNCHANGED <<serverDir, ftpTransfers>>

Done ==
  /\ ftpPhase \in {"ok", "kept"} /\ ~WaitsForLast
  /\ Finish("2xx", OwedAtEnd, FALSE)

\* getftpresponse
LastReply ==
  /\ ftpPhase \in {"ok", "kept"} /\ WaitsForLast /\ OwedAtEnd # <<>>
  /\ \E code \in Codes(Head(OwedAtEnd)) : Finish(code, Answered(code, OwedAtEnd), TRUE)

\* the progress callback ends the wait: ftp_done returns, nothing is closed
LastReplyAborted ==
  /\ Impatient /\ ftpPhase \in {"ok", "kept"} /\ WaitsForLast /\ ~Aborts
  /\ ftp' = Remembered
  /\ ftpPhase' = "idle"
  /\ dataConn' = "none"
  /\ UNCHANGED <<owed, serverDir, ftpTransfers>>

\* ftp_sendquote
PostQuote ==
  /\ ftpPhase = "quotes" /\ owed # <<>>
  /\ \E code \in Codes(Head(owed)) :
       LET f == [ftp EXCEPT !.count3 = @ - 1, !.pending = FALSE]
       IN  IF Ok(code) /\ f.count3 > 0
           THEN Sends(Sent(f, "QUOTE", "POSTQUOTE"), Answered(code, owed)) /\ UNCHANGED ftpPhase
           ELSE Sends(Stop(f), Answered(code, owed)) /\ ftpPhase' = "idle"
  /\ UNCHANGED <<dataConn, serverDir, ftpTransfers>>

\* the connection is taken from the pool for another transfer
Reuse ==
  /\ ftpPhase = "idle" /\ ftpTransfers < MaxTransfers
  /\ owed = <<>> \/ LateReplies
  /\ ftpTransfers' = ftpTransfers + 1
  /\ \E o \in FtpOptions : ftp' = [ftp EXCEPT !.o = o, !.reuse = TRUE]
  /\ ftpPhase' = "do"
  /\ UNCHANGED <<owed, dataConn, serverDir>>

\* a reply nobody waited for is found when the connection is looked at
FoundUnclean ==
  /\ ftpPhase = "idle" /\ owed # <<>>
  /\ ftpPhase' = "closed" /\ owed' = <<>>
  /\ UNCHANGED <<ftp, dataConn, serverDir, ftpTransfers>>

Next ==
  \/ Connect \/ Do \/ Reply
  \/ DataFails \/ Kickstart \/ Accepted \/ NoDataConnection \/ AcceptTimeout \/ DataConnects
  \/ Performed \/ Interrupted \/ Closed \/ Done \/ LastReply \/ LastReplyAborted \/ PostQuote \/ Reuse
  \/ FoundUnclean

\* The server answers what it is asked, data connections are made or refused,
\* and libcurl goes on.
Advance ==
  Connect \/ Do \/ Reply \/ DataFails \/ Kickstart \/ Accepted \/ DataConnects
  \/ Performed \/ Closed \/ Done \/ LastReply \/ PostQuote

Fairness == WF_ftpVars(Advance)

Spec == Init /\ [][Next]_ftpVars /\ Fairness

-----------------------------------------------------------------------------
TypeOK ==
  /\ ftpPhase \in {"new", "login", "do", "doing", "more", "perform", "ok", "kept", "fatal", "quotes",
                   "idle", "closed"}
  /\ dataConn \in {"none", "connecting", "listening", "up", "broken"}
  /\ ftp.count1 \in 0..2 /\ ftp.count2 \in 0..1 /\ ftp.count3 \in 0..1
  /\ ftp.transfer \in {"body", "info", "none"} /\ ftp.type \in {"none", "A", "I"}

\* a transfer that is to end, whatever the server answers
InTransfer == ftpPhase \notin {"new", "idle", "closed"}
=============================================================================
