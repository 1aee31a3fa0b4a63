---------------------------- MODULE MCResolver ----------------------------
(***************************************************************************)
(* Where libcurl runs beside somebody else's code: the threads of its      *)
(* resolver with the DNS cache, the notification callbacks, and the servers*)
(* of the mail protocols, with the text of a mail on its way.              *)
(* They share no state, so they are model-checked one at a time: `part' is *)
(* the one a behaviour runs.  The variables of the others keep an initial  *)
(* value; where fair actions could run from it they are fair only in their *)
(* own part.  The resolver is the module extended, so that its properties  *)
(* are checked as they stand in Resolver.                                  *)
(***************************************************************************)
EXTENDS Resolver, TLC

CONSTANTS
  Parts,       \* what to run
  u1, u2,      \* the users of the resolver
  Transfers, ChunkSize, Chunks, NoChunk,
  MailCases, MailRequests, MaxBody, ImpatientMail, LateAnswers,
  MaxText, MaxPiece

VARIABLES
  part,
  multiCall, xfer, msglist, enabled, chunk, head, tail, failure, doneTold, readTold, missing,
  mail, mailPhase, commands, lines, mailServer, mails,
  text, crEob, eob, went

notifyVars == <<multiCall, xfer, msglist, enabled, chunk, head, tail, failure, doneTold, readTold, missing>>
mailVars == <<mail, mailPhase, commands, lines, mailServer, mails>>
bodyVars == <<text, crEob, eob, went>>
vars == <<part, resolverVars, notifyVars, mailVars, bodyVars>>

-----------------------------------------------------------------------------
\* one user takes any family, one IPv4 only, and the name server may know no IPv4;
\* over HTTPS the first user asks for IPv6 and the server may know none
Want == u1 :> "any" @@ u2 :> "v4"
Known == {{}, {"v6"}}
WantOverHttps == [Want EXCEPT ![u1] = "v6"]
KnownOverHttps == {{}, {"v4"}, {"v6"}}

\* For each protocol: logins with STARTTLS and without, each with one kind of mechanism at
\* least, and a connection that sees several transfers.
NoLogin == [ssl |-> "no", user |-> FALSE, passwd |-> FALSE, bearer |-> FALSE, saslIr |-> FALSE, long |-> FALSE,
            mechs |-> {"EXTERNAL", "DIGEST-MD5", "CRAM-MD5", "NTLM", "OAUTHBEARER", "XOAUTH2", "PLAIN", "LOGIN"},
            types |-> {"sasl", "cleartext", "apop"}]
Login == [NoLogin EXCEPT !.user = TRUE, !.passwd = TRUE]
TlsLogin == [Login EXCEPT !.ssl = "all"]
TryLogin == [Login EXCEPT !.ssl = "try"]
TokenLogin == [Login EXCEPT !.bearer = TRUE]
No == [tls |-> FALSE, auth |-> {}, loginDisabled |-> FALSE, ir |-> FALSE, user |-> FALSE]
Offers(mechs) == [No EXCEPT !.auth = mechs]
Tls(caps) == [caps EXCEPT !.tls = TRUE]
Ir(caps) == [caps EXCEPT !.ir = TRUE]
Disabled(caps) == [caps EXCEPT !.loginDisabled = TRUE]
User(caps) == [caps EXCEPT !.user = TRUE]
Case(proto, login, clear, over) ==
  [proto |-> proto, login |-> login, clear |-> clear, over |-> over, preauth |-> FALSE, apop |-> FALSE, mails |-> 1]

SomeCases ==
  {Case("smtp", TlsLogin, Tls(Offers({"CRAM-MD5"})), Offers({"CRAM-MD5", "PLAIN"})),
   Case("smtp", TlsLogin, Tls(Offers({"CRAM-MD5"})), Offers({"LOGIN"})),
   Case("smtp", TlsLogin, Offers({"PLAIN"}), No),
   Case("smtp", [TryLogin EXCEPT !.saslIr = TRUE, !.long = TRUE], Tls(Offers({"NTLM", "LOGIN"})), Offers({"NTLM", "LOGIN"})),
   Case("smtp", TokenLogin, Offers({"OAUTHBEARER"}), No),
   [Case("smtp", NoLogin, No, No) EXCEPT !.mails = 3],
   Case("imap", TlsLogin, Tls(No), Ir(Offers({"DIGEST-MD5"}))),
   [Case("imap", TryLogin, Tls(No), Offers({"LOGIN"})) EXCEPT !.preauth = TRUE],
   [Case("imap", Login, Ir(Offers({"PLAIN"})), No) EXCEPT !.mails = 3],
   Case("imap", [NoLogin EXCEPT !.mechs = {"EXTERNAL"}], Disabled(Offers({"EXTERNAL"})), No),
   Case("imap", TokenLogin, Disabled(Offers({"XOAUTH2"})), No),
   [Case("pop3", TlsLogin, Tls(No), Offers({"NTLM"})) EXCEPT !.apop = TRUE],
   Case("pop3", TryLogin, Tls(User(No)), User(No)),
   [Case("pop3", [Login EXCEPT !.types = {"apop"}], No, No) EXCEPT !.apop = TRUE, !.mails = 3]}

Send == [upload |-> TRUE, rcpts |-> <<"r1", "r2", "r3">>, allowFails |-> FALSE]
Select == [mailbox |-> "INBOX", asks |-> "uid", custom |-> FALSE, upload |-> FALSE, uidvalidity |-> 0]
Retr == [id |-> TRUE, listOnly |-> FALSE, custom |-> "no"]
SomeRequests ==
  [smtp |-> {Send, [Send EXCEPT !.allowFails = TRUE], [Send EXCEPT !.upload = FALSE],
             [Send EXCEPT !.upload = FALSE, !.rcpts = <<>>]},
   imap |-> {Select, [Select EXCEPT !.uidvalidity = 1], [Select EXCEPT !.uidvalidity = 2], [Select EXCEPT !.mailbox = "Sent"],
             [Select EXCEPT !.asks = "query"], [Select EXCEPT !.asks = "nothing", !.custom = TRUE],
             [Select EXCEPT !.asks = "nothing", !.mailbox = "none"], [Select EXCEPT !.asks = "nothing", !.upload = TRUE]},
   pop3 |-> {Retr, [Retr EXCEPT !.id = FALSE], [Retr EXCEPT !.listOnly = TRUE], [Retr EXCEPT !.custom = "DELE"]}]

D == INSTANCE Resolver WITH DohUsers <- {u1}, WantOf <- WantOverHttps, Answers <- KnownOverHttps
N == INSTANCE MultiNotify
M == INSTANCE Mail
B == INSTANCE MailBody

ASSUME ConstantsFit ==
  /\ D!ResolverConstants /\ N!NotifyConstants
  /\ M!MailConstants /\ B!MailBodyConstants

-----------------------------------------------------------------------------
ForMailOnly == CHOOSE case \in MailCases : case.mails = 3 /\ case.proto = "smtp"

InitParts ==
  /\ part \in Parts /\ Init
  /\ N!Init /\ (part # "notify" => enabled = N!Types)
  /\ IF part = "mail" THEN M!Init
     ELSE /\ mail = M!NewMail(ForMailOnly, Send) /\ mailServer = M!NewServer(ForMailOnly)
          /\ mailPhase = "new" /\ commands = <<>> /\ lines = <<>> /\ mails = 1
  /\ IF part = "mailbody" THEN B!Init ELSE B!Idle

Resolve == part = "resolver" /\ Next /\ UNCHANGED <<part, notifyVars, mailVars, bodyVars>>
ResolveDoh == part = "doh" /\ D!Next /\ UNCHANGED <<part, notifyVars, mailVars, bodyVars>>
Notify == part = "notify" /\ N!Next /\ UNCHANGED <<part, resolverVars, mailVars, bodyVars>>
MailStep == part = "mail" /\ M!Next /\ UNCHANGED <<part, resolverVars, notifyVars, bodyVars>>
BodyStep == part = "mailbody" /\ B!Next /\ UNCHANGED <<part, resolverVars, notifyVars, mailVars>>

NextOfParts == Resolve \/ ResolveDoh \/ Notify \/ MailStep \/ BodyStep

SpecOfParts ==
  /\ InitParts /\ [][NextOfParts]_vars
  /\ Fairness /\ WF_notifyVars(part = "notify" /\ N!Advance)
  /\ SF_notifyVars(part = "notify" /\ N!DispatchFollows)
  /\ WF_mailVars(part = "mail" /\ M!Advance)

-----------------------------------------------------------------------------
\* The types of all parts.
AllTypesOK == TypeOK /\ N!TypeOK /\ M!TypeOK /\ B!TypeOK

\* The properties of the other parts, stated and explained in their modules.
NotificationsKept == N!NotificationsKept
MailRight == part = "mail" => M!MailRight
MailBodies == B!SentWhole /\ B!ReceivedWhole

\* Everything that is waited for ends: the resolves, the lookups that were abandoned and
\* are to be freed, the reports of ended transfers, and a transfer with a mail server.
Waiting ==
  CASE part \in {"resolver", "doh"} -> (\E c \in Lookups : Abandoned(c)) \/ (\E u \in Users : user[u].st = "resolving")
    [] part = "notify" -> \E e \in Transfers : N!Untold(e)
    [] part = "mail" -> M!InTransfer
    [] part = "mailbody" -> FALSE
WaitsEnd == Waiting ~> ~Waiting
=============================================================================
