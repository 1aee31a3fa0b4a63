-------------------------------- MODULE FtpState --------------------------------
(***************************************************************************)
(* FTP on one control connection (lib/ftp.c): its state, and what is       *)
(* promised of it.  Ftp has the steps.                                     *)
(***************************************************************************)
EXTENDS Naturals, Sequences

CONSTANTS
  FtpOptions,     \* the transfers an application may ask for, as records
  MaxTransfers,   \* bound: how many transfers a connection sees
  Impatient,      \* accepting times out, or the progress callback ends the last wait
  LateReplies     \* a reply still owed may come after the connection is taken again

\* no directory is remembered
NoPath == <<"none">>

\* what is assumed of the constants
FtpConstants ==
  /\ MaxTransfers \in Nat /\ Impatient \in BOOLEAN /\ LateReplies \in BOOLEAN
  /\ \A o \in FtpOptions : o.dir \in Seq(STRING) /\ o.dir # NoPath

VARIABLES
  ftp,           \* struct ftp_conn and struct FTP
  ftpPhase,      \* where the multi has the transfer; "idle": the connection is in the pool
  owed,          \* what the server has been sent and not answered, in order
  dataConn,      \* SECONDARYSOCKET: "none", "connecting", "listening", "up" or "broken"
  serverDir,     \* the server's working directory, from the directory after login
  ftpTransfers   \* how many transfers there were

ftpVars == <<ftp, ftpPhase, owed, dataConn, serverDir, ftpTransfers>>

\* the commands that wait for a second reply, at the end of the data
DataCommands == {"RETR", "STOR", "LIST"}

\* Bug variant: the last reply is waited for whether or not one is due.
WaitsForLastAlways == ftp.transfer = "body" /\ ftp.ctlValid

\* When the data connection is closed an ABOR goes out if only a range was wanted;
\* then the last reply is waited for.
Aborts == ftp.dontCheck /\ dataConn # "none"
WaitsForLast == ftp.transfer = "body" /\ ftp.ctlValid /\ (ftp.pending \/ Aborts)
OwedAtEnd == IF Aborts THEN Append(owed, "ABOR") ELSE owed

CommandOf(st) ==
  CASE st \in {"QUOTE", "RETR_PREQUOTE", "STOR_PREQUOTE", "LIST_PREQUOTE", "POSTQUOTE"} -> "QUOTE"
    [] st \in {"TYPE", "LIST_TYPE", "RETR_TYPE", "STOR_TYPE", "RETR_LIST_TYPE"} -> "TYPE"
    [] st \in {"SIZE", "RETR_SIZE", "STOR_SIZE"} -> "SIZE"
    [] st \in {"REST", "RETR_REST"} -> "REST"
    [] st = "WAIT220" -> "greeting"
    [] OTHER -> st

\* What the server has not answered is what the state waits for and nothing else;
\* the end of a transfer waits for a reply only if one is owed.
InStep ==
  /\ ftpPhase \in {"login", "doing", "more", "quotes"} /\ ftp.state # "STOP" => owed = <<CommandOf(ftp.state)>>
  /\ ftpPhase \in {"ok", "kept"} /\ WaitsForLast => OwedAtEnd # <<>>

\* A file is named to the server only while the server is in the file's directory.
Named == {"MDTM", "SIZE", "RETR_SIZE", "STOR_SIZE", "REST", "RETR_REST", "PASV", "PORT", "PRET"} \cup DataCommands
RightDirectory ==
  ftp.entrypath /\ ftpPhase \in {"doing", "more"} /\ ftp.state \in Named => serverDir = ftp.o.dir

FtpRight == InStep /\ RightDirectory
=============================================================================
