------------------------------- MODULE FtpFota ------------------------------
(***************************************************************************)
(* Firmware update over FTP, the form the build enables                    *)
(* (custom_feature_def.h): mc60/custom/fota/src/fota_main.c and            *)
(* fota_ftp.c, with the FTP commands of mc60/ril/src/ril_ftp.c and the     *)
(* URC that ends a download (ril_urc.c, OnURCHandler_FTP).                 *)
(*                                                                         *)
(* Two tasks take part.  The application's task runs Ql_FOTA_StartUpgrade  *)
(* to its end ("pc").  The RIL task receives the URC and runs the download *)
(* callback ("rp"), which closes the connection, copies the file into the  *)
(* image region and asks for the update.  Each AT command blocks the task  *)
(* that issues it; the other one and the modem go on meanwhile.            *)
(*                                                                         *)
(* A definition whose comment begins with "Faulty" is not used: it stands  *)
(* for a plausible mistake in the definition that follows it, under which  *)
(* some property below fails.                                              *)
(***************************************************************************)
EXTENDS Integers, Sequences, FiniteSetsExt

CONSTANTS
    FileLen,             \* units of the firmware file on the server
    BufLen,              \* UP_DATA_BUFFER_LEN
    MaxAttempts,         \* FTP_CONNECT_ATTEMPTS
    MaxStarts            \* bound: calls of Ql_FOTA_StartUpgrade

ASSUME FtpFotaAssumption ==
    {FileLen, BufLen, MaxAttempts, MaxStarts} \subseteq Nat \ {0}

VARIABLES
    pc,                  \* Ql_FOTA_StartUpgrade: "idle", "open", "get",
                         \* "register"
    attempts,            \* attempts to open the connection so far
    rp,                  \* the RIL task: "idle", "close", "prepare", "write",
                         \* "finish", "return"
    success,             \* the callback's argument result
    FtpGet_IND_CB,       \* is the callback registered?
    told,                \* the last the application heard
    starts,
    link,                \* the modem's FTP session and PDP context
    going,               \* is the modem downloading?
    urcs,                \* +QFTPGET results not yet delivered
    file,                \* units of the local file; NoFile
    filesize,            \* what DoUpgrade believes is left to copy
    offset,              \* its position in the file
    flash,               \* written by Ql_FOTA_WriteData since Ql_FOTA_Init
    finished,            \* has Ql_FOTA_Finish accepted it?
    dropped,             \* history: a result met no callback
    early                \* history: a start came before the last one was over

callVars  == <<pc, attempts>>
appVars   == <<told, starts, early>>
modemVars == <<link, going, urcs>>
copyVars  == <<filesize, offset, flash, finished>>
vars == <<callVars, rp, success, FtpGet_IND_CB, appVars, modemVars, file,
          copyVars, dropped>>

NoFile == -1
Huge   == FileLen + 1    \* a negative error code stored into a u32

Whole == [i \in 1..FileLen |-> i]

-----------------------------------------------------------------------------

Init ==
    /\ pc = "idle" /\ attempts = 0
    /\ rp = "idle" /\ success = FALSE /\ FtpGet_IND_CB = FALSE
    /\ told = "none" /\ starts = 0
    /\ link = [ftp |-> FALSE, pdp |-> FALSE] /\ going = FALSE /\ urcs = <<>>
    /\ file = NoFile
    /\ filesize = 0 /\ offset = 0 /\ flash = <<>> /\ finished = FALSE
    /\ dropped = FALSE /\ early = FALSE

\* Nothing of an earlier start is left: no download, no result on its way or
\* being processed, no callback.
Over == ~going /\ urcs = <<>> /\ rp = "idle" /\ ~FtpGet_IND_CB

\* The application starts an upgrade when it believes that none is going.
MayStart ==
    /\ pc = "idle" /\ starts < MaxStarts
    /\ told \in {"none", "refused", "failed", "reset"}
    /\ starts' = starts + 1
    /\ early' = (early \/ ~Over)

\* No PDP context, FOTA initialisation refused, or a URL that is not FTP or
\* cannot be decoded.
StartRefused ==
    /\ MayStart
    /\ told' = "refused"
    /\ UNCHANGED <<pc, attempts, rp, success, FtpGet_IND_CB, modemVars, file,
                   copyVars, dropped>>

\* Ql_FOTA_Init, UP_START, FTP_FotaMain up to the attempts to connect.
StartUpgrade ==
    /\ MayStart
    /\ flash' = <<>> /\ finished' = FALSE
    /\ told' = "running"
    /\ pc' = "open" /\ attempts' = 0
    /\ UNCHANGED <<rp, success, FtpGet_IND_CB, modemVars, file, filesize,
                   offset, dropped>>

\* RIL_FTP_QFTPOPEN succeeds.
OpenSucceeds ==
    /\ pc = "open"
    /\ link' = [ftp |-> TRUE, pdp |-> TRUE]
    /\ attempts' = 0
    /\ pc' = "get"
    /\ UNCHANGED <<rp, success, FtpGet_IND_CB, appVars, going, urcs,
                   file, copyVars, dropped>>

NextAttempt == attempts + 1

\* It fails, possibly after AT+QIACT: tried again, or MSG_ID_RESET_MODULE_REQ
\* is posted; Ql_FOTA_StartUpgrade then returns.
OpenFails ==
    /\ pc = "open"
    /\ link' \in {link, [link EXCEPT !.pdp = TRUE]}
    /\ attempts' = NextAttempt
    /\ IF attempts' = MaxAttempts
       THEN pc' = "idle" /\ told' = "reset"
       ELSE UNCHANGED <<pc, told>>
    /\ UNCHANGED <<rp, success, FtpGet_IND_CB, starts, early, going,
                   urcs, file, copyVars, dropped>>

\* RIL_FTP_QFTPCLOSE and RIL_FTP_QIDEACT, results ignored: each closes its
\* side or leaves it.  A download does not outlive the connection; it may end
\* with a result of its own.
CloseLink ==
    /\ link' \in {[ftp |-> f, pdp |-> p] : f \in {FALSE, link.ftp},
                                           p \in {FALSE, link.pdp}}
    /\ IF link'.ftp /\ link'.pdp
       THEN UNCHANGED <<going, urcs>>
       ELSE /\ going' = FALSE
            /\ urcs' \in IF going THEN {urcs, Append(urcs, "error")} ELSE {urcs}

\* AT+QFTPGET is accepted: the modem downloads into the local file.  The
\* results of QFTPCFG, QFTPPATH and QFTPSIZE before it are ignored.
GetAccepted ==
    /\ pc = "get"
    /\ going' = TRUE /\ file' = 0
    /\ pc' = "register"
    /\ UNCHANGED <<attempts, rp, success, FtpGet_IND_CB, appVars,
                   link, urcs, copyVars, dropped>>

\* AT+QFTPGET fails or times out: MSG_ID_FTP_RESULT_IND with failure.
GetFails ==
    /\ pc = "get"
    /\ CloseLink
    /\ told' = "failed"
    /\ pc' = "idle"
    /\ UNCHANGED <<attempts, rp, success, FtpGet_IND_CB, starts, early, file, copyVars, dropped>>

\* RIL_FTP_QFTPGET registers the callback after the command has returned.
Register ==
    /\ pc = "register"
    /\ FtpGet_IND_CB' = TRUE
    /\ pc' = "idle"
    /\ UNCHANGED <<attempts, rp, success, appVars, modemVars, file, copyVars,
                   dropped>>

-----------------------------------------------------------------------------
(* The modem.                                                              *)

Download ==
    /\ going /\ file < FileLen
    /\ file' = file + 1
    /\ UNCHANGED <<callVars, rp, success, FtpGet_IND_CB, appVars, modemVars,
                   copyVars, dropped>>

\* The download ends, complete or with an error code.
DownloadEnds ==
    /\ going
    /\ going' = FALSE
    /\ \/ file = FileLen /\ urcs' = Append(urcs, "ok")
       \/ urcs' = Append(urcs, "error")
    /\ UNCHANGED <<callVars, rp, success, FtpGet_IND_CB, appVars, link, file,
                   copyVars, dropped>>

-----------------------------------------------------------------------------
(* The RIL task.                                                           *)

\* OnURCHandler_FTP without a callback: the result is gone.
ResultDropped ==
    /\ rp = "idle" /\ urcs # <<>> /\ ~FtpGet_IND_CB
    /\ urcs' = Tail(urcs)
    /\ dropped' = TRUE
    /\ UNCHANGED <<callVars, rp, success, FtpGet_IND_CB, appVars, link, going,
                   file, copyVars>>

\* It calls FTP_Callback_OnDownload, which reports first.
Result ==
    /\ rp = "idle" /\ urcs # <<>> /\ FtpGet_IND_CB
    /\ urcs' = Tail(urcs)
    /\ success' = (Head(urcs) = "ok")
    /\ told' = IF success' THEN told ELSE "failed"
    /\ rp' = "close"
    /\ UNCHANGED <<callVars, FtpGet_IND_CB, starts, early, link,
                   going, file, copyVars, dropped>>

\* The connection is closed; after a failure MSG_ID_FTP_RESULT_IND follows.
CloseDownload ==
    /\ rp = "close"
    /\ CloseLink
    /\ IF success THEN rp' = "prepare" /\ UNCHANGED told
                  ELSE rp' = "return" /\ told' = "failed"
    /\ UNCHANGED <<callVars, success, FtpGet_IND_CB, starts, early,
                   file, copyVars, dropped>>

\* Faulty: DoUpgrade returns without a report.
GiveUpSilently ==
    UNCHANGED told /\ rp' = "return"

\* DoUpgrade reports UP_UPGRADFAILED and returns.
GiveUp ==
    /\ told' = "failed" /\ rp' = "return"

\* DoUpgrade finds no file, or has no memory; an open that failed is not
\* noticed (fd_file is unsigned) until the first read.
PrepareFails ==
    /\ rp = "prepare"
    /\ GiveUp
    /\ UNCHANGED <<callVars, success, FtpGet_IND_CB, starts, early,
                   modemVars, file, copyVars, dropped>>

\* The file is there and opened.  A size that could not be read is not
\* noticed either (filesize is unsigned).
Prepare ==
    /\ rp = "prepare" /\ file # NoFile
    /\ filesize' \in {file, Huge}
    /\ offset' = 0
    /\ rp' = IF filesize' = 0 THEN "finish" ELSE "write"
    /\ UNCHANGED <<callVars, success, FtpGet_IND_CB, appVars, modemVars, file,
                   flash, finished, dropped>>

\* Faulty: the length asked for is subtracted, not the length read.
LeftOfAsked(n) == filesize - Min({filesize, BufLen})

Left(n) == filesize - n

\* A block is read, possibly less than asked for, and written.
CopyBlock ==
    /\ rp = "write"
    /\ \E n \in 1..Min({filesize, BufLen, file - offset}) :
          /\ flash' = flash \o [i \in 1..n |-> offset + i]
          /\ offset' = offset + n
          /\ filesize' = Left(n)
    /\ rp' = IF filesize' = 0 THEN "finish" ELSE "write"
    /\ UNCHANGED <<callVars, success, FtpGet_IND_CB, appVars, modemVars, file,
                   finished, dropped>>

\* Reading or writing fails; the buffer and the file handle are not released.
CopyFails ==
    /\ rp = "write"
    /\ GiveUp
    /\ UNCHANGED <<callVars, success, FtpGet_IND_CB, starts, early,
                   modemVars, file, copyVars, dropped>>

\* Ql_FOTA_Finish, the report UP_SYSTEM_REBOOT and, if the application
\* agrees, Ql_FOTA_Update, which does not come back when it works.
Finish ==
    /\ rp = "finish"
    /\ rp' = "return"
    /\ \/ /\ told' = "failed"
          /\ UNCHANGED <<file, finished>>
       \/ /\ told' \in {"reboot", "rebooted", "failed"}
          /\ finished' = TRUE /\ file' = NoFile
    /\ UNCHANGED <<callVars, success, FtpGet_IND_CB, starts, early,
                   modemVars, filesize, offset, flash, dropped>>

\* Faulty: the callback is kept.
Kept == FtpGet_IND_CB

\* What OnURCHandler_FTP leaves registered after the callback.
AfterCallback == FALSE

CallbackReturns ==
    /\ rp = "return"
    /\ rp' = "idle"
    /\ FtpGet_IND_CB' = AfterCallback
    /\ UNCHANGED <<callVars, success, appVars, modemVars, file, copyVars,
                   dropped>>

-----------------------------------------------------------------------------

AppStep ==
    \/ OpenSucceeds \/ OpenFails
    \/ GetAccepted \/ GetFails \/ Register

RilStep ==
    \/ ResultDropped \/ Result \/ CloseDownload
    \/ PrepareFails \/ Prepare \/ CopyBlock \/ CopyFails
    \/ Finish \/ CallbackReturns

Next ==
    /\ told # "rebooted"
    /\ \/ StartRefused \/ StartUpgrade
       \/ AppStep
       \/ Download \/ DownloadEnds
       \/ RilStep

Spec == Init /\ [][Next]_vars

\* Both tasks go on, and the modem ends every download it has begun.  A read
\* that returns nothing without an error for ever is excluded.
FairSpec ==
    /\ Spec
    /\ WF_vars(told # "rebooted" /\ AppStep)
    /\ WF_vars(told # "rebooted" /\ RilStep)
    /\ WF_vars(told # "rebooted" /\ DownloadEnds)

-----------------------------------------------------------------------------
(* Properties.                                                             *)

\* Type invariant.
TypeOK ==
    /\ pc \in {"idle", "open", "get", "register"}
    /\ attempts \in 0..MaxAttempts
    /\ rp \in {"idle", "close", "prepare", "write", "finish", "return"}
    /\ success \in BOOLEAN /\ FtpGet_IND_CB \in BOOLEAN
    /\ told \in {"none", "refused", "running", "reset", "failed", "reboot",
                 "rebooted"}
    /\ starts \in 0..MaxStarts
    /\ link \in [ftp : BOOLEAN, pdp : BOOLEAN]
    /\ going \in BOOLEAN /\ urcs \in Seq({"ok", "error"})
    /\ file \in {NoFile} \cup 0..FileLen
    /\ filesize \in 0..Huge /\ offset \in 0..FileLen
    /\ flash \in Seq(1..FileLen) /\ finished \in BOOLEAN
    /\ dropped \in BOOLEAN /\ early \in BOOLEAN

\* What Ql_FOTA_Finish accepts is the file of the server, whole and in order,
\* whatever the reads returned and the sizes were (fota_ftp.c:214-283), as
\* long as the application starts an upgrade only when the last one is over.
ImageWhole == finished /\ ~early => flash = Whole

\* A registered callback has a result to come: the download is going, its
\* result is on the way or being processed.  Otherwise the upgrade would wait
\* for ever, or take over the result of another one.  The exceptions are a
\* result that came before the registration (ril_ftp.c:261-266,
\* ril_urc.c:467-482) and a start that came too early.
ResultIsDue == FtpGet_IND_CB => going \/ urcs # <<>> \/ rp # "idle"
                                   \/ dropped \/ early

\* Every upgrade ends with word to the application, unless its result met no
\* callback (fota_ftp.c:80-190).
Answered == told = "running" ~> told # "running" \/ dropped
=============================================================================
