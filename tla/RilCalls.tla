------------------------------ MODULE RilCalls ------------------------------
(***************************************************************************)
(* The wrappers of the radio interface that ask the modem something and    *)
(* wait for the answer: network, SIM, system, audio, GNSS, tones, alarm,   *)
(* calls, HTTP, FTP and MQTT (ril/src).  A call sends its commands one     *)
(* after the other; each is given every line that comes in until its       *)
(* handler has its verdict or the time is up.                              *)
(*                                                                         *)
(* External: Ql_RIL_SendATCmd, which runs one command at a time, and the   *)
(* modem.  Lines that come after the verdict reach the handler of the next *)
(* command, or nobody when none is in flight.  A command with its          *)
(* arguments is its name, what the modem tells is a number, except where   *)
(* the wrapper looks at more.  Blanks in a line are written _.             *)
(***************************************************************************)
EXTENDS Integers, Sequences, FiniteSets

CONSTANTS MaxRilValue,   \* greatest number the modem answers
          MaxOldLines    \* lines of earlier commands on their way when a call begins

ASSUME RilAssumption == MaxRilValue \in Nat /\ MaxOldLines \in Nat

VARIABLES rilCall,       \* the call under way, or the last one
          rilStep,       \* which of its commands is in flight; 0 when it is over
          rilData,       \* the variable the handler writes into
          rilGot,        \* what the variables of the commands before ended with
          rilOut,        \* the caller's variable
          rilResult,     \* what the last call returned
          rilWire,       \* lines on their way from the modem
          rilModem,      \* what the modem has done, said and taken for this call
          rilStray,      \* the call has met a line of an earlier command
          m_iErrCode,    \* what Ql_RIL_AT_GetErrCode returns
          IsDataReadSuccess

rilVars == <<rilCall, rilStep, rilData, rilGot, rilOut, rilResult, rilWire,
             rilModem, rilStray, m_iErrCode, IsDataReadSuccess>>

Unset == <<"unset">>       \* a variable nothing was written into
Told(v) == <<"told", v>>
Amounts == 0 .. MaxRilValue
Statuses == -1 .. MaxRilValue

-----------------------------------------------------------------------------
(* Handlers: the kinds of line that end a command well, and badly (any     *)
(* other is passed over), whether lines of other commands are taken for    *)
(* values too, and what is done with the value:                            *)
(*   number   it is stored               any     so is any line not final  *)
(*   lines    the lines are put together  verdict the final line is stored *)
(*   name     the state of that name is   mic     the volume of the channel*)
(*   bytes    no more than there is room  mute    nothing                  *)
(* Ql_RIL_FindLine finds a line also at the end of a longer one.           *)

OkLines == {"OK", "DEACT_OK", "CONNECT_OK"}
CmeError == {"ERROR", "+CME"}
CmsError == {"ERROR", "+CME", "+CMS"}
Rsp(good, bad, keeps) == [good |-> good, bad |-> bad, keeps |-> keeps]

\* Faulty variant of ATResponse_FTP_handler_Common: the line that only takes the
\* command counts for its result.
EarlyFtp == Rsp(OkLines \cup {"value"}, CmsError, "number")

Default_atRsp_callback == Rsp(OkLines, CmsError, "mute")
ATResponse_CREG_Handler == Rsp(OkLines, CmeError, "number")
ATResponse_CGREG_Handler == Rsp(OkLines, CmeError, "number")
ATResponse_CSQ_Handler == Rsp(OkLines, CmeError, "number")
ATResponse_IPStatus_Handler ==
    Rsp({"value"}, CmsError \cup {"other", "CONNECT", ">", "BUSY", "NO_CARRIER", "NO_DIALTONE"},
        "name")
ATRsp_QIDEACT_Hdlr == Rsp({"DEACT_OK"}, {"ERROR"}, "mute")
ATRsp_COPS_Handler == Rsp(OkLines \cup {"value"}, CmeError, "number")
ATResponse_CPIN_Handler == Rsp(OkLines \cup {"value"}, CmeError, "name")
ATRsp_IMSI_Handler == Rsp(OkLines, CmeError, "any")
ATRsp_CCID_Handler == Rsp(OkLines, CmeError, "number")
SYS_ATResponse_Hanlder == Rsp(OkLines, CmeError, "number")
Power_ATResponse_Hanlder == Rsp(OkLines, CmeError, "number")
SecureData_Read_Callback == Rsp(OkLines, CmeError, "bytes")
ATRsp_IMEI_Handler == Rsp(OkLines, CmeError, "any")
ATResponse_AUD_handler == Rsp(OkLines, CmeError, "number")
ATResponse_GPSRead_Hdlr == Rsp(OkLines, CmeError, "lines")
ATResponse_GPSReadTS_Hdlr == Rsp(OkLines, CmeError, "number")
ATResponse_Handler == Rsp(OkLines, CmsError, "number")
ATResponse_QALARM_Handler == Rsp(OkLines \cup {"value"}, {"ERROR"}, "number")
Telephony_Dial_AT_handler ==
    Rsp(OkLines \cup {"NO_DIALTONE", "BUSY", "NO_CARRIER"}, CmeError, "verdict")
Telephony_Answer_AT_handler == Rsp(OkLines \cup {"NO_CARRIER"}, CmeError, "verdict")
ATRsp_QHTTP_Handler == Rsp(OkLines, CmeError, "mute")
ATResponse_FTP_handler_Common == Rsp({"value"}, CmsError, "number")
ATResponse_QFTPSTAT_handler == Rsp(OkLines, CmsError, "mute")
ATResponse_QFTPLEN_handler == Rsp(OkLines, CmsError, "mute")
Callback_QIDEACT == Rsp({"DEACT_OK"}, {"ERROR"}, "mute")
MQTT_ATResponse_Handler == Rsp(OkLines, CmsError, "mute")
ATResponse_QMTPUB_handler == Rsp(OkLines, CmsError, "mute")

AudioQueries == {"QAUDCH?", "QMEDVL?", "CLVL?", "QAUDRD?"}
Channels == 0 .. 2             \* Enum_AudChannel

\* The states with a name, and what is made of a name that is not among them.
RIL_SIM_GetSimStateByName(name) ==
    CASE name = "NOT_INSERTED" -> 0 [] name = "READY" -> 1 [] name = "SIM_PIN" -> 2
      [] name = "SIM_PUK" -> 3 [] name = "PH-SIM_PIN" -> 4 [] name = "PH-SIM_PUK" -> 5
      [] name = "SIM_PIN2" -> 6 [] name = "SIM_PUK2" -> 7 [] name = "SIM_BUSY" -> 8
      [] name = "NOT_READY" -> 9 [] OTHER -> 10
RIL_NW_GetIpStatusByName(name) ==
    CASE name = "IP_START" -> 1 [] name = "IP_CONFIG" -> 2 [] name = "IP_IND" -> 3
      [] name = "IP_GPRSACT" -> 4 [] name = "IP_STATUS" -> 5
      [] name \in {"TCP_CONNECTING", "UDP_CONNECTING"} -> 6 [] name = "IP_CLOSE" -> 7
      [] name = "CONNECT_OK" -> 8 [] name = "PDP_DEACT" -> 9 [] OTHER -> 0
SimStates == {"NOT_INSERTED", "READY", "SIM_PIN", "SIM_PUK", "SIM_PUK2"}
IpStates == {"IP_INITIAL", "IP_GPRSACT", "UDP_CONNECTING", "CONNECT_OK", "PDP_DEACT"}

\* The volumes of the three channels: each is converted in a buffer that still
\* holds the digits of the one before.
Overwritten(digits, before) == digits \o SubSeq(before, Len(digits) + 1, Len(before))
Digits(d) == IF Len(d) = 1 THEN d[1] ELSE 10 * d[1] + d[2]
MicVolumes == {<<1>>, <<1, 0>>}
parse_cmd_qmic(said, channel) ==
    LET second == Overwritten(said[2], said[1]) IN
    CASE channel = 0 -> Digits(said[1])
      [] channel = 1 -> Digits(second)
      [] channel = 2 -> Digits(Overwritten(said[3], second))
      [] OTHER -> 255

-----------------------------------------------------------------------------
(* The calls.  asks is what the caller wants done, cmds what is sent for   *)
(* it; start is what a variable holds before, gives how the last one       *)
(* becomes the caller's:                                                   *)
(*   none    there is nothing but success or failure                       *)
(*   copy    it is the wrapper's and copied on success                     *)
(*   direct  it is the caller's own                                        *)
(*   status  a number other than 0 is a failure                            *)
(*   size    a negative number is a failure, others are copied             *)
(*   bytes   the number of bytes is returned, and they are copied          *)
(* body is what is written when the modem asks for data, or the room for   *)
(* the data that is read.                                                  *)

Cmd(at, rsp, start) == [at |-> at, rsp |-> rsp, start |-> start]
Order(at) == Cmd(at, Default_atRsp_callback, Unset)
Call(cmds, gives) ==
    [asks |-> [i \in DOMAIN cmds |-> cmds[i].at], cmds |-> cmds, gives |-> gives, body |-> 0]
Does(at) == {Call(<<Order(at)>>, "none")}
Query(at, rsp, start, gives) == {Call(<<Cmd(at, rsp, start)>>, gives)}
FtpStatus(at) == Query(at, ATResponse_FTP_handler_Common, Told(255), "status")
With(body, calls) == {[c EXCEPT !.body = body] : c \in calls}

\* ril_network.c
RIL_NW_GetGSMState == Query("CREG?", ATResponse_CREG_Handler, Told(0), "copy")
RIL_NW_GetGPRSState == Query("CGREG?", ATResponse_CGREG_Handler, Told(0), "copy")
RIL_NW_GetSignalQuality == Query("CSQ", ATResponse_CSQ_Handler, Told(0), "copy")
RIL_NW_SetGPRSContext == Does("QIFGCNT")
\* A user and a password are given to the formatting but are not in the format.
RIL_NW_SetAPN ==
    Does("QICSGP") \cup {[c EXCEPT !.asks = <<"QICSGP=user">>] : c \in Does("QICSGP")}
RIL_NW_GetIPStatus == Query("QISTAT", ATResponse_IPStatus_Handler, Told(0), "copy")
RIL_NW_OpenPDPContext == {Call(<<Order("QIREGAPP"), Order("QIACT")>>, "none")}
RIL_NW_ClosePDPContext == Query("QIDEACT", ATRsp_QIDEACT_Hdlr, Unset, "none")
RIL_NW_GetOperator == Query("COPS?", ATRsp_COPS_Handler, Unset, "direct")

\* ril_sim.c, ril_system.c
RIL_SIM_GetSimState == Query("CPIN?", ATResponse_CPIN_Handler, Told(0), "copy")
RIL_SIM_GetIMSI == Query("CIMI", ATRsp_IMSI_Handler, Unset, "direct")
RIL_SIM_GetCCID == Query("CCID", ATRsp_CCID_Handler, Unset, "direct")
RIL_QuerySysInitStatus == Query("QINISTAT", SYS_ATResponse_Hanlder, Unset, "direct")
RIL_GetPowerSupply == Query("CBC", Power_ATResponse_Hanlder, Unset, "copy")
RIL_GetIMEI == Query("GSN", ATRsp_IMEI_Handler, Unset, "direct")
Ql_SecureData_Store == Does("QUSERDAT=1")
Ql_SecureData_Read ==
    UNION {With(room, Query("QUSERDAT=3", SecureData_Read_Callback, Told(0), "bytes")) :
           room \in Amounts}

\* ril_audio.c
GetsChannel == Cmd("QAUDCH?", ATResponse_AUD_handler, Unset)
GetsMedia == Cmd("QMEDVL?", ATResponse_AUD_handler, Told(0))
RIL_AUD_GetChannel == {Call(<<GetsChannel>>, "direct")}
RIL_AUD_SetChannel == Does("QAUDCH")
RIL_AUD_SetVolume ==
    Does("CLVL") \cup Does("QMEDVL") \cup {Call(<<GetsChannel, Order("QMIC")>>, "none")}
RIL_AUD_GetVolume ==
    Query("CLVL?", ATResponse_AUD_handler, Unset, "direct") \cup
    Query("QMEDVL?", ATResponse_AUD_handler, Unset, "direct") \cup
    {Call(<<GetsChannel, Cmd("QMIC?", ATResponse_AUD_handler, Unset)>>, "direct")}
Plays(at) == Cmd(at, [ATResponse_AUD_handler EXCEPT !.keeps = "mute"], Unset)
RIL_AUD_PlayFile == {Call(<<GetsMedia, GetsChannel, Plays("QAUDPLAY")>>, "none")}
RIL_AUD_StopPlay == {Call(<<Plays("QAUDSTOP")>>, "none")}
RIL_AUD_StartRecord == {Call(<<Plays("QAUDRD=1")>>, "none")}
RIL_AUD_StopRecord == {Call(<<Plays("QAUDRD=0")>>, "none")}
RIL_AUD_PlayMem == {Call(<<Plays("QPLAYMEM")>>, "none"), Call(<<Plays("QSTOPRES")>>, "none")}
RIL_AUD_PlayMemBg ==
    {Call(<<Plays("QPMEMBG=1")>>, "none"), Call(<<Plays("QPMEMBG=0")>>, "none")}
RIL_AUD_GetRecordState == Query("QAUDRD?", ATResponse_AUD_handler, Told(0), "copy")

\* ril_gps.c, Ril_dtmf.c, ril_alarm.c
RIL_GPS_Open == Does("QGNSSC")
RIL_GPS_Read == Query("QGNSSRD", ATResponse_GPSRead_Hdlr, Told(<<>>), "copy")
RIL_GPS_Read_TimeSync_Status == Query("QGNSSTS?", ATResponse_GPSReadTS_Hdlr, Unset, "copy")
RIL_GPS_EPO == Does("QGNSSEPO") \cup Does("QGEPOAID")
RIL_GPS_EPO_Config_APN == {Call(<<Order("QIFGCNT"), Order("QICSGP=user")>>, "none")}
RIL_ToneDet_Set == Does("QTONEDET=set")
RIL_ToneDet_Get == Query("QTONEDET", ATResponse_Handler, Unset, "direct")
RIL_Alarm_Create == Does("QALARM=1")
RIL_Alarm_Query == Query("QALARM?", ATResponse_QALARM_Handler, Unset, "direct")
RIL_Alarm_Remove == Does("QALARM=0")

\* ril_telephony.c
RIL_Telephony_Dial == Query("ATD", Telephony_Dial_AT_handler, Unset, "direct")
RIL_Telephony_Answer == Query("ATA", Telephony_Answer_AT_handler, Unset, "direct")
RIL_Telephony_Hangup == Does("ATH")

\* ril_http.c: which data are written is in variables the call has set.
Http(at) == Query(at, ATRsp_QHTTP_Handler, Unset, "none")
RIL_HTTP_SetServerURL == With(1, Http("QHTTPURL"))
RIL_HTTP_RequestToGet == Http("QHTTPGET")
RIL_HTTP_RequestToPost == With(2, Http("QHTTPPOST"))
RIL_HTTP_ReadResponse == Http("QHTTPREAD")

\* ril_ftp.c: a user name and a password are sent when they are given.
RIL_FTP_QFTPOPEN ==
    {Call(user \o secret \o <<Order("QFTPCFG"), Order("QIREGAPP"), Order("QIACT"),
          Cmd("QFTPOPEN", ATResponse_FTP_handler_Common, Told(255))>>, "status") :
        user \in {<<>>, <<Order("QFTPUSER")>>}, secret \in {<<>>, <<Order("QFTPPASS")>>}}
RIL_FTP_QFTPCLOSE == FtpStatus("QFTPCLOSE")
RIL_FTP_QFTPPATH == FtpStatus("QFTPPATH")
RIL_FTP_QFTPCFG == FtpStatus("QFTPCFG=")
\* The handlers are given the address of the caller's pointer: the value is lost.
RIL_FTP_QFTPSTAT == Query("QFTPSTAT", ATResponse_QFTPSTAT_handler, Unset, "direct")
RIL_FTP_QFTPLEN == Query("QFTPLEN", ATResponse_QFTPLEN_handler, Unset, "direct")
RIL_FTP_QFTPRENAME == FtpStatus("QFTPRENAME")
RIL_FTP_QFTPSIZE == Query("QFTPSIZE", ATResponse_FTP_handler_Common, Told(-1), "size")
RIL_FTP_QFTPDELETE == FtpStatus("QFTPDELETE")
RIL_FTP_QFTPMKDIR == FtpStatus("QFTPMKDIR")
\* The command sent is the one that makes a directory.
RIL_FTP_QFTPRMDIR == {[c EXCEPT !.asks = <<"QFTPRMDIR">>] : c \in FtpStatus("QFTPMKDIR")}
RIL_FTP_QIDEACT == Query("QIDEACT", Callback_QIDEACT, Unset, "none")

\* ril_mqtt.c: QMTSUB and QMTUNS send whatever number of topics they are given.
Mqtt(at) == Query(at, MQTT_ATResponse_Handler, Unset, "none")
RIL_MQTT_QMTCFG == Mqtt("ALIAUTH") \cup Mqtt("SHOWRECVLEN") \cup Mqtt("VERSION")
RIL_MQTT_QMTOPEN == Mqtt("QMTOPEN")
RIL_MQTT_QMTCONN == Mqtt("QMTCONN")
RIL_MQTT_QMTSUB == Mqtt("QMTSUB")
RIL_MQTT_QMTUNS == Mqtt("QMTUNS")
RIL_MQTT_QMTCLOSE == Mqtt("QMTCLOSE")
RIL_MQTT_QMTDISC == Mqtt("QMTDISC")
RIL_MQTT_QMTPUB == With(3, Query("QMTPUB", ATResponse_QMTPUB_handler, Unset, "none"))

RilServices == UNION {
    RIL_NW_GetGSMState, RIL_NW_GetGPRSState, RIL_NW_GetSignalQuality, RIL_NW_SetGPRSContext,
    RIL_NW_SetAPN, RIL_NW_GetIPStatus, RIL_NW_OpenPDPContext, RIL_NW_ClosePDPContext,
    RIL_NW_GetOperator, RIL_SIM_GetSimState, RIL_SIM_GetIMSI, RIL_SIM_GetCCID,
    RIL_QuerySysInitStatus, RIL_GetPowerSupply, RIL_GetIMEI, Ql_SecureData_Store,
    Ql_SecureData_Read, RIL_AUD_GetChannel, RIL_AUD_SetChannel, RIL_AUD_SetVolume,
    RIL_AUD_GetVolume, RIL_AUD_PlayFile, RIL_AUD_StopPlay, RIL_AUD_StartRecord,
    RIL_AUD_StopRecord, RIL_AUD_PlayMem, RIL_AUD_PlayMemBg, RIL_AUD_GetRecordState,
    RIL_GPS_Open, RIL_GPS_Read, RIL_GPS_Read_TimeSync_Status, RIL_GPS_EPO,
    RIL_GPS_EPO_Config_APN, RIL_ToneDet_Set, RIL_ToneDet_Get, RIL_Alarm_Create,
    RIL_Alarm_Query, RIL_Alarm_Remove, RIL_Telephony_Dial, RIL_Telephony_Answer,
    RIL_Telephony_Hangup, RIL_HTTP_SetServerURL, RIL_HTTP_RequestToGet,
    RIL_HTTP_RequestToPost, RIL_HTTP_ReadResponse, RIL_FTP_QFTPOPEN, RIL_FTP_QFTPCLOSE,
    RIL_FTP_QFTPPATH, RIL_FTP_QFTPCFG, RIL_FTP_QFTPSTAT, RIL_FTP_QFTPLEN,
    RIL_FTP_QFTPRENAME, RIL_FTP_QFTPSIZE, RIL_FTP_QFTPDELETE, RIL_FTP_QFTPMKDIR,
    RIL_FTP_QFTPRMDIR, RIL_FTP_QIDEACT, RIL_MQTT_QMTCFG, RIL_MQTT_QMTOPEN,
    RIL_MQTT_QMTCONN, RIL_MQTT_QMTSUB, RIL_MQTT_QMTUNS, RIL_MQTT_QMTCLOSE,
    RIL_MQTT_QMTDISC, RIL_MQTT_QMTPUB}

-----------------------------------------------------------------------------
(* The modem: what it answers to a command, whether it carries it out, and *)
(* whether it asks for data first.  Unclear is +COPS without a name, and   *)
(* an alarm west of Greenwich: what the code makes of it is undefined.     *)

Unclear == -2

RilLine(at, kind, val) == [at |-> at, kind |-> kind, val |-> val, old |-> FALSE]
FinalOf(kind) == RilLine("", kind, 0)
\* said is the value, if there is one.
Reply(ok, said, lines, waits) == [ok |-> ok, said |-> said, lines |-> lines, waits |-> waits]
Refusals(at) ==
    {Reply(FALSE, <<>>, <<FinalOf("ERROR")>>, FALSE)} \cup
    {Reply(FALSE, <<>>, <<RilLine("", "+CME", code)>>, FALSE) : code \in Amounts}
Plainly(at) == {Reply(TRUE, <<>>, <<FinalOf("OK")>>, FALSE)} \cup Refusals(at)
TellsThenOk(at, values) ==
    {Reply(TRUE, <<v>>, <<RilLine(at, "value", v), FinalOf("OK")>>, FALSE) : v \in values}
    \cup Refusals(at)
OkThenTells(at, values) ==
    {Reply(TRUE, <<v>>, <<FinalOf("OK"), RilLine(at, "value", v)>>, FALSE) : v \in values}
    \cup Refusals(at)
Denied(replies, values) ==
    {IF r.ok /\ r.said[1] \in values THEN [r EXCEPT !.ok = FALSE] ELSE r : r \in replies}
Kinds(at, kinds) ==
    {Reply(TRUE, <<k>>, <<FinalOf(k)>>, FALSE) : k \in kinds} \cup Refusals(at)
AsksForData(at, kind) ==
    {Reply(TRUE, <<>>, <<FinalOf(kind)>>, TRUE)} \cup Refusals(at)

RilReplies(at) ==
    CASE at \in {"CREG?", "CGREG?", "CSQ", "CIMI", "CCID", "QINISTAT", "CBC", "GSN",
                 "QUSERDAT=3", "QGNSSTS?", "QTONEDET", "QFTPSTAT", "QFTPLEN"}
               \cup (AudioQueries \ {"QAUDCH?"})
            -> TellsThenOk(at, Amounts)
      [] at = "QAUDCH?" -> TellsThenOk(at, Channels)
      [] at \in {"COPS?", "QALARM?"} -> TellsThenOk(at, {0, Unclear})
      [] at = "CPIN?" -> TellsThenOk(at, SimStates)
      [] at = "QMIC?" -> TellsThenOk(at, [1 .. 3 -> MicVolumes])
      [] at = "QGNSSRD" ->
            {Reply(TRUE, <<<<1, 2>>>>, <<RilLine(at, "value", 1), RilLine(at, "value", 2),
                                     FinalOf("OK")>>, FALSE)} \cup Refusals(at)
      [] at = "QISTAT" -> OkThenTells(at, IpStates)
      [] at = "QFTPSIZE" -> Denied(OkThenTells(at, Statuses), -1 .. -1)
      [] at \in {"QFTPOPEN", "QFTPCLOSE", "QFTPPATH", "QFTPCFG=", "QFTPRENAME",
                 "QFTPDELETE", "QFTPMKDIR"} ->
            Denied(OkThenTells(at, Statuses), Statuses \ {0})
      [] at = "QIDEACT" -> Kinds(at, {"DEACT_OK"})
      [] at = "ATD" -> Kinds(at, {"OK", "BUSY", "NO_CARRIER", "NO_DIALTONE"})
      [] at = "ATA" -> Kinds(at, {"OK", "NO_CARRIER"})
      [] at \in {"QHTTPURL", "QHTTPPOST"} -> AsksForData(at, "CONNECT")
      [] at = "QMTPUB" -> AsksForData(at, ">")
      [] at = "QHTTPREAD" ->
            {Reply(TRUE, <<>>, <<FinalOf("CONNECT"), FinalOf("OK")>>, FALSE)}
            \cup Refusals(at)
      [] OTHER -> Plainly(at)

\* reply is on its way; what was asked is done when it needs no data.
RilAnswers(modem, at, reply) ==
    [modem EXCEPT !.done = IF reply.ok /\ ~reply.waits THEN Append(@, at) ELSE @,
                  !.said = Append(@, reply.said),
                  !.waits = reply.waits,
                  !.refused = IF reply.ok THEN @ ELSE <<reply.lines[1]>>]

-----------------------------------------------------------------------------
RilIdle == [asks |-> <<>>, cmds |-> <<>>, gives |-> "none", body |-> 0]
RilFresh == [done |-> <<>>, said |-> <<>>, took |-> <<>>, waits |-> FALSE, refused |-> <<>>]

RilInit ==
    /\ rilCall = RilIdle /\ rilStep = 0 /\ rilData = Unset /\ rilGot = <<>>
    /\ rilOut = Unset /\ rilResult = "none" /\ rilWire = <<>> /\ rilModem = RilFresh
    /\ rilStray = FALSE /\ m_iErrCode = 0 /\ IsDataReadSuccess = FALSE

Aged(lines) == [i \in DOMAIN lines |-> [lines[i] EXCEPT !.old = TRUE]]

\* The step-th command is sent: the core takes it, or has another one to run.
RilSends(call, step, wire, modem) ==
    LET cmd == call.cmds[step] IN
    /\ rilData' = cmd.start
    /\ \/ \E reply \in RilReplies(cmd.at) :
            /\ rilStep' = step
            /\ rilWire' = Aged(wire) \o reply.lines
            /\ rilModem' = RilAnswers(modem, cmd.at, reply)
            /\ rilResult' = "none"
       \/ /\ rilStep' = 0 /\ rilResult' = "busy"
          /\ rilWire' = Aged(wire) /\ rilModem' = modem

RilBegins(call) ==
    /\ rilCall = RilIdle
    /\ Len(rilWire) <= MaxOldLines
    /\ rilCall' = call /\ rilGot' = <<>> /\ rilOut' = Unset /\ rilStray' = FALSE
    /\ RilSends(call, 1, rilWire, RilFresh)
    /\ UNCHANGED <<m_iErrCode, IsDataReadSuccess>>

RilNow == rilCall.cmds[rilStep]

\* What the handler of the command takes the line for.
TakenFor(cmd, line) ==
    IF line.kind # "value" THEN line.kind
    ELSE IF \/ line.at = cmd.at
            \/ line.at \in AudioQueries /\ cmd.rsp = ATResponse_AUD_handler THEN "value"
    ELSE IF line.at = "QISTAT" /\ line.val = "CONNECT_OK" THEN "CONNECT_OK"
    ELSE "other"

\* What the variable, which holds data, holds after the line: room is how much
\* can be read, and got what the variables of the commands before ended with.
Kept(cmd, room, got, line, data) ==
    LET kind == TakenFor(cmd, line)
        keeps == cmd.rsp.keeps
    IN  IF kind = "value" THEN
            CASE line.at \in {"COPS?", "QALARM?"} /\ line.val = Unclear ->
                    {data, Told(MaxRilValue)}
              [] keeps = "mute" -> {data}
              [] keeps = "lines" -> {Told(Append(data[2], line.val))}
              [] keeps = "name" ->
                    {Told(IF cmd.at = "CPIN?" THEN RIL_SIM_GetSimStateByName(line.val)
                                            ELSE RIL_NW_GetIpStatusByName(line.val))}
              [] keeps = "bytes" -> {Told(IF room < line.val THEN room ELSE line.val)}
              [] cmd.at = "QMIC?" /\ line.at = "QMIC?" ->
                    {Told(parse_cmd_qmic(line.val, got[1][2]))}
              [] OTHER -> {Told(line.val)}
        ELSE CASE keeps = "any" /\ kind \notin OkLines \cup CmeError -> {Told("line")}
               [] keeps = "verdict" /\ kind \in cmd.rsp.good \cup cmd.rsp.bad ->
                    {Told(IF kind \in OkLines THEN "OK" ELSE
                          IF kind \in CmeError THEN "ERROR" ELSE kind)}
               [] OTHER -> {data}

RilVerdict(cmd, line) ==
    LET kind == TakenFor(cmd, line) IN
    IF kind \in cmd.rsp.good THEN "success"
    ELSE IF kind \in cmd.rsp.bad THEN "failed" ELSE "wait"

\* The last command is over.
RilReturns(verdict, data) ==
    /\ rilStep' = 0
    /\ rilOut' = IF \/ rilCall.gives = "direct"
                    \/ /\ verdict = "success"
                       /\ \/ rilCall.gives = "copy"
                          \/ rilCall.gives = "size" /\ data[2] >= 0
                          \/ rilCall.gives = "bytes" /\ IsDataReadSuccess'
                 THEN data ELSE Unset
    /\ rilResult' =
        IF verdict = "success" /\ \/ rilCall.gives = "status" /\ data[2] # 0
                                  \/ rilCall.gives = "size" /\ data[2] < 0
                                  \/ rilCall.gives = "bytes" /\ ~IsDataReadSuccess'
        THEN "failed" ELSE verdict
    /\ UNCHANGED <<rilCall, rilGot>>

\* The default handler remembers how its command ended.
RecordsError(line, verdict) ==
    m_iErrCode' = IF RilNow.rsp # Default_atRsp_callback \/ verdict = "wait" THEN m_iErrCode
                  ELSE IF verdict = "success" THEN 0
                  ELSE IF line.kind = "ERROR" THEN -1 ELSE line.val

\* The modem takes the data when it has asked for them and answers then.
Writes(wire) ==
    IF rilModem.waits
    THEN \E reply \in Plainly(RilNow.at) :
            /\ rilWire' = wire \o reply.lines
            /\ rilModem' = [rilModem EXCEPT
                    !.took = Append(@, rilCall.body), !.waits = FALSE,
                    !.done = IF reply.ok THEN Append(@, RilNow.at) ELSE @,
                    !.refused = IF reply.ok THEN @ ELSE <<reply.lines[1]>>]
    ELSE rilWire' = wire /\ UNCHANGED rilModem

IsPrompt(cmd, line) ==
    \/ line.kind = "CONNECT" /\ cmd.at \in {"QHTTPURL", "QHTTPPOST"}
    \/ line.kind = ">" /\ cmd.at = "QMTPUB"

\* A line comes in while a command is in flight.
RilLineComes ==
    /\ rilStep > 0
    /\ rilWire # <<>>
    /\ LET line == Head(rilWire)
           verdict == RilVerdict(RilNow, line)
       IN  /\ rilStray' = (rilStray \/ line.old)
           /\ IsDataReadSuccess' =
                \/ IsDataReadSuccess
                \/ RilNow.at = "QUSERDAT=3" /\ TakenFor(RilNow, line) = "value"
           /\ RecordsError(line, verdict)
           /\ \E data \in Kept(RilNow, rilCall.body, rilGot, line, rilData) :
                \/ /\ verdict = "wait"
                   /\ rilData' = data
                   /\ IF IsPrompt(RilNow, line) THEN Writes(Tail(rilWire))
                      ELSE rilWire' = Tail(rilWire) /\ UNCHANGED rilModem
                   /\ UNCHANGED <<rilCall, rilStep, rilGot, rilOut, rilResult>>
                \/ /\ verdict = "success" /\ rilStep < Len(rilCall.cmds)
                   /\ rilGot' = Append(rilGot, data)
                   /\ RilSends(rilCall, rilStep + 1, Tail(rilWire), rilModem)
                   /\ UNCHANGED <<rilCall, rilOut>>
                \/ /\ verdict = "failed" \/ (verdict = "success" /\ rilStep = Len(rilCall.cmds))
                   /\ RilReturns(verdict, data)
                   /\ rilWire' = Aged(Tail(rilWire))
                   /\ UNCHANGED <<rilData, rilModem>>

\* The time is up, whether the modem has not answered yet or never ends the
\* command.  A modem that waits for data gives up.
RilTimesOut ==
    /\ rilStep > 0
    /\ UNCHANGED IsDataReadSuccess
    /\ RilReturns("timeout", rilData)
    /\ rilWire' = Aged(rilWire)
    /\ rilModem' = [rilModem EXCEPT !.waits = FALSE]
    /\ UNCHANGED <<rilData, rilStray, m_iErrCode>>

\* The caller goes on with the result.
RilGoesOn ==
    /\ rilStep = 0 /\ rilCall # RilIdle
    /\ rilCall' = RilIdle /\ rilData' = Unset /\ rilGot' = <<>> /\ rilOut' = Unset
    /\ rilResult' = "none" /\ rilModem' = RilFresh /\ rilStray' = FALSE
    /\ UNCHANGED <<rilStep, rilWire, m_iErrCode, IsDataReadSuccess>>

\* A line comes in that no command waits for.
RilDrops ==
    /\ rilCall = RilIdle /\ rilWire # <<>>
    /\ rilWire' = Tail(rilWire)
    /\ UNCHANGED <<rilCall, rilStep, rilData, rilGot, rilOut, rilResult, rilModem,
                   rilStray, m_iErrCode, IsDataReadSuccess>>

RilNext ==
    \/ \E call \in RilServices : RilBegins(call)
    \/ RilLineComes
    \/ RilTimesOut
    \/ RilGoesOn
    \/ RilDrops

RilSpec == RilInit /\ [][RilNext]_rilVars

-----------------------------------------------------------------------------
\* Values keep to their types, and lines of this command come after older ones.
RilTypeOK ==
    /\ rilStep \in 0 .. Len(rilCall.cmds)
    /\ rilResult \in {"none", "success", "failed", "timeout", "busy"}
    /\ m_iErrCode \in Statuses
    /\ IsDataReadSuccess \in BOOLEAN /\ rilStray \in BOOLEAN
    /\ \A i \in 1 .. Len(rilWire) - 1 : rilWire[i + 1].old => rilWire[i].old
    /\ rilStep = 0 => \A i \in DOMAIN rilWire : rilWire[i].old

\* What the caller should find in his variable after what the modem has said.
Meant(call, told) ==
    LET said == told[Len(told)][1]
        at == call.cmds[Len(call.cmds)].at
    IN  CASE at = "CPIN?" -> RIL_SIM_GetSimStateByName(said)
          [] at = "QISTAT" -> RIL_NW_GetIpStatusByName(said)
          [] at = "QMIC?" -> Digits(said[told[1][1] + 1])
          [] at = "QUSERDAT=3" -> IF said > call.body THEN call.body ELSE said
          [] OTHER -> said

\* Calls known to do something else than they are asked, and microphone volumes
\* with fewer digits than the one before.
OtherThanAsked(call) ==
    call.asks[1] \in {"QICSGP=user", "QFTPRMDIR", "QFTPSTAT", "QFTPLEN"}
FewerDigits(call, told) ==
    /\ Len(told) = 2 /\ call.cmds[2].at = "QMIC?" /\ told[2] # <<>>
    /\ \E i \in 1 .. 2 : Len(told[2][1][i]) > Len(told[2][1][i + 1])
KnownFaults == OtherThanAsked(rilCall) \/ FewerDigits(rilCall, rilModem.said)

\* A call that met no line of another command tells the truth: it returns
\* success when, and only when, the modem has carried out everything the caller
\* asked, in that order; then the commands that carry a value told before carry
\* what the modem said, the data taken are the caller's, and his variable holds
\* what the modem said last; after a failure or a refusal by the core, what was
\* carried out is a part of what was asked, and if the command that failed has
\* the default handler, Ql_RIL_AT_GetErrCode knows the modem's code.
AnswersAreTrue ==
    (/\ rilStep = 0 /\ ~rilStray /\ rilResult \notin {"none", "timeout"}
     /\ ~KnownFaults)
    =>
    LET n == Len(rilModem.done) IN
    /\ rilModem.done = SubSeq(rilCall.asks, 1, n)
    /\ rilResult = "success" <=> n = Len(rilCall.asks)
    /\ \A i \in DOMAIN rilGot : 
            rilGot[i] \in {Unset} \cup {Told(rilModem.said[i][k]) : k \in DOMAIN rilModem.said[i]}
    /\ rilModem.took # <<>> => rilModem.took = <<rilCall.body>>
    /\ rilResult = "success" /\ rilCall.gives \in {"copy", "direct", "size", "bytes"}
       /\ ~(rilCall.asks[1] \in {"COPS?", "QALARM?"} /\ rilModem.said = <<<<Unclear>>>>)
       => rilOut = Told(Meant(rilCall, rilModem.said))
    /\ rilResult = "failed" /\ rilModem.refused # <<>>
       /\ rilCall.cmds[Len(rilModem.said)].rsp = Default_atRsp_callback
       => m_iErrCode = IF rilModem.refused[1].kind = "ERROR" THEN -1
                       ELSE rilModem.refused[1].val

=============================================================================
