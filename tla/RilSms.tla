------------------------------- MODULE RilSms -------------------------------
(***************************************************************************)
(* The SMS library of the radio interface, ril/src/ril_sms.c: reading,     *)
(* sending and deleting messages through AT commands.  A call is under way *)
(* until its last command has a final result; a command's answer reaches   *)
(* SMS_CMD_GeneralHandler line by line and may be cut short by a timeout   *)
(* anywhere.                                                               *)
(*                                                                         *)
(* External: the modem, the allocator, and the conversions between a       *)
(* message and its PDU (inc/lib_ril_sms.h, implemented in a library): they *)
(* may fail, and decode what they encoded.  A PDU is therefore the record  *)
(* of what it carries, and a line is [is |-> its kind, has |-> content].   *)
(***************************************************************************)
EXTENDS Integers, SequencesExt

CONSTANTS SmsSlots,      \* capacity of the storage
          Stored,        \* messages found in the storage
          Numbers,       \* phone numbers as given, sequences of characters
          Texts,         \* texts of messages sent
          ConParams,     \* concatenation parameters given, <<>> for none
          Pdus,          \* PDUs given to be sent
          MaxDigits,     \* LIB_SMS_PHONE_NUMBER_MAX_LEN
          MaxCalls       \* bound on the calls

ASSUME SmsAssumption ==
    /\ SmsSlots \in Nat \ {0} /\ MaxDigits \in Nat \ {0} /\ MaxCalls \in Nat
    /\ \A m \in Stored :
          m = [kind |-> m.kind, status |-> m.status, sca |-> m.sca, number |-> m.number,
               scts |-> m.scts, con |-> m.con, text |-> m.text]
    /\ Numbers \subseteq Seq(STRING)

VARIABLES smsCall,       \* the call under way, or the last one
          smsStep,       \* the command that waits for its answer, or "idle"
          smsLines,      \* lines of the answer still to come
          smsModem,      \* storage in use, message format, messages, next mr
          smsSent,       \* messages the network has taken
          smsFlag,       \* s_bSMSReadContentFlag
          smsStray,      \* it was set when the last AT+CMGR was sent
          smsData,       \* the command's user data
          smsHeap,       \* blocks allocated by the call
          smsResult,     \* [rc, out] of the last call
          smsCalls       \* calls so far

smsVars == <<smsCall, smsStep, smsLines, smsModem, smsSent, smsFlag, smsStray,
             smsData, smsHeap, smsResult, smsCalls>>

NoData == [storage |-> "SM", total |-> 0, used |-> 0, status |-> 0,
           data |-> <<>>, mr |-> 0]
NoCall == [op |-> "none"]
Absent == [status |-> 255]      \* RIL_SMS_STATUS_TYPE_INVALID

SmsInit ==
    /\ smsCall = NoCall /\ smsStep = "idle" /\ smsLines = <<>>
    /\ \E slots \in [1 .. SmsSlots -> Stored \cup {Absent}], s \in {"SM", "ME"} :
          smsModem = [storage |-> s, format |-> 1, slots |-> slots, mr |-> 1]
    /\ smsSent = <<>> /\ smsFlag = FALSE /\ smsStray = FALSE
    /\ smsData = NoData /\ smsHeap = {}
    /\ smsResult = [rc |-> "none", out |-> <<>>] /\ smsCalls = 0

-----------------------------------------------------------------------------
(* Conversions.  <<>> is a failure, <<v>> the result v.                    *)

ConvIdxToCoreIdx(storage, index, max) ==
    IF storage = "SM" /\ index \in 1 .. max THEN index ELSE 0

IsValidConParam(con) ==
    /\ con.msgType \in {"6byte", "7byte"}
    /\ con.msgSeg >= 1 /\ con.msgSeg <= con.msgTot

DigitChar == {"1", "2", "*"}

ConvStringToPhoneNumber(s) ==
    LET plus == Head(s) = "+"
        digits == IF plus THEN Tail(s) ELSE s
    IN  IF Len(digits) > MaxDigits \/ ~(Range(digits) \subseteq DigitChar)
        THEN <<>>
        ELSE <<[type |-> IF plus THEN "international" ELSE "national",
                digits |-> digits]>>

ConvPhoneNumberToString(n) ==
    LET s == IF n.type = "international" THEN <<"+">> \o n.digits ELSE n.digits
    IN  IF n.digits = <<>> THEN <<<<>>>>
        ELSE IF /\ n.type \in {"international", "national", "unknown", "alphanumeric"}
                /\ Len(s) + 1 <= MaxDigits + 2
        THEN <<s>> ELSE <<>>

ConvDeliver(m) ==
    LET oa == ConvPhoneNumberToString(m.number)
    IN  IF oa = <<>> THEN <<>>
        ELSE <<[number |-> oa[1], scts |-> m.scts, con |-> m.con, text |-> m.text]>>

ConvSubmit(m) ==
    LET da == ConvPhoneNumberToString(m.number)
    IN  IF da = <<>> THEN <<>>
        ELSE <<[number |-> da[1], scts |-> 0, con |-> m.con, text |-> m.text]>>

\* converts is whether the text can be written in the character set asked for.
ConvSMSParamToTextInfo(m, converts) ==
    LET sca == ConvPhoneNumberToString(m.sca)
        param == IF m.kind = "deliver" THEN ConvDeliver(m)
                 ELSE IF m.kind = "submit" THEN ConvSubmit(m) ELSE <<>>
    IN  IF sca = <<>> \/ param = <<>> \/ ~converts THEN <<>>
        ELSE <<[status |-> m.status, type |-> m.kind, sca |-> sca[1],
                param |-> param[1]]>>

\* The octets behind the service centre's address.  Its length, two
\* hexadecimal digits, is read as a decimal number.
TpduLen(pdu) ==
    LET decimal == IF pdu.scaLen >= 10 THEN 0 ELSE pdu.scaLen
    IN  pdu.octets - (decimal + 1)

-----------------------------------------------------------------------------
(* The modem's answers.                                                    *)

Line(is, has) == [is |-> is, has |-> has]
Final(is) == Line(is, 0)
Used(slots) == Cardinality({i \in DOMAIN slots : slots[i] # Absent})

CpmsAnswer(m) ==
    <<Line("cpms", [storage |-> m.storage, used |-> Used(m.slots),
                    total |-> SmsSlots]), Final("OK")>>

CmgrAnswer(m, index) ==
    IF m.slots[index] = Absent THEN <<Final("OK")>>
    ELSE <<Line("cmgr", m.slots[index].status), Line("pdu", m.slots[index]),
           Final("OK")>>

\* A message read is no longer unread.
AfterCmgr(m, index) ==
    IF m.slots[index].status = 0 THEN [m EXCEPT !.slots[index].status = 1] ELSE m

Erases(flag, index, i, status) ==
    CASE flag = 0 -> i = index
      [] flag = 1 -> status = 1
      [] flag = 2 -> status \in {1, 3}
      [] flag = 3 -> status \in {1, 2, 3}
      [] OTHER -> TRUE

AfterCmgd(m, index, flag) ==
    [m EXCEPT !.slots = [i \in DOMAIN @ |->
        IF Erases(flag, index, i, @[i].status) THEN Absent ELSE @[i]]]

-----------------------------------------------------------------------------
(* Sending a command: the answer comes in lines, or is a refusal.          *)

Command(cmd, data, answer, modem) ==
    /\ smsStep' = cmd
    /\ smsData' = data
    /\ \/ smsLines' = answer /\ smsModem' = modem
       \/ smsLines' = <<Final("ERROR")>> /\ UNCHANGED smsModem

Return(rc, out, freed) ==
    /\ smsStep' = "idle" /\ smsLines' = <<>>
    /\ smsHeap' = smsHeap \ freed
    /\ smsResult' = [rc |-> rc, out |-> out]

\* What a call holds while its commands run, and frees at its end.
Holds(op) ==
    CASE op = "readText" -> {"pPDUInfo", "pSMSParam"}
      [] op = "sendText" -> {"pInfo", "pPDUStr"}
      [] OTHER -> {}

CmdGetStorageInfo ==
    Command("CPMS", NoData, CpmsAnswer(smsModem), smsModem)

\* SMS_SET_PDU_MODE, before the command it prepares.
SetPduMode(data) ==
    Command("CMGF", data, <<Final("OK")>>, [smsModem EXCEPT !.format = 0])

Begin(call) ==
    /\ smsStep = "idle" /\ smsCalls < MaxCalls
    /\ smsCalls' = smsCalls + 1
    /\ smsCall' = call
    /\ UNCHANGED <<smsSent, smsFlag, smsStray>>

Refuse(rc) ==
    /\ Return(rc, <<>>, {})
    /\ UNCHANGED <<smsModem, smsData>>

-----------------------------------------------------------------------------
(* The calls, up to their first command.                                   *)

GetStorage ==
    /\ Begin([op |-> "getStorage"])
    /\ CmdGetStorageInfo
    /\ UNCHANGED <<smsHeap, smsResult>>

SetStorage(type) ==
    /\ Begin([op |-> "setStorage"])
    /\ \/ /\ type # "SM" /\ Refuse("invalid")
       \/ /\ type = "SM"
          /\ Command("CPMS=", NoData,
                     <<Line("cpms=", [used |-> Used(smsModem.slots), total |-> SmsSlots]),
                       Final("OK")>>,
                     [smsModem EXCEPT !.storage = "SM"])
          /\ UNCHANGED <<smsHeap, smsResult>>

ReadSMS_PDU(index) ==
    /\ Begin([op |-> "readPdu", index |-> index, had |-> Absent])
    /\ CmdGetStorageInfo
    /\ UNCHANGED <<smsHeap, smsResult>>

\* got is the number of blocks the allocator gives.
ReadSMS_Text(index, supported, got) ==
    /\ Begin([op |-> "readText", index |-> index, had |-> Absent])
    /\ \/ /\ ~supported /\ Refuse("invalid")
       \/ /\ supported /\ got < 2 /\ Refuse("failed")
       \/ /\ supported /\ got = 2
          /\ CmdGetStorageInfo
          /\ smsHeap' = smsHeap \cup Holds("readText")
          /\ UNCHANGED smsResult

DeleteSMS(index, flag) ==
    /\ Begin([op |-> "delete", index |-> index, flag |-> flag,
              before |-> smsModem.slots])
    /\ \/ /\ flag > 4 /\ Refuse("invalid")
       \/ /\ flag <= 4 /\ CmdGetStorageInfo
          /\ UNCHANGED <<smsHeap, smsResult>>

\* The string is checked again, to no effect after the first check.
CmdSendPDUMsg(pdu) ==
    /\ pdu.wellFormed
    /\ SetPduMode([NoData EXCEPT !.data = <<pdu>>])
    /\ UNCHANGED smsResult

\* LIB_SMS_CHECK_SUBMIT_PDU_STR_FOR_SEND, which also fails without memory.
IsSubmitWithNumber(pdu) ==
    pdu.wellFormed /\ pdu.kind = "submit" /\ pdu.number.digits # <<>>

SendSMS_PDU(pdu) ==
    /\ Begin([op |-> "sendPdu", asked |-> pdu])
    /\ \/ Refuse("invalid")
       \/ IsSubmitWithNumber(pdu) /\ CmdSendPDUMsg(pdu) /\ UNCHANGED smsHeap

\* The PDU of a text; its service centre is the modem's own, of length 0.
EncodedPdu(number, text, con) ==
    [wellFormed |-> TRUE, kind |-> "submit", number |-> number, text |-> text,
     con |-> con, scaLen |-> 0, octets |-> 9]

\* How a call that sends a text ends before its first command: what it holds
\* where it fails, what it frees there, and what it returns.
TextFailures ==
    {[holds |-> {}, frees |-> {}],                                 \* pParam
     [holds |-> {"pParam"}, frees |-> {"pParam"}],                 \* pInfo
     [holds |-> {"pParam", "pInfo"}, frees |-> {"pParam", "pInfo"}],  \* conversions
     [holds |-> {"pInfo"}, frees |-> {"pInfo"}]}                   \* pPDUStr

SendText(call, number, text, con) ==
    LET da == ConvStringToPhoneNumber(number)
        pdu == EncodedPdu(da[1], text, con)
    IN  /\ Begin(call)
        /\ \/ \E f \in TextFailures :
                 /\ smsHeap' = (smsHeap \cup f.holds) \ f.frees
                 /\ smsResult' = [rc |-> "failed", out |-> <<>>]
                 /\ UNCHANGED <<smsStep, smsLines, smsModem, smsData>>
           \/ /\ da # <<>>
              /\ UNCHANGED smsHeap
              /\ smsResult' = [rc |-> "invalid", out |-> <<>>]
              /\ UNCHANGED <<smsStep, smsLines, smsModem, smsData>>
           \/ /\ da # <<>> /\ IsSubmitWithNumber(pdu)
              /\ smsHeap' = smsHeap \cup Holds("sendText")
              /\ CmdSendPDUMsg(pdu)

SendSMS_Text(number, supported, text) ==
    IF supported /\ number # <<>>
    THEN SendText([op |-> "sendText", number |-> number, text |-> text, con |-> <<>>],
                  number, text, <<>>)
    ELSE Begin([op |-> "sendText"]) /\ Refuse("invalid")

\* An unknown type of concatenation is replaced by the usual one.
Defaulted(con) ==
    [i \in DOMAIN con |->
        IF con[i].msgType \in {"6byte", "7byte"} THEN con[i]
        ELSE [con[i] EXCEPT !.msgType = "6byte"]]

SendSMS_Text_Ext(number, supported, text, con) ==
    LET d == Defaulted(con)
    IN  IF /\ supported /\ number # <<>>
           /\ \A i \in DOMAIN d : IsValidConParam(d[i])
        THEN SendText([op |-> "sendText", number |-> number, text |-> text, con |-> d],
                      number, text, d)
        ELSE Begin([op |-> "sendText"]) /\ Refuse("invalid")

-----------------------------------------------------------------------------
(* The handlers: what a line does to the command's data, and whether the   *)
(* handler took it.                                                        *)

HdlrGetStorageInfo(line) ==
    /\ line.is = "cpms"
    /\ smsData' = [smsData EXCEPT !.storage = line.has.storage,
                                  !.used = line.has.used, !.total = line.has.total]
    /\ UNCHANGED <<smsFlag, smsSent, smsModem>>
    /\ smsLines' = Tail(smsLines)

HdlrSetStorage(line) ==
    /\ line.is = "cpms="
    /\ smsData' = [smsData EXCEPT !.used = line.has.used, !.total = line.has.total]
    /\ UNCHANGED <<smsFlag, smsSent, smsModem>>
    /\ smsLines' = Tail(smsLines)

\* Whatever follows a header is the content, an OK included.
HdlrReadPDUMsg(line) ==
    /\ \/ /\ smsFlag
          /\ smsData' = [smsData EXCEPT !.data = <<line>>]
          /\ smsFlag' = FALSE
       \/ /\ ~smsFlag /\ line.is = "cmgr"
          /\ smsData' = [smsData EXCEPT !.status = line.has]
          /\ smsFlag' = TRUE
    /\ UNCHANGED <<smsSent, smsModem>>
    /\ smsLines' = Tail(smsLines)

\* The prompt lets the data out; the modem takes a PDU of the length it was
\* told, and the network may refuse it.
HdlrSendPDUMsg(line) ==
    LET pdu == smsData.data[1]
    IN  /\ \/ /\ line.is = "prompt"
              /\ \/ /\ line.has = pdu.octets - (pdu.scaLen + 1)
                    /\ smsSent' = Append(smsSent, [pdu |-> pdu, mr |-> smsModem.mr])
                    /\ smsModem' = [smsModem EXCEPT !.mr = @ + 1]
                    /\ smsLines' = <<Line("cmgs", smsModem.mr), Final("OK")>>
                 \/ /\ smsLines' = <<Final("ERROR")>>
                    /\ UNCHANGED <<smsSent, smsModem>>
              /\ UNCHANGED smsData
           \/ /\ line.is = "cmgs"
              /\ smsData' = [smsData EXCEPT !.mr = line.has]
              /\ smsLines' = Tail(smsLines)
              /\ UNCHANGED <<smsSent, smsModem>>
        /\ UNCHANGED smsFlag

Takes(step, line) ==
    CASE step = "CPMS" -> line.is = "cpms"
      [] step = "CPMS=" -> line.is = "cpms="
      [] step = "CMGR" -> smsFlag \/ line.is = "cmgr"
      [] step = "CMGS" -> line.is \in {"prompt", "cmgs"}
      [] OTHER -> FALSE

SMS_CMD_GeneralHandler ==
    LET line == Head(smsLines)
    IN  /\ smsStep # "idle" /\ smsLines # <<>>
        /\ ~Takes(smsStep, line) => line.is \notin {"OK", "ERROR"}
        /\ \/ smsStep = "CPMS" /\ HdlrGetStorageInfo(line)
           \/ smsStep = "CPMS=" /\ HdlrSetStorage(line)
           \/ smsStep = "CMGR" /\ HdlrReadPDUMsg(line)
           \/ smsStep = "CMGS" /\ HdlrSendPDUMsg(line)
           \/ /\ ~Takes(smsStep, line)
              /\ smsLines' = Tail(smsLines)
              /\ UNCHANGED <<smsData, smsFlag, smsSent, smsModem>>
        /\ UNCHANGED <<smsCall, smsStep, smsStray, smsHeap, smsResult, smsCalls>>

Ended(is) ==
    /\ smsStep # "idle" /\ smsLines # <<>>
    /\ ~Takes(smsStep, Head(smsLines)) /\ Head(smsLines).is = is
    /\ UNCHANGED <<smsSent, smsFlag, smsCalls>>

-----------------------------------------------------------------------------
(* What follows a command that succeeded.                                  *)

\* The index is checked against the storage in use.
AfterStorageInfo ==
    /\ Ended("OK") /\ smsStep = "CPMS"
    /\ UNCHANGED <<smsCall, smsStray>>
    /\ LET known == ConvIdxToCoreIdx(smsData.storage, smsCall.index, smsData.total)
       IN  \/ /\ smsCall.op = "getStorage"
              /\ Return("success", smsData, {})
              /\ UNCHANGED <<smsModem, smsData>>
           \/ /\ smsCall.op \in {"readPdu", "readText"} /\ known # 0
              /\ SetPduMode(NoData) /\ UNCHANGED <<smsHeap, smsResult>>
           \/ /\ smsCall.op = "delete" /\ (smsCall.flag = 0 => known # 0)
              /\ SetPduMode(NoData) /\ UNCHANGED <<smsHeap, smsResult>>
           \/ /\ \/ smsCall.op \in {"readPdu", "readText"} /\ known = 0
                 \/ smsCall.op = "delete" /\ smsCall.flag = 0 /\ known = 0
              /\ Return("invalid", <<>>, Holds(smsCall.op))
              /\ UNCHANGED <<smsModem, smsData>>

CommandCmgr ==
    /\ smsCall.op \in {"readPdu", "readText"}
    /\ smsCall' = [smsCall EXCEPT !.had = smsModem.slots[smsCall.index]]
    /\ smsStray' = smsFlag
    /\ Command("CMGR", NoData, CmgrAnswer(smsModem, smsCall.index),
               AfterCmgr(smsModem, smsCall.index))

CommandCmgs ==
    /\ smsCall.op \in {"sendPdu", "sendText"}
    /\ Command("CMGS", smsData, <<Line("prompt", TpduLen(smsData.data[1]))>>, smsModem)
    /\ UNCHANGED <<smsCall, smsStray>>

CommandCmgd ==
    /\ smsCall.op = "delete"
    /\ smsCall' = [smsCall EXCEPT !.before = smsModem.slots]
    /\ Command("CMGD", NoData, <<Final("OK")>>,
               AfterCmgd(smsModem, smsCall.index, smsCall.flag))
    /\ UNCHANGED smsStray

AfterPduMode ==
    /\ Ended("OK") /\ smsStep = "CMGF"
    /\ CommandCmgr \/ CommandCmgs \/ CommandCmgd
    /\ UNCHANGED <<smsHeap, smsResult>>

\* The PDU as it came; LIB_SMS_CHECK_PDU_STR is TRUE of every string.
ReturnPdu ==
    Return("success", IF smsData.data = <<>> THEN Absent
                      ELSE [status |-> smsData.status, data |-> smsData.data[1]], {})

\* Faulty: the path of a PDU that does not decode keeps the parameters.
ReturnTextLeaks ==
    \/ /\ smsData.data = <<>>
       /\ Return("success", Absent, Holds("readText"))
    \/ /\ smsData.data # <<>>
       /\ Return("failed", <<>>, {"pPDUInfo"})
    \/ /\ smsData.data # <<>> /\ smsData.data[1].is = "pdu"
       /\ LET info == ConvSMSParamToTextInfo([smsData.data[1].has EXCEPT
                                                 !.status = smsData.status], TRUE)
          IN  info # <<>> /\ Return("success", info[1], Holds("readText"))

\* A line that is no PDU does not decode; a PDU may not decode either.
ReturnText ==
    \/ /\ smsData.data = <<>>
       /\ Return("success", Absent, Holds("readText"))
    \/ /\ smsData.data # <<>>
       /\ Return("failed", <<>>, Holds("readText"))
    \/ /\ smsData.data # <<>> /\ smsData.data[1].is = "pdu"
       /\ LET info == ConvSMSParamToTextInfo([smsData.data[1].has EXCEPT
                                                 !.status = smsData.status], TRUE)
          IN  info # <<>> /\ Return("success", info[1], Holds("readText"))

AfterLast ==
    /\ Ended("OK")
    /\ \/ /\ smsStep = "CMGR" /\ smsCall.op = "readPdu" /\ ReturnPdu
       \/ /\ smsStep = "CMGR" /\ smsCall.op = "readText" /\ ReturnText
       \/ /\ smsStep = "CMGS"
          /\ Return("success", [mr |-> smsData.mr], Holds("sendText"))
       \/ /\ smsStep \in {"CPMS=", "CMGD"} /\ Return("success", <<>>, {})
    /\ UNCHANGED <<smsModem, smsData, smsCall, smsStray>>

\* A command that failed ends the call; AT+CPMS? in a delete is reported as
\* a wrong parameter.
Failed(rc) ==
    /\ Return(IF smsStep = "CPMS" /\ smsCall.op = "delete" THEN "invalid" ELSE rc,
              <<>>, Holds(smsCall.op))
    /\ UNCHANGED <<smsModem, smsData, smsCall, smsStray>>

CommandFails == Ended("ERROR") /\ Failed("failed")

CommandTimesOut ==
    /\ smsStep # "idle"
    /\ Failed("timeout")
    /\ UNCHANGED <<smsSent, smsFlag, smsCalls>>

SmsNext ==
    \/ GetStorage
    \/ \E t \in {"SM", "ME"} : SetStorage(t)
    \/ \E i \in 0 .. SmsSlots : ReadSMS_PDU(i)
    \/ \E i \in 0 .. SmsSlots, s \in BOOLEAN, got \in 0 .. 2 : ReadSMS_Text(i, s, got)
    \/ \E i \in 0 .. SmsSlots, flag \in 0 .. 5 : DeleteSMS(i, flag)
    \/ \E p \in Pdus : SendSMS_PDU(p)
    \/ \E n \in Numbers, s \in BOOLEAN, t \in Texts : SendSMS_Text(n, s, t)
    \/ \E n \in Numbers, s \in BOOLEAN, t \in Texts, c \in ConParams :
          SendSMS_Text_Ext(n, s, t, c)
    \/ SMS_CMD_GeneralHandler
    \/ AfterStorageInfo \/ AfterPduMode \/ AfterLast
    \/ CommandFails \/ CommandTimesOut

SmsSpec == SmsInit /\ [][SmsNext]_smsVars

-----------------------------------------------------------------------------
(* Properties.                                                             *)

\* Types of the library's state and of the call's (ril_sms.c:1060-1277).
SmsTypeOK ==
    /\ smsStep \in {"idle", "CPMS", "CPMS=", "CMGF", "CMGR", "CMGS", "CMGD"}
    /\ smsFlag \in BOOLEAN /\ smsStray \in BOOLEAN
    /\ smsHeap \subseteq {"pPDUInfo", "pSMSParam", "pInfo", "pPDUStr"}
    /\ smsResult.rc \in {"none", "success", "failed", "invalid", "timeout"}
    /\ smsModem.format \in 0 .. 1 /\ smsModem.storage \in {"SM", "ME"}
    /\ smsCalls \in 0 .. MaxCalls

Succeeded(op) == smsStep = "idle" /\ smsCall.op = op /\ smsResult.rc = "success"

\* The text a reader of message m expects, by the forms of inc/ril_sms.h.
TextMeant(m) ==
    [status |-> m.status, type |-> m.kind,
     sca |-> ConvPhoneNumberToString(m.sca)[1],
     param |-> [number |-> ConvPhoneNumberToString(m.number)[1],
                scts |-> IF m.kind = "deliver" THEN m.scts ELSE 0,
                con |-> m.con, text |-> m.text]]

ReadsAreTrue ==
    /\ Succeeded("readText") =>
          smsResult.out = IF smsCall.had = Absent THEN Absent ELSE TextMeant(smsCall.had)
    /\ (Succeeded("readPdu") /\ ~smsStray) =>
          smsResult.out = IF smsCall.had = Absent THEN Absent
                          ELSE [status |-> smsCall.had.status,
                                data |-> Line("pdu", smsCall.had)]

SendsAreTrue ==
    /\ Succeeded("sendText") =>
          /\ smsSent # <<>>
          /\ Last(smsSent).mr = smsResult.out.mr
          /\ Last(smsSent).pdu.con = smsCall.con
          /\ Last(smsSent).pdu.text = smsCall.text
          /\ ConvPhoneNumberToString(Last(smsSent).pdu.number)[1] = smsCall.number
    /\ Succeeded("sendPdu") =>
          smsSent # <<>> /\ Last(smsSent) = [pdu |-> smsCall.asked, mr |-> smsResult.out.mr]

\* A call that reports success did what was asked: a read returns the message
\* at that index, and none only if there is none, a send's message was taken
\* by the network under the reference returned, a delete leaves the others.
\* No call ends with memory allocated.  Excepted: a PDU read after an answer
\* that was cut between its two lines takes the header for the message
\* (ril_sms.c:1066-1090, 1653-1827, 1910-2327).
SmsCallsAreTrue ==
    /\ ReadsAreTrue
    /\ SendsAreTrue
    /\ Succeeded("delete") =>
          \A i \in DOMAIN smsModem.slots :
             smsModem.slots[i] =
                IF Erases(smsCall.flag, smsCall.index, i, smsCall.before[i].status)
                THEN Absent ELSE smsCall.before[i]
    /\ smsStep = "idle" => smsHeap = {}
=============================================================================
