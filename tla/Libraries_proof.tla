-------------------------- MODULE Libraries_proof ---------------------------
(***************************************************************************)
(* Proofs about the libraries, each for every value of its constants: the  *)
(* calls of the SMS library, the frames on the serial line of the          *)
(* microcontroller, the reception of the MQTT library, and then, with the  *)
(* Bluetooth library (BluetoothMqtt_proof), about the libraries together.  *)
(*                                                                         *)
(* McuInv gives every position in the stream of bytes the MCU has sent a   *)
(* place, the frame it is in and how much of it has been read.  What is in *)
(* the ring, in the driver and on the line is the rest of the stream, and  *)
(* the parser is where the place of the next byte says (ParserAt, HeldOK): *)
(* on a damaged stream the first bytes of an intact frame lead it there    *)
(* from any state.                                                         *)
(*                                                                         *)
(* MqttInv divides the stream of bytes the broker has sent into its        *)
(* packets (Pieces): what is kept of earlier receptions and what is on the *)
(* way are the bytes of those the agent has not seen.                      *)
(***************************************************************************)
EXTENDS MCLibraries, BluetoothMqtt_proof

-----------------------------------------------------------------------------
(* The SMS library.                                                        *)

(* What is known while a command waits for its answer.                     *)

IsMessage(m) ==
    m = [kind |-> m.kind, status |-> m.status, sca |-> m.sca, number |-> m.number,
         scts |-> m.scts, con |-> m.con, text |-> m.text]

Read == {"readPdu", "readText"}
Sending == {"sendPdu", "sendText"}

SmsStorageOK ==
    /\ smsModem = [storage |-> smsModem.storage, format |-> smsModem.format,
                   slots |-> smsModem.slots, mr |-> smsModem.mr]
    /\ smsModem.slots = [i \in 1 .. SmsSlots |-> smsModem.slots[i]]
    /\ \A i \in 1 .. SmsSlots :
          smsModem.slots[i] = Absent \/ IsMessage(smsModem.slots[i])

SmsDataOK ==
    smsData = [storage |-> smsData.storage, total |-> smsData.total,
               used |-> smsData.used, status |-> smsData.status,
               data |-> smsData.data, mr |-> smsData.mr]

\* A call to read is for a slot that exists, once that has been looked up.
ReadCall ==
    /\ smsCall.op \in Read
    /\ smsCall = [op |-> smsCall.op, index |-> smsCall.index, had |-> smsCall.had]

DeleteCall ==
    /\ smsCall.op = "delete"
    /\ smsCall = [op |-> "delete", index |-> smsCall.index, flag |-> smsCall.flag,
                  before |-> smsCall.before]

\* A PDU to be sent is the one that was asked for.
SendCall(pdu) ==
    \/ smsCall.op = "sendPdu" /\ smsCall = [op |-> "sendPdu", asked |-> pdu]
    \/ /\ smsCall.op = "sendText"
       /\ smsCall = [op |-> "sendText", number |-> smsCall.number,
                     text |-> smsCall.text, con |-> smsCall.con]
       /\ pdu.con = smsCall.con /\ pdu.text = smsCall.text
       /\ ConvPhoneNumberToString(pdu.number) = <<smsCall.number>>

StorageInfoInv ==
    /\ smsCall.op = "getStorage" \/ ReadCall \/ DeleteCall
    /\ smsLines \in {CpmsAnswer(smsModem), <<Final("OK")>>, <<Final("ERROR")>>}
    /\ smsData.total \in {0, SmsSlots}

PduModeInv ==
    /\ smsLines \in {<<Final("OK")>>, <<Final("ERROR")>>}
    /\ \/ ReadCall /\ smsCall.index \in 1 .. SmsSlots
       \/ DeleteCall
       \/ smsData.data # <<>> /\ SendCall(smsData.data[1])

\* The answer to AT+CMGR, line by line.
CleanRead(had) ==
    \/ smsLines = <<Final("ERROR")>> /\ ~smsFlag /\ smsData = NoData
    \/ /\ had = Absent
       /\ smsLines = <<Final("OK")>> /\ ~smsFlag /\ smsData = NoData
    \/ /\ smsLines = <<Line("cmgr", had.status), Line("pdu", had), Final("OK")>>
       /\ had # Absent /\ ~smsFlag /\ smsData = NoData
    \/ /\ smsLines = <<Line("pdu", had), Final("OK")>>
       /\ had # Absent /\ smsFlag /\ smsData = [NoData EXCEPT !.status = had.status]
    \/ /\ smsLines = <<Final("OK")>> /\ had # Absent /\ ~smsFlag
       /\ smsData.status = had.status /\ smsData.data = <<Line("pdu", had)>>

\* When the flag was left set, the first line is taken for the message.
StrayRead(had) ==
    \/ /\ smsFlag
       /\ smsLines \in {<<Final("ERROR")>>, <<Final("OK")>>,
                        <<Line("cmgr", had.status), Line("pdu", had), Final("OK")>>}
    \/ /\ ~smsFlag /\ smsData.data # <<>> /\ smsData.data[1].is # "pdu"
       /\ smsLines \in {<<>>, <<Line("pdu", had), Final("OK")>>, <<Final("OK")>>}

ReadInv ==
    /\ ReadCall
    /\ smsCall.had = Absent \/ IsMessage(smsCall.had)
    /\ IF smsStray THEN StrayRead(smsCall.had) ELSE CleanRead(smsCall.had)

\* The answer to AT+CMGS: the prompt, and what follows when the PDU was taken.
SendInv ==
    /\ smsData.data # <<>> /\ SendCall(smsData.data[1])
    /\ \/ \E n : smsLines = <<Line("prompt", n)>>
       \/ smsLines = <<Final("ERROR")>>
       \/ /\ smsSent # <<>> /\ Last(smsSent).pdu = smsData.data[1]
          /\ Last(smsSent) = [pdu |-> smsData.data[1], mr |-> Last(smsSent).mr]
          /\ \/ smsLines = <<Line("cmgs", Last(smsSent).mr), Final("OK")>>
             \/ smsLines = <<Final("OK")>> /\ smsData.mr = Last(smsSent).mr

DeleteInv ==
    /\ DeleteCall
    /\ smsLines \in {<<Final("OK")>>, <<Final("ERROR")>>}
    /\ smsLines = <<Final("OK")>> =>
          \A i \in 1 .. SmsSlots :
             smsModem.slots[i] =
                IF Erases(smsCall.flag, smsCall.index, i, smsCall.before[i].status)
                THEN Absent ELSE smsCall.before[i]

SmsInv ==
    /\ SmsTypeOK /\ SmsStorageOK /\ SmsDataOK
    /\ smsSent \in Seq(Range(smsSent))
    /\ smsHeap = IF smsStep = "idle" THEN {} ELSE Holds(smsCall.op)
    /\ smsStep = "idle" => SmsCallsAreTrue
    /\ smsStep = "CPMS" => StorageInfoInv
    /\ smsStep = "CPMS=" => smsCall.op = "setStorage"
    /\ smsStep = "CMGF" => PduModeInv
    /\ smsStep = "CMGR" => ReadInv
    /\ smsStep = "CMGS" => SendInv
    /\ smsStep = "CMGD" => DeleteInv

-----------------------------------------------------------------------------
(* Beginning a call.                                                       *)

LEMMA SmsBounds == SmsSlots \in Nat /\ MaxDigits \in Nat /\ MaxCalls \in Nat
  BY SmsAssumption

LEMMA StoredIsMessage == \A m \in Stored : IsMessage(m)
  BY SmsAssumption DEF IsMessage

LEMMA SmsInitially == SmsInit => SmsInv
  <1> SUFFICES ASSUME SmsInit PROVE SmsInv
    OBVIOUS
  <1>1. PICK slots \in [1 .. SmsSlots -> Stored \cup {Absent}], s \in {"SM", "ME"} :
            smsModem = [storage |-> s, format |-> 1, slots |-> slots, mr |-> 1]
    BY DEF SmsInit
  <1>2. SmsStorageOK
    BY <1>1, StoredIsMessage DEF SmsStorageOK
  <1>3. SmsTypeOK
    <2>1. /\ smsStep = "idle" /\ smsFlag = FALSE /\ smsStray = FALSE /\ smsHeap = {}
          /\ smsResult = [rc |-> "none", out |-> <<>>] /\ smsCalls = 0
      BY DEF SmsInit
    <2>2. smsModem.format \in 0 .. 1 /\ smsModem.storage \in {"SM", "ME"}
      BY <1>1
    <2>3. smsResult.rc = "none" /\ smsCalls \in 0 .. MaxCalls
      BY <2>1, SmsBounds
    <2> QED
      BY <2>1, <2>2, <2>3 DEF SmsTypeOK
  <1>4. SmsDataOK
    BY DEF SmsInit, SmsDataOK, NoData
  <1>5. SmsCallsAreTrue
    BY DEF SmsInit, SmsCallsAreTrue, ReadsAreTrue, SendsAreTrue, Succeeded
  <1>6. smsSent \in Seq(Range(smsSent))
    BY DEF SmsInit
  <1>7. smsStep = "idle" /\ smsHeap = {}
    BY DEF SmsInit
  <1> QED
    BY <1>2, <1>3, <1>4, <1>5, <1>6, <1>7 DEF SmsInv

\* A call that is refused has no result to be true.
LEMMA SmsRefusedKeeps ==
    ASSUME SmsInv, smsStep = "idle", smsStep' = "idle", smsHeap' = {},
           smsResult'.rc \in {"failed", "invalid"}, smsCalls' \in 0 .. MaxCalls,
           UNCHANGED <<smsModem, smsData, smsSent, smsFlag, smsStray>>
    PROVE  SmsInv'
  <1>1. SmsTypeOK'
    BY DEF SmsInv, SmsTypeOK
  <1>2. SmsCallsAreTrue'
    BY DEF SmsCallsAreTrue, ReadsAreTrue, SendsAreTrue, Succeeded
  <1> QED
    BY <1>1, <1>2 DEF SmsInv, SmsStorageOK, SmsDataOK

\* A command goes out: data and storage keep their shape.
LEMMA CommandKeeps ==
    ASSUME SmsInv, NEW cmd, NEW data, NEW answer, NEW modem,
           cmd \in {"CPMS", "CPMS=", "CMGF", "CMGR", "CMGS", "CMGD"},
           Command(cmd, data, answer, modem),
           data = [storage |-> data.storage, total |-> data.total, used |-> data.used,
                   status |-> data.status, data |-> data.data, mr |-> data.mr],
           modem = [storage |-> modem.storage, format |-> modem.format,
                    slots |-> modem.slots, mr |-> modem.mr],
           modem.storage \in {"SM", "ME"}, modem.format \in 0 .. 1,
           modem.slots = [i \in 1 .. SmsSlots |-> modem.slots[i]],
           \A i \in 1 .. SmsSlots : modem.slots[i] = Absent \/ IsMessage(modem.slots[i]),
           smsCalls' \in 0 .. MaxCalls, smsFlag' = smsFlag, smsStray' \in BOOLEAN,
           smsSent' = smsSent, smsResult' = smsResult, smsHeap' = Holds(smsCall'.op)
    PROVE  /\ SmsTypeOK' /\ SmsStorageOK' /\ SmsDataOK'
           /\ smsSent' \in Seq(Range(smsSent'))
           /\ smsStep' # "idle" /\ smsHeap' = Holds(smsCall'.op)
  <1>1. SmsStorageOK'
    BY DEF SmsInv, SmsStorageOK, Command
  <1>2. SmsDataOK'
    BY DEF SmsDataOK, Command
  <1>3. smsHeap' \subseteq {"pPDUInfo", "pSMSParam", "pInfo", "pPDUStr"}
    BY DEF Holds
  <1>4. SmsTypeOK'
    BY <1>3 DEF SmsInv, SmsTypeOK, Command
  <1> QED
    BY <1>1, <1>2, <1>4 DEF SmsInv, Command

LEMMA CallsCounted ==
    ASSUME SmsInv, NEW call, Begin(call)
    PROVE  /\ smsStep = "idle" /\ smsHeap = {} /\ smsCall' = call
           /\ smsCalls' \in 0 .. MaxCalls
           /\ UNCHANGED <<smsSent, smsFlag, smsStray>>
  BY SmsBounds DEF SmsInv, SmsTypeOK, Begin

LEMMA StorageInfoBegins ==
    ASSUME SmsInv, NEW call, Begin(call), CmdGetStorageInfo, UNCHANGED smsResult,
           smsHeap' = Holds(call.op),
           call.op = "getStorage" \/ ReadCall' \/ DeleteCall'
    PROVE  SmsInv'
  <1>0. /\ smsStep = "idle" /\ smsHeap = {} /\ smsCall' = call
        /\ smsCalls' \in 0 .. MaxCalls
        /\ UNCHANGED <<smsSent, smsFlag, smsStray>>
    BY CallsCounted
  <1>1. Command("CPMS", NoData, CpmsAnswer(smsModem), smsModem)
    BY DEF CmdGetStorageInfo
  <1>2. /\ SmsTypeOK' /\ SmsStorageOK' /\ SmsDataOK'
        /\ smsSent' \in Seq(Range(smsSent'))
        /\ smsStep' # "idle" /\ smsHeap' = Holds(smsCall'.op)
    BY <1>0, <1>1, CommandKeeps DEF SmsInv, SmsStorageOK, SmsTypeOK, NoData
  <1>3. /\ smsStep' = "CPMS" /\ smsData' = NoData /\ UNCHANGED smsModem
        /\ smsLines' \in {CpmsAnswer(smsModem), <<Final("ERROR")>>}
    BY <1>1 DEF Command
  <1>4. CpmsAnswer(smsModem)' = CpmsAnswer(smsModem)
    BY <1>3 DEF CpmsAnswer
  <1>5. StorageInfoInv'
    BY <1>0, <1>3, <1>4 DEF StorageInfoInv, NoData
  <1> QED
    BY <1>2, <1>3, <1>5 DEF SmsInv

LEMMA SetPduModeKeeps ==
    ASSUME SmsInv, NEW data, SetPduMode(data),
           data = [storage |-> data.storage, total |-> data.total, used |-> data.used,
                   status |-> data.status, data |-> data.data, mr |-> data.mr],
           smsCalls' \in 0 .. MaxCalls, smsHeap' = Holds(smsCall'.op),
           UNCHANGED <<smsSent, smsFlag, smsStray, smsResult>>,
           \/ ReadCall' /\ smsCall'.index \in 1 .. SmsSlots
           \/ DeleteCall'
           \/ data.data # <<>> /\ SendCall(data.data[1])'
    PROVE  SmsInv'
  <1>1. Command("CMGF", data, <<Final("OK")>>, [smsModem EXCEPT !.format = 0])
    BY DEF SetPduMode
  <1>2. /\ SmsTypeOK' /\ SmsStorageOK' /\ SmsDataOK'
        /\ smsSent' \in Seq(Range(smsSent'))
        /\ smsStep' # "idle" /\ smsHeap' = Holds(smsCall'.op)
    <2>1. /\ SmsTypeOK /\ smsStray' \in BOOLEAN
      BY DEF SmsInv, SmsTypeOK
    <2> DEFINE modem == [smsModem EXCEPT !.format = 0]
    <2>2. /\ modem = [storage |-> modem.storage, format |-> modem.format,
                      slots |-> modem.slots, mr |-> modem.mr]
          /\ modem.format = 0 /\ modem.storage = smsModem.storage
          /\ modem.slots = smsModem.slots
      BY DEF SmsInv, SmsStorageOK
    <2>3. Command("CMGF", data, <<Final("OK")>>, modem)
      BY <1>1
    <2>4. /\ modem.storage \in {"SM", "ME"} /\ modem.format \in 0 .. 1
          /\ modem.slots = [i \in 1 .. SmsSlots |-> modem.slots[i]]
          /\ \A i \in 1 .. SmsSlots : modem.slots[i] = Absent \/ IsMessage(modem.slots[i])
      BY <2>1, <2>2 DEF SmsInv, SmsStorageOK, SmsTypeOK
    <2> HIDE DEF modem
    <2> QED
      BY <2>1, <2>2, <2>3, <2>4, CommandKeeps
  <1>3. smsStep' = "CMGF" /\ smsData' = data
        /\ smsLines' \in {<<Final("OK")>>, <<Final("ERROR")>>}
    BY <1>1 DEF Command
  <1>4. PduModeInv'
    BY <1>3 DEF PduModeInv
  <1> QED
    BY <1>2, <1>3, <1>4 DEF SmsInv

-----------------------------------------------------------------------------
(* The calls, up to their first command.                                   *)

LEMMA GetStorageKeeps == ASSUME SmsInv, GetStorage PROVE SmsInv'
  <1>1. Begin([op |-> "getStorage"]) /\ CmdGetStorageInfo /\ UNCHANGED <<smsHeap, smsResult>>
    BY DEF GetStorage
  <1>2. smsHeap' = Holds([op |-> "getStorage"].op)
    BY <1>1, CallsCounted DEF Holds
  <1>3. [op |-> "getStorage"].op = "getStorage"
    OBVIOUS
  <1> QED
    BY <1>1, <1>2, <1>3, StorageInfoBegins

LEMMA RefuseKeeps ==
    ASSUME SmsInv, NEW call, Begin(call), NEW rc \in {"failed", "invalid"}, Refuse(rc)
    PROVE  SmsInv'
  <1>1. /\ smsStep = "idle" /\ smsHeap = {} /\ smsCalls' \in 0 .. MaxCalls
        /\ UNCHANGED <<smsSent, smsFlag, smsStray>>
    BY CallsCounted
  <1>2. /\ smsStep' = "idle" /\ smsHeap' = {} /\ smsResult'.rc = rc
        /\ UNCHANGED <<smsModem, smsData>>
    BY <1>1 DEF Refuse, Return
  <1> QED
    BY <1>1, <1>2, SmsRefusedKeeps

LEMMA SetStorageKeeps == ASSUME SmsInv, NEW type, SetStorage(type) PROVE SmsInv'
  <1>1. Begin([op |-> "setStorage"])
    BY DEF SetStorage
  <1>2. CASE Refuse("invalid")
    BY <1>1, <1>2, RefuseKeeps
  <1>3. CASE /\ Command("CPMS=", NoData,
                     <<Line("cpms=", [used |-> Used(smsModem.slots), total |-> SmsSlots]),
                       Final("OK")>>,
                     [smsModem EXCEPT !.storage = "SM"])
             /\ UNCHANGED <<smsHeap, smsResult>>
    <2> DEFINE modem == [smsModem EXCEPT !.storage = "SM"]
               answer == <<Line("cpms=", [used |-> Used(smsModem.slots), total |-> SmsSlots]),
                           Final("OK")>>
    <2>1. /\ modem = [storage |-> modem.storage, format |-> modem.format,
                      slots |-> modem.slots, mr |-> modem.mr]
          /\ modem.storage \in {"SM", "ME"} /\ modem.format \in 0 .. 1
          /\ modem.slots = [i \in 1 .. SmsSlots |-> modem.slots[i]]
          /\ \A i \in 1 .. SmsSlots : modem.slots[i] = Absent \/ IsMessage(modem.slots[i])
      BY DEF SmsInv, SmsStorageOK, SmsTypeOK
    <2>2. Command("CPMS=", NoData, answer, modem)
      BY <1>3
    <2>3. /\ smsStep = "idle" /\ smsHeap = {} /\ smsCall' = [op |-> "setStorage"]
          /\ smsCalls' \in 0 .. MaxCalls
          /\ UNCHANGED <<smsSent, smsFlag, smsStray>>
      BY <1>1, CallsCounted
    <2>4. smsHeap' = Holds(smsCall'.op) /\ smsStray' \in BOOLEAN
      BY <1>3, <2>3 DEF Holds, SmsInv, SmsTypeOK
    <2> HIDE DEF modem, answer
    <2>5. /\ SmsTypeOK' /\ SmsStorageOK' /\ SmsDataOK'
          /\ smsSent' \in Seq(Range(smsSent'))
          /\ smsStep' # "idle" /\ smsHeap' = Holds(smsCall'.op)
      BY <1>3, <2>1, <2>2, <2>3, <2>4, CommandKeeps DEF NoData
    <2>6. smsStep' = "CPMS=" /\ smsCall'.op = "setStorage"
      BY <2>2, <2>3 DEF Command
    <2> QED
      BY <2>5, <2>6 DEF SmsInv
  <1> QED
    BY <1>2, <1>3 DEF SetStorage

LEMMA ReadPduKeeps == ASSUME SmsInv, NEW index, ReadSMS_PDU(index) PROVE SmsInv'
  <1> DEFINE call == [op |-> "readPdu", index |-> index, had |-> Absent]
  <1>1. Begin(call) /\ CmdGetStorageInfo /\ UNCHANGED <<smsHeap, smsResult>>
    BY DEF ReadSMS_PDU
  <1>2. smsHeap' = Holds(call.op)
    BY <1>1, CallsCounted DEF Holds
  <1>3. ReadCall'
    BY <1>1, CallsCounted DEF ReadCall, Read
  <1> HIDE DEF call
  <1> QED
    BY <1>1, <1>2, <1>3, StorageInfoBegins

LEMMA ReadTextKeeps ==
    ASSUME SmsInv, NEW index, NEW supported \in BOOLEAN, NEW got \in 0 .. 2,
           ReadSMS_Text(index, supported, got)
    PROVE  SmsInv'
  <1> DEFINE call == [op |-> "readText", index |-> index, had |-> Absent]
  <1>1. Begin(call)
    BY DEF ReadSMS_Text
  <1>2. CASE Refuse("invalid") \/ Refuse("failed")
    BY <1>1, <1>2, RefuseKeeps
  <1>3. CASE /\ CmdGetStorageInfo /\ UNCHANGED smsResult
             /\ smsHeap' = smsHeap \cup Holds("readText")
    <2>1. smsHeap' = Holds(call.op)
      BY <1>1, <1>3, CallsCounted
    <2>2. ReadCall'
      BY <1>1, CallsCounted DEF ReadCall, Read
    <2> HIDE DEF call
    <2> QED
      BY <1>1, <1>3, <2>1, <2>2, StorageInfoBegins
  <1> QED
    BY <1>2, <1>3 DEF ReadSMS_Text

LEMMA DeleteKeeps == ASSUME SmsInv, NEW index, NEW flag, DeleteSMS(index, flag) PROVE SmsInv'
  <1> DEFINE call == [op |-> "delete", index |-> index, flag |-> flag,
                      before |-> smsModem.slots]
  <1>1. Begin(call)
    BY DEF DeleteSMS
  <1>2. CASE Refuse("invalid")
    BY <1>1, <1>2, RefuseKeeps
  <1>3. CASE CmdGetStorageInfo /\ UNCHANGED <<smsHeap, smsResult>>
    <2>1. smsHeap' = Holds(call.op)
      BY <1>1, <1>3, CallsCounted DEF Holds
    <2>2. DeleteCall'
      BY <1>1, CallsCounted DEF DeleteCall
    <2> HIDE DEF call
    <2> QED
      BY <1>1, <1>3, <2>1, <2>2, StorageInfoBegins
  <1> QED
    BY <1>2, <1>3 DEF DeleteSMS

LEMMA SendPduKeeps == ASSUME SmsInv, NEW pdu, SendSMS_PDU(pdu) PROVE SmsInv'
  <1> DEFINE call == [op |-> "sendPdu", asked |-> pdu]
             data == [NoData EXCEPT !.data = <<pdu>>]
  <1>1. Begin(call)
    BY DEF SendSMS_PDU
  <1>2. CASE Refuse("invalid")
    BY <1>1, <1>2, RefuseKeeps
  <1>3. CASE CmdSendPDUMsg(pdu) /\ UNCHANGED smsHeap
    <2>1. SetPduMode(data) /\ UNCHANGED smsResult
      BY <1>3 DEF CmdSendPDUMsg
    <2>2. /\ smsHeap = {} /\ smsCall' = call /\ smsCalls' \in 0 .. MaxCalls
          /\ UNCHANGED <<smsSent, smsFlag, smsStray>>
      BY <1>1, CallsCounted
    <2>3. smsHeap' = Holds(smsCall'.op)
      BY <1>3, <2>2 DEF Holds
    <2>4. /\ data = [storage |-> data.storage, total |-> data.total, used |-> data.used,
                     status |-> data.status, data |-> data.data, mr |-> data.mr]
          /\ data.data = <<pdu>>
      BY DEF NoData
    <2>5. data.data # <<>> /\ SendCall(data.data[1])'
      BY <2>2, <2>4 DEF SendCall
    <2> HIDE DEF call, data
    <2> QED
      BY <2>1, <2>2, <2>3, <2>4, <2>5, SetPduModeKeeps
  <1> QED
    BY <1>2, <1>3 DEF SendSMS_PDU

\* A number in digits, written out again, is the number that was given.
LEMMA NumberComesBack ==
    ASSUME NEW s \in Seq(STRING), s # <<>>, ConvStringToPhoneNumber(s) # <<>>,
           ConvStringToPhoneNumber(s)[1].digits # <<>>
    PROVE  ConvPhoneNumberToString(ConvStringToPhoneNumber(s)[1]) = <<s>>
  <1> DEFINE plus == Head(s) = "+"
             digits == IF plus THEN Tail(s) ELSE s
             n == [type |-> IF plus THEN "international" ELSE "national",
                   digits |-> digits]
             written == IF n.type = "international" THEN <<"+">> \o n.digits ELSE n.digits
  <1>1. ConvStringToPhoneNumber(s) = <<n>> /\ Len(digits) <= MaxDigits
    <2>1. ConvStringToPhoneNumber(s) =
            IF Len(digits) > MaxDigits \/ ~(Range(digits) \subseteq DigitChar)
            THEN <<>> ELSE <<n>>
      BY DEF ConvStringToPhoneNumber
    <2>2. ~(Len(digits) > MaxDigits) /\ ConvStringToPhoneNumber(s) = <<n>>
      BY <2>1
    <2>3. Len(digits) \in Nat
      OBVIOUS
    <2> QED
      BY <2>2, <2>3, SmsBounds
  <1>2. written = s /\ Len(written) <= MaxDigits + 1
    <2>1. CASE plus
      <3>1. n.type = "international" /\ n.digits = Tail(s)
        BY <2>1
      <3>2. <<"+">> \o Tail(s) = s
        BY <2>1
      <3>3. Len(s) = Len(Tail(s)) + 1
        OBVIOUS
      <3>4. Len(Tail(s)) <= MaxDigits /\ Len(Tail(s)) \in Nat
        BY <1>1, <2>1
      <3>5. written = s
        BY <3>1, <3>2
      <3>6. Len(s) <= MaxDigits + 1
        BY <3>3, <3>4, SmsBounds
      <3> HIDE DEF written
      <3> QED
        BY <3>5, <3>6
    <2>2. CASE ~plus
      <3>1. n.type = "national" /\ n.digits = s
        BY <2>2
      <3>2. Len(s) <= MaxDigits /\ Len(s) \in Nat
        BY <1>1, <2>2
      <3> QED
        BY <3>1, <3>2, SmsBounds
    <2> QED
      BY <2>1, <2>2
  <1>3. n.type \in {"international", "national"}
    OBVIOUS
  <1>4. ConvStringToPhoneNumber(s)[1] = n
    BY <1>1
  <1>5. n.digits # <<>>
    BY <1>4
  <1>6. Len(written) + 1 <= MaxDigits + 2
    BY <1>2, SmsBounds
  <1>7. ConvPhoneNumberToString(n) =
          IF n.digits = <<>> THEN <<<<>>>>
          ELSE IF /\ n.type \in {"international", "national", "unknown", "alphanumeric"}
                  /\ Len(written) + 1 <= MaxDigits + 2
          THEN <<written>> ELSE <<>>
    BY DEF ConvPhoneNumberToString
  <1> HIDE DEF n, written
  <1>8. ConvPhoneNumberToString(n) = <<written>>
    BY <1>3, <1>5, <1>6, <1>7
  <1> QED
    BY <1>2, <1>4, <1>8

LEMMA SendTextKeeps ==
    ASSUME SmsInv, NEW number \in Numbers, number # <<>>, NEW text, NEW con,
           SendText([op |-> "sendText", number |-> number, text |-> text, con |-> con],
                    number, text, con)
    PROVE  SmsInv'
  <1> DEFINE call == [op |-> "sendText", number |-> number, text |-> text, con |-> con]
             da == ConvStringToPhoneNumber(number)
             pdu == EncodedPdu(da[1], text, con)
             data == [NoData EXCEPT !.data = <<pdu>>]
  <1>1. Begin(call)
    BY DEF SendText
  <1>2. /\ smsStep = "idle" /\ smsHeap = {} /\ smsCall' = call
        /\ smsCalls' \in 0 .. MaxCalls
        /\ UNCHANGED <<smsSent, smsFlag, smsStray>>
    BY <1>1, CallsCounted
  <1>3. CASE /\ \E f \in TextFailures : smsHeap' = (smsHeap \cup f.holds) \ f.frees
             /\ smsResult' = [rc |-> "failed", out |-> <<>>]
             /\ UNCHANGED <<smsStep, smsLines, smsModem, smsData>>
    <2>1. \A f \in TextFailures : f.holds \subseteq f.frees
      BY DEF TextFailures
    <2>2. smsHeap' = {}
      BY <1>2, <1>3, <2>1
    <2> QED
      BY <1>2, <1>3, <2>2, SmsRefusedKeeps
  <1>4. CASE /\ UNCHANGED smsHeap /\ smsResult' = [rc |-> "invalid", out |-> <<>>]
             /\ UNCHANGED <<smsStep, smsLines, smsModem, smsData>>
    BY <1>2, <1>4, SmsRefusedKeeps
  <1>5. CASE /\ da # <<>> /\ IsSubmitWithNumber(pdu)
             /\ smsHeap' = smsHeap \cup Holds("sendText")
             /\ CmdSendPDUMsg(pdu)
    <2>1. SetPduMode(data) /\ UNCHANGED smsResult
      BY <1>5 DEF CmdSendPDUMsg
    <2>2. smsHeap' = Holds(smsCall'.op)
      BY <1>2, <1>5
    <2>3. /\ data = [storage |-> data.storage, total |-> data.total, used |-> data.used,
                     status |-> data.status, data |-> data.data, mr |-> data.mr]
          /\ data.data = <<pdu>>
      BY DEF NoData
    <2>4. ConvPhoneNumberToString(pdu.number) = <<number>>
      <3>1. number \in Seq(STRING)
        BY SmsAssumption
      <3>2. pdu.number = da[1]
        BY DEF EncodedPdu
      <3>3. da[1].digits # <<>>
        BY <1>5, <3>2 DEF IsSubmitWithNumber
      <3> QED
        BY <1>5, <3>1, <3>2, <3>3, NumberComesBack
    <2>5. pdu.con = con /\ pdu.text = text
      BY DEF EncodedPdu
    <2>6. data.data # <<>> /\ SendCall(data.data[1])'
      <3> HIDE DEF pdu
      <3> QED
        BY <1>2, <2>3, <2>4, <2>5 DEF SendCall
    <2> HIDE DEF call, data, pdu
    <2> QED
      BY <1>2, <2>1, <2>2, <2>3, <2>6, SetPduModeKeeps
  <1> QED
    BY <1>3, <1>4, <1>5 DEF SendText

LEMMA SendTextCallsKeep ==
    ASSUME SmsInv, NEW number \in Numbers, NEW supported, NEW text,
           \/ SendSMS_Text(number, supported, text)
           \/ \E con \in ConParams : SendSMS_Text_Ext(number, supported, text, con)
    PROVE  SmsInv'
  <1>1. ASSUME Begin([op |-> "sendText"]), Refuse("invalid") PROVE SmsInv'
    BY <1>1, RefuseKeeps
  <1>2. CASE SendSMS_Text(number, supported, text)
    BY <1>1, <1>2, SendTextKeeps DEF SendSMS_Text
  <1>3. ASSUME NEW con \in ConParams, SendSMS_Text_Ext(number, supported, text, con)
        PROVE  SmsInv'
    <2> DEFINE d == Defaulted(con)
    <2>1. \/ Begin([op |-> "sendText"]) /\ Refuse("invalid")
          \/ /\ number # <<>>
             /\ SendText([op |-> "sendText", number |-> number, text |-> text, con |-> d],
                         number, text, d)
      BY <1>3 DEF SendSMS_Text_Ext
    <2> HIDE DEF d
    <2> QED
      BY <1>1, <2>1, SendTextKeeps
  <1> QED
    BY <1>2, <1>3

-----------------------------------------------------------------------------
(* The answer, line by line.                                               *)

LEMMA TailsOfLines ==
    \A a, b, c :
        /\ Head(<<a>>) = a /\ Tail(<<a>>) = <<>>
        /\ Head(<<a, b>>) = a /\ Tail(<<a, b>>) = <<b>>
        /\ Head(<<a, b, c>>) = a /\ Tail(<<a, b, c>>) = <<b, c>>
  OBVIOUS

LEMMA LineFields == \A is, has : Line(is, has).is = is /\ Line(is, has).has = has
  BY DEF Line

LEMMA SentGrows ==
    ASSUME NEW s, s \in Seq(Range(s)), NEW e
    PROVE  /\ Append(s, e) \in Seq(Range(Append(s, e)))
           /\ Append(s, e) # <<>> /\ Last(Append(s, e)) = e
  <1> DEFINE S == Range(s) \cup {e}
             t == Append(s, e)
  <1>1. s \in Seq(S) /\ e \in S
    OBVIOUS
  <1>2. /\ t \in Seq(S) /\ Len(t) = Len(s) + 1 /\ Len(t) \in Nat
        /\ t[Len(t)] = e
    BY <1>1
  <1>3. \A i \in 1 .. Len(t) : t[i] \in Range(t)
    BY <1>2 DEF Range
  <1>4. t \in Seq(Range(t))
    <2> HIDE DEF t
    <2>1. t = [i \in 1 .. Len(t) |-> t[i]]
      BY <1>2
    <2>2. Range(t) = {t[i] : i \in 1 .. Len(t)}
      BY <1>2, <2>1 DEF Range
    <2>3. t \in [1 .. Len(t) -> Range(t)]
      BY <2>1, <2>2
    <2> QED
      BY <1>2, <2>3
  <1>5. t # <<>>
    BY <1>2
  <1> QED
    BY <1>2, <1>4, <1>5 DEF Last

\* What every handler leaves alone, but for the next reference.
LEMMA HandledFrame ==
    ASSUME SmsInv, smsStep # "idle",
           UNCHANGED <<smsCall, smsStep, smsStray, smsHeap, smsResult, smsCalls>>,
           smsModem' = smsModem \/ \E n : smsModem' = [smsModem EXCEPT !.mr = n],
           smsFlag' \in BOOLEAN, smsSent' \in Seq(Range(smsSent')), SmsDataOK',
           smsStep = "CPMS" => StorageInfoInv',
           smsStep = "CPMS=" => smsCall.op = "setStorage",
           smsStep = "CMGF" => PduModeInv',
           smsStep = "CMGR" => ReadInv',
           smsStep = "CMGS" => SendInv',
           smsStep = "CMGD" => DeleteInv'
    PROVE  SmsInv'
  <1>1. SmsStorageOK' /\ smsModem'.storage = smsModem.storage
        /\ smsModem'.format = smsModem.format
    BY DEF SmsInv, SmsStorageOK
  <1>2. SmsTypeOK'
    BY <1>1 DEF SmsInv, SmsTypeOK
  <1> QED
    BY <1>1, <1>2 DEF SmsInv

LEMMA StorageLineKeeps ==
    ASSUME SmsInv, smsStep = "CPMS", smsLines # <<>>, NEW arrived, arrived = Head(smsLines),
           HdlrGetStorageInfo(arrived),
           UNCHANGED <<smsCall, smsStep, smsStray, smsHeap, smsResult, smsCalls>>
    PROVE  SmsInv'
  <1>1. StorageInfoInv /\ SmsDataOK /\ smsFlag \in BOOLEAN
    BY DEF SmsInv, SmsTypeOK
  <1>2. arrived.is = "cpms" /\ smsLines' = Tail(smsLines) /\ UNCHANGED <<smsFlag, smsSent, smsModem>>
        /\ smsData' = [smsData EXCEPT !.storage = arrived.has.storage,
                                      !.used = arrived.has.used, !.total = arrived.has.total]
    BY DEF HdlrGetStorageInfo
  <1>3. smsLines = CpmsAnswer(smsModem)
    BY <1>1, <1>2, TailsOfLines, LineFields DEF StorageInfoInv, Final
  <1>4. smsLines' = <<Final("OK")>> /\ arrived.has.total = SmsSlots
    BY <1>2, <1>3, TailsOfLines, LineFields DEF CpmsAnswer
  <1>5. SmsDataOK' /\ smsData'.total = SmsSlots
    BY <1>1, <1>2, <1>4 DEF SmsDataOK
  <1>6. StorageInfoInv'
    BY <1>1, <1>4, <1>5 DEF StorageInfoInv, ReadCall, DeleteCall
  <1> QED
    BY <1>1, <1>2, <1>5, <1>6, HandledFrame DEF SmsInv

LEMMA SetStorageLineKeeps ==
    ASSUME SmsInv, smsStep = "CPMS=", NEW arrived, HdlrSetStorage(arrived),
           UNCHANGED <<smsCall, smsStep, smsStray, smsHeap, smsResult, smsCalls>>
    PROVE  SmsInv'
  <1>1. SmsDataOK' /\ UNCHANGED <<smsFlag, smsSent, smsModem>> /\ smsFlag \in BOOLEAN
    BY DEF HdlrSetStorage, SmsInv, SmsDataOK, SmsTypeOK
  <1> QED
    BY <1>1, HandledFrame DEF SmsInv

LEMMA SmsReadLineKeeps ==
    ASSUME SmsInv, smsStep = "CMGR", smsLines # <<>>, NEW arrived, arrived = Head(smsLines),
           HdlrReadPDUMsg(arrived),
           UNCHANGED <<smsCall, smsStep, smsStray, smsHeap, smsResult, smsCalls>>
    PROVE  SmsInv'
  <1> DEFINE had == smsCall.had
  <1>1. ReadInv /\ SmsDataOK /\ smsFlag \in BOOLEAN /\ smsStray \in BOOLEAN
    BY DEF SmsInv, SmsTypeOK
  <1>2. smsLines' = Tail(smsLines) /\ UNCHANGED <<smsSent, smsModem>>
    BY DEF HdlrReadPDUMsg
  <1>3. CASE smsFlag
    <2>1. smsData' = [smsData EXCEPT !.data = <<arrived>>] /\ smsFlag' = FALSE
      BY <1>3 DEF HdlrReadPDUMsg
    <2>2. SmsDataOK' /\ smsData'.data = <<arrived>> /\ smsData'.status = smsData.status
      BY <1>1, <2>1 DEF SmsDataOK
    <2>3. CASE smsStray
      <3>1. StrayRead(had)
        BY <1>1, <2>3 DEF ReadInv
      <3>2. smsLines \in {<<Final("ERROR")>>, <<Final("OK")>>,
                          <<Line("cmgr", had.status), Line("pdu", had), Final("OK")>>}
        BY <1>3, <3>1 DEF StrayRead
      <3>3. /\ arrived.is # "pdu"
            /\ smsLines' \in {<<>>, <<Line("pdu", had), Final("OK")>>, <<Final("OK")>>}
        <4>1. CASE smsLines = <<Final("ERROR")>> \/ smsLines = <<Final("OK")>>
          <5>1. smsLines' = <<>> /\ (arrived = Final("ERROR") \/ arrived = Final("OK"))
            BY <1>2, <4>1, TailsOfLines
          <5> QED
            BY <5>1, LineFields DEF Final
        <4>2. CASE smsLines = <<Line("cmgr", had.status), Line("pdu", had), Final("OK")>>
          BY <1>2, <4>2, TailsOfLines, LineFields
        <4> QED
          BY <3>2, <4>1, <4>2
      <3>4. StrayRead(had)'
        BY <2>1, <2>2, <3>3 DEF StrayRead
      <3>5. ReadInv'
        BY <1>1, <2>3, <3>4 DEF ReadInv, ReadCall
      <3> QED
        BY <1>2, <2>1, <2>2, <3>5, HandledFrame DEF SmsInv
    <2>4. CASE ~smsStray
      <3>1. CleanRead(had)
        BY <1>1, <2>4 DEF ReadInv
      <3>2. /\ smsLines = <<Line("pdu", had), Final("OK")>>
            /\ had # Absent /\ smsData = [NoData EXCEPT !.status = had.status]
        BY <1>3, <3>1 DEF CleanRead
      <3>3. arrived = Line("pdu", had) /\ smsLines' = <<Final("OK")>>
            /\ smsData.status = had.status
        BY <1>2, <3>2, TailsOfLines DEF NoData
      <3>4. CleanRead(had)'
        BY <2>1, <2>2, <3>2, <3>3 DEF CleanRead
      <3>5. ReadInv'
        BY <1>1, <2>4, <3>4 DEF ReadInv, ReadCall
      <3> QED
        BY <1>2, <2>1, <2>2, <3>5, HandledFrame DEF SmsInv
    <2> QED
      BY <1>1, <2>3, <2>4
  <1>4. CASE ~smsFlag
    <2>1. arrived.is = "cmgr" /\ smsData' = [smsData EXCEPT !.status = arrived.has] /\ smsFlag' = TRUE
      BY <1>4 DEF HdlrReadPDUMsg
    <2>2. SmsDataOK'
      BY <1>1, <2>1 DEF SmsDataOK
    <2>3. CASE smsStray
      <3>1. smsLines \in {<<>>, <<Line("pdu", had), Final("OK")>>, <<Final("OK")>>}
        BY <1>1, <1>4, <2>3 DEF ReadInv, StrayRead
      <3> QED
        BY <2>1, <3>1, TailsOfLines, LineFields DEF Final
    <2>4. CASE ~smsStray
      <3>1. CleanRead(had)
        BY <1>1, <2>4 DEF ReadInv
      <3>2. /\ smsLines = <<Line("cmgr", had.status), Line("pdu", had), Final("OK")>>
            /\ had # Absent /\ smsData = NoData
        BY <1>4, <2>1, <3>1, TailsOfLines, LineFields DEF CleanRead, Final
      <3>3. arrived.has = had.status /\ smsLines' = <<Line("pdu", had), Final("OK")>>
        BY <1>2, <3>2, TailsOfLines, LineFields
      <3>4. CleanRead(had)'
        BY <2>1, <3>2, <3>3 DEF CleanRead
      <3>5. ReadInv'
        BY <1>1, <2>4, <3>4 DEF ReadInv, ReadCall
      <3> QED
        BY <1>2, <2>1, <2>2, <3>5, HandledFrame DEF SmsInv
    <2> QED
      BY <1>1, <2>3, <2>4
  <1> QED
    BY <1>1, <1>3, <1>4

LEMMA SendLineKeeps ==
    ASSUME SmsInv, smsStep = "CMGS", smsLines # <<>>, NEW arrived, arrived = Head(smsLines),
           HdlrSendPDUMsg(arrived),
           UNCHANGED <<smsCall, smsStep, smsStray, smsHeap, smsResult, smsCalls>>
    PROVE  SmsInv'
  <1> DEFINE pdu == smsData.data[1]
  <1>1. SendInv /\ SmsDataOK /\ smsFlag \in BOOLEAN /\ smsSent \in Seq(Range(smsSent))
        /\ smsFlag' = smsFlag
    BY DEF SmsInv, SmsTypeOK, HdlrSendPDUMsg
  <1>2. SendCall(pdu) /\ smsData.data # <<>>
    BY <1>1 DEF SendInv
  <1>3. ASSUME arrived.is = "prompt",
               smsSent' = Append(smsSent, [pdu |-> pdu, mr |-> smsModem.mr]),
               smsModem' = [smsModem EXCEPT !.mr = @ + 1],
               smsLines' = <<Line("cmgs", smsModem.mr), Final("OK")>>, smsData' = smsData
        PROVE  SmsInv'
    <2> DEFINE e == [pdu |-> pdu, mr |-> smsModem.mr]
    <2>1. smsSent' \in Seq(Range(smsSent')) /\ smsSent' # <<>> /\ Last(smsSent') = e
      BY <1>1, <1>3, SentGrows
    <2>2. e.pdu = pdu /\ e.mr = smsModem.mr /\ e = [pdu |-> pdu, mr |-> e.mr]
      OBVIOUS
    <2>3. SmsDataOK' /\ \E n : smsModem' = [smsModem EXCEPT !.mr = n]
      BY <1>1, <1>3 DEF SmsDataOK
    <2> HIDE DEF e
    <2>4. SendInv'
      BY <1>2, <1>3, <2>1, <2>2 DEF SendInv, SendCall
    <2> QED
      BY <1>1, <2>1, <2>3, <2>4, HandledFrame
  <1>4. ASSUME smsLines' = <<Final("ERROR")>>, UNCHANGED <<smsSent, smsModem, smsData>>
        PROVE  SmsInv'
    <2>1. SendInv' /\ SmsDataOK'
      BY <1>1, <1>2, <1>4 DEF SendInv, SendCall, SmsDataOK
    <2> QED
      BY <1>1, <1>4, <2>1, HandledFrame
  <1>5. ASSUME arrived.is = "cmgs", smsData' = [smsData EXCEPT !.mr = arrived.has],
               smsLines' = Tail(smsLines), UNCHANGED <<smsSent, smsModem>>
        PROVE  SmsInv'
    <2>1. /\ smsSent # <<>> /\ Last(smsSent).pdu = pdu
          /\ Last(smsSent) = [pdu |-> pdu, mr |-> Last(smsSent).mr]
          /\ smsLines = <<Line("cmgs", Last(smsSent).mr), Final("OK")>>
      BY <1>1, <1>5, TailsOfLines, LineFields DEF SendInv, Final
    <2>2. arrived.has = Last(smsSent).mr /\ smsLines' = <<Final("OK")>>
      BY <1>5, <2>1, TailsOfLines, LineFields
    <2>3. SmsDataOK' /\ smsData'.mr = arrived.has /\ smsData'.data = smsData.data
      BY <1>1, <1>5 DEF SmsDataOK
    <2>4. SendInv'
      BY <1>2, <1>5, <2>1, <2>2, <2>3 DEF SendInv, SendCall
    <2> QED
      BY <1>1, <1>5, <2>3, <2>4, HandledFrame
  <1> QED
    BY <1>3, <1>4, <1>5 DEF HdlrSendPDUMsg

\* Only a setting of the storage, and a read that began astray, pass over lines.
LEMMA PassedLineKeeps ==
    ASSUME SmsInv, smsStep # "idle", smsLines # <<>>, NEW arrived, arrived = Head(smsLines),
           ~Takes(smsStep, arrived), arrived.is \notin {"OK", "ERROR"}, smsLines' = Tail(smsLines),
           UNCHANGED <<smsData, smsFlag, smsSent, smsModem>>,
           UNCHANGED <<smsCall, smsStep, smsStray, smsHeap, smsResult, smsCalls>>
    PROVE  SmsInv'
  <1>1. SmsDataOK' /\ smsFlag' \in BOOLEAN /\ smsSent' \in Seq(Range(smsSent'))
        /\ smsStray \in BOOLEAN
    BY DEF SmsInv, SmsTypeOK, SmsDataOK
  <1>2. smsStep \notin {"CMGF", "CMGD"}
    BY TailsOfLines, LineFields DEF SmsInv, PduModeInv, DeleteInv, Final
  <1>3. smsStep # "CPMS"
    <2> SUFFICES ASSUME smsStep = "CPMS" PROVE FALSE
      OBVIOUS
    <2>1. arrived.is # "cpms"
      BY DEF Takes
    <2> QED
      BY <2>1, TailsOfLines, LineFields DEF SmsInv, StorageInfoInv, CpmsAnswer, Final
  <1>4. smsStep # "CMGS"
    <2> SUFFICES ASSUME smsStep = "CMGS" PROVE FALSE
      OBVIOUS
    <2>1. arrived.is \notin {"prompt", "cmgs"}
      BY DEF Takes
    <2> QED
      BY <2>1, TailsOfLines, LineFields DEF SmsInv, SendInv, Final
  <1>5. CASE smsStep = "CMGR"
    <2> DEFINE had == smsCall.had
    <2>1. ~smsFlag /\ arrived.is # "cmgr" /\ ReadInv
      BY <1>5 DEF Takes, SmsInv
    <2>2. smsStray
      <3> SUFFICES ASSUME ~smsStray PROVE FALSE
        OBVIOUS
      <3>1. CleanRead(had)
        BY <2>1 DEF ReadInv
      <3> QED
        <4>1. smsLines \in {<<Final("ERROR")>>, <<Final("OK")>>,
                            <<Line("cmgr", had.status), Line("pdu", had), Final("OK")>>}
          BY <2>1, <3>1 DEF CleanRead
        <4>2. smsLines = <<Line("cmgr", had.status), Line("pdu", had), Final("OK")>>
          BY <4>1, TailsOfLines, LineFields DEF Final
        <4> QED
          BY <2>1, <4>2, TailsOfLines, LineFields
    <2>3. /\ smsData.data # <<>> /\ smsData.data[1].is # "pdu"
          /\ smsLines \in {<<>>, <<Line("pdu", had), Final("OK")>>, <<Final("OK")>>}
      BY <2>1, <2>2 DEF ReadInv, StrayRead
    <2>4. smsLines' = <<Final("OK")>>
      <3>1. smsLines # <<Final("OK")>>
        BY TailsOfLines, LineFields DEF Final
      <3>2. smsLines = <<Line("pdu", had), Final("OK")>>
        BY <2>3, <3>1
      <3> QED
        BY <3>2, TailsOfLines
    <2>5. StrayRead(had)'
      BY <2>1, <2>3, <2>4 DEF StrayRead
    <2>6. ReadInv'
      BY <2>1, <2>2, <2>5 DEF ReadInv, ReadCall
    <2> QED
      BY <1>1, <1>5, <2>6, HandledFrame
  <1>6. CASE smsStep = "CPMS="
    BY <1>1, <1>6, HandledFrame DEF SmsInv
  <1> QED
    BY <1>2, <1>3, <1>4, <1>5, <1>6 DEF SmsInv, SmsTypeOK

LEMMA HandlerKeeps == ASSUME SmsInv, SMS_CMD_GeneralHandler PROVE SmsInv'
  BY StorageLineKeeps, SetStorageLineKeeps, SmsReadLineKeeps, SendLineKeeps,
     PassedLineKeeps DEF SMS_CMD_GeneralHandler

-----------------------------------------------------------------------------
(* The end of a call, and the commands in between.                         *)

LEMMA CallEnds ==
    ASSUME SmsInv, smsStep # "idle", NEW rc, NEW out, NEW freed, Return(rc, out, freed),
           Holds(smsCall.op) \subseteq freed,
           rc \in {"success", "failed", "invalid", "timeout"},
           UNCHANGED <<smsModem, smsData, smsCall, smsSent, smsFlag, smsStray, smsCalls>>,
           rc = "success" => ReadsAreTrue' /\ SendsAreTrue' /\
              (smsCall.op = "delete" =>
                 \A i \in DOMAIN smsModem.slots :
                    smsModem.slots[i] =
                       IF Erases(smsCall.flag, smsCall.index, i, smsCall.before[i].status)
                       THEN Absent ELSE smsCall.before[i])
    PROVE  SmsInv'
  <1>1. /\ smsStep' = "idle" /\ smsHeap' = {} /\ smsResult' = [rc |-> rc, out |-> out]
    BY DEF Return, SmsInv
  <1>2. SmsTypeOK'
    BY <1>1 DEF SmsInv, SmsTypeOK
  <1>3. SmsCallsAreTrue'
    <2>1. CASE rc = "success"
      BY <1>1, <2>1 DEF SmsCallsAreTrue, Succeeded
    <2>2. CASE rc # "success"
      BY <1>1, <2>2 DEF SmsCallsAreTrue, ReadsAreTrue, SendsAreTrue, Succeeded
    <2> QED
      BY <2>1, <2>2
  <1> QED
    BY <1>1, <1>2, <1>3 DEF SmsInv, SmsStorageOK, SmsDataOK

LEMMA CommandFailsKeeps ==
    ASSUME SmsInv, smsStep # "idle", NEW rc \in {"failed", "timeout"}, Failed(rc),
           UNCHANGED <<smsSent, smsFlag, smsCalls>>
    PROVE  SmsInv'
  <1> DEFINE r == IF smsStep = "CPMS" /\ smsCall.op = "delete" THEN "invalid" ELSE rc
  <1>1. Return(r, <<>>, Holds(smsCall.op))
        /\ UNCHANGED <<smsModem, smsData, smsCall, smsStray>>
    BY DEF Failed
  <1>2. r \in {"failed", "invalid", "timeout"}
    OBVIOUS
  <1> HIDE DEF r
  <1> QED
    BY <1>1, <1>2, CallEnds

LEMMA AfterStorageInfoKeeps == ASSUME SmsInv, AfterStorageInfo PROVE SmsInv'
  <1> DEFINE known == ConvIdxToCoreIdx(smsData.storage, smsCall.index, smsData.total)
  <1>1. /\ smsStep = "CPMS" /\ UNCHANGED <<smsSent, smsFlag, smsCalls, smsCall, smsStray>>
        /\ StorageInfoInv /\ smsCalls' \in 0 .. MaxCalls /\ smsHeap = Holds(smsCall.op)
    BY DEF AfterStorageInfo, Ended, SmsInv, SmsTypeOK
  <1>2. CASE /\ smsCall.op = "getStorage" /\ Return("success", smsData, {})
             /\ UNCHANGED <<smsModem, smsData>>
    <2>1. ReadsAreTrue' /\ SendsAreTrue' /\ Holds(smsCall.op) \subseteq {}
      BY <1>1, <1>2 DEF ReadsAreTrue, SendsAreTrue, Succeeded, Holds
    <2> QED
      BY <1>1, <1>2, <2>1, CallEnds
  <1>3. ASSUME NoData = [storage |-> NoData.storage, total |-> NoData.total,
                         used |-> NoData.used, status |-> NoData.status,
                         data |-> NoData.data, mr |-> NoData.mr],
               SetPduMode(NoData), UNCHANGED <<smsHeap, smsResult>>,
               \/ ReadCall /\ smsCall.index \in 1 .. SmsSlots
               \/ DeleteCall
        PROVE  SmsInv'
    BY <1>1, <1>3, SetPduModeKeeps DEF ReadCall, DeleteCall
  <1>4. NoData = [storage |-> NoData.storage, total |-> NoData.total,
                  used |-> NoData.used, status |-> NoData.status,
                  data |-> NoData.data, mr |-> NoData.mr]
    BY DEF NoData
  <1>5. CASE /\ smsCall.op \in {"readPdu", "readText"} /\ known # 0
             /\ SetPduMode(NoData) /\ UNCHANGED <<smsHeap, smsResult>>
    <2>1. ReadCall
      BY <1>1, <1>5 DEF StorageInfoInv, DeleteCall
    <2>2. smsCall.index \in 1 .. smsData.total /\ smsData.total \in {0, SmsSlots}
      BY <1>1, <1>5 DEF ConvIdxToCoreIdx, StorageInfoInv
    <2>3. smsCall.index \in 1 .. SmsSlots
      BY <2>2, SmsBounds
    <2> QED
      BY <1>3, <1>4, <1>5, <2>1, <2>3
  <1>6. CASE /\ smsCall.op = "delete" /\ SetPduMode(NoData)
             /\ UNCHANGED <<smsHeap, smsResult>>
    <2>1. DeleteCall
      BY <1>1, <1>6 DEF StorageInfoInv, ReadCall, Read
    <2> QED
      BY <1>3, <1>4, <1>6, <2>1
  <1>7. CASE Return("invalid", <<>>, Holds(smsCall.op)) /\ UNCHANGED <<smsModem, smsData>>
    BY <1>1, <1>7, CallEnds
  <1> QED
    BY <1>2, <1>5, <1>6, <1>7 DEF AfterStorageInfo

LEMMA CmgrKeeps ==
    ASSUME SmsInv, smsStep = "CMGF", CommandCmgr,
           UNCHANGED <<smsHeap, smsResult, smsSent, smsFlag, smsCalls>>
    PROVE  SmsInv'
  <1> DEFINE i == smsCall.index
             had == smsModem.slots[i]
             modem == AfterCmgr(smsModem, i)
  <1>1. /\ smsCall.op \in Read /\ smsCall' = [smsCall EXCEPT !.had = had]
        /\ smsStray' = smsFlag
        /\ Command("CMGR", NoData, CmgrAnswer(smsModem, i), modem)
    BY DEF CommandCmgr, Read
  <1>2. ReadCall /\ i \in 1 .. SmsSlots
    BY <1>1 DEF SmsInv, PduModeInv, DeleteCall, SendCall, Read
  <1>3. had = Absent \/ IsMessage(had)
    BY <1>2 DEF SmsInv, SmsStorageOK
  <1>4. ReadCall' /\ smsCall'.had = had /\ smsCall'.op = smsCall.op
    BY <1>1, <1>2 DEF ReadCall
  <1>5. /\ modem = [storage |-> modem.storage, format |-> modem.format,
                    slots |-> modem.slots, mr |-> modem.mr]
        /\ modem.storage \in {"SM", "ME"} /\ modem.format \in 0 .. 1
        /\ modem.slots = [k \in 1 .. SmsSlots |-> modem.slots[k]]
        /\ \A k \in 1 .. SmsSlots : modem.slots[k] = Absent \/ IsMessage(modem.slots[k])
    <2>1. CASE had.status # 0
      BY <2>1 DEF AfterCmgr, SmsInv, SmsStorageOK, SmsTypeOK
    <2>2. CASE had.status = 0
      <3> DEFINE read == [had EXCEPT !.status = 1]
      <3>1. IsMessage(read)
        <4>1. IsMessage(had)
          BY <1>3, <2>2 DEF Absent
        <4> QED
          BY <4>1 DEF IsMessage
      <3>2. modem = [smsModem EXCEPT !.slots = [@ EXCEPT ![i] = read]]
        BY <2>2 DEF AfterCmgr
      <3> HIDE DEF read, modem
      <3>3. /\ modem = [storage |-> smsModem.storage, format |-> smsModem.format,
                        slots |-> [smsModem.slots EXCEPT ![i] = read], mr |-> smsModem.mr]
        BY <3>2 DEF SmsInv, SmsStorageOK
      <3>4. modem.slots = [k \in 1 .. SmsSlots |-> IF k = i THEN read
                                                   ELSE smsModem.slots[k]]
        BY <1>2, <3>3 DEF SmsInv, SmsStorageOK
      <3> QED
        BY <3>1, <3>3, <3>4 DEF SmsInv, SmsStorageOK, SmsTypeOK
    <2> QED
      BY <2>1, <2>2
  <1>6. smsHeap' = Holds(smsCall'.op) /\ smsStray' \in BOOLEAN
    BY <1>1, <1>4 DEF SmsInv, SmsTypeOK
  <1>7. /\ smsStep' = "CMGR" /\ smsData' = NoData
        /\ smsLines' \in {CmgrAnswer(smsModem, i), <<Final("ERROR")>>}
    BY <1>1 DEF Command
  <1>8. ReadInv'
    <2>1. \/ smsLines' = <<Final("ERROR")>>
          \/ had = Absent /\ smsLines' = <<Final("OK")>>
          \/ had # Absent /\ smsLines' = <<Line("cmgr", had.status), Line("pdu", had),
                                          Final("OK")>>
      BY <1>7 DEF CmgrAnswer
    <2>2. CASE smsFlag
      BY <1>1, <1>3, <1>4, <2>1, <2>2 DEF ReadInv, StrayRead
    <2>3. CASE ~smsFlag
      BY <1>1, <1>3, <1>4, <1>7, <2>1, <2>3 DEF ReadInv, CleanRead
    <2> QED
      BY <2>2, <2>3
  <1>9. /\ SmsTypeOK' /\ SmsStorageOK' /\ SmsDataOK'
        /\ smsSent' \in Seq(Range(smsSent'))
        /\ smsStep' # "idle" /\ smsHeap' = Holds(smsCall'.op)
    <2>1. smsCalls' \in 0 .. MaxCalls
      BY DEF SmsInv, SmsTypeOK
    <2> HIDE DEF modem, had, i
    <2> QED
      BY <1>1, <1>5, <1>6, <2>1, CommandKeeps DEF NoData
  <1> QED
    BY <1>7, <1>8, <1>9 DEF SmsInv

LEMMA CmgsKeeps ==
    ASSUME SmsInv, smsStep = "CMGF", CommandCmgs,
           UNCHANGED <<smsHeap, smsResult, smsSent, smsFlag, smsCalls>>
    PROVE  SmsInv'
  <1> DEFINE prompt == <<Line("prompt", TpduLen(smsData.data[1]))>>
  <1>1. /\ smsCall.op \in Sending /\ UNCHANGED <<smsCall, smsStray>>
        /\ Command("CMGS", smsData, prompt, smsModem)
    BY DEF CommandCmgs, Sending
  <1>2. smsData.data # <<>> /\ SendCall(smsData.data[1])
    BY <1>1 DEF SmsInv, PduModeInv, ReadCall, DeleteCall, Read, Sending
  <1>3. /\ smsStep' = "CMGS" /\ smsData' = smsData
        /\ smsLines' \in {prompt, <<Final("ERROR")>>}
    BY <1>1 DEF Command
  <1>4. SendInv'
    BY <1>1, <1>2, <1>3 DEF SendInv, SendCall
  <1>5. smsCalls' \in 0 .. MaxCalls /\ smsHeap' = Holds(smsCall'.op) /\ smsStray' \in BOOLEAN
    BY <1>1 DEF SmsInv, SmsTypeOK
  <1>6. /\ SmsTypeOK' /\ SmsStorageOK' /\ SmsDataOK'
        /\ smsSent' \in Seq(Range(smsSent'))
        /\ smsStep' # "idle" /\ smsHeap' = Holds(smsCall'.op)
    BY <1>1, <1>5, CommandKeeps DEF SmsInv, SmsTypeOK, SmsStorageOK, SmsDataOK
  <1> QED
    BY <1>3, <1>4, <1>6 DEF SmsInv

LEMMA CmgdKeeps ==
    ASSUME SmsInv, smsStep = "CMGF", CommandCmgd,
           UNCHANGED <<smsHeap, smsResult, smsSent, smsFlag, smsCalls>>
    PROVE  SmsInv'
  <1> DEFINE modem == AfterCmgd(smsModem, smsCall.index, smsCall.flag)
             Left(i) == IF Erases(smsCall.flag, smsCall.index, i, smsModem.slots[i].status)
                        THEN Absent ELSE smsModem.slots[i]
  <1>1. /\ smsCall.op = "delete" /\ smsCall' = [smsCall EXCEPT !.before = smsModem.slots]
        /\ smsStray' = smsStray
        /\ Command("CMGD", NoData, <<Final("OK")>>, modem)
    BY DEF CommandCmgd
  <1>2. DeleteCall
    BY <1>1 DEF SmsInv, PduModeInv, ReadCall, SendCall, Read
  <1>3. /\ DeleteCall' /\ smsCall'.before = smsModem.slots
        /\ smsCall'.flag = smsCall.flag /\ smsCall'.index = smsCall.index
    BY <1>1, <1>2 DEF DeleteCall
  <1>4. modem = [storage |-> smsModem.storage, format |-> smsModem.format,
                 slots |-> [i \in 1 .. SmsSlots |-> Left(i)], mr |-> smsModem.mr]
    <2>1. DOMAIN smsModem.slots = 1 .. SmsSlots
      BY DEF SmsInv, SmsStorageOK
    <2>2. modem = [smsModem EXCEPT !.slots = [i \in 1 .. SmsSlots |-> Left(i)]]
      BY <2>1 DEF AfterCmgd
    <2> HIDE DEF modem, Left
    <2> QED
      BY <2>2 DEF SmsInv, SmsStorageOK
  <1>5. \A i \in 1 .. SmsSlots : Left(i) = Absent \/ IsMessage(Left(i))
    BY DEF SmsInv, SmsStorageOK
  <1>6. /\ smsStep' = "CMGD" /\ smsData' = NoData
        /\ smsLines' \in {<<Final("OK")>>, <<Final("ERROR")>>}
        /\ smsLines' = <<Final("OK")>> => smsModem' = modem
    <2>1. <<Final("OK")>> # <<Final("ERROR")>>
      BY DEF Final, Line
    <2> QED
      BY <1>1, <2>1 DEF Command
  <1>7. DeleteInv'
    <2>1. ASSUME smsLines' = <<Final("OK")>>, NEW i \in 1 .. SmsSlots
          PROVE  smsModem'.slots[i] = Left(i)
      <3> HIDE DEF Left
      <3>1. smsModem'.slots = [k \in 1 .. SmsSlots |-> Left(k)]
        BY <1>4, <1>6, <2>1
      <3> QED
        BY <3>1
    <2> QED
      BY <1>3, <1>6, <2>1 DEF DeleteInv
  <1>8. smsCalls' \in 0 .. MaxCalls /\ smsHeap' = Holds(smsCall'.op) /\ smsStray' \in BOOLEAN
    BY <1>1, <1>3 DEF SmsInv, SmsTypeOK, DeleteCall
  <1> HIDE DEF Left
  <1>9. /\ modem = [storage |-> modem.storage, format |-> modem.format,
                    slots |-> modem.slots, mr |-> modem.mr]
        /\ modem.storage \in {"SM", "ME"} /\ modem.format \in 0 .. 1
        /\ modem.slots = [k \in 1 .. SmsSlots |-> modem.slots[k]]
        /\ \A k \in 1 .. SmsSlots : modem.slots[k] = Absent \/ IsMessage(modem.slots[k])
    BY <1>4, <1>5 DEF SmsInv, SmsTypeOK
  <1> HIDE DEF modem
  <1>10. /\ SmsTypeOK' /\ SmsStorageOK' /\ SmsDataOK'
         /\ smsSent' \in Seq(Range(smsSent'))
         /\ smsStep' # "idle" /\ smsHeap' = Holds(smsCall'.op)
    BY <1>1, <1>8, <1>9, CommandKeeps DEF NoData
  <1> QED
    BY <1>6, <1>7, <1>10 DEF SmsInv

LEMMA AfterPduModeKeeps == ASSUME SmsInv, AfterPduMode PROVE SmsInv'
  BY CmgrKeeps, CmgsKeeps, CmgdKeeps DEF AfterPduMode, Ended

-----------------------------------------------------------------------------
(* The end of the last command.                                            *)

\* What is left of a read's answer at its end.
LEMMA ReadAnswered ==
    ASSUME SmsInv, smsStep = "CMGR", Ended("OK")
    PROVE  /\ ReadCall /\ (smsCall.had = Absent \/ IsMessage(smsCall.had))
           /\ IF smsStray THEN smsData.data # <<>> /\ smsData.data[1].is # "pdu"
              ELSE \/ smsCall.had = Absent /\ smsData = NoData
                   \/ /\ smsCall.had # Absent /\ smsData.status = smsCall.had.status
                      /\ smsData.data = <<Line("pdu", smsCall.had)>>
  <1> DEFINE had == smsCall.had
  <1>1. /\ ~smsFlag /\ Head(smsLines).is = "OK" /\ smsLines # <<>> /\ ReadInv
    BY DEF Ended, Takes, SmsInv
  <1>2. CASE smsStray
    BY <1>1, <1>2 DEF ReadInv, StrayRead
  <1>3. CASE ~smsStray
    <2>1. CleanRead(had)
      BY <1>1, <1>3 DEF ReadInv
    <2> QED
      BY <1>1, <1>3, <2>1, TailsOfLines, LineFields DEF ReadInv, CleanRead, Final
  <1> QED
    BY <1>2, <1>3

\* A message that can be written as a text is written as the text meant.
LEMMA TextIsMeant ==
    ASSUME NEW m, IsMessage(m), ConvSMSParamToTextInfo(m, TRUE) # <<>>
    PROVE  ConvSMSParamToTextInfo(m, TRUE)[1] = TextMeant(m)
  <1> DEFINE sca == ConvPhoneNumberToString(m.sca)
             number == ConvPhoneNumberToString(m.number)
             param == IF m.kind = "deliver" THEN ConvDeliver(m)
                      ELSE IF m.kind = "submit" THEN ConvSubmit(m) ELSE <<>>
             meant == [number |-> number[1], scts |-> IF m.kind = "deliver" THEN m.scts ELSE 0,
                       con |-> m.con, text |-> m.text]
  <1>1. ConvSMSParamToTextInfo(m, TRUE) =
          IF sca = <<>> \/ param = <<>> THEN <<>>
          ELSE <<[status |-> m.status, type |-> m.kind, sca |-> sca[1],
                  param |-> param[1]]>>
    BY DEF ConvSMSParamToTextInfo
  <1>2. param # <<>>
    BY <1>1
  <1>3. param[1] = meant
    <2>1. CASE m.kind = "deliver"
      <3>1. param = IF number = <<>> THEN <<>>
                    ELSE <<[number |-> number[1], scts |-> m.scts, con |-> m.con,
                            text |-> m.text]>>
        BY <2>1 DEF ConvDeliver
      <3> HIDE DEF param, number
      <3> QED
        BY <1>2, <2>1, <3>1
    <2>2. CASE m.kind # "deliver"
      <3>1. m.kind = "submit" /\ param = ConvSubmit(m)
        BY <1>2, <2>2
      <3>2. param = IF number = <<>> THEN <<>>
                    ELSE <<[number |-> number[1], scts |-> 0, con |-> m.con,
                            text |-> m.text]>>
        BY <3>1 DEF ConvSubmit
      <3> HIDE DEF param, number
      <3> QED
        BY <1>2, <2>2, <3>2
    <2> QED
      BY <2>1, <2>2
  <1>4. TextMeant(m) = [status |-> m.status, type |-> m.kind, sca |-> sca[1],
                        param |-> meant]
    BY DEF TextMeant
  <1>5. sca # <<>>
    BY <1>1
  <1> HIDE DEF param, sca, meant
  <1>6. ConvSMSParamToTextInfo(m, TRUE) = <<[status |-> m.status, type |-> m.kind,
                                             sca |-> sca[1], param |-> param[1]]>>
    BY <1>1, <1>2, <1>5
  <1>7. ConvSMSParamToTextInfo(m, TRUE)[1] = [status |-> m.status, type |-> m.kind,
                                             sca |-> sca[1], param |-> param[1]]
    <2>1. \A s, r : s = <<r>> => s[1] = r
      OBVIOUS
    <2> QED
      BY <1>6, <2>1, Zenon
  <1> QED
    BY <1>3, <1>4, <1>7

LEMMA ReadPduIsTrue ==
    ASSUME SmsInv, smsStep = "CMGR", smsCall.op = "readPdu", Ended("OK"), ReturnPdu,
           UNCHANGED <<smsModem, smsData, smsCall, smsStray>>
    PROVE  SmsInv'
  <1> DEFINE out == IF smsData.data = <<>> THEN Absent
                    ELSE [status |-> smsData.status, data |-> smsData.data[1]]
  <1>1. Return("success", out, {}) /\ UNCHANGED <<smsSent, smsFlag, smsCalls>>
    BY DEF ReturnPdu, Ended
  <1>2. smsResult'.out = out
    BY <1>1 DEF Return
  <1>3. ~smsStray => out = IF smsCall.had = Absent THEN Absent
                           ELSE [status |-> smsCall.had.status,
                                 data |-> Line("pdu", smsCall.had)]
    <2>1. CASE smsCall.had = Absent /\ smsData = NoData
      BY <2>1 DEF NoData
    <2>2. CASE /\ smsCall.had # Absent /\ smsData.status = smsCall.had.status
               /\ smsData.data = <<Line("pdu", smsCall.had)>>
      BY <2>2
    <2> QED
      BY <2>1, <2>2, ReadAnswered
  <1> HIDE DEF out
  <1>4. ReadsAreTrue' /\ SendsAreTrue' /\ Holds(smsCall.op) \subseteq {}
    BY <1>2, <1>3 DEF ReadsAreTrue, SendsAreTrue, Succeeded, Holds
  <1> QED
    BY <1>1, <1>4, CallEnds

LEMMA ReadTextIsTrue ==
    ASSUME SmsInv, smsStep = "CMGR", smsCall.op = "readText", Ended("OK"), ReturnText,
           UNCHANGED <<smsModem, smsData, smsCall, smsStray>>
    PROVE  SmsInv'
  <1> DEFINE had == smsCall.had
             info == ConvSMSParamToTextInfo([smsData.data[1].has EXCEPT
                                                !.status = smsData.status], TRUE)
             meant == IF had = Absent THEN Absent ELSE TextMeant(had)
  <1>1. UNCHANGED <<smsSent, smsFlag, smsCalls>>
    BY DEF Ended
  <1>2. ASSUME NEW out, Return("success", out, Holds("readText")), out = meant
        PROVE  SmsInv'
    <2>1. smsResult'.out = meant
      BY <1>2 DEF Return
    <2> HIDE DEF meant
    <2>2. ReadsAreTrue' /\ SendsAreTrue'
      BY <2>1 DEF ReadsAreTrue, SendsAreTrue, Succeeded, meant
    <2> QED
      BY <1>1, <1>2, <2>2, CallEnds
  <1>3. CASE smsData.data = <<>> /\ Return("success", Absent, Holds("readText"))
    <2>1. had = Absent
      BY <1>3, ReadAnswered
    <2> QED
      BY <1>2, <1>3, <2>1
  <1>4. CASE Return("failed", <<>>, Holds("readText"))
    BY <1>1, <1>4, CallEnds
  <1>5. CASE /\ smsData.data # <<>> /\ smsData.data[1].is = "pdu"
             /\ info # <<>> /\ Return("success", info[1], Holds("readText"))
    <2>1. ~smsStray
      BY <1>5, ReadAnswered
    <2>2. /\ had # Absent /\ smsData.status = had.status
          /\ smsData.data = <<Line("pdu", had)>> /\ IsMessage(had)
      BY <1>5, <2>1, ReadAnswered DEF NoData
    <2>3. smsData.data[1].has = had
      BY <2>2, LineFields
    <2>4. [had EXCEPT !.status = had.status] = had
      BY <2>2 DEF IsMessage
    <2>5. info = ConvSMSParamToTextInfo(had, TRUE)
      BY <2>2, <2>3, <2>4
    <2>6. info[1] = meant
      BY <1>5, <2>2, <2>5, TextIsMeant
    <2> HIDE DEF info, meant
    <2> QED
      BY <1>2, <1>5, <2>6
  <1> QED
    BY <1>3, <1>4, <1>5 DEF ReturnText

LEMMA SendIsTrue ==
    ASSUME SmsInv, smsStep = "CMGS", Ended("OK"),
           Return("success", [mr |-> smsData.mr], Holds("sendText")),
           UNCHANGED <<smsModem, smsData, smsCall, smsStray>>
    PROVE  SmsInv'
  <1> DEFINE pdu == smsData.data[1]
             out == [mr |-> smsData.mr]
  <1>1. /\ ~Takes("CMGS", Head(smsLines)) /\ Head(smsLines).is = "OK" /\ SendInv
        /\ UNCHANGED <<smsSent, smsFlag, smsCalls>>
    BY DEF Ended, SmsInv
  <1>2. /\ smsSent # <<>> /\ Last(smsSent).pdu = pdu
        /\ Last(smsSent) = [pdu |-> pdu, mr |-> Last(smsSent).mr]
        /\ smsData.mr = Last(smsSent).mr /\ SendCall(pdu)
    BY <1>1, TailsOfLines, LineFields DEF SendInv, Final
  <1>3. smsResult'.out.mr = smsData.mr
    BY DEF Return
  <1>4. Last(smsSent)' = Last(smsSent)
    BY <1>1
  <1>5. CASE smsCall.op = "sendPdu" /\ smsCall.asked = pdu
    <2>1. ReadsAreTrue' /\ SendsAreTrue' /\ Holds(smsCall.op) \subseteq {}
      BY <1>1, <1>2, <1>3, <1>4, <1>5 DEF ReadsAreTrue, SendsAreTrue, Succeeded, Holds
    <2> QED
      BY <1>1, <1>5, <2>1, CallEnds
  <1>6. CASE /\ smsCall.op = "sendText" /\ pdu.con = smsCall.con /\ pdu.text = smsCall.text
             /\ ConvPhoneNumberToString(pdu.number) = <<smsCall.number>>
    <2>1. ConvPhoneNumberToString(Last(smsSent).pdu.number)[1] = smsCall.number
      BY <1>2, <1>6
    <2>2. ReadsAreTrue' /\ SendsAreTrue'
      BY <1>1, <1>2, <1>3, <1>4, <1>6, <2>1 DEF ReadsAreTrue, SendsAreTrue, Succeeded
    <2> QED
      BY <1>1, <1>6, <2>2, CallEnds
  <1>7. \/ smsCall.op = "sendPdu" /\ smsCall.asked = pdu
        \/ /\ smsCall.op = "sendText" /\ pdu.con = smsCall.con /\ pdu.text = smsCall.text
           /\ ConvPhoneNumberToString(pdu.number) = <<smsCall.number>>
    BY <1>2 DEF SendCall
  <1> QED
    BY <1>5, <1>6, <1>7

LEMMA AfterLastKeeps == ASSUME SmsInv, AfterLast PROVE SmsInv'
  <1>1. /\ Ended("OK") /\ UNCHANGED <<smsSent, smsFlag, smsCalls>>
        /\ UNCHANGED <<smsModem, smsData, smsCall, smsStray>>
    BY DEF AfterLast, Ended
  <1>2. CASE smsStep = "CPMS=" /\ Return("success", <<>>, {})
    <2>1. smsCall.op = "setStorage"
      BY <1>2 DEF SmsInv
    <2>2. ReadsAreTrue' /\ SendsAreTrue' /\ Holds(smsCall.op) \subseteq {}
      BY <1>1, <2>1 DEF ReadsAreTrue, SendsAreTrue, Succeeded, Holds
    <2> QED
      BY <1>1, <1>2, <2>1, <2>2, CallEnds
  <1>3. CASE smsStep = "CMGD" /\ Return("success", <<>>, {})
    <2>1. DeleteInv /\ DOMAIN smsModem.slots = 1 .. SmsSlots
      BY <1>3 DEF SmsInv, SmsStorageOK
    <2>2. smsLines = <<Final("OK")>>
      BY <1>1, <2>1, TailsOfLines, LineFields DEF DeleteInv, Ended, Final
    <2>3. \A i \in DOMAIN smsModem.slots :
             smsModem.slots[i] =
                IF Erases(smsCall.flag, smsCall.index, i, smsCall.before[i].status)
                THEN Absent ELSE smsCall.before[i]
      BY <2>1, <2>2 DEF DeleteInv
    <2>4. ReadsAreTrue' /\ SendsAreTrue' /\ Holds(smsCall.op) \subseteq {}
      BY <1>1, <2>1 DEF ReadsAreTrue, SendsAreTrue, Succeeded, Holds, DeleteInv, DeleteCall
    <2> QED
      BY <1>1, <1>3, <2>3, <2>4, CallEnds
  <1> QED
    BY <1>1, <1>2, <1>3, ReadPduIsTrue, ReadTextIsTrue, SendIsTrue DEF AfterLast

-----------------------------------------------------------------------------
(* Every step.                                                             *)

LEMMA SmsStepKeeps == ASSUME SmsInv, SmsNext PROVE SmsInv'
  <1>1. CASE CommandFails
    BY <1>1, CommandFailsKeeps DEF CommandFails, Ended
  <1>2. CASE CommandTimesOut
    BY <1>2, CommandFailsKeeps DEF CommandTimesOut
  <1>3. CASE \/ GetStorage
             \/ \E t \in {"SM", "ME"} : SetStorage(t)
             \/ \E i \in 0 .. SmsSlots : ReadSMS_PDU(i)
    BY <1>3, GetStorageKeeps, SetStorageKeeps, ReadPduKeeps
  <1>4. CASE \/ \E i \in 0 .. SmsSlots, s \in BOOLEAN, got \in 0 .. 2 :
                   ReadSMS_Text(i, s, got)
             \/ \E i \in 0 .. SmsSlots, flag \in 0 .. 5 : DeleteSMS(i, flag)
    BY <1>4, ReadTextKeeps, DeleteKeeps
  <1>5. CASE \/ \E p \in Pdus : SendSMS_PDU(p)
             \/ \E n \in Numbers, s \in BOOLEAN, t \in Texts : SendSMS_Text(n, s, t)
             \/ \E n \in Numbers, s \in BOOLEAN, t \in Texts, c \in ConParams :
                   SendSMS_Text_Ext(n, s, t, c)
    BY <1>5, SendPduKeeps, SendTextCallsKeep
  <1>6. CASE SMS_CMD_GeneralHandler \/ AfterStorageInfo \/ AfterPduMode \/ AfterLast
    BY <1>6, HandlerKeeps, AfterStorageInfoKeeps, AfterPduModeKeeps, AfterLastKeeps
  <1> QED
    BY <1>1, <1>2, <1>3, <1>4, <1>5, <1>6 DEF SmsNext

LEMMA SmsStuttering == ASSUME SmsInv, UNCHANGED smsVars PROVE SmsInv'
  <1>1. UNCHANGED <<smsCall, smsStep, smsLines, smsModem, smsSent, smsFlag, smsStray,
                    smsData, smsHeap, smsResult, smsCalls>>
    BY DEF smsVars
  <1>2. (SmsTypeOK /\ SmsStorageOK /\ SmsDataOK)'
    BY <1>1 DEF SmsInv, SmsTypeOK, SmsStorageOK, SmsDataOK
  <1>3. smsStep = "idle" => SmsCallsAreTrue'
    <2>1. ReadsAreTrue' = ReadsAreTrue
      BY <1>1 DEF ReadsAreTrue, Succeeded
    <2>2. SendsAreTrue' = SendsAreTrue
      BY <1>1 DEF SendsAreTrue, Succeeded
    <2> QED
      BY <1>1, <2>1, <2>2 DEF SmsInv, SmsCallsAreTrue, Succeeded
  <1>4. ReadCall' = ReadCall /\ DeleteCall' = DeleteCall
    BY <1>1 DEF ReadCall, DeleteCall
  <1>5. SendCall(smsData.data[1])' = SendCall(smsData.data[1])
    BY <1>1 DEF SendCall
  <1>6. /\ smsStep = "CPMS" => StorageInfoInv'
        /\ smsStep = "CMGF" => PduModeInv'
    BY <1>1, <1>4, <1>5 DEF SmsInv, StorageInfoInv, PduModeInv
  <1>7. smsStep = "CMGR" => ReadInv'
    <2>1. CleanRead(smsCall.had)' = CleanRead(smsCall.had)
      BY <1>1 DEF CleanRead
    <2>2. StrayRead(smsCall.had)' = StrayRead(smsCall.had)
      BY <1>1 DEF StrayRead
    <2> QED
      BY <1>1, <1>4, <2>1, <2>2 DEF SmsInv, ReadInv
  <1>8. smsStep = "CMGS" => SendInv'
    BY <1>1, <1>5 DEF SmsInv, SendInv
  <1>9. smsStep = "CMGD" => DeleteInv'
    BY <1>1, <1>4 DEF SmsInv, DeleteInv
  <1> QED
    BY <1>1, <1>2, <1>3, <1>6, <1>7, <1>8, <1>9 DEF SmsInv

LEMMA SmsInvariant == SmsSpec => []SmsInv
  <1>1. SmsInv /\ [SmsNext]_smsVars => SmsInv'
    BY SmsStepKeeps, SmsStuttering
  <1> QED
    BY <1>1, SmsInitially, PTL DEF SmsSpec

LEMMA SmsInvImplies == SmsInv => SmsTypeOK /\ SmsCallsAreTrue
  <1> SUFFICES ASSUME SmsInv PROVE SmsTypeOK /\ SmsCallsAreTrue
    OBVIOUS
  <1>1. CASE smsStep # "idle"
    BY <1>1 DEF SmsInv, SmsCallsAreTrue, ReadsAreTrue, SendsAreTrue, Succeeded
  <1> QED
    BY <1>1 DEF SmsInv

\* Every variable of the SMS library keeps its type (ril_sms.c:1060-1277).
THEOREM SmsTypeCorrect == SmsSpec => []SmsTypeOK
  BY SmsInvariant, SmsInvImplies, PTL

\* A call of the SMS library that reports success did what was asked of it,
\* and no call ends with memory allocated, wherever an answer is refused or
\* cut short (ril_sms.c:1066-1090, 1653-1827, 1910-2327).
THEOREM SmsCallsCorrect == SmsSpec => []SmsCallsAreTrue
  BY SmsInvariant, SmsInvImplies, PTL

-----------------------------------------------------------------------------
(* The serial line.                                                        *)

(* Where the parser is in the stream of everything the MCU has sent.       *)

Frame == [body : Bodies, intact : BOOLEAN]

\* Bytes of a frame after its head, and of the packet made of it.
Size(frames, k) == IF k = 0 THEN 0 ELSE Len(frames[k].body) + 2
ContentAt(frames, k, i) == Content(frames[k].body)[i]
PacketAt(frames, k, i) == IF i <= 2 THEN FF ELSE ContentAt(frames, k, i - 2)
WholePacket(frames, k) == <<FF, FF>> \o Content(frames[k].body)

Clean(frames) == \A i \in DOMAIN frames : frames[i].intact

\* A place in the stream: in which frame, how many bytes of its content have
\* been read (-1: half of the head), and whether the last one was an FF that
\* still has its 55 to come.  Frame 0 is what stands outside of every whole frame.
Between(frames, x) == x.read = Size(frames, x.frame)
Place(frames) ==
    {x \in [frame : 0 .. Len(frames), read : Int, key : BOOLEAN] :
        /\ x.read \in -1 .. Size(frames, x.frame)
        /\ x.read = -1 => x.frame # 0 /\ ~x.key
        /\ x.key => /\ x.read \in 1 .. Size(frames, x.frame) - 1
                    /\ ContentAt(frames, x.frame, x.read + 1) = FF}

\* The byte b leads from the place x to the place y.
GoesOn(frames, x, b, y) ==
    \/ /\ x.key /\ b = ESC
       /\ y = [frame |-> x.frame, read |-> x.read + 1, key |-> FALSE]
    \/ /\ x.read = -1 /\ b = FF
       /\ y = [frame |-> x.frame, read |-> 0, key |-> FALSE]
    \/ /\ ~x.key /\ x.read \in 0 .. Size(frames, x.frame) - 1
       /\ b = ContentAt(frames, x.frame, x.read + 1)
       /\ \/ b = FF /\ y = [frame |-> x.frame, read |-> x.read, key |-> TRUE]
          \/ b # FF /\ y = [frame |-> x.frame, read |-> x.read + 1, key |-> FALSE]
    \/ /\ Between(frames, x) /\ ~Clean(frames)
       /\ y = [frame |-> 0, read |-> 0, key |-> FALSE]
    \/ /\ Between(frames, x) /\ b = FF /\ y.frame # 0
       /\ Clean(frames) => y.frame = x.frame + 1
       /\ y = [frame |-> y.frame, read |-> -1, key |-> FALSE]

\* S is what was sent and at[q] the place after q bytes of it.
StreamOK(frames, S, at) ==
    /\ S \in Seq(Byte) /\ at \in [0 .. Len(S) -> Place(frames)]
    /\ \A q \in 0 .. Len(S) - 1 : GoesOn(frames, at[q], S[q + 1], at[q + 1])
    /\ Between(frames, at[Len(S)])
    /\ (frames = <<>> \/ Last(frames).intact) => at[Len(S)].frame = Len(frames)

\* The bytes z lead from x through the places t to the end of a frame.
Leads(frames, x, z, t) ==
    /\ z \in Seq(Byte) /\ t \in [1 .. Len(z) -> Place(frames)]
    /\ Len(z) > 0 => GoesOn(frames, x, z[1], t[1]) /\ Between(frames, t[Len(z)])
    /\ \A q \in 1 .. Len(z) - 1 : GoesOn(frames, t[q], z[q + 1], t[q + 1])

\* The frame f goes after the others, and z is what is sent of it.
LeadsOn(frames, f, fs, S, at, z, t) ==
    /\ frames \in Seq(Frame) /\ f \in Frame /\ fs = Append(frames, f)
    /\ StreamOK(frames, S, at) /\ Leads(fs, at[Len(S)], z, t)
    /\ f.intact => Len(z) > 0 /\ t[Len(z)].frame = Len(frames) + 1

\* After p bytes the rest is in the ring, in the driver and on the line.
Unread == pos_current - pos_start
RestOK(S, p) ==
    /\ Len(S) = p + Unread + Len(fifo) + Len(line)
    /\ \A i \in 1 .. Unread : hal_RxBuffer[Mask(pos_start + i - 1)] = S[p + i]
    /\ \A i \in 1 .. Len(fifo) : fifo[i] = S[p + Unread + i]
    /\ \A i \in 1 .. Len(line) : line[i] = S[p + Unread + Len(fifo) + i]

\* What of the packet stands in the ring.
Held(frames, x) ==
    IF Between(frames, x) THEN 0 ELSE x.read + 2 + (IF x.key THEN 1 ELSE 0)
HeldOK(x) ==
    /\ Held(sent, x) <= pos_start
    /\ \A i \in 1 .. Held(sent, x) :
          hal_RxBuffer[Mask(pos_start - Held(sent, x) + i - 1)] = PacketAt(sent, x.frame, i)

\* Whatever state the parser was in, it has found the frame at the end of its head.
ParserAt(x) ==
    LET size == Size(sent, x.frame)
    IN  /\ x.read = -1 =>
              /\ gu8LocalHalStatus # HEAD1
              /\ gu8LocalHalStatus = HEAD2 => guiLocalPacketStart = pos_start - 1
              /\ halRecKeyWord \/ gu8LocalHalStatus \in {HEAD2, DATALEN1}
        /\ (x.read = 0 /\ size # 0) =>
              /\ gu8LocalHalStatus = DATALEN1
              /\ halRecKeyWord \/ guiLocalPacketStart = pos_start - 2
        /\ x.read \in 1 .. size - 1 =>
              halRecKeyWord = x.key /\ guiLocalPacketStart = pos_start - Held(sent, x)
        /\ (x.read = 1 /\ size # 0) =>
              /\ gu8LocalHalStatus = DATALEN2
              /\ gu16LocalPacketDataLen = ContentAt(sent, x.frame, 1) * ByteRadix
        /\ x.read \in 2 .. size - 1 =>
              gu8LocalHalStatus = DATA /\ gu16LocalPacketDataLen = size - x.read

\* Packets handed on: the frame just read last, and all of them as long as
\* nothing was damaged.
Whole(x) == IF Between(sent, x) THEN x.frame ELSE x.frame - 1
DeliveredOK(x) ==
    /\ (x.frame # 0 /\ Between(sent, x)) =>
          delivered # <<>> /\ Last(delivered) = WholePacket(sent, x.frame)
    /\ Clean(sent) => delivered = [i \in 1 .. Whole(x) |-> WholePacket(sent, i)]

FramesInv ==
    \E S, at : \E p \in 0 .. Len(S) :
       /\ StreamOK(sent, S, at) /\ RestOK(S, p)
       /\ ParserAt(at[p]) /\ HeldOK(at[p]) /\ DeliveredOK(at[p])

\* Of the parser, on any line.
ParserOK ==
    /\ ~extracting => pos_start = pos_current
    /\ pos_current - pos_start <= FifoCap
    /\ gu8LocalHalStatus \in {HEAD1, HEAD2} => ~halRecKeyWord
    /\ gu8LocalHalStatus = HEAD2 => pos_start >= 1
    /\ gu8LocalHalStatus = DATALEN1 => pos_start >= (IF halRecKeyWord THEN 3 ELSE 2)
    /\ halRecKeyWord => pos_start >= 1
    /\ gu8LocalHalStatus = DATALEN2 =>
          \E v \in Byte : gu16LocalPacketDataLen = v * ByteRadix

McuInv ==
    /\ McuTypeOK /\ ParserOK
    /\ sent \in Seq(Frame) /\ delivered \in Seq(Seq(Byte))
    /\ FramesInv

-----------------------------------------------------------------------------
(* The constants and the positions in the ring.                            *)

LEMMA Constants ==
    /\ ByteRadix \in Nat /\ ByteRadix > 2 /\ FF \in Byte /\ ESC \in Byte /\ ESC # FF
    /\ Byte \subseteq Nat /\ FF = ByteRadix - 1
    /\ RingSize \in Nat /\ FifoCap \in Nat /\ FifoCap >= 1
  BY FrameAssumption DEF Byte, FF

\* The greatest length there is.
LEMMA GreatestLength ==
    \A b \in Bodies : Len(b) \in Nat /\ Len(b) >= 1 /\ Len(b) < ESC * ByteRadix
                      /\ Len(b) <= Max({Len(c) : c \in Bodies})
                      /\ Max({Len(c) : c \in Bodies}) \in Nat
  <1> DEFINE lengths == {Len(c) : c \in Bodies}
             limits == {n \in Nat : \A l \in lengths : l <= n}
  <1>1. /\ \A b \in Bodies : Len(b) \in Nat /\ Len(b) >= 1 /\ Len(b) < ESC * ByteRadix
        /\ Bodies # {}
    <2>1. ASSUME NEW b \in Bodies PROVE Len(b) \in Nat /\ Len(b) >= 1
      <3>1. b \in Seq(Byte) /\ b # <<>>
        BY FrameAssumption
      <3>2. Len(b) \in Nat /\ (Len(b) = 0 => b = <<>>)
        BY <3>1
      <3> QED
        BY <3>1, <3>2
    <2>2. Bodies # {} /\ \A b \in Bodies : Len(b) < ESC * ByteRadix
      BY FrameAssumption
    <2> QED
      BY <2>1, <2>2
  <1>2. ESC * ByteRadix \in Nat
    <2>1. ESC \in Nat /\ ByteRadix \in Nat
      BY Constants
    <2> QED
      BY <2>1
  <1>3. ESC * ByteRadix \in limits /\ limits \subseteq Nat
    <2>1. \A l \in lengths : l \in Nat /\ l < ESC * ByteRadix
      BY <1>1
    <2> HIDE DEF lengths
    <2> DEFINE top == ESC * ByteRadix
    <2>2. top \in Nat /\ \A l \in lengths : l \in Nat /\ l < top
      BY <1>2, <2>1
    <2> HIDE DEF top
    <2>3. top \in limits /\ limits \subseteq Nat
      BY <2>2
    <2> QED
      BY <2>3 DEF top
  <1>4. PICK n \in limits : \A m \in limits : n <= m
    <2> HIDE DEF limits
    <2> QED
      BY <1>3, NatMin
  <1>5. n \in Nat /\ \A l \in lengths : l \in Nat /\ l >= 1 /\ l <= n
    BY <1>1, <1>4
  <1>6. lengths # {}
    BY <1>1
  <1>7. n \in lengths
    <2>1. SUFFICES ASSUME n \notin lengths PROVE FALSE
      OBVIOUS
    <2>2. \A l \in lengths : l <= n - 1 /\ n - 1 \in Nat
      <3> HIDE DEF lengths
      <3> QED
        BY <1>5, <2>1
    <2>3. n - 1 \in Nat
      <3> HIDE DEF lengths
      <3> QED
        BY <1>6, <2>2
    <2>4. n - 1 \in limits
      BY <2>2, <2>3
    <2> QED
      BY <1>4, <1>5, <2>3, <2>4
  <1>8. \A x \in lengths : (\A y \in lengths : x >= y) => x = n
    <2> HIDE DEF lengths
    <2> QED
      BY <1>5, <1>7
  <1>9. \E x \in lengths : \A y \in lengths : x >= y
    <2> HIDE DEF lengths
    <2> QED
      BY <1>5, <1>7
  <1>10. Max(lengths) = n
    <2> HIDE DEF lengths
    <2> QED
      BY <1>8, <1>9 DEF Max
  <1> QED
    BY <1>1, <1>5, <1>10

\* Room for what one frame leaves and what one read brings.
LEMMA Room ==
    /\ \A b \in Bodies : Len(b) \in Nat /\ Len(b) >= 1 /\ Len(b) < ESC * ByteRadix
                         /\ Len(b) + 4 + FifoCap <= RingSize
    /\ FifoCap < RingSize
  <1> DEFINE top == Max({Len(c) : c \in Bodies})
  <1>1. top \in Nat /\ \A b \in Bodies : Len(b) <= top
    BY GreatestLength, FrameAssumption
  <1>2. RingSize >= FifoCap + (2 * (top + 2) + 2)
    BY FrameAssumption DEF MaxFrameLen
  <1> HIDE DEF top
  <1>3. FifoCap \in Nat /\ RingSize \in Nat
    BY Constants
  <1>4. FifoCap + top + 4 <= RingSize
    BY <1>1, <1>2, <1>3
  <1>5. \A b \in Bodies : Len(b) \in Nat /\ Len(b) >= 1 /\ Len(b) < ESC * ByteRadix
    BY GreatestLength
  <1>6. ASSUME NEW b \in Bodies PROVE Len(b) + 4 + FifoCap <= RingSize
    BY <1>1, <1>3, <1>4, <1>5
  <1> QED
    BY <1>1, <1>3, <1>4, <1>5, <1>6

LEMMA RingIsPositive == RingSize \in Nat /\ RingSize > 0
  BY Constants, Room

LEMMA MaskIs ==
    ASSUME NEW a \in Nat
    PROVE  /\ Mask(a) \in 0 .. RingSize - 1
           /\ a \div RingSize \in Nat /\ a = RingSize * (a \div RingSize) + Mask(a)
  <1>1. RingSize \in Nat /\ RingSize > 0
    BY RingIsPositive
  <1>2. a % RingSize \in 0 .. RingSize - 1
    BY <1>1
  <1>3. a \div RingSize \in Nat
    BY <1>1
  <1>4. a - RingSize * (a \div RingSize) = a % RingSize
    BY <1>1
  <1> DEFINE q == a \div RingSize
             t == RingSize * q
  <1>5. t \in Int
    <2> HIDE DEF q
    <2> QED
      BY <1>1, <1>3 DEF q
  <1>6. a - t = a % RingSize /\ a % RingSize \in Int
    BY <1>1, <1>2, <1>4
  <1> DEFINE u == a % RingSize
  <1>7. a = t + u
    <2>1. a - t = u /\ u \in Int
      BY <1>6
    <2> HIDE DEF t, u
    <2> QED
      BY <1>5, <2>1
  <1> QED
    BY <1>2, <1>3, <1>7 DEF Mask

LEMMA MaskOf ==
    ASSUME NEW q \in Nat, NEW m \in 0 .. RingSize - 1
    PROVE  Mask(RingSize * q + m) = m
  <1>1. RingSize \in Nat /\ RingSize > 0
    BY RingIsPositive
  <1> QED
    BY <1>1 DEF Mask

LEMMA MaskPlus ==
    ASSUME NEW a \in Nat, NEW d \in 0 .. RingSize
    PROVE  Mask(a + d) = IF Mask(a) + d < RingSize THEN Mask(a) + d
                         ELSE Mask(a) + d - RingSize
  <1> DEFINE q == a \div RingSize
             m == Mask(a)
             t == RingSize * q
  <1>1. /\ RingSize \in Nat /\ RingSize > 0 /\ m \in 0 .. RingSize - 1
        /\ q \in Nat /\ a = t + m /\ d \in Nat
    BY RingIsPositive, MaskIs
  <1>2. RingSize * (q + 1) = t + RingSize /\ t \in Nat
    <2> HIDE DEF q
    <2> QED
      BY <1>1
  <1>3. CASE m + d < RingSize
    <2>1. a + d = t + (m + d) /\ m + d \in 0 .. RingSize - 1
      <3> HIDE DEF m, t
      <3> QED
        BY <1>1, <1>2, <1>3
    <2>2. Mask(t + (m + d)) = m + d
      <3> HIDE DEF m, q
      <3> QED
        BY <1>1, <2>1, MaskOf
    <2> QED
      BY <1>3, <2>1, <2>2
  <1>4. CASE ~(m + d < RingSize)
    <2>1. /\ a + d = (t + RingSize) + (m + d - RingSize)
          /\ m + d - RingSize \in 0 .. RingSize - 1
      <3> HIDE DEF m, t
      <3> QED
        BY <1>1, <1>2, <1>4
    <2>2. Mask(RingSize * (q + 1) + (m + d - RingSize)) = m + d - RingSize
      <3>1. q + 1 \in Nat
        BY <1>1
      <3> HIDE DEF m, q
      <3> QED
        BY <2>1, <3>1, MaskOf
    <2> QED
      BY <1>2, <1>4, <2>1, <2>2
  <1> QED
    BY <1>3, <1>4

LEMMA MaskRound ==
    ASSUME NEW a \in Nat
    PROVE  Mask(a + RingSize) = Mask(a)
  <1>1. RingSize \in 0 .. RingSize /\ RingSize \in Nat /\ RingSize > 0
    BY RingIsPositive
  <1>2. Mask(a) \in 0 .. RingSize - 1
    BY MaskIs
  <1>3. Mask(a + RingSize) = IF Mask(a) + RingSize < RingSize THEN Mask(a) + RingSize
                             ELSE Mask(a) + RingSize - RingSize
    BY <1>1, MaskPlus
  <1> DEFINE m == Mask(a)
  <1> HIDE DEF m
  <1>4. (IF m + RingSize < RingSize THEN m + RingSize ELSE m + RingSize - RingSize) = m
    BY <1>1, <1>2 DEF m
  <1> QED
    BY <1>3, <1>4 DEF m

\* The next place of the ring from either side.
LEMMA MaskNext ==
    ASSUME NEW a \in Nat
    PROVE  Mask(Mask(a) + 1) = Mask(a + 1)
  <1> DEFINE m == Mask(a)
  <1>1. RingSize \in Nat /\ RingSize > 0 /\ m \in 0 .. RingSize - 1
    BY RingIsPositive, MaskIs
  <1>2. Mask(a + 1) = IF m + 1 < RingSize THEN m + 1 ELSE m + 1 - RingSize
    <2>1. 1 \in 0 .. RingSize
      BY <1>1
    <2> QED
      BY <2>1, MaskPlus
  <1>3. Mask(m) = m
    <2>1. Mask(RingSize * 0 + m) = m
      <3> HIDE DEF m
      <3> QED
        BY <1>1, MaskOf
    <2>2. RingSize * 0 + m = m
      <3> HIDE DEF m
      <3> QED
        BY <1>1
    <2> QED
      BY <2>1, <2>2
  <1>4. Mask(m + 1) = IF Mask(m) + 1 < RingSize THEN Mask(m) + 1 ELSE Mask(m) + 1 - RingSize
    <2>1. 1 \in 0 .. RingSize /\ m \in Nat
      BY <1>1
    <2> HIDE DEF m
    <2> QED
      BY <2>1, MaskPlus
  <1> QED
    BY <1>2, <1>3, <1>4

LEMMA MaskApart ==
    ASSUME NEW a \in Nat, NEW d \in 1 .. RingSize - 1
    PROVE  Mask(a + d) # Mask(a)
  <1>1. RingSize \in Nat /\ RingSize > 0 /\ Mask(a) \in 0 .. RingSize - 1
    BY RingIsPositive, MaskIs
  <1>2. d \in 0 .. RingSize
    BY <1>1
  <1>3. Mask(a + d) = IF Mask(a) + d < RingSize THEN Mask(a) + d
                      ELSE Mask(a) + d - RingSize
    BY <1>2, MaskPlus
  <1> DEFINE m == Mask(a)
  <1> HIDE DEF m
  <1>4. (IF m + d < RingSize THEN m + d ELSE m + d - RingSize) # m
    BY <1>1 DEF m
  <1> QED
    BY <1>3, <1>4 DEF m

\* The distance the code computes is the one between the positions.
LEMMA GapIs ==
    ASSUME NEW a \in Nat, NEW d \in 0 .. RingSize - 1
    PROVE  get_data_len(a, a + d) = d
  <1>1. RingSize \in Nat /\ RingSize > 0 /\ Mask(a) \in 0 .. RingSize - 1
    BY RingIsPositive, MaskIs
  <1>2. d \in 0 .. RingSize
    BY <1>1
  <1>3. Mask(a + d) = IF Mask(a) + d < RingSize THEN Mask(a) + d
                      ELSE Mask(a) + d - RingSize
    BY <1>2, MaskPlus
  <1> DEFINE m == Mask(a)
             n == Mask(a + d)
  <1>4. (IF n >= m THEN n - m ELSE RingSize - m + n) = d
    <2>1. n = IF m + d < RingSize THEN m + d ELSE m + d - RingSize
      BY <1>3
    <2> HIDE DEF m, n
    <2> QED
      BY <1>1, <2>1 DEF m
  <1> QED
    BY <1>4 DEF get_data_len

-----------------------------------------------------------------------------
(* The ring: taking one byte out, and reading some in.                     *)

LEMMA MovedBack ==
    ASSUME NEW start \in Nat, NEW end \in Nat, start < end, end - start < RingSize
    PROVE  LET ring == HAL_Move_Data_Backward(start + 1, end)
           IN  /\ \A x \in 0 .. end - start - 2 :
                     ring[Mask(start + x)] = hal_RxBuffer[Mask(start + x + 1)]
               /\ \A y \in 1 .. start : y + (end - start) <= RingSize =>
                     ring[Mask(start - y)] = hal_RxBuffer[Mask(start - y)]
  <1> DEFINE ring == HAL_Move_Data_Backward(start + 1, end)
  <1>1. RingSize \in Nat /\ RingSize > 0
    BY RingIsPositive
  <1>2. get_data_len(start + 1, end) = end - start - 1
    <2>1. end = (start + 1) + (end - start - 1) /\ end - start - 1 \in 0 .. RingSize - 1
          /\ start + 1 \in Nat
      BY <1>1
    <2>2. get_data_len(start + 1, (start + 1) + (end - start - 1)) = end - start - 1
      BY <2>1, GapIs
    <2> QED
      BY <2>1, <2>2
  <1>3. ASSUME NEW a \in Nat
        PROVE  ring[Mask(a)] = IF get_data_len(start + 1, a + 1) < end - start - 1
                               THEN hal_RxBuffer[Mask(a + 1)] ELSE hal_RxBuffer[Mask(a)]
    <2>1. Mask(a) \in 0 .. RingSize - 1 /\ Mask(Mask(a) + 1) = Mask(a + 1)
      BY MaskIs, MaskNext
    <2>2. get_data_len(start + 1, Mask(a) + 1) = get_data_len(start + 1, a + 1)
      BY <2>1 DEF get_data_len
    <2>3. ring[Mask(a)] = IF get_data_len(start + 1, Mask(a) + 1)
                                < get_data_len(start + 1, end)
                          THEN hal_RxBuffer[Mask(Mask(a) + 1)]
                          ELSE hal_RxBuffer[Mask(a)]
      BY <2>1, Zenon DEF HAL_Move_Data_Backward
    <2> QED
      BY <1>2, <2>1, <2>2, <2>3
  <1>4. ASSUME NEW x \in 0 .. end - start - 2
        PROVE  ring[Mask(start + x)] = hal_RxBuffer[Mask(start + x + 1)]
    <2>1. /\ start + x \in Nat /\ start + 1 \in Nat /\ x \in 0 .. RingSize - 1
          /\ (start + 1) + x = start + x + 1 /\ x < end - start - 1
      BY <1>1
    <2>2. get_data_len(start + 1, (start + 1) + x) = x
      BY <2>1, GapIs
    <2>3. get_data_len(start + 1, start + x + 1) = x
      BY <2>1, <2>2
    <2> HIDE DEF ring
    <2> QED
      BY <1>3, <2>1, <2>3
  <1>5. ASSUME NEW y \in 1 .. start, y + (end - start) <= RingSize
        PROVE  ring[Mask(start - y)] = hal_RxBuffer[Mask(start - y)]
    <2> DEFINE a == start - y
    <2>1. /\ a \in Nat /\ a + 1 \in Nat /\ start + 1 \in Nat
          /\ RingSize - y \in 0 .. RingSize - 1
          /\ (start + 1) + (RingSize - y) = (a + 1) + RingSize
          /\ ~(RingSize - y < end - start - 1)
      BY <1>1, <1>5
    <2>2. get_data_len(start + 1, (start + 1) + (RingSize - y)) = RingSize - y
      BY <2>1, GapIs
    <2>3. Mask((a + 1) + RingSize) = Mask(a + 1)
      BY <2>1, MaskRound
    <2>4. get_data_len(start + 1, a + 1) = get_data_len(start + 1, (a + 1) + RingSize)
      BY <2>3 DEF get_data_len
    <2>5. get_data_len(start + 1, a + 1) = RingSize - y
      BY <2>1, <2>2, <2>4
    <2> HIDE DEF ring
    <2> QED
      BY <1>3, <2>1, <2>5
  <1> QED
    BY <1>4, <1>5

LEMMA ReadAfter ==
    ASSUME NEW end \in Nat, end = pos_current, NEW n \in Nat, n <= RingSize - Mask(end)
    PROVE  /\ \A x \in 1 .. n : ReadIntoRing(n)[Mask(end + x - 1)] = fifo[x]
           /\ \A y \in 1 .. end : y + n <= RingSize =>
                 ReadIntoRing(n)[Mask(end - y)] = hal_RxBuffer[Mask(end - y)]
  <1> DEFINE ring == ReadIntoRing(n)
             m == Mask(end)
  <1>1. RingSize \in Nat /\ RingSize > 0 /\ m \in 0 .. RingSize - 1
    BY RingIsPositive, MaskIs
  <1>2. ASSUME NEW i \in 0 .. RingSize - 1
        PROVE  ring[i] = IF (i - m) + 1 \in 1 .. n THEN fifo[(i - m) + 1] ELSE hal_RxBuffer[i]
    BY Zenon DEF ReadIntoRing
  <1>3. ASSUME NEW x \in 1 .. n PROVE Mask(end + x - 1) = m + x - 1
    <2>1. x - 1 \in 0 .. RingSize /\ end + (x - 1) = end + x - 1 /\ m + (x - 1) < RingSize
          /\ m + (x - 1) = m + x - 1
      BY <1>1
    <2>2. Mask(end + (x - 1)) = IF m + (x - 1) < RingSize THEN m + (x - 1)
                                ELSE m + (x - 1) - RingSize
      BY <2>1, MaskPlus
    <2> HIDE DEF m
    <2> QED
      BY <2>1, <2>2
  <1>4. ASSUME NEW x \in 1 .. n PROVE ring[Mask(end + x - 1)] = fifo[x]
    <2> DEFINE j == m + x - 1
    <2>1. j \in 0 .. RingSize - 1 /\ (j - m) + 1 = x
      BY <1>1
    <2>2. Mask(end + x - 1) = j
      BY <1>3
    <2> HIDE DEF ring, m, j
    <2>3. ring[j] = IF (j - m) + 1 \in 1 .. n THEN fifo[(j - m) + 1] ELSE hal_RxBuffer[j]
      BY <1>2, <2>1
    <2> QED
      BY <2>1, <2>2, <2>3
  <1>5. ASSUME NEW y \in 1 .. end, y + n <= RingSize
        PROVE  ring[Mask(end - y)] = hal_RxBuffer[Mask(end - y)]
    <2> DEFINE a == end - y
               i == Mask(a)
    <2>1. a \in Nat
      OBVIOUS
    <2>2. i \in 0 .. RingSize - 1
      <3> HIDE DEF a
      <3> QED
        BY <2>1, MaskIs
    <2>3. ASSUME (i - m) + 1 \in 1 .. n PROVE FALSE
      <3> DEFINE k == (i - m) + 1
      <3>1. k \in 1 .. n /\ i = m + k - 1
        <4> HIDE DEF i, m
        <4> QED
          BY <1>1, <2>2, <2>3
      <3> HIDE DEF k
      <3>2. Mask(end + k - 1) = i
        BY <1>3, <3>1
      <3>3. end + k - 1 = a + (y + k - 1) /\ y + k - 1 \in 1 .. RingSize - 1
        BY <1>1, <1>5, <3>1
      <3>4. Mask(a + (y + k - 1)) # Mask(a)
        <4> HIDE DEF a
        <4> QED
          BY <2>1, <3>3, MaskApart
      <3> QED
        BY <3>2, <3>3, <3>4
    <2> HIDE DEF ring, m
    <2>4. ring[i] = hal_RxBuffer[i]
      <3> HIDE DEF i
      <3> QED
        BY <1>2, <2>2, <2>3
    <2> QED
      BY <2>4
  <1> QED
    BY <1>4, <1>5

-----------------------------------------------------------------------------
(* The frame and its stuffing.                                             *)

\* The first byte of the length is neither FF nor 55.
LEMMA ContentIs ==
    ASSUME NEW b \in Bodies
    PROVE  /\ Content(b) \in Seq(Byte) /\ Len(Content(b)) = Len(b) + 2
           /\ Len(b) \in Nat /\ Len(b) >= 1
           /\ Content(b)[1] = Len(b) \div ByteRadix /\ Content(b)[2] = Len(b) % ByteRadix
           /\ Content(b)[1] # FF /\ Content(b)[1] # ESC
           /\ Content(b)[1] * ByteRadix + Content(b)[2] = Len(b)
  <1> DEFINE n == Len(b)
             hi == n \div ByteRadix
             lo == n % ByteRadix
  <1>1. /\ ByteRadix \in Nat /\ ByteRadix > 2 /\ ESC \in Nat /\ FF = ByteRadix - 1
        /\ ESC \in Byte /\ ESC # FF /\ n \in Nat /\ n >= 1 /\ n < ESC * ByteRadix
        /\ b \in Seq(Byte)
    BY Constants, Room, FrameAssumption
  <1>2. ESC < FF
    BY <1>1 DEF Byte
  <1>3. hi \in Nat /\ lo \in 0 .. ByteRadix - 1 /\ n - ByteRadix * hi = lo
    <2>1. ByteRadix \in Nat /\ ByteRadix > 0 /\ n \in Nat
      BY <1>1
    <2> HIDE DEF n
    <2> QED
      BY <2>1
  <1>4. ByteRadix * hi + lo = n /\ hi * ByteRadix = ByteRadix * hi /\ ByteRadix * hi \in Nat
    <2> DEFINE t == ByteRadix * hi
    <2>1. t \in Nat /\ hi * ByteRadix = t
      <3> HIDE DEF hi
      <3> QED
        BY <1>1, <1>3
    <2>2. n - t = lo /\ n \in Nat /\ lo \in Int
      BY <1>1, <1>3
    <2> HIDE DEF t, n, lo
    <2>3. t + lo = n
      BY <2>1, <2>2
    <2> QED
      BY <2>1, <2>3 DEF t
  <1>5. hi < ESC
    <2>1. SUFFICES ASSUME hi >= ESC PROVE FALSE
      BY <1>1, <1>3
    <2> DEFINE d == hi - ESC
    <2>2. d \in Nat /\ hi = ESC + d
      <3> HIDE DEF hi
      <3> QED
        BY <1>1, <1>3, <2>1
    <2> HIDE DEF d
    <2>3. ByteRadix * hi = ESC * ByteRadix + d * ByteRadix /\ d * ByteRadix >= 0
          /\ d * ByteRadix \in Nat /\ ESC * ByteRadix \in Nat
      <3> HIDE DEF hi
      <3> QED
        BY <1>1, <2>2
    <2> DEFINE t == ByteRadix * hi
               u == ESC * ByteRadix
               v == d * ByteRadix
    <2>4. t = u + v /\ v \in Nat /\ u \in Nat /\ n < u /\ t + lo = n /\ lo \in Nat /\ t \in Nat
      BY <1>1, <1>3, <1>4, <2>3
    <2> HIDE DEF t, u, v, n, lo
    <2> QED
      BY <2>4
  <1>6. hi \in Byte /\ lo \in Byte /\ hi # FF /\ hi # ESC
    <2> HIDE DEF hi, lo
    <2> QED
      BY <1>1, <1>2, <1>3, <1>5 DEF Byte
  <1> HIDE DEF hi, lo
  <1>7. Content(b) = <<hi, lo>> \o b
    BY DEF Content, hi, lo
  <1>8. <<hi, lo>> \in Seq(Byte) /\ Len(<<hi, lo>>) = 2
    BY <1>6
  <1>9. /\ <<hi, lo>> \o b \in Seq(Byte) /\ Len(<<hi, lo>> \o b) = n + 2
        /\ (<<hi, lo>> \o b)[1] = hi /\ (<<hi, lo>> \o b)[2] = lo
    BY <1>1, <1>6
  <1> QED
    BY <1>1, <1>4, <1>6, <1>7, <1>9 DEF hi, lo

\* Bytes with their stuffing, byte by byte: before s[q + 1] the first
\* g[q].read bytes of c have been read, and with g[q].key an FF whose 55 follows.
Scanned(n) == [read : 0 .. n, key : BOOLEAN]
ScanStep(c, n, x, b, y) ==
    /\ x.read < n
    /\ IF x.key THEN c[x.read + 1] = FF /\ b = ESC /\ y = [read |-> x.read + 1, key |-> FALSE]
       ELSE /\ b = c[x.read + 1]
            /\ y = IF b = FF THEN [read |-> x.read, key |-> TRUE]
                   ELSE [read |-> x.read + 1, key |-> FALSE]
Scan(c, s, n, g) ==
    /\ s \in Seq(Byte) /\ g \in [0 .. Len(s) -> Scanned(n)]
    /\ g[0] = [read |-> 0, key |-> FALSE] /\ g[Len(s)] = [read |-> n, key |-> FALSE]
    /\ \A q \in 0 .. Len(s) - 1 : ScanStep(c, n, g[q], s[q + 1], g[q + 1])

Stuffed(b) == IF b = FF THEN <<FF, ESC>> ELSE <<b>>

LEMMA ScanGrows ==
    ASSUME NEW c \in Seq(Byte), NEW s, NEW n \in 0 .. Len(c) - 1, NEW g, Scan(c, s, n, g)
    PROVE  \E h : Scan(c, s \o Stuffed(c[n + 1]), n + 1, h)
  <1> DEFINE b == c[n + 1]
             e == Len(s)
             t == s \o Stuffed(b)
             f == Len(t)
             h == [q \in 0 .. f |-> IF q <= e THEN g[q]
                                    ELSE IF q = f THEN [read |-> n + 1, key |-> FALSE]
                                    ELSE [read |-> n, key |-> TRUE]]
  <1>1. /\ s \in Seq(Byte) /\ e \in Nat /\ n \in Nat /\ b \in Byte /\ FF \in Byte /\ ESC \in Byte
        /\ ESC # FF
    BY Constants DEF Scan
  <1>2. /\ g \in [0 .. e -> Scanned(n)]
        /\ g[0] = [read |-> 0, key |-> FALSE] /\ g[e] = [read |-> n, key |-> FALSE]
        /\ \A q \in 0 .. e - 1 : ScanStep(c, n, g[q], s[q + 1], g[q + 1])
    BY DEF Scan
  <1>3. /\ t \in Seq(Byte) /\ f = e + (IF b = FF THEN 2 ELSE 1)
        /\ \A i \in 1 .. e : t[i] = s[i]
        /\ t[e + 1] = b /\ (b = FF => t[e + 2] = ESC)
    <2> HIDE DEF b
    <2>1. CASE b = FF
      <3>1. Stuffed(b) = <<FF, ESC>> /\ <<FF, ESC>> \in Seq(Byte) /\ Len(<<FF, ESC>>) = 2
        BY <1>1, <2>1 DEF Stuffed
      <3> QED
        BY <1>1, <2>1, <3>1
    <2>2. CASE b # FF
      <3>1. Stuffed(b) = <<b>> /\ <<b>> \in Seq(Byte) /\ Len(<<b>>) = 1
        BY <1>1, <2>2 DEF Stuffed
      <3> QED
        BY <1>1, <2>2, <3>1
    <2> QED
      BY <2>1, <2>2
  <1>13. f \in Nat /\ e + 1 <= f /\ f <= e + 2 /\ (f = e + 2 <=> b = FF) /\ n + 1 \in Nat
    BY <1>1, <1>3
  <1> HIDE DEF t, e, f, b
  <1>4. h \in [0 .. f -> Scanned(n + 1)]
    <2>1. Scanned(n) \subseteq Scanned(n + 1)
      BY <1>1 DEF Scanned
    <2>2. [read |-> n + 1, key |-> FALSE] \in Scanned(n + 1)
      BY <1>1 DEF Scanned
    <2>3. [read |-> n, key |-> TRUE] \in Scanned(n + 1)
      BY <1>1 DEF Scanned
    <2>4. \A q \in 0 .. f : q <= e => g[q] \in Scanned(n)
      BY <1>1, <1>2, <1>13
    <2> QED
      BY <2>1, <2>2, <2>3, <2>4
  <1>5. h[0] = [read |-> 0, key |-> FALSE] /\ h[f] = [read |-> n + 1, key |-> FALSE]
    BY <1>1, <1>2, <1>13
  <1>6. ASSUME NEW q \in 0 .. f - 1
        PROVE  ScanStep(c, n + 1, h[q], t[q + 1], h[q + 1])
    <2>1. CASE q \in 0 .. e - 1
      <3>0. /\ q \in 0 .. f /\ q + 1 \in 0 .. f /\ q <= e /\ q + 1 <= e /\ q + 1 \in 1 .. e
            /\ q \in 0 .. e
        BY <1>1, <1>13, <2>1
      <3>1. /\ h[q] = g[q] /\ h[q + 1] = g[q + 1] /\ t[q + 1] = s[q + 1]
            /\ ScanStep(c, n, g[q], s[q + 1], g[q + 1])
        BY <1>2, <1>3, <2>1, <3>0
      <3>2. g[q].read \in Int
        BY <1>2, <3>0 DEF Scanned
      <3> HIDE DEF h
      <3> QED
        BY <1>1, <3>1, <3>2 DEF ScanStep
    <2>2. CASE q = e
      <3>1. /\ h[q] = [read |-> n, key |-> FALSE] /\ t[q + 1] = b
            /\ h[q + 1] = IF b = FF THEN [read |-> n, key |-> TRUE]
                          ELSE [read |-> n + 1, key |-> FALSE]
        <4>1. /\ q \in 0 .. f /\ q + 1 \in 0 .. f /\ q <= e /\ ~(q + 1 <= e) /\ q + 1 = e + 1
              /\ (q + 1 = f <=> b # FF)
          BY <1>1, <1>13, <2>2
        <4>2. h[q] = g[e] /\ h[q + 1] = IF q + 1 = f THEN [read |-> n + 1, key |-> FALSE]
                                        ELSE [read |-> n, key |-> TRUE]
          BY <2>2, <4>1
        <4> HIDE DEF h
        <4> QED
          BY <1>2, <1>3, <4>1, <4>2
      <3> HIDE DEF h
      <3> QED
        BY <1>1, <3>1 DEF ScanStep, b
    <2>3. CASE q > e
      <3>1. /\ b = FF /\ q = e + 1 /\ q + 1 = f /\ t[q + 1] = ESC
            /\ h[q] = [read |-> n, key |-> TRUE] /\ h[q + 1] = [read |-> n + 1, key |-> FALSE]
        <4>1. /\ q = e + 1 /\ q + 1 = f /\ b = FF /\ q \in 0 .. f /\ q + 1 \in 0 .. f
              /\ ~(q <= e) /\ ~(q + 1 <= e) /\ q # f /\ q + 1 = e + 2
          BY <1>1, <1>13, <2>3
        <4>2. h[q] = [read |-> n, key |-> TRUE] /\ h[q + 1] = [read |-> n + 1, key |-> FALSE]
          BY <4>1
        <4> QED
          BY <1>3, <4>1, <4>2
      <3> HIDE DEF h
      <3> QED
        BY <1>1, <3>1 DEF ScanStep, b
    <2> QED
      BY <1>1, <1>13, <2>1, <2>2, <2>3
  <1>7. Scan(c, t, n + 1, h)
    <2> HIDE DEF h
    <2> QED
      BY <1>3, <1>4, <1>5, <1>6 DEF Scan, f
  <1> QED
    BY <1>7 DEF t, b

LEMMA StuffIs ==
    ASSUME NEW c \in Seq(Byte), Len(c) >= 1
    PROVE  \E g : Scan(c, Stuff(c), Len(c), g)
  <1> DEFINE n == Len(c)
             seqs == [i \in 1 .. n |-> Stuffed(c[i])]
  <1>1. n \in Nat /\ n >= 1 /\ Len(seqs) = n /\ \A i \in 1 .. n : seqs[i] = Stuffed(c[i])
    OBVIOUS
  <1>2. Stuff(c) = FlattenSeq(seqs)
    <2>1. seqs = [i \in 1 .. Len(c) |-> IF c[i] = FF THEN <<FF, ESC>> ELSE <<c[i]>>]
      BY DEF Stuffed
    <2> QED
      BY <2>1, Zenon DEF Stuff
  <1> HIDE DEF seqs
  <1>3. PICK w : /\ FlattenSeq(seqs) = w[n] /\ w[1] = seqs[1]
                 /\ \A i \in 2 .. n : w[i] = w[i - 1] \o seqs[i]
    <2>1. Len(seqs) \in Nat /\ Len(seqs) >= 1
      BY <1>1
    <2>2. \E w : /\ FlattenSeq(seqs) = w[Len(seqs)] /\ w[1] = seqs[1]
                 /\ \A i \in 2 .. Len(seqs) : w[i] = w[i - 1] \o seqs[i]
      BY <2>1, FlattenIs, Zenon
    <2> QED
      BY <1>1, <2>2
  <1> DEFINE Done(m) == \E g : Scan(c, w[m], m, g)
             S == {m \in Nat : m + 1 <= n => Done(m + 1)}
  <1>4. Done(1)
    <2> DEFINE g == [q \in 0 .. 0 |-> [read |-> 0, key |-> FALSE]]
    <2>1. Scan(c, <<>>, 0, g)
      <3>1. <<>> \in Seq(Byte) /\ Len(<<>>) = 0 /\ g[0] = [read |-> 0, key |-> FALSE]
            /\ 0 .. 0 - 1 = {}
        OBVIOUS
      <3>2. g \in [0 .. 0 -> Scanned(0)]
        BY DEF Scanned
      <3> HIDE DEF g
      <3> QED
        BY <3>1, <3>2 DEF Scan
    <2>2. 0 \in 0 .. Len(c) - 1 /\ 0 + 1 = 1
      BY <1>1
    <2> HIDE DEF g
    <2>3. \E h : Scan(c, <<>> \o Stuffed(c[0 + 1]), 0 + 1, h)
      BY <2>1, <2>2, ScanGrows
    <2>4. <<>> \o Stuffed(c[1]) = w[1]
      <3>1. c[1] \in Byte /\ FF \in Byte /\ ESC \in Byte /\ w[1] = Stuffed(c[1])
        BY <1>1, <1>3, Constants
      <3>2. Stuffed(c[1]) \in Seq(Byte)
        BY <3>1 DEF Stuffed
      <3>3. <<>> \o Stuffed(c[1]) = Stuffed(c[1])
        BY <3>2
      <3> QED
        BY <3>1, <3>3
    <2> QED
      BY <2>2, <2>3, <2>4
  <1>5. 0 \in S
    BY <1>4
  <1>6. ASSUME NEW m \in S PROVE m + 1 \in S
    <2>1. m \in Nat /\ (m + 1 <= n => Done(m + 1))
      OBVIOUS
    <2>2. ASSUME m + 1 + 1 <= n PROVE Done(m + 1 + 1)
      <3>1. /\ m + 1 <= n /\ m + 1 \in 0 .. Len(c) - 1 /\ m + 1 + 1 \in 2 .. n
            /\ m + 1 + 1 - 1 = m + 1 /\ m + 1 + 1 \in 1 .. n
        BY <1>1, <2>1, <2>2
      <3>2. PICK g : Scan(c, w[m + 1], m + 1, g)
        BY <2>1, <3>1
      <3>3. \E h : Scan(c, w[m + 1] \o Stuffed(c[m + 1 + 1]), m + 1 + 1, h)
        BY <3>1, <3>2, ScanGrows
      <3>4. w[m + 1 + 1] = w[m + 1] \o Stuffed(c[m + 1 + 1])
        <4> DEFINE j == m + 1 + 1
        <4>1. j \in 2 .. n /\ j \in 1 .. n /\ j - 1 = m + 1
          BY <3>1
        <4> HIDE DEF j
        <4>2. w[j] = w[j - 1] \o seqs[j]
          BY <1>3, <4>1
        <4>3. w[j] = w[m + 1] \o Stuffed(c[j])
          BY <1>1, <4>1, <4>2
        <4> QED
          BY <4>3 DEF j
      <3> QED
        BY <3>3, <3>4
    <2> QED
      BY <2>1, <2>2
  <1>7. S = Nat
    <2>1. S \subseteq Nat
      OBVIOUS
    <2> HIDE DEF S
    <2> QED
      BY <1>5, <1>6, <2>1, NatSetInduction
  <1>8. n - 1 \in S /\ n - 1 + 1 = n
    <2>1. n - 1 \in Nat /\ n - 1 + 1 = n
      BY <1>1
    <2> HIDE DEF S
    <2> QED
      BY <1>7, <2>1
  <1>9. Done(n)
    BY <1>1, <1>8
  <1> QED
    BY <1>2, <1>3, <1>9

-----------------------------------------------------------------------------
(* The stream grows by a frame, whole or damaged.                          *)

\* What is said of the frames so far stays true when one is added.
LEMMA OneMore ==
    ASSUME NEW frames \in Seq(Frame), NEW f \in Frame
    PROVE  LET fs == Append(frames, f)
           IN  /\ fs \in Seq(Frame) /\ Len(fs) = Len(frames) + 1 /\ Len(frames) \in Nat
               /\ Last(fs) = f /\ fs # <<>>
               /\ \A k \in 1 .. Len(frames) : fs[k] = frames[k]
               /\ fs[Len(frames) + 1] = f
               /\ Clean(fs) => Clean(frames) /\ f.intact
                               /\ (frames = <<>> \/ Last(frames).intact)
               /\ \A k \in 0 .. Len(frames) : Size(fs, k) = Size(frames, k)
               /\ \A k \in 1 .. Len(frames) : \A i :
                     ContentAt(fs, k, i) = ContentAt(frames, k, i)
               /\ \A k \in 1 .. Len(frames) : WholePacket(fs, k) = WholePacket(frames, k)
  <1> DEFINE fs == Append(frames, f)
  <1>1. /\ fs \in Seq(Frame) /\ Len(fs) = Len(frames) + 1 /\ Len(frames) \in Nat
        /\ \A k \in 1 .. Len(frames) : fs[k] = frames[k]
        /\ fs[Len(frames) + 1] = f /\ fs # <<>>
    OBVIOUS
  <1> HIDE DEF fs
  <1>2. Last(fs) = f
    BY <1>1 DEF Last
  <1>3. ASSUME Clean(fs)
        PROVE  Clean(frames) /\ f.intact /\ (frames = <<>> \/ Last(frames).intact)
    <2>1. \A i \in 1 .. Len(frames) + 1 : fs[i].intact
      BY <1>1, <1>3 DEF Clean
    <2>2. \A i \in 1 .. Len(frames) : frames[i].intact
      BY <1>1, <2>1
    <2>3. f.intact
      BY <1>1, <2>1
    <2>4. frames = <<>> \/ Last(frames).intact
      <3>1. CASE Len(frames) = 0
        BY <3>1
      <3>2. CASE Len(frames) # 0
        BY <1>1, <2>2, <3>2 DEF Last
      <3> QED
        BY <3>1, <3>2
    <2> QED
      BY <2>2, <2>3, <2>4 DEF Clean
  <1>4. \A k \in 0 .. Len(frames) : Size(fs, k) = Size(frames, k)
    BY <1>1 DEF Size
  <1>5. \A k \in 1 .. Len(frames) : \A i : ContentAt(fs, k, i) = ContentAt(frames, k, i)
    BY <1>1 DEF ContentAt
  <1>6. \A k \in 1 .. Len(frames) : WholePacket(fs, k) = WholePacket(frames, k)
    BY <1>1 DEF WholePacket
  <1> QED
    BY <1>1, <1>2, <1>3, <1>4, <1>5, <1>6 DEF fs

LEMMA SizeIs ==
    ASSUME NEW frames \in Seq(Frame), NEW k \in 0 .. Len(frames)
    PROVE  /\ Size(frames, k) \in Nat /\ (k = 0 <=> Size(frames, k) = 0)
           /\ k # 0 => /\ Size(frames, k) >= 3 /\ frames[k].body \in Bodies
                       /\ Size(frames, k) = Len(frames[k].body) + 2
                       /\ Size(frames, k) + 2 + FifoCap <= RingSize
                       /\ \A i \in 1 .. Size(frames, k) : ContentAt(frames, k, i) \in Byte
                       /\ ContentAt(frames, k, 1) # FF /\ ContentAt(frames, k, 1) # ESC
                       /\ ContentAt(frames, k, 1) * ByteRadix + ContentAt(frames, k, 2)
                             = Size(frames, k) - 2
  <1>1. CASE k = 0
    BY <1>1 DEF Size
  <1>2. CASE k # 0
    <2>1. frames[k] \in Frame
      BY <1>2
    <2>2. frames[k].body \in Bodies
      BY <2>1 DEF Frame
    <2> DEFINE b == frames[k].body
    <2>3. Size(frames, k) = Len(b) + 2
      BY <1>2 DEF Size
    <2>4. /\ Content(b) \in Seq(Byte) /\ Len(Content(b)) = Len(b) + 2
          /\ Len(b) \in Nat /\ Len(b) >= 1
          /\ Content(b)[1] # FF /\ Content(b)[1] # ESC
          /\ Content(b)[1] * ByteRadix + Content(b)[2] = Len(b)
      BY <2>2, ContentIs
    <2>5. Len(b) + 4 + FifoCap <= RingSize
      BY <2>2, Room
    <2>6. \A i : ContentAt(frames, k, i) = Content(b)[i]
      BY DEF ContentAt
    <2>7. \A i \in 1 .. Size(frames, k) : ContentAt(frames, k, i) \in Byte
      <3> DEFINE c == Content(b)
      <3>1. c \in Seq(Byte) /\ Len(c) = Size(frames, k)
        BY <2>3, <2>4
      <3> HIDE DEF c
      <3>2. \A i \in 1 .. Size(frames, k) : c[i] \in Byte
        BY <3>1
      <3> QED
        BY <2>6, <3>2 DEF c
    <2>8. FifoCap \in Nat /\ RingSize \in Nat
      BY Constants
    <2> DEFINE t == ContentAt(frames, k, 1) * ByteRadix
    <2>9. t + ContentAt(frames, k, 2) = Len(b)
      BY <2>4, <2>6
    <2> HIDE DEF b, t
    <2>10. Len(b) = Size(frames, k) - 2 /\ Size(frames, k) >= 3 /\ Size(frames, k) \in Nat
           /\ Size(frames, k) + 2 + FifoCap <= RingSize
      BY <2>3, <2>4, <2>5, <2>8
    <2>11. ContentAt(frames, k, 1) # FF /\ ContentAt(frames, k, 1) # ESC
      BY <2>4, <2>6
    <2>12. Size(frames, k) = Len(b) + 2 /\ b \in Bodies
      BY <2>2, <2>3 DEF b
    <2> QED
      BY <1>2, <2>7, <2>9, <2>10, <2>11, <2>12 DEF t, b
  <1> QED
    BY <1>1, <1>2

LEMMA PlaceIs ==
    ASSUME NEW frames \in Seq(Frame), NEW x \in Place(frames)
    PROVE  /\ x = [frame |-> x.frame, read |-> x.read, key |-> x.key]
           /\ x.frame \in 0 .. Len(frames) /\ x.key \in BOOLEAN
           /\ x.read \in -1 .. Size(frames, x.frame) /\ x.read \in Int
           /\ x.read = -1 => x.frame # 0 /\ ~x.key
           /\ x.key => /\ x.read \in 1 .. Size(frames, x.frame) - 1
                       /\ ContentAt(frames, x.frame, x.read + 1) = FF
           /\ x.frame = 0 => x.read = 0 /\ ~x.key
  <1>1. /\ x = [frame |-> x.frame, read |-> x.read, key |-> x.key]
        /\ x.frame \in 0 .. Len(frames) /\ x.key \in BOOLEAN
        /\ x.read \in -1 .. Size(frames, x.frame) /\ x.read \in Int
        /\ x.read = -1 => x.frame # 0 /\ ~x.key
        /\ x.key => /\ x.read \in 1 .. Size(frames, x.frame) - 1
                    /\ ContentAt(frames, x.frame, x.read + 1) = FF
    BY DEF Place
  <1>2. ASSUME x.frame = 0 PROVE x.read = 0 /\ ~x.key
    <2>1. Size(frames, x.frame) = 0
      BY <1>2 DEF Size
    <2> QED
      BY <1>1, <1>2, <2>1
  <1> QED
    BY <1>1, <1>2

LEMMA PlaceStays ==
    ASSUME NEW frames \in Seq(Frame), NEW f \in Frame, NEW x \in Place(frames)
    PROVE  LET fs == Append(frames, f)
           IN  /\ x \in Place(fs)
               /\ Size(fs, x.frame) = Size(frames, x.frame)
               /\ Between(fs, x) <=> Between(frames, x)
               /\ Held(fs, x) = Held(frames, x)
               /\ x.frame # 0 => \A i : PacketAt(fs, x.frame, i) = PacketAt(frames, x.frame, i)
               /\ x.frame # 0 => \A i : ContentAt(fs, x.frame, i) = ContentAt(frames, x.frame, i)
               /\ x.frame # 0 => WholePacket(fs, x.frame) = WholePacket(frames, x.frame)
               /\ \A b, y : GoesOn(frames, x, b, y) => GoesOn(fs, x, b, y)
  <1> DEFINE fs == Append(frames, f)
  <1>1. /\ Len(fs) = Len(frames) + 1 /\ Len(frames) \in Nat
        /\ Clean(fs) => Clean(frames)
        /\ \A k \in 0 .. Len(frames) : Size(fs, k) = Size(frames, k)
        /\ \A k \in 1 .. Len(frames) : \A i : ContentAt(fs, k, i) = ContentAt(frames, k, i)
        /\ \A k \in 1 .. Len(frames) : WholePacket(fs, k) = WholePacket(frames, k)
    BY OneMore
  <1> HIDE DEF fs
  <1>2. /\ x = [frame |-> x.frame, read |-> x.read, key |-> x.key]
        /\ x.frame \in 0 .. Len(frames) /\ x.key \in BOOLEAN
        /\ x.read \in -1 .. Size(frames, x.frame) /\ x.read \in Int
        /\ x.read = -1 => x.frame # 0 /\ ~x.key
        /\ x.key => /\ x.read \in 1 .. Size(frames, x.frame) - 1
                    /\ ContentAt(frames, x.frame, x.read + 1) = FF
        /\ x.frame = 0 => x.read = 0 /\ ~x.key
    BY PlaceIs
  <1>3. Size(fs, x.frame) = Size(frames, x.frame)
    BY <1>1, <1>2
  <1>4. ASSUME x.frame # 0
        PROVE  /\ \A i : ContentAt(fs, x.frame, i) = ContentAt(frames, x.frame, i)
               /\ WholePacket(fs, x.frame) = WholePacket(frames, x.frame)
    BY <1>1, <1>2, <1>4
  <1>5. x.frame # 0 => \A i : PacketAt(fs, x.frame, i) = PacketAt(frames, x.frame, i)
    BY <1>4 DEF PacketAt
  <1>6. Between(fs, x) <=> Between(frames, x)
    BY <1>3 DEF Between
  <1>7. Held(fs, x) = Held(frames, x)
    BY <1>6 DEF Held
  <1>8. x.frame = 0 => Size(frames, x.frame) = 0
    BY DEF Size
  <1>9. x \in Place(fs)
    <2>1. x.frame \in 0 .. Len(fs)
      BY <1>1, <1>2
    <2>2. x.key => ContentAt(fs, x.frame, x.read + 1) = FF
      BY <1>2, <1>4
    <2>3. x \in [frame : 0 .. Len(fs), read : Int, key : BOOLEAN]
      BY <1>2, <2>1
    <2> QED
      BY <1>2, <1>3, <2>2, <2>3 DEF Place
  <1>10. ASSUME NEW b, NEW y, GoesOn(frames, x, b, y) PROVE GoesOn(fs, x, b, y)
    <2>1. CASE ~x.key /\ x.read \in 0 .. Size(frames, x.frame) - 1
      <3>1. x.frame # 0
        BY <1>8, <2>1
      <3>2. ContentAt(fs, x.frame, x.read + 1) = ContentAt(frames, x.frame, x.read + 1)
        BY <1>4, <3>1
      <3> QED
        BY <1>1, <1>3, <1>6, <1>10, <3>2 DEF GoesOn
    <2>2. CASE ~(~x.key /\ x.read \in 0 .. Size(frames, x.frame) - 1)
      BY <1>1, <1>3, <1>6, <1>10, <2>2 DEF GoesOn
    <2> QED
      BY <2>1, <2>2
  <1> QED
    BY <1>3, <1>4, <1>5, <1>6, <1>7, <1>9, <1>10 DEF fs

\* The places on the way through a whole frame.
LEMMA FramePlaces ==
    ASSUME NEW frames \in Seq(Frame), NEW b \in Bodies, NEW f \in Frame, f.body = b
    PROVE  LET fs == Append(frames, f)
               k == Len(frames) + 1
               z == Encode(b)
           IN  /\ z \in Seq(Byte) /\ Len(z) >= 2 /\ z[1] = FF
               /\ \E t \in [1 .. Len(z) -> Place(fs)] :
                     /\ t[1] = [frame |-> k, read |-> -1, key |-> FALSE]
                     /\ Between(fs, t[Len(z)]) /\ t[Len(z)].frame = k
                     /\ \A q \in 1 .. Len(z) - 1 : GoesOn(fs, t[q], z[q + 1], t[q + 1])
  <1> DEFINE fs == Append(frames, f)
             k == Len(frames) + 1
             z == Encode(b)
             c == Content(b)
             s == Stuff(c)
             n == Len(c)
  <1>1. /\ c \in Seq(Byte) /\ n = Len(b) + 2 /\ Len(b) \in Nat /\ c[1] # FF
    BY ContentIs
  <1>2. fs[k] = f /\ k \in 1 .. Len(fs) /\ k # 0 /\ k \in Nat /\ Len(fs) = k
    BY OneMore
  <1>3. Size(fs, k) = n /\ \A i : ContentAt(fs, k, i) = c[i]
    BY <1>1, <1>2 DEF Size, ContentAt
  <1>4. PICK g : Scan(c, s, n, g)
    <2>1. n >= 1
      BY <1>1
    <2> HIDE DEF c
    <2> QED
      BY <1>1, <2>1, StuffIs
  <1> HIDE DEF c, s, fs
  <1>5. /\ s \in Seq(Byte) /\ g \in [0 .. Len(s) -> Scanned(n)]
        /\ g[0] = [read |-> 0, key |-> FALSE] /\ g[Len(s)] = [read |-> n, key |-> FALSE]
        /\ \A q \in 0 .. Len(s) - 1 : ScanStep(c, n, g[q], s[q + 1], g[q + 1])
    BY <1>4 DEF Scan
  <1>6. n \in Nat /\ n >= 2
    BY <1>1
  <1>7. /\ z \in Seq(Byte) /\ Len(z) = Len(s) + 2 /\ z[1] = FF /\ z[2] = FF
        /\ \A q \in 1 .. Len(s) : z[q + 2] = s[q]
        /\ Len(s) \in Nat
    <2>1. <<FF, FF>> \in Seq(Byte) /\ Len(<<FF, FF>>) = 2
      BY Constants
    <2>2. z = <<FF, FF>> \o s
      BY DEF Encode, s, c
    <2> HIDE DEF z
    <2> QED
      BY <1>5, <2>1, <2>2
  <1> HIDE DEF z, k, n
  <1> DEFINE t == [q \in 1 .. Len(z) |->
                     IF q = 1 THEN [frame |-> k, read |-> -1, key |-> FALSE]
                     ELSE [frame |-> k, read |-> g[q - 2].read, key |-> g[q - 2].key]]
  <1>8. \A j \in 0 .. Len(s) : g[j].read \in 0 .. n /\ g[j].key \in BOOLEAN
    BY <1>5 DEF Scanned
  <1>9. ASSUME NEW j \in 0 .. Len(s), g[j].key
        PROVE  g[j].read \in 1 .. n - 1 /\ c[g[j].read + 1] = FF
    <2>1. j # Len(s)
      BY <1>5, <1>9
    <2>2. j \in 0 .. Len(s) - 1
      BY <1>7, <2>1
    <2>3. ScanStep(c, n, g[j], s[j + 1], g[j + 1])
      BY <1>5, <2>2
    <2>4. g[j].read < n /\ c[g[j].read + 1] = FF
      BY <1>9, <2>3 DEF ScanStep
    <2>5. g[j].read \in 0 .. n
      BY <1>8
    <2>6. g[j].read # 0
      <3>1. SUFFICES ASSUME g[j].read = 0 PROVE FALSE
        OBVIOUS
      <3>2. c[0 + 1] = FF
        BY <2>4, <3>1
      <3> QED
        BY <1>1, <3>2
    <2> QED
      BY <1>6, <2>4, <2>5, <2>6
  <1>10. ASSUME NEW q \in 1 .. Len(z) PROVE t[q] \in Place(fs)
    <2>1. CASE q = 1
      <3>1. t[q] = [frame |-> k, read |-> -1, key |-> FALSE]
        BY <2>1
      <3> HIDE DEF t
      <3> QED
        BY <1>2, <1>3, <1>6, <3>1 DEF Place
    <2>2. CASE q # 1
      <3> DEFINE j == q - 2
      <3>1. j \in 0 .. Len(s) /\ t[q] = [frame |-> k, read |-> g[j].read, key |-> g[j].key]
        BY <1>7, <2>2
      <3> HIDE DEF t, j
      <3>2. g[j].read \in 0 .. n /\ g[j].key \in BOOLEAN
            /\ (g[j].key => g[j].read \in 1 .. n - 1 /\ c[g[j].read + 1] = FF)
        BY <1>8, <1>9, <3>1
      <3> QED
        BY <1>2, <1>3, <1>6, <3>1, <3>2 DEF Place
    <2> QED
      BY <2>1, <2>2
  <1>11. ASSUME NEW q \in 1 .. Len(z) - 1
         PROVE  GoesOn(fs, t[q], z[q + 1], t[q + 1])
    <2>1. CASE q = 1
      <3>1. /\ t[q] = [frame |-> k, read |-> -1, key |-> FALSE]
            /\ t[q + 1] = [frame |-> k, read |-> 0, key |-> FALSE] /\ z[q + 1] = FF
        <4>1. q \in 1 .. Len(z) /\ q + 1 \in 1 .. Len(z) /\ q + 1 # 1 /\ q + 1 = 2 /\ q + 1 - 2 = 0
          BY <1>7, <2>1
        <4>2. t[q + 1] = [frame |-> k, read |-> g[q + 1 - 2].read, key |-> g[q + 1 - 2].key]
          BY <4>1
        <4>3. t[q] = [frame |-> k, read |-> -1, key |-> FALSE]
          BY <2>1, <4>1
        <4>4. g[q + 1 - 2].read = 0 /\ g[q + 1 - 2].key = FALSE
          BY <1>5, <4>1
        <4>5. z[q + 1] = FF
          BY <1>7, <4>1
        <4> QED
          BY <4>2, <4>3, <4>4, <4>5
      <3> HIDE DEF t
      <3> QED
        BY <3>1 DEF GoesOn
    <2>2. CASE q # 1
      <3> DEFINE j == q - 2
                 x == g[j]
                 y == g[j + 1]
      <3>1. /\ j \in 0 .. Len(s) - 1 /\ z[q + 1] = s[j + 1]
            /\ t[q] = [frame |-> k, read |-> x.read, key |-> x.key]
            /\ t[q + 1] = [frame |-> k, read |-> y.read, key |-> y.key]
        <4>1. j \in 0 .. Len(s) - 1 /\ j + 1 \in 1 .. Len(s) /\ q + 1 = (j + 1) + 2
              /\ q \in 1 .. Len(z) /\ q + 1 \in 1 .. Len(z) /\ q + 1 # 1 /\ q + 1 - 2 = j + 1
          BY <1>7, <2>2
        <4>2. z[q + 1] = s[j + 1]
          BY <1>7, <4>1
        <4>3. t[q] = [frame |-> k, read |-> x.read, key |-> x.key]
          BY <2>2, <4>1
        <4>4. t[q + 1] = [frame |-> k, read |-> y.read, key |-> y.key]
          BY <4>1
        <4> QED
          BY <4>1, <4>2, <4>3, <4>4
      <3>2. ScanStep(c, n, x, s[j + 1], y) /\ x.read \in 0 .. n /\ x.key \in BOOLEAN
        BY <1>5, <1>7, <1>8, <3>1
      <3> HIDE DEF t, j, x, y
      <3>3. CASE x.key
        <4>1. y = [read |-> x.read + 1, key |-> FALSE] /\ s[j + 1] = ESC
          BY <3>2, <3>3 DEF ScanStep
        <4>2. t[q + 1] = [frame |-> k, read |-> x.read + 1, key |-> FALSE] /\ z[q + 1] = ESC
          BY <3>1, <4>1
        <4>3. t[q].key /\ t[q].frame = k /\ t[q].read = x.read
          BY <3>1, <3>3
        <4> QED
          BY <4>2, <4>3 DEF GoesOn
      <3>4. CASE ~x.key
        <4>1. /\ x.read \in 0 .. n - 1 /\ z[q + 1] = ContentAt(fs, k, x.read + 1)
              /\ z[q + 1] = c[x.read + 1]
          BY <1>3, <1>6, <3>1, <3>2, <3>4 DEF ScanStep
        <4>2. t[q].key = FALSE /\ t[q].frame = k /\ t[q].read = x.read
          BY <3>1, <3>2, <3>4
        <4>3. CASE z[q + 1] = FF
          <5>1. y = [read |-> x.read, key |-> TRUE]
            BY <3>1, <3>2, <3>4, <4>3 DEF ScanStep
          <5>2. t[q + 1] = [frame |-> k, read |-> x.read, key |-> TRUE]
            BY <3>1, <5>1
          <5> QED
            BY <1>3, <4>1, <4>2, <4>3, <5>2 DEF GoesOn
        <4>4. CASE z[q + 1] # FF
          <5>1. y = [read |-> x.read + 1, key |-> FALSE]
            BY <3>1, <3>2, <3>4, <4>4 DEF ScanStep
          <5>2. t[q + 1] = [frame |-> k, read |-> x.read + 1, key |-> FALSE]
            BY <3>1, <5>1
          <5> QED
            BY <1>3, <4>1, <4>2, <4>4, <5>2 DEF GoesOn
        <4> QED
          BY <4>3, <4>4
      <3> QED
        BY <3>3, <3>4
    <2> QED
      BY <2>1, <2>2
  <1>12. /\ t[1] = [frame |-> k, read |-> -1, key |-> FALSE]
         /\ t[Len(z)] = [frame |-> k, read |-> n, key |-> FALSE]
    <2>1. Len(s) # 0
      <3>1. g[0] # g[Len(s)]
        BY <1>5, <1>6
      <3> QED
        BY <3>1
    <2>2. Len(z) - 2 = Len(s) /\ Len(z) \in 1 .. Len(z) /\ Len(z) # 1 /\ 1 \in 1 .. Len(z)
      BY <1>7, <2>1
    <2>3. \A q \in 1 .. Len(z) : q # 1 =>
            t[q] = [frame |-> k, read |-> g[q - 2].read, key |-> g[q - 2].key]
      OBVIOUS
    <2>4. g[Len(z) - 2].read = n /\ g[Len(z) - 2].key = FALSE
      <3> HIDE DEF t
      <3>1. g[Len(s)].read = n /\ g[Len(s)].key = FALSE
        BY <1>5
      <3> QED
        BY <2>2, <3>1
    <2>5. t[1] = [frame |-> k, read |-> -1, key |-> FALSE]
      BY <2>2
    <2> HIDE DEF t
    <2>6. t[Len(z)] = [frame |-> k, read |-> g[Len(z) - 2].read, key |-> g[Len(z) - 2].key]
      BY <2>2, <2>3
    <2>7. t[Len(z)] = [frame |-> k, read |-> n, key |-> FALSE]
      BY <2>4, <2>6
    <2> QED
      BY <2>5, <2>7
  <1>13. t \in [1 .. Len(z) -> Place(fs)]
    BY <1>10
  <1> HIDE DEF t
  <1>14. Between(fs, t[Len(z)]) /\ t[Len(z)].frame = k
    BY <1>3, <1>12 DEF Between
  <1>15. Len(z) >= 2
    BY <1>7
  <1> QED
    BY <1>7, <1>11, <1>12, <1>13, <1>14, <1>15 DEF z, fs, k

\* What is put on the line goes to the end of the stream.
LEMMA StreamGrows ==
    ASSUME NEW frames, NEW f, NEW fs, NEW S, NEW at, NEW z, NEW t,
           LeadsOn(frames, f, fs, S, at, z, t)
    PROVE  \E u : /\ StreamOK(fs, S \o z, u)
                  /\ \A q \in 0 .. Len(S) : u[q] = at[q]
  <1> DEFINE T == S \o z
             n == Len(S)
             m == Len(z)
             u == [q \in 0 .. n + m |-> IF q <= n THEN at[q] ELSE t[q - n]]
  <1>0. /\ z \in Seq(Byte) /\ t \in [1 .. m -> Place(fs)]
        /\ m > 0 => GoesOn(fs, at[n], z[1], t[1]) /\ Between(fs, t[m])
        /\ \A q \in 1 .. m - 1 : GoesOn(fs, t[q], z[q + 1], t[q + 1])
        /\ frames \in Seq(Frame) /\ f \in Frame /\ fs = Append(frames, f)
        /\ f.intact => m > 0 /\ t[m].frame = Len(frames) + 1
    BY DEF Leads, LeadsOn
  <1>1. /\ S \in Seq(Byte) /\ at \in [0 .. n -> Place(frames)]
        /\ \A q \in 0 .. n - 1 : GoesOn(frames, at[q], S[q + 1], at[q + 1])
        /\ Between(frames, at[n])
        /\ (frames = <<>> \/ Last(frames).intact) => at[n].frame = Len(frames)
    <2>1. StreamOK(frames, S, at)
      BY DEF LeadsOn
    <2> QED
      BY <2>1 DEF StreamOK
  <1>2. n \in Nat /\ m \in Nat
    BY <1>0, <1>1
  <1>3. /\ T \in Seq(Byte) /\ Len(T) = n + m
        /\ \A i \in 1 .. n : T[i] = S[i]
        /\ \A i \in 1 .. m : T[n + i] = z[i]
    BY <1>0, <1>1
  <1>4. /\ fs # <<>> /\ Last(fs) = f /\ Len(fs) = Len(frames) + 1
    BY <1>0, OneMore
  <1>5. \A q \in 0 .. n : /\ at[q] \in Place(fs)
                          /\ Between(fs, at[q]) <=> Between(frames, at[q])
                          /\ \A b, y : GoesOn(frames, at[q], b, y) => GoesOn(fs, at[q], b, y)
    <2>1. \A q \in 0 .. n : at[q] \in Place(frames)
      BY <1>1
    <2> QED
      BY <1>0, <2>1, PlaceStays
  <1> HIDE DEF T
  <1>6. ASSUME NEW q \in 0 .. n + m PROVE u[q] \in Place(fs)
    <2>1. CASE q <= n
      BY <1>2, <1>5, <2>1
    <2>2. CASE ~(q <= n)
      <3>1. q - n \in 1 .. m
        BY <1>2, <2>2
      <3>2. t[q - n] \in Place(fs)
        BY <1>0, <3>1
      <3> QED
        BY <2>2, <3>2
    <2> QED
      BY <2>1, <2>2
  <1>7. ASSUME NEW q \in 0 .. n + m - 1 PROVE GoesOn(fs, u[q], T[q + 1], u[q + 1])
    <2>0. q \in 0 .. n + m /\ q + 1 \in 0 .. n + m
      BY <1>2
    <2>1. CASE q < n
      <3>1. /\ u[q] = at[q] /\ u[q + 1] = at[q + 1] /\ T[q + 1] = S[q + 1]
            /\ q \in 0 .. n - 1 /\ q \in 0 .. n
        BY <1>2, <1>3, <2>0, <2>1
      <3> HIDE DEF u
      <3> QED
        BY <1>1, <1>5, <3>1
    <2>2. CASE q = n
      <3>1. u[q] = at[n] /\ u[q + 1] = t[1] /\ T[q + 1] = z[1] /\ m > 0
        BY <1>2, <1>3, <2>0, <2>2
      <3> HIDE DEF u
      <3> QED
        BY <1>0, <3>1
    <2>3. CASE q > n
      <3> DEFINE j == q - n
      <3>1. /\ j \in 1 .. m - 1 /\ u[q] = t[j] /\ u[q + 1] = t[j + 1] /\ T[q + 1] = z[j + 1]
        <4>1. j \in 1 .. m - 1 /\ q + 1 - n = j + 1 /\ q + 1 = n + (j + 1) /\ j + 1 \in 1 .. m
              /\ ~(q <= n) /\ ~(q + 1 <= n)
          <5> HIDE DEF n, m, u
          <5> QED
            BY <1>2, <2>3
        <4>2. T[n + (j + 1)] = z[j + 1]
          BY <1>3, <4>1
        <4>3. u[q] = t[j]
          BY <2>0, <4>1
        <4>4. u[q + 1] = t[q + 1 - n]
          BY <2>0, <4>1
        <4>5. u[q + 1] = t[j + 1] /\ T[q + 1] = z[j + 1]
          BY <4>1, <4>2, <4>4
        <4> QED
          BY <4>1, <4>3, <4>5
      <3> HIDE DEF u, j
      <3> QED
        BY <1>0, <3>1
    <2> QED
      BY <1>2, <2>1, <2>2, <2>3
  <1>10. u \in [0 .. n + m -> Place(fs)]
    BY <1>6
  <1>11. ASSUME Between(fs, u[n + m]), f.intact => u[n + m].frame = Len(fs)
         PROVE  StreamOK(fs, T, u)
    <2> HIDE DEF u, n, m
    <2>1. Len(T) = n + m
      BY <1>3
    <2>2. (fs = <<>> \/ Last(fs).intact) => u[Len(T)].frame = Len(fs)
      BY <1>4, <1>11, <2>1
    <2>3. T \in Seq(Byte) /\ u \in [0 .. Len(T) -> Place(fs)]
      BY <1>3, <1>10, <2>1
    <2>4. ASSUME NEW q \in 0 .. Len(T) - 1 PROVE GoesOn(fs, u[q], T[q + 1], u[q + 1])
      <3>1. q \in 0 .. n + m - 1
        BY <1>2, <2>1
      <3> QED
        BY <1>7, <3>1
    <2>5. Between(fs, u[Len(T)])
      BY <1>11, <2>1
    <2>6. \A q \in 0 .. Len(T) - 1 : GoesOn(fs, u[q], T[q + 1], u[q + 1])
      BY <2>4
    <2> QED
      BY <2>2, <2>3, <2>5, <2>6 DEF StreamOK
  <1>8. ASSUME m = 0 PROVE StreamOK(fs, T, u)
    <2>1. u[n + m] = at[n] /\ n \in 0 .. n
      BY <1>2, <1>8
    <2>2. Between(fs, u[n + m]) /\ ~f.intact
      BY <1>0, <1>1, <1>5, <1>8, <2>1
    <2> QED
      BY <1>11, <2>2
  <1>9. ASSUME m # 0 PROVE StreamOK(fs, T, u)
    <2>1. u[n + m] = t[m] /\ m > 0
      BY <1>2, <1>9
    <2>2. Between(fs, u[n + m]) /\ (f.intact => u[n + m].frame = Len(fs))
      <3> HIDE DEF u
      <3> QED
        BY <1>0, <1>4, <2>1
    <2> QED
      BY <1>11, <2>2
  <1>12. \A q \in 0 .. n : u[q] = at[q]
    BY <1>2
  <1>13. StreamOK(fs, T, u)
    BY <1>8, <1>9
  <1> HIDE DEF u
  <1> QED
    BY <1>12, <1>13 DEF T

\* Nothing is said of the parser but what it knows of the place it is at.
LEMMA FramesKept ==
    ASSUME McuInv, NEW f \in Frame, sent' = Append(sent, f), NEW z \in Seq(Byte), line' = z,
           line = <<>>, UNCHANGED <<fifo, armed, event, extracting, ringVars, parseVars, delivered>>,
           NEW S, NEW at, NEW p \in 0 .. Len(S), StreamOK(sent, S, at), RestOK(S, p),
           ParserAt(at[p]), HeldOK(at[p]), DeliveredOK(at[p]),
           NEW u, StreamOK(sent', S \o z, u), u[p] = at[p]
    PROVE  FramesInv'
  <1> DEFINE x == at[p]
  <1>1. /\ S \in Seq(Byte) /\ at \in [0 .. Len(S) -> Place(sent)] /\ Len(S) \in Nat
        /\ sent \in Seq(Frame)
    BY DEF StreamOK, McuInv
  <1>2. x \in Place(sent)
    BY <1>1
  <1> HIDE DEF x
  <1>3. /\ Size(sent', x.frame) = Size(sent, x.frame)
        /\ Between(sent', x) <=> Between(sent, x)
        /\ Held(sent', x) = Held(sent, x)
        /\ x.frame # 0 => \A i : PacketAt(sent', x.frame, i) = PacketAt(sent, x.frame, i)
        /\ x.frame # 0 => \A i : ContentAt(sent', x.frame, i) = ContentAt(sent, x.frame, i)
        /\ x.frame # 0 => WholePacket(sent', x.frame) = WholePacket(sent, x.frame)
    BY <1>1, <1>2, PlaceStays
  <1>4. /\ x.frame \in 0 .. Len(sent) /\ x.read \in Int
        /\ x.read \in -1 .. Size(sent, x.frame)
        /\ (x.frame = 0 => x.read = 0 /\ ~x.key)
        /\ (x.frame = 0 => Size(sent, x.frame) = 0)
    BY <1>1, <1>2, PlaceIs, SizeIs
  <1>5. /\ Clean(sent') => Clean(sent)
        /\ \A k \in 1 .. Len(sent) : WholePacket(sent', k) = WholePacket(sent, k)
        /\ Len(sent) \in Nat
    BY <1>1, OneMore
  <1>6. UNCHANGED <<fifo, hal_RxBuffer, pos_start, pos_current, gu8LocalHalStatus,
                    halRecKeyWord, gu16LocalPacketDataLen, guiLocalPacketStart, delivered>>
    BY DEF ringVars, parseVars
  <1>7. ParserAt(x)'
    <2>1. ParserAt(x)
      BY DEF x
    <2> QED
      BY <1>3, <1>4, <1>6, <2>1 DEF ParserAt
  <1>8. HeldOK(x)'
    <2>1. HeldOK(x)
      BY DEF x
    <2>2. CASE x.frame = 0
      <3>1. Held(sent, x) = 0
        BY <1>4, <2>2 DEF Held, Between
      <3> QED
        BY <1>3, <1>6, <2>1, <3>1 DEF HeldOK
    <2>3. CASE x.frame # 0
      BY <1>3, <1>6, <2>1, <2>3 DEF HeldOK, Mask
    <2> QED
      BY <2>2, <2>3
  <1>9. DeliveredOK(x)'
    <2>1. DeliveredOK(x)
      BY DEF x
    <2>2. Whole(x)' = Whole(x) /\ Whole(x) \in Int /\ Whole(x) <= Len(sent)
      BY <1>3, <1>4, <1>5 DEF Whole
    <2>3. ASSUME Clean(sent')
          PROVE  delivered' = [i \in 1 .. Whole(x)' |-> WholePacket(sent', i)]
      <3>1. delivered = [i \in 1 .. Whole(x) |-> WholePacket(sent, i)]
        BY <1>5, <2>1, <2>3 DEF DeliveredOK
      <3>2. \A i \in 1 .. Whole(x) : WholePacket(sent', i) = WholePacket(sent, i)
        BY <1>5, <2>2
      <3> QED
        BY <1>6, <2>2, <3>1, <3>2
    <2>4. (x.frame # 0 /\ Between(sent', x)) =>
              delivered' # <<>> /\ Last(delivered') = WholePacket(sent', x.frame)
      BY <1>3, <1>6, <2>1 DEF DeliveredOK
    <2> QED
      BY <2>3, <2>4 DEF DeliveredOK
  <1>10. RestOK(S \o z, p)'
    <2> DEFINE T == S \o z
    <2>1. /\ T \in Seq(Byte) /\ Len(T) = Len(S) + Len(z) /\ Len(z) \in Nat
          /\ \A i \in 1 .. Len(S) : T[i] = S[i]
          /\ \A i \in 1 .. Len(z) : T[Len(S) + i] = z[i]
      BY <1>1
    <2> HIDE DEF T
    <2>2. /\ Len(S) = p + Unread + Len(fifo) + Len(line)
          /\ \A i \in 1 .. Unread : hal_RxBuffer[Mask(pos_start + i - 1)] = S[p + i]
          /\ \A i \in 1 .. Len(fifo) : fifo[i] = S[p + Unread + i]
      BY DEF RestOK
    <2>3. Len(line) = 0 /\ Unread \in Nat /\ Len(fifo) \in Nat /\ p \in Nat /\ Unread' = Unread
      <3>1. McuTypeOK
        BY DEF McuInv
      <3> QED
        BY <1>1, <1>6, <3>1 DEF McuTypeOK, Unread
    <2>4. Len(T) = p + Unread + Len(fifo) + Len(z)
      BY <2>1, <2>2, <2>3
    <2>5. \A i \in 1 .. Unread : hal_RxBuffer[Mask(pos_start + i - 1)] = T[p + i]
      <3>1. \A i \in 1 .. Unread : p + i \in 1 .. Len(S)
        BY <2>2, <2>3
      <3> QED
        BY <2>1, <2>2, <3>1
    <2>6. \A i \in 1 .. Len(fifo) : fifo[i] = T[p + Unread + i]
      <3>1. \A i \in 1 .. Len(fifo) : p + Unread + i \in 1 .. Len(S)
        BY <2>2, <2>3
      <3> QED
        BY <2>1, <2>2, <3>1
    <2>7. \A i \in 1 .. Len(z) : z[i] = T[p + Unread + Len(fifo) + i]
      <3>1. p + Unread + Len(fifo) = Len(S)
        BY <2>2, <2>3, <1>1
      <3> QED
        BY <2>1, <3>1
    <2> QED
      BY <1>6, <2>3, <2>4, <2>5, <2>6, <2>7 DEF RestOK, T, Mask
  <1>11. p \in 0 .. Len(S \o z)
    <2>1. Len(S \o z) = Len(S) + Len(z) /\ Len(z) \in Nat
      BY <1>1
    <2> QED
      BY <1>1, <2>1
  <1>12. u[p] = x
    BY DEF x
  <1> QED
    BY <1>7, <1>8, <1>9, <1>10, <1>11, <1>12 DEF FramesInv

\* A frame sent whole: from the end of the one before it, place by place.
LEMMA IntactSent ==
    ASSUME McuInv, NEW b \in Bodies, McuSends(b)
    PROVE  FramesInv' /\ sent' \in Seq(Frame) /\ line' \in Seq(Byte)
  <1> DEFINE f == [body |-> b, intact |-> TRUE]
             z == Encode(b)
  <1>1. f \in Frame /\ f.body = b /\ f.intact /\ sent \in Seq(Frame)
    BY DEF Frame, McuInv
  <1>2. sent' = Append(sent, f) /\ line' = z /\ line = <<>>
        /\ UNCHANGED <<fifo, armed, event, extracting, ringVars, parseVars, delivered>>
    BY DEF McuSends
  <1> HIDE DEF f, z
  <1>3. sent' \in Seq(Frame) /\ Len(sent') = Len(sent) + 1 /\ Len(sent) \in Nat
    BY <1>1, <1>2
  <1>4. PICK S, at : \E p \in 0 .. Len(S) :
            /\ StreamOK(sent, S, at) /\ RestOK(S, p)
            /\ ParserAt(at[p]) /\ HeldOK(at[p]) /\ DeliveredOK(at[p])
    BY DEF McuInv, FramesInv
  <1>5. PICK p \in 0 .. Len(S) :
            /\ StreamOK(sent, S, at) /\ RestOK(S, p)
            /\ ParserAt(at[p]) /\ HeldOK(at[p]) /\ DeliveredOK(at[p])
    BY <1>4
  <1>6. /\ z \in Seq(Byte) /\ Len(z) >= 2 /\ z[1] = FF /\ Len(z) \in Nat
        /\ \E t \in [1 .. Len(z) -> Place(sent')] :
              /\ t[1] = [frame |-> Len(sent) + 1, read |-> -1, key |-> FALSE]
              /\ Between(sent', t[Len(z)]) /\ t[Len(z)].frame = Len(sent) + 1
              /\ \A q \in 1 .. Len(z) - 1 : GoesOn(sent', t[q], z[q + 1], t[q + 1])
    <2> DEFINE fs == Append(sent, f)
               e == Encode(b)
    <2>1. /\ e \in Seq(Byte) /\ Len(e) >= 2 /\ e[1] = FF
          /\ \E t \in [1 .. Len(e) -> Place(fs)] :
                /\ t[1] = [frame |-> Len(sent) + 1, read |-> -1, key |-> FALSE]
                /\ Between(fs, t[Len(e)]) /\ t[Len(e)].frame = Len(sent) + 1
                /\ \A q \in 1 .. Len(e) - 1 : GoesOn(fs, t[q], e[q + 1], t[q + 1])
      BY <1>1, FramePlaces
    <2>2. z = e /\ sent' = fs
      BY <1>2 DEF z
    <2> HIDE DEF fs, e
    <2>3. Len(e) \in Nat
      BY <2>1
    <2> QED
      BY <2>1, <2>2, <2>3
  <1>7. PICK t \in [1 .. Len(z) -> Place(sent')] :
              /\ t[1] = [frame |-> Len(sent) + 1, read |-> -1, key |-> FALSE]
              /\ Between(sent', t[Len(z)]) /\ t[Len(z)].frame = Len(sent) + 1
              /\ \A q \in 1 .. Len(z) - 1 : GoesOn(sent', t[q], z[q + 1], t[q + 1])
    BY <1>6
  <1> DEFINE x == at[Len(S)]
  <1>8. /\ S \in Seq(Byte) /\ Len(S) \in Nat /\ x \in Place(sent) /\ Between(sent, x)
        /\ (sent = <<>> \/ Last(sent).intact) => x.frame = Len(sent)
    <2>1. S \in Seq(Byte) /\ at \in [0 .. Len(S) -> Place(sent)] /\ Len(S) \in 0 .. Len(S)
      BY <1>5 DEF StreamOK
    <2> QED
      BY <1>5, <2>1 DEF StreamOK
  <1> HIDE DEF x
  <1>9. GoesOn(sent', x, z[1], t[1])
    <2>1. Between(sent', x)
      BY <1>1, <1>2, <1>8, PlaceStays
    <2>2. Clean(sent') => x.frame = Len(sent)
      BY <1>1, <1>2, <1>8, OneMore
    <2>3. t[1].frame = Len(sent) + 1 /\ t[1] = [frame |-> t[1].frame, read |-> -1, key |-> FALSE]
          /\ t[1].frame # 0
      BY <1>3, <1>7
    <2>4. Clean(sent') => t[1].frame = x.frame + 1
      BY <2>2, <2>3
    <2> QED
      BY <1>6, <2>1, <2>3, <2>4 DEF GoesOn
  <1>10. PICK u : /\ StreamOK(sent', S \o z, u)
                  /\ \A q \in 0 .. Len(S) : u[q] = at[q]
    <2>1. Len(z) > 0 => GoesOn(sent', at[Len(S)], z[1], t[1]) /\ Between(sent', t[Len(z)])
      BY <1>7, <1>9 DEF x
    <2>2. f.intact => Len(z) > 0 /\ t[Len(z)].frame = Len(sent) + 1
      BY <1>6, <1>7
    <2>3. StreamOK(sent, S, at)
      BY <1>5
    <2>4. Leads(sent', at[Len(S)], z, t)
      BY <1>6, <1>7, <2>1 DEF Leads
    <2>5. sent \in Seq(Frame) /\ f \in Frame /\ sent' = Append(sent, f)
      BY <1>1, <1>2
    <2>6. LeadsOn(sent, f, sent', S, at, z, t)
      BY <2>2, <2>3, <2>4, <2>5 DEF LeadsOn
    <2> QED
      BY <2>6, StreamGrows
  <1>11. u[p] = at[p]
    BY <1>10
  <1>12. FramesInv'
    BY <1>1, <1>2, <1>5, <1>6, <1>10, <1>11, FramesKept
  <1> QED
    BY <1>2, <1>3, <1>6, <1>12

\* A damaged frame: nothing is claimed of where its bytes lead.
LEMMA DamagedSent ==
    ASSUME McuInv, NEW b \in Bodies, McuSendsDamaged(b)
    PROVE  FramesInv' /\ sent' \in Seq(Frame) /\ line' \in Seq(Byte)
  <1> DEFINE f == [body |-> b, intact |-> FALSE]
             z == line'
             zero == [frame |-> 0, read |-> 0, key |-> FALSE]
  <1>1. f \in Frame /\ f.body = b /\ f.intact = FALSE /\ sent \in Seq(Frame)
    BY DEF Frame, McuInv
  <1>2. sent' = Append(sent, f) /\ line = <<>>
        /\ UNCHANGED <<fifo, armed, event, extracting, ringVars, parseVars, delivered>>
    BY DEF McuSendsDamaged
  <1>3. z \in Seq(Byte) /\ Len(z) \in Nat
    <2>1. Encode(b) \in Seq(Byte)
      BY <1>1, FramePlaces
    <2> HIDE DEF f
    <2>2. PICK i \in 1 .. Len(Encode(b)) : \/ z = RemoveAt(Encode(b), i)
                                           \/ z = SubSeq(Encode(b), 1, i - 1)
      BY DEF McuSendsDamaged
    <2> DEFINE c == Encode(b)
    <2> HIDE DEF c, z
    <2>3. c \in Seq(Byte) /\ i \in 1 .. Len(c) /\ Len(c) \in Nat
      BY <2>1 DEF c
    <2>4. SubSeq(c, 1, i - 1) \in Seq(Byte)
      BY <2>3
    <2>5. SubSeq(c, i + 1, Len(c)) \in Seq(Byte)
      BY <2>3
    <2>6. RemoveAt(c, i) \in Seq(Byte)
      BY <2>4, <2>5 DEF RemoveAt
    <2> QED
      BY <2>2, <2>4, <2>6 DEF c
  <1> HIDE DEF f, z
  <1>4. sent' \in Seq(Frame) /\ Len(sent') = Len(sent) + 1 /\ Len(sent) \in Nat
        /\ ~Clean(sent') /\ zero \in Place(sent') /\ Between(sent', zero)
    <2>1. sent' \in Seq(Frame) /\ Len(sent') = Len(sent) + 1 /\ Len(sent) \in Nat
      BY <1>1, <1>2
    <2>2. ~Clean(sent')
      BY <1>1, <1>2, OneMore
    <2>3. Size(sent', 0) = 0
      BY DEF Size
    <2> QED
      BY <2>1, <2>2, <2>3 DEF Place, Between
  <1>5. PICK S, at : \E p \in 0 .. Len(S) :
            /\ StreamOK(sent, S, at) /\ RestOK(S, p)
            /\ ParserAt(at[p]) /\ HeldOK(at[p]) /\ DeliveredOK(at[p])
    BY DEF McuInv, FramesInv
  <1>6. PICK p \in 0 .. Len(S) :
            /\ StreamOK(sent, S, at) /\ RestOK(S, p)
            /\ ParserAt(at[p]) /\ HeldOK(at[p]) /\ DeliveredOK(at[p])
    BY <1>5
  <1> DEFINE x == at[Len(S)]
             t == [q \in 1 .. Len(z) |-> zero]
  <1>7. /\ S \in Seq(Byte) /\ Len(S) \in Nat /\ x \in Place(sent) /\ Between(sent, x)
    <2>1. S \in Seq(Byte) /\ at \in [0 .. Len(S) -> Place(sent)] /\ Len(S) \in 0 .. Len(S)
      BY <1>6 DEF StreamOK
    <2> QED
      BY <1>6, <2>1 DEF StreamOK
  <1> HIDE DEF x
  <1>8. Between(sent', x)
    BY <1>1, <1>2, <1>7, PlaceStays
  <1>9. \A c : GoesOn(sent', x, c, zero) /\ GoesOn(sent', zero, c, zero)
    BY <1>4, <1>8 DEF GoesOn
  <1>10. t \in [1 .. Len(z) -> Place(sent')] /\ \A q \in 1 .. Len(z) : t[q] = zero
    BY <1>4
  <1> HIDE DEF t, zero
  <1>11. \A q \in 1 .. Len(z) - 1 : GoesOn(sent', t[q], z[q + 1], t[q + 1])
    <2>1. \A q \in 1 .. Len(z) - 1 : q \in 1 .. Len(z) /\ q + 1 \in 1 .. Len(z)
      BY <1>3
    <2>2. ASSUME NEW q \in 1 .. Len(z) - 1 PROVE t[q] = zero /\ t[q + 1] = zero
      BY <1>10, <2>1
    <2> QED
      BY <1>9, <2>2
  <1>12. Len(z) > 0 => /\ GoesOn(sent', at[Len(S)], z[1], t[1])
                       /\ Between(sent', t[Len(z)])
    <2>1. SUFFICES ASSUME Len(z) > 0
                   PROVE  GoesOn(sent', at[Len(S)], z[1], t[1]) /\ Between(sent', t[Len(z)])
      OBVIOUS
    <2>2. 1 \in 1 .. Len(z) /\ Len(z) \in 1 .. Len(z)
      BY <1>3, <2>1
    <2>3. t[1] = zero /\ t[Len(z)] = zero
      BY <1>10, <2>2
    <2> QED
      BY <1>4, <1>9, <2>3 DEF x
  <1>13. PICK u : /\ StreamOK(sent', S \o z, u)
                  /\ \A q \in 0 .. Len(S) : u[q] = at[q]
    <2>1. f.intact => Len(z) > 0 /\ t[Len(z)].frame = Len(sent) + 1
      BY <1>1
    <2>2. StreamOK(sent, S, at)
      BY <1>6
    <2>3. Leads(sent', at[Len(S)], z, t)
      BY <1>3, <1>10, <1>11, <1>12 DEF Leads
    <2>5. sent \in Seq(Frame) /\ f \in Frame /\ sent' = Append(sent, f)
      BY <1>1, <1>2
    <2>6. LeadsOn(sent, f, sent', S, at, z, t)
      BY <2>1, <2>2, <2>3, <2>5 DEF LeadsOn
    <2> QED
      BY <2>6, StreamGrows
  <1>14. u[p] = at[p]
    BY <1>13
  <1>15. FramesInv'
    BY <1>1, <1>2, <1>3, <1>6, <1>13, <1>14, FramesKept DEF z
  <1> QED
    BY <1>3, <1>4, <1>15 DEF z

-----------------------------------------------------------------------------
(* The parser takes one byte: the next of the stream.                      *)

\* The six ways a byte leads from one place to the next.
Lost(x, y) ==
    /\ Between(sent, x) /\ ~Clean(sent)
    /\ y.frame = 0 /\ y.read = 0 /\ ~y.key
HeadStarts(x, b, y) ==
    /\ Between(sent, x) /\ b = FF /\ y.frame \in 1 .. Len(sent)
    /\ Clean(sent) => y.frame = x.frame + 1
    /\ y.read = -1 /\ ~y.key
HeadEnds(x, b, y) ==
    /\ x.frame # 0 /\ x.read = -1 /\ b = FF
    /\ y.frame = x.frame /\ y.read = 0 /\ ~y.key
StartsFF(x, b, y) ==
    /\ x.frame # 0 /\ ~x.key /\ x.read \in 1 .. Size(sent, x.frame) - 1
    /\ b = FF /\ b = ContentAt(sent, x.frame, x.read + 1)
    /\ y.frame = x.frame /\ y.read = x.read /\ y.key
Plain(x, b, y) ==
    /\ x.frame # 0 /\ ~x.key /\ x.read \in 0 .. Size(sent, x.frame) - 1
    /\ b # FF /\ b = ContentAt(sent, x.frame, x.read + 1)
    /\ x.read = 0 => b # ESC
    /\ y.frame = x.frame /\ y.read = x.read + 1 /\ ~y.key
Unstuffs(x, b, y) ==
    /\ x.frame # 0 /\ x.key /\ x.read \in 1 .. Size(sent, x.frame) - 1
    /\ b = ESC /\ FF = ContentAt(sent, x.frame, x.read + 1)
    /\ y.frame = x.frame /\ y.read = x.read + 1 /\ ~y.key

LEMMA StepKinds ==
    ASSUME sent \in Seq(Frame), NEW x \in Place(sent), NEW y \in Place(sent), NEW b,
           GoesOn(sent, x, b, y)
    PROVE  \/ Lost(x, y) \/ HeadStarts(x, b, y) \/ HeadEnds(x, b, y)
           \/ StartsFF(x, b, y) \/ Plain(x, b, y) \/ Unstuffs(x, b, y)
  <1>1. /\ x.frame \in 0 .. Len(sent) /\ x.key \in BOOLEAN
        /\ x.read \in -1 .. Size(sent, x.frame) /\ x.read \in Int
        /\ x.read = -1 => x.frame # 0 /\ ~x.key
        /\ x.key => /\ x.read \in 1 .. Size(sent, x.frame) - 1
                    /\ ContentAt(sent, x.frame, x.read + 1) = FF
        /\ x.frame = 0 => x.read = 0 /\ ~x.key
        /\ y.frame \in 0 .. Len(sent) /\ Len(sent) \in Nat
    BY PlaceIs
  <1>2. /\ Size(sent, x.frame) \in Nat /\ (x.frame = 0 <=> Size(sent, x.frame) = 0)
        /\ x.frame # 0 => ContentAt(sent, x.frame, 1) # FF /\ ContentAt(sent, x.frame, 1) # ESC
    BY <1>1, SizeIs
  <1>3. CASE x.key /\ b = ESC /\ y = [frame |-> x.frame, read |-> x.read + 1, key |-> FALSE]
    <2>1. y.frame = x.frame /\ y.read = x.read + 1 /\ y.key = FALSE
      BY <1>3
    <2>2. Unstuffs(x, b, y)
      BY <1>1, <1>2, <1>3, <2>1 DEF Unstuffs
    <2> QED
      BY <2>2
  <1>4. CASE x.read = -1 /\ b = FF /\ y = [frame |-> x.frame, read |-> 0, key |-> FALSE]
    <2>1. y.frame = x.frame /\ y.read = 0 /\ y.key = FALSE
      BY <1>4
    <2>2. HeadEnds(x, b, y)
      BY <1>1, <1>4, <2>1 DEF HeadEnds
    <2> QED
      BY <2>2
  <1>5. ASSUME ~x.key, x.read \in 0 .. Size(sent, x.frame) - 1,
               b = ContentAt(sent, x.frame, x.read + 1),
               b = FF, y = [frame |-> x.frame, read |-> x.read, key |-> TRUE]
        PROVE  StartsFF(x, b, y)
    <2>1. y.frame = x.frame /\ y.read = x.read /\ y.key
      BY <1>5
    <2>2. x.frame # 0
      BY <1>1, <1>2, <1>5
    <2>3. x.read # 0
      <3>1. SUFFICES ASSUME x.read = 0 PROVE FALSE
        OBVIOUS
      <3>2. x.read + 1 = 1
        BY <3>1
      <3> QED
        BY <1>2, <1>5, <2>2, <3>2
    <2>4. x.read \in 1 .. Size(sent, x.frame) - 1
      BY <1>5, <1>2, <2>3
    <2> QED
      BY <1>5, <2>1, <2>2, <2>4 DEF StartsFF
  <1>6. ASSUME ~x.key, x.read \in 0 .. Size(sent, x.frame) - 1,
               b = ContentAt(sent, x.frame, x.read + 1),
               b # FF, y = [frame |-> x.frame, read |-> x.read + 1, key |-> FALSE]
        PROVE  Plain(x, b, y)
    <2>1. y.frame = x.frame /\ y.read = x.read + 1 /\ y.key = FALSE
      BY <1>6
    <2>2. x.frame # 0
      BY <1>1, <1>2, <1>6
    <2>3. x.read = 0 => b # ESC
      <3>1. SUFFICES ASSUME x.read = 0 PROVE b # ESC
        OBVIOUS
      <3>2. x.read + 1 = 1
        BY <3>1
      <3> QED
        BY <1>2, <1>6, <2>2, <3>2
    <2> QED
      BY <1>6, <2>1, <2>2, <2>3 DEF Plain
  <1>7. CASE Between(sent, x) /\ ~Clean(sent) /\ y = [frame |-> 0, read |-> 0, key |-> FALSE]
    <2>1. y.frame = 0 /\ y.read = 0 /\ y.key = FALSE
      BY <1>7
    <2>2. Lost(x, y)
      BY <1>7, <2>1 DEF Lost
    <2> QED
      BY <2>2
  <1>8. CASE /\ Between(sent, x) /\ b = FF /\ y.frame # 0
             /\ Clean(sent) => y.frame = x.frame + 1
             /\ y = [frame |-> y.frame, read |-> -1, key |-> FALSE]
    <2>1. y.read = -1 /\ y.key = FALSE
      BY <1>8
    <2>2. y.frame \in 1 .. Len(sent)
      BY <1>1, <1>8
    <2>3. HeadStarts(x, b, y)
      BY <1>8, <2>1, <2>2 DEF HeadStarts
    <2> QED
      BY <2>3
  <1> QED
    BY <1>3, <1>4, <1>5, <1>6, <1>7, <1>8 DEF GoesOn

\* What the invariant says of the ring when there is a byte to take.
LEMMA ByteRead ==
    ASSUME McuInv, MoreBytes
    PROVE  /\ pos_start \in Nat /\ pos_current \in Nat /\ pos_start < pos_current
           /\ pos_current - pos_start <= FifoCap /\ FifoCap \in Nat
           /\ pos_current - pos_start < RingSize
           /\ hal_RxBuffer \in [0 .. RingSize - 1 -> Byte] /\ rxByte \in Byte
           /\ sent \in Seq(Frame)
  <1>1. /\ pos_start \in Nat /\ pos_current \in Nat /\ pos_start <= pos_current
        /\ pos_current - pos_start <= FifoCap
        /\ pos_current - pos_start < RingSize
        /\ hal_RxBuffer \in [0 .. RingSize - 1 -> Byte]
        /\ sent \in Seq(Frame)
    BY DEF McuInv, McuTypeOK, ParserOK
  <1>2. pos_start # pos_current
    BY DEF MoreBytes
  <1>3. Mask(pos_start) \in 0 .. RingSize - 1
    BY <1>1, MaskIs
  <1>4. rxByte \in Byte
    BY <1>1, <1>3 DEF rxByte
  <1> QED
    BY <1>1, <1>2, <1>4, Constants

LEMMA RestForward ==
    ASSUME McuInv, MoreBytes, NEW S \in Seq(Byte), NEW p \in 0 .. Len(S), RestOK(S, p),
           pos_start' = pos_start + 1, UNCHANGED <<hal_RxBuffer, pos_current, fifo, line>>
    PROVE  p + 1 \in 0 .. Len(S) /\ rxByte = S[p + 1] /\ RestOK(S, p + 1)'
  <1>1. /\ Len(S) = p + Unread + Len(fifo) + Len(line)
        /\ \A i \in 1 .. Unread : hal_RxBuffer[Mask(pos_start + i - 1)] = S[p + i]
        /\ \A i \in 1 .. Len(fifo) : fifo[i] = S[p + Unread + i]
        /\ \A i \in 1 .. Len(line) : line[i] = S[p + Unread + Len(fifo) + i]
    BY DEF RestOK
  <1>2. /\ pos_start \in Nat /\ Unread \in Nat /\ Unread >= 1 /\ Unread' = Unread - 1
        /\ Len(fifo) \in Nat /\ Len(line) \in Nat /\ p \in Nat
    <2>1. Len(fifo) \in Nat /\ Len(line) \in Nat
      BY DEF McuInv, McuTypeOK
    <2> QED
      BY <2>1, ByteRead DEF Unread
  <1>3. rxByte = S[p + 1]
    <2>1. hal_RxBuffer[Mask(pos_start + 1 - 1)] = S[p + 1]
      BY <1>1, <1>2
    <2>2. pos_start + 1 - 1 = pos_start
      BY <1>2
    <2> QED
      BY <2>1, <2>2 DEF rxByte
  <1>4. \A i \in 1 .. Unread' : hal_RxBuffer'[Mask(pos_start' + i - 1)] = S[p + 1 + i]
    <2>1. ASSUME NEW i \in 1 .. Unread'
          PROVE  hal_RxBuffer'[Mask(pos_start' + i - 1)] = S[p + 1 + i]
      <3> DEFINE j == i + 1
      <3>1. j \in 1 .. Unread /\ pos_start' + i - 1 = pos_start + j - 1 /\ p + 1 + i = p + j
        BY <1>2
      <3> HIDE DEF j
      <3> QED
        BY <1>1, <3>1
    <2> QED
      BY <2>1
  <1>5. p + 1 + Unread' = p + Unread
    BY <1>2
  <1>6. \A i \in 1 .. Len(fifo') : fifo'[i] = S[p + 1 + Unread' + i]
    BY <1>1, <1>5
  <1>7. \A i \in 1 .. Len(line') : line'[i] = S[p + 1 + Unread' + Len(fifo') + i]
    BY <1>1, <1>5
  <1>8. Len(S) = p + 1 + Unread' + Len(fifo') + Len(line')
    BY <1>1, <1>5
  <1>9. RestOK(S, p + 1)'
    BY <1>4, <1>6, <1>7, <1>8 DEF RestOK, Mask
  <1>10. p + 1 \in 0 .. Len(S)
    BY <1>1, <1>2
  <1> QED
    BY <1>3, <1>9, <1>10

LEMMA RestSqueezed ==
    ASSUME McuInv, MoreBytes, NEW S \in Seq(Byte), NEW p \in 0 .. Len(S), RestOK(S, p),
           hal_RxBuffer' = HAL_Move_Data_Backward(pos_start + 1, pos_current),
           pos_current' = pos_current - 1, UNCHANGED <<pos_start, fifo, line>>
    PROVE  p + 1 \in 0 .. Len(S) /\ rxByte = S[p + 1] /\ RestOK(S, p + 1)'
  <1>1. /\ Len(S) = p + Unread + Len(fifo) + Len(line)
        /\ \A i \in 1 .. Unread : hal_RxBuffer[Mask(pos_start + i - 1)] = S[p + i]
        /\ \A i \in 1 .. Len(fifo) : fifo[i] = S[p + Unread + i]
        /\ \A i \in 1 .. Len(line) : line[i] = S[p + Unread + Len(fifo) + i]
    BY DEF RestOK
  <1>2. /\ pos_start \in Nat /\ Unread \in Nat /\ Unread >= 1 /\ Unread' = Unread - 1
        /\ Len(fifo) \in Nat /\ Len(line) \in Nat /\ p \in Nat
        /\ Unread = pos_current - pos_start
    <2>1. Len(fifo) \in Nat /\ Len(line) \in Nat
      BY DEF McuInv, McuTypeOK
    <2> QED
      BY <2>1, ByteRead DEF Unread
  <1>3. rxByte = S[p + 1]
    <2>1. hal_RxBuffer[Mask(pos_start + 1 - 1)] = S[p + 1]
      BY <1>1, <1>2
    <2>2. pos_start + 1 - 1 = pos_start
      BY <1>2
    <2> QED
      BY <2>1, <2>2 DEF rxByte
  <1>4. \A d \in 0 .. Unread - 2 :
            hal_RxBuffer'[Mask(pos_start + d)] = hal_RxBuffer[Mask(pos_start + d + 1)]
    <2>1. \A d \in 0 .. pos_current - pos_start - 2 :
            hal_RxBuffer'[Mask(pos_start + d)] = hal_RxBuffer[Mask(pos_start + d + 1)]
      BY ByteRead, MovedBack
    <2> QED
      BY <1>2, <2>1
  <1>5. \A i \in 1 .. Unread' : hal_RxBuffer'[Mask(pos_start' + i - 1)] = S[p + 1 + i]
    <2>1. ASSUME NEW i \in 1 .. Unread'
          PROVE  hal_RxBuffer'[Mask(pos_start' + i - 1)] = S[p + 1 + i]
      <3> DEFINE j == i + 1
                 d == i - 1
      <3>1. /\ j \in 1 .. Unread /\ p + 1 + i = p + j
            /\ d \in 0 .. Unread - 2 /\ pos_start' + i - 1 = pos_start + d
            /\ pos_start + j - 1 = pos_start + d + 1
        BY <1>2
      <3> HIDE DEF j, d
      <3>2. hal_RxBuffer'[Mask(pos_start + d)] = hal_RxBuffer[Mask(pos_start + d + 1)]
        BY <1>4, <3>1
      <3>3. hal_RxBuffer[Mask(pos_start + j - 1)] = S[p + j]
        BY <1>1, <3>1
      <3> QED
        BY <3>1, <3>2, <3>3
    <2> QED
      BY <2>1
  <1>6. p + 1 + Unread' = p + Unread
    BY <1>2
  <1>7. \A i \in 1 .. Len(fifo') : fifo'[i] = S[p + 1 + Unread' + i]
    BY <1>1, <1>6
  <1>8. \A i \in 1 .. Len(line') : line'[i] = S[p + 1 + Unread' + Len(fifo') + i]
    BY <1>1, <1>6
  <1>9. Len(S) = p + 1 + Unread' + Len(fifo') + Len(line')
    BY <1>1, <1>6
  <1>10. RestOK(S, p + 1)'
    BY <1>5, <1>7, <1>8, <1>9 DEF RestOK, Mask
  <1>11. p + 1 \in 0 .. Len(S)
    BY <1>1, <1>2
  <1> QED
    BY <1>3, <1>10, <1>11

\* A step of the parser is right if it is at every two places the byte leads
\* between: the stream needs no looking at.
AtPlace(x) == ParserAt(x) /\ HeldOK(x) /\ DeliveredOK(x)
NextByte ==
    \A x, y \in Place(sent) : AtPlace(x) /\ GoesOn(sent, x, rxByte, y) => AtPlace(y)'
Forward == pos_start' = pos_start + 1 /\ UNCHANGED <<hal_RxBuffer, pos_current>>
Squeezed ==
    /\ hal_RxBuffer' = HAL_Move_Data_Backward(pos_start + 1, pos_current)
    /\ pos_current' = pos_current - 1 /\ pos_start' = pos_start

LEMMA ParserStep ==
    ASSUME McuInv, MoreBytes, UNCHANGED <<fifo, line, sent>>, Forward \/ Squeezed, NextByte
    PROVE  FramesInv'
  <1>1. PICK S, at : \E p \in 0 .. Len(S) :
            /\ StreamOK(sent, S, at) /\ RestOK(S, p)
            /\ ParserAt(at[p]) /\ HeldOK(at[p]) /\ DeliveredOK(at[p])
    BY DEF McuInv, FramesInv
  <1>2. PICK p \in 0 .. Len(S) :
            /\ StreamOK(sent, S, at) /\ RestOK(S, p)
            /\ ParserAt(at[p]) /\ HeldOK(at[p]) /\ DeliveredOK(at[p])
    BY <1>1
  <1>3. /\ S \in Seq(Byte) /\ at \in [0 .. Len(S) -> Place(sent)] /\ Len(S) \in Nat
        /\ \A q \in 0 .. Len(S) - 1 : GoesOn(sent, at[q], S[q + 1], at[q + 1])
    BY <1>2 DEF StreamOK
  <1>4. p + 1 \in 0 .. Len(S) /\ rxByte = S[p + 1] /\ RestOK(S, p + 1)'
    BY <1>2, <1>3, RestForward, RestSqueezed DEF Forward, Squeezed
  <1> DEFINE x == at[p]
             y == at[p + 1]
  <1>5. GoesOn(sent, x, rxByte, y) /\ x \in Place(sent) /\ y \in Place(sent)
    <2>1. p \in 0 .. Len(S) - 1
      BY <1>3, <1>4
    <2> QED
      BY <1>3, <1>4, <2>1
  <1>6. AtPlace(x)
    BY <1>2 DEF AtPlace
  <1> HIDE DEF x, y
  <1>7. AtPlace(y)'
    BY <1>5, <1>6 DEF NextByte
  <1>8. StreamOK(sent', S, at)
    BY <1>2
  <1> DEFINE q == p + 1
  <1>9. q \in 0 .. Len(S) /\ RestOK(S, q)' /\ y = at[q]
    BY <1>4 DEF y
  <1> HIDE DEF q
  <1>10. ParserAt(at[q])' /\ HeldOK(at[q])' /\ DeliveredOK(at[q])'
    BY <1>7, <1>9 DEF AtPlace
  <1> QED
    BY <1>8, <1>9, <1>10 DEF FramesInv

LEMMA ModSmall ==
    ASSUME NEW m \in Nat, NEW a \in Nat, a < m
    PROVE  a % m = a
  OBVIOUS

LEMMA PacketLater ==
    ASSUME NEW frames, NEW k, NEW r \in Nat, r >= 1
    PROVE  PacketAt(frames, k, r + 2) = ContentAt(frames, k, r)
  <1>1. ~(r + 2 <= 2) /\ r + 2 - 2 = r
    OBVIOUS
  <1> QED
    BY <1>1 DEF PacketAt

LEMMA PacketIs ==
    ASSUME NEW frames \in Seq(Frame), NEW k \in 1 .. Len(frames)
    PROVE  /\ WholePacket(frames, k) \in Seq(Byte)
           /\ WholePacket(frames, k) = [i \in 1 .. Size(frames, k) + 2 |-> PacketAt(frames, k, i)]
  <1> DEFINE c == Content(frames[k].body)
             n == Size(frames, k)
             w == WholePacket(frames, k)
  <1>1. /\ k # 0 /\ k \in 0 .. Len(frames) /\ n \in Nat /\ n >= 3
        /\ frames[k].body \in Bodies /\ n = Len(frames[k].body) + 2
    BY SizeIs
  <1>2. c \in Seq(Byte) /\ Len(c) = n
    BY <1>1, ContentIs
  <1>3. w = <<FF, FF>> \o c
    BY DEF WholePacket
  <1>4. \A i : PacketAt(frames, k, i) = IF i <= 2 THEN FF ELSE c[i - 2]
    BY DEF PacketAt, ContentAt
  <1> HIDE DEF c, n, w
  <1>5. /\ w \in Seq(Byte) /\ Len(w) = n + 2 /\ w[1] = FF /\ w[2] = FF
        /\ \A i \in 1 .. n : w[i + 2] = c[i]
    BY <1>1, <1>2, <1>3, Constants
  <1>6. ASSUME NEW i \in 1 .. n + 2 PROVE w[i] = PacketAt(frames, k, i)
    <2>1. CASE i <= 2
      <3>1. i = 1 \/ i = 2
        BY <2>1
      <3> QED
        BY <1>4, <1>5, <2>1, <3>1
    <2>2. CASE ~(i <= 2)
      <3> DEFINE j == i - 2
      <3>1. j \in 1 .. n /\ i = j + 2
        BY <1>1, <2>2
      <3>2. w[j + 2] = c[j]
        BY <1>5, <3>1
      <3>3. PacketAt(frames, k, i) = c[j]
        BY <1>4, <2>2
      <3> HIDE DEF j
      <3> QED
        BY <3>1, <3>2, <3>3
    <2> QED
      BY <2>1, <2>2
  <1>7. w = [i \in 1 .. n + 2 |-> w[i]]
    BY <1>1, <1>5
  <1>8. w = [i \in 1 .. n + 2 |-> PacketAt(frames, k, i)]
    BY <1>6, <1>7
  <1> QED
    BY <1>5, <1>8 DEF w, n

\* The first h bytes of the packet of frame k stand in the ring from start on.
Standing(start, h, k) ==
    \A i \in 1 .. h : hal_RxBuffer[Mask(start + i - 1)] = PacketAt(sent, k, i)

LEMMA StandsMore ==
    ASSUME NEW h \in Nat, NEW start \in Nat, pos_start = start + h, NEW k,
           Standing(start, h, k), rxByte = PacketAt(sent, k, h + 1),
           UNCHANGED <<hal_RxBuffer, sent>>
    PROVE  Standing(start, h + 1, k)'
  <1>1. hal_RxBuffer[Mask(pos_start)] = PacketAt(sent, k, h + 1)
    BY DEF rxByte
  <1>2. ASSUME NEW i \in 1 .. h + 1
        PROVE  hal_RxBuffer[Mask(start + i - 1)] = PacketAt(sent, k, i)
    <2>1. CASE i = h + 1
      <3>1. start + i - 1 = pos_start
        BY <2>1
      <3> QED
        BY <1>1, <2>1, <3>1
    <2>2. CASE i # h + 1
      <3>1. i \in 1 .. h
        BY <2>2
      <3> QED
        BY <3>1 DEF Standing
    <2> QED
      BY <2>1, <2>2
  <1> QED
    BY <1>2 DEF Standing, Mask

LEMMA HeldIs ==
    ASSUME McuInv, NEW x \in Place(sent)
    PROVE  /\ Held(sent, x) \in Nat
           /\ HeldOK(x) <=> /\ Held(sent, x) <= pos_start
                            /\ Standing(pos_start - Held(sent, x), Held(sent, x), x.frame)
           /\ Held(sent, x) <= Size(sent, x.frame) + 2
           /\ Between(sent, x) => Held(sent, x) = 0
           /\ ~Between(sent, x) =>
                 /\ x.frame # 0
                 /\ x.key => Held(sent, x) = x.read + 3
                 /\ ~x.key => Held(sent, x) = x.read + 2
  <1>1. /\ x.frame \in 0 .. Len(sent) /\ x.key \in BOOLEAN
        /\ x.read \in -1 .. Size(sent, x.frame) /\ x.read \in Int
        /\ x.read = -1 => x.frame # 0 /\ ~x.key
        /\ x.key => x.read \in 1 .. Size(sent, x.frame) - 1
        /\ x.frame = 0 => x.read = 0 /\ ~x.key
        /\ sent \in Seq(Frame)
    BY PlaceIs DEF McuInv
  <1>2. Size(sent, x.frame) \in Nat /\ (x.frame = 0 <=> Size(sent, x.frame) = 0)
    BY <1>1, SizeIs
  <1> DEFINE h == Held(sent, x)
  <1>3. Between(sent, x) => h = 0
    BY DEF Held
  <1>4. ~Between(sent, x) => /\ x.frame # 0
                             /\ x.key => h = x.read + 3
                             /\ ~x.key => h = x.read + 2
    BY <1>1, <1>2 DEF Held, Between
  <1>5. HeldOK(x) <=> h <= pos_start /\ Standing(pos_start - h, h, x.frame)
    BY DEF HeldOK, Standing
  <1> HIDE DEF h
  <1>6. h \in Nat /\ h <= Size(sent, x.frame) + 2
    <2>1. CASE Between(sent, x)
      BY <1>2, <1>3, <2>1
    <2>2. CASE ~Between(sent, x)
      <3>1. x.read # Size(sent, x.frame)
        BY <2>2 DEF Between
      <3> QED
        BY <1>1, <1>2, <1>4, <2>2, <3>1
    <2> QED
      BY <2>1, <2>2
  <1> QED
    BY <1>3, <1>4, <1>5, <1>6 DEF h

\* What went wrong leaves nothing to keep.
LEMMA LostOK ==
    ASSUME NEW x, NEW y, Lost(x, y), sent' = sent, pos_start' \in Nat
    PROVE  AtPlace(y)'
  <1>1. y.frame = 0 /\ y.read = 0 /\ ~y.key /\ ~Clean(sent)
    BY DEF Lost
  <1>2. Size(sent, y.frame) = 0
    BY <1>1 DEF Size
  <1>3. Held(sent, y) = 0
    BY <1>1, <1>2 DEF Held, Between
  <1>4. HeldOK(y)'
    BY <1>3 DEF HeldOK
  <1>5. ParserAt(y)'
    BY <1>1, <1>2 DEF ParserAt
  <1>6. DeliveredOK(y)'
    BY <1>1 DEF DeliveredOK
  <1> QED
    BY <1>4, <1>5, <1>6 DEF AtPlace

LEMMA HeldNow ==
    ASSUME NEW y, NEW g \in Nat, NEW start \in Nat, Held(sent', y) = g,
           pos_start' = start + g, Standing(start, g, y.frame)'
    PROVE  HeldOK(y)'
  <1>1. \A i \in 1 .. g : hal_RxBuffer'[Mask(start + i - 1)] = PacketAt(sent', y.frame, i)
    BY DEF Standing, Mask
  <1>2. ASSUME NEW i \in 1 .. g
        PROVE  hal_RxBuffer'[Mask(pos_start' - g + i - 1)] = PacketAt(sent', y.frame, i)
    <2>1. pos_start' - g + i - 1 = start + i - 1
      OBVIOUS
    <2> QED
      BY <1>1, <2>1
  <1>3. g <= pos_start'
    OBVIOUS
  <1> QED
    BY <1>2, <1>3 DEF HeldOK, Mask

\* A byte of a head, or the first of an FF 55: nothing is delivered.
LEMMA HeadStep ==
    ASSUME McuInv, MoreBytes, NEW x \in Place(sent), NEW y \in Place(sent), AtPlace(x),
           HeadStarts(x, rxByte, y) \/ HeadEnds(x, rxByte, y) \/ StartsFF(x, rxByte, y),
           Forward, UNCHANGED <<sent, delivered>>, ParserAt(y)'
    PROVE  AtPlace(y)'
  <1>1. sent \in Seq(Frame) /\ pos_start \in Nat /\ Len(sent) \in Nat
    BY ByteRead
  <1>2. /\ x.frame \in 0 .. Len(sent) /\ y.frame \in 0 .. Len(sent)
        /\ x.read \in Int /\ y.read \in Int
    BY <1>1, PlaceIs
  <1>3. y.frame # 0 /\ Size(sent, y.frame) \in Nat /\ Size(sent, y.frame) >= 3
    <2>1. y.frame # 0
      BY <1>1 DEF HeadStarts, HeadEnds, StartsFF
    <2> QED
      BY <1>1, <1>2, <2>1, SizeIs
  <1>4. ~Between(sent, y)
    BY <1>2, <1>3 DEF HeadStarts, HeadEnds, StartsFF, Between
  <1>0. PICK h : h = Held(sent, x)
    OBVIOUS
  <1>5. /\ h \in Nat /\ h <= pos_start /\ Standing(pos_start - h, h, x.frame)
        /\ Between(sent, x) => h = 0
        /\ ~Between(sent, x) => /\ x.key => h = x.read + 3
                                /\ ~x.key => h = x.read + 2
    BY <1>0, HeldIs DEF AtPlace
  <1>6. /\ y.key => Held(sent, y) = y.read + 3
        /\ ~y.key => Held(sent, y) = y.read + 2
    BY <1>4, HeldIs
  <1>7. x.frame # 0 /\ x.frame = y.frame => Size(sent, x.frame) >= 3
    BY <1>3
  <1>8. Held(sent, y) = h + 1 /\ (h = 0 \/ x.frame = y.frame)
    <2>1. CASE HeadStarts(x, rxByte, y)
      <3>1. h = 0
        BY <1>5, <2>1 DEF HeadStarts
      <3>2. Held(sent, y) = 1
        BY <1>6, <2>1 DEF HeadStarts
      <3> QED
        BY <3>1, <3>2
    <2>2. CASE HeadEnds(x, rxByte, y)
      <3>1. x.frame = y.frame /\ x.frame # 0 /\ x.read = -1 /\ y.read = 0 /\ ~y.key
        BY <2>2 DEF HeadEnds
      <3>2. ~Between(sent, x) /\ ~x.key
        BY <1>1, <1>7, <3>1, PlaceIs DEF Between
      <3> QED
        BY <1>5, <1>6, <3>1, <3>2
    <2>3. CASE StartsFF(x, rxByte, y)
      <3>1. x.frame = y.frame /\ x.frame # 0 /\ x.read = y.read /\ y.key /\ ~x.key
            /\ x.read \in 1 .. Size(sent, x.frame) - 1
        BY <2>3 DEF StartsFF
      <3>2. ~Between(sent, x)
        BY <1>3, <3>1 DEF Between
      <3> QED
        BY <1>2, <1>5, <1>6, <3>1, <3>2
    <2> QED
      BY <2>1, <2>2, <2>3
  <1>9. rxByte = PacketAt(sent, y.frame, h + 1)
    <2>1. CASE HeadStarts(x, rxByte, y)
      <3>1. h = 0 /\ rxByte = FF
        BY <1>5, <2>1 DEF HeadStarts
      <3> QED
        BY <3>1 DEF PacketAt
    <2>2. CASE HeadEnds(x, rxByte, y)
      <3>1. y.read = 0 /\ ~y.key /\ rxByte = FF
        BY <2>2 DEF HeadEnds
      <3>2. h + 1 <= 2
        BY <1>5, <1>6, <1>8, <3>1
      <3>3. PacketAt(sent, y.frame, h + 1) = FF
        BY <1>5, <3>2 DEF PacketAt
      <3> QED
        BY <3>1, <3>3
    <2>3. CASE StartsFF(x, rxByte, y)
      <3>1. x.frame = y.frame /\ x.read = y.read /\ y.key /\ y.read >= 1
            /\ rxByte = ContentAt(sent, y.frame, y.read + 1)
        BY <1>2, <1>3, <2>3 DEF StartsFF
      <3>2. PICK r \in Nat : r = y.read + 1
        BY <1>2, <3>1
      <3>3. h + 1 = r + 2 /\ r >= 1
        BY <1>2, <1>5, <1>6, <1>8, <3>1, <3>2
      <3>4. PacketAt(sent, y.frame, r + 2) = ContentAt(sent, y.frame, r)
        BY <3>3, PacketLater
      <3>5. PacketAt(sent, y.frame, r + 2) = rxByte
        BY <3>1, <3>2, <3>4
      <3> QED
        BY <1>5, <3>3, <3>5
    <2> QED
      BY <2>1, <2>2, <2>3
  <1>10. HeldOK(y)'
    <2>0. PICK start : start = pos_start - h
      OBVIOUS
    <2>1. Standing(start, h, y.frame)
      <3>1. CASE h = 0
        BY <3>1 DEF Standing
      <3>2. CASE x.frame = y.frame
        BY <1>5, <2>0, <3>2
      <3> QED
        BY <1>8, <3>1, <3>2
    <2>2. start \in Nat /\ pos_start = start + h /\ h \in Nat
      BY <1>1, <1>5, <2>0
    <2>3. Standing(start, h + 1, y.frame)'
      BY <1>9, <2>1, <2>2, StandsMore DEF Forward
    <2>4. pos_start' - (h + 1) = start /\ h + 1 <= pos_start'
      BY <1>1, <2>2 DEF Forward
    <2>5. PICK g \in Nat : g = h + 1
      BY <1>5
    <2>6. Held(sent', y) = g /\ Standing(start, g, y.frame)' /\ pos_start' = start + g
      BY <1>5, <1>8, <2>2, <2>3, <2>5 DEF Forward
    <2> QED
      BY <2>2, <2>6, HeldNow
  <1>11. DeliveredOK(y)'
    <2>1. ~Between(sent', y)
      BY <1>4
    <2>2. Clean(sent) => Whole(y)' = Whole(x)
      <3> SUFFICES ASSUME Clean(sent) PROVE Whole(y)' = Whole(x)
        OBVIOUS
      <3>1. Whole(y)' = y.frame - 1
        BY <2>1 DEF Whole
      <3>2. CASE Between(sent, x)
        <4>1. HeadStarts(x, rxByte, y)
          BY <1>2, <1>3, <1>4, <3>2 DEF HeadEnds, StartsFF, Between
        <4>2. y.frame = x.frame + 1
          BY <4>1 DEF HeadStarts
        <4> QED
          BY <1>2, <3>1, <3>2, <4>2 DEF Whole
      <3>3. CASE ~Between(sent, x)
        <4>1. x.frame = y.frame
          BY <3>3 DEF HeadStarts, HeadEnds, StartsFF
        <4> QED
          BY <3>1, <3>3, <4>1 DEF Whole
      <3> QED
        BY <3>2, <3>3
    <2>3. Clean(sent) => delivered = [i \in 1 .. Whole(x) |-> WholePacket(sent, i)]
      BY DEF AtPlace, DeliveredOK
    <2>4. Clean(sent') => delivered' = [i \in 1 .. Whole(y)' |-> WholePacket(sent', i)]
      BY <2>2, <2>3
    <2> QED
      BY <2>1, <2>4 DEF DeliveredOK
  <1> QED
    BY <1>10, <1>11 DEF AtPlace

LEMMA RingBytes ==
    ASSUME hal_RxBuffer' \in [0 .. RingSize - 1 -> Byte], NEW start \in Nat, NEW end \in Nat
    PROVE  PacketBytes(hal_RxBuffer', start, end) \in Seq(Byte)
  <1>1. ASSUME NEW i \in 1 .. end - start
        PROVE  hal_RxBuffer'[Mask(start + i - 1)] \in Byte
    <2>1. start + i - 1 \in Nat
      OBVIOUS
    <2>2. Mask(start + i - 1) \in 0 .. RingSize - 1
      BY <2>1, MaskIs
    <2> QED
      BY <2>2
  <1>2. CASE end >= start
    <2>1. end - start \in Nat
      BY <1>2
    <2> DEFINE n == end - start
               w == [i \in 1 .. n |-> hal_RxBuffer'[Mask(start + i - 1)]]
    <2>2. w \in [1 .. n -> Byte]
      BY <1>1
    <2> HIDE DEF n
    <2>3. w \in Seq(Byte)
      <3>1. n \in Nat
        BY <2>1 DEF n
      <3> HIDE DEF w
      <3> QED
        BY <2>2, <3>1
    <2> QED
      BY <2>3 DEF PacketBytes, n
  <1>3. CASE end < start
    <2>1. 1 .. end - start = {}
      BY <1>3
    <2>2. PacketBytes(hal_RxBuffer', start, end) = <<>>
      BY <2>1 DEF PacketBytes
    <2> QED
      BY <2>2
  <1> QED
    BY <1>2, <1>3

\* The whole packet stands in the ring: what leaves is the packet.
LEMMA LeavesWhole ==
    ASSUME sent \in Seq(Frame), NEW k \in 1 .. Len(sent), NEW start \in Nat,
           pos_start' = start + (Size(sent, k) + 2), sent' = sent,
           Standing(start, Size(sent, k) + 2, k)'
    PROVE  PacketBytes(hal_RxBuffer', start, pos_start') = WholePacket(sent, k)
  <1> DEFINE n == Size(sent, k) + 2
  <1>1. n \in Nat
    BY SizeIs
  <1>2. \A i \in 1 .. n : hal_RxBuffer'[Mask(start + i - 1)] = PacketAt(sent, k, i)
    BY DEF Standing, Mask
  <1>3. WholePacket(sent, k) = [i \in 1 .. n |-> PacketAt(sent, k, i)]
    BY PacketIs
  <1> HIDE DEF n
  <1>4. pos_start' - start = n
    BY <1>1 DEF n
  <1> QED
    BY <1>2, <1>3, <1>4 DEF PacketBytes

\* A byte of the content, plain or unstuffed.
LEMMA TakesByte ==
    ASSUME McuInv, NEW x \in Place(sent), NEW y \in Place(sent), AtPlace(x),
           x.frame # 0, x.read \in 0 .. Size(sent, x.frame) - 1,
           y.frame = x.frame, y.read = x.read + 1, ~y.key,
           NEW v, v = ContentAt(sent, x.frame, x.read + 1), TakeByte(v), halRecKeyWord' = FALSE,
           sent' = sent, NEW start \in Nat, pos_start' = start + (x.read + 3),
           Standing(start, x.read + 3, x.frame)',
           x.read # 0 => guiLocalPacketStart = start,
           x.read = 0 => guiLocalPacketStart' = start
    PROVE  AtPlace(y)'
  <1> DEFINE k == x.frame
             r == x.read
             n == Size(sent, k)
             len == gu16LocalPacketDataLen
  <1>1. /\ sent \in Seq(Frame) /\ k \in 1 .. Len(sent) /\ len \in 0 .. U16 - 1
        /\ delivered \in Seq(Seq(Byte))
    BY PlaceIs DEF McuInv, McuTypeOK
  <1>2. /\ n \in Nat /\ n >= 3
        /\ ContentAt(sent, k, 1) * ByteRadix + ContentAt(sent, k, 2) = n - 2
        /\ ContentAt(sent, k, 1) \in Nat /\ ContentAt(sent, k, 2) \in Nat
    <2>1. k \in 0 .. Len(sent) /\ k # 0
      BY <1>1
    <2> HIDE DEF k
    <2>2. /\ n \in Nat /\ n >= 3
          /\ ContentAt(sent, k, 1) * ByteRadix + ContentAt(sent, k, 2) = n - 2
          /\ \A i \in 1 .. n : ContentAt(sent, k, i) \in Byte
      BY <1>1, <2>1, SizeIs
    <2> HIDE DEF n
    <2>3. 1 \in 1 .. n /\ 2 \in 1 .. n
      BY <2>2
    <2>4. ContentAt(sent, k, 1) \in Nat /\ ContentAt(sent, k, 2) \in Nat
      BY <2>2, <2>3, Constants
    <2> QED
      BY <2>2, <2>4
  <1>3. r \in 0 .. n - 1 /\ y.read = r + 1 /\ y.frame = k /\ y.key = FALSE
    BY PlaceIs, <1>1
  <1>4. /\ r = 0 => gu8LocalHalStatus = DATALEN1
        /\ r = 1 => gu8LocalHalStatus = DATALEN2 /\ len = ContentAt(sent, k, 1) * ByteRadix
        /\ r \in 2 .. n - 1 => gu8LocalHalStatus = DATA /\ len = n - r
    BY <1>2 DEF AtPlace, ParserAt
  <1>5. ~Between(sent, x) /\ (Between(sent, y) <=> r + 1 = n) /\ (Between(sent', y) <=> r + 1 = n)
    BY <1>2, <1>3 DEF Between
  <1>6. r + 1 # n => Held(sent', y) = r + 3
    BY <1>2, <1>3, <1>5 DEF Held
  <1>7. HeldOK(y)'
    <2>1. CASE r + 1 = n
      <3>1. Held(sent', y) = 0
        BY <1>5, <2>1 DEF Held
      <3>2. pos_start' \in Nat
        BY <1>2, <1>3
      <3> QED
        BY <3>1, <3>2 DEF HeldOK
    <2>2. CASE r + 1 # n
      <3>1. PICK g \in Nat : g = r + 3
        BY <1>2, <1>3
      <3>2. Held(sent', y) = g /\ pos_start' = start + g /\ Standing(start, g, y.frame)'
        BY <1>3, <1>6, <2>2, <3>1
      <3> QED
        BY <3>1, <3>2, HeldNow
    <2> QED
      BY <2>1, <2>2
  <1>8. ASSUME r + 1 # n, delivered' = delivered, guiLocalPacketStart' = start,
               r = 0 => /\ gu8LocalHalStatus' = DATALEN2
                        /\ len' = ContentAt(sent, k, 1) * ByteRadix,
               r # 0 => gu8LocalHalStatus' = DATA /\ len' = n - (r + 1)
        PROVE  ParserAt(y)' /\ DeliveredOK(y)'
    <2>1. guiLocalPacketStart' = pos_start' - Held(sent', y)
      BY <1>2, <1>3, <1>6, <1>8
    <2>2. Size(sent', y.frame) = n /\ y.read # -1 /\ y.read # 0 /\ (y.read = 1 <=> r = 0)
          /\ \A i : ContentAt(sent', y.frame, i) = ContentAt(sent, k, i)
      BY <1>2, <1>3
    <2>3. y.read \in 2 .. n - 1 => r # 0 /\ n - y.read = n - (r + 1)
      BY <1>2, <1>3
    <2>4. ParserAt(y)'
      <3>1. n \in Nat /\ y.read \in Int /\ y.key = FALSE /\ y.frame = k
        BY <1>2, <1>3
      <3>2. y.read = 1 => /\ gu8LocalHalStatus' = DATALEN2
                          /\ len' = ContentAt(sent', y.frame, 1) * ByteRadix
        BY <1>8, <2>2
      <3>3. y.read \in 2 .. n - 1 => gu8LocalHalStatus' = DATA /\ len' = n - y.read
        BY <1>8, <2>3
      <3> HIDE DEF n, r, k
      <3> QED
        BY <2>1, <2>2, <3>1, <3>2, <3>3 DEF ParserAt
    <2>5. Whole(y)' = Whole(x) /\ ~Between(sent', y)
      BY <1>3, <1>5, <1>8 DEF Whole
    <2>6. Clean(sent) => delivered = [i \in 1 .. Whole(x) |-> WholePacket(sent, i)]
      BY DEF AtPlace, DeliveredOK
    <2>7. Clean(sent') => delivered' = [i \in 1 .. Whole(y)' |-> WholePacket(sent', i)]
      BY <1>8, <2>5, <2>6
    <2>8. DeliveredOK(y)'
      BY <2>5, <2>7 DEF DeliveredOK
    <2> QED
      BY <2>4, <2>8
  <1>9. ASSUME r = 0 PROVE ParserAt(y)' /\ DeliveredOK(y)'
    <2>1. gu8LocalHalStatus = DATALEN1 /\ v = ContentAt(sent, k, 1)
      <3>1. x.read + 1 = 1
        BY <1>9
      <3> QED
        BY <1>4, <1>9, <3>1
    <2>2. gu8LocalHalStatus' = DATALEN2 /\ len' = v * ByteRadix /\ delivered' = delivered
      BY <2>1 DEF TakeByte, DATALEN1, DATALEN2, DATA
    <2>3. r + 1 # n
      BY <1>2, <1>9
    <2> QED
      BY <1>8, <1>9, <2>1, <2>2, <2>3
  <1>10. ASSUME r = 1 PROVE ParserAt(y)' /\ DeliveredOK(y)'
    <2>1. gu8LocalHalStatus = DATALEN2 /\ v = ContentAt(sent, k, 2)
          /\ len = ContentAt(sent, k, 1) * ByteRadix
      <3>1. x.read + 1 = 2
        BY <1>10
      <3> QED
        BY <1>4, <1>10, <3>1
    <2>2. /\ len' = len + v /\ delivered' = delivered
          /\ guiLocalPacketStart' = guiLocalPacketStart
          /\ gu8LocalHalStatus' = IF len' = 0 THEN HEAD1 ELSE DATA
      BY <2>1 DEF TakeByte, DATALEN1, DATALEN2, DATA
    <2>3. len' = n - 2 /\ len' # 0
      BY <1>2, <2>1, <2>2
    <2>4. r + 1 # n /\ n - (r + 1) = n - 2
      BY <1>2, <1>10
    <2> QED
      BY <1>8, <1>10, <2>2, <2>3, <2>4
  <1>11. ASSUME r >= 2 PROVE ParserAt(y)' /\ DeliveredOK(y)'
    <2>1. gu8LocalHalStatus = DATA /\ len = n - r
      BY <1>2, <1>3, <1>4, <1>11
    <2>2. /\ len' = (len - 1) % U16 /\ gu8LocalHalStatus' = gu8LocalHalStatus
          /\ IF len' = 0
             THEN /\ delivered' = Append(delivered,
                         PacketBytes(hal_RxBuffer', guiLocalPacketStart, pos_start'))
                  /\ guiLocalPacketStart' = pos_start'
             ELSE UNCHANGED <<guiLocalPacketStart, delivered>>
      BY <2>1 DEF TakeByte, DATALEN1, DATALEN2, DATA
    <2>3. len' = n - (r + 1)
      <3>1. len - 1 \in Nat /\ len - 1 < U16 /\ U16 \in Nat /\ len - 1 = n - (r + 1)
        <4>1. U16 \in Nat
          BY Constants DEF U16
        <4>2. n \in Nat /\ r \in 2 .. n - 1 /\ len = n - r /\ len \in 0 .. U16 - 1
          BY <1>1, <1>2, <1>3, <1>11, <2>1
        <4> HIDE DEF n, r, len
        <4> QED
          BY <4>1, <4>2
      <3>2. (len - 1) % U16 = len - 1
        BY <3>1, ModSmall
      <3> QED
        BY <2>2, <3>1, <3>2
    <2>4. CASE r + 1 # n
      <3>1. len' # 0
        BY <1>2, <1>3, <2>3, <2>4
      <3> QED
        BY <1>8, <1>11, <2>1, <2>2, <2>3, <2>4, <3>1
    <2>5. CASE r + 1 = n
      <3>1. len' = 0 /\ guiLocalPacketStart = start
        BY <1>2, <1>3, <1>11, <2>3, <2>5
      <3>2. delivered' = Append(delivered, PacketBytes(hal_RxBuffer', start, pos_start'))
        BY <2>2, <3>1
      <3>3. x.read + 3 = Size(sent, k) + 2
        BY <1>2, <1>3, <2>5
      <3>4. PacketBytes(hal_RxBuffer', start, pos_start') = WholePacket(sent, k)
        BY <1>1, <3>3, LeavesWhole
      <3>5. delivered' = Append(delivered, WholePacket(sent, k))
        BY <3>2, <3>4
      <3>6. WholePacket(sent, k) \in Seq(Byte)
        BY <1>1, PacketIs
      <3>7. delivered' # <<>> /\ Last(delivered') = WholePacket(sent, k)
        <4>1. delivered' \in Seq(Seq(Byte)) /\ Len(delivered') = Len(delivered) + 1
              /\ delivered'[Len(delivered) + 1] = WholePacket(sent, k) /\ Len(delivered) \in Nat
          BY <1>1, <3>5, <3>6
        <4> QED
          BY <4>1 DEF Last
      <3>8. ASSUME Clean(sent)
            PROVE  delivered' = [i \in 1 .. k |-> WholePacket(sent, i)]
        <4>1. delivered = [i \in 1 .. k - 1 |-> WholePacket(sent, i)]
          <5>1. Whole(x) = k - 1
            BY <1>5 DEF Whole
          <5> QED
            BY <3>8, <5>1 DEF AtPlace, DeliveredOK
        <4>2. Len(delivered) = k - 1 /\ k \in Nat /\ k >= 1
          <5>1. k - 1 \in Nat /\ DOMAIN delivered = 1 .. k - 1
            BY <1>1, <4>1
          <5> QED
            BY <1>1, <5>1
        <4> HIDE DEF k
        <4>3. /\ Len(delivered') = k /\ delivered'[k] = WholePacket(sent, k)
              /\ \A i \in 1 .. k - 1 : delivered'[i] = delivered[i]
              /\ delivered' \in Seq(Seq(Byte))
          BY <1>1, <3>5, <3>6, <4>2
        <4>4. \A i \in 1 .. k - 1 : delivered[i] = WholePacket(sent, i)
          BY <4>1
        <4>5. ASSUME NEW i \in 1 .. k PROVE delivered'[i] = WholePacket(sent, i)
          <5>1. CASE i = k
            BY <4>3, <5>1
          <5>2. CASE i # k
            <6>1. i \in 1 .. k - 1
              BY <4>2, <5>2
            <6> QED
              BY <4>3, <4>4, <6>1
          <5> QED
            BY <5>1, <5>2
        <4>6. delivered' = [i \in 1 .. k |-> delivered'[i]]
          BY <4>3
        <4> QED
          BY <4>5, <4>6
      <3>9. Whole(y)' = k
        BY <1>3, <1>5, <2>5 DEF Whole
      <3>10. DeliveredOK(y)'
        BY <1>3, <3>7, <3>8, <3>9 DEF DeliveredOK
      <3>11. Size(sent', y.frame) = n /\ y.read = n
        BY <1>3, <2>5
      <3>12. ParserAt(y)'
        <4> HIDE DEF n, r, k
        <4> QED
          BY <1>2, <3>11 DEF ParserAt
      <3> QED
        BY <3>10, <3>12
    <2> QED
      BY <2>4, <2>5
  <1>12. ParserAt(y)' /\ DeliveredOK(y)'
    BY <1>2, <1>3, <1>9, <1>10, <1>11
  <1> QED
    BY <1>7, <1>12 DEF AtPlace

\* Inside the content of a frame the parser knows where it is.
LEMMA ContentPlace ==
    ASSUME McuInv, NEW x \in Place(sent), AtPlace(x), x.frame # 0,
           x.read \in 0 .. Size(sent, x.frame) - 1
    PROVE  /\ gu8LocalHalStatus \in {DATALEN1, DATALEN2, DATA}
           /\ x.read = 0 => gu8LocalHalStatus = DATALEN1
                            /\ (halRecKeyWord \/ guiLocalPacketStart = pos_start - 2)
           /\ x.read = 1 => /\ gu8LocalHalStatus = DATALEN2
                            /\ gu16LocalPacketDataLen = ContentAt(sent, x.frame, 1) * ByteRadix
           /\ x.read >= 2 => /\ gu8LocalHalStatus = DATA
                             /\ gu16LocalPacketDataLen = Size(sent, x.frame) - x.read
           /\ x.read >= 1 => /\ halRecKeyWord = x.key
                             /\ guiLocalPacketStart = pos_start - Held(sent, x)
           /\ Held(sent, x) = x.read + (IF x.key THEN 3 ELSE 2)
           /\ Held(sent, x) \in Nat /\ Held(sent, x) <= pos_start
           /\ Held(sent, x) + FifoCap <= RingSize
           /\ Standing(pos_start - Held(sent, x), Held(sent, x), x.frame)
           /\ x.read \in Nat /\ x.frame \in 1 .. Len(sent) /\ Size(sent, x.frame) >= 3
           /\ Size(sent, x.frame) \in Nat
  <1> DEFINE n == Size(sent, x.frame)
  <1>1. sent \in Seq(Frame) /\ x.frame \in 0 .. Len(sent)
    BY PlaceIs DEF McuInv
  <1>2. n \in Nat /\ n >= 3 /\ n + 2 + FifoCap <= RingSize /\ FifoCap \in Nat /\ RingSize \in Nat
    BY <1>1, SizeIs, Constants
  <1>3. ~Between(sent, x)
    BY <1>2 DEF Between
  <1>4. /\ Held(sent, x) \in Nat /\ Held(sent, x) <= pos_start
        /\ Held(sent, x) <= n + 2
        /\ Standing(pos_start - Held(sent, x), Held(sent, x), x.frame)
        /\ x.key => Held(sent, x) = x.read + 3
        /\ ~x.key => Held(sent, x) = x.read + 2
    BY <1>3, HeldIs DEF AtPlace
  <1>5. /\ (x.read = 0 /\ n # 0) =>
              /\ gu8LocalHalStatus = DATALEN1
              /\ halRecKeyWord \/ guiLocalPacketStart = pos_start - 2
        /\ x.read \in 1 .. n - 1 =>
              halRecKeyWord = x.key /\ guiLocalPacketStart = pos_start - Held(sent, x)
        /\ (x.read = 1 /\ n # 0) =>
              /\ gu8LocalHalStatus = DATALEN2
              /\ gu16LocalPacketDataLen = ContentAt(sent, x.frame, 1) * ByteRadix
        /\ x.read \in 2 .. n - 1 =>
              gu8LocalHalStatus = DATA /\ gu16LocalPacketDataLen = n - x.read
    BY DEF AtPlace, ParserAt
  <1> HIDE DEF n
  <1>6. x.read \in 0 .. n - 1
    BY DEF n
  <1>7. /\ x.read = 0 => gu8LocalHalStatus = DATALEN1
                         /\ (halRecKeyWord \/ guiLocalPacketStart = pos_start - 2)
        /\ x.read = 1 => /\ gu8LocalHalStatus = DATALEN2
                         /\ gu16LocalPacketDataLen = ContentAt(sent, x.frame, 1) * ByteRadix
    BY <1>2, <1>5
  <1>8. /\ x.read >= 2 => gu8LocalHalStatus = DATA /\ gu16LocalPacketDataLen = n - x.read
        /\ x.read >= 1 => /\ halRecKeyWord = x.key
                          /\ guiLocalPacketStart = pos_start - Held(sent, x)
    BY <1>2, <1>5, <1>6
  <1>9. x.read = 0 \/ x.read = 1 \/ x.read >= 2
    BY <1>2, <1>6
  <1>10. Held(sent, x) + FifoCap <= RingSize /\ x.read \in Nat /\ x.frame \in 1 .. Len(sent)
    BY <1>1, <1>2, <1>4, <1>6
  <1>11. gu8LocalHalStatus \in {DATALEN1, DATALEN2, DATA}
    BY <1>7, <1>8, <1>9
  <1>12. Held(sent, x) = x.read + (IF x.key THEN 3 ELSE 2)
    BY <1>4
  <1> QED
    BY <1>2, <1>4, <1>7, <1>8, <1>10, <1>11, <1>12 DEF n

\* A plain byte of the content, after a head that may have been FF FF FF.
LEMMA PlainOK ==
    ASSUME McuInv, MoreBytes, NEW x \in Place(sent), NEW y \in Place(sent), AtPlace(x),
           Plain(x, rxByte, y), Forward, TakeByte(rxByte), halRecKeyWord' = FALSE,
           sent' = sent, x.read = 0 => guiLocalPacketStart' = pos_start - 2
    PROVE  AtPlace(y)'
  <1>1. /\ x.frame # 0 /\ ~x.key /\ x.read \in 0 .. Size(sent, x.frame) - 1
        /\ rxByte = ContentAt(sent, x.frame, x.read + 1)
        /\ y.frame = x.frame /\ y.read = x.read + 1 /\ ~y.key
    BY DEF Plain
  <1>2. PICK h \in Nat : h = x.read + 2
    BY <1>1, ContentPlace
  <1>3. /\ h = Held(sent, x) /\ h <= pos_start
        /\ Standing(pos_start - h, h, x.frame) /\ x.read \in Nat
        /\ x.read >= 1 => guiLocalPacketStart = pos_start - h
    BY <1>1, <1>2, ContentPlace
  <1>4. pos_start \in Nat
    BY ByteRead
  <1>5. PICK start \in Nat : start = pos_start - h
    BY <1>2, <1>3, <1>4
  <1>6. pos_start = start + h /\ h + 1 = x.read + 3 /\ pos_start' = start + (x.read + 3)
    BY <1>2, <1>3, <1>4, <1>5 DEF Forward
  <1>7. rxByte = PacketAt(sent, x.frame, h + 1)
    <2>1. PICK r \in Nat : r = x.read + 1
      BY <1>3
    <2>2. PacketAt(sent, x.frame, r + 2) = ContentAt(sent, x.frame, r)
      BY <1>3, <2>1, PacketLater
    <2>3. h + 1 = r + 2
      BY <1>2, <1>3, <2>1
    <2>4. PacketAt(sent, x.frame, r + 2) = rxByte
      BY <1>1, <2>1, <2>2
    <2> QED
      BY <2>3, <2>4
  <1>8. Standing(start, h + 1, x.frame)'
    <2>1. Standing(start, h, x.frame)
      BY <1>3, <1>5
    <2> QED
      BY <1>6, <1>7, <2>1, StandsMore DEF Forward
  <1>9. Standing(start, x.read + 3, x.frame)'
    BY <1>6, <1>8
  <1>10. x.read = 0 => guiLocalPacketStart' = start
    BY <1>2, <1>5
  <1>11. x.read # 0 => guiLocalPacketStart = start
    BY <1>3, <1>5
  <1> QED
    BY <1>1, <1>6, <1>9, <1>10, <1>11, TakesByte

\* FF 55: the 55 goes, and the FF was the byte of the content.
LEMMA UnstuffsOK ==
    ASSUME McuInv, MoreBytes, NEW x \in Place(sent), NEW y \in Place(sent), AtPlace(x),
           Unstuffs(x, rxByte, y), Squeezed, TakeByte(FF), halRecKeyWord' = FALSE,
           sent' = sent
    PROVE  AtPlace(y)'
  <1>1. /\ x.frame # 0 /\ x.key /\ x.read \in 0 .. Size(sent, x.frame) - 1 /\ x.read # 0
        /\ FF = ContentAt(sent, x.frame, x.read + 1)
        /\ y.frame = x.frame /\ y.read = x.read + 1 /\ ~y.key
    <2>1. x.frame \in 0 .. Len(sent) /\ sent \in Seq(Frame)
      BY PlaceIs DEF McuInv
    <2>2. Size(sent, x.frame) \in Nat
      BY <2>1, SizeIs
    <2> QED
      BY <2>2 DEF Unstuffs
  <1>2. PICK h \in Nat : h = x.read + 3
    BY <1>1, ContentPlace
  <1>3. /\ h = Held(sent, x) /\ h <= pos_start /\ h + FifoCap <= RingSize
        /\ Standing(pos_start - h, h, x.frame) /\ x.read \in Nat
        /\ guiLocalPacketStart = pos_start - h
    BY <1>1, <1>2, ContentPlace
  <1>4. /\ pos_start \in Nat /\ pos_current \in Nat /\ pos_start < pos_current
        /\ pos_current - pos_start <= FifoCap /\ FifoCap \in Nat /\ RingSize \in Nat
        /\ pos_current - pos_start < RingSize
    BY ByteRead, Constants
  <1>5. PICK start \in Nat : start = pos_start - h
    BY <1>2, <1>3, <1>4
  <1>6. pos_start' = start + (x.read + 3)
    BY <1>2, <1>3, <1>4, <1>5 DEF Squeezed
  <1>7. \A d \in 1 .. pos_start : d + (pos_current - pos_start) <= RingSize =>
            hal_RxBuffer'[Mask(pos_start - d)] = hal_RxBuffer[Mask(pos_start - d)]
    BY <1>4, MovedBack DEF Squeezed
  <1>8. ASSUME NEW i \in 1 .. h
        PROVE  hal_RxBuffer'[Mask(start + i - 1)] = PacketAt(sent, x.frame, i)
    <2>1. PICK d \in 1 .. pos_start : d = h - i + 1
      BY <1>3, <1>4
    <2>2. d + (pos_current - pos_start) <= RingSize /\ pos_start - d = start + i - 1
      BY <1>3, <1>4, <1>5, <2>1
    <2>3. hal_RxBuffer'[Mask(start + i - 1)] = hal_RxBuffer[Mask(start + i - 1)]
      BY <1>7, <2>2
    <2>4. hal_RxBuffer[Mask(start + i - 1)] = PacketAt(sent, x.frame, i)
      BY <1>3, <1>5 DEF Standing
    <2> QED
      BY <2>3, <2>4
  <1>9. Standing(start, h, x.frame)'
    BY <1>8 DEF Standing, Mask
  <1>10. Standing(start, x.read + 3, x.frame)'
    BY <1>2, <1>9
  <1>11. guiLocalPacketStart = start
    BY <1>3, <1>5
  <1> QED
    BY <1>1, <1>6, <1>10, <1>11, TakesByte

LEMMA SyncHeadFrames ==
    ASSUME McuInv, SyncHead
    PROVE  FramesInv'
  <1>1. MoreBytes /\ Forward /\ UNCHANGED <<fifo, line, sent, delivered, halRecKeyWord>>
    BY DEF SyncHead, Forward, lineVars
  <1>2. pos_start \in Nat /\ pos_start' = pos_start + 1 /\ ESC # FF /\ sent \in Seq(Frame)
    BY <1>1, ByteRead, Constants DEF Forward
  <1>3. ASSUME NEW x \in Place(sent), NEW y \in Place(sent), AtPlace(x),
               GoesOn(sent, x, rxByte, y)
        PROVE  AtPlace(y)'
    <2>0. gu8LocalHalStatus \in {HEAD1, HEAD2}
      BY DEF SyncHead
    <2>1. CASE Lost(x, y)
      BY <1>1, <1>2, <2>1, LostOK
    <2>2. CASE HeadStarts(x, rxByte, y)
      <3>1. rxByte = FF /\ y.read = -1
        BY <2>2 DEF HeadStarts
      <3>2. \/ gu8LocalHalStatus' = HEAD2 /\ guiLocalPacketStart' = pos_start
            \/ gu8LocalHalStatus' = DATALEN1
        BY <3>1 DEF SyncHead
      <3>3. ParserAt(y)'
        BY <1>2, <3>1, <3>2 DEF ParserAt, HEAD1, HEAD2, DATALEN1
      <3> QED
        BY <1>1, <1>3, <2>2, <3>3, HeadStep
    <2>3. CASE HeadEnds(x, rxByte, y)
      <3>1. rxByte = FF /\ y.read = 0 /\ x.read = -1
        BY <2>3 DEF HeadEnds
      <3>2. gu8LocalHalStatus = HEAD2 /\ guiLocalPacketStart = pos_start - 1
        BY <1>3, <2>0, <3>1 DEF AtPlace, ParserAt
      <3>3. gu8LocalHalStatus' = DATALEN1 /\ guiLocalPacketStart' = pos_start' - 2
        BY <1>2, <3>1, <3>2 DEF SyncHead, HEAD1, HEAD2
      <3>4. ParserAt(y)'
        BY <3>1, <3>3 DEF ParserAt
      <3> QED
        BY <1>1, <1>3, <2>3, <3>4, HeadStep
    <2>4. x.frame # 0 => x.read \notin 0 .. Size(sent, x.frame) - 1
      BY <1>3, <2>0, ContentPlace DEF HEAD1, HEAD2, DATALEN1, DATALEN2, DATA
    <2>5. x.frame # 0 /\ x.read \in 1 .. Size(sent, x.frame) - 1
             => x.read \in 0 .. Size(sent, x.frame) - 1
      <3>1. Size(sent, x.frame) \in Nat
        BY <1>2, SizeIs, PlaceIs
      <3> QED
        BY <3>1
    <2>6. ~StartsFF(x, rxByte, y) /\ ~Plain(x, rxByte, y) /\ ~Unstuffs(x, rxByte, y)
      BY <2>4, <2>5 DEF StartsFF, Plain, Unstuffs
    <2> QED
      BY <1>2, <1>3, <2>1, <2>2, <2>3, <2>6, StepKinds
  <1>4. NextByte
    BY <1>3 DEF NextByte
  <1> QED
    BY <1>1, <1>4, ParserStep

LEMMA PlainByteFrames ==
    ASSUME McuInv, PlainByte
    PROVE  FramesInv'
  <1>1. /\ MoreBytes /\ Forward /\ UNCHANGED <<fifo, line, sent, halRecKeyWord>>
        /\ halRecKeyWord = FALSE /\ rxByte # FF /\ TakeByte(rxByte)
        /\ gu8LocalHalStatus = DATALEN1 => guiLocalPacketStart' = guiLocalPacketStart
    BY DEF PlainByte, InFrame, Forward, lineVars, McuInv, McuTypeOK
  <1>2. pos_start' \in Nat /\ sent \in Seq(Frame)
    BY <1>1, ByteRead DEF Forward
  <1>3. ASSUME NEW x \in Place(sent), NEW y \in Place(sent), AtPlace(x),
               GoesOn(sent, x, rxByte, y)
        PROVE  AtPlace(y)'
    <2>1. CASE Lost(x, y)
      BY <1>1, <1>2, <2>1, LostOK
    <2>2. CASE Plain(x, rxByte, y)
      <3>1. x.read = 0 => guiLocalPacketStart' = pos_start - 2
        BY <1>1, <1>3, <2>2, ContentPlace DEF Plain
      <3> QED
        BY <1>1, <1>3, <2>2, <3>1, PlainOK
    <2>3. ~Unstuffs(x, rxByte, y)
      <3>1. SUFFICES ASSUME Unstuffs(x, rxByte, y) PROVE FALSE
        OBVIOUS
      <3>2. x.frame # 0 /\ x.key /\ x.read \in 1 .. Size(sent, x.frame) - 1
        BY <3>1 DEF Unstuffs
      <3>3. Size(sent, x.frame) \in Nat
        BY <1>2, SizeIs, PlaceIs
      <3>4. x.read \in 0 .. Size(sent, x.frame) - 1 /\ x.read >= 1
        BY <3>2, <3>3
      <3> QED
        BY <1>1, <1>3, <3>2, <3>4, ContentPlace
    <2>4. ~HeadStarts(x, rxByte, y) /\ ~HeadEnds(x, rxByte, y) /\ ~StartsFF(x, rxByte, y)
      BY <1>1 DEF HeadStarts, HeadEnds, StartsFF
    <2> QED
      BY <1>2, <1>3, <2>1, <2>2, <2>3, <2>4, StepKinds
  <1>4. NextByte
    BY <1>3 DEF NextByte
  <1> QED
    BY <1>1, <1>4, ParserStep

LEMMA FirstFFFrames ==
    ASSUME McuInv, FirstFF
    PROVE  FramesInv'
  <1>1. /\ MoreBytes /\ Forward /\ UNCHANGED <<fifo, line, sent, delivered>>
        /\ UNCHANGED <<gu8LocalHalStatus, gu16LocalPacketDataLen, guiLocalPacketStart>>
        /\ halRecKeyWord = FALSE /\ halRecKeyWord' = TRUE /\ rxByte = FF
        /\ gu8LocalHalStatus \in {DATALEN1, DATALEN2, DATA}
    BY DEF FirstFF, InFrame, Forward, lineVars, McuInv, McuTypeOK
  <1>2. /\ pos_start' \in Nat /\ pos_start' = pos_start + 1 /\ pos_start \in Nat
        /\ sent \in Seq(Frame) /\ ESC # FF
    BY <1>1, ByteRead, Constants DEF Forward
  <1>3. ASSUME NEW x \in Place(sent), NEW y \in Place(sent), AtPlace(x),
               GoesOn(sent, x, rxByte, y)
        PROVE  AtPlace(y)'
    <2>1. CASE Lost(x, y)
      BY <1>1, <1>2, <2>1, LostOK
    <2>2. CASE HeadStarts(x, rxByte, y)
      <3>1. y.read = -1
        BY <2>2 DEF HeadStarts
      <3>2. ParserAt(y)'
        BY <1>1, <3>1 DEF ParserAt, HEAD1, HEAD2, DATALEN1, DATALEN2, DATA
      <3> QED
        BY <1>1, <1>3, <2>2, <3>2, HeadStep
    <2>3. CASE HeadEnds(x, rxByte, y)
      <3>1. y.read = 0 /\ x.read = -1
        BY <2>3 DEF HeadEnds
      <3>2. gu8LocalHalStatus = DATALEN1
        BY <1>1, <1>3, <3>1 DEF AtPlace, ParserAt, HEAD1, HEAD2, DATALEN1, DATALEN2, DATA
      <3>3. ParserAt(y)'
        BY <1>1, <3>1, <3>2 DEF ParserAt
      <3> QED
        BY <1>1, <1>3, <2>3, <3>3, HeadStep
    <2>4. CASE StartsFF(x, rxByte, y)
      <3>1. /\ x.frame # 0 /\ ~x.key /\ x.read \in 1 .. Size(sent, x.frame) - 1
            /\ y.frame = x.frame /\ y.read = x.read /\ y.key
        BY <2>4 DEF StartsFF
      <3>2. Size(sent, x.frame) \in Nat /\ y.key = TRUE /\ x.read \in Int
        BY <1>2, <3>1, SizeIs, PlaceIs
      <3>3. x.read \in 0 .. Size(sent, x.frame) - 1 /\ x.read >= 1 /\ x.read # 0 /\ x.read # -1
        BY <3>1, <3>2
      <3>4. /\ x.read = 1 => /\ gu8LocalHalStatus = DATALEN2
                             /\ gu16LocalPacketDataLen = ContentAt(sent, x.frame, 1) * ByteRadix
            /\ x.read >= 2 => /\ gu8LocalHalStatus = DATA
                              /\ gu16LocalPacketDataLen = Size(sent, x.frame) - x.read
            /\ guiLocalPacketStart = pos_start - Held(sent, x)
            /\ Held(sent, x) = x.read + 2
        BY <1>3, <3>1, <3>3, ContentPlace
      <3>5. Held(sent', y) = x.read + 3
        BY <1>1, <3>1, <3>2, <3>3 DEF Held, Between
      <3>6. guiLocalPacketStart' = pos_start' - Held(sent', y)
        BY <1>1, <1>2, <3>2, <3>4, <3>5
      <3>7. ParserAt(y)'
        <4>1. y.read = 1 => /\ gu8LocalHalStatus' = DATALEN2
                            /\ gu16LocalPacketDataLen' = ContentAt(sent', y.frame, 1) * ByteRadix
          BY <1>1, <3>1, <3>4
        <4>2. y.read \in 2 .. Size(sent', y.frame) - 1 =>
                /\ gu8LocalHalStatus' = DATA
                /\ gu16LocalPacketDataLen' = Size(sent', y.frame) - y.read
          BY <1>1, <3>1, <3>2, <3>4
        <4>3. halRecKeyWord' = y.key
          BY <1>1, <3>2
        <4>4. y.read # 0 /\ y.read # -1
          BY <3>1, <3>3
        <4> QED
          BY <3>6, <4>1, <4>2, <4>3, <4>4 DEF ParserAt
      <3> QED
        BY <1>1, <1>3, <2>4, <3>7, HeadStep
    <2>5. ~Plain(x, rxByte, y) /\ ~Unstuffs(x, rxByte, y)
      BY <1>1, <1>2 DEF Plain, Unstuffs
    <2> QED
      BY <1>2, <1>3, <2>1, <2>2, <2>3, <2>4, <2>5, StepKinds
  <1>4. NextByte
    BY <1>3 DEF NextByte
  <1> QED
    BY <1>1, <1>4, ParserStep

\* A 55 to come means an FF of the content has been read: nothing else can follow.
LEMMA KeyTells ==
    ASSUME McuInv, NEW x \in Place(sent), AtPlace(x), x.frame # 0,
           x.read \in 1 .. Size(sent, x.frame) - 1
    PROVE  halRecKeyWord = x.key
  <1>1. Size(sent, x.frame) \in Nat
    BY SizeIs, PlaceIs DEF McuInv
  <1>2. x.read \in 0 .. Size(sent, x.frame) - 1 /\ x.read >= 1
    BY <1>1
  <1> QED
    BY <1>2, ContentPlace

LEMMA HeadInFrameFrames ==
    ASSUME McuInv, HeadInFrame
    PROVE  FramesInv'
  <1>1. /\ MoreBytes /\ Forward /\ UNCHANGED <<fifo, line, sent, delivered>>
        /\ halRecKeyWord = TRUE /\ rxByte = FF
        /\ gu8LocalHalStatus' = DATALEN1 /\ guiLocalPacketStart' = pos_start - 1
    BY DEF HeadInFrame, InFrame, Forward, lineVars, McuInv, McuTypeOK
  <1>2. /\ pos_start' \in Nat /\ pos_start' = pos_start + 1 /\ pos_start \in Nat
        /\ sent \in Seq(Frame) /\ ESC # FF
    BY <1>1, ByteRead, Constants DEF Forward
  <1>3. ASSUME NEW x \in Place(sent), NEW y \in Place(sent), AtPlace(x),
               GoesOn(sent, x, rxByte, y)
        PROVE  AtPlace(y)'
    <2>1. CASE Lost(x, y)
      BY <1>1, <1>2, <2>1, LostOK
    <2>2. CASE HeadStarts(x, rxByte, y)
      <3>1. y.read = -1
        BY <2>2 DEF HeadStarts
      <3>2. ParserAt(y)'
        BY <1>1, <3>1 DEF ParserAt, HEAD1, HEAD2, DATALEN1
      <3> QED
        BY <1>1, <1>3, <2>2, <3>2, HeadStep
    <2>3. CASE HeadEnds(x, rxByte, y)
      <3>1. y.read = 0
        BY <2>3 DEF HeadEnds
      <3>2. guiLocalPacketStart' = pos_start' - 2
        BY <1>1, <1>2
      <3>3. ParserAt(y)'
        BY <1>1, <3>1, <3>2 DEF ParserAt
      <3> QED
        BY <1>1, <1>3, <2>3, <3>3, HeadStep
    <2>4. ~StartsFF(x, rxByte, y)
      BY <1>1, <1>3, KeyTells DEF StartsFF
    <2>5. ~Plain(x, rxByte, y) /\ ~Unstuffs(x, rxByte, y)
      BY <1>1, <1>2 DEF Plain, Unstuffs
    <2> QED
      BY <1>2, <1>3, <2>1, <2>2, <2>3, <2>4, <2>5, StepKinds
  <1>4. NextByte
    BY <1>3 DEF NextByte
  <1> QED
    BY <1>1, <1>4, ParserStep

LEMMA OtherAfterFFFrames ==
    ASSUME McuInv, OtherAfterFF
    PROVE  FramesInv'
  <1>1. /\ MoreBytes /\ Forward /\ UNCHANGED <<fifo, line, sent>>
        /\ halRecKeyWord = TRUE /\ halRecKeyWord' = FALSE /\ rxByte # FF /\ rxByte # ESC
        /\ gu8LocalHalStatus = DATALEN1 =>
              guiLocalPacketStart' = pos_start - 2 /\ TakeByte(rxByte)
    BY DEF OtherAfterFF, InFrame, Forward, lineVars, McuInv, McuTypeOK
  <1>2. pos_start' \in Nat /\ sent \in Seq(Frame)
    BY <1>1, ByteRead DEF Forward
  <1>3. ASSUME NEW x \in Place(sent), NEW y \in Place(sent), AtPlace(x),
               GoesOn(sent, x, rxByte, y)
        PROVE  AtPlace(y)'
    <2>1. CASE Lost(x, y)
      BY <1>1, <1>2, <2>1, LostOK
    <2>2. CASE Plain(x, rxByte, y)
      <3>1. /\ x.frame # 0 /\ x.read \in 0 .. Size(sent, x.frame) - 1 /\ ~x.key
        BY <2>2 DEF Plain
      <3>2. x.read = 0
        <4>1. x.read \notin 1 .. Size(sent, x.frame) - 1
          BY <1>1, <1>3, <3>1, KeyTells
        <4>2. Size(sent, x.frame) \in Nat
          BY <1>2, SizeIs, PlaceIs
        <4> QED
          BY <3>1, <4>1, <4>2
      <3>3. gu8LocalHalStatus = DATALEN1
        BY <1>3, <3>1, <3>2, ContentPlace
      <3> QED
        BY <1>1, <1>3, <2>2, <3>3, PlainOK
    <2>3. ~HeadStarts(x, rxByte, y) /\ ~HeadEnds(x, rxByte, y) /\ ~StartsFF(x, rxByte, y)
          /\ ~Unstuffs(x, rxByte, y)
      BY <1>1 DEF HeadStarts, HeadEnds, StartsFF, Unstuffs
    <2> QED
      BY <1>2, <1>3, <2>1, <2>2, <2>3, StepKinds
  <1>4. NextByte
    BY <1>3 DEF NextByte
  <1> QED
    BY <1>1, <1>4, ParserStep

LEMMA StuffedFFFrames ==
    ASSUME McuInv, StuffedFF
    PROVE  FramesInv'
  <1>1. /\ MoreBytes /\ Squeezed /\ UNCHANGED <<fifo, line, sent>>
        /\ halRecKeyWord = TRUE /\ halRecKeyWord' = FALSE /\ rxByte = ESC /\ TakeByte(FF)
    BY DEF StuffedFF, InFrame, Squeezed, lineVars, McuInv, McuTypeOK
  <1>2. pos_start' \in Nat /\ sent \in Seq(Frame) /\ ESC # FF
    BY <1>1, ByteRead, Constants DEF Squeezed
  <1>3. ASSUME NEW x \in Place(sent), NEW y \in Place(sent), AtPlace(x),
               GoesOn(sent, x, rxByte, y)
        PROVE  AtPlace(y)'
    <2>1. CASE Lost(x, y)
      BY <1>1, <1>2, <2>1, LostOK
    <2>2. CASE Unstuffs(x, rxByte, y)
      BY <1>1, <1>3, <2>2, UnstuffsOK
    <2>3. ~Plain(x, rxByte, y)
      <3>1. SUFFICES ASSUME Plain(x, rxByte, y) PROVE FALSE
        OBVIOUS
      <3>2. x.frame # 0 /\ ~x.key /\ x.read \in 0 .. Size(sent, x.frame) - 1 /\ x.read # 0
        BY <1>1, <3>1 DEF Plain
      <3>3. Size(sent, x.frame) \in Nat
        BY <1>2, SizeIs, PlaceIs
      <3>4. x.read \in 1 .. Size(sent, x.frame) - 1
        BY <3>2, <3>3
      <3> QED
        BY <1>1, <1>3, <3>2, <3>4, KeyTells
    <2>4. ~HeadStarts(x, rxByte, y) /\ ~HeadEnds(x, rxByte, y) /\ ~StartsFF(x, rxByte, y)
      BY <1>1, <1>2 DEF HeadStarts, HeadEnds, StartsFF
    <2> QED
      BY <1>2, <1>3, <2>1, <2>2, <2>3, <2>4, StepKinds
  <1>4. NextByte
    BY <1>3 DEF NextByte
  <1> QED
    BY <1>1, <1>4, ParserStep

-----------------------------------------------------------------------------
(* The bytes on their way: from the line to the driver, and into the ring.  *)

RestKeeps == \A S \in Seq(Byte) : \A p \in Nat : RestOK(S, p) => RestOK(S, p)'
HeldKeeps == \A x \in Place(sent) : HeldOK(x) => HeldOK(x)'

LEMMA LineStep ==
    ASSUME McuInv, UNCHANGED <<pos_start, parseVars, sent, delivered>>, RestKeeps, HeldKeeps
    PROVE  FramesInv'
  <1>1. PICK S, at : \E p \in 0 .. Len(S) :
            /\ StreamOK(sent, S, at) /\ RestOK(S, p)
            /\ ParserAt(at[p]) /\ HeldOK(at[p]) /\ DeliveredOK(at[p])
    BY DEF McuInv, FramesInv
  <1>2. PICK p \in 0 .. Len(S) :
            /\ StreamOK(sent, S, at) /\ RestOK(S, p)
            /\ ParserAt(at[p]) /\ HeldOK(at[p]) /\ DeliveredOK(at[p])
    BY <1>1
  <1>3. S \in Seq(Byte) /\ at \in [0 .. Len(S) -> Place(sent)] /\ Len(S) \in Nat
    BY <1>2 DEF StreamOK
  <1>4. RestOK(S, p)'
    BY <1>2, <1>3 DEF RestKeeps
  <1> DEFINE x == at[p]
  <1>5. x \in Place(sent) /\ HeldOK(x) /\ ParserAt(x) /\ DeliveredOK(x)
    BY <1>2, <1>3
  <1> HIDE DEF x
  <1>6. HeldOK(x)'
    BY <1>5 DEF HeldKeeps
  <1>7. ParserAt(x)'
    BY <1>5 DEF ParserAt, parseVars
  <1>8. DeliveredOK(x)'
    BY <1>5 DEF DeliveredOK, Whole
  <1>9. StreamOK(sent', S, at)
    BY <1>2
  <1> QED
    BY <1>2, <1>4, <1>6, <1>7, <1>8, <1>9 DEF FramesInv, x

LEMMA DrainedFrames ==
    ASSUME McuInv, Drained
    PROVE  FramesInv'
  <1>1. UNCHANGED <<pos_start, parseVars, sent, delivered>>
        /\ UNCHANGED <<line, fifo, hal_RxBuffer, pos_current>>
    BY DEF Drained, ringVars, lineVars
  <1>2. RestKeeps
    BY <1>1 DEF RestKeeps, RestOK, Unread, Mask
  <1>3. HeldKeeps
    BY <1>1 DEF HeldKeeps, HeldOK, Mask
  <1> QED
    BY <1>1, <1>2, <1>3, LineStep

LEMMA ConcatIs ==
    ASSUME NEW a \in Seq(Byte), NEW w \in Seq(Byte)
    PROVE  /\ a \o w \in Seq(Byte) /\ Len(a \o w) = Len(a) + Len(w)
           /\ \A i \in 1 .. Len(a) : (a \o w)[i] = a[i]
           /\ \A i \in 1 .. Len(w) : (a \o w)[Len(a) + i] = w[i]
  OBVIOUS

LEMMA ArriveFrames ==
    ASSUME McuInv, Arrive
    PROVE  FramesInv' /\ line' \in Seq(Byte) /\ fifo' \in Seq(Byte) /\ Len(fifo') <= FifoCap
  <1>1. UNCHANGED <<pos_start, parseVars, sent, delivered>>
        /\ UNCHANGED <<hal_RxBuffer, pos_current>>
    BY DEF Arrive, ringVars
  <1>2. line \in Seq(Byte) /\ fifo \in Seq(Byte) /\ Unread \in Nat
    BY DEF McuInv, McuTypeOK, Unread
  <1>3. PICK n \in 1 .. Len(line) :
            /\ Len(fifo) + n <= FifoCap
            /\ fifo' = fifo \o SubSeq(line, 1, n)
            /\ line' = SubSeq(line, n + 1, Len(line))
    BY DEF Arrive
  <1>4. /\ SubSeq(line, 1, n) \in Seq(Byte) /\ Len(SubSeq(line, 1, n)) = n
        /\ \A i \in 1 .. n : SubSeq(line, 1, n)[i] = line[i]
    BY <1>2
  <1>5. /\ fifo' \in Seq(Byte) /\ Len(fifo') = Len(fifo) + n
        /\ \A i \in 1 .. Len(fifo) : fifo'[i] = fifo[i]
        /\ \A i \in 1 .. n : fifo'[Len(fifo) + i] = line[i]
    <2>1. PICK w \in Seq(Byte) : /\ Len(w) = n /\ \A i \in 1 .. n : w[i] = line[i]
                                 /\ fifo' = fifo \o w
      BY <1>3, <1>4
    <2>2. /\ fifo \o w \in Seq(Byte) /\ Len(fifo \o w) = Len(fifo) + n
          /\ \A i \in 1 .. Len(fifo) : (fifo \o w)[i] = fifo[i]
          /\ \A i \in 1 .. n : (fifo \o w)[Len(fifo) + i] = w[i]
      BY <1>2, <2>1, ConcatIs, Zenon
    <2>3. /\ fifo' \in Seq(Byte) /\ Len(fifo') = Len(fifo) + n
          /\ \A i \in 1 .. Len(fifo) : fifo'[i] = fifo[i]
          /\ \A i \in 1 .. n : fifo'[Len(fifo) + i] = w[i]
      BY <2>1, <2>2, Zenon
    <2> QED
      BY <2>1, <2>3
  <1>6. /\ line' \in Seq(Byte) /\ Len(line') = Len(line) - n
        /\ \A i \in 1 .. Len(line) - n : line'[i] = line[n + i]
    BY <1>2, <1>3
  <1>7. /\ Len(line) \in Nat /\ Len(fifo) \in Nat /\ Unread' = Unread
        /\ Len(line') \in Nat /\ Len(fifo') \in Nat
    BY <1>1, <1>2, <1>5, <1>6 DEF Unread
  <1>8. ASSUME NEW S \in Seq(Byte), NEW p \in Nat, RestOK(S, p)
        PROVE  RestOK(S, p)'
    <2>1. /\ Len(S) = p + Unread + Len(fifo) + Len(line)
          /\ \A i \in 1 .. Unread : hal_RxBuffer[Mask(pos_start + i - 1)] = S[p + i]
          /\ \A i \in 1 .. Len(fifo) : fifo[i] = S[p + Unread + i]
          /\ \A i \in 1 .. Len(line) : line[i] = S[p + Unread + Len(fifo) + i]
      BY <1>8 DEF RestOK
    <2>2. Len(S) = p + Unread' + Len(fifo') + Len(line')
      <3>1. Len(fifo') = Len(fifo) + n /\ Len(line') = Len(line) - n
        BY <1>5, <1>6
      <3>2. Len(S) = p + Unread + Len(fifo) + Len(line)
        BY <2>1
      <3> QED
        BY <1>2, <1>7, <3>1, <3>2
    <2>3. \A i \in 1 .. Unread' : hal_RxBuffer'[Mask(pos_start' + i - 1)] = S[p + i]
      BY <1>1, <1>7, <2>1
    <2>4. ASSUME NEW i \in 1 .. Len(fifo')
          PROVE  fifo'[i] = S[p + Unread' + i]
      <3>1. CASE i <= Len(fifo)
        <4>1. i \in 1 .. Len(fifo)
          BY <1>7, <3>1
        <4> QED
          BY <1>5, <1>7, <2>1, <4>1
      <3>2. CASE ~(i <= Len(fifo))
        <4>1. PICK j \in 1 .. n : i = Len(fifo) + j
          <5>1. i - Len(fifo) \in 1 .. n /\ i = Len(fifo) + (i - Len(fifo))
            BY <1>5, <1>7, <3>2
          <5> QED
            BY <5>1
        <4>2. j \in 1 .. Len(line)
          BY <1>7, <1>3
        <4>3. fifo'[i] = line[j] /\ line[j] = S[p + Unread + Len(fifo) + j]
          BY <1>5, <2>1, <4>1, <4>2
        <4>4. p + Unread' + i = p + Unread + Len(fifo) + j
          BY <1>2, <1>7, <4>1
        <4> QED
          BY <4>3, <4>4
      <3> QED
        BY <3>1, <3>2
    <2>5. ASSUME NEW i \in 1 .. Len(line')
          PROVE  line'[i] = S[p + Unread' + Len(fifo') + i]
      <3>1. PICK j \in 1 .. Len(line) : j = n + i
        BY <1>3, <1>6, <1>7
      <3>2. line'[i] = line[j] /\ line[j] = S[p + Unread + Len(fifo) + j]
        BY <1>6, <2>1, <3>1
      <3>3. p + Unread' + Len(fifo') + i = p + Unread + Len(fifo) + j
        BY <1>2, <1>3, <1>5, <1>7, <3>1
      <3> QED
        BY <3>2, <3>3
    <2> QED
      BY <2>2, <2>3, <2>4, <2>5 DEF RestOK, Mask
  <1>9. RestKeeps
    BY <1>8 DEF RestKeeps
  <1>10. HeldKeeps
    BY <1>1 DEF HeldKeeps, HeldOK, Mask
  <1>11. FramesInv'
    BY <1>1, <1>9, <1>10, LineStep
  <1> QED
    BY <1>3, <1>5, <1>6, <1>11

LEMMA LeastOfTwo ==
    ASSUME NEW a \in Int, NEW b \in Int
    PROVE  Min({a, b}) = IF a <= b THEN a ELSE b
  <1> DEFINE m == IF a <= b THEN a ELSE b
  <1>1. m \in {a, b} /\ \A y \in {a, b} : m <= y
    OBVIOUS
  <1>2. \A z \in {a, b} : (\A y \in {a, b} : z <= y) => z = m
    OBVIOUS
  <1> HIDE DEF m
  <1>3. (CHOOSE z \in {a, b} : \A y \in {a, b} : z <= y) = m
    BY <1>1, <1>2
  <1> QED
    BY <1>3 DEF Min, m

\* Nothing of the packet under way is within a read of the ring's end.
LEMMA PlaceFits ==
    ASSUME McuInv, NEW x \in Place(sent)
    PROVE  Held(sent, x) \in Nat /\ Held(sent, x) + FifoCap <= RingSize
  <1>1. sent \in Seq(Frame) /\ x.frame \in 0 .. Len(sent)
    BY PlaceIs DEF McuInv
  <1>2. Held(sent, x) \in Nat /\ Held(sent, x) <= Size(sent, x.frame) + 2
        /\ (Between(sent, x) => Held(sent, x) = 0) /\ (~Between(sent, x) => x.frame # 0)
    BY HeldIs
  <1>3. x.frame # 0 => Size(sent, x.frame) + 2 + FifoCap <= RingSize
                       /\ Size(sent, x.frame) \in Nat
    BY <1>1, SizeIs
  <1>4. FifoCap \in Nat /\ RingSize \in Nat /\ FifoCap < RingSize
    BY Constants, Room
  <1>5. CASE Between(sent, x)
    BY <1>2, <1>4, <1>5
  <1>6. CASE ~Between(sent, x)
    BY <1>2, <1>3, <1>4, <1>6
  <1> QED
    BY <1>5, <1>6

LEMMA ReadFrames ==
    ASSUME McuInv, Hal_Rcv_Data_Handle
    PROVE  /\ FramesInv' /\ fifo' \in Seq(Byte) /\ Len(fifo') <= FifoCap
           /\ pos_start' = pos_start /\ pos_current' \in Nat /\ pos_start <= pos_current'
           /\ pos_current' - pos_start <= FifoCap
           /\ hal_RxBuffer' \in [0 .. RingSize - 1 -> Byte]
  <1>1. /\ UNCHANGED <<pos_start, parseVars, sent, delivered, line>>
        /\ pos_start = pos_current /\ pos_start \in Nat /\ Unread = 0
        /\ line \in Seq(Byte) /\ fifo \in Seq(Byte) /\ Len(fifo) <= FifoCap
        /\ hal_RxBuffer \in [0 .. RingSize - 1 -> Byte]
    BY DEF Hal_Rcv_Data_Handle, McuInv, McuTypeOK, ParserOK, Unread
  <1>2. RingSize \in Nat /\ RingSize > 0 /\ FifoCap \in Nat
    BY Constants, RingIsPositive
  <1>3. /\ Mask(pos_start) \in 0 .. RingSize - 1
        /\ get_available_buf_space(pos_current, pos_start) = RingSize - Mask(pos_start)
    <2>1. Mask(pos_start) \in 0 .. RingSize - 1
      BY <1>1, MaskIs
    <2> QED
      BY <1>1, <1>2, <2>1 DEF get_available_buf_space
  <1> DEFINE m == Min({RingSize - Mask(pos_start), Len(fifo)})
  <1>4. /\ m \in Nat /\ m <= RingSize - Mask(pos_start) /\ m <= Len(fifo)
        /\ Len(fifo) \in Nat
    <2>1. RingSize - Mask(pos_start) \in Int /\ Len(fifo) \in Int /\ Len(fifo) >= 0
          /\ RingSize - Mask(pos_start) >= 0 /\ Len(fifo) \in Nat
      BY <1>1, <1>2, <1>3
    <2>2. m = IF RingSize - Mask(pos_start) <= Len(fifo) THEN RingSize - Mask(pos_start)
              ELSE Len(fifo)
      BY <2>1, LeastOfTwo
    <2> HIDE DEF m
    <2> QED
      BY <2>1, <2>2
  <1>5. /\ hal_RxBuffer' = ReadIntoRing(m) /\ pos_current' = pos_current + m
        /\ fifo' = SubSeq(fifo, m + 1, Len(fifo))
    BY <1>3 DEF Hal_Rcv_Data_Handle
  <1> HIDE DEF m
  <1>6. PICK n \in Nat : n = m
    BY <1>4
  <1>7. /\ n <= RingSize - Mask(pos_start) /\ n <= Len(fifo) /\ Len(fifo) \in Nat
        /\ hal_RxBuffer' = ReadIntoRing(n) /\ pos_current' = pos_current + n
        /\ fifo' = SubSeq(fifo, n + 1, Len(fifo)) /\ n <= FifoCap
    BY <1>1, <1>2, <1>4, <1>5, <1>6
  <1>8. /\ \A d \in 1 .. n : hal_RxBuffer'[Mask(pos_start + d - 1)] = fifo[d]
        /\ \A y \in 1 .. pos_start : y + n <= RingSize =>
              hal_RxBuffer'[Mask(pos_start - y)] = hal_RxBuffer[Mask(pos_start - y)]
    BY <1>1, <1>7, ReadAfter
  <1>9. /\ fifo' \in Seq(Byte) /\ Len(fifo') = Len(fifo) - n
        /\ \A i \in 1 .. Len(fifo) - n : fifo'[i] = fifo[n + i]
    BY <1>1, <1>7
  <1>10. Unread' = n
    BY <1>1, <1>7 DEF Unread
  <1>11. ASSUME NEW S \in Seq(Byte), NEW p \in Nat, RestOK(S, p)
         PROVE  RestOK(S, p)'
    <2>1. /\ Len(S) = p + 0 + Len(fifo) + Len(line)
          /\ \A i \in 1 .. Len(fifo) : fifo[i] = S[p + i]
          /\ \A i \in 1 .. Len(line) : line[i] = S[p + Len(fifo) + i]
      BY <1>1, <1>11 DEF RestOK
    <2>2. Len(S) = p + Unread' + Len(fifo') + Len(line') /\ Len(line) \in Nat
      BY <1>1, <1>7, <1>9, <1>10, <2>1
    <2>3. ASSUME NEW i \in 1 .. Unread'
          PROVE  hal_RxBuffer'[Mask(pos_start' + i - 1)] = S[p + i]
      <3>1. i \in 1 .. n /\ i \in 1 .. Len(fifo)
        BY <1>7, <1>10
      <3>2. hal_RxBuffer'[Mask(pos_start + i - 1)] = fifo[i] /\ fifo[i] = S[p + i]
        BY <1>8, <2>1, <3>1
      <3> QED
        BY <1>1, <3>2
    <2>4. ASSUME NEW i \in 1 .. Len(fifo')
          PROVE  fifo'[i] = S[p + Unread' + i]
      <3>1. PICK j \in 1 .. Len(fifo) : j = n + i
        BY <1>7, <1>9
      <3>2. fifo'[i] = fifo[j] /\ fifo[j] = S[p + j]
        BY <1>9, <2>1, <3>1
      <3>3. p + Unread' + i = p + j
        BY <1>10, <3>1
      <3> QED
        BY <3>2, <3>3
    <2>5. ASSUME NEW i \in 1 .. Len(line')
          PROVE  line'[i] = S[p + Unread' + Len(fifo') + i]
      <3>1. line'[i] = S[p + Len(fifo) + i]
        BY <1>1, <2>1
      <3>2. p + Unread' + Len(fifo') + i = p + Len(fifo) + i
        BY <1>7, <1>9, <1>10
      <3> QED
        BY <3>1, <3>2
    <2> QED
      BY <2>2, <2>3, <2>4, <2>5 DEF RestOK, Mask
  <1>12. RestKeeps
    BY <1>11 DEF RestKeeps
  <1>13. ASSUME NEW x \in Place(sent), HeldOK(x)
         PROVE  HeldOK(x)'
    <2>1. PICK h \in Nat : h = Held(sent, x)
      BY PlaceFits
    <2>2. h + FifoCap <= RingSize /\ h <= pos_start /\ Standing(pos_start - h, h, x.frame)
      BY <1>13, <2>1, PlaceFits, HeldIs
    <2>3. PICK start \in Nat : start = pos_start - h
      BY <1>1, <2>1, <2>2
    <2>4. ASSUME NEW i \in 1 .. h
          PROVE  hal_RxBuffer'[Mask(start + i - 1)] = PacketAt(sent, x.frame, i)
      <3>1. PICK d \in 1 .. pos_start : d = h - i + 1
        BY <1>1, <2>2
      <3>2. d + n <= RingSize /\ pos_start - d = start + i - 1
        BY <1>1, <1>2, <1>7, <2>2, <2>3, <3>1
      <3>3. hal_RxBuffer'[Mask(start + i - 1)] = hal_RxBuffer[Mask(start + i - 1)]
        BY <1>8, <3>2
      <3>4. hal_RxBuffer[Mask(start + i - 1)] = PacketAt(sent, x.frame, i)
        BY <2>2, <2>3 DEF Standing
      <3> QED
        BY <3>3, <3>4
    <2>5. Standing(start, h, x.frame)'
      BY <1>1, <2>4 DEF Standing, Mask
    <2>6. Held(sent', x) = h /\ pos_start' = start + h
      BY <1>1, <2>1, <2>2, <2>3
    <2> QED
      BY <2>5, <2>6, HeldNow
  <1>14. HeldKeeps
    BY <1>13 DEF HeldKeeps
  <1>15. FramesInv'
    BY <1>1, <1>12, <1>14, LineStep
  <1>16. ASSUME NEW i \in 0 .. RingSize - 1
         PROVE  ReadIntoRing(n)[i] \in Byte
    <2> DEFINE j == (i - Mask(pos_current)) + 1
    <2>1. ReadIntoRing(n)[i] = IF j \in 1 .. n THEN fifo[j] ELSE hal_RxBuffer[i]
      BY DEF ReadIntoRing
    <2> HIDE DEF j
    <2>2. j \in 1 .. n => fifo[j] \in Byte
      BY <1>1, <1>7
    <2> QED
      BY <1>1, <2>1, <2>2
  <1>17. ReadIntoRing(n) \in [0 .. RingSize - 1 -> Byte]
    BY <1>16 DEF ReadIntoRing
  <1> QED
    BY <1>1, <1>2, <1>7, <1>9, <1>15, <1>17

-----------------------------------------------------------------------------
(* Types of the parser's state, on any line.                               *)

WordIsHigh ==
    \E v \in Byte : gu16LocalPacketDataLen = v * ByteRadix

Packets == Seq(Seq(Byte))

ParserState ==
    /\ gu8LocalHalStatus \in HEAD1 .. DATA
    /\ halRecKeyWord \in BOOLEAN
    /\ gu16LocalPacketDataLen \in 0 .. U16 - 1
    /\ guiLocalPacketStart \in Nat
    /\ delivered \in Packets
    /\ gu8LocalHalStatus \in {HEAD1, HEAD2} => halRecKeyWord = FALSE
    /\ gu8LocalHalStatus = HEAD2 => pos_start >= 1
    /\ gu8LocalHalStatus = DATALEN1 => pos_start >= 2
    /\ gu8LocalHalStatus = DATALEN1 /\ halRecKeyWord => pos_start >= 3
    /\ halRecKeyWord => pos_start >= 1
    /\ gu8LocalHalStatus = DATALEN2 => WordIsHigh

LEMMA StateNow ==
    ASSUME McuInv
    PROVE  ParserState
  <1>1. delivered \in Packets
    BY DEF McuInv, Packets
  <1> QED
    BY <1>1 DEF McuInv, McuTypeOK, ParserOK, ParserState, WordIsHigh

\* High byte and low byte make a word.
LEMMA WordIs ==
    ASSUME NEW v \in Byte, NEW w \in Byte
    PROVE  v * ByteRadix + w \in 0 .. U16 - 1 /\ v * ByteRadix \in 0 .. U16 - 1
  <1> DEFINE R == ByteRadix
  <1>1. R \in Nat /\ R > 2 /\ v \in Nat /\ w \in Nat /\ v <= R - 1 /\ w <= R - 1
    BY Constants DEF Byte
  <1> HIDE DEF R
  <1>2. PICK d \in Nat : v + d = R - 1
    <2>1. R - 1 - v \in Nat /\ v + (R - 1 - v) = R - 1
      BY <1>1
    <2> QED
      BY <2>1
  <1>3. v * R \in Nat /\ d * R \in Nat /\ R * R \in Nat
    BY <1>1
  <1>4. v * R + d * R + R = R * R
    <2>1. R = v + d + 1
      BY <1>1, <1>2
    <2>2. R * R = (v + d + 1) * R
      BY <2>1
    <2>3. (v + d + 1) * R = v * R + d * R + R
      BY <1>1
    <2> QED
      BY <2>2, <2>3
  <1> DEFINE a == v * R
             b == d * R
             c == R * R
  <1>5. a \in Nat /\ b \in Nat /\ c \in Nat /\ a + b + R = c
    BY <1>3, <1>4
  <1>6. a = v * ByteRadix /\ c = U16
    BY DEF R, U16
  <1> HIDE DEF a, b, c
  <1>7. a + w \in 0 .. c - 1 /\ a \in 0 .. c - 1
    BY <1>1, <1>5
  <1> QED
    BY <1>6, <1>7

LEMMA TakenState ==
    ASSUME gu8LocalHalStatus' \in {HEAD1, DATALEN2, DATA}, halRecKeyWord' = FALSE,
           gu16LocalPacketDataLen' \in 0 .. U16 - 1, guiLocalPacketStart' \in Nat,
           delivered' \in Packets, gu8LocalHalStatus' = DATALEN2 => WordIsHigh'
    PROVE  ParserState'
  <1>1. /\ gu8LocalHalStatus' \in HEAD1 .. DATA
        /\ gu8LocalHalStatus' # HEAD2 /\ gu8LocalHalStatus' # DATALEN1
    BY DEF HEAD1, HEAD2, DATALEN1, DATALEN2, DATA
  <1>2. ~halRecKeyWord' /\ halRecKeyWord' \in BOOLEAN
    OBVIOUS
  <1> QED
    BY <1>1, <1>2 DEF ParserState

LEMMA TakesTypes ==
    ASSUME ParserState, NEW v \in Byte, TakeByte(v), halRecKeyWord' = FALSE,
           hal_RxBuffer' \in [0 .. RingSize - 1 -> Byte], pos_start' \in Nat,
           gu8LocalHalStatus = DATALEN1 => guiLocalPacketStart' \in Nat
    PROVE  ParserState'
  <1> DEFINE len == gu16LocalPacketDataLen
  <1>1. /\ guiLocalPacketStart \in Nat /\ delivered \in Packets /\ len \in 0 .. U16 - 1
        /\ gu8LocalHalStatus = DATALEN2 => \E w \in Byte : len = w * ByteRadix
    BY DEF ParserState, WordIsHigh
  <1>2. HEAD1 = 1 /\ HEAD2 = 2 /\ DATALEN1 = 3 /\ DATALEN2 = 4 /\ DATA = 5
    BY DEF HEAD1, HEAD2, DATALEN1, DATALEN2, DATA
  <1>3. CASE gu8LocalHalStatus = DATALEN1
    <2>1. /\ gu8LocalHalStatus' = DATALEN2 /\ len' = v * ByteRadix /\ delivered' = delivered
          /\ guiLocalPacketStart' \in Nat
      BY <1>2, <1>3 DEF TakeByte
    <2>2. len' \in 0 .. U16 - 1
      BY <2>1, WordIs, Constants
    <2>3. WordIsHigh'
      BY <2>1 DEF WordIsHigh
    <2>4. gu8LocalHalStatus' = DATALEN2 /\ delivered' \in Packets /\ guiLocalPacketStart' \in Nat
      BY <1>1, <2>1
    <2> QED
      BY <2>2, <2>3, <2>4, TakenState
  <1>4. CASE gu8LocalHalStatus = DATALEN2
    <2>1. /\ gu8LocalHalStatus' \in {HEAD1, DATA} /\ len' = len + v /\ delivered' = delivered
          /\ guiLocalPacketStart' \in Nat
      BY <1>1, <1>2, <1>4 DEF TakeByte
    <2>2. len' \in 0 .. U16 - 1
      <3>1. PICK w \in Byte : len = w * ByteRadix
        BY <1>1, <1>4
      <3> QED
        BY <2>1, <3>1, WordIs
    <2>3. /\ gu8LocalHalStatus' \in {HEAD1, DATA} /\ gu8LocalHalStatus' # DATALEN2
          /\ delivered' \in Packets /\ guiLocalPacketStart' \in Nat
      BY <1>1, <1>2, <2>1
    <2> QED
      BY <2>2, <2>3, TakenState
  <1>5. CASE gu8LocalHalStatus = DATA
    <2>1. /\ gu8LocalHalStatus' = DATA /\ len' = (len - 1) % U16
          /\ \/ /\ delivered' = Append(delivered,
                       PacketBytes(hal_RxBuffer', guiLocalPacketStart, pos_start'))
                /\ guiLocalPacketStart' = pos_start'
             \/ delivered' = delivered /\ guiLocalPacketStart' = guiLocalPacketStart
      BY <1>2, <1>5 DEF TakeByte
    <2>2. len' \in 0 .. U16 - 1
      <3>1. U16 \in Nat /\ U16 > 0
        <4>1. 0 * ByteRadix \in 0 .. U16 - 1
          BY WordIs, Constants DEF Byte
        <4>2. ByteRadix * ByteRadix \in Nat
          BY Constants
        <4> QED
          BY <4>1, <4>2 DEF U16
      <3>2. \A a \in Int : a % U16 \in 0 .. U16 - 1
        BY <3>1
      <3>3. len - 1 \in Int
        BY <1>1, <3>1
      <3> QED
        BY <2>1, <3>2, <3>3
    <2>3. guiLocalPacketStart' \in Nat
      BY <1>1, <2>1
    <2>4. delivered' \in Packets
      <3>1. PacketBytes(hal_RxBuffer', guiLocalPacketStart, pos_start') \in Seq(Byte)
        BY <1>1, RingBytes
      <3>2. \A q \in Seq(Byte) : Append(delivered, q) \in Packets
        BY <1>1 DEF Packets
      <3> QED
        BY <1>1, <2>1, <3>1, <3>2, Zenon
    <2>5. gu8LocalHalStatus' = DATA /\ DATA # DATALEN2
      BY <1>2, <2>1
    <2> QED
      BY <2>2, <2>3, <2>4, <2>5, TakenState
  <1> QED
    BY <1>3, <1>4, <1>5 DEF TakeByte

\* A byte taken: the positions move, and the rest is the parser's state.
LEMMA StepTypes ==
    ASSUME McuInv, MoreBytes, Forward \/ Squeezed, UNCHANGED <<lineVars, extracting>>,
           ParserState'
    PROVE  McuTypeOK' /\ ParserOK'
  <1>1. /\ line \in Seq(Byte) /\ fifo \in Seq(Byte) /\ Len(fifo) <= FifoCap
        /\ armed \in BOOLEAN /\ event \in BOOLEAN /\ extracting = TRUE
        /\ line' = line /\ fifo' = fifo /\ armed' = armed /\ event' = event
        /\ extracting' = extracting
    BY DEF McuInv, McuTypeOK, MoreBytes, lineVars
  <1>2. /\ pos_start \in Nat /\ pos_current \in Nat /\ pos_start < pos_current
        /\ pos_current - pos_start <= FifoCap /\ FifoCap \in Nat
        /\ pos_current - pos_start < RingSize /\ RingSize \in Nat
        /\ hal_RxBuffer \in [0 .. RingSize - 1 -> Byte]
    BY ByteRead, Constants
  <1>3. /\ pos_start' \in Nat /\ pos_current' \in Nat /\ pos_start' <= pos_current'
        /\ pos_current' - pos_start' <= FifoCap
        /\ pos_current' - pos_start' < RingSize
    BY <1>2 DEF Forward, Squeezed
  <1>4. hal_RxBuffer' \in [0 .. RingSize - 1 -> Byte]
    <2>1. CASE Forward
      BY <1>2, <2>1 DEF Forward
    <2>2. CASE Squeezed
      <3>1. ASSUME NEW i \in 0 .. RingSize - 1
            PROVE  hal_RxBuffer[Mask(i + 1)] \in Byte
        <4>1. i + 1 \in Nat
          BY <1>2
        <4>2. Mask(i + 1) \in 0 .. RingSize - 1
          BY <4>1, MaskIs
        <4> QED
          BY <1>2, <4>2
      <3>2. HAL_Move_Data_Backward(pos_start + 1, pos_current) \in [0 .. RingSize - 1 -> Byte]
        BY <1>2, <3>1 DEF HAL_Move_Data_Backward
      <3> QED
        BY <2>2, <3>2 DEF Squeezed
    <2> QED
      BY <2>1, <2>2
  <1>5. McuTypeOK'
    BY <1>1, <1>3, <1>4 DEF McuTypeOK, ParserState
  <1>6. ParserOK'
    BY <1>1, <1>3 DEF ParserOK, ParserState, WordIsHigh
  <1> QED
    BY <1>5, <1>6

LEMMA StepForm ==
    ASSUME McuInv, SyncHead \/ PlainByte \/ FirstFF \/ StuffedFF \/ HeadInFrame \/ OtherAfterFF
    PROVE  /\ MoreBytes /\ (Forward \/ Squeezed) /\ UNCHANGED <<lineVars, extracting, sent>>
           /\ pos_start \in Nat /\ pos_start' \in Nat
           /\ hal_RxBuffer' \in [0 .. RingSize - 1 -> Byte] /\ rxByte \in Byte /\ FF \in Byte
  <1>1. MoreBytes /\ (Forward \/ Squeezed) /\ UNCHANGED <<lineVars, extracting, sent>>
    BY DEF SyncHead, PlainByte, FirstFF, StuffedFF, HeadInFrame, OtherAfterFF, InFrame,
           Forward, Squeezed
  <1>2. /\ pos_start \in Nat /\ pos_current \in Nat
        /\ hal_RxBuffer \in [0 .. RingSize - 1 -> Byte] /\ rxByte \in Byte
        /\ FF \in Byte /\ RingSize \in Nat
    BY <1>1, ByteRead, Constants
  <1>3. pos_start' \in Nat
    BY <1>1, <1>2 DEF Forward, Squeezed
  <1>4. hal_RxBuffer' \in [0 .. RingSize - 1 -> Byte]
    <2>1. CASE Forward
      BY <1>2, <2>1 DEF Forward
    <2>2. CASE Squeezed
      <3>1. ASSUME NEW i \in 0 .. RingSize - 1
            PROVE  hal_RxBuffer[Mask(i + 1)] \in Byte
        <4>1. i + 1 \in Nat
          BY <1>2
        <4>2. Mask(i + 1) \in 0 .. RingSize - 1
          BY <4>1, MaskIs
        <4> QED
          BY <1>2, <4>2
      <3>2. HAL_Move_Data_Backward(pos_start + 1, pos_current) \in [0 .. RingSize - 1 -> Byte]
        BY <1>2, <3>1 DEF HAL_Move_Data_Backward
      <3> QED
        BY <2>2, <3>2 DEF Squeezed
    <2> QED
      BY <1>1, <2>1, <2>2
  <1> QED
    BY <1>1, <1>2, <1>3, <1>4

LEMMA StepState ==
    ASSUME McuInv, SyncHead \/ PlainByte \/ FirstFF \/ StuffedFF \/ HeadInFrame \/ OtherAfterFF
    PROVE  ParserState'
  <1>1. ParserState
    BY StateNow
  <1>2. /\ MoreBytes /\ (Forward \/ Squeezed) /\ UNCHANGED <<lineVars, extracting, sent>>
        /\ pos_start \in Nat /\ pos_start' \in Nat
        /\ hal_RxBuffer' \in [0 .. RingSize - 1 -> Byte] /\ rxByte \in Byte /\ FF \in Byte
    BY StepForm
  <1>3. HEAD1 = 1 /\ HEAD2 = 2 /\ DATALEN1 = 3 /\ DATALEN2 = 4 /\ DATA = 5
    BY DEF HEAD1, HEAD2, DATALEN1, DATALEN2, DATA
  <1>4. CASE SyncHead
    <2>1. /\ pos_start' = pos_start + 1 /\ halRecKeyWord' = halRecKeyWord
          /\ gu8LocalHalStatus \in {HEAD1, HEAD2}
          /\ gu16LocalPacketDataLen' = gu16LocalPacketDataLen /\ delivered' = delivered
      BY <1>4 DEF SyncHead
    <2>2. /\ gu8LocalHalStatus' \in {HEAD1, HEAD2, DATALEN1}
          /\ guiLocalPacketStart' \in {guiLocalPacketStart, pos_start}
          /\ gu8LocalHalStatus' = DATALEN1 => gu8LocalHalStatus = HEAD2
      BY <1>3, <1>4 DEF SyncHead
    <2>3. halRecKeyWord' = FALSE
      BY <1>1, <2>1 DEF ParserState
    <2> QED
      BY <1>1, <1>2, <1>3, <2>1, <2>2, <2>3 DEF ParserState
  <1>5. CASE PlainByte
    <2>1. /\ halRecKeyWord' = FALSE /\ TakeByte(rxByte)
          /\ gu8LocalHalStatus = DATALEN1 => guiLocalPacketStart' = guiLocalPacketStart
      BY <1>1, <1>5 DEF PlainByte, ParserState
    <2>2. guiLocalPacketStart \in Nat
      BY <1>1 DEF ParserState
    <2> QED
      BY <1>1, <1>2, <2>1, <2>2, TakesTypes
  <1>6. CASE FirstFF
    <2>1. /\ pos_start' = pos_start + 1 /\ halRecKeyWord' = TRUE
          /\ gu8LocalHalStatus \in {DATALEN1, DATALEN2, DATA}
          /\ UNCHANGED <<gu8LocalHalStatus, gu16LocalPacketDataLen, guiLocalPacketStart, delivered>>
      BY <1>6 DEF FirstFF, InFrame
    <2> QED
      BY <1>1, <1>2, <1>3, <2>1 DEF ParserState, WordIsHigh
  <1>7. CASE StuffedFF
    <2>1. /\ halRecKeyWord' = FALSE /\ TakeByte(FF)
          /\ gu8LocalHalStatus = DATALEN1 => guiLocalPacketStart' = guiLocalPacketStart
      BY <1>7 DEF StuffedFF
    <2>2. guiLocalPacketStart \in Nat
      BY <1>1 DEF ParserState
    <2> QED
      BY <1>1, <1>2, <2>1, <2>2, TakesTypes
  <1>8. CASE HeadInFrame
    <2>1. /\ pos_start' = pos_start + 1 /\ halRecKeyWord' = FALSE /\ halRecKeyWord
          /\ gu8LocalHalStatus' = DATALEN1 /\ guiLocalPacketStart' = pos_start - 1
          /\ UNCHANGED <<gu16LocalPacketDataLen, delivered>>
      BY <1>8 DEF HeadInFrame
    <2>2. pos_start >= 1
      BY <1>1, <2>1 DEF ParserState
    <2>3. /\ gu8LocalHalStatus' \in HEAD1 .. DATA
          /\ gu8LocalHalStatus' # HEAD1 /\ gu8LocalHalStatus' # HEAD2
          /\ gu8LocalHalStatus' # DATALEN2
      BY <1>3, <2>1
    <2>4. ~halRecKeyWord' /\ halRecKeyWord' \in BOOLEAN
      BY <2>1
    <2>6. pos_start' >= 2 /\ guiLocalPacketStart' \in Nat
      <3>1. pos_start \in Nat /\ pos_start' = pos_start + 1
            /\ guiLocalPacketStart' = pos_start - 1
        BY <1>2, <2>1
      <3> QED
        BY <2>2, <3>1
    <2>5. gu16LocalPacketDataLen' \in 0 .. U16 - 1 /\ delivered' \in Packets
      BY <1>1, <2>1 DEF ParserState
    <2> QED
      BY <2>3, <2>4, <2>5, <2>6 DEF ParserState
  <1>9. CASE OtherAfterFF
    <2>1. /\ pos_start' = pos_start + 1 /\ halRecKeyWord' = FALSE /\ halRecKeyWord
      BY <1>9 DEF OtherAfterFF
    <2>2. CASE gu8LocalHalStatus = DATALEN1
      <3>1. guiLocalPacketStart' = pos_start - 2 /\ TakeByte(rxByte)
        BY <1>9, <2>2 DEF OtherAfterFF
      <3>2. guiLocalPacketStart' \in Nat
        BY <1>1, <1>2, <2>1, <2>2, <3>1 DEF ParserState
      <3> QED
        BY <1>1, <1>2, <2>1, <3>1, <3>2, TakesTypes
    <2>3. CASE gu8LocalHalStatus # DATALEN1
      <3>1. gu8LocalHalStatus' = HEAD1
            /\ UNCHANGED <<gu16LocalPacketDataLen, guiLocalPacketStart, delivered>>
        BY <1>9, <2>3 DEF OtherAfterFF
      <3>2. /\ gu16LocalPacketDataLen' \in 0 .. U16 - 1 /\ delivered' \in Packets
            /\ guiLocalPacketStart' \in Nat
        BY <1>1, <3>1 DEF ParserState
      <3>3. gu8LocalHalStatus' # DATALEN2
        BY <1>3, <3>1
      <3> QED
        BY <2>1, <3>1, <3>2, <3>3, TakenState
    <2> QED
      BY <2>2, <2>3
  <1> QED
    BY <1>4, <1>5, <1>6, <1>7, <1>8, <1>9

-----------------------------------------------------------------------------
(* The invariant, and what it says.                                        *)

\* A step of the line leaves the parser alone.
LEMMA LineTypes ==
    ASSUME McuInv, UNCHANGED parseVars, delivered' = delivered, pos_start' = pos_start,
           line' \in Seq(Byte), fifo' \in Seq(Byte), Len(fifo') <= FifoCap,
           armed' \in BOOLEAN, event' \in BOOLEAN, extracting' \in BOOLEAN,
           hal_RxBuffer' \in [0 .. RingSize - 1 -> Byte],
           pos_current' \in Nat, pos_start <= pos_current',
           pos_current' - pos_start <= FifoCap, ~extracting' => pos_start = pos_current'
    PROVE  McuTypeOK' /\ ParserOK' /\ delivered' \in Seq(Seq(Byte))
  <1>1. ParserState /\ pos_start \in Nat
    BY StateNow DEF McuInv, McuTypeOK
  <1>2. /\ gu8LocalHalStatus' = gu8LocalHalStatus /\ halRecKeyWord' = halRecKeyWord
        /\ gu16LocalPacketDataLen' = gu16LocalPacketDataLen
        /\ guiLocalPacketStart' = guiLocalPacketStart
    BY DEF parseVars
  <1>3. pos_current' - pos_start' < RingSize
    <2>1. FifoCap < RingSize /\ FifoCap \in Nat /\ RingSize \in Nat
      BY Constants, Room
    <2>2. PICK c \in Nat : c = pos_current'
      OBVIOUS
    <2>3. PICK b \in Nat : b = pos_start'
      BY <1>1
    <2>4. c - b <= FifoCap
      BY <1>1, <2>2, <2>3
    <2>5. c - b < RingSize
      BY <2>1, <2>4
    <2> QED
      BY <2>2, <2>3, <2>5
  <1>4. McuTypeOK'
    BY <1>1, <1>2, <1>3 DEF McuTypeOK, ParserState
  <1>5. ParserOK'
    BY <1>1, <1>2 DEF ParserOK, ParserState, WordIsHigh
  <1>6. delivered' \in Seq(Seq(Byte))
    BY DEF McuInv
  <1> QED
    BY <1>4, <1>5, <1>6

LEMMA McuInit_Inv ==
    ASSUME McuInit
    PROVE  McuInv
  <1>1. 0 \in Byte /\ 0 \in 0 .. U16 - 1
    <2>1. 0 \in Byte
      BY Constants DEF Byte
    <2>2. 0 * ByteRadix = 0
      BY Constants
    <2> QED
      BY <2>1, <2>2, WordIs
  <1>2. RingSize \in Nat /\ RingSize > 0 /\ FifoCap \in Nat
    BY RingIsPositive, Constants
  <1>3. line = <<>> /\ fifo = <<>> /\ sent = <<>> /\ delivered = <<>>
    BY DEF McuInit
  <1>4. /\ line \in Seq(Byte) /\ fifo \in Seq(Byte) /\ Len(fifo) = 0 /\ Len(line) = 0
        /\ sent \in Seq(Frame) /\ delivered \in Seq(Seq(Byte)) /\ Len(sent) = 0
    BY <1>3
  <1>5. hal_RxBuffer \in [0 .. RingSize - 1 -> Byte]
    BY <1>1 DEF McuInit
  <1>6. McuTypeOK
    <2>1. /\ armed = TRUE /\ event = FALSE /\ extracting = FALSE
          /\ pos_start = 0 /\ pos_current = 0 /\ gu8LocalHalStatus = 1
          /\ halRecKeyWord = FALSE /\ gu16LocalPacketDataLen = 0
          /\ guiLocalPacketStart = 0
      BY DEF McuInit, HEAD1
    <2>2. Len(fifo) <= FifoCap
      BY <1>2, <1>4
    <2>3. pos_start <= pos_current /\ pos_current - pos_start < RingSize
      BY <1>2, <2>1
    <2>4. gu8LocalHalStatus \in HEAD1 .. DATA
      BY <2>1 DEF HEAD1, DATA
    <2>5. gu16LocalPacketDataLen \in 0 .. U16 - 1
      BY <1>1, <2>1
    <2>6. /\ pos_start \in Nat /\ pos_current \in Nat /\ guiLocalPacketStart \in Nat
          /\ armed \in BOOLEAN /\ event \in BOOLEAN /\ extracting \in BOOLEAN
          /\ halRecKeyWord \in BOOLEAN
      BY <2>1
    <2> QED
      BY <1>4, <1>5, <2>2, <2>3, <2>4, <2>5, <2>6 DEF McuTypeOK
  <1>7. ParserOK
    BY <1>2 DEF ParserOK, McuInit, HEAD1, HEAD2, DATALEN1, DATALEN2
  <1> DEFINE nowhere == [frame |-> 0, read |-> 0, key |-> FALSE]
             at == [q \in 0 .. 0 |-> nowhere]
             S == <<>>
  <1>8. Size(sent, 0) = 0
    BY DEF Size
  <1>9. nowhere \in Place(sent) /\ Between(sent, nowhere) /\ Held(sent, nowhere) = 0
    BY <1>4, <1>8 DEF Place, Between, Held
  <1>10. S \in Seq(Byte) /\ Len(S) = 0
    OBVIOUS
  <1>11. at \in [0 .. Len(S) -> Place(sent)] /\ at[0] = nowhere
    BY <1>9, <1>10
  <1> HIDE DEF at, S
  <1>12. StreamOK(sent, S, at)
    <2>1. \A q \in 0 .. Len(S) - 1 : GoesOn(sent, at[q], S[q + 1], at[q + 1])
      BY <1>10
    <2>2. Between(sent, at[Len(S)])
      BY <1>9, <1>10, <1>11
    <2>3. at[Len(S)].frame = Len(sent)
      BY <1>4, <1>10, <1>11
    <2> QED
      BY <1>10, <1>11, <2>1, <2>2, <2>3 DEF StreamOK
  <1>13. RestOK(S, 0)
    <2>1. Unread = 0
      BY DEF Unread, McuInit
    <2> QED
      BY <1>4, <1>10, <2>1 DEF RestOK
  <1>14. ParserAt(nowhere)
    BY <1>8 DEF ParserAt
  <1>15. HeldOK(nowhere)
    BY <1>9 DEF HeldOK, McuInit
  <1>16. DeliveredOK(nowhere)
    <2>1. Whole(nowhere) = 0
      BY <1>9 DEF Whole
    <2>2. delivered = [i \in 1 .. 0 |-> WholePacket(sent, i)]
      BY <1>3
    <2> QED
      BY <2>1, <2>2 DEF DeliveredOK
  <1>17. FramesInv
    <2>1. 0 \in 0 .. Len(S)
      BY <1>10
    <2> HIDE DEF nowhere
    <2> QED
      BY <1>11, <1>12, <1>13, <1>14, <1>15, <1>16, <2>1 DEF FramesInv
  <1> QED
    BY <1>4, <1>6, <1>7, <1>17 DEF McuInv

LEMMA McuStep ==
    ASSUME McuInv, [McuNext]_mcuVars
    PROVE  McuInv'
  <1>1. /\ line \in Seq(Byte) /\ fifo \in Seq(Byte) /\ Len(fifo) <= FifoCap
        /\ armed \in BOOLEAN /\ event \in BOOLEAN /\ extracting \in BOOLEAN
        /\ hal_RxBuffer \in [0 .. RingSize - 1 -> Byte]
        /\ pos_start \in Nat /\ pos_current \in Nat /\ pos_start <= pos_current
        /\ pos_current - pos_start <= FifoCap /\ (~extracting => pos_start = pos_current)
        /\ sent \in Seq(Frame)
    BY DEF McuInv, McuTypeOK, ParserOK
  <1>2. ASSUME NEW b \in Bodies, McuSends(b) \/ McuSendsDamaged(b)
        PROVE  McuInv'
    <2>1. /\ UNCHANGED parseVars /\ delivered' = delivered /\ pos_start' = pos_start
          /\ UNCHANGED <<fifo, armed, event, extracting, hal_RxBuffer, pos_current>>
      BY <1>2 DEF McuSends, McuSendsDamaged, ringVars
    <2>2. FramesInv' /\ sent' \in Seq(Frame) /\ line' \in Seq(Byte)
      BY <1>2, IntactSent, DamagedSent
    <2>3. McuTypeOK' /\ ParserOK' /\ delivered' \in Seq(Seq(Byte))
      BY <1>1, <2>1, <2>2, LineTypes
    <2> QED
      BY <2>2, <2>3 DEF McuInv
  <1>3. CASE Arrive
    <2>1. /\ UNCHANGED parseVars /\ delivered' = delivered /\ pos_start' = pos_start
          /\ UNCHANGED <<extracting, hal_RxBuffer, pos_current, sent>>
          /\ armed' = FALSE /\ event' = (event \/ armed)
      BY <1>3 DEF Arrive, ringVars
    <2>2. FramesInv' /\ line' \in Seq(Byte) /\ fifo' \in Seq(Byte) /\ Len(fifo') <= FifoCap
      BY <1>3, ArriveFrames
    <2>3. armed' \in BOOLEAN /\ event' \in BOOLEAN
      BY <1>1, <2>1
    <2>4. McuTypeOK' /\ ParserOK' /\ delivered' \in Seq(Seq(Byte))
      BY <1>1, <2>1, <2>2, <2>3, LineTypes
    <2> QED
      BY <1>1, <2>1, <2>2, <2>4 DEF McuInv
  <1>4. CASE Hal_Rcv_Data_Handle
    <2>1. /\ UNCHANGED parseVars /\ delivered' = delivered /\ UNCHANGED <<line, sent>>
          /\ extracting' = TRUE /\ event' = FALSE /\ armed' \in BOOLEAN
      BY <1>4 DEF Hal_Rcv_Data_Handle
    <2>2. /\ FramesInv' /\ fifo' \in Seq(Byte) /\ Len(fifo') <= FifoCap
          /\ pos_start' = pos_start /\ pos_current' \in Nat /\ pos_start <= pos_current'
          /\ pos_current' - pos_start <= FifoCap
          /\ hal_RxBuffer' \in [0 .. RingSize - 1 -> Byte]
      BY <1>4, ReadFrames
    <2>3. McuTypeOK' /\ ParserOK' /\ delivered' \in Seq(Seq(Byte))
      BY <1>1, <2>1, <2>2, LineTypes
    <2> QED
      BY <1>1, <2>1, <2>2, <2>3 DEF McuInv
  <1>5. CASE SyncHead \/ PlainByte \/ FirstFF \/ StuffedFF \/ HeadInFrame \/ OtherAfterFF
    <2>1. ParserState'
      BY <1>5, StepState
    <2>2. McuTypeOK' /\ ParserOK' /\ sent' = sent
      BY <1>5, <2>1, StepForm, StepTypes
    <2>3. FramesInv'
      BY <1>5, SyncHeadFrames, PlainByteFrames, FirstFFFrames, StuffedFFFrames,
         HeadInFrameFrames, OtherAfterFFFrames
    <2>4. delivered' \in Seq(Seq(Byte))
      BY <2>1 DEF ParserState, Packets
    <2> QED
      BY <1>1, <2>2, <2>3, <2>4 DEF McuInv
  <1>6. CASE Drained
    <2>1. /\ UNCHANGED <<line, fifo, armed, event, parseVars, sent, delivered, hal_RxBuffer,
                         pos_start, pos_current>>
          /\ extracting' = FALSE /\ ~MoreBytes /\ extracting
      BY <1>6 DEF Drained, lineVars, ringVars
    <2>2. pos_start = pos_current
      <3>1. Mask(pos_start) = Mask(pos_current)
        BY <2>1 DEF MoreBytes
      <3>2. SUFFICES ASSUME pos_start # pos_current PROVE FALSE
        OBVIOUS
      <3>3. PICK d \in 1 .. RingSize - 1 : pos_current = pos_start + d
        <4>1. FifoCap < RingSize /\ FifoCap \in Nat /\ RingSize \in Nat
          BY Constants, Room
        <4>2. pos_current - pos_start \in 1 .. RingSize - 1
              /\ pos_current = pos_start + (pos_current - pos_start)
          BY <1>1, <3>2, <4>1
        <4> QED
          BY <4>2
      <3> QED
        BY <1>1, <3>1, <3>3, MaskApart
    <2>3. FramesInv'
      BY <1>6, DrainedFrames
    <2>4. McuTypeOK' /\ ParserOK' /\ delivered' \in Seq(Seq(Byte))
      BY <1>1, <2>1, <2>2, LineTypes
    <2> QED
      BY <1>1, <2>1, <2>3, <2>4 DEF McuInv
  <1>7. CASE UNCHANGED mcuVars
    <2>1. UNCHANGED <<line, fifo, armed, event, extracting, hal_RxBuffer, pos_start,
                      pos_current, parseVars, sent, delivered>>
      BY <1>7 DEF mcuVars, lineVars, ringVars
    <2>2. RestKeeps
      BY <2>1 DEF RestKeeps, RestOK, Unread, Mask
    <2>3. HeldKeeps
      BY <2>1 DEF HeldKeeps, HeldOK, Mask
    <2>4. FramesInv'
      BY <2>1, <2>2, <2>3, LineStep
    <2>5. McuTypeOK' /\ ParserOK' /\ delivered' \in Seq(Seq(Byte))
      BY <1>1, <2>1, LineTypes
    <2> QED
      BY <1>1, <2>1, <2>4, <2>5 DEF McuInv
  <1> QED
    BY <1>2, <1>3, <1>4, <1>5, <1>6, <1>7 DEF McuNext

\* On every line, damaged or not, the ring's positions and the parser's state
\* keep their types, and the parser never steps past what was read
\* (hal_uart.c:34-39, 290-300).
THEOREM McuTypeCorrect == McuSpec => []McuTypeOK
  <1>1. McuInit => McuInv
    BY McuInit_Inv
  <1>2. McuInv /\ [McuNext]_mcuVars => McuInv'
    BY McuStep
  <1>3. McuInv => McuTypeOK
    BY DEF McuInv
  <1> QED
    BY <1>1, <1>2, <1>3, PTL DEF McuSpec

\* What was delivered on a clean line is the beginning of what was sent.
LEMMA InvExact ==
    ASSUME McuInv
    PROVE  FramesExact
  <1> SUFFICES ASSUME Clean(sent)
               PROVE  IsPrefix(delivered, Expected(sent))
    BY DEF FramesExact, Clean
  <1>1. sent \in Seq(Frame) /\ delivered \in Seq(Seq(Byte))
    BY DEF McuInv
  <1>2. PICK S, at : \E p \in 0 .. Len(S) :
            /\ StreamOK(sent, S, at) /\ RestOK(S, p)
            /\ ParserAt(at[p]) /\ HeldOK(at[p]) /\ DeliveredOK(at[p])
    BY DEF McuInv, FramesInv
  <1>3. PICK p \in 0 .. Len(S) : StreamOK(sent, S, at) /\ DeliveredOK(at[p])
    BY <1>2
  <1>4. at[p] \in Place(sent)
    BY <1>3 DEF StreamOK
  <1>5. PICK x \in Place(sent) : DeliveredOK(x)
    BY <1>3, <1>4
  <1>6. x.frame \in 0 .. Len(sent) /\ Len(sent) \in Nat
        /\ (x.frame = 0 => Between(sent, x))
    <2>1. x.frame \in 0 .. Len(sent) /\ (x.frame = 0 => x.read = 0)
      BY <1>1, PlaceIs
    <2>2. Size(sent, 0) = 0
      BY DEF Size
    <2> QED
      BY <1>1, <2>1, <2>2 DEF Between
  <1>7. PICK n \in 0 .. Len(sent) : n = Whole(x)
    BY <1>6 DEF Whole
  <1>8. delivered = [i \in 1 .. n |-> WholePacket(sent, i)]
    BY <1>5, <1>7 DEF DeliveredOK
  <1> DEFINE E == Expected(sent)
  <1>9. E = [i \in 1 .. Len(sent) |-> WholePacket(sent, i)]
    BY DEF Expected, WholePacket
  <1>10. Len(delivered) = n
    <2>1. n \in Nat /\ DOMAIN delivered = 1 .. n
      BY <1>6, <1>8
    <2> QED
      BY <1>1, <2>1
  <1>11. E \in Seq(Seq(Byte)) /\ Len(E) = Len(sent)
    <2>1. \A i \in 1 .. Len(sent) : WholePacket(sent, i) \in Seq(Byte)
      BY <1>1, PacketIs
    <2>2. E \in [1 .. Len(sent) -> Seq(Byte)]
      BY <1>9, <2>1
    <2> HIDE DEF E
    <2>3. E \in Seq(Seq(Byte)) /\ DOMAIN E = 1 .. Len(sent)
      BY <1>6, <2>2
    <2> QED
      BY <1>6, <2>3
  <1> HIDE DEF E
  <1>12. Len(delivered) <= Len(E) /\ SubSeq(delivered, 1, Len(delivered)) = SubSeq(E, 1, Len(delivered))
    <2>1. \A i \in 1 .. n : delivered[i] = WholePacket(sent, i) /\ E[i] = WholePacket(sent, i)
      BY <1>6, <1>8, <1>9
    <2>2. SubSeq(E, 1, n) \in Seq(Seq(Byte)) /\ Len(SubSeq(E, 1, n)) = n
          /\ \A i \in 1 .. n : SubSeq(E, 1, n)[i] = E[i]
      BY <1>6, <1>11
    <2>3. SubSeq(delivered, 1, n) = delivered
      BY <1>1, <1>10
    <2>4. \A i \in 1 .. n : SubSeq(E, 1, n)[i] = delivered[i]
      BY <2>1, <2>2
    <2>5. SubSeq(E, 1, n) = delivered
      <3> DEFINE w == SubSeq(E, 1, n)
      <3> HIDE DEF w
      <3>1. w \in Seq(Seq(Byte)) /\ Len(w) = n /\ \A i \in 1 .. n : w[i] = delivered[i]
        BY <2>2, <2>4 DEF w
      <3>2. w = delivered
        BY <1>1, <1>10, <3>1
      <3> QED
        BY <3>2 DEF w
    <2> QED
      BY <1>6, <1>10, <1>11, <2>3, <2>5
  <1> QED
    BY <1>12 DEF IsPrefix, E

\* Every packet delivered on a clean line is the frame that was sent, whatever
\* the size of the ring, the radix and the bodies: in order and byte for byte,
\* across the end of the ring, across any split into reads, and with the
\* stuffing taken out in place (hal_uart.c:259-374).
THEOREM McuFramesExact == McuSpec => []FramesExact
  <1>1. McuInit => McuInv
    BY McuInit_Inv
  <1>2. McuInv /\ [McuNext]_mcuVars => McuInv'
    BY McuStep
  <1>3. McuInv => FramesExact
    BY InvExact
  <1> QED
    BY <1>1, <1>2, <1>3, PTL DEF McuSpec

\* Once everything was read the parser stands at the end of the stream.
LEMMA InvResynchronises ==
    ASSUME McuInv
    PROVE  Resynchronises
  <1> SUFFICES ASSUME line = <<>>, fifo = <<>>, ~extracting, sent # <<>>, Last(sent).intact
               PROVE  delivered # <<>> /\ Last(delivered) = Last(Expected(sent))
    BY DEF Resynchronises
  <1>1. sent \in Seq(Frame) /\ Unread = 0
    <2>1. pos_start \in Nat /\ pos_start = pos_current
      BY DEF McuInv, McuTypeOK, ParserOK
    <2> QED
      BY <2>1 DEF McuInv, Unread
  <1>2. PICK S, at : \E p \in 0 .. Len(S) :
            /\ StreamOK(sent, S, at) /\ RestOK(S, p)
            /\ ParserAt(at[p]) /\ HeldOK(at[p]) /\ DeliveredOK(at[p])
    BY DEF McuInv, FramesInv
  <1>3. PICK p \in 0 .. Len(S) : StreamOK(sent, S, at) /\ RestOK(S, p) /\ DeliveredOK(at[p])
    BY <1>2
  <1>4. p = Len(S)
    <2>1. Len(S) = p + Unread + Len(fifo) + Len(line)
      BY <1>3 DEF RestOK
    <2>2. Len(fifo) = 0 /\ Len(line) = 0
      OBVIOUS
    <2>3. p \in Int
      BY <1>3
    <2> QED
      BY <1>1, <2>1, <2>2, <2>3
  <1>5. PICK x : x = at[p]
    OBVIOUS
  <1>6. Between(sent, x) /\ x.frame = Len(sent) /\ DeliveredOK(x)
    BY <1>3, <1>4, <1>5 DEF StreamOK
  <1>7. PICK n \in Nat : n = Len(sent) /\ n > 0
    BY <1>1
  <1>8. delivered # <<>> /\ Last(delivered) = WholePacket(sent, n)
    BY <1>6, <1>7 DEF DeliveredOK
  <1>9. Last(Expected(sent)) = WholePacket(sent, n)
    <2> DEFINE E == Expected(sent)
    <2>1. E = [i \in 1 .. n |-> WholePacket(sent, i)]
      BY <1>7 DEF Expected, WholePacket
    <2>2. Len(E) = n /\ E[n] = WholePacket(sent, n)
      BY <1>7, <2>1
    <2> HIDE DEF E
    <2>3. Last(E) = WholePacket(sent, n)
      BY <2>2 DEF Last
    <2> QED
      BY <2>3 DEF E
  <1> QED
    BY <1>8, <1>9

\* Whatever a damaged frame left in the parser, an intact frame after it is
\* delivered, for every ring, radix and number of damaged frames
\* (hal_uart.c:301-320, the head found inside a frame).
THEOREM McuResynchronises == McuSpec => []Resynchronises
  <1>1. McuInit => McuInv
    BY McuInit_Inv
  <1>2. McuInv /\ [McuNext]_mcuVars => McuInv'
    BY McuStep
  <1>3. McuInv => Resynchronises
    BY InvResynchronises
  <1> QED
    BY <1>1, <1>2, <1>3, PTL DEF McuSpec

-----------------------------------------------------------------------------
(* The reception of the MQTT library: its loop, turn after turn, and what  *)
(* it leaves in the buffer.                                                *)

LEMMA RecvLoopIs ==
    ASSUME NEW start, NEW n, Len(start.buf) \in Nat
    PROVE  \E t : /\ RecvLoop(start, n) = t[Len(start.buf)] /\ t[0] = start
                  /\ \A k \in 1 .. Len(start.buf) : t[k] = Turn(t[k - 1], n)
  <1> DEFINE L == Len(start.buf)
             Value(f, i) == IF i = 0 THEN start ELSE Turn(f[i - 1], n)
             Ends(m) == \E f : f = [i \in 0 .. m |-> Value(f, i)]
             S == {m \in Nat : Ends(m)}
             w == CHOOSE f : f = [i \in 0 .. L |-> Value(f, i)]
  <1>1. RecvLoop(start, n) = w[L]
    BY DEF RecvLoop
  <1>2. 0 \in S
    <2> DEFINE f == [i \in 0 .. 0 |-> start]
    <2>1. f = [i \in 0 .. 0 |-> Value(f, i)]
      OBVIOUS
    <2> HIDE DEF f
    <2> QED
      BY <2>1
  <1>3. ASSUME NEW m \in S PROVE m + 1 \in S
    <2>1. m \in Nat /\ Ends(m)
      OBVIOUS
    <2>2. PICK f : f = [i \in 0 .. m |-> Value(f, i)]
      BY <2>1
    <2> DEFINE h == [i \in 0 .. m + 1 |-> IF i <= m THEN f[i] ELSE Value(f, i)]
    <2>3. ASSUME NEW i \in 0 .. m + 1 PROVE h[i] = Value(h, i)
      <3>1. CASE i = 0
        BY <2>1, <2>2, <3>1
      <3>2. CASE i # 0
        <4>1. i - 1 \in 0 .. m /\ h[i - 1] = f[i - 1]
          BY <2>1, <3>2
        <4>2. h[i] = Value(f, i)
          <5>1. CASE i <= m
            <6>1. i \in 0 .. m
              BY <2>1, <5>1
            <6>2. f[i] = Value(f, i)
              BY <2>2, <6>1
            <6> QED
              BY <5>1, <6>2
          <5>2. CASE ~(i <= m)
            BY <5>2
          <5> QED
            BY <5>1, <5>2
        <4> QED
          BY <3>2, <4>1, <4>2
      <3> QED
        BY <3>1, <3>2
    <2>4. h = [i \in 0 .. m + 1 |-> Value(h, i)]
      <3>1. h = [i \in 0 .. m + 1 |-> h[i]]
        OBVIOUS
      <3> HIDE DEF h
      <3> QED
        BY <2>3, <3>1, Zenon
    <2>5. Ends(m + 1)
      <3> HIDE DEF h
      <3> QED
        BY <2>4
    <2> HIDE DEF Ends
    <2> QED
      BY <2>1, <2>5
  <1>4. S = Nat
    <2>1. S \subseteq Nat
      OBVIOUS
    <2> HIDE DEF S
    <2> QED
      BY <1>2, <1>3, <2>1, NatSetInduction
  <1>5. Ends(L)
    BY <1>4
  <1>6. w = [i \in 0 .. L |-> Value(w, i)]
    BY <1>5, Zenon
  <1> HIDE DEF w
  <1>7. w[0] = start
    BY <1>6
  <1>8. \A i \in 1 .. L : w[i] = Turn(w[i - 1], n)
    <2>1. ASSUME NEW i \in 1 .. L PROVE w[i] = Turn(w[i - 1], n)
      <3>1. i \in 0 .. L /\ i # 0
        OBVIOUS
      <3>2. w[i] = Value(w, i)
        BY <1>6, <3>1, Zenon
      <3> QED
        BY <3>1, <3>2
    <2> QED
      BY <2>1
  <1> QED
    BY <1>1, <1>7, <1>8

LEMMA RecvLoopGoes ==
    ASSUME NEW n \in {3, 4}, NEW N \in Nat, NEW W \in Seq(Byte8), NEW start,
           NEW seen0 \in Seq(AnyPacket), NEW out0 \in Seq(OutEntry),
           NEW passed \in Seq(ShortPacket), NEW c, NEW clean \in BOOLEAN,
           clean => Pieces(c, passed), Proceeds(start, N, W, seen0, out0, passed, c, clean)
    PROVE  Proceeds(RecvLoop(start, n), N, W, seen0, out0, passed, c, clean)
  <1>1. N = Len(start.buf)
    BY DEF Proceeds, Stands
  <1>2. PICK t : /\ RecvLoop(start, n) = t[N] /\ t[0] = start
                 /\ \A k \in 1 .. N : t[k] = Turn(t[k - 1], n)
    <2>1. Len(start.buf) \in Nat
      BY <1>1
    <2>2. \E t : /\ RecvLoop(start, n) = t[Len(start.buf)] /\ t[0] = start
                 /\ \A k \in 1 .. Len(start.buf) : t[k] = Turn(t[k - 1], n)
      BY <2>1, RecvLoopIs
    <2> QED
      BY <1>1, <2>2, Zenon
  <1> DEFINE G(u) == Proceeds(u, N, W, seen0, out0, passed, c, clean)
             S == {k \in Nat : k <= N => G(t[k])}
  <1>3. 0 \in S
    <2>1. G(t[0])
      BY <1>2, Zenon
    <2> HIDE DEF G
    <2> QED
      BY <2>1
  <1>4. ASSUME NEW k \in S PROVE k + 1 \in S
    <2>1. ASSUME k + 1 <= N PROVE G(t[k + 1])
      <3>1. k \in Nat /\ k <= N
        BY <2>1
      <3>2. G(t[k])
        <4> HIDE DEF G
        <4> QED
          BY <3>1
      <3>3. k + 1 \in 1 .. N /\ (k + 1) - 1 = k
        BY <2>1, <3>1
      <3>4. t[k + 1] = Turn(t[k], n)
        BY <1>2, <3>3
      <3>5. G(Turn(t[k], n))
        BY <3>2, TurnGoes
      <3> QED
        BY <3>4, <3>5, Zenon
    <2>2. k + 1 \in Nat
      OBVIOUS
    <2> HIDE DEF G
    <2> QED
      BY <2>1, <2>2
  <1>5. S = Nat
    <2>1. S \subseteq Nat
      OBVIOUS
    <2> HIDE DEF S
    <2> QED
      BY <1>3, <1>4, <2>1, NatSetInduction
  <1>6. G(t[N])
    <2>1. N \in S /\ N <= N
      BY <1>5
    <2> HIDE DEF G
    <2> QED
      BY <2>1
  <1> QED
    BY <1>2, <1>6, Zenon

LEMMA CompactedIs ==
    ASSUME NEW N \in Nat, NEW st, Stands(st, N)
    PROVE  /\ Compacted(st) \in Seq(Byte8) /\ Len(Compacted(st)) <= N
           /\ ~Torn(st) => Compacted(st) = Remaining(st)
  <1>1. PICK b \in Seq(Byte8) : b = st.buf /\ Len(b) = N
    BY DEF Stands
  <1>2. PICK k \in Nat : k = st.cursor /\ k <= N
    BY DEF Stands
  <1>3. PICK rest : rest = Remaining(st)
    OBVIOUS
  <1>4. MqttTakes(b, k, Len(b) - k, Remaining(st))
    <2>1. k \in 0 .. Len(b)
      BY <1>1, <1>2
    <2> QED
      BY <1>1, <1>2, <2>1, RemainsIs
  <1>5. PICK m \in Nat : m = N - k
    BY <1>2
  <1>6. rest \in Seq(Byte8) /\ Len(rest) = m /\ \A i \in 1 .. m : rest[i] = b[k + i]
    BY <1>1, <1>3, <1>4, <1>5 DEF MqttTakes
  <1>7. PICK z : z = [i \in 1 .. m |-> IF k = 0 \/ i > k THEN b[i] ELSE rest[i]]
    OBVIOUS
  <1>8. Compacted(st) = z
    <2>1. Compacted(st) = [i \in 1 .. Len(Remaining(st)) |->
                             IF st.cursor = 0 \/ i > st.cursor THEN st.buf[i]
                             ELSE Remaining(st)[i]]
      BY Zenon DEF Compacted
    <2> QED
      BY <1>1, <1>2, <1>3, <1>6, <1>7, <2>1, Zenon
  <1>9. ASSUME NEW i \in 1 .. m PROVE b[i] \in Byte8 /\ rest[i] \in Byte8
    <2>1. i \in 1 .. N
      BY <1>2, <1>5
    <2> QED
      BY <1>1, <1>6, <2>1
  <1>10. z \in Seq(Byte8) /\ Len(z) = m
    <2>1. z \in [1 .. m -> Byte8]
      BY <1>7, <1>9
    <2> QED
      BY <1>7, <2>1
  <1>11. m <= N
    BY <1>2, <1>5
  <1>12. ASSUME ~Torn(st) PROVE z = rest
    <2>1. ~(k > 0 /\ m > k)
      BY <1>2, <1>3, <1>6, <1>12, Zenon DEF Torn
    <2>2. ASSUME NEW i \in 1 .. m PROVE z[i] = rest[i]
      <3>1. CASE k = 0
        <4>1. z[i] = b[i]
          BY <1>7, <3>1
        <4>2. rest[i] = b[k + i] /\ k + i = i
          BY <1>6, <3>1
        <4> QED
          BY <4>1, <4>2
      <3>2. CASE k # 0
        <4>1. ~(i > k)
          BY <2>1, <3>2
        <4> QED
          BY <1>7, <3>2, <4>1
      <3> QED
        BY <3>1, <3>2
    <2> QED
      BY <1>6, <1>10, <2>2, SameSeq
  <1> QED
    BY <1>3, <1>8, <1>10, <1>11, <1>12

-----------------------------------------------------------------------------
(* The inductive invariant: what is kept and what is on the way is what    *)
(* the broker passed behind the packets taken out.                         *)

MqttTyped ==
    /\ mqttUp \in BOOLEAN /\ mqttBegun \in [{"agent", "broker"} -> 0 .. MaxPackets]
    /\ mqttBuf \in Seq(Byte8) /\ Len(mqttBuf) <= RecvSize /\ mqttWire \in Seq(Byte8)
    /\ mqttMsgsubid \in Nat /\ mqttSpoilt \in BOOLEAN
    /\ mqttSent \in Seq(ShortPacket) /\ mqttSeen \in Seq(AnyPacket)
    /\ mqttOut \in Seq(OutEntry)

Flows(up, seen, passed, buf, wire) ==
    /\ Precedes(seen, passed)
    /\ up => \E c : Pieces(c, passed) /\ buf \o wire = c[Len(seen)]

MqttFlow == ~mqttSpoilt => Flows(mqttUp, mqttSeen, mqttSent, mqttBuf, mqttWire)

MqttReplied == mqttUp => AllAnswered(mqttSeen, mqttOut)

MqttInv == MqttTyped /\ MqttFlow /\ MqttReplied

LEMMA SplitIs ==
    ASSUME NEW w \in Seq(Byte8), NEW m \in Nat, m <= Len(w)
    PROVE  /\ SubSeq(w, 1, m) \in Seq(Byte8) /\ Len(SubSeq(w, 1, m)) = m
           /\ SubSeq(w, m + 1, Len(w)) \in Seq(Byte8)
           /\ SubSeq(w, 1, m) \o SubSeq(w, m + 1, Len(w)) = w
  <1>1. PICK l \in Nat : l = Len(w)
    OBVIOUS
  <1>2. PICK h \in Nat : h = l - m
    <2>1. l - m \in Nat
      BY <1>1
    <2> QED
      BY <2>1
  <1>3. m + h = l /\ 0 + m = m /\ 0 + 1 = 1
    BY <1>1, <1>2
  <1>4. MqttTakes(w, 0, m, SubSeq(w, 0 + 1, 0 + m))
    <2>1. 0 \in Nat /\ 0 + m <= Len(w)
      BY <1>1
    <2> QED
      BY <2>1, TakenOff
  <1>5. MqttTakes(w, m, h, SubSeq(w, m + 1, m + h))
    <2>1. m + h <= Len(w)
      BY <1>1, <1>3
    <2> QED
      BY <2>1, TakenOff
  <1>6. PICK x : x = SubSeq(w, 1, m)
    OBVIOUS
  <1>7. PICK y : y = SubSeq(w, m + 1, Len(w))
    OBVIOUS
  <1>8. x \in Seq(Byte8) /\ Len(x) = m /\ \A i \in 1 .. m : x[i] = w[i]
    <2>1. MqttTakes(w, 0, m, x)
      BY <1>3, <1>4, <1>6, Zenon
    <2>2. x \in Seq(Byte8) /\ Len(x) = m /\ \A i \in 1 .. m : x[i] = w[0 + i]
      BY <2>1, Zenon DEF MqttTakes
    <2> QED
      BY <2>2
  <1>9. y \in Seq(Byte8) /\ Len(y) = h /\ \A i \in 1 .. h : y[i] = w[m + i]
    <2>1. MqttTakes(w, m, h, y)
      BY <1>1, <1>3, <1>5, <1>7, Zenon
    <2> QED
      BY <2>1, Zenon DEF MqttTakes
  <1>10. PICK z : z = x \o y
    OBVIOUS
  <1>11. Glues(x, y, z, m, h)
    <2>1. Glues(x, y, x \o y, Len(x), Len(y))
      BY <1>8, <1>9, Glued
    <2> QED
      BY <1>8, <1>9, <1>10, <2>1, Zenon
  <1>12. z \in Seq(Byte8) /\ Len(z) = l /\ \A i \in 1 .. l : z[i] = w[i]
    <2>1. z \in Seq(Byte8) /\ Len(z) = m + h
          /\ (\A i \in 1 .. m : z[i] = x[i]) /\ \A i \in 1 .. h : z[m + i] = y[i]
      BY <1>11 DEF Glues
    <2>2. ASSUME NEW i \in 1 .. l PROVE z[i] = w[i]
      <3>1. CASE i <= m
        BY <1>8, <2>1, <3>1
      <3>2. CASE ~(i <= m)
        <4>1. PICK j \in 1 .. h : j = i - m
          BY <1>2, <3>2
        <4>2. m + j = i
          BY <4>1
        <4> QED
          BY <1>9, <2>1, <4>1, <4>2
      <3> QED
        BY <3>1, <3>2
    <2> QED
      BY <1>3, <2>1, <2>2
  <1>13. z = w
    BY <1>1, <1>12, SameSeq
  <1> QED
    BY <1>6, <1>7, <1>8, <1>9, <1>10, <1>13

LEMMA StartsWell ==
    ASSUME NEW b \in Seq(Byte8), NEW W \in Seq(Byte8), NEW seen \in Seq(AnyPacket),
           NEW out \in Seq(OutEntry), NEW passed, NEW c, NEW clean \in BOOLEAN,
           AllAnswered(seen, out), clean => Precedes(seen, passed) /\ b \o W = c[Len(seen)]
    PROVE  Proceeds(Looping(b), Len(b), W, seen, out, passed, c, clean)
  <1>1. PICK u : u = Looping(b)
    OBVIOUS
  <1>2. u = State(b, 0, <<>>, <<>>, FALSE, "looping", <<>>)
    BY <1>1, Zenon DEF Looping, State
  <1>3. /\ u.buf = b /\ u.cursor = 0 /\ u.seen = <<>> /\ u.out = <<>>
        /\ ~u.spoilt /\ u.spoilt \in BOOLEAN /\ u.is = "looping"
    BY <1>2 DEF State
  <1>4. Stands(u, Len(b))
    <2>1. 0 \in 0 .. Len(b) /\ <<>> \in Seq(AnyPacket) /\ <<>> \in Seq(OutEntry)
      OBVIOUS
    <2>2. u = State(u.buf, u.cursor, u.seen, u.out, u.spoilt, u.is, u.handed)
      BY <1>2 DEF State
    <2> QED
      BY <1>3, <2>1, <2>2, Zenon DEF Stands
  <1>5. seen \o <<>> = seen /\ out \o <<>> = out
    OBVIOUS
  <1>6. AllAnswered(seen \o u.seen, out \o u.out)
    BY <1>3, <1>5, Zenon
  <1>7. Remaining(u) = b
    <2>1. Remaining(u) = SubSeq(b, 0 + 1, Len(b))
      BY <1>3, Zenon DEF Remaining
    <2>2. SubSeq(b, 0 + 1, Len(b)) = b
      OBVIOUS
    <2> QED
      BY <2>1, <2>2, Zenon
  <1>8. clean => Along(u, seen, passed, W, c)
    BY <1>3, <1>5, <1>7, Zenon DEF Along
  <1> QED
    BY <1>1, <1>4, <1>6, <1>8, Zenon DEF Proceeds

LEMMA Received ==
    ASSUME MqttInv, NEW m \in 1 .. RecvSize, NEW n \in {3, 4}, RecvPkt(m, n)
    PROVE  MqttInv'
  <1>1. PICK x : x = SubSeq(mqttWire, 1, m)
    OBVIOUS
  <1>2. PICK W : W = SubSeq(mqttWire, m + 1, Len(mqttWire))
    OBVIOUS
  <1>3. mqttUp /\ m <= Len(mqttWire) /\ Len(mqttBuf) + m <= RecvSize /\ mqttWire' = W
        /\ UNCHANGED <<mqttBegun, mqttMsgsubid, mqttSent>>
    BY <1>2 DEF RecvPkt
  <1>4. m \in Nat /\ RecvSize \in Nat
    BY MqttAssumption
  <1>5. mqttWire \in Seq(Byte8) /\ mqttBuf \in Seq(Byte8) /\ mqttSeen \in Seq(AnyPacket)
        /\ mqttOut \in Seq(OutEntry) /\ mqttSent \in Seq(ShortPacket) /\ mqttSpoilt \in BOOLEAN
    BY DEF MqttInv, MqttTyped
  <1>6. x \in Seq(Byte8) /\ Len(x) = m /\ W \in Seq(Byte8) /\ x \o W = mqttWire
    BY <1>1, <1>2, <1>3, <1>4, <1>5, SplitIs
  <1>7. PICK b : b = mqttBuf \o x
    OBVIOUS
  <1>8. b \in Seq(Byte8) /\ Len(b) = Len(mqttBuf) + m
    <2>1. Glues(mqttBuf, x, b, Len(mqttBuf), Len(x))
      BY <1>5, <1>6, <1>7, Glued
    <2> QED
      BY <1>6, <2>1 DEF Glues
  <1>9. PICK N \in Nat : N = Len(b) /\ N <= RecvSize
    BY <1>3, <1>4, <1>5, <1>8
  <1>10. b \o W = mqttBuf \o mqttWire
    <2>1. (mqttBuf \o x) \o W = mqttBuf \o (x \o W)
      BY <1>5, <1>6, Associated
    <2> QED
      BY <1>6, <1>7, <2>1, Zenon
  <1>11. AllAnswered(mqttSeen, mqttOut)
    BY <1>3 DEF MqttInv, MqttReplied
  <1>12. PICK clean \in BOOLEAN : clean <=> ~mqttSpoilt
    OBVIOUS
  <1>13. PICK c : clean => Pieces(c, mqttSent) /\ b \o W = c[Len(mqttSeen)]
    <2>1. CASE clean
      <3>1. \E c : Pieces(c, mqttSent) /\ mqttBuf \o mqttWire = c[Len(mqttSeen)]
        BY <1>3, <1>12, <2>1 DEF MqttInv, MqttFlow, Flows
      <3> QED
        BY <1>10, <3>1, Zenon
    <2>2. CASE ~clean
      BY <2>2
    <2> QED
      BY <2>1, <2>2
  <1>14. clean => Precedes(mqttSeen, mqttSent)
    BY <1>12 DEF MqttInv, MqttFlow, Flows
  <1>15. PICK st : st = RecvLoop(Looping(b), n)
    OBVIOUS
  <1>16. Proceeds(st, N, W, mqttSeen, mqttOut, mqttSent, c, clean)
    <2>1. Proceeds(Looping(b), N, W, mqttSeen, mqttOut, mqttSent, c, clean)
      BY <1>5, <1>6, <1>8, <1>9, <1>11, <1>13, <1>14, StartsWell
    <2>2. clean => Pieces(c, mqttSent)
      BY <1>13
    <2> QED
      BY <1>5, <1>6, <1>15, <2>1, <2>2, RecvLoopGoes
  <1>17. /\ mqttSeen' = mqttSeen \o st.seen /\ mqttOut' = mqttOut \o st.out
         /\ mqttUp' = (st.is # "failed")
         /\ mqttBuf' = (IF mqttUp' THEN Compacted(st) ELSE st.buf)
         /\ mqttSpoilt' = (mqttSpoilt \/ st.spoilt \/ (mqttUp' /\ Torn(st)))
    BY <1>1, <1>7, <1>15, Zenon DEF RecvPkt
  <1>18. Stands(st, N)
    BY <1>16, Zenon DEF Proceeds
  <1>19. st.buf \in Seq(Byte8) /\ Len(st.buf) = N /\ st.seen \in Seq(AnyPacket)
         /\ st.out \in Seq(OutEntry) /\ st.spoilt \in BOOLEAN
    BY <1>18 DEF Stands
  <1>20. /\ Compacted(st) \in Seq(Byte8) /\ Len(Compacted(st)) <= N
         /\ ~Torn(st) => Compacted(st) = Remaining(st)
    BY <1>18, CompactedIs
  <1>21. mqttBuf' \in Seq(Byte8) /\ Len(mqttBuf') <= RecvSize
    <2>1. CASE mqttUp'
      <3>1. mqttBuf' = Compacted(st)
        BY <1>17, <2>1
      <3>2. Len(Compacted(st)) \in Nat
        BY <1>20
      <3> QED
        BY <1>4, <1>9, <1>20, <3>1, <3>2
    <2>2. CASE ~mqttUp'
      <3>1. mqttBuf' = st.buf
        BY <1>17, <2>2
      <3> QED
        BY <1>9, <1>19, <3>1
    <2> QED
      BY <2>1, <2>2
  <1>22. mqttSeen' \in Seq(AnyPacket) /\ mqttOut' \in Seq(OutEntry)
    <2>1. mqttSeen \o st.seen \in Seq(AnyPacket)
      BY <1>5, <1>19
    <2>2. mqttOut \o st.out \in Seq(OutEntry)
      BY <1>5, <1>19
    <2> QED
      BY <1>17, <2>1, <2>2
  <1>23. MqttTyped'
    <2>1. mqttUp' \in BOOLEAN /\ mqttSpoilt' \in BOOLEAN
      BY <1>17, Zenon
    <2>2. mqttBegun' \in [{"agent", "broker"} -> 0 .. MaxPackets] /\ mqttMsgsubid' \in Nat
          /\ mqttSent' \in Seq(ShortPacket)
      BY <1>3 DEF MqttInv, MqttTyped
    <2>3. mqttWire' \in Seq(Byte8)
      BY <1>3, <1>6
    <2> QED
      BY <1>21, <1>22, <2>1, <2>2, <2>3, Zenon DEF MqttTyped
  <1>24. MqttReplied'
    <2> SUFFICES ASSUME mqttUp' PROVE AllAnswered(mqttSeen', mqttOut')
      BY DEF MqttReplied, AllAnswered, Due, Acted, AnswerTo, AnswerIn, Response
    <2>1. AllAnswered(mqttSeen \o st.seen, mqttOut \o st.out)
      BY <1>16, <1>17, Zenon DEF Proceeds
    <2> QED
      BY <1>17, <2>1, Zenon
  <1>25. MqttFlow'
    <2> SUFFICES ASSUME ~mqttSpoilt'
                 PROVE  Flows(mqttUp', mqttSeen', mqttSent', mqttBuf', mqttWire')
      BY DEF MqttFlow, Flows, Precedes, Pieces, OnTheWire
    <2>1. clean /\ ~st.spoilt /\ ~(mqttUp' /\ Torn(st))
      BY <1>12, <1>17, Zenon
    <2>2. Along(st, mqttSeen, mqttSent, W, c)
      BY <1>16, <2>1, Zenon DEF Proceeds
    <2>3. Precedes(mqttSeen', mqttSent')
      BY <1>3, <1>17, <2>2, Zenon DEF Along
    <2>4. ASSUME mqttUp' PROVE Pieces(c, mqttSent') /\ mqttBuf' \o mqttWire' = c[Len(mqttSeen')]
      <3>1. mqttBuf' = Remaining(st)
        BY <1>17, <1>20, <2>1, <2>4, Zenon
      <3>2. Remaining(st) \o W = c[Len(mqttSeen \o st.seen)]
        BY <1>17, <2>2, <2>4, Zenon DEF Along
      <3>3. mqttBuf' \o mqttWire' = c[Len(mqttSeen')]
        BY <1>3, <1>17, <3>1, <3>2, Zenon
      <3>4. Pieces(c, mqttSent')
        BY <1>3, <1>13, <2>1, Zenon
      <3> QED
        BY <3>3, <3>4
    <2> QED
      BY <2>3, <2>4, Zenon DEF Flows
  <1> QED
    BY <1>23, <1>24, <1>25, Zenon DEF MqttInv

\* What the agent begins is sound, and whatever of it is written is kept.
MqttSends(ask, id, e) == id \in Nat /\ Packs(e, ask) /\ Meant(ask) /\ MqttSend(ask, id, e)

LEMMA AgentSends ==
    ASSUME MqttInv,
           \/ \E a \in ConnectAsks : SendConnect(a)
           \/ \E t \in Topics, more \in BOOLEAN : SendSubscribe(t, more)
           \/ \E t \in Topics, more \in BOOLEAN : SendUnsubscribe(t, more)
           \/ \E m \in Messages : SendPublish(m)
           \/ SendPing \/ SendDisconnect
    PROVE  \E ask, id, e : MqttSends(ask, id, e)
  <1>1. mqttMsgsubid \in Nat /\ NextId \in Nat
    BY DEF MqttInv, MqttTyped, NextId
  <1>2. ASSUME NEW a \in ConnectAsks, SendConnect(a) PROVE \E ask, id, e : MqttSends(ask, id, e)
    <2>1. PackConnectPkt(a) # <<>>
          /\ MqttSend(Packet(CONNECT, 0, ConnectBody(a)), mqttMsgsubid, PackConnectPkt(a))
      BY <1>2 DEF SendConnect
    <2>2. Packs(PackConnectPkt(a), Packet(CONNECT, 0, ConnectBody(a)))
          /\ Meant(Packet(CONNECT, 0, ConnectBody(a)))
      BY <2>1, ConnectPacked
    <2>3. MqttSends(Packet(CONNECT, 0, ConnectBody(a)), mqttMsgsubid, PackConnectPkt(a))
      BY <1>1, <2>1, <2>2, Zenon DEF MqttSends
    <2> QED
      BY <2>3, Zenon
  <1>3. ASSUME NEW t \in Topics, NEW more \in BOOLEAN, SendSubscribe(t, more)
        PROVE  \E ask, id, e : MqttSends(ask, id, e)
    <2>1. PICK first : first = PackSubscribePkt(NextId, t, 1)
      OBVIOUS
    <2>2. PICK body : body = WB16(NextId) \o Text(t) \o <<1>>
      OBVIOUS
    <2>3. /\ Packs(first, Packet(SUBSCRIBE, 2, body))
          /\ Packs(AppendSubscribeTopic(first, t, 0), Packet(SUBSCRIBE, 2, body \o Text(t) \o <<0>>))
          /\ Meant(Packet(SUBSCRIBE, 2, body)) /\ Meant(Packet(SUBSCRIBE, 2, body \o Text(t) \o <<0>>))
      BY <1>1, <2>1, <2>2, SubscribePacked, Zenon
    <2>4. IF more
          THEN MqttSend(Packet(SUBSCRIBE, 2, body \o Text(t) \o <<0>>), NextId,
                        AppendSubscribeTopic(first, t, 0))
          ELSE MqttSend(Packet(SUBSCRIBE, 2, body), NextId, first)
      BY <1>3, <2>1, <2>2, Zenon DEF SendSubscribe
    <2> QED
      BY <1>1, <2>3, <2>4, Zenon DEF MqttSends
  <1>4. ASSUME NEW t \in Topics, NEW more \in BOOLEAN, SendUnsubscribe(t, more)
        PROVE  \E ask, id, e : MqttSends(ask, id, e)
    <2>1. PICK first : first = PackUnsubscribePkt(NextId, t)
      OBVIOUS
    <2>2. PICK body : body = WB16(NextId) \o Text(t)
      OBVIOUS
    <2>3. /\ Packs(first, Packet(UNSUBSCRIBE, 2, body))
          /\ Packs(AppendUnsubscribeTopic(first, t), Packet(UNSUBSCRIBE, 2, body \o Text(t)))
          /\ Meant(Packet(UNSUBSCRIBE, 2, body)) /\ Meant(Packet(UNSUBSCRIBE, 2, body \o Text(t)))
      BY <1>1, <2>1, <2>2, UnsubscribePacked, Zenon
    <2>4. IF more
          THEN MqttSend(Packet(UNSUBSCRIBE, 2, body \o Text(t)), NextId,
                        AppendUnsubscribeTopic(first, t))
          ELSE MqttSend(Packet(UNSUBSCRIBE, 2, body), NextId, first)
      BY <1>4, <2>1, <2>2, Zenon DEF SendUnsubscribe
    <2> QED
      BY <1>1, <2>3, <2>4, Zenon DEF MqttSends
  <1>5. ASSUME NEW m \in Messages, SendPublish(m) PROVE \E ask, id, e : MqttSends(ask, id, e)
    <2>1. PICK e : e = IF m.dup
                       THEN SetPktDup(PackPublishPkt(NextId, m.topic, m.payload, m.qos, m.retain))
                       ELSE PackPublishPkt(NextId, m.topic, m.payload, m.qos, m.retain)
      OBVIOUS
    <2>2. Packs(e, Publish(m, NextId))
      BY <1>1, <2>1, PublishPacked, Zenon
    <2>3. Meant(Publish(m, NextId))
      BY <1>1, PublishMeant
    <2>4. MqttSend(Publish(m, NextId), NextId, e)
      BY <1>5, <2>1, Zenon DEF SendPublish
    <2>5. MqttSends(Publish(m, NextId), NextId, e)
      BY <1>1, <2>2, <2>3, <2>4, Zenon DEF MqttSends
    <2> QED
      BY <2>5, Zenon
  <1>6. ASSUME NEW type \in {PINGREQ, DISCONNECT}
        PROVE  /\ Packs(<<<<type * 16, 0>>>>, Packet(type, 0, <<>>))
               /\ Meant(Packet(type, 0, <<>>))
    <2>1. type \in 0 .. 15 /\ 0 \in 0 .. 15
      BY DEF PINGREQ, DISCONNECT
    <2>2. Packs(<<<<type * 16, 0>>>>, Packet(type, 0, <<>>))
      BY <2>1, Bare
    <2>3. PICK ask : ask = Packet(type, 0, <<>>)
      OBVIOUS
    <2>4. Type(ask) = type
      BY <2>1, <2>3, FirstIs
    <2>5. type \notin {SUBSCRIBE, UNSUBSCRIBE, PUBLISH}
      BY DEF PINGREQ, DISCONNECT, SUBSCRIBE, UNSUBSCRIBE, PUBLISH
    <2>6. ask \in ShortPacket
      BY <2>2, <2>3, Zenon DEF Packs
    <2>7. Meant(ask)
      BY <2>4, <2>5, <2>6 DEF Meant
    <2> QED
      BY <2>2, <2>3, <2>7, Zenon
  <1>7. ASSUME SendPing PROVE \E ask, id, e : MqttSends(ask, id, e)
    <2>1. MqttSends(Packet(PINGREQ, 0, <<>>), mqttMsgsubid, PackPingReqPkt)
      BY <1>1, <1>6, <1>7, Zenon DEF MqttSends, SendPing, PackPingReqPkt
    <2> QED
      BY <2>1, Zenon
  <1>8. ASSUME SendDisconnect PROVE \E ask, id, e : MqttSends(ask, id, e)
    <2>1. MqttSends(Packet(DISCONNECT, 0, <<>>), mqttMsgsubid, PackDisconnectPkt)
      BY <1>1, <1>6, <1>8, Zenon DEF MqttSends, SendDisconnect, PackDisconnectPkt
    <2> QED
      BY <2>1, Zenon
  <1> QED
    BY <1>2, <1>3, <1>4, <1>5, <1>7, <1>8

LEMMA BegunIs ==
    ASSUME MqttInv, NEW side \in {"agent", "broker"}, Begins(side)
    PROVE  mqttBegun' \in [{"agent", "broker"} -> 0 .. MaxPackets]
  <1>1. MaxPackets \in Nat
    BY MqttAssumption
  <1>2. mqttBegun \in [{"agent", "broker"} -> 0 .. MaxPackets]
    BY DEF MqttInv, MqttTyped
  <1>3. mqttBegun.agent \in 0 .. MaxPackets /\ mqttBegun.broker \in 0 .. MaxPackets
    BY <1>2
  <1>4. mqttBegun["agent"] + mqttBegun["broker"] < MaxPackets
        /\ mqttBegun' = [mqttBegun EXCEPT ![side] = mqttBegun[side] + 1]
    BY DEF Begins
  <1>5. mqttBegun[side] + 1 \in 0 .. MaxPackets
    BY <1>1, <1>3, <1>4
  <1> QED
    BY <1>2, <1>4, <1>5

LEMMA Sent ==
    ASSUME MqttInv, NEW ask, NEW id, NEW e, MqttSends(ask, id, e)
    PROVE  MqttInv'
  <1>1. id \in Nat /\ Packs(e, ask) /\ Meant(ask)
    BY DEF MqttSends
  <1>2. /\ mqttUp /\ Begins("agent") /\ mqttMsgsubid' = id
        /\ \E n \in SendResults(e) : mqttOut' = Append(mqttOut, Written(ask, e, FALSE, n))
        /\ UNCHANGED <<mqttUp, mqttWire, mqttBuf, mqttSent, mqttSeen, mqttSpoilt>>
    BY DEF MqttSends, MqttSend
  <1>3. PICK n \in SendResults(e) : mqttOut' = Append(mqttOut, Written(ask, e, FALSE, n))
    BY <1>2
  <1>4. PICK w : w = Written(ask, e, FALSE, n)
    OBVIOUS
  <1>5. w \in OutEntry
    BY <1>1, <1>4, Wrote
  <1>6. ~w.answer
    BY <1>4 DEF Written
  <1>7. mqttOut \in Seq(OutEntry) /\ mqttOut' = Append(mqttOut, w)
    BY <1>3, <1>4 DEF MqttInv, MqttTyped
  <1>8. mqttOut' \in Seq(OutEntry)
    BY <1>5, <1>7
  <1>9. mqttBegun' \in [{"agent", "broker"} -> 0 .. MaxPackets]
    BY <1>2, BegunIs
  <1>10. MqttTyped'
    BY <1>1, <1>2, <1>8, <1>9 DEF MqttInv, MqttTyped
  <1>11. MqttReplied'
    <2>1. AllAnswered(mqttSeen, mqttOut)
      BY <1>2 DEF MqttInv, MqttReplied
    <2>2. AllAnswered(mqttSeen, Append(mqttOut, w))
      BY <1>5, <1>6, <1>7, <2>1, AskedFor
    <2>3. AllAnswered(mqttSeen', mqttOut')
      BY <1>2, <1>7, <2>2, Zenon
    <2> QED
      BY <2>3 DEF MqttReplied, AllAnswered, Due, Acted, AnswerTo, AnswerIn, Response
  <1>12. MqttFlow'
    <2>1. ~mqttSpoilt' => Flows(mqttUp', mqttSeen', mqttSent', mqttBuf', mqttWire')
      BY <1>2, Zenon DEF MqttInv, MqttFlow
    <2> QED
      BY <2>1 DEF MqttFlow, Flows, Precedes, Pieces, OnTheWire
  <1> QED
    BY <1>10, <1>11, <1>12, Zenon DEF MqttInv

\* A packet of the broker goes behind everything that is on the way.
LEMMA PiecesGrow ==
    ASSUME NEW c, NEW passed \in Seq(ShortPacket), Pieces(c, passed), NEW p \in ShortPacket
    PROVE  \E d : /\ Pieces(d, Append(passed, p))
                  /\ \A i \in 0 .. Len(passed) : d[i] = c[i] \o OnTheWire(p)
  <1>1. PICK n \in Nat : n = Len(passed)
    OBVIOUS
  <1>2. PICK z \in Seq(Byte8) : z = OnTheWire(p)
    BY WireTypes
  <1>3. PICK t : t = Append(passed, p)
    OBVIOUS
  <1>4. Len(t) = n + 1 /\ t[n + 1] = p /\ \A i \in 1 .. n : t[i] = passed[i]
    <2>1. Appends(ShortPacket, passed, p, Append(passed, p), Len(passed))
      BY Appended
    <2> QED
      BY <1>1, <1>3, <2>1 DEF Appends
  <1>5. PICK d : d = [i \in 0 .. n + 1 |-> IF i <= n THEN c[i] \o z ELSE <<>>]
    OBVIOUS
  <1>6. /\ c \in [0 .. n -> Seq(Byte8)] /\ c[n] = <<>>
        /\ \A i \in 1 .. n : c[i - 1] = OnTheWire(passed[i]) \o c[i]
    BY <1>1 DEF Pieces
  <1>7. ASSUME NEW i \in 0 .. n PROVE d[i] = c[i] \o z
    <2>1. i \in 0 .. n + 1 /\ i <= n
      OBVIOUS
    <2> QED
      BY <1>5, <2>1
  <1>8. d[n + 1] = <<>>
    <2>1. n + 1 \in 0 .. n + 1 /\ ~(n + 1 <= n)
      OBVIOUS
    <2> QED
      BY <1>5, <2>1
  <1>9. d \in [0 .. n + 1 -> Seq(Byte8)]
    <2>1. ASSUME NEW i \in 0 .. n + 1 PROVE d[i] \in Seq(Byte8)
      <3>1. CASE i <= n
        <4>1. i \in 0 .. n
          BY <3>1
        <4>2. c[i] \in Seq(Byte8)
          BY <1>6, <4>1
        <4>3. c[i] \o z \in Seq(Byte8)
          BY <4>2
        <4> QED
          BY <1>7, <4>1, <4>3
      <3>2. CASE ~(i <= n)
        <4>1. i = n + 1
          BY <3>2
        <4>2. <<>> \in Seq(Byte8)
          OBVIOUS
        <4> QED
          BY <1>8, <4>1, <4>2, Zenon
      <3> QED
        BY <3>1, <3>2
    <2> QED
      BY <1>5, <2>1
  <1>10. ASSUME NEW i \in 1 .. n + 1 PROVE d[i - 1] = OnTheWire(t[i]) \o d[i]
    <2>1. CASE i <= n
      <3>1. i \in 1 .. n /\ i \in 0 .. n /\ i - 1 \in 0 .. n
        BY <2>1
      <3>2. PICK h \in Seq(Byte8) : h = OnTheWire(passed[i])
        <4>1. passed[i] \in ShortPacket
          BY <1>1, <3>1
        <4> QED
          BY <4>1, WireTypes
      <3>3. PICK y \in Seq(Byte8) : y = c[i]
        BY <1>6, <3>1
      <3>4. c[i - 1] = h \o y
        BY <1>6, <3>1, <3>2, <3>3
      <3>5. d[i - 1] = (h \o y) \o z /\ d[i] = y \o z
        BY <1>7, <3>1, <3>3, <3>4, Zenon
      <3>6. (h \o y) \o z = h \o (y \o z)
        BY Associated
      <3>7. OnTheWire(t[i]) = h
        BY <1>4, <3>1, <3>2, Zenon
      <3> QED
        BY <3>5, <3>6, <3>7, Zenon
    <2>2. CASE ~(i <= n)
      <3>1. i = n + 1 /\ i - 1 = n /\ n \in 0 .. n
        BY <2>2
      <3>2. d[n] = <<>> \o z
        BY <1>6, <1>7, <3>1, Zenon
      <3>3. <<>> \o z = z /\ z \o <<>> = z
        OBVIOUS
      <3>4. OnTheWire(t[i]) = z /\ d[i] = <<>>
        BY <1>2, <1>4, <1>8, <3>1, Zenon
      <3> QED
        BY <3>1, <3>2, <3>3, <3>4, Zenon
    <2> QED
      BY <2>1, <2>2
  <1>11. Pieces(d, t)
    BY <1>4, <1>8, <1>9, <1>10 DEF Pieces
  <1> QED
    BY <1>1, <1>2, <1>3, <1>7, <1>11

LEMMA BrokerSent ==
    ASSUME MqttInv, BrokerSends
    PROVE  MqttInv'
  <1>1. /\ mqttUp /\ Begins("broker")
        /\ UNCHANGED <<mqttUp, mqttBuf, mqttMsgsubid, mqttSeen, mqttHanded, mqttOut,
                       mqttSpoilt>>
    BY DEF BrokerSends
  <1>2. PICK p \in Replies \cup Publishes : /\ mqttSent' = Append(mqttSent, p)
                                            /\ mqttWire' = mqttWire \o OnTheWire(p)
    BY DEF BrokerSends
  <1>3. /\ mqttOut \in Seq(OutEntry) /\ mqttSent \in Seq(ShortPacket) /\ mqttWire \in Seq(Byte8)
        /\ mqttBuf \in Seq(Byte8) /\ mqttSeen \in Seq(AnyPacket)
    BY DEF MqttInv, MqttTyped
  <1>4. p \in ShortPacket
    BY <1>3, RepliesAre
  <1>5. PICK z \in Seq(Byte8) : z = OnTheWire(p)
    BY <1>4, WireTypes
  <1>6. mqttSent' \in Seq(ShortPacket)
    BY <1>2, <1>3, <1>4
  <1>7. mqttWire' \in Seq(Byte8)
    <2>1. mqttWire \o z \in Seq(Byte8)
      BY <1>3
    <2> QED
      BY <1>2, <1>5, <2>1
  <1>8. mqttBegun' \in [{"agent", "broker"} -> 0 .. MaxPackets]
    BY <1>1, BegunIs
  <1>9. MqttTyped'
    BY <1>1, <1>6, <1>7, <1>8 DEF MqttInv, MqttTyped
  <1>10. MqttReplied'
    <2>1. AllAnswered(mqttSeen', mqttOut')
      BY <1>1, Zenon DEF MqttInv, MqttReplied
    <2> QED
      BY <2>1 DEF MqttReplied, AllAnswered, Due, Acted, AnswerTo, AnswerIn, Response
  <1>11. MqttFlow'
    <2> SUFFICES ASSUME ~mqttSpoilt
                 PROVE  Flows(mqttUp', mqttSeen', mqttSent', mqttBuf', mqttWire')
      BY <1>1 DEF MqttFlow, Flows, Precedes, Pieces, OnTheWire
    <2>1. Precedes(mqttSeen, mqttSent)
      BY DEF MqttInv, MqttFlow, Flows
    <2>2. PICK c : Pieces(c, mqttSent) /\ mqttBuf \o mqttWire = c[Len(mqttSeen)]
      BY <1>1 DEF MqttInv, MqttFlow, Flows
    <2>3. PICK d : /\ Pieces(d, Append(mqttSent, p))
                   /\ \A i \in 0 .. Len(mqttSent) : d[i] = c[i] \o OnTheWire(p)
      BY <1>3, <1>4, <2>2, PiecesGrow
    <2>4. PICK n \in Nat : n = Len(mqttSeen)
      BY <1>3
    <2>5. n \in 0 .. Len(mqttSent)
      BY <1>3, <2>1, <2>4 DEF Precedes
    <2>6. (mqttBuf \o mqttWire) \o z = mqttBuf \o (mqttWire \o z)
      BY <1>3, Associated
    <2>7. mqttBuf' \o mqttWire' = d[Len(mqttSeen')]
      BY <1>1, <1>2, <1>5, <2>2, <2>3, <2>4, <2>5, <2>6, Zenon
    <2>8. Precedes(mqttSeen', mqttSent')
      <3>1. Appends(ShortPacket, mqttSent, p, Append(mqttSent, p), Len(mqttSent))
        BY <1>3, <1>4, Appended
      <3>2. PICK m \in Nat : m = Len(mqttSent)
        BY <1>3
      <3>3. Len(mqttSent') = m + 1 /\ \A i \in 1 .. m : mqttSent'[i] = mqttSent[i]
        BY <1>2, <3>1, <3>2 DEF Appends
      <3>4. n <= m /\ \A i \in 1 .. n : mqttSeen[i] = mqttSent[i]
        BY <2>1, <2>4, <3>2 DEF Precedes
      <3>5. mqttSeen' = mqttSeen /\ Len(mqttSeen') = n
        BY <1>1, <2>4
      <3>6. n <= m + 1 /\ \A i \in 1 .. n : mqttSeen[i] = mqttSent'[i]
        <4>1. \A i \in 1 .. n : i \in 1 .. m
          BY <3>4
        <4> QED
          BY <3>3, <3>4, <4>1
      <3> QED
        BY <3>3, <3>5, <3>6 DEF Precedes
    <2>9. Pieces(d, mqttSent')
      BY <1>2, <2>3, Zenon
    <2> QED
      BY <2>7, <2>8, <2>9, Zenon DEF Flows
  <1> QED
    BY <1>9, <1>10, <1>11, Zenon DEF MqttInv

LEMMA Fresh ==
    ASSUME NEW up
    PROVE  Flows(up, <<>>, <<>>, <<>>, <<>>) /\ AllAnswered(<<>>, <<>>)
  <1>1. PICK c : c = [i \in 0 .. 0 |-> <<>>]
    OBVIOUS
  <1>2. Len(<<>>) = 0 /\ <<>> \o <<>> = <<>> /\ <<>> \in Seq(Byte8) /\ <<>> \in Seq(ShortPacket)
    OBVIOUS
  <1>3. c \in [0 .. 0 -> Seq(Byte8)] /\ c[0] = <<>>
    BY <1>1, <1>2
  <1>4. Pieces(c, <<>>)
    <2>1. \A i \in 1 .. 0 : c[i - 1] = OnTheWire(<<>>[i]) \o c[i]
      OBVIOUS
    <2> QED
      BY <1>2, <1>3, <2>1, Zenon DEF Pieces
  <1>5. Precedes(<<>>, <<>>)
    BY DEF Precedes
  <1>6. Flows(up, <<>>, <<>>, <<>>, <<>>)
    BY <1>2, <1>3, <1>4, <1>5, Zenon DEF Flows
  <1>7. FlattenSeq(<<>>) = <<>>
    BY <1>2, Zenon DEF FlattenSeq
  <1>8. Due(<<>>) = <<>>
    <2>1. [i \in 1 .. Len(<<>>) |-> AnswerTo(<<>>[i])] = <<>>
      OBVIOUS
    <2> QED
      BY <1>7, <2>1, Zenon DEF Due
  <1>9. Acted(<<>>) = <<>>
    <2>1. [i \in 1 .. Len(<<>>) |-> AnswerIn(<<>>[i])] = <<>>
      OBVIOUS
    <2> QED
      BY <1>7, <2>1, Zenon DEF Acted
  <1>10. \A i \in 1 .. Len(<<>>) : <<>>[i].answer => <<>>[i].written = Len(<<>>[i].bytes)
    OBVIOUS
  <1> QED
    BY <1>2, <1>6, <1>8, <1>9, <1>10, Zenon DEF AllAnswered

LEMMA MqttStarts == MqttInit => MqttInv
  <1> SUFFICES ASSUME MqttInit PROVE MqttInv
    OBVIOUS
  <1>1. MaxPackets \in Nat /\ RecvSize \in Nat
    BY MqttAssumption
  <1>2. MqttTyped
    <2>1. [agent |-> 0, broker |-> 0] \in [{"agent", "broker"} -> 0 .. MaxPackets]
      BY <1>1
    <2>2. <<>> \in Seq(Byte8) /\ <<>> \in Seq(ShortPacket) /\ <<>> \in Seq(AnyPacket)
          /\ <<>> \in Seq(OutEntry) /\ Len(<<>>) <= RecvSize
      BY <1>1
    <2> QED
      BY <2>1, <2>2 DEF MqttInit, MqttTyped
  <1>3. MqttFlow /\ MqttReplied
    BY Fresh, Zenon DEF MqttInit, MqttFlow, MqttReplied
  <1> QED
    BY <1>2, <1>3 DEF MqttInv

LEMMA MqttKeeps == MqttInv /\ [MqttNext]_mqttVars => MqttInv'
  <1> SUFFICES ASSUME MqttInv, [MqttNext]_mqttVars PROVE MqttInv'
    OBVIOUS
  <1>1. CASE \/ \E a \in ConnectAsks : SendConnect(a)
             \/ \E t \in Topics, more \in BOOLEAN : SendSubscribe(t, more)
             \/ \E t \in Topics, more \in BOOLEAN : SendUnsubscribe(t, more)
             \/ \E m \in Messages : SendPublish(m)
             \/ SendPing \/ SendDisconnect
    <2>1. PICK ask, id, e : MqttSends(ask, id, e)
      BY <1>1, AgentSends, Zenon
    <2> QED
      BY <2>1, Sent
  <1>2. CASE BrokerSends
    BY <1>2, BrokerSent
  <1>3. ASSUME NEW m \in 1 .. RecvSize, NEW n \in {3, 4}, RecvPkt(m, n) PROVE MqttInv'
    BY <1>3, Received
  <1>4. ASSUME mqttUp' = FALSE, mqttBuf' \in Seq(Byte8), Len(mqttBuf') <= RecvSize,
               UNCHANGED <<mqttBegun, mqttWire, mqttMsgsubid, mqttSent, mqttSeen, mqttOut,
                           mqttSpoilt>>
        PROVE  MqttInv'
    <2>1. MqttTyped'
      BY <1>4 DEF MqttInv, MqttTyped
    <2>2. MqttReplied'
      BY <1>4 DEF MqttReplied
    <2>3. MqttFlow'
      <3>1. ~mqttSpoilt => Precedes(mqttSeen, mqttSent)
        BY DEF MqttInv, MqttFlow, Flows
      <3>2. ~mqttSpoilt' => Precedes(mqttSeen', mqttSent')
        BY <1>4, <3>1, Zenon
      <3> QED
        BY <1>4, <3>2 DEF MqttFlow, Flows, Precedes
    <2> QED
      BY <2>1, <2>2, <2>3, Zenon DEF MqttInv
  <1>5. CASE RecvNothing
    <2>1. <<>> \in Seq(Byte8) /\ Len(<<>>) <= RecvSize
      BY MqttAssumption
    <2> QED
      BY <1>4, <1>5, <2>1 DEF RecvNothing
  <1>6. CASE RecvFails
    <2>1. mqttBuf \in Seq(Byte8) /\ Len(mqttBuf) <= RecvSize
      BY DEF MqttInv, MqttTyped
    <2> QED
      BY <1>4, <1>6, <2>1 DEF RecvFails
  <1>7. CASE InitContext
    <2>1. MqttTyped'
      <3>1. <<>> \in Seq(Byte8) /\ <<>> \in Seq(ShortPacket) /\ <<>> \in Seq(AnyPacket)
            /\ <<>> \in Seq(OutEntry) /\ Len(<<>>) <= RecvSize
        BY MqttAssumption
      <3> QED
        BY <1>7, <3>1 DEF InitContext, MqttInv, MqttTyped
    <2>2. MqttReplied'
      <3>1. AllAnswered(mqttSeen', mqttOut')
        BY <1>7, Fresh, Zenon DEF InitContext
      <3> QED
        BY <3>1 DEF MqttReplied, AllAnswered, Due, Acted, AnswerTo, AnswerIn, Response
    <2>3. MqttFlow'
      <3>1. Flows(mqttUp', mqttSeen', mqttSent', mqttBuf', mqttWire')
        BY <1>7, Fresh, Zenon DEF InitContext
      <3> QED
        BY <3>1 DEF MqttFlow, Flows, Precedes, Pieces, OnTheWire
    <2> QED
      BY <2>1, <2>2, <2>3, Zenon DEF MqttInv
  <1>8. CASE UNCHANGED mqttVars
    <2>1. MqttTyped'
      BY <1>8 DEF mqttVars, MqttInv, MqttTyped
    <2>2. MqttReplied'
      <3>1. mqttUp' => AllAnswered(mqttSeen', mqttOut')
        BY <1>8, Zenon DEF mqttVars, MqttInv, MqttReplied
      <3> QED
        BY <3>1 DEF MqttReplied, AllAnswered, Due, Acted, AnswerTo, AnswerIn, Response
    <2>3. MqttFlow'
      <3>1. ~mqttSpoilt' => Flows(mqttUp', mqttSeen', mqttSent', mqttBuf', mqttWire')
        BY <1>8, Zenon DEF mqttVars, MqttInv, MqttFlow
      <3> QED
        BY <3>1 DEF MqttFlow, Flows, Precedes, Pieces, OnTheWire
    <2> QED
      BY <2>1, <2>2, <2>3, Zenon DEF MqttInv
  <1> QED
    BY <1>1, <1>2, <1>3, <1>5, <1>6, <1>7, <1>8 DEF MqttNext

\* What the invariant says of a state.
LEMMA MqttTypesHold == MqttInv => MqttTypeOK
  <1> SUFFICES ASSUME MqttInv PROVE MqttTypeOK
    OBVIOUS
  <1>1. MqttTyped
    BY DEF MqttInv
  <1>2. \A i \in DOMAIN mqttBuf : mqttBuf[i] \in Nat
    <2> SUFFICES ASSUME NEW i \in DOMAIN mqttBuf PROVE mqttBuf[i] \in Nat
      OBVIOUS
    <2>1. mqttBuf[i] \in Byte8
      BY <1>1 DEF MqttTyped
    <2> QED
      BY <2>1, ByteIs
  <1>3. \A i \in DOMAIN mqttOut : mqttOut[i].written <= Len(mqttOut[i].bytes)
    <2> SUFFICES ASSUME NEW i \in DOMAIN mqttOut
                 PROVE  mqttOut[i].written <= Len(mqttOut[i].bytes)
      OBVIOUS
    <2>1. mqttOut[i] \in OutEntry
      BY <1>1 DEF MqttTyped
    <2> QED
      BY <2>1 DEF OutEntry
  <1> QED
    BY <1>1, <1>2, <1>3 DEF MqttTypeOK, MqttTyped

LEMMA MqttPacketsHold == MqttInv => MqttPacketsWhole
  <1> SUFFICES ASSUME MqttInv, NEW i \in DOMAIN mqttOut, NEW w, w = mqttOut[i],
                      NEW r, r = ReadLength(Tail(w.bytes))
               PROVE  /\ w.bytes[1] = w.ask.fh
                      /\ r.bytes > 0 /\ Len(w.bytes) = 1 + r.bytes + r.len
                      /\ SubSeq(w.bytes, r.bytes + 2, Len(w.bytes)) = w.ask.body
    BY Zenon DEF MqttPacketsWhole
  <1>1. w \in OutEntry
    BY DEF MqttInv, MqttTyped
  <1>2. PICK p \in ShortPacket : p = w.ask
    BY <1>1 DEF OutEntry
  <1>3. PICK z : z = w.bytes
    OBVIOUS
  <1>4. z = OnTheWire(p)
    BY <1>1, <1>2, <1>3 DEF OutEntry
  <1>5. LET rr == ReadLength(Tail(z))
        IN  /\ z[1] = p.fh
            /\ rr.bytes > 0 /\ Len(z) = 1 + rr.bytes + rr.len
            /\ SubSeq(z, rr.bytes + 2, Len(z)) = p.body
    BY <1>4, WholeIs, Zenon
  <1> QED
    BY <1>2, <1>3, <1>5, Zenon

LEMMA MqttExchangeHolds == MqttInv => MqttExchange
  <1> SUFFICES ASSUME MqttInv PROVE MqttExchange
    OBVIOUS
  <1>1. /\ mqttOut \in Seq(OutEntry) /\ mqttSent \in Seq(ShortPacket) /\ mqttSeen \in Seq(AnyPacket)
        /\ mqttBuf \in Seq(Byte8) /\ mqttWire \in Seq(Byte8)
    BY DEF MqttInv, MqttTyped
  <1>2. MqttAnswered
    <2> SUFFICES ASSUME mqttUp
                 PROVE  /\ Due(mqttSeen) = Acted(mqttOut)
                        /\ \A w \in Range(mqttOut) : w.answer => w.written = Len(w.bytes)
      BY Zenon DEF MqttAnswered, Due, Acted
    <2>1. AllAnswered(mqttSeen, mqttOut)
      BY DEF MqttInv, MqttReplied
    <2>2. Due(mqttSeen) = Acted(mqttOut)
      BY <2>1 DEF AllAnswered
    <2>3. ASSUME NEW w \in Range(mqttOut), w.answer PROVE w.written = Len(w.bytes)
      <3>1. PICK i \in DOMAIN mqttOut : w = mqttOut[i]
        BY DEF Range
      <3>2. i \in 1 .. Len(mqttOut)
        BY <1>1
      <3> QED
        BY <2>1, <2>3, <3>1, <3>2 DEF AllAnswered
    <2> QED
      BY <2>2, <2>3
  <1>3. MqttInOrder
    <2> SUFFICES ASSUME ~mqttSpoilt
                 PROVE  /\ IsPrefix(mqttSeen, mqttSent)
                        /\ (mqttUp /\ mqttWire = <<>> /\ mqttBuf = <<>>) => mqttSeen = mqttSent
      BY Zenon DEF MqttInOrder
    <2>1. Flows(mqttUp, mqttSeen, mqttSent, mqttBuf, mqttWire)
      BY DEF MqttInv, MqttFlow
    <2>2. PICK n \in Nat : n = Len(mqttSeen)
      BY <1>1
    <2>3. PICK m \in Nat : m = Len(mqttSent)
      BY <1>1
    <2>4. n <= m /\ \A i \in 1 .. n : mqttSeen[i] = mqttSent[i]
      BY <2>1, <2>2, <2>3 DEF Flows, Precedes
    <2>5. IsPrefix(mqttSeen, mqttSent)
      <3>1. PICK x : x = SubSeq(mqttSeen, 1, n)
        OBVIOUS
      <3>2. PICK y : y = SubSeq(mqttSent, 1, n)
        OBVIOUS
      <3>3. x = [i \in 1 .. n |-> mqttSeen[i]] /\ y = [i \in 1 .. n |-> mqttSent[i]]
        BY <1>1, <2>2, <2>3, <2>4, <3>1, <3>2
      <3>4. x = y
        BY <2>4, <3>3
      <3> QED
        BY <2>2, <2>3, <2>4, <3>1, <3>2, <3>4 DEF IsPrefix
    <2>6. ASSUME mqttUp, mqttWire = <<>>, mqttBuf = <<>> PROVE mqttSeen = mqttSent
      <3>1. PICK c : Pieces(c, mqttSent) /\ mqttBuf \o mqttWire = c[n]
        BY <2>1, <2>2, <2>6 DEF Flows
      <3>2. c[n] = <<>>
        <4>1. <<>> \o <<>> = <<>>
          OBVIOUS
        <4> QED
          BY <2>6, <3>1, <4>1, Zenon
      <3>3. n = m
        <4> SUFFICES ASSUME n # m PROVE FALSE
          OBVIOUS
        <4>1. n + 1 \in 1 .. m /\ (n + 1) - 1 = n /\ n + 1 \in 0 .. m
          BY <2>4
        <4>2. PICK p \in ShortPacket : p = mqttSent[n + 1]
          BY <1>1, <2>3, <4>1
        <4>3. PICK z \in Seq(Byte8) : z = OnTheWire(p) /\ Len(z) >= 2
          BY <4>2, WireTypes
        <4>4. PICK y \in Seq(Byte8) : y = c[n + 1]
          BY <2>3, <3>1, <4>1 DEF Pieces
        <4>5. c[(n + 1) - 1] = OnTheWire(mqttSent[n + 1]) \o c[n + 1]
          BY <2>3, <3>1, <4>1 DEF Pieces
        <4>6. z \o y = <<>>
          BY <3>2, <4>1, <4>2, <4>3, <4>4, <4>5, Zenon
        <4>7. Glues(z, y, z \o y, Len(z), Len(y))
          BY Glued
        <4>8. Len(z \o y) = Len(z) + Len(y) /\ Len(y) \in Nat /\ Len(z) \in Nat
          BY <4>7, Zenon DEF Glues
        <4> QED
          BY <4>3, <4>6, <4>8
      <3>4. mqttSeen = [i \in 1 .. n |-> mqttSeen[i]]
        BY <1>1, <2>2
      <3>5. mqttSent = [i \in 1 .. n |-> mqttSent[i]]
        BY <1>1, <2>3, <3>3
      <3>6. [i \in 1 .. n |-> mqttSeen[i]] = [i \in 1 .. n |-> mqttSent[i]]
        BY <2>4
      <3> QED
        BY <3>4, <3>5, <3>6, Zenon
    <2> QED
      BY <2>5, <2>6
  <1> QED
    BY <1>2, <1>3 DEF MqttExchange

LEMMA MqttInvariant == MqttSpec => []MqttInv
  BY MqttStarts, MqttKeeps, PTL DEF MqttSpec

\* The types of the MQTT library: the buffer of a connection never holds more
\* than was allocated for it.
THEOREM MqttTypeCorrect == MqttSpec => []MqttTypeOK
  BY MqttInvariant, MqttTypesHold, PTL

\* However the stream is cut into reads, the packets come to their handlers in
\* order and none is missing, and each is answered with its own identifier.
THEOREM MqttExchangeCorrect == MqttSpec => []MqttExchange
  BY MqttInvariant, MqttExchangeHolds, PTL

\* What is written to the socket is the packet that was meant.
THEOREM MqttPacketsCorrect == MqttSpec => []MqttPacketsWhole
  BY MqttInvariant, MqttPacketsHold, PTL

-----------------------------------------------------------------------------
(* The libraries together.                                                 *)

\* A step of one library leaves the others where they began.
LibInv == McuInv /\ MqttInv /\ SmsInv /\ BtInv

LEMMA LibInitially == LibInit => LibInv
  <1> SUFFICES ASSUME LibInit PROVE LibInv
    OBVIOUS
  <1>1. McuInv
    BY McuInit_Inv DEF LibInit
  <1>2. MqttInv
    BY MqttStarts DEF LibInit
  <1>3. SmsInv
    BY SmsInitially DEF LibInit
  <1>4. BtInv
    BY BtInitially DEF LibInit
  <1> QED
    BY <1>1, <1>2, <1>3, <1>4 DEF LibInv

LEMMA LibStep ==
    ASSUME LibInv, [LibNext]_<<mcuVars, mqttVars, smsVars, btVars>>
    PROVE  LibInv'
  <1>1. [McuNext]_mcuVars
    BY DEF LibNext
  <1>2. [MqttNext]_mqttVars
    BY DEF LibNext
  <1>3. [SmsNext]_smsVars
    BY DEF LibNext
  <1>4. [BtNext]_btVars
    BY DEF LibNext
  <1>5. McuInv'
    BY <1>1, McuStep DEF LibInv
  <1>6. MqttInv'
    BY <1>2, MqttKeeps DEF LibInv
  <1>7. SmsInv'
    BY <1>3, SmsStepKeeps, SmsStuttering DEF LibInv
  <1>8. BtInv'
    BY <1>4, BtStepKeeps DEF LibInv
  <1> QED
    BY <1>5, <1>6, <1>7, <1>8 DEF LibInv

LEMMA LibAlways == LibSpec => []LibInv
  BY LibInitially, LibStep, PTL DEF LibSpec

\* The libraries keep their types together.
THEOREM LibTypeCorrect == LibSpec => []LibTypeOK
  <1>1. LibInv => LibTypeOK
    <2> SUFFICES ASSUME LibInv PROVE LibTypeOK
      OBVIOUS
    <2>1. McuTypeOK
      BY DEF LibInv, McuInv
    <2>2. MqttTypeOK
      BY MqttTypesHold DEF LibInv
    <2>3. SmsTypeOK
      BY SmsInvImplies DEF LibInv
    <2>4. BtTypeOK
      BY BtInvType DEF LibInv
    <2> QED
      BY <2>1, <2>2, <2>3, <2>4 DEF LibTypeOK
  <1> QED
    BY <1>1, LibAlways, PTL

\* What the run of the libraries checks of each holds in all of its instances:
\* of the serial line, the MQTT library, the SMS library and the Bluetooth one.
THEOREM LibCorrect ==
    LibSpec => [](/\ FramesExact /\ Resynchronises /\ MqttExchange /\ MqttPacketsWhole
                  /\ SmsCallsAreTrue /\ BtTrue)
  <1>1. LibInv => /\ FramesExact /\ Resynchronises /\ MqttExchange /\ MqttPacketsWhole
                  /\ SmsCallsAreTrue /\ BtTrue
    <2> SUFFICES ASSUME LibInv
                 PROVE  /\ FramesExact /\ Resynchronises /\ MqttExchange /\ MqttPacketsWhole
                        /\ SmsCallsAreTrue /\ BtTrue
      OBVIOUS
    <2>1. FramesExact /\ Resynchronises
      BY InvExact, InvResynchronises DEF LibInv
    <2>2. MqttExchange /\ MqttPacketsWhole
      BY MqttExchangeHolds, MqttPacketsHold DEF LibInv
    <2>3. SmsCallsAreTrue
      BY SmsInvImplies DEF LibInv
    <2>4. BtTrue
      BY BtInvTrue DEF LibInv
    <2> QED
      BY <2>1, <2>2, <2>3, <2>4
  <1> QED
    BY <1>1, LibAlways, PTL
=============================================================================
