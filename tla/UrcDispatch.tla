---------------------------- MODULE UrcDispatch -----------------------------
(***************************************************************************)
(* The unsolicited result codes (ril/src/ril_urc.c): the two tables of     *)
(* keywords, the handlers that post to the task of the application or call *)
(* a function it has registered, the caches a message points to, and the   *)
(* requests whose result comes as such a code (HTTP and FTP files, time,   *)
(* location, GNSS commands, tones).                                        *)
(*                                                                         *)
(* The handlers run in the task of the radio interface, one line after the *)
(* other; the application takes its messages and makes its requests in     *)
(* another.  External: the modem's lines, Ql_RIL_SendATCmd, and the queue  *)
(* of messages, which takes no more than it has room for.  A state that is *)
(* named in a line is taken as it is; for the SIM's names see RilCalls.    *)
(***************************************************************************)
EXTENDS Integers, Sequences, FiniteSets

CONSTANTS CallSlots,      \* calls remembered: 6 in the code
          UrcQueueCap,    \* messages that wait for the application
          MaxUrcEvents,   \* requests and lines that no request has asked for
          MaxRequests     \* how many of them, from the first on, may be requests

ASSUME UrcAssumption ==
    CallSlots \in Nat \ {0} /\ UrcQueueCap \in Nat \ {0}
    /\ MaxUrcEvents \in Nat /\ MaxRequests \in 0 .. MaxUrcEvents

VARIABLES urcQueue,       \* messages to the application
          comingCall,     \* g_comingCall.comingCall
          ringCnt,        \* g_comingCall.ringCnt
          g_mqtt,         \* g_mqtt_topic, g_mqtt_payload
          g_ussd,         \* g_ussd_str, g_ussd_dcs
          urcCallback,    \* the functions registered: the number of the request
          urcCommand,     \* the request whose command is in flight
          urcOwed,        \* requests the modem has a result for
          urcInside,      \* the kind of callback that is running
          urcRefused,     \* requests the caller was told had failed
          urcDisturbed,   \* kinds requested again before the result was through,
                          \* whose function was called for another line, or had
                          \* not been registered when the result came
          urcBegun,       \* requests and unasked lines so far
          urcSeen         \* what the last step has shown to the application

urcVars == <<urcQueue, comingCall, ringCnt, g_mqtt, g_ussd, urcCallback, urcCommand,
             urcOwed, urcInside, urcRefused, urcDisturbed, urcBegun, urcSeen>>

-----------------------------------------------------------------------------
(* The tables, without the line ends around the keywords (+CUSD: and       *)
(* +QMTRECV: have none).                                                   *)

m_SysURCHdlEntry ==
    <<"+CRING: VOICE", "RING", "BUSY", "NO ANSWER", "NO CARRIER", "NO DIALTONE", "+CLIP:",
      "+CMTI:", "+CREG:", "+CGREG:", "+CPIN:", "+CFUN:",
      "UNDER_VOLTAGE WARNING", "UNDER_VOLTAGE POWER DOWN",
      "OVER_VOLTAGE WARNING", "OVER_VOLTAGE POWER DOWN",
      "Call Ready", "SMS Ready", "ALARM RING", "ALARM MODE", "+QCELLLOC:">>

m_AtURCHdlEntry ==
    <<"+QHTTPDL:", "+QFTPGET:", "+QFTPPUT:", "+QAUDPIND:", "+QPLAYRES:", "+QPRESBG:",
      "+CUSD:", "+QMTRECV:",
      "+QBTSCAN:", "+QBTPAIR:", "+QBTPAIRCNF:", "+QBTCONN:", "+QBTACPT:", "+QBTDISC:",
      "+QBTDISCONN:", "+QBTIND:", "+QBTVISB:",
      "+QTONEDET:", "+QWDTMF:", "+QGNSSCMD:", "+QNTP:">>

UrcTable == m_SysURCHdlEntry \o m_AtURCHdlEntry
Keywords == {UrcTable[i] : i \in DOMAIN UrcTable}
Place == [keyword \in Keywords |-> CHOOSE i \in DOMAIN UrcTable : UrcTable[i] = keyword]

Ringing == {"+CRING: VOICE", "RING", "+CLIP:"}
CallStates == {"BUSY", "NO ANSWER", "NO CARRIER", "NO DIALTONE"}
Networks == {"+CREG:", "+CGREG:"}
Voltages == {"UNDER_VOLTAGE WARNING", "UNDER_VOLTAGE POWER DOWN",
             "OVER_VOLTAGE WARNING", "OVER_VOLTAGE POWER DOWN"}
InitStates == {"Call Ready", "SMS Ready"}
Alarms == {"ALARM RING", "ALARM MODE"}
Sounds == {"+QAUDPIND:", "+QPLAYRES:", "+QPRESBG:"}
Once == {"+QHTTPDL:", "+QFTPGET:", "+QFTPPUT:"}      \* callbacks removed after use
FtpFiles == {"+QFTPGET:", "+QFTPPUT:"}
Lasting == {"+QCELLLOC:", "+QNTP:", "+QGNSSCMD:", "+QWDTMF:"}
Streams == {"+QTONEDET:", "sound"}                    \* any number of lines
Requests == Once \cup Lasting \cup Streams

\* The handler of a keyword, named by one of its keywords.
HandlerOf(keyword) ==
    CASE keyword \in Ringing \cup CallStates -> "RING" [] keyword \in Networks -> "+CREG:"
      [] keyword \in Voltages -> "UNDER_VOLTAGE WARNING" [] keyword \in InitStates -> "Call Ready"
      [] keyword \in Alarms -> "ALARM RING" [] keyword \in FtpFiles -> "+QFTPGET:"
      [] keyword \in Sounds -> "sound" [] OTHER -> keyword

-----------------------------------------------------------------------------
(* Lines: what they begin with, every keyword that occurs in them, what    *)
(* follows the first, and what the modem means by it.  number is that of   *)
(* the request it answers.                                                 *)

NoMeaning == <<>>
UrcLine(head, has, val, means) ==
    [head |-> head, has |-> {head} \cup has, val |-> val, means |-> means, number |-> 0]
Tells(head, id, vals) == {UrcLine(head, {}, v, <<id, v>>) : v \in vals}
States(heads, id) == {UrcLine(h, {}, 0, <<id, h>>) : h \in heads}

\* The number of a call comes with the ring or after it.
CallLine(head, n) == UrcLine(head, {"+CLIP:"}, n, <<"URC_COMING_CALL_IND", n>>)
CallLines ==
    {UrcLine("RING", {}, 0, NoMeaning), CallLine("+CLIP:", 2)}
    \cup {CallLine(h, 1) : h \in Ringing}

\* The answer to a USSD request.  A text with a quote in it, a long one (300
\* characters) and a huge one (the line does not fit the buffer) are cut.
UssdCut == {"with quote", "long", "huge"}
UssdLine(text, has) ==
    UrcLine("+CUSD:", has, <<text, 15>>, <<"URC_USSD_RECV_IND", <<text, 15>>>>)
UssdLines ==
    {UssdLine(text, {}) : text \in {"t"} \cup UssdCut} \cup
    {UssdLine("t", {"+QMTRECV:"}), UssdLine("t", {"ALARM RING"}),
     UrcLine("+CUSD:", {}, <<"no text">>, <<"URC_USSD_RECV_IND", <<"no text", -1>>>>)}

\* A message from the broker: topic and payload.  Some firmware does not put the
\* payload in quotes.  What follows is in the payload.
MqttLine(payload, has) ==
    UrcLine("+QMTRECV:", has, <<"topic", payload>>, <<"URC_MQTT_RECV_IND", <<"topic", payload>>>>)
MqttLines ==
    {MqttLine(payload, {}) : payload \in {"p", "q", "no quotes"}} \cup
    {MqttLine("p", {inside}) :
        inside \in {"+CUSD:", "+CMTI:", "+CFUN:", "+QHTTPDL:"}}

PlainLines ==
    CallLines \cup States(CallStates, "URC_CALL_STATE_IND")
    \cup Tells("+CMTI:", "URC_NEW_SMS_IND", {1}) \cup Tells("+CREG:", "URC_GSM_NW_STATE_IND", {1})
    \cup Tells("+CGREG:", "URC_GPRS_NW_STATE_IND", {1})
    \cup Tells("+CPIN:", "URC_SIM_CARD_STATE_IND", {1})
    \cup Tells("+CFUN:", "URC_CFUN_STATE_IND", {1})
    \cup States(Voltages, "URC_MODULE_VOLTAGE_IND") \cup States(InitStates, "URC_SYS_INIT_STATE_IND")
    \cup {UrcLine(h, {}, 0, <<"URC_ALARM_RING_IND", 0>>) : h \in Alarms}
    \cup {UrcLine("unknown", {}, 0, <<"URC_END", 0>>)}

\* The results of a request: a file of FTP is a success unless its length is
\* negative; a tone is a key (0 to F are 48 to 70), the last two with a time.
ResultLines(kind) ==
    CASE kind = "+QHTTPDL:" -> Tells(kind, kind, {<<1, 1, 0>>, <<0, 1, 3>>})
      [] kind \in FtpFiles ->
            {UrcLine(kind, {}, n, <<kind, <<IF n < 0 THEN 0 ELSE 1, n>>>>) : n \in {-1, 1}}
      [] kind = "sound" -> {UrcLine(h, {}, 1, <<kind, 1>>) : h \in Sounds}
      [] kind = "+QTONEDET:" ->
            {UrcLine(kind, {}, <<code, 9>>,
                     IF code \notin 48 .. 70 THEN NoMeaning
                     ELSE <<kind, <<code, IF code \in {69, 70} THEN 9 ELSE -1>>>>) :
                code \in {47, 48, 69}}
      [] OTHER -> Tells(kind, kind, {1})

-----------------------------------------------------------------------------
\* The first keyword of the tables that is anywhere in the line.
Chosen(line) ==
    LET found == line.has \cap Keywords IN
    IF found = {} THEN "none"
    ELSE CHOOSE keyword \in found : \A other \in found : Place[keyword] <= Place[other]

\* What the application should learn from a line: what the modem means, unless a
\* keyword of an earlier entry is in its payload, the text is cut, or the payload
\* is not in quotes.
Misled(line) ==
    line.head # "unknown" /\ HandlerOf(Chosen(line)) # HandlerOf(line.head)
Meaning(line) ==
    IF \/ Misled(line)
       \/ line.head = "+CUSD:" /\ line.val[1] \in UssdCut
       \/ line.head = "+QMTRECV:" /\ line.val[2] = "no quotes"
    THEN NoMeaning ELSE line.means

NoCommand == [kind |-> "none", number |-> 0, taken |-> FALSE]
Silence == [what |-> "nothing"]

UrcInit ==
    /\ urcQueue = <<>> /\ urcCommand = NoCommand /\ urcOwed = {} /\ urcInside = "none"
    /\ comingCall = [i \in 0 .. CallSlots - 1 |-> 0] /\ ringCnt = 0
    /\ g_mqtt = <<"", "">> /\ g_ussd = <<"", -1>>
    /\ urcCallback = [kind \in Requests |-> 0]
    /\ urcRefused = {} /\ urcDisturbed = {} /\ urcBegun = 0 /\ urcSeen = Silence

\* The handler has nothing to say.
Ignored(line) ==
    /\ urcSeen' = [what |-> "ignored", means |-> Meaning(line)]
    /\ UNCHANGED urcQueue

\* A message is posted: lost when there is no room.  later counts the messages
\* of its kind that were posted after it.
Posted(id, arg, line) ==
    LET waiting == [i \in DOMAIN urcQueue |->
                        IF urcQueue[i].id = id
                        THEN [urcQueue[i] EXCEPT !.later = @ + 1] ELSE urcQueue[i]]
    IN  /\ urcQueue' = IF Len(waiting) < UrcQueueCap
                       THEN Append(waiting, [id |-> id, arg |-> arg, means |-> Meaning(line),
                                             later |-> 0])
                       ELSE waiting
        /\ urcSeen' = Silence

\* A call of a function the application has registered.
Calls(kind, given, line) ==
    IF urcCallback[kind] = 0
    THEN urcSeen' = [what |-> "missed", kind |-> kind, means |-> Meaning(line)]
    ELSE urcSeen' = [what |-> "called", is |-> <<kind, given>>, means |-> Meaning(line),
                     by |-> urcCallback[kind], number |-> line.number]

Starts(line, heads) == line.head \in heads
CachesStay == UNCHANGED <<comingCall, ringCnt, g_mqtt, g_ussd>>
OnlyPosts == CachesStay /\ UNCHANGED urcInside

OnURCHandler_SIM(line) ==
    /\ OnlyPosts
    /\ IF Starts(line, {"+CPIN:"}) THEN Posted("URC_SIM_CARD_STATE_IND", line.val, line)
       ELSE Ignored(line)

OnURCHandler_Network(line) ==
    /\ OnlyPosts
    /\ IF Starts(line, {"+CREG:"}) THEN Posted("URC_GSM_NW_STATE_IND", line.val, line)
       ELSE IF Starts(line, {"+CGREG:"}) THEN Posted("URC_GPRS_NW_STATE_IND", line.val, line)
       ELSE Ignored(line)

\* Faulty variant of NextSlot: every call in the same one.
FirstSlot == 0

\* The slot of the next call.
NextSlot == (ringCnt + 1) % CallSlots

OnURCHandler_Call(line) ==
    /\ UNCHANGED <<g_mqtt, g_ussd, urcInside>>
    /\ IF Starts(line, Ringing) /\ "+CLIP:" \in line.has
       THEN /\ ringCnt' = NextSlot
            /\ comingCall' = [comingCall EXCEPT ![NextSlot] = line.val]
            /\ Posted("URC_COMING_CALL_IND", NextSlot, line)
       ELSE /\ UNCHANGED <<comingCall, ringCnt>>
            /\ IF Starts(line, CallStates) THEN Posted("URC_CALL_STATE_IND", line.head, line)
               ELSE Ignored(line)

OnURCHandler_SMS(line) ==
    /\ OnlyPosts
    /\ IF Starts(line, {"+CMTI:"}) THEN Posted("URC_NEW_SMS_IND", line.val, line)
       ELSE Ignored(line)

OnURCHandler_Voltage(line) ==
    /\ OnlyPosts
    /\ IF Starts(line, Voltages) THEN Posted("URC_MODULE_VOLTAGE_IND", line.head, line)
       ELSE Ignored(line)

OnURCHandler_InitStat(line) ==
    /\ OnlyPosts
    /\ Posted("URC_SYS_INIT_STATE_IND",
              IF "Call Ready" \in line.has THEN "Call Ready" ELSE "SMS Ready", line)

\* Wherever it is, what follows the keyword is read.
OnURCHandler_CFUN(line) ==
    /\ OnlyPosts
    /\ Posted("URC_CFUN_STATE_IND", IF Starts(line, {"+CFUN:"}) THEN line.val ELSE "inside", line)

OnURCHandler_AlarmRing(line) == OnlyPosts /\ Posted("URC_ALARM_RING_IND", 0, line)
OnURCHandler_Undefined(line) == OnlyPosts /\ Posted("URC_END", 0, line)

\* The first text in quotes and the number after the last comma, or the line.
OnURCHandler_USSD(line) ==
    /\ UNCHANGED <<comingCall, ringCnt, g_mqtt, urcInside>>
    /\ g_ussd' = IF ~Starts(line, {"+CUSD:"}) THEN <<line.val[1], "inside">>
                 ELSE IF line.val \in {<<"no text">>, <<"huge", 15>>} THEN <<line.val[1], -1>>
                 ELSE IF line.val[1] \in UssdCut THEN <<"cut", 15>> ELSE line.val
    /\ Posted("URC_USSD_RECV_IND", 0, line)

\* The first text in quotes, and all between the third and the last quote.
OnURCHandler_MQTT(line) ==
    /\ UNCHANGED <<comingCall, ringCnt, g_ussd, urcInside>>
    /\ IF line.val[2] = "no quotes"
       THEN UNCHANGED g_mqtt /\ Ignored(line)
       ELSE g_mqtt' = line.val /\ Posted("URC_MQTT_RECV_IND", 0, line)

\* The callbacks of files run before they are removed.
CallsOnce(kind, given, line) ==
    /\ CachesStay /\ UNCHANGED urcQueue
    /\ urcInside' = IF urcCallback[kind] = 0 THEN "none" ELSE kind
    /\ Calls(kind, given, line)

OnURCHandler_HTTP(line) ==
    CallsOnce("+QHTTPDL:", IF Starts(line, {"+QHTTPDL:"}) THEN line.val ELSE <<0, 0, 0>>, line)

OnURCHandler_FTP(line) ==
    CallsOnce(line.head, <<IF line.val < 0 THEN 0 ELSE 1, line.val>>, line)

CallsAgain(kind, given, line) == OnlyPosts /\ UNCHANGED urcQueue /\ Calls(kind, given, line)

OnURCHandler_AudPlayInd(line) == CallsAgain("sound", line.val, line)
OnURCHandler_QCELLLocation(line) == CallsAgain("+QCELLLOC:", line.val, line)
OnURCHandler_NTPCMD(line) == CallsAgain("+QNTP:", line.val, line)
OnURCHandler_GPSCMD(line) == CallsAgain("+QGNSSCMD:", line.val, line)
OnURCHandler_QWDTMF(line) == CallsAgain("+QWDTMF:", line.val, line)
OnURCHandler_QToneDet(line) ==
    LET code == line.val[1] IN
    IF urcCallback["+QTONEDET:"] # 0 /\ code \notin 48 .. 70
    THEN OnlyPosts /\ Ignored(line)
    ELSE CallsAgain("+QTONEDET:", <<code, IF code \in {69, 70} THEN line.val[2] ELSE -1>>, line)

OnURCHandler(line) ==
    LET handler == HandlerOf(Chosen(line)) IN
    \/ handler = "RING" /\ OnURCHandler_Call(line)
    \/ handler = "+CMTI:" /\ OnURCHandler_SMS(line)
    \/ handler = "+CREG:" /\ OnURCHandler_Network(line)
    \/ handler = "+CPIN:" /\ OnURCHandler_SIM(line)
    \/ handler = "+CFUN:" /\ OnURCHandler_CFUN(line)
    \/ handler = "UNDER_VOLTAGE WARNING" /\ OnURCHandler_Voltage(line)
    \/ handler = "Call Ready" /\ OnURCHandler_InitStat(line)
    \/ handler = "ALARM RING" /\ OnURCHandler_AlarmRing(line)
    \/ handler = "+QCELLLOC:" /\ OnURCHandler_QCELLLocation(line)
    \/ handler = "+QHTTPDL:" /\ OnURCHandler_HTTP(line)
    \/ handler = "+QFTPGET:" /\ OnURCHandler_FTP(line)
    \/ handler = "sound" /\ OnURCHandler_AudPlayInd(line)
    \/ handler = "+CUSD:" /\ OnURCHandler_USSD(line)
    \/ handler = "+QMTRECV:" /\ OnURCHandler_MQTT(line)
    \/ handler = "+QTONEDET:" /\ OnURCHandler_QToneDet(line)
    \/ handler = "+QWDTMF:" /\ OnURCHandler_QWDTMF(line)
    \/ handler = "+QGNSSCMD:" /\ OnURCHandler_GPSCMD(line)
    \/ handler = "+QNTP:" /\ OnURCHandler_NTPCMD(line)
    \/ handler = "none" /\ OnURCHandler_Undefined(line)

-----------------------------------------------------------------------------
\* A line comes that answers no request.
Unasked(lines) ==
    /\ urcInside = "none" /\ urcBegun < MaxUrcEvents
    /\ urcBegun' = urcBegun + 1
    /\ \E line \in lines :
        /\ OnURCHandler(line)
        /\ urcDisturbed' = urcDisturbed \cup ({HandlerOf(Chosen(line))} \cap Requests)
    /\ UNCHANGED <<urcCallback, urcCommand, urcOwed, urcRefused>>

\* The function for a file of FTP is not registered, or never will be.
TooEarly(owed) ==
    owed.kind \in FtpFiles /\ (urcCommand.number = owed.number \/ owed.number \in urcRefused)

\* The result of a request comes; those that come in any number count as events.
Result ==
    /\ urcInside = "none"
    /\ \E owed \in urcOwed : \E line \in ResultLines(owed.kind) :
        /\ IF owed.kind \in Streams
           THEN urcBegun < MaxUrcEvents /\ urcBegun' = urcBegun + 1 /\ UNCHANGED urcOwed
           ELSE urcOwed' = urcOwed \ {owed} /\ UNCHANGED urcBegun
        /\ OnURCHandler([line EXCEPT !.number = owed.number])
        /\ urcDisturbed' = IF TooEarly(owed) THEN urcDisturbed \cup {owed.kind} ELSE urcDisturbed
    /\ UNCHANGED <<urcCallback, urcCommand, urcRefused>>

\* The callback of a file returns, and is removed.
CallbackReturns ==
    /\ urcInside # "none"
    /\ urcCallback' = [urcCallback EXCEPT ![urcInside] = 0]
    /\ urcInside' = "none" /\ urcSeen' = Silence
    /\ CachesStay
    /\ UNCHANGED <<urcQueue, urcCommand, urcOwed, urcRefused, urcDisturbed, urcBegun>>

\* A request: the function is registered and the command sent, except for the
\* files of FTP, where the command comes first, and for the indications of the
\* audio player, which need none.  The modem takes it or not.
Request(kind) ==
    /\ urcCommand = NoCommand /\ urcBegun < MaxRequests
    /\ urcBegun' = urcBegun + 1
    /\ urcDisturbed' = IF urcInside = kind \/ \E owed \in urcOwed : owed.kind = kind
                       THEN urcDisturbed \cup {kind} ELSE urcDisturbed
    /\ LET number == urcBegun + 1 IN
       /\ urcCallback' = IF kind \in FtpFiles THEN urcCallback
                         ELSE [urcCallback EXCEPT ![kind] = number]
       /\ \E taken \in IF kind = "sound" THEN {TRUE} ELSE BOOLEAN :
            /\ urcOwed' = IF taken THEN urcOwed \cup {[kind |-> kind, number |-> number]} ELSE urcOwed
            /\ urcCommand' = IF kind = "sound" THEN NoCommand
                             ELSE [kind |-> kind, number |-> number, taken |-> taken]
    /\ urcSeen' = Silence /\ CachesStay
    /\ UNCHANGED <<urcQueue, urcInside, urcRefused>>

\* The command returns; the answer to one that was taken may get lost.
CommandReturns ==
    /\ urcCommand # NoCommand
    /\ \E success \in BOOLEAN :
        /\ success => urcCommand.taken
        /\ urcCallback' = IF success /\ urcCommand.kind \in FtpFiles
                          THEN [urcCallback EXCEPT ![urcCommand.kind] = urcCommand.number]
                          ELSE urcCallback
        /\ urcRefused' = IF success THEN urcRefused ELSE urcRefused \cup {urcCommand.number}
    /\ urcCommand' = NoCommand /\ urcSeen' = Silence
    /\ CachesStay
    /\ UNCHANGED <<urcQueue, urcOwed, urcInside, urcDisturbed, urcBegun>>

\* RIL_ToneDet_Close: the modem stops, the function stays registered.
RIL_ToneDet_Close ==
    /\ urcCommand = NoCommand
    /\ \E owed \in urcOwed : owed.kind = "+QTONEDET:"
    /\ urcOwed' = {owed \in urcOwed : owed.kind # "+QTONEDET:"}
    /\ urcSeen' = Silence /\ CachesStay
    /\ UNCHANGED <<urcQueue, urcCallback, urcCommand, urcInside, urcRefused, urcDisturbed, urcBegun>>

\* What the application finds when it looks where the message points to.
FoundBy(message) ==
    CASE message.id = "URC_COMING_CALL_IND" -> comingCall[message.arg]
      [] message.id = "URC_MQTT_RECV_IND" -> g_mqtt
      [] message.id = "URC_USSD_RECV_IND" -> g_ussd
      [] OTHER -> message.arg

\* The application takes a message.
Takes ==
    /\ urcQueue # <<>>
    /\ urcQueue' = Tail(urcQueue)
    /\ LET message == Head(urcQueue) IN
       urcSeen' = [what |-> "learned", is |-> <<message.id, FoundBy(message)>>,
                   means |-> message.means, later |-> message.later]
    /\ CachesStay
    /\ UNCHANGED <<urcCallback, urcCommand, urcOwed, urcInside, urcRefused, urcDisturbed, urcBegun>>

UrcNext ==
    \/ Unasked(PlainLines) \/ Unasked(UssdLines) \/ Unasked(MqttLines)
    \/ Result \/ CallbackReturns
    \/ \E kind \in Requests : Request(kind)
    \/ CommandReturns \/ RIL_ToneDet_Close \/ Takes

UrcSpec == UrcInit /\ [][UrcNext]_urcVars

-----------------------------------------------------------------------------
\* Values keep to their types, and messages to the room of the queue.
UrcTypeOK ==
    /\ ringCnt \in 0 .. CallSlots - 1
    /\ DOMAIN comingCall = 0 .. CallSlots - 1
    /\ Len(urcQueue) <= UrcQueueCap
    /\ urcCallback \in [Requests -> 0 .. MaxUrcEvents]
    /\ urcInside \in Once \cup {"none"}
    /\ \A owed \in urcOwed : owed.kind \in Requests
    /\ urcRefused \subseteq 1 .. MaxUrcEvents /\ urcDisturbed \subseteq Requests
    /\ urcBegun \in 0 .. MaxUrcEvents

\* How many messages may follow until what a message points to is overwritten.
RoomFor(id) ==
    CASE id = "URC_COMING_CALL_IND" -> CallSlots
      [] id \in {"URC_MQTT_RECV_IND", "URC_USSD_RECV_IND"} -> 1
      [] OTHER -> MaxUrcEvents + 1

\* The application learns what the modem has announced (ril_urc.c:255-658):
\* a message that is taken before what it points to is used for another one
\* tells what its line said; no line that says something is ignored; and the
\* result of a request goes to the function registered with it.
\* Excepted are lines with a keyword in their payload, texts too long, payloads
\* without quotes, requests made again before the result was through, files of
\* FTP whose result comes before their command has returned, or after a failure,
\* and downloads whose function such a line has removed.
UrcsAreTrue ==
    urcSeen.what # "nothing" /\ urcSeen.means # NoMeaning
    => CASE urcSeen.what = "learned" ->
                urcSeen.later < RoomFor(urcSeen.is[1]) => urcSeen.is = urcSeen.means
         [] urcSeen.what = "ignored" -> FALSE
         [] urcSeen.what = "called" ->
                /\ urcSeen.is = urcSeen.means
                /\ urcSeen.is[1] \in Once \cup Lasting /\ urcSeen.is[1] \notin urcDisturbed
                   => urcSeen.by = urcSeen.number
         [] urcSeen.what = "missed" -> urcSeen.kind \in urcDisturbed
=============================================================================
