----------------------------- MODULE CloudAgent -----------------------------
(***************************************************************************)
(* The cloud agent, cloud/entity/gitwizs: it registers the device with an  *)
(* HTTP service, logs in to an MQTT broker, and passes commands of the     *)
(* cloud to a microcontroller (MCU) and reports of the MCU to the cloud.   *)
(*                                                                         *)
(* Three tasks, each with a message queue:                                 *)
(*   main    heartbeats;                                                   *)
(*   mcu     reads the MCU's profile at boot, pings the MCU, and runs the  *)
(*           UART callback and the timer of unacknowledged frames;         *)
(*   cloud   registration, login, commands; the socket callbacks and the   *)
(*           timers of failed requests run in it.                          *)
(* A task that writes a frame to the MCU waits for its acknowledgement in  *)
(* a message loop of its own, which drops every other message.             *)
(*                                                                         *)
(* The tasks preempt each other; a handler is one step, except where the   *)
(* code leaves shared state half done: between the check of isBusy and its *)
(* being set, in the cleaning of the configuration, and where the login    *)
(* asks for the state of the network after it has read mqttstatus.         *)
(*                                                                         *)
(* External: the MCU, the HTTP service, the broker, the network, which may *)
(* lose, refuse or delay up to MaxFaults times.                            *)
(*                                                                         *)
(* A definition whose comment begins with "Faulty" is not used: it stands  *)
(* for a plausible mistake in the definition that follows it, under which  *)
(* some property below fails.                                              *)
(***************************************************************************)
EXTENDS Integers, Sequences, FiniteSets

CONSTANTS
    QueueCap,       \* messages a task's queue holds
    SnMod,          \* serial numbers of frames: 254
    InfoTries,      \* frames sent to learn the MCU's profile: 10
    AckTries,       \* timeouts that end a wait for an acknowledgement: 3
    McuBeats,       \* unanswered heartbeats that reset the module: 3
    CloudBeats,     \* unanswered heartbeats that start a new login: 2
    ConnectTries,   \* failed requests that reset the module: 5
    MaxFaults, MaxCommands, MaxReports, MaxResets, MaxBoots,  \* bounds, and
    MaxEvents       \* of the first four together

ASSUME CloudAgentAssumption ==
    /\ {QueueCap, SnMod, InfoTries, AckTries, McuBeats, CloudBeats, ConnectTries,
        MaxBoots} \subseteq Nat \ {0}
    /\ {MaxFaults, MaxCommands, MaxReports, MaxResets, MaxEvents} \subseteq Nat

VARIABLES
    phase,       \* mcu task: "info", "up", "cleaning", "cleared"; or "reset"
    boots, tries,
    queue,       \* the three message queues
    pc,          \* of GAgent_LocalDataWriteP0 in the tasks mcu and cloud
    isBusy, TxbufInfo,     \* the last frame written, by either task
    Txbuf,                 \* the frame in the mcu task's buffer
    ackTimer, g_mcu_ack_count,
    acks,        \* acknowledgements on their way from the MCU
    known,       \* old_productkey is the MCU's, in flash too
    gc,          \* configuration in memory: DID and modulepasscode
    flash,       \* and in the file
    gprs,        \* "off", "activating", "on"
    CloudStatus, http,     \* http: its timer and g_http_connect_count
    Cloud_Rxbuf,           \* what the buffer for replies and commands holds
    socket,                \* "none", "created", "resolving", "open"
    mqttstatus, mqtt,      \* mqtt: its timer and g_mqtt_connect_count
    m2m_result, mqttMsgsubid,
    status,      \* what Cloud_M2MDataHandle has read of mqttstatus, while it
                 \* waits for the state of the network; or "idle"
    net,         \* packets on their way from the broker
    broker,      \* what the broker has accepted, been asked for, and granted
                 \* on this connection
    heartbeat,   \* the timers run; unanswered beats
    faults, commands, reports, resets,   \* counted against the bounds
    overlapped,  \* history: two exchanges with the MCU overlapped
    crossed,     \* history: a registration was under way when the
                 \* configuration was cleaned
    awaited,     \* history: the answer to the last request has not come
    stray        \* history: another message was taken for such an answer

taskVars   == <<phase, boots, tries>>
linkVars   == <<pc, isBusy, TxbufInfo, Txbuf, ackTimer, g_mcu_ack_count, acks>>
configVars == <<known, gc, flash>>
loginVars  == <<gprs, CloudStatus, http, socket, mqttstatus, mqtt, m2m_result,
                status>>
netVars    == <<mqttMsgsubid, net, broker>>
boundVars  == <<faults, commands, reports, resets>>
history    == <<overlapped, crossed, awaited, stray>>
vars == <<taskVars, queue, linkVars, configVars, loginVars, Cloud_Rxbuf,
          netVars, heartbeat, boundVars, history>>

Task == {"main", "mcu", "cloud"}
Writer == {"mcu", "cloud"}

\* A passcode is named by the boot in which make_rand drew it (two draws of the
\* same passcode are left out), a DID by the passcode it was registered with,
\* and the empty string in either is 0.
Blank == 0

NoTimer == [on |-> FALSE, count |-> 0]
NoBroker == [accepted |-> FALSE, asked |-> {}, granted |-> {}, closed |-> FALSE]
NoReply == [kind |-> "empty", did |-> Blank]
OtherReply == [kind |-> "other", did |-> Blank]
NoFrame == [cmd |-> "none", sn |-> 0]

EventLeft == faults + commands + reports + resets < MaxEvents

\* Something is lost, refused or late, or two periodic exchanges coincide, if
\* any such event is left.
Fault == faults < MaxFaults /\ EventLeft /\ faults' = faults + 1
NoFault == faults' = faults

-----------------------------------------------------------------------------
(* Messages.                                                               *)

\* Ql_OS_SendMessage: its result is ignored, a full queue drops the message.
Posted(q, t, m) ==
    IF Len(q[t]) < QueueCap THEN [q EXCEPT ![t] = Append(@, m)] ELSE q

Taken(t) == [queue EXCEPT ![t] = Tail(@)]

HeadIs(t, m) == queue[t] # <<>> /\ Head(queue[t]) = m

Up == phase \in {"info", "up"}

\* The task is in its main message loop, and so are the callbacks.
InLoop(t) == IF t = "mcu" THEN phase = "up" /\ pc["mcu"] = "idle"
             ELSE /\ phase # "reset"
                  /\ t = "cloud" => pc["cloud"] = "idle" /\ status = "idle"

\* Callbacks also run in the loop that waits for an acknowledgement.
InGetMessage(t) ==
    \/ InLoop(t)
    \/ pc[t] = "wait" /\ phase # "reset" /\ (t = "mcu" => Up)

\* Faulty: one attempt more.
LimitExceeded(count, limit) == count > limit

\* The count of a timer's handler, incremented, ends the attempts.
LimitReached(count, limit) == count >= limit

-----------------------------------------------------------------------------
(* Configuration and boot.                                                 *)

Saved == flash' = gc'

\* GAgent_VarInit, once the file was written: a passcode is drawn where there
\* is none.
VarInit(f, p) ==
    [did |-> f.did, pass |-> IF f.pass = Blank THEN p ELSE f.pass]

BootState ==
    /\ tries' = 0
    /\ queue' = [t \in Task |-> <<>>]
    /\ pc' = [t \in Writer |-> "idle"]
    /\ isBusy' = FALSE /\ TxbufInfo' = NoFrame /\ Txbuf' = NoFrame
    /\ ackTimer' = FALSE /\ g_mcu_ack_count' = 0 /\ acks' = <<>>
    /\ gprs' = "off" /\ CloudStatus' = "init" /\ http' = NoTimer
    /\ socket' = "none" /\ mqttstatus' = "none" /\ mqtt' = NoTimer
    /\ m2m_result' = 0 /\ status' = "idle" /\ Cloud_Rxbuf' = NoReply
    /\ mqttMsgsubid' = 0 /\ net' = <<>> /\ broker' = NoBroker
    /\ heartbeat' = [on |-> FALSE, mcu |-> 0, cloud |-> 0]
    /\ overlapped' = FALSE /\ awaited' = FALSE /\ stray' = FALSE

Init ==
    /\ phase = "info" /\ boots = 1 /\ tries = 0
    /\ queue = [t \in Task |-> <<>>]
    /\ pc = [t \in Writer |-> "idle"]
    /\ isBusy = FALSE /\ TxbufInfo = NoFrame /\ Txbuf = NoFrame
    /\ ackTimer = FALSE /\ g_mcu_ack_count = 0 /\ acks = <<>>
    /\ known = FALSE
    /\ gc = [did |-> Blank, pass |-> Blank] /\ flash = gc
    /\ gprs = "off" /\ CloudStatus = "init" /\ http = NoTimer
    /\ socket = "none" /\ mqttstatus = "none" /\ mqtt = NoTimer
    /\ m2m_result = 0 /\ status = "idle" /\ Cloud_Rxbuf = NoReply
    /\ mqttMsgsubid = 0 /\ net = <<>> /\ broker = NoBroker
    /\ heartbeat = [on |-> FALSE, mcu |-> 0, cloud |-> 0]
    /\ faults = 0 /\ commands = 0 /\ reports = 0 /\ resets = 0
    /\ overlapped = FALSE /\ crossed = FALSE
    /\ awaited = FALSE /\ stray = FALSE

\* Adapter_DevReset: everything but the file is lost.
DevReset == phase' = "reset"

Boot ==
    /\ phase = "reset" /\ boots < MaxBoots
    /\ phase' = "info" /\ boots' = boots + 1
    /\ BootState
    /\ gc' = VarInit(flash, boots')
    /\ Saved
    /\ UNCHANGED <<known, boundVars, crossed>>

-----------------------------------------------------------------------------
(* Frames to the MCU and their acknowledgements.                           *)

NewSN == (TxbufInfo.sn % SnMod) + 1

\* HAL_Local_SendData: the MCU answers the frame, or the frame or its answer
\* is lost.  A buffer that was reset holds nothing the MCU would answer.
Sent(frame) ==
    IF frame = NoFrame THEN acks' = acks /\ NoFault
    ELSE \/ acks' = Append(acks, frame) /\ NoFault
         \/ acks' = acks /\ Fault

\* GAgent_LocalDataWriteP0, up to the frame's being sent.
BeginWrite(t, cmd) ==
    LET frame == [cmd |-> cmd, sn |-> NewSN]
    IN  /\ ~isBusy
        /\ Sent(frame)
        /\ TxbufInfo' = frame
        /\ Txbuf' = IF t = "mcu" THEN frame ELSE Txbuf
        /\ pc' = [pc EXCEPT ![t] = "sent"]
        /\ overlapped' = (overlapped \/ \E u \in Writer \ {t} : pc[u] # "idle")
        /\ UNCHANGED <<isBusy, ackTimer, g_mcu_ack_count>>

\* The flag is set.  The timer belongs to the mcu task, which the cloud task
\* asks to start it.
SetBusy(t) ==
    /\ pc[t] = "sent" /\ phase # "reset" /\ (t = "mcu" => Up)
    /\ isBusy' = TRUE
    /\ IF t = "cloud"
       THEN /\ queue' = Posted(queue, "mcu", "MCU_SEND_DATA")
            /\ UNCHANGED ackTimer
       ELSE ackTimer' = TRUE /\ UNCHANGED queue
    /\ pc' = [pc EXCEPT ![t] = "wait"]
    /\ UNCHANGED <<taskVars, TxbufInfo, Txbuf, g_mcu_ack_count, acks,
                   configVars, loginVars, Cloud_Rxbuf, netVars, heartbeat,
                   boundVars, history>>

\* The loop at the end of GAgent_LocalDataWriteP0 is left: flag and buffer
\* are cleared.
EndWrite(t, m) ==
    /\ pc' = [pc EXCEPT ![t] = "idle"]
    /\ isBusy' = FALSE
    /\ Txbuf' = IF t = "mcu" THEN NoFrame ELSE Txbuf
    /\ Cloud_Rxbuf' = IF t = "cloud" THEN NoReply ELSE Cloud_Rxbuf
    /\ g_mcu_ack_count' = IF m = "MCU_ACK_SUCCESS" THEN 0 ELSE g_mcu_ack_count
    /\ UNCHANGED <<TxbufInfo, ackTimer, acks>>

Outcome == {"MCU_ACK_SUCCESS", "MCU_ACK_TIMEOUT"}

\* GAgent_LocalGetInfo goes on: done, once more, or the module is reset.
AfterInfo(m) ==
    IF m = "MCU_ACK_SUCCESS"
    THEN /\ phase' = "up" /\ tries' = 0
         /\ queue' = Posted(Taken("mcu"), "cloud", "GPRS_OK_HINT")
    ELSE /\ tries' = tries + 1
         /\ IF tries' = InfoTries THEN DevReset ELSE UNCHANGED phase
         /\ queue' = Taken("mcu")

Wait(t) ==
    /\ pc[t] = "wait" /\ phase # "reset" /\ (t = "mcu" => Up)
    /\ queue[t] # <<>>
    /\ LET m == Head(queue[t])
       IN  IF m \in Outcome
           THEN /\ EndWrite(t, m)
                /\ IF t = "mcu" /\ phase = "info" THEN AfterInfo(m)
                   ELSE queue' = Taken(t) /\ UNCHANGED <<phase, tries>>
           ELSE /\ queue' = Taken(t)
                /\ UNCHANGED <<phase, tries, linkVars, Cloud_Rxbuf>>
    /\ UNCHANGED <<boots, configVars, loginVars, netVars, heartbeat,
                   boundVars, history>>

LocalGetInfo ==
    /\ phase = "info" /\ pc["mcu"] = "idle"
    /\ BeginWrite("mcu", "info")
    /\ UNCHANGED <<taskVars, queue, configVars, loginVars, Cloud_Rxbuf,
                   netVars, heartbeat, commands, reports, resets, crossed,
                   awaited, stray>>

\* Timer_MCU_Ack_Handler.  Without a late answer it only expires when the
\* answer is lost.  What it repeats is the mcu task's buffer, whoever waits;
\* it tells the cloud task if a command is in Cloud_Rxbuf.
Timer_MCU_Ack_Handler ==
    /\ ackTimer /\ InGetMessage("mcu")
    /\ IF LimitReached(g_mcu_ack_count + 1, AckTries)
       THEN /\ ackTimer' = FALSE /\ g_mcu_ack_count' = 0
            /\ queue' = Posted(queue, IF pc["cloud"] # "idle"
                                      THEN "cloud" ELSE "mcu",
                               "MCU_ACK_TIMEOUT")
            /\ IF acks = <<>> THEN NoFault ELSE Fault
            /\ UNCHANGED acks
       ELSE /\ g_mcu_ack_count' = g_mcu_ack_count + 1
            /\ IF acks = <<>> THEN Sent(Txbuf)
               ELSE Fault /\ acks' = IF Txbuf = NoFrame THEN acks
                                     ELSE Append(acks, Txbuf)
            /\ UNCHANGED <<ackTimer, queue>>
    /\ UNCHANGED <<taskVars, pc, isBusy, TxbufInfo, Txbuf, configVars,
                   loginVars, Cloud_Rxbuf, netVars, heartbeat, commands,
                   reports, resets, history>>

-----------------------------------------------------------------------------
(* The UART callback, Hal_LocalDataHandle.                                 *)

CheckAck(a) == a = TxbufInfo

\* Hal_Local_ExtractInfo: a product key other than the stored one starts a
\* new identity.
ExtractInfo ==
    IF known THEN UNCHANGED configVars
    ELSE /\ known' = TRUE
         /\ gc' = [did |-> Blank, pass |-> boots]
         /\ Saved

\* The acknowledgement of a ping counts whatever it acknowledges.
AckCounts(a) == a.cmd = "ping" \/ CheckAck(a)

\* Faulty: the task that waits for the command's acknowledgement is not told.
AckPostsToMcu(a) ==
    LET told == Posted(queue, "mcu", "MCU_ACK_SUCCESS")
    IN  IF a.cmd = "ping" THEN Posted(told, "main", "MCU_PING_RSP_OK") ELSE told

AckPosts(a) ==
    LET told == Posted(queue, "mcu", "MCU_ACK_SUCCESS")
    IN  CASE a.cmd = "ping" -> Posted(told, "main", "MCU_PING_RSP_OK")
          [] a.cmd = "ctrl" -> Posted(told, "cloud", "MCU_ACK_SUCCESS")
          [] a.cmd = "info" -> told

ReceiveAck ==
    /\ InGetMessage("mcu") /\ acks # <<>>
    /\ acks' = Tail(acks)
    /\ isBusy' = (isBusy /\ ~CheckAck(Head(acks)))
    /\ IF AckCounts(Head(acks))
       THEN ackTimer' = FALSE /\ queue' = AckPosts(Head(acks))
       ELSE UNCHANGED <<ackTimer, queue>>
    /\ IF Head(acks).cmd = "info" /\ CheckAck(Head(acks)) THEN ExtractInfo
       ELSE UNCHANGED configVars
    /\ UNCHANGED <<taskVars, pc, TxbufInfo, Txbuf, g_mcu_ack_count, loginVars,
                   Cloud_Rxbuf, netVars, heartbeat, boundVars, history>>

\* Nothing is sent without a DID.
MQTT_SenData(times) ==
    mqttMsgsubid' = mqttMsgsubid + (IF gc.did = Blank THEN 0 ELSE times)

\* A report, command 0x93, is sent a second time as command 0x91.
Cloud_SendData ==
    IF mqttstatus = "running" THEN MQTT_SenData(2) ELSE UNCHANGED mqttMsgsubid

\* A report is acknowledged and published at once, by the mcu task, with the
\* next message ids.
ReceiveReport ==
    /\ InGetMessage("mcu") /\ reports < MaxReports /\ EventLeft
    /\ reports' = reports + 1
    /\ Cloud_SendData
    /\ UNCHANGED <<taskVars, queue, linkVars, configVars, loginVars,
                   Cloud_Rxbuf, net, broker, heartbeat, faults, commands,
                   resets, history>>

\* Cloud_ReqDisable: the answer goes where every answer goes.
Disable ==
    \/ /\ Cloud_Rxbuf' = OtherReply
       /\ queue' = Posted(queue, "cloud", "CLOUD_CONFIG")
       /\ NoFault
    \/ Fault /\ UNCHANGED <<Cloud_Rxbuf, queue>>

\* MCU_RESET_MODULE: GAgent_Clean_Config asks the service to forget the
\* device, ...
ReceiveReset ==
    /\ InGetMessage("mcu") /\ resets < MaxResets /\ EventLeft
    /\ resets' = resets + 1
    /\ phase' = "cleaning"
    /\ Disable
    /\ UNCHANGED <<boots, tries, linkVars, configVars, loginVars, netVars,
                   heartbeat, commands, reports, history>>

\* Faulty: the file keeps the DID.
CleanMemory ==
    /\ gc' = [did |-> Blank, pass |-> Blank]
    /\ flash' = [flash EXCEPT !.pass = Blank]

\* ... then the configuration is cleared and saved, ...
CleanConfig ==
    gc' = [did |-> Blank, pass |-> Blank] /\ Saved

CleanClear ==
    /\ phase = "cleaning"
    /\ phase' = "cleared"
    /\ CleanConfig
    /\ crossed' = (crossed \/ CloudStatus = "getDid")
    /\ UNCHANGED <<boots, tries, queue, linkVars, known, loginVars,
                   Cloud_Rxbuf, netVars, heartbeat, boundVars, overlapped,
                   awaited, stray>>

\* ... and after two milliseconds the module is reset.
CleanReset ==
    /\ phase = "cleared"
    /\ DevReset
    /\ UNCHANGED <<boots, tries, queue, linkVars, configVars, loginVars,
                   Cloud_Rxbuf, netVars, heartbeat, boundVars, history>>

-----------------------------------------------------------------------------
(* The loops of the tasks mcu and main.                                    *)

\* A ping is not sent while another frame waits.
McuTask ==
    /\ InLoop("mcu") /\ queue["mcu"] # <<>>
    /\ queue' = Taken("mcu")
    /\ \/ /\ HeadIs("mcu", "PING_REQUEST")
          /\ IF isBusy THEN UNCHANGED <<linkVars, faults, overlapped>>
             ELSE BeginWrite("mcu", "ping")
       \/ /\ HeadIs("mcu", "MCU_SEND_DATA")
          /\ ackTimer' = TRUE
          /\ UNCHANGED <<pc, isBusy, TxbufInfo, Txbuf, g_mcu_ack_count, acks,
                         faults, overlapped>>
       \/ /\ Head(queue["mcu"]) \in Outcome
          /\ UNCHANGED <<linkVars, faults, overlapped>>
    /\ UNCHANGED <<taskVars, configVars, loginVars, Cloud_Rxbuf, netVars,
                   heartbeat, commands, reports, resets, crossed, awaited,
                   stray>>

MainTask ==
    /\ InLoop("main") /\ queue["main"] # <<>>
    /\ queue' = Taken("main")
    /\ heartbeat' =
          CASE HeadIs("main", "HEARTBEAT_READY") -> [heartbeat EXCEPT !.on = TRUE]
            [] HeadIs("main", "MCU_PING_RSP_OK") -> [heartbeat EXCEPT !.mcu = 0]
            [] HeadIs("main", "CLOUD_PING_RSP_OK") ->
                  [heartbeat EXCEPT !.cloud = 0]
    /\ UNCHANGED <<taskVars, linkVars, configVars, loginVars, Cloud_Rxbuf,
                   netVars, boundVars, history>>

\* Something is under way that will answer, or end the wait for, a ping; it
\* takes seconds, and the heartbeats a minute.
LinkActive ==
    \/ ackTimer \/ acks # <<>> \/ queue["mcu"] # <<>>
    \/ \E t \in Writer : pc[t] = "sent" \/ (pc[t] = "wait" /\ queue[t] # <<>>)
    \/ HeadIs("main", "MCU_PING_RSP_OK")

CloudActive ==
    \/ queue["cloud"] # <<>> \/ net # <<>>
    \/ \E i \in DOMAIN queue["main"] : queue["main"][i] = "CLOUD_PING_RSP_OK"
    \/ (pc["cloud"] # "idle" /\ LinkActive)

Timer_MCU_HeartBeat_Handler ==
    /\ InLoop("main") /\ heartbeat.on
    /\ IF LinkActive THEN Fault ELSE NoFault
    /\ IF LimitReached(heartbeat.mcu + 1, McuBeats)
       THEN DevReset /\ UNCHANGED <<queue, heartbeat>>
       ELSE /\ heartbeat' = [heartbeat EXCEPT !.mcu = @ + 1]
            /\ queue' = Posted(queue, "mcu", "PING_REQUEST")
            /\ UNCHANGED phase
    /\ UNCHANGED <<boots, tries, linkVars, configVars, loginVars, Cloud_Rxbuf,
                   netVars, commands, reports, resets, history>>

\* Faulty: the status stays, and the message finds nothing to do.
StatusKept == UNCHANGED mqttstatus

LoginAnew == mqttstatus' = "start"

Timer_Cloud_HeartBeat_Handler ==
    /\ InLoop("main") /\ heartbeat.on
    /\ IF CloudActive THEN Fault ELSE NoFault
    /\ IF LimitReached(heartbeat.cloud + 1, CloudBeats)
       THEN /\ heartbeat' = [heartbeat EXCEPT !.cloud = 0]
            /\ LoginAnew
            /\ queue' = Posted(queue, "cloud", "MQTT_READY")
       ELSE /\ heartbeat' = [heartbeat EXCEPT !.cloud = @ + 1]
            /\ UNCHANGED mqttstatus
            /\ queue' = Posted(queue, "cloud", "PING_REQUEST")
    /\ UNCHANGED <<taskVars, linkVars, configVars, gprs, CloudStatus, http,
                   socket, mqtt, m2m_result, status, Cloud_Rxbuf, netVars,
                   commands, reports, resets, history>>

-----------------------------------------------------------------------------
(* Network and sockets: callbacks of the cloud task.                       *)

\* Hal_Login_Gservice_HTTP_Init asks for a bearer; a failed activation is
\* not tried again.
Callback_GPRS_Actived ==
    /\ gprs = "activating" /\ InGetMessage("cloud")
    /\ \/ /\ NoFault
          /\ gprs' = "on" /\ socket' = "created"
          /\ queue' = Posted(queue, "cloud", "CLOUD_CONFIG")
       \/ Fault /\ gprs' = "off" /\ UNCHANGED <<socket, queue>>
    /\ UNCHANGED <<taskVars, linkVars, configVars, CloudStatus, http,
                   mqttstatus, mqtt, m2m_result, status, Cloud_Rxbuf,
                   netVars, heartbeat, commands, reports, resets, history>>

\* The broker's name is resolved and the socket connected, or closed for
\* good.
SocketConnected ==
    /\ socket = "resolving" /\ InGetMessage("cloud")
    /\ \/ /\ NoFault
          /\ socket' = "open"
          /\ queue' = Posted(Posted(queue, "cloud", "MQTT_CONFIG"),
                             "cloud", "MQTT_READY")
       \/ Fault /\ socket' = "none" /\ UNCHANGED queue
    /\ UNCHANGED <<taskVars, linkVars, configVars, gprs, CloudStatus, http,
                   mqttstatus, mqtt, m2m_result, status, Cloud_Rxbuf,
                   netVars, heartbeat, commands, reports, resets, history>>

\* callback_socket_read, and the handler the MQTT library calls.  Each packet is
\* a read of its own: what a PUBLISH behind other packets of its read is taken
\* for is in MqttLib, MqttHandedOn.
ReadPacket(p) ==
    CASE p.type = "connack" ->
            /\ m2m_result' = p.result
            /\ queue' = Posted(queue, "cloud", "MQTT_READY")
            /\ awaited' = FALSE
            /\ net' = Tail(net)
            /\ UNCHANGED <<socket, broker, Cloud_Rxbuf>>
      [] p.type = "suback" ->
            /\ queue' = Posted(queue, "cloud", "MQTT_READY")
            /\ IF p.result = mqttMsgsubid
               THEN /\ m2m_result' = 0 /\ awaited' = FALSE
                    /\ net' = Tail(net)
                    /\ UNCHANGED <<socket, broker, Cloud_Rxbuf>>
               ELSE /\ m2m_result' = -1 /\ socket' = "none" /\ net' = <<>>
                    /\ broker' = [broker EXCEPT !.closed = TRUE]
                    /\ UNCHANGED <<awaited, Cloud_Rxbuf>>
      [] p.type = "publish" ->
            /\ Cloud_Rxbuf' = [kind |-> p.result, did |-> Blank]
            /\ queue' = Posted(queue, "cloud", "MQTT_READY")
            /\ net' = Tail(net)
            /\ UNCHANGED <<socket, broker, m2m_result, awaited>>
      [] p.type = "pingresp" ->
            /\ queue' = Posted(queue, "main", "CLOUD_PING_RSP_OK")
            /\ net' = Tail(net)
            /\ UNCHANGED <<socket, broker, Cloud_Rxbuf, m2m_result, awaited>>
      [] p.type = "close" ->
            /\ socket' = "none" /\ net' = <<>>
            /\ UNCHANGED <<queue, broker, Cloud_Rxbuf, m2m_result, awaited>>

NetRead ==
    /\ InGetMessage("cloud") /\ net # <<>>
    /\ ReadPacket(Head(net))
    /\ UNCHANGED <<taskVars, linkVars, configVars, gprs, CloudStatus, http,
                   mqttstatus, mqtt, status, mqttMsgsubid, heartbeat, boundVars,
                   overlapped, crossed, stray>>

-----------------------------------------------------------------------------
(* The broker.                                                             *)

Listening == socket = "open" /\ ~broker.closed

\* The broker answers, or the packet or its answer is lost.
Answered(packets) ==
    \/ net' = net \o packets /\ NoFault
    \/ net' = net /\ Fault

Packet(type, result) == [type |-> type, result |-> result]

\* A second CONNECT on a connection and a refused one end it.
BrokerConnect ==
    IF ~Listening THEN UNCHANGED <<net, broker, faults>>
    ELSE IF broker.accepted
    THEN /\ net' = Append(net, Packet("close", 0)) /\ NoFault
         /\ broker' = [broker EXCEPT !.closed = TRUE]
    ELSE IF gc.did # Blank /\ gc.did = gc.pass
    THEN /\ Answered(<<Packet("connack", 0)>>)
         /\ broker' = [broker EXCEPT !.accepted = TRUE]
    ELSE /\ net' = net \o <<Packet("connack", -1), Packet("close", 0)>>
         /\ broker' = [broker EXCEPT !.closed = TRUE]
         /\ NoFault

\* Once it may, the broker publishes commands and nothing else.
BrokerPublish ==
    /\ Listening /\ commands < MaxCommands /\ EventLeft
    /\ broker.granted # {}
    /\ net' = Append(net, Packet("publish", IF 3 \in broker.granted
                                            THEN "command" ELSE "notice"))
    /\ commands' = commands + 1
    /\ UNCHANGED <<taskVars, queue, linkVars, configVars, loginVars,
                   Cloud_Rxbuf, mqttMsgsubid, broker, heartbeat, faults,
                   reports, resets, history>>

BrokerClose ==
    /\ Listening /\ Fault
    /\ net' = Append(net, Packet("close", 0))
    /\ broker' = [broker EXCEPT !.closed = TRUE]
    /\ UNCHANGED <<taskVars, queue, linkVars, configVars, loginVars,
                   Cloud_Rxbuf, mqttMsgsubid, heartbeat, commands, reports,
                   resets, history>>

-----------------------------------------------------------------------------
(* Registration: Cloud_ConfigDataHandle.                                   *)

\* A request over HTTP, which blocks the task.  Its answer is put into
\* Cloud_Rxbuf and posted; a failed one is repeated when the timer expires.
\* The service may answer with something else than what is looked for.
HttpRequest(reply, next) ==
    \/ /\ \/ Cloud_Rxbuf' = reply /\ NoFault
          \/ Cloud_Rxbuf' = OtherReply /\ Fault
       /\ queue' = Posted(Taken("cloud"), "cloud", "CLOUD_CONFIG")
       /\ CloudStatus' = next
       /\ http' = NoTimer
    \/ /\ Fault
       /\ queue' = Taken("cloud")
       /\ CloudStatus' = "init"
       /\ http' = [http EXCEPT !.on = TRUE]
       /\ UNCHANGED Cloud_Rxbuf

HttpFailed ==
    /\ CloudStatus' = "init"
    /\ http' = [http EXCEPT !.on = TRUE]
    /\ queue' = Taken("cloud")
    /\ NoFault
    /\ UNCHANGED Cloud_Rxbuf

\* Http_POST: the service registers no device without a passcode.
RegisterReply == IF gc.pass = Blank THEN OtherReply
                 ELSE [kind |-> "did", did |-> gc.pass]

Register == HttpRequest(RegisterReply, "getDid")

\* Http_GET: the name and port of the broker.
ProvisionReply == [kind |-> "host", did |-> Blank]

Provision == HttpRequest(ProvisionReply, "provision")

ReplyHasDid == Cloud_Rxbuf.kind = "did"
ReplyHasHost == Cloud_Rxbuf.kind = "host"

\* Hal_Login_MQTT_TCP_Init: the bearer's socket is used for the broker.
LoginInit == socket' = IF socket = "created" THEN "resolving" ELSE socket

ConfigInit ==
    IF gc.did # Blank
    THEN Provision /\ UNCHANGED <<gc, flash, socket, mqttstatus>>
    ELSE /\ gc' = gc /\ Saved
         /\ Register
         /\ UNCHANGED <<socket, mqttstatus>>

\* A reply without a DID clears the one in memory.
ConfigGetDid ==
    /\ gc' = [gc EXCEPT !.did = Cloud_Rxbuf.did]
    /\ IF ReplyHasDid THEN Saved /\ Provision
       ELSE UNCHANGED flash /\ HttpFailed
    /\ UNCHANGED <<socket, mqttstatus>>

ConfigProvision ==
    IF ReplyHasHost
    THEN /\ CloudStatus' = "ok" /\ http' = NoTimer
         /\ mqttstatus' = "start"
         /\ LoginInit
         /\ gc' = gc /\ Saved
         /\ queue' = Taken("cloud") /\ NoFault
         /\ UNCHANGED Cloud_Rxbuf
    ELSE HttpFailed /\ UNCHANGED <<gc, flash, socket, mqttstatus>>

\* Not registered in the network: the message is lost, and no timer runs.
ConfigLost ==
    /\ Fault /\ queue' = Taken("cloud")
    /\ UNCHANGED <<gc, flash, CloudStatus, http, socket, mqttstatus,
                   Cloud_Rxbuf>>

Cloud_ConfigDataHandle ==
    /\ InLoop("cloud") /\ HeadIs("cloud", "CLOUD_CONFIG")
    /\ \/ CloudStatus = "init" /\ ConfigInit
       \/ CloudStatus = "getDid" /\ ConfigGetDid
       \/ CloudStatus = "provision" /\ ConfigProvision
       \/ /\ CloudStatus = "ok" /\ queue' = Taken("cloud") /\ NoFault
          /\ UNCHANGED <<gc, flash, CloudStatus, http, socket, mqttstatus,
                         Cloud_Rxbuf>>
       \/ ConfigLost
    /\ UNCHANGED <<taskVars, linkVars, known, gprs, mqtt, m2m_result, status,
                   netVars, heartbeat, commands, reports, resets, history>>

Timer_HTTP_Connect_Handler ==
    /\ http.on /\ InGetMessage("cloud")
    /\ IF LimitReached(http.count + 1, ConnectTries)
       THEN DevReset /\ UNCHANGED <<queue, http>>
       ELSE /\ http' = [on |-> FALSE, count |-> http.count + 1]
            /\ queue' = Posted(queue, "cloud", "CLOUD_CONFIG")
            /\ UNCHANGED phase
    /\ UNCHANGED <<boots, tries, linkVars, configVars, gprs, CloudStatus,
                   socket, mqttstatus, mqtt, m2m_result, status, Cloud_Rxbuf,
                   netVars, heartbeat, boundVars, history>>

-----------------------------------------------------------------------------
(* Login: Cloud_M2MDataHandle, which acts on the status it has read.       *)

LoginFailed ==
    /\ mqttstatus' = "start"
    /\ mqtt' = [mqtt EXCEPT !.on = TRUE]
    /\ queue' = Taken("cloud")
    /\ UNCHANGED <<netVars, faults, awaited, stray>>

\* Cloud_ReqConnect refuses an empty name or passcode; without a socket the
\* packet is not sent.
CanConnect == gc.did # Blank /\ gc.pass # Blank /\ socket = "open"

\* If CONNECT was not sent, the timer starts.  m2m_result keeps the last
\* result.
LoginStart ==
    \/ ~CanConnect /\ LoginFailed
    \/ /\ CanConnect
       /\ BrokerConnect
       /\ mqttstatus' = "resLogin" /\ mqtt' = NoTimer
       /\ queue' = Taken("cloud")
       /\ awaited' = TRUE
       /\ UNCHANGED <<mqttMsgsubid, stray>>

LoginStep == [resLogin |-> [topic |-> 1, next |-> "topic1"],
              topic1   |-> [topic |-> 2, next |-> "topic2"],
              topic2   |-> [topic |-> 3, next |-> "topic3"]]

\* Faulty: a login step ends in the status after the next.
StepOver(s) == IF s = "resLogin" THEN [topic |-> 2, next |-> "topic2"]
               ELSE LoginStep[s]

StepAfter(s) == LoginStep[s]

\* The broker grants the topic, or refuses it in an answer of the same form:
\* nothing looks at the code in it.
BrokerSubscribe(topic, id) ==
    IF Listening /\ broker.accepted
    THEN \/ /\ broker' = [broker EXCEPT !.asked = @ \cup {topic},
                                        !.granted = @ \cup {topic}]
            /\ Answered(<<Packet("suback", id)>>)
         \/ /\ broker' = [broker EXCEPT !.asked = @ \cup {topic}]
            /\ net' = Append(net, Packet("suback", id)) /\ Fault
    ELSE UNCHANGED <<net, broker, faults>>

\* The next topic is subscribed; whether the packet was sent is ignored, and
\* no timer waits for the answer.
Subscribe(topic) ==
    /\ mqttMsgsubid' = mqttMsgsubid + 1
    /\ BrokerSubscribe(topic, mqttMsgsubid + 1)

LoginNext ==
    /\ status \in DOMAIN LoginStep
    /\ stray' = (stray \/ awaited)
    /\ Subscribe(StepAfter(status).topic)
    /\ mqttstatus' = StepAfter(status).next /\ mqtt' = NoTimer
    /\ queue' = Taken("cloud")
    /\ awaited' = TRUE

LoginDone ==
    /\ status = "topic3"
    /\ stray' = (stray \/ awaited)
    /\ mqttstatus' = "running" /\ mqtt' = NoTimer
    /\ queue' = Posted(Taken("cloud"), "main", "HEARTBEAT_READY")
    /\ UNCHANGED <<netVars, faults, awaited>>

\* The answer is the last result, whatever message announced it.
LoginAnswer ==
    /\ status \in DOMAIN LoginStep \cup {"topic3"}
    /\ IF m2m_result # 0 THEN LoginFailed ELSE LoginNext \/ LoginDone

\* Mqtt_DispatchPublishPacket finds a command.
IsCommand == Cloud_Rxbuf.kind = "command"

\* A command in Cloud_Rxbuf goes to the MCU unless a frame waits; anything
\* else there is ignored.
Dispatch ==
    /\ status = "running"
    /\ queue' = Taken("cloud")
    /\ IF IsCommand /\ ~isBusy
       THEN BeginWrite("cloud", "ctrl")
       ELSE UNCHANGED <<linkVars, faults, overlapped>>
    /\ Cloud_Rxbuf' = IF IsCommand THEN NoReply ELSE Cloud_Rxbuf
    /\ UNCHANGED <<mqttstatus, mqtt, netVars, awaited, stray>>

\* The state of the network is asked of the modem, which blocks the task; the
\* message stays in the queue until the handler has done with it.
StatusRead ==
    /\ InLoop("cloud") /\ HeadIs("cloud", "MQTT_READY")
    /\ status' = mqttstatus
    /\ UNCHANGED <<taskVars, queue, linkVars, configVars, gprs, CloudStatus,
                   http, socket, mqttstatus, mqtt, m2m_result, Cloud_Rxbuf,
                   netVars, heartbeat, boundVars, history>>

Cloud_M2MDataHandle ==
    /\ status # "idle" /\ HeadIs("cloud", "MQTT_READY") /\ phase # "reset"
    /\ status' = "idle"
    /\ \/ /\ \/ status = "start" /\ LoginStart
             \/ LoginAnswer
          /\ UNCHANGED <<linkVars, overlapped, Cloud_Rxbuf>>
       \/ Dispatch
       \/ /\ Fault /\ queue' = Taken("cloud")   \* not registered: lost
          /\ UNCHANGED <<mqttstatus, mqtt, netVars, linkVars, overlapped,
                         Cloud_Rxbuf, awaited, stray>>
    /\ UNCHANGED <<taskVars, configVars, gprs, CloudStatus, http, socket,
                   m2m_result, heartbeat, commands, reports, resets, crossed>>

\* Faulty: the failed attempts are not counted.
NotCounted == mqtt.count

AttemptsFailed == mqtt.count + 1

Timer_MQTT_Connect_Handler ==
    /\ mqtt.on /\ InGetMessage("cloud")
    /\ IF LimitReached(AttemptsFailed, ConnectTries)
       THEN DevReset /\ UNCHANGED <<queue, mqtt>>
       ELSE /\ mqtt' = [on |-> FALSE, count |-> AttemptsFailed]
            /\ queue' = Posted(queue, "cloud", "MQTT_READY")
            /\ UNCHANGED phase
    /\ UNCHANGED <<boots, tries, linkVars, configVars, gprs, CloudStatus,
                   http, socket, mqttstatus, m2m_result, status, Cloud_Rxbuf,
                   netVars, heartbeat, boundVars, history>>

-----------------------------------------------------------------------------
(* The loop of the cloud task.                                             *)

GprsOkHint ==
    /\ InLoop("cloud") /\ HeadIs("cloud", "GPRS_OK_HINT")
    /\ queue' = Taken("cloud")
    /\ gprs' = "activating"
    /\ UNCHANGED <<taskVars, linkVars, configVars, CloudStatus, http, socket,
                   mqttstatus, mqtt, m2m_result, status, Cloud_Rxbuf,
                   netVars, heartbeat, boundVars, history>>

\* MQTT_HeartbeatTime: the ping's result is ignored.
CloudPing ==
    /\ InLoop("cloud") /\ HeadIs("cloud", "PING_REQUEST")
    /\ queue' = Taken("cloud")
    /\ IF Listening /\ broker.accepted THEN Answered(<<Packet("pingresp", 0)>>)
       ELSE UNCHANGED <<net, faults>>
    /\ UNCHANGED <<taskVars, linkVars, configVars, loginVars, Cloud_Rxbuf,
                   mqttMsgsubid, broker, heartbeat, commands, reports, resets,
                   history>>

\* MQTT_CONFIG sets the MQTT library up; late outcomes of a wait are ignored.
CloudOther ==
    /\ InLoop("cloud") /\ queue["cloud"] # <<>>
    /\ Head(queue["cloud"]) \in Outcome \cup {"MQTT_CONFIG"}
    /\ queue' = Taken("cloud")
    /\ UNCHANGED <<taskVars, linkVars, configVars, loginVars, Cloud_Rxbuf,
                   netVars, heartbeat, boundVars, history>>

McuLoop ==
    \/ LocalGetInfo \/ SetBusy("mcu") \/ Wait("mcu") \/ McuTask
    \/ CleanClear \/ CleanReset

CloudLoop ==
    \/ SetBusy("cloud") \/ Wait("cloud") \/ GprsOkHint
    \/ Cloud_ConfigDataHandle \/ StatusRead \/ Cloud_M2MDataHandle
    \/ CloudPing \/ CloudOther

Callback == ReceiveAck \/ Callback_GPRS_Actived \/ SocketConnected \/ NetRead

Timer ==
    \/ Timer_MCU_Ack_Handler
    \/ Timer_HTTP_Connect_Handler \/ Timer_MQTT_Connect_Handler
    \/ Timer_MCU_HeartBeat_Handler \/ Timer_Cloud_HeartBeat_Handler

World == Boot \/ ReceiveReport \/ ReceiveReset \/ BrokerPublish \/ BrokerClose

Next == McuLoop \/ CloudLoop \/ MainTask \/ Callback \/ Timer \/ World

Spec == Init /\ [][Next]_vars

\* Every task runs, every callback is called and every timer expires; none of
\* this may lean on a fault.  A timer of the cloud task that expires while the
\* handler of a message runs is called when the task reads the next one: the
\* task may be busy again and again.
FairSpec ==
    /\ Spec
    /\ WF_vars(McuLoop /\ NoFault) /\ WF_vars(CloudLoop /\ NoFault)
    /\ WF_vars(MainTask)
    /\ WF_vars(ReceiveAck) /\ WF_vars(NetRead)
    /\ WF_vars(Timer_MCU_Ack_Handler /\ NoFault)
    /\ SF_vars(Timer_HTTP_Connect_Handler)
    /\ SF_vars(Timer_MQTT_Connect_Handler)
    /\ WF_vars(Timer_MCU_HeartBeat_Handler /\ NoFault)
    /\ WF_vars(Timer_Cloud_HeartBeat_Handler /\ NoFault)

-----------------------------------------------------------------------------
(* Properties.                                                             *)

Message == Outcome \cup
    {"GPRS_OK_HINT", "CLOUD_CONFIG", "MQTT_CONFIG", "MQTT_READY",
     "HEARTBEAT_READY", "PING_REQUEST", "MCU_PING_RSP_OK",
     "CLOUD_PING_RSP_OK", "MCU_SEND_DATA"}
Frame == [cmd : {"none", "info", "ping", "ctrl"}, sn : 0 .. SnMod]
TimerRecord == [on : BOOLEAN, count : 0 .. ConnectTries - 1]
Identity == [did : 0 .. MaxBoots, pass : 0 .. MaxBoots]
LoginStatus == {"none", "start", "resLogin", "topic1", "topic2", "topic3",
                "running"}

\* Types, the capacity of the queues, and the counts that never reach their
\* limits (hal_timer.c:133-240).
TypeOK ==
    /\ phase \in {"info", "up", "cleaning", "cleared", "reset"}
    /\ boots \in 1 .. MaxBoots /\ tries \in 0 .. InfoTries
    /\ queue \in [Task -> Seq(Message)]
    /\ \A t \in Task : Len(queue[t]) <= QueueCap
    /\ pc \in [Writer -> {"idle", "sent", "wait"}]
    /\ isBusy \in BOOLEAN /\ TxbufInfo \in Frame /\ Txbuf \in Frame
    /\ ackTimer \in BOOLEAN /\ g_mcu_ack_count \in 0 .. AckTries - 1
    /\ acks \in Seq(Frame)
    /\ known \in BOOLEAN /\ gc \in Identity /\ flash \in Identity
    /\ gprs \in {"off", "activating", "on"}
    /\ CloudStatus \in {"init", "getDid", "provision", "ok"}
    /\ http \in TimerRecord /\ mqtt \in TimerRecord
    /\ Cloud_Rxbuf \in [kind : {"empty", "did", "host", "other", "command",
                                "notice"}, did : 0 .. MaxBoots]
    /\ socket \in {"none", "created", "resolving", "open"}
    /\ mqttstatus \in LoginStatus
    /\ m2m_result \in {0, -1} /\ mqttMsgsubid \in Nat
    /\ status \in LoginStatus \cup {"idle"}
    /\ broker \in [accepted : BOOLEAN, asked : SUBSET (1 .. 3),
                   granted : SUBSET (1 .. 3), closed : BOOLEAN]
    /\ heartbeat \in [on : BOOLEAN, mcu : 0 .. McuBeats - 1,
                      cloud : 0 .. CloudBeats - 1]

\* A DID, in memory or in the file, was registered with the passcode beside
\* it: through registration, a new product key, a cleaning and any number of
\* restarts.  The exception is a registration under way while the MCU orders
\* a cleaning (hal_uart.c:653-658 against cloud.c:121-150, in another task).
DidHasItsPasscode ==
    ~crossed => \A c \in {gc, flash} : c.did # Blank => c.did = c.pass

\* RUNNING means that the broker accepted this device on this connection and
\* has been asked for each of the three topics: also where a heartbeat starts
\* the login anew while an answer is at work (hal_timer.c:230 against
\* cloud.c:222-325).  It does not mean that a topic was granted: the answer
\* that refuses one passes (mqttlib_ext.c:411-415, mqttxpg.c:116-136).  A
\* topic may not even have been asked for only where some other message was
\* taken for an answer (cloud.c:264-333: any MQTT_READY counts, with the result
\* left by the last answer).
RunningMeansLoggedIn ==
    mqttstatus = "running" =>
        broker.accepted /\ (broker.asked = 1 .. 3 \/ stray)

\* A task that waits for the MCU stops waiting, or the module restarts: lost
\* and late acknowledgements, the start of the timer asked of another task
\* (gagent.c:206), outcomes left over in a queue.  Two exchanges that overlap,
\* which the check of isBusy does not exclude (gagent.c:176-203), share one
\* timer and may leave one of them waiting.
WriteEnds ==
    \A t \in Writer :
        pc[t] # "idle" ~> (pc[t] = "idle" \/ phase = "reset" \/ overlapped)

\* Once the heartbeats run, a lost connection ends in a restart of the
\* module: nothing else opens a new socket (hal_timer.c:180-240,
\* hal_socket.c:90).
LossRecovers ==
    (heartbeat.on /\ socket = "none") ~> (phase = "reset" \/ overlapped)
=============================================================================
