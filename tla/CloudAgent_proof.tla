-------------------------- MODULE CloudAgent_proof --------------------------
(***************************************************************************)
(* Proofs about the cloud agent: its type invariant; that its DID was      *)
(* registered with the passcode kept beside it; and that the agent that    *)
(* says it is running is logged in.                                        *)
(*                                                                         *)
(* TypeInv gives each group of variables its type, the messages that wait  *)
(* in a queue, the acknowledgements and the packets on their way too.      *)
(*                                                                         *)
(* InfoInv: nothing of the cloud side begins before the MCU has told its   *)
(* profile.  DidInv: then memory, file and the reply that is awaited hold  *)
(* a DID that goes with the passcode, unless a reset came between.         *)
(*                                                                         *)
(* LoginInv: a login that is not accepted yet is in one place, the hint    *)
(* that starts it, its timer or the broker's refusal; a failed result      *)
(* only comes on a connection that is closed; and the subscriptions are    *)
(* asked for in the order in which mqttstatus counts them.  StatusInv: the *)
(* handler acts on the status it has read; if that is not the status any   *)
(* more, a heartbeat started the login anew, and the agent was logged in.  *)
(***************************************************************************)
EXTENDS CloudAgent, SequenceTheorems, TLAPS

-----------------------------------------------------------------------------
(* The parts of the state.                                                 *)

MainMessage == {"HEARTBEAT_READY", "MCU_PING_RSP_OK", "CLOUD_PING_RSP_OK"}

\* A frame that was written; its serial number is never 0.
SentFrame == [cmd : {"info", "ping", "ctrl"}, sn : 1 .. SnMod]

Packets ==
    [type : {"connack"}, result : {0, -1}]
    \cup [type : {"suback"}, result : Nat]
    \cup [type : {"publish"}, result : {"command", "notice"}]
    \cup [type : {"pingresp", "close"}, result : {0}]

Reply == [kind : {"empty", "did", "host", "other", "command", "notice"},
          did : 0 .. MaxBoots]

TaskType ==
    /\ phase \in {"info", "up", "cleaning", "cleared", "reset"}
    /\ boots \in 1 .. MaxBoots /\ tries \in 0 .. InfoTries
    /\ phase = "info" => tries < InfoTries

QueueOK(q) ==
    /\ q \in [Task -> Seq(Message)]
    /\ \A t \in Task : Len(q[t]) <= QueueCap
    /\ q["main"] \in Seq(MainMessage)

LinkType ==
    /\ pc \in [Writer -> {"idle", "sent", "wait"}]
    /\ isBusy \in BOOLEAN
    /\ TxbufInfo \in SentFrame \cup {NoFrame}
    /\ Txbuf \in SentFrame \cup {NoFrame}
    /\ ackTimer \in BOOLEAN /\ g_mcu_ack_count \in 0 .. AckTries - 1
    /\ acks \in Seq(SentFrame)

ConfigType == known \in BOOLEAN /\ gc \in Identity /\ flash \in Identity

LoginType ==
    /\ gprs \in {"off", "activating", "on"}
    /\ CloudStatus \in {"init", "getDid", "provision", "ok"}
    /\ socket \in {"none", "created", "resolving", "open"}
    /\ mqttstatus \in LoginStatus /\ status \in LoginStatus \cup {"idle"}
    /\ m2m_result \in {0, -1}

TimerType == http \in TimerRecord /\ mqtt \in TimerRecord

NetType ==
    /\ mqttMsgsubid \in Nat /\ net \in Seq(Packets)
    /\ broker \in [accepted : BOOLEAN, asked : SUBSET (1 .. 3),
                   granted : SUBSET (1 .. 3), closed : BOOLEAN]
    /\ broker.granted = {} \/ broker.accepted

BeatType == heartbeat \in [on : BOOLEAN, mcu : 0 .. McuBeats - 1,
                           cloud : 0 .. CloudBeats - 1]

RxType == Cloud_Rxbuf \in Reply

TypeInv ==
    /\ TaskType /\ QueueOK(queue) /\ LinkType /\ ConfigType /\ LoginType
    /\ TimerType /\ NetType /\ BeatType /\ RxType

LEMMA Constants ==
    /\ QueueCap \in Nat /\ QueueCap > 0 /\ SnMod \in Nat /\ SnMod > 0
    /\ InfoTries \in Nat /\ InfoTries > 0 /\ AckTries \in Nat /\ AckTries > 0
    /\ McuBeats \in Nat /\ McuBeats > 0 /\ CloudBeats \in Nat /\ CloudBeats > 0
    /\ ConnectTries \in Nat /\ ConnectTries > 0
    /\ MaxBoots \in Nat /\ MaxBoots > 0
  BY CloudAgentAssumption

-----------------------------------------------------------------------------
(* Queues.                                                                 *)

\* Posting a message keeps a queue's type and capacity.
LEMMA PostedOK ==
    ASSUME NEW q, QueueOK(q), NEW t \in Task, NEW m \in Message,
           t = "main" => m \in MainMessage
    PROVE  QueueOK(Posted(q, t, m))
  <1>1. CASE Len(q[t]) < QueueCap
    <2>1. q[t] \in Seq(Message)
      BY DEF QueueOK
    <2>2. /\ Append(q[t], m) \in Seq(Message)
          /\ Len(Append(q[t], m)) = Len(q[t]) + 1
      BY <2>1, AppendProperties
    <2>3. t = "main" => Append(q[t], m) \in Seq(MainMessage)
      BY AppendProperties DEF QueueOK
    <2>4. Posted(q, t, m) = [q EXCEPT ![t] = Append(q[t], m)]
      BY <1>1 DEF Posted
    <2>5. Len(q[t]) + 1 <= QueueCap
      BY <1>1, <2>1, Constants, SMT
    <2> QED
      BY <2>2, <2>3, <2>4, <2>5 DEF QueueOK, Task
  <1>2. CASE ~(Len(q[t]) < QueueCap)
    BY <1>2 DEF Posted
  <1> QED
    BY <1>1, <1>2

\* So does taking the first message.
LEMMA TakenOK ==
    ASSUME QueueOK(queue), NEW t \in Task, queue[t] # <<>>
    PROVE  QueueOK(Taken(t)) /\ Head(queue[t]) \in Message
  <1>1. queue[t] \in Seq(Message)
    BY DEF QueueOK
  <1>2. /\ Tail(queue[t]) \in Seq(Message) /\ Head(queue[t]) \in Message
        /\ Len(Tail(queue[t])) <= Len(queue[t])
    BY <1>1, HeadTailProperties, LenProperties, SMT
  <1>3. t = "main" => Tail(queue[t]) \in Seq(MainMessage)
    BY HeadTailProperties DEF QueueOK
  <1>4. Len(queue[t]) <= QueueCap /\ Len(queue[t]) \in Nat
    BY <1>1, LenProperties DEF QueueOK
  <1>5. Len(Tail(queue[t])) \in Nat
    BY <1>2, LenProperties
  <1>6. Len(Tail(queue[t])) <= QueueCap
    BY <1>2, <1>4, <1>5, Constants, SMT
  <1> QED
    BY <1>2, <1>3, <1>6 DEF QueueOK, Taken, Task

-----------------------------------------------------------------------------
(* What a step changes.                                                    *)

LEMMA Steps ==
    ASSUME [Next]_vars
    PROVE  \/ LocalGetInfo \/ SetBusy("mcu") \/ Wait("mcu") \/ McuTask
           \/ CleanClear \/ CleanReset
           \/ SetBusy("cloud") \/ Wait("cloud") \/ GprsOkHint
           \/ Cloud_ConfigDataHandle \/ StatusRead \/ Cloud_M2MDataHandle
           \/ CloudPing \/ CloudOther \/ MainTask
           \/ ReceiveAck \/ Callback_GPRS_Actived \/ SocketConnected \/ NetRead
           \/ Timer_MCU_Ack_Handler \/ Timer_HTTP_Connect_Handler
           \/ Timer_MQTT_Connect_Handler \/ Timer_MCU_HeartBeat_Handler
           \/ Timer_Cloud_HeartBeat_Handler
           \/ Boot \/ ReceiveReport \/ ReceiveReset \/ BrokerPublish
           \/ BrokerClose
           \/ UNCHANGED vars
  BY DEF Next, McuLoop, CloudLoop, Callback, Timer, World

LEMMA TaskFrame ==
    ASSUME [Next]_vars
    PROVE  \/ Wait("mcu") \/ CleanClear \/ CleanReset \/ ReceiveReset \/ Boot
           \/ Timer_HTTP_Connect_Handler \/ Timer_MQTT_Connect_Handler
           \/ Timer_MCU_HeartBeat_Handler
           \/ UNCHANGED taskVars
  BY Steps DEF vars, StatusRead, taskVars, LocalGetInfo, SetBusy, Wait, McuTask, GprsOkHint,
     Cloud_ConfigDataHandle, Cloud_M2MDataHandle, CloudPing, CloudOther,
     MainTask, ReceiveAck, Callback_GPRS_Actived, SocketConnected, NetRead,
     Timer_MCU_Ack_Handler, Timer_Cloud_HeartBeat_Handler, ReceiveReport,
     BrokerPublish, BrokerClose

LEMMA LinkFrame ==
    ASSUME [Next]_vars
    PROVE  \/ LocalGetInfo \/ SetBusy("mcu") \/ SetBusy("cloud")
           \/ Wait("mcu") \/ Wait("cloud") \/ McuTask \/ ReceiveAck
           \/ Timer_MCU_Ack_Handler \/ Cloud_M2MDataHandle \/ Boot
           \/ UNCHANGED linkVars
  BY Steps DEF vars, StatusRead, CleanClear, CleanReset, GprsOkHint,
     Cloud_ConfigDataHandle, CloudPing, CloudOther, MainTask,
     Callback_GPRS_Actived, SocketConnected, NetRead,
     Timer_HTTP_Connect_Handler, Timer_MQTT_Connect_Handler,
     Timer_MCU_HeartBeat_Handler, Timer_Cloud_HeartBeat_Handler,
     ReceiveReport, ReceiveReset, BrokerPublish, BrokerClose

LEMMA ConfigFrame ==
    ASSUME [Next]_vars
    PROVE  \/ CleanClear \/ Cloud_ConfigDataHandle \/ ReceiveAck \/ Boot
           \/ UNCHANGED configVars
  BY Steps DEF vars, StatusRead, LocalGetInfo, SetBusy, Wait, McuTask, CleanReset,
     GprsOkHint, Cloud_M2MDataHandle, CloudPing, CloudOther, MainTask,
     Callback_GPRS_Actived, SocketConnected, NetRead, Timer_MCU_Ack_Handler,
     Timer_HTTP_Connect_Handler, Timer_MQTT_Connect_Handler,
     Timer_MCU_HeartBeat_Handler, Timer_Cloud_HeartBeat_Handler,
     ReceiveReport, ReceiveReset, BrokerPublish, BrokerClose

LEMMA LoginFrame ==
    ASSUME [Next]_vars
    PROVE  \/ GprsOkHint \/ Cloud_ConfigDataHandle \/ StatusRead
           \/ Cloud_M2MDataHandle
           \/ Callback_GPRS_Actived \/ SocketConnected \/ NetRead
           \/ Timer_HTTP_Connect_Handler \/ Timer_MQTT_Connect_Handler
           \/ Timer_Cloud_HeartBeat_Handler \/ Boot
           \/ UNCHANGED loginVars
  BY Steps DEF vars, LocalGetInfo, SetBusy, Wait, McuTask, CleanClear,
     CleanReset, CloudPing, CloudOther, MainTask, ReceiveAck,
     Timer_MCU_Ack_Handler, Timer_MCU_HeartBeat_Handler,
     ReceiveReport, ReceiveReset, BrokerPublish, BrokerClose

LEMMA NetFrame ==
    ASSUME [Next]_vars
    PROVE  \/ Cloud_M2MDataHandle \/ CloudPing \/ NetRead \/ Boot
           \/ ReceiveReport \/ BrokerPublish \/ BrokerClose
           \/ UNCHANGED netVars
  BY Steps DEF vars, StatusRead, LocalGetInfo, SetBusy, Wait, McuTask, CleanClear,
     CleanReset, GprsOkHint, Cloud_ConfigDataHandle, CloudOther, MainTask,
     ReceiveAck, Callback_GPRS_Actived, SocketConnected,
     Timer_MCU_Ack_Handler, Timer_HTTP_Connect_Handler,
     Timer_MQTT_Connect_Handler, Timer_MCU_HeartBeat_Handler,
     Timer_Cloud_HeartBeat_Handler, ReceiveReset

LEMMA BeatFrame ==
    ASSUME [Next]_vars
    PROVE  \/ MainTask \/ Timer_MCU_HeartBeat_Handler
           \/ Timer_Cloud_HeartBeat_Handler \/ Boot
           \/ UNCHANGED heartbeat
  BY Steps DEF vars, StatusRead, LocalGetInfo, SetBusy, Wait, McuTask, CleanClear,
     CleanReset, GprsOkHint, Cloud_ConfigDataHandle, Cloud_M2MDataHandle,
     CloudPing, CloudOther, ReceiveAck, Callback_GPRS_Actived,
     SocketConnected, NetRead, Timer_MCU_Ack_Handler,
     Timer_HTTP_Connect_Handler, Timer_MQTT_Connect_Handler,
     ReceiveReport, ReceiveReset, BrokerPublish, BrokerClose

LEMMA RxFrame ==
    ASSUME [Next]_vars
    PROVE  \/ Wait("cloud") \/ Cloud_ConfigDataHandle \/ Cloud_M2MDataHandle
           \/ NetRead \/ ReceiveReset \/ Boot
           \/ UNCHANGED Cloud_Rxbuf
  BY Steps DEF vars, StatusRead, LocalGetInfo, SetBusy, Wait, EndWrite, linkVars, McuTask,
     CleanClear, CleanReset, GprsOkHint, CloudPing, CloudOther, MainTask,
     ReceiveAck, Callback_GPRS_Actived, SocketConnected,
     Timer_MCU_Ack_Handler, Timer_HTTP_Connect_Handler,
     Timer_MQTT_Connect_Handler, Timer_MCU_HeartBeat_Handler,
     Timer_Cloud_HeartBeat_Handler, ReceiveReport, BrokerPublish, BrokerClose

-----------------------------------------------------------------------------
(* Types.                                                                  *)

LEMMA TypeInit == Init => TypeInv
  <1> SUFFICES ASSUME Init PROVE TypeInv
    OBVIOUS
  <1> USE Constants
  <1>1. TaskType
    BY DEF Init, TaskType
  <1>2. QueueOK(queue)
    <2>1. <<>> \in Seq(Message) /\ <<>> \in Seq(MainMessage) /\ Len(<<>>) = 0
      BY EmptySeq
    <2> QED
      BY <2>1 DEF Init, QueueOK, Task
  <1>3. LinkType
    <2>1. isBusy = FALSE /\ ackTimer = FALSE
      BY DEF Init
    <2>2. isBusy \in BOOLEAN /\ ackTimer \in BOOLEAN
      BY <2>1
    <2>3. g_mcu_ack_count \in 0 .. AckTries - 1
      BY SMT DEF Init
    <2>4. /\ pc \in [Writer -> {"idle", "sent", "wait"}]
          /\ TxbufInfo = NoFrame /\ Txbuf = NoFrame /\ acks \in Seq(SentFrame)
      BY EmptySeq DEF Init
    <2> QED
      BY <2>2, <2>3, <2>4 DEF LinkType
  <1>4. ConfigType /\ LoginType
    <2>1. known = FALSE
      BY DEF Init
    <2>2. known \in BOOLEAN
      BY <2>1
    <2>3. [did |-> Blank, pass |-> Blank] \in Identity
      BY SMT DEF Identity, Blank
    <2>4. gc \in Identity /\ flash \in Identity
      BY <2>3 DEF Init
    <2>5. LoginType
      BY DEF Init, LoginType, LoginStatus
    <2> QED
      BY <2>2, <2>4, <2>5 DEF ConfigType
  <1>5. TimerType
    BY DEF Init, TimerType, TimerRecord, NoTimer
  <1>6. NetType
    BY DEF Init, NetType, NoBroker
  <1>7. BeatType /\ RxType
    BY DEF Init, BeatType, RxType, Reply, NoReply, Blank
  <1> QED
    BY <1>1, <1>2, <1>3, <1>4, <1>5, <1>6, <1>7 DEF TypeInv

LEMMA TaskTypeStep == TypeInv /\ [Next]_vars => TaskType'
  <1> SUFFICES ASSUME TypeInv, [Next]_vars PROVE TaskType'
    OBVIOUS
  <1> USE Constants DEF TypeInv, TaskType
  <1>1. CASE Wait("mcu")
    <2>1. CASE UNCHANGED <<phase, tries, boots>>
      BY <2>1
    <2>2. CASE phase = "info" /\ AfterInfo(Head(queue["mcu"])) /\ boots' = boots
      BY <2>2 DEF AfterInfo, DevReset
    <2> QED
      BY <1>1, <2>1, <2>2 DEF Wait
  <1>2. CASE CleanClear \/ CleanReset \/ ReceiveReset
    BY <1>2 DEF CleanClear, CleanReset, ReceiveReset, DevReset
  <1>3. CASE Boot
    BY <1>3 DEF Boot, BootState
  <1>4. CASE Timer_HTTP_Connect_Handler \/ Timer_MQTT_Connect_Handler
             \/ Timer_MCU_HeartBeat_Handler
    BY <1>4 DEF Timer_HTTP_Connect_Handler, Timer_MQTT_Connect_Handler,
       Timer_MCU_HeartBeat_Handler, DevReset
  <1>5. CASE UNCHANGED taskVars
    BY <1>5 DEF taskVars
  <1> QED
    BY <1>1, <1>2, <1>3, <1>4, <1>5, TaskFrame

\* A frame that is written has a serial number between 1 and SnMod.
LEMMA BeginWriteType ==
    ASSUME LinkType, NEW t \in Writer, NEW cmd \in {"info", "ping", "ctrl"},
           BeginWrite(t, cmd)
    PROVE  LinkType'
  <1> USE Constants DEF LinkType
  <1> DEFINE frame == [cmd |-> cmd, sn |-> NewSN]
  <1>1. NewSN \in 1 .. SnMod
    <2>1. TxbufInfo.sn \in Nat
      BY SMT DEF NoFrame, SentFrame
    <2> QED
      BY <2>1, SMT DEF NewSN
  <1>2. frame \in SentFrame
    BY <1>1 DEF SentFrame
  <1>3. acks' \in Seq(SentFrame)
    <2>1. Append(acks, frame) \in Seq(SentFrame)
      BY <1>2, AppendProperties
    <2> QED
      BY <2>1 DEF BeginWrite, Sent
  <1>4. TxbufInfo' = frame /\ Txbuf' \in {Txbuf, frame}
    BY DEF BeginWrite
  <1>5. pc' \in [Writer -> {"idle", "sent", "wait"}]
    BY DEF BeginWrite
  <1>6. UNCHANGED <<isBusy, ackTimer, g_mcu_ack_count>>
    BY DEF BeginWrite
  <1> HIDE DEF frame
  <1> QED
    BY <1>2, <1>3, <1>4, <1>5, <1>6

LEMMA LinkTypeStep == TypeInv /\ [Next]_vars => LinkType'
  <1> SUFFICES ASSUME TypeInv, [Next]_vars PROVE LinkType'
    OBVIOUS
  <1> USE Constants DEF TypeInv, Writer
  <1>1. CASE LocalGetInfo
    BY <1>1, BeginWriteType DEF LocalGetInfo
  <1>2. CASE SetBusy("mcu") \/ SetBusy("cloud")
    BY <1>2 DEF SetBusy, LinkType
  <1>3. CASE Wait("mcu") \/ Wait("cloud")
    <2>1. PICK t \in Writer : Wait(t)
      BY <1>3
    <2>2. CASE UNCHANGED linkVars
      BY <2>2 DEF linkVars, LinkType
    <2>3. CASE EndWrite(t, Head(queue[t]))
      <3>1. isBusy' = FALSE
        BY <2>3 DEF EndWrite
      <3>2. isBusy' \in BOOLEAN
        BY <3>1
      <3>3. g_mcu_ack_count' \in 0 .. AckTries - 1
        BY <2>3, SMT DEF EndWrite, LinkType
      <3>4. /\ pc' = [pc EXCEPT ![t] = "idle"] /\ Txbuf' \in {Txbuf, NoFrame}
            /\ UNCHANGED <<TxbufInfo, ackTimer, acks>>
        BY <2>3 DEF EndWrite
      <3> QED
        BY <3>2, <3>3, <3>4 DEF LinkType
    <2> QED
      BY <2>1, <2>2, <2>3 DEF Wait
  <1>4. CASE McuTask
    <2>1. CASE UNCHANGED linkVars
      BY <2>1 DEF linkVars, LinkType
    <2>2. CASE BeginWrite("mcu", "ping")
      BY <2>2, BeginWriteType
    <2>3. CASE /\ ackTimer' = TRUE
               /\ UNCHANGED <<pc, isBusy, TxbufInfo, Txbuf, g_mcu_ack_count,
                              acks>>
      BY <2>3 DEF LinkType
    <2> QED
      BY <1>4, <2>1, <2>2, <2>3 DEF McuTask
  <1>5. CASE ReceiveAck
    <2>1. Tail(acks) \in Seq(SentFrame)
      BY <1>5, HeadTailProperties DEF ReceiveAck, LinkType
    <2>2. /\ acks' = Tail(acks) /\ isBusy' \in BOOLEAN
          /\ ackTimer' \in {FALSE, ackTimer}
          /\ UNCHANGED <<pc, TxbufInfo, Txbuf, g_mcu_ack_count>>
      BY <1>5 DEF ReceiveAck
    <2> QED
      BY <2>1, <2>2 DEF LinkType
  <1>6. CASE Timer_MCU_Ack_Handler
    <2>1. Txbuf # NoFrame => Append(acks, Txbuf) \in Seq(SentFrame)
      BY AppendProperties DEF LinkType
    <2>2. acks' \in Seq(SentFrame)
      BY <1>6, <2>1 DEF Timer_MCU_Ack_Handler, Sent, LinkType
    <2>3. g_mcu_ack_count' \in 0 .. AckTries - 1
      <3>1. g_mcu_ack_count' = IF g_mcu_ack_count + 1 >= AckTries THEN 0
                               ELSE g_mcu_ack_count + 1
        BY <1>6 DEF Timer_MCU_Ack_Handler, LimitReached
      <3> QED
        BY <3>1, SMT DEF LinkType
    <2>4. /\ ackTimer' \in {FALSE, ackTimer}
          /\ UNCHANGED <<pc, isBusy, TxbufInfo, Txbuf>>
      BY <1>6 DEF Timer_MCU_Ack_Handler
    <2> QED
      BY <2>2, <2>3, <2>4 DEF LinkType
  <1>7. CASE Cloud_M2MDataHandle
    <2>1. CASE UNCHANGED linkVars
      BY <2>1 DEF linkVars, LinkType
    <2>2. CASE BeginWrite("cloud", "ctrl")
      BY <2>2, BeginWriteType
    <2> QED
      BY <1>7, <2>1, <2>2 DEF Cloud_M2MDataHandle, Dispatch
  <1>8. CASE Boot
    <2>1. isBusy' = FALSE /\ ackTimer' = FALSE
      BY <1>8 DEF Boot, BootState
    <2>2. isBusy' \in BOOLEAN /\ ackTimer' \in BOOLEAN
      BY <2>1
    <2>3. g_mcu_ack_count' = 0
      BY <1>8 DEF Boot, BootState
    <2>4. g_mcu_ack_count' \in 0 .. AckTries - 1
      BY <2>3, SMT
    <2>5. /\ pc' \in [Writer -> {"idle", "sent", "wait"}]
          /\ TxbufInfo' = NoFrame /\ Txbuf' = NoFrame /\ acks' \in Seq(SentFrame)
      BY <1>8, EmptySeq DEF Boot, BootState
    <2> QED
      BY <2>2, <2>4, <2>5 DEF LinkType
  <1>9. CASE UNCHANGED linkVars
    BY <1>9 DEF linkVars, LinkType
  <1> QED
    BY <1>1, <1>2, <1>3, <1>4, <1>5, <1>6, <1>7, <1>8, <1>9, LinkFrame

\* A timer that is started keeps its count, which is below the limit.
LEMMA TimerOn ==
    /\ NoTimer \in TimerRecord
    /\ \A timer \in TimerRecord : [timer EXCEPT !.on = TRUE] \in TimerRecord
  <1>1. 0 \in 0 .. ConnectTries - 1
    BY Constants, SMT
  <1> QED
    BY <1>1 DEF NoTimer, TimerRecord

\* The effects of Cloud_ConfigDataHandle, one disjunct each.
LEMMA ConfigEffect ==
    ASSUME TypeInv, Cloud_ConfigDataHandle
    PROVE  /\ ConfigType' /\ LoginType' /\ TimerType' /\ RxType'
           /\ \/ queue' = Taken("cloud")
              \/ queue' = Posted(Taken("cloud"), "cloud", "CLOUD_CONFIG")
  <1> USE Constants DEF TypeInv
  <1> DEFINE Q == \/ queue' = Taken("cloud")
                  \/ queue' = Posted(Taken("cloud"), "cloud", "CLOUD_CONFIG")
             S == CloudStatus' \in {"init", "getDid", "provision", "ok"}
             H == http' \in TimerRecord
  <1>1. ASSUME NEW reply \in Reply, NEW next \in {"getDid", "provision"},
               HttpRequest(reply, next)
        PROVE  Q /\ S /\ H /\ RxType'
    <2>1. Q /\ S
      BY <1>1 DEF HttpRequest
    <2>2. H
      <3>1. http' \in {NoTimer, [http EXCEPT !.on = TRUE]}
        BY <1>1 DEF HttpRequest
      <3> QED
        BY <3>1, TimerOn DEF TimerType
    <2>3. RxType'
      BY <1>1 DEF HttpRequest, RxType, Reply, OtherReply, Blank
    <2> QED
      BY <2>1, <2>2, <2>3
  <1>2. ASSUME HttpFailed
        PROVE  Q /\ S /\ H /\ RxType'
    BY <1>2, TimerOn DEF HttpFailed, TimerType, RxType
  <1>3. RegisterReply \in Reply /\ ProvisionReply \in Reply
    BY DEF RegisterReply, ProvisionReply, Reply, OtherReply, Blank, ConfigType,
       Identity
  <1>4. UNCHANGED <<known, gprs, mqtt, m2m_result, status>>
    BY DEF Cloud_ConfigDataHandle
  <1>5. CASE CloudStatus = "init" /\ ConfigInit
    <2>1. Q /\ S /\ H /\ RxType'
      BY <1>1, <1>3, <1>5 DEF ConfigInit, Provision, Register
    <2>2. gc' = gc /\ flash' \in {flash, gc'} /\ UNCHANGED <<socket, mqttstatus>>
      BY <1>5 DEF ConfigInit, Saved
    <2> QED
      BY <1>4, <2>1, <2>2 DEF ConfigType, LoginType, TimerType
  <1>6. CASE CloudStatus = "getDid" /\ ConfigGetDid
    <2>1. Q /\ S /\ H /\ RxType'
      BY <1>1, <1>2, <1>3, <1>6 DEF ConfigGetDid, Provision
    <2>2. /\ gc' = [gc EXCEPT !.did = Cloud_Rxbuf.did]
          /\ flash' \in {flash, gc'} /\ UNCHANGED <<socket, mqttstatus>>
      BY <1>6 DEF ConfigGetDid, Saved
    <2>3. gc' \in Identity
      BY <2>2 DEF ConfigType, Identity, RxType, Reply
    <2> QED
      BY <1>4, <2>1, <2>2, <2>3 DEF ConfigType, LoginType, TimerType
  <1>7. CASE CloudStatus = "provision" /\ ConfigProvision
    <2>1. CASE ReplyHasHost
      <3>1. /\ CloudStatus' = "ok" /\ http' = NoTimer /\ mqttstatus' = "start"
            /\ socket' \in {socket, "resolving"} /\ gc' = gc /\ flash' = gc'
            /\ queue' = Taken("cloud") /\ Cloud_Rxbuf' = Cloud_Rxbuf
            /\ mqttstatus' \in LoginStatus
        BY <1>7, <2>1 DEF ConfigProvision, LoginInit, Saved, LoginStatus
      <3>2. H
        BY <3>1, TimerOn
      <3> QED
        BY <1>4, <3>1, <3>2 DEF ConfigType, LoginType, TimerType, RxType
    <2>2. CASE ~ReplyHasHost
      <3>1. Q /\ S /\ H /\ RxType' /\ UNCHANGED <<gc, flash, socket, mqttstatus>>
        BY <1>2, <1>7, <2>2 DEF ConfigProvision
      <3> QED
        BY <1>4, <3>1 DEF ConfigType, LoginType, TimerType
    <2> QED
      BY <2>1, <2>2
  <1>8. CASE /\ queue' = Taken("cloud")
             /\ UNCHANGED <<gc, flash, CloudStatus, http, socket, mqttstatus,
                            Cloud_Rxbuf>>
    BY <1>4, <1>8 DEF ConfigType, LoginType, TimerType, RxType
  <1> QED
    BY <1>5, <1>6, <1>7, <1>8 DEF Cloud_ConfigDataHandle, ConfigLost

LEMMA ConfigTypeStep == TypeInv /\ [Next]_vars => ConfigType'
  <1> SUFFICES ASSUME TypeInv, [Next]_vars PROVE ConfigType'
    OBVIOUS
  <1> USE Constants DEF TypeInv
  <1>1. CASE CleanClear
    BY <1>1 DEF CleanClear, CleanConfig, Saved, ConfigType, Identity, Blank
  <1>2. CASE Cloud_ConfigDataHandle
    BY <1>2, ConfigEffect
  <1>3. CASE ReceiveAck
    <2>1. CASE UNCHANGED configVars
      BY <2>1 DEF configVars, ConfigType
    <2>2. CASE ExtractInfo
      <3>1. [did |-> Blank, pass |-> boots] \in Identity
        BY DEF TaskType, Identity, Blank
      <3> QED
        BY <2>1, <2>2, <3>1 DEF ExtractInfo, Saved, ConfigType
    <2> QED
      BY <1>3, <2>1, <2>2 DEF ReceiveAck
  <1>4. CASE Boot
    <2>1. boots' \in 0 .. MaxBoots
      BY <1>4 DEF Boot, TaskType
    <2>2. VarInit(flash, boots') \in Identity
      BY <2>1 DEF VarInit, ConfigType, Identity
    <2> QED
      BY <1>4, <2>2 DEF Boot, Saved, ConfigType
  <1>5. CASE UNCHANGED configVars
    BY <1>5 DEF configVars, ConfigType
  <1> QED
    BY <1>1, <1>2, <1>3, <1>4, <1>5, ConfigFrame

\* The counts of the timers stay below the limit.
LEMMA TimerNext ==
    ASSUME NEW timer \in TimerRecord, ~LimitReached(timer.count + 1, ConnectTries)
    PROVE  [on |-> FALSE, count |-> timer.count + 1] \in TimerRecord
  <1>1. timer.count \in 0 .. ConnectTries - 1
    BY DEF TimerRecord
  <1>2. timer.count + 1 \in 0 .. ConnectTries - 1
    BY <1>1, Constants, SMT DEF LimitReached
  <1> QED
    BY <1>2 DEF TimerRecord

\* The effects of Cloud_M2MDataHandle on the login.
LEMMA LoginEffect ==
    ASSUME TypeInv, Cloud_M2MDataHandle
    PROVE  /\ mqttstatus' \in LoginStatus /\ status' = "idle"
           /\ mqtt' \in TimerRecord
           /\ NetType'
           /\ Cloud_Rxbuf' \in {Cloud_Rxbuf, NoReply}
           /\ \/ queue' = Taken("cloud")
              \/ queue' = Posted(Taken("cloud"), "main", "HEARTBEAT_READY")
           /\ UNCHANGED <<gprs, CloudStatus, socket, m2m_result, http>>
  <1> USE Constants DEF TypeInv
  <1> USE DEF LoginStatus
  <1> DEFINE S == mqttstatus' \in LoginStatus
             M == mqtt' \in TimerRecord
             Q == queue' = Taken("cloud")
  <1>1. UNCHANGED <<gprs, CloudStatus, socket, m2m_result, http>> /\ status' = "idle"
    BY DEF Cloud_M2MDataHandle
  <1>2. UNCHANGED netVars => NetType'
    BY DEF netVars, NetType
  <1>3. LoginFailed => S /\ M /\ Q /\ UNCHANGED netVars
    BY TimerOn DEF LoginFailed, TimerType
  <1>4. CASE status = "start" /\ LoginStart /\ UNCHANGED Cloud_Rxbuf
    <2>1. CASE LoginFailed
      BY <1>1, <1>2, <1>3, <1>4, <2>1
    <2>2. CASE /\ BrokerConnect /\ mqttstatus' = "resLogin" /\ mqtt' = NoTimer
               /\ queue' = Taken("cloud") /\ UNCHANGED mqttMsgsubid
      <3>1. /\ Packet("close", 0) \in Packets /\ Packet("connack", 0) \in Packets
            /\ Packet("connack", -1) \in Packets
        BY SMT DEF Packet, Packets
      <3>2. /\ Append(net, Packet("close", 0)) \in Seq(Packets)
            /\ net \o <<Packet("connack", 0)>> \in Seq(Packets)
            /\ net \o <<Packet("connack", -1), Packet("close", 0)>> \in Seq(Packets)
        BY <3>1, SMT DEF NetType
      <3>3. net' \in Seq(Packets)
        BY <2>2, <3>2 DEF BrokerConnect, Answered, NetType
      <3>4. broker' \in {broker, [broker EXCEPT !.closed = TRUE],
                         [broker EXCEPT !.accepted = TRUE]}
        BY <2>2 DEF BrokerConnect
      <3>5. NetType'
        BY <2>2, <3>3, <3>4 DEF NetType
      <3> QED
        BY <1>1, <1>4, <2>2, <3>5, TimerOn
    <2> QED
      BY <1>4, <2>1, <2>2 DEF LoginStart
  <1>5. CASE LoginAnswer /\ UNCHANGED Cloud_Rxbuf
    <2>1. CASE LoginFailed
      BY <1>1, <1>2, <1>3, <1>5, <2>1
    <2>2. CASE LoginNext
      <3>1. status \in {"resLogin", "topic1", "topic2"}
        BY <2>2 DEF LoginNext, LoginStep
      <3>2. /\ StepAfter(status).topic \in 1 .. 3
            /\ StepAfter(status).next \in {"topic1", "topic2", "topic3"}
        BY <3>1, SMT DEF StepAfter, LoginStep
      <3>3. NetType'
        <4>1. mqttMsgsubid' = mqttMsgsubid + 1 /\ mqttMsgsubid + 1 \in Nat
          BY <2>2 DEF LoginNext, Subscribe, NetType
        <4>2. Packet("suback", mqttMsgsubid + 1) \in Packets
          BY <4>1, SMT DEF Packet, Packets
        <4>3. /\ net \o <<Packet("suback", mqttMsgsubid + 1)>> \in Seq(Packets)
              /\ Append(net, Packet("suback", mqttMsgsubid + 1)) \in Seq(Packets)
          BY <4>2, SMT DEF NetType
        <4> DEFINE n == StepAfter(status).topic
        <4>4. BrokerSubscribe(n, mqttMsgsubid + 1)
          BY <2>2 DEF LoginNext, Subscribe
        <4> HIDE DEF n
        <4>5. net' \in Seq(Packets)
          BY <4>3, <4>4 DEF BrokerSubscribe, Answered, NetType
        <4>6. /\ \/ broker' = broker
                 \/ broker' = [broker EXCEPT !.asked = @ \cup {n},
                                             !.granted = @ \cup {n}]
                 \/ broker' = [broker EXCEPT !.asked = @ \cup {n}]
              /\ broker' # broker => broker.accepted
          BY <4>4 DEF BrokerSubscribe
        <4>7. n \in 1 .. 3
          BY <3>2 DEF n
        <4> QED
          BY <4>1, <4>5, <4>6, <4>7 DEF NetType
      <3> QED
        BY <1>1, <1>5, <2>2, <3>2, <3>3, TimerOn
           DEF LoginNext
    <2>3. CASE LoginDone
      BY <1>1, <1>2, <1>5, <2>3, TimerOn DEF LoginDone
    <2> QED
      BY <1>5, <2>1, <2>2, <2>3 DEF LoginAnswer
  <1>6. CASE Dispatch
    BY <1>1, <1>2, <1>6 DEF Dispatch, LoginType, TimerType
  <1>7. CASE /\ queue' = Taken("cloud")
             /\ UNCHANGED <<mqttstatus, mqtt, netVars, linkVars, overlapped,
                            Cloud_Rxbuf, awaited, stray>>
    BY <1>1, <1>2, <1>7 DEF LoginType, TimerType
  <1> QED
    BY <1>4, <1>5, <1>6, <1>7 DEF Cloud_M2MDataHandle

LEMMA LoginTypeStep == TypeInv /\ [Next]_vars => LoginType' /\ TimerType'
  <1> SUFFICES ASSUME TypeInv, [Next]_vars PROVE LoginType' /\ TimerType'
    OBVIOUS
  <1> USE Constants DEF TypeInv
  <1>1. CASE GprsOkHint \/ Callback_GPRS_Actived \/ SocketConnected
    BY <1>1 DEF GprsOkHint, Callback_GPRS_Actived, SocketConnected, LoginType,
       TimerType
  <1>2. CASE Cloud_ConfigDataHandle
    BY <1>2, ConfigEffect
  <1>3. CASE StatusRead \/ Cloud_M2MDataHandle
    BY <1>3, LoginEffect DEF StatusRead, LoginType, TimerType
  <1>4. CASE NetRead
    <2>1. Head(net) \in Packets
      BY <1>4, HeadTailProperties DEF NetRead, NetType
    <2>2. socket' \in {socket, "none"} /\ m2m_result' \in {0, -1}
      BY <1>4, <2>1 DEF NetRead, ReadPacket, Packets, LoginType
    <2>3. UNCHANGED <<gprs, CloudStatus, http, mqttstatus, mqtt, status>>
      BY <1>4 DEF NetRead
    <2> QED
      BY <2>2, <2>3 DEF LoginType, TimerType
  <1>5. CASE Timer_HTTP_Connect_Handler
    <2>1. http' \in {http, [on |-> FALSE, count |-> http.count + 1]}
      BY <1>5 DEF Timer_HTTP_Connect_Handler
    <2>2. http' # http => ~LimitReached(http.count + 1, ConnectTries)
      BY <1>5 DEF Timer_HTTP_Connect_Handler
    <2>3. http' \in TimerRecord
      BY <2>1, <2>2, TimerNext DEF TimerType
    <2>4. UNCHANGED <<gprs, CloudStatus, socket, mqttstatus, mqtt, m2m_result,
                      status>>
      BY <1>5 DEF Timer_HTTP_Connect_Handler
    <2> QED
      BY <2>3, <2>4 DEF LoginType, TimerType
  <1>6. CASE Timer_MQTT_Connect_Handler
    <2>1. mqtt' \in {mqtt, [on |-> FALSE, count |-> mqtt.count + 1]}
      BY <1>6 DEF Timer_MQTT_Connect_Handler, AttemptsFailed
    <2>2. mqtt' # mqtt => ~LimitReached(mqtt.count + 1, ConnectTries)
      BY <1>6 DEF Timer_MQTT_Connect_Handler, AttemptsFailed
    <2>3. mqtt' \in TimerRecord
      BY <2>1, <2>2, TimerNext DEF TimerType
    <2>4. UNCHANGED <<gprs, CloudStatus, http, socket, mqttstatus, m2m_result,
                      status>>
      BY <1>6 DEF Timer_MQTT_Connect_Handler
    <2> QED
      BY <2>3, <2>4 DEF LoginType, TimerType
  <1>7. CASE Timer_Cloud_HeartBeat_Handler
    <2>1. /\ mqttstatus' \in {mqttstatus, "start"}
          /\ UNCHANGED <<gprs, CloudStatus, http, socket, mqtt, m2m_result, status>>
      BY <1>7 DEF Timer_Cloud_HeartBeat_Handler, LoginAnew
    <2> QED
      BY <2>1 DEF LoginType, TimerType, LoginStatus
  <1>8. CASE Boot
    <2>1. http' = NoTimer /\ mqtt' = NoTimer
      BY <1>8 DEF Boot, BootState
    <2>2. LoginType'
      BY <1>8 DEF Boot, BootState, LoginType, LoginStatus
    <2> QED
      BY <2>1, <2>2, TimerOn DEF TimerType
  <1>9. CASE UNCHANGED loginVars
    BY <1>9 DEF loginVars, LoginType, TimerType
  <1> QED
    BY <1>1, <1>2, <1>3, <1>4, <1>5, <1>6, <1>7, <1>8, <1>9, LoginFrame

LEMMA NetTypeStep == TypeInv /\ [Next]_vars => NetType'
  <1> SUFFICES ASSUME TypeInv, [Next]_vars PROVE NetType'
    OBVIOUS
  <1> USE DEF TypeInv
  <1>1. CASE Cloud_M2MDataHandle
    BY <1>1, LoginEffect
  <1>2. CASE CloudPing
    <2>1. Packet("pingresp", 0) \in Packets
      BY SMT DEF Packet, Packets
    <2>2. net \o <<Packet("pingresp", 0)>> \in Seq(Packets)
      BY <2>1, SMT DEF NetType
    <2>3. net' \in Seq(Packets) /\ UNCHANGED <<mqttMsgsubid, broker>>
      BY <1>2, <2>2 DEF CloudPing, Answered, NetType
    <2> QED
      BY <2>3 DEF NetType
  <1>3. CASE NetRead
    <2>1. Head(net) \in Packets /\ Tail(net) \in Seq(Packets)
      BY <1>3, HeadTailProperties DEF NetRead, NetType
    <2>2. /\ net' \in {Tail(net), <<>>} /\ mqttMsgsubid' = mqttMsgsubid
          /\ broker' \in {broker, [broker EXCEPT !.closed = TRUE]}
      BY <1>3, <2>1 DEF NetRead, ReadPacket, Packets
    <2> QED
      BY <2>1, <2>2, EmptySeq DEF NetType
  <1>4. CASE Boot
    <2>1. /\ mqttMsgsubid' = 0 /\ net' = <<>> /\ broker' = NoBroker
      BY <1>4 DEF Boot, BootState
    <2>2. NoBroker \in [accepted : BOOLEAN, asked : SUBSET (1 .. 3),
                        granted : SUBSET (1 .. 3), closed : BOOLEAN]
      BY DEF NoBroker
    <2>3. NoBroker.granted = {}
      BY DEF NoBroker
    <2> QED
      BY <2>1, <2>2, <2>3, EmptySeq DEF NetType
  <1>5. CASE ReceiveReport
    <2>1. mqttMsgsubid' \in {mqttMsgsubid, mqttMsgsubid + 0, mqttMsgsubid + 2}
          /\ UNCHANGED <<net, broker>>
      BY <1>5 DEF ReceiveReport, Cloud_SendData, MQTT_SenData
    <2> QED
      BY <2>1 DEF NetType
  <1>6. CASE BrokerPublish
    <2>1. \A r \in {"command", "notice"} : Packet("publish", r) \in Packets
      BY SMT DEF Packet, Packets
    <2>2. net' \in Seq(Packets)
      BY <1>6, <2>1, AppendProperties DEF BrokerPublish, NetType
    <2> QED
      BY <1>6, <2>2 DEF BrokerPublish, NetType
  <1>7. CASE BrokerClose
    <2>1. Packet("close", 0) \in Packets
      BY SMT DEF Packet, Packets
    <2>2. net' \in Seq(Packets)
      BY <1>7, <2>1, AppendProperties DEF BrokerClose, NetType
    <2> QED
      BY <1>7, <2>2 DEF BrokerClose, NetType
  <1>8. CASE UNCHANGED netVars
    BY <1>8 DEF netVars, NetType
  <1> QED
    BY <1>1, <1>2, <1>3, <1>4, <1>5, <1>6, <1>7, <1>8, NetFrame

LEMMA BeatTypeStep == TypeInv /\ [Next]_vars => BeatType'
  <1> SUFFICES ASSUME TypeInv, [Next]_vars PROVE BeatType'
    OBVIOUS
  <1> USE Constants DEF TypeInv, BeatType
  <1>1. CASE MainTask
    <2>1. Head(queue["main"]) \in MainMessage
      BY <1>1, HeadTailProperties DEF MainTask, QueueOK
    <2>2. heartbeat' \in {[heartbeat EXCEPT !.on = TRUE],
                          [heartbeat EXCEPT !.mcu = 0],
                          [heartbeat EXCEPT !.cloud = 0]}
      BY <1>1, <2>1 DEF MainTask, MainMessage, HeadIs
    <2>3. 0 \in 0 .. McuBeats - 1 /\ 0 \in 0 .. CloudBeats - 1
      BY SMT
    <2> QED
      BY <2>2, <2>3
  <1>2. CASE Timer_MCU_HeartBeat_Handler
    <2>1. CASE heartbeat' = heartbeat
      BY <2>1
    <2>2. CASE heartbeat' # heartbeat
      <3>1. heartbeat.mcu \in 0 .. McuBeats - 1
        OBVIOUS
      <3>2. ~(heartbeat.mcu + 1 >= McuBeats)
        BY <1>2, <2>2 DEF Timer_MCU_HeartBeat_Handler, LimitReached
      <3>3. heartbeat.mcu + 1 \in 0 .. McuBeats - 1
        BY <3>1, <3>2, SMT
      <3>4. heartbeat' = [heartbeat EXCEPT !.mcu = heartbeat.mcu + 1]
        BY <1>2, <2>2 DEF Timer_MCU_HeartBeat_Handler
      <3> QED
        BY <3>3, <3>4
    <2> QED
      BY <2>1, <2>2
  <1>3. CASE Timer_Cloud_HeartBeat_Handler
    <2>1. heartbeat.cloud \in 0 .. CloudBeats - 1
      OBVIOUS
    <2>2. CASE LimitReached(heartbeat.cloud + 1, CloudBeats)
      <3>1. heartbeat' = [heartbeat EXCEPT !.cloud = 0]
        BY <1>3, <2>2 DEF Timer_Cloud_HeartBeat_Handler
      <3>2. 0 \in 0 .. CloudBeats - 1
        BY SMT
      <3> QED
        BY <3>1, <3>2
    <2>3. CASE ~LimitReached(heartbeat.cloud + 1, CloudBeats)
      <3>1. heartbeat' = [heartbeat EXCEPT !.cloud = heartbeat.cloud + 1]
        BY <1>3, <2>3 DEF Timer_Cloud_HeartBeat_Handler
      <3>2. heartbeat.cloud + 1 \in 0 .. CloudBeats - 1
        BY <2>1, <2>3, SMT DEF LimitReached
      <3> QED
        BY <3>1, <3>2
    <2> QED
      BY <2>2, <2>3
  <1>4. CASE Boot
    <2>1. heartbeat' = [on |-> FALSE, mcu |-> 0, cloud |-> 0]
      BY <1>4 DEF Boot, BootState
    <2>2. 0 \in 0 .. McuBeats - 1 /\ 0 \in 0 .. CloudBeats - 1
      BY SMT
    <2> QED
      BY <2>1, <2>2
  <1>5. CASE UNCHANGED heartbeat
    BY <1>5
  <1> QED
    BY <1>1, <1>2, <1>3, <1>4, <1>5, BeatFrame

LEMMA RxTypeStep == TypeInv /\ [Next]_vars => RxType'
  <1> SUFFICES ASSUME TypeInv, [Next]_vars PROVE RxType'
    OBVIOUS
  <1> USE DEF TypeInv, RxType
  <1>1. NoReply \in Reply /\ OtherReply \in Reply
    BY Constants, SMT DEF NoReply, OtherReply, Reply, Blank
  <1>2. CASE Wait("cloud") \/ ReceiveReset
    BY <1>1, <1>2 DEF Wait, EndWrite, ReceiveReset, Disable
  <1>3. CASE Cloud_ConfigDataHandle
    BY <1>3, ConfigEffect
  <1>4. CASE Cloud_M2MDataHandle
    BY <1>1, <1>4, LoginEffect
  <1>5. CASE NetRead
    <2>1. Head(net) \in Packets
      BY <1>5, HeadTailProperties DEF NetRead, NetType
    <2>2. CASE Head(net).type = "publish"
      <3>1. /\ Cloud_Rxbuf' = [kind |-> Head(net).result, did |-> Blank]
            /\ Head(net).result \in {"command", "notice"}
        BY <1>5, <2>1, <2>2 DEF NetRead, ReadPacket, Packets
      <3>2. Blank \in 0 .. MaxBoots
        BY Constants, SMT DEF Blank
      <3> QED
        BY <3>1, <3>2 DEF Reply
    <2>3. CASE Head(net).type # "publish"
      <3>1. Cloud_Rxbuf' = Cloud_Rxbuf
        BY <1>5, <2>1, <2>3 DEF NetRead, ReadPacket, Packets
      <3> QED
        BY <3>1
    <2> QED
      BY <2>2, <2>3
  <1>6. CASE Boot
    BY <1>1, <1>6 DEF Boot, BootState
  <1>7. CASE UNCHANGED Cloud_Rxbuf
    BY <1>7
  <1> QED
    BY <1>2, <1>3, <1>4, <1>5, <1>6, <1>7, RxFrame

LEMMA QueueStep == TypeInv /\ [Next]_vars => QueueOK(queue)'
  <1> SUFFICES ASSUME TypeInv, [Next]_vars PROVE QueueOK(queue')
    BY DEF QueueOK
  <1> USE DEF TypeInv, Outcome
  <1>1. \A t \in Task : queue[t] # <<>> => QueueOK(Taken(t))
    BY TakenOK
  <1>2. \A q, m : QueueOK(q) /\ m \in Message
            => QueueOK(Posted(q, "mcu", m)) /\ QueueOK(Posted(q, "cloud", m))
    BY PostedOK DEF Task
  <1>3. \A q, m : QueueOK(q) /\ m \in MainMessage => QueueOK(Posted(q, "main", m))
    BY PostedOK DEF Task, MainMessage, Message
  <1>4. "mcu" \in Task /\ "cloud" \in Task /\ "main" \in Task
    BY DEF Task
  <1>5. CASE UNCHANGED queue
    BY <1>5
  <1>6. CASE SetBusy("mcu") \/ SetBusy("cloud")
    BY <1>2, <1>6 DEF SetBusy, Message
  <1>7. CASE Wait("mcu") \/ Wait("cloud")
    BY <1>1, <1>2, <1>4, <1>7 DEF Wait, AfterInfo, Message
  <1>8. CASE McuTask \/ GprsOkHint \/ CloudPing \/ CloudOther \/ MainTask
    BY <1>1, <1>4, <1>8 DEF McuTask, GprsOkHint, CloudPing, CloudOther, MainTask,
       HeadIs
  <1>9. CASE Cloud_ConfigDataHandle
    BY <1>1, <1>2, <1>4, <1>9, ConfigEffect
       DEF Cloud_ConfigDataHandle, HeadIs, Message
  <1>10. CASE Cloud_M2MDataHandle
    BY <1>1, <1>3, <1>4, <1>10, LoginEffect
       DEF Cloud_M2MDataHandle, HeadIs, MainMessage
  <1>11. CASE ReceiveAck
    <2>1. Head(acks) \in SentFrame
      BY <1>11, HeadTailProperties DEF ReceiveAck, LinkType
    <2>2. Head(acks).cmd \in {"info", "ping", "ctrl"}
      BY <2>1 DEF SentFrame
    <2> DEFINE told == Posted(queue, "mcu", "MCU_ACK_SUCCESS")
    <2>3. QueueOK(told)
      BY <1>2 DEF Message
    <2>4. queue' \in {queue, told, Posted(told, "main", "MCU_PING_RSP_OK"),
                      Posted(told, "cloud", "MCU_ACK_SUCCESS")}
      BY <1>11, <2>2 DEF ReceiveAck, AckPosts
    <2>5. QueueOK(Posted(told, "main", "MCU_PING_RSP_OK"))
      BY <1>3, <2>3 DEF MainMessage
    <2>6. QueueOK(Posted(told, "cloud", "MCU_ACK_SUCCESS"))
      BY <1>2, <2>3 DEF Message
    <2> QED
      BY <2>3, <2>4, <2>5, <2>6
  <1>12. CASE Callback_GPRS_Actived \/ SocketConnected
    BY <1>2, <1>12 DEF Callback_GPRS_Actived, SocketConnected, Message
  <1>13. CASE NetRead
    <2>1. Head(net) \in Packets
      BY <1>13, HeadTailProperties DEF NetRead, NetType
    <2>2. queue' \in {queue, Posted(queue, "cloud", "MQTT_READY"),
                      Posted(queue, "main", "CLOUD_PING_RSP_OK")}
      BY <1>13, <2>1 DEF NetRead, ReadPacket, Packets
    <2> QED
      BY <1>2, <1>3, <2>2 DEF Message, MainMessage
  <1>14. CASE Timer_MCU_Ack_Handler
    <2>1. queue' \in {queue, Posted(queue, "cloud", "MCU_ACK_TIMEOUT"),
                      Posted(queue, "mcu", "MCU_ACK_TIMEOUT")}
      BY <1>14 DEF Timer_MCU_Ack_Handler
    <2> QED
      BY <1>2, <2>1 DEF Message
  <1>15. CASE \/ Timer_HTTP_Connect_Handler \/ Timer_MQTT_Connect_Handler
              \/ Timer_MCU_HeartBeat_Handler \/ Timer_Cloud_HeartBeat_Handler
    BY <1>2, <1>15 DEF Timer_HTTP_Connect_Handler, Timer_MQTT_Connect_Handler,
       Timer_MCU_HeartBeat_Handler, Timer_Cloud_HeartBeat_Handler, Message
  <1>16. CASE ReceiveReset
    BY <1>2, <1>16 DEF ReceiveReset, Disable, Message
  <1>17. CASE Boot
    <2>1. <<>> \in Seq(Message) /\ <<>> \in Seq(MainMessage) /\ Len(<<>>) = 0
      BY EmptySeq
    <2>2. queue' = [t \in Task |-> <<>>]
      BY <1>17 DEF Boot, BootState
    <2> QED
      BY <1>4, <2>1, <2>2, Constants DEF QueueOK
  <1>18. CASE \/ LocalGetInfo \/ StatusRead \/ CleanClear \/ CleanReset \/ ReceiveReport
              \/ BrokerPublish \/ BrokerClose \/ UNCHANGED vars
    BY <1>5, <1>18 DEF LocalGetInfo, StatusRead, CleanClear, CleanReset, ReceiveReport,
       BrokerPublish, BrokerClose, vars
  <1> QED
    BY <1>6, <1>7, <1>8, <1>9, <1>10, <1>11, <1>12, <1>13, <1>14, <1>15, <1>16,
       <1>17, <1>18, Steps

LEMMA TypeStep == TypeInv /\ [Next]_vars => TypeInv'
  BY TaskTypeStep, LinkTypeStep, ConfigTypeStep, LoginTypeStep, NetTypeStep,
     BeatTypeStep, RxTypeStep, QueueStep DEF TypeInv

\* The counts of the heartbeats and of the failed requests stay below their
\* limits, and a task's queue holds QueueCap messages at most, whatever is
\* lost, refused or late.
THEOREM CloudTypeCorrect == Spec => []TypeOK
  <1>1. TypeInv => TypeOK
    <2> SUFFICES ASSUME TypeInv PROVE TypeOK
      OBVIOUS
    <2> USE DEF TypeInv
    <2>1. SentFrame \cup {NoFrame} \subseteq Frame /\ SentFrame \subseteq Frame
      BY Constants, SMT DEF SentFrame, NoFrame, Frame
    <2>2. acks \in Seq(Frame)
      BY <2>1, SMT DEF LinkType
    <2> QED
      BY <2>1, <2>2 DEF TypeOK, TaskType, QueueOK, LinkType, ConfigType,
         LoginType, TimerType, NetType, BeatType, RxType, Reply
  <1> QED
    BY <1>1, TypeInit, TypeStep, PTL DEF Spec

-----------------------------------------------------------------------------
(* What a queue holds.                                                     *)

Holds(q, m) == \E i \in DOMAIN q : q[i] = m

LEMMA AppendHolds ==
    ASSUME NEW S, NEW q \in Seq(S), NEW m \in S, NEW x
    PROVE  Holds(Append(q, m), x) => Holds(q, x) \/ x = m
  <1>1. /\ Append(q, m) \in Seq(S) /\ Len(Append(q, m)) = Len(q) + 1
        /\ \A i \in 1 .. Len(q) : Append(q, m)[i] = q[i]
        /\ Append(q, m)[Len(q) + 1] = m
    BY AppendProperties
  <1>2. /\ Len(q) \in Nat /\ DOMAIN q = 1 .. Len(q)
        /\ DOMAIN Append(q, m) = 1 .. Len(q) + 1
    BY <1>1, LenProperties
  <1>3. \A i \in 1 .. Len(q) + 1 : i \in 1 .. Len(q) \/ i = Len(q) + 1
    BY <1>2, SMT
  <1> QED
    BY <1>1, <1>2, <1>3 DEF Holds

LEMMA TailHolds ==
    ASSUME NEW S, NEW q \in Seq(S), q # <<>>, NEW x
    PROVE  /\ Holds(Tail(q), x) => Holds(q, x)
           /\ Holds(q, Head(q))
  <1>1. /\ Head(q) = q[1] /\ Len(q) \in Nat /\ Len(q) > 0
        /\ DOMAIN q = 1 .. Len(q) /\ DOMAIN Tail(q) = 1 .. Len(q) - 1
        /\ \A i \in 1 .. Len(q) - 1 : Tail(q)[i] = q[i + 1]
    BY SMT
  <1>2. 1 \in DOMAIN q /\ \A i \in DOMAIN Tail(q) : i + 1 \in DOMAIN q
    BY <1>1, SMT
  <1> QED
    BY <1>1, <1>2 DEF Holds

\* A message is in a queue after another was posted only if it was there or
\* is the other.
LEMMA PostedHolds ==
    ASSUME NEW q, QueueOK(q), NEW t \in Task, NEW m \in Message, NEW u \in Task
    PROVE  /\ u # t => Posted(q, t, m)[u] = q[u]
           /\ \A x : Holds(Posted(q, t, m)[u], x)
                        => Holds(q[u], x) \/ (u = t /\ x = m)
  <1>1. q \in [Task -> Seq(Message)] /\ q[t] \in Seq(Message)
    BY DEF QueueOK
  <1>2. \A x : Holds(Append(q[t], m), x) => Holds(q[t], x) \/ x = m
    BY <1>1, AppendHolds
  <1>3. Posted(q, t, m) \in {q, [q EXCEPT ![t] = Append(q[t], m)]}
    BY DEF Posted
  <1> QED
    BY <1>1, <1>2, <1>3

LEMMA TakenHolds ==
    ASSUME QueueOK(queue), NEW t \in Task, queue[t] # <<>>, NEW u \in Task
    PROVE  /\ u # t => Taken(t)[u] = queue[u]
           /\ Taken(t)[t] = Tail(queue[t])
           /\ Holds(queue[t], Head(queue[t]))
           /\ \A x : Holds(Taken(t)[u], x) => Holds(queue[u], x)
  <1>1. queue \in [Task -> Seq(Message)] /\ queue[t] \in Seq(Message)
    BY DEF QueueOK
  <1>2. /\ \A x : Holds(Tail(queue[t]), x) => Holds(queue[t], x)
        /\ Holds(queue[t], Head(queue[t]))
    BY <1>1, TailHolds
  <1> QED
    BY <1>1, <1>2 DEF Taken

-----------------------------------------------------------------------------
(* Until the MCU's profile is known nothing else begins.                   *)

InfoFrame == [cmd : {"info"}, sn : 1 .. SnMod]

Quiet ==
    /\ queue["cloud"] = <<>> /\ queue["main"] = <<>> /\ pc["cloud"] = "idle"
    /\ gprs = "off" /\ CloudStatus = "init" /\ socket = "none"
    /\ http.on = FALSE /\ mqtt.on = FALSE /\ mqttstatus = "none"
    /\ net = <<>> /\ broker.accepted = FALSE /\ heartbeat.on = FALSE

InfoInv ==
    /\ phase = "info" =>
        /\ Quiet
        /\ Txbuf \in InfoFrame \cup {NoFrame} /\ acks \in Seq(InfoFrame)
        /\ Holds(queue["mcu"], "MCU_ACK_SUCCESS") => known = TRUE
    /\ phase = "up" => known = TRUE

\* The steps that are possible while the profile is read.
LEMMA InfoSteps ==
    ASSUME TypeInv, InfoInv, phase = "info", [Next]_vars
    PROVE  \/ LocalGetInfo \/ SetBusy("mcu") \/ Wait("mcu") \/ ReceiveAck
           \/ Timer_MCU_Ack_Handler \/ ReceiveReport \/ ReceiveReset
           \/ UNCHANGED vars
  <1> USE DEF InfoInv, Quiet, InLoop, HeadIs
  <1>1. ~McuTask /\ ~CleanClear /\ ~CleanReset /\ ~Boot
    BY DEF McuTask, CleanClear, CleanReset, Boot
  <1>2. ~SetBusy("cloud") /\ ~Wait("cloud")
    BY DEF SetBusy, Wait
  <1>3. ~GprsOkHint /\ ~Cloud_ConfigDataHandle /\ ~StatusRead
        /\ ~Cloud_M2MDataHandle /\ ~CloudPing /\ ~CloudOther /\ ~MainTask
    BY DEF GprsOkHint, Cloud_ConfigDataHandle, StatusRead, Cloud_M2MDataHandle,
       CloudPing, CloudOther, MainTask
  <1>4. ~Callback_GPRS_Actived /\ ~SocketConnected /\ ~NetRead
    BY DEF Callback_GPRS_Actived, SocketConnected, NetRead
  <1>5. ~Timer_HTTP_Connect_Handler /\ ~Timer_MQTT_Connect_Handler
    BY DEF Timer_HTTP_Connect_Handler, Timer_MQTT_Connect_Handler
  <1>6. ~Timer_MCU_HeartBeat_Handler /\ ~Timer_Cloud_HeartBeat_Handler
    BY DEF Timer_MCU_HeartBeat_Handler, Timer_Cloud_HeartBeat_Handler
  <1>7. ~BrokerPublish /\ ~BrokerClose
    BY DEF BrokerPublish, BrokerClose, Listening
  <1> QED
    BY <1>1, <1>2, <1>3, <1>4, <1>5, <1>6, <1>7, Steps

LEMMA InfoInit == Init => InfoInv
  <1> SUFFICES ASSUME Init PROVE InfoInv
    OBVIOUS
  <1>1. ~Holds(queue["mcu"], "MCU_ACK_SUCCESS")
    BY DEF Init, Holds, Task
  <1>2. Quiet
    BY DEF Init, Quiet, Task, Writer, NoTimer, NoBroker
  <1>3. phase = "info" /\ Txbuf = NoFrame /\ acks = <<>>
    BY DEF Init
  <1> QED
    BY <1>1, <1>2, <1>3, EmptySeq DEF InfoInv

\* The steps while the profile is read.
LEMMA InfoWhile ==
    ASSUME TypeInv, InfoInv, phase = "info", [Next]_vars
    PROVE  InfoInv'
  <1> USE DEF TypeInv
  <1> DEFINE F == Txbuf' \in InfoFrame \cup {NoFrame} /\ acks' \in Seq(InfoFrame)
             K == Holds(queue'["mcu"], "MCU_ACK_SUCCESS") => known' = TRUE
  <1>1. /\ Quiet /\ Txbuf \in InfoFrame \cup {NoFrame} /\ acks \in Seq(InfoFrame)
        /\ Holds(queue["mcu"], "MCU_ACK_SUCCESS") => known = TRUE
    BY DEF InfoInv
  <1>2. "mcu" \in Task /\ "cloud" \in Task /\ "main" \in Task
    BY DEF Task
  <1>3. ASSUME phase' = "info", Quiet', F, K PROVE InfoInv'
    BY <1>3 DEF InfoInv
  <1>4. CASE LocalGetInfo
    <2>1. BeginWrite("mcu", "info")
      BY <1>4 DEF LocalGetInfo
    <2>2. LinkType'
      BY <2>1, BeginWriteType DEF Writer
    <2>3. [cmd |-> "info", sn |-> NewSN] \in InfoFrame
      <3>1. TxbufInfo' = [cmd |-> "info", sn |-> NewSN]
        BY <2>1 DEF BeginWrite
      <3>2. TxbufInfo' \in SentFrame
        BY <2>2, <3>1 DEF LinkType, NoFrame
      <3> QED
        BY <3>1, <3>2 DEF SentFrame, InfoFrame
    <2>4. F
      <3>1. Append(acks, [cmd |-> "info", sn |-> NewSN]) \in Seq(InfoFrame)
        BY <1>1, <2>3, AppendProperties
      <3> QED
        BY <1>1, <2>1, <2>3, <3>1 DEF BeginWrite, Sent
    <2>5. phase' = "info" /\ queue' = queue /\ known' = known
      BY <1>4 DEF LocalGetInfo, taskVars, configVars
    <2>6. Quiet'
      <3>1. pc'["cloud"] = "idle"
        BY <1>1, <2>1 DEF BeginWrite, Quiet, LinkType, Writer
      <3>2. UNCHANGED <<queue, loginVars, netVars, heartbeat>>
        BY <1>4 DEF LocalGetInfo
      <3> QED
        BY <1>1, <3>1, <3>2 DEF Quiet, loginVars, netVars
    <2> QED
      BY <1>1, <1>3, <2>4, <2>5, <2>6
  <1>5. CASE SetBusy("mcu")
    <2>1. /\ phase' = "info" /\ queue' = queue /\ known' = known
          /\ Txbuf' = Txbuf /\ acks' = acks
      BY <1>5 DEF SetBusy, taskVars, configVars
    <2>2. Quiet'
      <3>1. pc'["cloud"] = "idle"
        BY <1>1, <1>5 DEF SetBusy, Quiet, LinkType, Writer
      <3>2. UNCHANGED <<queue, loginVars, netVars, heartbeat>>
        BY <1>5 DEF SetBusy
      <3> QED
        BY <1>1, <3>1, <3>2 DEF Quiet, loginVars, netVars
    <2> QED
      BY <1>1, <1>3, <2>1, <2>2
  <1>6. CASE Wait("mcu")
    <2>1. queue["mcu"] # <<>> /\ UNCHANGED <<configVars, loginVars, netVars, heartbeat>>
      BY <1>6 DEF Wait
    <2>2. /\ Taken("mcu")["cloud"] = queue["cloud"]
          /\ Taken("mcu")["main"] = queue["main"]
          /\ Holds(queue["mcu"], Head(queue["mcu"]))
          /\ \A x : Holds(Taken("mcu")["mcu"], x) => Holds(queue["mcu"], x)
      BY <1>2, <2>1, TakenHolds
    <2>3. CASE Head(queue["mcu"]) = "MCU_ACK_SUCCESS"
      <3>1. phase' = "up"
        BY <1>6, <2>3 DEF Wait, Outcome, AfterInfo
      <3>2. known' = TRUE
        BY <1>1, <2>1, <2>2, <2>3 DEF configVars
      <3> QED
        BY <3>1, <3>2 DEF InfoInv
    <2>4. CASE Head(queue["mcu"]) # "MCU_ACK_SUCCESS"
      <3>1. queue' = Taken("mcu") /\ phase' \in {"info", "reset"}
        BY <1>6, <2>4 DEF Wait, AfterInfo, DevReset, linkVars
      <3>2. Txbuf' \in {Txbuf, NoFrame} /\ acks' = acks
        BY <1>6 DEF Wait, EndWrite, linkVars
      <3>3. pc'["cloud"] = "idle"
        BY <1>1, <1>6 DEF Wait, EndWrite, linkVars, Quiet, LinkType, Writer
      <3>4. Quiet'
        BY <1>1, <2>1, <2>2, <3>1, <3>3 DEF Quiet, loginVars, netVars
      <3>5. F /\ K
        BY <1>1, <2>1, <2>2, <3>1, <3>2 DEF configVars
      <3>6. CASE phase' = "info"
        BY <1>3, <3>4, <3>5, <3>6
      <3>7. CASE phase' = "reset"
        BY <3>7 DEF InfoInv
      <3> QED
        BY <3>1, <3>6, <3>7
    <2> QED
      BY <2>3, <2>4
  <1>7. CASE ReceiveAck
    <2>1. /\ acks # <<>> /\ acks' = Tail(acks) /\ Txbuf' = Txbuf /\ phase' = phase
          /\ pc' = pc /\ UNCHANGED <<loginVars, netVars, heartbeat>>
      BY <1>7 DEF ReceiveAck, taskVars
    <2>2. Head(acks) \in InfoFrame /\ Tail(acks) \in Seq(InfoFrame)
      BY <1>1, <2>1, HeadTailProperties
    <2>3. Head(acks).cmd = "info"
      BY <2>2 DEF InfoFrame
    <2>4. F
      BY <1>1, <2>1, <2>2
    <2>5. CASE ~CheckAck(Head(acks))
      <3>1. queue' = queue /\ known' = known
        BY <1>7, <2>3, <2>5 DEF ReceiveAck, AckCounts, configVars
      <3>2. Quiet'
        BY <1>1, <2>1, <3>1 DEF Quiet, loginVars, netVars
      <3> QED
        BY <1>1, <1>3, <2>1, <2>4, <3>1, <3>2
    <2>6. CASE CheckAck(Head(acks))
      <3>1. /\ queue' = Posted(queue, "mcu", "MCU_ACK_SUCCESS")
            /\ ExtractInfo
        BY <1>7, <2>3, <2>6 DEF ReceiveAck, AckCounts, AckPosts
      <3>2. known' = TRUE
        BY <3>1 DEF ExtractInfo, configVars, ConfigType
      <3>3. queue'["cloud"] = queue["cloud"] /\ queue'["main"] = queue["main"]
        BY <1>2, <3>1, PostedHolds DEF Message, Outcome
      <3>4. Quiet'
        BY <1>1, <2>1, <3>3 DEF Quiet, loginVars, netVars
      <3> QED
        BY <1>3, <2>1, <2>4, <3>2, <3>4
    <2> QED
      BY <2>5, <2>6
  <1>8. CASE Timer_MCU_Ack_Handler
    <2>1. /\ Txbuf' = Txbuf /\ phase' = phase /\ pc' = pc /\ known' = known
          /\ UNCHANGED <<loginVars, netVars, heartbeat>>
      BY <1>8 DEF Timer_MCU_Ack_Handler, taskVars, configVars
    <2>2. Txbuf # NoFrame => Append(acks, Txbuf) \in Seq(InfoFrame)
      BY <1>1, AppendProperties
    <2>3. F
      BY <1>1, <1>8, <2>1, <2>2 DEF Timer_MCU_Ack_Handler, Sent
    <2>4. queue' \in {queue, Posted(queue, "mcu", "MCU_ACK_TIMEOUT")}
      BY <1>1, <1>8 DEF Timer_MCU_Ack_Handler, Quiet
    <2>5. /\ queue'["cloud"] = queue["cloud"] /\ queue'["main"] = queue["main"]
          /\ Holds(queue'["mcu"], "MCU_ACK_SUCCESS")
                => Holds(queue["mcu"], "MCU_ACK_SUCCESS")
      <3>1. "MCU_ACK_TIMEOUT" \in Message
        BY DEF Message, Outcome
      <3> DEFINE told == Posted(queue, "mcu", "MCU_ACK_TIMEOUT")
      <3>2. /\ told["cloud"] = queue["cloud"] /\ told["main"] = queue["main"]
            /\ Holds(told["mcu"], "MCU_ACK_SUCCESS")
                  => \/ Holds(queue["mcu"], "MCU_ACK_SUCCESS")
                     \/ "MCU_ACK_SUCCESS" = "MCU_ACK_TIMEOUT"
        BY <1>2, <3>1, PostedHolds
      <3> HIDE DEF told
      <3>3. queue' \in {queue, told}
        BY <2>4 DEF told
      <3> QED
        BY <3>2, <3>3
    <2>6. Quiet'
      BY <1>1, <2>1, <2>5 DEF Quiet, loginVars, netVars
    <2> QED
      BY <1>1, <1>3, <2>1, <2>3, <2>5, <2>6
  <1>9. CASE ReceiveReport
    <2>1. UNCHANGED <<taskVars, queue, linkVars, configVars, loginVars, net,
                      broker, heartbeat>>
      BY <1>9 DEF ReceiveReport
    <2> QED
      BY <1>1, <2>1 DEF InfoInv, Quiet, taskVars, linkVars, configVars, loginVars
  <1>10. CASE ReceiveReset
    BY <1>10 DEF ReceiveReset, InfoInv
  <1>11. CASE UNCHANGED vars
    BY <1>1, <1>11 DEF vars, InfoInv, Quiet, taskVars, linkVars, configVars,
       loginVars, netVars
  <1> QED
    BY <1>4, <1>5, <1>6, <1>7, <1>8, <1>9, <1>10, <1>11, InfoSteps

LEMMA InfoStep == TypeInv /\ InfoInv /\ [Next]_vars => InfoInv'
  <1> SUFFICES ASSUME TypeInv, InfoInv, [Next]_vars PROVE InfoInv'
    OBVIOUS
  <1>1. CASE phase = "info"
    BY <1>1, InfoWhile
  <1>2. CASE Boot
    <2>1. Quiet' /\ phase' = "info" /\ Txbuf' = NoFrame /\ acks' = <<>>
      BY <1>2 DEF Boot, BootState, Quiet, Task, Writer, NoTimer, NoBroker
    <2>2. ~Holds(queue'["mcu"], "MCU_ACK_SUCCESS")
      BY <1>2 DEF Boot, BootState, Holds, Task
    <2> QED
      BY <2>1, <2>2, EmptySeq DEF InfoInv
  <1>3. CASE phase # "info" /\ ~Boot
    <2>1. phase' = phase \/ phase' \in {"reset", "cleaning", "cleared"}
      BY <1>3, TaskFrame DEF taskVars, Wait, CleanClear, CleanReset, ReceiveReset,
         DevReset, Timer_HTTP_Connect_Handler, Timer_MQTT_Connect_Handler,
         Timer_MCU_HeartBeat_Handler
    <2>2. known = TRUE => known' = TRUE
      BY <1>3, ConfigFrame DEF configVars, CleanClear, Cloud_ConfigDataHandle,
         ReceiveAck, ExtractInfo
    <2> QED
      BY <1>3, <2>1, <2>2 DEF InfoInv
  <1> QED
    BY <1>1, <1>2, <1>3

-----------------------------------------------------------------------------
(* A DID was registered with the passcode beside it.                       *)

RegisteredWith(did, pass) == did # Blank => did = pass

\* The reply that ends a registration names the passcode it was asked with.
DidInv ==
    crossed = FALSE =>
        /\ RegisteredWith(gc.did, gc.pass) /\ RegisteredWith(flash.did, flash.pass)
        /\ CloudStatus = "getDid" => RegisteredWith(Cloud_Rxbuf.did, gc.pass)

LEMMA DidInit == Init => DidInv
  BY DEF Init, DidInv, RegisteredWith, NoReply

LEMMA ConfigKeepsDid ==
    ASSUME TypeInv, DidInv, Cloud_ConfigDataHandle
    PROVE  DidInv'
  <1> USE DEF RegisteredWith
  <1>1. SUFFICES ASSUME crossed = FALSE
                 PROVE  /\ RegisteredWith(gc'.did, gc'.pass)
                        /\ RegisteredWith(flash'.did, flash'.pass)
                        /\ CloudStatus' = "getDid"
                              => RegisteredWith(Cloud_Rxbuf'.did, gc'.pass)
    BY DEF DidInv, Cloud_ConfigDataHandle, history
  <1>2. /\ RegisteredWith(gc.did, gc.pass) /\ RegisteredWith(flash.did, flash.pass)
        /\ CloudStatus = "getDid" => RegisteredWith(Cloud_Rxbuf.did, gc.pass)
    BY <1>1 DEF DidInv
  <1>3. CASE CloudStatus = "init" /\ ConfigInit
    <2>1. gc' = gc /\ flash' \in {flash, gc}
      BY <1>3 DEF ConfigInit, Saved
    <2>2. CloudStatus' = "getDid" => Cloud_Rxbuf' \in {RegisterReply, OtherReply}
      BY <1>3 DEF ConfigInit, Provision, Register, HttpRequest
    <2>3. RegisteredWith(RegisterReply.did, gc.pass) /\ RegisteredWith(OtherReply.did, gc.pass)
      BY DEF RegisterReply, OtherReply, Blank
    <2> QED
      BY <1>2, <2>1, <2>2, <2>3
  <1>4. CASE CloudStatus = "getDid" /\ ConfigGetDid
    <2>1. gc' = [gc EXCEPT !.did = Cloud_Rxbuf.did] /\ flash' \in {flash, gc'}
      BY <1>4 DEF ConfigGetDid, Saved
    <2>2. gc'.did = Cloud_Rxbuf.did /\ gc'.pass = gc.pass
      BY <2>1 DEF TypeInv, ConfigType, Identity
    <2>3. CloudStatus' # "getDid"
      BY <1>4 DEF ConfigGetDid, Provision, HttpRequest, HttpFailed
    <2> QED
      BY <1>2, <1>4, <2>1, <2>2, <2>3
  <1>5. CASE CloudStatus = "provision" /\ ConfigProvision
    <2>1. gc' = gc /\ flash' \in {flash, gc}
      BY <1>5 DEF ConfigProvision, Saved
    <2>2. CloudStatus' # "getDid"
      BY <1>5 DEF ConfigProvision, HttpFailed
    <2> QED
      BY <1>2, <2>1, <2>2
  <1>6. CASE UNCHANGED <<gc, flash, CloudStatus, Cloud_Rxbuf>>
    BY <1>2, <1>6
  <1> QED
    BY <1>3, <1>4, <1>5, <1>6 DEF Cloud_ConfigDataHandle, ConfigLost

LEMMA DidStep == TypeInv /\ InfoInv /\ DidInv /\ [Next]_vars => DidInv'
  <1> SUFFICES ASSUME TypeInv, InfoInv, DidInv, [Next]_vars PROVE DidInv'
    OBVIOUS
  <1>1. CASE Cloud_ConfigDataHandle
    BY <1>1, ConfigKeepsDid
  <1>2. CASE CleanClear
    <2>1. /\ gc' = [did |-> Blank, pass |-> Blank] /\ flash' = gc'
          /\ crossed' = (crossed \/ CloudStatus = "getDid")
          /\ CloudStatus' = CloudStatus
      BY <1>2 DEF CleanClear, CleanConfig, Saved, loginVars
    <2>2. crossed' = FALSE => CloudStatus' # "getDid"
      BY <2>1
    <2> QED
      BY <2>1, <2>2 DEF DidInv, RegisteredWith
  <1>3. CASE Boot
    <2>1. /\ gc' = VarInit(flash, boots') /\ flash' = gc' /\ crossed' = crossed
          /\ CloudStatus' = "init"
      BY <1>3 DEF Boot, BootState, Saved
    <2>2. VarInit(flash, boots').did = flash.did
          /\ VarInit(flash, boots').pass = IF flash.pass = Blank THEN boots'
                                           ELSE flash.pass
      BY DEF VarInit
    <2> QED
      BY <2>1, <2>2 DEF DidInv, RegisteredWith
  <1>4. CASE ReceiveAck
    <2>1. UNCHANGED <<CloudStatus, Cloud_Rxbuf, crossed>>
      BY <1>4 DEF ReceiveAck, loginVars, history
    <2>2. CASE UNCHANGED configVars
      BY <2>1, <2>2 DEF DidInv, configVars
    <2>3. CASE ExtractInfo /\ known = FALSE
      <3>1. gc'.did = Blank /\ flash' = gc'
        BY <2>3 DEF ExtractInfo, Saved
      <3>2. phase \in {"info", "up"}
        BY <1>4 DEF ReceiveAck, InGetMessage, InLoop, Up
      <3>3. phase = "info" /\ CloudStatus = "init"
        BY <2>3, <3>2 DEF InfoInv, Quiet
      <3> QED
        BY <2>1, <3>1, <3>3 DEF DidInv, RegisteredWith
    <2> QED
      BY <1>4, <2>2, <2>3 DEF ReceiveAck, ExtractInfo, TypeInv, ConfigType
  <1>5. CASE UNCHANGED configVars /\ ~Boot /\ ~CleanClear /\ ~Cloud_ConfigDataHandle
    <2>1. gc' = gc /\ flash' = flash
      BY <1>5 DEF configVars
    <2>2. CloudStatus' = CloudStatus
      BY <1>5, LoginFrame DEF loginVars, GprsOkHint, StatusRead, Cloud_M2MDataHandle,
         Callback_GPRS_Actived, SocketConnected, NetRead,
         Timer_HTTP_Connect_Handler, Timer_MQTT_Connect_Handler,
         Timer_Cloud_HeartBeat_Handler
    <2>3. Cloud_Rxbuf' = Cloud_Rxbuf \/ Cloud_Rxbuf'.did = Blank
      <3>1. NoReply.did = Blank /\ OtherReply.did = Blank
        BY DEF NoReply, OtherReply
      <3>2. CASE NetRead
        <4>1. Head(net) \in Packets
          BY <3>2, HeadTailProperties DEF NetRead, TypeInv, NetType
        <4>2. CASE Head(net).type = "publish"
          <5>1. Cloud_Rxbuf' = [kind |-> Head(net).result, did |-> Blank]
            BY <3>2, <4>2 DEF NetRead, ReadPacket
          <5> QED
            BY <5>1
        <4>3. CASE Head(net).type # "publish"
          BY <3>2, <4>1, <4>3 DEF NetRead, ReadPacket, Packets
        <4> QED
          BY <4>2, <4>3
      <3>3. CASE ~NetRead
        BY <1>5, <3>1, <3>3, RxFrame, LoginEffect DEF Wait, EndWrite,
           ReceiveReset, Disable
      <3> QED
        BY <3>2, <3>3
    <2>4. crossed' = crossed
      BY <1>5, Steps DEF vars, history, LocalGetInfo, SetBusy, Wait, McuTask,
         CleanReset, GprsOkHint, StatusRead, Cloud_M2MDataHandle, CloudPing,
         CloudOther, MainTask, ReceiveAck, Callback_GPRS_Actived, SocketConnected, NetRead,
         Timer_MCU_Ack_Handler, Timer_HTTP_Connect_Handler,
         Timer_MQTT_Connect_Handler, Timer_MCU_HeartBeat_Handler,
         Timer_Cloud_HeartBeat_Handler, ReceiveReport, ReceiveReset,
         BrokerPublish, BrokerClose
    <2> QED
      BY <2>1, <2>2, <2>3, <2>4 DEF DidInv, RegisteredWith
  <1> QED
    BY <1>1, <1>2, <1>3, <1>4, <1>5, ConfigFrame

\* A DID in memory or in the file was registered with the passcode beside it,
\* through any number of restarts, lost replies and new product keys.
THEOREM CloudDidHasItsPasscode == Spec => []DidHasItsPasscode
  <1>1. TypeInv /\ InfoInv /\ DidInv /\ [Next]_vars
            => TypeInv' /\ InfoInv' /\ DidInv'
    BY TypeStep, InfoStep, DidStep
  <1>2. TypeInv /\ DidInv => DidHasItsPasscode
    BY DEF DidInv, DidHasItsPasscode, RegisteredWith
  <1> QED
    BY <1>1, <1>2, TypeInit, InfoInit, DidInit, PTL DEF Spec

-----------------------------------------------------------------------------
(* The login.                                                              *)

Once(q, m) == \A i, j \in DOMAIN q : q[i] = m /\ q[j] = m => i = j

Accepted == Packet("connack", 0)
Refused == Packet("connack", -1)
Closed == Packet("close", 0)

Hinted == Holds(queue["cloud"], "GPRS_OK_HINT")
Ready == Holds(queue["cloud"], "MQTT_READY")

\* The way to the one connection of a boot.
Opening == \/ phase = "info" \/ Hinted \/ gprs = "activating"
           \/ socket \in {"created", "resolving"}

\* On that way there is no login yet, and one hint that starts it.
OpeningInv ==
    /\ Opening => /\ ~broker.accepted /\ ~Ready /\ ~mqtt.on
                  /\ mqttstatus \in {"none", "start"}
    /\ Hinted => gprs = "off" /\ socket = "none"
    /\ gprs = "activating" => socket = "none"
    /\ Once(queue["cloud"], "GPRS_OK_HINT")

\* Without a connection there are no packets, a failed answer is of one that
\* the broker has ended, and packets acknowledge what was sent.
ConnectionInv ==
    /\ socket # "open" => net = <<>>
    /\ m2m_result = -1 \/ Holds(net, Refused) => broker.closed
    /\ mqttstatus # "none" \/ broker.accepted => CloudStatus = "ok"
    /\ \A i \in DOMAIN net : net[i].type = "suback" => net[i].result <= mqttMsgsubid

\* Until the broker accepts the device, the attempt to log in is in one place:
\* a message, the timer, or the broker's refusal.
TokenInv ==
    ~broker.accepted =>
        /\ Once(queue["cloud"], "MQTT_READY")
        /\ Ready => ~mqtt.on
        /\ Once(net, Refused)
        /\ Holds(net, Refused) => ~Ready /\ ~mqtt.on /\ mqttstatus = "resLogin"
        /\ mqttstatus \in {"none", "start", "resLogin"}
        /\ mqttstatus = "resLogin" => ~mqtt.on /\ (Ready => m2m_result = -1)
        /\ net \in Seq({Refused, Closed})
        /\ broker.asked = {}

LoggedIn == broker.accepted /\ (broker.asked = 1 .. 3 \/ stray)

\* The topics that were asked for in this status.
Level == CASE mqttstatus = "topic1" -> 1
           [] mqttstatus = "topic2" -> 2
           [] mqttstatus = "topic3" -> 3
           [] OTHER -> 0

\* From then on, what was asked for follows the status of the login.
LoggingIn ==
    /\ mqttstatus \in {"start", "resLogin", "topic1", "topic2", "topic3"}
    /\ mqttstatus = "start" => socket # "open"
    /\ m2m_result = -1 => socket = "none"
    /\ 1 .. Level - 1 \subseteq broker.asked
    /\ ~awaited => 1 .. Level \subseteq broker.asked
    /\ \A i \in DOMAIN net : net[i].type = "suback" /\ net[i].result = mqttMsgsubid
                                => Level \in broker.asked
    /\ ~Holds(net, Refused) /\ Once(net, Accepted)
    /\ Holds(net, Accepted) => mqttstatus = "resLogin" /\ awaited

StepsInv ==
    /\ (\/ mqttstatus = "running" \/ heartbeat.on
        \/ Holds(queue["main"], "HEARTBEAT_READY")) => LoggedIn
    /\ broker.accepted /\ ~LoggedIn => LoggingIn

LoginInv ==
    /\ stray \in BOOLEAN /\ awaited \in BOOLEAN
    /\ OpeningInv /\ ConnectionInv /\ TokenInv /\ StepsInv

-----------------------------------------------------------------------------
(* Messages and packets that are there once.                               *)

LEMMA AppendOnce ==
    ASSUME NEW S, NEW q \in Seq(S), NEW m \in S, NEW x, Once(q, x),
           x = m => ~Holds(q, x)
    PROVE  Once(Append(q, m), x)
  <1>1. /\ Append(q, m) \in Seq(S) /\ Len(Append(q, m)) = Len(q) + 1
        /\ \A i \in 1 .. Len(q) : Append(q, m)[i] = q[i]
        /\ Append(q, m)[Len(q) + 1] = m
    BY AppendProperties
  <1>2. /\ Len(q) \in Nat /\ DOMAIN q = 1 .. Len(q)
        /\ DOMAIN Append(q, m) = 1 .. Len(q) + 1
    BY <1>1, LenProperties
  <1>3. \A i \in 1 .. Len(q) + 1 : i \in 1 .. Len(q) \/ i = Len(q) + 1
    BY <1>2, SMT
  <1> QED
    BY <1>1, <1>2, <1>3 DEF Holds, Once

LEMMA TailOnce ==
    ASSUME NEW S, NEW q \in Seq(S), q # <<>>, NEW x, Once(q, x)
    PROVE  /\ Once(Tail(q), x)
           /\ Head(q) = x => ~Holds(Tail(q), x)
  <1>1. /\ Head(q) = q[1] /\ Len(q) \in Nat /\ Len(q) > 0
        /\ DOMAIN q = 1 .. Len(q) /\ DOMAIN Tail(q) = 1 .. Len(q) - 1
        /\ \A i \in 1 .. Len(q) - 1 : Tail(q)[i] = q[i + 1]
    BY SMT
  <1>2. /\ 1 \in DOMAIN q
        /\ \A i \in DOMAIN Tail(q) : i + 1 \in DOMAIN q /\ i + 1 # 1 /\ i \in Int
    BY <1>1, SMT
  <1>3. \A i, j \in DOMAIN Tail(q) : i + 1 = j + 1 => i = j
    BY <1>2, SMT
  <1>4. \A i \in DOMAIN Tail(q) : Tail(q)[i] = q[i + 1]
    BY <1>1
  <1>5. ASSUME NEW i \in DOMAIN Tail(q), NEW j \in DOMAIN Tail(q),
               Tail(q)[i] = x, Tail(q)[j] = x
        PROVE  i = j
    <2>1. q[i + 1] = x /\ q[j + 1] = x /\ i + 1 \in DOMAIN q /\ j + 1 \in DOMAIN q
      BY <1>2, <1>4, <1>5
    <2>2. i + 1 = j + 1
      BY <2>1 DEF Once
    <2> QED
      BY <1>3, <2>2
  <1>6. ASSUME Head(q) = x, NEW i \in DOMAIN Tail(q), Tail(q)[i] = x
        PROVE  FALSE
    <2>1. q[i + 1] = x /\ i + 1 \in DOMAIN q /\ q[1] = x /\ i + 1 # 1
      BY <1>1, <1>2, <1>4, <1>6
    <2> QED
      BY <1>2, <2>1 DEF Once
  <1> QED
    BY <1>5, <1>6 DEF Once, Holds

\* Posting and taking other messages leaves no more of the three that count.
Keeps(q, r) ==
    /\ \A m \in {"MQTT_READY", "GPRS_OK_HINT"} :
          /\ Holds(r["cloud"], m) => Holds(q["cloud"], m)
          /\ Once(q["cloud"], m) => Once(r["cloud"], m)
    /\ Holds(r["main"], "HEARTBEAT_READY") => Holds(q["main"], "HEARTBEAT_READY")

Counted(t, m) == \/ t = "cloud" /\ m \in {"MQTT_READY", "GPRS_OK_HINT"}
                 \/ t = "main" /\ m = "HEARTBEAT_READY"

LEMMA PostedKeeps ==
    ASSUME NEW q, QueueOK(q), NEW t \in Task, NEW m \in Message, ~Counted(t, m)
    PROVE  Keeps(q, Posted(q, t, m))
  <1>1. q \in [Task -> Seq(Message)] /\ q[t] \in Seq(Message)
    BY DEF QueueOK
  <1>2. Posted(q, t, m) \in {q, [q EXCEPT ![t] = Append(q[t], m)]}
    BY DEF Posted
  <1> DEFINE r == [q EXCEPT ![t] = Append(q[t], m)]
  <1>3. \A u \in Task : r[u] = IF u = t THEN Append(q[t], m) ELSE q[u]
    BY <1>1
  <1>4. \A x : x # m => /\ Holds(Append(q[t], m), x) => Holds(q[t], x)
                        /\ Once(q[t], x) => Once(Append(q[t], m), x)
    BY <1>1, AppendHolds, AppendOnce
  <1> HIDE DEF r
  <1>5. Keeps(q, r)
    <2>1. "cloud" \in Task /\ "main" \in Task
      BY DEF Task
    <2>2. r["main"] = q["main"] \/ (t = "main" /\ r["main"] = Append(q[t], m))
      BY <1>3, <2>1
    <2>3. r["cloud"] = q["cloud"] \/ (t = "cloud" /\ r["cloud"] = Append(q[t], m))
      BY <1>3, <2>1
    <2> QED
      BY <1>4, <2>2, <2>3 DEF Keeps, Counted
  <1>6. Keeps(q, q)
    BY DEF Keeps
  <1> QED
    BY <1>2, <1>5, <1>6 DEF r

LEMMA TakenKeeps ==
    ASSUME QueueOK(queue), NEW t \in Task, queue[t] # <<>>
    PROVE  Keeps(queue, Taken(t))
  <1>1. queue \in [Task -> Seq(Message)] /\ queue[t] \in Seq(Message)
    BY DEF QueueOK
  <1>2. \A x : /\ Holds(Tail(queue[t]), x) => Holds(queue[t], x)
               /\ Once(queue[t], x) => Once(Tail(queue[t]), x)
    BY <1>1, TailHolds, TailOnce
  <1>3. \A u \in Task : Taken(t)[u] = IF u = t THEN Tail(queue[t]) ELSE queue[u]
    BY <1>1 DEF Taken
  <1>4. "cloud" \in Task /\ "main" \in Task
    BY DEF Task
  <1>5. Taken(t)["main"] \in {queue["main"], Tail(queue["main"])}
        /\ (Taken(t)["main"] # queue["main"] => t = "main")
    BY <1>3, <1>4
  <1>6. Taken(t)["cloud"] \in {queue["cloud"], Tail(queue["cloud"])}
        /\ (Taken(t)["cloud"] # queue["cloud"] => t = "cloud")
    BY <1>3, <1>4
  <1> QED
    BY <1>2, <1>5, <1>6 DEF Keeps

LEMMA KeepsBoth ==
    ASSUME NEW p, NEW q, NEW r, Keeps(p, q), Keeps(q, r)
    PROVE  Keeps(p, r)
  BY DEF Keeps

\* A login that is done stays so until the module is reset.
LEMMA LoggedInStays ==
    ASSUME TypeInv', LoggedIn, stray => stray', broker'.accepted,
           broker.asked \subseteq broker'.asked
    PROVE  LoggedIn'
  BY DEF TypeInv, NetType, LoggedIn

\* Steps that leave the login alone.
LEMMA Bystander ==
    ASSUME LoginInv, Keeps(queue, queue'), phase' = "info" => phase = "info",
           CloudStatus = "ok" => CloudStatus' = "ok",
           heartbeat'.on => heartbeat.on,
           UNCHANGED <<gprs, socket, mqttstatus, mqtt, m2m_result, netVars,
                       awaited, stray>>
    PROVE  LoginInv'
  <1> USE DEF LoginInv, netVars
  <1>1. /\ Ready' => Ready
        /\ Hinted' => Hinted
        /\ Once(queue["cloud"], "MQTT_READY") => Once(queue'["cloud"], "MQTT_READY")
        /\ Once(queue["cloud"], "GPRS_OK_HINT")
              => Once(queue'["cloud"], "GPRS_OK_HINT")
        /\ Holds(queue'["main"], "HEARTBEAT_READY")
              => Holds(queue["main"], "HEARTBEAT_READY")
    BY DEF Keeps, Ready, Hinted
  <1>2. OpeningInv'
    BY <1>1 DEF OpeningInv, Opening
  <1>3. ConnectionInv'
    BY DEF ConnectionInv
  <1>4. TokenInv'
    BY <1>1 DEF TokenInv
  <1>5. (LoggedIn <=> LoggedIn') /\ (LoggingIn => LoggingIn')
    BY DEF LoggedIn, LoggingIn, Level
  <1>6. StepsInv'
    BY <1>1, <1>5 DEF StepsInv
  <1> QED
    BY <1>2, <1>3, <1>4, <1>6

LEMMA NoLoginYet == Init => LoginInv
  <1> SUFFICES ASSUME Init PROVE LoginInv
    OBVIOUS
  <1>1. \A x : /\ ~Holds(queue["cloud"], x) /\ ~Holds(queue["main"], x)
               /\ Once(queue["cloud"], x)
    BY DEF Init, Holds, Once, Task
  <1>2. \A x : ~Holds(net, x) /\ Once(net, x)
    BY DEF Init, Holds, Once
  <1>3. OpeningInv /\ ConnectionInv /\ TokenInv
    BY <1>1, <1>2, EmptySeq DEF Init, OpeningInv, Hinted, Ready, ConnectionInv,
       TokenInv, NoTimer, NoBroker
  <1>4. StepsInv
    BY <1>1 DEF Init, StepsInv, NoBroker
  <1>5. stray = FALSE /\ awaited = FALSE
    BY DEF Init
  <1> QED
    BY <1>3, <1>4, <1>5 DEF LoginInv

\* The messages that do not count.
LEMMA OtherMessages ==
    ASSUME QueueOK(queue)
    PROVE  /\ Keeps(queue, queue)
           /\ \A t \in Task : queue[t] # <<>> => Keeps(queue, Taken(t))
           /\ \A m \in Message : Keeps(queue, Posted(queue, "mcu", m))
           /\ \A m \in Message \ {"MQTT_READY", "GPRS_OK_HINT"} :
                 Keeps(queue, Posted(queue, "cloud", m))
           /\ Keeps(queue, Posted(queue, "main", "CLOUD_PING_RSP_OK"))
           /\ \A m \in Message \ {"MQTT_READY", "GPRS_OK_HINT"} :
                 queue["cloud"] # <<>>
                    => Keeps(queue, Posted(Taken("cloud"), "cloud", m))
  <1>1. "mcu" \in Task /\ "cloud" \in Task /\ "main" \in Task
    BY DEF Task
  <1>2. Keeps(queue, queue)
    BY DEF Keeps
  <1>3. \A t \in Task : queue[t] # <<>> => Keeps(queue, Taken(t))
    BY TakenKeeps
  <1>4. \A m \in Message : ~Counted("mcu", m)
    BY DEF Counted
  <1>5. \A m \in Message \ {"MQTT_READY", "GPRS_OK_HINT"} : ~Counted("cloud", m)
    BY DEF Counted
  <1>6. ~Counted("main", "CLOUD_PING_RSP_OK") /\ "CLOUD_PING_RSP_OK" \in Message
    BY DEF Counted, Message
  <1>7. ASSUME NEW m \in Message \ {"MQTT_READY", "GPRS_OK_HINT"},
               queue["cloud"] # <<>>
        PROVE  Keeps(queue, Posted(Taken("cloud"), "cloud", m))
    <2>1. QueueOK(Taken("cloud")) /\ Keeps(queue, Taken("cloud"))
      BY <1>1, <1>3, <1>7, TakenOK
    <2>2. Keeps(Taken("cloud"), Posted(Taken("cloud"), "cloud", m))
      BY <1>1, <1>5, <2>1, PostedKeeps
    <2> QED
      BY <2>1, <2>2, KeepsBoth
  <1> QED
    BY <1>1, <1>2, <1>3, <1>4, <1>5, <1>6, <1>7, PostedKeeps

LEMMA LoginUntouched ==
    ASSUME TypeInv, LoginInv,
           \/ LocalGetInfo \/ SetBusy("mcu") \/ SetBusy("cloud") \/ Wait("cloud")
           \/ McuTask \/ CleanClear \/ CleanReset \/ StatusRead \/ CloudOther
           \/ Timer_MCU_Ack_Handler \/ Timer_HTTP_Connect_Handler
           \/ Timer_MCU_HeartBeat_Handler \/ ReceiveReset \/ UNCHANGED vars
    PROVE  LoginInv'
  <1> DEFINE same == UNCHANGED <<gprs, CloudStatus, socket, mqttstatus, mqtt,
                                 m2m_result, netVars, awaited, stray>>
  <1> USE DEF loginVars, taskVars, history
  <1>1. "mcu" \in Task /\ "cloud" \in Task /\ "main" \in Task
    BY DEF Task
  <1>2. QueueOK(queue)
    BY DEF TypeInv
  <1>3. ASSUME same, Keeps(queue, queue'), heartbeat'.on => heartbeat.on,
               phase' = "info" => phase = "info"
        PROVE  LoginInv'
    BY <1>3, Bystander
  <1> HIDE DEF same
  <1>4. CASE LocalGetInfo
    <2>1. same /\ queue' = queue /\ heartbeat' = heartbeat /\ phase' = phase
      BY <1>4 DEF LocalGetInfo, same
    <2> QED
      BY <1>2, <1>3, <2>1, OtherMessages
  <1>5. CASE SetBusy("mcu") \/ SetBusy("cloud")
    <2>1. /\ same /\ heartbeat' = heartbeat /\ phase' = phase
          /\ queue' \in {queue, Posted(queue, "mcu", "MCU_SEND_DATA")}
      BY <1>5 DEF SetBusy, same
    <2> QED
      BY <1>2, <1>3, <2>1, OtherMessages DEF Message
  <1>6. CASE Wait("cloud")
    <2>1. /\ same /\ heartbeat' = heartbeat /\ phase' = phase
          /\ queue["cloud"] # <<>> /\ queue' = Taken("cloud")
      BY <1>6 DEF Wait, same
    <2> QED
      BY <1>1, <1>2, <1>3, <2>1, OtherMessages
  <1>7. CASE McuTask
    <2>1. /\ same /\ heartbeat' = heartbeat /\ phase' = phase
          /\ queue["mcu"] # <<>> /\ queue' = Taken("mcu")
      BY <1>7 DEF McuTask, same
    <2> QED
      BY <1>1, <1>2, <1>3, <2>1, OtherMessages
  <1>8. CASE CleanClear \/ CleanReset
    <2>1. same /\ queue' = queue /\ heartbeat' = heartbeat /\ phase' # "info"
      BY <1>8 DEF CleanClear, CleanReset, DevReset, same
    <2> QED
      BY <1>2, <1>3, <2>1, OtherMessages
  <1>15. CASE StatusRead
    <2>1. same /\ queue' = queue /\ heartbeat' = heartbeat /\ phase' = phase
      BY <1>15 DEF StatusRead, same
    <2> QED
      BY <1>2, <1>3, <2>1, OtherMessages
  <1>9. CASE CloudOther
    <2>1. /\ same /\ heartbeat' = heartbeat /\ phase' = phase
          /\ queue["cloud"] # <<>> /\ queue' = Taken("cloud")
      BY <1>9 DEF CloudOther, same
    <2> QED
      BY <1>1, <1>2, <1>3, <2>1, OtherMessages
  <1>10. CASE Timer_MCU_Ack_Handler
    <2>1. /\ same /\ heartbeat' = heartbeat /\ phase' = phase
          /\ queue' \in {queue, Posted(queue, "mcu", "MCU_ACK_TIMEOUT"),
                         Posted(queue, "cloud", "MCU_ACK_TIMEOUT")}
      BY <1>10 DEF Timer_MCU_Ack_Handler, same
    <2>2. "MCU_ACK_TIMEOUT" \in Message \ {"MQTT_READY", "GPRS_OK_HINT"}
      BY DEF Message, Outcome
    <2> QED
      BY <1>2, <1>3, <2>1, <2>2, OtherMessages
  <1>11. CASE Timer_HTTP_Connect_Handler
    <2>1. /\ same /\ heartbeat' = heartbeat /\ phase' \in {phase, "reset"}
          /\ queue' \in {queue, Posted(queue, "cloud", "CLOUD_CONFIG")}
      BY <1>11 DEF Timer_HTTP_Connect_Handler, DevReset, same
    <2>2. "CLOUD_CONFIG" \in Message \ {"MQTT_READY", "GPRS_OK_HINT"}
      BY DEF Message
    <2> QED
      BY <1>2, <1>3, <2>1, <2>2, OtherMessages
  <1>12. CASE Timer_MCU_HeartBeat_Handler
    <2>1. /\ same /\ heartbeat.on /\ phase' \in {phase, "reset"}
          /\ queue' \in {queue, Posted(queue, "mcu", "PING_REQUEST")}
      BY <1>12 DEF Timer_MCU_HeartBeat_Handler, DevReset, same
    <2> QED
      BY <1>2, <1>3, <2>1, OtherMessages DEF Message
  <1>13. CASE ReceiveReset
    <2>1. /\ same /\ heartbeat' = heartbeat /\ phase' # "info"
          /\ queue' \in {queue, Posted(queue, "cloud", "CLOUD_CONFIG")}
      BY <1>13 DEF ReceiveReset, Disable, same
    <2>2. "CLOUD_CONFIG" \in Message \ {"MQTT_READY", "GPRS_OK_HINT"}
      BY DEF Message
    <2> QED
      BY <1>2, <1>3, <2>1, <2>2, OtherMessages
  <1>14. CASE UNCHANGED vars
    <2>1. same /\ queue' = queue /\ heartbeat' = heartbeat /\ phase' = phase
      BY <1>14 DEF vars, same
    <2> QED
      BY <1>2, <1>3, <2>1, OtherMessages
  <1> QED
    BY <1>4, <1>5, <1>6, <1>7, <1>8, <1>9, <1>10, <1>11, <1>12, <1>13, <1>14,
       <1>15

LEMMA AckKeepsLogin ==
    ASSUME TypeInv, LoginInv, ReceiveAck
    PROVE  LoginInv'
  <1>1. Head(acks).cmd \in {"info", "ping", "ctrl"}
    <2>1. Head(acks) \in SentFrame
      BY HeadTailProperties DEF ReceiveAck, TypeInv, LinkType
    <2> QED
      BY <2>1 DEF SentFrame
  <1> DEFINE told == Posted(queue, "mcu", "MCU_ACK_SUCCESS")
  <1>2. queue' \in {queue, told, Posted(told, "main", "MCU_PING_RSP_OK"),
                    Posted(told, "cloud", "MCU_ACK_SUCCESS")}
    BY <1>1 DEF ReceiveAck, AckPosts
  <1>3. QueueOK(queue)
    BY DEF TypeInv
  <1>4. /\ "MCU_ACK_SUCCESS" \in Message /\ "MCU_PING_RSP_OK" \in Message
        /\ "MCU_PING_RSP_OK" \in MainMessage
        /\ "mcu" \in Task /\ "cloud" \in Task /\ "main" \in Task
    BY DEF Message, MainMessage, Outcome, Task
  <1>5. QueueOK(told) /\ Keeps(queue, told)
    BY <1>3, <1>4, PostedOK, OtherMessages
  <1> HIDE DEF told
  <1>6. ~Counted("main", "MCU_PING_RSP_OK") /\ ~Counted("cloud", "MCU_ACK_SUCCESS")
    BY DEF Counted
  <1>7. Keeps(queue, Posted(told, "main", "MCU_PING_RSP_OK"))
    <2>1. Keeps(told, Posted(told, "main", "MCU_PING_RSP_OK"))
      BY <1>4, <1>5, <1>6, PostedKeeps
    <2> QED
      BY <1>5, <2>1, KeepsBoth
  <1>8. Keeps(queue, Posted(told, "cloud", "MCU_ACK_SUCCESS"))
    <2>1. Keeps(told, Posted(told, "cloud", "MCU_ACK_SUCCESS"))
      BY <1>4, <1>5, <1>6, PostedKeeps
    <2> QED
      BY <1>5, <2>1, KeepsBoth
  <1>9. Keeps(queue, queue')
    BY <1>2, <1>3, <1>5, <1>7, <1>8, OtherMessages
  <1>10. UNCHANGED <<phase, gprs, CloudStatus, socket, mqttstatus, mqtt,
                     m2m_result, netVars, heartbeat, awaited, stray>>
    BY DEF ReceiveAck, taskVars, loginVars, history
  <1> QED
    BY <1>9, <1>10, Bystander

LEMMA MainKeepsLogin ==
    ASSUME TypeInv, LoginInv, MainTask
    PROVE  LoginInv'
  <1>1. /\ queue["main"] # <<>> /\ queue' = Taken("main")
        /\ UNCHANGED <<phase, gprs, CloudStatus, socket, mqttstatus, mqtt,
                       m2m_result, netVars, awaited, stray>>
    BY DEF MainTask, taskVars, loginVars, history
  <1>2. QueueOK(queue) /\ "main" \in Task
    BY DEF TypeInv, Task
  <1>3. Keeps(queue, queue')
    BY <1>1, <1>2, OtherMessages
  <1>4. CASE heartbeat.on
    BY <1>1, <1>3, <1>4, Bystander
  <1>5. CASE ~heartbeat.on /\ Head(queue["main"]) # "HEARTBEAT_READY"
    <2>1. Head(queue["main"]) \in MainMessage
      BY <1>1, <1>2, HeadTailProperties DEF QueueOK
    <2>2. heartbeat' \in {[heartbeat EXCEPT !.mcu = 0],
                          [heartbeat EXCEPT !.cloud = 0]}
      BY <1>5, <2>1 DEF MainTask, MainMessage, HeadIs
    <2>3. heartbeat'.on = heartbeat.on
      BY <2>2 DEF TypeInv, BeatType
    <2> QED
      BY <1>1, <1>3, <1>5, <2>3, Bystander
  <1>6. CASE Head(queue["main"]) = "HEARTBEAT_READY"
    <2>1. Holds(queue["main"], "HEARTBEAT_READY")
      BY <1>1, <1>2, <1>6, TakenHolds
    <2>2. LoggedIn
      BY <2>1 DEF LoginInv, StepsInv
    <2>3. LoggedIn'
      BY <1>1, <2>2 DEF LoggedIn, netVars
    <2>4. StepsInv'
      BY <2>3 DEF StepsInv
    <2>5. /\ OpeningInv' /\ ConnectionInv' /\ TokenInv'
      <3>1. /\ Ready' => Ready
            /\ Hinted' => Hinted
            /\ Once(queue["cloud"], "MQTT_READY")
                  => Once(queue'["cloud"], "MQTT_READY")
            /\ Once(queue["cloud"], "GPRS_OK_HINT")
                  => Once(queue'["cloud"], "GPRS_OK_HINT")
        BY <1>3 DEF Keeps, Ready, Hinted
      <3>2. OpeningInv'
        BY <1>1, <3>1 DEF LoginInv, OpeningInv, Opening, netVars
      <3>3. ConnectionInv'
        BY <1>1 DEF LoginInv, ConnectionInv, netVars
      <3>4. TokenInv'
        BY <1>1, <3>1 DEF LoginInv, TokenInv, netVars
      <3> QED
        BY <3>2, <3>3, <3>4
    <2> QED
      BY <1>1, <2>4, <2>5 DEF LoginInv
  <1> QED
    BY <1>4, <1>5, <1>6

LEMMA BootStartsLogin ==
    ASSUME Boot
    PROVE  LoginInv'
  <1>1. \A x : /\ ~Holds(queue'["cloud"], x) /\ ~Holds(queue'["main"], x)
               /\ Once(queue'["cloud"], x)
    BY DEF Boot, BootState, Holds, Once, Task
  <1>2. \A x : ~Holds(net', x) /\ Once(net', x)
    BY DEF Boot, BootState, Holds, Once
  <1>3. OpeningInv' /\ ConnectionInv' /\ TokenInv'
    BY <1>1, <1>2, EmptySeq DEF Boot, BootState, OpeningInv, Hinted, Ready,
       ConnectionInv, TokenInv, NoTimer, NoBroker
  <1>4. StepsInv'
    BY <1>1 DEF Boot, BootState, StepsInv, NoBroker
  <1>5. stray' = FALSE /\ awaited' = FALSE
    BY DEF Boot, BootState
  <1> QED
    BY <1>3, <1>4, <1>5 DEF LoginInv

\* The profile is read: the hint that starts the login is given.
LEMMA HintStartsLogin ==
    ASSUME TypeInv, InfoInv, LoginInv, Wait("mcu")
    PROVE  LoginInv'
  <1>1. /\ queue["mcu"] # <<>>
        /\ UNCHANGED <<loginVars, netVars, heartbeat, awaited, stray>>
    BY DEF Wait, history
  <1>2. QueueOK(queue) /\ "mcu" \in Task /\ "cloud" \in Task /\ "main" \in Task
    BY DEF TypeInv, Task
  <1>3. QueueOK(Taken("mcu")) /\ Keeps(queue, Taken("mcu"))
        /\ Taken("mcu")["cloud"] = queue["cloud"]
        /\ Taken("mcu")["main"] = queue["main"]
    BY <1>1, <1>2, TakenOK, TakenKeeps, TakenHolds
  <1>4. CASE queue' = Taken("mcu")
    <2>1. phase' = "info" => phase = "info"
      BY DEF Wait, AfterInfo, DevReset
    <2> QED
      BY <1>1, <1>3, <1>4, <2>1, Bystander DEF loginVars
  <1>5. CASE /\ phase = "info" /\ phase' = "up"
             /\ queue' = Posted(Taken("mcu"), "cloud", "GPRS_OK_HINT")
    <2>1. /\ Quiet /\ queue["cloud"] = <<>> /\ queue["main"] = <<>>
      BY <1>5 DEF InfoInv, Quiet
    <2>2. "GPRS_OK_HINT" \in Message
      BY DEF Message
    <2>3. \A x : ~Holds(<<>>, x) /\ Once(<<>>, x)
      BY DEF Holds, Once
    <2>4. queue'["main"] = <<>> /\ \A x : Holds(queue'["cloud"], x) => x = "GPRS_OK_HINT"
      <3>1. /\ Posted(Taken("mcu"), "cloud", "GPRS_OK_HINT")["main"]
                  = Taken("mcu")["main"]
            /\ \A x : Holds(Posted(Taken("mcu"), "cloud", "GPRS_OK_HINT")["cloud"], x)
                      => Holds(Taken("mcu")["cloud"], x) \/ x = "GPRS_OK_HINT"
        BY <1>2, <1>3, <2>2, PostedHolds
      <3> QED
        BY <1>3, <1>5, <2>1, <2>3, <3>1
    <2>5. Once(queue'["cloud"], "GPRS_OK_HINT")
      <3>1. queue'["cloud"] \in {<<>>, Append(<<>>, "GPRS_OK_HINT")}
        BY <1>2, <1>3, <1>5, <2>1 DEF Posted, QueueOK
      <3>2. Once(Append(<<>>, "GPRS_OK_HINT"), "GPRS_OK_HINT")
        BY <2>2, <2>3, EmptySeq, AppendOnce
      <3> QED
        BY <2>3, <3>1, <3>2
    <2>6. ~Ready' /\ ~Holds(queue'["main"], "HEARTBEAT_READY")
      BY <2>3, <2>4 DEF Ready
    <2>7. Once(queue'["cloud"], "MQTT_READY")
      BY <2>6 DEF Ready, Once, Holds
    <2>8. OpeningInv'
      BY <1>1, <2>1, <2>5, <2>6 DEF OpeningInv, Opening, Quiet, loginVars, netVars
    <2>9. ConnectionInv'
      BY <1>1 DEF LoginInv, ConnectionInv, loginVars, netVars
    <2>10. TokenInv'
      BY <1>1, <2>6, <2>7 DEF LoginInv, TokenInv, loginVars, netVars
    <2>11. StepsInv'
      BY <1>1, <2>1, <2>6 DEF StepsInv, Quiet, loginVars, netVars
    <2> QED
      BY <1>1, <2>8, <2>9, <2>10, <2>11 DEF LoginInv
  <1> QED
    BY <1>4, <1>5 DEF Wait, AfterInfo

LEMMA HintOpens ==
    ASSUME TypeInv, LoginInv, GprsOkHint
    PROVE  LoginInv'
  <1>1. /\ queue["cloud"] # <<>> /\ Head(queue["cloud"]) = "GPRS_OK_HINT"
        /\ queue' = Taken("cloud") /\ gprs' = "activating"
        /\ UNCHANGED <<phase, CloudStatus, socket, mqttstatus, mqtt, m2m_result,
                       netVars, heartbeat, awaited, stray>>
    BY DEF GprsOkHint, HeadIs, taskVars, history
  <1>2. QueueOK(queue) /\ "cloud" \in Task
    BY DEF TypeInv, Task
  <1>3. queue["cloud"] \in Seq(Message) /\ queue'["cloud"] = Tail(queue["cloud"])
        /\ Holds(queue["cloud"], "GPRS_OK_HINT")
    BY <1>1, <1>2, TakenHolds DEF QueueOK
  <1>4. Hinted /\ Opening
    BY <1>3 DEF Hinted, Opening
  <1>5. ~Hinted'
    <2>1. Once(queue["cloud"], "GPRS_OK_HINT")
      BY DEF LoginInv, OpeningInv
    <2> QED
      BY <1>1, <1>3, <2>1, TailOnce DEF Hinted
  <1>6. /\ Ready' => Ready
        /\ Once(queue["cloud"], "MQTT_READY") => Once(queue'["cloud"], "MQTT_READY")
        /\ Once(queue["cloud"], "GPRS_OK_HINT")
              => Once(queue'["cloud"], "GPRS_OK_HINT")
        /\ Holds(queue'["main"], "HEARTBEAT_READY")
              => Holds(queue["main"], "HEARTBEAT_READY")
    <2>1. Keeps(queue, queue')
      BY <1>1, <1>2, TakenKeeps
    <2> QED
      BY <2>1 DEF Keeps, Ready
  <1>7. OpeningInv'
    BY <1>1, <1>4, <1>5, <1>6 DEF LoginInv, OpeningInv, Opening, netVars
  <1>8. ConnectionInv'
    BY <1>1 DEF LoginInv, ConnectionInv, netVars
  <1>9. TokenInv'
    BY <1>1, <1>6 DEF LoginInv, TokenInv, netVars
  <1>10. StepsInv'
    <2>1. LoggedIn <=> LoggedIn'
      BY <1>1 DEF LoggedIn, netVars
    <2>2. LoggingIn => LoggingIn'
      BY <1>1 DEF LoggingIn, Level, netVars
    <2> QED
      BY <1>1, <1>6, <2>1, <2>2 DEF LoginInv, StepsInv, netVars
  <1> QED
    BY <1>1, <1>7, <1>8, <1>9, <1>10 DEF LoginInv

LEMMA ConfigKeepsLogin ==
    ASSUME TypeInv, LoginInv, Cloud_ConfigDataHandle
    PROVE  LoginInv'
  <1>1. /\ queue["cloud"] # <<>>
        /\ UNCHANGED <<phase, gprs, mqtt, m2m_result, netVars, heartbeat,
                       awaited, stray>>
    BY DEF Cloud_ConfigDataHandle, HeadIs, taskVars, history
  <1>2. QueueOK(queue) /\ "cloud" \in Task
    BY DEF TypeInv, Task
  <1>3. "CLOUD_CONFIG" \in Message \ {"MQTT_READY", "GPRS_OK_HINT"}
    BY DEF Message
  <1>4. Keeps(queue, queue')
    BY <1>1, <1>2, <1>3, OtherMessages, ConfigEffect
  <1>5. CASE UNCHANGED <<socket, mqttstatus>>
             /\ (CloudStatus = "ok" => CloudStatus' = "ok")
    BY <1>1, <1>4, <1>5, Bystander
  <1>6. CASE /\ CloudStatus = "provision" /\ CloudStatus' = "ok"
             /\ mqttstatus' = "start" /\ LoginInit
    <2>1. mqttstatus = "none" /\ ~broker.accepted
      BY <1>6 DEF LoginInv, ConnectionInv
    <2>2. /\ Ready' => Ready
          /\ Hinted' => Hinted
          /\ Once(queue["cloud"], "MQTT_READY") => Once(queue'["cloud"], "MQTT_READY")
          /\ Once(queue["cloud"], "GPRS_OK_HINT")
                => Once(queue'["cloud"], "GPRS_OK_HINT")
          /\ Holds(queue'["main"], "HEARTBEAT_READY")
                => Holds(queue["main"], "HEARTBEAT_READY")
      BY <1>4 DEF Keeps, Ready, Hinted
    <2>3. /\ socket' \in {socket, "resolving"}
          /\ socket' # socket => socket = "created"
      BY <1>6 DEF LoginInit
    <2>4. OpeningInv'
      BY <1>1, <1>6, <2>1, <2>2, <2>3 DEF LoginInv, OpeningInv, Opening, netVars
    <2>5. ConnectionInv'
      BY <1>1, <1>6, <2>3 DEF LoginInv, ConnectionInv, netVars
    <2>6. TokenInv'
      BY <1>1, <1>6, <2>1, <2>2 DEF LoginInv, TokenInv, netVars
    <2>7. StepsInv'
      BY <1>1, <1>6, <2>1, <2>2 DEF LoginInv, StepsInv, LoggedIn, netVars
    <2> QED
      BY <1>1, <2>4, <2>5, <2>6, <2>7 DEF LoginInv
  <1>7. \/ /\ UNCHANGED <<socket, mqttstatus>>
           /\ CloudStatus = "ok" => CloudStatus' = "ok"
        \/ /\ CloudStatus = "provision" /\ CloudStatus' = "ok"
           /\ mqttstatus' = "start" /\ LoginInit
    BY DEF Cloud_ConfigDataHandle, ConfigInit, ConfigGetDid, ConfigProvision,
       ConfigLost
  <1> QED
    BY <1>5, <1>6, <1>7

LEMMA BearerKeepsLogin ==
    ASSUME TypeInv, LoginInv, Callback_GPRS_Actived
    PROVE  LoginInv'
  <1>1. /\ gprs = "activating" /\ gprs' \in {"on", "off"}
        /\ socket' \in {socket, "created"}
        /\ queue' \in {queue, Posted(queue, "cloud", "CLOUD_CONFIG")}
        /\ UNCHANGED <<phase, CloudStatus, mqttstatus, mqtt, m2m_result, netVars,
                       heartbeat, awaited, stray>>
    BY DEF Callback_GPRS_Actived, taskVars, history
  <1>2. Opening /\ ~Hinted /\ socket = "none"
    BY <1>1 DEF LoginInv, OpeningInv, Opening
  <1>3. Keeps(queue, queue')
    <2>1. "CLOUD_CONFIG" \in Message \ {"MQTT_READY", "GPRS_OK_HINT"}
      BY DEF Message
    <2> QED
      BY <1>1, <2>1, OtherMessages DEF TypeInv
  <1>4. /\ Ready' => Ready
        /\ Hinted' => Hinted
        /\ Once(queue["cloud"], "MQTT_READY") => Once(queue'["cloud"], "MQTT_READY")
        /\ Once(queue["cloud"], "GPRS_OK_HINT")
              => Once(queue'["cloud"], "GPRS_OK_HINT")
        /\ Holds(queue'["main"], "HEARTBEAT_READY")
              => Holds(queue["main"], "HEARTBEAT_READY")
    BY <1>3 DEF Keeps, Ready, Hinted
  <1>5. OpeningInv'
    BY <1>1, <1>2, <1>4 DEF LoginInv, OpeningInv, Opening, netVars
  <1>6. ConnectionInv'
    BY <1>1, <1>2 DEF LoginInv, ConnectionInv, netVars
  <1>7. TokenInv'
    BY <1>1, <1>4 DEF LoginInv, TokenInv, netVars
  <1>8. StepsInv'
    <2>1. ~broker.accepted
      BY <1>2 DEF LoginInv, OpeningInv
    <2> QED
      BY <1>1, <1>4, <2>1 DEF LoginInv, StepsInv, LoggedIn, netVars
  <1> QED
    BY <1>1, <1>5, <1>6, <1>7, <1>8 DEF LoginInv

LEMMA SocketKeepsLogin ==
    ASSUME TypeInv, InfoInv, LoginInv, SocketConnected
    PROVE  LoginInv'
  <1>1. /\ socket = "resolving" /\ socket' \in {"open", "none"}
        /\ UNCHANGED <<phase, gprs, CloudStatus, mqttstatus, mqtt, m2m_result,
                       netVars, heartbeat, awaited, stray>>
    BY DEF SocketConnected, taskVars, history
  <1>2. /\ ~broker.accepted /\ ~Ready /\ ~mqtt.on /\ mqttstatus \in {"none", "start"}
        /\ ~Hinted /\ gprs # "activating" /\ phase # "info" /\ net = <<>>
    BY <1>1 DEF LoginInv, OpeningInv, Opening, ConnectionInv, InfoInv, Quiet
  <1>3. QueueOK(queue) /\ "cloud" \in Task /\ "main" \in Task
        /\ "MQTT_CONFIG" \in Message \ {"MQTT_READY", "GPRS_OK_HINT"}
        /\ "MQTT_CONFIG" \in Message /\ "MQTT_READY" \in Message
    BY DEF TypeInv, Task, Message
  <1> DEFINE mid == Posted(queue, "cloud", "MQTT_CONFIG")
             new == Posted(mid, "cloud", "MQTT_READY")
  <1>4. /\ QueueOK(mid) /\ Keeps(queue, mid) /\ mid["main"] = queue["main"]
    BY <1>3, PostedOK, OtherMessages, PostedHolds
  <1>5. ~Holds(mid["cloud"], "MQTT_READY") /\ ~Holds(mid["cloud"], "GPRS_OK_HINT")
    BY <1>2, <1>4 DEF Keeps, Ready, Hinted
  <1>6. queue' \in {queue, new}
    BY DEF SocketConnected
  <1> HIDE DEF mid
  <1>7. /\ new["main"] = queue["main"]
        /\ ~Holds(new["cloud"], "GPRS_OK_HINT")
        /\ Once(new["cloud"], "MQTT_READY")
    <2>1. /\ new["main"] = mid["main"]
          /\ Holds(new["cloud"], "GPRS_OK_HINT")
                => \/ Holds(mid["cloud"], "GPRS_OK_HINT")
                   \/ "GPRS_OK_HINT" = "MQTT_READY"
      BY <1>3, <1>4, PostedHolds
    <2>2. Once(mid["cloud"], "MQTT_READY")
      BY <1>5 DEF Once, Holds
    <2>3. mid["cloud"] \in Seq(Message) /\ mid \in [Task -> Seq(Message)]
      BY <1>3, <1>4 DEF QueueOK
    <2>4. Once(Append(mid["cloud"], "MQTT_READY"), "MQTT_READY")
      BY <1>3, <1>5, <2>2, <2>3, AppendOnce
    <2>5. new["cloud"] \in {mid["cloud"], Append(mid["cloud"], "MQTT_READY")}
      BY <1>3, <2>3 DEF Posted
    <2> QED
      BY <1>4, <1>5, <2>1, <2>2, <2>4, <2>5
  <1> HIDE DEF new
  <1>8. /\ queue'["main"] = queue["main"] /\ ~Hinted'
        /\ Once(queue'["cloud"], "MQTT_READY")
    <2>1. Once(queue["cloud"], "MQTT_READY")
      BY <1>2 DEF Ready, Holds, Once
    <2> QED
      BY <1>2, <1>6, <1>7, <2>1 DEF Hinted
  <1>9. OpeningInv'
    <2>1. ~Opening'
      BY <1>1, <1>2, <1>8 DEF Opening
    <2>2. Once(queue'["cloud"], "GPRS_OK_HINT")
      BY <1>8 DEF Hinted, Once, Holds
    <2> QED
      BY <1>1, <1>2, <1>8, <2>1, <2>2 DEF OpeningInv
  <1>10. ConnectionInv'
    BY <1>1, <1>2 DEF LoginInv, ConnectionInv, netVars
  <1>11. TokenInv'
    <2>1. ~Holds(net, Refused)
      BY <1>2 DEF Holds
    <2> QED
      BY <1>1, <1>2, <1>8, <2>1 DEF LoginInv, TokenInv, netVars
  <1>12. StepsInv'
    BY <1>1, <1>2, <1>8 DEF LoginInv, StepsInv, LoggedIn, netVars
  <1> QED
    BY <1>1, <1>9, <1>10, <1>11, <1>12 DEF LoginInv

\* A connection timer that expires hands the attempt on to the message.
LEMMA RetryKeepsLogin ==
    ASSUME TypeInv, LoginInv, Timer_MQTT_Connect_Handler
    PROVE  LoginInv'
  <1>1. /\ mqtt.on /\ phase' \in {phase, "reset"}
        /\ UNCHANGED <<gprs, CloudStatus, socket, mqttstatus, m2m_result,
                       netVars, heartbeat, awaited, stray>>
        /\ \/ queue' = queue /\ mqtt' = mqtt
           \/ queue' = Posted(queue, "cloud", "MQTT_READY") /\ ~mqtt'.on
    BY DEF Timer_MQTT_Connect_Handler, DevReset, history
  <1>2. ~Opening
    BY <1>1 DEF LoginInv, OpeningInv
  <1>3. QueueOK(queue) /\ "cloud" \in Task /\ "main" \in Task
        /\ "MQTT_READY" \in Message /\ queue["cloud"] \in Seq(Message)
        /\ queue \in [Task -> Seq(Message)]
    BY DEF TypeInv, Task, Message, QueueOK
  <1>4. /\ Posted(queue, "cloud", "MQTT_READY")["main"] = queue["main"]
        /\ Holds(Posted(queue, "cloud", "MQTT_READY")["cloud"], "GPRS_OK_HINT")
              => \/ Holds(queue["cloud"], "GPRS_OK_HINT")
                 \/ "GPRS_OK_HINT" = "MQTT_READY"
    <2>1. /\ "main" # "cloud" => Posted(queue, "cloud", "MQTT_READY")["main"]
                                    = queue["main"]
      BY <1>3, PostedHolds
    <2>2. \A x : Holds(Posted(queue, "cloud", "MQTT_READY")["cloud"], x)
                    => Holds(queue["cloud"], x) \/ x = "MQTT_READY"
      BY <1>3, PostedHolds
    <2> QED
      BY <2>1, <2>2
  <1>5. queue'["main"] = queue["main"] /\ (Hinted' => Hinted)
    BY <1>1, <1>4 DEF Hinted
  <1>6. OpeningInv'
    <2>1. ~Hinted' /\ ~Opening'
      BY <1>1, <1>2, <1>5 DEF Opening
    <2>2. Once(queue'["cloud"], "GPRS_OK_HINT")
      BY <2>1 DEF Hinted, Once, Holds
    <2> QED
      BY <2>1, <2>2 DEF OpeningInv, Opening
  <1>7. ConnectionInv'
    BY <1>1 DEF LoginInv, ConnectionInv, netVars
  <1>8. TokenInv'
    <2>1. SUFFICES ASSUME ~broker.accepted PROVE TokenInv'
      BY <1>1 DEF TokenInv, netVars
    <2>2. ~Ready /\ ~Holds(net, Refused) /\ mqttstatus # "resLogin"
          /\ Once(queue["cloud"], "MQTT_READY")
      BY <1>1, <2>1 DEF LoginInv, TokenInv
    <2>3. Once(queue'["cloud"], "MQTT_READY")
      <3>1. Once(Append(queue["cloud"], "MQTT_READY"), "MQTT_READY")
        BY <1>3, <2>2, AppendOnce DEF Ready
      <3>2. queue'["cloud"] \in {queue["cloud"], Append(queue["cloud"], "MQTT_READY")}
        BY <1>1, <1>3 DEF Posted
      <3> QED
        BY <2>2, <3>1, <3>2
    <2>4. Ready' => ~mqtt'.on
      BY <1>1, <2>2 DEF Ready
    <2> QED
      BY <1>1, <2>1, <2>2, <2>3, <2>4 DEF LoginInv, TokenInv, netVars
  <1>9. StepsInv'
    <2>1. (LoggedIn <=> LoggedIn') /\ (LoggingIn => LoggingIn')
      BY <1>1 DEF LoggedIn, LoggingIn, Level, netVars
    <2> QED
      BY <1>1, <1>5, <2>1 DEF LoginInv, StepsInv, netVars
  <1> QED
    BY <1>1, <1>6, <1>7, <1>8, <1>9 DEF LoginInv

\* Steps after which the device is logged in.
LEMMA LoggedInSteps ==
    ASSUME LoginInv, broker.accepted, LoggedIn', ConnectionInv',
           queue'["cloud"] = queue["cloud"] \/ ~Holds(queue'["cloud"], "GPRS_OK_HINT"),
           phase' = phase \/ phase' # "info",
           gprs' = gprs, socket' \in {socket, "none"},
           stray' \in BOOLEAN, awaited' \in BOOLEAN
    PROVE  LoginInv'
  <1>1. broker'.accepted
    BY DEF LoggedIn
  <1>2. ~Opening
    BY DEF LoginInv, OpeningInv
  <1>3. ~Hinted'
    BY <1>2 DEF Opening, Hinted
  <1>4. ~Opening'
    BY <1>2, <1>3 DEF Opening
  <1>5. Once(queue'["cloud"], "GPRS_OK_HINT")
    BY <1>3 DEF Hinted, Once, Holds
  <1>6. OpeningInv'
    BY <1>4, <1>5 DEF OpeningInv, Opening
  <1>7. TokenInv' /\ StepsInv'
    BY <1>1 DEF TokenInv, StepsInv
  <1> QED
    BY <1>6, <1>7 DEF LoginInv

LEMMA BeatKeepsLogin ==
    ASSUME TypeInv, LoginInv, Timer_Cloud_HeartBeat_Handler
    PROVE  LoginInv'
  <1>1. /\ heartbeat.on /\ mqttstatus' \in {mqttstatus, "start"}
        /\ \E m \in {"MQTT_READY", "PING_REQUEST"} : queue' = Posted(queue, "cloud", m)
        /\ UNCHANGED <<phase, gprs, CloudStatus, socket, mqtt, m2m_result,
                       netVars, awaited, stray>>
    BY DEF Timer_Cloud_HeartBeat_Handler, LoginAnew, taskVars, history
  <1>2. LoggedIn
    BY <1>1 DEF LoginInv, StepsInv
  <1>3. LoggedIn' /\ broker.accepted
    BY <1>1, <1>2 DEF LoggedIn, netVars
  <1>4. ConnectionInv'
    BY <1>1, <1>3 DEF LoginInv, ConnectionInv, netVars
  <1>5. ~Holds(queue'["cloud"], "GPRS_OK_HINT")
    <2>1. PICK m \in {"MQTT_READY", "PING_REQUEST"} : queue' = Posted(queue, "cloud", m)
      BY <1>1
    <2>2. m \in Message /\ "cloud" \in Task /\ m # "GPRS_OK_HINT"
      BY DEF Message, Task
    <2>3. Holds(queue'["cloud"], "GPRS_OK_HINT")
            => Holds(queue["cloud"], "GPRS_OK_HINT") \/ "GPRS_OK_HINT" = m
      BY <2>1, <2>2, PostedHolds DEF TypeInv
    <2>4. ~Hinted
      BY <1>3 DEF LoginInv, OpeningInv, Opening
    <2> QED
      BY <2>2, <2>3, <2>4 DEF Hinted
  <1> QED
    BY <1>1, <1>2, <1>3, <1>4, <1>5, LoggedInSteps DEF LoginInv

LEMMA ReportKeepsLogin ==
    ASSUME TypeInv, LoginInv, ReceiveReport
    PROVE  LoginInv'
  <1>1. /\ UNCHANGED <<phase, queue, gprs, CloudStatus, socket, mqttstatus, mqtt,
                       m2m_result, net, broker, heartbeat, awaited, stray>>
        /\ \/ mqttMsgsubid' = mqttMsgsubid
           \/ mqttstatus = "running" /\ mqttMsgsubid' \in {mqttMsgsubid + 0,
                                                         mqttMsgsubid + 2}
    BY DEF ReceiveReport, Cloud_SendData, MQTT_SenData, taskVars, loginVars, history
  <1>2. QueueOK(queue)
    BY DEF TypeInv
  <1>3. CASE mqttMsgsubid' = mqttMsgsubid
    <2>1. Keeps(queue, queue')
      BY <1>1, <1>2, OtherMessages
    <2> QED
      BY <1>1, <1>3, <2>1, Bystander DEF netVars
  <1>4. CASE mqttMsgsubid' # mqttMsgsubid
    <2>1. LoggedIn
      BY <1>1, <1>4 DEF LoginInv, StepsInv
    <2>2. LoggedIn' /\ broker.accepted
      BY <1>1, <2>1 DEF LoggedIn
    <2>3. ConnectionInv'
      <3>1. \A i \in DOMAIN net : net[i].type = "suback" => net[i].result <= mqttMsgsubid
        BY DEF LoginInv, ConnectionInv
      <3>2. \A i \in DOMAIN net : net[i].type = "suback" => net[i].result \in Nat
        BY DEF TypeInv, NetType, Packets
      <3>3. \A i \in DOMAIN net : net[i].type = "suback" => net[i].result <= mqttMsgsubid'
        <4>1. /\ mqttMsgsubid \in Nat
              /\ mqttMsgsubid' = mqttMsgsubid + 0 \/ mqttMsgsubid' = mqttMsgsubid + 2
          BY <1>1, <1>4 DEF TypeInv, NetType
        <4>2. mqttMsgsubid <= mqttMsgsubid' /\ mqttMsgsubid' \in Nat
          BY <4>1, SMT
        <4> QED
          BY <1>1, <3>1, <3>2, <4>1, <4>2
      <3> QED
        BY <1>1, <3>3 DEF LoginInv, ConnectionInv
    <2> QED
      BY <1>1, <2>2, <2>3, LoggedInSteps DEF LoginInv
  <1> QED
    BY <1>3, <1>4

\* What packets there are after one came, and after one was read.
LEMMA PacketAdded ==
    ASSUME NEW S, NEW q \in Seq(S), NEW p \in S
    PROVE  /\ q \o <<p>> = Append(q, p)
           /\ \A i \in DOMAIN Append(q, p) :
                 \/ Append(q, p)[i] = p
                 \/ i \in DOMAIN q /\ Append(q, p)[i] = q[i]
  <1>1. /\ Append(q, p) \in Seq(S) /\ Len(Append(q, p)) = Len(q) + 1
        /\ \A i \in 1 .. Len(q) : Append(q, p)[i] = q[i]
        /\ Append(q, p)[Len(q) + 1] = p
    BY AppendProperties
  <1>2. /\ Len(q) \in Nat /\ DOMAIN q = 1 .. Len(q)
        /\ DOMAIN Append(q, p) = 1 .. Len(q) + 1
    BY <1>1, LenProperties
  <1>3. \A i \in 1 .. Len(q) + 1 : i \in 1 .. Len(q) \/ i = Len(q) + 1
    BY <1>2, SMT
  <1>4. q \o <<p>> = Append(q, p)
    BY AppendIsConcat
  <1> QED
    BY <1>1, <1>2, <1>3, <1>4

LEMMA PacketTaken ==
    ASSUME NEW S, NEW q \in Seq(S), q # <<>>
    PROVE  /\ 1 \in DOMAIN q /\ Head(q) = q[1]
           /\ \A i \in DOMAIN Tail(q) : \E j \in DOMAIN q : Tail(q)[i] = q[j]
  <1>1. /\ Head(q) = q[1] /\ Len(q) \in Nat /\ Len(q) > 0
        /\ DOMAIN q = 1 .. Len(q) /\ DOMAIN Tail(q) = 1 .. Len(q) - 1
        /\ \A i \in 1 .. Len(q) - 1 : Tail(q)[i] = q[i + 1]
    BY SMT
  <1>2. 1 \in DOMAIN q /\ \A i \in DOMAIN Tail(q) : i + 1 \in DOMAIN q
    BY <1>1, SMT
  <1> QED
    BY <1>1, <1>2

LEMMA PacketNames ==
    /\ Accepted \in Packets /\ Refused \in Packets /\ Closed \in Packets
    /\ Accepted # Refused /\ Accepted # Closed /\ Refused # Closed
    /\ Accepted.type = "connack" /\ Accepted.result = 0
    /\ Refused.type = "connack" /\ Refused.result = -1
    /\ Closed.type = "close"
  <1>1. /\ Accepted.type = "connack" /\ Accepted.result = 0
        /\ Refused.type = "connack" /\ Refused.result = -1
        /\ Closed.type = "close"
    BY DEF Accepted, Refused, Closed, Packet
  <1>2. Accepted \in Packets /\ Refused \in Packets /\ Closed \in Packets
    BY SMT DEF Accepted, Refused, Closed, Packet, Packets
  <1>3. Accepted # Refused
    BY <1>1, SMT
  <1> QED
    BY <1>1, <1>2, <1>3

\* A connection is not on the way any more.
LEMMA OpenIsPastOpening ==
    ASSUME InfoInv, LoginInv, socket = "open"
    PROVE  ~Opening
  BY DEF InfoInv, Quiet, LoginInv, OpeningInv, Opening

\* A packet comes that answers no login.
LEMMA PacketComes ==
    ASSUME TypeInv, LoginInv, socket = "open", Keeps(queue, queue'),
           NEW p \in Packets, p.type \in {"publish", "pingresp", "close"},
           ~broker.accepted => p = Closed,
           net' = Append(net, p),
           broker'.accepted = broker.accepted, broker'.asked = broker.asked,
           broker.closed => broker'.closed,
           UNCHANGED <<phase, gprs, CloudStatus, socket, mqttstatus, mqtt,
                       m2m_result, mqttMsgsubid, heartbeat, awaited, stray>>
    PROVE  LoginInv'
  <1>1. net \in Seq(Packets)
    BY DEF TypeInv, NetType
  <1>2. p # Refused /\ p # Accepted
    BY PacketNames
  <1>3. \A i \in DOMAIN net' : \/ net'[i] = p
                               \/ i \in DOMAIN net /\ net'[i] = net[i]
    BY <1>1, PacketAdded
  <1>4. \A x \in {Refused, Accepted} : /\ Holds(net', x) => Holds(net, x)
                                       /\ Once(net, x) => Once(net', x)
    BY <1>1, <1>2, AppendHolds, AppendOnce
  <1>5. /\ Ready' => Ready
        /\ Hinted' => Hinted
        /\ Once(queue["cloud"], "MQTT_READY") => Once(queue'["cloud"], "MQTT_READY")
        /\ Once(queue["cloud"], "GPRS_OK_HINT")
              => Once(queue'["cloud"], "GPRS_OK_HINT")
        /\ Holds(queue'["main"], "HEARTBEAT_READY")
              => Holds(queue["main"], "HEARTBEAT_READY")
    BY DEF Keeps, Ready, Hinted
  <1>6. OpeningInv'
    BY <1>5 DEF LoginInv, OpeningInv, Opening
  <1>7. ConnectionInv'
    BY <1>3, <1>4 DEF LoginInv, ConnectionInv
  <1>8. TokenInv'
    <2>1. SUFFICES ASSUME ~broker.accepted PROVE TokenInv'
      BY DEF TokenInv
    <2>2. net' \in Seq({Refused, Closed})
      BY <2>1, AppendProperties DEF LoginInv, TokenInv
    <2> QED
      BY <1>4, <1>5, <2>1, <2>2 DEF LoginInv, TokenInv
  <1>9. StepsInv'
    <2>1. LoggedIn <=> LoggedIn'
      BY DEF LoggedIn
    <2>2. LoggingIn => LoggingIn'
      BY <1>3, <1>4 DEF LoggingIn, Level
    <2> QED
      BY <1>5, <2>1, <2>2 DEF LoginInv, StepsInv
  <1> QED
    BY <1>6, <1>7, <1>8, <1>9 DEF LoginInv

LEMMA BrokerKeepsLogin ==
    ASSUME TypeInv, LoginInv, BrokerPublish \/ BrokerClose \/ CloudPing
    PROVE  LoginInv'
  <1> USE DEF loginVars, taskVars, history
  <1>1. QueueOK(queue) /\ net \in Seq(Packets)
    BY DEF TypeInv, NetType
  <1>2. Keeps(queue, queue)
    BY <1>1, OtherMessages
  <1>3. CASE BrokerPublish
    <2>1. PICK r \in {"command", "notice"} : net' = Append(net, Packet("publish", r))
      BY <1>3 DEF BrokerPublish
    <2>2. Packet("publish", r) \in Packets /\ Packet("publish", r).type = "publish"
      BY DEF Packet, Packets
    <2>3. /\ socket = "open" /\ broker.accepted
          /\ UNCHANGED <<queue, phase, gprs, CloudStatus, socket, mqttstatus, mqtt,
                         m2m_result, mqttMsgsubid, broker, heartbeat, awaited, stray>>
      BY <1>3 DEF BrokerPublish, Listening, TypeInv, NetType
    <2> QED
      BY <1>2, <2>1, <2>2, <2>3, PacketComes
  <1>4. CASE BrokerClose
    <2>1. /\ socket = "open" /\ net' = Append(net, Closed)
          /\ broker' = [broker EXCEPT !.closed = TRUE]
          /\ UNCHANGED <<queue, phase, gprs, CloudStatus, socket, mqttstatus, mqtt,
                         m2m_result, mqttMsgsubid, heartbeat, awaited, stray>>
      BY <1>4 DEF BrokerClose, Listening, Closed
    <2>2. /\ broker'.accepted = broker.accepted /\ broker'.asked = broker.asked
          /\ broker'.closed
      BY <2>1 DEF TypeInv, NetType
    <2> QED
      BY <1>2, <2>1, <2>2, PacketComes, PacketNames
  <1>5. CASE CloudPing
    <2>1. /\ queue["cloud"] # <<>> /\ queue' = Taken("cloud")
          /\ UNCHANGED <<phase, gprs, CloudStatus, socket, mqttstatus, mqtt,
                         m2m_result, mqttMsgsubid, broker, heartbeat, awaited, stray>>
      BY <1>5 DEF CloudPing, HeadIs
    <2>2. Keeps(queue, queue')
      BY <1>1, <2>1, OtherMessages DEF Task
    <2>3. CASE net' = net
      BY <2>1, <2>2, <2>3, Bystander DEF netVars
    <2>4. CASE /\ socket = "open" /\ broker.accepted
               /\ net' = net \o <<Packet("pingresp", 0)>>
      <3>1. Packet("pingresp", 0) \in Packets /\ Packet("pingresp", 0).type = "pingresp"
        BY DEF Packet, Packets
      <3>2. net' = Append(net, Packet("pingresp", 0))
        BY <1>1, <2>4, <3>1, PacketAdded
      <3> QED
        BY <2>1, <2>2, <2>4, <3>1, <3>2, PacketComes
    <2> QED
      BY <1>5, <2>3, <2>4 DEF CloudPing, Answered, Listening
  <1> QED
    BY <1>3, <1>4, <1>5

\* A packet is read; what an answer says is the result of the login's step.
LEMMA ReadKeepsLogin ==
    ASSUME TypeInv, InfoInv, LoginInv, NetRead
    PROVE  LoginInv'
  <1> DEFINE p == Head(net)
  <1>1. net # <<>> /\ socket = "open" /\ net \in Seq(Packets)
    BY DEF NetRead, LoginInv, ConnectionInv, TypeInv, NetType
  <1>2. p \in Packets /\ Tail(net) \in Seq(Packets) /\ Holds(net, p)
    BY <1>1, HeadTailProperties, TailHolds
  <1>3. /\ 1 \in DOMAIN net /\ p = net[1]
        /\ \A i \in DOMAIN Tail(net) : \E j \in DOMAIN net : Tail(net)[i] = net[j]
        /\ \A x : /\ Holds(Tail(net), x) => Holds(net, x)
                  /\ Once(net, x) => Once(Tail(net), x)
                  /\ Once(net, x) /\ p = x => ~Holds(Tail(net), x)
    BY <1>1, PacketTaken, TailHolds, TailOnce
  <1>4. \A x : ~Holds(<<>>, x) /\ Once(<<>>, x)
    BY DEF Holds, Once
  <1>5. /\ p.type \in {"connack", "suback", "publish", "pingresp", "close"}
        /\ p.type = "connack" => p \in {Accepted, Refused}
        /\ p.type = "suback" => p.result \in Nat
    BY <1>2, SMT DEF Packets, Accepted, Refused, Packet
  <1>6. /\ UNCHANGED <<phase, gprs, CloudStatus, mqttstatus, mqtt, mqttMsgsubid,
                       heartbeat, stray>>
        /\ ReadPacket(p)
    BY DEF NetRead, taskVars
  <1> HIDE DEF p
  <1> DEFINE told == Posted(queue, "cloud", "MQTT_READY")
  <1>7. /\ p.type = "connack"
              => /\ m2m_result' = p.result /\ queue' = told /\ awaited' = FALSE
                 /\ net' = Tail(net) /\ socket' = socket /\ broker' = broker
        /\ p.type = "suback" /\ p.result = mqttMsgsubid
              => /\ m2m_result' = 0 /\ queue' = told /\ awaited' = FALSE
                 /\ net' = Tail(net) /\ socket' = socket /\ broker' = broker
        /\ p.type = "suback" /\ p.result # mqttMsgsubid
              => /\ m2m_result' = -1 /\ queue' = told /\ awaited' = awaited
                 /\ net' = <<>> /\ socket' = "none"
                 /\ broker' = [broker EXCEPT !.closed = TRUE]
        /\ p.type = "publish"
              => /\ m2m_result' = m2m_result /\ queue' = told /\ awaited' = awaited
                 /\ net' = Tail(net) /\ socket' = socket /\ broker' = broker
        /\ p.type = "pingresp"
              => /\ m2m_result' = m2m_result /\ awaited' = awaited
                 /\ queue' = Posted(queue, "main", "CLOUD_PING_RSP_OK")
                 /\ net' = Tail(net) /\ socket' = socket /\ broker' = broker
        /\ p.type = "close"
              => /\ m2m_result' = m2m_result /\ awaited' = awaited /\ queue' = queue
                 /\ net' = <<>> /\ socket' = "none" /\ broker' = broker
    BY <1>6 DEF ReadPacket
  <1>8. QueueOK(queue) /\ "cloud" \in Task /\ "main" \in Task
        /\ "MQTT_READY" \in Message /\ "CLOUD_PING_RSP_OK" \in Message
    BY DEF TypeInv, Task, Message
  <1>9. /\ queue' \in {queue, told, Posted(queue, "main", "CLOUD_PING_RSP_OK")}
        /\ net' \in {Tail(net), <<>>} /\ socket' \in {"open", "none"}
        /\ socket' = "none" => net' = <<>>
        /\ broker'.accepted = broker.accepted /\ broker'.asked = broker.asked
        /\ broker.closed => broker'.closed
        /\ awaited' \in {FALSE, awaited}
    BY <1>1, <1>5, <1>7 DEF TypeInv, NetType
  <1>10. ~Opening
    BY <1>1, OpenIsPastOpening
  <1>11. /\ ~Hinted'
         /\ Holds(queue'["main"], "HEARTBEAT_READY")
              => Holds(queue["main"], "HEARTBEAT_READY")
    <2>1. Keeps(queue, Posted(queue, "main", "CLOUD_PING_RSP_OK")) /\ Keeps(queue, queue)
      BY <1>8, OtherMessages
    <2>2. "main" # "cloud" => told["main"] = queue["main"]
      BY <1>8, PostedHolds
    <2>3. Holds(told["cloud"], "GPRS_OK_HINT")
             => Holds(queue["cloud"], "GPRS_OK_HINT") \/ "GPRS_OK_HINT" = "MQTT_READY"
      BY <1>8, PostedHolds
    <2>4. ~Holds(queue["cloud"], "GPRS_OK_HINT")
      BY <1>10 DEF Opening, Hinted
    <2> HIDE DEF told
    <2> QED
      BY <1>9, <2>1, <2>2, <2>3, <2>4 DEF Keeps, Hinted
  <1>12. Ready' => p.type \in {"connack", "suback", "publish"} \/ Ready
    <2>1. Keeps(queue, Posted(queue, "main", "CLOUD_PING_RSP_OK"))
      BY <1>8, OtherMessages
    <2> QED
      BY <1>5, <1>7, <2>1 DEF Keeps, Ready
  <1>13. Once(queue["cloud"], "MQTT_READY") /\ ~Ready
            => Once(queue'["cloud"], "MQTT_READY")
    <2>1. Keeps(queue, Posted(queue, "main", "CLOUD_PING_RSP_OK"))
      BY <1>8, OtherMessages
    <2>2. queue["cloud"] \in Seq(Message) /\ queue \in [Task -> Seq(Message)]
      BY <1>8 DEF QueueOK
    <2>3. told["cloud"] \in {queue["cloud"], Append(queue["cloud"], "MQTT_READY")}
      BY <1>8, <2>2 DEF Posted
    <2>4. Once(queue["cloud"], "MQTT_READY") /\ ~Ready
             => Once(Append(queue["cloud"], "MQTT_READY"), "MQTT_READY")
      BY <1>8, <2>2, AppendOnce DEF Ready
    <2> HIDE DEF told
    <2> QED
      BY <1>9, <2>1, <2>3, <2>4 DEF Keeps
  <1> HIDE DEF told
  <1>14. OpeningInv'
    <2>1. ~Opening'
      BY <1>6, <1>9, <1>10, <1>11 DEF Opening
    <2>2. Once(queue'["cloud"], "GPRS_OK_HINT")
      BY <1>11 DEF Hinted, Once, Holds
    <2> QED
      BY <2>1, <2>2 DEF OpeningInv, Opening
  <1>15. ConnectionInv'
    <2>1. socket' # "open" => net' = <<>>
      BY <1>9
    <2>2. m2m_result' = -1 \/ Holds(net', Refused) => broker'.closed
      <3>1. Holds(net', Refused) => Holds(net, Refused)
        BY <1>3, <1>4, <1>9
      <3>2. m2m_result' = -1
              => m2m_result = -1 \/ Holds(net, Refused) \/ broker'.closed
        BY <1>2, <1>5, <1>7, PacketNames DEF TypeInv, NetType
      <3> QED
        BY <1>9, <3>1, <3>2 DEF LoginInv, ConnectionInv
    <2>3. \A i \in DOMAIN net' :
             net'[i].type = "suback" => net'[i].result <= mqttMsgsubid'
      <3>1. \A i \in DOMAIN Tail(net) :
               Tail(net)[i].type = "suback" => Tail(net)[i].result <= mqttMsgsubid
        BY <1>3 DEF LoginInv, ConnectionInv
      <3>2. DOMAIN <<>> = {}
        OBVIOUS
      <3> QED
        BY <1>6, <1>9, <3>1, <3>2
    <2> QED
      BY <1>6, <1>9, <2>1, <2>2, <2>3 DEF LoginInv, ConnectionInv
  <1>16. TokenInv'
    <2>1. SUFFICES ASSUME ~broker.accepted PROVE TokenInv'
      BY <1>9 DEF TokenInv
    <2>2. net \in Seq({Refused, Closed})
      BY <2>1 DEF LoginInv, TokenInv
    <2>3. p \in {Refused, Closed} /\ Tail(net) \in Seq({Refused, Closed})
      BY <1>1, <2>2, HeadTailProperties DEF p
    <2>4. net' \in Seq({Refused, Closed})
      BY <1>9, <2>3, EmptySeq
    <2>5. Once(net', Refused) /\ (Holds(net', Refused) => Holds(net, Refused))
      BY <1>3, <1>4, <1>9, <2>1 DEF LoginInv, TokenInv
    <2>6. CASE p = Refused
      <3>1. Holds(net, Refused)
        BY <1>2, <2>6 DEF p
      <3>2. ~Ready /\ ~mqtt.on /\ mqttstatus = "resLogin"
            /\ Once(queue["cloud"], "MQTT_READY") /\ Once(net, Refused)
        BY <2>1, <3>1 DEF LoginInv, TokenInv
      <3>3. m2m_result' = -1 /\ net' = Tail(net)
        BY <1>7, <2>6, PacketNames
      <3>4. ~Holds(net', Refused)
        BY <1>3, <2>6, <3>2, <3>3
      <3>5. Once(queue'["cloud"], "MQTT_READY")
        BY <1>13, <3>2
      <3> QED
        BY <1>6, <1>9, <2>1, <2>4, <2>5, <3>2, <3>3, <3>4, <3>5
           DEF LoginInv, TokenInv
    <2>7. CASE p = Closed
      <3>1. m2m_result' = m2m_result /\ queue' = queue
        BY <1>7, <2>7, PacketNames
      <3>2. (Ready' <=> Ready) /\ Once(queue["cloud"], "MQTT_READY")
            /\ (Once(queue["cloud"], "MQTT_READY") => Once(queue'["cloud"], "MQTT_READY"))
        BY <2>1, <3>1 DEF Ready, LoginInv, TokenInv
      <3> QED
        BY <1>6, <1>9, <2>1, <2>4, <2>5, <3>1, <3>2 DEF LoginInv, TokenInv
    <2> QED
      BY <2>3, <2>6, <2>7
  <1>17. StepsInv'
    <2>1. LoggedIn <=> LoggedIn'
      BY <1>6, <1>9 DEF LoggedIn
    <2>2. ASSUME broker.accepted, ~LoggedIn PROVE LoggingIn'
      <3>1. LoggingIn /\ awaited \in BOOLEAN
        BY <2>2 DEF LoginInv, StepsInv
      <3>2. mqttstatus \in {"resLogin", "topic1", "topic2", "topic3"}
            /\ m2m_result # -1
        BY <1>1, <3>1 DEF LoggingIn
      <3>3. Level' = Level /\ Level \in 0 .. 3
            /\ (mqttstatus = "resLogin" => Level = 0)
        BY <1>6 DEF Level
      <3>4. \A i \in DOMAIN net' : net'[i].type = "suback" /\ net'[i].result = mqttMsgsubid
                                      => Level \in broker.asked
        <4>1. \A i \in DOMAIN Tail(net) :
                 Tail(net)[i].type = "suback" /\ Tail(net)[i].result = mqttMsgsubid
                    => Level \in broker.asked
          BY <1>3, <3>1 DEF LoggingIn
        <4>2. DOMAIN <<>> = {}
          OBVIOUS
        <4> QED
          BY <1>9, <4>1, <4>2
      <3>5. ~Holds(net', Refused) /\ Once(net', Accepted)
            /\ (Holds(net', Accepted) => Holds(net, Accepted))
        BY <1>3, <1>4, <1>9, <3>1 DEF LoggingIn
      <3>6. m2m_result' = -1 => socket' = "none"
        BY <1>2, <1>5, <1>7, <3>1, <3>2, PacketNames DEF LoggingIn, p
      <3>7. ~awaited' => 1 .. Level \subseteq broker.asked
        <4>1. CASE p.type = "connack"
          <5>1. Holds(net, Accepted)
            BY <1>2, <1>5, <3>1, <4>1 DEF LoggingIn, p
          <5>2. Level = 0
            BY <3>1, <3>3, <5>1 DEF LoggingIn
          <5> QED
            BY <5>2, SMT
        <4>2. CASE p.type = "suback" /\ p.result = mqttMsgsubid
          <5>1. Level \in broker.asked
            BY <1>3, <3>1, <4>2 DEF LoggingIn
          <5>2. 1 .. Level - 1 \subseteq broker.asked
            BY <3>1 DEF LoggingIn
          <5>3. \A i \in 1 .. Level : i \in 1 .. Level - 1 \/ i = Level
            BY <3>3, SMT
          <5> QED
            BY <5>1, <5>2, <5>3
        <4>3. CASE ~(p.type = "connack") /\ ~(p.type = "suback" /\ p.result = mqttMsgsubid)
          <5>1. awaited' = awaited
            BY <1>5, <1>7, <4>3
          <5> QED
            BY <3>1, <5>1 DEF LoggingIn
        <4> QED
          BY <4>1, <4>2, <4>3
      <3>8. Holds(net', Accepted) => mqttstatus = "resLogin" /\ awaited'
        <4>1. SUFFICES ASSUME Holds(net', Accepted)
                       PROVE  mqttstatus = "resLogin" /\ awaited'
          OBVIOUS
        <4>2. mqttstatus = "resLogin" /\ awaited
          BY <3>1, <3>5, <4>1 DEF LoggingIn
        <4>3. net' = Tail(net)
          BY <1>4, <1>9, <4>1
        <4>4. p.type # "connack"
          <5>1. SUFFICES ASSUME p.type = "connack" PROVE FALSE
            OBVIOUS
          <5>2. p = Accepted
            BY <1>2, <1>5, <3>1, <5>1 DEF LoggingIn, p
          <5> QED
            BY <1>3, <3>1, <4>1, <4>3, <5>2 DEF LoggingIn
        <4>5. ~(p.type = "suback" /\ p.result = mqttMsgsubid)
          <5>1. SUFFICES ASSUME p.type = "suback", p.result = mqttMsgsubid PROVE FALSE
            OBVIOUS
          <5>2. Level \in broker.asked /\ Level = 0
            BY <1>3, <3>1, <3>3, <4>2, <5>1 DEF LoggingIn
          <5>3. broker.asked \subseteq 1 .. 3
            BY DEF TypeInv, NetType
          <5> QED
            BY <5>2, <5>3, SMT
        <4> QED
          BY <1>5, <1>7, <4>2, <4>4, <4>5
      <3>9. 1 .. Level - 1 \subseteq broker.asked
        BY <3>1 DEF LoggingIn
      <3> QED
        BY <1>6, <1>9, <3>2, <3>3, <3>4, <3>5, <3>6, <3>7, <3>8, <3>9 DEF LoggingIn
    <2> QED
      BY <1>6, <1>9, <1>11, <2>1, <2>2 DEF LoginInv, StepsInv
  <1>18. awaited' \in BOOLEAN
    BY <1>9 DEF LoginInv
  <1> QED
    BY <1>6, <1>14, <1>15, <1>16, <1>17, <1>18 DEF LoginInv

\* The status that the handler of a login message has read is the status still,
\* unless a heartbeat has started the login anew.
StatusInv == status = "idle" \/ status = mqttstatus \/ heartbeat.on

LEMMA StatusStep == TypeInv /\ StatusInv /\ [Next]_vars => StatusInv'
  <1> SUFFICES ASSUME TypeInv, StatusInv, [Next]_vars PROVE StatusInv'
    OBVIOUS
  <1>1. CASE StatusRead
    BY <1>1 DEF StatusRead, StatusInv
  <1>2. CASE Cloud_M2MDataHandle
    BY <1>2 DEF Cloud_M2MDataHandle, StatusInv
  <1>3. CASE Cloud_ConfigDataHandle
    BY <1>3 DEF Cloud_ConfigDataHandle, InLoop, StatusInv
  <1>4. CASE Boot
    BY <1>4 DEF Boot, BootState, StatusInv
  <1>5. CASE Timer_Cloud_HeartBeat_Handler
    <2>1. /\ heartbeat.on
          /\ heartbeat' \in {[heartbeat EXCEPT !.cloud = 0],
                             [heartbeat EXCEPT !.cloud = @ + 1]}
      BY <1>5 DEF Timer_Cloud_HeartBeat_Handler
    <2>2. heartbeat'.on
      BY <2>1 DEF TypeInv, BeatType
    <2> QED
      BY <2>2 DEF StatusInv
  <1>6. CASE /\ ~StatusRead /\ ~Cloud_M2MDataHandle /\ ~Cloud_ConfigDataHandle
             /\ ~Boot /\ ~Timer_Cloud_HeartBeat_Handler
    <2>1. status' = status /\ mqttstatus' = mqttstatus
      BY <1>6, LoginFrame DEF loginVars, GprsOkHint, Callback_GPRS_Actived,
         SocketConnected, NetRead, Timer_HTTP_Connect_Handler,
         Timer_MQTT_Connect_Handler
    <2>2. CASE heartbeat' = heartbeat
      BY <2>1, <2>2 DEF StatusInv
    <2>3. CASE MainTask
      <3>1. heartbeat.on => heartbeat'.on
        <4>1. Head(queue["main"]) \in MainMessage
          BY <2>3, HeadTailProperties DEF MainTask, TypeInv, QueueOK
        <4>2. heartbeat' \in {[heartbeat EXCEPT !.on = TRUE],
                              [heartbeat EXCEPT !.mcu = 0],
                              [heartbeat EXCEPT !.cloud = 0]}
          BY <2>3, <4>1 DEF MainTask, MainMessage, HeadIs
        <4> QED
          BY <4>2 DEF TypeInv, BeatType
      <3> QED
        BY <2>1, <3>1 DEF StatusInv
    <2>4. CASE Timer_MCU_HeartBeat_Handler
      <3>1. heartbeat' \in {heartbeat, [heartbeat EXCEPT !.mcu = @ + 1]}
        BY <2>4 DEF Timer_MCU_HeartBeat_Handler
      <3>2. heartbeat.on => heartbeat'.on
        BY <3>1 DEF TypeInv, BeatType
      <3> QED
        BY <2>1, <3>2 DEF StatusInv
    <2> QED
      BY <1>6, <2>2, <2>3, <2>4, BeatFrame
  <1> QED
    BY <1>1, <1>2, <1>3, <1>4, <1>5, <1>6

\* A login message is taken.
LEMMA MessageTaken ==
    ASSUME TypeInv, LoginInv, Cloud_M2MDataHandle
    PROVE  /\ Ready /\ ~Opening
           /\ UNCHANGED <<phase, gprs, CloudStatus, socket, m2m_result, heartbeat>>
           /\ Keeps(queue, Taken("cloud"))
           /\ Once(queue["cloud"], "MQTT_READY")
                 => ~Holds(Taken("cloud")["cloud"], "MQTT_READY")
           /\ StatusInv => status = mqttstatus \/ LoggedIn
  <1>5. StatusInv => status = mqttstatus \/ LoggedIn
    BY DEF Cloud_M2MDataHandle, StatusInv, LoginInv, StepsInv
  <1>1. /\ queue["cloud"] # <<>> /\ Head(queue["cloud"]) = "MQTT_READY"
        /\ UNCHANGED <<phase, gprs, CloudStatus, socket, m2m_result, heartbeat>>
    BY DEF Cloud_M2MDataHandle, HeadIs, taskVars
  <1>2. QueueOK(queue) /\ "cloud" \in Task
    BY DEF TypeInv, Task
  <1>3. Ready
    BY <1>1, <1>2, TakenHolds DEF Ready
  <1>4. Taken("cloud")["cloud"] = Tail(queue["cloud"])
        /\ queue["cloud"] \in Seq(Message)
    BY <1>1, <1>2, TakenHolds DEF QueueOK
  <1> QED
    BY <1>1, <1>2, <1>3, <1>4, <1>5, TakenKeeps, TailOnce DEF LoginInv, OpeningInv

\* What taking a login message, and nothing else of the queues, leaves.
LEMMA OpeningPast ==
    ASSUME TypeInv, LoginInv, Cloud_M2MDataHandle, queue' = Taken("cloud")
    PROVE  /\ OpeningInv' /\ ~Hinted'
           /\ Once(queue["cloud"], "MQTT_READY") => ~Ready'
           /\ Once(queue'["cloud"], "MQTT_READY") \/ ~Once(queue["cloud"], "MQTT_READY")
           /\ Holds(queue'["main"], "HEARTBEAT_READY")
                 => Holds(queue["main"], "HEARTBEAT_READY")
  <1>1. /\ ~Opening /\ Keeps(queue, queue')
        /\ UNCHANGED <<phase, gprs, CloudStatus, socket, m2m_result, heartbeat>>
        /\ Once(queue["cloud"], "MQTT_READY") => ~Ready'
    BY MessageTaken DEF Ready
  <1>2. ~Hinted'
    BY <1>1 DEF Keeps, Opening, Hinted
  <1>3. ~Opening'
    BY <1>1, <1>2 DEF Opening
  <1>4. Once(queue'["cloud"], "GPRS_OK_HINT")
    BY <1>2 DEF Hinted, Once, Holds
  <1>5. OpeningInv'
    BY <1>3, <1>4 DEF OpeningInv, Opening
  <1> QED
    BY <1>1, <1>2, <1>5 DEF Keeps

LEMMA FailedKeepsLogin ==
    ASSUME TypeInv, LoginInv, StatusInv, Cloud_M2MDataHandle, LoginFailed,
           status \in {"start", "resLogin", "topic1", "topic2", "topic3"},
           status = "start" \/ m2m_result # 0
    PROVE  LoginInv'
  <1>1. /\ mqttstatus' = "start" /\ queue' = Taken("cloud")
        /\ UNCHANGED <<netVars, awaited, stray>>
    BY DEF LoginFailed
  <1>2. /\ Ready /\ (status = mqttstatus \/ LoggedIn)
        /\ UNCHANGED <<phase, gprs, CloudStatus, socket, m2m_result, heartbeat>>
    BY MessageTaken
  <1>3. /\ OpeningInv' /\ (Once(queue["cloud"], "MQTT_READY") => ~Ready')
        /\ Once(queue'["cloud"], "MQTT_READY") \/ ~Once(queue["cloud"], "MQTT_READY")
        /\ Holds(queue'["main"], "HEARTBEAT_READY")
              => Holds(queue["main"], "HEARTBEAT_READY")
    BY <1>1, OpeningPast
  <1>4. ConnectionInv'
    BY <1>1, <1>2 DEF LoginInv, ConnectionInv, LoggedIn, netVars
  <1>5. TokenInv'
    <2>1. SUFFICES ASSUME ~broker.accepted PROVE TokenInv'
      BY <1>1 DEF TokenInv, netVars
    <2>2. Once(queue["cloud"], "MQTT_READY") /\ ~Holds(net, Refused)
          /\ Once(net, Refused) /\ net \in Seq({Refused, Closed})
          /\ broker.asked = {}
      BY <1>2, <2>1 DEF LoginInv, TokenInv, LoggedIn
    <2> QED
      BY <1>1, <1>3, <2>1, <2>2 DEF TokenInv, netVars
  <1>6. StepsInv'
    <2>1. LoggedIn <=> LoggedIn'
      BY <1>1 DEF LoggedIn, netVars
    <2>2. ASSUME broker.accepted, ~LoggedIn PROVE LoggingIn'
      <3>1. LoggingIn
        BY <2>2 DEF LoginInv, StepsInv
      <3>2. socket # "open"
        BY <1>2, <2>2, <3>1 DEF LoggingIn, TypeInv, LoginType
      <3>3. net' = <<>>
        BY <1>1, <3>2 DEF LoginInv, ConnectionInv, netVars
      <3>4. Level' = 0
        BY <1>1 DEF Level
      <3>5. \A x : ~Holds(<<>>, x) /\ Once(<<>>, x)
        BY DEF Holds, Once
      <3>6. DOMAIN <<>> = {} /\ 1 .. 0 = {} /\ 1 .. 0 - 1 = {}
        BY SMT
      <3> QED
        BY <1>1, <1>2, <3>1, <3>2, <3>3, <3>4, <3>5, <3>6 DEF LoggingIn
    <2> QED
      BY <1>1, <1>2, <1>3, <2>1, <2>2 DEF LoginInv, StepsInv, netVars
  <1> QED
    BY <1>1, <1>3, <1>4, <1>5, <1>6 DEF LoginInv

\* CONNECT is sent.
LEMMA ConnectKeepsLogin ==
    ASSUME TypeInv, LoginInv, StatusInv, Cloud_M2MDataHandle, status = "start",
           CanConnect, BrokerConnect, mqttstatus' = "resLogin", mqtt' = NoTimer,
           queue' = Taken("cloud"), awaited' = TRUE,
           UNCHANGED <<mqttMsgsubid, stray>>
    PROVE  LoginInv'
  <1>1. /\ Ready /\ socket = "open" /\ (mqttstatus = "start" \/ LoggedIn)
        /\ UNCHANGED <<phase, gprs, CloudStatus, socket, m2m_result, heartbeat>>
    BY MessageTaken DEF CanConnect
  <1>2. /\ OpeningInv' /\ ~Hinted' /\ (Once(queue["cloud"], "MQTT_READY") => ~Ready')
        /\ Once(queue'["cloud"], "MQTT_READY") \/ ~Once(queue["cloud"], "MQTT_READY")
        /\ Holds(queue'["main"], "HEARTBEAT_READY")
              => Holds(queue["main"], "HEARTBEAT_READY")
    BY OpeningPast
  <1>3. /\ CloudStatus = "ok"
        /\ m2m_result = -1 \/ Holds(net, Refused) => broker.closed
        /\ \A i \in DOMAIN net : net[i].type = "suback" => net[i].result <= mqttMsgsubid
    BY <1>1 DEF LoginInv, ConnectionInv, LoggedIn
  <1>4. net \in Seq(Packets) /\ ~mqtt'.on
    BY DEF TypeInv, NetType, NoTimer
  <1>5. broker.accepted => LoggedIn
    BY <1>1 DEF LoginInv, StepsInv, LoggingIn
  <1>6. ASSUME ~broker.accepted
        PROVE  /\ ~Ready' /\ ~Holds(net, Refused) /\ net \in Seq({Refused, Closed})
               /\ broker.asked = {} /\ Once(net, Refused) /\ ~LoggedIn
               /\ Once(queue'["cloud"], "MQTT_READY")
    BY <1>1, <1>2, <1>6 DEF LoginInv, TokenInv, LoggedIn
  <1>7. /\ \A i \in DOMAIN Append(net, Accepted) :
              \/ Append(net, Accepted)[i] = Accepted
              \/ i \in DOMAIN net /\ Append(net, Accepted)[i] = net[i]
        /\ \A i \in DOMAIN Append(net, Closed) :
              \/ Append(net, Closed)[i] = Closed
              \/ i \in DOMAIN net /\ Append(net, Closed)[i] = net[i]
        /\ net \o <<Accepted>> = Append(net, Accepted)
    BY <1>4, PacketAdded, PacketNames
  <1>8. CASE UNCHANGED <<net, broker>>
    <2>1. ConnectionInv'
      BY <1>1, <1>3, <1>8 DEF LoginInv, ConnectionInv
    <2>2. CASE broker.accepted
      <3>1. LoggedIn'
        BY <1>5, <1>8, <2>2 DEF LoggedIn
      <3> QED
        BY <1>1, <1>2, <2>1, <2>2, <3>1, LoggedInSteps DEF LoginInv, Hinted
    <2>3. CASE ~broker.accepted
      <3>1. TokenInv'
        BY <1>2, <1>4, <1>6, <1>8, <2>3 DEF TokenInv
      <3>2. StepsInv'
        BY <1>1, <1>2, <1>6, <1>8, <2>3 DEF LoginInv, StepsInv
      <3> QED
        BY <1>2, <2>1, <3>1, <3>2 DEF LoginInv
    <2> QED
      BY <2>2, <2>3
  <1>9. CASE /\ broker.accepted /\ net' = Append(net, Closed)
             /\ broker' = [broker EXCEPT !.closed = TRUE]
    <2>1. /\ broker'.closed /\ broker'.accepted = broker.accepted
          /\ broker'.asked = broker.asked
      BY <1>9 DEF TypeInv, NetType
    <2>2. ConnectionInv'
      BY <1>1, <1>3, <1>7, <1>9, <2>1, PacketNames DEF LoginInv, ConnectionInv
    <2>3. LoggedIn'
      BY <1>5, <1>9, <2>1 DEF LoggedIn
    <2> QED
      BY <1>1, <1>2, <1>9, <2>2, <2>3, LoggedInSteps DEF LoginInv, Hinted
  <1>10. CASE /\ ~broker.accepted /\ ~broker.closed
              /\ net' \in {net, Append(net, Accepted)}
              /\ broker' = [broker EXCEPT !.accepted = TRUE]
    <2>1. /\ broker'.accepted /\ broker'.closed = broker.closed
          /\ broker'.asked = {}
      BY <1>6, <1>10 DEF TypeInv, NetType
    <2>2. m2m_result # -1 /\ ~Holds(net, Refused)
      BY <1>3, <1>10
    <2>3. ~Holds(net, Accepted)
      BY <1>6, <1>10, PacketNames DEF Holds
    <2>4. ~Holds(net', Refused) /\ Once(net', Accepted)
      <3>1. Once(net, Accepted)
        BY <2>3 DEF Holds, Once
      <3>2. Once(Append(net, Accepted), Accepted)
        BY <1>4, <2>3, <3>1, AppendOnce, PacketNames
      <3>3. ~Holds(Append(net, Accepted), Refused)
        BY <1>4, <2>2, AppendHolds, PacketNames
      <3> QED
        BY <1>10, <2>2, <3>1, <3>2, <3>3
    <2>5. \A i \in DOMAIN net : net[i].type # "suback"
      BY <1>6, <1>10, PacketNames
    <2>6. \A i \in DOMAIN net' : net'[i].type # "suback"
      BY <1>7, <1>10, <2>5, PacketNames
    <2>7. ConnectionInv'
      BY <1>1, <1>3, <2>2, <2>4, <2>6 DEF LoginInv, ConnectionInv
    <2>8. TokenInv'
      BY <2>1 DEF TokenInv
    <2>9. LoggingIn'
      <3>1. Level' = 0
        BY DEF Level
      <3>2. 1 .. 0 = {} /\ 1 .. 0 - 1 = {}
        BY SMT
      <3>3. awaited'
        OBVIOUS
      <3> QED
        BY <1>1, <2>2, <2>4, <2>6, <3>1, <3>2, <3>3 DEF LoggingIn
    <2>10. StepsInv'
      <3>1. ~heartbeat.on /\ ~Holds(queue["main"], "HEARTBEAT_READY")
        BY <1>6, <1>10 DEF LoginInv, StepsInv
      <3> QED
        BY <1>1, <1>2, <2>9, <3>1 DEF StepsInv
    <2> QED
      BY <1>2, <2>7, <2>8, <2>10 DEF LoginInv
  <1>11. CASE /\ ~broker.accepted
              /\ net' = net \o <<Refused, Closed>>
              /\ broker' = [broker EXCEPT !.closed = TRUE]
    <2>1. /\ broker'.closed /\ ~broker'.accepted /\ broker'.asked = {}
      BY <1>6, <1>11 DEF TypeInv, NetType
    <2> DEFINE mid == Append(net, Refused)
    <2>2. net \o <<Refused, Closed>> = Append(mid, Closed)
      <3> HIDE DEF Refused, Closed
      <3> QED
        BY <1>4, PacketNames, SMT
    <2>3. mid \in Seq({Refused, Closed}) /\ Append(mid, Closed) \in Seq({Refused, Closed})
      BY <1>6, <1>11, AppendProperties
    <2>4. Once(mid, Refused)
      BY <1>4, <1>6, <1>11, AppendOnce, PacketNames
    <2> HIDE DEF mid
    <2>5. Once(Append(mid, Closed), Refused)
      BY <2>3, <2>4, AppendOnce, PacketNames
    <2>6. net' \in Seq({Refused, Closed}) /\ Once(net', Refused)
      BY <1>11, <2>2, <2>3, <2>5
    <2>7. \A i \in DOMAIN net' : net'[i].type # "suback"
      BY <2>6, PacketNames
    <2>8. ConnectionInv'
      BY <1>1, <1>3, <2>1, <2>7 DEF LoginInv, ConnectionInv
    <2>9. TokenInv'
      BY <1>2, <1>4, <1>6, <1>11, <2>1, <2>6 DEF TokenInv
    <2>10. StepsInv'
      BY <1>1, <1>2, <1>6, <1>11, <2>1 DEF LoginInv, StepsInv
    <2> QED
      BY <1>2, <2>8, <2>9, <2>10 DEF LoginInv
  <1> QED
    <2>1. \/ UNCHANGED <<net, broker>>
          \/ /\ broker.accepted /\ net' = Append(net, Packet("close", 0))
             /\ broker' = [broker EXCEPT !.closed = TRUE]
          \/ /\ ~broker.accepted /\ ~broker.closed
             /\ net' \in {net, net \o <<Packet("connack", 0)>>}
             /\ broker' = [broker EXCEPT !.accepted = TRUE]
          \/ /\ ~broker.accepted
             /\ net' = net \o <<Packet("connack", -1), Packet("close", 0)>>
             /\ broker' = [broker EXCEPT !.closed = TRUE]
      BY DEF BrokerConnect, Answered, Listening
    <2> QED
      BY <1>7, <1>8, <1>9, <1>10, <1>11, <2>1 DEF Accepted, Refused, Closed

\* The next topic is subscribed.
LEMMA NextKeepsLogin ==
    ASSUME TypeInv, LoginInv, StatusInv, Cloud_M2MDataHandle, LoginNext,
           m2m_result = 0
    PROVE  LoginInv'
  <1> DEFINE n == StepAfter(status).topic
  <1>1. /\ status \in {"resLogin", "topic1", "topic2"}
        /\ n \in 1 .. 3
        /\ mqttstatus' = StepAfter(status).next
    BY DEF LoginNext, LoginStep, StepAfter
  <1>20. status = mqttstatus => n = Level + 1 /\ Level \in 0 .. 2
    BY <1>1 DEF LoginStep, StepAfter, Level
  <1>2. Level' = n /\ mqttstatus' \in {"topic1", "topic2", "topic3"}
    BY <1>1 DEF LoginStep, StepAfter, Level
  <1>3. /\ queue' = Taken("cloud") /\ awaited' = TRUE
        /\ stray' = (stray \/ awaited) /\ mqttMsgsubid' = mqttMsgsubid + 1
        /\ Subscribe(n)
    BY DEF LoginNext, Subscribe
  <1>4. /\ Ready /\ (status = mqttstatus \/ LoggedIn)
        /\ UNCHANGED <<phase, gprs, CloudStatus, socket, m2m_result, heartbeat>>
    BY MessageTaken
  <1>5. OpeningInv' /\ ~Hinted'
        /\ (Holds(queue'["main"], "HEARTBEAT_READY")
              => Holds(queue["main"], "HEARTBEAT_READY"))
    BY <1>3, OpeningPast
  <1>6. broker.accepted
    BY <1>1, <1>4 DEF LoginInv, TokenInv, LoggedIn
  <1> HIDE DEF n
  <1>7. net \in Seq(Packets) /\ mqttMsgsubid \in Nat
        /\ broker.asked \subseteq 1 .. 3
    BY DEF TypeInv, NetType
  <1> DEFINE p == Packet("suback", mqttMsgsubid + 1)
  <1>8. p \in Packets /\ p.type = "suback" /\ p.result = mqttMsgsubid + 1
    <2>1. mqttMsgsubid + 1 \in Nat
      BY <1>7
    <2> QED
      BY <2>1 DEF Packet, Packets
  <1>9. p # Refused /\ p # Accepted
    BY <1>8, PacketNames
  <1>10. \/ UNCHANGED <<net, broker>>
         \/ /\ socket = "open" /\ net' \in {net, Append(net, p)}
            /\ \/ broker' = [broker EXCEPT !.asked = @ \cup {n},
                                           !.granted = @ \cup {n}]
               \/ broker' = [broker EXCEPT !.asked = @ \cup {n}]
    <2>1. net \o <<p>> = Append(net, p)
      BY <1>7, <1>8, PacketAdded
    <2>2. \/ UNCHANGED <<net, broker>>
          \/ /\ socket = "open" /\ net' \in {net, Append(net, p), net \o <<p>>}
             /\ \/ broker' = [broker EXCEPT !.asked = @ \cup {n},
                                            !.granted = @ \cup {n}]
                \/ broker' = [broker EXCEPT !.asked = @ \cup {n}]
      BY <1>3 DEF Subscribe, BrokerSubscribe, Answered, Listening
    <2> QED
      BY <2>1, <2>2
  <1> HIDE DEF p
  <1>11. /\ broker'.accepted /\ broker'.closed = broker.closed
         /\ \/ net' = net /\ broker'.asked \in {broker.asked, broker.asked \cup {n}}
            \/ net' = Append(net, p) /\ broker'.asked = broker.asked \cup {n}
               /\ socket = "open"
    BY <1>6, <1>10 DEF TypeInv, NetType
  <1>12. \A i \in DOMAIN net' : \/ net'[i] = p /\ n \in broker'.asked
                                \/ i \in DOMAIN net /\ net'[i] = net[i]
    BY <1>7, <1>8, <1>11, PacketAdded
  <1>13. \A x \in {Refused, Accepted} : /\ Holds(net', x) => Holds(net, x)
                                        /\ Once(net, x) => Once(net', x)
    <2>1. \A x \in {Refused, Accepted} :
             /\ Holds(Append(net, p), x) => Holds(net, x)
             /\ Once(net, x) => Once(Append(net, p), x)
      BY <1>7, <1>8, <1>9, AppendHolds, AppendOnce
    <2>2. net' = net \/ net' = Append(net, p)
      BY <1>11
    <2> QED
      BY <2>1, <2>2
  <1>14. \A i \in DOMAIN net : net[i].type = "suback"
            => net[i].result <= mqttMsgsubid /\ net[i].result \in Nat
    BY <1>7 DEF LoginInv, ConnectionInv, Packets
  <1>15. \A i \in DOMAIN net : net[i].type = "suback"
            => net[i].result <= mqttMsgsubid + 1 /\ net[i].result # mqttMsgsubid + 1
    BY <1>7, <1>14
  <1>16. ConnectionInv'
    <2>1. \A i \in DOMAIN net' : net'[i].type = "suback" => net'[i].result <= mqttMsgsubid'
      BY <1>3, <1>7, <1>8, <1>12, <1>15
    <2> QED
      BY <1>1, <1>4, <1>6, <1>10, <1>11, <1>13, <2>1 DEF LoginInv, ConnectionInv
  <1>17. stray' \in BOOLEAN /\ awaited' \in BOOLEAN
    BY <1>3
  <1>18. CASE LoggedIn'
    BY <1>4, <1>5, <1>6, <1>16, <1>17, <1>18, LoggedInSteps DEF Hinted
  <1>19. CASE ~LoggedIn'
    <2>1. ~stray /\ ~awaited
      BY <1>3, <1>11, <1>19 DEF LoggedIn
    <2>2. ~LoggedIn
      <3>1. SUFFICES ASSUME LoggedIn PROVE FALSE
        OBVIOUS
      <3>2. broker.asked = 1 .. 3
        BY <2>1, <3>1 DEF LoggedIn
      <3>3. broker'.asked = 1 .. 3
        BY <1>1, <1>11, <3>2
      <3> QED
        BY <1>11, <1>19, <3>3 DEF LoggedIn
    <2>3. LoggingIn
      BY <1>6, <2>2 DEF LoginInv, StepsInv
    <2>4. 1 .. Level \subseteq broker.asked /\ ~Holds(net, Accepted)
          /\ ~Holds(net, Refused) /\ Once(net, Accepted)
      BY <2>1, <2>3 DEF LoggingIn
    <2>5. 1 .. Level' - 1 \subseteq broker'.asked
      <3>1. Level' - 1 = Level
        BY <1>2, <1>4, <1>20, <2>2
      <3> QED
        BY <1>11, <2>4, <3>1
    <2>6. \A i \in DOMAIN net' : net'[i].type = "suback" /\ net'[i].result = mqttMsgsubid'
                                    => Level' \in broker'.asked
      BY <1>2, <1>3, <1>12, <1>15
    <2>7. LoggingIn'
      BY <1>2, <1>3, <1>4, <1>13, <2>4, <2>5, <2>6 DEF LoggingIn
    <2>8. TokenInv'
      BY <1>11 DEF TokenInv
    <2>9. StepsInv'
      BY <1>2, <1>4, <1>5, <2>2, <2>7 DEF LoginInv, StepsInv
    <2> QED
      BY <1>5, <1>16, <1>17, <2>8, <2>9 DEF LoginInv
  <1> QED
    BY <1>18, <1>19

\* The last topic was answered.
LEMMA DoneKeepsLogin ==
    ASSUME TypeInv, LoginInv, StatusInv, Cloud_M2MDataHandle, LoginDone
    PROVE  LoginInv'
  <1>1. /\ status = "topic3" /\ mqttstatus' = "running"
        /\ stray' = (stray \/ awaited)
        /\ queue' = Posted(Taken("cloud"), "main", "HEARTBEAT_READY")
        /\ UNCHANGED <<netVars, awaited>>
    BY DEF LoginDone
  <1>2. /\ Ready /\ ~Opening /\ Keeps(queue, Taken("cloud"))
        /\ status = mqttstatus \/ LoggedIn
        /\ UNCHANGED <<phase, gprs, CloudStatus, socket, m2m_result, heartbeat>>
    BY MessageTaken
  <1>3. broker.accepted /\ broker'.accepted
    BY <1>1, <1>2 DEF LoginInv, TokenInv, LoggedIn, netVars
  <1>4. LoggedIn'
    <2>1. CASE LoggedIn \/ awaited
      BY <1>1, <1>3, <2>1 DEF LoggedIn, netVars
    <2>2. CASE ~LoggedIn /\ ~awaited
      <3>1. Level = 3
        BY <1>1, <1>2, <2>2 DEF Level
      <3>2. 1 .. 3 \subseteq broker.asked
        BY <1>3, <2>2, <3>1 DEF LoginInv, StepsInv, LoggingIn
      <3>3. broker.asked \subseteq 1 .. 3
        BY DEF TypeInv, NetType
      <3>4. broker.asked = 1 .. 3
        BY <3>2, <3>3
      <3> QED
        BY <1>3, <2>2, <3>4 DEF LoggedIn
    <2> QED
      BY <2>1, <2>2
  <1>5. ConnectionInv'
    BY <1>1, <1>2, <1>3 DEF LoginInv, ConnectionInv, netVars
  <1>6. ~Holds(queue'["cloud"], "GPRS_OK_HINT")
    <2>1. QueueOK(queue) /\ queue["cloud"] # <<>> /\ "cloud" \in Task /\ "main" \in Task
          /\ "HEARTBEAT_READY" \in Message
      BY DEF TypeInv, Cloud_M2MDataHandle, HeadIs, Task, Message
    <2>2. QueueOK(Taken("cloud"))
      BY <2>1, TakenOK
    <2>3. "cloud" # "main"
            => Posted(Taken("cloud"), "main", "HEARTBEAT_READY")["cloud"]
                  = Taken("cloud")["cloud"]
      BY <2>1, <2>2, PostedHolds
    <2>4. ~Holds(Taken("cloud")["cloud"], "GPRS_OK_HINT")
      BY <1>2 DEF Keeps, Opening, Hinted
    <2> QED
      BY <1>1, <2>3, <2>4
  <1>7. stray' \in BOOLEAN /\ awaited' \in BOOLEAN
    BY <1>1 DEF LoginInv
  <1> QED
    BY <1>2, <1>3, <1>4, <1>5, <1>6, <1>7, LoggedInSteps

LEMMA MessageKeepsLogin ==
    ASSUME TypeInv, LoginInv, StatusInv, Cloud_M2MDataHandle
    PROVE  LoginInv'
  <1>1. /\ Ready /\ Keeps(queue, Taken("cloud"))
        /\ UNCHANGED <<phase, gprs, CloudStatus, socket, m2m_result, heartbeat>>
    BY MessageTaken
  <1>2. CASE status = "start" /\ LoginStart
    <2>1. CASE LoginFailed
      BY <1>2, <2>1, FailedKeepsLogin
    <2>2. CASE ~LoginFailed
      BY <1>2, <2>2, ConnectKeepsLogin DEF LoginStart
    <2> QED
      BY <2>1, <2>2
  <1>3. CASE LoginAnswer
    <2>1. status \in {"resLogin", "topic1", "topic2", "topic3"}
      BY <1>3 DEF LoginAnswer, LoginStep
    <2>2. CASE m2m_result # 0
      BY <1>3, <2>1, <2>2, FailedKeepsLogin DEF LoginAnswer
    <2>3. CASE m2m_result = 0
      BY <1>3, <2>3, NextKeepsLogin, DoneKeepsLogin DEF LoginAnswer
    <2> QED
      BY <2>2, <2>3
  <1>4. CASE /\ queue' = Taken("cloud")
             /\ UNCHANGED <<mqttstatus, mqtt, netVars, awaited, stray>>
    BY <1>1, <1>4, Bystander
  <1> QED
    BY <1>2, <1>3, <1>4 DEF Cloud_M2MDataHandle, Dispatch

LEMMA LoginInductive ==
    TypeInv /\ InfoInv /\ StatusInv /\ LoginInv /\ [Next]_vars => LoginInv'
  <1> SUFFICES ASSUME TypeInv, InfoInv, StatusInv, LoginInv, [Next]_vars
               PROVE  LoginInv'
    OBVIOUS
  <1>1. CASE ReceiveAck \/ MainTask \/ Boot
    BY <1>1, AckKeepsLogin, MainKeepsLogin, BootStartsLogin
  <1>2. CASE Wait("mcu") \/ GprsOkHint \/ Cloud_ConfigDataHandle
    BY <1>2, HintStartsLogin, HintOpens, ConfigKeepsLogin
  <1>3. CASE Callback_GPRS_Actived \/ SocketConnected \/ NetRead
    BY <1>3, BearerKeepsLogin, SocketKeepsLogin, ReadKeepsLogin
  <1>4. CASE Timer_MQTT_Connect_Handler \/ Timer_Cloud_HeartBeat_Handler
             \/ ReceiveReport
    BY <1>4, RetryKeepsLogin, BeatKeepsLogin, ReportKeepsLogin
  <1>5. CASE BrokerPublish \/ BrokerClose \/ CloudPing \/ Cloud_M2MDataHandle
    BY <1>5, BrokerKeepsLogin, MessageKeepsLogin
  <1> QED
    BY <1>1, <1>2, <1>3, <1>4, <1>5, Steps, LoginUntouched

\* The status RUNNING means that the broker accepted this device on this
\* connection and was asked for the three topics in turn, unless another message
\* was taken for one of its answers: through refusals, retries of the timer,
\* packets that are lost, and heartbeats that start the login anew, also while
\* an answer is at work.  What the broker said of a topic does not count.
THEOREM CloudRunningMeansLoggedIn == Spec => []RunningMeansLoggedIn
  <1>1. TypeInv /\ InfoInv /\ StatusInv /\ LoginInv /\ [Next]_vars
            => TypeInv' /\ InfoInv' /\ StatusInv' /\ LoginInv'
    BY TypeStep, InfoStep, StatusStep, LoginInductive
  <1>2. LoginInv => RunningMeansLoggedIn
    BY DEF LoginInv, StepsInv, LoggedIn, RunningMeansLoggedIn
  <1>3. Init => StatusInv
    BY DEF Init, StatusInv
  <1> QED
    BY <1>1, <1>2, <1>3, TypeInit, InfoInit, NoLoginYet, PTL DEF Spec
=============================================================================
