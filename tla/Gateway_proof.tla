---------------------------- MODULE Gateway_proof ----------------------------
(***************************************************************************)
(* Proofs about the gateway, for every set of short messages and storage   *)
(* indexes and every size of the queues.                                   *)
(*                                                                         *)
(* The steps of Next fall into four groups (events, the state machine, the *)
(* pump, the return of an AT command); each lemma treats one part of an    *)
(* invariant and goes through these groups.                                *)
(*                                                                         *)
(* The second half proves that the gateway hands every incoming short      *)
(* message to the broker at most once and does with it what SmsRelay says, *)
(* and that it sends no more short messages than +QMTRECV came.  A message *)
(* goes through five places on its way: its index is announced in the main *)
(* task's queue, listed in g_sms_idx_q, read into g_cmgr, marked for       *)
(* deletion, and its text waits in g_pub_q.  The invariants say that no    *)
(* index is in two of these places and no text waits twice.                *)
(***************************************************************************)
EXTENDS Gateway, FiniteSetTheorems, FunctionTheorems, TLAPS

USE DEF mainVars, mqttVars, ussdVars, uplinkVars, urcVars, modemVars,
        uphistVars, dnhistVars

Events == Urc \/ Dispatch \/ AfterMessage \/ Tick

LEMMA NextGroups ==
    Next <=> \/ Events \/ StateMachine_1s \/ Pump_Ready
             \/ \E final \in Finals : AtReturns(final)
  BY DEF Next, Events

\* What every return of an AT command does.
LEMMA AtReturnsFrame ==
    ASSUME NEW final \in Finals, AtReturns(final)
    PROVE  /\ pc = "at" /\ pc' = "loop" /\ at' = NoAt
           /\ g_at_busy' = StillBusy(final)
           /\ UNCHANGED <<timer, g_tick100, g_mqtt_msgid, ussdVars, g_sms_idx_q,
                          urcVars, uphistVars, received, simReady>>
  BY DEF AtReturns, Return, ReturnCusd, ReturnMqtt, ReturnSend,
        ReturnDelete, DeleteIdxAfter, ReturnRead, ReturnPublish, ReturnHeartbeat

-----------------------------------------------------------------------------
(* The queues.                                                             *)

\* A push keeps a bounded queue bounded and of its type.
LEMMA EnqueueType ==
    ASSUME NEW T, NEW cap \in Nat, NEW q \in Queue(T, cap), NEW v \in T
    PROVE  Enqueue(q, v, cap) \in Queue(T, cap)
  BY DEF Enqueue, Queue

\* A pop keeps it so, and hands out something of its type.
LEMMA TailType ==
    ASSUME NEW T, NEW cap \in Nat, NEW q \in Queue(T, cap), q # <<>>
    PROVE  Head(q) \in T /\ Tail(q) \in Queue(T, cap)
  BY DEF Queue

LEMMA EmptyType ==
    ASSUME NEW T, NEW cap \in Nat
    PROVE  <<>> \in Queue(T, cap)
  BY DEF Queue

LEMMA Capacities ==
    /\ SmsIdxCap \in Nat /\ PubCap \in Nat /\ SmsTxCap \in Nat
    /\ MsgQueueCap \in Nat
  BY GatewayAssumption

LEMMA Numbers ==
    /\ TicksPerSec \in Nat /\ TicksPerSec > 0
    /\ UssdTimeoutSec \in Nat
    /\ MsgIdMod \in Nat /\ MsgIdMod > 1
  BY GatewayAssumption

-----------------------------------------------------------------------------
(* The type invariant.                                                     *)

LEMMA TypeInit == Init => TypeOK
  <1> SUFFICES ASSUME Init PROVE TypeOK
    OBVIOUS
  <1>1. MainTypeOK /\ ModemTypeOK
    BY DEF Init, MainTypeOK, ModemTypeOK, States
  <1>2. AtTypeOK
    BY DEF Init, AtTypeOK, NoAt
  <1>3. CountTypeOK
    BY Numbers DEF Init, CountTypeOK
  <1>4. MqttTypeOK
    BY DEF Init, MqttTypeOK, NoMqtt
  <1>5. UssdTypeOK
    BY DEF Init, UssdTypeOK, NoUssd
  <1>6. QueueTypeOK
    BY Capacities, EmptyType DEF Init, QueueTypeOK
  <1>7. SmsTypeOK
    BY DEF Init, SmsTypeOK, NoCmgr
  <1> QED
    BY <1>1, <1>2, <1>3, <1>4, <1>5, <1>6, <1>7 DEF TypeOK

LEMMA MainTypeStep ==
    ASSUME TypeOK, Next
    PROVE  MainTypeOK'
  <1> USE DEF TypeOK, MainTypeOK
  <1>1. CASE Urc \/ Dispatch \/ AfterMessage
    BY <1>1 DEF Urc, UrcSimReady, UrcNewSms, UrcMqttRecv, UrcUssd, UrcOther, Dispatch,
        OnSimReady, OnNewSms, OnMqttRecv, OnUssdRecv, OnOther, Receive,
        AfterMessage, Tick, BootState, States
  <1>2. CASE Tick
    BY <1>2 DEF Tick
  <1>3. CASE StateMachine_1s
    BY <1>3 DEF StateMachine_1s, WaitReg, UssdReq, UssdWait, UssdSms, Pdp, MqttCfg,
        MqttOpen, MqttConn, MqttSub, MqttStep, NothingToDo, LinkBusy, Second,
        Leave, Send, SendPersianSms,
        AfterWait, States
  <1>4. CASE Pump_Ready
    BY <1>4 DEF Pump_Ready, PumpSend, PumpDelete, PumpRead, PumpPublish, PumpHeartbeat,
        PumpNothing, Send
  <1>5. ASSUME NEW final \in Finals, AtReturns(final) PROVE MainTypeOK'
    <2>1. timer' = timer /\ pc' = "loop" /\ g_at_busy' \in BOOLEAN
      BY <1>5, AtReturnsFrame DEF StillBusy
    <2>2. g_state' \in States
      BY <1>5 DEF AtReturns, Return, ReturnCusd, ReturnMqtt, ReturnSend,
        ReturnDelete, DeleteIdxAfter, ReturnRead, ReturnPublish, ReturnHeartbeat, States
    <2> QED
      BY <2>1, <2>2
  <1> QED
    BY <1>1, <1>2, <1>3, <1>4, <1>5, NextGroups DEF Events

LEMMA AtTypeStep ==
    ASSUME TypeOK, Next
    PROVE  AtTypeOK'
  <1> USE DEF TypeOK, MainTypeOK, AtTypeOK
  <1>1. CASE Events
    <2>1. at' = at /\ (pc' = "at" <=> pc = "at")
      BY <1>1 DEF Events, Urc, UrcSimReady, UrcNewSms, UrcMqttRecv, UrcUssd, UrcOther, Dispatch,
        OnSimReady, OnNewSms, OnMqttRecv, OnUssdRecv, OnOther, Receive,
        AfterMessage, Tick
    <2>2. at.cmd # "none" => UNCHANGED <<g_sms_tx_q, g_pub_q>>
      BY <1>1 DEF Events, Urc, UrcSimReady, UrcNewSms, UrcMqttRecv, UrcUssd, UrcOther, Dispatch,
        OnSimReady, OnNewSms, OnMqttRecv, OnUssdRecv, OnOther, Receive,
        AfterMessage, Tick
    <2> QED
      BY <2>1, <2>2
  <1>2. CASE StateMachine_1s
    BY <1>2 DEF StateMachine_1s, WaitReg, UssdReq, UssdWait, UssdSms, Pdp, MqttCfg,
        MqttOpen, MqttConn, MqttSub, MqttStep, NothingToDo, LinkBusy, Second,
        Leave, Send, SendPersianSms,
        AfterWait, Commands
  <1>3. CASE Pump_Ready
    <2>1. CASE PumpSend
      BY <2>1 DEF PumpSend, Send, Commands
    <2>2. CASE PumpDelete
      <3>1. g_sms_delete_idx \in Slot /\ g_sms_delete_idx \in Nat
        BY <2>2, GatewayAssumption DEF PumpDelete, SmsTypeOK
      <3> QED
        BY <2>2, <3>1 DEF PumpDelete, Send, Commands
    <2>3. CASE PumpRead
      <3>1. Head(g_sms_idx_q) \in Slot /\ Head(g_sms_idx_q) \in Nat
        BY <2>3, TailType, Capacities, GatewayAssumption DEF PumpRead, QueueTypeOK
      <3> QED
        BY <2>3, <3>1 DEF PumpRead, Send, Commands
    <2>4. CASE PumpPublish \/ PumpHeartbeat
      <3>1. g_mqtt_msgid \in Nat
        BY DEF CountTypeOK
      <3> QED
        BY <2>4, <3>1 DEF PumpPublish, PumpHeartbeat, Send, Commands
    <2>5. CASE PumpNothing
      BY <2>5 DEF PumpNothing
    <2> QED
      BY <1>3, <2>1, <2>2, <2>3, <2>4, <2>5 DEF Pump_Ready
  <1>4. ASSUME NEW final \in Finals, AtReturns(final) PROVE AtTypeOK'
    BY <1>4, AtReturnsFrame DEF NoAt
  <1> QED
    BY <1>1, <1>2, <1>3, <1>4, NextGroups

LEMMA MqttTypeStep ==
    ASSUME TypeOK, Next
    PROVE  MqttTypeOK'
  <1> USE DEF TypeOK, MqttTypeOK
  <1>1. CASE Events
    <2>1. CASE OnSimReady
      BY <2>1 DEF OnSimReady, Receive, NoMqtt
    <2>2. CASE ~OnSimReady
      BY <1>1, <2>2 DEF Events, Urc, UrcSimReady, UrcNewSms, UrcMqttRecv, UrcUssd, UrcOther, Dispatch,
        OnSimReady, OnNewSms, OnMqttRecv, OnUssdRecv, OnOther, Receive,
        AfterMessage, Tick
    <2> QED
      BY <2>1, <2>2
  <1>2. CASE StateMachine_1s
    <2>1. CASE MqttCfg
      BY <2>1 DEF MqttCfg, Second, NoMqtt
    <2>2. CASE MqttOpen \/ MqttConn \/ MqttSub
      BY <2>2 DEF MqttOpen, MqttConn, MqttSub, MqttStep, Second, Send, Leave
    <2>3. CASE ~(MqttCfg \/ MqttOpen \/ MqttConn \/ MqttSub)
      BY <1>2, <2>3 DEF StateMachine_1s, WaitReg, UssdReq, UssdWait, UssdSms, Pdp, MqttCfg,
        MqttOpen, MqttConn, MqttSub, MqttStep, NothingToDo, LinkBusy, Second,
        Leave, Send, SendPersianSms
    <2> QED
      BY <2>1, <2>2, <2>3
  <1>3. CASE Pump_Ready
    BY <1>3 DEF Pump_Ready, PumpSend, PumpDelete, PumpRead, PumpPublish, PumpHeartbeat,
        PumpNothing, Send
  <1>4. ASSUME NEW final \in Finals, AtReturns(final) PROVE MqttTypeOK'
    <2>1. CASE ReturnMqtt(final)
      <3>1. /\ Flag(mqtt.open, final) \in BOOLEAN
            /\ Flag(mqtt.conn, final) \in BOOLEAN
            /\ Flag(mqtt.sub, final) \in BOOLEAN
        BY DEF Flag
      <3> QED
        BY <2>1, <3>1 DEF ReturnMqtt, Return
    <2>2. CASE ~ReturnMqtt(final)
      BY <1>4, <2>2 DEF AtReturns, Return, ReturnCusd, ReturnMqtt, ReturnSend,
        ReturnDelete, DeleteIdxAfter, ReturnRead, ReturnPublish, ReturnHeartbeat
    <2> QED
      BY <2>1, <2>2
  <1> QED
    BY <1>1, <1>2, <1>3, <1>4, NextGroups

LEMMA UssdTypeStep ==
    ASSUME TypeOK, Next
    PROVE  UssdTypeOK'
  <1> USE DEF TypeOK, UssdTypeOK
  <1>1. CASE Events
    <2>1. CASE OnSimReady
      BY <2>1 DEF OnSimReady, Receive, NoUssd
    <2>2. CASE OnUssdRecv
      BY <2>2 DEF OnUssdRecv, Receive
    <2>3. CASE ~(OnSimReady \/ OnUssdRecv)
      BY <1>1, <2>3 DEF Events, Urc, UrcSimReady, UrcNewSms, UrcMqttRecv, UrcUssd, UrcOther, Dispatch,
        OnSimReady, OnNewSms, OnMqttRecv, OnUssdRecv, OnOther, Receive,
        AfterMessage, Tick
    <2> QED
      BY <2>1, <2>2, <2>3
  <1>2. CASE StateMachine_1s
    <2>1. CASE UssdReq
      BY <2>1 DEF UssdReq, Second, NoUssd
    <2>2. ASSUME NEW result \in {"ok", "fail", "busy"}, UssdSms(result)
          PROVE  UssdTypeOK'
      BY <2>2 DEF UssdSms, Second, SendPersianSms
    <2>3. CASE ~UssdReq /\ ~\E result \in {"ok", "fail", "busy"} : UssdSms(result)
      BY <1>2, <2>3 DEF StateMachine_1s, WaitReg, UssdReq, UssdWait, UssdSms, Pdp, MqttCfg,
        MqttOpen, MqttConn, MqttSub, MqttStep, NothingToDo, LinkBusy, Second,
        Leave, Send, SendPersianSms
    <2> QED
      BY <2>1, <2>2, <2>3
  <1>3. CASE Pump_Ready
    BY <1>3 DEF Pump_Ready, PumpSend, PumpDelete, PumpRead, PumpPublish, PumpHeartbeat,
        PumpNothing, Send
  <1>4. ASSUME NEW final \in Finals, AtReturns(final) PROVE UssdTypeOK'
    BY <1>4 DEF AtReturns, Return, ReturnCusd, ReturnMqtt, ReturnSend,
        ReturnDelete, DeleteIdxAfter, ReturnRead, ReturnPublish, ReturnHeartbeat
  <1> QED
    BY <1>1, <1>2, <1>3, <1>4, NextGroups

LEMMA ModemTypeStep ==
    ASSUME TypeOK, Next
    PROVE  ModemTypeOK'
  <1> USE DEF TypeOK, ModemTypeOK
  <1>1. CASE Events
    BY <1>1 DEF Events, Urc, UrcSimReady, UrcNewSms, UrcMqttRecv, UrcUssd, UrcOther, Dispatch,
        OnSimReady, OnNewSms, OnMqttRecv, OnUssdRecv, OnOther, Receive,
        AfterMessage, Tick
  <1>2. CASE StateMachine_1s
    BY <1>2 DEF StateMachine_1s, WaitReg, UssdReq, UssdWait, UssdSms, Pdp, MqttCfg,
        MqttOpen, MqttConn, MqttSub, MqttStep, NothingToDo, LinkBusy, Second,
        Leave, Send, SendPersianSms
  <1>3. CASE Pump_Ready
    BY <1>3 DEF Pump_Ready, PumpSend, PumpDelete, PumpRead, PumpPublish, PumpHeartbeat,
        PumpNothing, Send
  <1>4. ASSUME NEW final \in Finals, AtReturns(final) PROVE ModemTypeOK'
    BY <1>4 DEF AtReturns, Return, ReturnCusd, ReturnMqtt, ReturnSend,
        ReturnDelete, DeleteIdxAfter, ReturnRead, ReturnPublish, ReturnHeartbeat
  <1> QED
    BY <1>1, <1>2, <1>3, <1>4, NextGroups

LEMMA CountTypeStep ==
    ASSUME TypeOK, Next
    PROVE  CountTypeOK'
  <1> USE Numbers DEF TypeOK, CountTypeOK
  <1>0. /\ NextMsgId \in 1 .. MsgIdMod - 1
        /\ (g_tick100 + 1) % TicksPerSec \in 0 .. TicksPerSec - 1
    BY DEF NextMsgId
  <1>1. CASE Events
    <2>1. CASE Tick
      BY <1>0, <2>1 DEF Tick
    <2>2. CASE OnSimReady
      BY <2>2 DEF OnSimReady, Receive
    <2>3. CASE ~Tick /\ ~OnSimReady
      <3>1. /\ UNCHANGED <<g_tick100, g_mqtt_msgid, waited, smsOut>>
            /\ received' \in {received, received + 1}
            /\ simReady' \in {simReady, simReady + 1}
        BY <1>1, <2>3 DEF Events, Urc, UrcSimReady, UrcNewSms, UrcMqttRecv, UrcUssd, UrcOther, Dispatch,
        OnSimReady, OnNewSms, OnMqttRecv, OnUssdRecv, OnOther, Receive,
        AfterMessage, Tick, Counted
      <3> QED
        BY <3>1
    <2> QED
      BY <2>1, <2>2, <2>3
  <1>2. CASE StateMachine_1s
    BY <1>2 DEF StateMachine_1s, WaitReg, UssdReq, UssdWait, UssdSms, Pdp, MqttCfg,
        MqttOpen, MqttConn, MqttSub, MqttStep, NothingToDo, LinkBusy, Second,
        Leave, Send, SendPersianSms,
        CountSecond
  <1>3. CASE Pump_Ready
    BY <1>0, <1>3 DEF Pump_Ready, PumpSend, PumpDelete, PumpRead, PumpPublish, PumpHeartbeat,
        PumpNothing, Send
  <1>4. ASSUME NEW final \in Finals, AtReturns(final) PROVE CountTypeOK'
    <2>1. waited' = waited /\ smsOut' \in {smsOut, smsOut + 1}
      BY <1>4 DEF AtReturns, Return, ReturnCusd, ReturnMqtt, ReturnSend, Counted,
        ReturnDelete, DeleteIdxAfter, ReturnRead, ReturnPublish, ReturnHeartbeat
    <2> QED
      BY <1>4, <2>1, AtReturnsFrame
  <1> QED
    BY <1>1, <1>2, <1>3, <1>4, NextGroups
\* How the end of a turn, the pump and a returning command change the queues.
LEMMA AfterMessagePush ==
    ASSUME AfterMessage, g_pub_q' # g_pub_q
    PROVE  g_cmgr.msg # NoSms /\ g_pub_q' = Enqueue(g_pub_q, g_cmgr.msg, PubCap)
  BY DEF AfterMessage

LEMMA PumpPop ==
    ASSUME Pump_Ready, g_sms_idx_q' # g_sms_idx_q
    PROVE  g_sms_idx_q # <<>> /\ g_sms_idx_q' = Tail(g_sms_idx_q)
  BY DEF Pump_Ready, PumpSend, PumpDelete, PumpRead, PumpPublish, PumpHeartbeat,
        PumpNothing, Send

LEMMA PublishPop ==
    ASSUME NEW final \in Finals, AtReturns(final), g_pub_q' # g_pub_q
    PROVE  at.cmd = "PUB" /\ g_pub_q' = Tail(g_pub_q)
  BY DEF AtReturns, Return, ReturnCusd, ReturnMqtt, ReturnSend,
        ReturnDelete, DeleteIdxAfter, ReturnRead, ReturnPublish, ReturnHeartbeat, Popped

LEMMA SendPop ==
    ASSUME NEW final \in Finals, AtReturns(final), g_sms_tx_q' # g_sms_tx_q
    PROVE  at.cmd = "CMGS" /\ g_sms_tx_q' = Tail(g_sms_tx_q)
  BY DEF AtReturns, Return, ReturnCusd, ReturnMqtt, ReturnSend,
        ReturnDelete, DeleteIdxAfter, ReturnRead, ReturnPublish, ReturnHeartbeat, Popped

LEMMA QueueTypeStep ==
    ASSUME TypeOK, Next
    PROVE  QueueTypeOK'
  <1> USE Capacities DEF TypeOK, QueueTypeOK
  <1>1. CASE Events
    <2>1. CASE Urc
      <3>1. msgQ' \in Queue(Messages, MsgQueueCap)
        <4>1. ASSUME NEW m \in Messages, Post(m)
              PROVE  msgQ' \in Queue(Messages, MsgQueueCap)
          BY <4>1, EnqueueType DEF Post
        <4>2. \E m \in Messages : Post(m)
          BY <2>1 DEF Urc, UrcSimReady, UrcNewSms, UrcMqttRecv, UrcUssd, UrcOther,
             Messages
        <4> QED
          BY <4>1, <4>2
      <3>2. UNCHANGED <<g_sms_idx_q, g_pub_q, g_sms_tx_q>>
        BY <2>1 DEF Urc, UrcSimReady, UrcNewSms, UrcMqttRecv, UrcUssd, UrcOther
      <3> QED
        BY <3>1, <3>2
    <2>2. CASE Dispatch
      <3>1. /\ msgQ # <<>> /\ msgQ' = Tail(msgQ)
        BY <2>2 DEF Dispatch, OnSimReady, OnNewSms, OnMqttRecv, OnUssdRecv, OnOther,
           Receive
      <3>2. Head(msgQ) \in Messages /\ msgQ' \in Queue(Messages, MsgQueueCap)
        BY <3>1, TailType
      <3>3. CASE OnSimReady
        BY <3>2, <3>3, EmptyType DEF OnSimReady
      <3>4. CASE OnNewSms
        <4>1. Head(msgQ).idx \in Slot
          BY <3>2, <3>4 DEF OnNewSms, Receive, Messages
        <4> QED
          BY <3>2, <3>4, <4>1, EnqueueType DEF OnNewSms
      <3>5. CASE OnMqttRecv
        BY <3>2, <3>5, EnqueueType DEF OnMqttRecv
      <3>6. CASE OnUssdRecv \/ OnOther
        BY <3>2, <3>6 DEF OnUssdRecv, OnOther
      <3> QED
        BY <2>2, <3>3, <3>4, <3>5, <3>6 DEF Dispatch
    <2>3. CASE AfterMessage
      <3>1. g_cmgr.msg # NoSms => g_cmgr.msg \in Sms
        BY DEF SmsTypeOK
      <3>3. g_pub_q' \in Queue(Sms, PubCap)
        BY <2>3, <3>1, AfterMessagePush, EnqueueType
      <3>4. UNCHANGED <<g_sms_idx_q, g_sms_tx_q, msgQ>>
        BY <2>3 DEF AfterMessage
      <3> QED
        BY <3>3, <3>4
    <2>4. CASE Tick
      BY <2>4 DEF Tick
    <2> QED
      BY <1>1, <2>1, <2>2, <2>3, <2>4 DEF Events
  <1>2. CASE StateMachine_1s
    BY <1>2 DEF StateMachine_1s, WaitReg, UssdReq, UssdWait, UssdSms, Pdp, MqttCfg,
        MqttOpen, MqttConn, MqttSub, MqttStep, NothingToDo, LinkBusy, Second,
        Leave, Send, SendPersianSms
  <1>3. CASE Pump_Ready
    <2>1. g_sms_idx_q' \in Queue(Slot, SmsIdxCap)
      BY <1>3, PumpPop, TailType
    <2>2. UNCHANGED <<g_pub_q, g_sms_tx_q, msgQ>>
      BY <1>3 DEF Pump_Ready, PumpSend, PumpDelete, PumpRead, PumpPublish, PumpHeartbeat,
        PumpNothing, Send
    <2> QED
      BY <2>1, <2>2
  <1>4. ASSUME NEW final \in Finals, AtReturns(final) PROVE QueueTypeOK'
    <2>1. UNCHANGED <<g_sms_idx_q, msgQ>>
      BY <1>4, AtReturnsFrame
    <2>2. g_pub_q' \in Queue(Sms, PubCap)
      <3>1. CASE g_pub_q' # g_pub_q
        <4>1. g_pub_q # <<>> /\ g_pub_q' = Tail(g_pub_q)
          BY <1>4, <3>1, PublishPop DEF AtTypeOK
        <4> QED
          BY <4>1, TailType
      <3> QED
        BY <3>1
    <2>3. g_sms_tx_q' \in Queue({"sms"}, SmsTxCap)
      <3>1. CASE g_sms_tx_q' # g_sms_tx_q
        <4>1. g_sms_tx_q # <<>> /\ g_sms_tx_q' = Tail(g_sms_tx_q)
          BY <1>4, <3>1, SendPop DEF AtTypeOK
        <4> QED
          BY <4>1, TailType
      <3> QED
        BY <3>1
    <2> QED
      BY <2>1, <2>2, <2>3
  <1> QED
    BY <1>1, <1>2, <1>3, <1>4, NextGroups

\* What a read leaves in the context: at most the message of its slot, and its
\* text only with its header.
LEMMA ReadResult ==
    ASSUME TypeOK, NEW final \in Finals, ReturnRead(final)
    PROVE  /\ UNCHANGED <<g_sms_delete_idx, store, arrived, offered, handed>>
           /\ g_cmgr' \in [idx : {g_cmgr.idx}, hdr : BOOLEAN,
                           msg : {g_cmgr.msg, NoSms, store[at.arg]}, done : BOOLEAN]
  <1>1. /\ at.arg \in Slot
        /\ UNCHANGED <<g_sms_delete_idx, store, arrived, offered, handed>>
    BY DEF ReturnRead, Return, TypeOK, AtTypeOK
  <1> QED
    BY <1>1 DEF ReturnRead, Return, AllLines, SomeLines, WithHeader, NoLines, TypeOK,
       SmsTypeOK

LEMMA SmsTypeStep ==
    ASSUME TypeOK, Next
    PROVE  SmsTypeOK'
  <1> USE DEF TypeOK, SmsTypeOK
  <1>1. CASE Events
    <2>1. ASSUME NEW s \in Sms, NEW i \in Slot, UrcNewSms(s, i) PROVE SmsTypeOK'
      BY <2>1 DEF UrcNewSms
    <2>2. CASE OnSimReady
      BY <2>2 DEF OnSimReady, Receive, NoCmgr
    <2>3. CASE AfterMessage
      BY <2>3 DEF AfterMessage, Processed
    <2>4. CASE UrcSimReady \/ UrcOther
               \/ (\E kind \in {"command", "other"} : UrcMqttRecv(kind))
               \/ (\E text \in {"hex", "short"} : UrcUssd(text))
      BY <2>4 DEF UrcSimReady, UrcOther, UrcMqttRecv, UrcUssd
    <2>5. CASE OnNewSms \/ OnMqttRecv \/ OnUssdRecv \/ OnOther \/ Tick
      BY <2>5 DEF OnNewSms, OnMqttRecv, OnUssdRecv, OnOther, Receive, Tick
    <2> QED
      BY <1>1, <2>1, <2>2, <2>3, <2>4, <2>5 DEF Events, Urc, Dispatch
  <1>2. CASE StateMachine_1s
    BY <1>2 DEF StateMachine_1s, WaitReg, UssdReq, UssdWait, UssdSms, Pdp, MqttCfg,
        MqttOpen, MqttConn, MqttSub, MqttStep, NothingToDo, LinkBusy, Second,
        Leave, Send, SendPersianSms
  <1>3. CASE Pump_Ready
    <2>1. CASE PumpRead
      <3>1. Head(g_sms_idx_q) \in Slot
        BY <2>1, TailType, Capacities DEF PumpRead, QueueTypeOK
      <3> QED
        BY <2>1, <3>1 DEF PumpRead, ReadContext, NoCmgr
    <2>2. CASE PumpPublish
      <3>1. Head(g_pub_q) \in Sms
        BY <2>2, TailType, Capacities DEF PumpPublish, QueueTypeOK
      <3> QED
        BY <2>2, <3>1 DEF PumpPublish
    <2>3. CASE PumpSend \/ PumpDelete \/ PumpHeartbeat \/ PumpNothing
      BY <2>3 DEF PumpSend, PumpDelete, PumpHeartbeat, PumpNothing
    <2> QED
      BY <1>3, <2>1, <2>2, <2>3 DEF Pump_Ready
  <1>4. ASSUME NEW final \in Finals, AtReturns(final) PROVE SmsTypeOK'
    <2>1. CASE ReturnDelete(final)
      BY <2>1 DEF ReturnDelete, DeleteIdxAfter, Return
    <2>2. CASE ReturnRead(final)
      <3>1. at.arg \in Slot
        BY <2>2 DEF ReturnRead, Return, AtTypeOK
      <3> QED
        BY <2>2, <3>1, ReadResult
    <2>3. CASE ~ReturnDelete(final) /\ ~ReturnRead(final)
      BY <1>4, <2>3 DEF AtReturns, Return, ReturnCusd, ReturnMqtt, ReturnSend,
         ReturnPublish, ReturnHeartbeat
    <2> QED
      BY <2>1, <2>2, <2>3
  <1> QED
    BY <1>1, <1>2, <1>3, <1>4, NextGroups

\* The type invariant is inductive.
LEMMA TypeStep ==
    ASSUME TypeOK, [Next]_vars
    PROVE  TypeOK'
  <1>1. CASE Next
    BY <1>1, MainTypeStep, AtTypeStep, MqttTypeStep, UssdTypeStep, ModemTypeStep,
       CountTypeStep, QueueTypeStep, SmsTypeStep DEF TypeOK
  <1>2. CASE UNCHANGED vars
    BY <1>2 DEF vars, TypeOK, MainTypeOK, AtTypeOK, MqttTypeOK, UssdTypeOK,
       ModemTypeOK, CountTypeOK, QueueTypeOK, SmsTypeOK
  <1> QED
    BY <1>1, <1>2

\* Type correctness: every variable of the gateway keeps its type, no queue
\* grows past its capacity, the message id never becomes 0, and a command in
\* flight works on a storage index and on a queue that still holds its item.
THEOREM GatewayTypeCorrect == Spec => []TypeOK
  BY TypeInit, TypeStep, PTL DEF Spec

-----------------------------------------------------------------------------
(* Invariants of the uplink.  NoEraseBeforeForward is not inductive: that  *)
(* the message about to be erased was taken over follows from what the     *)
(* read context, the pending index and the command in flight say of each   *)
(* other.                                                                  *)

\* A pending delete is that of a message taken over, or without a text.
PendingDeleteOK ==
    g_sms_delete_idx # 0 => store[g_sms_delete_idx] \in offered \cup EmptySms

\* A message that was read lies in its slot, nothing else is to be deleted
\* meanwhile, and the context has its text, unless the command was given up
\* between the header and the text: then the busy flag blocks it for good.
PendingReadOK ==
    g_cmgr.idx # 0 /\ g_cmgr.hdr =>
        /\ g_sms_delete_idx = 0
        /\ store[g_cmgr.idx] \in Sms
        /\ \/ g_cmgr.msg = store[g_cmgr.idx]
           \/ g_cmgr.msg = NoSms /\ (store[g_cmgr.idx] \in EmptySms \/ Stalled)

\* A command in flight is what its context says.
InFlightOK ==
    /\ pc = "at" => g_at_busy
    /\ at.cmd = "CMGR" => /\ g_sms_delete_idx = 0 /\ g_cmgr.idx = at.arg
                          /\ ~g_cmgr.hdr /\ g_cmgr.msg = NoSms
    /\ at.cmd = "CMGD" => at.arg = g_sms_delete_idx

UplinkInv == PendingDeleteOK /\ PendingReadOK /\ InFlightOK /\ NoEraseBeforeForward

LEMMA UplinkInit == Init => UplinkInv
  BY DEF Init, UplinkInv, PendingDeleteOK, PendingReadOK, InFlightOK,
     NoEraseBeforeForward, NoCmgr, NoAt

\* A step that leaves the uplink alone, and starts neither a read nor a delete,
\* keeps the invariants.
LEMMA UplinkFrame ==
    ASSUME UplinkInv,
           UNCHANGED <<g_sms_delete_idx, g_cmgr, store, arrived, offered>>,
           at' = at \/ at'.cmd \notin {"CMGR", "CMGD"},
           Stalled => Stalled',
           pc' = "at" => g_at_busy'
    PROVE  UplinkInv'
  BY DEF UplinkInv, PendingDeleteOK, PendingReadOK, InFlightOK, NoEraseBeforeForward

LEMMA UplinkEvents ==
    ASSUME TypeOK, UplinkInv, Events
    PROVE  UplinkInv'
  <1>1. ASSUME NEW s \in Sms, NEW i \in Slot, UrcNewSms(s, i) PROVE UplinkInv'
    <2> USE <1>1, GatewayAssumption DEF TypeOK, SmsTypeOK, UrcNewSms
    <2>1. /\ store[i] = NoSms /\ store' = [store EXCEPT ![i] = s]
          /\ NoSms \notin Sms /\ offered \cup EmptySms \subseteq Sms
          /\ UNCHANGED <<pc, at, g_at_busy, g_sms_delete_idx, g_cmgr, offered>>
      OBVIOUS
    <2>2. PendingDeleteOK'
      BY <2>1 DEF UplinkInv, PendingDeleteOK
    <2>3. PendingReadOK'
      BY <2>1 DEF UplinkInv, PendingReadOK, Stalled
    <2>4. InFlightOK'
      BY <2>1 DEF UplinkInv, InFlightOK
    <2>5. NoEraseBeforeForward'
      <3> SUFFICES ASSUME NEW t \in arrived' \ (offered' \cup EmptySms)
                   PROVE  \E j \in Slot : store'[j] = t
        BY DEF NoEraseBeforeForward
      <3>1. CASE t = s
        BY <2>1, <3>1
      <3>2. CASE t # s
        <4>1. PICK j \in Slot : store[j] = t
          BY <2>1, <3>2 DEF UplinkInv, NoEraseBeforeForward
        <4>2. t \in Sms
          BY <3>2
        <4>3. store'[j] = t
          BY <2>1, <4>1, <4>2
        <4> QED
          BY <4>3
      <3> QED
        BY <3>1, <3>2
    <2> QED
      BY <2>2, <2>3, <2>4, <2>5 DEF UplinkInv
  <1>2. CASE OnSimReady
    BY <1>2 DEF OnSimReady, Receive, NoCmgr, TypeOK, AtTypeOK, UplinkInv,
       PendingDeleteOK, PendingReadOK, InFlightOK, NoEraseBeforeForward
  <1>3. CASE AfterMessage
    <2>1. CASE CmgrDone
      <3>1. /\ g_sms_delete_idx' = g_cmgr.idx /\ g_cmgr' = [g_cmgr EXCEPT !.idx = 0]
            /\ UNCHANGED <<at, g_at_busy, store, arrived>> /\ pc # "at" /\ pc' # "at"
            /\ offered \subseteq offered'
            /\ g_cmgr.msg # NoSms => g_cmgr.msg \in offered'
        BY <1>3, <2>1 DEF AfterMessage, Processed
      <3>2. store[g_cmgr.idx] \in offered' \cup EmptySms
        BY <2>1, <3>1, GatewayAssumption DEF CmgrDone, UplinkInv, PendingReadOK, Stalled
      <3>3. at.cmd = "none" /\ g_cmgr'.idx = 0
        BY <3>1 DEF TypeOK, AtTypeOK, SmsTypeOK
      <3> QED
        BY <3>1, <3>2, <3>3 DEF UplinkInv, PendingDeleteOK, PendingReadOK, InFlightOK,
           NoEraseBeforeForward
    <2>2. CASE ~CmgrDone
      BY <1>3, <2>2, UplinkFrame DEF AfterMessage, Stalled
    <2> QED
      BY <2>1, <2>2
  <1>4. CASE UrcSimReady \/ UrcOther
             \/ (\E kind \in {"command", "other"} : UrcMqttRecv(kind))
             \/ (\E text \in {"hex", "short"} : UrcUssd(text))
    <2>1. UNCHANGED <<pc, at, g_at_busy, g_sms_delete_idx, g_cmgr, store, arrived,
                      offered>>
      BY <1>4 DEF UrcSimReady, UrcOther, UrcMqttRecv, UrcUssd
    <2> QED
      BY <2>1, UplinkFrame DEF Stalled, UplinkInv, InFlightOK
  <1>5. CASE OnNewSms \/ OnMqttRecv \/ OnUssdRecv \/ OnOther \/ Tick
    <2>1. /\ UNCHANGED <<at, g_at_busy, g_sms_delete_idx, g_cmgr, store, arrived,
                         offered>>
          /\ pc # "at" /\ pc' # "at"
      BY <1>5 DEF OnNewSms, OnMqttRecv, OnUssdRecv, OnOther, Receive, Tick
    <2> QED
      BY <2>1, UplinkFrame DEF Stalled
  <1> QED
    BY <1>1, <1>2, <1>3, <1>4, <1>5 DEF Events, Urc, Dispatch

LEMMA UplinkTimer ==
    ASSUME TypeOK, UplinkInv, StateMachine_1s \/ Pump_Ready
    PROVE  UplinkInv'
  <1>1. CASE StateMachine_1s
    <2>1. UNCHANGED <<g_sms_delete_idx, g_cmgr, store, arrived, offered>>
      BY <1>1 DEF StateMachine_1s, WaitReg, UssdReq, UssdWait, UssdSms, Pdp, MqttCfg,
        MqttOpen, MqttConn, MqttSub, MqttStep, NothingToDo, LinkBusy, Second,
        Leave, Send, SendPersianSms
    <2>2. pc # "at"
      BY <1>1 DEF StateMachine_1s, WaitReg, UssdReq, UssdWait, UssdSms, Pdp, MqttCfg,
        MqttOpen, MqttConn, MqttSub, MqttStep, NothingToDo, LinkBusy, Second,
        Leave, Send, SendPersianSms
    <2>3. pc' # "at" => at' = at /\ g_at_busy' = g_at_busy
      BY <1>1 DEF StateMachine_1s, WaitReg, UssdReq, UssdWait, UssdSms, Pdp, MqttCfg,
        MqttOpen, MqttConn, MqttSub, MqttStep, NothingToDo, LinkBusy, Second,
        Leave, Send, SendPersianSms
    <2>4. pc' = "at" => ~g_at_busy /\ g_at_busy' /\ at'.cmd \notin {"CMGR", "CMGD"}
      BY <1>1 DEF StateMachine_1s, WaitReg, UssdReq, UssdWait, UssdSms, Pdp, MqttCfg,
        MqttOpen, MqttConn, MqttSub, MqttStep, NothingToDo, LinkBusy, Second,
        Leave, Send, SendPersianSms
    <2> QED
      BY <2>1, <2>2, <2>3, <2>4, UplinkFrame DEF Stalled
  <1>2. CASE PumpDelete
    BY <1>2 DEF PumpDelete, CanPump, Send, Stalled, UplinkInv, PendingDeleteOK,
       PendingReadOK, InFlightOK, NoEraseBeforeForward
  <1>3. CASE PumpRead
    BY <1>3 DEF PumpRead, CanPump, MayRead, ReadContext, NoCmgr, Send, UplinkInv,
       PendingDeleteOK, PendingReadOK, InFlightOK, NoEraseBeforeForward
  <1>4. CASE PumpSend \/ PumpPublish \/ PumpHeartbeat
    <2>1. /\ UNCHANGED <<g_sms_delete_idx, g_cmgr, store, arrived, offered>>
          /\ at'.cmd \notin {"CMGR", "CMGD"}
          /\ ~g_at_busy /\ g_at_busy'
      BY <1>4 DEF PumpSend, PumpPublish, PumpHeartbeat, CanPump, Send
    <2> QED
      BY <2>1, UplinkFrame DEF Stalled
  <1>5. CASE PumpNothing
    BY <1>5, UplinkFrame DEF PumpNothing, Stalled
  <1> QED
    BY <1>1, <1>2, <1>3, <1>4, <1>5 DEF Pump_Ready

LEMMA UplinkReturns ==
    ASSUME TypeOK, UplinkInv, NEW final \in Finals, AtReturns(final)
    PROVE  UplinkInv'
  <1>0. /\ pc = "at" /\ pc' = "loop" /\ at' = NoAt
        /\ UNCHANGED <<arrived, offered>>
    BY AtReturnsFrame
  <1>1. CASE ReturnDelete(final)
    <2>1. /\ at.arg = g_sms_delete_idx /\ at.arg \in Slot /\ at.arg # 0
          /\ g_sms_delete_idx' = 0 /\ g_cmgr' = g_cmgr
          /\ store' = store \/ store' = [store EXCEPT ![at.arg] = NoSms]
      BY <1>1, GatewayAssumption
      DEF ReturnDelete, DeleteIdxAfter, Return, UplinkInv, InFlightOK, TypeOK, AtTypeOK
    <2>2. ~(g_cmgr.idx # 0 /\ g_cmgr.hdr) /\ store[at.arg] \in offered \cup EmptySms
      BY <2>1 DEF UplinkInv, PendingReadOK, PendingDeleteOK
    <2>3. NoEraseBeforeForward'
      <3> SUFFICES ASSUME NEW t \in arrived \ (offered \cup EmptySms)
                   PROVE  \E j \in Slot : store'[j] = t
        BY <1>0 DEF NoEraseBeforeForward
      <3>1. PICK j \in Slot : store[j] = t
        BY DEF UplinkInv, NoEraseBeforeForward
      <3>2. j # at.arg
        BY <2>2, <3>1
      <3> QED
        BY <2>1, <3>1, <3>2 DEF TypeOK, SmsTypeOK
    <2> QED
      BY <1>0, <2>1, <2>2, <2>3
      DEF UplinkInv, PendingDeleteOK, PendingReadOK, InFlightOK, NoAt
  <1>2. CASE ReturnRead(final)
    <2>1. /\ g_sms_delete_idx = 0 /\ g_cmgr.idx = at.arg /\ at.arg \in Slot
          /\ ~g_cmgr.hdr /\ g_cmgr.msg = NoSms
          /\ UNCHANGED <<g_sms_delete_idx, store>>
          /\ g_at_busy' = (final = "none")
      BY <1>2 DEF ReturnRead, Return, StillBusy, UplinkInv, InFlightOK, TypeOK, AtTypeOK
    <2>2. PendingReadOK'
      <3> SUFFICES ASSUME g_cmgr'.idx # 0, g_cmgr'.hdr PROVE
             /\ g_cmgr'.idx = at.arg
             /\ store[at.arg] \in Sms
             /\ \/ g_cmgr'.msg = store[at.arg]
                \/ g_cmgr'.msg = NoSms /\ (store[at.arg] \in EmptySms \/ final = "none")
        BY <1>0, <2>1 DEF PendingReadOK, Stalled
      <3> QED
        BY <1>2, <2>1 DEF ReturnRead, Return, AllLines, SomeLines, WithHeader, NoLines,
           TypeOK, SmsTypeOK
    <2> QED
      BY <1>0, <2>1, <2>2
      DEF UplinkInv, PendingDeleteOK, InFlightOK, NoEraseBeforeForward, NoAt
  <1>3. CASE ~ReturnDelete(final) /\ ~ReturnRead(final)
    <2>1. UNCHANGED <<g_sms_delete_idx, g_cmgr, store>>
      BY <1>3 DEF AtReturns, Return, ReturnCusd, ReturnMqtt, ReturnSend,
         ReturnPublish, ReturnHeartbeat
    <2> QED
      BY <1>0, <2>1, UplinkFrame DEF NoAt, Stalled
  <1> QED
    BY <1>1, <1>2, <1>3

LEMMA UplinkStep ==
    ASSUME TypeOK, UplinkInv, [Next]_vars
    PROVE  UplinkInv'
  <1>1. CASE Next
    BY <1>1, UplinkEvents, UplinkTimer, UplinkReturns, NextGroups
  <1>2. CASE UNCHANGED vars
    BY <1>2, UplinkFrame DEF vars, Stalled, UplinkInv, InFlightOK
  <1> QED
    BY <1>1, <1>2

THEOREM UplinkCorrect == Spec => [](TypeOK /\ UplinkInv)
  BY TypeInit, TypeStep, UplinkInit, UplinkStep, PTL DEF Spec

\* No incoming short message is erased from the SIM before its text was passed
\* on for publication (main.c:910-923, 1236-1244), however SIM restarts, failed
\* or lost commands and new messages interleave.
THEOREM GatewayKeepsMessages == Spec => []NoEraseBeforeForward
  <1>1. UplinkInv => NoEraseBeforeForward
    BY DEF UplinkInv
  <1> QED
    BY <1>1, UplinkCorrect, PTL

\* A pending delete is never replaced by another one: a message is only read
\* when none is pending, and only a message that was read makes one pending
\* (main.c:910-923, 1237-1242).
THEOREM GatewayDeletesInTurn == Spec => NoDeleteReplaced
  <1> DEFINE A == g_sms_delete_idx # 0 => g_sms_delete_idx' \in {0, g_sms_delete_idx}
  <1>1. ASSUME UplinkInv, [Next]_vars PROVE A
    <2>1. CASE AfterMessage
      BY <1>1, <2>1 DEF AfterMessage, CmgrDone, UplinkInv, PendingReadOK
    <2>2. CASE Urc \/ Dispatch \/ Tick
      BY <2>2 DEF Urc, UrcSimReady, UrcNewSms, UrcMqttRecv, UrcUssd, UrcOther, Dispatch,
        OnSimReady, OnNewSms, OnMqttRecv, OnUssdRecv, OnOther, Receive,
        AfterMessage, Tick
    <2>3. CASE StateMachine_1s
      BY <2>3 DEF StateMachine_1s, WaitReg, UssdReq, UssdWait, UssdSms, Pdp, MqttCfg,
        MqttOpen, MqttConn, MqttSub, MqttStep, NothingToDo, LinkBusy, Second,
        Leave, Send, SendPersianSms
    <2>4. CASE Pump_Ready
      BY <2>4 DEF Pump_Ready, PumpSend, PumpDelete, PumpRead, PumpPublish, PumpHeartbeat,
        PumpNothing, Send
    <2>5. ASSUME NEW final \in Finals, AtReturns(final) PROVE A
      BY <2>5 DEF AtReturns, Return, ReturnCusd, ReturnMqtt, ReturnSend,
        ReturnDelete, DeleteIdxAfter, ReturnRead, ReturnPublish, ReturnHeartbeat
    <2>6. CASE UNCHANGED vars
      BY <2>6 DEF vars
    <2> QED
      BY <1>1, <2>1, <2>2, <2>3, <2>4, <2>5, <2>6, NextGroups DEF Events
  <1>2. UplinkInv /\ [Next]_vars => [A]_vars
    BY <1>1
  <1> QED
    BY <1>2, UplinkCorrect, PTL DEF Spec, NoDeleteReplaced

-----------------------------------------------------------------------------
(* The AT link.                                                            *)

\* The flag is set while a command is in flight, and only then unless one was
\* given up.
BusyInv == (pc = "at" => g_at_busy) /\ (~LossyAT => (g_at_busy => pc = "at"))

LEMMA BusyStep ==
    ASSUME TypeOK, BusyInv, [Next]_vars
    PROVE  BusyInv'
  <1> USE DEF BusyInv
  <1>1. CASE Events
    <2>1. g_at_busy' = g_at_busy
      BY <1>1 DEF Events, Urc, UrcSimReady, UrcNewSms, UrcMqttRecv, UrcUssd, UrcOther, Dispatch,
        OnSimReady, OnNewSms, OnMqttRecv, OnUssdRecv, OnOther, Receive,
        AfterMessage, Tick
    <2>2. pc' = "at" <=> pc = "at"
      BY <1>1 DEF Events, Urc, UrcSimReady, UrcNewSms, UrcMqttRecv, UrcUssd, UrcOther, Dispatch,
        OnSimReady, OnNewSms, OnMqttRecv, OnUssdRecv, OnOther, Receive,
        AfterMessage, Tick
    <2> QED
      BY <2>1, <2>2
  <1>2. CASE StateMachine_1s
    BY <1>2 DEF StateMachine_1s, WaitReg, UssdReq, UssdWait, UssdSms, Pdp, MqttCfg,
        MqttOpen, MqttConn, MqttSub, MqttStep, NothingToDo, LinkBusy, Second,
        Leave, Send, SendPersianSms
  <1>3. CASE Pump_Ready
    BY <1>3 DEF Pump_Ready, PumpSend, PumpDelete, PumpRead, PumpPublish, PumpHeartbeat,
        PumpNothing, Send
  <1>4. ASSUME NEW final \in Finals, AtReturns(final) PROVE BusyInv'
    BY <1>4, AtReturnsFrame DEF StillBusy, Finals
  <1>5. CASE UNCHANGED vars
    BY <1>5 DEF vars
  <1> QED
    BY <1>1, <1>2, <1>3, <1>4, <1>5, NextGroups

\* Unless a command can be given up without a final line, the busy flag is set
\* exactly while a command is in flight (main.c:334-723).
THEOREM GatewayBusyIsExact == Spec => []BusyIsExact
  <1>1. Init => BusyInv
    BY DEF Init, BusyInv
  <1>2. BusyInv => BusyIsExact
    BY DEF BusyInv, BusyIsExact
  <1> QED
    BY <1>1, <1>2, TypeInit, TypeStep, BusyStep, PTL DEF Spec

\* Where the flag is set the MQTT settings are not on their way (the state that
\* leads there waits for the flag, and the one that sends them does not block),
\* and the pump runs in READY only.
StallInv ==
    /\ g_at_busy => g_state # "MQTT_CFG"
    /\ pc = "pump" => g_state = "READY"

LEMMA StallStep ==
    ASSUME BusyInv, StallInv, [Next]_vars
    PROVE  StallInv'
  <1> USE DEF StallInv
  <1>1. CASE Events
    <2>1. /\ g_at_busy' = g_at_busy
          /\ g_state' = g_state \/ g_state' = "WAIT_REG"
      BY <1>1 DEF Events, Urc, UrcSimReady, UrcNewSms, UrcMqttRecv, UrcUssd, UrcOther, Dispatch,
        OnSimReady, OnNewSms, OnMqttRecv, OnUssdRecv, OnOther, Receive, BootState,
        AfterMessage, Tick
    <2>2. pc' = "pump" => \/ pc = "pump" /\ g_state' = g_state
                          \/ g_state = "READY" /\ g_state' = g_state
      BY <1>1 DEF Events, Urc, UrcSimReady, UrcNewSms, UrcMqttRecv, UrcUssd, UrcOther, Dispatch,
        OnSimReady, OnNewSms, OnMqttRecv, OnUssdRecv, OnOther, Receive,
        AfterMessage, Tick
    <2> QED
      BY <2>1, <2>2
  <1>2. CASE StateMachine_1s
    BY <1>2 DEF StateMachine_1s, WaitReg, UssdReq, UssdWait, UssdSms, Pdp, MqttCfg,
        MqttOpen, MqttConn, MqttSub, MqttStep, NothingToDo, LinkBusy, Second,
        Leave, Send, SendPersianSms, AfterWait
  <1>3. CASE Pump_Ready
    BY <1>3 DEF Pump_Ready, PumpSend, PumpDelete, PumpRead, PumpPublish, PumpHeartbeat,
        PumpNothing, CanPump, Send
  <1>4. ASSUME NEW final \in Finals, AtReturns(final) PROVE StallInv'
    <2>1. pc' = "loop" /\ (g_state' = g_state \/ g_state' = "USSD_WAIT") /\ pc = "at"
      BY <1>4, AtReturnsFrame DEF AtReturns, ReturnCusd, ReturnMqtt, ReturnSend,
        ReturnDelete, ReturnRead, ReturnPublish, ReturnHeartbeat
    <2> QED
      BY <2>1 DEF BusyInv
  <1>5. CASE UNCHANGED vars
    BY <1>5 DEF vars
  <1> QED
    BY <1>1, <1>2, <1>3, <1>4, <1>5, NextGroups

\* Once a command was given up, the flag stays set; nothing is taken out of the
\* SIM, passed on, published or sent for the broker any more, and the boot
\* sequence gets no further than the request for the balance, but for the one
\* whose AT+CUSD was given up: it may still send the balance SMS, which does
\* not look at the flag (main.c:356-367, 1023-1047, 1187-1226).
THEOREM GatewayStallIsPermanent == Spec => StallIsPermanent
  <1> DEFINE A == Stalled =>
         /\ Stalled'
         /\ UNCHANGED <<handed, smsOut, offered, session>>
         /\ \A i \in Slot : store[i] # NoSms => store'[i] = store[i]
         /\ g_state' # g_state => <<g_state, g_state'>> \in StalledMoves
         /\ cmgf' # cmgf => cmgf' = "text" \/ g_state = "USSD_SMS"
  <1>1. ASSUME TypeOK, BusyInv, StallInv, [Next]_vars PROVE A
    <2> SUFFICES ASSUME g_at_busy, pc # "at"
                 PROVE  /\ Stalled'
                        /\ UNCHANGED <<handed, smsOut, offered, session>>
                        /\ \A i \in Slot : store[i] # NoSms => store'[i] = store[i]
                        /\ g_state' # g_state => <<g_state, g_state'>> \in StalledMoves
                        /\ cmgf' # cmgf => cmgf' = "text" \/ g_state = "USSD_SMS"
      BY DEF Stalled
    <2>0. g_state \in States /\ store \in [Slot -> Sms \cup {NoSms}]
      BY <1>1 DEF TypeOK, MainTypeOK, SmsTypeOK
    <2> USE DEF Stalled
    <2>1. CASE Events
      <3>1. Stalled' /\ UNCHANGED <<handed, smsOut, offered, session>>
        BY <2>1 DEF Events, CmgrDone, Urc, UrcSimReady, UrcNewSms, UrcMqttRecv, UrcUssd, UrcOther, Dispatch,
          OnSimReady, OnNewSms, OnMqttRecv, OnUssdRecv, OnOther, Receive,
          AfterMessage, Tick
      <3>2. \A i \in Slot : store[i] # NoSms => store'[i] = store[i]
        BY <2>0, <2>1 DEF Events, Urc, UrcSimReady, UrcNewSms, UrcMqttRecv, UrcUssd, UrcOther, Dispatch,
          OnSimReady, OnNewSms, OnMqttRecv, OnUssdRecv, OnOther, Receive,
          AfterMessage, Tick
      <3>3. /\ g_state' # g_state => g_state' = "WAIT_REG"
            /\ cmgf' # cmgf => cmgf' = "text"
        BY <2>1 DEF Events, Urc, UrcSimReady, UrcNewSms, UrcMqttRecv, UrcUssd, UrcOther, Dispatch,
          OnSimReady, OnNewSms, OnMqttRecv, OnUssdRecv, OnOther, Receive, BootState,
          AfterMessage, Tick
      <3> QED
        BY <2>0, <3>1, <3>2, <3>3 DEF StalledMoves
    <2>2. CASE StateMachine_1s
      <3>1. /\ Stalled' /\ UNCHANGED <<handed, smsOut, offered, session, store>>
            /\ cmgf' # cmgf => g_state = "USSD_SMS"
        BY <1>1, <2>2 DEF StateMachine_1s, WaitReg, UssdReq, UssdWait, UssdSms, Pdp, MqttCfg,
          MqttOpen, MqttConn, MqttSub, MqttStep, NothingToDo, LinkBusy, Second,
          Leave, Send, SendPersianSms
      <3>2. \/ g_state' = g_state
            \/ g_state = "WAIT_REG" /\ g_state' = "USSD_REQ"
            \/ g_state = "USSD_WAIT" /\ g_state' \in {"USSD_SMS", "PDP"}
            \/ g_state = "USSD_SMS" /\ g_state' = "PDP"
        BY <1>1, <2>2 DEF StateMachine_1s, WaitReg, UssdReq, UssdWait, UssdSms, Pdp, MqttCfg,
          MqttOpen, MqttConn, MqttSub, MqttStep, NothingToDo, LinkBusy, Second,
          Leave, Send, AfterWait, StallInv
      <3> QED
        BY <3>1, <3>2 DEF StalledMoves
    <2>3. CASE Pump_Ready
      BY <2>3 DEF CanPump, Pump_Ready, PumpSend, PumpDelete, PumpRead, PumpPublish, PumpHeartbeat,
        PumpNothing, Send
    <2>4. ASSUME NEW final \in Finals, AtReturns(final) PROVE FALSE
      BY <2>4, AtReturnsFrame
    <2>5. CASE UNCHANGED vars
      BY <2>5 DEF vars
    <2> QED
      BY <1>1, <2>1, <2>2, <2>3, <2>4, <2>5, NextGroups
  <1>2. TypeOK /\ BusyInv /\ StallInv /\ [Next]_vars => [A]_vars
    BY <1>1
  <1>3. Init => BusyInv /\ StallInv
    BY DEF Init, BusyInv, StallInv
  <1> HIDE DEF A
  <1>4. Spec => [][A]_vars
    BY <1>2, <1>3, TypeInit, TypeStep, BusyStep, StallStep, PTL DEF Spec
  <1> QED
    BY <1>4 DEF StallIsPermanent, A

\* The message id of AT+QMTPUB is valid: the counter is never 0 when it is
\* used, however often it wrapped (main.c:931-932, 944-945).
THEOREM GatewayMsgIdValid == Spec => []MsgIdValid
  <1>1. Init => MsgIdValid
    BY DEF Init, MsgIdValid, NoAt
  <1>2. ASSUME TypeOK, MsgIdValid, [Next]_vars PROVE MsgIdValid'
    <2>1. CASE Events
      <3>1. at' = at
        BY <2>1 DEF Events, Urc, UrcSimReady, UrcNewSms, UrcMqttRecv, UrcUssd, UrcOther, Dispatch,
        OnSimReady, OnNewSms, OnMqttRecv, OnUssdRecv, OnOther, Receive,
        AfterMessage, Tick
      <3> QED
        BY <1>2, <3>1 DEF MsgIdValid
    <2>2. CASE StateMachine_1s
      <3>1. at' = at \/ at'.cmd \notin {"PUB", "HB"}
        BY <2>2 DEF StateMachine_1s, WaitReg, UssdReq, UssdWait, UssdSms, Pdp, MqttCfg,
        MqttOpen, MqttConn, MqttSub, MqttStep, NothingToDo, LinkBusy, Second,
        Leave, Send, SendPersianSms
      <3> QED
        BY <1>2, <3>1 DEF MsgIdValid
    <2>3. CASE Pump_Ready
      <3>1. CASE PumpPublish \/ PumpHeartbeat
        BY <1>2, <3>1 DEF PumpPublish, PumpHeartbeat, Send, MsgIdValid, TypeOK, CountTypeOK
      <3>2. CASE PumpSend \/ PumpDelete \/ PumpRead
        BY <3>2 DEF PumpSend, PumpDelete, PumpRead, Send, MsgIdValid
      <3>3. CASE PumpNothing
        BY <1>2, <3>3 DEF PumpNothing, MsgIdValid
      <3> QED
        BY <2>3, <3>1, <3>2, <3>3 DEF Pump_Ready
    <2>4. ASSUME NEW final \in Finals, AtReturns(final) PROVE MsgIdValid'
      BY <2>4, AtReturnsFrame DEF MsgIdValid, NoAt
    <2>5. CASE UNCHANGED vars
      BY <1>2, <2>5 DEF vars, MsgIdValid
    <2> QED
      BY <1>2, <2>1, <2>2, <2>3, <2>4, <2>5, NextGroups
  <1> QED
    BY <1>1, <1>2, TypeInit, TypeStep, PTL DEF Spec

-----------------------------------------------------------------------------
(* The boot sequence.                                                      *)

\* How far the boot sequence has come is what was acknowledged, and a command
\* of the boot sequence is in flight only in its own state.
BootInv ==
    /\ g_state \in {"MQTT_CONN", "MQTT_SUB", "READY"} => mqtt.open
    /\ g_state \in {"MQTT_SUB", "READY"} => mqtt.conn /\ mqtt.connected
    /\ g_state = "READY" => mqtt.sub
    /\ mqtt.sub => session
    /\ at.cmd = "OPEN" => g_state = "MQTT_OPEN"
    /\ at.cmd = "CONN" => g_state = "MQTT_CONN"
    /\ at.cmd = "SUB" => g_state = "MQTT_SUB"

LEMMA BootStep ==
    ASSUME TypeOK, BootInv, [Next]_vars
    PROVE  BootInv'
  <1> USE DEF BootInv
  <1>1. CASE OnSimReady
    BY <1>1 DEF OnSimReady, Receive, BootState, NoMqtt, TypeOK, AtTypeOK
  <1>2. CASE Events /\ ~OnSimReady
    <2>1. UNCHANGED <<g_state, mqtt, at>>
      BY <1>2 DEF Events, Urc, UrcSimReady, UrcNewSms, UrcMqttRecv, UrcUssd, UrcOther,
         Dispatch, OnNewSms, OnMqttRecv, OnUssdRecv, OnOther, Receive, AfterMessage, Tick
    <2>2. session' = session
      BY <1>2 DEF Events, Urc, UrcSimReady, UrcNewSms, UrcMqttRecv, UrcUssd, UrcOther,
         Dispatch, OnNewSms, OnMqttRecv, OnUssdRecv, OnOther, Receive, AfterMessage, Tick
    <2> QED
      BY <2>1, <2>2
  <1>3. CASE StateMachine_1s
    <2>0. at.cmd = "none"
      BY <1>3 DEF TypeOK, AtTypeOK, StateMachine_1s, WaitReg, UssdReq, UssdWait, UssdSms, Pdp, MqttCfg,
        MqttOpen, MqttConn, MqttSub, MqttStep, NothingToDo, LinkBusy, Second,
        Leave, Send, SendPersianSms
    <2>1. CASE MqttCfg
      BY <2>0, <2>1 DEF MqttCfg, Second, Leave, NoMqtt
    <2>2. CASE MqttOpen
      BY <2>0, <2>2 DEF MqttOpen, MqttStep, Second, Send, Leave, TypeOK, MqttTypeOK
    <2>3. CASE MqttConn
      BY <2>0, <2>3 DEF MqttConn, MqttStep, Second, Send, Leave, TypeOK, MqttTypeOK
    <2>4. CASE MqttSub
      BY <2>0, <2>4 DEF MqttSub, MqttStep, Second, Send, Leave, TypeOK, MqttTypeOK
    <2>5. CASE UssdReq
      BY <2>0, <2>5 DEF UssdReq, Second, Send
    <2>6. CASE NothingToDo \/ LinkBusy
      BY <2>0, <2>6 DEF NothingToDo, LinkBusy, Second, Leave
    <2>7. CASE \/ \E registered \in BOOLEAN : WaitReg(registered)
               \/ UssdWait
               \/ \E result \in {"ok", "fail", "busy"} : UssdSms(result)
               \/ \E opened \in BOOLEAN : Pdp(opened)
      <3>1. /\ g_state' \in {"WAIT_REG", "USSD_REQ", "USSD_WAIT", "USSD_SMS", "PDP", "MQTT_CFG"}
            /\ at' = at /\ mqtt' = mqtt
        BY <2>7 DEF WaitReg, UssdWait, AfterWait, UssdSms, Pdp, Second, Leave
      <3>2. session' = session
        BY <2>7 DEF WaitReg, UssdWait, UssdSms, Pdp
      <3> QED
        BY <2>0, <3>1, <3>2
    <2> QED
      BY <1>3, <2>1, <2>2, <2>3, <2>4, <2>5, <2>6, <2>7 DEF StateMachine_1s
  <1>4. CASE Pump_Ready
    <2>1. UNCHANGED <<g_state, mqtt, session>>
      BY <1>4 DEF Pump_Ready, PumpSend, PumpDelete, PumpRead, PumpPublish, PumpHeartbeat,
        PumpNothing, Send
    <2>2. at' = at \/ at'.cmd \notin {"OPEN", "CONN", "SUB"}
      BY <1>4 DEF Pump_Ready, PumpSend, PumpDelete, PumpRead, PumpPublish, PumpHeartbeat,
        PumpNothing, Send
    <2> QED
      BY <2>1, <2>2
  <1>5. ASSUME NEW final \in Finals, AtReturns(final) PROVE BootInv'
    <2>0. at'.cmd = "none"
      BY <1>5, AtReturnsFrame DEF NoAt
    <2>1. CASE ReturnMqtt(final)
      <3>1. CASE Return("OPEN", final)
        BY <2>0, <2>1, <3>1 DEF ReturnMqtt, Return, Flag, TypeOK, MqttTypeOK
      <3>2. CASE Return("CONN", final)
        BY <2>0, <2>1, <3>2 DEF ReturnMqtt, Return, Flag, TypeOK, MqttTypeOK
      <3>3. CASE Return("SUB", final)
        BY <2>0, <2>1, <3>3 DEF ReturnMqtt, Return, Flag, TypeOK, MqttTypeOK
      <3> QED
        BY <2>1, <3>1, <3>2, <3>3 DEF ReturnMqtt
    <2>2. CASE ReturnCusd(final)
      BY <2>0, <2>2 DEF ReturnCusd, Return
    <2>3. CASE ~ReturnMqtt(final) /\ ~ReturnCusd(final)
      <3>1. UNCHANGED <<g_state, mqtt, session>>
        BY <1>5, <2>3 DEF AtReturns, Return, ReturnSend, ReturnDelete, DeleteIdxAfter, ReturnRead,
           ReturnPublish, ReturnHeartbeat
      <3> QED
        BY <2>0, <3>1
    <2> QED
      BY <2>1, <2>2, <2>3
  <1>6. CASE UNCHANGED vars
    BY <1>6 DEF vars
  <1> QED
    BY <1>1, <1>2, <1>3, <1>4, <1>5, <1>6, NextGroups

\* The gateway reaches READY only with the link opened, connected and
\* subscribed in the present boot sequence, and the subscription is the
\* broker's (main.c:1059-1100, 1187-1208).
THEOREM GatewayReadyMeansSubscribed == Spec => []ReadyMeansSubscribed
  <1>1. Init => BootInv
    BY DEF Init, BootInv, NoMqtt, NoAt
  <1>2. TypeOK /\ BootInv => ReadyMeansSubscribed
    BY DEF BootInv, ReadyMeansSubscribed, TypeOK, MqttTypeOK
  <1> QED
    BY <1>1, <1>2, TypeInit, TypeStep, BootStep, PTL DEF Spec

\* What a queue holds after a push or a pop it held before, or was pushed.
LEMMA EnqueueHolds ==
    ASSUME NEW T, NEW cap \in Nat, NEW q \in Queue(T, cap), NEW v \in T,
           NEW k \in DOMAIN Enqueue(q, v, cap)
    PROVE  \/ Enqueue(q, v, cap)[k] = v
           \/ k \in DOMAIN q /\ Enqueue(q, v, cap)[k] = q[k]
  BY DEF Enqueue, Queue

LEMMA TailHolds ==
    ASSUME NEW T, NEW cap \in Nat, NEW q \in Queue(T, cap), q # <<>>,
           NEW k \in DOMAIN Tail(q)
    PROVE  k + 1 \in DOMAIN q /\ Tail(q)[k] = q[k + 1]
  BY DEF Queue

LEMMA HeadHeld ==
    ASSUME NEW T, NEW cap \in Nat, NEW q \in Queue(T, cap), q # <<>>
    PROVE  1 \in DOMAIN q /\ Head(q) = q[1]
  BY DEF Queue

\* An answer to AT+CUSD is announced only when one is in the cache.
AnswerCached == \A k \in DOMAIN msgQ : msgQ[k].urc = "USSD" => ussdBox # "none"

LEMMA AnswerCachedStep ==
    ASSUME TypeOK, AnswerCached, [Next]_vars
    PROVE  AnswerCached'
  <1> USE Capacities DEF AnswerCached
  <1>0. msgQ \in Queue(Messages, MsgQueueCap)
    BY DEF TypeOK, QueueTypeOK
  <1>1. CASE Urc
    <2>1. ASSUME NEW m \in Messages, Post(m),
                 m.urc = "USSD" => ussdBox' # "none",
                 ussdBox' # ussdBox => ussdBox' # "none"
          PROVE  AnswerCached'
      <3> SUFFICES ASSUME NEW k \in DOMAIN msgQ', msgQ'[k].urc = "USSD"
                   PROVE  ussdBox' # "none"
        OBVIOUS
      <3>1. msgQ' = Enqueue(msgQ, m, MsgQueueCap)
        BY <2>1 DEF Post
      <3>2. msgQ'[k] = m \/ (k \in DOMAIN msgQ /\ msgQ'[k] = msgQ[k])
        BY <1>0, <2>1, <3>1, EnqueueHolds
      <3> QED
        BY <2>1, <3>2
    <2>2. CASE \E text \in {"hex", "short"} : UrcUssd(text)
      <3>1. ussdBox' # "none" /\ Post([urc |-> "USSD", idx |-> 0])
        BY <2>2 DEF UrcUssd
      <3>2. [urc |-> "USSD", idx |-> 0] \in Messages
        BY DEF Messages
      <3> QED
        BY <2>1, <3>1, <3>2
    <2>3. CASE ~\E text \in {"hex", "short"} : UrcUssd(text)
      <3>1. ussdBox' = ussdBox
        BY <1>1, <2>3 DEF Urc, UrcSimReady, UrcNewSms, UrcMqttRecv, UrcOther
      <3>2. \E m \in Messages : Post(m) /\ m.urc # "USSD"
        <4>1. /\ \A i \in Slot : [urc |-> "SMS", idx |-> i] \in Messages
              /\ \A u \in {"SIM", "MQTT", "OTHER"} : [urc |-> u, idx |-> 0] \in Messages
          BY DEF Messages
        <4>2. \/ \E i \in Slot : Post([urc |-> "SMS", idx |-> i])
              \/ \E u \in {"SIM", "MQTT", "OTHER"} : Post([urc |-> u, idx |-> 0])
          BY <1>1, <2>3 DEF Urc, UrcSimReady, UrcNewSms, UrcMqttRecv, UrcOther
        <4> QED
          BY <4>1, <4>2
      <3> QED
        BY <2>1, <3>1, <3>2
    <2> QED
      BY <2>2, <2>3
  <1>2. CASE Dispatch
    <2>1. msgQ # <<>> /\ msgQ' = Tail(msgQ) /\ ussdBox' = ussdBox
      BY <1>2 DEF Dispatch, OnSimReady, OnNewSms, OnMqttRecv, OnUssdRecv, OnOther, Receive
    <2> SUFFICES ASSUME NEW k \in DOMAIN msgQ', msgQ'[k].urc = "USSD"
                 PROVE  ussdBox' # "none"
      OBVIOUS
    <2>2. k + 1 \in DOMAIN msgQ /\ msgQ'[k] = msgQ[k + 1]
      BY <1>0, <2>1, TailHolds
    <2> QED
      BY <2>1, <2>2
  <1>3. CASE AfterMessage \/ Tick
    BY <1>3 DEF AfterMessage, Tick
  <1>4. CASE StateMachine_1s
    BY <1>4 DEF StateMachine_1s, WaitReg, UssdReq, UssdWait, UssdSms, Pdp, MqttCfg,
        MqttOpen, MqttConn, MqttSub, MqttStep, NothingToDo, LinkBusy, Second,
        Leave, Send, SendPersianSms
  <1>5. CASE Pump_Ready
    BY <1>5 DEF Pump_Ready, PumpSend, PumpDelete, PumpRead, PumpPublish, PumpHeartbeat,
        PumpNothing, Send
  <1>6. ASSUME NEW final \in Finals, AtReturns(final) PROVE AnswerCached'
    BY <1>6, AtReturnsFrame
  <1>7. CASE UNCHANGED vars
    BY <1>7 DEF vars
  <1> QED
    BY <1>1, <1>2, <1>3, <1>4, <1>5, <1>6, <1>7, NextGroups DEF Events

\* The balance message has not been sent where it may still be sent, and an
\* answer that was taken over has a text.
BalanceInv ==
    /\ g_state = "USSD_SMS" => ussd.got
    /\ g_state \in {"USSD_WAIT", "USSD_SMS"} => ~ussd.started
    /\ at.cmd = "CUSD" => ~ussd.started
    /\ ussd.got => ussd.text # "none"

LEMMA BalanceStep ==
    ASSUME TypeOK, AnswerCached, BalanceInv, [Next]_vars
    PROVE  BalanceInv'
  <1> USE DEF BalanceInv
  <1>1. CASE OnSimReady
    BY <1>1 DEF OnSimReady, Receive, BootState, NoUssd, TypeOK, AtTypeOK
  <1>2. CASE OnUssdRecv
    <2>1. msgQ # <<>> /\ Head(msgQ).urc = "USSD" /\ UNCHANGED <<g_state, at>>
          /\ ussd' = [ussd EXCEPT !.got = TRUE, !.text = ussdBox]
      BY <1>2 DEF OnUssdRecv, Receive
    <2>2. ussdBox # "none"
      BY <2>1, HeadHeld, Capacities DEF AnswerCached, TypeOK, QueueTypeOK
    <2> QED
      BY <2>1, <2>2 DEF TypeOK, UssdTypeOK
  <1>3. CASE Events /\ ~OnSimReady /\ ~OnUssdRecv
    <2>1. UNCHANGED <<g_state, ussd, at>>
      BY <1>3 DEF Events, Urc, UrcSimReady, UrcNewSms, UrcMqttRecv, UrcUssd, UrcOther,
         Dispatch, OnNewSms, OnMqttRecv, OnOther, Receive, AfterMessage, Tick
    <2> QED
      BY <2>1
  <1>4. CASE StateMachine_1s
    <2>0. at.cmd = "none"
      BY <1>4 DEF TypeOK, AtTypeOK, StateMachine_1s, WaitReg, UssdReq, UssdWait, UssdSms, Pdp, MqttCfg,
        MqttOpen, MqttConn, MqttSub, MqttStep, NothingToDo, LinkBusy, Second,
        Leave, Send, SendPersianSms
    <2>1. CASE UssdReq
      BY <2>1 DEF UssdReq, Second, Send, NoUssd
    <2>2. CASE UssdWait
      BY <2>0, <2>2 DEF UssdWait, AfterWait, Second, Leave
    <2>3. ASSUME NEW result \in {"ok", "fail", "busy"}, UssdSms(result)
          PROVE  BalanceInv'
      BY <2>0, <2>3 DEF UssdSms, Second, Leave, TypeOK, UssdTypeOK
    <2>4. CASE \/ \E registered \in BOOLEAN : WaitReg(registered)
               \/ \E opened \in BOOLEAN : Pdp(opened)
               \/ MqttCfg \/ MqttOpen \/ MqttConn \/ MqttSub \/ NothingToDo \/ LinkBusy
      <3>1. ussd' = ussd /\ g_state' \notin {"USSD_WAIT", "USSD_SMS"}
        BY <2>4 DEF WaitReg, Pdp, MqttCfg, MqttOpen, MqttConn, MqttSub, MqttStep,
           NothingToDo, LinkBusy, Second, Leave, Send
      <3>2. at' = at \/ at'.cmd # "CUSD"
        BY <2>4 DEF WaitReg, Pdp, MqttCfg, MqttOpen, MqttConn, MqttSub, MqttStep,
           NothingToDo, LinkBusy, Second, Leave, Send
      <3> QED
        BY <2>0, <3>1, <3>2
    <2> QED
      BY <1>4, <2>1, <2>2, <2>3, <2>4 DEF StateMachine_1s
  <1>5. CASE Pump_Ready
    <2>1. UNCHANGED <<g_state, ussd>>
      BY <1>5 DEF Pump_Ready, PumpSend, PumpDelete, PumpRead, PumpPublish, PumpHeartbeat,
        PumpNothing, Send
    <2>2. at' = at \/ at'.cmd # "CUSD"
      BY <1>5 DEF Pump_Ready, PumpSend, PumpDelete, PumpRead, PumpPublish, PumpHeartbeat,
        PumpNothing, Send
    <2> QED
      BY <2>1, <2>2
  <1>6. ASSUME NEW final \in Finals, AtReturns(final) PROVE BalanceInv'
    <2>0. at'.cmd = "none" /\ ussd' = ussd
      BY <1>6, AtReturnsFrame DEF NoAt
    <2>1. CASE ReturnCusd(final)
      BY <2>0, <2>1 DEF ReturnCusd, Return
    <2>2. CASE ~ReturnCusd(final)
      <3>1. g_state' = g_state
        BY <1>6, <2>2 DEF AtReturns, Return, ReturnMqtt, ReturnSend, ReturnDelete, DeleteIdxAfter,
           ReturnRead, ReturnPublish, ReturnHeartbeat
      <3> QED
        BY <2>0, <3>1
    <2> QED
      BY <2>1, <2>2
  <1>7. CASE UNCHANGED vars
    BY <1>7 DEF vars
  <1> QED
    BY <1>1, <1>2, <1>3, <1>4, <1>5, <1>6, <1>7, NextGroups

\* The balance message is built from an answer taken over in the present boot
\* sequence, and is not sent again after a send that was not BUSY
\* (main.c:994-1047).
THEOREM GatewayBalanceIsFromAnswer == Spec => []BalanceIsFromAnswer
  <1>1. Init => AnswerCached /\ BalanceInv
    BY DEF Init, AnswerCached, BalanceInv, NoUssd, NoAt
  <1>2. BalanceInv => BalanceIsFromAnswer
    BY DEF BalanceInv, BalanceIsFromAnswer
  <1> QED
    BY <1>1, <1>2, TypeInit, TypeStep, AnswerCachedStep, BalanceStep, PTL DEF Spec

-----------------------------------------------------------------------------
(* What a queue holds.                                                     *)

Holds(q, v)       == \E k \in DOMAIN q : q[k] = v
AtMostOnce(q, v)  == \A j, k \in DOMAIN q : q[j] = v /\ q[k] = v => j = k

LEMMA EmptyHoldsNothing == \A v : ~Holds(<<>>, v) /\ AtMostOnce(<<>>, v)
  BY DEF Holds, AtMostOnce

\* A push adds the item pushed and nothing else, and keeps every other item
\* single.
LEMMA EnqueueHoldsItem ==
    ASSUME NEW T, NEW cap \in Nat, NEW q \in Queue(T, cap), NEW v \in T, NEW w
    PROVE  /\ Holds(Enqueue(q, v, cap), w) => Holds(q, w) \/ v = w
           /\ AtMostOnce(q, w) /\ (v = w => ~Holds(q, w))
                => AtMostOnce(Enqueue(q, v, cap), w)
  <1>1. CASE Len(q) < cap
    <2>1. /\ Enqueue(q, v, cap) = Append(q, v)
          /\ q \in Seq(T)
      BY <1>1 DEF Enqueue, Queue
    <2>2. \A k \in DOMAIN Append(q, v) :
             \/ k \in DOMAIN q /\ Append(q, v)[k] = q[k]
             \/ k = Len(q) + 1 /\ Append(q, v)[k] = v
      BY <2>1
    <2> QED
      BY <2>1, <2>2 DEF Holds, AtMostOnce
  <1>2. CASE ~(Len(q) < cap)
    BY <1>2 DEF Enqueue
  <1> QED
    BY <1>1, <1>2

\* A pop removes the head, and what was there once is gone with it.
LEMMA TailHoldsItem ==
    ASSUME NEW T, NEW q \in Seq(T), q # <<>>, NEW w
    PROVE  /\ Holds(q, Head(q)) /\ Head(q) \in T
           /\ Holds(Tail(q), w) => Holds(q, w)
           /\ AtMostOnce(q, w) => AtMostOnce(Tail(q), w)
           /\ AtMostOnce(q, w) /\ Holds(Tail(q), w) => Head(q) # w
  <1>1. /\ 1 \in DOMAIN q /\ Head(q) = q[1]
        /\ \A k \in DOMAIN Tail(q) :
              k \in Nat /\ k >= 1 /\ k + 1 \in DOMAIN q /\ Tail(q)[k] = q[k + 1]
    OBVIOUS
  <1>2. Holds(q, Head(q)) /\ Head(q) \in T
    BY <1>1 DEF Holds
  <1>3. Holds(Tail(q), w) => Holds(q, w)
    BY <1>1 DEF Holds
  <1>4. AtMostOnce(q, w) => AtMostOnce(Tail(q), w)
    <2> SUFFICES ASSUME AtMostOnce(q, w), NEW j \in DOMAIN Tail(q),
                        NEW k \in DOMAIN Tail(q), Tail(q)[j] = w, Tail(q)[k] = w
                 PROVE  j = k
      BY DEF AtMostOnce
    <2>1. j + 1 = k + 1
      BY <1>1 DEF AtMostOnce
    <2> QED
      BY <1>1, <2>1
  <1>5. AtMostOnce(q, w) /\ Holds(Tail(q), w) => Head(q) # w
    <2> SUFFICES ASSUME AtMostOnce(q, w), NEW k \in DOMAIN Tail(q), Tail(q)[k] = w,
                        Head(q) = w
                 PROVE  FALSE
      BY DEF Holds
    <2>1. k + 1 = 1
      BY <1>1 DEF AtMostOnce
    <2> QED
      BY <1>1, <2>1
  <1> QED
    BY <1>2, <1>3, <1>4, <1>5

\* The same of a sequence that only grows.
LEMMA AppendHoldsItem ==
    ASSUME NEW T, NEW q \in Seq(T), NEW v \in T, NEW w
    PROVE  /\ Holds(Append(q, v), w) => Holds(q, w) \/ v = w
           /\ AtMostOnce(q, w) /\ (v = w => ~Holds(q, w))
                => AtMostOnce(Append(q, v), w)
  <1>1. \A k \in DOMAIN Append(q, v) :
             \/ k \in DOMAIN q /\ Append(q, v)[k] = q[k]
             \/ k = Len(q) + 1 /\ Append(q, v)[k] = v
    OBVIOUS
  <1> QED
    BY <1>1 DEF Holds, AtMostOnce

-----------------------------------------------------------------------------
(* The steps, by what they do to the way of a message.                     *)

wayVars == <<store, arrived, offered, handed, g_pub_q, g_sms_idx_q, g_cmgr,
             g_sms_delete_idx>>

\* Another URC than +CMTI.
OtherUrc ==
    /\ \E m \in Messages : m.urc # "SMS" /\ Post(m)
    /\ UNCHANGED <<wayVars, at>>

\* Another message to the main task than SIM READY and URC_NEW_SMS_IND.
OtherDispatch ==
    /\ msgQ # <<>> /\ msgQ' = Tail(msgQ)
    /\ UNCHANGED <<wayVars, at>>

\* A step away from the uplink.
Elsewhere ==
    /\ UNCHANGED <<wayVars, msgQ>>
    /\ at' = at \/ (at.cmd # "PUB" /\ at'.cmd # "PUB")

LEMMA WayCases ==
    ASSUME TypeOK, [Next]_vars
    PROVE  \/ \E s \in Sms, i \in Slot : UrcNewSms(s, i)
           \/ OtherUrc \/ OnSimReady \/ OnNewSms \/ OtherDispatch \/ AfterMessage
           \/ PumpRead \/ PumpPublish
           \/ \E final \in Finals : \/ ReturnDelete(final) \/ ReturnRead(final)
                                    \/ ReturnPublish(final)
           \/ Elsewhere
  <1> USE DEF wayVars
  <1>1. CASE Events
    <2>1. CASE UrcSimReady \/ UrcOther
               \/ (\E kind \in {"command", "other"} : UrcMqttRecv(kind))
               \/ (\E text \in {"hex", "short"} : UrcUssd(text))
      <3>1. \A u \in {"SIM", "MQTT", "USSD", "OTHER"} :
               [urc |-> u, idx |-> 0] \in Messages /\ [urc |-> u, idx |-> 0].urc # "SMS"
        BY DEF Messages
      <3>2. \E u \in {"SIM", "MQTT", "USSD", "OTHER"} : Post([urc |-> u, idx |-> 0])
        BY <2>1 DEF UrcSimReady, UrcOther, UrcMqttRecv, UrcUssd
      <3>3. UNCHANGED <<wayVars, at>>
        BY <2>1 DEF UrcSimReady, UrcOther, UrcMqttRecv, UrcUssd
      <3> QED
        BY <3>1, <3>2, <3>3 DEF OtherUrc
    <2>2. CASE OnMqttRecv \/ OnUssdRecv \/ OnOther
      BY <2>2 DEF OnMqttRecv, OnUssdRecv, OnOther, Receive, OtherDispatch
    <2>3. CASE Tick
      BY <2>3 DEF Tick, Elsewhere
    <2> QED
      BY <1>1, <2>1, <2>2, <2>3 DEF Events, Urc, Dispatch
  <1>2. CASE StateMachine_1s
    <2>1. UNCHANGED <<wayVars, msgQ>>
      BY <1>2 DEF StateMachine_1s, WaitReg, UssdReq, UssdWait, UssdSms, Pdp, MqttCfg,
        MqttOpen, MqttConn, MqttSub, MqttStep, NothingToDo, LinkBusy, Second,
        Leave, Send, SendPersianSms
    <2>2. at.cmd = "none"
      BY <1>2 DEF TypeOK, AtTypeOK, StateMachine_1s, WaitReg, UssdReq, UssdWait,
        UssdSms, Pdp, MqttCfg, MqttOpen, MqttConn, MqttSub, MqttStep, NothingToDo,
        LinkBusy, Second
    <2>3. at' = at \/ at'.cmd # "PUB"
      BY <1>2 DEF StateMachine_1s, WaitReg, UssdReq, UssdWait, UssdSms, Pdp, MqttCfg,
        MqttOpen, MqttConn, MqttSub, MqttStep, NothingToDo, LinkBusy, Second,
        Leave, Send, SendPersianSms
    <2> QED
      BY <2>1, <2>2, <2>3 DEF Elsewhere
  <1>3. CASE PumpSend \/ PumpDelete \/ PumpHeartbeat \/ PumpNothing
    BY <1>3 DEF PumpSend, PumpDelete, PumpHeartbeat, PumpNothing, CanPump, Send,
       Elsewhere, TypeOK, AtTypeOK
  <1>4. ASSUME NEW final \in Finals,
               \/ ReturnCusd(final) \/ ReturnMqtt(final) \/ ReturnSend(final)
               \/ ReturnHeartbeat(final)
        PROVE  Elsewhere
    BY <1>4 DEF ReturnCusd, ReturnMqtt, ReturnSend, ReturnHeartbeat, Return, NoAt,
       Elsewhere
  <1>5. CASE UNCHANGED vars
    BY <1>5 DEF vars, Elsewhere
  <1>6. CASE Pump_Ready
    BY <1>3, <1>6 DEF Pump_Ready
  <1>7. CASE \E final \in Finals : AtReturns(final)
    <2>1. PICK final \in Finals : AtReturns(final)
      BY <1>7
    <2> QED
      BY <1>4, <2>1 DEF AtReturns
  <1> QED
    BY <1>1, <1>2, <1>5, <1>6, <1>7, NextGroups

-----------------------------------------------------------------------------
(* Where the index of a message is.                                        *)

SmsUrc(i) == [urc |-> "SMS", idx |-> i]

Announced(i) == Holds(msgQ, SmsUrc(i))
Listed(i)    == Holds(g_sms_idx_q, i)

\* The storage holds messages that arrived, each once.
StoreOK ==
    /\ \A i \in Slot : store[i] # NoSms => store[i] \in arrived
    /\ \A i, j \in Slot : store[i] = store[j] /\ store[i] # NoSms => i = j

\* An index is in at most one place of its way, and there once.
ReferredOnce ==
    \A i \in Slot :
        /\ AtMostOnce(msgQ, SmsUrc(i)) /\ AtMostOnce(g_sms_idx_q, i)
        /\ Announced(i) => ~Listed(i) /\ g_cmgr.idx # i /\ g_sms_delete_idx # i
        /\ Listed(i) => g_cmgr.idx # i /\ g_sms_delete_idx # i
        /\ g_cmgr.idx = i => g_sms_delete_idx # i

\* Until a message was taken over, its index points to it.
AwaitedOK ==
    \A i \in Slot : Announced(i) \/ Listed(i) \/ g_cmgr.idx = i
                        => store[i] # NoSms /\ store[i] \notin offered

WayInv == StoreOK /\ ReferredOnce /\ AwaitedOK /\ offered \subseteq arrived

LEMMA WayInit == Init => WayInv
  BY GatewayAssumption, EmptyHoldsNothing
  DEF Init, WayInv, StoreOK, ReferredOnce, AwaitedOK, Announced, Listed, NoCmgr

LEMMA WayNewSms ==
    ASSUME TypeOK, WayInv, PendingDeleteOK, NEW s \in Sms, NEW i \in Slot,
           UrcNewSms(s, i)
    PROVE  WayInv'
  <1>0. /\ s \notin arrived /\ store[i] = NoSms /\ NoSms \notin Sms
        /\ arrived' = arrived \cup {s} /\ store' = [store EXCEPT ![i] = s]
        /\ msgQ' = Enqueue(msgQ, SmsUrc(i), MsgQueueCap)
        /\ UNCHANGED <<offered, g_sms_idx_q, g_cmgr, g_sms_delete_idx>>
        /\ i # 0 /\ store \in [Slot -> Sms \cup {NoSms}]
        /\ offered \cup EmptySms \subseteq Sms
    BY GatewayAssumption DEF UrcNewSms, Post, SmsUrc, TypeOK, SmsTypeOK
  <1>1. /\ msgQ \in Queue(Messages, MsgQueueCap) /\ MsgQueueCap \in Nat
        /\ SmsUrc(i) \in Messages
        /\ \A j \in Slot : SmsUrc(j) = SmsUrc(i) => j = i
    BY Capacities DEF TypeOK, QueueTypeOK, Messages, SmsUrc
  <1>2. /\ ~Announced(i) /\ ~Listed(i) /\ g_cmgr.idx # i /\ g_sms_delete_idx # i
    BY <1>0 DEF WayInv, AwaitedOK, PendingDeleteOK
  <1>3. ASSUME NEW j \in Slot
        PROVE  /\ Announced(j)' => Announced(j) \/ j = i
               /\ AtMostOnce(msgQ, SmsUrc(j))'
    <2>1. AtMostOnce(msgQ, SmsUrc(j))
      BY DEF WayInv, ReferredOnce
    <2> QED
      BY <1>0, <1>1, <1>2, <2>1, EnqueueHoldsItem DEF Announced
  <1>4. StoreOK'
    BY <1>0 DEF WayInv, StoreOK
  <1>5. ReferredOnce'
    BY <1>0, <1>2, <1>3 DEF WayInv, ReferredOnce, Listed
  <1>6. AwaitedOK'
    BY <1>0, <1>2, <1>3 DEF WayInv, AwaitedOK, Listed
  <1> QED
    BY <1>0, <1>4, <1>5, <1>6 DEF WayInv

LEMMA WayDispatch ==
    ASSUME TypeOK, WayInv, OnSimReady \/ OnNewSms \/ OtherDispatch
    PROVE  WayInv'
  <1>0. /\ msgQ # <<>> /\ msgQ' = Tail(msgQ) /\ UNCHANGED <<store, arrived, offered>>
        /\ msgQ \in Seq(Messages)
    BY DEF OnSimReady, OnNewSms, OtherDispatch, Receive, wayVars, TypeOK, QueueTypeOK,
       Queue
  <1>1. ASSUME NEW j \in Slot
        PROVE  /\ Announced(j)' => Announced(j)
               /\ AtMostOnce(msgQ, SmsUrc(j))'
               /\ Announced(j)' => Head(msgQ) # SmsUrc(j)
    <2>1. AtMostOnce(msgQ, SmsUrc(j))
      BY DEF WayInv, ReferredOnce
    <2> QED
      BY <1>0, <2>1, TailHoldsItem DEF Announced
  <1>2. StoreOK'
    BY <1>0 DEF WayInv, StoreOK
  <1>3. CASE OnSimReady
    <2>1. /\ g_sms_idx_q' = <<>> /\ g_cmgr'.idx = 0 /\ g_sms_delete_idx' = 0
          /\ \A j \in Slot : j # 0
      BY <1>3, GatewayAssumption DEF OnSimReady, NoCmgr
    <2>2. \A j \in Slot : ~Listed(j)' /\ AtMostOnce(g_sms_idx_q, j)'
      BY <2>1, EmptyHoldsNothing DEF Listed
    <2>3. ReferredOnce'
      BY <1>1, <2>1, <2>2 DEF WayInv, ReferredOnce
    <2>4. AwaitedOK'
      BY <1>0, <1>1, <2>1, <2>2 DEF WayInv, AwaitedOK
    <2> QED
      BY <1>0, <1>2, <2>3, <2>4 DEF WayInv
  <1>4. CASE OnNewSms
    <2>1. PICK i \in Slot : Head(msgQ) = SmsUrc(i)
      <3>1. Head(msgQ) \in Messages /\ Head(msgQ).urc = "SMS"
        BY <1>0, <1>4, TailHoldsItem DEF OnNewSms, Receive
      <3> QED
        BY <3>1 DEF Messages, SmsUrc
    <2>2. /\ g_sms_idx_q' = Enqueue(g_sms_idx_q, i, SmsIdxCap)
          /\ UNCHANGED <<g_cmgr, g_sms_delete_idx>>
      BY <1>4, <2>1 DEF OnNewSms, Receive, SmsUrc
    <2>3. Announced(i) /\ ~Announced(i)'
      BY <1>0, <1>1, <2>1, TailHoldsItem DEF Announced
    <2>4. ASSUME NEW j \in Slot
          PROVE  /\ Listed(j)' => Listed(j) \/ j = i
                 /\ AtMostOnce(g_sms_idx_q, j)'
      <3>1. g_sms_idx_q \in Queue(Slot, SmsIdxCap) /\ SmsIdxCap \in Nat
        BY Capacities DEF TypeOK, QueueTypeOK
      <3>2. AtMostOnce(g_sms_idx_q, j) /\ ~Listed(i)
        BY <2>3 DEF WayInv, ReferredOnce
      <3>3. /\ Holds(Enqueue(g_sms_idx_q, i, SmsIdxCap), j)
                  => Holds(g_sms_idx_q, j) \/ i = j
            /\ AtMostOnce(Enqueue(g_sms_idx_q, i, SmsIdxCap), j)
        BY <3>1, <3>2, EnqueueHoldsItem DEF Listed
      <3> QED
        BY <2>2, <3>3 DEF Listed
    <2>5. ReferredOnce'
      BY <1>1, <2>1, <2>2, <2>3, <2>4 DEF WayInv, ReferredOnce
    <2>6. AwaitedOK'
      BY <1>0, <1>1, <2>1, <2>2, <2>3, <2>4 DEF WayInv, AwaitedOK
    <2> QED
      BY <1>0, <1>2, <2>5, <2>6 DEF WayInv
  <1>5. CASE OtherDispatch
    <2>1. UNCHANGED <<g_sms_idx_q, g_cmgr, g_sms_delete_idx>>
      BY <1>5 DEF OtherDispatch, wayVars
    <2>2. ReferredOnce'
      BY <1>1, <2>1 DEF WayInv, ReferredOnce, Listed
    <2>3. AwaitedOK'
      BY <1>0, <1>1, <2>1 DEF WayInv, AwaitedOK, Listed
    <2> QED
      BY <1>0, <1>2, <2>2, <2>3 DEF WayInv
  <1> QED
    BY <1>3, <1>4, <1>5

LEMMA WayAfterMessage ==
    ASSUME TypeOK, UplinkInv, WayInv, AfterMessage
    PROVE  WayInv'
  <1>0. UNCHANGED <<msgQ, g_sms_idx_q, store, arrived>>
    BY DEF AfterMessage
  <1>1. CASE ~CmgrDone
    <2>1. UNCHANGED <<offered, g_cmgr, g_sms_delete_idx>>
      BY <1>1 DEF AfterMessage
    <2> QED
      BY <1>0, <2>1 DEF WayInv, StoreOK, ReferredOnce, AwaitedOK, Announced, Listed
  <1>2. CASE CmgrDone
    <2> DEFINE i == g_cmgr.idx
    <2>1. /\ i # 0 /\ i \in Slot /\ g_cmgr'.idx = 0 /\ g_sms_delete_idx' = i
          /\ offered' \subseteq offered \cup {store[i]}
          /\ store[i] \in arrived
          /\ \A j \in Slot : j # 0
      <3>1. i # 0 /\ i \in Slot /\ store[i] \in Sms /\ g_cmgr.msg \in {store[i], NoSms}
        BY <1>2 DEF CmgrDone, UplinkInv, PendingReadOK, TypeOK, SmsTypeOK
      <3>2. g_cmgr'.idx = 0 /\ g_sms_delete_idx' = i
        BY <1>2 DEF AfterMessage, Processed, TypeOK, SmsTypeOK
      <3>3. offered' \subseteq offered \cup {store[i]}
        BY <1>2, <3>1 DEF AfterMessage
      <3>4. store[i] \in arrived /\ \A j \in Slot : j # 0
        BY <3>1, GatewayAssumption DEF WayInv, StoreOK
      <3> QED
        BY <3>1, <3>2, <3>3, <3>4
    <2> HIDE DEF i
    <2>2. ReferredOnce'
      BY <1>0, <2>1 DEF WayInv, ReferredOnce, Announced, Listed, i
    <2>3. AwaitedOK'
      <3> SUFFICES ASSUME NEW j \in Slot, Announced(j) \/ Listed(j)
                   PROVE  store[j] # NoSms /\ store[j] \notin offered'
        BY <1>0, <2>1 DEF AwaitedOK, Announced, Listed
      <3>1. j # i
        BY DEF WayInv, ReferredOnce, i
      <3>2. store[j] # NoSms /\ store[j] \notin offered
        BY DEF WayInv, AwaitedOK
      <3>3. store[j] # store[i]
        BY <2>1, <3>1, <3>2 DEF WayInv, StoreOK
      <3> QED
        BY <2>1, <3>2, <3>3
    <2>4. StoreOK' /\ offered' \subseteq arrived'
      BY <1>0, <2>1 DEF WayInv, StoreOK
    <2> QED
      BY <2>2, <2>3, <2>4 DEF WayInv
  <1> QED
    BY <1>1, <1>2

LEMMA WayRead ==
    ASSUME TypeOK, WayInv, PumpRead
    PROVE  WayInv'
  <1> DEFINE i == Head(g_sms_idx_q)
  <1>0. /\ g_sms_idx_q # <<>> /\ g_sms_idx_q' = Tail(g_sms_idx_q)
        /\ g_cmgr'.idx = i /\ g_sms_delete_idx = 0
        /\ UNCHANGED <<msgQ, store, arrived, offered, g_sms_delete_idx>>
        /\ g_sms_idx_q \in Seq(Slot) /\ 0 \notin Slot
    BY GatewayAssumption
    DEF PumpRead, MayRead, ReadContext, NoCmgr, TypeOK, QueueTypeOK, Queue
  <1>1. ASSUME NEW j \in Slot
        PROVE  /\ Listed(j)' => Listed(j) /\ i # j
               /\ AtMostOnce(g_sms_idx_q, j)'
    <2>1. AtMostOnce(g_sms_idx_q, j)
      BY DEF WayInv, ReferredOnce
    <2> QED
      BY <1>0, <2>1, TailHoldsItem DEF Listed
  <1>2. i \in Slot /\ Listed(i)
    BY <1>0, TailHoldsItem DEF Listed
  <1> HIDE DEF i
  <1>3. StoreOK'
    BY <1>0 DEF WayInv, StoreOK
  <1>4. ReferredOnce'
    BY <1>0, <1>1, <1>2 DEF WayInv, ReferredOnce, Announced
  <1>5. AwaitedOK'
    BY <1>0, <1>1, <1>2 DEF WayInv, AwaitedOK, Announced
  <1> QED
    BY <1>0, <1>3, <1>4, <1>5 DEF WayInv

LEMMA WayDelete ==
    ASSUME TypeOK, UplinkInv, WayInv, NEW final \in Finals, ReturnDelete(final)
    PROVE  WayInv'
  <1>0. /\ at.arg = g_sms_delete_idx /\ at.arg \in Slot
        /\ g_sms_delete_idx' = 0 /\ 0 \notin Slot
        /\ UNCHANGED <<msgQ, g_sms_idx_q, g_cmgr, arrived, offered>>
        /\ store' = store \/ store' = [store EXCEPT ![at.arg] = NoSms]
        /\ store \in [Slot -> Sms \cup {NoSms}]
    BY GatewayAssumption
    DEF ReturnDelete, DeleteIdxAfter, Return, UplinkInv, InFlightOK, TypeOK, AtTypeOK,
        SmsTypeOK
  <1>1. StoreOK'
    BY <1>0 DEF WayInv, StoreOK
  <1>2. ReferredOnce'
    BY <1>0 DEF WayInv, ReferredOnce, Announced, Listed
  <1>3. AwaitedOK'
    BY <1>0 DEF WayInv, ReferredOnce, AwaitedOK, Announced, Listed
  <1> QED
    BY <1>0, <1>1, <1>2, <1>3 DEF WayInv

LEMMA WayStep ==
    ASSUME TypeOK, UplinkInv, WayInv, [Next]_vars
    PROVE  WayInv'
  <1>1. CASE \E s \in Sms, i \in Slot : UrcNewSms(s, i)
    BY <1>1, WayNewSms DEF UplinkInv
  <1>2. CASE OtherUrc
    <2>1. PICK m \in Messages : m.urc # "SMS" /\ Post(m)
      BY <1>2 DEF OtherUrc
    <2>2. UNCHANGED <<store, arrived, offered, g_sms_idx_q, g_cmgr, g_sms_delete_idx>>
      BY <1>2 DEF OtherUrc, wayVars
    <2>3. ASSUME NEW j \in Slot
          PROVE  /\ Announced(j)' => Announced(j)
                 /\ AtMostOnce(msgQ, SmsUrc(j))'
      <3>1. msgQ' = Enqueue(msgQ, m, MsgQueueCap) /\ m # SmsUrc(j)
        BY <2>1 DEF Post, SmsUrc
      <3>2. msgQ \in Queue(Messages, MsgQueueCap) /\ AtMostOnce(msgQ, SmsUrc(j))
        BY DEF TypeOK, QueueTypeOK, WayInv, ReferredOnce
      <3> QED
        BY <3>1, <3>2, Capacities, EnqueueHoldsItem DEF Announced
    <2> QED
      BY <2>2, <2>3 DEF WayInv, StoreOK, ReferredOnce, AwaitedOK, Listed
  <1>3. CASE OnSimReady \/ OnNewSms \/ OtherDispatch
    BY <1>3, WayDispatch
  <1>4. CASE AfterMessage
    BY <1>4, WayAfterMessage
  <1>5. CASE PumpRead
    BY <1>5, WayRead
  <1>6. ASSUME NEW final \in Finals, ReturnDelete(final) PROVE WayInv'
    BY <1>6, WayDelete
  <1>7. ASSUME NEW final \in Finals, ReturnRead(final) PROVE WayInv'
    <2>1. /\ UNCHANGED <<g_sms_delete_idx, store, arrived, offered, msgQ, g_sms_idx_q>>
          /\ g_cmgr'.idx = g_cmgr.idx
      BY <1>7, ReadResult DEF ReturnRead, Return
    <2> QED
      BY <2>1 DEF WayInv, StoreOK, ReferredOnce, AwaitedOK, Announced, Listed
  <1>8. ASSUME \/ PumpPublish
               \/ \E final \in Finals : ReturnPublish(final)
               \/ Elsewhere
        PROVE  WayInv'
    <2>1. UNCHANGED <<store, arrived, offered, g_sms_idx_q, g_cmgr, g_sms_delete_idx,
                      msgQ>>
      BY <1>8 DEF PumpPublish, ReturnPublish, Return, Elsewhere, wayVars
    <2> QED
      BY <2>1 DEF WayInv, StoreOK, ReferredOnce, AwaitedOK, Announced, Listed
  <1> QED
    BY <1>1, <1>2, <1>3, <1>4, <1>5, <1>6, <1>7, <1>8, WayCases

-----------------------------------------------------------------------------
(* Where the text of a message is.                                         *)

\* A text waits in the queue or was handed to the broker only after it was
\* taken over; it waits once and was handed once, and does both only while
\* AT+QMTPUB is in flight for it.
PubInv ==
    /\ g_cmgr.msg \notin EmptySms
    /\ \A s \in Sms :
          /\ AtMostOnce(g_pub_q, s) /\ AtMostOnce(handed, s)
          /\ Holds(g_pub_q, s) \/ Holds(handed, s) => s \in offered
          /\ Holds(g_pub_q, s) /\ Holds(handed, s)
                => at.cmd = "PUB" /\ s = Head(g_pub_q)

LEMMA PubInit == Init => PubInv
  BY GatewayAssumption, EmptyHoldsNothing DEF Init, PubInv, NoCmgr

\* A step that leaves the texts alone and starts or ends no AT+QMTPUB.
LEMMA PubFrame ==
    ASSUME PubInv, UNCHANGED <<g_pub_q, handed, offered>>,
           g_cmgr'.msg \notin EmptySms,
           at' = at \/ (at.cmd # "PUB" /\ at'.cmd # "PUB")
    PROVE  PubInv'
  BY DEF PubInv

\* The message that the end of a turn passes on.
LEMMA PassedOn ==
    ASSUME TypeOK, UplinkInv, WayInv, PubInv, CmgrDone, g_cmgr.msg # NoSms
    PROVE  /\ g_cmgr.idx \in Slot /\ g_cmgr.msg = store[g_cmgr.idx]
           /\ g_cmgr.msg \in Sms \ (offered \cup EmptySms)
  <1>1. g_cmgr.idx \in Slot /\ g_cmgr.idx # 0 /\ g_cmgr.hdr
    BY DEF CmgrDone, TypeOK, SmsTypeOK
  <1>2. g_cmgr.msg = store[g_cmgr.idx] /\ g_cmgr.msg \in Sms
    BY <1>1 DEF UplinkInv, PendingReadOK
  <1>3. store[g_cmgr.idx] \notin offered
    BY <1>1 DEF WayInv, AwaitedOK
  <1> QED
    BY <1>1, <1>2, <1>3 DEF PubInv

LEMMA PubAfterMessage ==
    ASSUME TypeOK, UplinkInv, WayInv, PubInv, AfterMessage
    PROVE  PubInv'
  <1>0. /\ UNCHANGED <<handed, at>> /\ at.cmd = "none"
        /\ g_cmgr'.msg = g_cmgr.msg
        /\ g_pub_q \in Queue(Sms, PubCap) /\ PubCap \in Nat
    BY Capacities DEF AfterMessage, Processed, TypeOK, AtTypeOK, QueueTypeOK, SmsTypeOK
  <1>1. CASE CmgrDone /\ g_cmgr.msg # NoSms
    <2>1. PICK t \in Sms : t = g_cmgr.msg /\ t \notin offered
      BY <1>1, PassedOn
    <2>2. /\ g_pub_q' = Enqueue(g_pub_q, t, PubCap)
          /\ offered' = offered \cup {t}
      BY <1>1, <2>1 DEF AfterMessage
    <2>3. ASSUME NEW s \in Sms
          PROVE  /\ AtMostOnce(g_pub_q, s)'
                 /\ Holds(g_pub_q, s)' => Holds(g_pub_q, s) \/ s = t
      <3>1. AtMostOnce(g_pub_q, s) /\ (t = s => ~Holds(g_pub_q, s))
        BY <2>1 DEF PubInv
      <3> QED
        BY <1>0, <2>2, <3>1, EnqueueHoldsItem
    <2>4. ~Holds(handed, t)
      BY <2>1 DEF PubInv
    <2> QED
      BY <1>0, <2>1, <2>2, <2>3, <2>4 DEF PubInv
  <1>2. CASE ~(CmgrDone /\ g_cmgr.msg # NoSms)
    <2>1. UNCHANGED <<g_pub_q, offered>>
      BY <1>2 DEF AfterMessage
    <2> QED
      BY <1>0, <2>1, PubFrame DEF PubInv
  <1> QED
    BY <1>1, <1>2

\* The text that is published was not handed to the broker before.
LEMMA PublishedText ==
    ASSUME TypeOK, PubInv, PumpPublish
    PROVE  /\ Head(g_pub_q) \in Sms /\ Head(g_pub_q) \in offered
           /\ Holds(g_pub_q, Head(g_pub_q)) /\ ~Holds(handed, Head(g_pub_q))
  <1>1. g_pub_q # <<>> /\ g_pub_q \in Seq(Sms) /\ at.cmd # "PUB"
    BY DEF PumpPublish, CanPump, TypeOK, QueueTypeOK, Queue, AtTypeOK
  <1>2. Head(g_pub_q) \in Sms /\ Holds(g_pub_q, Head(g_pub_q))
    BY <1>1, TailHoldsItem
  <1> QED
    BY <1>1, <1>2 DEF PubInv

LEMMA PubPublish ==
    ASSUME TypeOK, PubInv, PumpPublish
    PROVE  PubInv'
  <1>1. PICK t \in Sms : /\ t = Head(g_pub_q) /\ t \in offered
                         /\ Holds(g_pub_q, t) /\ ~Holds(handed, t)
    BY PublishedText
  <1>2. /\ handed' = Append(handed, t) /\ at'.cmd = "PUB" /\ handed \in Seq(Sms)
        /\ UNCHANGED <<g_pub_q, offered, g_cmgr>> /\ at.cmd # "PUB"
    BY <1>1 DEF PumpPublish, CanPump, Send, TypeOK, AtTypeOK, SmsTypeOK
  <1>3. ASSUME NEW s \in Sms
        PROVE  /\ AtMostOnce(handed, s)'
               /\ Holds(handed, s)' => Holds(handed, s) \/ s = t
    <2>1. AtMostOnce(handed, s)
      BY DEF PubInv
    <2> QED
      BY <1>1, <1>2, <2>1, AppendHoldsItem
  <1> QED
    BY <1>1, <1>2, <1>3 DEF PubInv

LEMMA PubReturn ==
    ASSUME TypeOK, PubInv, NEW final \in Finals, ReturnPublish(final)
    PROVE  PubInv'
  <1>1. /\ g_pub_q # <<>> /\ g_pub_q \in Seq(Sms) /\ g_pub_q' = Tail(g_pub_q)
        /\ UNCHANGED <<offered, handed, g_cmgr>>
    BY DEF ReturnPublish, Popped, Return, TypeOK, AtTypeOK, QueueTypeOK, Queue
  <1>2. ASSUME NEW s \in Sms
        PROVE  /\ AtMostOnce(g_pub_q, s)'
               /\ Holds(g_pub_q, s)' => Holds(g_pub_q, s) /\ s # Head(g_pub_q)
    <2>1. AtMostOnce(g_pub_q, s)
      BY DEF PubInv
    <2> QED
      BY <1>1, <2>1, TailHoldsItem
  <1> QED
    BY <1>1, <1>2 DEF PubInv

LEMMA PubStep ==
    ASSUME TypeOK, UplinkInv, WayInv, PubInv, [Next]_vars
    PROVE  PubInv'
  <1>1. CASE \E s \in Sms, i \in Slot : UrcNewSms(s, i)
    BY <1>1, PubFrame DEF UrcNewSms, PubInv
  <1>2. CASE OtherUrc \/ OtherDispatch \/ Elsewhere
    BY <1>2, PubFrame DEF OtherUrc, OtherDispatch, Elsewhere, wayVars, PubInv
  <1>3. CASE OnSimReady
    <2>1. /\ g_pub_q' = <<>> /\ UNCHANGED <<handed, offered>>
          /\ g_cmgr'.msg \notin EmptySms
      BY <1>3, GatewayAssumption DEF OnSimReady, NoCmgr
    <2> QED
      BY <2>1, EmptyHoldsNothing DEF PubInv
  <1>4. CASE OnNewSms
    BY <1>4, PubFrame DEF OnNewSms, Receive, PubInv
  <1>5. CASE AfterMessage
    BY <1>5, PubAfterMessage
  <1>6. CASE PumpRead
    BY <1>6, PubFrame, GatewayAssumption
    DEF PumpRead, CanPump, Send, ReadContext, NoCmgr, TypeOK, AtTypeOK
  <1>7. CASE PumpPublish
    BY <1>7, PubPublish
  <1>8. ASSUME NEW final \in Finals, ReturnDelete(final) PROVE PubInv'
    BY <1>8, PubFrame DEF ReturnDelete, Return, NoAt, PubInv
  <1>9. ASSUME NEW final \in Finals, ReturnRead(final) PROVE PubInv'
    <2>1. /\ UNCHANGED <<g_pub_q, handed, offered>>
          /\ at.cmd # "PUB" /\ at'.cmd # "PUB"
      BY <1>9 DEF ReturnRead, Return, NoAt
    <2>2. g_cmgr'.msg \notin EmptySms
      <3>1. /\ at.arg \in Slot /\ NoSms \notin EmptySms
            /\ g_cmgr.msg \notin EmptySms
        BY <1>9, GatewayAssumption DEF ReturnRead, Return, TypeOK, AtTypeOK, PubInv
      <3> QED
        BY <1>9, <3>1 DEF ReturnRead, Return, AllLines, SomeLines, WithHeader, NoLines,
           TypeOK, SmsTypeOK
    <2> QED
      BY <2>1, <2>2, PubFrame
  <1>10. ASSUME NEW final \in Finals, ReturnPublish(final) PROVE PubInv'
    BY <1>10, PubReturn
  <1> QED
    BY <1>1, <1>2, <1>3, <1>4, <1>5, <1>6, <1>7, <1>8, <1>9, <1>10, WayCases

RelayInv == TypeOK /\ UplinkInv /\ WayInv /\ PubInv

\* Every message is on its way at most once: the inductive invariant of the
\* uplink, from its announcement to the broker.
THEOREM RelayCorrect == Spec => []RelayInv
  <1>1. Init => RelayInv
    BY TypeInit, UplinkInit, WayInit, PubInit DEF RelayInv
  <1>2. RelayInv /\ [Next]_vars => RelayInv'
    BY TypeStep, UplinkStep, WayStep, PubStep DEF RelayInv
  <1> QED
    BY <1>1, <1>2, PTL DEF Spec

\* No short message is handed to AT+QMTPUB twice, not even after the SIM was
\* re-initialised between the read and the delete (main.c:925-936, 1236-1244).
THEOREM GatewayPublishesOnce == Spec => []PublishedOnce
  <1>1. RelayInv => PublishedOnce
    <2> SUFFICES ASSUME RelayInv, NEW j \in DOMAIN handed, NEW k \in DOMAIN handed,
                        handed[j] = handed[k]
                 PROVE  j = k
      BY DEF PublishedOnce
    <2>1. handed[j] \in Sms
      BY DEF RelayInv, TypeOK, SmsTypeOK
    <2> QED
      BY <2>1 DEF RelayInv, PubInv, AtMostOnce
  <1> QED
    BY <1>1, RelayCorrect, PTL

-----------------------------------------------------------------------------
(* The gateway implements the relay.                                       *)

\* A step of the gateway is a step of the relay, or changes nothing the relay
\* knows of.
LEMMA RelayStep ==
    ASSUME RelayInv, [Next]_vars
    PROVE  [Relay!Next]_(Relay!vars)
  <1> USE DEF RelayInv
  <1> DEFINE held == {store[i] : i \in Slot} \ {NoSms}
  <1>0. store \in [Slot -> Sms \cup {NoSms}] /\ NoSms \notin Sms
    BY GatewayAssumption DEF TypeOK, SmsTypeOK
  <1>1. ASSUME NEW s \in Sms, NEW i \in Slot, UrcNewSms(s, i)
        PROVE  Relay!Arrive(s)
    <2>1. /\ s \notin arrived /\ store[i] = NoSms
          /\ arrived' = arrived \cup {s} /\ store' = [store EXCEPT ![i] = s]
          /\ UNCHANGED <<offered, handed>>
      BY <1>1 DEF UrcNewSms
    <2>2. held' = held \cup {s}
      BY <1>0, <2>1
    <2> QED
      BY <2>1, <2>2 DEF Relay!Arrive
  <1>2. CASE AfterMessage
    <2>1. UNCHANGED <<store, arrived, handed>>
      BY <1>2 DEF AfterMessage
    <2>2. CASE CmgrDone /\ g_cmgr.msg # NoSms
      <3>1. /\ g_cmgr.msg \in held \ (offered \cup EmptySms)
            /\ g_cmgr.msg \in Sms
        BY <1>0, <2>2, PassedOn
      <3>2. offered' = offered \cup {g_cmgr.msg}
        BY <1>2, <2>2 DEF AfterMessage
      <3> QED
        BY <2>1, <3>1, <3>2 DEF Relay!Next, Relay!Forward
    <2>3. CASE ~(CmgrDone /\ g_cmgr.msg # NoSms)
      BY <1>2, <2>1, <2>3 DEF AfterMessage, Relay!vars
    <2> QED
      BY <2>2, <2>3
  <1>3. ASSUME NEW final \in Finals, ReturnDelete(final)
        PROVE  [Relay!Next]_(Relay!vars)
    <2>1. /\ at.arg \in Slot /\ at.arg # 0 /\ at.arg = g_sms_delete_idx
          /\ store' = store \/ store' = [store EXCEPT ![at.arg] = NoSms]
          /\ UNCHANGED <<arrived, offered, handed>>
      BY <1>3, GatewayAssumption
      DEF ReturnDelete, Return, UplinkInv, InFlightOK, TypeOK, AtTypeOK
    <2>2. CASE store' = store
      BY <2>1, <2>2 DEF Relay!vars
    <2>3. CASE store' = [store EXCEPT ![at.arg] = NoSms]
      <3>1. store[at.arg] \in (offered \cup EmptySms) /\ store[at.arg] \in Sms
        BY <2>1, GatewayAssumption DEF UplinkInv, PendingDeleteOK, TypeOK, SmsTypeOK
      <3>2. \A j \in Slot : store[j] = store[at.arg] => j = at.arg
        BY <1>0, <2>1, <3>1 DEF WayInv, StoreOK
      <3>3. held' = held \ {store[at.arg]}
        BY <1>0, <2>1, <2>3, <3>1, <3>2
      <3>4. store[at.arg] \in held
        BY <1>0, <2>1, <3>1
      <3> QED
        BY <2>1, <3>1, <3>3, <3>4 DEF Relay!Next, Relay!Erase
    <2> QED
      BY <2>1, <2>2, <2>3
  <1>4. CASE PumpPublish
    <2>1. /\ handed' = Append(handed, Head(g_pub_q))
          /\ UNCHANGED <<store, arrived, offered>>
      BY <1>4 DEF PumpPublish
    <2>2. /\ Head(g_pub_q) \in Sms /\ Head(g_pub_q) \in offered
          /\ \A k \in DOMAIN handed : handed[k] # Head(g_pub_q)
      BY <1>4, PublishedText DEF Holds
    <2> QED
      BY <2>1, <2>2 DEF Relay!Next, Relay!Publish
  <1>5. ASSUME \/ OtherUrc \/ OnSimReady \/ OnNewSms \/ OtherDispatch \/ PumpRead
               \/ Elsewhere
               \/ \E final \in Finals : ReturnRead(final) \/ ReturnPublish(final)
        PROVE  UNCHANGED Relay!vars
    <2>1. UNCHANGED <<store, arrived, offered, handed>>
      BY <1>5 DEF OtherUrc, OnSimReady, OnNewSms, OtherDispatch, PumpRead, Elsewhere,
         ReturnRead, ReturnPublish, Return, wayVars
    <2> QED
      BY <2>1 DEF Relay!vars
  <1> QED
    BY <1>1, <1>2, <1>3, <1>4, <1>5, WayCases DEF Relay!Next

\* What the gateway does with incoming short messages is what SmsRelay says,
\* through every restart, loss and race of the model.
THEOREM GatewayImplementsRelay == Spec => IsSmsRelay
  <1>1. Init => Relay!Init
    BY GatewayAssumption DEF Init, Relay!Init
  <1>2. RelayInv /\ [Next]_vars => [Relay!Next]_(Relay!vars)
    BY RelayStep
  <1> QED
    BY <1>1, <1>2, RelayCorrect, PTL DEF Spec, IsSmsRelay, Relay!Spec

-----------------------------------------------------------------------------
(* The downlink: counting what a +QMTRECV leads to.                        *)

\* Where the announcements of +QMTRECV stand in a queue.
Received(q) == {k \in DOMAIN q : q[k].urc = "MQTT"}

\* How many there are, after a push and a pop.
LEMMA ReceivedFinite ==
    ASSUME NEW q \in Seq(Messages)
    PROVE  IsFiniteSet(Received(q)) /\ Cardinality(Received(q)) \in Nat
  <1>1. IsFiniteSet(1..Len(q))
    BY FS_Interval
  <1>2. Received(q) \in SUBSET (1..Len(q))
    BY DEF Received
  <1>3. IsFiniteSet(Received(q))
    BY <1>1, <1>2, FS_Subset
  <1> QED
    BY <1>3, FS_CardinalityType

LEMMA ReceivedAppend ==
    ASSUME NEW q \in Seq(Messages), NEW m \in Messages
    PROVE  Cardinality(Received(Append(q, m))) =
             IF m.urc = "MQTT" THEN Cardinality(Received(q)) + 1
                               ELSE Cardinality(Received(q))
  <1>0. /\ Len(q) \in Nat /\ DOMAIN q = 1..Len(q)
        /\ DOMAIN Append(q, m) = 1..Len(q) + 1
        /\ \A k \in DOMAIN q : Append(q, m)[k] = q[k]
        /\ Append(q, m)[Len(q) + 1] = m
    OBVIOUS
  <1>1. CASE m.urc = "MQTT"
    <2>1. Received(Append(q, m)) = Received(q) \cup {Len(q) + 1}
      BY <1>0, <1>1 DEF Received
    <2>2. Len(q) + 1 \notin Received(q)
      BY <1>0 DEF Received
    <2> QED
      BY <1>1, <2>1, <2>2, ReceivedFinite, FS_AddElement
  <1>2. CASE m.urc # "MQTT"
    <2>1. Received(Append(q, m)) = Received(q)
      BY <1>0, <1>2 DEF Received
    <2> QED
      BY <1>2, <2>1
  <1> QED
    BY <1>1, <1>2

LEMMA ReceivedTail ==
    ASSUME NEW q \in Seq(Messages), q # <<>>
    PROVE  Cardinality(Received(Tail(q))) =
             IF Head(q).urc = "MQTT" THEN Cardinality(Received(q)) - 1
                                     ELSE Cardinality(Received(q))
  <1> DEFINE S == Received(q) \ {1}
             f == [k \in S |-> k - 1]
  <1>0. /\ Tail(q) \in Seq(Messages) /\ Head(q) = q[1] /\ 1 \in DOMAIN q
        /\ DOMAIN q = 1..Len(q) /\ DOMAIN Tail(q) = 1..(Len(q) - 1) /\ Len(q) \in Nat
        /\ \A k \in DOMAIN Tail(q) : Tail(q)[k] = q[k + 1]
    OBVIOUS
  <1>1. f \in Bijection(S, Received(Tail(q)))
    <2>1. \A k \in S : k \in Int /\ k - 1 \in Received(Tail(q))
      BY <1>0 DEF Received
    <2>2. \A k \in Received(Tail(q)) : k \in Int /\ k + 1 \in S /\ (k + 1) - 1 = k
      BY <1>0 DEF Received
    <2>3. f \in [S -> Received(Tail(q))]
      BY <2>1
    <2>4. \A j, k \in S : f[j] = f[k] => j = k
      BY <2>1
    <2>5. \A k \in Received(Tail(q)) : \E j \in S : f[j] = k
      BY <2>2
    <2> HIDE DEF f, S
    <2> QED
      BY <2>3, <2>4, <2>5 DEF Bijection, Injection, Surjection, IsInjective
  <1>2. IsFiniteSet(S) /\ ExistsBijection(S, Received(Tail(q)))
    BY <1>1, ReceivedFinite, FS_RemoveElement DEF ExistsBijection
  <1>3. Cardinality(Received(Tail(q))) = Cardinality(S)
    BY <1>2, FS_Bijection
  <1>4. 1 \in Received(q) <=> Head(q).urc = "MQTT"
    BY <1>0 DEF Received
  <1> QED
    BY <1>3, <1>4, ReceivedFinite, FS_RemoveElement

\* Every step keeps the account: what was received, less what was sent.
LEMMA DownlinkStep ==
    ASSUME TypeOK, OneSmsPerUrc, [Next]_vars
    PROVE  OneSmsPerUrc'
  <1> SUFFICES ASSUME ~Endless PROVE OneSmsPerUrc'
    BY DEF OneSmsPerUrc
  <1> USE DEF Counted
  <1>0. /\ msgQ \in Seq(Messages) /\ Cardinality(Received(msgQ)) \in Nat
        /\ smsOut \in Nat /\ received \in Nat
        /\ g_sms_tx_q \in Seq({"sms"}) /\ Len(g_sms_tx_q) \in Nat
        /\ smsOut + Len(g_sms_tx_q) + Cardinality(Received(msgQ)) <= received
    <2>1. msgQ \in Seq(Messages) /\ g_sms_tx_q \in Seq({"sms"})
      BY DEF TypeOK, QueueTypeOK, Queue
    <2>2. smsOut \in Nat /\ received \in Nat
      BY DEF TypeOK, CountTypeOK
    <2>3. smsOut + Len(g_sms_tx_q) + Cardinality(Received(msgQ)) <= received
      BY DEF OneSmsPerUrc, Received
    <2> QED
      BY <2>1, <2>2, <2>3, ReceivedFinite
  <1> SUFFICES smsOut' + Len(g_sms_tx_q') + Cardinality(Received(msgQ')) <= received'
    BY DEF OneSmsPerUrc, Received
  <1>1. CASE Urc
    <2>1. ASSUME NEW m \in Messages, Post(m)
          PROVE  /\ Cardinality(Received(msgQ')) \in Nat
                 /\ Cardinality(Received(msgQ')) <=
                      Cardinality(Received(msgQ)) + (IF m.urc = "MQTT" THEN 1 ELSE 0)
      BY <1>0, <2>1, ReceivedAppend DEF Post, Enqueue
    <2>2. UNCHANGED <<smsOut, g_sms_tx_q>>
      BY <1>1 DEF Urc, UrcSimReady, UrcNewSms, UrcMqttRecv, UrcUssd, UrcOther
    <2>3. /\ \A i \in Slot : [urc |-> "SMS", idx |-> i] \in Messages
          /\ \A u \in {"SIM", "MQTT", "USSD", "OTHER"} : [urc |-> u, idx |-> 0] \in Messages
      BY DEF Messages
    <2>4. CASE \E kind \in {"command", "other"} : UrcMqttRecv(kind)
      <3>1. Post([urc |-> "MQTT", idx |-> 0]) /\ received' = received + 1
        BY <2>4 DEF UrcMqttRecv
      <3> QED
        BY <1>0, <2>1, <2>2, <2>3, <3>1
    <2>5. CASE ~\E kind \in {"command", "other"} : UrcMqttRecv(kind)
      <3>1. received' = received
        BY <1>1, <2>5 DEF Urc, UrcSimReady, UrcNewSms, UrcUssd, UrcOther
      <3>2. \/ \E i \in Slot : Post([urc |-> "SMS", idx |-> i])
            \/ \E u \in {"SIM", "USSD", "OTHER"} : Post([urc |-> u, idx |-> 0])
        BY <1>1, <2>5 DEF Urc, UrcSimReady, UrcNewSms, UrcUssd, UrcOther
      <3>3. \E m \in Messages : Post(m) /\ m.urc # "MQTT"
        BY <2>3, <3>2
      <3> QED
        BY <1>0, <2>1, <2>2, <3>1, <3>3
    <2> QED
      BY <2>4, <2>5
  <1>2. CASE Dispatch
    <2>1. /\ msgQ # <<>> /\ msgQ' = Tail(msgQ) /\ UNCHANGED <<smsOut, received>>
          /\ Tail(msgQ) \in Seq(Messages)
      BY <1>0, <1>2 DEF Dispatch, OnSimReady, OnNewSms, OnMqttRecv, OnUssdRecv, OnOther,
         Receive
    <2>2. /\ Cardinality(Received(msgQ')) \in Nat
          /\ Cardinality(Received(msgQ')) =
               IF Head(msgQ).urc = "MQTT" THEN Cardinality(Received(msgQ)) - 1
                                          ELSE Cardinality(Received(msgQ))
      BY <1>0, <2>1, ReceivedTail, ReceivedFinite
    <2>3. /\ Len(g_sms_tx_q') \in Nat
          /\ Len(g_sms_tx_q') <= Len(g_sms_tx_q)
               + (IF Head(msgQ).urc = "MQTT" THEN 1 ELSE 0)
      BY <1>0, <1>2 DEF Dispatch, OnSimReady, OnNewSms, OnMqttRecv, OnUssdRecv, OnOther,
         Receive, Enqueue
    <2> QED
      BY <1>0, <2>1, <2>2, <2>3
  <1>3. CASE AfterMessage \/ Tick
    <2>1. UNCHANGED <<smsOut, g_sms_tx_q, msgQ, received>>
      BY <1>3 DEF AfterMessage, Tick
    <2> QED
      BY <1>0, <2>1
  <1>4. CASE StateMachine_1s
    <2>1. UNCHANGED <<smsOut, g_sms_tx_q, msgQ, received>>
      BY <1>4 DEF StateMachine_1s, WaitReg, UssdReq, UssdWait, UssdSms, Pdp, MqttCfg,
        MqttOpen, MqttConn, MqttSub, MqttStep, NothingToDo, LinkBusy, Second,
        Leave, Send, SendPersianSms
    <2> QED
      BY <1>0, <2>1
  <1>5. CASE Pump_Ready
    <2>1. UNCHANGED <<smsOut, g_sms_tx_q, msgQ, received>>
      BY <1>5 DEF Pump_Ready, PumpSend, PumpDelete, PumpRead, PumpPublish, PumpHeartbeat,
        PumpNothing, Send
    <2> QED
      BY <1>0, <2>1
  <1>6. ASSUME NEW final \in Finals, ReturnSend(final)
        PROVE  smsOut' + Len(g_sms_tx_q') + Cardinality(Received(msgQ')) <= received'
    <2>1. /\ g_sms_tx_q # <<>> /\ g_sms_tx_q' = Tail(g_sms_tx_q)
          /\ smsOut' = smsOut + 1 /\ UNCHANGED <<msgQ, received>>
      BY <1>6 DEF ReturnSend, Return, Popped, TypeOK, AtTypeOK
    <2>2. Len(g_sms_tx_q') = Len(g_sms_tx_q) - 1
      BY <1>0, <2>1
    <2> QED
      BY <1>0, <2>1, <2>2
  <1>7. ASSUME NEW final \in Finals, AtReturns(final), ~ReturnSend(final)
        PROVE  smsOut' + Len(g_sms_tx_q') + Cardinality(Received(msgQ')) <= received'
    <2>1. UNCHANGED <<smsOut, g_sms_tx_q, msgQ, received>>
      BY <1>7 DEF AtReturns, Return, ReturnCusd, ReturnMqtt, ReturnDelete, ReturnRead,
         ReturnPublish, ReturnHeartbeat
    <2> QED
      BY <1>0, <2>1
  <1>8. CASE UNCHANGED vars
    BY <1>0, <1>8 DEF vars
  <1> QED
    BY <1>1, <1>2, <1>3, <1>4, <1>5, <1>6, <1>7, <1>8, NextGroups DEF Events

\* The gateway sends no more short messages than +QMTRECV URCs came, although
\* the payload stays in its cache (ril_urc.c:575-626) and the queued command is
\* removed only after AT+CMGS returned (main.c:903-907).
THEOREM GatewaySendsOncePerUrc == Spec => []OneSmsPerUrc
  <1>1. Init => OneSmsPerUrc
    <2> SUFFICES ASSUME Init PROVE OneSmsPerUrc
      OBVIOUS
    <2>1. {k \in DOMAIN msgQ : msgQ[k].urc = "MQTT"} = {}
      BY DEF Init
    <2> QED
      BY <2>1, FS_EmptySet DEF Init, OneSmsPerUrc
  <1> QED
    BY <1>1, TypeInit, TypeStep, DownlinkStep, PTL DEF Spec
=============================================================================
