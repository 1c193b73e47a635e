------------------------------ MODULE Gateway -------------------------------
(***************************************************************************)
(* The SMS <-> MQTT gateway of mc60/custom/main.c: its main loop, its      *)
(* timer callback with the boot state machine and the READY pump, and the  *)
(* AT commands they issue, together with the URC side of                   *)
(* mc60/ril/src/ril_urc.c that posts messages to the main task.            *)
(*                                                                         *)
(* The main task is serial: the main loop and the timer callback run in    *)
(* it, and Ql_RIL_SendATCmd blocks it until the command's handler has seen *)
(* a final line (or the command is given up).  While it is blocked, and at *)
(* any other time, URCs arrive: they fill the single-slot caches and the   *)
(* message queue.  The handlers of the AT commands run while the command   *)
(* is in flight, so their effect is part of the step in which it returns.  *)
(*                                                                         *)
(* A definition whose comment begins with "Faulty" is not used: it stands  *)
(* for a plausible mistake in the definition that follows it, under which  *)
(* some property below fails.                                              *)
(***************************************************************************)
EXTENDS Integers, Sequences, FiniteSets

CONSTANTS
    Sms,                 \* the short messages that may arrive
    EmptySms,            \* those with an empty text
    NoSms,               \* not a short message
    Slot,                \* the indexes of the SIM's message storage
    SmsIdxCap,           \* SMS_IDX_Q_MAX - 1: a ring keeps one slot free
    PubCap,              \* PUB_Q_MAX - 1
    SmsTxCap,            \* SMS_TX_Q_MAX - 1
    TicksPerSec,         \* timer callbacks per StateMachine_1s (10)
    UssdTimeoutSec,      \* USSD_TIMEOUT_SEC
    MsgIdMod,            \* 2^16: g_mqtt_msgid is a u16
    MsgQueueCap,         \* messages the main task's queue holds
    MaxReceived,         \* bound: +QMTRECV URCs in a behaviour
    MaxSimReady,         \* bound: +CPIN: READY URCs in a behaviour
    LossyAT,             \* may an AT command be refused or given up without
                         \* a final line?
    Endless              \* may commands of the broker come forever? (then they
                         \* are not counted)

ASSUME GatewayAssumption ==
    /\ EmptySms \subseteq Sms
    /\ NoSms \notin Sms
    /\ Slot \subseteq Nat \ {0}
    /\ {SmsIdxCap, PubCap, SmsTxCap, MsgQueueCap} \subseteq Nat \ {0}
    /\ TicksPerSec \in Nat \ {0}
    /\ UssdTimeoutSec \in Nat
    /\ MsgIdMod \in Nat \ {0, 1}
    /\ MaxReceived \in Nat
    /\ MaxSimReady \in Nat
    /\ {LossyAT, Endless} \subseteq BOOLEAN

VARIABLES
    pc,                  \* what the main task is doing
    at,                  \* the AT command in flight
    timer,               \* has Ql_Timer_Start been called?
    g_state, g_tick100, g_at_busy,
    mqtt,                \* g_open_ok, g_conn_ok, g_sub_ok, g_mqtt_connected
    g_mqtt_msgid, g_hb_due,
    ussd,                \* g_ussd_got, g_ussd_sms_started, g_ussd_text
    waited,              \* g_sec - g_ussd_wait_start_sec, capped
    g_sms_idx_q, g_pub_q, g_sms_tx_q,
    g_sms_delete_idx, g_cmgr,
    msgQ,                \* the main task's message queue
    mbox,                \* g_mqtt_topic, g_mqtt_payload: is it a command?
    ussdBox,             \* g_ussd_str
    cmgf,                \* the modem's SMS format: "text" or "pdu"
    store,               \* the SIM's message storage
    session,             \* does the broker hold our subscription?
    cusdDue,             \* does the network owe an answer to AT+CUSD?
    arrived,             \* history: the messages the SIM has received
    offered,             \* history: those passed to pubq_push
    handed,              \* history: those passed to AT+QMTPUB, in order
    received,            \* history: how many +QMTRECV URCs
    smsOut,              \* history: how many AT+CMGS of the pump
    simReady             \* history: how many +CPIN: READY URCs

mainVars   == <<pc, at, timer, g_state, g_tick100, g_at_busy>>
mqttVars   == <<mqtt, g_mqtt_msgid, g_hb_due>>
ussdVars   == <<ussd, waited>>
uplinkVars == <<g_sms_idx_q, g_pub_q, g_sms_delete_idx, g_cmgr>>
urcVars    == <<msgQ, mbox, ussdBox>>
modemVars  == <<cmgf, store, session, cusdDue>>
uphistVars == <<arrived, offered, handed>>
dnhistVars == <<received, smsOut, simReady>>

vars == <<mainVars, mqttVars, ussdVars, uplinkVars, g_sms_tx_q, urcVars,
          modemVars, uphistVars, dnhistVars>>

States == {"IDLE", "WAIT_REG", "USSD_REQ", "USSD_WAIT", "USSD_SMS", "PDP",
           "MQTT_CFG", "MQTT_OPEN", "MQTT_CONN", "MQTT_SUB", "READY"}

Commands == {"CUSD", "OPEN", "CONN", "SUB", "CMGS", "CMGD", "CMGR", "PUB", "HB"}

NoAt   == [cmd |-> "none", arg |-> 0]
NoCmgr == [idx |-> 0, hdr |-> FALSE, msg |-> NoSms, done |-> FALSE]
NoMqtt == [open |-> FALSE, conn |-> FALSE, sub |-> FALSE, connected |-> FALSE]
NoUssd == [got |-> FALSE, started |-> FALSE, text |-> "none"]

-----------------------------------------------------------------------------
(* The state at power on, before the RIL is ready.                         *)

Init ==
    /\ pc = "loop" /\ at = NoAt /\ timer = FALSE
    /\ g_state = "IDLE" /\ g_tick100 = 0 /\ g_at_busy = FALSE
    /\ mqtt = NoMqtt /\ g_mqtt_msgid = 1 /\ g_hb_due = FALSE
    /\ ussd = NoUssd /\ waited = 0
    /\ g_sms_idx_q = <<>> /\ g_pub_q = <<>> /\ g_sms_tx_q = <<>>
    /\ g_sms_delete_idx = 0 /\ g_cmgr = NoCmgr
    /\ msgQ = <<>> /\ mbox = "other" /\ ussdBox = "none"
    /\ cmgf = "pdu" /\ store = [i \in Slot |-> NoSms]
    /\ session = FALSE /\ cusdDue = FALSE
    /\ arrived = {} /\ offered = {} /\ handed = <<>>
    /\ received = 0 /\ smsOut = 0 /\ simReady = 0

\* Faulty: the queue takes one item too many.
EnqueueOneMore(q, v, cap) == IF Len(q) <= cap THEN Append(q, v) ELSE q

\* A push on one of the three queues: dropped when the queue is full.
Enqueue(q, v, cap) == IF Len(q) < cap THEN Append(q, v) ELSE q

\* A history counter: where commands may come forever it stays as it is.
Counted(n) == IF Endless THEN n ELSE n + 1

\* Ql_OS_SendMessage to the main task; its result is ignored everywhere, so a
\* message that meets a full queue is gone.
Post(m) == msgQ' = Enqueue(msgQ, m, MsgQueueCap)

-----------------------------------------------------------------------------
(* URCs: the modem and the network act, ril_urc.c posts to the main task.  *)

\* +CPIN: READY, at boot and again whenever the SIM is re-initialised.
UrcSimReady ==
    /\ simReady < MaxSimReady
    /\ simReady' = simReady + 1
    /\ Post([urc |-> "SIM", idx |-> 0])
    /\ UNCHANGED <<mainVars, mqttVars, ussdVars, uplinkVars, g_sms_tx_q, mbox,
                   ussdBox, modemVars, uphistVars, received, smsOut>>

\* +CMTI: a short message arrived in a free slot (reported after AT+CNMI,
\* which is sent where the timer is started).
UrcNewSms(s, i) ==
    /\ timer
    /\ s \notin arrived /\ store[i] = NoSms
    /\ arrived' = arrived \cup {s}
    /\ store' = [store EXCEPT ![i] = s]
    /\ Post([urc |-> "SMS", idx |-> i])
    /\ UNCHANGED <<mainVars, mqttVars, ussdVars, uplinkVars, g_sms_tx_q, mbox,
                   ussdBox, cmgf, session, cusdDue, offered, handed, dnhistVars>>

\* +QMTRECV: overwrites the topic and payload caches.  The payload is a
\* command "phone:text" on the sms_tx topic, or anything else.
UrcMqttRecv(kind) ==
    /\ session /\ (Endless \/ received < MaxReceived)
    /\ received' = Counted(received)
    /\ mbox' = kind
    /\ Post([urc |-> "MQTT", idx |-> 0])
    /\ UNCHANGED <<mainVars, mqttVars, ussdVars, uplinkVars, g_sms_tx_q,
                   ussdBox, modemVars, uphistVars, smsOut, simReady>>

\* +CUSD: the answer to AT+CUSD: enough hex digits for an SMS, or not.
UrcUssd(text) ==
    /\ cusdDue
    /\ cusdDue' = FALSE
    /\ ussdBox' = text
    /\ Post([urc |-> "USSD", idx |-> 0])
    /\ UNCHANGED <<mainVars, mqttVars, ussdVars, uplinkVars, g_sms_tx_q, mbox,
                   cmgf, store, session, uphistVars, dnhistVars>>

\* Every other message to the main task: RIL READY, network and CFUN states,
\* unknown URCs (URC_END), ...
UrcOther ==
    /\ Post([urc |-> "OTHER", idx |-> 0])
    /\ UNCHANGED <<mainVars, mqttVars, ussdVars, uplinkVars, g_sms_tx_q, mbox,
                   ussdBox, modemVars, uphistVars, dnhistVars>>

-----------------------------------------------------------------------------
(* The main loop: one message, then the block that follows every message.  *)

\* Ql_OS_GetMessage returns the oldest message of kind m.urc = kind.
Receive(kind) ==
    /\ pc = "loop" /\ msgQ # <<>> /\ Head(msgQ).urc = kind
    /\ msgQ' = Tail(msgQ)
    /\ pc' = "post"
    /\ UNCHANGED <<at, mbox, ussdBox>>

\* Faulty: a gateway that is up already does not go through boot again.
StayReady == IF g_state = "READY" THEN "READY" ELSE "WAIT_REG"

\* The state that SIM READY puts the machine into.
BootState == "WAIT_REG"

\* SIM READY: configure SMS, restart the boot sequence and forget all work;
\* the AT busy flag is not reset.  The result of AT+CMGF=1 is ignored.
OnSimReady ==
    /\ Receive("SIM")
    /\ cmgf' \in IF LossyAT THEN {cmgf, "text"} ELSE {"text"}
    /\ g_state' = BootState /\ g_tick100' = 0
    /\ g_mqtt_msgid' = 1 /\ g_hb_due' = FALSE /\ mqtt' = NoMqtt
    /\ g_sms_idx_q' = <<>> /\ g_pub_q' = <<>> /\ g_sms_tx_q' = <<>>
    /\ g_sms_delete_idx' = 0 /\ g_cmgr' = NoCmgr
    /\ ussd' = NoUssd /\ waited' = 0
    /\ timer' = TRUE
    /\ UNCHANGED <<g_at_busy, store, session, cusdDue, uphistVars, dnhistVars>>

\* URC_NEW_SMS_IND: queue the index.
OnNewSms ==
    /\ Receive("SMS")
    /\ g_sms_idx_q' = Enqueue(g_sms_idx_q, Head(msgQ).idx, SmsIdxCap)
    /\ UNCHANGED <<timer, g_state, g_tick100, g_at_busy, mqttVars, ussdVars,
                   g_pub_q, g_sms_delete_idx, g_cmgr, g_sms_tx_q, modemVars,
                   uphistVars, dnhistVars>>

\* URC_MQTT_RECV_IND: whatever the caches hold by now; a command on the sms_tx
\* topic becomes an outgoing short message.
OnMqttRecv ==
    /\ Receive("MQTT")
    /\ g_sms_tx_q' = IF mbox = "command"
                     THEN Enqueue(g_sms_tx_q, "sms", SmsTxCap)
                     ELSE g_sms_tx_q
    /\ UNCHANGED <<timer, g_state, g_tick100, g_at_busy, mqttVars, ussdVars,
                   uplinkVars, modemVars, uphistVars, dnhistVars>>

\* URC_USSD_RECV_IND: take over the cached answer.
OnUssdRecv ==
    /\ Receive("USSD")
    /\ ussd' = [ussd EXCEPT !.got = TRUE, !.text = ussdBox]
    /\ UNCHANGED <<timer, g_state, g_tick100, g_at_busy, mqttVars, waited,
                   uplinkVars, g_sms_tx_q, modemVars, uphistVars, dnhistVars>>

OnOther ==
    /\ Receive("OTHER")
    /\ UNCHANGED <<timer, g_state, g_tick100, g_at_busy, mqttVars, ussdVars,
                   uplinkVars, g_sms_tx_q, modemVars, uphistVars, dnhistVars>>

\* Faulty: the context keeps its index.
StillPending == g_cmgr

\* The read context once it was processed.
Processed == [g_cmgr EXCEPT !.idx = 0]

\* "after CMGR done: build payload + delete", at the end of every turn of the
\* main loop.
CmgrDone == ~g_at_busy /\ g_cmgr.idx # 0 /\ g_cmgr.hdr

AfterMessage ==
    /\ pc = "post"
    /\ pc' = "loop"
    /\ IF CmgrDone
       THEN /\ IF g_cmgr.msg # NoSms
               THEN /\ g_pub_q' = Enqueue(g_pub_q, g_cmgr.msg, PubCap)
                    /\ offered' = offered \cup {g_cmgr.msg}
               ELSE UNCHANGED <<g_pub_q, offered>>
            /\ g_sms_delete_idx' = g_cmgr.idx
            /\ g_cmgr' = Processed
       ELSE UNCHANGED <<g_pub_q, offered, g_sms_delete_idx, g_cmgr>>
    /\ UNCHANGED <<at, timer, g_state, g_tick100, g_at_busy, mqttVars, ussdVars,
                   g_sms_idx_q, g_sms_tx_q, urcVars, modemVars, arrived, handed,
                   dnhistVars>>

-----------------------------------------------------------------------------
(* The timer callback.                                                     *)

\* Every TicksPerSec-th callback runs the state machine, and every callback
\* in READY (decided after the state machine ran) runs the pump.
Tick ==
    /\ pc = "loop" /\ timer
    /\ g_tick100' = (g_tick100 + 1) % TicksPerSec
    /\ pc' = IF g_tick100' = 0 THEN "second"
             ELSE IF g_state = "READY" THEN "pump" ELSE "loop"
    /\ UNCHANGED <<at, timer, g_state, g_at_busy, mqttVars, ussdVars, uplinkVars,
                   g_sms_tx_q, urcVars, modemVars, uphistVars, dnhistVars>>

\* What every branch of StateMachine_1s does: count the second, make a
\* heartbeat due.
Second(state) ==
    /\ pc = "second" /\ g_state = state
    /\ g_hb_due' = TRUE
    /\ UNCHANGED <<timer, g_tick100, g_mqtt_msgid, uplinkVars, g_sms_tx_q,
                   urcVars, uphistVars, dnhistVars>>

CountSecond ==
    waited' = IF waited <= UssdTimeoutSec THEN waited + 1 ELSE waited

\* The branch ends: the callback goes on with the pump if READY.
Leave(state) ==
    /\ g_state' = state
    /\ pc' = IF state = "READY" THEN "pump" ELSE "loop"
    /\ UNCHANGED <<at, g_at_busy>>

\* The branch sends an AT command that takes the busy flag, and blocks.
Send(cmd, arg) ==
    /\ at' = [cmd |-> cmd, arg |-> arg]
    /\ g_at_busy' = TRUE
    /\ pc' = "at"

\* ST_WAIT_REG: RIL_NW_GetGPRSState says registered, or not (or fails).
WaitReg(registered) ==
    /\ Second("WAIT_REG")
    /\ CountSecond
    /\ Leave(IF registered THEN "USSD_REQ" ELSE "WAIT_REG")
    /\ UNCHANGED <<mqtt, ussd, modemVars>>

\* ST_USSD_REQ: forget the previous answer, then send AT+CUSD.
UssdReq ==
    /\ Second("USSD_REQ")
    /\ ~g_at_busy
    /\ ussd' = NoUssd /\ waited' = 0
    /\ Send("CUSD", 0) /\ g_state' = g_state
    /\ cusdDue' = TRUE
    /\ UNCHANGED <<mqtt, cmgf, store, session>>

\* Faulty: there is no timeout.
WaitForever == IF ussd.got THEN "USSD_SMS" ELSE "USSD_WAIT"

\* Faulty: after the timeout the balance message is sent all the same.
SendAfterTimeout ==
    IF ussd.got \/ waited' > UssdTimeoutSec THEN "USSD_SMS" ELSE "USSD_WAIT"

\* Where the wait for the answer leads, with the present second counted.
AfterWait ==
    IF ussd.got THEN "USSD_SMS"
    ELSE IF waited' > UssdTimeoutSec THEN "PDP" ELSE "USSD_WAIT"

\* ST_USSD_WAIT: an answer, or more than UssdTimeoutSec seconds without one.
UssdWait ==
    /\ Second("USSD_WAIT")
    /\ CountSecond
    /\ Leave(AfterWait)
    /\ UNCHANGED <<mqtt, ussd, modemVars>>

\* Send_Persian_SMS_Fixed: refuses a text with fewer than four hex digits,
\* otherwise RIL_SMS_SendSMS_Text, which puts the modem into PDU mode
\* (AT+CMGF=0) before it sends and does not go back.  Local failures come
\* before that command; only a lost AT command can leave BUSY.
SendPersianSms(result) ==
    IF ussd.text # "hex"
    THEN result = "fail" /\ UNCHANGED cmgf
    ELSE /\ result = "busy" => LossyAT
         /\ \/ cmgf' = "pdu"
            \/ result # "ok" /\ UNCHANGED cmgf

\* ST_USSD_SMS: send the balance; BUSY is tried again, any other result goes on.
UssdSms(result) ==
    /\ Second("USSD_SMS")
    /\ CountSecond
    /\ IF ussd.started
       THEN Leave("USSD_SMS") /\ UNCHANGED <<ussd, cmgf>>
       ELSE /\ SendPersianSms(result)
            /\ IF result = "busy"
               THEN Leave("USSD_SMS") /\ UNCHANGED ussd
               ELSE Leave("PDP") /\ ussd' = [ussd EXCEPT !.started = TRUE]
    /\ UNCHANGED <<mqtt, store, session, cusdDue>>

\* ST_PDP: RIL_NW_OpenPDPContext works, or is tried again the next second.
Pdp(opened) ==
    /\ Second("PDP")
    /\ ~g_at_busy
    /\ CountSecond
    /\ Leave(IF opened THEN "MQTT_CFG" ELSE "PDP")
    /\ UNCHANGED <<mqtt, ussd, modemVars>>

\* ST_MQTT_CFG: three settings, and the session's flags reset.
MqttCfg ==
    /\ Second("MQTT_CFG")
    /\ CountSecond
    /\ mqtt' = NoMqtt
    /\ Leave("MQTT_OPEN")
    /\ UNCHANGED <<ussd, modemVars>>

\* ST_MQTT_OPEN, ST_MQTT_CONN, ST_MQTT_SUB: send the command every second
\* until its flag is set, then go on.
MqttStep(state, cmd, done, next) ==
    /\ Second(state)
    /\ ~g_at_busy
    /\ CountSecond
    /\ IF done
       THEN /\ Leave(next)
            /\ mqtt' = [mqtt EXCEPT !.connected = @ \/ state = "MQTT_CONN"]
       ELSE Send(cmd, IF cmd = "SUB" THEN 100 ELSE 0) /\ UNCHANGED <<mqtt, g_state>>
    /\ UNCHANGED <<ussd, modemVars>>

MqttOpen == MqttStep("MQTT_OPEN", "OPEN", mqtt.open, "MQTT_CONN")
MqttConn == MqttStep("MQTT_CONN", "CONN", mqtt.conn, "MQTT_SUB")
MqttSub  == MqttStep("MQTT_SUB", "SUB", mqtt.sub, "READY")

\* ST_IDLE and ST_READY have no branch; the branches that need the AT link do
\* nothing while it is busy.
NothingToDo ==
    /\ \E state \in {"IDLE", "READY"} : Second(state)
    /\ CountSecond
    /\ Leave(g_state)
    /\ UNCHANGED <<mqtt, ussd, modemVars>>

LinkBusy ==
    /\ \E state \in {"USSD_REQ", "PDP", "MQTT_OPEN", "MQTT_CONN", "MQTT_SUB"} :
          Second(state)
    /\ g_at_busy
    /\ CountSecond
    /\ Leave(g_state)
    /\ UNCHANGED <<mqtt, ussd, modemVars>>

StateMachine_1s ==
    \/ \E registered \in BOOLEAN : WaitReg(registered)
    \/ UssdReq \/ UssdWait
    \/ \E result \in {"ok", "fail", "busy"} : UssdSms(result)
    \/ \E opened \in BOOLEAN : Pdp(opened)
    \/ MqttCfg \/ MqttOpen \/ MqttConn \/ MqttSub
    \/ NothingToDo \/ LinkBusy

-----------------------------------------------------------------------------
(* Pump_Ready: one piece of work per callback, in this order.              *)

\* Faulty: the busy flag is not looked at.
CanPumpWhenBusy == pc = "pump" /\ mqtt.connected

CanPump == pc = "pump" /\ mqtt.connected /\ ~g_at_busy

\* 1) a short message from the server: SMS settings, then AT+CMGS.
PumpSend ==
    /\ CanPump /\ g_sms_tx_q # <<>>
    /\ cmgf' \in IF LossyAT THEN {cmgf, "text"} ELSE {"text"}
    /\ Send("CMGS", 0)
    /\ UNCHANGED <<timer, g_state, g_tick100, mqttVars, ussdVars, uplinkVars,
                   g_sms_tx_q, urcVars, store, session, cusdDue, uphistVars,
                   dnhistVars>>

\* 2) delete the short message that was processed.
PumpDelete ==
    /\ CanPump /\ g_sms_tx_q = <<>> /\ g_sms_delete_idx # 0
    /\ Send("CMGD", g_sms_delete_idx)
    /\ UNCHANGED <<timer, g_state, g_tick100, mqttVars, ussdVars, uplinkVars,
                   g_sms_tx_q, urcVars, modemVars, uphistVars, dnhistVars>>

\* Faulty: the context of the previous read is not cleared.
KeptContext(i) == [g_cmgr EXCEPT !.idx = i]

\* g_cmgr cleared for the message to read.
ReadContext(i) == [NoCmgr EXCEPT !.idx = i]

\* Faulty: a message is read before the previous one was deleted.
MayReadEarly == g_sms_tx_q = <<>>

\* A message is read when none is to be sent or deleted.
MayRead == g_sms_tx_q = <<>> /\ g_sms_delete_idx = 0

\* 3) read an incoming short message.
PumpRead ==
    /\ CanPump /\ MayRead /\ g_sms_idx_q # <<>>
    /\ g_sms_idx_q' = Tail(g_sms_idx_q)
    /\ g_cmgr' = ReadContext(Head(g_sms_idx_q))
    /\ Send("CMGR", Head(g_sms_idx_q))
    /\ UNCHANGED <<timer, g_state, g_tick100, mqttVars, ussdVars, g_pub_q,
                   g_sms_delete_idx, g_sms_tx_q, urcVars, modemVars, uphistVars,
                   dnhistVars>>

\* g_mqtt_msgid++ with the wrap of the u16, and 0 replaced by 1.
NextMsgId == LET n == (g_mqtt_msgid + 1) % MsgIdMod IN IF n = 0 THEN 1 ELSE n

UplinkIdle == g_sms_tx_q = <<>> /\ g_sms_delete_idx = 0 /\ g_sms_idx_q = <<>>

\* 4) publish the oldest payload; it is popped when the command returns.
PumpPublish ==
    /\ CanPump /\ UplinkIdle /\ g_pub_q # <<>>
    /\ g_mqtt_msgid' = NextMsgId
    /\ handed' = Append(handed, Head(g_pub_q))
    /\ Send("PUB", g_mqtt_msgid)
    /\ UNCHANGED <<timer, g_state, g_tick100, mqtt, g_hb_due, ussdVars, uplinkVars,
                   g_sms_tx_q, urcVars, modemVars, arrived, offered, dnhistVars>>

\* 5) the heartbeat, once a second when nothing else is waiting.
PumpHeartbeat ==
    /\ CanPump /\ UplinkIdle /\ g_pub_q = <<>> /\ g_hb_due
    /\ g_mqtt_msgid' = NextMsgId
    /\ Send("HB", g_mqtt_msgid)
    /\ UNCHANGED <<timer, g_state, g_tick100, mqtt, g_hb_due, ussdVars, uplinkVars,
                   g_sms_tx_q, urcVars, modemVars, uphistVars, dnhistVars>>

PumpNothing ==
    /\ pc = "pump"
    /\ \/ ~CanPump
       \/ UplinkIdle /\ g_pub_q = <<>> /\ ~g_hb_due
    /\ pc' = "loop"
    /\ UNCHANGED <<at, timer, g_state, g_tick100, g_at_busy, mqttVars, ussdVars,
                   uplinkVars, g_sms_tx_q, urcVars, modemVars, uphistVars,
                   dnhistVars>>

Pump_Ready == PumpSend \/ PumpDelete \/ PumpRead \/ PumpPublish
              \/ PumpHeartbeat \/ PumpNothing

-----------------------------------------------------------------------------
(* The AT command in flight returns.  final is what its handler saw last:  *)
(* a line that ends it well ("ok"), one that ends it badly ("error"), or   *)
(* neither: the RIL timed out, was busy or refused the command ("none").   *)
(* Only a final line clears g_at_busy.                                     *)

Finals == {"ok", "error"} \cup (IF LossyAT THEN {"none"} ELSE {})

\* Faulty: an error line does not clear the flag.
BusyAfterError(final) == final # "ok"

StillBusy(final) == final = "none"

\* Faulty: the item stays in the queue for another try after a failure.
PoppedIfOk(q, final) == IF final = "ok" THEN Tail(q) ELSE q

\* The queue after the command of its oldest item: that item leaves it
\* whatever the result.
Popped(q, final) == Tail(q)

Return(cmd, final) ==
    /\ pc = "at" /\ at.cmd = cmd
    /\ pc' = "loop" /\ at' = NoAt
    /\ g_at_busy' = StillBusy(final)
    /\ UNCHANGED <<timer, g_tick100, g_mqtt_msgid, ussdVars, g_sms_idx_q,
                   urcVars, uphistVars, received, simReady>>

\* AT+CUSD: whatever the result, wait for the answer; after ERROR the network
\* owes none.
ReturnCusd(final) ==
    /\ Return("CUSD", final)
    /\ g_state' = "USSD_WAIT"
    /\ cusdDue' = (cusdDue /\ final # "error")
    /\ UNCHANGED <<mqtt, g_hb_due, g_pub_q, g_sms_delete_idx, g_cmgr, g_sms_tx_q,
                   cmgf, store, session, smsOut>>

\* +QMTOPEN, +QMTCONN, +QMTSUB: the handler sets its flag from the result code.
\* A subscription, once made, is the broker's.
Flag(flag, final) == IF final = "none" THEN flag ELSE final = "ok"

ReturnMqtt(final) ==
    /\ \/ /\ Return("OPEN", final)
          /\ mqtt' = [mqtt EXCEPT !.open = Flag(@, final)]
          /\ UNCHANGED session
       \/ /\ Return("CONN", final)
          /\ mqtt' = [mqtt EXCEPT !.conn = Flag(@, final)]
          /\ UNCHANGED session
       \/ /\ Return("SUB", final)
          /\ mqtt' = [mqtt EXCEPT !.sub = Flag(@, final)]
          /\ session' = (session \/ final = "ok")
    /\ UNCHANGED <<g_state, g_hb_due, g_pub_q, g_sms_delete_idx, g_cmgr,
                   g_sms_tx_q, cmgf, store, cusdDue, smsOut>>

\* AT+CMGS.
ReturnSend(final) ==
    /\ Return("CMGS", final)
    /\ g_sms_tx_q' = Popped(g_sms_tx_q, final)
    /\ smsOut' = Counted(smsOut)
    /\ UNCHANGED <<g_state, mqtt, g_hb_due, g_pub_q, g_sms_delete_idx, g_cmgr,
                   modemVars>>

\* Faulty: the index is kept for another try after an error.
KeptIfError(final) == IF final = "error" THEN g_sms_delete_idx ELSE 0

\* The pending index is forgotten whatever the result.
DeleteIdxAfter(final) == 0

\* AT+CMGD: a command that was given up may have been executed.
ReturnDelete(final) ==
    /\ Return("CMGD", final)
    /\ g_sms_delete_idx' = DeleteIdxAfter(final)
    /\ \/ final # "error" /\ store' = [store EXCEPT ![at.arg] = NoSms]
       \/ final # "ok" /\ UNCHANGED store
    /\ UNCHANGED <<g_state, mqtt, g_hb_due, g_pub_q, g_cmgr, g_sms_tx_q, cmgf,
                   session, cusdDue, smsOut>>

\* AT_CMGR_Handler: the header line only has a sender between its 3rd and 4th
\* quotes in text mode; the text line is kept when it is not empty.  The lines
\* come before the final one, so a command given up may have got some of them.
\* (done is not a variable of the code: it says that an existing message was
\* read and OK came.)
NoLines(s) == s = NoSms \/ cmgf = "pdu"

WithHeader == [g_cmgr EXCEPT !.hdr = TRUE]

AllLines(s) ==
    IF NoLines(s) THEN g_cmgr
    ELSE [WithHeader EXCEPT !.msg = IF s \in EmptySms THEN NoSms ELSE s]

SomeLines(s) ==
    IF NoLines(s) THEN {g_cmgr} ELSE {g_cmgr, WithHeader, AllLines(s)}

ReturnRead(final) ==
    /\ Return("CMGR", final)
    /\ \/ final = "ok" /\ g_cmgr' = [AllLines(store[at.arg]) EXCEPT
                                       !.done = (store[at.arg] # NoSms)]
       \/ final = "error" /\ UNCHANGED g_cmgr
       \/ final = "none" /\ g_cmgr' \in SomeLines(store[at.arg])
    /\ UNCHANGED <<g_state, mqtt, g_hb_due, g_pub_q, g_sms_delete_idx,
                   g_sms_tx_q, modemVars, smsOut>>

\* AT+QMTPUB of a payload.
ReturnPublish(final) ==
    /\ Return("PUB", final)
    /\ g_pub_q' = Popped(g_pub_q, final)
    /\ UNCHANGED <<g_state, mqtt, g_hb_due, g_sms_delete_idx, g_cmgr, g_sms_tx_q,
                   modemVars, smsOut>>

\* AT+QMTPUB of the heartbeat.
ReturnHeartbeat(final) ==
    /\ Return("HB", final)
    /\ g_hb_due' = FALSE
    /\ UNCHANGED <<g_state, mqtt, g_pub_q, g_sms_delete_idx, g_cmgr, g_sms_tx_q,
                   modemVars, smsOut>>

AtReturns(final) ==
    \/ ReturnCusd(final) \/ ReturnMqtt(final) \/ ReturnSend(final)
    \/ ReturnDelete(final) \/ ReturnRead(final) \/ ReturnPublish(final)
    \/ ReturnHeartbeat(final)

-----------------------------------------------------------------------------

Urc ==
    \/ UrcSimReady \/ UrcOther
    \/ \E s \in Sms, i \in Slot : UrcNewSms(s, i)
    \/ \E kind \in {"command", "other"} : UrcMqttRecv(kind)
    \/ \E text \in {"hex", "short"} : UrcUssd(text)

Dispatch == OnSimReady \/ OnNewSms \/ OnMqttRecv \/ OnUssdRecv \/ OnOther

Next ==
    \/ Urc
    \/ Dispatch \/ AfterMessage
    \/ Tick \/ StateMachine_1s \/ Pump_Ready
    \/ \E final \in Finals : AtReturns(final)

Spec == Init /\ [][Next]_vars

(* Fairness.  The timer is periodic and the main loop never stops receiving,   *)
(* but a message and a tick compete for the task, so each is only continually *)
(* possible again (SF).  A step that has begun ends (WF), and so does an AT   *)
(* command.  The network registers us, the PDP context opens and the broker   *)
(* accepts us if they are asked often enough; nothing is assumed of URCs.     *)
Fairness ==
    /\ SF_vars(Tick) /\ SF_vars(Dispatch)
    /\ WF_vars(AfterMessage) /\ WF_vars(StateMachine_1s) /\ WF_vars(Pump_Ready)
    /\ WF_vars(\E final \in Finals : AtReturns(final))
    /\ SF_vars(WaitReg(TRUE)) /\ SF_vars(Pdp(TRUE)) /\ SF_vars(ReturnMqtt("ok"))

FairSpec == Spec /\ Fairness

-----------------------------------------------------------------------------
(* Type invariant.                                                         *)

Messages == [urc : {"SMS"}, idx : Slot]
            \cup [urc : {"SIM", "MQTT", "USSD", "OTHER"}, idx : {0}]

Queue(T, cap) == {q \in Seq(T) : Len(q) <= cap}

MainTypeOK ==
    /\ pc \in {"loop", "second", "pump", "at", "post"}
    /\ timer \in BOOLEAN
    /\ g_state \in States
    /\ g_at_busy \in BOOLEAN

MqttTypeOK ==
    /\ mqtt \in [open : BOOLEAN, conn : BOOLEAN, sub : BOOLEAN, connected : BOOLEAN]
    /\ g_hb_due \in BOOLEAN

UssdTypeOK ==
    /\ ussd \in [got : BOOLEAN, started : BOOLEAN, text : {"none", "hex", "short"}]
    /\ ussdBox \in {"none", "hex", "short"}
    /\ cusdDue \in BOOLEAN

ModemTypeOK ==
    /\ cmgf \in {"text", "pdu"}
    /\ session \in BOOLEAN
    /\ mbox \in {"command", "other"}

QueueTypeOK ==
    /\ g_sms_idx_q \in Queue(Slot, SmsIdxCap)
    /\ g_pub_q \in Queue(Sms, PubCap)
    /\ g_sms_tx_q \in Queue({"sms"}, SmsTxCap)
    /\ msgQ \in Queue(Messages, MsgQueueCap)

SmsTypeOK ==
    /\ g_sms_delete_idx \in Slot \cup {0}
    /\ g_cmgr \in [idx : Slot \cup {0}, hdr : BOOLEAN, msg : Sms \cup {NoSms},
                   done : BOOLEAN]
    /\ store \in [Slot -> Sms \cup {NoSms}]
    /\ arrived \in SUBSET Sms /\ offered \in SUBSET Sms
    /\ handed \in Seq(Sms)

CountTypeOK ==
    /\ g_tick100 \in 0 .. TicksPerSec - 1
    /\ g_mqtt_msgid \in 1 .. MsgIdMod - 1
    /\ waited \in 0 .. UssdTimeoutSec + 1
    /\ received \in Nat /\ smsOut \in Nat /\ simReady \in Nat

\* The command in flight is there exactly while the task is blocked, and
\* works on what it was sent for.
AtTypeOK ==
    /\ at \in [cmd : Commands \cup {"none"}, arg : Nat]
    /\ pc = "at" <=> at.cmd # "none"
    /\ at.cmd \in {"CMGR", "CMGD"} => at.arg \in Slot
    /\ at.cmd = "CMGS" => g_sms_tx_q # <<>>
    /\ at.cmd = "PUB" => g_pub_q # <<>>

TypeOK == /\ MainTypeOK /\ MqttTypeOK /\ UssdTypeOK /\ ModemTypeOK
          /\ QueueTypeOK /\ SmsTypeOK /\ CountTypeOK /\ AtTypeOK

-----------------------------------------------------------------------------
(* Safety.                                                                 *)

\* An incoming short message is never erased from the SIM before it was passed
\* on for publication, unless it has no text: the index that AT+CMGD gets
\* (main.c:913, 1242) is always that of a message whose text went to pubq_push
\* (main.c:1240), whatever resets, failed commands and new messages come
\* between the read and the delete.
NoEraseBeforeForward ==
    \A s \in arrived \ (offered \cup EmptySms) : \E i \in Slot : store[i] = s

\* No short message is handed to AT+QMTPUB twice, not even after the SIM was
\* re-initialised between the read and the delete (main.c:925-936, 1236-1244).
PublishedOnce ==
    \A j, k \in DOMAIN handed : handed[j] = handed[k] => j = k

\* A pending delete is never replaced by another one before AT+CMGD was sent
\* for it: the only slot for it is main.c:500, and the pump reads the next
\* message only when it is free (main.c:910-923).
NoDeleteReplaced ==
    [][g_sms_delete_idx # 0 => g_sms_delete_idx' \in {0, g_sms_delete_idx}]_vars

\* The gateway sends no more short messages than +QMTRECV URCs came, although
\* the payload stays in its cache (ril_urc.c:575-626) and the queued command is
\* removed only after AT+CMGS returned (main.c:903-907).  (It counts URCs, not
\* commands: a payload overwritten before it is looked at is sent never, the
\* one that overwrote it twice.)
OneSmsPerUrc ==
    ~Endless =>
        smsOut + Len(g_sms_tx_q)
            + Cardinality({k \in DOMAIN msgQ : msgQ[k].urc = "MQTT"}) <= received

\* The message id of AT+QMTPUB is never 0, which the protocol reserves, and
\* fits in 16 bits: the counter wraps and is repaired (main.c:931-932, 944-945)
\* before it is used again.
MsgIdValid == at.cmd \in {"PUB", "HB"} => at.arg \in 1 .. MsgIdMod - 1

\* In READY the broker holds the subscription and every step towards it was
\* acknowledged in the present boot sequence (main.c:1059-1100), although the
\* flags are reset in two places and the link can be rejected at each step.
ReadyMeansSubscribed ==
    g_state = "READY" =>
        session /\ mqtt = [open |-> TRUE, conn |-> TRUE, sub |-> TRUE, connected |-> TRUE]

\* The busy flag is exact as long as every command ends with a final line: it
\* is set while, and only while, one is in flight, so no handler forgets to
\* clear it and no command is sent over another (main.c:334-723).
BusyIsExact == ~LossyAT => (g_at_busy <=> pc = "at")

\* The balance is never sent before an answer to AT+CUSD was taken over since
\* the last boot sequence began, nor sent twice (main.c:994-1047).
BalanceIsFromAnswer ==
    g_state = "USSD_SMS" => ussd.got /\ ussd.text # "none" /\ ~ussd.started

\* A command given up without a final line leaves the flag set for good, even
\* through a SIM READY restart (main.c:1187-1226 does not reset it).  From then
\* on no command of the pump or of the MQTT link is sent (main.c:902-938,
\* 1049-1100): no message is read, passed on, published, sent for the broker or
\* erased from the SIM, which only fills up, and no boot sequence gets past the
\* request for the balance.  What still goes out is what does not look at the
\* flag: the settings after SIM READY, the question for the registration, and,
\* when it was AT+CUSD that was given up and its answer comes all the same, the
\* balance SMS of that one boot sequence (main.c:1023-1047).
Stalled == g_at_busy /\ pc # "at"

StalledMoves ==
    (States \X {"WAIT_REG"})
        \cup {<<"WAIT_REG", "USSD_REQ">>, <<"USSD_WAIT", "USSD_SMS">>,
              <<"USSD_WAIT", "PDP">>, <<"USSD_SMS", "PDP">>}

StallIsPermanent ==
    [][Stalled =>
         /\ Stalled'
         /\ UNCHANGED <<handed, smsOut, offered, session>>
         /\ \A i \in Slot : store[i] # NoSms => store'[i] = store[i]
         /\ g_state' # g_state => <<g_state, g_state'>> \in StalledMoves
         /\ cmgf' # cmgf => cmgf' = "text" \/ g_state = "USSD_SMS"]_vars

\* What the gateway does with incoming short messages is what SmsRelay says:
\* held in the SIM, taken over, published at most once, erased only afterwards.
Relay == INSTANCE SmsRelay
            WITH held <- {store[i] : i \in Slot} \ {NoSms},
                 seen <- arrived, forwarded <- offered

IsSmsRelay == Relay!Spec

-----------------------------------------------------------------------------
(* Liveness, under FairSpec.                                               *)

\* Every boot sequence reaches READY: neither a missing answer to AT+CUSD nor a
\* balance that cannot be sent holds it up (main.c:1015-1019, 1040-1045).
BootCompletes == g_state = "WAIT_REG" ~> g_state = "READY"


\* The publish queue is emptied again and again, unless the broker's commands
\* or new short messages never stop coming: sending, deleting and reading come
\* first (main.c:902-936), so such traffic starves it for as long as it lasts.
\* Nothing else does: neither restarts nor refused commands nor the other
\* messages that compete with the timer for the main task.
TrafficNeverEnds ==
    \/ []<><<UrcMqttRecv("command")>>_vars
    \/ []<><<\E s \in Sms, i \in Slot : UrcNewSms(s, i)>>_vars

PubQueueDrains == []<>(g_pub_q = <<>>) \/ TrafficNeverEnds

-----------------------------------------------------------------------------
(* What the comments promise and the code does not keep.                   *)

\* "after CMGR done: build payload + delete" (main.c:1236): once AT+CMGR has
\* returned a message, the next end of a turn of the main loop marks it for
\* deletion.
AfterCmgrDone ==
    [][pc = "post" /\ pc' = "loop" /\ ~g_at_busy /\ g_cmgr.done /\ g_cmgr.idx # 0
           => g_sms_delete_idx' = g_cmgr.idx]_vars

\* The same comment, of the time between AT+CMGR and that turn: what was read
\* is not overwritten by the next AT+CMGR (main.c:594).
ReadIsKept ==
    [][g_cmgr.done /\ g_cmgr.hdr /\ g_cmgr.idx # 0
           => g_cmgr'.idx \in {0, g_cmgr.idx}]_vars
=============================================================================
