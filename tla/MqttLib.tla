------------------------------ MODULE MqttLib ------------------------------
(***************************************************************************)
(* The MQTT library of the cloud agent, protocol/mqtt/src/mqttlib_ext.c    *)
(* and mqttbuffer.c, between the handlers and packets of mqttxpg.c on one  *)
(* side and the broker on the other.  A socket event reads what has        *)
(* arrived behind what is kept of earlier reads, takes the whole packets   *)
(* out and answers them; the agent's packets are packed into extents and   *)
(* written at once.                                                        *)
(*                                                                         *)
(* A digit of the remaining length has DigitRadix values, 128 in the code, *)
(* and a byte with the next bit set continues it; a smaller radix brings   *)
(* longer length fields within reach of small packets.  Texts are ASCII.   *)
(* Memory allocation always succeeds.  A packet is shorter than three      *)
(* digits can say: the reception buffer has 1024 bytes.                    *)
(*                                                                         *)
(* External: the socket, from the uses in adapter.c, and the broker.       *)
(***************************************************************************)
EXTENDS Integers, SequencesExt

CONSTANTS DigitRadix,      \* 128 in the code
          RecvSize,       \* buf_size of Mqtt_InitContext: 1024 in the code
          ConnectAsks,    \* what a CONNECT may be asked to carry
          Topics,         \* topics of SUBSCRIBE
          Messages,       \* what either side publishes
          MaxAsked,       \* bound on the packets the agent begins
          MaxPackets      \* bound on the packets both sides begin

Base == 256
Byte8 == 0 .. Base - 1
Bytes == Seq(Byte8)

\* What each digit of a length counts.
Weight == LET r == DigitRadix IN <<1, r, r * r, r * r * r, r * r * r * r>>
MaxLength == Weight[4] - 1

\* willMsg is the memory from will_msg on, which msg_len takes a part of.
ASSUME MqttAssumption ==
    /\ DigitRadix \in Nat /\ DigitRadix > 2 /\ DigitRadix <= 128
    /\ RecvSize \in Nat \ {0} /\ MaxAsked \in Nat /\ MaxPackets \in Nat
    /\ ConnectAsks \subseteq
          [id : Bytes, willTopic : Bytes, willMsg : Bytes, msgLen : Nat, qos : 0 .. 2,
           willRetain : 0 .. 1, user : Bytes, password : Bytes]
    /\ \A a \in ConnectAsks :
          /\ a.msgLen <= Len(a.willMsg)
          /\ Len(a.id) + Len(a.willTopic) + a.msgLen + Len(a.user) + Len(a.password) + 13
                <= MaxLength
    /\ Topics \subseteq Bytes
    /\ \A t \in Topics : 2 * Len(t) + 8 <= MaxLength
    /\ Messages \subseteq [topic : Bytes, payload : Bytes, qos : 0 .. 2, dup : BOOLEAN,
                           retain : 0 .. 1]
    /\ \A m \in Messages : Len(m.topic) + Len(m.payload) + 4 <= MaxLength

CONNECT == 1
CONNACK == 2
PUBLISH == 3
PUBACK == 4
PUBREC == 5
PUBREL == 6
PUBCOMP == 7
SUBSCRIBE == 8
SUBACK == 9
UNSUBSCRIBE == 10
UNSUBACK == 11
PINGREQ == 12
PINGRESP == 13
DISCONNECT == 14

VARIABLES mqttUp,          \* the socket is open
          mqttBegun,       \* packets begun by each side, for the bounds
          mqttWire,        \* bytes on their way from the broker
          mqttBuf,         \* ctx->bgn up to ctx->pos
          mqttMsgsubid,    \* packet identifiers given out
          mqttSent,        \* packets the broker sent on this connection
          mqttSeen,        \* packets the dispatcher was given
          mqttHanded,      \* calls of handle_publish
          mqttOut,         \* packets written to the socket
          mqttSpoilt       \* a fault of the library reached the stream

mqttVars == <<mqttUp, mqttBegun, mqttWire, mqttBuf, mqttMsgsubid,
              mqttSent, mqttSeen, mqttHanded, mqttOut, mqttSpoilt>>

MqttInit ==
    /\ mqttUp = TRUE /\ mqttBegun = [agent |-> 0, broker |-> 0]
    /\ mqttWire = <<>> /\ mqttBuf = <<>> /\ mqttMsgsubid = 0
    /\ mqttSent = <<>> /\ mqttSeen = <<>> /\ mqttHanded = <<>> /\ mqttOut = <<>>
    /\ mqttSpoilt = FALSE

-----------------------------------------------------------------------------
(* Numbers, lengths and texts on the wire.                                 *)

WB16(v) == <<(v \div Base) % Base, v % Base>>
RB16(s) == s[1] * Base + s[2]

\* At most four digits; <<>> is the code's -1.
DumpLength(len) ==
    LET fits == {n \in 1 .. 4 : len < Weight[n + 1]}
        Digit(i) == (len \div Weight[i]) % DigitRadix
    IN  IF fits = {} THEN <<>>
        ELSE [i \in 1 .. Min(fits) |->
                IF i < Min(fits) THEN Digit(i) + DigitRadix ELSE Digit(i)]

Continues(b) == (b \div DigitRadix) % 2 = 1

\* bytes is -1 when the length is not complete, -2 when it is too long: the
\* third digit may not be continued.
ReadLength(s) ==
    LET ends == {i \in DOMAIN s : i <= 3 /\ ~Continues(s[i])}
        Part(i) == IF i <= Min(ends) THEN (s[i] % DigitRadix) * Weight[i] ELSE 0
    IN  IF ends # {} THEN [bytes |-> Min(ends), len |-> Part(1) + Part(2) + Part(3)]
        ELSE [bytes |-> IF Len(s) >= 3 THEN -2 ELSE -1, len |-> 0]

PktWriteString(text, len) == WB16(len) \o SubSeq(text, 1, len)

-----------------------------------------------------------------------------
(* Packing.  A buffer is the sequence of its extents; an extent allocated  *)
(* for n bytes has n of them, whatever was written into it.                *)

AllocExtent(n, written) ==
    [i \in 1 .. n |-> IF i <= Len(written) THEN written[i] ELSE 0]

FixHead(type, flags, len) == <<type * 16 + flags>> \o DumpLength(len)

\* Mqtt_SendPkt gathers the extents, Adapter_SOC_Send copies them together.
Gather(extents) == FlattenSeq(extents)

MQTT_VARIABLE_HEAD == 3   \* bytes of name, level, flags and keep-alive: 12

WillFlag(a) == a.willTopic # <<>> \/ a.qos > 0 \/ a.willRetain = 1

ConnectFlags(a) ==
    2 + (IF WillFlag(a) THEN 4 ELSE 0) + 8 * a.qos + 32 * a.willRetain
    + (IF a.password # <<>> THEN 64 ELSE 0) + (IF a.user # <<>> THEN 128 ELSE 0)

PackConnectPkt(a) ==
    LET total == MQTT_VARIABLE_HEAD + Len(a.id) + 2
                 + (IF WillFlag(a) THEN 4 + Len(a.willTopic) + a.msgLen ELSE 0)
                 + (IF a.user # <<>> THEN Len(a.user) + 2 ELSE 0)
                 + (IF a.password # <<>> THEN Len(a.password) + 2 ELSE 0)
        texts == PktWriteString(a.id, Len(a.id))
                 \o (IF WillFlag(a)
                     THEN PktWriteString(a.willTopic, Len(a.willTopic))
                          \o PktWriteString(a.willMsg, IF a.willMsg = <<>>
                                                       THEN 0 ELSE a.msgLen)
                     ELSE <<>>)
                 \o (IF a.user # <<>> THEN PktWriteString(a.user, Len(a.user))
                     ELSE <<>>)
                 \o (IF a.password # <<>>
                     THEN PktWriteString(a.password, Len(a.password))
                     ELSE <<>>)
    IN  IF (a.willMsg # <<>> /\ a.willTopic = <<>>)
           \/ (a.user = <<>> /\ a.password # <<>>)
        THEN <<>>
        ELSE <<FixHead(CONNECT, 0, total), <<0, 3, ConnectFlags(a)>>,
               AllocExtent(total - MQTT_VARIABLE_HEAD, texts)>>

PackPublishPkt(id, topic, payload, qos, retain) ==
    LET total == Len(topic) + Len(payload) + 2 + (IF qos > 0 THEN 2 ELSE 0)
    IN  <<FixHead(PUBLISH, 2 * qos + retain, total),
          AllocExtent(total - Len(payload),
                      PktWriteString(topic, Len(topic))
                      \o (IF qos > 0 THEN WB16(id) ELSE <<>>))>>
        \o (IF payload # <<>> THEN <<payload>> ELSE <<>>)

PackSubscribePkt(id, topic, qos) ==
    LET remaining == 5 + Len(topic)
    IN  <<FixHead(SUBSCRIBE, 2, remaining),
          AllocExtent(remaining, WB16(id) \o PktWriteString(topic, Len(topic))
                                 \o <<qos>>)>>

PackUnsubscribePkt(id, topic) ==
    LET remaining == Len(topic) + 4
    IN  <<FixHead(UNSUBSCRIBE, 2, remaining),
          AllocExtent(remaining, WB16(id) \o PktWriteString(topic, Len(topic)))>>

\* Faulty: the head keeps the length of the first topic.
NotRegrown(buf, n) == buf

\* The length in the head grows with every topic appended.
Regrown(buf, n) ==
    LET old == ReadLength(Tail(buf[1])).len
    IN  <<<<buf[1][1]>> \o DumpLength(old + n)>> \o Tail(buf)

AppendSubscribeTopic(buf, topic, qos) ==
    LET n == Len(topic) + 3
    IN  Append(Regrown(buf, n),
               AllocExtent(n, PktWriteString(topic, Len(topic)) \o <<qos>>))

AppendUnsubscribeTopic(buf, topic) ==
    LET n == Len(topic) + 2
    IN  Append(Regrown(buf, n), AllocExtent(n, PktWriteString(topic, Len(topic))))

SetPktDup(buf) == <<<<buf[1][1] + 8>> \o Tail(buf[1])>> \o Tail(buf)

PackPubAckPkt(id)  == <<<<PUBACK * 16, 2>> \o WB16(id)>>
PackPubRecPkt(id)  == <<<<PUBREC * 16, 2>> \o WB16(id)>>
PackPubRelPkt(id)  == <<<<PUBREL * 16 + 2, 2>> \o WB16(id)>>
PackPubCompPkt(id) == <<<<PUBCOMP * 16, 2>> \o WB16(id)>>
PackPingReqPkt     == <<<<PINGREQ * 16, 0>>>>
PackDisconnectPkt  == <<<<DISCONNECT * 16, 0>>>>

-----------------------------------------------------------------------------
(* What the broker receives: written is the number of bytes that left, and *)
(* ask the packet as the standard lays it out.                             *)

Packet(type, flags, body) == [fh |-> type * 16 + flags, body |-> body]

Type(p) == p.fh \div 16
Flags(p) == p.fh % 16

\* A packet the agent wants on the wire; the socket may take part of it only.
Written(ask, extents, answer, n) ==
    [ask |-> ask, bytes |-> Gather(extents), answer |-> answer, written |-> n]

\* What Ql_SOC_Send takes: all, or not all, which stands for an error too.
SendResults(extents) ==
    LET all == Len(Gather(extents)) IN {all - 1, all}

Text(t) == WB16(Len(t)) \o t
OptText(t) == IF t = <<>> THEN <<>> ELSE Text(t)

ConnectBody(a) ==
    <<0, 3, ConnectFlags(a)>> \o Text(a.id)
    \o (IF WillFlag(a) THEN Text(a.willTopic) \o Text(SubSeq(a.willMsg, 1, a.msgLen))
        ELSE <<>>)
    \o OptText(a.user) \o OptText(a.password)

-----------------------------------------------------------------------------
(* The agent's own packets.                                                *)

Begins(side) ==
    /\ mqttBegun.agent + mqttBegun.broker < MaxPackets
    /\ mqttBegun' = [mqttBegun EXCEPT ![side] = @ + 1]

\* Mqtt_SendPkt: what the caller does after a part was written is nothing.
MqttSend(ask, id, extents) ==
    /\ mqttUp
    /\ Begins("agent") /\ mqttBegun.agent < MaxAsked
    /\ mqttMsgsubid' = id
    /\ \E n \in SendResults(extents) :
          mqttOut' = Append(mqttOut, Written(ask, extents, FALSE, n))
    /\ UNCHANGED <<mqttUp, mqttWire, mqttBuf, mqttSent, mqttSeen, mqttHanded,
                   mqttSpoilt>>

SendConnect(a) ==
    /\ \A i \in DOMAIN mqttOut : mqttOut[i].answer   \* the agent's first
    /\ PackConnectPkt(a) # <<>>
    /\ MqttSend(Packet(CONNECT, 0, ConnectBody(a)), mqttMsgsubid,
                PackConnectPkt(a))

NextId == mqttMsgsubid + 1

SendSubscribe(topic, more) ==
    LET first == PackSubscribePkt(NextId, topic, 1)
        body == WB16(NextId) \o Text(topic) \o <<1>>
    IN  IF more
        THEN MqttSend(Packet(SUBSCRIBE, 2, body \o Text(topic) \o <<0>>), NextId,
                      AppendSubscribeTopic(first, topic, 0))
        ELSE MqttSend(Packet(SUBSCRIBE, 2, body), NextId, first)

SendUnsubscribe(topic, more) ==
    LET first == PackUnsubscribePkt(NextId, topic)
        body == WB16(NextId) \o Text(topic)
    IN  IF more
        THEN MqttSend(Packet(UNSUBSCRIBE, 2, body \o Text(topic)), NextId,
                      AppendUnsubscribeTopic(first, topic))
        ELSE MqttSend(Packet(UNSUBSCRIBE, 2, body), NextId, first)

\* The PUBLISH of a message, as the standard has it.
Publish(m, id) ==
    Packet(PUBLISH, m.retain + 2 * m.qos + (IF m.dup THEN 8 ELSE 0),
           Text(m.topic) \o (IF m.qos > 0 THEN WB16(id) ELSE <<>>) \o m.payload)

SendPublish(m) ==
    LET fresh == PackPublishPkt(NextId, m.topic, m.payload, m.qos, m.retain)
    IN  MqttSend(Publish(m, NextId), NextId, IF m.dup THEN SetPktDup(fresh) ELSE fresh)

SendPing == MqttSend(Packet(PINGREQ, 0, <<>>), mqttMsgsubid, PackPingReqPkt)

SendDisconnect ==
    MqttSend(Packet(DISCONNECT, 0, <<>>), mqttMsgsubid, PackDisconnectPkt)

-----------------------------------------------------------------------------
(* The broker: it answers what reached it whole, and publishes.            *)

Reached(type) ==
    {w.ask : w \in {v \in Range(mqttOut) : /\ Type(v.ask) = type
                                           /\ v.written = Len(v.bytes)}}

\* The identifier of a PUBLISH follows its topic.
PublishId(p) == SubSeq(p.body, RB16(p.body) + 3, RB16(p.body) + 4)

ReachedPublish(qos) == {p \in Reached(PUBLISH) : (Flags(p) \div 2) % 4 = qos}

Replies ==
    {Packet(CONNACK, 0, <<0, c>>) : c \in IF Reached(CONNECT) = {} THEN {} ELSE {0, 5}}
    \cup {Packet(PINGRESP, 0, <<>>) : p \in Reached(PINGREQ)}
    \cup {Packet(SUBACK, 0, SubSeq(p.body, 1, 2) \o <<1>>) : p \in Reached(SUBSCRIBE)}
    \cup {Packet(UNSUBACK, 0, SubSeq(p.body, 1, 2)) : p \in Reached(UNSUBSCRIBE)}
    \cup {Packet(PUBACK, 0, PublishId(p)) : p \in ReachedPublish(1)}
    \cup {Packet(PUBREC, 0, PublishId(p)) : p \in ReachedPublish(2)}
    \cup {Packet(PUBCOMP, 0, p.body) : p \in Reached(PUBREL)}
    \cup {Packet(PUBREL, 2, p.body) : p \in Reached(PUBREC)}

Publishes == {Publish(m, 1) : m \in Messages}

OnTheWire(p) == <<p.fh>> \o DumpLength(Len(p.body)) \o p.body

BrokerSends ==
    /\ mqttUp
    /\ Begins("broker")
    /\ \E p \in Replies \cup Publishes :
          /\ mqttSent' = Append(mqttSent, p)
          /\ mqttWire' = mqttWire \o OnTheWire(p)
    /\ UNCHANGED <<mqttUp, mqttBuf, mqttMsgsubid, mqttSeen, mqttHanded, mqttOut,
                   mqttSpoilt>>

-----------------------------------------------------------------------------
(* The handlers.  Each refuses what it holds illegal; the agent's          *)
(* callbacks agree to everything but a SUBACK of another identifier.       *)

HandleConnAck(p) ==
    /\ Flags(p) = 0 /\ Len(p.body) = 2
    /\ ~(p.body[1] % 2 = 1 /\ p.body[2] # 0) /\ p.body[2] <= 5

HandleId(p, flags) ==
    Flags(p) = flags /\ Len(p.body) = 2 /\ RB16(p.body) # 0

HandleSubAck(p) ==
    /\ Flags(p) = 0 /\ Len(p.body) >= 2 /\ RB16(p.body) # 0
    /\ \A i \in 3 .. Len(p.body) : (p.body[i] \div 4) % 32 = 0
    /\ RB16(p.body) = mqttMsgsubid

HandlePublish(p) ==
    LET qos == (Flags(p) \div 2) % 4
        topic_len == RB16(p.body)
    IN  /\ Len(p.body) >= 2 /\ Flags(p) % 2 = 0 /\ Len(p.body) >= 2 + topic_len
        /\ qos \in 0 .. 2
        /\ IF qos = 0 THEN Flags(p) < 8
           ELSE /\ topic_len + 4 <= Len(p.body)
                /\ RB16(SubSeq(p.body, topic_len + 3, topic_len + 4)) # 0

Dispatch(p) ==
    CASE Type(p) = PINGRESP -> Flags(p) = 0 /\ p.body = <<>>
      [] Type(p) = CONNACK -> HandleConnAck(p)
      [] Type(p) = PUBLISH -> HandlePublish(p)
      [] Type(p) \in {PUBACK, PUBREC, PUBCOMP, UNSUBACK} -> HandleId(p, 0)
      [] Type(p) = PUBREL -> HandleId(p, 2)
      [] Type(p) = SUBACK -> HandleSubAck(p)
      [] OTHER -> FALSE

\* The packet to answer with, and the extents the code packs for it.
Response(p) ==
    LET qos == (Flags(p) \div 2) % 4
    IN  CASE Type(p) = PUBLISH /\ qos = 1 ->
                <<Packet(PUBACK, 0, PublishId(p)), PackPubAckPkt(RB16(PublishId(p)))>>
          [] Type(p) = PUBLISH /\ qos = 2 ->
                <<Packet(PUBREC, 0, PublishId(p)), PackPubRecPkt(RB16(PublishId(p)))>>
          [] Type(p) = PUBREC -> <<Packet(PUBREL, 2, p.body), PackPubRelPkt(RB16(p.body))>>
          [] Type(p) = PUBREL -> <<Packet(PUBCOMP, 0, p.body), PackPubCompPkt(RB16(p.body))>>
          [] OTHER -> <<>>

-----------------------------------------------------------------------------
(* Mqtt_RecvPkt.  st is the loop's state: the buffer, the bytes taken out  *)
(* of it, the packets dispatched, the calls of handle_publish, the         *)
(* answers, and how the loop stands.                                       *)

Looping(buf) ==
    [buf |-> buf, cursor |-> 0, seen |-> <<>>, handed |-> <<>>, out |-> <<>>,
     spoilt |-> FALSE, is |-> "looping"]

Remaining(st) == SubSeq(st.buf, st.cursor + 1, Len(st.buf))

\* The byte behind a topic, which begins at the third byte of its packet.
Behind(p) == 3 + RB16(p.body)

\* topic[topic_len] = '\0', before the message is handed on: the first byte of
\* the payload or of an identifier that was read already.  Behind a topic that
\* ends its packet it is the byte of the next packet's header.
TerminateTopic(st, p, cursor) ==
    LET end == cursor - Len(p.body) + Behind(p)
    IN  IF end > Len(st.buf) THEN st
        ELSE [st EXCEPT !.buf[end] = 0, !.spoilt = st.spoilt \/ end > cursor]

\* Faulty: the identifier is taken for the beginning of the payload.
PayloadAfterTopic(p) == Behind(p)

PayloadAt(p) == Behind(p) + (IF (Flags(p) \div 2) % 4 = 0 THEN 0 ELSE 2)

\* What handle_publish is called with, and what the agent's callback makes of
\* it: a copy of the whole buffer, in which the message's packet is behind the
\* packets taken before it from the same read.  len is of unsigned type: a
\* negative value stands for the huge one it wraps to.
Handed(st, p, cursor) ==
    LET body == SubSeq(st.buf, cursor - Len(p.body) + 1, cursor)
    IN  [topic |-> SubSeq(body, 3, Behind(p) - 1),
         payload |-> SubSeq(body, PayloadAt(p), Len(body)),
         len |-> Len(p.body) - 4 - RB16(p.body),
         copy |-> st.buf, behind |-> st.cursor]

\* A PUBLISH is handed on, the topic terminated in place.
HandOn(st, p, cursor) ==
    LET ended == TerminateTopic(st, p, cursor)
    IN  IF Type(p) = PUBLISH
        THEN [ended EXCEPT !.handed = Append(st.handed, Handed(ended, p, cursor))]
        ELSE st

\* Faulty: an answer that is not written whole does not end the connection.
TakeAnyway(st, p, cursor, n) ==
    LET answer == Response(p)
        given == [st EXCEPT !.seen = Append(@, p)]
        after == [HandOn(given, p, cursor) EXCEPT !.cursor = cursor]
    IN  IF ~Dispatch(p) THEN [given EXCEPT !.is = "failed"]
        ELSE IF answer = <<>> THEN after
        ELSE [after EXCEPT !.out = Append(@, Written(answer[1], answer[2], TRUE, n))]

\* One packet, n bytes of its answer written.  Answers are of 4 bytes; after
\* one that is not written whole the packet stays in the buffer.
TakePacket(st, p, cursor, n) ==
    LET answer == Response(p)
        given == [st EXCEPT !.seen = Append(@, p)]
        after == [HandOn(given, p, cursor) EXCEPT !.cursor = cursor]
    IN  IF ~Dispatch(p) THEN [given EXCEPT !.is = "failed"]
        ELSE IF answer = <<>> THEN after
        ELSE LET w == Written(answer[1], answer[2], TRUE, n)
                 sent == [after EXCEPT !.out = Append(@, w)]
             IN  IF n = 4 THEN sent ELSE [sent EXCEPT !.cursor = st.cursor, !.is = "failed"]

\* One turn of the loop.
Turn(st, n) ==
    LET rest == Remaining(st)
        r == ReadLength(Tail(rest))
        size == 1 + r.bytes + r.len
    IN  IF st.is # "looping" THEN st
        ELSE IF Len(rest) < 2 THEN [st EXCEPT !.is = "done"]
        ELSE IF r.bytes = -2 THEN [st EXCEPT !.is = "failed"]
        ELSE IF r.bytes = -1 \/ size > Len(rest) THEN [st EXCEPT !.is = "done"]
        ELSE TakePacket(st, [fh |-> rest[1], body |-> SubSeq(rest, size - r.len + 1, size)],
                        st.cursor + size, n)

\* A turn takes bytes out or ends the loop.
RecvLoop(start, n) ==
    LET turn[k \in 0 .. Len(start.buf)] ==
            IF k = 0 THEN start ELSE Turn(turn[k - 1], n)
    IN  turn[Len(start.buf)]

\* Faulty: what remains behind the packets taken out is dropped.
Emptied(st) == IF st.cursor = 0 THEN st.buf ELSE <<>>

\* memmove of as many bytes as were taken, not of those that remain: what
\* remains beyond that keeps the bytes that lay there before.
Compacted(st) ==
    LET rest == Remaining(st)
    IN  [i \in 1 .. Len(rest) |->
            IF st.cursor = 0 \/ i > st.cursor THEN st.buf[i] ELSE rest[i]]

Torn(st) == st.cursor > 0 /\ Len(Remaining(st)) > st.cursor

RecvPkt(m, n) ==
    LET st == RecvLoop(Looping(mqttBuf \o SubSeq(mqttWire, 1, m)), n)
    IN  /\ mqttUp
        /\ m <= Len(mqttWire) /\ Len(mqttBuf) + m <= RecvSize
        /\ n < 4 => st.out # <<>>
        /\ mqttWire' = SubSeq(mqttWire, m + 1, Len(mqttWire))
        /\ mqttSeen' = mqttSeen \o st.seen
        /\ mqttHanded' = mqttHanded \o st.handed
        /\ mqttOut' = mqttOut \o st.out
        /\ mqttUp' = (st.is # "failed")
        /\ mqttBuf' = IF mqttUp' THEN Compacted(st) ELSE st.buf
        /\ mqttSpoilt' = (mqttSpoilt \/ st.spoilt \/ (mqttUp' /\ Torn(st)))
        /\ UNCHANGED <<mqttBegun, mqttMsgsubid, mqttSent>>

\* A read of 0 bytes: the broker has closed, or the buffer is full.
RecvNothing ==
    /\ mqttUp
    /\ mqttWire = <<>> \/ Len(mqttBuf) = RecvSize
    /\ mqttBuf' = <<>> /\ mqttUp' = FALSE
    /\ UNCHANGED <<mqttBegun, mqttWire, mqttMsgsubid, mqttSent, mqttSeen,
                   mqttHanded, mqttOut, mqttSpoilt>>

RecvFails ==
    /\ mqttUp
    /\ mqttUp' = FALSE
    /\ UNCHANGED <<mqttBegun, mqttWire, mqttBuf, mqttMsgsubid, mqttSent,
                   mqttSeen, mqttHanded, mqttOut, mqttSpoilt>>

\* Mqtt_InitContext, at the next login.
InitContext ==
    /\ ~mqttUp
    /\ mqttUp' = TRUE
    /\ mqttWire' = <<>> /\ mqttBuf' = <<>> /\ mqttSent' = <<>>
    /\ mqttSeen' = <<>> /\ mqttHanded' = <<>> /\ mqttOut' = <<>>
    /\ mqttSpoilt' = FALSE
    /\ UNCHANGED <<mqttBegun, mqttMsgsubid>>

MqttNext ==
    \/ \E a \in ConnectAsks : SendConnect(a)
    \/ \E t \in Topics, more \in BOOLEAN : SendSubscribe(t, more)
    \/ \E t \in Topics, more \in BOOLEAN : SendUnsubscribe(t, more)
    \/ \E m \in Messages : SendPublish(m)
    \/ SendPing \/ SendDisconnect
    \/ BrokerSends
    \/ \E m \in 1 .. RecvSize, n \in {3, 4} : RecvPkt(m, n)
    \/ RecvNothing \/ RecvFails
    \/ InitContext

MqttSpec == MqttInit /\ [][MqttNext]_mqttVars

-----------------------------------------------------------------------------
(* Properties.                                                             *)

\* Types; the buffer never holds more than was allocated (mqttlib_ext.c:920).
MqttTypeOK ==
    /\ mqttUp \in BOOLEAN /\ mqttBegun \in [{"agent", "broker"} -> 0 .. MaxPackets]
    /\ \A i \in DOMAIN mqttBuf : mqttBuf[i] \in Nat
    /\ Len(mqttBuf) <= RecvSize
    /\ mqttMsgsubid \in Nat /\ mqttSpoilt \in BOOLEAN
    /\ \A i \in DOMAIN mqttOut : mqttOut[i].written <= Len(mqttOut[i].bytes)

\* However the stream is cut into reads, the dispatcher is given the packets
\* the broker sent, each once and in order, and once all is read none is
\* missing; what the agent's callback gets of a PUBLISH is another matter, that
\* of MqttHandedOn.  Two faults of the code are left out: the memmove that keeps
\* only as many bytes as were taken, and the zero put behind a topic that ends
\* its packet, into the next packet's header (mqttlib_ext.c:925-969, 526).
MqttInOrder ==
    ~mqttSpoilt =>
        /\ IsPrefix(mqttSeen, mqttSent)
        /\ (mqttUp /\ mqttWire = <<>> /\ mqttBuf = <<>>) => mqttSeen = mqttSent

\* What is written is the packet that was meant: the length in the head is
\* that of what follows, and the fields are where the standard has them,
\* appended topics included (mqttlib_ext.c:198-278, 797-878, 1061-1587).
MqttPacketsWhole ==
    \A i \in DOMAIN mqttOut :
        LET w == mqttOut[i]
            r == ReadLength(Tail(w.bytes))
        IN  /\ w.bytes[1] = w.ask.fh
            /\ r.bytes > 0 /\ Len(w.bytes) = 1 + r.bytes + r.len
            /\ SubSeq(w.bytes, r.bytes + 2, Len(w.bytes)) = w.ask.body

\* The packet a packet is to be answered with, and the one an answer was.
AnswerTo(p) == IF Response(p) = <<>> THEN <<>> ELSE <<Response(p)[1]>>
AnswerIn(w) == IF w.answer THEN <<w.ask>> ELSE <<>>

\* Every PUBLISH with an identifier, every PUBREC and every PUBREL taken out
\* of the buffer was answered with its own identifier and in order; the first
\* answer that is not written whole ends the connection
\* (mqttlib_ext.c:361-376, 604-646, 664-678).
MqttAnswered ==
    LET due == FlattenSeq([i \in 1 .. Len(mqttSeen) |-> AnswerTo(mqttSeen[i])])
        done == FlattenSeq([i \in 1 .. Len(mqttOut) |-> AnswerIn(mqttOut[i])])
    IN  mqttUp =>
            /\ due = done
            /\ \A w \in Range(mqttOut) : w.answer => w.written = Len(w.bytes)

\* The dispatcher is given the packets in order and they are answered: the
\* two above together.
MqttExchange == MqttInOrder /\ MqttAnswered

\* What a zero written at the k-th byte makes of a text.
ZeroAt(s, k) == [i \in DOMAIN s |-> IF i = k THEN 0 ELSE s[i]]

\* The bytes of a PUBLISH with its topic terminated in place.
Terminated(p) ==
    LET bytes == OnTheWire(p)
    IN  ZeroAt(bytes, Len(bytes) - Len(p.body) + Behind(p))

\* Every PUBLISH is handed on once and in order, however the stream is cut, with
\* the topic of its message.  With an identifier the payload and its length are
\* the message's too; without one the topic's zero is the payload's first byte,
\* and the length is two short.  The buffer that the agent's callback copies, to
\* parse it from its start, has the packet behind those taken from the same read
\* before it: it begins with this packet only when that is the read's first
\* (mqttlib_ext.c:480-532, 597-602, mqttxpg.c:72-84, 597-616).
MqttHandedOn ==
    LET taken == SelectSeq(mqttSeen, LAMBDA p : Type(p) = PUBLISH)
        IsHanded(m, p, h) ==
            /\ p = Publish(m, 1)
            /\ h.topic = m.topic
            /\ h.payload = IF m.qos = 0 THEN ZeroAt(m.payload, 1) ELSE m.payload
            /\ h.len = IF m.qos = 0 THEN Len(m.payload) - 2 ELSE Len(m.payload)
            /\ IsPrefix(Terminated(p), SubSeq(h.copy, h.behind + 1, Len(h.copy)))
    IN  ~mqttSpoilt =>
            /\ Len(mqttHanded) <= Len(taken)
            /\ mqttUp => Len(mqttHanded) = Len(taken)
            /\ \A i \in DOMAIN mqttHanded :
                  \E m \in Messages : IsHanded(m, taken[i], mqttHanded[i])
=============================================================================
