------------------------------ MODULE McuFrame ------------------------------
(***************************************************************************)
(* The serial line from the microcontroller (MCU) to the cloud agent:      *)
(* cloud/entity/gitwizs/src/hal_uart.c.  The MCU sends frames              *)
(*                                                                         *)
(*     FF FF | length, 2 bytes | body                                      *)
(*                                                                         *)
(* with a 55 stuffed after every FF that follows the head.  The driver     *)
(* notifies the agent, the callback reads what fits before the end of a    *)
(* ring buffer and extracts the frames byte by byte, taking the stuffing   *)
(* out in place.  Bytes are 0 .. ByteRadix - 1: a small radix brings the    *)
(* FF of the length field into reach of small frames.                      *)
(*                                                                         *)
(* External: the UART driver, from include/ql_uart.h, and the MCU.         *)
(***************************************************************************)
EXTENDS Integers, SequencesExt

CONSTANTS ByteRadix,   \* number of values of a byte: 256 in the code
          ESC,         \* the byte stuffed after FF: 0x55 in the code
          RingSize,    \* HAL_BUF_SIZE
          FifoCap,     \* bytes the driver holds until the agent reads them
          Bodies,      \* bodies of the frames the MCU sends
          MaxFrames,   \* bound on the frames sent
          MaxDamaged   \* bound on those of them the line damages

FF == ByteRadix - 1
Byte == 0 .. ByteRadix - 1
U16 == ByteRadix * ByteRadix

MaxFrameLen == 2 * (Max({Len(b) : b \in Bodies}) + 2) + 2

ASSUME FrameAssumption ==
    /\ ByteRadix \in Nat /\ ByteRadix > 2 /\ ESC \in Byte \ {FF}
    /\ Bodies \subseteq Seq(Byte) \ {<<>>} /\ Bodies # {}
    /\ \A b \in Bodies : Len(b) < ESC * ByteRadix   \* high byte below ESC: the ring is far smaller
    /\ FifoCap \in Nat \ {0} /\ RingSize \in Nat /\ RingSize >= FifoCap + MaxFrameLen

HEAD1 == 1
HEAD2 == 2
DATALEN1 == 3
DATALEN2 == 4
DATA == 5

VARIABLES line,          \* bytes on their way
          fifo,          \* bytes in the driver
          armed,         \* the driver notifies of the next byte
          event,         \* a notification the agent has not handled
          extracting,    \* the callback is between its read and its end
          hal_RxBuffer, pos_start, pos_current,
          gu8LocalHalStatus, halRecKeyWord,
          gu16LocalPacketDataLen, guiLocalPacketStart,
          sent,          \* frames put on the line, and whether damaged
          delivered      \* packets handed to Hal_LocalDataHandle

lineVars  == <<line, fifo, armed, event>>
ringVars  == <<hal_RxBuffer, pos_start, pos_current>>
parseVars == <<gu8LocalHalStatus, halRecKeyWord, gu16LocalPacketDataLen,
               guiLocalPacketStart>>
mcuVars == <<lineVars, extracting, ringVars, parseVars, sent, delivered>>

Mask(pos) == pos % RingSize

McuInit ==
    /\ line = <<>> /\ fifo = <<>> /\ armed = TRUE /\ event = FALSE
    /\ extracting = FALSE
    /\ hal_RxBuffer = [i \in 0 .. RingSize - 1 |-> 0]
    /\ pos_start = 0 /\ pos_current = 0
    /\ gu8LocalHalStatus = HEAD1 /\ halRecKeyWord = FALSE
    /\ gu16LocalPacketDataLen = 0 /\ guiLocalPacketStart = 0
    /\ sent = <<>> /\ delivered = <<>>

-----------------------------------------------------------------------------
(* The frame and its stuffing.                                             *)

\* Length and body, as the checksum and the cloud see them.
Content(body) ==
    <<Len(body) \div ByteRadix, Len(body) % ByteRadix>> \o body

\* Gagent_Local_DataAdapter: a 55 after every FF.
Stuff(bytes) ==
    FlattenSeq([i \in 1 .. Len(bytes) |->
        IF bytes[i] = FF THEN <<FF, ESC>> ELSE <<bytes[i]>>])

Encode(body) == <<FF, FF>> \o Stuff(Content(body))

-----------------------------------------------------------------------------
(* The MCU and the line.                                                   *)

McuSends(body) ==
    /\ Len(sent) < MaxFrames
    /\ line = <<>>
    /\ line' = Encode(body)
    /\ sent' = Append(sent, [body |-> body, intact |-> TRUE])
    /\ UNCHANGED <<fifo, armed, event, extracting, ringVars, parseVars,
                   delivered>>

\* The line loses one byte, or the rest of the frame from it on.
McuSendsDamaged(body) ==
    /\ Len(sent) < MaxFrames
    /\ line = <<>>
    /\ Len(SelectSeq(sent, LAMBDA f : ~f.intact)) < MaxDamaged
    /\ \E i \in 1 .. Len(Encode(body)) :
          \/ line' = RemoveAt(Encode(body), i)
          \/ line' = SubSeq(Encode(body), 1, i - 1)
    /\ sent' = Append(sent, [body |-> body, intact |-> FALSE])
    /\ UNCHANGED <<fifo, armed, event, extracting, ringVars, parseVars,
                   delivered>>

\* Bytes reach the driver.  It notifies once, and again only after a read
\* that left nothing behind.
Arrive ==
    /\ \E n \in 1 .. Len(line) :
          /\ Len(fifo) + n <= FifoCap
          /\ fifo' = fifo \o SubSeq(line, 1, n)
          /\ line' = SubSeq(line, n + 1, Len(line))
    /\ event' = (event \/ armed)
    /\ armed' = FALSE
    /\ UNCHANGED <<extracting, ringVars, parseVars, sent, delivered>>

-----------------------------------------------------------------------------
(* The callback: one read, then packets until none is whole.               *)

get_available_buf_space(current, start) ==
    IF Mask(current) >= Mask(start)
    THEN RingSize - Mask(current)
    ELSE Mask(start) - Mask(current)

ReadIntoRing(n) ==
    [i \in 0 .. RingSize - 1 |->
        LET k == (i - Mask(pos_current)) + 1
        IN  IF k \in 1 .. n THEN fifo[k] ELSE hal_RxBuffer[i]]

Hal_Rcv_Data_Handle ==
    LET available_len == get_available_buf_space(pos_current, pos_start)
        n == Min({available_len, Len(fifo)})
    IN  /\ event /\ ~extracting
        /\ event' = FALSE
        /\ hal_RxBuffer' = ReadIntoRing(n)
        /\ pos_current' = pos_current + n
        /\ fifo' = SubSeq(fifo, n + 1, Len(fifo))
        /\ armed' = (n = Len(fifo))
        /\ extracting' = TRUE
        /\ UNCHANGED <<line, pos_start, parseVars, sent, delivered>>

rxByte == hal_RxBuffer[Mask(pos_start)]

MoreBytes == extracting /\ Mask(pos_start) # Mask(pos_current)

get_data_len(from, to) ==
    IF Mask(to) >= Mask(from)
    THEN Mask(to) - Mask(from)
    ELSE RingSize - Mask(from) + Mask(to)

\* Faulty: the last byte does not move.
MovedButLast(from, to) ==
    [i \in 0 .. RingSize - 1 |->
        LET k == get_data_len(from, i + 1)
        IN  IF k + 1 < get_data_len(from, to)
            THEN hal_RxBuffer[Mask(i + 1)]
            ELSE hal_RxBuffer[i]]

\* Everything from `from` up to `to` moves one place back, over the 55.
HAL_Move_Data_Backward(from, to) ==
    [i \in 0 .. RingSize - 1 |->
        LET k == get_data_len(from, i + 1)
        IN  IF k < get_data_len(from, to)
            THEN hal_RxBuffer[Mask(i + 1)]
            ELSE hal_RxBuffer[i]]

\* What buf receives: the ring from the start of the packet to before `end`.
PacketBytes(ring, start, end) ==
    [i \in 1 .. end - start |-> ring[Mask(start + i - 1)]]

-----------------------------------------------------------------------------
(* One byte of HAL_Local_ExtractOnePacket, by state.                       *)

SyncHead ==
    /\ MoreBytes
    /\ gu8LocalHalStatus \in {HEAD1, HEAD2}
    /\ \/ /\ gu8LocalHalStatus = HEAD1
          /\ IF rxByte = FF
             THEN /\ gu8LocalHalStatus' = HEAD2
                  /\ guiLocalPacketStart' = pos_start
             ELSE UNCHANGED <<gu8LocalHalStatus, guiLocalPacketStart>>
       \/ /\ gu8LocalHalStatus = HEAD2
          /\ gu8LocalHalStatus' = IF rxByte = FF THEN DATALEN1 ELSE HEAD1
          /\ UNCHANGED guiLocalPacketStart
    /\ pos_start' = pos_start + 1
    /\ UNCHANGED <<lineVars, extracting, hal_RxBuffer, pos_current,
                   halRecKeyWord, gu16LocalPacketDataLen, sent, delivered>>

\* The value v has been read from inside a frame; the next byte is at
\* pos_start'.  The packet leaves when its length is used up, and the status
\* stays DATA: the head of the next frame is found as an FF FF inside it.
TakeByte(v) ==
    \/ /\ gu8LocalHalStatus = DATALEN1
       /\ gu16LocalPacketDataLen' = v * ByteRadix
       /\ gu8LocalHalStatus' = DATALEN2
       /\ UNCHANGED delivered
    \/ /\ gu8LocalHalStatus = DATALEN2
       /\ gu16LocalPacketDataLen' = gu16LocalPacketDataLen + v
       /\ gu8LocalHalStatus' =
             IF gu16LocalPacketDataLen' = 0 THEN HEAD1 ELSE DATA
       /\ UNCHANGED <<guiLocalPacketStart, delivered>>
    \/ /\ gu8LocalHalStatus = DATA
       /\ gu16LocalPacketDataLen' = (gu16LocalPacketDataLen - 1) % U16
       /\ IF gu16LocalPacketDataLen' = 0
          THEN /\ delivered' = Append(delivered,
                      PacketBytes(hal_RxBuffer', guiLocalPacketStart, pos_start'))
               /\ guiLocalPacketStart' = pos_start'
          ELSE UNCHANGED <<guiLocalPacketStart, delivered>>
       /\ UNCHANGED gu8LocalHalStatus

InFrame == MoreBytes /\ gu8LocalHalStatus \in {DATALEN1, DATALEN2, DATA}

PlainByte ==
    /\ InFrame /\ ~halRecKeyWord /\ rxByte # FF
    /\ pos_start' = pos_start + 1
    /\ UNCHANGED <<hal_RxBuffer, pos_current, halRecKeyWord>>
    /\ gu8LocalHalStatus = DATALEN1 => UNCHANGED guiLocalPacketStart
    /\ TakeByte(rxByte)
    /\ UNCHANGED <<lineVars, extracting, sent>>

FirstFF ==
    /\ InFrame /\ ~halRecKeyWord /\ rxByte = FF
    /\ halRecKeyWord' = TRUE
    /\ pos_start' = pos_start + 1
    /\ UNCHANGED <<lineVars, extracting, hal_RxBuffer, pos_current,
                   gu8LocalHalStatus, gu16LocalPacketDataLen,
                   guiLocalPacketStart, sent, delivered>>

\* Faulty: the 55 is squeezed out and stepped over as well.
SqueezedAndStepped ==
    /\ InFrame /\ halRecKeyWord /\ rxByte = ESC
    /\ halRecKeyWord' = FALSE
    /\ hal_RxBuffer' = HAL_Move_Data_Backward(pos_start + 1, pos_current)
    /\ pos_current' = pos_current - 1
    /\ pos_start' = pos_start + 1
    /\ gu8LocalHalStatus = DATALEN1 => UNCHANGED guiLocalPacketStart
    /\ TakeByte(FF)
    /\ UNCHANGED <<lineVars, extracting, sent>>

\* FF 55 stands for FF: the 55 is squeezed out of the ring.
StuffedFF ==
    /\ InFrame /\ halRecKeyWord /\ rxByte = ESC
    /\ halRecKeyWord' = FALSE
    /\ hal_RxBuffer' = HAL_Move_Data_Backward(pos_start + 1, pos_current)
    /\ pos_current' = pos_current - 1
    /\ pos_start' = pos_start
    /\ gu8LocalHalStatus = DATALEN1 => UNCHANGED guiLocalPacketStart
    /\ TakeByte(FF)
    /\ UNCHANGED <<lineVars, extracting, sent>>

\* Faulty: inside a frame FF FF is data like any other.
HeadIsData ==
    /\ InFrame /\ halRecKeyWord /\ rxByte = FF
    /\ halRecKeyWord' = FALSE
    /\ pos_start' = pos_start + 1
    /\ UNCHANGED <<lineVars, extracting, hal_RxBuffer, pos_current,
                   gu8LocalHalStatus, guiLocalPacketStart,
                   gu16LocalPacketDataLen, sent, delivered>>

\* FF FF is the head of another frame, whatever was expected.
HeadInFrame ==
    /\ InFrame /\ halRecKeyWord /\ rxByte = FF
    /\ halRecKeyWord' = FALSE
    /\ gu8LocalHalStatus' = DATALEN1
    /\ guiLocalPacketStart' = pos_start - 1
    /\ pos_start' = pos_start + 1
    /\ UNCHANGED <<lineVars, extracting, hal_RxBuffer, pos_current,
                   gu16LocalPacketDataLen, sent, delivered>>

\* FF and neither: after a head, the FF was its second byte; elsewhere the
\* frame is given up.
OtherAfterFF ==
    /\ InFrame /\ halRecKeyWord /\ rxByte \notin {ESC, FF}
    /\ halRecKeyWord' = FALSE
    /\ pos_start' = pos_start + 1
    /\ IF gu8LocalHalStatus = DATALEN1
       THEN guiLocalPacketStart' = pos_start - 2 /\ TakeByte(rxByte)
       ELSE /\ gu8LocalHalStatus' = HEAD1
            /\ UNCHANGED <<gu16LocalPacketDataLen, guiLocalPacketStart,
                           delivered>>
    /\ UNCHANGED <<lineVars, extracting, hal_RxBuffer, pos_current, sent>>

Drained ==
    /\ extracting /\ ~MoreBytes
    /\ extracting' = FALSE
    /\ UNCHANGED <<lineVars, ringVars, parseVars, sent, delivered>>

McuNext ==
    \/ \E b \in Bodies : McuSends(b) \/ McuSendsDamaged(b)
    \/ Arrive
    \/ Hal_Rcv_Data_Handle
    \/ SyncHead \/ PlainByte \/ FirstFF \/ StuffedFF \/ HeadInFrame
    \/ OtherAfterFF \/ Drained

McuSpec == McuInit /\ [][McuNext]_mcuVars

-----------------------------------------------------------------------------
(* Properties.                                                             *)

\* Types of the ring's positions and of the parser's state; the parser never
\* steps past what was read, though it takes bytes back out of the ring
\* (hal_uart.c:34-39, 290-300).
McuTypeOK ==
    /\ line \in Seq(Byte) /\ fifo \in Seq(Byte) /\ Len(fifo) <= FifoCap
    /\ armed \in BOOLEAN /\ event \in BOOLEAN /\ extracting \in BOOLEAN
    /\ hal_RxBuffer \in [0 .. RingSize - 1 -> Byte]
    /\ pos_start \in Nat /\ pos_current \in Nat
    /\ pos_start <= pos_current /\ pos_current - pos_start < RingSize
    /\ gu8LocalHalStatus \in HEAD1 .. DATA
    /\ halRecKeyWord \in BOOLEAN
    /\ gu16LocalPacketDataLen \in 0 .. U16 - 1
    /\ guiLocalPacketStart \in Nat

Expected(frames) ==
    [i \in 1 .. Len(frames) |-> <<FF, FF>> \o Content(frames[i].body)]

\* On a clean line the packets handed on are the frames sent, in order and
\* byte for byte: across the end of the ring, across any split into reads,
\* and with the stuffing taken out in place (hal_uart.c:259-374).
FramesExact ==
    (\A i \in DOMAIN sent : sent[i].intact)
        => IsPrefix(delivered, Expected(sent))

\* Whatever a damaged frame left in the parser, an intact frame after it is
\* delivered: once the line is drained the last packet is the last frame
\* (hal_uart.c:301-320, the head found inside a frame).
Resynchronises ==
    (/\ line = <<>> /\ fifo = <<>> /\ ~extracting /\ sent # <<>>
     /\ Last(sent).intact)
        => /\ delivered # <<>>
           /\ Last(delivered) = Last(Expected(sent))

=============================================================================
