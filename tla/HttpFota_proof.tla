--------------------------- MODULE HttpFota_proof ---------------------------
(***************************************************************************)
(* Proofs about the update over HTTP.                                      *)
(*                                                                         *)
(* The read callback has its buffer while it runs, never starts a pass in  *)
(* which it can neither receive nor return, and leaves a timer running     *)
(* when it waits.  HttpInv adds to these three what holds between two      *)
(* callbacks: the buffer and the socket go together, the flag of the timer *)
(* is down while a callback runs, a DNS answer meets an upgrade that has   *)
(* nothing received (LookupInv), and a body that is waited for has room    *)
(* (RoomInv).                                                              *)
(*                                                                         *)
(* An image that is accepted is the body of the response, whole and in     *)
(* order.  The response is on its way in three places: what the server     *)
(* still sends, what the socket holds and what the receive buffer holds.   *)
(* The invariant says that they are adjacent parts of the response that    *)
(* begin where the reader has come to: at the start of a header line       *)
(* (AtLine), or in the body, where the image region holds the part before  *)
(* (InBody).                                                               *)
(***************************************************************************)
EXTENDS HttpFota, SequenceTheorems, TLAPS

HttpTyping ==
    /\ buf \in Seq(Units) /\ net \in Seq(Units) /\ toSend \in Seq(Units)
    /\ Len(buf) <= BufSize
    /\ lookups \in Nat
    /\ held \in BOOLEAN /\ bpeersocketclose \in BOOLEAN
    /\ timerOn \in BOOLEAN /\ httpGettimerstate \in BOOLEAN
    /\ overlapped \in BOOLEAN

ReadInv ==
    /\ at # "idle" => held /\ ~httpGettimerstate
    /\ held => ~bpeersocketclose
    /\ told = "running" /\ at = "idle" /\ held => timerOn

LookupInv ==
    lookups > 0 => /\ lookups = 1
                   /\ ~held /\ ContentLength = 0 /\ buf = <<>>

RoomInv ==
    /\ at = "body" => Len(buf) < BufSize
    /\ at = "idle" /\ held /\ ContentLength \notin {0, Chunked}
         => Len(buf) < BufSize

HttpInv ==
    /\ HttpTyping
    /\ ReadInv
    /\ ~overlapped => LookupInv /\ RoomInv

LEMMA BufSizeType == BufSize \in Nat /\ BufSize > 1
  BY HttpFotaAssumption, SMT

LEMMA ArraySeq ==
    ASSUME NEW n \in Nat, NEW S, NEW f \in [1..n -> S]
    PROVE  f \in Seq(S)
  BY SMT

\* What the server sends of the head.
HeadUnits(r) == [i \in 1..2 * Len(Lines(r)) |-> <<Lines(r)[(i + 1) \div 2], i % 2>>]

LEMMA HeadType == ASSUME NEW r \in Responses PROVE HeadUnits(r) \in Seq(Units)
  <1> DEFINE Words == {"100", "200", "302", "404", "length", "zero", "chunked",
                       "long", "blank", "body"}
  <1>0. BodyLen \in Nat /\ BodyLen > 0
    BY HttpFotaAssumption, SMT
  <1>1. Lines(r) \in Seq(Words)
    <2>1. r \in {"ok", "continue", "noLength", "chunked", "notFound", "moved",
                 "empty", "longLine"}
      BY HttpFotaAssumption
    <2>2. CASE r = "ok"
      BY <2>2, SMT DEF Lines
    <2>3. CASE r = "continue"
      BY <2>3, SMT DEF Lines
    <2>4. CASE r = "noLength"
      BY <2>4, SMT DEF Lines
    <2>5. CASE r = "chunked"
      BY <2>5, SMT DEF Lines
    <2>6. CASE r = "notFound"
      BY <2>6, SMT DEF Lines
    <2>7. CASE r = "moved"
      BY <2>7, SMT DEF Lines
    <2>8. CASE r = "empty"
      BY <2>8, SMT DEF Lines
    <2>9. CASE r = "longLine"
      BY <2>9, SMT DEF Lines
    <2> QED
      BY <2>1, <2>2, <2>3, <2>4, <2>5, <2>6, <2>7, <2>8, <2>9
  <1>2. HeadUnits(r) \in Seq(Units)
    <2> DEFINE n == 2 * Len(Lines(r))
    <2>1. n \in Nat
      BY <1>1, SMT
    <2>2. ASSUME NEW i \in 1..n
          PROVE  Lines(r)[(i + 1) \div 2] \in Words /\ i % 2 \in 0..BodyLen
      <3>1. (i + 1) \div 2 \in 1..Len(Lines(r))
        BY <1>1, SMT
      <3>2. Lines(r)[(i + 1) \div 2] \in Words
        BY <1>1, <3>1, ElementOfSeq
      <3>3. i % 2 \in 0..BodyLen
        BY <1>0, SMT
      <3> QED
        BY <3>2, <3>3
    <2>3. [i \in 1..n |-> <<Lines(r)[(i + 1) \div 2], i % 2>>] \in [1..n -> Units]
      BY <2>2 DEF Units
    <2> HIDE DEF n
    <2>4. [i \in 1..n |-> <<Lines(r)[(i + 1) \div 2], i % 2>>] \in Seq(Units)
      BY <2>1, <2>3, ArraySeq
    <2> QED
      BY <2>4 DEF n, HeadUnits
  <1> QED
    BY <1>2

\* A response is a sequence of units.
LEMMA StreamType == ASSUME NEW r \in Responses PROVE Stream(r) \in Seq(Units)
  <1>1. Body(r) \in Seq(Units)
    <2> DEFINE n == IF r = "empty" THEN 0 ELSE BodyLen
    <2>1. n \in Nat /\ \A i \in 1..n : i \in 0..BodyLen
      BY HttpFotaAssumption, SMT
    <2>2. Body(r) \in [1..n -> Units]
      BY <2>1 DEF Body, Units
    <2> HIDE DEF n
    <2> QED
      BY <2>1, <2>2, ArraySeq
  <1>2. Stream(r) = HeadUnits(r) \o Body(r)
    BY DEF Stream, HeadUnits
  <1> QED
    BY <1>1, <1>2, HeadType, ConcatProperties

LEMMA HttpInit == Init => HttpInv
  <1> SUFFICES ASSUME Init PROVE HttpInv
    OBVIOUS
  <1>1. /\ ~held /\ ~timerOn /\ ~bpeersocketclose
        /\ held \in BOOLEAN /\ timerOn \in BOOLEAN /\ overlapped \in BOOLEAN
        /\ bpeersocketclose \in BOOLEAN /\ httpGettimerstate \in BOOLEAN
    BY DEF Init
  <1>2. /\ at = "idle" /\ lookups = 0 /\ buf = <<>> /\ net = <<>>
        /\ toSend = <<>> /\ told = "none"
    BY DEF Init
  <1>3. /\ buf \in Seq(Units) /\ net \in Seq(Units) /\ toSend \in Seq(Units)
        /\ Len(buf) <= BufSize /\ lookups \in Nat /\ ~(lookups > 0)
    BY <1>2, BufSizeType, SMT
  <1> QED
    BY <1>1, <1>2, <1>3 DEF HttpInv, HttpTyping, ReadInv, LookupInv, RoomInv

\* What a start leaves behind when it requests nothing at once.
LEMMA HttpStart == ASSUME HttpInv, Start PROVE HttpInv'
  <1>0. /\ at = "idle" /\ told # "running"
        /\ overlapped' = (overlapped \/ lookups > 0) /\ overlapped' \in BOOLEAN
        /\ (~overlapped' => lookups = 0)
        /\ HttpTyping
    <2>1. HttpTyping
      BY DEF HttpInv
    <2>2. MayStart
      BY DEF Start, StartRefused, NoGprs, StartByAddress, StartByName
    <2>3. /\ at = "idle" /\ told # "running"
          /\ overlapped' = (overlapped \/ lookups > 0)
      BY <2>2 DEF MayStart
    <2>4. lookups > 0 \/ lookups = 0
      BY <2>1, SMT DEF HttpTyping
    <2> QED
      BY <2>1, <2>3, <2>4
  <1>1. CASE StartRefused \/ NoGprs
    <2>1. /\ told' = "failed"
          /\ UNCHANGED <<lookups, toSend, net, bpeersocketclose, held, buf, at,
                         timerOn, httpGettimerstate, ContentLength>>
      BY <1>1 DEF StartRefused, NoGprs, netVars, bufferVars, timerVars,
                  bodyVars
    <2>2. HttpTyping' /\ ReadInv'
      BY <1>0, <2>1 DEF HttpInv, HttpTyping, ReadInv
    <2>3. ~overlapped' => LookupInv' /\ RoomInv'
      BY <1>0, <2>1 DEF HttpInv, LookupInv, RoomInv
    <2> QED
      BY <2>2, <2>3 DEF HttpInv
  <1>2. CASE StartByAddress
    <2>1. /\ at' = "idle" /\ lookups' = lookups /\ buf' = <<>>
          /\ ContentLength' = 0
      BY <1>0, <1>2 DEF StartByAddress, http_initialize
    <2>2. \/ /\ told' = "failed" /\ ~held' /\ held' \in BOOLEAN
             /\ httpGettimerstate' \in BOOLEAN
             /\ net' = <<>> /\ toSend' = <<>>
             /\ timerOn' = timerOn
             /\ bpeersocketclose' \in {bpeersocketclose, TRUE}
          \/ /\ held' /\ held' \in BOOLEAN
             /\ httpGettimerstate' \in BOOLEAN
             /\ timerOn' /\ timerOn' \in BOOLEAN
             /\ ~bpeersocketclose' /\ bpeersocketclose' \in BOOLEAN
             /\ net' = <<>> /\ \E r \in Responses : toSend' = Stream(r)
      <3>1. CASE http_initialize /\ ConnectFailed /\ NoConnection
        BY <3>1 DEF http_initialize, ConnectFailed, NoConnection
      <3>2. CASE http_initialize /\ RequestFailed
        BY <3>2 DEF http_initialize, RequestFailed, NoConnection
      <3>3. CASE Requested /\ held' = TRUE /\ httpGettimerstate' = TRUE
        BY <3>3 DEF Requested
      <3> QED
        BY <1>2, <3>1, <3>2, <3>3 DEF StartByAddress
    <2>3. /\ buf' \in Seq(Units) /\ net' \in Seq(Units)
          /\ toSend' \in Seq(Units) /\ Len(buf') < BufSize
          /\ Len(buf') <= BufSize
      <3>1. net' \in Seq(Units) /\ toSend' \in Seq(Units)
        BY <2>2, StreamType, EmptySeq
      <3>2. buf' \in Seq(Units) /\ Len(buf') = 0
        BY <2>1, EmptySeq
      <3> QED
        BY <3>1, <3>2, BufSizeType, SMT
    <2>4. HttpTyping'
      BY <1>0, <2>1, <2>2, <2>3 DEF HttpTyping
    <2>5. ReadInv'
      BY <2>1, <2>2 DEF ReadInv
    <2>6. ~overlapped' => LookupInv' /\ RoomInv'
      <3>1. ~(0 > 0)
        BY SMT
      <3> QED
        BY <1>0, <2>1, <2>3, <3>1 DEF LookupInv, RoomInv
    <2> QED
      BY <2>4, <2>5, <2>6 DEF HttpInv
  <1>3. CASE StartByName
    <2>1. /\ at' = "idle" /\ buf' = <<>> /\ ContentLength' = 0
          /\ net' = <<>> /\ toSend' = <<>>
          /\ ~held' /\ held' \in BOOLEAN /\ httpGettimerstate' \in BOOLEAN
          /\ timerOn' = timerOn /\ bpeersocketclose' = bpeersocketclose
          /\ lookups' \in {lookups, lookups + 1}
      BY <1>0, <1>3 DEF StartByName, http_initialize, NoConnection
    <2>2. /\ buf' \in Seq(Units) /\ net' \in Seq(Units)
          /\ toSend' \in Seq(Units) /\ Len(buf') <= BufSize
      BY <2>1, BufSizeType, EmptySeq, SMT
    <2>3. lookups' \in Nat /\ (lookups = 0 => lookups' \in {0, 1})
      BY <1>0, <2>1, SMT DEF HttpTyping
    <2>4. HttpTyping' /\ ReadInv'
      BY <1>0, <2>1, <2>2, <2>3 DEF HttpTyping, ReadInv
    <2>5. ~overlapped' => LookupInv' /\ RoomInv'
      <3>1. ASSUME ~overlapped' PROVE lookups' > 0 => lookups' = 1
        BY <1>0, <2>3, <3>1, SMT
      <3> QED
        BY <2>1, <3>1 DEF LookupInv, RoomInv
    <2> QED
      BY <2>4, <2>5 DEF HttpInv
  <1> QED
    BY <1>1, <1>2, <1>3 DEF Start

\* The answer to a lookup.
LEMMA HttpLookup == ASSUME HttpInv, Callback_GetIpByHostName PROVE HttpInv'
  <1>1. /\ at = "idle" /\ at' = at /\ lookups > 0 /\ lookups' = lookups - 1
        /\ UNCHANGED <<overlapped, buf, ContentLength>>
    BY DEF Callback_GetIpByHostName, runVars, bodyVars
  <1>2. \/ /\ told' = "failed"
           /\ UNCHANGED <<held, net, toSend, timerOn, httpGettimerstate,
                          bpeersocketclose>>
        \/ /\ told' = "failed" /\ ~held' /\ held' \in BOOLEAN
           /\ UNCHANGED <<timerOn, httpGettimerstate>>
           /\ net' = <<>> /\ toSend' = <<>> /\ bpeersocketclose' \in BOOLEAN
        \/ /\ held' \in BOOLEAN /\ timerOn' /\ timerOn' \in BOOLEAN
           /\ httpGettimerstate' \in BOOLEAN
           /\ ~bpeersocketclose' /\ bpeersocketclose' \in BOOLEAN
           /\ net' = <<>> /\ \E r \in Responses : toSend' = Stream(r)
    <2>1. CASE ConnectFailed /\ UNCHANGED <<netVars, held, httpGettimerstate>>
      BY <2>1 DEF ConnectFailed, netVars
    <2>2. CASE RequestFailed /\ held' = FALSE /\ UNCHANGED httpGettimerstate
      BY <2>2 DEF RequestFailed, NoConnection
    <2>3. CASE Requested /\ held' = TRUE /\ httpGettimerstate' = TRUE
      BY <2>3 DEF Requested
    <2> QED
      BY <2>1, <2>2, <2>3 DEF Callback_GetIpByHostName
  <1>3. HttpTyping'
    <2>1. lookups' \in Nat
      BY <1>1, SMT DEF HttpInv, HttpTyping
    <2>2. net' \in Seq(Units) /\ toSend' \in Seq(Units)
      BY <1>2, StreamType, EmptySeq DEF HttpInv, HttpTyping
    <2> QED
      BY <1>1, <1>2, <2>1, <2>2 DEF HttpInv, HttpTyping
  <1>4. ReadInv'
    BY <1>1, <1>2 DEF HttpInv, ReadInv
  <1>5. ~overlapped' => LookupInv' /\ RoomInv'
    <2>1. SUFFICES ASSUME ~overlapped PROVE LookupInv' /\ RoomInv'
      BY <1>1
    <2>2. lookups = 1 /\ ContentLength = 0
      BY <1>1, <2>1 DEF HttpInv, LookupInv
    <2>3. ~(lookups' > 0)
      BY <1>1, <2>2, SMT
    <2> QED
      BY <1>1, <2>2, <2>3 DEF LookupInv, RoomInv
  <1> QED
    BY <1>3, <1>4, <1>5 DEF HttpInv

\* The parts of a sequence are sequences.
LEMMA Parts ==
    ASSUME NEW s \in Seq(Units), NEW m \in Nat, NEW n \in Nat,
           m >= 1, n <= Len(s)
    PROVE  /\ SubSeq(s, m, n) \in Seq(Units)
           /\ Len(SubSeq(s, m, n)) = IF m <= n THEN n - m + 1 ELSE 0
  <1>1. \A i \in m..n : s[i] \in Units
    BY SMT
  <1> QED
    BY <1>1, SubSeqProperties, SMT

\* Receiving n units that fit.
LEMMA Receive ==
    ASSUME HttpTyping, NEW n \in 1..Len(net), Fits(n)
    PROVE  /\ buf \o SubSeq(net, 1, n) \in Seq(Units)
           /\ Len(buf \o SubSeq(net, 1, n)) <= BufSize
           /\ SubSeq(net, n + 1, Len(net)) \in Seq(Units)
  <1>1. /\ n \in Nat /\ n + 1 \in Nat /\ Len(net) \in Nat /\ n >= 1
        /\ n + 1 >= 1 /\ n <= Len(net) /\ 1 \in Nat /\ Len(buf) \in Nat
    BY SMT DEF HttpTyping
  <1>2. /\ SubSeq(net, 1, n) \in Seq(Units) /\ Len(SubSeq(net, 1, n)) = n
        /\ SubSeq(net, n + 1, Len(net)) \in Seq(Units)
    <2>1. SubSeq(net, 1, n) \in Seq(Units)
          /\ Len(SubSeq(net, 1, n)) = IF 1 <= n THEN n - 1 + 1 ELSE 0
      BY <1>1, Parts, SMT DEF HttpTyping
    <2>2. Len(SubSeq(net, 1, n)) = n
      BY <1>1, <2>1, SMT
    <2>3. SubSeq(net, n + 1, Len(net)) \in Seq(Units)
      BY <1>1, Parts, SMT DEF HttpTyping
    <2> QED
      BY <2>1, <2>2, <2>3
  <1>3. /\ buf \o SubSeq(net, 1, n) \in Seq(Units)
        /\ Len(buf \o SubSeq(net, 1, n)) = Len(buf) + Len(SubSeq(net, 1, n))
    BY <1>2, ConcatProperties DEF HttpTyping
  <1>4. Len(buf) + n <= BufSize
    BY <1>1, BufSizeType, SMT DEF Fits
  <1> QED
    BY <1>2, <1>3, <1>4

\* Data and a close arrive.
LEMMA HttpNetwork == ASSUME HttpInv, Arrive \/ PeerCloses PROVE HttpInv'
  <1>1. UNCHANGED <<told, lookups, overlapped, bpeersocketclose, held, buf, at,
                    timerOn, httpGettimerstate, ContentLength>>
    BY DEF Arrive, PeerCloses, runVars, bufferVars, timerVars, bodyVars
  <1>2. net' \in Seq(Units) /\ toSend' \in Seq(Units)
    <2>1. CASE Arrive
      <3>1. PICK n \in 1..Len(toSend) :
                /\ net' = net \o SubSeq(toSend, 1, n)
                /\ toSend' = SubSeq(toSend, n + 1, Len(toSend))
        BY <2>1 DEF Arrive
      <3>2. toSend \in Seq(Units) /\ net \in Seq(Units)
        BY DEF HttpInv, HttpTyping
      <3>3. /\ n \in Nat /\ n + 1 \in Nat /\ Len(toSend) \in Nat
            /\ n + 1 >= 1 /\ n <= Len(toSend) /\ 1 \in Nat /\ 1 >= 1
            /\ Len(toSend) <= Len(toSend)
        BY <3>2, SMT
      <3>4. /\ SubSeq(toSend, 1, n) \in Seq(Units)
            /\ SubSeq(toSend, n + 1, Len(toSend)) \in Seq(Units)
        BY <3>2, <3>3, Parts
      <3> QED
        BY <3>1, <3>2, <3>4, ConcatProperties
    <2>2. CASE PeerCloses
      BY <2>2, EmptySeq DEF PeerCloses, HttpInv, HttpTyping
    <2> QED
      BY <2>1, <2>2
  <1> QED
    BY <1>1, <1>2
    DEF HttpInv, HttpTyping, ReadInv, LookupInv, RoomInv

\* A step after which the buffer is freed and no callback runs.
LEMMA HttpGone ==
    ASSUME HttpInv, at' = "idle", ~held', held' \in BOOLEAN,
           UNCHANGED <<lookups, overlapped, toSend>>,
           buf' \in Seq(Units), Len(buf') <= BufSize, net' \in Seq(Units),
           bpeersocketclose' \in BOOLEAN, timerOn' \in BOOLEAN,
           httpGettimerstate' \in BOOLEAN,
           \/ at # "idle"
           \/ UNCHANGED <<ContentLength, buf>>
    PROVE  HttpInv'
  <1>1. HttpTyping' /\ ReadInv'
    BY DEF HttpInv, HttpTyping, ReadInv
  <1>2. ~overlapped => LookupInv' /\ RoomInv'
    BY DEF HttpInv, LookupInv, RoomInv, ReadInv
  <1> QED
    BY <1>1, <1>2 DEF HttpInv

\* The callback begins, or fails at once; the timer expires.
LEMMA HttpEvent ==
    ASSUME HttpInv, ReadError \/ SocketRead \/ http_TimerCallback
    PROVE  HttpInv'
  <1>1. CASE ReadError
    <2>1. /\ at' = "idle" /\ ~held' /\ held' \in BOOLEAN
          /\ UNCHANGED <<lookups, overlapped, toSend, net, buf, timerOn,
                         bpeersocketclose, httpGettimerstate, ContentLength>>
      BY <1>1 DEF ReadError, Abandon, netVars, timerVars, bodyVars
    <2> QED
      BY <2>1, HttpGone DEF HttpInv, HttpTyping
  <1>2. CASE http_TimerCallback
    <2>1. /\ at' = "idle" /\ ~held' /\ held' \in BOOLEAN
          /\ timerOn' \in BOOLEAN /\ httpGettimerstate' \in BOOLEAN
          /\ UNCHANGED <<lookups, overlapped, toSend, net, buf,
                         bpeersocketclose, ContentLength>>
      BY <1>2 DEF http_TimerCallback, netVars, runVars, bodyVars
    <2> QED
      BY <2>1, HttpGone DEF HttpInv, HttpTyping
  <1>3. CASE SocketRead
    <2>1. /\ at = "idle" /\ held
          /\ at' = CASE ContentLength = 0 -> "head"
                     [] ContentLength = Chunked -> "chunked"
                     [] OTHER -> "body"
          /\ UNCHANGED <<lookups, overlapped, toSend, net, held, buf,
                         bpeersocketclose, ContentLength>>
      BY <1>3 DEF SocketRead, BufferPresent, netVars, bufferVars, bodyVars
    <2>2. /\ timerOn' \in BOOLEAN /\ httpGettimerstate' \in BOOLEAN
          /\ ~httpGettimerstate'
      BY <1>3
      DEF SocketRead, StopTimer, timerVars, HttpInv, HttpTyping
    <2>3. /\ at' # "idle"
          /\ at' = "body" => ContentLength \notin {0, Chunked}
      BY <2>1
    <2>4. HttpTyping' /\ ReadInv'
      BY <2>1, <2>2, <2>3 DEF HttpInv, HttpTyping, ReadInv
    <2>5. ~overlapped' => LookupInv' /\ RoomInv'
      BY <2>1, <2>3 DEF HttpInv, LookupInv, RoomInv
    <2> QED
      BY <2>4, <2>5 DEF HttpInv
  <1> QED
    BY <1>1, <1>2, <1>3

\* The steps that end the callback.
LEMMA HttpReadEnds ==
    ASSUME HttpInv,
           \/ PeerClosed \/ HeadStuck \/ HeadRefused \/ ChunkedBody
           \/ WriteFailed \/ Complete
    PROVE  HttpInv'
  <1> USE DEF netVars, runVars, timerVars
  <1>0. HttpTyping
    BY DEF HttpInv
  <1>1. /\ at # "idle" /\ at' = "idle" /\ ~held' /\ held' \in BOOLEAN
        /\ bpeersocketclose' \in {bpeersocketclose, TRUE}
        /\ UNCHANGED <<lookups, overlapped, toSend, timerOn,
                       httpGettimerstate>>
    BY DEF PeerClosed, OnSocClose, HeadStuck, HeadRefused, ChunkedBody,
           WriteFailed, Complete, Abandon
  <1>2. /\ buf' \in Seq(Units) /\ Len(buf') <= BufSize
        /\ net' \in Seq(Units)
    <2>1. CASE PeerClosed \/ HeadStuck \/ ChunkedBody \/ Complete
      BY <1>0, <2>1 DEF PeerClosed, HeadStuck, ChunkedBody, Complete, HttpTyping
    <2>2. CASE HeadRefused
      <3>1. buf' = SubSeq(buf, 3, Len(buf)) /\ net' = net
        BY <2>2 DEF HeadRefused
      <3>2. /\ Len(buf) \in Nat /\ 3 \in Nat /\ 3 >= 1
            /\ Len(buf) <= Len(buf)
        BY <1>0, SMT DEF HttpTyping
      <3>3. /\ buf' \in Seq(Units)
            /\ Len(buf') = IF 3 <= Len(buf) THEN Len(buf) - 3 + 1 ELSE 0
        BY <1>0, <3>1, <3>2, Parts DEF HttpTyping
      <3>4. Len(buf') <= BufSize
        BY <1>0, <3>2, <3>3, BufSizeType, SMT DEF HttpTyping
      <3> QED
        BY <1>0, <3>1, <3>3, <3>4 DEF HttpTyping
    <2>3. CASE WriteFailed
      BY <1>0, <2>3, Receive DEF WriteFailed
    <2> QED
      BY <2>1, <2>2, <2>3
  <1> QED
    BY <1>0, <1>1, <1>2, HttpGone DEF HttpTyping

\* A step within a callback: the callback goes on with its buffer.
LEMMA HttpGoesOn ==
    ASSUME HttpInv, at # "idle", at' # "idle",
           UNCHANGED <<lookups, overlapped, toSend, held, bpeersocketclose,
                       timerOn, httpGettimerstate>>,
           buf' \in Seq(Units), Len(buf') <= BufSize, net' \in Seq(Units),
           at' = "body" => Len(buf') < BufSize
    PROVE  HttpInv'
  <1>1. HttpTyping' /\ ReadInv'
    BY DEF HttpInv, HttpTyping, ReadInv
  <1>2. ~overlapped => LookupInv' /\ RoomInv'
    BY DEF HttpInv, LookupInv, RoomInv, ReadInv
  <1> QED
    BY <1>1, <1>2 DEF HttpInv

\* A line that is consumed makes room.
LEMMA LineConsumed ==
    ASSUME HttpTyping, WholeLine, buf' = SubSeq(buf, 3, Len(buf))
    PROVE  buf' \in Seq(Units) /\ Len(buf') < BufSize /\ Len(buf') <= BufSize
  <1>1. /\ Len(buf) \in Nat /\ 3 \in Nat /\ 3 >= 1 /\ Len(buf) <= Len(buf)
        /\ Len(buf) <= BufSize /\ Len(buf) >= 2
    BY SMT DEF HttpTyping, WholeLine
  <1>2. /\ buf' \in Seq(Units)
        /\ Len(buf') = IF 3 <= Len(buf) THEN Len(buf) - 3 + 1 ELSE 0
    BY <1>1, Parts DEF HttpTyping
  <1>3. Len(buf') < BufSize /\ Len(buf') <= BufSize
    BY <1>1, <1>2, BufSizeType, SMT
  <1> QED
    BY <1>2, <1>3

\* The steps after which the callback goes on.
LEMMA HttpReadGoesOn ==
    ASSUME HttpInv,
           \/ HeadData \/ DecodeLine \/ DataAbsent \/ HeadAccepted
           \/ BodyData
    PROVE  HttpInv'
  <1> USE DEF netVars, runVars, timerVars, bufferVars
  <1>0. HttpTyping
    BY DEF HttpInv
  <1>1. CASE HeadData
    <2>1. /\ at = "head" /\ at' = "decode"
          /\ UNCHANGED <<lookups, overlapped, toSend, held, bpeersocketclose,
                         timerOn, httpGettimerstate>>
      BY <1>1 DEF HeadData
    <2>2. /\ buf' \in Seq(Units) /\ Len(buf') <= BufSize
          /\ net' \in Seq(Units)
      BY <1>0, <1>1, Receive DEF HeadData
    <2> QED
      BY <2>1, <2>2, HttpGoesOn
  <1>2. CASE DecodeLine
    <2>1. /\ at = "decode" /\ at' = "decode" /\ net' = net
          /\ UNCHANGED <<lookups, overlapped, toSend, held, bpeersocketclose,
                         timerOn, httpGettimerstate>>
          /\ WholeLine /\ buf' = SubSeq(buf, 3, Len(buf))
      BY <1>2 DEF DecodeLine
    <2>2. buf' \in Seq(Units) /\ Len(buf') <= BufSize
      BY <1>0, <2>1, LineConsumed
    <2> QED
      BY <1>0, <2>1, <2>2, HttpGoesOn DEF HttpTyping
  <1>3. CASE DataAbsent
    <2>1. /\ at = "decode" /\ at' = "head"
          /\ UNCHANGED <<lookups, overlapped, toSend, held, bpeersocketclose,
                         timerOn, httpGettimerstate, net, buf>>
      BY <1>3 DEF DataAbsent
    <2> QED
      BY <1>0, <2>1, HttpGoesOn DEF HttpTyping
  <1>4. CASE HeadAccepted
    <2>1. /\ at = "decode" /\ at' \in {"chunked", "body"} /\ net' = net
          /\ UNCHANGED <<lookups, overlapped, toSend, held, bpeersocketclose,
                         timerOn, httpGettimerstate>>
          /\ WholeLine /\ buf' = SubSeq(buf, 3, Len(buf))
      BY <1>4 DEF HeadAccepted
    <2>2. /\ buf' \in Seq(Units) /\ Len(buf') <= BufSize
          /\ Len(buf') < BufSize
      BY <1>0, <2>1, LineConsumed
    <2> QED
      BY <1>0, <2>1, <2>2, HttpGoesOn DEF HttpTyping
  <1>5. CASE BodyData
    <2>1. /\ at = "body" /\ at' \in {"complete", "body"} /\ buf' = <<>>
          /\ UNCHANGED <<lookups, overlapped, toSend, held, bpeersocketclose,
                         timerOn, httpGettimerstate>>
      BY <1>5 DEF BodyData
    <2>2. net' \in Seq(Units)
      BY <1>0, <1>5, Receive DEF BodyData
    <2>3. buf' \in Seq(Units) /\ Len(buf') < BufSize /\ Len(buf') <= BufSize
      <3>1. buf' \in Seq(Units) /\ Len(buf') = 0
        BY <2>1, EmptySeq
      <3> QED
        BY <3>1, BufSizeType, SMT
    <2> QED
      BY <2>1, <2>2, <2>3, HttpGoesOn
  <1> QED
    BY <1>1, <1>2, <1>3, <1>4, <1>5

\* The callback returns to wait, with the timer running.
LEMMA HttpWait == ASSUME HttpInv, WouldBlock PROVE HttpInv'
  <1>1. /\ at # "idle" /\ at' = "idle" /\ Len(buf) < BufSize
        /\ timerOn' = (timerOn \/ ~httpGettimerstate)
        /\ UNCHANGED <<told, lookups, overlapped, toSend, net, held, buf,
                       bpeersocketclose, httpGettimerstate, ContentLength>>
    BY DEF WouldBlock, runVars, netVars, bufferVars, bodyVars
  <1>2. held /\ timerOn' /\ timerOn' \in BOOLEAN
    BY <1>1 DEF HttpInv, ReadInv, HttpTyping
  <1>3. HttpTyping' /\ ReadInv'
    BY <1>1, <1>2 DEF HttpInv, HttpTyping, ReadInv
  <1>4. ~overlapped' => LookupInv' /\ RoomInv'
    BY <1>1 DEF HttpInv, LookupInv, RoomInv
  <1> QED
    BY <1>3, <1>4 DEF HttpInv

\* HttpInv holds in every state.
THEOREM HttpInvariant == Spec => []HttpInv
  <1>1. HttpInv /\ [Next]_vars => HttpInv'
    <2>1. CASE UNCHANGED vars
      BY <2>1
      DEF vars, runVars, netVars, timerVars, bufferVars, bodyVars, imageVars,
          HttpInv, HttpTyping, ReadInv, LookupInv, RoomInv
    <2> QED
      BY <2>1, HttpStart, HttpLookup, HttpNetwork, HttpEvent, HttpReadEnds,
         HttpReadGoesOn, HttpWait
      DEF Next, ReadStep
  <1> QED
    BY <1>1, HttpInit, PTL DEF Spec

\* No callback runs without its receive buffer, whatever timeouts, errors,
\* restarts and events of old sockets come between two callbacks.
THEOREM HttpBufferHeld == Spec => []BufferHeld
  <1>1. HttpInv => BufferHeld
    BY DEF HttpInv, ReadInv, BufferHeld
  <1> QED
    BY <1>1, HttpInvariant, PTL

\* The body loop always can receive or return, for every size of the buffer
\* and of the image.
THEOREM HttpNeverSpins == Spec => []NeverSpins
  <1>1. HttpInv => NeverSpins
    BY DEF HttpInv, ReadInv, RoomInv, NeverSpins
  <1> QED
    BY <1>1, HttpInvariant, PTL

\* A download that waits for its server has a timer running.
THEOREM HttpWaitIsTimed == Spec => []WaitIsTimed
  <1>1. HttpInv => WaitIsTimed
    BY DEF HttpInv, ReadInv, WaitIsTimed
  <1> QED
    BY <1>1, HttpInvariant, PTL

-----------------------------------------------------------------------------
(* The type invariant.                                                     *)

LEMMA Bounds ==
    /\ BodyLen \in Nat /\ BodyLen > 0
    /\ BufSize \in Nat /\ BufSize > 1
    /\ MaxStarts \in Nat /\ MaxStale \in Nat
  BY HttpFotaAssumption, SMT

\* What the starts count: a DNS answer is due for a start.
CountType ==
    /\ starts \in 0..MaxStarts /\ staleEvents \in 0..MaxStale
    /\ lookups \in 0..MaxStarts /\ lookups <= starts
    /\ leftOpen \in BOOLEAN /\ overlapped \in BOOLEAN

HeaderType ==
    /\ httpheader \in [response : 0..4, length : {Chunked, 0, BodyLen},
                       exists : BOOLEAN]
    /\ ContentLength \in {Chunked, 0, BodyLen}
    /\ at = "body" => ContentLength # Chunked

ImageType ==
    /\ receivedbodydata \in Nat
    /\ flash \in Seq(Units) /\ fileDLpresentReport \in Nat

\* With HttpInv, which types the data and the flags, this gives TypeOK.
CallType ==
    /\ CountType
    /\ told \in Verdicts
    /\ resp \in Responses /\ peer \in {"none", "open", "closed"}
    /\ at \in {"idle", "head", "decode", "chunked", "body", "complete"}
    /\ finished \in BOOLEAN
    /\ HeaderType /\ ImageType

LEMMA TypeInit == Init => CallType
  <1> SUFFICES ASSUME Init PROVE CallType
    OBVIOUS
  <1>1. CountType
    <2>1. starts = 0 /\ staleEvents = 0 /\ lookups = 0
      BY DEF Init
    <2>2. leftOpen \in BOOLEAN /\ overlapped \in BOOLEAN
      BY DEF Init
    <2> QED
      BY <2>1, <2>2, Bounds DEF CountType
  <1>2. HeaderType
    <2>1. /\ httpheader = [response |-> 0, length |-> 0, exists |-> FALSE]
          /\ ContentLength = 0 /\ at = "idle"
      BY DEF Init
    <2> QED
      BY <2>1 DEF HeaderType
  <1>3. ImageType
    <2>1. receivedbodydata = 0 /\ flash = <<>> /\ fileDLpresentReport = 0
      BY DEF Init
    <2> QED
      BY <2>1, EmptySeq DEF ImageType
  <1>4. /\ told \in Verdicts /\ resp \in Responses
        /\ peer \in {"none", "open", "closed"}
        /\ at \in {"idle", "head", "decode", "chunked", "body", "complete"}
        /\ finished \in BOOLEAN
    BY DEF Init, Verdicts
  <1> QED
    BY <1>1, <1>2, <1>3, <1>4 DEF CallType

\* A percentage is a number.
LEMMA PercentType ==
    ASSUME NEW received \in Nat, ContentLength \in {0, BodyLen}
    PROVE  Percent(received) \in Nat
  <1>1. CASE ContentLength = 0
    BY <1>1 DEF Percent
  <1>2. CASE ContentLength = BodyLen
    <2> DEFINE a == 100 * received
               b == BodyLen
    <2>1. a \in Nat /\ b \in Nat /\ b > 0
      BY Bounds, SMT
    <2>2. a \div b \in Nat
      <3> HIDE DEF a, b
      <3> QED
        BY <2>1, SMT
    <2> QED
      BY <1>2, <2>1, <2>2 DEF Percent
  <1> QED
    BY <1>1, <1>2

\* The steps that touch neither the counts nor the header and the image.
LEMMA TypeKept ==
    ASSUME CallType,
           UNCHANGED <<runVars, lookups, httpheader, ContentLength,
                       receivedbodydata, flash, fileDLpresentReport>>,
           told' \in Verdicts, resp' \in Responses,
           peer' \in {"none", "open", "closed"},
           at' \in {"idle", "head", "decode", "chunked", "body", "complete"},
           at' = "body" => at = "body" \/ ContentLength # Chunked,
           finished' \in BOOLEAN
    PROVE  CallType'
  <1>1. CountType'
    BY DEF CallType, CountType, runVars
  <1>2. HeaderType'
    BY DEF CallType, HeaderType
  <1>3. ImageType'
    BY DEF CallType, ImageType
  <1> QED
    BY <1>1, <1>2, <1>3 DEF CallType

\* What a start leaves.
LEMMA TypeStart == ASSUME CallType, HttpInv', Start PROVE CallType'
  <1>1. MayStart
    BY DEF Start, StartRefused, NoGprs, StartByAddress, StartByName
  <1>2. /\ starts' \in 0..MaxStarts /\ starts' = starts + 1
        /\ staleEvents' \in 0..MaxStale /\ overlapped' \in BOOLEAN
    BY <1>1, Bounds DEF MayStart, CallType, CountType, HttpInv, HttpTyping
  <1>3. lookups' \in {lookups, lookups + 1}
    BY DEF Start, StartRefused, NoGprs, StartByAddress, StartByName
  <1>4. lookups' \in 0..MaxStarts /\ lookups' <= starts'
    BY <1>2, <1>3, Bounds DEF CallType, CountType
  <1>5. leftOpen' \in BOOLEAN
    BY DEF Start, StartRefused, NoGprs, StartByAddress, StartByName, LeaveSocket,
           CallType, CountType
  <1>6. CountType'
    BY <1>2, <1>4, <1>5 DEF CountType
  <1>7. at' = at /\ at = "idle" /\ httpheader' = httpheader
    BY <1>1 DEF MayStart, Start, StartRefused, NoGprs, StartByAddress, StartByName
  <1>8. /\ ContentLength' \in {ContentLength, 0}
        /\ receivedbodydata' \in {receivedbodydata, 0}
    BY DEF Start, StartRefused, NoGprs, StartByAddress, StartByName,
           http_initialize, bodyVars
  <1>9. /\ flash' \in {flash, <<>>}
        /\ fileDLpresentReport' \in {fileDLpresentReport, 0}
        /\ finished' \in {finished, FALSE}
    <2>1. CASE StartRefused
      BY <2>1, Zenon DEF StartRefused, imageVars
    <2>2. CASE NoGprs \/ StartByAddress \/ StartByName
      <3>1. Ql_FOTA_Init
        BY <2>2 DEF NoGprs, StartByAddress, StartByName
      <3> QED
        BY <3>1, Zenon DEF Ql_FOTA_Init
    <2> QED
      BY <2>1, <2>2 DEF Start
  <1>10. /\ told' \in Verdicts /\ resp' \in Responses
         /\ peer' \in {"none", "open", "closed"}
    <2> USE DEF CallType, Verdicts
    <2>1. CASE StartRefused \/ NoGprs
      BY <2>1 DEF StartRefused, NoGprs, netVars
    <2>2. CASE StartByAddress
      BY <2>2 DEF StartByAddress, ConnectFailed, NoConnection, RequestFailed, Requested
    <2>3. CASE StartByName
      BY <2>3 DEF StartByName, NoConnection
    <2> QED
      BY <2>1, <2>2, <2>3 DEF Start
  <1>11. HeaderType'
    BY <1>7, <1>8 DEF CallType, HeaderType
  <1>12. /\ receivedbodydata' \in Nat /\ finished' \in BOOLEAN
         /\ flash' \in Seq(Units) /\ fileDLpresentReport' \in Nat
    <2>1. receivedbodydata' \in Nat
      BY <1>8 DEF CallType, ImageType
    <2>2. finished' \in BOOLEAN
      BY <1>9 DEF CallType
    <2>3. flash' \in Seq(Units)
      BY <1>9, EmptySeq DEF CallType, ImageType
    <2>4. fileDLpresentReport' \in Nat
      BY <1>9 DEF CallType, ImageType
    <2> QED
      BY <2>1, <2>2, <2>3, <2>4
  <1> QED
    BY <1>6, <1>7, <1>10, <1>11, <1>12 DEF CallType, ImageType

\* The answer to a lookup.
LEMMA TypeLookup ==
    ASSUME CallType, Callback_GetIpByHostName PROVE CallType'
  <1>1. /\ lookups > 0 /\ lookups' = lookups - 1
        /\ UNCHANGED <<runVars, at, httpheader, bodyVars, imageVars>>
    BY DEF Callback_GetIpByHostName
  <1>2. CountType'
    BY <1>1, Bounds DEF CallType, CountType, runVars
  <1>3. /\ told' \in Verdicts /\ resp' \in Responses
        /\ peer' \in {"none", "open", "closed"}
    BY DEF CallType, Verdicts, Callback_GetIpByHostName, ConnectFailed,
           NoConnection, RequestFailed, Requested, netVars
  <1>4. HeaderType' /\ ImageType' /\ finished' \in BOOLEAN
        /\ at' \in {"idle", "head", "decode", "chunked", "body", "complete"}
    BY <1>1 DEF CallType, HeaderType, ImageType, bodyVars, imageVars
  <1> QED
    BY <1>2, <1>3, <1>4 DEF CallType

\* The network, an error or the timer.
LEMMA TypeEvent ==
    ASSUME CallType, Arrive \/ PeerCloses \/ http_TimerCallback
    PROVE  CallType'
  <1>1. /\ UNCHANGED <<runVars, lookups, httpheader, ContentLength,
                       receivedbodydata, flash, fileDLpresentReport, at,
                       finished, resp>>
        /\ told' \in {told, "failed"} /\ peer' \in {peer, "closed"}
    BY DEF Arrive, PeerCloses, http_TimerCallback, bodyVars, imageVars, netVars
  <1> QED
    BY <1>1, TypeKept DEF CallType, Verdicts

\* A callback begins.
LEMMA TypeSocketEvent ==
    ASSUME CallType, ReadError \/ SocketRead PROVE CallType'
  <1>1. /\ UNCHANGED <<starts, leftOpen, overlapped, lookups, httpheader,
                       bodyVars, imageVars, netVars>>
        /\ told' \in {told, "failed"}
    BY DEF ReadError, SocketRead, Abandon
  <1>2. staleEvents' \in 0..MaxStale
    <2>1. staleEvents' = staleEvents
          \/ (staleEvents < MaxStale /\ staleEvents' = staleEvents + 1)
      BY DEF ReadError, SocketRead, SocketEvent
    <2> QED
      BY <2>1, Bounds DEF CallType, CountType
  <1>3. CountType'
    BY <1>1, <1>2 DEF CallType, CountType
  <1>4. /\ at' \in {"idle", "head", "chunked", "body"}
        /\ at' = "body" => ContentLength # Chunked
    <2>1. CASE ReadError
      BY <2>1 DEF ReadError, Abandon
    <2>2. CASE SocketRead
      <3>1. at' = CASE ContentLength = 0 -> "head"
                    [] ContentLength = Chunked -> "chunked"
                    [] OTHER -> "body"
        BY <2>2 DEF SocketRead
      <3> QED
        BY <3>1
    <2> QED
      BY <2>1, <2>2
  <1>5. HeaderType' /\ ImageType'
    BY <1>1, <1>4 DEF CallType, HeaderType, ImageType, bodyVars, imageVars
  <1> QED
    BY <1>1, <1>3, <1>4, <1>5
    DEF CallType, Verdicts, netVars, imageVars

\* What decoding a line leaves in the header.
LEMMA DecodedType ==
    ASSUME CallType, NEW line
    PROVE  Decoded(line) \in [response : 0..4, length : {Chunked, 0, BodyLen},
                              exists : BOOLEAN]
  <1>1. httpheader \in [response : 0..4, length : {Chunked, 0, BodyLen},
                        exists : BOOLEAN]
    BY DEF CallType, HeaderType
  <1>2. CASE line \in {"100", "200", "302", "404"}
    <2> DEFINE code == CASE line = "100" -> 1 [] line = "200" -> 2
                         [] line = "302" -> 3 [] line = "404" -> 4
    <2>1. code \in 0..4
      BY <1>2
    <2>2. Decoded(line) = [httpheader EXCEPT !.response = code]
      BY <1>2 DEF Decoded
    <2> HIDE DEF code
    <2> QED
      BY <1>1, <2>1, <2>2
  <1>3. CASE line \in {"length", "zero"}
    BY <1>1, <1>3 DEF Decoded
  <1>4. CASE line = "chunked"
    BY <1>1, <1>4 DEF Decoded
  <1>5. CASE line \notin {"100", "200", "302", "404", "length", "zero", "chunked"}
    BY <1>1, <1>5 DEF Decoded
  <1> QED
    BY <1>2, <1>3, <1>4, <1>5

LEMMA TypeReadStep ==
    ASSUME CallType, HttpInv, ReadStep PROVE CallType'
  <1> USE DEF netVars, bodyVars, imageVars
  <1>1. CASE \/ WouldBlock \/ PeerClosed \/ HeadData \/ HeadStuck \/ DataAbsent
             \/ HeadRefused \/ ChunkedBody \/ WriteFailed \/ Complete
    <2>1. /\ UNCHANGED <<runVars, lookups, httpheader, ContentLength,
                         receivedbodydata, flash, fileDLpresentReport, resp,
                         peer>>
          /\ told' \in {told, "failed", "reboot", "rebooted"}
          /\ at' \in {"idle", "decode", "head"}
      BY <1>1 DEF WouldBlock, PeerClosed, HeadData, HeadStuck, DataAbsent,
         HeadRefused, ChunkedBody, WriteFailed, Complete, OnSocClose, Abandon
    <2>2. finished' \in {finished, TRUE}
      BY <1>1 DEF WouldBlock, PeerClosed, HeadData, HeadStuck, DataAbsent,
         HeadRefused, ChunkedBody, WriteFailed, Complete
    <2> QED
      BY <2>1, <2>2, TypeKept DEF CallType, Verdicts
  <1>2. CASE DecodeLine
    <2>1. /\ UNCHANGED <<told, runVars, lookups, netVars, at, bodyVars,
                         imageVars>>
          /\ httpheader' = Decoded(buf[1][1])
      BY <1>2 DEF DecodeLine
    <2>2. CountType' /\ HeaderType' /\ ImageType'
      BY <2>1, DecodedType
      DEF CallType, CountType, HeaderType, ImageType, runVars
    <2> QED
      BY <2>1, <2>2 DEF CallType
  <1>3. CASE HeadAccepted
    <2>1. /\ UNCHANGED <<told, runVars, lookups, netVars, receivedbodydata,
                         imageVars>>
          /\ ContentLength' = BodyLength
          /\ httpheader' = [httpheader EXCEPT !.length = BodyLength]
          /\ at' = IF BodyLength = Chunked THEN "chunked" ELSE "body"
      BY <1>3 DEF HeadAccepted
    <2>2. BodyLength \in {Chunked, 0, BodyLen}
      BY DEF CallType, HeaderType, BodyLength
    <2>3. HeaderType'
      BY <2>1, <2>2 DEF CallType, HeaderType
    <2>4. CountType' /\ ImageType'
      BY <2>1 DEF CallType, CountType, ImageType, runVars
    <2>5. at' \in {"chunked", "body"}
      BY <2>1
    <2> QED
      BY <2>1, <2>3, <2>4, <2>5 DEF CallType
  <1>4. CASE BodyData
    <2>1. /\ UNCHANGED <<told, runVars, lookups, resp, peer, httpheader,
                         ContentLength, finished>>
          /\ at = "body" /\ at' \in {"complete", "body"}
      BY <1>4 DEF BodyData
    <2>2. PICK n \in 1..Len(net) :
              /\ Fits(n)
              /\ flash' \in {flash, flash \o Written(n)}
              /\ receivedbodydata' = receivedbodydata + Len(Written(n))
              /\ fileDLpresentReport' \in
                    {fileDLpresentReport,
                     Percent(receivedbodydata + Len(Written(n)))}
      BY <1>4 DEF BodyData
    <2>3. Written(n) \in Seq(Units) /\ Len(Written(n)) \in Nat
      BY <2>2, Receive, LenProperties DEF HttpInv, Written
    <2>4. receivedbodydata + Len(Written(n)) \in Nat
      BY <2>3 DEF CallType, ImageType
    <2>5. Percent(receivedbodydata + Len(Written(n))) \in Nat
      BY <2>1, <2>4, PercentType DEF CallType, HeaderType
    <2>6. flash' \in Seq(Units)
      BY <2>2, <2>3, ConcatProperties DEF CallType, ImageType
    <2>7. ImageType'
      BY <2>2, <2>4, <2>5, <2>6 DEF CallType, ImageType
    <2>8. CountType' /\ HeaderType'
      BY <2>1 DEF CallType, CountType, HeaderType, runVars
    <2> QED
      BY <2>1, <2>7, <2>8 DEF CallType
  <1> QED
    BY <1>1, <1>2, <1>3, <1>4 DEF ReadStep

\* CallType holds in every state.
THEOREM HttpCallType == Spec => []CallType
  <1>1. CallType /\ HttpInv /\ HttpInv' /\ [Next]_vars => CallType'
    <2> SUFFICES ASSUME CallType, HttpInv, HttpInv', [Next]_vars PROVE CallType'
      OBVIOUS
    <2>1. CASE UNCHANGED vars
      <3>1. UNCHANGED <<runVars, lookups, httpheader, ContentLength,
                        receivedbodydata, flash, fileDLpresentReport, told,
                        resp, peer, at, finished>>
        BY <2>1 DEF vars, netVars, bodyVars, imageVars
      <3> QED
        BY <3>1, TypeKept DEF CallType
    <2> QED
      BY <2>1, TypeStart, TypeLookup, TypeEvent, TypeSocketEvent, TypeReadStep
      DEF Next
  <1> QED
    BY <1>1, TypeInit, HttpInvariant, PTL DEF Spec

\* Type correctness: the length the body is read to is a length, the header's
\* or the mark for none, and the number of DNS answers to come is that of the
\* starts at most (fota_http.c:74-181, 446-464).
THEOREM HttpTypeCorrect == Spec => []TypeOK
  <1>1. HttpInv /\ CallType => TypeOK
    <2> SUFFICES ASSUME HttpInv, CallType PROVE TypeOK
      OBVIOUS
    <2>1. /\ toSend \in Seq(Units) /\ net \in Seq(Units) /\ buf \in Seq(Units)
          /\ Len(buf) <= BufSize
          /\ bpeersocketclose \in BOOLEAN /\ held \in BOOLEAN
          /\ timerOn \in BOOLEAN /\ httpGettimerstate \in BOOLEAN
      BY DEF HttpInv, HttpTyping
    <2>2. /\ httpheader.response \in 0..4 /\ httpheader.exists \in BOOLEAN
          /\ ContentLength \in {Chunked, 0, BodyLen}
      BY DEF CallType, HeaderType
    <2> QED
      BY <2>1, <2>2, Zenon DEF TypeOK, CallType, CountType, ImageType
  <1> QED
    BY <1>1, HttpCallType, HttpInvariant, PTL

-----------------------------------------------------------------------------
(* Parts of a sequence.                                                    *)

\* s is what t holds after its first p elements, or the beginning of it.
Part(s, t, p) ==
    /\ p + Len(s) <= Len(t)
    /\ \A i \in 1..Len(s) : s[i] = t[p + i]

\* Adjacent parts make a part.
LEMMA PartConcat ==
    ASSUME NEW s \in Seq(Units), NEW t \in Seq(Units), NEW u \in Seq(Units),
           NEW p \in Nat, Part(s, u, p), Part(t, u, p + Len(s))
    PROVE  Part(s \o t, u, p)
  <1>1. /\ Len(s) \in Nat /\ Len(t) \in Nat /\ Len(u) \in Nat
        /\ Len(s \o t) = Len(s) + Len(t)
        /\ \A i \in 1..Len(s) + Len(t) :
              (s \o t)[i] = IF i <= Len(s) THEN s[i] ELSE t[i - Len(s)]
    BY ConcatProperties, LenProperties
  <1>2. p + Len(s \o t) <= Len(u)
    BY <1>1, SMT DEF Part
  <1>3. ASSUME NEW i \in 1..Len(s \o t) PROVE (s \o t)[i] = u[p + i]
    <2>1. CASE i <= Len(s)
      <3>1. i \in 1..Len(s) /\ i \in 1..Len(s) + Len(t)
        BY <1>1, <2>1, SMT
      <3> QED
        BY <1>1, <2>1, <3>1 DEF Part
    <2>2. CASE i > Len(s)
      <3> DEFINE j == i - Len(s)
      <3>1. /\ j \in 1..Len(t) /\ i \in 1..Len(s) + Len(t) /\ ~(i <= Len(s))
            /\ p + Len(s) + j = p + i
        BY <1>1, <2>2, SMT
      <3>2. t[j] = u[p + Len(s) + j]
        BY <3>1 DEF Part
      <3> QED
        BY <1>1, <3>1, <3>2
    <2> QED
      BY <1>1, <2>1, <2>2, SMT
  <1> QED
    BY <1>2, <1>3 DEF Part

\* A part is cut into two adjacent ones.
LEMMA PartCut ==
    ASSUME NEW s \in Seq(Units), NEW u \in Seq(Units), NEW p \in Nat,
           NEW n \in 0..Len(s), Part(s, u, p)
    PROVE  /\ SubSeq(s, 1, n) \in Seq(Units) /\ Len(SubSeq(s, 1, n)) = n
           /\ SubSeq(s, n + 1, Len(s)) \in Seq(Units)
           /\ Len(SubSeq(s, n + 1, Len(s))) = Len(s) - n
           /\ Part(SubSeq(s, 1, n), u, p)
           /\ Part(SubSeq(s, n + 1, Len(s)), u, p + n)
  <1>1. Len(s) \in Nat /\ Len(u) \in Nat /\ n \in Nat /\ n <= Len(s)
    BY LenProperties, SMT
  <1>2. \A i \in 1..Len(s) : s[i] \in Units
    BY ElementOfSeq
  <1>3. /\ SubSeq(s, 1, n) \in Seq(Units) /\ Len(SubSeq(s, 1, n)) = n
        /\ \A i \in 1..n : SubSeq(s, 1, n)[i] = s[i]
    <2>1. \A i \in 1..n : s[i] \in Units
      BY <1>1, <1>2, SMT
    <2>2. /\ SubSeq(s, 1, n) \in Seq(Units)
          /\ Len(SubSeq(s, 1, n)) = IF 1 <= n THEN n - 1 + 1 ELSE 0
          /\ \A i \in 1..n - 1 + 1 : SubSeq(s, 1, n)[i] = s[1 + i - 1]
      BY <1>1, <2>1, SubSeqProperties, SMT
    <2> QED
      BY <1>1, <2>2, SMT
  <1>4. /\ SubSeq(s, n + 1, Len(s)) \in Seq(Units)
        /\ Len(SubSeq(s, n + 1, Len(s))) = Len(s) - n
        /\ \A i \in 1..Len(s) - n : SubSeq(s, n + 1, Len(s))[i] = s[n + i]
    <2>1. \A i \in n + 1..Len(s) : s[i] \in Units
      BY <1>1, <1>2, SMT
    <2>2. /\ SubSeq(s, n + 1, Len(s)) \in Seq(Units)
          /\ Len(SubSeq(s, n + 1, Len(s)))
               = IF n + 1 <= Len(s) THEN Len(s) - (n + 1) + 1 ELSE 0
          /\ \A i \in 1..Len(s) - (n + 1) + 1 :
                SubSeq(s, n + 1, Len(s))[i] = s[n + 1 + i - 1]
      BY <1>1, <2>1, SubSeqProperties, SMT
    <2> QED
      BY <1>1, <2>2, SMT
  <1>5. Part(SubSeq(s, 1, n), u, p)
    <2>1. \A i \in 1..n : i \in 1..Len(s)
      BY <1>1, SMT
    <2>2. p + n <= Len(u)
      BY <1>1, SMT DEF Part
    <2> QED
      BY <1>3, <2>1, <2>2 DEF Part
  <1>6. Part(SubSeq(s, n + 1, Len(s)), u, p + n)
    <2>1. ASSUME NEW i \in 1..Len(s) - n
          PROVE  n + i \in 1..Len(s) /\ p + n + i = p + (n + i)
      BY <1>1, SMT
    <2>2. p + n + (Len(s) - n) <= Len(u)
      BY <1>1, SMT DEF Part
    <2>3. ASSUME NEW i \in 1..Len(s) - n PROVE s[n + i] = u[p + n + i]
      BY <2>1 DEF Part
    <2> QED
      BY <1>4, <2>2, <2>3 DEF Part
  <1> QED
    BY <1>3, <1>4, <1>5, <1>6

\* The empty sequence is a part wherever there is room.
LEMMA PartEmpty ==
    ASSUME NEW u, NEW p \in Nat, Len(u) \in Nat, p <= Len(u)
    PROVE  Part(<<>>, u, p)
  <1>1. Len(<<>>) = 0
    BY EmptySeq
  <1> QED
    BY <1>1, SMT DEF Part

\* What is appended is the part after the rest.
LEMMA PartLast ==
    ASSUME NEW s \in Seq(Units), NEW t \in Seq(Units)
    PROVE  Part(t, s \o t, Len(s))
  <1>1. /\ Len(s) \in Nat /\ Len(t) \in Nat
        /\ Len(s \o t) = Len(s) + Len(t)
        /\ \A i \in 1..Len(s) + Len(t) :
              (s \o t)[i] = IF i <= Len(s) THEN s[i] ELSE t[i - Len(s)]
    BY ConcatProperties, LenProperties
  <1>2. ASSUME NEW i \in 1..Len(t) PROVE t[i] = (s \o t)[Len(s) + i]
    <2> DEFINE j == Len(s) + i
    <2>1. j \in 1..Len(s) + Len(t) /\ ~(j <= Len(s)) /\ j - Len(s) = i
      BY <1>1, SMT
    <2>2. (s \o t)[j] = t[j - Len(s)]
      <3> HIDE DEF j
      <3> QED
        BY <1>1, <2>1
    <2> QED
      BY <2>1, <2>2
  <1> QED
    BY <1>1, <1>2, SMT DEF Part

\* Every sequence is the part of itself after nothing.
LEMMA PartWhole ==
    ASSUME NEW s \in Seq(Units)
    PROVE  Part(s, s, 0)
  <1>1. Len(s) \in Nat
    BY LenProperties
  <1>2. \A i \in 1..Len(s) : 0 + i = i
    BY <1>1, SMT
  <1> QED
    BY <1>1, <1>2, SMT DEF Part

\* Two parts of the same length and at the same place are the same.
LEMMA PartSame ==
    ASSUME NEW s \in Seq(Units), NEW t \in Seq(Units), NEW u, NEW p,
           Part(s, u, p), Part(t, u, p), Len(s) = Len(t)
    PROVE  s = t
  <1>1. \A i \in 1..Len(s) : s[i] = t[i]
    BY DEF Part
  <1> QED
    BY <1>1, SeqEqual

-----------------------------------------------------------------------------
(* The response.                                                           *)

HeadLen(r) == Len(Lines(r))

\* How many lines each head has, and what is last.
LEMMA LinesShape ==
    ASSUME NEW r \in Responses
    PROVE  /\ HeadLen(r) \in 2..5
           /\ r = "ok"       => HeadLen(r) = 3
           /\ r = "continue" => HeadLen(r) = 5
           /\ r = "noLength" => HeadLen(r) = 2
           /\ r = "chunked"  => HeadLen(r) = 3
           /\ r = "notFound" => HeadLen(r) = 3
           /\ r = "moved"    => HeadLen(r) = 2
           /\ r = "empty"    => HeadLen(r) = 3
           /\ r = "longLine" => HeadLen(r) = 3
  <1>1. r \in {"ok", "continue", "noLength", "chunked", "notFound", "moved",
               "empty", "longLine"}
    BY HttpFotaAssumption
  <1>2. CASE r = "ok"
    BY <1>2, SMT DEF Lines, HeadLen
  <1>3. CASE r = "continue"
    BY <1>3, SMT DEF Lines, HeadLen
  <1>4. CASE r = "noLength"
    BY <1>4, SMT DEF Lines, HeadLen
  <1>5. CASE r = "chunked"
    BY <1>5, SMT DEF Lines, HeadLen
  <1>6. CASE r = "notFound"
    BY <1>6, SMT DEF Lines, HeadLen
  <1>7. CASE r = "moved"
    BY <1>7, SMT DEF Lines, HeadLen
  <1>8. CASE r = "empty"
    BY <1>8, SMT DEF Lines, HeadLen
  <1>9. CASE r = "longLine"
    BY <1>9, SMT DEF Lines, HeadLen
  <1> QED
    BY <1>1, <1>2, <1>3, <1>4, <1>5, <1>6, <1>7, <1>8, <1>9

BodyUnits(r) == IF r = "empty" THEN 0 ELSE BodyLen

LEMMA BodyShape ==
    ASSUME NEW r
    PROVE  /\ BodyUnits(r) \in Nat
           /\ Body(r) \in Seq(Units) /\ Len(Body(r)) = BodyUnits(r)
  <1>1. BodyUnits(r) \in Nat
    BY Bounds DEF BodyUnits
  <1>2. \A i \in 1..BodyUnits(r) : <<"body", i>> \in Units
    <2>1. \A i \in 1..BodyUnits(r) : i \in 0..BodyLen
      BY <1>1, Bounds, SMT DEF BodyUnits
    <2> QED
      BY <2>1 DEF Units
  <1>3. Body(r) = [i \in 1..BodyUnits(r) |-> <<"body", i>>]
    BY DEF Body, BodyUnits
  <1>4. Body(r) \in [1..BodyUnits(r) -> Units]
    BY <1>2, <1>3
  <1>5. Body(r) \in Seq(Units)
    BY <1>1, <1>4, ArraySeq
  <1>6. DOMAIN Body(r) = 1..BodyUnits(r)
    BY <1>3
  <1> QED
    BY <1>1, <1>5, <1>6, LenProperties, SMT

\* The stream has two units a line, then the body.
LEMMA StreamShape ==
    ASSUME NEW r \in Responses
    PROVE  /\ Stream(r) \in Seq(Units)
           /\ Len(Stream(r)) = 2 * HeadLen(r) + BodyUnits(r)
           /\ \A k \in 0..HeadLen(r) - 1 :
                 Stream(r)[2 * k + 1][1] = Lines(r)[k + 1]
           /\ Part(Body(r), Stream(r), 2 * HeadLen(r))
  <1> DEFINE n == 2 * HeadLen(r)
             h == HeadUnits(r)
  <1>1. HeadLen(r) \in Nat /\ n \in Nat /\ HeadLen(r) > 0
    BY LinesShape, SMT
  <1>2. Stream(r) = h \o Body(r) /\ Stream(r) \in Seq(Units)
    BY StreamType DEF Stream, HeadUnits
  <1>3. h \in Seq(Units) /\ Len(h) = n
    <2>1. DOMAIN h = 1..n
      BY DEF HeadUnits, HeadLen
    <2> HIDE DEF h, n
    <2>2. h \in Seq(Units)
      BY HeadType DEF h
    <2> QED
      BY <1>1, <2>1, <2>2, LenProperties, SMT
  <1>4. Body(r) \in Seq(Units) /\ Len(Body(r)) = BodyUnits(r) /\ BodyUnits(r) \in Nat
    BY BodyShape
  <1> HIDE DEF h
  <1>5. /\ Len(Stream(r)) = n + BodyUnits(r)
        /\ \A i \in 1..n + BodyUnits(r) :
              Stream(r)[i] = IF i <= n THEN h[i] ELSE Body(r)[i - n]
    BY <1>2, <1>3, <1>4, ConcatProperties
  <1>6. ASSUME NEW k \in 0..HeadLen(r) - 1
        PROVE  Stream(r)[2 * k + 1][1] = Lines(r)[k + 1]
    <2>1. /\ 2 * k + 1 \in 1..n /\ 2 * k + 1 \in 1..n + BodyUnits(r)
          /\ 2 * k + 1 <= n /\ (2 * k + 1 + 1) \div 2 = k + 1
      BY <1>1, <1>4, SMT
    <2>2. Stream(r)[2 * k + 1] = h[2 * k + 1]
      BY <1>5, <2>1
    <2>3. h[2 * k + 1] = <<Lines(r)[(2 * k + 1 + 1) \div 2], (2 * k + 1) % 2>>
      BY <2>1 DEF h, HeadUnits, HeadLen
    <2> QED
      BY <2>1, <2>2, <2>3
  <1>7. Part(Body(r), Stream(r), n)
    BY <1>2, <1>3, <1>4, PartLast
  <1> QED
    BY <1>2, <1>5, <1>6, <1>7

-----------------------------------------------------------------------------
(* What is on its way of the response.                                     *)

\* A buffer b, a socket n and a server t hold adjacent parts of response r
\* that begin after p units.
Pending(b, n, t, r, p) ==
    /\ Part(b, Stream(r), p)
    /\ Part(n, Stream(r), p + Len(b))
    /\ Part(t, Stream(r), p + Len(b) + Len(n))

LEMMA PendingRequest ==
    ASSUME NEW r \in Responses PROVE Pending(<<>>, <<>>, Stream(r), r, 0)
  <1>1. Stream(r) \in Seq(Units) /\ Len(Stream(r)) \in Nat
    BY StreamShape, LenProperties
  <1>2. Part(<<>>, Stream(r), 0) /\ Part(Stream(r), Stream(r), 0)
    BY <1>1, PartEmpty, PartWhole, SMT
  <1>3. Len(<<>>) = 0 /\ 0 + 0 = 0
    BY EmptySeq, SMT
  <1> QED
    BY <1>2, <1>3 DEF Pending

LEMMA PendingArrives ==
    ASSUME NEW r \in Responses, NEW b \in Seq(Units), NEW n \in Seq(Units),
           NEW t \in Seq(Units), NEW p \in Nat, NEW i \in 1..Len(t),
           Pending(b, n, t, r, p)
    PROVE  Pending(b, n \o SubSeq(t, 1, i), SubSeq(t, i + 1, Len(t)), r, p)
  <1> DEFINE S == Stream(r)
             first == SubSeq(t, 1, i)
             rest  == SubSeq(t, i + 1, Len(t))
             q == p + Len(b)
  <1>1. S \in Seq(Units) /\ Len(b) \in Nat /\ Len(n) \in Nat /\ Len(t) \in Nat
    BY StreamShape, LenProperties
  <1>2. q \in Nat /\ q + Len(n) \in Nat /\ i \in 0..Len(t)
    BY <1>1, SMT
  <1>3. Part(b, S, p) /\ Part(n, S, q) /\ Part(t, S, q + Len(n))
    BY DEF Pending
  <1> HIDE DEF S, q
  <1>4. /\ first \in Seq(Units) /\ Len(first) = i
        /\ Part(first, S, q + Len(n)) /\ Part(rest, S, q + Len(n) + i)
    BY <1>1, <1>2, <1>3, PartCut
  <1> HIDE DEF first, rest
  <1>5. Part(n \o first, S, q) /\ Len(n \o first) = Len(n) + i
    BY <1>1, <1>2, <1>3, <1>4, PartConcat, ConcatProperties
  <1>6. q + Len(n) + i = q + Len(n \o first)
    BY <1>1, <1>2, <1>5, SMT
  <1> QED
    BY <1>3, <1>4, <1>5, <1>6 DEF Pending, S, q, first, rest

LEMMA PendingNoMore ==
    ASSUME NEW r \in Responses, NEW b \in Seq(Units), NEW n \in Seq(Units),
           NEW t, NEW p \in Nat, Pending(b, n, t, r, p)
    PROVE  Pending(b, n, <<>>, r, p)
  <1>1. /\ Stream(r) \in Seq(Units) /\ Len(Stream(r)) \in Nat
        /\ Len(b) \in Nat /\ Len(n) \in Nat
    BY StreamShape, LenProperties
  <1>2. /\ p + Len(b) + Len(n) \in Nat
        /\ p + Len(b) + Len(n) <= Len(Stream(r))
    BY <1>1, SMT DEF Pending, Part
  <1>3. Part(<<>>, Stream(r), p + Len(b) + Len(n))
    BY <1>1, <1>2, PartEmpty
  <1> QED
    BY <1>3 DEF Pending

\* The first i units of the socket are taken: with the buffer they are the
\* next part of the response, and the others follow them.
LEMMA PendingTaken ==
    ASSUME NEW r \in Responses, NEW b \in Seq(Units), NEW n \in Seq(Units),
           NEW t \in Seq(Units), NEW p \in Nat, NEW i \in 1..Len(n),
           Pending(b, n, t, r, p)
    PROVE  LET d == b \o SubSeq(n, 1, i)
               m == SubSeq(n, i + 1, Len(n))
           IN /\ d \in Seq(Units) /\ Len(d) = Len(b) + i
              /\ Part(d, Stream(r), p)
              /\ Part(m, Stream(r), p + Len(d))
              /\ Part(t, Stream(r), p + Len(d) + Len(m))
  <1> DEFINE S == Stream(r)
             first == SubSeq(n, 1, i)
             rest  == SubSeq(n, i + 1, Len(n))
             q == p + Len(b)
  <1>1. S \in Seq(Units) /\ Len(b) \in Nat /\ Len(n) \in Nat
    BY StreamShape, LenProperties
  <1>2. q \in Nat /\ i \in 0..Len(n) /\ i \in Nat
    BY <1>1, SMT
  <1>3. Part(b, S, p) /\ Part(n, S, q) /\ Part(t, S, q + Len(n))
    BY DEF Pending
  <1> HIDE DEF S, q
  <1>4. /\ first \in Seq(Units) /\ Len(first) = i /\ Len(rest) = Len(n) - i
        /\ Part(first, S, q) /\ Part(rest, S, q + i)
    BY <1>1, <1>2, <1>3, PartCut
  <1> HIDE DEF first, rest
  <1>5. b \o first \in Seq(Units) /\ Len(b \o first) = Len(b) + i
    BY <1>4, ConcatProperties
  <1>6. Part(b \o first, S, p)
    BY <1>1, <1>3, <1>4, PartConcat DEF q
  <1>7. /\ q + i = p + Len(b \o first)
        /\ q + Len(n) = p + Len(b \o first) + Len(rest)
    BY <1>1, <1>2, <1>4, <1>5, SMT DEF q
  <1> QED
    BY <1>3, <1>4, <1>5, <1>6, <1>7 DEF S, first, rest

\* A line is taken from the buffer.
LEMMA PendingLine ==
    ASSUME NEW r \in Responses, NEW b \in Seq(Units), NEW n, NEW t,
           NEW p \in Nat, Len(b) >= 2, Len(n) \in Nat, Pending(b, n, t, r, p)
    PROVE  /\ b[1] = Stream(r)[p + 1] /\ p + 2 <= Len(Stream(r))
           /\ Pending(SubSeq(b, 3, Len(b)), n, t, r, p + 2)
  <1> DEFINE S == Stream(r)
             rest == SubSeq(b, 3, Len(b))
  <1>1. S \in Seq(Units) /\ Len(S) \in Nat /\ Len(b) \in Nat
    BY StreamShape, LenProperties
  <1>2. Part(b, S, p) /\ 2 \in 0..Len(b) /\ 1 \in 1..Len(b) /\ 2 + 1 = 3
    BY <1>1, SMT DEF Pending
  <1> HIDE DEF S
  <1>3. Part(rest, S, p + 2) /\ Len(rest) = Len(b) - 2
    <2>1. PICK i \in 0..Len(b) : i = 2
      BY <1>2
    <2>2. /\ Part(SubSeq(b, i + 1, Len(b)), S, p + i)
          /\ Len(SubSeq(b, i + 1, Len(b))) = Len(b) - i
      BY <1>1, <1>2, PartCut
    <2> QED
      BY <1>2, <2>1, <2>2, Zenon
  <1>4. b[1] = S[p + 1] /\ p + 2 <= Len(S)
    BY <1>1, <1>2, SMT DEF Part
  <1> HIDE DEF rest
  <1>5. p + 2 + Len(rest) = p + Len(b)
    BY <1>1, <1>3, SMT
  <1> QED
    BY <1>3, <1>4, <1>5 DEF Pending, S, rest

-----------------------------------------------------------------------------
(* What holds of the upgrade.                                              *)

\* What the first k lines of the response have set in httpheader.
HeaderOK(k) ==
    /\ resp \in {"ok", "chunked", "empty"} /\ k >= 1 => httpheader.response = 2
    /\ resp = "continue" /\ k \in {1, 2}   => httpheader.response = 1
    /\ resp = "continue" /\ k >= 3         => httpheader.response = 2
    /\ resp = "moved" /\ k >= 1            => httpheader.response = 3
    /\ resp = "notFound" /\ k >= 1         => httpheader.response = 4
    /\ (resp = "ok" /\ k >= 2) \/ (resp = "continue" /\ k >= 4)
         => httpheader.exists /\ httpheader.length = BodyLen
    /\ resp = "empty" /\ k >= 2 => httpheader.exists /\ httpheader.length = 0
    /\ resp = "chunked" /\ k >= 2 => ~httpheader.exists
    /\ resp = "longLine" => k <= 1

\* k lines are decoded; the last one only when there is no body.
AtLine(k) ==
    /\ k < HeadLen(resp) \/ (resp = "empty" /\ k = HeadLen(resp))
    /\ HeaderOK(k)
    /\ Pending(buf, net, toSend, resp, 2 * k)
    /\ ContentLength = 0 /\ receivedbodydata = 0 /\ flash = <<>>

\* receivedbodydata units of the body are in the image region.
InBody ==
    \/ resp = "empty" /\ AtLine(HeadLen(resp))
    \/ /\ resp \in {"ok", "continue"}
       /\ ContentLength = BodyLen
       /\ Len(flash) = receivedbodydata
       /\ Part(flash, Stream(resp), 2 * HeadLen(resp))
       /\ Pending(buf, net, toSend, resp, 2 * HeadLen(resp) + receivedbodydata)

\* The callback reads the head, or waits for more of it; the same of the body.
HeadPhase == at \in {"head", "decode"} \/ (at = "idle" /\ held /\ ContentLength = 0)
BodyPhase == at = "body" \/ (at = "idle" /\ held /\ ContentLength # 0)

ReadingInv ==
    /\ HeadPhase => \E k \in Nat : AtLine(k)
    /\ BodyPhase => InBody
    /\ at = "complete" \/ finished => flash = Body(resp)

\* A buffer means an upgrade that goes on; a lookup one that has not begun.
RunInv ==
    /\ held => told = "running" /\ ~finished
    /\ lookups > 0 => receivedbodydata = 0 /\ flash = <<>> /\ ~finished

ImageInv == ~overlapped => RunInv /\ (resp # "noLength" => ReadingInv)

LEMMA ImageInit == Init => ImageInv
  <1> SUFFICES ASSUME Init PROVE ImageInv
    OBVIOUS
  <1>1. ~held /\ at = "idle" /\ ~finished
    BY DEF Init
  <1>2. lookups = 0
    BY DEF Init
  <1> QED
    BY <1>1, <1>2, SMT
    DEF ImageInv, RunInv, ReadingInv, HeadPhase, BodyPhase

\* A request, answered from its beginning.
LEMMA AtRequest ==
    ASSUME resp' \in Responses, toSend' = Stream(resp)', net' = <<>>, buf' = <<>>,
           ContentLength' = 0, receivedbodydata' = 0, flash' = <<>>
    PROVE  (\E k \in Nat : AtLine(k))'
  <1>1. Pending(buf, net, toSend, resp, 2 * 0)'
    <2>1. Pending(<<>>, <<>>, Stream(resp'), resp', 0)
      BY PendingRequest
    <2>2. 2 * 0 = 0
      BY SMT
    <2> QED
      BY <2>1, <2>2
  <1>2. HeaderOK(0)'
    BY SMT DEF HeaderOK
  <1>3. (0 < HeadLen(resp))'
    BY LinesShape, SMT
  <1>4. AtLine(0)'
    BY <1>1, <1>2, <1>3 DEF AtLine
  <1> QED
    BY <1>4

\* Without a buffer and outside of a callback only the finished image counts.
LEMMA ImageGone ==
    ASSUME ImageInv, at' = "idle", ~held',
           UNCHANGED <<overlapped, lookups, resp, receivedbodydata, flash,
                       finished>>
    PROVE  ImageInv'
  BY DEF ImageInv, RunInv, ReadingInv, HeadPhase, BodyPhase

LEMMA ImageStart ==
    ASSUME HttpInv, HttpInv', CallType, ImageInv, Start
    PROVE  ImageInv'
  <1> SUFFICES ASSUME ~overlapped' PROVE RunInv' /\ (resp # "noLength" => ReadingInv)'
    BY DEF ImageInv
  <1>1. MayStart
    BY DEF Start, StartRefused, NoGprs, StartByAddress, StartByName
  <1>2. /\ at = "idle" /\ told # "running" /\ ~overlapped /\ ~(lookups > 0)
        /\ lookups = 0 /\ at' = "idle"
    <2>1. lookups \in Nat
      BY DEF HttpInv, HttpTyping
    <2>2. /\ at = "idle" /\ told # "running" /\ ~overlapped /\ ~(lookups > 0)
      BY <1>1 DEF MayStart
    <2>3. at' = at
      BY DEF Start, StartRefused, NoGprs, StartByAddress, StartByName
    <2> QED
      BY <2>1, <2>2, <2>3, SMT
  <1>3. ~held /\ RunInv /\ (resp # "noLength" => ReadingInv)
    BY <1>2 DEF ImageInv, RunInv
  <1>4. CASE StartRefused
    <2>1. /\ UNCHANGED <<lookups, resp, held, receivedbodydata, flash, finished>>
      BY <1>4 DEF StartRefused, netVars, bufferVars, bodyVars, imageVars
    <2> QED
      BY <1>2, <1>3, <2>1
      DEF RunInv, ReadingInv, HeadPhase, BodyPhase
  <1>5. CASE NoGprs
    <2>1. ~held' /\ ~finished' /\ ~(lookups' > 0)
      BY <1>2, <1>3, <1>5 DEF NoGprs, Ql_FOTA_Init, bufferVars
    <2> QED
      BY <1>2, <2>1 DEF RunInv, ReadingInv, HeadPhase, BodyPhase
  <1>6. CASE StartByAddress
    <2>1. ~finished' /\ flash' = <<>> /\ ~(lookups' > 0)
      BY <1>2, <1>6 DEF StartByAddress, Ql_FOTA_Init
    <2>2. CASE ~held'
      BY <1>2, <2>1, <2>2 DEF RunInv, ReadingInv, HeadPhase, BodyPhase
    <2>3. CASE held'
      <3>1. Requested /\ buf' = <<>> /\ ContentLength' = 0 /\ receivedbodydata' = 0
        BY <1>6, <2>3 DEF StartByAddress, http_initialize
      <3>2. /\ told' = "running" /\ resp' \in Responses
            /\ toSend' = Stream(resp') /\ net' = <<>>
        BY <3>1 DEF Requested
      <3>3. (\E k \in Nat : AtLine(k))'
        BY <2>1, <3>1, <3>2, AtRequest
      <3>4. ~BodyPhase' /\ at' # "complete"
        BY <1>2, <3>1 DEF BodyPhase
      <3> QED
        BY <2>1, <3>2, <3>3, <3>4 DEF RunInv, ReadingInv
    <2> QED
      BY <2>2, <2>3
  <1>7. CASE StartByName
    <2>1. ~finished' /\ flash' = <<>> /\ ~held' /\ receivedbodydata' = 0
      BY <1>7 DEF StartByName, Ql_FOTA_Init, http_initialize
    <2> QED
      BY <1>2, <2>1 DEF RunInv, ReadingInv, HeadPhase, BodyPhase
  <1> QED
    BY <1>4, <1>5, <1>6, <1>7 DEF Start

LEMMA ImageLookup ==
    ASSUME HttpInv, ImageInv, Callback_GetIpByHostName
    PROVE  ImageInv'
  <1> SUFFICES ASSUME ~overlapped' PROVE RunInv' /\ (resp # "noLength" => ReadingInv)'
    BY DEF ImageInv
  <1>1. /\ at = "idle" /\ at' = "idle" /\ lookups > 0 /\ ~overlapped
        /\ UNCHANGED <<buf, ContentLength, receivedbodydata, flash, finished>>
    BY DEF Callback_GetIpByHostName, runVars, bodyVars, imageVars
  <1>2. ~held /\ buf = <<>> /\ ContentLength = 0
    BY <1>1 DEF HttpInv, LookupInv
  <1>3. receivedbodydata = 0 /\ flash = <<>> /\ ~finished
    BY <1>1 DEF ImageInv, RunInv
  <1>4. CASE ~held'
    BY <1>1, <1>3, <1>4 DEF RunInv, ReadingInv, HeadPhase, BodyPhase
  <1>5. CASE held'
    <2>1. Requested
      BY <1>2, <1>5 DEF Callback_GetIpByHostName
    <2>2. /\ told' = "running" /\ resp' \in Responses
          /\ toSend' = Stream(resp') /\ net' = <<>>
      BY <2>1 DEF Requested
    <2>3. (\E k \in Nat : AtLine(k))'
      BY <1>1, <1>2, <1>3, <2>2, AtRequest
    <2> QED
      BY <1>1, <1>2, <1>3, <2>2, <2>3 DEF RunInv, ReadingInv, BodyPhase
  <1> QED
    BY <1>4, <1>5

\* The network moves what is pending.
LEMMA ImageNetwork ==
    ASSUME HttpInv, CallType, ImageInv, Arrive \/ PeerCloses
    PROVE  ImageInv'
  <1>1. /\ UNCHANGED <<told, lookups, overlapped, resp, held, at, finished, buf,
                       ContentLength, receivedbodydata, flash, httpheader>>
    BY DEF Arrive, PeerCloses, runVars, bufferVars, bodyVars, imageVars
  <1>2. ASSUME NEW p \in Nat, Pending(buf, net, toSend, resp, p)
        PROVE  Pending(buf', net', toSend', resp', p)
    <2>1. /\ resp \in Responses /\ buf \in Seq(Units) /\ net \in Seq(Units)
          /\ toSend \in Seq(Units)
      BY DEF CallType, HttpInv, HttpTyping
    <2>2. CASE Arrive
      <3>1. PICK n \in 1..Len(toSend) :
                /\ net' = net \o SubSeq(toSend, 1, n)
                /\ toSend' = SubSeq(toSend, n + 1, Len(toSend))
        BY <2>2 DEF Arrive
      <3>2. Pending(buf, net \o SubSeq(toSend, 1, n),
                    SubSeq(toSend, n + 1, Len(toSend)), resp, p)
        BY <1>2, <2>1, <3>1, PendingArrives
      <3> QED
        BY <1>1, <3>1, <3>2
    <2>3. CASE PeerCloses
      <3>1. toSend' = <<>> /\ net' = net
        BY <2>3 DEF PeerCloses
      <3>2. Pending(buf, net, <<>>, resp, p)
        BY <1>2, <2>1, PendingNoMore
      <3> QED
        BY <1>1, <3>1, <3>2
    <2> QED
      BY <2>2, <2>3
  <1>3. ASSUME NEW k \in Nat, AtLine(k) PROVE AtLine(k)'
    <2>1. 2 * k \in Nat
      BY SMT
    <2>2. Pending(buf', net', toSend', resp', 2 * k)
      BY <1>2, <1>3, <2>1 DEF AtLine
    <2> QED
      BY <1>1, <1>3, <2>2 DEF AtLine, HeaderOK
  <1>4. InBody => InBody'
    <2> SUFFICES ASSUME InBody PROVE InBody'
      OBVIOUS
    <2>1. HeadLen(resp) \in Nat
      BY LinesShape, SMT DEF CallType
    <2>2. CASE resp = "empty" /\ AtLine(HeadLen(resp))
      <3>1. PICK k \in Nat : k = HeadLen(resp)
        BY <2>1
      <3>2. AtLine(k)'
        BY <1>3, <2>2, <3>1
      <3> QED
        BY <1>1, <2>2, <3>1, <3>2 DEF InBody
    <2>3. CASE ~(resp = "empty" /\ AtLine(HeadLen(resp)))
      <3>1. 2 * HeadLen(resp) + receivedbodydata \in Nat
        BY <2>1, SMT DEF CallType, ImageType
      <3>2. Pending(buf', net', toSend', resp', 2 * HeadLen(resp) + receivedbodydata)
        BY <1>2, <2>3, <3>1 DEF InBody
      <3> QED
        BY <1>1, <2>3, <3>2 DEF InBody
    <2> QED
      BY <2>2, <2>3
  <1> QED
    BY <1>1, <1>3, <1>4
    DEF ImageInv, RunInv, ReadingInv, HeadPhase, BodyPhase

\* Steps that move only the position in the callback.
LEMMA ImagePosition ==
    ASSUME HttpInv, CallType, ImageInv, SocketRead \/ WouldBlock \/ DataAbsent
    PROVE  ImageInv'
  <1>1. /\ UNCHANGED <<told, lookups, overlapped, resp, held, finished, buf, net,
                       toSend, ContentLength, receivedbodydata, flash,
                       httpheader>>
    BY DEF SocketRead, WouldBlock, DataAbsent, runVars, netVars, bufferVars,
           bodyVars, imageVars
  <1>2. ASSUME NEW k \in Nat, AtLine(k) PROVE AtLine(k)'
    BY <1>1, <1>2 DEF AtLine, HeaderOK, Pending
  <1>3. AtLine(HeadLen(resp)) <=> AtLine(HeadLen(resp))'
    BY <1>1 DEF AtLine, HeaderOK, Pending
  <1>4. InBody => InBody'
    BY <1>1, <1>3 DEF InBody, Pending
  <1>5. ASSUME ~overlapped, resp # "noLength" PROVE ReadingInv'
    <2>1. ReadingInv
      BY <1>5 DEF ImageInv
    <2>2. at' # "complete"
      BY DEF SocketRead, WouldBlock, DataAbsent
    <2>3. HeadPhase' => \E k \in Nat : AtLine(k)
      <3>1. CASE SocketRead
        <4>1. /\ at = "idle" /\ held
              /\ at' = CASE ContentLength = 0 -> "head"
                         [] ContentLength = Chunked -> "chunked"
                         [] OTHER -> "body"
          BY <3>1 DEF SocketRead, BufferPresent
        <4>2. HeadPhase' => ContentLength = 0
          BY <4>1 DEF HeadPhase
        <4> QED
          BY <2>1, <4>1, <4>2 DEF ReadingInv, HeadPhase
      <3>2. CASE WouldBlock
        <4>1. at \in {"head", "body"} /\ at' = "idle"
          BY <3>2 DEF WouldBlock
        <4>2. CASE at = "head"
          BY <2>1, <4>2 DEF ReadingInv, HeadPhase
        <4>3. CASE at = "body"
          <5>1. InBody
            BY <2>1, <4>3 DEF ReadingInv, BodyPhase
          <5>2. HeadPhase' => ContentLength = 0
            BY <1>1, <4>1 DEF HeadPhase
          <5>3. BodyLen # 0
            BY Bounds, SMT
          <5>4. HeadLen(resp) \in Nat
            BY LinesShape, SMT DEF CallType
          <5> QED
            BY <5>1, <5>2, <5>3, <5>4 DEF InBody
        <4> QED
          BY <4>1, <4>2, <4>3
      <3>3. CASE DataAbsent
        BY <2>1, <3>3 DEF DataAbsent, ReadingInv, HeadPhase
      <3> QED
        BY <3>1, <3>2, <3>3
    <2>4. BodyPhase' => InBody
      <3>1. CASE SocketRead
        <4>1. /\ at = "idle" /\ held
              /\ at' = CASE ContentLength = 0 -> "head"
                         [] ContentLength = Chunked -> "chunked"
                         [] OTHER -> "body"
          BY <3>1 DEF SocketRead, BufferPresent
        <4>2. BodyPhase' => ContentLength # 0
          BY <4>1 DEF BodyPhase
        <4> QED
          BY <2>1, <4>1, <4>2 DEF ReadingInv, BodyPhase
      <3>2. CASE WouldBlock
        <4>1. at \in {"head", "body"} /\ at' = "idle"
          BY <3>2 DEF WouldBlock
        <4>2. CASE at = "head"
          <5>1. ContentLength = 0
            BY <2>1, <4>2 DEF ReadingInv, HeadPhase, AtLine
          <5> QED
            BY <1>1, <4>1, <5>1 DEF BodyPhase
        <4>3. CASE at = "body"
          BY <2>1, <4>3 DEF ReadingInv, BodyPhase
        <4> QED
          BY <4>1, <4>2, <4>3
      <3>3. CASE DataAbsent
        BY <3>3 DEF DataAbsent, BodyPhase
      <3> QED
        BY <3>1, <3>2, <3>3
    <2> QED
      BY <1>1, <1>2, <1>4, <2>1, <2>2, <2>3, <2>4 DEF ReadingInv
  <1> QED
    BY <1>1, <1>5 DEF ImageInv, RunInv

\* Part of the head is received.
LEMMA ImageHeadData ==
    ASSUME HttpInv, CallType, ImageInv, HeadData
    PROVE  ImageInv'
  <1>1. /\ at = "head" /\ at' = "decode"
        /\ UNCHANGED <<told, lookups, overlapped, resp, held, finished, toSend,
                       ContentLength, receivedbodydata, flash, httpheader>>
    BY DEF HeadData, runVars, bodyVars, imageVars
  <1>2. ASSUME ~overlapped, resp # "noLength" PROVE ReadingInv'
    <2>1. PICK k \in Nat : AtLine(k)
      BY <1>1, <1>2 DEF ImageInv, ReadingInv, HeadPhase
    <2>2. PICK n \in 1..Len(net) :
              /\ buf' = buf \o SubSeq(net, 1, n)
              /\ net' = SubSeq(net, n + 1, Len(net))
      BY DEF HeadData
    <2>3. 2 * k \in Nat
      BY SMT
    <2>4. Pending(buf', net', toSend', resp', 2 * k)
      BY <1>1, <2>1, <2>2, <2>3, PendingTaken
      DEF AtLine, CallType, HttpInv, HttpTyping, Pending
    <2>5. AtLine(k)'
      BY <1>1, <2>1, <2>4 DEF AtLine, HeaderOK
    <2>6. flash = Body(resp) \/ ~finished
      BY <1>2 DEF ImageInv, ReadingInv
    <2> QED
      BY <1>1, <2>5, <2>6 DEF ReadingInv, BodyPhase
  <1> QED
    BY <1>1, <1>2 DEF ImageInv, RunInv

\* A whole line in the buffer is the next one of the response.
LEMMA LineHere ==
    ASSUME HttpInv, CallType, NEW k \in Nat, AtLine(k), WholeLine
    PROVE  /\ k < HeadLen(resp) /\ buf[1][1] = Lines(resp)[k + 1]
           /\ Pending(SubSeq(buf, 3, Len(buf)), net, toSend, resp, 2 * (k + 1))
  <1>1. /\ resp \in Responses /\ buf \in Seq(Units) /\ Len(net) \in Nat
        /\ Len(buf) >= 2 /\ 2 * k \in Nat /\ 2 * k + 2 = 2 * (k + 1)
    <2>1. net \in Seq(Units)
      BY DEF HttpInv, HttpTyping
    <2> QED
      BY <2>1, LenProperties, SMT DEF CallType, HttpInv, HttpTyping, WholeLine
  <1>2. Pending(buf, net, toSend, resp, 2 * k)
    BY DEF AtLine
  <1>3. /\ buf[1] = Stream(resp)[2 * k + 1] /\ 2 * k + 2 <= Len(Stream(resp))
        /\ Pending(SubSeq(buf, 3, Len(buf)), net, toSend, resp, 2 * k + 2)
    BY <1>1, <1>2, PendingLine
  <1>4. HeadLen(resp) \in Nat
        /\ Len(Stream(resp)) = 2 * HeadLen(resp) + BodyUnits(resp)
    BY <1>1, LinesShape, StreamShape, SMT
  <1>5. k < HeadLen(resp)
    <2>1. CASE resp = "empty"
      <3>1. BodyUnits(resp) = 0
        BY <2>1 DEF BodyUnits
      <3> QED
        BY <1>3, <1>4, <3>1, SMT
    <2>2. CASE resp # "empty"
      BY <2>2 DEF AtLine
    <2> QED
      BY <2>1, <2>2
  <1>6. Stream(resp)[2 * k + 1][1] = Lines(resp)[k + 1]
    <2>1. k \in 0..HeadLen(resp) - 1
      BY <1>4, <1>5, SMT
    <2> QED
      BY <1>1, <2>1, StreamShape
  <1> QED
    BY <1>1, <1>3, <1>5, <1>6

\* What DecodeHttpLine changes, field by field.
LEMMA DecodedFields ==
    ASSUME CallType, NEW line
    PROVE  /\ Decoded(line).response = CASE line = "100" -> 1
                                         [] line = "200" -> 2
                                         [] line = "302" -> 3
                                         [] line = "404" -> 4
                                         [] OTHER -> httpheader.response
           /\ line = "length" => /\ Decoded(line).exists
                                 /\ Decoded(line).length = BodyLen
           /\ line = "zero" => /\ Decoded(line).exists
                               /\ Decoded(line).length = 0
           /\ line = "chunked" => ~Decoded(line).exists
           /\ line \notin {"length", "zero", "chunked"} =>
                 /\ Decoded(line).exists = httpheader.exists
                 /\ Decoded(line).length = httpheader.length
  <1>1. httpheader \in [response : 0..4, length : {Chunked, 0, BodyLen},
                        exists : BOOLEAN]
    BY DEF CallType, HeaderType
  <1>2. CASE line = "100"
    BY <1>1, <1>2 DEF Decoded
  <1>3. CASE line = "200"
    BY <1>1, <1>3 DEF Decoded
  <1>4. CASE line = "302"
    BY <1>1, <1>4 DEF Decoded
  <1>5. CASE line = "404"
    BY <1>1, <1>5 DEF Decoded
  <1>6. CASE line = "length"
    BY <1>1, <1>6 DEF Decoded
  <1>7. CASE line = "zero"
    BY <1>1, <1>7 DEF Decoded
  <1>8. CASE line = "chunked"
    BY <1>1, <1>8 DEF Decoded
  <1>9. CASE line \notin {"100", "200", "302", "404", "length", "zero", "chunked"}
    BY <1>1, <1>9 DEF Decoded
  <1> QED
    BY <1>2, <1>3, <1>4, <1>5, <1>6, <1>7, <1>8, <1>9

\* The lines of each head, by the number of lines before them.
LEMMA LineNames ==
    ASSUME NEW r \in Responses, NEW k \in Nat, k < HeadLen(r), NEW line,
           line = Lines(r)[k + 1]
    PROVE  /\ r = "ok" =>
                /\ HeadLen(r) = 3 /\ k \in 0..2
                /\ k = 0 => line = "200"
                /\ k = 1 => line = "length"
                /\ k = 2 => line = "blank"
           /\ r = "continue" =>
                /\ HeadLen(r) = 5 /\ k \in 0..4
                /\ k = 0 => line = "100"
                /\ k = 1 => line = "blank"
                /\ k = 2 => line = "200"
                /\ k = 3 => line = "length"
                /\ k = 4 => line = "blank"
           /\ r = "chunked" =>
                /\ HeadLen(r) = 3 /\ k \in 0..2
                /\ k = 0 => line = "200"
                /\ k = 1 => line = "chunked"
                /\ k = 2 => line = "blank"
           /\ r = "notFound" =>
                /\ HeadLen(r) = 3 /\ k \in 0..2
                /\ k = 0 => line = "404"
                /\ k = 1 => line = "length"
                /\ k = 2 => line = "blank"
           /\ r = "moved" =>
                /\ HeadLen(r) = 2 /\ k \in 0..1
                /\ k = 0 => line = "302"
                /\ k = 1 => line = "blank"
           /\ r = "empty" =>
                /\ HeadLen(r) = 3 /\ k \in 0..2
                /\ k = 0 => line = "200"
                /\ k = 1 => line = "zero"
                /\ k = 2 => line = "blank"
           /\ r = "longLine" =>
                /\ HeadLen(r) = 3 /\ k \in 0..2
                /\ k = 0 => line = "200"
                /\ k = 1 => line = "long"
                /\ k = 2 => line = "blank"
  <1>1. CASE r = "ok"
    BY <1>1, LinesShape, SMT DEF Lines
  <1>2. CASE r = "continue"
    BY <1>2, LinesShape, SMT DEF Lines
  <1>3. CASE r = "chunked"
    BY <1>3, LinesShape, SMT DEF Lines
  <1>4. CASE r = "notFound"
    BY <1>4, LinesShape, SMT DEF Lines
  <1>5. CASE r = "moved"
    BY <1>5, LinesShape, SMT DEF Lines
  <1>6. CASE r = "empty"
    BY <1>6, LinesShape, SMT DEF Lines
  <1>7. CASE r = "longLine"
    BY <1>7, LinesShape, SMT DEF Lines
  <1>8. CASE r = "noLength"
    BY <1>8
  <1> QED
    BY <1>1, <1>2, <1>3, <1>4, <1>5, <1>6, <1>7, <1>8, HttpFotaAssumption

\* A line that does not end the head is decoded: the next is not beyond it.
LEMMA LineDecoded ==
    ASSUME CallType, resp # "noLength", NEW k \in Nat, k < HeadLen(resp),
           HeaderOK(k), Lines(resp)[k + 1] # "long",
           ~(Lines(resp)[k + 1] = "blank" /\ httpheader.response # 1),
           httpheader' = Decoded(Lines(resp)[k + 1]), resp' = resp
    PROVE  k + 1 < HeadLen(resp) /\ HeaderOK(k + 1)'
  <1>0. PICK line : line = Lines(resp)[k + 1]
    OBVIOUS
  <1>1. resp \in Responses
        /\ resp \in {"ok", "continue", "chunked", "notFound", "moved", "empty",
                     "longLine"}
    BY HttpFotaAssumption DEF CallType
  <1>2. CASE resp = "ok"
    BY <1>0, <1>1, <1>2, LineNames, DecodedFields, SMT DEF HeaderOK
  <1>3. CASE resp = "continue"
    BY <1>0, <1>1, <1>3, LineNames, DecodedFields, SMT DEF HeaderOK
  <1>4. CASE resp = "chunked"
    BY <1>0, <1>1, <1>4, LineNames, DecodedFields, SMT DEF HeaderOK
  <1>5. CASE resp = "notFound"
    BY <1>0, <1>1, <1>5, LineNames, DecodedFields, SMT DEF HeaderOK
  <1>6. CASE resp = "moved"
    BY <1>0, <1>1, <1>6, LineNames, DecodedFields, SMT DEF HeaderOK
  <1>7. CASE resp = "empty"
    BY <1>0, <1>1, <1>7, LineNames, DecodedFields, SMT DEF HeaderOK
  <1>8. CASE resp = "longLine"
    BY <1>0, <1>1, <1>8, LineNames, DecodedFields, SMT DEF HeaderOK
  <1> QED
    BY <1>1, <1>2, <1>3, <1>4, <1>5, <1>6, <1>7, <1>8

LEMMA ImageDecodeLine ==
    ASSUME HttpInv, CallType, ImageInv, DecodeLine
    PROVE  ImageInv'
  <1>1. /\ at = "decode" /\ at' = "decode" /\ WholeLine /\ ~HeadEnds
        /\ httpheader' = Decoded(buf[1][1]) /\ buf' = SubSeq(buf, 3, Len(buf))
        /\ UNCHANGED <<told, lookups, overlapped, resp, held, finished, toSend,
                       net, ContentLength, receivedbodydata, flash>>
    BY DEF DecodeLine, runVars, netVars, bodyVars, imageVars
  <1>2. ASSUME ~overlapped, resp # "noLength" PROVE ReadingInv'
    <2>1. PICK k \in Nat : AtLine(k)
      BY <1>1, <1>2 DEF ImageInv, ReadingInv, HeadPhase
    <2>2. /\ k < HeadLen(resp) /\ buf[1][1] = Lines(resp)[k + 1]
          /\ Pending(SubSeq(buf, 3, Len(buf)), net, toSend, resp, 2 * (k + 1))
      BY <1>1, <2>1, LineHere
    <2>3. k + 1 < HeadLen(resp) /\ HeaderOK(k + 1)'
      <3>1. /\ HeaderOK(k) /\ Lines(resp)[k + 1] # "long"
            /\ ~(Lines(resp)[k + 1] = "blank" /\ httpheader.response # 1)
            /\ httpheader' = Decoded(Lines(resp)[k + 1]) /\ resp' = resp
        BY <1>1, <2>1, <2>2 DEF AtLine, WholeLine, HeadEnds
      <3> QED
        BY <1>2, <2>2, <3>1, LineDecoded
    <2>4. AtLine(k + 1)'
      BY <1>1, <2>1, <2>2, <2>3 DEF AtLine
    <2>5. k + 1 \in Nat
      BY SMT
    <2>6. flash = Body(resp) \/ ~finished
      BY <1>2 DEF ImageInv, ReadingInv
    <2> QED
      BY <1>1, <2>4, <2>5, <2>6 DEF ReadingInv, BodyPhase
  <1> QED
    BY <1>1, <1>2 DEF ImageInv, RunInv

\* The head ends with its last line, and the header holds the length.
LEMMA HeadIsOver ==
    ASSUME CallType, resp # "noLength", NEW k \in Nat, k < HeadLen(resp),
           HeaderOK(k), Lines(resp)[k + 1] = "blank", httpheader.response = 2
    PROVE  /\ k + 1 = HeadLen(resp)
           /\ \/ resp \in {"ok", "continue"} /\ BodyLength = BodyLen
              \/ resp = "empty" /\ BodyLength = 0
              \/ resp = "chunked" /\ BodyLength = Chunked
  <1>0. PICK line : line = Lines(resp)[k + 1]
    OBVIOUS
  <1>1. resp \in Responses
        /\ resp \in {"ok", "continue", "chunked", "notFound", "moved", "empty",
                     "longLine"}
    BY HttpFotaAssumption DEF CallType
  <1>2. CASE resp = "ok"
    BY <1>0, <1>1, <1>2, LineNames, SMT DEF HeaderOK, BodyLength
  <1>3. CASE resp = "continue"
    BY <1>0, <1>1, <1>3, LineNames, SMT DEF HeaderOK, BodyLength
  <1>4. CASE resp = "chunked"
    BY <1>0, <1>1, <1>4, LineNames, SMT DEF HeaderOK, BodyLength
  <1>5. CASE resp = "notFound"
    BY <1>0, <1>1, <1>5, LineNames, SMT DEF HeaderOK, BodyLength
  <1>6. CASE resp = "moved"
    BY <1>0, <1>1, <1>6, LineNames, SMT DEF HeaderOK, BodyLength
  <1>7. CASE resp = "empty"
    BY <1>0, <1>1, <1>7, LineNames, SMT DEF HeaderOK, BodyLength
  <1>8. CASE resp = "longLine"
    BY <1>0, <1>1, <1>8, LineNames, SMT DEF HeaderOK, BodyLength
  <1> QED
    BY <1>1, <1>2, <1>3, <1>4, <1>5, <1>6, <1>7, <1>8

LEMMA ImageHeadAccepted ==
    ASSUME HttpInv, CallType, ImageInv, HeadAccepted
    PROVE  ImageInv'
  <1>1. /\ at = "decode" /\ WholeLine /\ buf[1][1] = "blank"
        /\ httpheader.response = 2
        /\ ContentLength' = BodyLength
        /\ httpheader' = [httpheader EXCEPT !.length = BodyLength]
        /\ buf' = SubSeq(buf, 3, Len(buf))
        /\ at' = IF BodyLength = Chunked THEN "chunked" ELSE "body"
        /\ UNCHANGED <<told, lookups, overlapped, resp, held, finished, toSend,
                       net, receivedbodydata, flash>>
    BY DEF HeadAccepted, HeadEnds, runVars, netVars, imageVars
  <1>2. ASSUME ~overlapped, resp # "noLength" PROVE ReadingInv'
    <2>1. PICK k \in Nat : AtLine(k)
      BY <1>1, <1>2 DEF ImageInv, ReadingInv, HeadPhase
    <2>2. /\ k < HeadLen(resp) /\ Lines(resp)[k + 1] = "blank"
          /\ Pending(SubSeq(buf, 3, Len(buf)), net, toSend, resp, 2 * (k + 1))
      BY <1>1, <2>1, LineHere
    <2>3. /\ k + 1 = HeadLen(resp)
          /\ \/ resp \in {"ok", "continue"} /\ BodyLength = BodyLen
             \/ resp = "empty" /\ BodyLength = 0
             \/ resp = "chunked" /\ BodyLength = Chunked
      BY <1>1, <1>2, <2>1, <2>2, HeadIsOver DEF AtLine
    <2>4. Pending(buf', net', toSend', resp', 2 * HeadLen(resp'))
      BY <1>1, <2>2, <2>3
    <2>5. resp \in Responses /\ HeadLen(resp) \in Nat /\ BodyLen # 0
      BY LinesShape, Bounds, SMT DEF CallType
    <2>6. flash = Body(resp) \/ ~finished
      BY <1>2 DEF ImageInv, ReadingInv
    <2>7. CASE resp \in {"ok", "continue"} /\ BodyLength = BodyLen
      <3>1. receivedbodydata' = 0 /\ flash' = <<>> /\ Len(flash') = 0
        BY <1>1, <2>1, EmptySeq DEF AtLine
      <3>2. Part(flash', Stream(resp'), 2 * HeadLen(resp'))
        <4>1. /\ Stream(resp) \in Seq(Units)
              /\ Len(Stream(resp)) = 2 * HeadLen(resp) + BodyUnits(resp)
              /\ BodyUnits(resp) \in Nat
          BY <2>5, StreamShape, BodyShape
        <4>2. Part(<<>>, Stream(resp), 2 * HeadLen(resp))
          BY <2>5, <4>1, PartEmpty, LenProperties, SMT
        <4> QED
          BY <1>1, <3>1, <4>2
      <3>3. 2 * HeadLen(resp') + receivedbodydata' = 2 * HeadLen(resp')
        BY <1>1, <2>5, <3>1, SMT
      <3>4. InBody'
        BY <1>1, <2>4, <2>7, <3>1, <3>2, <3>3 DEF InBody
      <3>5. at' \in {"chunked", "body"}
        BY <1>1
      <3> QED
        BY <1>1, <2>6, <3>4, <3>5 DEF ReadingInv, HeadPhase
    <2>8. CASE resp = "empty" /\ BodyLength = 0
      <3>1. HeadLen(resp) = 3 /\ k = 2
        BY <2>3, <2>5, <2>8, LinesShape, SMT
      <3>2. httpheader.exists /\ httpheader.length = 0
        BY <2>1, <2>8, <3>1, SMT DEF AtLine, HeaderOK
      <3>3. /\ httpheader'.exists /\ httpheader'.length = 0
            /\ httpheader'.response = 2
        BY <1>1, <2>8, <3>2 DEF CallType, HeaderType
      <3>4. HeaderOK(HeadLen(resp))'
        BY <1>1, <2>8, <3>3 DEF HeaderOK
      <3>5. AtLine(HeadLen(resp))'
        BY <1>1, <2>1, <2>4, <2>8, <3>4 DEF AtLine
      <3>6. at' \in {"chunked", "body"}
        BY <1>1
      <3> QED
        BY <1>1, <2>6, <2>8, <3>5, <3>6 DEF ReadingInv, HeadPhase, InBody
    <2>9. CASE BodyLength = Chunked
      BY <1>1, <2>6, <2>9 DEF ReadingInv, HeadPhase, BodyPhase
    <2> QED
      BY <2>3, <2>7, <2>8, <2>9
  <1> QED
    BY <1>1, <1>2 DEF ImageInv, RunInv

\* Data of the body is received and written.
LEMMA ImageBodyData ==
    ASSUME HttpInv, CallType, ImageInv, BodyData
    PROVE  ImageInv'
  <1>1. /\ at = "body" /\ at' \in {"body", "complete"} /\ buf' = <<>>
        /\ UNCHANGED <<told, lookups, overlapped, resp, held, finished, toSend,
                       ContentLength, httpheader>>
    BY DEF BodyData, runVars
  <1>2. held
    BY <1>1 DEF HttpInv, ReadInv
  <1>3. ASSUME ~overlapped, resp # "noLength" PROVE ReadingInv' /\ RunInv'
    <2> DEFINE L == 2 * HeadLen(resp)
               p == L + receivedbodydata
    <2>1. /\ InBody /\ ~finished /\ told = "running" /\ lookups = 0
      <3>1. lookups = 0
        BY <1>2, <1>3, SMT DEF HttpInv, HttpTyping, LookupInv
      <3> QED
        BY <1>1, <1>2, <1>3, <3>1 DEF ImageInv, RunInv, ReadingInv, BodyPhase
    <2>2. PICK n \in 1..Len(net) :
              /\ flash' = IF receivedbodydata <= ContentLength
                          THEN flash \o Written(n) ELSE flash
              /\ receivedbodydata' = receivedbodydata + Len(Written(n))
              /\ at' = IF receivedbodydata' >= ContentLength
                       THEN "complete" ELSE "body"
              /\ net' = SubSeq(net, n + 1, Len(net))
      BY DEF BodyData
    <2>3. /\ resp \in Responses /\ HeadLen(resp) \in Nat /\ L \in Nat
          /\ buf \in Seq(Units) /\ net \in Seq(Units) /\ toSend \in Seq(Units)
          /\ flash \in Seq(Units) /\ receivedbodydata \in Nat /\ p \in Nat
          /\ Len(net) \in Nat /\ Len(buf) \in Nat /\ BodyUnits(resp) \in Nat
          /\ Len(Stream(resp)) = L + BodyUnits(resp)
      <3>1. resp \in Responses
        BY DEF CallType
      <3>2. HeadLen(resp) \in Nat /\ BodyUnits(resp) \in Nat
        BY <3>1, LinesShape, BodyShape, SMT
      <3>3. /\ buf \in Seq(Units) /\ net \in Seq(Units) /\ toSend \in Seq(Units)
            /\ flash \in Seq(Units) /\ receivedbodydata \in Nat
        BY DEF CallType, ImageType, HttpInv, HttpTyping
      <3>4. L \in Nat /\ p \in Nat
        BY <3>2, <3>3, SMT
      <3> QED
        BY <3>1, <3>2, <3>3, <3>4, StreamShape, LenProperties
    <2>4. ~(resp = "empty" /\ AtLine(HeadLen(resp)))
      <3> SUFFICES ASSUME resp = "empty", AtLine(HeadLen(resp)) PROVE FALSE
        OBVIOUS
      <3>1. L + Len(buf) + Len(net) <= Len(Stream(resp))
        BY DEF AtLine, Pending, Part
      <3>2. BodyUnits(resp) = 0 /\ Len(net) >= 1
        BY <2>2, <2>3, SMT DEF BodyUnits
      <3> HIDE DEF L
      <3> QED
        BY <2>3, <3>1, <3>2, SMT
    <2>5. /\ resp \in {"ok", "continue"} /\ ContentLength = BodyLen
          /\ BodyUnits(resp) = BodyLen
          /\ Len(flash) = receivedbodydata
          /\ Part(flash, Stream(resp), L)
          /\ Pending(buf, net, toSend, resp, p)
      BY <2>1, <2>4 DEF InBody, BodyUnits
    <2> DEFINE data == Written(n)
    <2>6. /\ data \in Seq(Units) /\ Len(data) \in Nat
          /\ Part(data, Stream(resp), p)
          /\ Part(net', Stream(resp), p + Len(data))
          /\ Part(toSend, Stream(resp), p + Len(data) + Len(net'))
      BY <2>2, <2>3, <2>5, PendingTaken, LenProperties DEF Written
    <2> HIDE DEF data
    <2>7. Stream(resp) \in Seq(Units)
      BY <2>3, StreamShape
    <2>8. /\ Part(flash \o data, Stream(resp), L)
          /\ Len(flash \o data) = receivedbodydata + Len(data)
          /\ flash \o data \in Seq(Units)
      <3> HIDE DEF L
      <3>1. Part(data, Stream(resp), L + Len(flash))
        BY <2>5, <2>6 DEF p
      <3> QED
        BY <2>3, <2>5, <2>6, <2>7, <3>1, PartConcat, ConcatProperties
    <2>9. /\ receivedbodydata + Len(data) <= BodyLen
          /\ receivedbodydata <= ContentLength
      <3>1. L + (receivedbodydata + Len(data)) <= L + BodyLen
        BY <2>3, <2>5, <2>8 DEF Part
      <3> HIDE DEF L
      <3> QED
        BY <2>3, <2>5, <2>6, <3>1, Bounds, SMT
    <2>10. /\ flash' = flash \o data
           /\ receivedbodydata' = receivedbodydata + Len(data)
           /\ Len(flash') = receivedbodydata'
      BY <2>2, <2>8, <2>9 DEF data
    <2>11. CASE at' = "complete"
      <3>1. Len(flash') = BodyLen
        BY <2>2, <2>3, <2>5, <2>6, <2>9, <2>10, <2>11, Bounds, SMT
      <3>2. /\ Part(Body(resp), Stream(resp), L) /\ Body(resp) \in Seq(Units)
            /\ Len(Body(resp)) = BodyLen
        BY <2>3, <2>5, StreamShape, BodyShape
      <3>3. flash' = Body(resp)
        BY <2>8, <2>10, <3>1, <3>2, PartSame
      <3> QED
        BY <1>1, <2>1, <2>11, <3>3, SMT
        DEF ReadingInv, RunInv, HeadPhase, BodyPhase
    <2>12. CASE at' = "body"
      <3>1. Pending(<<>>, net', toSend', resp, p + Len(data))
        <4>1. p + Len(data) \in Nat /\ p + Len(data) <= Len(Stream(resp))
          <5>1. Len(net') \in Nat
            BY <1>1, <2>2, <2>3, Parts, LenProperties, SMT
          <5> HIDE DEF p
          <5> QED
            BY <2>3, <2>6, SMT DEF Part
        <4>2. Part(<<>>, Stream(resp), p + Len(data)) /\ Len(<<>>) = 0
          BY <2>3, <2>7, <4>1, PartEmpty, EmptySeq, LenProperties
        <4>3. p + Len(data) + 0 = p + Len(data)
          BY <4>1, SMT
        <4> QED
          BY <1>1, <2>6, <4>2, <4>3 DEF Pending
      <3>2. p + Len(data) = L + receivedbodydata'
        <4> HIDE DEF L
        <4>1. L + receivedbodydata + Len(data) = L + (receivedbodydata + Len(data))
          BY <2>3, <2>6, SMT
        <4> QED
          BY <2>10, <4>1
      <3>3. InBody'
        BY <1>1, <2>5, <2>8, <2>10, <3>1, <3>2 DEF InBody
      <3> QED
        BY <1>1, <2>1, <2>12, <3>3, SMT DEF ReadingInv, RunInv, HeadPhase
    <2> QED
      BY <1>1, <2>11, <2>12
  <1>4. ASSUME ~overlapped PROVE RunInv'
    <2>1. lookups = 0 /\ ~finished /\ told = "running"
      BY <1>2, <1>4, SMT DEF HttpInv, HttpTyping, LookupInv, ImageInv, RunInv
    <2> QED
      BY <1>1, <2>1, SMT DEF RunInv
  <1> QED
    BY <1>1, <1>3, <1>4 DEF ImageInv

\* The image is handed over, and accepted or not.
LEMMA ImageComplete ==
    ASSUME HttpInv, ImageInv, Complete
    PROVE  ImageInv'
  <1>1. /\ at = "complete" /\ at' = "idle" /\ ~held'
        /\ UNCHANGED <<lookups, overlapped, resp, receivedbodydata, flash>>
    BY DEF Complete, runVars, netVars, bodyVars
  <1>2. held
    BY <1>1 DEF HttpInv, ReadInv
  <1>3. ASSUME ~overlapped PROVE ~(lookups > 0)
    BY <1>2, <1>3 DEF HttpInv, LookupInv
  <1> QED
    BY <1>1, <1>3 DEF ImageInv, RunInv, ReadingInv, HeadPhase, BodyPhase

\* The other steps end the upgrade.
LEMMA ImageEnds ==
    ASSUME ImageInv,
           \/ ReadError \/ http_TimerCallback \/ PeerClosed \/ HeadStuck
           \/ HeadRefused \/ ChunkedBody \/ WriteFailed
    PROVE  ImageInv'
  <1>1. /\ at' = "idle" /\ ~held'
        /\ UNCHANGED <<overlapped, lookups, resp, receivedbodydata, flash,
                       finished>>
    BY DEF ReadError, http_TimerCallback, PeerClosed, HeadStuck, HeadRefused,
           ChunkedBody, WriteFailed, Abandon, OnSocClose, runVars, netVars,
           bodyVars, imageVars
  <1> QED
    BY <1>1, ImageGone

\* An image that Ql_FOTA_Finish accepts is the body of the response, whole and
\* in order, however the network cuts the response into pieces, for every size
\* of the receive buffer and of the image (fota_http.c:445-470, 517-573).
THEOREM HttpImageExact == Spec => []ImageExact
  <1>1. HttpInv /\ HttpInv' /\ CallType /\ ImageInv /\ [Next]_vars => ImageInv'
    <2> SUFFICES ASSUME HttpInv, HttpInv', CallType, ImageInv, [Next]_vars
                 PROVE  ImageInv'
      OBVIOUS
    <2>1. CASE UNCHANGED vars
      BY <2>1
      DEF vars, runVars, netVars, bufferVars, bodyVars, imageVars, ImageInv,
          RunInv, ReadingInv, HeadPhase, BodyPhase, InBody, AtLine, HeaderOK,
          Pending
    <2> QED
      BY <2>1, ImageStart, ImageLookup, ImageNetwork, ImagePosition,
         ImageHeadData, ImageDecodeLine, ImageHeadAccepted, ImageBodyData,
         ImageComplete, ImageEnds
      DEF Next, ReadStep
  <1>2. ImageInv => ImageExact
    BY DEF ImageInv, ReadingInv, ImageExact
  <1> QED
    BY <1>1, <1>2, ImageInit, HttpCallType, HttpInvariant, PTL DEF Spec
=============================================================================
