------------------------------ MODULE HttpFota ------------------------------
(***************************************************************************)
(* Firmware update over HTTP: mc60/custom/fota/src/fota_http.c with the    *)
(* header decoder of fota_http_code.c and the start and state reports of   *)
(* fota_main.c.                                                            *)
(*                                                                         *)
(* The task that starts an upgrade also runs every callback (DNS answer,   *)
(* socket read, timer), so callbacks never overlap; the server and the     *)
(* network move between any two receptions of a read callback's loop.  A   *)
(* read callback is therefore a sequence of steps with the position in     *)
(* "at", and every other handler is one step.                              *)
(*                                                                         *)
(* The response is a stream of units: each header line is two units, a     *)
(* first half that find_linesymbol cannot complete and its end, and each   *)
(* body unit carries its position.  Where a header line starts inside the  *)
(* receive buffer (genhttp_dstpos) is layout and left out: buf is the      *)
(* valid data.                                                             *)
(*                                                                         *)
(* A definition whose comment begins with "Faulty" is not used: it stands  *)
(* for a plausible mistake in the definition that follows it, under which  *)
(* some property below fails.                                              *)
(***************************************************************************)
EXTENDS Integers, Sequences

CONSTANTS
    BodyLen,             \* units of the firmware image
    BufSize,             \* QUECTEL_HTTP_DATABUFFER_SIZE
    MaxStarts,           \* bound: calls of Ql_FOTA_StartUpgrade
    MaxStale,            \* bound: events of sockets an earlier start left open
    Responses            \* the kinds of response the server may give

ASSUME HttpFotaAssumption ==
    /\ BodyLen \in Nat \ {0}
    /\ BufSize \in Nat \ {0, 1}
    /\ MaxStarts \in Nat \ {0}
    /\ MaxStale \in Nat
    /\ Responses \subseteq {"ok", "continue", "noLength", "chunked",
                            "notFound", "moved", "empty", "longLine"}

VARIABLES
    told,                \* the last verdict the application has
    starts,              \* calls of Ql_FOTA_StartUpgrade
    leftOpen,            \* has an earlier start left a connection open?
    staleEvents,         \* events of such connections
    overlapped,          \* history: a start came before the last one's DNS
                         \* answer
    lookups,             \* DNS requests not yet answered
    resp, toSend, net,   \* the response; what the server still sends; what
                         \* the socket holds
    peer,                \* the server's end: "none", "open", "closed"
    bpeersocketclose,
    held,                \* http_socketdata_p # NULL
    buf,                 \* the valid data of the receive buffer
    at,                  \* position in Httpcallback_socket_read
    timerOn,             \* does the timer 0x2F run?
    httpGettimerstate,
    httpheader,          \* never reset: it outlives an upgrade
    ContentLength, receivedbodydata,
    flash,               \* what Ql_FOTA_WriteData has written since Init
    finished,            \* has Ql_FOTA_Finish accepted it?
    fileDLpresentReport  \* the last percentage reported

runVars    == <<starts, leftOpen, staleEvents, overlapped>>
netVars    == <<resp, toSend, net, peer>>
timerVars  == <<timerOn, httpGettimerstate>>
bufferVars == <<held, buf>>
bodyVars   == <<ContentLength, receivedbodydata>>
imageVars  == <<flash, finished, fileDLpresentReport>>
vars == <<told, runVars, lookups, netVars, bpeersocketclose, bufferVars, at,
          timerVars, httpheader, bodyVars, imageVars>>

Verdicts == {"none", "running", "failed", "reboot", "rebooted"}
Chunked  == -1           \* 0xFFFFFFFF

Lines(r) ==
    CASE r = "ok"       -> <<"200", "length", "blank">>
      [] r = "continue" -> <<"100", "blank", "200", "length", "blank">>
      [] r = "noLength" -> <<"200", "blank">>
      [] r = "chunked"  -> <<"200", "chunked", "blank">>
      [] r = "notFound" -> <<"404", "length", "blank">>
      [] r = "moved"    -> <<"302", "blank">>
      [] r = "empty"    -> <<"200", "zero", "blank">>
      [] r = "longLine" -> <<"200", "long", "blank">>

Units == {"100", "200", "302", "404", "length", "zero", "chunked", "long",
          "blank", "body"} \X (0..BodyLen)

Body(r) == [i \in 1..(IF r = "empty" THEN 0 ELSE BodyLen) |-> <<"body", i>>]

\* What the server sends: every line in two units, then the body.
Stream(r) ==
    [i \in 1..2 * Len(Lines(r)) |-> <<Lines(r)[(i + 1) \div 2], i % 2>>]
        \o Body(r)

-----------------------------------------------------------------------------

Init ==
    /\ told = "none" /\ starts = 0 /\ leftOpen = FALSE /\ staleEvents = 0
    /\ lookups = 0 /\ overlapped = FALSE
    /\ resp \in Responses /\ toSend = <<>> /\ net = <<>> /\ peer = "none"
    /\ bpeersocketclose = FALSE
    /\ held = FALSE /\ buf = <<>> /\ at = "idle"
    /\ timerOn = FALSE /\ httpGettimerstate = FALSE
    /\ httpheader = [response |-> 0, length |-> 0, exists |-> FALSE]
    /\ ContentLength = 0 /\ receivedbodydata = 0
    /\ flash = <<>> /\ finished = FALSE /\ fileDLpresentReport = 0

\* The application starts an upgrade when it has none going, as far as it
\* was told.
MayStart ==
    /\ at = "idle" /\ told \in {"none", "failed"} /\ starts < MaxStarts
    /\ starts' = starts + 1 /\ UNCHANGED staleEvents
    /\ overlapped' = (overlapped \/ lookups > 0)

\* Ql_FOTA_StartUpgrade gives up before anything is touched: no PDP context,
\* FOTA initialisation refused, or the URL is not HTTP.
StartRefused ==
    /\ MayStart
    /\ told' = "failed"
    /\ UNCHANGED <<leftOpen, lookups, netVars, bpeersocketclose, bufferVars, at,
                   timerVars, httpheader, bodyVars, imageVars>>

\* Ql_FOTA_Init: the image is written from its beginning again.
Ql_FOTA_Init ==
    flash' = <<>> /\ finished' = FALSE /\ fileDLpresentReport' = 0

\* HTTP_FotaMain cannot activate GPRS.
NoGprs ==
    /\ MayStart /\ Ql_FOTA_Init
    /\ told' = "failed"
    /\ UNCHANGED <<leftOpen, lookups, netVars, bpeersocketclose, bufferVars, at,
                   timerVars, httpheader, bodyVars>>

\* http_initialize and a new socket.  The previous socket is not closed, the
\* timer not stopped, httpheader and bpeersocketclose keep their values.
http_initialize ==
    /\ held' = FALSE /\ buf' = <<>>
    /\ httpGettimerstate' = FALSE
    /\ ContentLength' = 0 /\ receivedbodydata' = 0

LeaveSocket == leftOpen' = (leftOpen \/ peer # "none")

NoConnection ==
    /\ peer' = "none" /\ net' = <<>> /\ toSend' = <<>>
    /\ UNCHANGED resp

\* The connection is refused.
ConnectFailed ==
    /\ told' = "failed"
    /\ UNCHANGED <<bpeersocketclose, timerOn>>

\* Connected, but the request could not be sent or no buffer allocated: the
\* socket is closed.
RequestFailed ==
    /\ told' = "failed"
    /\ bpeersocketclose' = TRUE
    /\ NoConnection
    /\ UNCHANGED timerOn

\* Connected, request sent, buffer allocated, timer started.
Requested ==
    /\ told' = "running"
    /\ bpeersocketclose' = FALSE
    /\ peer' = "open" /\ net' = <<>>
    /\ resp' \in Responses
    /\ toSend' = Stream(resp')
    /\ timerOn' = TRUE

\* http_GetImagefilefromServer, for a host that was given as an address.
StartByAddress ==
    /\ MayStart /\ Ql_FOTA_Init /\ LeaveSocket
    /\ \/ /\ http_initialize
          /\ (ConnectFailed /\ NoConnection) \/ RequestFailed
       \/ /\ Requested
          /\ held' = TRUE /\ buf' = <<>>
          /\ httpGettimerstate' = TRUE
          /\ ContentLength' = 0 /\ receivedbodydata' = 0
    /\ UNCHANGED <<lookups, at, httpheader>>

\* For a host name: a lookup is requested, or cannot be; in the second case
\* the failure is reported although HTTP_FotaMain returns 0.  A URL that
\* cannot be decoded takes this branch with an empty name.
StartByName ==
    /\ MayStart /\ Ql_FOTA_Init /\ LeaveSocket /\ http_initialize
    /\ \/ told' = "running" /\ lookups' = lookups + 1
       \/ told' = "failed" /\ UNCHANGED lookups
    /\ NoConnection
    /\ UNCHANGED <<bpeersocketclose, at, timerOn, httpheader>>

\* Callback_GetIpByHostName: no address, or http_GetImagefilefromServer.
Callback_GetIpByHostName ==
    /\ at = "idle" /\ lookups > 0
    /\ lookups' = lookups - 1
    /\ \/ /\ ConnectFailed
          /\ UNCHANGED <<netVars, held, httpGettimerstate>>
       \/ /\ RequestFailed
          /\ held' = FALSE /\ UNCHANGED httpGettimerstate
       \/ Requested /\ held' = TRUE /\ httpGettimerstate' = TRUE
    /\ UNCHANGED <<runVars, buf, at, httpheader, bodyVars, imageVars>>

-----------------------------------------------------------------------------
(* The server and the network.                                             *)

\* Part of the response arrives.
Arrive ==
    /\ toSend # <<>>
    /\ \E n \in 1..Len(toSend) :
          /\ net' = net \o SubSeq(toSend, 1, n)
          /\ toSend' = SubSeq(toSend, n + 1, Len(toSend))
    /\ UNCHANGED <<told, runVars, lookups, resp, peer, bpeersocketclose,
                   bufferVars, at, timerVars, httpheader, bodyVars, imageVars>>

\* The server closes: when it has sent everything, or before.
PeerCloses ==
    /\ peer = "open"
    /\ peer' = "closed" /\ toSend' = <<>>
    /\ UNCHANGED <<told, runVars, lookups, resp, net, bpeersocketclose,
                   bufferVars, at, timerVars, httpheader, bodyVars, imageVars>>

-----------------------------------------------------------------------------
(* Httpcallback_socket_read.                                               *)

\* Faulty: the failure is not reported.
AbandonSilently ==
    UNCHANGED told /\ held' = FALSE /\ at' = "idle"

\* A failure inside the callback: the buffer is freed and the failure told;
\* the socket stays open and the timer as it is.
Abandon ==
    /\ told' = "failed" /\ held' = FALSE /\ at' = "idle"

\* The callback does not look at which socket it is called for: the event is
\* of the current connection ("due"), or of one an earlier start left open.
SocketEvent(due) ==
    \/ due /\ UNCHANGED staleEvents
    \/ /\ leftOpen /\ staleEvents < MaxStale
       /\ staleEvents' = staleEvents + 1

\* The callback with an error code.
ReadError ==
    /\ at = "idle"
    /\ SocketEvent(peer # "none")
    /\ Abandon
    /\ UNCHANGED <<starts, leftOpen, overlapped, lookups, netVars,
                   bpeersocketclose, buf, timerVars,
                   httpheader, bodyVars, imageVars>>

\* Faulty: the freed buffer is not noticed.
BufferIgnored == TRUE

\* After a failure, a timeout or the end of the download the buffer is gone,
\* and further read events are ignored.
BufferPresent == held

\* Faulty: the flag says that the timer runs when it was just stopped.
StopMarksRunning ==
    /\ timerOn' = FALSE
    /\ httpGettimerstate' = TRUE

\* The timer is stopped if httpGettimerstate says it runs.
StopTimer ==
    IF httpGettimerstate THEN timerOn' = FALSE /\ httpGettimerstate' = FALSE
                         ELSE UNCHANGED timerVars

\* The callback without an error: data or a close is there to be read, or the
\* event is of an earlier socket.
SocketRead ==
    /\ at = "idle" /\ BufferPresent
    /\ SocketEvent(net # <<>> \/ peer = "closed")
    /\ StopTimer
    /\ at' = CASE ContentLength = 0 -> "head"
               [] ContentLength = Chunked -> "chunked"
               [] OTHER -> "body"
    /\ UNCHANGED <<told, starts, leftOpen, overlapped, lookups, netVars,
                   bpeersocketclose, bufferVars, httpheader, bodyVars,
                   imageVars>>

\* Faulty: the buffer's limit is forgotten.
AllOfIt(n) == n = Len(net)

\* Ql_SOC_Recv returns part of what has arrived, as the buffer allows.
Fits(n) == n <= BufSize - Len(buf)

\* Ql_SOC_Recv would block: the callback returns and waits for the next
\* event.  The timer is started but httpGettimerstate stays FALSE.
WouldBlock ==
    /\ at \in {"head", "body"}
    /\ Len(buf) < BufSize /\ ~bpeersocketclose
    /\ net = <<>> /\ peer # "closed"
    /\ timerOn' = (timerOn \/ ~httpGettimerstate)
    /\ at' = "idle"
    /\ UNCHANGED <<told, runVars, lookups, netVars, bpeersocketclose,
                   bufferVars, httpGettimerstate, httpheader, bodyVars,
                   imageVars>>

\* Faulty: a closed connection is not an error for the loop.
KeepLooping == UNCHANGED <<told, held, at>>

\* What HTTP_RESULT_ERROR_SOC_CLOSE leads to.
OnSocClose == Abandon

\* Ql_SOC_Recv returns 0: the server has closed and all data is read.
PeerClosed ==
    /\ at \in {"head", "body"}
    /\ Len(buf) < BufSize /\ ~bpeersocketclose
    /\ net = <<>> /\ peer = "closed"
    /\ bpeersocketclose' = TRUE
    /\ OnSocClose
    /\ UNCHANGED <<runVars, lookups, netVars, buf, timerVars, httpheader,
                   bodyVars, imageVars>>

\* http_RecvHttpHead receives.
HeadData ==
    /\ at = "head" /\ ~bpeersocketclose
    /\ \E n \in 1..Len(net) :
          /\ Fits(n)
          /\ buf' = buf \o SubSeq(net, 1, n)
          /\ net' = SubSeq(net, n + 1, Len(net))
    /\ at' = "decode"
    /\ UNCHANGED <<told, runVars, lookups, resp, toSend, peer,
                   bpeersocketclose, held, timerVars, httpheader, bodyVars,
                   imageVars>>

\* The buffer is full and holds no whole line, or the socket is known to be
\* closed: HTTP_RESULT_ERROR_DECODEERROR.
HeadStuck ==
    /\ at = "head"
    /\ Len(buf) = BufSize \/ bpeersocketclose
    /\ Abandon
    /\ UNCHANGED <<runVars, lookups, netVars, bpeersocketclose, buf, timerVars,
                   httpheader, bodyVars, imageVars>>

\* DecodeHttpLine: what a header line does to httpheader.
Decoded(line) ==
    CASE line \in {"100", "200", "302", "404"} ->
            [httpheader EXCEPT !.response =
                CASE line = "100" -> 1 [] line = "200" -> 2
                  [] line = "302" -> 3 [] line = "404" -> 4]
      [] line = "length" -> [httpheader EXCEPT !.length = BodyLen,
                                               !.exists = TRUE]
      [] line = "zero"   -> [httpheader EXCEPT !.length = 0, !.exists = TRUE]
      [] line = "chunked" -> [httpheader EXCEPT !.length = Chunked,
                                                !.exists = FALSE]
      [] OTHER -> httpheader

\* A "long" line does not fit into the receive buffer.
WholeLine == Len(buf) >= 2 /\ buf[1][1] # "long"

\* The blank line ends the head, unless the response is 1xx.
HeadEnds == buf[1][1] = "blank" /\ httpheader.response # 1

\* http_DecodeHeader consumes a line, and the head goes on.
DecodeLine ==
    /\ at = "decode" /\ WholeLine /\ ~HeadEnds
    /\ httpheader' = Decoded(buf[1][1])
    /\ buf' = SubSeq(buf, 3, Len(buf))
    /\ UNCHANGED <<told, runVars, lookups, netVars, bpeersocketclose, held, at,
                   timerVars, bodyVars, imageVars>>

\* HTTP_CODERESULT_DATAABSENT: receive more.
DataAbsent ==
    /\ at = "decode" /\ ~WholeLine
    /\ at' = "head"
    /\ UNCHANGED <<told, runVars, lookups, netVars, bpeersocketclose,
                   bufferVars, timerVars, httpheader, bodyVars, imageVars>>

\* HTTP_CODERESULT_END of a response that is not 2xx.
HeadRefused ==
    /\ at = "decode" /\ WholeLine /\ HeadEnds
    /\ httpheader.response # 2
    /\ Abandon
    /\ buf' = SubSeq(buf, 3, Len(buf))
    /\ UNCHANGED <<runVars, lookups, netVars, bpeersocketclose, timerVars,
                   httpheader, bodyVars, imageVars>>

\* The length the body is read to; without one the body is taken as chunked.
BodyLength == IF httpheader.exists THEN httpheader.length ELSE Chunked

\* HTTP_CODERESULT_END of a 2xx response: the body follows at once.
HeadAccepted ==
    /\ at = "decode" /\ WholeLine /\ HeadEnds
    /\ httpheader.response = 2
    /\ ContentLength' = BodyLength
    /\ httpheader' = [httpheader EXCEPT !.length = BodyLength]
    /\ buf' = SubSeq(buf, 3, Len(buf))
    /\ at' = IF BodyLength = Chunked THEN "chunked" ELSE "body"
    /\ UNCHANGED <<told, runVars, lookups, netVars, bpeersocketclose, held,
                   timerVars, receivedbodydata, imageVars>>

\* http_RecvHttpChunkedBody: not supported.
ChunkedBody ==
    /\ at = "chunked"
    /\ Abandon
    /\ UNCHANGED <<runVars, lookups, netVars, bpeersocketclose, buf, timerVars,
                   httpheader, bodyVars, imageVars>>

\* Faulty: what was just received is put before what the buffer held.
NewDataFirst(n) == SubSeq(net, 1, n) \o buf

\* The data written: what the buffer held and what was received.
Written(n) == buf \o SubSeq(net, 1, n)

\* A division by zero, in the body of an empty response, gives 0: the default of
\* the ARM run-time library.
Percent(received) ==
    IF ContentLength = 0 THEN 0 ELSE (100 * received) \div ContentLength

\* http_RecvHttpBody: data is received and written.
\* A percentage is reported when it is a multiple of 5 and not the one
\* reported before.  fileDLpresentReport is a local that is read before it is
\* set: in the first pass of a callback the comparison may have any result.
BodyData ==
    /\ at = "body" /\ ~bpeersocketclose
    /\ \E n \in 1..Len(net) :
          /\ Fits(n)
          /\ LET data == Written(n)
                 received == receivedbodydata + Len(data)
                 percent == Percent(received)
             IN /\ flash' = IF receivedbodydata <= ContentLength
                            THEN flash \o data ELSE flash
                /\ receivedbodydata' = received
                /\ fileDLpresentReport' \in
                      IF percent % 5 = 0 THEN {fileDLpresentReport, percent}
                                         ELSE {fileDLpresentReport}
                /\ at' = IF received >= ContentLength THEN "complete"
                                                      ELSE "body"
          /\ net' = SubSeq(net, n + 1, Len(net))
    /\ buf' = <<>>
    /\ UNCHANGED <<told, runVars, lookups, resp, toSend, peer,
                   bpeersocketclose, held, timerVars, httpheader,
                   ContentLength, finished>>

\* Ql_FOTA_WriteData fails.
WriteFailed ==
    /\ at = "body" /\ ~bpeersocketclose
    /\ \E n \in 1..Len(net) :
          /\ Fits(n)
          /\ buf' = buf \o SubSeq(net, 1, n)
          /\ net' = SubSeq(net, n + 1, Len(net))
    /\ Abandon
    /\ UNCHANGED <<runVars, lookups, resp, toSend, peer, bpeersocketclose,
                   timerVars, httpheader, bodyVars, imageVars>>

\* All is received: Ql_FOTA_Finish, the report UP_SYSTEM_REBOOT and, if the
\* application agrees, Ql_FOTA_Update, which does not come back when it works.
Complete ==
    /\ at = "complete"
    /\ bpeersocketclose' = TRUE
    /\ held' = FALSE /\ at' = "idle"
    /\ \/ told' = "failed" /\ UNCHANGED finished
       \/ told' \in {"reboot", "rebooted", "failed"} /\ finished' = TRUE
    /\ UNCHANGED <<runVars, lookups, netVars, buf, timerVars, httpheader,
                   bodyVars, flash, fileDLpresentReport>>

-----------------------------------------------------------------------------

\* http_TimerCallback: the buffer is freed, the socket stays open.
http_TimerCallback ==
    /\ at = "idle" /\ timerOn
    /\ timerOn' = FALSE /\ httpGettimerstate' = FALSE
    /\ told' = "failed"
    /\ held' = FALSE
    /\ UNCHANGED <<runVars, lookups, netVars, bpeersocketclose, buf, at,
                   httpheader, bodyVars, imageVars>>

Start == StartRefused \/ NoGprs \/ StartByAddress \/ StartByName

ReadStep ==
    \/ WouldBlock \/ PeerClosed
    \/ HeadData \/ HeadStuck \/ DecodeLine \/ DataAbsent
    \/ HeadRefused \/ HeadAccepted \/ ChunkedBody
    \/ BodyData \/ WriteFailed \/ Complete

Next ==
    /\ told # "rebooted"
    /\ \/ Start \/ Callback_GetIpByHostName
       \/ Arrive \/ PeerCloses
       \/ ReadError \/ SocketRead \/ ReadStep
       \/ http_TimerCallback

Spec == Init /\ [][Next]_vars

\* A callback runs to its end, a lookup is answered and a running timer
\* expires.  Nothing is assumed of the server.
FairSpec ==
    /\ Spec
    /\ WF_vars(told # "rebooted" /\ ReadStep)
    /\ WF_vars(told # "rebooted" /\ Callback_GetIpByHostName)
    /\ WF_vars(told # "rebooted" /\ http_TimerCallback)

-----------------------------------------------------------------------------
(* Properties.                                                             *)

\* Type invariant.
TypeOK ==
    /\ told \in Verdicts
    /\ starts \in 0..MaxStarts /\ staleEvents \in 0..MaxStale
    /\ lookups \in 0..MaxStarts
    /\ leftOpen \in BOOLEAN /\ overlapped \in BOOLEAN
    /\ resp \in Responses /\ peer \in {"none", "open", "closed"}
    /\ toSend \in Seq(Units) /\ net \in Seq(Units) /\ buf \in Seq(Units)
    /\ flash \in Seq(Units)
    /\ bpeersocketclose \in BOOLEAN /\ held \in BOOLEAN
    /\ Len(buf) <= BufSize
    /\ at \in {"idle", "head", "decode", "chunked", "body", "complete"}
    /\ timerOn \in BOOLEAN /\ httpGettimerstate \in BOOLEAN
    /\ httpheader.response \in 0..4 /\ httpheader.exists \in BOOLEAN
    /\ ContentLength \in {Chunked, 0, BodyLen}
    /\ receivedbodydata \in Nat
    /\ finished \in BOOLEAN /\ fileDLpresentReport \in Nat

\* An image handed to Ql_FOTA_Finish is the body of the response, whole, in
\* order and without a byte of the head, however the network cuts the
\* response into pieces (fota_http.c:445-470, 517-573).  Excepted are two DNS
\* answers for one connection, where the second sends another request into
\* the download of the first, and a response without a length, which is read
\* to a length left over from an earlier one (LengthRequired).
ImageExact ==
    finished /\ ~overlapped /\ resp # "noLength" => flash = Body(resp)

\* A read callback that still has something to do has its buffer: no data is
\* received into memory that a timeout, an error or the end of the download
\* has freed (fota_http.c:649-654, 755-759).
BufferHeld == at # "idle" => held

\* The body loop never starts a pass in which it can neither receive nor
\* return: it would spin for ever in the application's task
\* (fota_http.c:531, 632).  Two DNS answers for one connection are excepted
\* here too: a full buffer of the first download stays for the second.
NeverSpins ==
    at = "body" => /\ ~bpeersocketclose
                   /\ overlapped \/ Len(buf) < BufSize

\* While the download waits for the server, the timer that ends the wait is
\* running (fota_http.c:255-256, 398-406, 535-543, 655-659).
WaitIsTimed == told = "running" /\ at = "idle" /\ held => timerOn

\* Every upgrade that was started ends with a verdict for the application,
\* whatever the server does (fota_http.c:74-181, 635-686, 744-761), but for
\* the callback that spins after two DNS answers.
Answered == told = "running" ~> told # "running" \/ overlapped

\* The timer's comment: "http send get head ,but server no response. or read
\* data form http server no response" (fota_http.c:748).  So it does not
\* expire when the whole image has been received and accepted.
TimeoutMeansSilence == [][http_TimerCallback => ~finished]_vars

\* A response without a length is refused as "chunked", which is not
\* supported (fota_http.c:446-464, 498-505): its body is never taken for the
\* image.
LengthRequired == finished => resp # "noLength"
=============================================================================
