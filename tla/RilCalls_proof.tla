--------------------------- MODULE RilCalls_proof ---------------------------
(***************************************************************************)
(* Proofs about the calls of the radio interface, for every greatest       *)
(* number the modem answers and every number of lines of earlier commands  *)
(* on their way.                                                           *)
(*                                                                         *)
(* RilTypeOK: the lines on the wire are replies, those of earlier commands *)
(* first.  Every reply is one or more lines of the command in flight, and  *)
(* every call is a sequence of commands of a few kinds.                    *)
(*                                                                         *)
(* AnswersAreTrue: while a call has met no line of an earlier command,     *)
(* what is on its way for it is nothing (the time will be up), a refusal,  *)
(* the question for the data, or lines at the first, second or third of    *)
(* which the command ends well, with what the modem said in the variable   *)
(* (OnTrack); and the commands before have ended well (Going).  That every *)
(* kind of command ends well whatever the modem answers is a lemma for     *)
(* each kind; the steps of a call then keep it on track.                   *)
(***************************************************************************)
EXTENDS RilCalls, SequenceTheorems, TLAPS

-----------------------------------------------------------------------------
(* What the modem answers.                                                 *)

\* Only an error with a code has to be a code.
RilLineOK(line) ==
    /\ line = [at |-> line.at, kind |-> line.kind, val |-> line.val, old |-> line.old]
    /\ line.old \in BOOLEAN
    /\ line.kind # "+CMS"
    /\ line.kind = "+CME" => line.val \in Amounts

RilReplyOK(reply) ==
    /\ reply.ok \in BOOLEAN /\ reply.waits \in BOOLEAN
    /\ \E S : reply.lines \in Seq(S)
    /\ reply.lines # <<>>
    /\ \A i \in DOMAIN reply.lines : RilLineOK(reply.lines[i]) /\ ~reply.lines[i].old

LEMMA FinalLineOK ==
    ASSUME NEW kind, kind \notin {"+CME", "+CMS"}
    PROVE  RilLineOK(FinalOf(kind)) /\ ~FinalOf(kind).old
  BY DEF FinalOf, RilLine, RilLineOK

LEMMA ValueLineOK ==
    ASSUME NEW at, NEW v
    PROVE  RilLineOK(RilLine(at, "value", v)) /\ ~RilLine(at, "value", v).old
  BY DEF RilLine, RilLineOK

LEMMA RepliesWith ==
    ASSUME NEW ok \in BOOLEAN, NEW said, NEW waits \in BOOLEAN,
           NEW S, NEW lines \in Seq(S), lines # <<>>,
           \A i \in DOMAIN lines : RilLineOK(lines[i]) /\ ~lines[i].old
    PROVE  RilReplyOK(Reply(ok, said, lines, waits))
  <1> DEFINE r == Reply(ok, said, lines, waits)
  <1>1. r.ok = ok /\ r.waits = waits /\ r.lines = lines
    BY DEF Reply
  <1> HIDE DEF r
  <1>2. RilReplyOK(r)
    BY <1>1 DEF RilReplyOK
  <1> QED
    BY <1>2 DEF r

LEMMA OneLineReply ==
    ASSUME NEW ok \in BOOLEAN, NEW said, NEW waits \in BOOLEAN,
           NEW x, RilLineOK(x), ~x.old
    PROVE  RilReplyOK(Reply(ok, said, <<x>>, waits))
  <1>1. <<x>> \in Seq({x}) /\ <<x>> # <<>>
    OBVIOUS
  <1>2. \A i \in DOMAIN <<x>> : <<x>>[i] = x
    OBVIOUS
  <1> HIDE DEF RilLineOK
  <1>3. \A i \in DOMAIN <<x>> : RilLineOK(<<x>>[i]) /\ ~<<x>>[i].old
    BY <1>2
  <1> QED
    BY <1>1, <1>3, RepliesWith

LEMMA TwoLineReply ==
    ASSUME NEW ok \in BOOLEAN, NEW said, NEW x, RilLineOK(x), ~x.old,
           NEW y, RilLineOK(y), ~y.old
    PROVE  RilReplyOK(Reply(ok, said, <<x, y>>, FALSE))
  <1>1. <<x, y>> \in Seq({x, y}) /\ <<x, y>> # <<>>
    OBVIOUS
  <1>2. \A i \in DOMAIN <<x, y>> : <<x, y>>[i] = x \/ <<x, y>>[i] = y
    OBVIOUS
  <1>3. \A i \in DOMAIN <<x, y>> : RilLineOK(<<x, y>>[i]) /\ ~<<x, y>>[i].old
    BY <1>2
  <1> QED
    BY <1>1, <1>3, RepliesWith

LEMMA RefusalsOK ==
    ASSUME NEW at, NEW reply \in Refusals(at)
    PROVE  /\ RilReplyOK(reply)
           /\ reply.ok = FALSE /\ reply.waits = FALSE /\ reply.said = <<>>
           /\ \E line : reply.lines = <<line>> /\ line.kind \in CmeError
  <1>1. CASE reply = Reply(FALSE, <<>>, <<FinalOf("ERROR")>>, FALSE)
    <2>1. RilReplyOK(reply)
      BY <1>1, FinalLineOK, OneLineReply
    <2>2. FinalOf("ERROR").kind \in CmeError
      BY DEF FinalOf, RilLine, CmeError
    <2> QED
      BY <1>1, <2>1, <2>2 DEF Reply
  <1>2. ASSUME NEW code \in Amounts,
               reply = Reply(FALSE, <<>>, <<RilLine("", "+CME", code)>>, FALSE)
        PROVE  /\ RilReplyOK(reply)
               /\ reply.ok = FALSE /\ reply.waits = FALSE /\ reply.said = <<>>
               /\ \E line : reply.lines = <<line>> /\ line.kind \in CmeError
    <2>1. RilLineOK(RilLine("", "+CME", code)) /\ ~RilLine("", "+CME", code).old
      BY DEF RilLine, RilLineOK
    <2>2. RilReplyOK(reply)
      BY <1>2, <2>1, OneLineReply
    <2>3. RilLine("", "+CME", code).kind \in CmeError
      BY DEF RilLine, CmeError
    <2> QED
      BY <1>2, <2>2, <2>3 DEF Reply
  <1> QED
    BY <1>1, <1>2 DEF Refusals

LEMMA PlainlyOK ==
    ASSUME NEW at, NEW reply \in Plainly(at)
    PROVE  RilReplyOK(reply)
  <1>1. CASE reply = Reply(TRUE, <<>>, <<FinalOf("OK")>>, FALSE)
    BY <1>1, FinalLineOK, OneLineReply
  <1> QED
    BY <1>1, RefusalsOK DEF Plainly

LEMMA TellsThenOkOK ==
    ASSUME NEW at, NEW values, NEW reply \in TellsThenOk(at, values)
    PROVE  RilReplyOK(reply)
  <1>1. ASSUME NEW v \in values,
               reply = Reply(TRUE, <<v>>, <<RilLine(at, "value", v), FinalOf("OK")>>, FALSE)
        PROVE  RilReplyOK(reply)
    BY <1>1, FinalLineOK, ValueLineOK, TwoLineReply
  <1> QED
    BY <1>1, RefusalsOK DEF TellsThenOk

LEMMA OkThenTellsOK ==
    ASSUME NEW at, NEW values, NEW reply \in OkThenTells(at, values)
    PROVE  RilReplyOK(reply)
  <1>1. ASSUME NEW v \in values,
               reply = Reply(TRUE, <<v>>, <<FinalOf("OK"), RilLine(at, "value", v)>>, FALSE)
        PROVE  RilReplyOK(reply)
    BY <1>1, FinalLineOK, ValueLineOK, TwoLineReply
  <1> QED
    BY <1>1, RefusalsOK DEF OkThenTells

LEMMA DeniedOK ==
    ASSUME NEW at, NEW values, NEW denied, NEW reply \in Denied(OkThenTells(at, values), denied)
    PROVE  RilReplyOK(reply)
  <1>1. PICK r \in OkThenTells(at, values) :
            reply = IF r.ok /\ r.said[1] \in denied THEN [r EXCEPT !.ok = FALSE] ELSE r
    BY DEF Denied
  <1>2. RilReplyOK(r)
    BY OkThenTellsOK
  <1>3. r = [ok |-> r.ok, said |-> r.said, lines |-> r.lines, waits |-> r.waits]
    <2>1. \E ok, said, lines, waits : r = Reply(ok, said, lines, waits)
      BY DEF OkThenTells, Refusals
    <2> QED
      BY <2>1 DEF Reply
  <1>4. LET f == [r EXCEPT !.ok = FALSE] IN
        f.ok = FALSE /\ f.lines = r.lines /\ f.waits = r.waits
    BY <1>3
  <1> QED
    BY <1>1, <1>2, <1>4 DEF RilReplyOK

LEMMA KindsOK ==
    ASSUME NEW at, NEW kinds, kinds \cap {"+CME", "+CMS"} = {}, NEW reply \in Kinds(at, kinds)
    PROVE  RilReplyOK(reply)
  <1>1. ASSUME NEW k \in kinds, reply = Reply(TRUE, <<k>>, <<FinalOf(k)>>, FALSE)
        PROVE  RilReplyOK(reply)
    BY <1>1, FinalLineOK, OneLineReply
  <1> QED
    BY <1>1, RefusalsOK DEF Kinds

LEMMA AsksForDataOK ==
    ASSUME NEW at, NEW kind, kind \notin {"+CME", "+CMS"}, NEW reply \in AsksForData(at, kind)
    PROVE  RilReplyOK(reply)
  <1>1. CASE reply = Reply(TRUE, <<>>, <<FinalOf(kind)>>, TRUE)
    BY <1>1, FinalLineOK, OneLineReply
  <1> QED
    BY <1>1, RefusalsOK DEF AsksForData

\* Whatever is asked, the answer is one or more lines of this command.
LEMMA RepliesOK ==
    ASSUME NEW at, NEW reply \in RilReplies(at)
    PROVE  RilReplyOK(reply)
  <1> DEFINE gnss == Reply(TRUE, <<<<1, 2>>>>, <<RilLine("QGNSSRD", "value", 1),
                           RilLine("QGNSSRD", "value", 2), FinalOf("OK")>>, FALSE)
             read == Reply(TRUE, <<>>, <<FinalOf("CONNECT"), FinalOf("OK")>>, FALSE)
  <1>1. RilReplyOK(gnss)
    <2> DEFINE x == RilLine("QGNSSRD", "value", 1)
               y == RilLine("QGNSSRD", "value", 2)
               z == FinalOf("OK")
    <2>1. RilLineOK(x) /\ RilLineOK(y) /\ RilLineOK(z) /\ ~x.old /\ ~y.old /\ ~z.old
      BY ValueLineOK, FinalLineOK
    <2> HIDE DEF x, y, z
    <2>2. <<x, y, z>> \in Seq({x, y, z}) /\ <<x, y, z>> # <<>>
      OBVIOUS
    <2>3. \A i \in DOMAIN <<x, y, z>> :
            <<x, y, z>>[i] = x \/ <<x, y, z>>[i] = y \/ <<x, y, z>>[i] = z
      OBVIOUS
    <2>4. \A i \in DOMAIN <<x, y, z>> : RilLineOK(<<x, y, z>>[i]) /\ ~<<x, y, z>>[i].old
      BY <2>1, <2>3
    <2> QED
      BY <2>2, <2>4, RepliesWith DEF x, y, z
  <1>2. RilReplyOK(read)
    BY FinalLineOK, TwoLineReply
  <1> HIDE DEF gnss, read
  <1>3. CASE reply \in Plainly(at)
    BY <1>3, PlainlyOK
  <1>5. CASE \E values : reply \in OkThenTells(at, values)
    BY <1>5, OkThenTellsOK
  <1>6. CASE \E values, denied : reply \in Denied(OkThenTells(at, values), denied)
    BY <1>6, DeniedOK
  <1>7. CASE reply \in {gnss, read} \cup Refusals(at)
    BY <1>1, <1>2, <1>7, RefusalsOK
  <1>8. CASE \E kinds : kinds \cap {"+CME", "+CMS"} = {} /\ reply \in Kinds(at, kinds)
    BY <1>8, KindsOK
  <1>9. CASE \E kind \in {"CONNECT", ">"} : reply \in AsksForData(at, kind)
    BY <1>9, AsksForDataOK
  <1> DEFINE tellers == {"CREG?", "CGREG?", "CSQ", "CIMI", "CCID", "QINISTAT", "CBC", "GSN",
                         "QUSERDAT=3", "QGNSSTS?", "QTONEDET", "QFTPSTAT", "QFTPLEN"}
                        \cup (AudioQueries \ {"QAUDCH?"})
             servers == {"QFTPOPEN", "QFTPCLOSE", "QFTPPATH", "QFTPCFG=", "QFTPRENAME",
                         "QFTPDELETE", "QFTPMKDIR"}
  <1>10. CASE at \in tellers \cup {"QAUDCH?", "COPS?", "QALARM?", "CPIN?", "QMIC?"}
    <2>1. CASE at \in tellers
      <3>1. RilReplies(at) = TellsThenOk(at, Amounts)
        BY <2>1 DEF RilReplies, AudioQueries
      <3> QED
        BY <3>1, TellsThenOkOK
    <2>2. CASE at = "QAUDCH?"
      <3>1. RilReplies(at) = TellsThenOk(at, Channels)
        BY <2>2 DEF RilReplies, AudioQueries
      <3> QED
        BY <3>1, TellsThenOkOK
    <2>3. CASE at \in {"COPS?", "QALARM?"}
      <3>1. RilReplies(at) = TellsThenOk(at, {0, Unclear})
        BY <2>3 DEF RilReplies, AudioQueries
      <3> QED
        BY <3>1, TellsThenOkOK
    <2>4. CASE at = "CPIN?"
      <3>1. RilReplies(at) = TellsThenOk(at, SimStates)
        BY <2>4 DEF RilReplies, AudioQueries
      <3> QED
        BY <3>1, TellsThenOkOK
    <2>5. CASE at = "QMIC?"
      <3>1. RilReplies(at) = TellsThenOk(at, [1 .. 3 -> MicVolumes])
        BY <2>5 DEF RilReplies, AudioQueries
      <3> QED
        BY <3>1, TellsThenOkOK
    <2> QED
      BY <1>10, <2>1, <2>2, <2>3, <2>4, <2>5
  <1>11. CASE at \in servers \cup {"QFTPSIZE", "QISTAT"}
    <2>1. \/ \E values : RilReplies(at) = OkThenTells(at, values)
          \/ \E values, denied : RilReplies(at) = Denied(OkThenTells(at, values), denied)
      BY <1>11 DEF RilReplies, AudioQueries
    <2> QED
      BY <1>5, <1>6, <2>1
  <1>12. CASE at \in {"QIDEACT", "ATD", "ATA"}
    <2>1. \/ RilReplies(at) = Kinds(at, {"DEACT_OK"})
          \/ RilReplies(at) = Kinds(at, {"OK", "BUSY", "NO_CARRIER", "NO_DIALTONE"})
          \/ RilReplies(at) = Kinds(at, {"OK", "NO_CARRIER"})
      BY <1>12 DEF RilReplies, AudioQueries
    <2> QED
      BY <1>8, <2>1
  <1>13. CASE at \in {"QHTTPURL", "QHTTPPOST", "QMTPUB"}
    BY <1>9, <1>13 DEF RilReplies, AudioQueries
  <1>14. CASE at \in {"QGNSSRD", "QHTTPREAD"}
    BY <1>7, <1>14 DEF RilReplies, AudioQueries, gnss, read
  <1>15. CASE at \notin tellers \cup servers \cup
                {"QAUDCH?", "COPS?", "QALARM?", "CPIN?", "QMIC?", "QFTPSIZE", "QISTAT",
                 "QIDEACT", "ATD", "ATA", "QHTTPURL", "QHTTPPOST", "QMTPUB", "QGNSSRD",
                 "QHTTPREAD"}
    BY <1>3, <1>15 DEF RilReplies, AudioQueries
  <1> QED
    BY <1>10, <1>11, <1>12, <1>13, <1>14, <1>15

-----------------------------------------------------------------------------
(* The calls: all commands but the last are orders, or ask for the channel *)
(* or the volume; how the last one ends is of one of the kinds below.      *)

PlainNames ==
    {"QIFGCNT", "QICSGP", "QICSGP=user", "QIREGAPP", "QIACT", "QUSERDAT=1", "QAUDCH",
     "CLVL", "QMEDVL", "QMIC", "QAUDPLAY", "QAUDSTOP", "QAUDRD=1", "QAUDRD=0", "QPLAYMEM",
     "QSTOPRES", "QPMEMBG=1", "QPMEMBG=0", "QGNSSC", "QGNSSEPO", "QGEPOAID",
     "QTONEDET=set", "QALARM=1", "QALARM=0", "ATH", "QHTTPGET", "QFTPUSER", "QFTPPASS",
     "QFTPCFG", "ALIAUTH", "SHOWRECVLEN", "VERSION", "QMTOPEN", "QMTCONN", "QMTSUB",
     "QMTUNS", "QMTCLOSE", "QMTDISC"}
ValueNames ==
    {"CREG?", "CGREG?", "CSQ", "CIMI", "CCID", "QINISTAT", "CBC", "GSN", "QGNSSTS?",
     "QTONEDET", "QAUDCH?", "QMEDVL?", "CLVL?", "QAUDRD?"}
FtpNames ==
    {"QFTPOPEN", "QFTPCLOSE", "QFTPPATH", "QFTPCFG=", "QFTPRENAME", "QFTPDELETE",
     "QFTPMKDIR"}

EarlyCommands ==
    {Order(at) : at \in {"QFTPUSER", "QFTPPASS", "QFTPCFG", "QIREGAPP", "QIACT", "QIFGCNT"}}
    \cup {GetsChannel, GetsMedia}

Ordered(cmd) == cmd.at \in PlainNames /\ "OK" \in cmd.rsp.good /\ cmd.rsp.keeps = "mute"
AsksValue(cmd) ==
    /\ cmd.at \in ValueNames
    /\ cmd.rsp.good = OkLines /\ cmd.rsp.bad \subseteq CmsError
    /\ cmd.rsp.keeps \in {"number", "any"}

Ending(cmd, gives) ==
    \/ gives = "none" /\ Ordered(cmd)
    \/ gives \in {"copy", "direct"} /\ AsksValue(cmd)
    \/ gives = "bytes" /\ cmd = Cmd("QUSERDAT=3", SecureData_Read_Callback, Told(0))
    \/ gives = "copy" /\ cmd = Cmd("QGNSSRD", ATResponse_GPSRead_Hdlr, Told(<<>>))
    \/ gives = "direct" /\ cmd = Cmd("QMIC?", ATResponse_AUD_handler, Unset)
    \/ gives = "direct" /\ cmd = Cmd("COPS?", ATRsp_COPS_Handler, Unset)
    \/ gives = "direct" /\ cmd = Cmd("QALARM?", ATResponse_QALARM_Handler, Unset)
    \/ gives = "copy" /\ cmd = Cmd("CPIN?", ATResponse_CPIN_Handler, Told(0))
    \/ gives = "copy" /\ cmd = Cmd("QISTAT", ATResponse_IPStatus_Handler, Told(0))
    \/ /\ gives = "status"
       /\ cmd \in {Cmd(at, ATResponse_FTP_handler_Common, Told(255)) : at \in FtpNames}
    \/ gives = "size" /\ cmd = Cmd("QFTPSIZE", ATResponse_FTP_handler_Common, Told(-1))
    \/ /\ gives = "none" /\ cmd.at = "QIDEACT"
       /\ cmd.rsp.good = {"DEACT_OK"} /\ cmd.rsp.keeps = "mute"
    \/ gives = "direct" /\ cmd = Cmd("ATD", Telephony_Dial_AT_handler, Unset)
    \/ gives = "direct" /\ cmd = Cmd("ATA", Telephony_Answer_AT_handler, Unset)
    \/ gives = "none" /\ cmd = Cmd("QHTTPREAD", ATRsp_QHTTP_Handler, Unset)
    \/ /\ gives = "none" /\ cmd.at \in {"QHTTPURL", "QHTTPPOST"}
       /\ cmd.rsp = ATRsp_QHTTP_Handler
    \/ gives = "none" /\ cmd.at = "QMTPUB" /\ cmd.rsp = ATResponse_QMTPUB_handler

CallOK(call) ==
    LET n == Len(call.cmds) IN
    /\ call = [asks |-> call.asks, cmds |-> call.cmds, gives |-> call.gives,
               body |-> call.body]
    /\ (\E S : call.cmds \in Seq(S)) /\ n > 0
    /\ (\E S : call.asks \in Seq(S)) /\ Len(call.asks) = n
    /\ \A i \in 1 .. n : \A kind \in CmsError : kind \notin call.cmds[i].rsp.good
    /\ \A i \in 1 .. n - 1 : call.cmds[i] \in EarlyCommands
    /\ \/ OtherThanAsked(call)
       \/ /\ \A i \in 1 .. n : call.asks[i] = call.cmds[i].at
          /\ Ending(call.cmds[n], call.gives)
          /\ call.cmds[n].at \in {"COPS?", "QALARM?"} => n = 1
          /\ call.cmds[n].at = "QMIC?" => n = 2 /\ call.cmds[1] = GetsChannel

LEMMA Single ==
    ASSUME NEW x
    PROVE  /\ <<x>> \in Seq({x})
           /\ Len(<<x>>) = 1
           /\ \A i \in 1 .. 1 : i = 1
           /\ 1 .. 1 - 1 = {} /\ 1 > 0
  <1>1. <<x>> \in Seq({x})
    OBVIOUS
  <1>2. 1 .. 1 - 1 = {}
    OBVIOUS
  <1> QED
    BY <1>1, <1>2

LEMMA OneCommand ==
    ASSUME NEW cmd, NEW gives, NEW at, NEW body,
           \A kind \in CmsError : kind \notin cmd.rsp.good,
           \/ at \in {"QICSGP=user", "QFTPRMDIR", "QFTPSTAT", "QFTPLEN"}
           \/ at = cmd.at /\ at # "QMIC?" /\ Ending(cmd, gives)
    PROVE  CallOK([asks |-> <<at>>, cmds |-> <<cmd>>, gives |-> gives, body |-> body])
  <1> DEFINE call == [asks |-> <<at>>, cmds |-> <<cmd>>, gives |-> gives, body |-> body]
  <1>1. /\ call.asks = <<at>> /\ call.cmds = <<cmd>> /\ call.gives = gives
        /\ call = [asks |-> call.asks, cmds |-> call.cmds, gives |-> call.gives,
                   body |-> call.body]
    OBVIOUS
  <1> HIDE DEF call
  <1>2. <<at>> \in Seq({at}) /\ <<cmd>> \in Seq({cmd})
    BY Single, Zenon
  <1>3. Len(<<at>>) = 1 /\ Len(<<cmd>>) = 1
    BY Single, Zenon
  <1>4. Len(call.cmds) = 1 /\ Len(call.asks) = 1 /\ call.asks[1] = at /\ call.cmds[1] = cmd
    <2>1. <<at>>[1] = at /\ <<cmd>>[1] = cmd
      BY Zenon
    <2> QED
      BY <1>1, <1>3, <2>1, Zenon
  <1>5. (\A i \in 1 .. 1 : i = 1) /\ 1 .. 1 - 1 = {}
    BY Single, Zenon
  <1>6. (\E S : call.cmds \in Seq(S)) /\ (\E S : call.asks \in Seq(S))
    BY <1>1, <1>2
  <1>7. \/ OtherThanAsked(call)
        \/ /\ \A i \in 1 .. 1 : call.asks[i] = call.cmds[i].at
           /\ Ending(call.cmds[1], call.gives) /\ call.cmds[1].at # "QMIC?"
    BY <1>1, <1>4, <1>5 DEF OtherThanAsked
  <1>8. CallOK(call)
    <2>1. \A i \in 1 .. 1 : \A kind \in CmsError : kind \notin call.cmds[i].rsp.good
      BY <1>4, <1>5, Zenon
    <2>2. \A i \in 1 .. 1 - 1 : call.cmds[i] \in EarlyCommands
      BY <1>5, Zenon
    <2>3. 1 > 0
      BY Single, Zenon
    <2>4. \/ OtherThanAsked(call)
          \/ /\ \A i \in 1 .. 1 : call.asks[i] = call.cmds[i].at
             /\ Ending(call.cmds[1], call.gives)
             /\ call.cmds[1].at \in {"COPS?", "QALARM?"} => 1 = 1
             /\ call.cmds[1].at = "QMIC?" => 1 = 2 /\ call.cmds[1] = GetsChannel
      BY <1>7, Zenon
    <2> QED
      BY <1>1, <1>4, <1>6, <2>1, <2>2, <2>3, <2>4, Zenon DEF CallOK
  <1> QED
    BY <1>8 DEF call

LEMMA DoesOK ==
    ASSUME NEW at \in PlainNames
    PROVE  \A call \in Does(at) : CallOK(call)
  <1>1. Order(at).at = at /\ Order(at).rsp = Default_atRsp_callback
    BY DEF Order, Cmd
  <1>2. /\ \A kind \in CmsError : kind \notin Default_atRsp_callback.good
        /\ "OK" \in Default_atRsp_callback.good /\ Default_atRsp_callback.keeps = "mute"
    BY DEF Default_atRsp_callback, Rsp, OkLines, CmsError
  <1>3. Ending(Order(at), "none") /\ at # "QMIC?"
    BY <1>1, <1>2 DEF Ending, Ordered, PlainNames
  <1>4. Call(<<Order(at)>>, "none") =
            [asks |-> <<at>>, cmds |-> <<Order(at)>>, gives |-> "none", body |-> 0]
    <2>1. [i \in DOMAIN <<Order(at)>> |-> <<Order(at)>>[i].at] = <<at>>
      BY <1>1
    <2> QED
      BY <2>1 DEF Call
  <1>5. CallOK(Call(<<Order(at)>>, "none"))
    BY <1>1, <1>2, <1>3, <1>4, OneCommand
  <1> QED
    BY <1>5 DEF Does

LEMMA QueryOK ==
    ASSUME NEW at, NEW rsp, NEW start, NEW gives, at # "QMIC?",
           \A kind \in CmsError : kind \notin rsp.good,
           \/ at \in {"QFTPSTAT", "QFTPLEN"}
           \/ Ending(Cmd(at, rsp, start), gives)
    PROVE  \A call \in Query(at, rsp, start, gives) : CallOK(call)
  <1> DEFINE cmd == Cmd(at, rsp, start)
  <1>1. cmd.at = at /\ cmd.rsp = rsp
    BY DEF Cmd
  <1> HIDE DEF cmd
  <1>2. Call(<<cmd>>, gives) =
            [asks |-> <<at>>, cmds |-> <<cmd>>, gives |-> gives, body |-> 0]
    <2>1. [i \in DOMAIN <<cmd>> |-> <<cmd>>[i].at] = <<at>>
      BY <1>1
    <2> QED
      BY <2>1 DEF Call
  <1>3. CallOK(Call(<<cmd>>, gives))
    BY <1>1, <1>2, OneCommand DEF cmd
  <1> QED
    BY <1>3 DEF Query, cmd

LEMMA AskedOtherwise ==
    ASSUME NEW at \in {"QICSGP=user", "QFTPRMDIR"}, NEW call, CallOK(call),
           Len(call.cmds) = 1
    PROVE  CallOK([call EXCEPT !.asks = <<at>>])
  <1>1. [call EXCEPT !.asks = <<at>>] =
            [asks |-> <<at>>, cmds |-> call.cmds, gives |-> call.gives, body |-> call.body]
    BY DEF CallOK
  <1>2. call.cmds = <<call.cmds[1]>>
    BY DEF CallOK
  <1>3. \A kind \in CmsError : kind \notin call.cmds[1].rsp.good
    BY DEF CallOK
  <1> QED
    BY <1>1, <1>2, <1>3, OneCommand

LEMMA WithOK ==
    ASSUME NEW calls, \A call \in calls : CallOK(call), NEW body
    PROVE  \A call \in With(body, calls) : CallOK(call)
  <1> SUFFICES ASSUME NEW call \in calls PROVE CallOK([call EXCEPT !.body = body])
    BY DEF With
  <1> DEFINE c == [call EXCEPT !.body = body]
  <1>1. c = [asks |-> call.asks, cmds |-> call.cmds, gives |-> call.gives, body |-> body]
    BY DEF CallOK
  <1>2. /\ c.asks = call.asks /\ c.cmds = call.cmds /\ c.gives = call.gives
        /\ c = [asks |-> c.asks, cmds |-> c.cmds, gives |-> c.gives, body |-> c.body]
    BY <1>1
  <1> HIDE DEF c
  <1>3. CallOK(c)
    BY <1>2 DEF CallOK, OtherThanAsked
  <1> QED
    BY <1>3 DEF c

LEMMA OrderCalls ==
    \A call \in UNION {
            RIL_NW_SetGPRSContext, Ql_SecureData_Store, RIL_AUD_SetChannel,
            RIL_GPS_Open, RIL_GPS_EPO, RIL_ToneDet_Set, RIL_Alarm_Create,
            RIL_Alarm_Remove, RIL_Telephony_Hangup} :
        CallOK(call)
  <1>1. \A at \in PlainNames : \A call \in Does(at) : CallOK(call)
    BY DoesOK
  <1>2. {"QIFGCNT", "QUSERDAT=1", "QAUDCH", "QGNSSC", "QGNSSEPO", "QGEPOAID", "QTONEDET=set",
         "QALARM=1", "QALARM=0", "ATH"} \subseteq PlainNames
    BY DEF PlainNames
  <1> QED
    BY <1>1, <1>2 DEF RIL_NW_SetGPRSContext, Ql_SecureData_Store, RIL_AUD_SetChannel, RIL_GPS_Open, RIL_GPS_EPO, RIL_ToneDet_Set, RIL_Alarm_Create, RIL_Alarm_Remove, RIL_Telephony_Hangup

LEMMA ValueQueryOK ==
    ASSUME NEW at \in ValueNames, NEW rsp, NEW start, NEW gives \in {"copy", "direct"},
           rsp.good = OkLines, rsp.bad \subseteq CmsError, rsp.keeps \in {"number", "any"}
    PROVE  \A call \in Query(at, rsp, start, gives) : CallOK(call)
  <1>1. Ending(Cmd(at, rsp, start), gives)
    BY DEF Ending, AsksValue, Cmd
  <1>2. at # "QMIC?" /\ \A kind \in CmsError : kind \notin rsp.good
    BY DEF ValueNames, OkLines, CmsError
  <1> QED
    BY <1>1, <1>2, QueryOK

\* The handlers of the calls that ask for a value.
ValueHandlers ==
    {ATResponse_AUD_handler, ATResponse_CGREG_Handler, ATResponse_CREG_Handler,
     ATResponse_CSQ_Handler, ATResponse_GPSReadTS_Hdlr, ATResponse_Handler,
     ATRsp_CCID_Handler, ATRsp_IMEI_Handler, ATRsp_IMSI_Handler,
     Power_ATResponse_Hanlder, SYS_ATResponse_Hanlder}

LEMMA ValueHandlersOK ==
    \A rsp \in ValueHandlers :
        /\ rsp.good = OkLines /\ rsp.bad \subseteq CmsError
        /\ rsp.keeps \in {"number", "any"}
  BY DEF ValueHandlers, Rsp, OkLines, CmeError, CmsError,
         ATResponse_AUD_handler, ATResponse_CGREG_Handler, ATResponse_CREG_Handler,
         ATResponse_CSQ_Handler, ATResponse_GPSReadTS_Hdlr, ATResponse_Handler,
         ATRsp_CCID_Handler, ATRsp_IMEI_Handler, ATRsp_IMSI_Handler,
         Power_ATResponse_Hanlder, SYS_ATResponse_Hanlder

LEMMA ValueCalls ==
    \A call \in UNION {
            RIL_NW_GetGSMState, RIL_NW_GetGPRSState, RIL_NW_GetSignalQuality,
            RIL_SIM_GetIMSI, RIL_SIM_GetCCID, RIL_QuerySysInitStatus,
            RIL_GetPowerSupply, RIL_GetIMEI, RIL_AUD_GetRecordState,
            RIL_GPS_Read_TimeSync_Status, RIL_ToneDet_Get} :
        CallOK(call)
  <1>1. \A rsp \in ValueHandlers, at \in ValueNames, gives \in {"copy", "direct"} :
            \A start :
                \A call \in Query(at, rsp, start, gives) : CallOK(call)
    BY ValueHandlersOK, ValueQueryOK
  <1>2. \A call \in RIL_NW_GetGSMState : CallOK(call)
    <2>1. "CREG?" \in ValueNames /\ ATResponse_CREG_Handler \in ValueHandlers
      BY DEF ValueNames, ValueHandlers
    <2> QED
      BY <1>1, <2>1 DEF RIL_NW_GetGSMState
  <1>3. \A call \in RIL_NW_GetGPRSState : CallOK(call)
    <2>1. "CGREG?" \in ValueNames /\ ATResponse_CGREG_Handler \in ValueHandlers
      BY DEF ValueNames, ValueHandlers
    <2> QED
      BY <1>1, <2>1 DEF RIL_NW_GetGPRSState
  <1>4. \A call \in RIL_NW_GetSignalQuality : CallOK(call)
    <2>1. "CSQ" \in ValueNames /\ ATResponse_CSQ_Handler \in ValueHandlers
      BY DEF ValueNames, ValueHandlers
    <2> QED
      BY <1>1, <2>1 DEF RIL_NW_GetSignalQuality
  <1>5. \A call \in RIL_SIM_GetIMSI : CallOK(call)
    <2>1. "CIMI" \in ValueNames /\ ATRsp_IMSI_Handler \in ValueHandlers
      BY DEF ValueNames, ValueHandlers
    <2> QED
      BY <1>1, <2>1 DEF RIL_SIM_GetIMSI
  <1>6. \A call \in RIL_SIM_GetCCID : CallOK(call)
    <2>1. "CCID" \in ValueNames /\ ATRsp_CCID_Handler \in ValueHandlers
      BY DEF ValueNames, ValueHandlers
    <2> QED
      BY <1>1, <2>1 DEF RIL_SIM_GetCCID
  <1>7. \A call \in RIL_QuerySysInitStatus : CallOK(call)
    <2>1. "QINISTAT" \in ValueNames /\ SYS_ATResponse_Hanlder \in ValueHandlers
      BY DEF ValueNames, ValueHandlers
    <2> QED
      BY <1>1, <2>1 DEF RIL_QuerySysInitStatus
  <1>8. \A call \in RIL_GetPowerSupply : CallOK(call)
    <2>1. "CBC" \in ValueNames /\ Power_ATResponse_Hanlder \in ValueHandlers
      BY DEF ValueNames, ValueHandlers
    <2> QED
      BY <1>1, <2>1 DEF RIL_GetPowerSupply
  <1>9. \A call \in RIL_GetIMEI : CallOK(call)
    <2>1. "GSN" \in ValueNames /\ ATRsp_IMEI_Handler \in ValueHandlers
      BY DEF ValueNames, ValueHandlers
    <2> QED
      BY <1>1, <2>1 DEF RIL_GetIMEI
  <1>10. \A call \in RIL_AUD_GetRecordState : CallOK(call)
    <2>1. "QAUDRD?" \in ValueNames /\ ATResponse_AUD_handler \in ValueHandlers
      BY DEF ValueNames, ValueHandlers
    <2> QED
      BY <1>1, <2>1 DEF RIL_AUD_GetRecordState
  <1>11. \A call \in RIL_GPS_Read_TimeSync_Status : CallOK(call)
    <2>1. "QGNSSTS?" \in ValueNames /\ ATResponse_GPSReadTS_Hdlr \in ValueHandlers
      BY DEF ValueNames, ValueHandlers
    <2> QED
      BY <1>1, <2>1 DEF RIL_GPS_Read_TimeSync_Status
  <1>12. \A call \in RIL_ToneDet_Get : CallOK(call)
    <2>1. "QTONEDET" \in ValueNames /\ ATResponse_Handler \in ValueHandlers
      BY DEF ValueNames, ValueHandlers
    <2> QED
      BY <1>1, <2>1 DEF RIL_ToneDet_Get
  <1> QED
    BY <1>2, <1>3, <1>4, <1>5, <1>6, <1>7, <1>8, <1>9, <1>10, <1>11, <1>12

LEMMA OneCommandCall ==
    ASSUME NEW cmd, NEW gives, cmd.at # "QMIC?", Ending(cmd, gives),
           \A kind \in CmsError : kind \notin cmd.rsp.good
    PROVE  CallOK(Call(<<cmd>>, gives))
  <1>1. Call(<<cmd>>, gives) =
            [asks |-> <<cmd.at>>, cmds |-> <<cmd>>, gives |-> gives, body |-> 0]
    <2>1. [i \in DOMAIN <<cmd>> |-> <<cmd>>[i].at] = <<cmd.at>>
      OBVIOUS
    <2> QED
      BY <2>1 DEF Call
  <1> QED
    BY <1>1, OneCommand

LEMMA EarlyOK ==
    \A cmd \in EarlyCommands : \A kind \in CmsError : kind \notin cmd.rsp.good
  <1>1. /\ \A kind \in CmsError : kind \notin Default_atRsp_callback.good
        /\ \A kind \in CmsError : kind \notin ATResponse_AUD_handler.good
    BY DEF Default_atRsp_callback, ATResponse_AUD_handler, Rsp, OkLines, CmsError
  <1>2. \A cmd \in EarlyCommands : cmd.rsp \in {Default_atRsp_callback, ATResponse_AUD_handler}
    BY DEF EarlyCommands, Order, GetsChannel, GetsMedia, Cmd
  <1> QED
    BY <1>1, <1>2

LEMMA CommandsOK ==
    ASSUME NEW S, NEW cmds \in Seq(S), NEW n \in Nat, n = Len(cmds), n > 0, NEW gives,
           \A i \in 1 .. n - 1 : cmds[i] \in EarlyCommands,
           \A kind \in CmsError : kind \notin cmds[n].rsp.good,
           Ending(cmds[n], gives), cmds[n].at \notin {"COPS?", "QALARM?"},
           cmds[n].at = "QMIC?" => n = 2 /\ cmds[1] = GetsChannel
    PROVE  CallOK(Call(cmds, gives))
  <1> DEFINE call == Call(cmds, gives)
             asks == [i \in DOMAIN cmds |-> cmds[i].at]
  <1>1. /\ call.cmds = cmds /\ call.gives = gives /\ call.asks = asks
        /\ call = [asks |-> call.asks, cmds |-> call.cmds, gives |-> call.gives,
                   body |-> call.body]
    BY DEF Call
  <1>2. DOMAIN cmds = 1 .. n
    OBVIOUS
  <1>3. asks \in Seq({cmds[i].at : i \in 1 .. n})
    BY <1>2
  <1>4. Len(asks) = n /\ \A i \in 1 .. n : asks[i] = cmds[i].at
    BY <1>2
  <1> HIDE DEF call, asks
  <1>5. \A i \in 1 .. n : \A kind \in CmsError : kind \notin cmds[i].rsp.good
    <2> SUFFICES ASSUME NEW i \in 1 .. n PROVE \A kind \in CmsError : kind \notin cmds[i].rsp.good
      OBVIOUS
    <2>1. i = n \/ i \in 1 .. n - 1
      OBVIOUS
    <2> QED
      BY <2>1, EarlyOK
  <1>6. CallOK(call)
    BY <1>1, <1>3, <1>4, <1>5 DEF CallOK
  <1> QED
    BY <1>6 DEF call

LEMMA TwoCommands ==
    ASSUME NEW first \in EarlyCommands, NEW last, NEW gives,
           \A kind \in CmsError : kind \notin last.rsp.good,
           Ending(last, gives), last.at \notin {"COPS?", "QALARM?"},
           last.at = "QMIC?" => first = GetsChannel
    PROVE  CallOK(Call(<<first, last>>, gives))
  <1> DEFINE cmds == <<first, last>>
  <1>1. cmds \in Seq({first, last})
    OBVIOUS
  <1>2. Len(cmds) = 2 /\ cmds[1] = first /\ cmds[2] = last
    OBVIOUS
  <1> HIDE DEF cmds
  <1>3. \A i \in 1 .. 2 - 1 : cmds[i] \in EarlyCommands
    BY <1>2
  <1>4. /\ \A kind \in CmsError : kind \notin cmds[2].rsp.good
        /\ Ending(cmds[2], gives) /\ cmds[2].at \notin {"COPS?", "QALARM?"}
        /\ cmds[2].at = "QMIC?" => 2 = 2 /\ cmds[1] = GetsChannel
    BY <1>2
  <1>5. 2 \in Nat /\ 2 > 0 /\ 2 = Len(cmds)
    BY <1>2
  <1>6. CallOK(Call(cmds, gives))
    BY <1>1, <1>3, <1>4, <1>5, CommandsOK
  <1> QED
    BY <1>6 DEF cmds

LEMMA LastHandlers ==
    \A rsp \in {Default_atRsp_callback, ATResponse_AUD_handler, ATRsp_QIDEACT_Hdlr, ATRsp_COPS_Handler,
              ATResponse_CPIN_Handler, ATResponse_IPStatus_Handler, SecureData_Read_Callback,
              ATResponse_GPSRead_Hdlr, ATResponse_QALARM_Handler, Telephony_Dial_AT_handler,
              Telephony_Answer_AT_handler, ATRsp_QHTTP_Handler, Callback_QIDEACT,
              ATResponse_FTP_handler_Common, ATResponse_QFTPSTAT_handler,
              ATResponse_QFTPLEN_handler, MQTT_ATResponse_Handler, ATResponse_QMTPUB_handler} :
        \A kind \in CmsError : kind \notin rsp.good
  BY DEF Default_atRsp_callback, ATResponse_AUD_handler, ATRsp_QIDEACT_Hdlr, ATRsp_COPS_Handler,
         ATResponse_CPIN_Handler, ATResponse_IPStatus_Handler, SecureData_Read_Callback,
         ATResponse_GPSRead_Hdlr, ATResponse_QALARM_Handler, Telephony_Dial_AT_handler,
         Telephony_Answer_AT_handler, ATRsp_QHTTP_Handler, Callback_QIDEACT,
         ATResponse_FTP_handler_Common, ATResponse_QFTPSTAT_handler,
         ATResponse_QFTPLEN_handler, MQTT_ATResponse_Handler, ATResponse_QMTPUB_handler,
         Rsp, OkLines, CmeError, CmsError

LEMMA NetworkCalls ==
    \A call \in UNION {
            RIL_NW_SetAPN, RIL_NW_GetIPStatus, RIL_NW_OpenPDPContext,
            RIL_NW_ClosePDPContext, RIL_NW_GetOperator, RIL_SIM_GetSimState,
            Ql_SecureData_Read} :
        CallOK(call)
  <1>1. \A call \in RIL_NW_SetAPN : CallOK(call)
    <2>1. "QICSGP" \in PlainNames
      BY DEF PlainNames
    <2>2. \A call \in Does("QICSGP") : CallOK(call) /\ Len(call.cmds) = 1
      BY <2>1, DoesOK DEF Does, Call
    <2> QED
      BY <2>2, AskedOtherwise DEF RIL_NW_SetAPN
  <1>2. \A call \in RIL_NW_GetIPStatus : CallOK(call)
    <2>1. Ending(Cmd("QISTAT", ATResponse_IPStatus_Handler, Told(0)), "copy")
      BY DEF Ending
    <2> QED
      BY <2>1, LastHandlers, QueryOK DEF RIL_NW_GetIPStatus
  <1>3. \A call \in RIL_NW_OpenPDPContext : CallOK(call)
    <2>1. Ending(Order("QIACT"), "none") /\ Order("QIACT").at = "QIACT"
      BY DEF Ending, Ordered, Order, Cmd, PlainNames, Default_atRsp_callback, Rsp, OkLines
    <2>2. Order("QIREGAPP") \in EarlyCommands /\ Order("QIACT") \in EarlyCommands
      BY DEF EarlyCommands
    <2> QED
      BY <2>1, <2>2, EarlyOK, TwoCommands DEF RIL_NW_OpenPDPContext
  <1>4. \A call \in RIL_NW_ClosePDPContext : CallOK(call)
    <2>1. Ending(Cmd("QIDEACT", ATRsp_QIDEACT_Hdlr, Unset), "none")
      BY DEF Ending, Cmd, ATRsp_QIDEACT_Hdlr, Rsp
    <2> QED
      BY <2>1, LastHandlers, QueryOK DEF RIL_NW_ClosePDPContext
  <1>5. \A call \in RIL_NW_GetOperator : CallOK(call)
    <2>1. Ending(Cmd("COPS?", ATRsp_COPS_Handler, Unset), "direct")
      BY DEF Ending
    <2> QED
      BY <2>1, LastHandlers, QueryOK DEF RIL_NW_GetOperator
  <1>6. \A call \in RIL_SIM_GetSimState : CallOK(call)
    <2>1. Ending(Cmd("CPIN?", ATResponse_CPIN_Handler, Told(0)), "copy")
      BY DEF Ending
    <2> QED
      BY <2>1, LastHandlers, QueryOK DEF RIL_SIM_GetSimState
  <1>7. \A call \in Ql_SecureData_Read : CallOK(call)
    <2>1. Ending(Cmd("QUSERDAT=3", SecureData_Read_Callback, Told(0)), "bytes")
      BY DEF Ending
    <2>2. \A call \in Query("QUSERDAT=3", SecureData_Read_Callback, Told(0), "bytes") : CallOK(call)
      BY <2>1, LastHandlers, QueryOK
    <2> QED
      BY <2>2, WithOK DEF Ql_SecureData_Read
  <1> QED
    BY <1>1, <1>2, <1>3, <1>4, <1>5, <1>6, <1>7

LEMMA AudioHandler ==
    /\ ATResponse_AUD_handler.good = OkLines /\ ATResponse_AUD_handler.bad \subseteq CmsError
    /\ ATResponse_AUD_handler.keeps = "number" /\ "OK" \in OkLines
    /\ \A kind \in CmsError : kind \notin OkLines
  BY DEF ATResponse_AUD_handler, Rsp, OkLines, CmeError, CmsError

LEMMA PlaysIs ==
    ASSUME NEW at \in PlainNames
    PROVE  /\ Plays(at).at = at /\ Ending(Plays(at), "none")
           /\ \A kind \in CmsError : kind \notin Plays(at).rsp.good
  <1>1. ATResponse_AUD_handler = [good |-> ATResponse_AUD_handler.good,
                                  bad |-> ATResponse_AUD_handler.bad,
                                  keeps |-> ATResponse_AUD_handler.keeps]
    BY DEF ATResponse_AUD_handler, Rsp
  <1>2. Plays(at).rsp.good = OkLines /\ Plays(at).rsp.keeps = "mute" /\ Plays(at).at = at
    BY <1>1, AudioHandler DEF Plays, Cmd
  <1> QED
    BY <1>2, AudioHandler DEF Ending, Ordered

LEMMA AudioCalls ==
    \A call \in UNION {
            RIL_AUD_GetChannel, RIL_AUD_SetVolume, RIL_AUD_GetVolume,
            RIL_AUD_PlayFile, RIL_AUD_StopPlay, RIL_AUD_StartRecord,
            RIL_AUD_StopRecord, RIL_AUD_PlayMem, RIL_AUD_PlayMemBg} :
        CallOK(call)
  <1>0. {"CLVL", "QMEDVL", "QMIC", "QAUDPLAY", "QAUDSTOP", "QAUDRD=1", "QAUDRD=0", "QPLAYMEM",
         "QSTOPRES", "QPMEMBG=1", "QPMEMBG=0"} \subseteq PlainNames
        /\ "QMIC?" \notin PlainNames
    BY DEF PlainNames
  <1>1. GetsChannel \in EarlyCommands /\ GetsMedia \in EarlyCommands
    BY DEF EarlyCommands
  <1>2. \A call \in RIL_AUD_GetChannel : CallOK(call)
    <2>1. /\ GetsChannel.at = "QAUDCH?" /\ GetsChannel.rsp = ATResponse_AUD_handler
      BY DEF GetsChannel, Cmd
    <2>2. Ending(GetsChannel, "direct") /\ \A kind \in CmsError : kind \notin GetsChannel.rsp.good
      BY <2>1, AudioHandler DEF Ending, AsksValue, ValueNames
    <2> QED
      BY <2>1, <2>2, OneCommandCall DEF RIL_AUD_GetChannel
  <1>3. \A call \in RIL_AUD_SetVolume : CallOK(call)
    <2>1. Order("QMIC").at = "QMIC" /\ Order("QMIC").rsp = Default_atRsp_callback
      BY DEF Order, Cmd
    <2>2. "OK" \in Default_atRsp_callback.good /\ Default_atRsp_callback.keeps = "mute"
      BY DEF Default_atRsp_callback, Rsp, OkLines
    <2>3. Ending(Order("QMIC"), "none")
      BY <1>0, <2>1, <2>2 DEF Ending, Ordered
    <2>4. CallOK(Call(<<GetsChannel, Order("QMIC")>>, "none"))
      BY <1>1, <2>1, <2>3, LastHandlers, TwoCommands
    <2> QED
      BY <1>0, <2>4, DoesOK DEF RIL_AUD_SetVolume
  <1>4. \A call \in RIL_AUD_GetVolume : CallOK(call)
    <2>1. \A at \in {"CLVL?", "QMEDVL?"} :
            \A call \in Query(at, ATResponse_AUD_handler, Unset, "direct") : CallOK(call)
      BY AudioHandler, ValueQueryOK DEF ValueNames
    <2> DEFINE mic == Cmd("QMIC?", ATResponse_AUD_handler, Unset)
    <2>2. mic.at = "QMIC?" /\ mic.rsp = ATResponse_AUD_handler /\ Ending(mic, "direct")
      BY DEF Ending, Cmd
    <2> HIDE DEF mic
    <2>3. CallOK(Call(<<GetsChannel, mic>>, "direct"))
      BY <1>1, <2>2, LastHandlers, TwoCommands
    <2> QED
      BY <2>1, <2>3 DEF RIL_AUD_GetVolume, mic
  <1>5. \A call \in RIL_AUD_PlayFile : CallOK(call)
    <2> DEFINE cmds == <<GetsMedia, GetsChannel, Plays("QAUDPLAY")>>
    <2>1. cmds \in Seq({GetsMedia, GetsChannel, Plays("QAUDPLAY")})
      OBVIOUS
    <2>2. /\ Len(cmds) = 3
          /\ cmds[1] = GetsMedia /\ cmds[2] = GetsChannel /\ cmds[3] = Plays("QAUDPLAY")
      OBVIOUS
    <2> HIDE DEF cmds
    <2>3. \A i \in 1 .. 3 - 1 : cmds[i] \in EarlyCommands
      <3>1. \A i \in 1 .. 3 - 1 : i = 1 \/ i = 2
        OBVIOUS
      <3> QED
        BY <1>1, <2>2, <3>1
    <2>4. /\ \A kind \in CmsError : kind \notin cmds[3].rsp.good
          /\ Ending(cmds[3], "none")
          /\ cmds[3].at \notin {"COPS?", "QALARM?"} /\ cmds[3].at # "QMIC?"
      BY <1>0, <2>2, PlaysIs
    <2>5. 3 \in Nat /\ 3 > 0 /\ 3 = Len(cmds)
      BY <2>2
    <2>6. CallOK(Call(cmds, "none"))
      BY <2>1, <2>3, <2>4, <2>5, CommandsOK
    <2> QED
      BY <2>6 DEF RIL_AUD_PlayFile, cmds
  <1>6. \A at \in PlainNames : CallOK(Call(<<Plays(at)>>, "none"))
    BY <1>0, PlaysIs, OneCommandCall
  <1>7. \A call \in RIL_AUD_StopPlay \cup RIL_AUD_StartRecord \cup RIL_AUD_StopRecord
                   \cup RIL_AUD_PlayMem \cup RIL_AUD_PlayMemBg : CallOK(call)
    BY <1>0, <1>6 DEF RIL_AUD_StopPlay, RIL_AUD_StartRecord, RIL_AUD_StopRecord,
                      RIL_AUD_PlayMem, RIL_AUD_PlayMemBg
  <1> QED
    BY <1>2, <1>3, <1>4, <1>5, <1>7

LEMMA OtherCalls ==
    \A call \in UNION {
            RIL_GPS_Read, RIL_GPS_EPO_Config_APN, RIL_Alarm_Query,
            RIL_Telephony_Dial, RIL_Telephony_Answer} :
        CallOK(call)
  <1>1. \A call \in RIL_GPS_Read : CallOK(call)
    <2>1. Ending(Cmd("QGNSSRD", ATResponse_GPSRead_Hdlr, Told(<<>>)), "copy")
      BY DEF Ending
    <2> QED
      BY <2>1, LastHandlers, QueryOK DEF RIL_GPS_Read
  <1>2. \A call \in RIL_GPS_EPO_Config_APN : CallOK(call)
    <2> DEFINE last == Order("QICSGP=user")
    <2>1. Ending(last, "none") /\ last.at = "QICSGP=user" /\ last.rsp = Default_atRsp_callback
      BY DEF Ending, Ordered, Order, Cmd, PlainNames, Default_atRsp_callback, Rsp, OkLines
    <2>2. Order("QIFGCNT") \in EarlyCommands
      BY DEF EarlyCommands
    <2> HIDE DEF last
    <2>3. CallOK(Call(<<Order("QIFGCNT"), last>>, "none"))
      BY <2>1, <2>2, LastHandlers, TwoCommands
    <2> QED
      BY <2>3 DEF RIL_GPS_EPO_Config_APN, last
  <1>3. \A call \in RIL_Alarm_Query : CallOK(call)
    <2>1. Ending(Cmd("QALARM?", ATResponse_QALARM_Handler, Unset), "direct")
      BY DEF Ending
    <2> QED
      BY <2>1, LastHandlers, QueryOK DEF RIL_Alarm_Query
  <1>4. \A call \in RIL_Telephony_Dial : CallOK(call)
    <2>1. Ending(Cmd("ATD", Telephony_Dial_AT_handler, Unset), "direct")
      BY DEF Ending
    <2> QED
      BY <2>1, LastHandlers, QueryOK DEF RIL_Telephony_Dial
  <1>5. \A call \in RIL_Telephony_Answer : CallOK(call)
    <2>1. Ending(Cmd("ATA", Telephony_Answer_AT_handler, Unset), "direct")
      BY DEF Ending
    <2> QED
      BY <2>1, LastHandlers, QueryOK DEF RIL_Telephony_Answer
  <1> QED
    BY <1>1, <1>2, <1>3, <1>4, <1>5

LEMMA HttpCalls ==
    \A call \in UNION {
            RIL_HTTP_SetServerURL, RIL_HTTP_RequestToGet, RIL_HTTP_RequestToPost,
            RIL_HTTP_ReadResponse} :
        CallOK(call)
  <1>1. /\ "OK" \in ATRsp_QHTTP_Handler.good /\ ATRsp_QHTTP_Handler.keeps = "mute"
        /\ "QHTTPGET" \in PlainNames
    BY DEF ATRsp_QHTTP_Handler, Rsp, OkLines, PlainNames
  <1>2. \A at \in {"QHTTPURL", "QHTTPGET", "QHTTPPOST", "QHTTPREAD"} :
            Ending(Cmd(at, ATRsp_QHTTP_Handler, Unset), "none")
    BY <1>1 DEF Ending, Ordered, Cmd
  <1>3. \A at \in {"QHTTPURL", "QHTTPGET", "QHTTPPOST", "QHTTPREAD"} :
            \A call \in Http(at) : CallOK(call)
    BY <1>2, LastHandlers, QueryOK DEF Http
  <1> QED
    BY <1>3, WithOK DEF RIL_HTTP_SetServerURL, RIL_HTTP_RequestToGet, RIL_HTTP_RequestToPost,
                        RIL_HTTP_ReadResponse

LEMMA MqttCalls ==
    \A call \in UNION {
            RIL_MQTT_QMTCFG, RIL_MQTT_QMTOPEN, RIL_MQTT_QMTCONN, RIL_MQTT_QMTSUB,
            RIL_MQTT_QMTUNS, RIL_MQTT_QMTCLOSE, RIL_MQTT_QMTDISC, RIL_MQTT_QMTPUB} :
        CallOK(call)
  <1> DEFINE names == {"ALIAUTH", "SHOWRECVLEN", "VERSION", "QMTOPEN", "QMTCONN", "QMTSUB",
                       "QMTUNS", "QMTCLOSE", "QMTDISC"}
  <1>1. /\ "OK" \in MQTT_ATResponse_Handler.good /\ MQTT_ATResponse_Handler.keeps = "mute"
        /\ names \subseteq PlainNames
    BY DEF MQTT_ATResponse_Handler, Rsp, OkLines, PlainNames
  <1>2. \A at \in names : at # "QMIC?"
    OBVIOUS
  <1>3. \A at \in names : Ending(Cmd(at, MQTT_ATResponse_Handler, Unset), "none")
    BY <1>1 DEF Ending, Ordered, Cmd
  <1>4. \A at \in names : \A call \in Mqtt(at) : CallOK(call)
    BY <1>2, <1>3, LastHandlers, QueryOK DEF Mqtt
  <1>5. Ending(Cmd("QMTPUB", ATResponse_QMTPUB_handler, Unset), "none")
    BY DEF Ending, Cmd
  <1>6. \A call \in Query("QMTPUB", ATResponse_QMTPUB_handler, Unset, "none") : CallOK(call)
    BY <1>5, LastHandlers, QueryOK
  <1> QED
    BY <1>4, <1>6, WithOK DEF RIL_MQTT_QMTCFG, RIL_MQTT_QMTOPEN, RIL_MQTT_QMTCONN,
       RIL_MQTT_QMTSUB, RIL_MQTT_QMTUNS, RIL_MQTT_QMTCLOSE, RIL_MQTT_QMTDISC, RIL_MQTT_QMTPUB

LEMMA TwoParts ==
    ASSUME NEW S, NEW s \in Seq(S), NEW t \in Seq(S)
    PROVE  /\ s \o t \in Seq(S) /\ Len(s \o t) = Len(s) + Len(t)
           /\ \A i \in 1 .. Len(s) + Len(t) :
                (s \o t)[i] = IF i <= Len(s) THEN s[i] ELSE t[i - Len(s)]
  BY ConcatProperties, Zenon

\* c is s with t behind it.
Joins(c, s, t) ==
    /\ \E S : c \in Seq(S)
    /\ Len(c) = Len(s) + Len(t)
    /\ \A i \in 1 .. Len(s) : c[i] = s[i]
    /\ \A i \in 1 .. Len(t) : c[Len(s) + i] = t[i]

LEMMA ConcatJoins ==
    ASSUME NEW S, NEW s \in Seq(S), NEW t \in Seq(S)
    PROVE  Joins(s \o t, s, t)
  <1> DEFINE c == s \o t
  <1>1. /\ c \in Seq(S) /\ Len(c) = Len(s) + Len(t)
        /\ \A i \in 1 .. Len(s) + Len(t) : c[i] = IF i <= Len(s) THEN s[i] ELSE t[i - Len(s)]
    BY TwoParts, Zenon
  <1> HIDE DEF c
  <1>2. Joins(c, s, t)
    BY <1>1 DEF Joins
  <1> QED
    BY <1>2 DEF c

LEMMA AfterOrders ==
    ASSUME NEW S, NEW before \in Seq(S), NEW rest \in Seq(S), NEW gives,
           Len(rest) = 4, \A i \in DOMAIN before : before[i] \in EarlyCommands,
           rest[1] \in EarlyCommands, rest[2] \in EarlyCommands, rest[3] \in EarlyCommands,
           \A kind \in CmsError : kind \notin rest[4].rsp.good,
           Ending(rest[4], gives), rest[4].at \notin {"COPS?", "QALARM?"},
           rest[4].at # "QMIC?"
    PROVE  CallOK(Call(before \o rest, gives))
  <1> DEFINE cmds == before \o rest
  <1>0. Joins(cmds, before, rest)
    BY ConcatJoins
  <1> HIDE DEF cmds
  <1>1. PICK b \in Nat : Len(before) = b
    OBVIOUS
  <1>2. /\ \E T : cmds \in Seq(T)
        /\ Len(cmds) = b + 4
        /\ \A i \in 1 .. b : cmds[i] = before[i]
        /\ \A i \in 1 .. 4 : cmds[b + i] = rest[i]
    BY <1>0, <1>1 DEF Joins
  <1>3. \A i \in 1 .. (b + 4) - 1 : cmds[i] \in EarlyCommands
    <2> SUFFICES ASSUME NEW i \in 1 .. (b + 4) - 1 PROVE cmds[i] \in EarlyCommands
      OBVIOUS
    <2>1. CASE i <= b
      <3>1. cmds[i] = before[i] /\ i \in DOMAIN before
        BY <1>1, <1>2, <2>1
      <3> QED
        BY <3>1
    <2>2. CASE i > b
      <3>1. PICK k \in 1 .. 4 : i = b + k /\ (k = 1 \/ k = 2 \/ k = 3)
        <4>1. i - b \in 1 .. 4 /\ i = b + (i - b) /\ (i - b = 1 \/ i - b = 2 \/ i - b = 3)
          BY <1>1, <2>2
        <4> QED
          BY <4>1
      <3>2. cmds[i] = rest[k]
        BY <1>2, <3>1
      <3> QED
        BY <3>1, <3>2
    <2> QED
      BY <1>1, <2>1, <2>2
  <1>4. cmds[b + 4] = rest[4]
    <2>1. 4 \in 1 .. 4
      OBVIOUS
    <2> QED
      BY <1>2, <2>1
  <1>5. PICK n \in Nat : n = b + 4
    BY <1>1
  <1>6. (\E T : cmds \in Seq(T)) /\ n = Len(cmds) /\ n > 0
    BY <1>1, <1>2, <1>5
  <1>7. \A i \in 1 .. n - 1 : cmds[i] \in EarlyCommands
    BY <1>3, <1>5
  <1>8. /\ \A kind \in CmsError : kind \notin cmds[n].rsp.good
        /\ Ending(cmds[n], gives)
        /\ cmds[n].at \notin {"COPS?", "QALARM?"} /\ cmds[n].at # "QMIC?"
    BY <1>4, <1>5
  <1>9. CallOK(Call(cmds, gives))
    BY <1>6, <1>7, <1>8, CommandsOK
  <1> QED
    BY <1>9 DEF cmds

LEMMA FtpOpenOK ==
    ASSUME NEW user \in {<<>>, <<Order("QFTPUSER")>>}, NEW secret \in {<<>>, <<Order("QFTPPASS")>>}
    PROVE  CallOK(Call(user \o secret \o
               <<Order("QFTPCFG"), Order("QIREGAPP"), Order("QIACT"),
                 Cmd("QFTPOPEN", ATResponse_FTP_handler_Common, Told(255))>>, "status"))
  <1> DEFINE open == Cmd("QFTPOPEN", ATResponse_FTP_handler_Common, Told(255))
             rest == <<Order("QFTPCFG"), Order("QIREGAPP"), Order("QIACT"), open>>
             before == user \o secret
             S == EarlyCommands \cup {open}
  <1>1. /\ Order("QFTPUSER") \in EarlyCommands /\ Order("QFTPPASS") \in EarlyCommands
        /\ Order("QFTPCFG") \in EarlyCommands /\ Order("QIREGAPP") \in EarlyCommands
        /\ Order("QIACT") \in EarlyCommands
    BY DEF EarlyCommands
  <1>2. /\ Ending(open, "status") /\ open.at = "QFTPOPEN"
        /\ \A kind \in CmsError : kind \notin open.rsp.good
    BY LastHandlers DEF Ending, Cmd, FtpNames
  <1> HIDE DEF open
  <1>3. user \in Seq(EarlyCommands) /\ secret \in Seq(EarlyCommands)
    <2>1. <<Order("QFTPUSER")>> \in Seq(EarlyCommands) /\ <<Order("QFTPPASS")>> \in Seq(EarlyCommands)
      BY <1>1
    <2>2. <<>> \in Seq(EarlyCommands)
      OBVIOUS
    <2> QED
      BY <2>1, <2>2
  <1>4. before \in Seq(EarlyCommands)
    BY <1>3
  <1>5. rest \in Seq(S)
    <2>1. Order("QFTPCFG") \in S /\ Order("QIREGAPP") \in S /\ Order("QIACT") \in S /\ open \in S
      BY <1>1
    <2> HIDE DEF S
    <2> QED
      BY <2>1
  <1>6. /\ Len(rest) = 4 /\ rest[1] = Order("QFTPCFG") /\ rest[2] = Order("QIREGAPP")
        /\ rest[3] = Order("QIACT") /\ rest[4] = open
    OBVIOUS
  <1> HIDE DEF rest, before
  <1>7. before \in Seq(S) /\ \A i \in DOMAIN before : before[i] \in EarlyCommands
    BY <1>4
  <1>8. /\ rest[1] \in EarlyCommands /\ rest[2] \in EarlyCommands /\ rest[3] \in EarlyCommands
        /\ \A kind \in CmsError : kind \notin rest[4].rsp.good
        /\ Ending(rest[4], "status") /\ rest[4].at \notin {"COPS?", "QALARM?"}
        /\ rest[4].at # "QMIC?"
    BY <1>1, <1>2, <1>6
  <1> HIDE DEF S
  <1>9. CallOK(Call(before \o rest, "status"))
    BY <1>5, <1>6, <1>7, <1>8, AfterOrders
  <1> QED
    BY <1>9 DEF before, rest, open

LEMMA FtpCalls ==
    \A call \in UNION {
            RIL_FTP_QFTPOPEN, RIL_FTP_QFTPCLOSE, RIL_FTP_QFTPPATH, RIL_FTP_QFTPCFG,
            RIL_FTP_QFTPSTAT, RIL_FTP_QFTPLEN, RIL_FTP_QFTPRENAME, RIL_FTP_QFTPSIZE,
            RIL_FTP_QFTPDELETE, RIL_FTP_QFTPMKDIR, RIL_FTP_QFTPRMDIR, RIL_FTP_QIDEACT} :
        CallOK(call)
  <1>1. \A call \in RIL_FTP_QFTPOPEN : CallOK(call)
    BY FtpOpenOK DEF RIL_FTP_QFTPOPEN
  <1>2. \A at \in FtpNames : \A call \in FtpStatus(at) : CallOK(call)
    <2> SUFFICES ASSUME NEW at \in FtpNames PROVE \A call \in FtpStatus(at) : CallOK(call)
      OBVIOUS
    <2>1. Ending(Cmd(at, ATResponse_FTP_handler_Common, Told(255)), "status")
      BY DEF Ending
    <2>2. at # "QMIC?"
      BY DEF FtpNames
    <2> QED
      BY <2>1, <2>2, LastHandlers, QueryOK DEF FtpStatus
  <1>3. {"QFTPCLOSE", "QFTPPATH", "QFTPCFG=", "QFTPRENAME", "QFTPDELETE", "QFTPMKDIR"} \subseteq FtpNames
    BY DEF FtpNames
  <1>4. \A call \in RIL_FTP_QFTPRMDIR : CallOK(call)
    <2>1. \A call \in FtpStatus("QFTPMKDIR") : CallOK(call)
      BY <1>2, <1>3
    <2>2. \A call \in FtpStatus("QFTPMKDIR") : Len(call.cmds) = 1
      BY DEF FtpStatus, Query, Call
    <2> QED
      BY <2>1, <2>2, AskedOtherwise DEF RIL_FTP_QFTPRMDIR
  <1>5. \A call \in RIL_FTP_QFTPSTAT \cup RIL_FTP_QFTPLEN : CallOK(call)
    BY LastHandlers, QueryOK DEF RIL_FTP_QFTPSTAT, RIL_FTP_QFTPLEN
  <1>6. \A call \in RIL_FTP_QFTPSIZE : CallOK(call)
    <2>1. Ending(Cmd("QFTPSIZE", ATResponse_FTP_handler_Common, Told(-1)), "size")
      BY DEF Ending
    <2> QED
      BY <2>1, LastHandlers, QueryOK DEF RIL_FTP_QFTPSIZE
  <1>7. \A call \in RIL_FTP_QIDEACT : CallOK(call)
    <2>1. Ending(Cmd("QIDEACT", Callback_QIDEACT, Unset), "none")
      BY DEF Ending, Cmd, Callback_QIDEACT, Rsp
    <2> QED
      BY <2>1, LastHandlers, QueryOK DEF RIL_FTP_QIDEACT
  <1> QED
    BY <1>1, <1>2, <1>3, <1>4, <1>5, <1>6, <1>7
       DEF RIL_FTP_QFTPCLOSE, RIL_FTP_QFTPPATH, RIL_FTP_QFTPCFG, RIL_FTP_QFTPRENAME,
           RIL_FTP_QFTPDELETE, RIL_FTP_QFTPMKDIR

\* Every call of the wrappers is one of these.
LEMMA ServicesOK == \A call \in RilServices : CallOK(call)
  BY OrderCalls, ValueCalls, NetworkCalls, AudioCalls, OtherCalls, HttpCalls, MqttCalls, FtpCalls
     DEF RilServices

-----------------------------------------------------------------------------
(* The lines on the wire: those of earlier commands come first.            *)

RilWireOK(lines) ==
    /\ \E S : lines \in Seq(S)
    /\ \A i \in DOMAIN lines : RilLineOK(lines[i])
    /\ \A i, j \in DOMAIN lines : i <= j /\ lines[j].old => lines[i].old

AllOld(lines) == \A i \in DOMAIN lines : lines[i].old

LEMMA AgedWire ==
    ASSUME NEW lines, RilWireOK(lines)
    PROVE  /\ RilWireOK(Aged(lines)) /\ AllOld(Aged(lines)) /\ Len(Aged(lines)) = Len(lines)
           /\ lines = <<>> => Aged(lines) = <<>>
  <1>1. PICK S : lines \in Seq(S)
    BY DEF RilWireOK
  <1> DEFINE aged == Aged(lines)
  <1>2. /\ DOMAIN lines = 1 .. Len(lines) /\ Len(lines) \in Nat
        /\ aged = [i \in 1 .. Len(lines) |-> [lines[i] EXCEPT !.old = TRUE]]
    BY <1>1 DEF Aged
  <1>3. (\E T : aged \in Seq(T)) /\ Len(aged) = Len(lines)
    <2>1. PICK n \in Nat : n = Len(lines)
      BY <1>2
    <2>2. aged = [i \in 1 .. n |-> [lines[i] EXCEPT !.old = TRUE]]
      BY <1>2, <2>1
    <2>3. PICK T : T = {aged[i] : i \in 1 .. n}
      OBVIOUS
    <2>4. aged = [i \in 1 .. n |-> aged[i]]
      BY <2>2
    <2> HIDE DEF aged
    <2>5. aged \in [1 .. n -> T]
      BY <2>3, <2>4
    <2>6. aged \in Seq(T) /\ Len(aged) = n
      BY <2>5
    <2> QED
      BY <2>1, <2>6
  <1>4. \A i \in DOMAIN lines : aged[i].old = TRUE /\ RilLineOK(aged[i])
    <2> SUFFICES ASSUME NEW i \in DOMAIN lines PROVE aged[i].old = TRUE /\ RilLineOK(aged[i])
      OBVIOUS
    <2>1. aged[i] = [lines[i] EXCEPT !.old = TRUE]
      BY <1>2
    <2>2. RilLineOK(lines[i])
      BY DEF RilWireOK
    <2>3. aged[i] = [at |-> lines[i].at, kind |-> lines[i].kind, val |-> lines[i].val, old |-> TRUE]
      BY <2>1, <2>2 DEF RilLineOK
    <2> QED
      BY <2>2, <2>3 DEF RilLineOK
  <1>5. DOMAIN aged = DOMAIN lines
    BY <1>2
  <1>6. lines = <<>> => aged = <<>>
    <2> SUFFICES ASSUME lines = <<>> PROVE aged = <<>>
      OBVIOUS
    <2>1. Len(aged) = 0
      BY <1>3
    <2> HIDE DEF aged
    <2> QED
      BY <1>3, <2>1
  <1> HIDE DEF aged
  <1>7. RilWireOK(aged) /\ AllOld(aged)
    BY <1>3, <1>4, <1>5 DEF RilWireOK, AllOld
  <1> QED
    BY <1>3, <1>6, <1>7 DEF aged

LEMMA SentWire ==
    ASSUME NEW lines, RilWireOK(lines), NEW reply, RilReplyOK(reply)
    PROVE  /\ RilWireOK(lines \o reply.lines)
           /\ lines = <<>> => lines \o reply.lines = reply.lines
           /\ lines # <<>> => lines \o reply.lines # <<>> /\ (lines \o reply.lines)[1] = lines[1]
  <1> DEFINE wire == lines \o reply.lines
  <1>1. PICK S : lines \in Seq(S)
    BY DEF RilWireOK
  <1>2. PICK T : reply.lines \in Seq(T)
    BY DEF RilReplyOK
  <1>3. lines \in Seq(S \cup T) /\ reply.lines \in Seq(S \cup T)
    BY <1>1, <1>2
  <1>4. Joins(wire, lines, reply.lines)
    BY <1>3, ConcatJoins
  <1>5. lines = <<>> => wire = reply.lines
    BY <1>2, ConcatEmptySeq
  <1> HIDE DEF wire
  <1>6. PICK n \in Nat, k \in Nat : n = Len(lines) /\ k = Len(reply.lines)
    BY <1>1, <1>2
  <1>7. /\ \E U : wire \in Seq(U)
        /\ Len(wire) = n + k
        /\ \A i \in 1 .. n : wire[i] = lines[i] /\ i \in DOMAIN lines
        /\ \A i \in 1 .. k : wire[n + i] = reply.lines[i] /\ i \in DOMAIN reply.lines
        /\ DOMAIN wire = 1 .. n + k
    BY <1>1, <1>2, <1>4, <1>6 DEF Joins
  <1>8. ASSUME NEW i \in 1 .. n + k, i > n
        PROVE  RilLineOK(wire[i]) /\ ~wire[i].old
    <2>1. i - n \in 1 .. k /\ i = n + (i - n)
      BY <1>6, <1>8
    <2>2. wire[i] = reply.lines[i - n] /\ i - n \in DOMAIN reply.lines
      BY <1>7, <2>1
    <2> QED
      BY <2>2 DEF RilReplyOK
  <1>9. ASSUME NEW i \in 1 .. n + k, i <= n
        PROVE  wire[i] = lines[i] /\ i \in DOMAIN lines /\ RilLineOK(wire[i])
    <2>1. i \in 1 .. n
      BY <1>6, <1>9
    <2> QED
      BY <1>7, <2>1 DEF RilWireOK
  <1>10. RilWireOK(wire)
    <2>1. ASSUME NEW i \in DOMAIN wire PROVE RilLineOK(wire[i])
      BY <1>6, <1>7, <1>8, <1>9
    <2>2. ASSUME NEW i \in DOMAIN wire, NEW j \in DOMAIN wire, i <= j, wire[j].old
          PROVE  wire[i].old
      <3>1. j <= n
        BY <1>6, <1>7, <1>8, <2>2
      <3>2. i <= n
        BY <1>6, <1>7, <2>2, <3>1
      <3> QED
        BY <1>7, <1>9, <2>2, <3>1, <3>2 DEF RilWireOK
    <2> QED
      BY <1>7, <2>1, <2>2 DEF RilWireOK
  <1>11. lines # <<>> => wire # <<>> /\ wire[1] = lines[1]
    <2> SUFFICES ASSUME lines # <<>> PROVE wire # <<>> /\ wire[1] = lines[1]
      OBVIOUS
    <2>1. n > 0
      BY <1>1, <1>6
    <2>2. 1 \in 1 .. n /\ n + k > 0
      BY <1>6, <2>1
    <2> QED
      BY <1>7, <2>2
  <1> QED
    BY <1>5, <1>10, <1>11 DEF wire

LEMMA TailWire ==
    ASSUME NEW lines, RilWireOK(lines), lines # <<>>
    PROVE  /\ RilWireOK(Tail(lines)) /\ RilLineOK(Head(lines)) /\ Head(lines) = lines[1]
           /\ AllOld(lines) => AllOld(Tail(lines))
           /\ ~Head(lines).old => \A i \in DOMAIN lines : ~lines[i].old
           /\ Len(Tail(lines)) = Len(lines) - 1
  <1>1. PICK S : lines \in Seq(S)
    BY DEF RilWireOK
  <1> DEFINE rest == Tail(lines)
  <1>2. /\ rest \in Seq(S) /\ Len(rest) = Len(lines) - 1 /\ Len(lines) \in Nat /\ Len(lines) > 0
        /\ DOMAIN lines = 1 .. Len(lines) /\ DOMAIN rest = 1 .. Len(lines) - 1
        /\ \A i \in 1 .. Len(lines) - 1 : rest[i] = lines[i + 1]
        /\ Head(lines) = lines[1] /\ 1 \in DOMAIN lines
    BY <1>1
  <1> HIDE DEF rest
  <1>3. \A i \in DOMAIN rest : i + 1 \in DOMAIN lines /\ rest[i] = lines[i + 1]
    BY <1>2
  <1>4. RilWireOK(rest)
    <2>1. \A i \in DOMAIN rest : RilLineOK(rest[i])
      BY <1>3 DEF RilWireOK
    <2>2. ASSUME NEW i \in DOMAIN rest, NEW j \in DOMAIN rest, i <= j, rest[j].old
          PROVE  rest[i].old
      <3>1. i + 1 <= j + 1
        BY <1>2, <2>2
      <3> QED
        BY <1>3, <2>2, <3>1 DEF RilWireOK
    <2> QED
      BY <1>2, <2>1, <2>2 DEF RilWireOK
  <1>5. AllOld(lines) => AllOld(rest)
    BY <1>3 DEF AllOld
  <1>6. ASSUME ~Head(lines).old, NEW i \in DOMAIN lines PROVE ~lines[i].old
    <2>1. 1 <= i
      BY <1>2
    <2> QED
      BY <1>2, <1>6, <2>1 DEF RilWireOK
  <1> QED
    BY <1>2, <1>4, <1>5, <1>6 DEF RilWireOK, rest

-----------------------------------------------------------------------------
(* The type invariant.                                                     *)

RilModemOK(modem) ==
    modem = [done |-> modem.done, said |-> modem.said, took |-> modem.took,
             waits |-> modem.waits, refused |-> modem.refused]

RilTypes ==
    /\ rilCall = RilIdle \/ CallOK(rilCall)
    /\ rilStep \in 0 .. Len(rilCall.cmds)
    /\ rilResult \in {"none", "success", "failed", "timeout", "busy"}
    /\ m_iErrCode \in Statuses
    /\ IsDataReadSuccess \in BOOLEAN /\ rilStray \in BOOLEAN
    /\ RilWireOK(rilWire) /\ (rilStep = 0 => AllOld(rilWire))
    /\ RilModemOK(rilModem)
    /\ rilCall = RilIdle => rilResult = "none"

LEMMA IdleIsNoCall == Len(RilIdle.cmds) = 0 /\ ~CallOK(RilIdle)
  <1>1. RilIdle.cmds = <<>>
    BY DEF RilIdle
  <1>2. Len(RilIdle.cmds) = 0
    BY <1>1
  <1> QED
    BY <1>2 DEF CallOK

LEMMA CallLength ==
    ASSUME NEW call, CallOK(call)
    PROVE  /\ Len(call.cmds) \in Nat /\ Len(call.cmds) > 0 /\ call # RilIdle
           /\ 1 \in 1 .. Len(call.cmds)
  <1>1. Len(call.cmds) \in Nat /\ Len(call.cmds) > 0
    BY DEF CallOK
  <1> QED
    BY <1>1, IdleIsNoCall

LEMMA RilTypesMean == RilTypes => RilTypeOK
  <1> SUFFICES ASSUME RilTypes PROVE RilTypeOK
    OBVIOUS
  <1>1. PICK S : rilWire \in Seq(S)
    BY DEF RilTypes, RilWireOK
  <1>2. \A i \in 1 .. Len(rilWire) - 1 : rilWire[i + 1].old => rilWire[i].old
    <2> SUFFICES ASSUME NEW i \in 1 .. Len(rilWire) - 1, rilWire[i + 1].old PROVE rilWire[i].old
      OBVIOUS
    <2>1. i \in DOMAIN rilWire /\ i + 1 \in DOMAIN rilWire /\ i <= i + 1
      BY <1>1
    <2> QED
      BY <2>1 DEF RilTypes, RilWireOK
  <1> QED
    BY <1>2 DEF RilTypes, RilTypeOK, AllOld

LEMMA EmptyWire == RilWireOK(<<>>) /\ AllOld(<<>>)
  <1>1. <<>> \in Seq({}) /\ DOMAIN <<>> = {}
    OBVIOUS
  <1> QED
    BY <1>1 DEF RilWireOK, AllOld

LEMMA RilTypesInit == RilInit => RilTypes
  <1> SUFFICES ASSUME RilInit PROVE RilTypes
    OBVIOUS
  <1>1. MaxRilValue \in Nat
    BY RilAssumption
  <1>2. 0 \in Statuses /\ Len(rilCall.cmds) = 0 /\ rilStep = 0
    BY <1>1, IdleIsNoCall DEF Statuses, RilInit
  <1>3. RilModemOK(RilFresh)
    BY DEF RilModemOK, RilFresh
  <1>4. rilStep \in 0 .. Len(rilCall.cmds)
    BY <1>2
  <1>5. RilWireOK(rilWire) /\ AllOld(rilWire) /\ RilModemOK(rilModem)
    BY <1>3, EmptyWire DEF RilInit
  <1> QED
    BY <1>2, <1>4, <1>5 DEF RilInit, RilTypes

ModemBecomes(modem, d, s, w, r, after) ==
    after = [modem EXCEPT !.done = d, !.said = s, !.waits = w, !.refused = r]

LEMMA ModemWith ==
    ASSUME NEW modem, RilModemOK(modem), NEW d, NEW s, NEW w, NEW r, NEW after,
           ModemBecomes(modem, d, s, w, r, after)
    PROVE  /\ RilModemOK(after)
           /\ after.done = d /\ after.said = s /\ after.took = modem.took
           /\ after.waits = w /\ after.refused = r
  <1>1. DOMAIN modem = {"done", "said", "took", "waits", "refused"}
    BY DEF RilModemOK
  <1>2. DOMAIN after = {"done", "said", "took", "waits", "refused"}
    BY <1>1 DEF ModemBecomes
  <1>3. after = [x \in DOMAIN after |-> after[x]]
    BY DEF ModemBecomes
  <1>4. after = [done |-> d, said |-> s, took |-> modem.took, waits |-> w, refused |-> r]
    BY <1>1, <1>2, <1>3 DEF ModemBecomes
  <1> QED
    BY <1>4 DEF RilModemOK

LEMMA AnswersModem ==
    ASSUME NEW modem, RilModemOK(modem), NEW at, NEW reply
    PROVE  LET after == RilAnswers(modem, at, reply) IN
           /\ RilModemOK(after)
           /\ after.done = IF reply.ok /\ ~reply.waits THEN Append(modem.done, at) ELSE modem.done
           /\ after.said = Append(modem.said, reply.said)
           /\ after.took = modem.took /\ after.waits = reply.waits
           /\ after.refused = IF reply.ok THEN modem.refused ELSE <<reply.lines[1]>>
  <1> DEFINE after == RilAnswers(modem, at, reply)
             d == IF reply.ok /\ ~reply.waits THEN Append(modem.done, at) ELSE modem.done
             s == Append(modem.said, reply.said)
             w == reply.waits
             r == IF reply.ok THEN modem.refused ELSE <<reply.lines[1]>>
  <1>1. ModemBecomes(modem, d, s, w, r, after)
    BY Zenon DEF RilAnswers, ModemBecomes
  <1> HIDE DEF after, d, s, w, r
  <1>2. /\ RilModemOK(after)
        /\ after.done = d /\ after.said = s /\ after.took = modem.took
        /\ after.waits = w /\ after.refused = r
    BY <1>1, ModemWith
  <1> QED
    BY <1>2 DEF after, d, s, w, r

LEMMA SendsTypes ==
    ASSUME NEW call, CallOK(call), NEW step \in 1 .. Len(call.cmds),
           NEW wire, RilWireOK(wire), NEW modem, RilModemOK(modem),
           RilSends(call, step, wire, modem)
    PROVE  /\ rilStep' \in {0, step} /\ rilResult' \in {"none", "busy"}
           /\ RilWireOK(rilWire') /\ (rilStep' = 0 => AllOld(rilWire'))
           /\ RilModemOK(rilModem')
  <1>1. step # 0 /\ Len(call.cmds) \in Nat
    BY CallLength
  <1>2. CASE \E reply \in RilReplies(call.cmds[step].at) :
                /\ rilStep' = step
                /\ rilWire' = Aged(wire) \o reply.lines
                /\ rilModem' = RilAnswers(modem, call.cmds[step].at, reply)
                /\ rilResult' = "none"
    BY <1>1, <1>2, AgedWire, SentWire, RepliesOK, AnswersModem
  <1>3. CASE rilStep' = 0 /\ rilResult' = "busy" /\ rilWire' = Aged(wire) /\ rilModem' = modem
    BY <1>3, AgedWire
  <1> QED
    BY <1>2, <1>3 DEF RilSends

LEMMA BeginsTypes ==
    ASSUME RilTypes, NEW call \in RilServices, RilBegins(call)
    PROVE  RilTypes'
  <1>1. /\ rilCall' = call /\ rilStray' = FALSE /\ RilSends(call, 1, rilWire, RilFresh)
        /\ UNCHANGED <<m_iErrCode, IsDataReadSuccess>>
    BY DEF RilBegins
  <1>2. CallOK(call) /\ 1 \in 1 .. Len(call.cmds) /\ call # RilIdle /\ Len(call.cmds) \in Nat
    BY ServicesOK, CallLength
  <1>3. RilModemOK(RilFresh)
    BY DEF RilModemOK, RilFresh
  <1>4. /\ rilStep' \in {0, 1} /\ rilResult' \in {"none", "busy"}
        /\ RilWireOK(rilWire') /\ (rilStep' = 0 => AllOld(rilWire'))
        /\ RilModemOK(rilModem')
    BY <1>1, <1>2, <1>3, SendsTypes DEF RilTypes
  <1>5. rilStep' \in 0 .. Len(rilCall'.cmds)
    BY <1>1, <1>2, <1>4
  <1> QED
    BY <1>1, <1>2, <1>4, <1>5 DEF RilTypes

LEMMA ReturnsTypes ==
    ASSUME RilTypes, rilStep > 0, NEW verdict \in {"success", "failed", "timeout"}, NEW data,
           RilReturns(verdict, data)
    PROVE  /\ rilCall' = rilCall /\ CallOK(rilCall) /\ rilStep' = 0
           /\ rilStep' \in 0 .. Len(rilCall'.cmds)
           /\ rilResult' \in {"success", "failed", "timeout"}
  <1>1. rilCall # RilIdle /\ CallOK(rilCall)
    BY IdleIsNoCall DEF RilTypes
  <1>2. Len(rilCall.cmds) \in Nat
    BY <1>1, CallLength
  <1> QED
    BY <1>1, <1>2 DEF RilReturns

LEMMA RecordedError ==
    ASSUME RilTypes, NEW line, RilLineOK(line), RecordsError(line, RilVerdict(RilNow, line))
    PROVE  m_iErrCode' \in Statuses
  <1>1. MaxRilValue \in Nat /\ m_iErrCode \in Statuses
    BY RilAssumption DEF RilTypes
  <1>2. 0 \in Statuses /\ -1 \in Statuses /\ Amounts \subseteq Statuses
    BY <1>1 DEF Amounts, Statuses
  <1>3. CASE RilNow.rsp = Default_atRsp_callback /\ RilVerdict(RilNow, line) \notin {"wait", "success"}
    <2>1. TakenFor(RilNow, line) \in CmsError
      BY <1>3 DEF RilVerdict, Default_atRsp_callback, Rsp
    <2>2. line.kind \in {"ERROR", "+CME"}
      BY <2>1 DEF TakenFor, CmsError, RilLineOK
    <2> QED
      BY <1>2, <1>3, <2>2 DEF RecordsError, RilLineOK
  <1> QED
    BY <1>1, <1>2, <1>3 DEF RecordsError

LEMMA WritesTypes ==
    ASSUME NEW wire, RilWireOK(wire), RilModemOK(rilModem), Writes(wire)
    PROVE  RilWireOK(rilWire') /\ RilModemOK(rilModem')
  <1>1. CASE rilModem.waits
    <2>1. PICK reply \in Plainly(RilNow.at) :
            /\ rilWire' = wire \o reply.lines
            /\ rilModem' = [rilModem EXCEPT
                    !.took = Append(@, rilCall.body), !.waits = FALSE,
                    !.done = IF reply.ok THEN Append(@, RilNow.at) ELSE @,
                    !.refused = IF reply.ok THEN @ ELSE <<reply.lines[1]>>]
      BY <1>1 DEF Writes
    <2>2. RilWireOK(rilWire')
      BY <2>1, PlainlyOK, SentWire
    <2>3. DOMAIN rilModem = {"done", "said", "took", "waits", "refused"}
      BY DEF RilModemOK
    <2> DEFINE d == IF reply.ok THEN Append(rilModem.done, RilNow.at) ELSE rilModem.done
               t == Append(rilModem.took, rilCall.body)
               r == IF reply.ok THEN rilModem.refused ELSE <<reply.lines[1]>>
    <2>4. rilModem' = [rilModem EXCEPT !.took = t, !.waits = FALSE, !.done = d, !.refused = r]
      BY <2>1, Zenon
    <2> HIDE DEF d, t, r
    <2>5. DOMAIN rilModem' = {"done", "said", "took", "waits", "refused"}
      BY <2>3, <2>4
    <2>6. rilModem' = [x \in DOMAIN rilModem' |-> rilModem'[x]]
      BY <2>4
    <2>7. RilModemOK(rilModem')
      BY <2>5, <2>6 DEF RilModemOK
    <2> QED
      BY <2>2, <2>7
  <1>2. CASE ~rilModem.waits
    BY <1>2 DEF Writes
  <1> QED
    BY <1>1, <1>2

LEMMA LineTypes ==
    ASSUME RilTypes, RilLineComes
    PROVE  RilTypes'
  <1> DEFINE line == Head(rilWire)
             verdict == RilVerdict(RilNow, line)
  <1>1. /\ CallOK(rilCall) /\ rilCall # RilIdle /\ rilStep > 0
        /\ rilStep \in 1 .. Len(rilCall.cmds) /\ Len(rilCall.cmds) \in Nat
    <2>1. rilStep > 0 /\ rilStep \in 0 .. Len(rilCall.cmds)
      BY DEF RilLineComes, RilTypes
    <2>2. rilCall # RilIdle /\ CallOK(rilCall)
      BY <2>1, IdleIsNoCall DEF RilTypes
    <2>3. Len(rilCall.cmds) \in Nat
      BY <2>2, CallLength
    <2> QED
      BY <2>1, <2>2, <2>3
  <1>2. /\ RilWireOK(Tail(rilWire)) /\ RilLineOK(line)
    BY TailWire DEF RilLineComes, RilTypes
  <1>3. line.old \in BOOLEAN
    BY <1>2 DEF RilLineOK
  <1>4. /\ rilStray' = (rilStray \/ line.old)
        /\ IsDataReadSuccess' =
             (IsDataReadSuccess \/ (RilNow.at = "QUSERDAT=3" /\ TakenFor(RilNow, line) = "value"))
        /\ RecordsError(line, verdict)
    BY DEF RilLineComes
  <1>5. m_iErrCode' \in Statuses
    BY <1>2, <1>4, RecordedError
  <1>6. IsDataReadSuccess' \in BOOLEAN /\ rilStray' \in BOOLEAN
    BY <1>4
  <1>7. PICK data :
            \/ /\ verdict = "wait"
               /\ rilData' = data
               /\ IF IsPrompt(RilNow, line) THEN Writes(Tail(rilWire))
                  ELSE rilWire' = Tail(rilWire) /\ UNCHANGED rilModem
               /\ UNCHANGED <<rilCall, rilStep, rilGot, rilOut, rilResult>>
            \/ /\ verdict = "success" /\ rilStep < Len(rilCall.cmds)
               /\ rilGot' = Append(rilGot, data)
               /\ RilSends(rilCall, rilStep + 1, Tail(rilWire), rilModem)
               /\ UNCHANGED <<rilCall, rilOut>>
            \/ /\ verdict = "failed" \/ (verdict = "success" /\ rilStep = Len(rilCall.cmds))
               /\ RilReturns(verdict, data)
               /\ rilWire' = Aged(Tail(rilWire))
               /\ UNCHANGED <<rilData, rilModem>>
    BY DEF RilLineComes
  <1> HIDE DEF line, verdict
  <1>8. CASE /\ verdict = "wait"
             /\ IF IsPrompt(RilNow, line) THEN Writes(Tail(rilWire))
                ELSE rilWire' = Tail(rilWire) /\ UNCHANGED rilModem
             /\ UNCHANGED <<rilCall, rilStep, rilGot, rilOut, rilResult>>
    <2>1. RilWireOK(rilWire') /\ RilModemOK(rilModem')
      BY <1>2, <1>8, WritesTypes DEF RilTypes
    <2> QED
      BY <1>1, <1>5, <1>6, <1>8, <2>1 DEF RilTypes
  <1>9. CASE /\ verdict = "success" /\ rilStep < Len(rilCall.cmds)
             /\ RilSends(rilCall, rilStep + 1, Tail(rilWire), rilModem)
             /\ UNCHANGED <<rilCall, rilOut>>
    <2>1. rilStep + 1 \in 1 .. Len(rilCall.cmds)
      BY <1>1, <1>9
    <2>2. /\ rilStep' \in {0, rilStep + 1} /\ rilResult' \in {"none", "busy"}
          /\ RilWireOK(rilWire') /\ (rilStep' = 0 => AllOld(rilWire'))
          /\ RilModemOK(rilModem')
      BY <1>1, <1>2, <1>9, <2>1, SendsTypes DEF RilTypes
    <2>3. rilStep' \in 0 .. Len(rilCall'.cmds)
      BY <1>1, <1>9, <2>1, <2>2
    <2> QED
      BY <1>1, <1>5, <1>6, <1>9, <2>2, <2>3 DEF RilTypes
  <1>10. CASE /\ verdict \in {"success", "failed"}
              /\ RilReturns(verdict, data)
              /\ rilWire' = Aged(Tail(rilWire))
              /\ UNCHANGED <<rilData, rilModem>>
    <2>1. RilWireOK(rilWire') /\ AllOld(rilWire')
      BY <1>2, <1>10, AgedWire
    <2>2. /\ rilCall' = rilCall /\ rilStep' = 0 /\ rilStep' \in 0 .. Len(rilCall'.cmds)
          /\ rilResult' \in {"success", "failed", "timeout"}
      BY <1>1, <1>10, ReturnsTypes
    <2> QED
      BY <1>1, <1>5, <1>6, <1>10, <2>1, <2>2 DEF RilTypes
  <1> QED
    BY <1>7, <1>8, <1>9, <1>10

LEMMA RilTypesStep ==
    ASSUME RilTypes, [RilNext]_rilVars
    PROVE  RilTypes'
  <1>1. CASE \E call \in RilServices : RilBegins(call)
    BY <1>1, BeginsTypes
  <1>2. CASE RilLineComes
    BY <1>2, LineTypes
  <1>3. CASE RilTimesOut
    <2>1. /\ rilStep > 0 /\ UNCHANGED IsDataReadSuccess /\ RilReturns("timeout", rilData)
          /\ rilWire' = Aged(rilWire) /\ rilModem' = [rilModem EXCEPT !.waits = FALSE]
          /\ UNCHANGED <<rilData, rilStray, m_iErrCode>>
      BY <1>3 DEF RilTimesOut
    <2>2. /\ rilCall' = rilCall /\ CallOK(rilCall) /\ rilStep' = 0
          /\ rilStep' \in 0 .. Len(rilCall'.cmds)
          /\ rilResult' \in {"success", "failed", "timeout"}
      BY <2>1, ReturnsTypes
    <2>3. RilWireOK(rilWire') /\ AllOld(rilWire')
      BY <2>1, AgedWire DEF RilTypes
    <2>4. rilModem' = [done |-> rilModem.done, said |-> rilModem.said, took |-> rilModem.took,
                       waits |-> FALSE, refused |-> rilModem.refused]
      BY <2>1 DEF RilTypes, RilModemOK
    <2>5. RilModemOK(rilModem')
      BY <2>4 DEF RilModemOK
    <2>6. rilCall' # RilIdle
      BY <2>2, IdleIsNoCall
    <2> QED
      BY <2>1, <2>2, <2>3, <2>5, <2>6 DEF RilTypes
  <1>4. CASE RilGoesOn
    <2>1. /\ rilStep' = 0 /\ rilCall' = RilIdle /\ rilResult' = "none" /\ rilModem' = RilFresh
          /\ rilStray' = FALSE /\ UNCHANGED <<rilWire, m_iErrCode, IsDataReadSuccess>>
          /\ rilStep = 0
      BY <1>4 DEF RilGoesOn
    <2>2. RilModemOK(rilModem')
      BY <2>1 DEF RilModemOK, RilFresh
    <2>3. rilStep' \in 0 .. Len(rilCall'.cmds)
      BY <2>1, IdleIsNoCall
    <2> QED
      BY <2>1, <2>2, <2>3 DEF RilTypes
  <1>5. CASE RilDrops
    <2>1. /\ rilWire # <<>> /\ rilWire' = Tail(rilWire)
          /\ UNCHANGED <<rilCall, rilStep, rilResult, rilModem, rilStray, m_iErrCode,
                         IsDataReadSuccess>>
      BY <1>5 DEF RilDrops
    <2>2. RilWireOK(rilWire') /\ (rilStep' = 0 => AllOld(rilWire'))
      BY <2>1, TailWire DEF RilTypes
    <2> QED
      BY <2>1, <2>2 DEF RilTypes
  <1>6. CASE UNCHANGED rilVars
    BY <1>6 DEF RilTypes, rilVars
  <1> QED
    BY <1>1, <1>2, <1>3, <1>4, <1>5, <1>6 DEF RilNext

\* Every call of the radio interface keeps its step, result, error code and lines in
\* their types, and the lines of earlier commands stand before the others.
THEOREM RilTypeCorrect == RilSpec => []RilTypeOK
  <1>1. RilInit => RilTypes
    BY RilTypesInit
  <1>2. RilTypes /\ [RilNext]_rilVars => RilTypes'
    BY RilTypesStep
  <1>3. RilTypes => RilTypeOK
    BY RilTypesMean
  <1> QED
    BY <1>1, <1>2, <1>3, PTL DEF RilSpec

-----------------------------------------------------------------------------
(* What is on its way while a call is under way.                           *)

\* What the variable of a command before the last holds.
GotOK(cmd, said, data) ==
    \/ data = Unset /\ cmd # GetsChannel
    \/ /\ 1 \in DOMAIN said /\ data = Told(said[1])
       /\ cmd = GetsChannel => said[1] \in Channels

\* The wrapper returns success.
Passed(gives, data, read) ==
    /\ gives = "status" => data[2] = 0
    /\ gives = "size" => data[2] >= 0
    /\ gives = "bytes" => read

ReturnsWell(call, told, done, data, read) ==
    /\ Passed(call.gives, data, read) <=> done = Len(call.asks)
    /\ call.gives = "size" => data[2] \in Int
    /\ (/\ Passed(call.gives, data, read) /\ call.gives \in {"copy", "direct", "size", "bytes"}
        /\ ~(call.asks[1] \in {"COPS?", "QALARM?"} /\ told = <<<<Unclear>>>>)
        /\ ~FewerDigits(call, told))
       => data = Told(Meant(call, told))

EndsWell(call, step, told, done, data, read) ==
    /\ step < Len(call.cmds) => done = step /\ GotOK(call.cmds[step], told[step], data)
    /\ step = Len(call.cmds) => ReturnsWell(call, told, done, data, read)

Reads(cmd, line, read) == read \/ (cmd.at = "QUSERDAT=3" /\ TakenFor(cmd, line) = "value")

\* The line ends the command, and well.
Finishes(call, step, got, told, done, line, data, read) ==
    /\ RilVerdict(call.cmds[step], line) = "success"
    /\ \A kept \in Kept(call.cmds[step], call.body, got, line, data) :
            EndsWell(call, step, told, done, kept, Reads(call.cmds[step], line, read))

Passes(cmd, line) == RilVerdict(cmd, line) = "wait" /\ ~IsPrompt(cmd, line)

\* The command ends well at the first line, at the second at the latest, at the
\* third at the latest.
Ends1(call, step, got, told, done, lines, data, read) ==
    lines # <<>> /\ Finishes(call, step, got, told, done, Head(lines), data, read)
Ends2(call, step, got, told, done, lines, data, read) ==
    \/ Ends1(call, step, got, told, done, lines, data, read)
    \/ /\ lines # <<>> /\ Passes(call.cmds[step], Head(lines))
       /\ \A kept \in Kept(call.cmds[step], call.body, got, Head(lines), data) :
            Ends1(call, step, got, told, done, Tail(lines), kept,
                  Reads(call.cmds[step], Head(lines), read))
Ends3(call, step, got, told, done, lines, data, read) ==
    \/ Ends2(call, step, got, told, done, lines, data, read)
    \/ /\ lines # <<>> /\ Passes(call.cmds[step], Head(lines))
       /\ \A kept \in Kept(call.cmds[step], call.body, got, Head(lines), data) :
            Ends2(call, step, got, told, done, Tail(lines), kept,
                  Reads(call.cmds[step], Head(lines), read))

-----------------------------------------------------------------------------
(* What the handlers make of the lines.                                    *)

Value(at, v) == RilLine(at, "value", v)

LEMMA ValueTaken ==
    ASSUME NEW cmd, NEW v
    PROVE  /\ TakenFor(cmd, Value(cmd.at, v)) = "value"
           /\ ~IsPrompt(cmd, Value(cmd.at, v))
           /\ "value" \in cmd.rsp.good => RilVerdict(cmd, Value(cmd.at, v)) = "success"
           /\ ("value" \notin cmd.rsp.good /\ "value" \notin cmd.rsp.bad) =>
                Passes(cmd, Value(cmd.at, v))
  <1>1. Value(cmd.at, v).kind = "value" /\ Value(cmd.at, v).at = cmd.at
    BY DEF Value, RilLine
  <1>2. TakenFor(cmd, Value(cmd.at, v)) = "value"
    BY <1>1 DEF TakenFor
  <1>3. ~IsPrompt(cmd, Value(cmd.at, v))
    BY <1>1 DEF IsPrompt
  <1> QED
    BY <1>2, <1>3 DEF RilVerdict, Passes

LEMMA FinalTaken ==
    ASSUME NEW cmd, NEW kind, kind # "value"
    PROVE  /\ TakenFor(cmd, FinalOf(kind)) = kind
           /\ kind \in cmd.rsp.good => RilVerdict(cmd, FinalOf(kind)) = "success"
           /\ (kind \notin cmd.rsp.good /\ kind \notin cmd.rsp.bad) =>
                RilVerdict(cmd, FinalOf(kind)) = "wait"
           /\ IsPrompt(cmd, FinalOf(kind)) <=>
                \/ kind = "CONNECT" /\ cmd.at \in {"QHTTPURL", "QHTTPPOST"}
                \/ kind = ">" /\ cmd.at = "QMTPUB"
           /\ \A read \in BOOLEAN : Reads(cmd, FinalOf(kind), read) = read
  <1>1. FinalOf(kind).kind = kind
    BY DEF FinalOf, RilLine
  <1>2. TakenFor(cmd, FinalOf(kind)) = kind
    BY <1>1 DEF TakenFor
  <1>3. \A read \in BOOLEAN : Reads(cmd, FinalOf(kind), read) = read
    BY <1>2 DEF Reads
  <1> QED
    BY <1>1, <1>2, <1>3 DEF RilVerdict, IsPrompt

LEMMA KeptFinal ==
    ASSUME NEW cmd, NEW room, NEW got, NEW data, NEW kind, kind # "value"
    PROVE  /\ (cmd.rsp.keeps # "any" /\ cmd.rsp.keeps # "verdict") =>
                Kept(cmd, room, got, FinalOf(kind), data) = {data}
           /\ (cmd.rsp.keeps = "any" /\ kind \in OkLines) =>
                Kept(cmd, room, got, FinalOf(kind), data) = {data}
           /\ (cmd.rsp.keeps = "verdict" /\ kind \in cmd.rsp.good) =>
                Kept(cmd, room, got, FinalOf(kind), data) =
                    {Told(IF kind \in OkLines THEN "OK" ELSE
                          IF kind \in CmeError THEN "ERROR" ELSE kind)}
  <1>1. TakenFor(cmd, FinalOf(kind)) = kind
    BY FinalTaken
  <1> QED
    BY <1>1 DEF Kept

\* The value a handler stores as it is told.
LEMMA KeptValue ==
    ASSUME NEW cmd, NEW room, NEW got, NEW data, NEW v,
           cmd.at \notin {"COPS?", "QALARM?", "QMIC?"}, cmd.rsp.keeps \in {"number", "any"}
    PROVE  Kept(cmd, room, got, Value(cmd.at, v), data) = {Told(v)}
  <1>1. TakenFor(cmd, Value(cmd.at, v)) = "value"
    BY ValueTaken
  <1>2. Value(cmd.at, v).at = cmd.at /\ Value(cmd.at, v).val = v
    BY DEF Value, RilLine
  <1> QED
    BY <1>1, <1>2 DEF Kept

-----------------------------------------------------------------------------
(* Lines one after the other.                                              *)

LEMMA OneFinal ==
    ASSUME NEW call, NEW step, NEW got, NEW told, NEW done, NEW data, NEW read,
           NEW x, NEW lines, lines # <<>>, Head(lines) = x,
           Finishes(call, step, got, told, done, x, data, read)
    PROVE  Ends3(call, step, got, told, done, lines, data, read)
  BY DEF Ends1, Ends2, Ends3

LEMMA TwoLines ==
    ASSUME NEW call, NEW step, NEW got, NEW told, NEW done, NEW data, NEW read,
           NEW x, NEW y, Passes(call.cmds[step], x),
           \A kept \in Kept(call.cmds[step], call.body, got, x, data) :
                Finishes(call, step, got, told, done, y, kept,
                         Reads(call.cmds[step], x, read))
    PROVE  Ends3(call, step, got, told, done, <<x, y>>, data, read)
  <1> DEFINE lines == <<x, y>>
  <1>1. lines # <<>> /\ Head(lines) = x /\ Tail(lines) = <<y>>
    OBVIOUS
  <1>2. <<y>> # <<>> /\ Head(<<y>>) = y
    OBVIOUS
  <1>3. \A kept \in Kept(call.cmds[step], call.body, got, x, data) :
            Ends1(call, step, got, told, done, <<y>>, kept, Reads(call.cmds[step], x, read))
    BY <1>2 DEF Ends1
  <1> HIDE DEF lines
  <1>4. Ends2(call, step, got, told, done, lines, data, read)
    BY <1>1, <1>3 DEF Ends2
  <1>5. Ends3(call, step, got, told, done, lines, data, read)
    BY <1>4 DEF Ends3
  <1> QED
    BY <1>5 DEF lines

LEMMA ThreeLines ==
    ASSUME NEW call, NEW step, NEW got, NEW told, NEW done, NEW data, NEW read,
           NEW x, NEW y, NEW z, Passes(call.cmds[step], x), Passes(call.cmds[step], y),
           \A one \in Kept(call.cmds[step], call.body, got, x, data) :
            \A two \in Kept(call.cmds[step], call.body, got, y, one) :
                Finishes(call, step, got, told, done, z, two,
                    Reads(call.cmds[step], y, Reads(call.cmds[step], x, read)))
    PROVE  Ends3(call, step, got, told, done, <<x, y, z>>, data, read)
  <1> DEFINE lines == <<x, y, z>>
             rest == <<y, z>>
  <1>1. lines # <<>> /\ Head(lines) = x /\ Tail(lines) = rest
    OBVIOUS
  <1>2. rest # <<>> /\ Head(rest) = y /\ Tail(rest) = <<z>>
    OBVIOUS
  <1>3. <<z>> # <<>> /\ Head(<<z>>) = z
    OBVIOUS
  <1> HIDE DEF lines, rest
  <1>4. ASSUME NEW one \in Kept(call.cmds[step], call.body, got, x, data)
        PROVE  Ends2(call, step, got, told, done, rest, one, Reads(call.cmds[step], x, read))
    <2>1. \A two \in Kept(call.cmds[step], call.body, got, y, one) :
            Ends1(call, step, got, told, done, <<z>>, two,
                  Reads(call.cmds[step], y, Reads(call.cmds[step], x, read)))
      BY <1>3 DEF Ends1
    <2> QED
      BY <1>2, <2>1 DEF Ends2
  <1>5. Ends3(call, step, got, told, done, lines, data, read)
    BY <1>1, <1>4 DEF Ends3
  <1> QED
    BY <1>5 DEF lines

-----------------------------------------------------------------------------
(* Every kind of command ends well when the modem does what it is told.    *)

LEMMA ToldIs == ASSUME NEW v PROVE Told(v)[2] = v
  <1>1. <<"told", v>>[2] = v
    OBVIOUS
  <1> QED
    BY <1>1 DEF Told

LEMMA OneValue == ASSUME NEW v PROVE <<v>>[1] = v /\ 1 \in DOMAIN <<v>> /\ <<v>> # <<>>
  OBVIOUS

\* Nothing is given back but success.
LEMMA NothingGiven ==
    ASSUME NEW call, CallOK(call), call.gives = "none", NEW told, NEW data, NEW read
    PROVE  ReturnsWell(call, told, Len(call.cmds), data, read)
  <1>1. Len(call.asks) = Len(call.cmds)
    BY DEF CallOK
  <1>2. Passed(call.gives, data, read)
    BY DEF Passed
  <1>3. call.gives # "size" /\ call.gives \notin {"copy", "direct", "size", "bytes"}
    OBVIOUS
  <1> QED
    BY <1>1, <1>2, <1>3 DEF ReturnsWell

\* A value is given back as it is meant.
LEMMA ValueGiven ==
    ASSUME NEW call, CallOK(call), call.gives \in {"copy", "direct"}, NEW told, NEW data,
           NEW read, ~FewerDigits(call, told) => data = Told(Meant(call, told))
    PROVE  ReturnsWell(call, told, Len(call.cmds), data, read)
  <1>1. Len(call.asks) = Len(call.cmds)
    BY DEF CallOK
  <1>2. Passed(call.gives, data, read)
    BY DEF Passed
  <1>3. call.gives # "size"
    OBVIOUS
  <1> QED
    BY <1>1, <1>2, <1>3 DEF ReturnsWell

LEMMA PlainMeant ==
    ASSUME NEW call, NEW told, NEW v, told[Len(told)] = <<v>>,
           call.cmds[Len(call.cmds)].at \notin {"CPIN?", "QISTAT", "QMIC?", "QUSERDAT=3"}
    PROVE  Meant(call, told) = v
  <1>1. told[Len(told)][1] = v
    BY OneValue
  <1> QED
    BY <1>1 DEF Meant

LEMMA LastEnds ==
    ASSUME NEW call, CallOK(call), NEW told, NEW done, NEW data, NEW read,
           ReturnsWell(call, told, done, data, read)
    PROVE  EndsWell(call, Len(call.cmds), told, done, data, read)
  <1>1. Len(call.cmds) \in Nat
    BY CallLength
  <1>2. ~(Len(call.cmds) < Len(call.cmds))
    BY <1>1
  <1> QED
    BY <1>2 DEF EndsWell

\* An order ends with OK.
LEMMA OrderEnds ==
    ASSUME NEW call, CallOK(call), NEW step, NEW got, NEW told, NEW data, NEW read \in BOOLEAN,
           Ordered(call.cmds[step]),
           EndsWell(call, step, told, step, data, read)
    PROVE  Ends3(call, step, got, told, step, <<FinalOf("OK")>>, data, read)
  <1> DEFINE cmd == call.cmds[step]
             x == FinalOf("OK")
  <1>1. "OK" \in cmd.rsp.good /\ cmd.rsp.keeps # "any" /\ cmd.rsp.keeps # "verdict"
    BY DEF Ordered
  <1>2. RilVerdict(cmd, x) = "success" /\ Reads(cmd, x, read) = read
    BY <1>1, FinalTaken
  <1>3. Kept(cmd, call.body, got, x, data) = {data}
    BY <1>1, KeptFinal
  <1> HIDE DEF x
  <1>4. Finishes(call, step, got, told, step, x, data, read)
    BY <1>2, <1>3 DEF Finishes
  <1>5. <<x>> # <<>> /\ Head(<<x>>) = x
    OBVIOUS
  <1>6. Ends3(call, step, got, told, step, <<x>>, data, read)
    BY <1>4, <1>5, OneFinal
  <1> QED
    BY <1>6 DEF x

\* A value, then OK.
LEMMA ValueEnds ==
    ASSUME NEW call, CallOK(call), NEW step, NEW got, NEW told, NEW data, NEW read \in BOOLEAN,
           AsksValue(call.cmds[step]), NEW v,
           EndsWell(call, step, told, step, Told(v), read)
    PROVE  Ends3(call, step, got, told, step,
                 <<RilLine(call.cmds[step].at, "value", v), FinalOf("OK")>>, data, read)
  <1> DEFINE cmd == call.cmds[step]
             x == Value(cmd.at, v)
             y == FinalOf("OK")
  <1>1. /\ "OK" \in cmd.rsp.good /\ cmd.rsp.keeps \in {"number", "any"}
        /\ "value" \notin cmd.rsp.good /\ "value" \notin cmd.rsp.bad
        /\ cmd.at \notin {"COPS?", "QALARM?", "QMIC?", "QUSERDAT=3"}
    BY DEF AsksValue, OkLines, CmsError, ValueNames
  <1>2. Passes(cmd, x)
    BY <1>1, ValueTaken
  <1>3. Kept(cmd, call.body, got, x, data) = {Told(v)}
    BY <1>1, KeptValue
  <1>4. Reads(cmd, x, read) = read
    BY <1>1 DEF Reads
  <1>5. RilVerdict(cmd, y) = "success" /\ Reads(cmd, y, read) = read
    BY <1>1, FinalTaken
  <1>6. Kept(cmd, call.body, got, y, Told(v)) = {Told(v)}
    BY <1>1, KeptFinal DEF OkLines
  <1> HIDE DEF x, y
  <1>7. Finishes(call, step, got, told, step, y, Told(v), read)
    BY <1>5, <1>6 DEF Finishes
  <1>8. Ends3(call, step, got, told, step, <<x, y>>, data, read)
    BY <1>2, <1>3, <1>4, <1>7, TwoLines
  <1> QED
    BY <1>8 DEF x, y, Value

\* OK, then a value, which ends the command.
LEMMA LateValueEnds ==
    ASSUME NEW call, CallOK(call), NEW step, NEW got, NEW told, NEW done, NEW data,
           NEW read \in BOOLEAN, NEW v,
           "value" \in call.cmds[step].rsp.good, "OK" \notin call.cmds[step].rsp.good,
           "OK" \notin call.cmds[step].rsp.bad, call.cmds[step].rsp.keeps # "any",
           call.cmds[step].rsp.keeps # "verdict", call.cmds[step].at # "QUSERDAT=3",
           \A kept \in Kept(call.cmds[step], call.body, got,
                             Value(call.cmds[step].at, v), data) :
                EndsWell(call, step, told, done, kept, read)
    PROVE  Ends3(call, step, got, told, done,
                 <<FinalOf("OK"), RilLine(call.cmds[step].at, "value", v)>>, data, read)
  <1> DEFINE cmd == call.cmds[step]
             x == FinalOf("OK")
             y == Value(cmd.at, v)
  <1>1. RilVerdict(cmd, x) = "wait" /\ ~IsPrompt(cmd, x) /\ Reads(cmd, x, read) = read
    BY FinalTaken
  <1>2. Passes(cmd, x)
    BY <1>1 DEF Passes
  <1>3. Kept(cmd, call.body, got, x, data) = {data}
    BY KeptFinal
  <1>4. RilVerdict(cmd, y) = "success"
    BY ValueTaken
  <1>5. \A kept \in Kept(cmd, call.body, got, y, data) :
            EndsWell(call, step, told, done, kept, read)
    OBVIOUS
  <1>6. Reads(cmd, y, read) = read
    BY DEF Reads
  <1> HIDE DEF x, y
  <1>7. Finishes(call, step, got, told, done, y, data, read)
    BY <1>4, <1>5, <1>6 DEF Finishes
  <1>8. Ends3(call, step, got, told, done, <<x, y>>, data, read)
    BY <1>1, <1>2, <1>3, <1>7, TwoLines
  <1> QED
    BY <1>8 DEF x, y, Value

\* A value that ends the command, whatever comes behind.
LEMMA EarlyValueEnds ==
    ASSUME NEW call, CallOK(call), NEW step, NEW got, NEW told, NEW done, NEW data,
           NEW read \in BOOLEAN, NEW v, NEW y,
           "value" \in call.cmds[step].rsp.good, call.cmds[step].at # "QUSERDAT=3",
           \A kept \in Kept(call.cmds[step], call.body, got,
                             Value(call.cmds[step].at, v), data) :
                EndsWell(call, step, told, done, kept, read)
    PROVE  Ends3(call, step, got, told, done,
                 <<RilLine(call.cmds[step].at, "value", v), y>>, data, read)
  <1> DEFINE cmd == call.cmds[step]
             x == Value(cmd.at, v)
  <1>1. RilVerdict(cmd, x) = "success"
    BY ValueTaken
  <1>2. Reads(cmd, x, read) = read
    BY DEF Reads
  <1>3. \A kept \in Kept(cmd, call.body, got, x, data) :
            EndsWell(call, step, told, done, kept, read)
    OBVIOUS
  <1> HIDE DEF x
  <1>4. Finishes(call, step, got, told, done, x, data, read)
    BY <1>1, <1>2, <1>3 DEF Finishes
  <1>5. <<x, y>> # <<>> /\ Head(<<x, y>>) = x
    OBVIOUS
  <1>6. Ends3(call, step, got, told, done, <<x, y>>, data, read)
    BY <1>4, <1>5, OneFinal
  <1> QED
    BY <1>6 DEF x, Value

\* A final line that the handler stores, or does not look at.
LEMMA FinalEnds ==
    ASSUME NEW call, CallOK(call), NEW step, NEW got, NEW told, NEW done, NEW data,
           NEW read \in BOOLEAN, NEW kind, kind # "value", NEW kept,
           kind \in call.cmds[step].rsp.good,
           Kept(call.cmds[step], call.body, got, FinalOf(kind), data) = {kept},
           EndsWell(call, step, told, done, kept, read)
    PROVE  Ends3(call, step, got, told, done, <<FinalOf(kind)>>, data, read)
  <1> DEFINE cmd == call.cmds[step]
             x == FinalOf(kind)
  <1>1. RilVerdict(cmd, x) = "success" /\ Reads(cmd, x, read) = read
    BY FinalTaken
  <1>2. Kept(cmd, call.body, got, x, data) = {kept}
    OBVIOUS
  <1> HIDE DEF x
  <1>3. Finishes(call, step, got, told, done, x, data, read)
    BY <1>1, <1>2 DEF Finishes
  <1>4. <<x>> # <<>> /\ Head(<<x>>) = x
    OBVIOUS
  <1>5. Ends3(call, step, got, told, done, <<x>>, data, read)
    BY <1>3, <1>4, OneFinal
  <1> QED
    BY <1>5 DEF x

-----------------------------------------------------------------------------
(* So does every command of every call, whatever the modem answers.        *)

\* The reply refuses, asks for the data, or ends the command well.
Answered(call, step, got, told, reply, read) ==
    \/ reply \in Refusals(call.cmds[step].at)
    \/ /\ reply.ok /\ reply.waits /\ step = Len(call.cmds) /\ call.gives = "none"
       /\ "OK" \in call.cmds[step].rsp.good /\ call.cmds[step].rsp.keeps = "mute"
       /\ \E line : /\ reply.lines = <<line>> /\ IsPrompt(call.cmds[step], line)
                    /\ RilVerdict(call.cmds[step], line) = "wait"
    \/ /\ ~reply.waits
       /\ Ends3(call, step, got, told, IF reply.ok THEN step ELSE step - 1, reply.lines,
                call.cmds[step].start, read)

LEMMA DoneAnswered ==
    ASSUME NEW call, NEW step, NEW got, NEW told, NEW read, NEW said, NEW lines,
           Ends3(call, step, got, told, step, lines, call.cmds[step].start, read)
    PROVE  Answered(call, step, got, told, Reply(TRUE, said, lines, FALSE), read)
  <1> DEFINE reply == Reply(TRUE, said, lines, FALSE)
  <1>1. reply.ok = TRUE /\ reply.waits = FALSE /\ reply.lines = lines
    BY DEF Reply
  <1> HIDE DEF reply
  <1>2. Answered(call, step, got, told, reply, read)
    BY <1>1 DEF Answered
  <1> QED
    BY <1>2 DEF reply

LEMMA OrdersAnswered ==
    ASSUME NEW call, CallOK(call), NEW step, Ordered(call.cmds[step]),
           NEW reply \in RilReplies(call.cmds[step].at), NEW got, NEW told,
           NEW read \in BOOLEAN,
           EndsWell(call, step, told, step, call.cmds[step].start, read)
    PROVE  Answered(call, step, got, told, reply, read)
  <1>1. call.cmds[step].at \in PlainNames
    BY DEF Ordered
  <1>2. RilReplies(call.cmds[step].at) = Plainly(call.cmds[step].at)
    BY <1>1 DEF RilReplies, PlainNames, AudioQueries
  <1>3. CASE reply \in Refusals(call.cmds[step].at)
    BY <1>3 DEF Answered
  <1>4. CASE reply = Reply(TRUE, <<>>, <<FinalOf("OK")>>, FALSE)
    <2>1. Ends3(call, step, got, told, step, <<FinalOf("OK")>>, call.cmds[step].start, read)
      BY OrderEnds
    <2> QED
      BY <1>4, <2>1, DoneAnswered
  <1> QED
    BY <1>2, <1>3, <1>4 DEF Plainly

\* What is told comes from the values a query can be answered with.
LEMMA TellersAnswered ==
    ASSUME NEW call, NEW step, NEW got, NEW told, NEW read,
           NEW reply, NEW values, reply \in TellsThenOk(call.cmds[step].at, values),
           told[step] = reply.said,
           \A v \in values : told[step] = <<v>> =>
                Ends3(call, step, got, told, step,
                      <<RilLine(call.cmds[step].at, "value", v), FinalOf("OK")>>,
                      call.cmds[step].start, read)
    PROVE  Answered(call, step, got, told, reply, read)
  <1>1. CASE reply \in Refusals(call.cmds[step].at)
    BY <1>1 DEF Answered
  <1>2. ASSUME NEW v \in values,
               reply = Reply(TRUE, <<v>>, <<RilLine(call.cmds[step].at, "value", v),
                                            FinalOf("OK")>>, FALSE)
        PROVE  Answered(call, step, got, told, reply, read)
    <2>1. told[step] = <<v>>
      BY <1>2 DEF Reply
    <2> QED
      BY <1>2, <2>1, DoneAnswered
  <1> QED
    BY <1>1, <1>2 DEF TellsThenOk

LEMMA ValuesAnswered ==
    ASSUME NEW call, CallOK(call), NEW step, AsksValue(call.cmds[step]),
           NEW reply \in RilReplies(call.cmds[step].at), NEW got, NEW told,
           NEW read \in BOOLEAN, told[step] = reply.said,
           \A v : /\ told[step] = <<v>>
                  /\ call.cmds[step].at = "QAUDCH?" => v \in Channels
                  => EndsWell(call, step, told, step, Told(v), read)
    PROVE  Answered(call, step, got, told, reply, read)
  <1> DEFINE at == call.cmds[step].at
  <1>1. at \in ValueNames
    BY DEF AsksValue
  <1>2. CASE at = "QAUDCH?"
    <2>1. RilReplies(at) = TellsThenOk(at, Channels)
      BY <1>2 DEF RilReplies, AudioQueries
    <2>2. \A v \in Channels : told[step] = <<v>> =>
                Ends3(call, step, got, told, step,
                      <<RilLine(call.cmds[step].at, "value", v), FinalOf("OK")>>,
                      call.cmds[step].start, read)
      BY ValueEnds
    <2> QED
      BY <2>1, <2>2, TellersAnswered
  <1>3. CASE at # "QAUDCH?"
    <2>1. RilReplies(at) = TellsThenOk(at, Amounts)
      BY <1>1, <1>3 DEF RilReplies, AudioQueries, ValueNames
    <2>2. \A v \in Amounts : told[step] = <<v>> =>
                Ends3(call, step, got, told, step,
                      <<RilLine(call.cmds[step].at, "value", v), FinalOf("OK")>>,
                      call.cmds[step].start, read)
      BY <1>3, ValueEnds
    <2> QED
      BY <2>1, <2>2, TellersAnswered
  <1> QED
    BY <1>2, <1>3

\* The commands before the last.
LEMMA EarlyAnswered ==
    ASSUME NEW call, CallOK(call), NEW step \in 1 .. Len(call.cmds), step < Len(call.cmds),
           NEW reply \in RilReplies(call.cmds[step].at), NEW got, NEW told,
           NEW read \in BOOLEAN, told[step] = reply.said
    PROVE  Answered(call, step, got, told, reply, read)
  <1> DEFINE cmd == call.cmds[step]
  <1>1. Len(call.cmds) \in Nat
    BY CallLength
  <1>2. step \in 1 .. Len(call.cmds) - 1 /\ step # Len(call.cmds)
    BY <1>1
  <1>3. cmd \in EarlyCommands
    BY <1>2 DEF CallOK
  <1>4. CASE cmd \in {Order(at) : at \in {"QFTPUSER", "QFTPPASS", "QFTPCFG", "QIREGAPP",
                                          "QIACT", "QIFGCNT"}}
    <2>1. PICK at \in {"QFTPUSER", "QFTPPASS", "QFTPCFG", "QIREGAPP", "QIACT", "QIFGCNT"} :
            cmd = Order(at)
      BY <1>4
    <2>2. /\ cmd.at = at /\ cmd.start = Unset /\ cmd.rsp.good = OkLines
          /\ cmd.rsp.keeps = "mute"
      BY <2>1 DEF Order, Cmd, Default_atRsp_callback, Rsp
    <2>3. Ordered(cmd)
      BY <2>2 DEF Ordered, PlainNames, OkLines
    <2>4. cmd # GetsChannel
      BY <2>2 DEF GetsChannel, Cmd
    <2>5. EndsWell(call, step, told, step, cmd.start, read)
      BY <1>2, <2>2, <2>4 DEF EndsWell, GotOK
    <2> QED
      BY <2>3, <2>5, OrdersAnswered
  <1>5. CASE cmd \in {GetsChannel, GetsMedia}
    <2>1. /\ cmd.at \in {"QAUDCH?", "QMEDVL?"} /\ cmd.rsp = ATResponse_AUD_handler
          /\ cmd = GetsChannel => cmd.at = "QAUDCH?"
      BY <1>5 DEF GetsChannel, GetsMedia, Cmd
    <2>2. AsksValue(cmd)
      BY <2>1 DEF AsksValue, ValueNames, ATResponse_AUD_handler, Rsp, CmeError, CmsError
    <2>3. ASSUME NEW v, told[step] = <<v>>, cmd.at = "QAUDCH?" => v \in Channels
          PROVE  EndsWell(call, step, told, step, Told(v), read)
      <3>1. 1 \in DOMAIN told[step] /\ told[step][1] = v
        BY <2>3, OneValue
      <3>2. GotOK(cmd, told[step], Told(v))
        BY <2>1, <2>3, <3>1 DEF GotOK
      <3> QED
        BY <1>2, <3>2 DEF EndsWell
    <2> QED
      BY <2>2, <2>3, ValuesAnswered
  <1> QED
    BY <1>3, <1>4, <1>5 DEF EarlyCommands

-----------------------------------------------------------------------------
(* The last command, one kind after the other.                             *)

Last(call) == call.cmds[Len(call.cmds)]

LEMMA LastOrder ==
    ASSUME NEW call, CallOK(call), NEW n, n = Len(call.cmds), call.gives = "none",
           Ordered(call.cmds[n]), NEW reply \in RilReplies(call.cmds[n].at), NEW got, NEW told,
           NEW read \in BOOLEAN
    PROVE  Answered(call, n, got, told, reply, read)
  BY NothingGiven, LastEnds, OrdersAnswered

LEMMA LastValue ==
    ASSUME NEW call, CallOK(call), NEW n, n = Len(call.cmds),
           call.gives \in {"copy", "direct"}, AsksValue(call.cmds[n]),
           NEW reply \in RilReplies(call.cmds[n].at), NEW got, NEW told,
           NEW read \in BOOLEAN, Len(told) = n, told[n] = reply.said
    PROVE  Answered(call, n, got, told, reply, read)
  <1>1. call.cmds[n].at \notin {"CPIN?", "QISTAT", "QMIC?", "QUSERDAT=3"}
    BY DEF AsksValue, ValueNames
  <1>2. ASSUME NEW v, told[n] = <<v>>
        PROVE  EndsWell(call, n, told, n, Told(v), read)
    <2>1. Meant(call, told) = v
      BY <1>1, <1>2, PlainMeant
    <2>2. ReturnsWell(call, told, Len(call.cmds), Told(v), read)
      BY <2>1, ValueGiven
    <2> QED
      BY <2>2, LastEnds
  <1> QED
    BY <1>2, ValuesAnswered

LEMMA LastBytes ==
    ASSUME NEW call, CallOK(call), NEW n, n = Len(call.cmds), call.gives = "bytes",
           call.cmds[n] = Cmd("QUSERDAT=3", SecureData_Read_Callback, Told(0)),
           NEW reply \in RilReplies(call.cmds[n].at), NEW got, NEW told,
           NEW read \in BOOLEAN, Len(told) = n, told[n] = reply.said
    PROVE  Answered(call, n, got, told, reply, read)
  <1> DEFINE cmd == call.cmds[n]
  <1>1. /\ cmd.at = "QUSERDAT=3" /\ cmd.rsp.good = OkLines /\ cmd.rsp.bad = CmeError
        /\ cmd.rsp.keeps = "bytes"
    BY DEF Cmd, SecureData_Read_Callback, Rsp
  <1>2. "value" \notin OkLines /\ "value" \notin CmeError /\ "OK" \in OkLines
    BY DEF OkLines, CmeError
  <1>3. RilReplies(cmd.at) = TellsThenOk(cmd.at, Amounts)
    BY <1>1 DEF RilReplies, AudioQueries
  <1>4. ASSUME NEW v \in Amounts, told[n] = <<v>>
        PROVE  Ends3(call, n, got, told, n, <<RilLine(cmd.at, "value", v), FinalOf("OK")>>,
                     cmd.start, read)
    <2> DEFINE x == Value(cmd.at, v)
               y == FinalOf("OK")
               room == call.body
               kept == Told(IF room < v THEN room ELSE v)
    <2>1. TakenFor(cmd, x) = "value" /\ Passes(cmd, x)
      BY <1>1, <1>2, ValueTaken
    <2>2. x.at = "QUSERDAT=3" /\ x.val = v
      BY <1>1 DEF Value, RilLine
    <2>3. Kept(cmd, room, got, x, cmd.start) = {kept}
      BY <1>1, <2>1, <2>2 DEF Kept
    <2>4. Reads(cmd, x, read) = TRUE
      BY <1>1, <2>1 DEF Reads
    <2>5. RilVerdict(cmd, y) = "success" /\ Reads(cmd, y, TRUE) = TRUE
      BY <1>1, <1>2, FinalTaken
    <2>6. Kept(cmd, room, got, y, kept) = {kept}
      BY <1>1, KeptFinal
    <2>7. Meant(call, told) = IF v > room THEN room ELSE v
      <3>1. told[Len(told)][1] = v
        BY <1>4, OneValue
      <3> QED
        BY <1>1, <3>1 DEF Meant
    <2>8. kept = Told(Meant(call, told))
      BY <2>7
    <2>9. EndsWell(call, n, told, n, kept, TRUE)
      <3>1. Len(call.asks) = Len(call.cmds)
        BY DEF CallOK
      <3>2. Passed(call.gives, kept, TRUE) /\ call.gives # "size"
        BY DEF Passed
      <3>3. ReturnsWell(call, told, Len(call.cmds), kept, TRUE)
        BY <2>8, <3>1, <3>2 DEF ReturnsWell
      <3> QED
        BY <3>3, LastEnds
    <2> HIDE DEF x, y, kept
    <2>10. Finishes(call, n, got, told, n, y, kept, TRUE)
      BY <2>5, <2>6, <2>9 DEF Finishes
    <2>11. Ends3(call, n, got, told, n, <<x, y>>, cmd.start, read)
      BY <2>1, <2>3, <2>4, <2>10, TwoLines
    <2> QED
      BY <2>11 DEF x, y, Value
  <1> QED
    BY <1>3, <1>4, TellersAnswered

LEMMA LastName ==
    ASSUME NEW call, CallOK(call), NEW n, n = Len(call.cmds), call.gives = "copy",
           call.cmds[n] = Cmd("CPIN?", ATResponse_CPIN_Handler, Told(0)),
           NEW reply \in RilReplies(call.cmds[n].at), NEW got, NEW told,
           NEW read \in BOOLEAN, Len(told) = n, told[n] = reply.said
    PROVE  Answered(call, n, got, told, reply, read)
  <1> DEFINE cmd == call.cmds[n]
  <1>1. cmd.at = "CPIN?" /\ "value" \in cmd.rsp.good /\ cmd.rsp.keeps = "name"
    BY DEF Cmd, ATResponse_CPIN_Handler, Rsp
  <1>2. RilReplies(cmd.at) = TellsThenOk(cmd.at, SimStates)
    BY <1>1 DEF RilReplies, AudioQueries
  <1>3. ASSUME NEW v \in SimStates, told[n] = <<v>>
        PROVE  Ends3(call, n, got, told, n, <<RilLine(cmd.at, "value", v), FinalOf("OK")>>,
                     cmd.start, read)
    <2> DEFINE x == Value(cmd.at, v)
               kept == Told(RIL_SIM_GetSimStateByName(v))
    <2>1. TakenFor(cmd, x) = "value" /\ x.at = "CPIN?" /\ x.val = v
      BY <1>1, ValueTaken DEF Value, RilLine
    <2>2. Kept(cmd, call.body, got, x, cmd.start) = {kept}
      BY <1>1, <2>1 DEF Kept
    <2>3. Meant(call, told) = RIL_SIM_GetSimStateByName(v)
      <3>1. told[Len(told)][1] = v
        BY <1>3, OneValue
      <3> QED
        BY <1>1, <3>1 DEF Meant
    <2>4. EndsWell(call, n, told, n, kept, read)
      <3>1. ReturnsWell(call, told, Len(call.cmds), kept, read)
        BY <2>3, ValueGiven
      <3> QED
        BY <3>1, LastEnds
    <2> HIDE DEF kept
    <2> QED
      BY <1>1, <2>2, <2>4, EarlyValueEnds
  <1> QED
    BY <1>2, <1>3, TellersAnswered

LEMMA LastUnclear ==
    ASSUME NEW call, CallOK(call), NEW n, n = Len(call.cmds), call.gives = "direct",
           n = 1, call.asks[1] = call.cmds[1].at,
           \/ call.cmds[n] = Cmd("COPS?", ATRsp_COPS_Handler, Unset)
           \/ call.cmds[n] = Cmd("QALARM?", ATResponse_QALARM_Handler, Unset),
           NEW reply \in RilReplies(call.cmds[n].at), NEW got, NEW told,
           NEW read \in BOOLEAN, Len(told) = n, told[n] = reply.said, told = <<reply.said>>
    PROVE  Answered(call, n, got, told, reply, read)
  <1> DEFINE cmd == call.cmds[n]
             values == {0, Unclear}
  <1>1. cmd.at \in {"COPS?", "QALARM?"} /\ "value" \in cmd.rsp.good /\ cmd.rsp.keeps = "number"
    BY DEF Cmd, ATRsp_COPS_Handler, ATResponse_QALARM_Handler, Rsp
  <1>2. RilReplies(cmd.at) = TellsThenOk(cmd.at, values)
    BY <1>1 DEF RilReplies, AudioQueries
  <1>3. ASSUME NEW v \in values, told[n] = <<v>>
        PROVE  Ends3(call, n, got, told, n, <<RilLine(cmd.at, "value", v), FinalOf("OK")>>,
                     cmd.start, read)
    <2> DEFINE x == Value(cmd.at, v)
    <2>1. TakenFor(cmd, x) = "value" /\ x.at = cmd.at /\ x.val = v
      BY ValueTaken DEF Value, RilLine
    <2>2. Meant(call, told) = v
      BY <1>1, <1>3, PlainMeant
    <2>3. CASE v = Unclear
      <3>1. told = <<<<Unclear>>>>
        BY <1>3, <2>3
      <3>2. ASSUME NEW kept PROVE EndsWell(call, n, told, n, kept, read)
        <4>1. Len(call.asks) = Len(call.cmds)
          BY DEF CallOK
        <4>2. Passed(call.gives, kept, read) /\ call.gives # "size"
          BY DEF Passed
        <4>3. call.asks[1] \in {"COPS?", "QALARM?"}
          BY <1>1
        <4>4. ReturnsWell(call, told, Len(call.cmds), kept, read)
          BY <3>1, <4>1, <4>2, <4>3 DEF ReturnsWell
        <4> QED
          BY <4>4, LastEnds
      <3> QED
        BY <1>1, <3>2, EarlyValueEnds
    <2>4. CASE v # Unclear
      <3>1. Kept(cmd, call.body, got, x, cmd.start) = {Told(v)}
        BY <1>1, <2>1, <2>4 DEF Kept
      <3>2. EndsWell(call, n, told, n, Told(v), read)
        <4>1. ReturnsWell(call, told, Len(call.cmds), Told(v), read)
          BY <2>2, ValueGiven
        <4> QED
          BY <4>1, LastEnds
      <3> QED
        BY <1>1, <3>1, <3>2, EarlyValueEnds
    <2> QED
      BY <2>3, <2>4
  <1> HIDE DEF values
  <1>4. reply \in TellsThenOk(call.cmds[n].at, values)
    BY <1>2
  <1> QED
    BY <1>3, <1>4, TellersAnswered

\* A volume with no fewer digits than the one before is read as it is.
LEMMA VolumesParsed ==
    ASSUME NEW v \in [1 .. 3 -> MicVolumes], NEW channel \in Channels,
           \A i \in 1 .. 2 : ~(Len(v[i]) > Len(v[i + 1]))
    PROVE  parse_cmd_qmic(v, channel) = Digits(v[channel + 1])
  <1>1. ASSUME NEW digits \in MicVolumes, NEW before \in MicVolumes,
               ~(Len(before) > Len(digits))
        PROVE  Overwritten(digits, before) = digits
    <2> DEFINE one == <<1>>
               ten == <<1, 0>>
    <2>0. one \in Seq(Nat) /\ ten \in Seq(Nat)
      OBVIOUS
    <2>1. digits \in Seq(Nat) /\ before \in Seq(Nat)
      <3> HIDE DEF one, ten
      <3>1. MicVolumes = {one, ten}
        BY DEF MicVolumes, one, ten
      <3> QED
        BY <2>0, <3>1
    <2>2. Len(before) \in Nat /\ Len(digits) \in Nat /\ Len(digits) + 1 > Len(before)
      BY <1>1, <2>1
    <2>3. SubSeq(before, Len(digits) + 1, Len(before)) = <<>>
      BY <2>1, <2>2
    <2> QED
      BY <2>1, <2>3, ConcatEmptySeq DEF Overwritten
  <1>2. v[1] \in MicVolumes /\ v[2] \in MicVolumes /\ v[3] \in MicVolumes
    OBVIOUS
  <1>3. ~(Len(v[1]) > Len(v[2])) /\ ~(Len(v[2]) > Len(v[3]))
    OBVIOUS
  <1>4. Overwritten(v[2], v[1]) = v[2] /\ Overwritten(v[3], v[2]) = v[3]
    BY <1>1, <1>2, <1>3
  <1>5. CASE channel = 0
    BY <1>5 DEF parse_cmd_qmic
  <1>6. CASE channel = 1
    BY <1>4, <1>6 DEF parse_cmd_qmic
  <1>7. CASE channel = 2
    BY <1>4, <1>7 DEF parse_cmd_qmic
  <1>8. channel = 0 \/ channel = 1 \/ channel = 2
    BY DEF Channels
  <1> QED
    BY <1>5, <1>6, <1>7, <1>8

LEMMA LastVolume ==
    ASSUME NEW call, CallOK(call), NEW n, n = Len(call.cmds), n = 2, call.gives = "direct",
           call.cmds[n] = Cmd("QMIC?", ATResponse_AUD_handler, Unset),
           NEW reply \in RilReplies(call.cmds[n].at), NEW got, NEW told,
           NEW read \in BOOLEAN, Len(told) = n, told[n] = reply.said,
           NEW channel \in Channels, told[1][1] = channel, got[1] = Told(channel)
    PROVE  Answered(call, n, got, told, reply, read)
  <1> DEFINE cmd == call.cmds[n]
             volumes == [1 .. 3 -> MicVolumes]
  <1>1. /\ cmd.at = "QMIC?" /\ cmd.rsp.good = OkLines /\ cmd.rsp.bad = CmeError
        /\ cmd.rsp.keeps = "number"
    BY DEF Cmd, ATResponse_AUD_handler, Rsp
  <1>2. "value" \notin OkLines /\ "value" \notin CmeError /\ "OK" \in OkLines
    BY DEF OkLines, CmeError
  <1>3. RilReplies(cmd.at) = TellsThenOk(cmd.at, volumes)
    BY <1>1 DEF RilReplies, AudioQueries
  <1>4. ASSUME NEW v \in volumes, told[n] = <<v>>
        PROVE  Ends3(call, n, got, told, n, <<RilLine(cmd.at, "value", v), FinalOf("OK")>>,
                     cmd.start, read)
    <2> DEFINE x == Value(cmd.at, v)
               y == FinalOf("OK")
               kept == Told(parse_cmd_qmic(v, channel))
    <2>1. TakenFor(cmd, x) = "value" /\ Passes(cmd, x)
      BY <1>1, <1>2, ValueTaken
    <2>2. x.at = "QMIC?" /\ x.val = v
      BY <1>1 DEF Value, RilLine
    <2>3. got[1][2] = channel
      BY ToldIs
    <2>4. Kept(cmd, call.body, got, x, cmd.start) = {kept}
      BY <1>1, <2>1, <2>2, <2>3 DEF Kept
    <2>5. Reads(cmd, x, read) = read
      BY <1>1 DEF Reads
    <2>6. RilVerdict(cmd, y) = "success" /\ Reads(cmd, y, read) = read
      BY <1>1, <1>2, FinalTaken
    <2>7. Kept(cmd, call.body, got, y, kept) = {kept}
      BY <1>1, KeptFinal
    <2>8. Meant(call, told) = Digits(v[channel + 1])
      <3>1. told[Len(told)][1] = v
        BY <1>4, OneValue
      <3> QED
        BY <1>1, <3>1 DEF Meant
    <2>9. ASSUME ~FewerDigits(call, told)
          PROVE  parse_cmd_qmic(v, channel) = Digits(v[channel + 1])
      <3>1. told[2] # <<>> /\ told[2][1] = v
        BY <1>4, OneValue
      <3>2. \A i \in 1 .. 2 : ~(Len(v[i]) > Len(v[i + 1]))
        BY <1>1, <2>9, <3>1 DEF FewerDigits
      <3> QED
        BY <3>2, VolumesParsed
    <2>10. EndsWell(call, n, told, n, kept, read)
      <3>1. ~FewerDigits(call, told) => kept = Told(Meant(call, told))
        BY <2>8, <2>9
      <3>2. ReturnsWell(call, told, Len(call.cmds), kept, read)
        BY <3>1, ValueGiven
      <3> QED
        BY <3>2, LastEnds
    <2> HIDE DEF x, y, kept
    <2>11. Finishes(call, n, got, told, n, y, kept, read)
      BY <2>6, <2>7, <2>10 DEF Finishes
    <2>12. Ends3(call, n, got, told, n, <<x, y>>, cmd.start, read)
      BY <2>1, <2>4, <2>5, <2>11, TwoLines
    <2> QED
      BY <2>12 DEF x, y, Value
  <1> HIDE DEF volumes
  <1>5. reply \in TellsThenOk(call.cmds[n].at, volumes)
    BY <1>3
  <1> QED
    BY <1>4, <1>5, TellersAnswered

KeepsOnly(cmd, room, got, line, data, kept) == Kept(cmd, room, got, line, data) = {kept}

LEMMA FtpKept ==
    ASSUME NEW cmd, cmd.at \in FtpNames \/ cmd.at = "QFTPSIZE",
           cmd.rsp = ATResponse_FTP_handler_Common, NEW room, NEW got, NEW data, NEW v
    PROVE  KeepsOnly(cmd, room, got, Value(cmd.at, v), data, Told(v))
  <1>1. cmd.at \notin {"COPS?", "QALARM?", "QMIC?"}
    BY DEF FtpNames
  <1>2. cmd.rsp.keeps = "number"
    BY DEF ATResponse_FTP_handler_Common, Rsp
  <1> QED
    BY <1>1, <1>2, KeptValue DEF KeepsOnly

LEMMA LastStatus ==
    ASSUME NEW call, CallOK(call), NEW n, n = Len(call.cmds),
           \/ call.gives = "status" /\ call.cmds[n].at \in FtpNames
           \/ call.gives = "size" /\ call.cmds[n].at = "QFTPSIZE",
           call.cmds[n].rsp = ATResponse_FTP_handler_Common,
           NEW reply \in RilReplies(call.cmds[n].at), NEW got, NEW told,
           NEW read \in BOOLEAN, Len(told) = n, told[n] = reply.said
    PROVE  Answered(call, n, got, told, reply, read)
  <1> DEFINE cmd == call.cmds[n]
  <1>1. /\ \/ call.gives = "status" /\ cmd.at \in FtpNames
           \/ call.gives = "size" /\ cmd.at = "QFTPSIZE"
        /\ cmd.rsp = ATResponse_FTP_handler_Common
    OBVIOUS
  <1>2. cmd.rsp.good = {"value"} /\ cmd.rsp.bad = CmsError /\ cmd.rsp.keeps = "number"
    BY <1>1 DEF ATResponse_FTP_handler_Common, Rsp
  <1>3. "OK" \notin CmsError
    BY DEF CmsError
  <1>4. n \in Nat /\ Len(call.asks) = n /\ MaxRilValue \in Nat
    BY CallLength, RilAssumption DEF CallOK
  <1> DEFINE denied == IF call.gives = "status" THEN Statuses \ {0} ELSE -1 .. -1
  <1>5. RilReplies(cmd.at) = Denied(OkThenTells(cmd.at, Statuses), denied)
    BY <1>1 DEF RilReplies, AudioQueries, FtpNames
  <1> HIDE DEF denied
  <1>6. PICK given \in OkThenTells(cmd.at, Statuses) :
            reply = IF given.ok /\ given.said[1] \in denied THEN [given EXCEPT !.ok = FALSE]
                    ELSE given
    BY <1>5 DEF Denied
  <1>7. CASE given \in Refusals(cmd.at)
    <2>1. given.ok = FALSE
      BY <1>7, RefusalsOK
    <2> QED
      BY <1>6, <1>7, <2>1 DEF Answered
  <1>8. ASSUME NEW v \in Statuses,
               given = Reply(TRUE, <<v>>, <<FinalOf("OK"), RilLine(cmd.at, "value", v)>>, FALSE)
        PROVE  Answered(call, n, got, told, reply, read)
    <2> DEFINE lines == <<FinalOf("OK"), RilLine(cmd.at, "value", v)>>
               kept == Told(v)
               done == IF v \in denied THEN n - 1 ELSE n
    <2>1. /\ reply.said = <<v>> /\ reply.lines = lines /\ reply.waits = FALSE
          /\ reply.ok = (v \notin denied)
      <3> HIDE DEF lines
      <3>1. /\ given = [ok |-> TRUE, said |-> <<v>>, lines |-> lines, waits |-> FALSE]
        BY <1>8 DEF Reply, lines
      <3>2. given.said[1] = v
        BY <3>1, OneValue
      <3> QED
        BY <1>6, <3>1, <3>2
    <2>2. Meant(call, told) = v
      <3>1. cmd.at \notin {"CPIN?", "QISTAT", "QMIC?", "QUSERDAT=3"}
        BY <1>1 DEF FtpNames
      <3> QED
        BY <2>1, <3>1, PlainMeant
    <2>3. kept[2] = v
      BY ToldIs
    <2>4. v \in Int
      BY <1>4 DEF Statuses
    <2> HIDE DEF kept
    <2>5. Passed(call.gives, kept, read) <=> v \notin denied
      <3>1. CASE call.gives = "status"
        BY <2>3, <3>1 DEF Passed, denied
      <3>2. CASE call.gives = "size"
        BY <1>4, <2>3, <2>4, <3>2 DEF Passed, denied, Statuses
      <3> QED
        BY <1>1, <3>1, <3>2
    <2>6. ReturnsWell(call, told, done, kept, read)
      <3>1. Passed(call.gives, kept, read) <=> done = Len(call.asks)
        BY <1>4, <2>5
      <3> QED
        BY <2>2, <2>3, <2>4, <3>1 DEF ReturnsWell, kept
    <2>7. EndsWell(call, n, told, done, kept, read)
      BY <2>6, LastEnds
    <2>8. Kept(cmd, call.body, got, Value(cmd.at, v), cmd.start) = {kept}
      <3>1. KeepsOnly(cmd, call.body, got, Value(cmd.at, v), cmd.start, Told(v))
        BY <1>1, FtpKept, Zenon
      <3> QED
        BY <3>1 DEF kept, KeepsOnly
    <2>9. cmd.at # "QUSERDAT=3"
      BY <1>1 DEF FtpNames
    <2>10. Ends3(call, n, got, told, done, lines, cmd.start, read)
      <3>1. /\ "value" \in cmd.rsp.good /\ "OK" \notin cmd.rsp.good /\ "OK" \notin cmd.rsp.bad
            /\ cmd.rsp.keeps # "any" /\ cmd.rsp.keeps # "verdict"
        BY <1>2, <1>3
      <3>2. \A one \in Kept(cmd, call.body, got, Value(cmd.at, v), cmd.start) :
                EndsWell(call, n, told, done, one, read)
        BY <2>7, <2>8
      <3> QED
        BY <2>9, <3>1, <3>2, LateValueEnds
    <2>11. done = IF reply.ok THEN n ELSE n - 1
      BY <2>1
    <2> HIDE DEF lines, done
    <2> QED
      BY <2>1, <2>10, <2>11 DEF Answered
  <1> QED
    BY <1>6, <1>7, <1>8 DEF OkThenTells

LEMMA LastState ==
    ASSUME NEW call, CallOK(call), NEW n, n = Len(call.cmds), call.gives = "copy",
           call.cmds[n] = Cmd("QISTAT", ATResponse_IPStatus_Handler, Told(0)),
           NEW reply \in RilReplies(call.cmds[n].at), NEW got, NEW told,
           NEW read \in BOOLEAN, Len(told) = n, told[n] = reply.said
    PROVE  Answered(call, n, got, told, reply, read)
  <1> DEFINE cmd == call.cmds[n]
  <1>1. /\ cmd.at = "QISTAT" /\ cmd.rsp.good = {"value"} /\ "OK" \notin cmd.rsp.bad
        /\ cmd.rsp.keeps = "name"
    BY DEF Cmd, ATResponse_IPStatus_Handler, Rsp, CmsError
  <1>2. RilReplies(cmd.at) = OkThenTells(cmd.at, IpStates)
    BY <1>1 DEF RilReplies, AudioQueries
  <1>3. CASE reply \in Refusals(cmd.at)
    BY <1>3 DEF Answered
  <1>4. ASSUME NEW v \in IpStates,
               reply = Reply(TRUE, <<v>>, <<FinalOf("OK"), RilLine(cmd.at, "value", v)>>, FALSE)
        PROVE  Answered(call, n, got, told, reply, read)
    <2> DEFINE x == Value(cmd.at, v)
               kept == Told(RIL_NW_GetIpStatusByName(v))
    <2>1. TakenFor(cmd, x) = "value" /\ x.at = "QISTAT" /\ x.val = v
      BY <1>1, ValueTaken DEF Value, RilLine
    <2>2. Kept(cmd, call.body, got, x, cmd.start) = {kept}
      BY <1>1, <2>1 DEF Kept
    <2>3. told[n] = <<v>>
      BY <1>4 DEF Reply
    <2>4. Meant(call, told) = RIL_NW_GetIpStatusByName(v)
      <3>1. told[Len(told)][1] = v
        BY <2>3, OneValue
      <3> QED
        BY <1>1, <3>1 DEF Meant
    <2>5. EndsWell(call, n, told, n, kept, read)
      <3>1. ReturnsWell(call, told, Len(call.cmds), kept, read)
        BY <2>4, ValueGiven
      <3> QED
        BY <3>1, LastEnds
    <2> HIDE DEF kept
    <2>6. Ends3(call, n, got, told, n, <<FinalOf("OK"), RilLine(cmd.at, "value", v)>>,
                cmd.start, read)
      <3>1. /\ "value" \in cmd.rsp.good /\ "OK" \notin cmd.rsp.good
            /\ cmd.rsp.keeps # "any" /\ cmd.rsp.keeps # "verdict"
        BY <1>1
      <3>2. \A one \in Kept(cmd, call.body, got, Value(cmd.at, v), cmd.start) :
                EndsWell(call, n, told, n, one, read)
        BY <2>2, <2>5
      <3>3. "OK" \notin cmd.rsp.bad /\ cmd.at # "QUSERDAT=3"
        BY <1>1
      <3> QED
        BY <3>1, <3>2, <3>3, LateValueEnds
    <2> QED
      BY <1>4, <2>6, DoneAnswered
  <1> QED
    BY <1>2, <1>3, <1>4 DEF OkThenTells

\* A final line of one of the kinds the command can end with.
LEMMA KindsAnswered ==
    ASSUME NEW call, CallOK(call), NEW n, n = Len(call.cmds), NEW kinds,
           NEW reply \in Kinds(call.cmds[n].at, kinds), NEW got, NEW told,
           NEW read \in BOOLEAN, told[n] = reply.said,
           \A kind \in kinds : /\ kind # "value" /\ kind \in call.cmds[n].rsp.good
                               /\ told[n] = <<kind>> =>
                                    \E kept :
                                        /\ KeepsOnly(call.cmds[n], call.body, got, FinalOf(kind),
                                                     call.cmds[n].start, kept)
                                        /\ EndsWell(call, n, told, n, kept, read)
    PROVE  Answered(call, n, got, told, reply, read)
  <1>1. CASE reply \in Refusals(call.cmds[n].at)
    BY <1>1 DEF Answered
  <1>2. ASSUME NEW kind \in kinds, reply = Reply(TRUE, <<kind>>, <<FinalOf(kind)>>, FALSE)
        PROVE  Answered(call, n, got, told, reply, read)
    <2>1. told[n] = <<kind>>
      BY <1>2 DEF Reply
    <2>2. PICK kept :
            /\ KeepsOnly(call.cmds[n], call.body, got, FinalOf(kind), call.cmds[n].start, kept)
            /\ EndsWell(call, n, told, n, kept, read)
      BY <2>1
    <2>3. Kept(call.cmds[n], call.body, got, FinalOf(kind), call.cmds[n].start) = {kept}
      BY <2>2 DEF KeepsOnly
    <2>4. Ends3(call, n, got, told, n, <<FinalOf(kind)>>, call.cmds[n].start, read)
      BY <2>2, <2>3, FinalEnds
    <2> QED
      BY <1>2, <2>4, DoneAnswered
  <1> QED
    BY <1>1, <1>2 DEF Kinds

LEMMA LastVerdict ==
    ASSUME NEW call, CallOK(call), NEW n, n = Len(call.cmds), call.gives = "direct",
           \/ call.cmds[n] = Cmd("ATD", Telephony_Dial_AT_handler, Unset)
           \/ call.cmds[n] = Cmd("ATA", Telephony_Answer_AT_handler, Unset),
           NEW reply \in RilReplies(call.cmds[n].at), NEW got, NEW told,
           NEW read \in BOOLEAN, Len(told) = n, told[n] = reply.said
    PROVE  Answered(call, n, got, told, reply, read)
  <1> DEFINE cmd == call.cmds[n]
             kinds == IF cmd.at = "ATD" THEN {"OK", "BUSY", "NO_CARRIER", "NO_DIALTONE"}
                      ELSE {"OK", "NO_CARRIER"}
  <1>1. cmd.at \in {"ATD", "ATA"} /\ cmd.rsp.keeps = "verdict"
    BY DEF Cmd, Telephony_Dial_AT_handler, Telephony_Answer_AT_handler, Rsp
  <1>2. \A kind \in kinds : kind \in cmd.rsp.good /\ kind # "value" /\ kind \notin CmeError
    <2>1. CASE cmd = Cmd("ATD", Telephony_Dial_AT_handler, Unset)
      BY <2>1 DEF Cmd, Telephony_Dial_AT_handler, Rsp, OkLines, CmeError
    <2>2. CASE cmd = Cmd("ATA", Telephony_Answer_AT_handler, Unset)
      BY <2>2 DEF Cmd, Telephony_Answer_AT_handler, Rsp, OkLines, CmeError
    <2> QED
      BY <2>1, <2>2
  <1>3. \A kind \in kinds : kind \in OkLines => kind = "OK"
    BY DEF OkLines
  <1>4. RilReplies(cmd.at) = Kinds(cmd.at, kinds)
    BY <1>1 DEF RilReplies, AudioQueries
  <1> HIDE DEF kinds
  <1>5. ASSUME NEW kind \in kinds, told[n] = <<kind>>
        PROVE  \E kept : /\ KeepsOnly(cmd, call.body, got, FinalOf(kind), cmd.start, kept)
                         /\ EndsWell(call, n, told, n, kept, read)
    <2>1. KeepsOnly(cmd, call.body, got, FinalOf(kind), cmd.start, Told(kind))
      <3>1. Kept(cmd, call.body, got, FinalOf(kind), cmd.start) =
                {Told(IF kind \in OkLines THEN "OK" ELSE
                      IF kind \in CmeError THEN "ERROR" ELSE kind)}
        BY <1>1, <1>2, KeptFinal
      <3>2. kind = IF kind \in OkLines THEN "OK" ELSE
                   IF kind \in CmeError THEN "ERROR" ELSE kind
        BY <1>2, <1>3
      <3> QED
        BY <3>1, <3>2 DEF KeepsOnly
    <2>2. Meant(call, told) = kind
      BY <1>1, <1>5, PlainMeant
    <2>3. ReturnsWell(call, told, Len(call.cmds), Told(kind), read)
      BY <2>2, ValueGiven
    <2>4. EndsWell(call, n, told, n, Told(kind), read)
      BY <2>3, LastEnds
    <2> QED
      BY <2>1, <2>4
  <1>6. reply \in Kinds(call.cmds[n].at, kinds)
    BY <1>4
  <1> HIDE DEF cmd
  <1>7. \A kind \in kinds : /\ kind # "value" /\ kind \in cmd.rsp.good
                            /\ told[n] = <<kind>> =>
                                \E kept : /\ KeepsOnly(cmd, call.body, got, FinalOf(kind),
                                                       cmd.start, kept)
                                         /\ EndsWell(call, n, told, n, kept, read)
    BY <1>2, <1>5, Zenon
  <1> QED
    BY <1>6, <1>7, KindsAnswered, Zenon DEF cmd

LEMMA LastDeactivation ==
    ASSUME NEW call, CallOK(call), NEW n, n = Len(call.cmds), call.gives = "none",
           call.cmds[n].at = "QIDEACT", "DEACT_OK" \in call.cmds[n].rsp.good,
           call.cmds[n].rsp.keeps = "mute",
           NEW reply \in RilReplies(call.cmds[n].at), NEW got, NEW told,
           NEW read \in BOOLEAN, told[n] = reply.said
    PROVE  Answered(call, n, got, told, reply, read)
  <1> DEFINE cmd == call.cmds[n]
             kinds == {"DEACT_OK"}
  <1>1. RilReplies(cmd.at) = Kinds(cmd.at, kinds)
    BY DEF RilReplies, AudioQueries
  <1>2. \A kind \in kinds : kind \in cmd.rsp.good /\ kind # "value"
    OBVIOUS
  <1>3. ASSUME NEW kind \in kinds, told[n] = <<kind>>
        PROVE  \E kept : /\ KeepsOnly(cmd, call.body, got, FinalOf(kind), cmd.start, kept)
                         /\ EndsWell(call, n, told, n, kept, read)
    <2>1. KeepsOnly(cmd, call.body, got, FinalOf(kind), cmd.start, cmd.start)
      BY <1>2, KeptFinal DEF KeepsOnly
    <2>2. ReturnsWell(call, told, Len(call.cmds), cmd.start, read)
      BY NothingGiven
    <2>3. EndsWell(call, n, told, n, cmd.start, read)
      BY <2>2, LastEnds
    <2> QED
      BY <2>1, <2>3
  <1> HIDE DEF kinds
  <1>4. reply \in Kinds(call.cmds[n].at, kinds)
    BY <1>1
  <1> QED
    BY <1>2, <1>3, <1>4, KindsAnswered

LEMMA LastPage ==
    ASSUME NEW call, CallOK(call), NEW n, n = Len(call.cmds), call.gives = "none",
           call.cmds[n] = Cmd("QHTTPREAD", ATRsp_QHTTP_Handler, Unset),
           NEW reply \in RilReplies(call.cmds[n].at), NEW got, NEW told,
           NEW read \in BOOLEAN
    PROVE  Answered(call, n, got, told, reply, read)
  <1> DEFINE cmd == call.cmds[n]
             x == FinalOf("CONNECT")
             y == FinalOf("OK")
  <1>1. /\ cmd.at = "QHTTPREAD" /\ cmd.rsp.good = OkLines /\ cmd.rsp.bad = CmeError
        /\ cmd.rsp.keeps = "mute"
    BY DEF Cmd, ATRsp_QHTTP_Handler, Rsp
  <1>2. "CONNECT" \notin OkLines /\ "CONNECT" \notin CmeError /\ "OK" \in OkLines
    BY DEF OkLines, CmeError
  <1>3. /\ RilVerdict(cmd, x) = "wait" /\ Reads(cmd, x, read) = read
        /\ ~IsPrompt(cmd, x)
    BY <1>1, <1>2, FinalTaken
  <1>4. RilVerdict(cmd, y) = "success" /\ Reads(cmd, y, read) = read
    BY <1>1, <1>2, FinalTaken
  <1>5. Kept(cmd, call.body, got, x, cmd.start) = {cmd.start}
    BY <1>1, KeptFinal
  <1>6. Kept(cmd, call.body, got, y, cmd.start) = {cmd.start}
    BY <1>1, KeptFinal
  <1>7. RilReplies(cmd.at) =
            {Reply(TRUE, <<>>, <<FinalOf("CONNECT"), FinalOf("OK")>>, FALSE)}
            \cup Refusals(cmd.at)
    BY <1>1 DEF RilReplies, AudioQueries
  <1>8. CASE reply \in Refusals(cmd.at)
    BY <1>8 DEF Answered
  <1>9. CASE reply = Reply(TRUE, <<>>, <<x, y>>, FALSE)
    <2> HIDE DEF x, y
    <2>1. EndsWell(call, n, told, n, cmd.start, read)
      BY NothingGiven, LastEnds
    <2>2. Finishes(call, n, got, told, n, y, cmd.start, read)
      BY <1>4, <1>6, <2>1 DEF Finishes
    <2>3. Passes(cmd, x)
      BY <1>3 DEF Passes
    <2>4. Ends3(call, n, got, told, n, <<x, y>>, cmd.start, read)
      BY <1>3, <1>5, <2>2, <2>3, TwoLines
    <2> QED
      BY <1>9, <2>4, DoneAnswered
  <1> QED
    BY <1>7, <1>8, <1>9

LEMMA AppendTwo ==
    ASSUME NEW x, NEW y
    PROVE  Append(<<x>>, y) = <<x, y>>
  <1> DEFINE one == <<x>>
             two == <<x, y>>
             S == {x, y}
             longer == Append(one, y)
  <1>1. /\ one \in Seq(S) /\ two \in Seq(S) /\ Len(one) = 1 /\ Len(two) = 2
        /\ two[1] = x /\ two[2] = y /\ one[1] = x /\ y \in S
    OBVIOUS
  <1> HIDE DEF one, two, S
  <1>2. longer \in Seq(S) /\ Len(longer) = 2 /\ longer[1] = x /\ longer[2] = y
    <2>1. one \in Seq(S) /\ y \in S
      BY <1>1
    <2>2. longer \in Seq(S) /\ Len(longer) = Len(one) + 1
      BY <2>1
    <2>3. \A i \in 1 .. Len(one) : longer[i] = one[i]
      BY <2>1
    <2>4. longer[Len(one) + 1] = y
      BY <2>1
    <2> HIDE DEF longer
    <2> QED
      BY <1>1, <2>2, <2>3, <2>4
  <1> HIDE DEF longer
  <1>3. \A i \in 1 .. 2 : longer[i] = two[i]
    BY <1>1, <1>2
  <1>4. longer = two
    BY <1>1, <1>2, <1>3, SeqEqual
  <1> QED
    BY <1>4 DEF longer, one, two

LEMMA LastPosition ==
    ASSUME NEW call, CallOK(call), NEW n, n = Len(call.cmds), call.gives = "copy",
           call.cmds[n] = Cmd("QGNSSRD", ATResponse_GPSRead_Hdlr, Told(<<>>)),
           NEW reply \in RilReplies(call.cmds[n].at), NEW got, NEW told,
           NEW read \in BOOLEAN, Len(told) = n, told[n] = reply.said
    PROVE  Answered(call, n, got, told, reply, read)
  <1> DEFINE cmd == call.cmds[n]
             x == Value(cmd.at, 1)
             y == Value(cmd.at, 2)
             z == FinalOf("OK")
             none == <<>>
             first == <<1>>
             both == <<1, 2>>
  <1>1. /\ cmd.at = "QGNSSRD" /\ cmd.rsp.good = OkLines /\ cmd.rsp.bad = CmeError
        /\ cmd.rsp.keeps = "lines" /\ cmd.start = Told(none)
    BY DEF Cmd, ATResponse_GPSRead_Hdlr, Rsp
  <1>2. "value" \notin OkLines /\ "value" \notin CmeError /\ "OK" \in OkLines
    BY DEF OkLines, CmeError
  <1>3. Append(none, 1) = first /\ Append(first, 2) = both
    <2>1. Append(<<>>, 1) = <<1>>
      OBVIOUS
    <2> QED
      BY <2>1, AppendTwo
  <1>4. /\ TakenFor(cmd, x) = "value" /\ Passes(cmd, x)
        /\ TakenFor(cmd, y) = "value" /\ Passes(cmd, y)
    BY <1>1, <1>2, ValueTaken
  <1>5. x.at = cmd.at /\ x.val = 1 /\ y.at = cmd.at /\ y.val = 2
    BY DEF Value, RilLine
  <1>6. RilVerdict(cmd, z) = "success" /\ Reads(cmd, z, read) = read
    BY <1>1, <1>2, FinalTaken
  <1>7. Reads(cmd, x, read) = read /\ Reads(cmd, y, read) = read
    BY <1>1 DEF Reads
  <1>8. RilReplies(cmd.at) =
            {Reply(TRUE, <<both>>, <<x, y, z>>, FALSE)} \cup Refusals(cmd.at)
    BY <1>1 DEF RilReplies, AudioQueries, Value
  <1> HIDE DEF x, y, z, none, first, both
  <1>9. Kept(cmd, call.body, got, x, cmd.start) = {Told(first)}
    BY <1>1, <1>3, <1>4, <1>5, ToldIs DEF Kept
  <1>10. Kept(cmd, call.body, got, y, Told(first)) = {Told(both)}
    BY <1>1, <1>3, <1>4, <1>5, ToldIs DEF Kept
  <1>11. Kept(cmd, call.body, got, z, Told(both)) = {Told(both)}
    BY <1>1, KeptFinal DEF z
  <1>12. CASE reply \in Refusals(cmd.at)
    BY <1>12 DEF Answered
  <1>13. CASE reply = Reply(TRUE, <<both>>, <<x, y, z>>, FALSE)
    <2>1. told[n] = <<both>>
      BY <1>13 DEF Reply
    <2>2. Meant(call, told) = both
      BY <1>1, <2>1, PlainMeant
    <2>3. EndsWell(call, n, told, n, Told(both), read)
      <3>1. ReturnsWell(call, told, Len(call.cmds), Told(both), read)
        BY <2>2, ValueGiven
      <3> QED
        BY <3>1, LastEnds
    <2>4. Finishes(call, n, got, told, n, z, Told(both), read)
      BY <1>6, <1>11, <2>3 DEF Finishes
    <2>5. Ends3(call, n, got, told, n, <<x, y, z>>, cmd.start, read)
      BY <1>4, <1>7, <1>9, <1>10, <2>4, ThreeLines
    <2> QED
      BY <1>13, <2>5, DoneAnswered
  <1> QED
    BY <1>8, <1>12, <1>13

LEMMA LastUpload ==
    ASSUME NEW call, CallOK(call), NEW n, n = Len(call.cmds), call.gives = "none",
           \/ call.cmds[n].at \in {"QHTTPURL", "QHTTPPOST"} /\ call.cmds[n].rsp = ATRsp_QHTTP_Handler
           \/ call.cmds[n].at = "QMTPUB" /\ call.cmds[n].rsp = ATResponse_QMTPUB_handler,
           NEW reply \in RilReplies(call.cmds[n].at), NEW got, NEW told,
           NEW read \in BOOLEAN
    PROVE  Answered(call, n, got, told, reply, read)
  <1> DEFINE cmd == call.cmds[n]
             prompt == IF cmd.at = "QMTPUB" THEN ">" ELSE "CONNECT"
             x == FinalOf(prompt)
  <1>1. /\ cmd.rsp.keeps = "mute" /\ "OK" \in cmd.rsp.good
        /\ prompt \notin cmd.rsp.good /\ prompt \notin cmd.rsp.bad /\ prompt # "value"
    BY DEF ATRsp_QHTTP_Handler, ATResponse_QMTPUB_handler, Rsp, OkLines, CmeError, CmsError
  <1>2. RilVerdict(cmd, x) = "wait" /\ IsPrompt(cmd, x)
    BY <1>1, FinalTaken
  <1>3. RilReplies(cmd.at) = AsksForData(cmd.at, prompt)
    BY DEF RilReplies, AudioQueries
  <1> HIDE DEF prompt
  <1>4. CASE reply \in Refusals(cmd.at)
    BY <1>4 DEF Answered
  <1>5. CASE reply = Reply(TRUE, <<>>, <<x>>, TRUE)
    <2>1. reply.ok = TRUE /\ reply.waits = TRUE /\ reply.lines = <<x>>
      BY <1>5 DEF Reply
    <2> HIDE DEF x
    <2> QED
      BY <1>1, <1>2, <2>1 DEF Answered
  <1> QED
    BY <1>3, <1>4, <1>5 DEF AsksForData

LEMMA LastAnswered ==
    ASSUME NEW call, CallOK(call), ~OtherThanAsked(call), NEW n, n = Len(call.cmds),
           NEW reply \in RilReplies(call.cmds[n].at), NEW got, NEW told,
           NEW read \in BOOLEAN, Len(told) = n, told[n] = reply.said,
           n = 1 => told = <<reply.said>>,
           \A i \in 1 .. n - 1 : GotOK(call.cmds[i], told[i], got[i])
    PROVE  Answered(call, n, got, told, reply, read)
  <1> DEFINE cmd == call.cmds[n]
  <1>1. /\ Ending(cmd, call.gives) /\ \A i \in 1 .. n : call.asks[i] = call.cmds[i].at
        /\ cmd.at \in {"COPS?", "QALARM?"} => n = 1
        /\ cmd.at = "QMIC?" => n = 2 /\ call.cmds[1] = GetsChannel
    BY DEF CallOK
  <1>2. n \in Nat
    BY CallLength
  <1>3. CASE call.gives = "none" /\ Ordered(cmd)
    BY <1>3, LastOrder
  <1>4. CASE call.gives \in {"copy", "direct"} /\ AsksValue(cmd)
    BY <1>4, LastValue
  <1>5. CASE call.gives = "bytes" /\ cmd = Cmd("QUSERDAT=3", SecureData_Read_Callback, Told(0))
    BY <1>5, LastBytes
  <1>6. CASE call.gives = "copy" /\ cmd = Cmd("QGNSSRD", ATResponse_GPSRead_Hdlr, Told(<<>>))
    BY <1>6, LastPosition
  <1>7. CASE call.gives = "direct" /\ cmd = Cmd("QMIC?", ATResponse_AUD_handler, Unset)
    <2>1. cmd.at = "QMIC?"
      BY <1>7 DEF Cmd
    <2>2. n = 2 /\ call.cmds[1] = GetsChannel
      BY <1>1, <2>1
    <2>3. 1 \in 1 .. n - 1
      BY <2>2
    <2>4. GotOK(GetsChannel, told[1], got[1])
      BY <2>2, <2>3
    <2>5. told[1][1] \in Channels /\ got[1] = Told(told[1][1])
      BY <2>4 DEF GotOK
    <2> QED
      BY <1>7, <2>2, <2>5, LastVolume
  <1>8. CASE /\ call.gives = "direct"
             /\ \/ cmd = Cmd("COPS?", ATRsp_COPS_Handler, Unset)
                \/ cmd = Cmd("QALARM?", ATResponse_QALARM_Handler, Unset)
    <2>1. cmd.at \in {"COPS?", "QALARM?"}
      BY <1>8 DEF Cmd
    <2>2. n = 1
      BY <1>1, <2>1
    <2>3. call.asks[1] = call.cmds[1].at /\ told = <<reply.said>>
      BY <1>1, <2>2
    <2> QED
      BY <1>8, <2>2, <2>3, LastUnclear
  <1>9. CASE call.gives = "copy" /\ cmd = Cmd("CPIN?", ATResponse_CPIN_Handler, Told(0))
    BY <1>9, LastName
  <1>10. CASE call.gives = "copy" /\ cmd = Cmd("QISTAT", ATResponse_IPStatus_Handler, Told(0))
    BY <1>10, LastState
  <1>11. CASE /\ call.gives = "status"
              /\ cmd \in {Cmd(at, ATResponse_FTP_handler_Common, Told(255)) : at \in FtpNames}
    <2>1. cmd.at \in FtpNames /\ cmd.rsp = ATResponse_FTP_handler_Common
      BY <1>11 DEF Cmd
    <2> QED
      BY <1>11, <2>1, LastStatus
  <1>12. CASE /\ call.gives = "size"
              /\ cmd = Cmd("QFTPSIZE", ATResponse_FTP_handler_Common, Told(-1))
    <2>1. cmd.at = "QFTPSIZE" /\ cmd.rsp = ATResponse_FTP_handler_Common
      BY <1>12 DEF Cmd
    <2> QED
      BY <1>12, <2>1, LastStatus
  <1>13. CASE /\ call.gives = "none" /\ cmd.at = "QIDEACT"
              /\ cmd.rsp.good = {"DEACT_OK"} /\ cmd.rsp.keeps = "mute"
    <2>1. "DEACT_OK" \in cmd.rsp.good
      BY <1>13
    <2> QED
      BY <1>13, <2>1, LastDeactivation
  <1>14. CASE /\ call.gives = "direct"
              /\ \/ cmd = Cmd("ATD", Telephony_Dial_AT_handler, Unset)
                 \/ cmd = Cmd("ATA", Telephony_Answer_AT_handler, Unset)
    BY <1>14, LastVerdict
  <1>15. CASE call.gives = "none" /\ cmd = Cmd("QHTTPREAD", ATRsp_QHTTP_Handler, Unset)
    BY <1>15, LastPage
  <1>16. CASE /\ call.gives = "none"
              /\ \/ cmd.at \in {"QHTTPURL", "QHTTPPOST"} /\ cmd.rsp = ATRsp_QHTTP_Handler
                 \/ cmd.at = "QMTPUB" /\ cmd.rsp = ATResponse_QMTPUB_handler
    BY <1>16, LastUpload
  <1> HIDE DEF cmd
  <1> QED
    BY <1>1, <1>3, <1>4, <1>5, <1>6, <1>7, <1>8, <1>9, <1>10, <1>11, <1>12, <1>13, <1>14,
       <1>15, <1>16, Zenon DEF Ending

LEMMA CommandAnswered ==
    ASSUME NEW call, CallOK(call), ~OtherThanAsked(call), NEW step \in 1 .. Len(call.cmds),
           NEW reply \in RilReplies(call.cmds[step].at), NEW got, NEW told,
           NEW read \in BOOLEAN, Len(told) = step, told[step] = reply.said,
           step = 1 => told = <<reply.said>>,
           \A i \in 1 .. step - 1 : GotOK(call.cmds[i], told[i], got[i])
    PROVE  Answered(call, step, got, told, reply, read)
  <1>1. Len(call.cmds) \in Nat
    BY CallLength
  <1>2. CASE step < Len(call.cmds)
    BY <1>2, EarlyAnswered
  <1>3. CASE step = Len(call.cmds)
    BY <1>3, LastAnswered
  <1> QED
    BY <1>1, <1>2, <1>3

-----------------------------------------------------------------------------
(* A call under way that has met no line of an earlier command.            *)

IsPart(done, asks) ==
    /\ \E S : done \in Seq(S)
    /\ Len(done) <= Len(asks)
    /\ \A i \in 1 .. Len(done) : done[i] = asks[i]

\* The earlier commands have ended well, this one is about to be sent.
Before(call, step, got, modem) ==
    /\ (\E S : modem.said \in Seq(S)) /\ (\E S : got \in Seq(S))
    /\ Len(modem.said) = step - 1 /\ Len(got) = step - 1
    /\ IsPart(modem.done, call.asks) /\ Len(modem.done) = step - 1
    /\ \A i \in 1 .. step - 1 : GotOK(call.cmds[i], modem.said[i], got[i])
    /\ modem.took = <<>>

\* It has been sent.
Going(call, step, got, modem) ==
    /\ (\E S : modem.said \in Seq(S)) /\ (\E S : got \in Seq(S))
    /\ Len(modem.said) = step /\ Len(got) = step - 1
    /\ IsPart(modem.done, call.asks)
    /\ Len(modem.done) = step - 1 \/ Len(modem.done) = step
    /\ \A i \in 1 .. step - 1 : GotOK(call.cmds[i], modem.said[i], got[i])
    /\ modem.took = <<>> \/ (step = Len(call.cmds) /\ modem.took = <<call.body>>)

Refused(step, modem, lines) ==
    /\ \E line : /\ lines = <<line>> /\ line.kind \in CmeError
                 /\ modem.refused = <<line>>
    /\ Len(modem.done) = step - 1 /\ ~modem.waits

AsksFor(call, step, modem, lines) ==
    /\ \E line : /\ lines = <<line>> /\ IsPrompt(call.cmds[step], line)
                 /\ RilVerdict(call.cmds[step], line) = "wait"
    /\ modem.waits /\ modem.took = <<>> /\ Len(modem.done) = step - 1
    /\ step = Len(call.cmds) /\ call.gives = "none"
    /\ "OK" \in call.cmds[step].rsp.good /\ call.cmds[step].rsp.keeps = "mute"

NoOld(lines) == \A i \in DOMAIN lines : ~lines[i].old

\* What is on its way is a refusal, the question for the data, or ends the command
\* well; or nothing is and the time will be up.
OnTrack(call, step, got, modem, lines, data, read) ==
    \/ lines = <<>>
    \/ Refused(step, modem, lines)
    \/ AsksFor(call, step, modem, lines)
    \/ /\ ~modem.waits
       /\ Ends3(call, step, got, modem.said, Len(modem.done), lines, data, read)

LEMMA PartIs ==
    ASSUME NEW done, NEW asks, \E S : asks \in Seq(S), IsPart(done, asks)
    PROVE  done = SubSeq(asks, 1, Len(done))
  <1>1. PICK S : asks \in Seq(S)
    OBVIOUS
  <1>2. PICK T : done \in Seq(T)
    BY DEF IsPart
  <1>3. PICK k \in Nat : k = Len(done)
    BY <1>2
  <1> DEFINE part == SubSeq(asks, 1, k)
             U == S \cup T
  <1>4. k <= Len(asks) /\ Len(asks) \in Nat
    BY <1>1, <1>3 DEF IsPart
  <1>5. part \in Seq(S) /\ Len(part) = k /\ \A i \in 1 .. k : part[i] = asks[i]
    BY <1>1, <1>3, <1>4
  <1> HIDE DEF part
  <1>6. done \in Seq(U) /\ part \in Seq(U)
    BY <1>2, <1>5
  <1> HIDE DEF U
  <1>7. \A i \in 1 .. Len(done) : done[i] = part[i]
    BY <1>3, <1>5 DEF IsPart
  <1>8. done = part
    BY <1>3, <1>5, <1>6, <1>7, SeqEqual
  <1> QED
    BY <1>3, <1>8 DEF part

Grows(t, s, e) ==
    /\ \E S : t \in Seq(S)
    /\ Len(s) \in Nat /\ Len(t) = Len(s) + 1
    /\ \A i \in 1 .. Len(s) : t[i] = s[i]
    /\ t[Len(s) + 1] = e
    /\ Len(s) = 0 => t = <<e>>

LEMMA Appended ==
    ASSUME NEW s, \E S : s \in Seq(S), NEW e
    PROVE  Grows(Append(s, e), s, e)
  <1>1. PICK S : s \in Seq(S)
    OBVIOUS
  <1> DEFINE t == Append(s, e)
             T == S \cup {e}
  <1>2. s \in Seq(T) /\ e \in T
    BY <1>1
  <1> HIDE DEF T
  <1>3. t \in Seq(T) /\ Len(s) \in Nat /\ Len(t) = Len(s) + 1
    BY <1>2
  <1>4. \A i \in 1 .. Len(s) : t[i] = s[i]
    BY <1>2
  <1>5. t[Len(s) + 1] = e
    BY <1>2
  <1>6. ASSUME Len(s) = 0 PROVE t = <<e>>
    <2>1. s = <<>>
      BY <1>1, <1>6
    <2>2. Append(<<>>, e) = <<e>>
      OBVIOUS
    <2> QED
      BY <2>1, <2>2
  <1> HIDE DEF t
  <1> QED
    BY <1>3, <1>4, <1>5, <1>6 DEF Grows, t

LEMMA PartGrows ==
    ASSUME NEW done, NEW asks, IsPart(done, asks), NEW e, \E S : asks \in Seq(S),
           Len(done) < Len(asks), e = asks[Len(done) + 1]
    PROVE  IsPart(Append(done, e), asks) /\ Len(Append(done, e)) = Len(done) + 1
  <1> DEFINE more == Append(done, e)
  <1>1. \E S : done \in Seq(S)
    BY DEF IsPart
  <1>2. /\ \E S : more \in Seq(S)
        /\ Len(done) \in Nat /\ Len(more) = Len(done) + 1
        /\ \A i \in 1 .. Len(done) : more[i] = done[i]
        /\ more[Len(done) + 1] = e
    <2>1. Grows(more, done, e)
      BY <1>1, Appended
    <2> HIDE DEF more
    <2> QED
      BY <2>1 DEF Grows
  <1> HIDE DEF more
  <1>3. Len(asks) \in Nat
    OBVIOUS
  <1>4. \A i \in 1 .. Len(more) : more[i] = asks[i]
    <2> SUFFICES ASSUME NEW i \in 1 .. Len(more) PROVE more[i] = asks[i]
      OBVIOUS
    <2>1. CASE i = Len(done) + 1
      BY <1>2, <2>1
    <2>2. CASE i # Len(done) + 1
      <3>1. i \in 1 .. Len(done)
        BY <1>2, <2>2
      <3> QED
        BY <1>2, <3>1 DEF IsPart
    <2> QED
      BY <2>1, <2>2
  <1>5. Len(more) <= Len(asks)
    BY <1>2, <1>3
  <1> QED
    BY <1>2, <1>4, <1>5 DEF IsPart, more

-----------------------------------------------------------------------------
(* The steps of a call.                                                    *)

\* A command that the core has taken.
LEMMA SentGoes ==
    ASSUME NEW call, CallOK(call), ~OtherThanAsked(call), NEW step \in 1 .. Len(call.cmds),
           NEW wire, RilWireOK(wire), NEW modem, RilModemOK(modem), NEW got,
           Before(call, step, got, modem), NEW reply \in RilReplies(call.cmds[step].at),
           NEW read \in BOOLEAN, NEW after, NEW lines,
           after = RilAnswers(modem, call.cmds[step].at, reply),
           lines = Aged(wire) \o reply.lines
    PROVE  /\ Going(call, step, got, after)
           /\ NoOld(lines) =>
                OnTrack(call, step, got, after, lines, call.cmds[step].start, read)
  <1> DEFINE at == call.cmds[step].at
  <1>1. /\ after.done = IF reply.ok /\ ~reply.waits THEN Append(modem.done, at) ELSE modem.done
        /\ after.said = Append(modem.said, reply.said)
        /\ after.took = modem.took /\ after.waits = reply.waits
        /\ after.refused = IF reply.ok THEN modem.refused ELSE <<reply.lines[1]>>
    BY AnswersModem
  <1>2. RilReplyOK(reply)
    BY RepliesOK
  <1>3. /\ Len(call.cmds) \in Nat /\ Len(call.asks) = Len(call.cmds) /\ step \in Nat
        /\ call.asks[step] = at /\ \E S : call.asks \in Seq(S)
    BY CallLength DEF CallOK
  <1>4. Grows(after.said, modem.said, reply.said)
    BY <1>1, Appended DEF Before
  <1>5. /\ \E S : after.said \in Seq(S)
        /\ Len(after.said) = step /\ after.said[step] = reply.said
        /\ \A i \in 1 .. step - 1 : after.said[i] = modem.said[i]
        /\ step = 1 => after.said = <<reply.said>>
    BY <1>3, <1>4 DEF Grows, Before
  <1>6. \A i \in 1 .. step - 1 : GotOK(call.cmds[i], after.said[i], got[i])
    BY <1>5 DEF Before
  <1>7. /\ IsPart(after.done, call.asks)
        /\ Len(after.done) = IF reply.ok /\ ~reply.waits THEN step ELSE step - 1
    <2>1. IsPart(modem.done, call.asks) /\ Len(modem.done) = step - 1
      BY DEF Before
    <2>2. Len(modem.done) < Len(call.asks) /\ at = call.asks[Len(modem.done) + 1]
      BY <1>3, <2>1
    <2>3. IsPart(Append(modem.done, at), call.asks) /\ Len(Append(modem.done, at)) = step
      <3>1. /\ IsPart(Append(modem.done, at), call.asks)
            /\ Len(Append(modem.done, at)) = Len(modem.done) + 1
        BY <1>3, <2>1, <2>2, PartGrows
      <3> QED
        BY <1>3, <2>1, <3>1
    <2> QED
      BY <1>1, <2>1, <2>3
  <1>8. Going(call, step, got, after)
    BY <1>1, <1>5, <1>6, <1>7 DEF Going, Before
  <1>9. ASSUME NoOld(lines)
        PROVE  OnTrack(call, step, got, after, lines, call.cmds[step].start, read)
    <2>1. RilWireOK(Aged(wire)) /\ AllOld(Aged(wire))
      BY AgedWire
    <2>2. Aged(wire) = <<>>
      <3> SUFFICES ASSUME Aged(wire) # <<>> PROVE FALSE
        OBVIOUS
      <3>1. lines # <<>> /\ lines[1] = Aged(wire)[1] /\ RilWireOK(lines)
        BY <1>2, <2>1, SentWire
      <3>2. 1 \in DOMAIN Aged(wire) /\ 1 \in DOMAIN lines
        <4>1. PICK S : Aged(wire) \in Seq(S)
          BY <2>1 DEF RilWireOK
        <4>2. PICK T : lines \in Seq(T)
          BY <3>1 DEF RilWireOK
        <4> HIDE DEF AllOld, RilWireOK
        <4>3. Len(Aged(wire)) > 0 /\ Len(Aged(wire)) \in Nat
          BY <4>1
        <4>4. Len(lines) > 0 /\ Len(lines) \in Nat
          BY <3>1, <4>2
        <4> QED
          BY <4>1, <4>2, <4>3, <4>4
      <3> QED
        BY <1>9, <2>1, <3>1, <3>2 DEF AllOld, NoOld
    <2>3. lines = reply.lines
      BY <1>2, <2>1, <2>2, SentWire
    <2>4. Answered(call, step, got, after.said, reply, read)
      BY <1>5, <1>6, CommandAnswered
    <2>5. CASE reply \in Refusals(at)
      <3>1. /\ reply.ok = FALSE /\ reply.waits = FALSE
            /\ \E line : reply.lines = <<line>> /\ line.kind \in CmeError
        BY <2>5, RefusalsOK
      <3>2. PICK line : reply.lines = <<line>> /\ line.kind \in CmeError
        BY <3>1
      <3>3. reply.lines[1] = line
        BY <3>2, OneValue
      <3>4. after.refused = <<line>>
        BY <1>1, <3>1, <3>3
      <3>5. Len(after.done) = step - 1 /\ ~after.waits
        BY <1>1, <1>7, <3>1
      <3>6. Refused(step, after, lines)
        BY <2>3, <3>2, <3>4, <3>5 DEF Refused
      <3> QED
        BY <3>6 DEF OnTrack
    <2>6. CASE /\ reply.ok /\ reply.waits /\ step = Len(call.cmds) /\ call.gives = "none"
               /\ "OK" \in call.cmds[step].rsp.good /\ call.cmds[step].rsp.keeps = "mute"
               /\ \E line : /\ reply.lines = <<line>> /\ IsPrompt(call.cmds[step], line)
                            /\ RilVerdict(call.cmds[step], line) = "wait"
      <3>1. after.waits /\ after.took = <<>> /\ Len(after.done) = step - 1
        BY <1>1, <1>7, <2>6 DEF Before
      <3>2. AsksFor(call, step, after, lines)
        BY <2>3, <2>6, <3>1 DEF AsksFor
      <3> QED
        BY <3>2 DEF OnTrack
    <2>7. CASE /\ ~reply.waits
               /\ Ends3(call, step, got, after.said, IF reply.ok THEN step ELSE step - 1,
                        reply.lines, call.cmds[step].start, read)
      <3>1. Len(after.done) = IF reply.ok THEN step ELSE step - 1
        BY <1>7, <2>7
      <3>2. ~after.waits
        BY <1>1, <2>7
      <3> QED
        BY <2>3, <2>7, <3>1, <3>2 DEF OnTrack
    <2> QED
      BY <2>4, <2>5, <2>6, <2>7 DEF Answered
  <1> QED
    BY <1>8, <1>9

-----------------------------------------------------------------------------
(* What a call that is over tells its caller.                              *)

\* What AnswersAreTrue says of a call, what the modem has done for it, what its
\* variables ended with, and what it returned, gave and recorded.
Truth(call, modem, got, result, given, code) ==
    LET n == Len(modem.done) IN
    /\ modem.done = SubSeq(call.asks, 1, n)
    /\ result = "success" <=> n = Len(call.asks)
    /\ \A i \in DOMAIN got :
            got[i] \in {Unset} \cup {Told(modem.said[i][k]) : k \in DOMAIN modem.said[i]}
    /\ modem.took # <<>> => modem.took = <<call.body>>
    /\ result = "success" /\ call.gives \in {"copy", "direct", "size", "bytes"}
       /\ ~(call.asks[1] \in {"COPS?", "QALARM?"} /\ modem.said = <<<<Unclear>>>>)
       => given = Told(Meant(call, modem.said))
    /\ result = "failed" /\ modem.refused # <<>>
       /\ call.cmds[Len(modem.said)].rsp = Default_atRsp_callback
       => code = IF modem.refused[1].kind = "ERROR" THEN -1 ELSE modem.refused[1].val

LEMMA TruthIsMeant ==
    ASSUME \/ rilStep' # 0
           \/ rilStray'
           \/ rilResult' \in {"none", "timeout"}
           \/ OtherThanAsked(rilCall')
           \/ FewerDigits(rilCall', rilModem'.said)
           \/ Truth(rilCall', rilModem', rilGot', rilResult', rilOut', m_iErrCode')
    PROVE  AnswersAreTrue'
  BY Zenon DEF AnswersAreTrue, Truth, KnownFaults

\* The part of it that holds all along.
AllTold(got, said) ==
    \A i \in DOMAIN got : got[i] \in {Unset} \cup {Told(said[i][k]) : k \in DOMAIN said[i]}
SoFar(call, got, modem) ==
    /\ modem.done = SubSeq(call.asks, 1, Len(modem.done))
    /\ AllTold(got, modem.said)
    /\ modem.took # <<>> => modem.took = <<call.body>>

LEMMA GotIsTold ==
    ASSUME NEW call, NEW got, NEW said, NEW k \in Nat, \E S : got \in Seq(S), Len(got) = k,
           \A i \in 1 .. k : GotOK(call.cmds[i], said[i], got[i])
    PROVE  AllTold(got, said)
  <1> SUFFICES ASSUME NEW i \in DOMAIN got
               PROVE  got[i] \in {Unset} \cup {Told(said[i][j]) : j \in DOMAIN said[i]}
    BY DEF AllTold
  <1>1. i \in 1 .. k
    OBVIOUS
  <1>2. GotOK(call.cmds[i], said[i], got[i])
    BY <1>1
  <1>3. CASE got[i] = Unset
    BY <1>3
  <1>4. CASE 1 \in DOMAIN said[i] /\ got[i] = Told(said[i][1])
    BY <1>4
  <1> QED
    BY <1>2, <1>3, <1>4 DEF GotOK

LEMMA SoFarTrue ==
    ASSUME NEW call, CallOK(call), NEW step \in 1 .. Len(call.cmds), NEW got, NEW modem,
           Before(call, step, got, modem) \/ Going(call, step, got, modem)
    PROVE  SoFar(call, got, modem)
  <1>1. step - 1 \in Nat /\ \E S : call.asks \in Seq(S)
    BY CallLength DEF CallOK
  <1>2. /\ \E S : got \in Seq(S)
        /\ Len(got) = step - 1
        /\ \A i \in 1 .. step - 1 : GotOK(call.cmds[i], modem.said[i], got[i])
        /\ IsPart(modem.done, call.asks)
        /\ modem.took = <<>> \/ modem.took = <<call.body>>
    BY DEF Before, Going
  <1>3. modem.done = SubSeq(call.asks, 1, Len(modem.done))
    BY <1>1, <1>2, PartIs
  <1>4. AllTold(got, modem.said)
    BY <1>1, <1>2, GotIsTold
  <1> QED
    BY <1>2, <1>3, <1>4 DEF SoFar

\* The core does not take the command.
LEMMA BusyIsTrue ==
    ASSUME NEW call, CallOK(call), NEW step \in 1 .. Len(call.cmds), NEW got, NEW modem,
           Before(call, step, got, modem), NEW given, NEW code
    PROVE  Truth(call, modem, got, "busy", given, code)
  <1>1. SoFar(call, got, modem)
    BY SoFarTrue
  <1>2. Len(modem.done) # Len(call.asks)
    BY CallLength DEF Before, CallOK
  <1> QED
    BY <1>1, <1>2 DEF Truth, SoFar, AllTold

\* The modem refuses.
LEMMA RefusalIsTrue ==
    ASSUME NEW call, CallOK(call), NEW step \in 1 .. Len(call.cmds), NEW got, NEW modem,
           Going(call, step, got, modem), NEW line, modem.refused = <<line>>,
           Len(modem.done) = step - 1, NEW given, NEW code,
           call.cmds[step].rsp = Default_atRsp_callback =>
                code = IF line.kind = "ERROR" THEN -1 ELSE line.val
    PROVE  Truth(call, modem, got, "failed", given, code)
  <1>1. SoFar(call, got, modem)
    BY SoFarTrue
  <1>2. Len(modem.done) # Len(call.asks)
    BY CallLength DEF CallOK
  <1>3. modem.refused[1] = line /\ Len(modem.said) = step
    BY OneValue DEF Going
  <1> QED
    BY <1>1, <1>2, <1>3 DEF Truth, SoFar, AllTold

\* Only a handler of its own tells a number that makes a failure of a success.
LEMMA ChecksItsNumber ==
    ASSUME NEW call, CallOK(call), ~OtherThanAsked(call), call.gives \in {"status", "size", "bytes"}
    PROVE  call.cmds[Len(call.cmds)].rsp # Default_atRsp_callback
  <1> DEFINE cmd == call.cmds[Len(call.cmds)]
  <1>1. Ending(cmd, call.gives)
    BY DEF CallOK
  <1> HIDE DEF cmd
  <1>2. \/ cmd.rsp = SecureData_Read_Callback
        \/ cmd.rsp = ATResponse_FTP_handler_Common
    BY <1>1 DEF Ending, Cmd
  <1>3. SecureData_Read_Callback.keeps # Default_atRsp_callback.keeps
    BY DEF SecureData_Read_Callback, Default_atRsp_callback, Rsp
  <1>4. ATResponse_FTP_handler_Common.keeps # Default_atRsp_callback.keeps
    BY DEF ATResponse_FTP_handler_Common, Default_atRsp_callback, Rsp
  <1> QED
    BY <1>2, <1>3, <1>4 DEF cmd

\* The last command has ended well.
LEMMA ReturnIsTrue ==
    ASSUME NEW call, CallOK(call), ~OtherThanAsked(call), NEW got, NEW modem,
           Going(call, Len(call.cmds), got, modem), NEW data, NEW read,
           ReturnsWell(call, modem.said, Len(modem.done), data, read),
           ~FewerDigits(call, modem.said), NEW given, NEW code, NEW result,
           result = IF Passed(call.gives, data, read) THEN "success" ELSE "failed",
           result = "success" /\ call.gives \in {"copy", "direct", "size", "bytes"} => given = data
    PROVE  Truth(call, modem, got, result, given, code)
  <1>1. Len(call.cmds) \in 1 .. Len(call.cmds)
    BY CallLength
  <1>2. SoFar(call, got, modem)
    BY <1>1, SoFarTrue
  <1>3. result = "success" <=> Passed(call.gives, data, read)
    OBVIOUS
  <1>4. result = "success" <=> Len(modem.done) = Len(call.asks)
    BY <1>3 DEF ReturnsWell
  <1>5. result = "failed" => call.cmds[Len(modem.said)].rsp # Default_atRsp_callback
    <2> SUFFICES ASSUME result = "failed"
                 PROVE  call.cmds[Len(modem.said)].rsp # Default_atRsp_callback
      OBVIOUS
    <2>1. call.gives \in {"status", "size", "bytes"}
      BY <1>3 DEF Passed
    <2> QED
      BY <2>1, ChecksItsNumber DEF Going
  <1>6. /\ result = "success" /\ call.gives \in {"copy", "direct", "size", "bytes"}
        /\ ~(call.asks[1] \in {"COPS?", "QALARM?"} /\ modem.said = <<<<Unclear>>>>)
        => given = Told(Meant(call, modem.said))
    BY <1>3 DEF ReturnsWell
  <1> QED
    BY <1>2, <1>4, <1>5, <1>6 DEF Truth, SoFar, AllTold

-----------------------------------------------------------------------------
(* The invariant.                                                          *)

\* A call under way is on track unless it has met a line of an earlier command, or
\* is about to.
GoingInv ==
    rilStep > 0 /\ ~rilStray /\ ~OtherThanAsked(rilCall) =>
        /\ Going(rilCall, rilStep, rilGot, rilModem)
        /\ NoOld(rilWire) => OnTrack(rilCall, rilStep, rilGot, rilModem, rilWire, rilData,
                                     IsDataReadSuccess)

RilInv == RilTypes /\ GoingInv /\ AnswersAreTrue

LEMMA SendsWell ==
    ASSUME NEW call, CallOK(call), NEW step \in 1 .. Len(call.cmds),
           NEW wire, RilWireOK(wire), NEW modem, RilModemOK(modem),
           RilSends(call, step, wire, modem), rilCall' = call, IsDataReadSuccess' \in BOOLEAN,
           ~OtherThanAsked(call) => Before(call, step, rilGot', modem)
    PROVE  GoingInv' /\ AnswersAreTrue'
  <1>1. CASE OtherThanAsked(call)
    BY <1>1, TruthIsMeant DEF GoingInv
  <1>2. ASSUME ~OtherThanAsked(call), NEW reply \in RilReplies(call.cmds[step].at),
               rilStep' = step, rilWire' = Aged(wire) \o reply.lines,
               rilModem' = RilAnswers(modem, call.cmds[step].at, reply),
               rilData' = call.cmds[step].start
        PROVE  GoingInv' /\ AnswersAreTrue'
    <2>1. /\ Going(call, step, rilGot', rilModem')
          /\ NoOld(rilWire') => OnTrack(call, step, rilGot', rilModem', rilWire', rilData',
                                        IsDataReadSuccess')
      BY <1>2, SentGoes
    <2>2. rilStep' # 0
      BY <1>2, CallLength
    <2> QED
      BY <1>2, <2>1, <2>2, TruthIsMeant DEF GoingInv
  <1>3. ASSUME ~OtherThanAsked(call), rilStep' = 0, rilResult' = "busy", rilModem' = modem
        PROVE  GoingInv' /\ AnswersAreTrue'
    <2>1. Truth(rilCall', rilModem', rilGot', rilResult', rilOut', m_iErrCode')
      BY <1>3, BusyIsTrue
    <2>2. GoingInv'
      BY <1>3 DEF GoingInv
    <2> QED
      BY <2>1, <2>2, TruthIsMeant
  <1> QED
    BY <1>1, <1>2, <1>3 DEF RilSends

LEMMA BeginsTrue ==
    ASSUME RilInv, RilTypes', NEW call \in RilServices, RilBegins(call)
    PROVE  GoingInv' /\ AnswersAreTrue'
  <1>1. CallOK(call) /\ 1 \in 1 .. Len(call.cmds) /\ RilModemOK(RilFresh) /\ Len(call.cmds) \in Nat
    BY ServicesOK, CallLength DEF RilModemOK, RilFresh
  <1>2. Before(call, 1, <<>>, RilFresh)
    <2>1. /\ RilFresh.said = <<>> /\ RilFresh.done = <<>> /\ RilFresh.took = <<>>
      BY DEF RilFresh
    <2>2. <<>> \in Seq({}) /\ Len(<<>>) = 0 /\ 1 .. 0 = {} /\ 1 - 1 = 0
      OBVIOUS
    <2>3. Len(call.asks) >= 0
      BY <1>1 DEF CallOK
    <2>4. IsPart(<<>>, call.asks)
      BY <2>2, <2>3 DEF IsPart
    <2> QED
      BY <2>1, <2>2, <2>4 DEF Before
  <1>3. rilCall' = call /\ rilGot' = <<>> /\ RilSends(call, 1, rilWire, RilFresh)
    BY DEF RilBegins
  <1>4. IsDataReadSuccess' \in BOOLEAN /\ RilWireOK(rilWire)
    BY DEF RilTypes, RilInv
  <1> QED
    BY <1>1, <1>2, <1>3, <1>4, SendsWell

\* The step under way, when the invariant says something of it.
OnItsWay(line) ==
    /\ CallOK(rilCall) /\ rilStep \in 1 .. Len(rilCall.cmds) /\ ~OtherThanAsked(rilCall)
    /\ line = Head(rilWire) /\ rilWire # <<>>
    /\ Going(rilCall, rilStep, rilGot, rilModem)
    /\ IsDataReadSuccess \in BOOLEAN
    /\ IsDataReadSuccess' = Reads(RilNow, line, IsDataReadSuccess)

\* What RilLineComes does with the line.
LineTaken(line, data) ==
    \/ /\ RilVerdict(RilNow, line) = "wait"
       /\ rilData' = data
       /\ IF IsPrompt(RilNow, line) THEN Writes(Tail(rilWire))
          ELSE rilWire' = Tail(rilWire) /\ UNCHANGED rilModem
       /\ UNCHANGED <<rilCall, rilStep, rilGot, rilOut, rilResult>>
    \/ /\ RilVerdict(RilNow, line) = "success" /\ rilStep < Len(rilCall.cmds)
       /\ rilGot' = Append(rilGot, data)
       /\ RilSends(rilCall, rilStep + 1, Tail(rilWire), rilModem)
       /\ UNCHANGED <<rilCall, rilOut>>
    \/ /\ \/ RilVerdict(RilNow, line) = "failed"
          \/ RilVerdict(RilNow, line) = "success" /\ rilStep = Len(rilCall.cmds)
       /\ RilReturns(RilVerdict(RilNow, line), data)
       /\ rilWire' = Aged(Tail(rilWire))
       /\ UNCHANGED <<rilData, rilModem>>

LEMMA OneLine ==
    ASSUME NEW lines, NEW x, lines = <<x>>
    PROVE  Head(lines) = x /\ Tail(lines) = <<>>
  OBVIOUS

\* The modem has refused.
LEMMA RefusalComes ==
    ASSUME NEW line, NEW data, OnItsWay(line), Refused(rilStep, rilModem, rilWire),
           RilLineOK(line), RecordsError(line, RilVerdict(RilNow, line)), LineTaken(line, data)
    PROVE  GoingInv' /\ AnswersAreTrue'
  <1>1. PICK x : rilWire = <<x>> /\ x.kind \in CmeError /\ rilModem.refused = <<x>>
    BY DEF Refused
  <1>2. line = x /\ Tail(rilWire) = <<>>
    BY <1>1, OneLine DEF OnItsWay
  <1>3. TakenFor(RilNow, line) = line.kind /\ line.kind \in CmsError /\ line.kind \in CmeError
    BY <1>1, <1>2 DEF TakenFor, CmeError, CmsError
  <1>4. RilVerdict(RilNow, line) # "success" /\ ~IsPrompt(RilNow, line)
    <2>1. line.kind \notin RilNow.rsp.good
      BY <1>3 DEF OnItsWay, CallOK, RilNow
    <2> QED
      BY <1>3, <2>1 DEF RilVerdict, IsPrompt, CmeError
  <1>5. rilStep # 0
    BY CallLength DEF OnItsWay
  <1>6. CASE /\ rilWire' = <<>>
             /\ UNCHANGED <<rilCall, rilStep, rilGot, rilModem>>
    <2>1. GoingInv'
      BY <1>6 DEF GoingInv, OnTrack, OnItsWay
    <2> QED
      BY <1>5, <1>6, <2>1, TruthIsMeant
  <1>7. CASE /\ RilVerdict(RilNow, line) = "failed"
             /\ RilReturns(RilVerdict(RilNow, line), data)
             /\ UNCHANGED rilModem
    <2>1. rilStep' = 0 /\ rilResult' = "failed" /\ UNCHANGED <<rilCall, rilGot>>
      BY <1>7 DEF RilReturns
    <2>2. RilNow.rsp = Default_atRsp_callback =>
            m_iErrCode' = IF line.kind = "ERROR" THEN -1 ELSE line.val
      BY <1>7 DEF RecordsError
    <2>3. Truth(rilCall, rilModem, rilGot, "failed", rilOut', m_iErrCode')
      BY <1>1, <1>2, <2>2, RefusalIsTrue DEF OnItsWay, Refused, RilNow
    <2>4. Truth(rilCall', rilModem', rilGot', rilResult', rilOut', m_iErrCode')
      BY <1>7, <2>1, <2>3
    <2>5. GoingInv'
      BY <2>1 DEF GoingInv
    <2> QED
      BY <2>4, <2>5, TruthIsMeant
  <1> QED
    BY <1>2, <1>4, <1>6, <1>7 DEF LineTaken

\* What the modem has taken, done and refused when the data are written.
DataTaken(modem, d, t, r, after) ==
    after = [modem EXCEPT !.took = t, !.waits = FALSE, !.done = d, !.refused = r]

LEMMA ModemTakes ==
    ASSUME NEW modem, RilModemOK(modem), NEW d, NEW t, NEW r, NEW after,
           DataTaken(modem, d, t, r, after)
    PROVE  /\ after.done = d /\ after.said = modem.said /\ after.took = t
           /\ ~after.waits /\ after.refused = r
  <1>1. DOMAIN modem = {"done", "said", "took", "waits", "refused"}
    BY DEF RilModemOK
  <1> QED
    BY <1>1 DEF DataTaken

\* The modem asks for the data.
LEMMA PromptComes ==
    ASSUME NEW line, NEW data, OnItsWay(line), AsksFor(rilCall, rilStep, rilModem, rilWire),
           RilModemOK(rilModem), LineTaken(line, data)
    PROVE  GoingInv' /\ AnswersAreTrue'
  <1>1. PICK x : /\ rilWire = <<x>> /\ IsPrompt(RilNow, x)
                 /\ RilVerdict(RilNow, x) = "wait"
    BY DEF AsksFor, RilNow
  <1>2. line = x /\ Tail(rilWire) = <<>>
    BY <1>1, OneLine DEF OnItsWay
  <1>3. /\ Writes(<<>>)
        /\ UNCHANGED <<rilCall, rilStep, rilGot, rilOut, rilResult>>
    BY <1>1, <1>2 DEF LineTaken
  <1>4. PICK reply \in Plainly(RilNow.at) :
            /\ rilWire' = <<>> \o reply.lines
            /\ rilModem' = [rilModem EXCEPT
                    !.took = Append(@, rilCall.body), !.waits = FALSE,
                    !.done = IF reply.ok THEN Append(@, RilNow.at) ELSE @,
                    !.refused = IF reply.ok THEN @ ELSE <<reply.lines[1]>>]
    BY <1>3 DEF Writes, AsksFor
  <1> DEFINE d == IF reply.ok THEN Append(rilModem.done, RilNow.at) ELSE rilModem.done
             t == Append(rilModem.took, rilCall.body)
             r == IF reply.ok THEN rilModem.refused ELSE <<reply.lines[1]>>
  <1>5. DataTaken(rilModem, d, t, r, rilModem')
    BY <1>4, Zenon DEF DataTaken
  <1>6. t = <<rilCall.body>>
    BY DEF AsksFor
  <1>7. /\ RilReplyOK(reply) /\ rilWire' = reply.lines
    <2>1. RilReplyOK(reply)
      BY PlainlyOK
    <2> QED
      BY <1>4, <2>1, EmptyWire, SentWire
  <1>8. /\ IsPart(d, rilCall.asks)
        /\ Len(d) = IF reply.ok THEN rilStep ELSE rilStep - 1
    <2>1. IsPart(rilModem.done, rilCall.asks) /\ Len(rilModem.done) = rilStep - 1
      BY DEF OnItsWay, Going, AsksFor
    <2>2. /\ Len(rilCall.cmds) \in Nat /\ Len(rilCall.asks) = Len(rilCall.cmds)
          /\ rilStep \in Nat /\ rilStep <= Len(rilCall.asks)
          /\ rilCall.asks[rilStep] = RilNow.at /\ \E S : rilCall.asks \in Seq(S)
      BY CallLength DEF OnItsWay, CallOK, RilNow
    <2>3. Len(rilModem.done) < Len(rilCall.asks) /\ RilNow.at = rilCall.asks[Len(rilModem.done) + 1]
      BY <2>1, <2>2
    <2>4. /\ IsPart(Append(rilModem.done, RilNow.at), rilCall.asks)
          /\ Len(Append(rilModem.done, RilNow.at)) = Len(rilModem.done) + 1
      BY <2>1, <2>2, <2>3, PartGrows
    <2> QED
      BY <2>1, <2>2, <2>4
  <1> HIDE DEF d, t, r
  <1>9. /\ rilModem'.done = d /\ rilModem'.said = rilModem.said /\ rilModem'.took = t
        /\ ~rilModem'.waits /\ rilModem'.refused = r
    BY <1>5, ModemTakes
  <1>10. /\ rilStep = Len(rilCall.cmds) /\ rilStep # 0 /\ rilStep \in Nat
    BY CallLength DEF OnItsWay, AsksFor
  <1>11. Going(rilCall, rilStep, rilGot, rilModem')
    BY <1>6, <1>8, <1>9, <1>10 DEF OnItsWay, Going
  <1>12. OnTrack(rilCall, rilStep, rilGot, rilModem', rilWire', rilData', IsDataReadSuccess')
    <2>1. CASE reply = Reply(TRUE, <<>>, <<FinalOf("OK")>>, FALSE)
      <3>1. reply.ok = TRUE /\ reply.lines = <<FinalOf("OK")>>
        BY <2>1 DEF Reply
      <3>2. /\ rilCall.gives = "none" /\ "OK" \in RilNow.rsp.good /\ RilNow.rsp.keeps = "mute"
            /\ rilCall.cmds[rilStep] = RilNow
        BY DEF AsksFor, RilNow
      <3>3. Kept(RilNow, rilCall.body, rilGot, FinalOf("OK"), rilData') = {rilData'}
        BY <3>2, KeptFinal
      <3>4. EndsWell(rilCall, rilStep, rilModem'.said, Len(d), rilData', IsDataReadSuccess')
        BY <1>8, <1>10, <3>1, <3>2, NothingGiven, LastEnds DEF OnItsWay
      <3>5. IsDataReadSuccess' \in BOOLEAN
        BY DEF OnItsWay, Reads
      <3>6. Ends3(rilCall, rilStep, rilGot, rilModem'.said, Len(d), <<FinalOf("OK")>>, rilData',
                  IsDataReadSuccess')
        BY <3>2, <3>3, <3>4, <3>5, FinalEnds DEF OnItsWay
      <3> QED
        BY <1>7, <1>9, <3>1, <3>6 DEF OnTrack
    <2>2. CASE reply \in Refusals(RilNow.at)
      <3>1. PICK y : reply.lines = <<y>> /\ y.kind \in CmeError /\ reply.ok = FALSE
        BY <2>2, RefusalsOK
      <3>2. reply.lines[1] = y
        BY <3>1, OneValue
      <3>3. Refused(rilStep, rilModem', rilWire')
        BY <1>7, <1>8, <1>9, <3>1, <3>2 DEF Refused, r
      <3> QED
        BY <3>3 DEF OnTrack
    <2> QED
      BY <1>4, <2>1, <2>2 DEF Plainly
  <1>13. GoingInv'
    BY <1>3, <1>11, <1>12 DEF GoingInv
  <1> QED
    BY <1>3, <1>10, <1>13, TruthIsMeant

LEMMA LatestEnds ==
    ASSUME NEW call, NEW step, NEW got, NEW told, NEW done, NEW lines, NEW data, NEW read,
           Ends2(call, step, got, told, done, lines, data, read)
    PROVE  Ends3(call, step, got, told, done, lines, data, read)
  BY DEF Ends3

LEMMA EarlierEnds ==
    ASSUME NEW call, NEW step, NEW got, NEW told, NEW done, NEW lines, NEW data, NEW read,
           Ends1(call, step, got, told, done, lines, data, read)
    PROVE  Ends3(call, step, got, told, done, lines, data, read)
  BY DEF Ends2, Ends3

\* The command ends well at this line.
LEMMA EndComes ==
    ASSUME NEW line, OnItsWay(line), ~rilModem.waits, RilModemOK(rilModem),
           RilWireOK(Tail(rilWire)),
           Finishes(rilCall, rilStep, rilGot, rilModem.said, Len(rilModem.done), line, rilData,
                    IsDataReadSuccess),
           NEW data \in Kept(RilNow, rilCall.body, rilGot, line, rilData),
           LineTaken(line, data)
    PROVE  GoingInv' /\ AnswersAreTrue'
  <1>1. /\ RilVerdict(RilNow, line) = "success"
        /\ EndsWell(rilCall, rilStep, rilModem.said, Len(rilModem.done), data,
                    IsDataReadSuccess')
    BY DEF Finishes, OnItsWay, RilNow
  <1>2. Len(rilCall.cmds) \in Nat /\ rilStep \in Nat /\ IsDataReadSuccess' \in BOOLEAN
    BY CallLength DEF OnItsWay, Reads
  <1>3. CASE /\ rilStep < Len(rilCall.cmds)
             /\ rilGot' = Append(rilGot, data)
             /\ RilSends(rilCall, rilStep + 1, Tail(rilWire), rilModem)
             /\ UNCHANGED <<rilCall, rilOut>>
    <2>1. Len(rilModem.done) = rilStep /\ GotOK(rilCall.cmds[rilStep], rilModem.said[rilStep], data)
      BY <1>1, <1>3 DEF EndsWell
    <2>2. Grows(rilGot', rilGot, data)
      BY <1>3, Appended DEF OnItsWay, Going
    <2>3. /\ \E S : rilGot' \in Seq(S)
          /\ Len(rilGot') = rilStep /\ rilGot'[rilStep] = data
          /\ \A i \in 1 .. rilStep - 1 : rilGot'[i] = rilGot[i]
      BY <1>2, <2>2 DEF Grows, OnItsWay, Going
    <2>4. ASSUME NEW i \in 1 .. rilStep
          PROVE  GotOK(rilCall.cmds[i], rilModem.said[i], rilGot'[i])
      <3>1. CASE i = rilStep
        BY <2>1, <2>3, <3>1
      <3>2. CASE i # rilStep
        <4>1. i \in 1 .. rilStep - 1
          BY <1>2, <3>2
        <4> QED
          BY <2>3, <4>1 DEF OnItsWay, Going
      <3> QED
        BY <3>1, <3>2
    <2>5. rilModem.took = <<>>
      BY <1>2, <1>3 DEF OnItsWay, Going
    <2>6. rilStep + 1 \in 1 .. Len(rilCall.cmds) /\ rilStep + 1 - 1 = rilStep
      BY <1>2, <1>3
    <2>7. Before(rilCall, rilStep + 1, rilGot', rilModem)
      BY <2>1, <2>3, <2>4, <2>5, <2>6 DEF Before, OnItsWay, Going
    <2> QED
      BY <1>2, <1>3, <2>6, <2>7, SendsWell DEF OnItsWay
  <1>4. CASE /\ rilStep = Len(rilCall.cmds)
             /\ RilReturns("success", data)
             /\ UNCHANGED rilModem
    <2>1. ReturnsWell(rilCall, rilModem.said, Len(rilModem.done), data, IsDataReadSuccess')
      BY <1>1, <1>4 DEF EndsWell
    <2>2. rilStep' = 0 /\ UNCHANGED <<rilCall, rilGot>>
      BY <1>4 DEF RilReturns
    <2>3. rilResult' = IF Passed(rilCall.gives, data, IsDataReadSuccess') THEN "success"
                       ELSE "failed"
      <3>1. rilCall.gives = "size" => (data[2] < 0 <=> ~(data[2] >= 0))
        BY <2>1 DEF ReturnsWell
      <3> QED
        BY <1>4, <3>1 DEF RilReturns, Passed
    <2>4. rilResult' = "success" /\ rilCall.gives \in {"copy", "direct", "size", "bytes"}
          => rilOut' = data
      BY <1>4, <2>3 DEF RilReturns, Passed
    <2>5. CASE FewerDigits(rilCall, rilModem.said)
      BY <1>4, <2>2, <2>5, TruthIsMeant DEF GoingInv
    <2>6. CASE ~FewerDigits(rilCall, rilModem.said)
      <3>1. Truth(rilCall, rilModem, rilGot, rilResult', rilOut', m_iErrCode')
        BY <1>4, <2>1, <2>3, <2>4, <2>6, ReturnIsTrue DEF OnItsWay
      <3>2. Truth(rilCall', rilModem', rilGot', rilResult', rilOut', m_iErrCode')
        BY <1>4, <2>2, <3>1
      <3> QED
        BY <2>2, <3>2, TruthIsMeant DEF GoingInv
    <2> QED
      BY <2>5, <2>6
  <1> QED
    BY <1>1, <1>3, <1>4 DEF LineTaken

\* The command will end well at one of the next lines.
LEMMA PassingComes ==
    ASSUME NEW line, OnItsWay(line), ~rilModem.waits, Passes(RilNow, line),
           NEW data, LineTaken(line, data),
           Ends3(rilCall, rilStep, rilGot, rilModem.said, Len(rilModem.done), Tail(rilWire), data,
                 IsDataReadSuccess')
    PROVE  GoingInv' /\ AnswersAreTrue'
  <1>1. /\ rilData' = data /\ rilWire' = Tail(rilWire)
        /\ UNCHANGED <<rilCall, rilStep, rilGot, rilModem>>
    BY DEF LineTaken, Passes
  <1>2. OnTrack(rilCall', rilStep', rilGot', rilModem', rilWire', rilData', IsDataReadSuccess')
    BY <1>1 DEF OnTrack
  <1>3. Going(rilCall', rilStep', rilGot', rilModem')
    BY <1>1 DEF OnItsWay
  <1>4. GoingInv'
    BY <1>2, <1>3 DEF GoingInv
  <1>5. rilStep' # 0
    BY <1>1, CallLength DEF OnItsWay
  <1> QED
    BY <1>4, <1>5, TruthIsMeant

LEMMA LineTrue ==
    ASSUME RilInv, RilTypes', RilLineComes
    PROVE  GoingInv' /\ AnswersAreTrue'
  <1> DEFINE line == Head(rilWire)
  <1>1. /\ rilStep > 0 /\ rilWire # <<>>
        /\ rilStray' = (rilStray \/ line.old)
        /\ IsDataReadSuccess' = Reads(RilNow, line, IsDataReadSuccess)
        /\ RecordsError(line, RilVerdict(RilNow, line))
    BY DEF RilLineComes, Reads
  <1>2. PICK data \in Kept(RilNow, rilCall.body, rilGot, line, rilData) : LineTaken(line, data)
    BY DEF RilLineComes, LineTaken
  <1> HIDE DEF line
  <1>3. rilCall' = rilCall
    BY <1>2 DEF LineTaken, RilReturns
  <1>4. CASE rilStray \/ line.old \/ OtherThanAsked(rilCall)
    <2>1. rilStray' \/ OtherThanAsked(rilCall')
      BY <1>1, <1>3, <1>4
    <2> QED
      BY <2>1, TruthIsMeant DEF GoingInv
  <1>5. CASE ~(rilStray \/ line.old \/ OtherThanAsked(rilCall))
    <2>1. /\ RilWireOK(rilWire) /\ RilModemOK(rilModem) /\ IsDataReadSuccess \in BOOLEAN
          /\ CallOK(rilCall) /\ rilStep \in 1 .. Len(rilCall.cmds)
      <3>1. rilCall # RilIdle
        BY <1>1, IdleIsNoCall DEF RilInv, RilTypes
      <3>2. CallOK(rilCall)
        BY <3>1 DEF RilInv, RilTypes
      <3>3. rilStep \in 0 .. Len(rilCall.cmds) /\ Len(rilCall.cmds) \in Nat
        BY <3>2, CallLength DEF RilInv, RilTypes
      <3> QED
        BY <1>1, <3>2, <3>3 DEF RilInv, RilTypes
    <2>2. /\ RilWireOK(Tail(rilWire)) /\ RilLineOK(line)
          /\ NoOld(rilWire)
      BY <1>1, <1>5, <2>1, TailWire DEF line, NoOld
    <2>3. /\ Going(rilCall, rilStep, rilGot, rilModem)
          /\ OnTrack(rilCall, rilStep, rilGot, rilModem, rilWire, rilData, IsDataReadSuccess)
      BY <1>1, <1>5, <2>2 DEF RilInv, GoingInv
    <2>4. OnItsWay(line)
      BY <1>1, <1>5, <2>1, <2>3 DEF OnItsWay, line
    <2>5. CASE Refused(rilStep, rilModem, rilWire)
      BY <1>1, <1>2, <2>2, <2>4, <2>5, RefusalComes
    <2>6. CASE AsksFor(rilCall, rilStep, rilModem, rilWire)
      BY <1>2, <2>1, <2>4, <2>6, PromptComes
    <2>7. ASSUME ~rilModem.waits,
                 Ends3(rilCall, rilStep, rilGot, rilModem.said, Len(rilModem.done), rilWire,
                       rilData, IsDataReadSuccess)
          PROVE  GoingInv' /\ AnswersAreTrue'
      <3>1. CASE Finishes(rilCall, rilStep, rilGot, rilModem.said, Len(rilModem.done), line,
                          rilData, IsDataReadSuccess)
        BY <1>2, <2>1, <2>2, <2>4, <2>7, <3>1, EndComes
      <3>2. CASE /\ Passes(RilNow, line)
                 /\ \/ Ends1(rilCall, rilStep, rilGot, rilModem.said, Len(rilModem.done),
                             Tail(rilWire), data, IsDataReadSuccess')
                    \/ Ends2(rilCall, rilStep, rilGot, rilModem.said, Len(rilModem.done),
                             Tail(rilWire), data, IsDataReadSuccess')
        <4>1. Ends3(rilCall, rilStep, rilGot, rilModem.said, Len(rilModem.done), Tail(rilWire),
                    data, IsDataReadSuccess')
          BY <3>2, LatestEnds, EarlierEnds
        <4> QED
          BY <1>2, <2>4, <2>7, <3>2, <4>1, PassingComes
      <3> QED
        BY <1>1, <1>2, <2>7, <3>1, <3>2 DEF Ends1, Ends2, Ends3, RilNow, line
    <2> QED
      BY <1>1, <2>3, <2>5, <2>6, <2>7 DEF OnTrack
  <1> QED
    BY <1>4, <1>5

LEMMA OverTrue ==
    ASSUME rilStep' = 0, rilResult' \in {"none", "timeout"}
    PROVE  GoingInv' /\ AnswersAreTrue'
  BY TruthIsMeant DEF GoingInv

LEMMA RilInvStep ==
    ASSUME RilInv, [RilNext]_rilVars
    PROVE  RilInv'
  <1>1. RilTypes'
    BY RilTypesStep DEF RilInv
  <1>2. CASE \E call \in RilServices : RilBegins(call)
    BY <1>1, <1>2, BeginsTrue DEF RilInv
  <1>3. CASE RilLineComes
    BY <1>1, <1>3, LineTrue DEF RilInv
  <1>4. CASE RilTimesOut
    <2>1. rilStep' = 0 /\ rilResult' = "timeout"
      BY <1>4 DEF RilTimesOut, RilReturns
    <2> QED
      BY <1>1, <2>1, OverTrue DEF RilInv
  <1>5. CASE RilGoesOn
    <2>1. rilStep' = 0 /\ rilResult' = "none"
      BY <1>5 DEF RilGoesOn
    <2> QED
      BY <1>1, <2>1, OverTrue DEF RilInv
  <1>6. CASE RilDrops
    <2>1. rilStep \in 0 .. Len(RilIdle.cmds) /\ rilResult = "none"
      BY <1>6 DEF RilDrops, RilInv, RilTypes
    <2>2. rilStep = 0
      BY <2>1, IdleIsNoCall
    <2>3. rilStep' = 0 /\ rilResult' = "none"
      BY <1>6, <2>1, <2>2 DEF RilDrops
    <2> QED
      BY <1>1, <2>3, OverTrue DEF RilInv
  <1>7. CASE UNCHANGED rilVars
    <2>1. GoingInv'
      BY <1>7 DEF RilInv, GoingInv, rilVars
    <2>2. AnswersAreTrue'
      BY <1>7 DEF RilInv, AnswersAreTrue, KnownFaults, rilVars
    <2> QED
      BY <1>1, <2>1, <2>2 DEF RilInv
  <1> QED
    BY <1>2, <1>3, <1>4, <1>5, <1>6, <1>7 DEF RilNext

LEMMA RilInitially == RilInit => RilInv
  <1> SUFFICES ASSUME RilInit PROVE RilInv
    OBVIOUS
  <1>1. RilTypes
    BY RilTypesInit
  <1>2. rilStep = 0 /\ rilResult = "none"
    BY DEF RilInit
  <1> QED
    BY <1>1, <1>2 DEF RilInv, GoingInv, AnswersAreTrue

\* Whatever the modem answers, in whatever order its lines and the timeouts come, a call
\* that met no line of an earlier command tells its caller the truth.
THEOREM RilAnswersAreTrue == RilSpec => []AnswersAreTrue
  <1>1. RilInit => RilInv
    BY RilInitially
  <1>2. RilInv /\ [RilNext]_rilVars => RilInv'
    BY RilInvStep
  <1>3. RilInv => AnswersAreTrue
    BY DEF RilInv
  <1> QED
    BY <1>1, <1>2, <1>3, PTL DEF RilSpec
=============================================================================
