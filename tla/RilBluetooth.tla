---------------------------- MODULE RilBluetooth ----------------------------
(***************************************************************************)
(* The Bluetooth library of the radio interface, ril/src/ril_bluetooth.c.  *)
(* A table holds the devices that were found, paired or connected, with    *)
(* the ids by which the modem knows them.  The application's calls look    *)
(* ids up and send AT commands; answers and unsolicited codes (URCs) come  *)
(* from the modem on one line and are handled in the RIL task, line by     *)
(* line, while the call waits; a code that reports a new pairing or        *)
(* connection makes the handler itself query the modem's state.            *)
(*                                                                         *)
(* A lookup walks the table without looking for its end: for a device that *)
(* is not there it reads through a NULL entry unless the table is full.    *)
(* What lies there matches no device, or the access resets the module.     *)
(*                                                                         *)
(* External: the modem, the core that runs one command at a time, and the  *)
(* application, which calls from one task.  A device stands for its        *)
(* address and for the hash of it.                                         *)
(***************************************************************************)
EXTENDS Integers, SequencesExt

CONSTANTS Devices,       \* the devices around
          Nobody,        \* the device of an address that is missing
          BtSize,        \* MAX_BT_DEV_CNT
          Names,         \* profiles by which a peer connects, as in pf_name
          MaxBtBegun     \* bound on the calls after the first RIL_BT_Initialize, on
                         \* what the modem does of itself and on timeouts, together

pf_name == <<<<"SPP">>, <<"OBEX_PBA_PROFILE", "CLIENT">>, <<"OBEX_PBA_PROFILE">>,
             <<"OBEX_OBJECT_PUSH", "SERVICE">>, <<"OBEX_OBJECT_PUSH", "CLIENT">>,
             <<"HF_PROFILE">>, <<"HFG_PROFILE">>>>

ASSUME BtAssumption ==
    /\ IsFiniteSet(Devices) /\ Nobody \notin Devices
    /\ Names \subseteq Range(pf_name)
    /\ BtSize \in Nat \ {0} /\ MaxBtBegun \in Nat

VARIABLES btTable,       \* m_arrBTDev up to its first NULL
          btCallback,    \* callback_bt is set
          btApp,         \* the call under way
          btRc,          \* "waiting", or the result of its last command
          btResult,      \* [rc, out] of the last call
          btCmd,         \* the command in the core
          btLines,       \* lines on their way from the modem
          btModem,       \* pairings, connections and what is under way there
          btFirst,       \* is_first_prompt
          btReadMode,    \* sppReadMode
          btGot,         \* what the handler has stored for the call
          btMissed,      \* the table missed something since it was cleaned
          btFault,       \* the last step read a NULL entry
          btBegun        \* calls and events so far

btVars == <<btTable, btCallback, btApp, btRc, btResult, btCmd, btLines, btModem,
            btFirst, btReadMode, btGot, btMissed, btFault, btBegun>>
btCallVars == <<btApp, btRc, btResult>>
btHandlerVars == <<btFirst, btReadMode, btGot>>

NoApp == [op |-> "none"]
NoCmd == [cmd |-> "none", by |-> "none"]
Nothing == <<>>
NoResult == [op |-> "none", rc |-> "none", had |-> 0, out |-> Nothing]

\* Nothing under way, with the table t and what it has missed.
BtIdle(t, callback, missed, modem) ==
    /\ btTable = t /\ btCallback = callback /\ btMissed = missed /\ btModem = modem
    /\ btApp = NoApp /\ btRc = "none" /\ btResult = NoResult
    /\ btCmd = NoCmd /\ btLines = <<>>
    /\ btFirst = TRUE /\ btReadMode = FALSE /\ btGot = Nothing
    /\ btFault = FALSE /\ btBegun = 0

ModemWith(paired, conn) ==
    [paired |-> paired, conn |-> conn, profile |-> [e \in Devices |-> <<"SPP">>],
     pairing |-> {}, connecting |-> {}, asking |-> {}, found |-> <<>>, scanning |-> FALSE]

\* At power-on at most one device is paired, and none connected.
OneId(d) == [e \in Devices |-> IF e = d THEN 1 ELSE 0]

BtInit ==
    \E d \in Devices \cup {Nobody} :
        BtIdle(<<>>, FALSE, TRUE, ModemWith(OneId(d), OneId(Nobody)))

\* A state reached later: one device is paired and connected.
BtConnected ==
    \E d \in Devices :
        BtIdle(<<[dev |-> d, devId |-> 0, pairId |-> 1, connId |-> 1, profileId |-> 0]>>,
               TRUE, FALSE, ModemWith(OneId(d), OneId(d)))

-----------------------------------------------------------------------------
(* The table.                                                              *)

NewEntry(dev) == [dev |-> dev, devId |-> 0, pairId |-> -1, connId |-> -1, profileId |-> -1]

Changed(entry, change) ==
    [f \in DOMAIN entry |-> IF f \in DOMAIN change THEN change[f] ELSE entry[f]]

Where(t, dev) == {i \in DOMAIN t : t[i].dev = dev}

\* BT_DevMngmt_UpdatePairId and the like.
Updated(t, dev, change) ==
    IF Where(t, dev) = {} THEN t
    ELSE [t EXCEPT ![Min(Where(t, dev))] = Changed(@, change)]

\* Faulty: a device is entered without looking for it.
Entered(t, dev, change) ==
    IF Len(t) < BtSize THEN Append(t, Changed(NewEntry(dev), change)) ELSE t

\* BT_PairUpdateConfirm and the like, and BT_DevMngmt_Append.
UpdatedOrNew(t, dev, change) ==
    IF Where(t, dev) # {} THEN Updated(t, dev, change)
    ELSE IF Len(t) < BtSize THEN Append(t, Changed(NewEntry(dev), change))
    ELSE t

Lookup(dev, field) ==
    IF Where(btTable, dev) = {} THEN 0 ELSE btTable[Min(Where(btTable, dev))][field]

Walks(dev) == Where(btTable, dev) = {} /\ Len(btTable) < BtSize

\* A step that looks for the device; every other step has btFault' = FALSE.
Looks(dev) == btFault' = Walks(dev)

Disconnected == [connId |-> -1, profileId |-> -1]
Forgotten == [pairId |-> -1, connId |-> -1, profileId |-> -1]

BT_PROFILE_END == 7

\* Only as many characters are compared as the name has.
ProfileNameToId(name) ==
    LET fits == {i \in DOMAIN pf_name : IsPrefix(name, pf_name[i])}
    IN  IF fits = {} THEN -1 ELSE Min(fits) - 1

-----------------------------------------------------------------------------
(* The modem.                                                              *)

BtLine(is, dev, id, more) == [is |-> is, dev |-> dev, id |-> id, more |-> more]
BtFinal(is) == BtLine(is, Nobody, 0, Nothing)

Answers == {"state", "paired", "connected", "value", "read", "data", "prompt",
            "profile", "OK", "ERROR"}

FreeId(ids) == Min((1 .. Cardinality(Devices)) \ Range(ids))

\* The devices with an id, in any order.
Listings(ids) ==
    LET known == {d \in Devices : ids[d] # 0}
    IN  {f \in [1 .. Cardinality(known) -> known] : Range(f) = known}

\* The prompt with the state of the modem, then its devices.
StateAnswer(m, s, paired, connected) ==
    <<BtLine("state", Nobody, s, Nothing)>>
        \o [i \in DOMAIN paired |->
               BtLine("paired", paired[i], m.paired[paired[i]], m.profile[paired[i]])]
        \o [i \in DOMAIN connected |->
               BtLine("connected", connected[i], m.conn[connected[i]], m.profile[connected[i]])]
        \o <<BtFinal("OK")>>

WithId(ids, id) == {d \in Devices : id # 0 /\ ids[d] = id}

BtBegins == btBegun < MaxBtBegun /\ btBegun' = btBegun + 1

Emits(line, modem) ==
    /\ BtBegins
    /\ btLines' = Append(btLines, line) /\ btModem' = modem
    /\ btFault' = FALSE
    /\ UNCHANGED <<btTable, btCallback, btCallVars, btCmd, btHandlerVars, btMissed>>

ModemFinds(d) ==
    /\ btModem.scanning /\ d \notin Range(btModem.found)
    /\ Emits(BtLine("QBTSCAN", d, Len(btModem.found) + 1, Nothing),
             [btModem EXCEPT !.found = Append(@, d)])

ScanEnds ==
    /\ btModem.scanning
    /\ Emits(BtLine("QBTSCAN", Nobody, 0, Nothing), [btModem EXCEPT !.scanning = FALSE])

PeerAsksToPair(d) ==
    /\ btModem.paired[d] = 0 /\ d \notin btModem.pairing
    /\ Emits(BtLine("pair", d, 0, Nothing), [btModem EXCEPT !.pairing = @ \cup {d}])

PairingFails(d) ==
    /\ d \in btModem.pairing
    /\ Emits(BtLine("QBTPAIRCNF", d, 0, Nothing), [btModem EXCEPT !.pairing = @ \ {d}])

PeerAsksToConnect(d, name) ==
    /\ btModem.paired[d] # 0 /\ btModem.conn[d] = 0 /\ d \notin btModem.asking
    /\ Emits(BtLine("conn", d, 0, Nothing),
             [btModem EXCEPT !.asking = @ \cup {d}, !.profile[d] = name])

Connects(d, is) ==
    Emits(BtLine(is, d, 1, Nothing),
          [btModem EXCEPT !.conn[d] = FreeId(btModem.conn),
                          !.paired[d] = IF @ = 0 THEN FreeId(btModem.paired) ELSE @,
                          !.pairing = @ \ {d}, !.connecting = @ \ {d}, !.asking = @ \ {d}])

ConnectionSucceeds(d) ==
    d \in btModem.connecting /\ btModem.conn[d] = 0 /\ Connects(d, "QBTCONN")

\* "+QBTCONN:0" names no device.
ConnectionFails(d) ==
    /\ d \in btModem.connecting
    /\ Emits(BtLine("QBTCONN", Nobody, 0, Nothing), [btModem EXCEPT !.connecting = @ \ {d}])

PeerDisconnects(d) ==
    /\ btModem.conn[d] # 0
    /\ Emits(BtLine("disc", d, btModem.conn[d], Nothing), [btModem EXCEPT !.conn[d] = 0])

PeerSends(d) ==
    /\ btModem.conn[d] # 0
    /\ Emits(BtLine("recv", d, btModem.conn[d], Nothing), btModem)

-----------------------------------------------------------------------------
(* Commands.  One is in the core at a time; the modem does what it is told *)
(* and answers, or refuses.  Lines are handled in the order of the modem.  *)

Carries(cmd, by, lines, answer, modem) ==
    /\ btCmd' = [cmd |-> cmd, by |-> by]
    /\ \/ btLines' = lines \o answer /\ btModem' = modem
       \/ btLines' = Append(lines, BtFinal("ERROR")) /\ UNCHANGED btModem

\* RIL_BT_QueryState; 0, 1 and 5 are states of the modem itself.
Queries(by, lines) ==
    \E s \in {0, 1, 5}, paired \in Listings(btModem.paired), connected \in Listings(btModem.conn) :
        Carries("QBTSTATE", by, lines, StateAnswer(btModem, s, paired, connected), btModem)

NewCall == btApp = NoApp /\ btCallback /\ BtBegins

Refuses(rc) ==
    /\ btResult' = [NoResult EXCEPT !.rc = rc]
    /\ UNCHANGED <<btApp, btRc, btCmd, btLines, btModem, btGot>>

\* The call op sends cmd, or is told that the core is busy.
Sends(op, dev, had, cmd, answer, modem) ==
    /\ IF btCmd # NoCmd THEN Refuses("busy")
       ELSE /\ Carries(cmd, "app", btLines, answer, modem)
            /\ btApp' = [op |-> op, dev |-> dev, had |-> had] /\ btRc' = "waiting"
            /\ btGot' = Nothing /\ UNCHANGED btResult
    /\ UNCHANGED <<btTable, btCallback, btFirst, btReadMode, btMissed>>

OK == <<BtFinal("OK")>>

\* Settings of the module itself: a parameter out of range is refused.
Sets ==
    /\ NewCall /\ btFault' = FALSE
    /\ \/ Sends("Set", Nobody, 0, "plain", OK, btModem)
       \/ /\ Refuses("invalid")
          /\ UNCHANGED <<btTable, btCallback, btFirst, btReadMode, btMissed>>

RIL_BT_Switch == Sets
RIL_BT_SetName == Sets
RIL_BT_SetVisble == Sets

\* And questions about it, each with a handler that stores the answer.
Gets ==
    /\ NewCall /\ btFault' = FALSE
    /\ Sends("Get", Nobody, 1, "QBTGET", <<BtLine("value", Nobody, 1, Nothing)>> \o OK, btModem)

RIL_BT_GetPwrState == Gets
RIL_BT_GetName == Gets
RIL_BT_GetLocalAddr == Gets
RIL_BT_GetVisble == Gets

RIL_BT_StopScan ==
    /\ NewCall /\ btFault' = FALSE
    /\ Sends("StopScan", Nobody, 0, "plain", OK, [btModem EXCEPT !.scanning = FALSE])

\* RIL_BT_Initialize and the first half of RIL_BT_StartScan.
CleansAndQueries(op) ==
    /\ btTable' = <<>> /\ btFault' = FALSE
    /\ btApp' = [op |-> op, dev |-> Nobody, had |-> 0]
    /\ IF btCmd # NoCmd
       THEN btRc' = "busy" /\ btMissed' = TRUE /\ UNCHANGED <<btCmd, btLines, btModem>>
       ELSE btRc' = "waiting" /\ btMissed' = ~btFirst /\ Queries("app", btLines)
    /\ UNCHANGED <<btResult, btHandlerVars>>

RIL_BT_Initialize ==
    /\ btApp = NoApp
    /\ IF btCallback THEN NewCall ELSE UNCHANGED btBegun
    /\ CleansAndQueries("Initialize") /\ btCallback' = TRUE

RIL_BT_StartScan == NewCall /\ CleansAndQueries("StartScan") /\ UNCHANGED btCallback

\* Its second half, whatever came of the query.
Scans ==
    /\ btApp.op = "StartScan" /\ btRc # "waiting"
    /\ IF btCmd # NoCmd
       THEN /\ btResult' = [NoResult EXCEPT !.rc = "busy"]
            /\ btApp' = NoApp /\ btRc' = "none" /\ UNCHANGED <<btCmd, btLines, btModem>>
       ELSE /\ Carries("plain", "app", btLines, OK, [btModem EXCEPT !.found = <<>>, !.scanning = TRUE])
            /\ btApp' = [btApp EXCEPT !.op = "Scan"] /\ btRc' = "waiting"
            /\ UNCHANGED btResult
    /\ btFault' = FALSE
    /\ UNCHANGED <<btTable, btCallback, btHandlerVars, btMissed, btBegun>>

\* A call for dev by its id in field, which must be one of valid.  The modem
\* refuses an id that it does not know.
Addressed(op, dev, field, valid, ids, had, cmd, answer(_), modem(_)) ==
    /\ NewCall /\ Looks(dev)
    /\ LET id == Lookup(dev, field)
       IN  IF id \notin valid
           THEN /\ Refuses("invalid")
                /\ UNCHANGED <<btTable, btCallback, btFirst, btReadMode, btMissed>>
           ELSE IF WithId(ids, id) = {}
           THEN Sends(op, dev, had, cmd, <<BtFinal("ERROR")>>, btModem)
           ELSE LET d == CHOOSE e \in WithId(ids, id) : TRUE
                IN  Sends(op, dev, had, cmd, answer(d), modem(d))

\* A device that is paired already is not paired again.
FoundIds ==
    [d \in Devices |-> IF btModem.paired[d] # 0 THEN 0
                       ELSE Max({i \in DOMAIN btModem.found : btModem.found[i] = d} \cup {0})]
DevIds == Nat \ {0}
PairIds == 1 .. 10           \* MAX_BT_PAIRED_CNT
ConnIds == Int \ {-1}        \* an unknown device's 0 included

RIL_BT_PairReq(dev) ==
    LET Modem(d) == [btModem EXCEPT !.pairing = @ \cup {d}]
        Answer(d) == Append(OK, BtLine("QBTPAIR", d, 0, Nothing))
    IN  Addressed("PairReq", dev, "devId", DevIds, FoundIds, 0, "plain", Answer, Modem)

Without(m, d) ==
    [m EXCEPT !.paired[d] = 0, !.conn[d] = 0, !.connecting = @ \ {d}, !.asking = @ \ {d}]

\* On success the table is changed when the call goes on, in Returns.
RIL_BT_Unpair(dev) ==
    LET Modem(d) == Without(btModem, d)
        Answer(d) == OK
    IN  Addressed("Unpair", dev, "pairId", PairIds, btModem.paired, 0, "plain", Answer, Modem)

RIL_BT_GetSupportedProfile(dev) ==
    LET Modem(d) == btModem
        Answer(d) == <<BtLine("profile", d, 0, Nothing), BtLine("profile", d, 5, Nothing)>> \o OK
    IN  Addressed("GetSupportedProfile", dev, "pairId", PairIds, btModem.paired, 2,
                  "QBTGPROF", Answer, Modem)

RIL_BT_ConnReq(dev) ==
    LET Modem(d) == [btModem EXCEPT !.connecting = @ \cup {d}]
        Answer(d) == OK
    IN  Addressed("ConnReq", dev, "pairId", PairIds, btModem.paired, 0, "plain", Answer, Modem)

RIL_BT_Disconnect(dev) ==
    LET Modem(d) == [btModem EXCEPT !.conn[d] = 0]
        Answer(d) == Append(OK, BtLine("QBTDISCONN", d, 0, Nothing))
    IN  Addressed("Disconnect", dev, "connId", ConnIds, btModem.conn, 0, "plain", Answer, Modem)

RIL_BT_SPP_Send(dev) ==
    LET Modem(d) == btModem
        Answer(d) == <<BtLine("prompt", Nobody, 1, Nothing)>> \o OK
    IN  Addressed("SPP_Send", dev, "connId", ConnIds, btModem.conn, 1, "QBTSPPSEND", Answer, Modem)

\* had is the number of bytes the modem has for the call.
RIL_BT_SPP_Read(dev, had) ==
    LET Modem(d) == btModem
        Data == IF had = 0 THEN <<>> ELSE <<BtLine("data", Nobody, 0, Nothing)>>
        Answer(d) == <<BtLine("read", Nobody, had, Nothing)>> \o Data \o OK
    IN  Addressed("SPP_Read", dev, "connId", ConnIds, btModem.conn, had, "QSPPREAD", Answer, Modem)

\* Calls that name no device of the table.
RIL_BT_PairConfirm(accept) ==
    /\ NewCall /\ btFault' = FALSE
    /\ \E d \in btModem.pairing :
          LET paired == [btModem EXCEPT !.pairing = @ \ {d}]
          IN  IF accept
              THEN Sends("PairConfirm", d, 0, "plain", Append(OK, BtLine("QBTPAIRCNF", d, 1, Nothing)),
                         [paired EXCEPT !.paired[d] = FreeId(btModem.paired)])
              ELSE Sends("PairConfirm", d, 0, "plain", Append(OK, BtLine("QBTPAIRCNF", d, 0, Nothing)),
                         paired)

RIL_BT_ConnAccept(accept) ==
    /\ NewCall /\ btFault' = FALSE
    /\ \E d \in btModem.asking :
          LET asked == [btModem EXCEPT !.asking = @ \ {d}]
          IN  IF accept
              THEN Sends("ConnAccept", d, 0, "plain", Append(OK, BtLine("QBTACPT", d, 1, Nothing)),
                         [asked EXCEPT !.conn[d] = FreeId(btModem.conn)])
              ELSE Sends("ConnAccept", d, 0, "plain", Append(OK, BtLine("QBTDISC", d, 0, Nothing)),
                         asked)

RIL_BT_SPP_DirectConn(dev) ==
    /\ NewCall /\ btFault' = FALSE /\ btModem.conn[dev] = 0
    /\ Sends("DirectConn", dev, 0, "QBTCONND", OK, [btModem EXCEPT !.connecting = @ \cup {dev}])

\* The call goes on when its command has ended.  RIL_BT_Initialize reports
\* success whatever the query returned.
Returns ==
    /\ btApp # NoApp /\ btApp.op # "StartScan" /\ btRc # "waiting"
    /\ IF btApp.op = "Unpair" /\ btRc = "OK"
       THEN /\ btTable' = Updated(btTable, btApp.dev, Forgotten)
            /\ Looks(btApp.dev)
       ELSE UNCHANGED btTable /\ btFault' = FALSE
    /\ btResult' = [op |-> btApp.op, had |-> btApp.had, out |-> btGot,
                    rc |-> IF btApp.op = "Initialize" THEN "OK" ELSE btRc]
    /\ btApp' = NoApp /\ btRc' = "none" /\ btGot' = Nothing
    /\ UNCHANGED <<btCallback, btCmd, btLines, btModem, btFirst, btReadMode, btMissed, btBegun>>

-----------------------------------------------------------------------------
(* Lines.                                                                  *)

\* The command ends; what a query or an unpairing that failed left out is
\* missed.
EndsWith(rc) ==
    /\ btCmd' = NoCmd
    /\ btRc' = IF btCmd.by = "app" THEN rc ELSE btRc
    /\ btMissed' = (\/ btMissed
                    \/ rc # "OK" /\ btCmd.cmd = "QBTSTATE"
                    \/ rc = "timeout" /\ btCmd.by = "app" /\ btApp.op = "Unpair")

Goes == UNCHANGED <<btCmd, btRc>>

\* What is left of the answer to a command that has ended is passed over.
Late(lines) ==
    [i \in DOMAIN lines |->
        IF lines[i].is \in Answers THEN [lines[i] EXCEPT !.is = "late"] ELSE lines[i]]

LineIs(is) == btLines # <<>> /\ Head(btLines).is \in is

TakesLine == btLines' = Tail(btLines) /\ btFault' = FALSE

AnswerVars == <<btCallback, btApp, btResult, btModem, btBegun>>

\* OK and ERROR.  Every handler ends on OK; only that of AT+QBTCONND does not
\* know ERROR, which leaves the call waiting.  An ERROR or a timeout leaves
\* is_first_prompt as it is.
FinalLine ==
    /\ btCmd # NoCmd /\ LineIs({"OK", "ERROR"}) /\ TakesLine
    /\ LET is == Head(btLines).is
       IN  IF btReadMode /\ btCmd.cmd = "QSPPREAD"
           THEN btReadMode' = FALSE /\ btGot' = <<0>> /\ Goes /\ UNCHANGED <<btFirst, btMissed>>
           ELSE /\ IF is = "ERROR" /\ btCmd.cmd = "QBTCONND"
                   THEN Goes /\ UNCHANGED btMissed
                   ELSE EndsWith(is)
                /\ btFirst' = (btFirst \/ (is = "OK" /\ btCmd.cmd = "QBTSTATE"))
                /\ UNCHANGED <<btReadMode, btGot>>
    /\ UNCHANGED <<btTable, AnswerVars>>

\* ATRsp_QBTSTATE_Hdlr.  The first line is the state of the modem; when the
\* flag was left FALSE it is read as a device's.
StateLine ==
    /\ btCmd.cmd = "QBTSTATE" /\ LineIs({"state", "paired", "connected"}) /\ TakesLine
    /\ LET l == Head(btLines)
           status == CASE l.is = "state" -> l.id [] l.is = "paired" -> 0 [] OTHER -> 1
           id == IF l.is = "state" THEN -1 ELSE l.id
           change == CASE ~btFirst /\ status = 0 -> <<[pairId |-> id]>>
                       [] ~btFirst /\ status = 1 ->
                             <<[connId |-> id, profileId |-> ProfileNameToId(l.more)]>>
                       [] OTHER -> <<>>
       IN  /\ btFirst' = FALSE
           /\ btTable' = IF change = <<>> THEN btTable
                         ELSE UpdatedOrNew(btTable, l.dev, change[1])
           /\ btMissed' = (btMissed \/ (change # <<>> /\ Where(btTable', l.dev) = {}))
    /\ Goes /\ UNCHANGED <<btReadMode, btGot, AnswerVars>>

\* ATRsp_QBTSPPREAD_Hdlr: with the flag set, any line is the data.
ReadLine ==
    /\ btCmd.cmd = "QSPPREAD" /\ LineIs({"read", "data"}) /\ btFault' = FALSE
    /\ LET l == Head(btLines)
       IN  \/ /\ btReadMode
              /\ btGot' = <<IF l.is = "data" THEN btApp.had ELSE 0>>
              /\ btReadMode' = FALSE /\ btLines' = Tail(btLines)
              /\ Goes /\ UNCHANGED btMissed
           \/ /\ ~btReadMode /\ l.is = "read"
              /\ btReadMode' = (l.id > 0) /\ btLines' = Tail(btLines)
              /\ Goes /\ UNCHANGED <<btGot, btMissed>>
           \/ /\ ~btReadMode /\ l.is = "data"
              /\ EndsWith("ERROR") /\ btLines' = Late(Tail(btLines))
              /\ UNCHANGED <<btReadMode, btGot>>
    /\ UNCHANGED <<btTable, btFirst, AnswerVars>>

Stores(is) ==
    /\ btCmd # NoCmd /\ LineIs({is}) /\ TakesLine
    /\ btGot' = <<Head(btLines).id>>
    /\ Goes /\ UNCHANGED <<btTable, btFirst, btReadMode, btMissed, AnswerVars>>

\* ATRsp_QBTPWR_Hdlr, ATRsp_QBTNAME_Hdlr, ATRsp_QBTVISB_Hdlr, ATRsp_QBTADDR_Hdlr.
ValueLine == Stores("value")

\* ATRsp_QBTSPPSEND_Hdlr writes the data to the modem; BtLine's id is the length.
PromptLine == Stores("prompt")

\* The index of ATRsp_QBTGPROF_Hdlr never moves: each profile overwrites the last.
ProfileLine == Stores("profile")

BtCommandTimesOut ==
    /\ btCmd # NoCmd /\ BtBegins /\ EndsWith("timeout") /\ btFault' = FALSE
    /\ btLines' = Late(btLines)
    /\ UNCHANGED <<btTable, btHandlerVars, btCallback, btApp, btResult, btModem>>

LateLine ==
    /\ LineIs({"late"}) /\ TakesLine
    /\ UNCHANGED <<btTable, btCmd, btRc, btHandlerVars, btMissed, AnswerVars>>

\* Unsolicited codes.  Nothing is done before RIL_BT_Initialize.
Urc(is) == btCallback /\ LineIs({is}) /\ btLines' = Tail(btLines)

UrcVars == <<btCallback, btCallVars, btCmd, btModem, btHandlerVars, btBegun>>

UrcIgnored ==
    /\ ~btCallback /\ btLines # <<>> /\ Head(btLines).is \notin Answers \cup {"late"} /\ TakesLine
    /\ UNCHANGED <<btTable, btMissed, UrcVars>>

\* A code of which the application only hears.
Notifies == btFault' = FALSE /\ UNCHANGED <<btTable, btMissed, UrcVars>>

\* The device found, or 0 at the end of the scan.
OnURCHandler_BTScan ==
    /\ Urc("QBTSCAN")
    /\ LET l == Head(btLines)
       IN  IF l.id = 0 THEN Notifies
           ELSE /\ btTable' = UpdatedOrNew(btTable, l.dev, [devId |-> l.id])
                /\ btFault' = FALSE /\ UNCHANGED <<btMissed, UrcVars>>

OnURCHandler_BTPair == Urc("QBTPAIR") /\ Notifies

\* RIL_BT_QueryState in a handler, its result ignored.
QueriesState ==
    /\ btFault' = FALSE
    /\ IF btCmd # NoCmd THEN btMissed' = TRUE /\ UNCHANGED <<btCmd, btModem>>
       ELSE btMissed' = (btMissed \/ ~btFirst) /\ Queries("handler", Tail(btLines))
    /\ UNCHANGED <<btTable, btCallback, btCallVars, btHandlerVars, btBegun>>

Forgets(dev, change) ==
    /\ btTable' = Updated(btTable, dev, change) /\ Looks(dev)
    /\ UNCHANGED <<btMissed, UrcVars>>

UrcSuccess(is) ==
    /\ btCallback /\ LineIs({is}) /\ Head(btLines).id # 0
    /\ btCmd # NoCmd => btLines' = Tail(btLines)
    /\ QueriesState

OnURCHandler_BTPairCnf ==
    \/ UrcSuccess("QBTPAIRCNF")
    \/ /\ Urc("QBTPAIRCNF") /\ Head(btLines).id = 0
       /\ Forgets(Head(btLines).dev, [pairId |-> -1])

OnURCHandler_BTConn ==
    \/ UrcSuccess("QBTCONN")
    \/ /\ Urc("QBTCONN") /\ Head(btLines).id = 0
       /\ Forgets(Head(btLines).dev, Disconnected)

OnURCHandler_BTConnCnf ==
    \/ UrcSuccess("QBTACPT")
    \/ Urc("QBTDISC") /\ Forgets(Head(btLines).dev, Disconnected)

OnURCHandler_BTDisconn ==
    Urc("QBTDISCONN") /\ Forgets(Head(btLines).dev, Disconnected)

\* "recv" looks for the entry with the connection.
OnURCHandler_BTIndication ==
    \/ Urc("pair") /\ Notifies
    \/ Urc("conn") /\ Notifies
    \/ Urc("disc") /\ Forgets(Head(btLines).dev, Disconnected)
    \/ /\ Urc("recv")
       /\ btFault' = /\ \A i \in DOMAIN btTable : btTable[i].connId # Head(btLines).id
                     /\ Len(btTable) < BtSize
       /\ UNCHANGED <<btTable, btMissed, UrcVars>>

\* A read through NULL may reset the module; the modem keeps its pairings.
Resets ==
    /\ btFault
    /\ btTable' = <<>> /\ btCallback' = FALSE
    /\ btApp' = NoApp /\ btRc' = "none" /\ btResult' = NoResult
    /\ btCmd' = NoCmd /\ btLines' = <<>>
    /\ btModem' = [btModem EXCEPT !.conn = [d \in Devices |-> 0], !.pairing = {},
                                  !.connecting = {}, !.asking = {}, !.found = <<>>,
                                  !.scanning = FALSE]
    /\ btFirst' = TRUE /\ btReadMode' = FALSE /\ btGot' = Nothing
    /\ btMissed' = TRUE /\ btFault' = FALSE
    /\ UNCHANGED btBegun

Calls ==
    \/ RIL_BT_Initialize \/ RIL_BT_StartScan \/ Scans \/ RIL_BT_StopScan
    \/ RIL_BT_Switch \/ RIL_BT_SetName \/ RIL_BT_SetVisble \/ Returns
    \/ RIL_BT_GetPwrState \/ RIL_BT_GetName \/ RIL_BT_GetLocalAddr \/ RIL_BT_GetVisble
    \/ \E accept \in BOOLEAN : RIL_BT_PairConfirm(accept) \/ RIL_BT_ConnAccept(accept)
    \/ \E dev \in Devices :
          \/ RIL_BT_PairReq(dev) \/ RIL_BT_Unpair(dev) \/ RIL_BT_GetSupportedProfile(dev)
          \/ RIL_BT_ConnReq(dev) \/ RIL_BT_SPP_DirectConn(dev) \/ RIL_BT_Disconnect(dev)
          \/ RIL_BT_SPP_Send(dev) \/ \E had \in 0 .. 1 : RIL_BT_SPP_Read(dev, had)

Lines ==
    \/ FinalLine \/ StateLine \/ ReadLine \/ ValueLine \/ PromptLine \/ ProfileLine \/ LateLine
    \/ UrcIgnored \/ OnURCHandler_BTScan \/ OnURCHandler_BTPair \/ OnURCHandler_BTPairCnf
    \/ OnURCHandler_BTConn \/ OnURCHandler_BTConnCnf \/ OnURCHandler_BTDisconn
    \/ OnURCHandler_BTIndication

Modem ==
    \/ ScanEnds
    \/ \E d \in Devices :
          \/ ModemFinds(d) \/ PeerAsksToPair(d) \/ PairingFails(d)
          \/ \E name \in Names : PeerAsksToConnect(d, name)
          \/ ConnectionSucceeds(d) \/ ConnectionFails(d) \/ PeerDisconnects(d)
          \/ PeerSends(d)

BtNext == Calls \/ Lines \/ BtCommandTimesOut \/ Modem \/ Resets

BtSpec == BtInit /\ [][BtNext]_btVars

-----------------------------------------------------------------------------
(* Properties.                                                             *)

\* Types; the table has at most BtSize devices (ril_bluetooth.c:93-128).
BtTypeOK ==
    /\ Len(btTable) <= BtSize
    /\ \A i \in DOMAIN btTable : btTable[i].dev \in Devices \cup {Nobody}
    /\ btCallback \in BOOLEAN /\ btFirst \in BOOLEAN /\ btReadMode \in BOOLEAN
    /\ btMissed \in BOOLEAN /\ btFault \in BOOLEAN
    /\ btCmd.by \in {"none", "app", "handler"}
    /\ btApp = NoApp <=> btRc = "none"

Known(d, field) ==
    IF Where(btTable, d) = {} THEN -1 ELSE btTable[Min(Where(btTable, d))][field]

IdOrNone(id) == IF id = 0 THEN -1 ELSE id

\* No call, command or line is under way.
BtQuiet == btCallback /\ btApp = NoApp /\ btCmd = NoCmd /\ btLines = <<>>

\* When all is quiet the table says of every device what the modem knows: its
\* pairing, its connection and the profile of that; no device is in it twice;
\* and a read of data that succeeded has returned what the modem had.
\* Excepted is a table that missed something since it was cleaned: a query
\* that was refused, failed, or began with is_first_prompt cleared by a failed
\* one, or a device for which there was no room.  The profile OBEX_PBA_PROFILE
\* is taken for that of its client (ril_bluetooth.c:78-268, 760-1731, 1861-1974).
BtTrue ==
    /\ \A i, j \in DOMAIN btTable : btTable[i].dev = btTable[j].dev => i = j
    /\ (BtQuiet /\ ~btMissed) =>
          \A d \in Devices :
             /\ Known(d, "pairId") = IdOrNone(btModem.paired[d])
             /\ Known(d, "connId") = IdOrNone(btModem.conn[d])
             /\ (btModem.conn[d] # 0 /\ btModem.profile[d] # <<"OBEX_PBA_PROFILE">>) =>
                   pf_name[Known(d, "profileId") + 1] = btModem.profile[d]
    /\ (btResult.op = "SPP_Read" /\ btResult.rc = "OK") =>
          btResult.out \in IF btResult.had = 0 THEN {Nothing, <<0>>} ELSE {<<btResult.had>>}
=============================================================================
