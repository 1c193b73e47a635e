---------------------------- MODULE MCLibraries ----------------------------
(***************************************************************************)
(* Instances of the libraries, which share no state.  Each moves only      *)
(* while the others are where they began, so that one run explores the     *)
(* behaviours of each and no product of them.                              *)
(***************************************************************************)
EXTENDS McuFrame, MqttLib, RilSms, RilBluetooth

\* The serial line: a body of one byte, one with the byte FF in it, one that
\* ends with a plain byte after two of them.
SmallBodies == {<<1>>, <<3, 2>>, <<3, 3, 1>>}

\* The MQTT library.
Ask(wt, wm, ml, u, p) ==
    [id |-> <<1, 2>>, willTopic |-> wt, willMsg |-> wm, msgLen |-> ml, qos |-> 0,
     willRetain |-> 0, user |-> u, password |-> p]
Asks == {Ask(<<3>>, <<1, 1, 2>>, 3, <<1, 2>>, <<2>>), Ask(<<>>, <<>>, 0, <<>>, <<>>)}
OneTopic == {<<2>>}
Msg(payload, qos, dup, retain) ==
    [topic |-> <<2>>, payload |-> payload, qos |-> qos, dup |-> dup, retain |-> retain]
Msgs == {Msg(<<>>, 0, FALSE, 0), Msg(<<3, 1, 1>>, 0, FALSE, 0),
         Msg(<<3, 1, 1>>, 1, TRUE, 0), Msg(<<>>, 2, FALSE, 0), Msg(<<>>, 0, FALSE, 1)}

\* The SMS library: storage of two messages, numbers of at most two digits.
Num(type, digits) == [type |-> type, digits |-> digits]
Con(type, seg, tot) == [msgType |-> type, msgRef |-> 1, msgSeg |-> seg, msgTot |-> tot]
Sms(kind, status, sca, number, con) ==
    [kind |-> kind, status |-> status, sca |-> sca, number |-> number, scts |-> 7,
     con |-> con, text |-> "t"]
SomeStored ==
    {Sms("deliver", 0, Num("international", <<"1", "2">>), Num("national", <<"1">>), <<>>),
     Sms("submit", 2, Num("unknown", <<>>), Num("international", <<"1">>),
         <<Con("6byte", 1, 2)>>),
     Sms("report", 3, Num("unknown", <<>>), Num("other", <<"1">>), <<>>)}
SomeNumbers == {<<"+", "1">>, <<"+">>, <<"1", "x">>, <<"1", "1", "2">>, <<>>}
SomeCons == {<<>>, <<Con("6byte", 1, 2)>>, <<Con("bad", 2, 2)>>, <<Con("7byte", 2, 1)>>}
Pdu(wellFormed, kind, digits, scaLen) ==
    [wellFormed |-> wellFormed, kind |-> kind, number |-> Num("national", digits),
     text |-> "p", con |-> <<>>, scaLen |-> scaLen, octets |-> scaLen + 9]
SomePdus == {Pdu(TRUE, "submit", <<"1">>, 7), Pdu(TRUE, "submit", <<"1">>, 10),
             Pdu(TRUE, "submit", <<>>, 0), Pdu(TRUE, "deliver", <<"1">>, 0),
             Pdu(FALSE, "submit", <<"1">>, 0)}

\* The Bluetooth library.
SomeNames == {<<"SPP">>, <<"OBEX_PBA_PROFILE">>}
DeviceSymmetry == Permutations(Devices)

LibInit == McuInit /\ MqttInit /\ SmsInit /\ (BtInit \/ BtConnected)

\* The libraries at rest: those with several initial states in one of them.
SmsStill == SmsInit /\ smsModem.storage = "SM" /\ Used(smsModem.slots) = 0
BtStill == BtIdle(<<>>, FALSE, TRUE, ModemWith(OneId(Nobody), OneId(Nobody)))

LibNext ==
    \/ MqttInit /\ SmsStill /\ BtStill /\ McuNext /\ UNCHANGED <<mqttVars, smsVars, btVars>>
    \/ McuInit /\ SmsStill /\ BtStill /\ MqttNext /\ UNCHANGED <<mcuVars, smsVars, btVars>>
    \/ McuInit /\ MqttInit /\ BtStill /\ SmsNext /\ UNCHANGED <<mcuVars, mqttVars, btVars>>
    \/ McuInit /\ MqttInit /\ SmsStill /\ BtNext /\ UNCHANGED <<mcuVars, mqttVars, smsVars>>

LibSpec == LibInit /\ [][LibNext]_<<mcuVars, mqttVars, smsVars, btVars>>

\* The type invariants of the libraries.
LibTypeOK == McuTypeOK /\ MqttTypeOK /\ SmsTypeOK /\ BtTypeOK
=============================================================================
