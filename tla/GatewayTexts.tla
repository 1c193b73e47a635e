---------------------------- MODULE GatewayTexts -----------------------------
(***************************************************************************)
(* What the gateway does to the texts it passes on (custom/main.c,         *)
(* custom/sms_handler.c): a short message for the broker, a command of the *)
(* broker for a short message, the answer to a USSD request for the short  *)
(* message with the balance.                                               *)
(*                                                                         *)
(* A text is a sequence of characters, given by their numbers.  The modem  *)
(* writes it in hexadecimal digits, four to a character, or, when it has   *)
(* refused AT+CSCS="UCS2", as it is; the broker may write it in either     *)
(* form.  A string of the program is a sequence of characters, too.        *)
(*                                                                         *)
(* Buffers with room for every short message of one part are left out.     *)
(***************************************************************************)
EXTENDS Integers, Sequences

CONSTANTS Characters,   \* those that occur in texts
          MaxText,      \* the length of the longest text
          SmsLen,       \* characters of a short message: 70 in the code
          RawLen,       \* of a message that was read, msg_raw: 279
          CommandLen,   \* of a command's message, msg: 255
          UssdLen,      \* of an answer to a USSD request: 299
          UssdRoom      \* and of one whose line is not cut: 346

\* The characters UCS2 has.
Char == 1 .. 65535

ASSUME TextAssumption ==
    /\ Characters \subseteq Char /\ MaxText \in Nat /\ SmsLen \in Nat \ {0}
    /\ RawLen = 4 * SmsLen - 1 /\ CommandLen \in 3 .. RawLen /\ UssdLen \in Nat
    /\ UssdRoom \in Nat /\ UssdRoom >= UssdLen
    /\ CommandLen % 4 = 3 /\ UssdLen % 4 = 3 /\ UssdLen >= 4 * SmsLen

VARIABLES textIn,       \* the last text: where it came from, how it was written
          textOut       \* what was passed on

textVars == <<textIn, textOut>>

Texts == UNION {[1 .. n -> Characters] : n \in 1 .. MaxText}
Ascii == 1 .. 127
AllIn(s, S) == \A i \in DOMAIN s : s[i] \in S
Copied(s, n) == IF Len(s) > n THEN SubSeq(s, 1, n) ELSE s
Colon == 58
NewLine == 10

-----------------------------------------------------------------------------
(* Digits *)

is_hex_char(c) == c \in 48 .. 57 \cup 97 .. 102 \cup 65 .. 70

hex_val(c) ==
    IF c \in 48 .. 57 THEN c - 48 ELSE IF c \in 97 .. 102 THEN c - 87 ELSE c - 55

Digit(v) == IF v < 10 THEN 48 + v ELSE 55 + v

\* A text in digits: how the modem and the broker write it, and the program.
ascii_to_ucs2_hex(text) ==
    [i \in 1 .. 4 * Len(text) |->
        Digit((text[(i + 3) \div 4] \div <<1, 4096, 256, 16>>[(i % 4) + 1]) % 16)]

\* The characters whose digits a string holds.
Units(s) ==
    [i \in 1 .. Len(s) \div 4 |->
        4096 * hex_val(s[4 * i - 3]) + 256 * hex_val(s[4 * i - 2])
        + 16 * hex_val(s[4 * i - 1]) + hex_val(s[4 * i])]

\* Faulty: any number of digits.
LooksAtDigits(s) == s # <<>> /\ \A i \in DOMAIN s : is_hex_char(s[i])

looks_like_ucs2_hex(s) ==
    s # <<>> /\ Len(s) % 4 = 0 /\ \A i \in DOMAIN s : is_hex_char(s[i])

-----------------------------------------------------------------------------
(* A short message for the broker *)

\* The sender or the text: decoded if it is ASCII in digits.
Decoded(raw) ==
    IF looks_like_ucs2_hex(raw) /\ AllIn(Units(raw), Ascii) THEN Units(raw) ELSE raw

sms_prepare_payload_and_enqueue(sender_raw, msg_raw) ==
    Decoded(sender_raw) \o <<Colon>> \o Decoded(msg_raw)

\* The line with the text, as AT_CMGR_Handler keeps it.
MsgRaw(line) == Copied(line, RawLen)

-----------------------------------------------------------------------------
(* A command of the broker *)

\* "phone:text".  Nothing is sent if there is no colon or one part is empty.
Handle_ServerCmd_ToSMS(payload) ==
    LET colons == {i \in DOMAIN payload : payload[i] = Colon}
        c == CHOOSE i \in colons : \A j \in colons : i <= j
        msg == Copied(SubSeq(payload, c + 1, Len(payload)), CommandLen)
    IN  IF colons = {} \/ c = 1 \/ c = Len(payload) THEN <<>>
        ELSE <<[phone |-> SubSeq(payload, 1, c - 1), msg |-> msg,
                msg_is_ucs2_hex |-> looks_like_ucs2_hex(msg)]>>

\* What the modem is given for one of them.
SMS_Send_UCS2(item) ==
    IF item.msg_is_ucs2_hex THEN item.msg ELSE ascii_to_ucs2_hex(item.msg)

-----------------------------------------------------------------------------
(* The answer to the USSD request *)

\* The line of an answer begins so: +CUSD: 1,"
UssdHead == <<13, 10, 43, 67, 85, 83, 68, 58, 32, 49, 44, 34>>

\* What is cached of an answer: of a line that is cut before the second quote,
\* all that is left of it.
OnURCHandler_USSD_caches(s) ==
    IF Len(s) <= UssdRoom THEN Copied(s, UssdLen)
    ELSE UssdHead \o Copied(s, UssdRoom + 1)

\* The digits in a string.
OnlyDigits(s) ==
    LET kept[i \in 0 .. Len(s)] ==
            IF i = 0 THEN <<>>
            ELSE IF is_hex_char(s[i]) THEN Append(kept[i - 1], s[i]) ELSE kept[i - 1]
    IN  kept[Len(s)]

\* Only the digits, whole characters, and no more than a short message holds.
Whole(digits) == Copied(Copied(digits, 4 * (Len(digits) \div 4)), 4 * SmsLen)
ucs2_hex_sanitize_and_trim(s) == Whole(OnlyDigits(s))

USSD_OnResultAndPrepareSMS(s) ==
    IF looks_like_ucs2_hex(s) /\ AllIn(Units(s), Ascii) THEN Units(s)
    ELSE LET digits == ucs2_hex_sanitize_and_trim(s)
         IN  IF Len(digits) >= 4 THEN digits ELSE s

\* The places in a string of digits where 000A, a new line, is written.
LineEnds(digits) ==
    {i \in 1 .. Len(digits) - 3 : SubSeq(digits, i, i + 3) = <<48, 48, 48, 65>>}

\* Only the digits, up to a new line, whole characters.
ucs2_hex_trim_for_sms(s) ==
    LET digits == OnlyDigits(s)
        ends == LineEnds(digits)
    IN  Whole(IF ends = {} THEN digits
              ELSE SubSeq(digits, 1, (CHOOSE i \in ends : \A j \in ends : i <= j) - 1))

\* What is sent as a short message, if anything is.
Send_Persian_SMS_Fixed(s) == Units(ucs2_hex_trim_for_sms(s))

-----------------------------------------------------------------------------
\* How the modem or the broker writes a text.
Written(text, coded) == IF coded THEN ascii_to_ucs2_hex(text) ELSE text

\* As it is there is only a text in ASCII, and for the modem in one line.
Forms(text) == {coded \in BOOLEAN : coded \/ AllIn(text, Ascii)}
FormsOfModem(text) == {coded \in Forms(text) : coded \/ AllIn(text, Ascii \ {NewLine})}

Phone == <<43, 57>>                       \* +9
Senders == {Phone, <<65, 66>>}            \* or a name

TextInit == textIn = [from |-> "none"] /\ textOut = <<>>

SmsIn(text) ==
    \E coded \in FormsOfModem(text), sender \in Senders :
        /\ textIn' = [from |-> "sms", text |-> text, coded |-> coded, sender |-> sender]
        /\ textOut' = sms_prepare_payload_and_enqueue(
                          Written(sender, coded), MsgRaw(Written(text, coded)))

CommandIn(text) ==
    \E coded \in Forms(text) :
        LET items == Handle_ServerCmd_ToSMS(Phone \o <<Colon>> \o Written(text, coded)) IN
        /\ textIn' = [from |-> "broker", text |-> text, coded |-> coded]
        /\ textOut' = [i \in DOMAIN items |->
                          [to |-> items[i].phone, text |-> Units(SMS_Send_UCS2(items[i]))]]

\* A payload that is no command: without a colon, a phone or a text.
NoCommandIn(text) ==
    /\ \E payload \in {Phone, Phone \o <<Colon>>, <<Colon>> \o text} :
          textOut' = Handle_ServerCmd_ToSMS(payload)
    /\ textIn' = [from |-> "nobody"]

UssdIn(text) ==
    \E coded \in FormsOfModem(text) :
        /\ textIn' = [from |-> "network", text |-> text, coded |-> coded]
        /\ textOut' = Send_Persian_SMS_Fixed(USSD_OnResultAndPrepareSMS(
                          OnURCHandler_USSD_caches(Written(text, coded))))

\* Nothing is kept from one text to the next, so one is enough.
TextNext ==
    /\ textIn.from = "none"
    /\ \E text \in Texts : SmsIn(text) \/ CommandIn(text) \/ NoCommandIn(text) \/ UssdIn(text)

TextSpec == TextInit /\ [][TextNext]_textVars

-----------------------------------------------------------------------------
\* A text that is written as it is, and looks like digits.
Ambiguous(text) == Len(text) % 4 = 0 /\ \A i \in DOMAIN text : is_hex_char(text[i])
ReadWrong == ~textIn.coded /\ Ambiguous(textIn.text)

\* The broker sees a text in ASCII as it is, another one in digits.
Shown(text, coded) ==
    IF coded /\ ~AllIn(text, Ascii) THEN ascii_to_ucs2_hex(text) ELSE text

\* The first line of a text, and what of it a short message holds.
FirstLine(text) ==
    LET ends == {i \in DOMAIN text : text[i] = NewLine} IN
    Copied(text, IF ends = {} THEN SmsLen
                 ELSE LET n == (CHOOSE i \in ends : \A j \in ends : i <= j) - 1
                      IN  IF n < SmsLen THEN n ELSE SmsLen)

\* 000A occurs at the border of two characters.
Crosses(text) == \E i \in LineEnds(ascii_to_ucs2_hex(text)) : i % 4 # 1

\* The broker gets the sender and the whole text of a short message, the
\* recipient of a command its text, nobody anything for a malformed command,
\* and the balance is the first line of the network's answer (main.c:472-497,
\* 558-573, 658-685, 768-891, sms_handler.c:40-73, 130-165, ril_urc.c:529-570).
\* Excepted are texts that are not in digits and look so; a text that is longer,
\* as it is written, than the buffer for it, as short messages of full length in
\* digits are, which lose the last one, and commands in digits with more than 63
\* characters; and answers of the network that are in ASCII, in which two
\* characters together contain 000A, or whose line is cut.
TextsExact ==
    CASE textIn.from = "sms" ->
            \/ ReadWrong \/ Len(Written(textIn.text, textIn.coded)) > RawLen
            \/ textOut = textIn.sender \o <<Colon>> \o Shown(textIn.text, textIn.coded)
      [] textIn.from = "broker" ->
            \/ ReadWrong \/ Len(Written(textIn.text, textIn.coded)) > CommandLen
            \/ textOut = <<[to |-> Phone, text |-> textIn.text]>>
      [] textIn.from = "network" ->
            \/ AllIn(textIn.text, Ascii) \/ Crosses(textIn.text)
            \/ 4 * Len(textIn.text) > UssdRoom
            \/ textOut = FirstLine(textIn.text)
      [] OTHER -> textOut = <<>>
=============================================================================
