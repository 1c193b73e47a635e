----------------------------- MODULE MCServices -----------------------------
(***************************************************************************)
(* Instances of the parts that serve the tasks and share no state: the     *)
(* ring at the real size of the queue of outgoing short messages           *)
(* (SMS_TX_Q_MAX = 5) with two distinguishable items, the calls of the     *)
(* radio interface, its unsolicited result codes, and the texts of the     *)
(* gateway.  Each moves only while the others are where they began.        *)
(***************************************************************************)
EXTENDS RingQueue, RilCalls, UrcDispatch, GatewayTexts

CONSTANTS a, b

MCItem == {a, b}

\* The end of a line, 0, a colon, A, a guillemet, an alef.
MCCharacters == {10, 48, 58, 65, 171, 1575}

ServInit == Init /\ RilInit /\ UrcInit /\ TextInit

ServNext ==
    \/ RilInit /\ UrcInit /\ TextInit /\ Next /\ UNCHANGED <<rilVars, urcVars, textVars>>
    \/ Init /\ UrcInit /\ TextInit /\ RilNext /\ UNCHANGED <<vars, urcVars, textVars>>
    \/ Init /\ RilInit /\ TextInit /\ UrcNext /\ UNCHANGED <<vars, rilVars, textVars>>
    \/ Init /\ RilInit /\ UrcInit /\ TextNext /\ UNCHANGED <<vars, rilVars, urcVars>>

ServSpec == ServInit /\ [][ServNext]_<<vars, rilVars, urcVars, textVars>>

\* The type invariants of the parts: the indexes of the ring stay inside it
\* (main.c:255-330), the calls keep to their types and the lines on the wire to
\* their order, the messages to the application to the room of its queue.
ServTypeOK == TypeOK /\ RilTypeOK /\ UrcTypeOK
=============================================================================
