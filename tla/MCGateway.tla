----------------------------- MODULE MCGateway -----------------------------
(***************************************************************************)
(* Small instances of the gateway.                                         *)
(***************************************************************************)
EXTENDS Gateway

CONSTANTS m1, m2

NoMessages  == {}
OneMessage  == {m1}
TwoMessages == {m1, m2}
Empty       == {m2}
OneSlot     == {1}
TwoSlots    == {1, 2}
=============================================================================
