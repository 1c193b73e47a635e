------------------------------ MODULE SmsRelay ------------------------------
(***************************************************************************)
(* What the gateway promises about incoming short messages, apart from     *)
(* delivery: a message lies in the SIM until it has been forwarded, a      *)
(* message with a text is erased only after it was forwarded, and each is  *)
(* handed to the broker at most once and only after it was forwarded.      *)
(***************************************************************************)
EXTENDS Sequences

CONSTANTS Sms,       \* the short messages
          EmptySms   \* those without a text, erased without being forwarded

VARIABLES held,      \* those that lie in the SIM
          seen,      \* those that ever did
          forwarded, \* those taken over for publication
          handed     \* those handed to the broker, in order

vars == <<held, seen, forwarded, handed>>

Init == held = {} /\ seen = {} /\ forwarded = {} /\ handed = <<>>

Arrive(s) ==
    /\ s \notin seen
    /\ held' = held \cup {s} /\ seen' = seen \cup {s}
    /\ UNCHANGED <<forwarded, handed>>

\* A message is taken over while the SIM still holds it.
Forward(s) ==
    /\ s \in held \ (forwarded \cup EmptySms)
    /\ forwarded' = forwarded \cup {s}
    /\ UNCHANGED <<held, seen, handed>>

Erase(s) ==
    /\ s \in held \cap (forwarded \cup EmptySms)
    /\ held' = held \ {s}
    /\ UNCHANGED <<seen, forwarded, handed>>

Publish(s) ==
    /\ s \in forwarded /\ \A k \in DOMAIN handed : handed[k] # s
    /\ handed' = Append(handed, s)
    /\ UNCHANGED <<held, seen, forwarded>>

Next == \E s \in Sms : Arrive(s) \/ Forward(s) \/ Erase(s) \/ Publish(s)

Spec == Init /\ [][Next]_vars
=============================================================================
