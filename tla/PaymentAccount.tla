--------------------------- MODULE PaymentAccount ---------------------------
(***************************************************************************)
(* What payments promise to a booking: it is credited, once and for good,   *)
(* and only after money came in for it, through the gateway or in cash.     *)
(***************************************************************************)
CONSTANT Bookings

VARIABLES
  funded,    \* bookings money came in for
  credited   \* bookings shown as paid

vars == <<funded, credited>>

Init == funded = {} /\ credited = {}

Fund(b) == funded' = funded \cup {b} /\ UNCHANGED credited

Credit(b) == b \in funded /\ credited' = credited \cup {b} /\ UNCHANGED funded

Next == \E b \in Bookings : Fund(b) \/ Credit(b)

Spec == Init /\ [][Next]_vars
=============================================================================
