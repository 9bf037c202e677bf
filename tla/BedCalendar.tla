---------------------------- MODULE BedCalendar ----------------------------
(***************************************************************************)
(* What the reservation system promises about beds, with no bookings table, *)
(* no handlers and no requests in flight: each booking holds a set of bed-  *)
(* nights, and no bed-night is ever held by two bookings.  README.md of the *)
(* program, "Preventing double booking": two active bookings cannot hold    *)
(* overlapping ranges for the same bed even if application logic is         *)
(* bypassed.                                                               *)
(***************************************************************************)
CONSTANTS Bookings,   \* the rows of the Booking table
          BedNights   \* a bed together with one night

VARIABLE held         \* held[b] is the set of bed-nights booking b holds

Init == held = [b \in Bookings |-> {}]

\* One booking exchanges what it holds for bed-nights nobody else holds.
Grant(b, nights) ==
  /\ \A c \in Bookings \ {b} : nights \cap held[c] = {}
  /\ held' = [held EXCEPT ![b] = nights]

\* Some bookings end and give back everything.
Vacate(ended) ==
  held' = [b \in Bookings |-> IF b \in ended THEN {} ELSE held[b]]

Next ==
  \/ \E b \in Bookings, nights \in SUBSET BedNights : Grant(b, nights)
  \/ \E ended \in SUBSET Bookings : Vacate(ended)

Spec == Init /\ [][Next]_held

TypeOK == held \in [Bookings -> SUBSET BedNights]

\* No bed-night is sold twice: the guarantee a guest sleeps on.
NoNightTwice ==
  \A b, c \in Bookings : b # c => held[b] \cap held[c] = {}
=============================================================================
