--------------------------- MODULE MCReservation ---------------------------
(***************************************************************************)
(* Small instances of Reservation for TLC.                                  *)
(***************************************************************************)
EXTENDS Reservation, TLC

\* All beds belong to one template.
MCOneTemplate == [bed \in Beds |-> CHOOSE t \in Templates : TRUE]

\* Every template says it has one bed, or two.
MCOneBed == [t \in Templates |-> 1]
MCTwoBeds == [t \in Templates |-> 2]

\* Two stays that share a night.
MCHandlerStays == {<<0, 2>>, <<1, 2>>}

\* A stay within another one.
MCCapacityStays == {<<0, 1>>, <<0, 2>>}

\* Stays of one night, so that one of them can be cancelled before it starts.
MCNights == {<<0, 1>>, <<1, 2>>}

MCOneNight == {<<0, 1>>}

\* Every handler but the one that writes the payment status alone.
MCHandlerTraffic == Operations \ {"markPaid"}

\* Booking creation, a cancellation that gives capacity back, and a payment.
MCCapacityTraffic == {"create", "cancelAdmin", "markPaid"}

\* What starts a stay, and the two handlers that write only for an exempt role.
MCSweepTraffic == {"create", "approve", "assign", "patch", "cancelGuest"}

MCDueTraffic == {"create", "approve", "assign"}

MCCreateTraffic == {"create"}

\* Slots, rows, guests and keys are interchangeable.
MCSymmetry == Permutations(Requests) \cup Permutations(Bookings)
                \cup Permutations(Guests) \cup Permutations(Keys)
=============================================================================
