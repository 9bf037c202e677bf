--------------------------- MODULE MCRefundLedger ---------------------------
(***************************************************************************)
(* Small instances of RefundLedger for TLC.                                 *)
(***************************************************************************)
EXTENDS RefundLedger, TLC

\* Two rupees paid online, so that a partial refund leaves another one, and one
\* paid offline, which two requests may want to refund.
MCCaptured == [p \in Payments |-> IF p \in Online THEN 2 ELSE 1]

MCSymmetry == Permutations(Requests) \cup Permutations(GatewayRefunds)
                \cup Permutations(OfflineRefunds) \cup Permutations(Deliveries)
=============================================================================
