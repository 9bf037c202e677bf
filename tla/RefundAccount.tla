--------------------------- MODULE RefundAccount ---------------------------
(***************************************************************************)
(* What the refund ledger promises about money: per captured payment, what   *)
(* was paid back grows by whole refunds, is never taken back and never       *)
(* exceeds what was captured.  (README of the program, "Refund model".)      *)
(***************************************************************************)
EXTENDS Naturals

CONSTANTS Payments,
          Captured    \* the amount each payment captured

VARIABLE returned     \* the amount paid back per payment

Init == returned = [p \in Payments |-> 0]

PayBack(p, amount) ==
  /\ returned[p] + amount <= Captured[p]
  /\ returned' = [returned EXCEPT ![p] = @ + amount]

Next == \E p \in Payments : \E amount \in 1 .. Captured[p] : PayBack(p, amount)

Spec == Init /\ [][Next]_returned

\* Never more is paid back than was captured.
Within == \A p \in Payments : returned[p] \in 0 .. Captured[p]
=============================================================================
