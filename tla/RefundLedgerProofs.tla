------------------------- MODULE RefundLedgerProofs -------------------------
(***************************************************************************)
(* Theorems about RefundLedger, for any number of payments, refunds, admin   *)
(* requests, webhook deliveries and reconciliations and for any amounts.     *)
(***************************************************************************)
EXTENDS RefundLedger, TLAPS

-----------------------------------------------------------------------------
(* Types. *)

LEMMA ConstantSlots ==
  /\ NoRefund \in LedgerRow /\ NoRefund \in GatewayRow
  /\ Idle \in RequestSlot /\ NoCall \in SettleSlot /\ Asleep \in JobSlot
BY DEF NoRefund, LedgerRow, GatewayRow, Idle, RequestSlot, NoCall, SettleSlot,
   RefundOutcome, Asleep, JobSlot

LEMMA RequestType ==
  ASSUME TypeOK, NEW r \in Requests, recordAdminPaymentRefund(r)
  PROVE  TypeOK'
<1> USE DEF TypeOK
<1>1. ASSUME NEW p \in Payments, NEW amount \in 1 .. Captured[p], RefundCheck(r, p, amount)
      PROVE  TypeOK'
  <2>1. amount \in Nat
    BY RefundAssumption
  <2>2. [stage |-> IF p \in Online THEN "call" ELSE "insert", pay |-> p,
         amount |-> amount, refund |-> None, tx |-> TRUE] \in RequestSlot
    BY <2>1 DEF RequestSlot
  <2> QED
    BY <1>1, <2>2 DEF RefundCheck
<1>2. ASSUME NEW g \in GatewayRefunds, GatewayAccepts(r, g) PROVE TypeOK'
  <2>1. [st |-> "created", pay |-> req[r].pay, amount |-> req[r].amount] \in GatewayRow
    BY DEF RequestSlot, GatewayRow
  <2>2. [req[r] EXCEPT !.stage = "insert", !.refund = g] \in RequestSlot
    BY DEF RequestSlot
  <2> QED
    BY <1>2, <2>1, <2>2 DEF GatewayAccepts
<1>3. ASSUME NEW row \in Rows, RefundCommit(r, row) PROVE TypeOK'
  <2>1. [st |-> IF req[r].pay \in Online THEN "PENDING" ELSE "PROCESSED",
         pay |-> req[r].pay, amount |-> req[r].amount] \in LedgerRow
    BY DEF RequestSlot, LedgerRow, PaymentRefundStatus
  <2> QED
    BY <1>3, <2>1, ConstantSlots DEF RefundCommit
<1>4. CASE TxExpires(r)
  <2>1. [req[r] EXCEPT !.tx = FALSE] \in RequestSlot
    BY DEF RequestSlot
  <2> QED
    BY <1>4, <2>1 DEF TxExpires
<1>5. CASE RefundAbort(r)
  BY <1>5, ConstantSlots DEF RefundAbort
<1> QED
  BY <1>1, <1>2, <1>3, <1>4, <1>5 DEF recordAdminPaymentRefund

LEMMA CallType ==
  ASSUME TypeOK, NEW s \in Deliveries \cup Jobs, NEW g \in GatewayRefunds,
         settled(g), Call(s, g)
  PROVE  settle' \in [Deliveries \cup Jobs -> SettleSlot]
<1>1. [stage |-> "find", refund |-> g, outcome |-> gateway[g].st] \in SettleSlot
  BY DEF settled, SettleSlot
<1> QED
  BY <1>1 DEF TypeOK, Call

LEMMA SettleType ==
  ASSUME TypeOK, NEW s \in Deliveries \cup Jobs, settleRefund(s)
  PROVE  TypeOK'
<1> USE DEF TypeOK
<1>1. [settle EXCEPT ![s] = NoCall] \in [Deliveries \cup Jobs -> SettleSlot]
  BY ConstantSlots
<1>2. CASE SettleFind(s)
  <2>1. \A stage \in {"update", "recover"} :
          [settle EXCEPT ![s].stage = stage] \in [Deliveries \cup Jobs -> SettleSlot]
    BY DEF SettleSlot
  <2> QED
    BY <1>1, <1>2, <2>1 DEF SettleFind, Return
<1>3. CASE SettleUpdate(s)
  <2>1. settle[s].outcome \in PaymentRefundStatus
    BY DEF SettleSlot, RefundOutcome, PaymentRefundStatus
  <2>2. [ledger EXCEPT ![settle[s].refund].st = settle[s].outcome] \in [Rows -> LedgerRow]
    BY <2>1 DEF LedgerRow
  <2> QED
    BY <1>1, <1>3, <2>2 DEF SettleUpdate, Return
<1>4. CASE SettleRecover(s)
  <2> DEFINE g == settle[s].refund
  <2>1. /\ settle[s].outcome \in PaymentRefundStatus
        /\ g \in GatewayRefunds \cup {None}
    BY DEF SettleSlot, RefundOutcome, PaymentRefundStatus
  <2>2. ledger' \in [Rows -> LedgerRow]
    <3>1. CASE g = None
      BY <1>4, <3>1, RefundAssumption DEF SettleRecover
    <3>2. CASE g \in GatewayRefunds
      <4>1. gateway[g].pay \in Payments \cup {None} /\ gateway[g].amount \in Nat
        BY <3>2 DEF GatewayRow
      <4>2. [st |-> settle[s].outcome, pay |-> gateway[g].pay,
             amount |-> gateway[g].amount] \in LedgerRow
        BY <2>1, <4>1 DEF LedgerRow
      <4> QED
        BY <1>4, <4>2 DEF SettleRecover
    <3> QED
      BY <2>1, <3>1, <3>2
  <2> QED
    BY <1>1, <1>4, <2>2 DEF SettleRecover, Return
<1>5. CASE SettleFails(s)
  BY <1>1, <1>5 DEF SettleFails, Return
<1> QED
  BY <1>2, <1>3, <1>4, <1>5 DEF settleRefund

LEMMA ReconciliationType ==
  ASSUME TypeOK, NEW j \in Jobs, runReconciliation(j)
  PROVE  TypeOK'
<1> USE DEF TypeOK
<1>1. CASE ReconcileStart(j)
  <2>1. [running |-> TRUE, batch |-> {g \in GatewayRefunds : ledger[g].st = "PENDING"} \ stuck]
          \in JobSlot
    BY DEF JobSlot
  <2> QED
    BY <1>1, <2>1 DEF ReconcileStart
<1>2. CASE ReconcileEnd(j)
  BY <1>2, ConstantSlots DEF ReconcileEnd
<1>3. CASE ReconcileCrash(j)
  BY <1>3, ConstantSlots DEF ReconcileCrash, Return
<1>4. ASSUME NEW g \in GatewayRefunds, NextInBatch(j, g)
      PROVE  job' \in [Jobs -> JobSlot]
  <2>1. [job[j] EXCEPT !.batch = @ \ {g}] \in JobSlot
    BY DEF JobSlot
  <2> QED
    BY <1>4, <2>1 DEF NextInBatch
<1>5. ASSUME NEW g \in GatewayRefunds, ReconcileFetch(j, g) PROVE TypeOK'
  <2>1. settle' \in [Deliveries \cup Jobs -> SettleSlot]
    BY <1>5, CallType DEF ReconcileFetch
  <2>2. job' \in [Jobs -> JobSlot]
    BY <1>4, <1>5 DEF ReconcileFetch
  <2> QED
    BY <1>5, <2>1, <2>2 DEF ReconcileFetch
<1>6. ASSUME NEW g \in GatewayRefunds, ReconcileSkip(j, g) PROVE TypeOK'
  BY <1>4, <1>6 DEF ReconcileSkip
<1> QED
  BY <1>1, <1>2, <1>3, <1>5, <1>6 DEF runReconciliation

\* The state of every request, delivery and reconciliation and both tables keep
\* the shape the code gives them (TypeOK).
THEOREM RefundTypeCorrect == Spec => []TypeOK
<1>1. Init => TypeOK
  BY ConstantSlots DEF Init, TypeOK
<1>2. TypeOK /\ [Next]_vars => TypeOK'
  <2> SUFFICES ASSUME TypeOK, [Next]_vars PROVE TypeOK'
    OBVIOUS
  <2>1. ASSUME NEW g \in GatewayRefunds, NEW outcome \in RefundOutcome,
               GatewaySettles(g, outcome)
        PROVE  TypeOK'
    <3>1. [gateway EXCEPT ![g].st = outcome] \in [GatewayRefunds -> GatewayRow]
      BY DEF TypeOK, GatewayRow, RefundOutcome
    <3> QED
      BY <2>1, <3>1 DEF GatewaySettles, TypeOK
  <2>2. ASSUME NEW d \in Deliveries, NEW g \in GatewayRefunds, WebhookReceive(d, g)
        PROVE  TypeOK'
    <3>1. settle' \in [Deliveries \cup Jobs -> SettleSlot]
      BY <2>2, CallType DEF WebhookReceive
    <3> QED
      BY <2>2, <3>1 DEF WebhookReceive, TypeOK
  <2>3. CASE LockExpires \/ \E g \in GatewayRefunds : RowAges(g)
    BY <2>3 DEF LockExpires, RowAges, TypeOK
  <2>4. CASE UNCHANGED vars
    BY <2>4 DEF vars, TypeOK
  <2> QED
    BY <2>1, <2>2, <2>3, <2>4, RequestType, SettleType, ReconciliationType DEF Next
<1> QED
  BY <1>1, <1>2, PTL DEF Spec

-----------------------------------------------------------------------------
(* One refund of a payment is under way in the ledger.  The row lock is what  *)
(* makes it inductive: while a transaction is open, no refund of its payment   *)
(* is pending and no other transaction is open on that payment.               *)

LockedPaymentsQuiet ==
  \A r \in Requests :
    req[r].tx => /\ req[r].pay \in Payments
                 /\ noRefundInFlight(req[r].pay)
                 /\ \A q \in Requests : req[q].tx /\ req[q].pay = req[r].pay => q = r

PendingInv == TypeOK /\ OnePendingPerPayment /\ LockedPaymentsQuiet

\* Pending rows that were pending before, of the same payment: all a step but
\* RefundCommit leaves.
NoNewPending ==
  \A row \in Rows :
    ledger'[row].st = "PENDING"
      => ledger[row].st = "PENDING" /\ ledger'[row].pay = ledger[row].pay

NoNewTx ==
  \A r \in Requests : req'[r].tx => req[r].tx /\ req'[r].pay = req[r].pay

LEMMA QuietStep ==
  ASSUME PendingInv, TypeOK', NoNewPending, NoNewTx
  PROVE  PendingInv'
<1>1. OnePendingPerPayment'
  <2> SUFFICES ASSUME NEW row1 \in Rows, NEW row2 \in Rows,
                      ledger'[row1].st = "PENDING", ledger'[row2].st = "PENDING",
                      ledger'[row1].pay = ledger'[row2].pay
               PROVE  row1 = row2
    BY DEF OnePendingPerPayment
  <2> QED
    BY DEF NoNewPending, PendingInv, OnePendingPerPayment
<1>2. LockedPaymentsQuiet'
  <2> SUFFICES ASSUME NEW r \in Requests, req'[r].tx
               PROVE  /\ req'[r].pay \in Payments
                      /\ noRefundInFlight(req[r].pay)'
                      /\ \A q \in Requests :
                           req'[q].tx /\ req'[q].pay = req'[r].pay => q = r
    BY DEF LockedPaymentsQuiet, noRefundInFlight, NoNewTx
  <2>1. /\ req[r].tx /\ req'[r].pay = req[r].pay
        /\ req[r].pay \in Payments
        /\ noRefundInFlight(req[r].pay)
        /\ \A q \in Requests : req[q].tx /\ req[q].pay = req[r].pay => q = r
    BY DEF NoNewTx, PendingInv, LockedPaymentsQuiet
  <2>2. noRefundInFlight(req[r].pay)'
    BY <2>1 DEF noRefundInFlight, NoNewPending
  <2> QED
    BY <2>1, <2>2 DEF NoNewTx
<1> QED
  BY <1>1, <1>2 DEF PendingInv

LEMMA RequestQuiet ==
  ASSUME PendingInv, TypeOK', NEW r \in Requests, recordAdminPaymentRefund(r)
  PROVE  PendingInv'
<1>1. TypeOK /\ OnePendingPerPayment /\ LockedPaymentsQuiet
  BY DEF PendingInv
<1>2. ASSUME NEW p \in Payments, NEW amount \in 1 .. Captured[p], RefundCheck(r, p, amount)
      PROVE  PendingInv'
  <2>1. /\ req'[r].pay = p
        /\ \A q \in Requests \ {r} : req'[q] = req[q]
        /\ UNCHANGED ledger
    BY <1>1, <1>2 DEF RefundCheck, TypeOK
  <2>2. \A q \in Requests \ {r} : req'[q].tx => req'[q].pay # p
    BY <1>2, <2>1 DEF RefundCheck, locked
  <2>3. LockedPaymentsQuiet'
    <3> SUFFICES ASSUME NEW q \in Requests, req'[q].tx
                 PROVE  /\ req'[q].pay \in Payments
                        /\ noRefundInFlight(req'[q].pay)
                        /\ \A o \in Requests :
                             req'[o].tx /\ req'[o].pay = req'[q].pay => o = q
      BY <2>1 DEF LockedPaymentsQuiet, noRefundInFlight
    <3>1. CASE q = r
      BY <1>2, <2>1, <2>2, <3>1 DEF RefundCheck
    <3>2. CASE q # r
      BY <1>1, <2>1, <2>2, <3>2 DEF LockedPaymentsQuiet
    <3> QED
      BY <3>1, <3>2
  <2> QED
    BY <1>1, <2>1, <2>3 DEF PendingInv, OnePendingPerPayment
<1>3. ASSUME NEW g \in GatewayRefunds, GatewayAccepts(r, g) PROVE PendingInv'
  <2>1. NoNewTx /\ NoNewPending
    BY <1>1, <1>3 DEF GatewayAccepts, NoNewTx, NoNewPending, TypeOK, RequestSlot
  <2> QED
    BY <2>1, QuietStep
<1>4. ASSUME NEW row \in Rows, RefundCommit(r, row) PROVE PendingInv'
  <2>1. PICK p : p = req[r].pay
    OBVIOUS
  <2>2. /\ p \in Payments
        /\ noRefundInFlight(p)
        /\ \A q \in Requests \ {r} : req[q].tx => req[q].pay # p
    BY <1>1, <1>4, <2>1 DEF RefundCommit, LockedPaymentsQuiet
  <2>3. /\ ledger'[row].pay = p
        /\ \A other \in Rows \ {row} : ledger'[other] = ledger[other]
        /\ ~req'[r].tx
        /\ \A q \in Requests \ {r} : req'[q] = req[q]
    BY <1>1, <1>4, <2>1 DEF RefundCommit, TypeOK, Idle
  <2>4. OnePendingPerPayment'
    <3> SUFFICES ASSUME NEW row1 \in Rows, NEW row2 \in Rows,
                        ledger'[row1].st = "PENDING", ledger'[row2].st = "PENDING",
                        ledger'[row1].pay = ledger'[row2].pay
                 PROVE  row1 = row2
      BY DEF OnePendingPerPayment
    <3> QED
      BY <1>1, <2>2, <2>3 DEF OnePendingPerPayment, noRefundInFlight
  <2>5. LockedPaymentsQuiet'
    <3> SUFFICES ASSUME NEW q \in Requests, req'[q].tx
                 PROVE  /\ req'[q].pay \in Payments
                        /\ \A other \in Rows : ledger'[other].pay = req'[q].pay
                             => ledger'[other].st # "PENDING"
                        /\ \A o \in Requests :
                             req'[o].tx /\ req'[o].pay = req'[q].pay => o = q
      BY DEF LockedPaymentsQuiet, noRefundInFlight
    <3>1. q # r /\ req'[q] = req[q] /\ req[q].pay # p
      BY <2>2, <2>3
    <3> QED
      BY <1>1, <2>3, <3>1 DEF LockedPaymentsQuiet, noRefundInFlight
  <2> QED
    BY <2>4, <2>5 DEF PendingInv
<1>5. CASE TxExpires(r)
  <2>1. NoNewTx /\ NoNewPending
    BY <1>1, <1>5 DEF TxExpires, NoNewTx, NoNewPending, TypeOK, RequestSlot
  <2> QED
    BY <2>1, QuietStep
<1>6. CASE RefundAbort(r)
  <2>1. NoNewTx /\ NoNewPending
    BY <1>1, <1>6 DEF RefundAbort, NoNewTx, NoNewPending, TypeOK, Idle
  <2> QED
    BY <2>1, QuietStep
<1> QED
  BY <1>2, <1>3, <1>4, <1>5, <1>6 DEF recordAdminPaymentRefund

\* settleRefund writes settled rows only, and no request.
LEMMA SettleQuiet ==
  ASSUME TypeOK, NEW s \in Deliveries \cup Jobs, settleRefund(s)
  PROVE  NoNewPending /\ NoNewTx
<1>1. settle[s].outcome \in RefundOutcome /\ settle[s].refund \in GatewayRefunds \cup {None}
  BY DEF TypeOK, SettleSlot
<1>2. UNCHANGED req
  BY DEF settleRefund, SettleFind, SettleUpdate, SettleRecover, SettleFails
<1>3. NoNewPending
  <2>1. CASE SettleFind(s) \/ SettleFails(s)
    BY <2>1 DEF SettleFind, SettleFails, NoNewPending
  <2>2. CASE SettleUpdate(s)
    BY <1>1, <2>2 DEF SettleUpdate, NoNewPending, TypeOK, LedgerRow, RefundOutcome
  <2>3. CASE SettleRecover(s)
    BY <1>1, <2>3 DEF SettleRecover, NoNewPending, TypeOK, RefundOutcome
  <2> QED
    BY <2>1, <2>2, <2>3 DEF settleRefund
<1> QED
  BY <1>2, <1>3 DEF NoNewTx

\* The steps that touch neither the Refund table nor a request.
LEMMA OtherSteps ==
  ASSUME [Next]_vars
  PROVE  \/ \E r \in Requests : recordAdminPaymentRefund(r)
         \/ \E s \in Deliveries \cup Jobs : settleRefund(s)
         \/ UNCHANGED <<ledger, req>>
<1>1. ASSUME NEW j \in Jobs, runReconciliation(j) PROVE UNCHANGED <<ledger, req>>
  BY <1>1 DEF runReconciliation, ReconcileStart, ReconcileEnd, ReconcileCrash,
     ReconcileFetch, ReconcileSkip
<1> QED
  BY <1>1 DEF Next, vars, GatewaySettles, WebhookReceive, RowAges, LockExpires

LEMMA PendingHolds == Spec => []PendingInv
<1>1. Init => PendingInv
  <2> SUFFICES ASSUME Init PROVE PendingInv
    OBVIOUS
  <2>1. TypeOK
    BY ConstantSlots DEF Init, TypeOK
  <2> QED
    BY <2>1 DEF Init, PendingInv, OnePendingPerPayment, LockedPaymentsQuiet, Idle, NoRefund
<1>2. PendingInv /\ TypeOK' /\ [Next]_vars => PendingInv'
  <2> SUFFICES ASSUME PendingInv, TypeOK', [Next]_vars PROVE PendingInv'
    OBVIOUS
  <2>1. TypeOK
    BY DEF PendingInv
  <2>2. CASE \E s \in Deliveries \cup Jobs : settleRefund(s)
    BY <2>1, <2>2, SettleQuiet, QuietStep
  <2>3. CASE UNCHANGED <<ledger, req>>
    <3>1. NoNewPending /\ NoNewTx
      BY <2>3 DEF NoNewPending, NoNewTx
    <3> QED
      BY <3>1, QuietStep
  <2> QED
    BY <2>2, <2>3, RequestQuiet, OtherSteps
<1> QED
  BY <1>1, <1>2, RefundTypeCorrect, PTL DEF Spec

\* The ledger never holds two refunds of one payment under way
\* (recordAdminPaymentRefund, settleRefund).
THEOREM OnePendingRefund == Spec => []OnePendingPerPayment
<1>1. PendingInv => OnePendingPerPayment
  BY DEF PendingInv
<1> QED
  BY <1>1, PendingHolds, PTL

-----------------------------------------------------------------------------
(* The ledger agrees with the gateway, because every copy of what the gateway *)
(* said does: the answer a request holds, and the outcome a call of            *)
(* settleRefund holds between its read and its write.                         *)

RequestsFollow ==
  \A r \in Requests : \A g \in GatewayRefunds :
    req[r].refund = g
      => /\ gateway[g].st # "NONE"
         /\ gateway[g].pay = req[r].pay
         /\ gateway[g].amount = req[r].amount

CallsFollow ==
  \A s \in Deliveries \cup Jobs :
    settle[s].stage # "idle"
      => /\ settle[s].refund \in GatewayRefunds
         /\ gateway[settle[s].refund].st = settle[s].outcome
         /\ settle[s].stage = "update" => ledger[settle[s].refund].st # "NONE"

FollowInv == TypeOK /\ LedgerFollowsGateway /\ RequestsFollow /\ CallsFollow

LEMMA RequestFollows ==
  ASSUME FollowInv, TypeOK', NEW r \in Requests, recordAdminPaymentRefund(r)
  PROVE  FollowInv'
<1>1. TypeOK /\ LedgerFollowsGateway /\ RequestsFollow /\ CallsFollow
  BY DEF FollowInv
<1>2. ASSUME NEW p \in Payments, NEW amount \in 1 .. Captured[p], RefundCheck(r, p, amount)
      PROVE  FollowInv'
  <2>1. /\ req'[r].refund = None
        /\ \A q \in Requests \ {r} : req'[q] = req[q]
        /\ UNCHANGED <<gateway, ledger, settle>>
    BY <1>1, <1>2 DEF RefundCheck, TypeOK
  <2>2. RequestsFollow'
    BY <1>1, <2>1, RefundAssumption DEF RequestsFollow, Rows
  <2> QED
    BY <1>1, <2>1, <2>2 DEF FollowInv, LedgerFollowsGateway, CallsFollow
<1>3. ASSUME NEW g \in GatewayRefunds, GatewayAccepts(r, g) PROVE FollowInv'
  <2>1. /\ gateway[g].st = "NONE"
        /\ ledger[g].st = "NONE"
        /\ \A q \in Requests : req[q].refund # g
        /\ \A s \in Deliveries \cup Jobs : settle[s].stage # "idle" => settle[s].refund # g
    BY <1>1, <1>3 DEF GatewayAccepts, LedgerFollowsGateway, RequestsFollow, CallsFollow,
       TypeOK, SettleSlot, RefundOutcome
  <2>2. /\ gateway'[g].st # "NONE"
        /\ gateway'[g].pay = req[r].pay /\ gateway'[g].amount = req[r].amount
        /\ \A h \in GatewayRefunds \ {g} : gateway'[h] = gateway[h]
        /\ req'[r].refund = g /\ req'[r].pay = req[r].pay /\ req'[r].amount = req[r].amount
        /\ \A q \in Requests \ {r} : req'[q] = req[q]
        /\ UNCHANGED <<ledger, settle>>
    BY <1>1, <1>3 DEF GatewayAccepts, TypeOK, RequestSlot
  <2>3. LedgerFollowsGateway'
    BY <1>1, <2>1, <2>2 DEF LedgerFollowsGateway
  <2>4. RequestsFollow'
    BY <1>1, <2>1, <2>2 DEF RequestsFollow
  <2>5. CallsFollow'
    BY <1>1, <2>1, <2>2 DEF CallsFollow
  <2> QED
    BY <2>3, <2>4, <2>5 DEF FollowInv
<1>4. ASSUME NEW row \in Rows, RefundCommit(r, row) PROVE FollowInv'
  <2>1. /\ \A q \in Requests \ {r} : req'[q] = req[q]
        /\ req'[r].refund = None
        /\ UNCHANGED <<gateway, settle>>
        /\ \A other \in Rows \ {row} : ledger'[other] = ledger[other]
        /\ ledger'[row].pay = req[r].pay /\ ledger'[row].amount = req[r].amount
    BY <1>1, <1>4 DEF RefundCommit, TypeOK, Idle
  <2>2. row \in GatewayRefunds
          => /\ req[r].refund = row
             /\ ledger[row].st = "NONE" /\ ledger'[row].st = "PENDING"
    BY <1>1, <1>4, RefundAssumption DEF RefundCommit, TypeOK
  <2>3. LedgerFollowsGateway'
    <3> SUFFICES ASSUME NEW g \in GatewayRefunds, ledger'[g].st # "NONE"
                 PROVE  /\ gateway[g].st # "NONE"
                        /\ ledger'[g].pay = gateway[g].pay
                        /\ ledger'[g].amount = gateway[g].amount
                        /\ (ledger'[g].st \in RefundOutcome => ledger'[g].st = gateway[g].st)
      BY <2>1 DEF LedgerFollowsGateway
    <3>1. CASE g = row
      BY <1>1, <2>1, <2>2, <3>1 DEF RequestsFollow, RefundOutcome
    <3>2. CASE g # row
      BY <1>1, <2>1, <3>2 DEF LedgerFollowsGateway, Rows
    <3> QED
      BY <3>1, <3>2
  <2>4. RequestsFollow'
    BY <1>1, <2>1, RefundAssumption DEF RequestsFollow, Rows
  <2>5. CallsFollow'
    BY <1>1, <2>1, <2>2 DEF CallsFollow, Rows
  <2> QED
    BY <2>3, <2>4, <2>5 DEF FollowInv
<1>5. CASE TxExpires(r)
  <2>1. \A q \in Requests : /\ req'[q].refund = req[q].refund
                            /\ req'[q].pay = req[q].pay /\ req'[q].amount = req[q].amount
    BY <1>1, <1>5 DEF TxExpires, TypeOK, RequestSlot
  <2> QED
    BY <1>1, <1>5, <2>1 DEF TxExpires, FollowInv, LedgerFollowsGateway, RequestsFollow, CallsFollow
<1>6. CASE RefundAbort(r)
  <2>1. \A q \in Requests : req'[q].refund = None \/ req'[q] = req[q]
    BY <1>1, <1>6 DEF RefundAbort, TypeOK, Idle
  <2>2. RequestsFollow'
    BY <1>1, <1>6, <2>1, RefundAssumption DEF RefundAbort, RequestsFollow, Rows
  <2> QED
    BY <1>1, <1>6, <2>2 DEF RefundAbort, FollowInv, LedgerFollowsGateway, CallsFollow
<1> QED
  BY <1>2, <1>3, <1>4, <1>5, <1>6 DEF recordAdminPaymentRefund

\* A call holds what the gateway said, and the gateway does not change its mind.
LEMMA SettleFollows ==
  ASSUME FollowInv, TypeOK', NEW s \in Deliveries \cup Jobs, settleRefund(s)
  PROVE  /\ FollowInv'
         /\ \A row \in Rows :
              ledger[row].st \in RefundOutcome => ledger'[row] = ledger[row]
<1>1. TypeOK /\ LedgerFollowsGateway /\ RequestsFollow /\ CallsFollow
  BY DEF FollowInv
<1>2. PICK g, outcome : g = settle[s].refund /\ outcome = settle[s].outcome
  OBVIOUS
<1>3. /\ settle[s].stage # "idle"
      /\ g \in GatewayRefunds /\ gateway[g].st = outcome /\ outcome \in RefundOutcome
      /\ settle[s].stage = "update" => ledger[g].st # "NONE"
      /\ UNCHANGED <<gateway, req>>
  BY <1>1, <1>2 DEF settleRefund, SettleFind, SettleUpdate, SettleRecover, SettleFails,
     CallsFollow, TypeOK, SettleSlot
<1>4. g \in Rows /\ ledger[g] \in LedgerRow
  BY <1>1, <1>3 DEF Rows, TypeOK
<1>5. RequestsFollow'
  BY <1>1, <1>3 DEF RequestsFollow
<1>6. ASSUME Return(s)
      PROVE  /\ settle'[s].stage = "idle"
             /\ \A c \in (Deliveries \cup Jobs) \ {s} : settle'[c] = settle[c]
  BY <1>1, <1>6 DEF Return, TypeOK, NoCall
<1>7. CASE SettleFind(s)
  <2>1. CallsFollow'
    <3>1. \A c \in (Deliveries \cup Jobs) \ {s} : settle'[c] = settle[c]
      BY <1>1, <1>7 DEF SettleFind, Return, TypeOK
    <3>2. CASE ledger[g].st = "PENDING"
      <4>1. settle'[s].refund = g /\ settle'[s].outcome = outcome
        BY <1>1, <1>2, <1>7, <3>2 DEF SettleFind, TypeOK, SettleSlot
      <4> QED
        BY <1>1, <1>3, <1>7, <3>1, <3>2, <4>1 DEF SettleFind, CallsFollow
    <3>3. CASE ledger[g].st = "NONE"
      <4>1. /\ settle'[s].refund = g /\ settle'[s].outcome = outcome
            /\ settle'[s].stage = "recover"
        BY <1>1, <1>2, <1>7, <3>3 DEF SettleFind, TypeOK, SettleSlot
      <4> QED
        BY <1>1, <1>3, <1>7, <3>1, <4>1 DEF SettleFind, CallsFollow
    <3>4. CASE ledger[g].st \notin {"PENDING", "NONE"}
      <4>1. Return(s)
        BY <1>2, <1>7, <3>4 DEF SettleFind
      <4> QED
        BY <1>1, <1>3, <1>6, <1>7, <4>1 DEF SettleFind, CallsFollow
    <3> QED
      BY <3>2, <3>3, <3>4
  <2> QED
    BY <1>1, <1>5, <1>7, <2>1 DEF SettleFind, FollowInv, LedgerFollowsGateway
<1>8. CASE SettleUpdate(s)
  <2>1. /\ ledger'[g] = [ledger[g] EXCEPT !.st = outcome]
        /\ \A row \in Rows \ {g} : ledger'[row] = ledger[row]
    BY <1>1, <1>2, <1>4, <1>8 DEF SettleUpdate, TypeOK
  <2>2. /\ ledger'[g].st = outcome
        /\ ledger'[g].pay = ledger[g].pay /\ ledger'[g].amount = ledger[g].amount
        /\ ledger[g].st = outcome => ledger'[g] = ledger[g]
    BY <1>4, <2>1 DEF LedgerRow
  <2>3. ledger[g].st # "NONE" /\ (ledger[g].st \in RefundOutcome => ledger[g].st = outcome)
    BY <1>1, <1>3, <1>8 DEF SettleUpdate, LedgerFollowsGateway
  <2>4. LedgerFollowsGateway'
    BY <1>1, <1>3, <2>1, <2>2, <2>3 DEF LedgerFollowsGateway, Rows
  <2>5. \A h \in GatewayRefunds : ledger[h].st # "NONE" => ledger'[h].st # "NONE"
    BY <1>3, <2>1, <2>2 DEF Rows, RefundOutcome
  <2>6. CallsFollow'
    <3>1. Return(s)
      BY <1>8 DEF SettleUpdate
    <3> QED
      BY <1>1, <1>3, <1>6, <2>5, <3>1 DEF CallsFollow
  <2> QED
    BY <1>5, <2>1, <2>2, <2>3, <2>4, <2>6 DEF FollowInv
<1>9. CASE SettleRecover(s)
  <2>1. /\ \A row \in Rows \ {g} : ledger'[row] = ledger[row]
        /\ \/ ledger'[g] = ledger[g]
           \/ /\ ledger[g].st = "NONE"
              /\ ledger'[g] = [st |-> outcome, pay |-> gateway[g].pay,
                               amount |-> gateway[g].amount]
    BY <1>1, <1>2, <1>4, <1>9 DEF SettleRecover, TypeOK
  <2>2. LedgerFollowsGateway'
    BY <1>1, <1>3, <2>1 DEF LedgerFollowsGateway, Rows, RefundOutcome
  <2>3. CallsFollow'
    BY <1>1, <1>3, <1>6, <1>9, <2>1 DEF SettleRecover, CallsFollow, Rows, RefundOutcome
  <2> QED
    BY <1>5, <2>1, <2>2, <2>3 DEF FollowInv, RefundOutcome
<1>10. CASE SettleFails(s)
  <2>1. CallsFollow'
    BY <1>1, <1>6, <1>10 DEF SettleFails, CallsFollow
  <2> QED
    BY <1>1, <1>5, <1>10, <2>1 DEF SettleFails, FollowInv, LedgerFollowsGateway
<1> QED
  BY <1>7, <1>8, <1>9, <1>10 DEF settleRefund

\* A call starts from an outcome the gateway has reached.
LEMMA CallFollows ==
  ASSUME FollowInv, NEW s \in Deliveries \cup Jobs, NEW g \in GatewayRefunds,
         settled(g), Call(s, g), UNCHANGED <<gateway, ledger, req>>
  PROVE  LedgerFollowsGateway' /\ RequestsFollow' /\ CallsFollow'
<1>1. /\ settle'[s].refund = g /\ settle'[s].outcome = gateway[g].st
      /\ settle'[s].stage = "find"
      /\ \A c \in (Deliveries \cup Jobs) \ {s} : settle'[c] = settle[c]
  BY DEF Call, FollowInv, TypeOK
<1>2. CallsFollow'
  BY <1>1 DEF FollowInv, CallsFollow
<1> QED
  BY <1>2 DEF FollowInv, LedgerFollowsGateway, RequestsFollow

LEMMA ReconciliationFollows ==
  ASSUME FollowInv, TypeOK', NEW j \in Jobs, runReconciliation(j)
  PROVE  FollowInv'
<1>1. CASE ReconcileStart(j) \/ ReconcileEnd(j)
           \/ \E g \in GatewayRefunds : ReconcileSkip(j, g)
  <2>1. UNCHANGED <<gateway, ledger, req, settle>>
    BY <1>1 DEF ReconcileStart, ReconcileEnd, ReconcileSkip
  <2> QED
    BY <2>1 DEF FollowInv, LedgerFollowsGateway, RequestsFollow, CallsFollow
<1>2. CASE ReconcileCrash(j)
  <2>1. /\ settle'[j].stage = "idle"
        /\ \A c \in (Deliveries \cup Jobs) \ {j} : settle'[c] = settle[c]
        /\ UNCHANGED <<gateway, ledger, req>>
    BY <1>2 DEF ReconcileCrash, Return, FollowInv, TypeOK, NoCall
  <2> QED
    BY <2>1 DEF FollowInv, LedgerFollowsGateway, RequestsFollow, CallsFollow
<1>3. ASSUME NEW g \in GatewayRefunds, ReconcileFetch(j, g) PROVE FollowInv'
  BY <1>3, CallFollows DEF ReconcileFetch, FollowInv
<1> QED
  BY <1>1, <1>2, <1>3 DEF runReconciliation

LEMMA GatewayFollows ==
  ASSUME FollowInv, TypeOK', NEW g \in GatewayRefunds, NEW outcome \in RefundOutcome,
         GatewaySettles(g, outcome)
  PROVE  FollowInv'
<1>1. TypeOK /\ LedgerFollowsGateway /\ RequestsFollow /\ CallsFollow
  BY DEF FollowInv
<1>2. /\ gateway[g].st = "created" /\ gateway'[g].st = outcome
      /\ gateway'[g].pay = gateway[g].pay /\ gateway'[g].amount = gateway[g].amount
      /\ \A h \in GatewayRefunds \ {g} : gateway'[h] = gateway[h]
      /\ UNCHANGED <<ledger, req, settle>>
  BY <1>1 DEF GatewaySettles, TypeOK, GatewayRow
<1>3. /\ ledger[g].st \notin RefundOutcome
      /\ \A s \in Deliveries \cup Jobs : settle[s].stage # "idle" => settle[s].refund # g
  BY <1>1, <1>2 DEF LedgerFollowsGateway, CallsFollow, RefundOutcome, TypeOK, SettleSlot
<1>4. LedgerFollowsGateway'
  BY <1>1, <1>2, <1>3 DEF LedgerFollowsGateway, RefundOutcome
<1>5. RequestsFollow'
  BY <1>1, <1>2 DEF RequestsFollow, RefundOutcome
<1>6. CallsFollow'
  BY <1>1, <1>2, <1>3 DEF CallsFollow
<1> QED
  BY <1>4, <1>5, <1>6 DEF FollowInv

LEMMA FollowStep == FollowInv /\ TypeOK' /\ [Next]_vars => FollowInv'
<1> SUFFICES ASSUME FollowInv, TypeOK', [Next]_vars PROVE FollowInv'
  OBVIOUS
<1>1. ASSUME NEW d \in Deliveries, NEW g \in GatewayRefunds, WebhookReceive(d, g)
      PROVE  FollowInv'
  BY <1>1, CallFollows DEF WebhookReceive, FollowInv
<1>2. CASE LockExpires \/ UNCHANGED vars \/ \E g \in GatewayRefunds : RowAges(g)
  <2>1. UNCHANGED <<gateway, ledger, req, settle>>
    BY <1>2 DEF LockExpires, RowAges, vars
  <2> QED
    BY <2>1 DEF FollowInv, LedgerFollowsGateway, RequestsFollow, CallsFollow
<1> QED
  BY <1>1, <1>2, RequestFollows, SettleFollows, ReconciliationFollows, GatewayFollows
  DEF Next

LEMMA FollowHolds == Spec => []FollowInv
<1>1. Init => FollowInv
  <2> SUFFICES ASSUME Init PROVE FollowInv
    OBVIOUS
  <2>1. TypeOK
    BY ConstantSlots DEF Init, TypeOK
  <2> QED
    BY <2>1, RefundAssumption DEF Init, FollowInv, LedgerFollowsGateway, RequestsFollow,
       CallsFollow, Idle, NoRefund, NoCall, Rows
<1> QED
  BY <1>1, FollowStep, RefundTypeCorrect, PTL DEF Spec

\* A ledger row with a gateway id carries the payment, the amount and, once
\* settled, the outcome of the gateway (settleRefund).
THEOREM LedgerAgrees == Spec => []LedgerFollowsGateway
<1>1. FollowInv => LedgerFollowsGateway
  BY DEF FollowInv
<1> QED
  BY <1>1, FollowHolds, PTL

\* A settled row never changes (settleRefund).
THEOREM SettlingIsFinal == Spec => SettledIsFinal
<1>1. FollowInv /\ TypeOK' /\ [Next]_vars
        => [\A row \in Rows :
              ledger[row].st \in RefundOutcome => ledger'[row] = ledger[row]]_vars
  <2> SUFFICES ASSUME FollowInv, TypeOK', [Next]_vars, NEW row \in Rows,
                      ledger[row].st \in RefundOutcome
               PROVE  ledger'[row] = ledger[row]
    OBVIOUS
  <2>1. ASSUME NEW r \in Requests, recordAdminPaymentRefund(r)
        PROVE  ledger'[row] = ledger[row]
    <3>1. ASSUME NEW other \in Rows, RefundCommit(r, other)
          PROVE  ledger'[row] = ledger[row]
      BY <3>1 DEF RefundCommit, FollowInv, TypeOK, RefundOutcome
    <3>2. CASE ~\E other \in Rows : RefundCommit(r, other)
      BY <2>1, <3>2 DEF recordAdminPaymentRefund, RefundCheck, GatewayAccepts, TxExpires,
         RefundAbort
    <3> QED
      BY <3>1, <3>2
  <2>2. ASSUME NEW s \in Deliveries \cup Jobs, settleRefund(s)
        PROVE  ledger'[row] = ledger[row]
    BY <2>2, SettleFollows
  <2> QED
    BY <2>1, <2>2, OtherSteps
<1> QED
  BY <1>1, FollowHolds, RefundTypeCorrect, PTL DEF Spec, SettledIsFinal
=============================================================================
