--------------------------- MODULE RefundLedger ---------------------------
(***************************************************************************)
(* Refunds of captured payments: recordAdminPaymentRefund of                *)
(* controller/booking.controller.ts, settleRefund of                        *)
(* services/refund-ledger.service.ts with its two callers (the webhook of   *)
(* services/webhook.service.ts and the sweep of                             *)
(* jobs/refund-reconciliation.job.ts), and, as an external part, the gateway *)
(* behind services/razorpay-refund.service.ts.                              *)
(*                                                                         *)
(* A refund of an online payment is a row of the Refund table with the      *)
(* refund id of the gateway, unique in the table: the table is a function   *)
(* of those ids and of the ids of offline rows.  Amounts are whole rupees.  *)
(***************************************************************************)
EXTENDS Naturals, FiniteSets

CONSTANTS
  Payments,        \* captured payments, one per booking
  Captured,        \* what each of them captured
  Online,          \* those of bookings paid online; others were paid offline
  GatewayRefunds,  \* refund ids the gateway may come to issue
  OfflineRefunds,  \* rows offline refunds may come to take
  Requests,        \* admin requests in flight at once
  Deliveries,      \* webhook deliveries in flight at once
  Jobs,            \* processes that run the reconciliation
  None             \* null

Rows == GatewayRefunds \cup OfflineRefunds

ASSUME RefundAssumption ==
  /\ IsFiniteSet(Rows)
  /\ GatewayRefunds \cap OfflineRefunds = {}
  /\ Captured \in [Payments -> Nat \ {0}]
  /\ Online \subseteq Payments
  /\ None \notin Payments \cup Rows
  /\ Deliveries \cap Jobs = {}

VARIABLES
  gateway,   \* the gateway's own record of every refund id
  ledger,    \* the Refund table
  req,       \* what every admin request in flight is doing
  seen,      \* events whose Redis key webhook:event:<id> is set
  settle,    \* what every settleRefund call in flight is doing
  job,       \* what every reconciliation is doing
  lock,      \* Redis key RefundReconciliation:lock: set or not
  stuck      \* refunds whose row is more than seven days old

vars == <<gateway, ledger, req, seen, settle, job, lock, stuck>>

-----------------------------------------------------------------------------
(* The tables. *)

NoRefund == [st |-> "NONE", pay |-> None, amount |-> 0]

PaymentRefundStatus == {"PENDING", "PROCESSED", "FAILED"}

RefundOutcome == {"PROCESSED", "FAILED"}

LedgerRow == [st : PaymentRefundStatus \cup {"NONE"}, pay : Payments \cup {None},
              amount : Nat]

\* created and pending are one state: the money has not moved.
GatewayRow == [st : {"NONE", "created", "PROCESSED", "FAILED"},
               pay : Payments \cup {None}, amount : Nat]

\* The sum of the amounts of some rows of a table, counted rupee by rupee.
rupees(table, rows) == UNION {{row} \X (1 .. table[row].amount) : row \in rows}

total(table, rows) == Cardinality(rupees(table, rows))

\* Everything recorded on the payment but failed attempts, which moved no money.
sumRefunds(p) ==
  total(ledger, {row \in Rows : /\ ledger[row].pay = p
                                /\ ledger[row].st \in {"PENDING", "PROCESSED"}})

noRefundInFlight(p) ==
  \A row \in Rows : ledger[row].pay = p => ledger[row].st # "PENDING"

-----------------------------------------------------------------------------
(* recordAdminPaymentRefund *)

Idle == [stage |-> "idle", pay |-> None, amount |-> 0, refund |-> None, tx |-> FALSE]

RequestSlot ==
  [stage : {"idle", "call", "insert"}, pay : Payments \cup {None}, amount : Nat,
   refund : GatewayRefunds \cup {None},   \* the id the gateway answered with
   tx : BOOLEAN]                          \* its transaction is still open

\* A mutant for the checks: the balance is read without the row lock.
neverLocked(p) == FALSE

\* SELECT ... FOR UPDATE on the payment row.
locked(p) == \E r \in Requests : req[r].pay = p /\ req[r].tx

\* The transaction locks the payment, reads its refunds and asserts.  The amount
\* is the one the admin asked for, or all that is left.
RefundCheck(r, p, amount) ==
  /\ req[r].stage = "idle"
  /\ ~locked(p)
  /\ noRefundInFlight(p)
  /\ amount + sumRefunds(p) <= Captured[p]
  /\ req' = [req EXCEPT ![r] =
       [stage |-> IF p \in Online THEN "call" ELSE "insert", pay |-> p,
        amount |-> amount, refund |-> None, tx |-> TRUE]]
  /\ UNCHANGED <<gateway, ledger, seen, settle, job, lock, stuck>>

\* The gateway, which never refunds more than was captured, takes the request;
\* also that of a transaction that has timed out in the meantime.
GatewayAccepts(r, g) ==
  /\ req[r].stage = "call"
  /\ gateway[g].st = "NONE"
  /\ req[r].amount + total(gateway, {h \in GatewayRefunds :
                                       /\ gateway[h].pay = req[r].pay
                                       /\ gateway[h].st \in {"created", "PROCESSED"}})
       <= Captured[req[r].pay]
  /\ gateway' = [gateway EXCEPT ![g] =
       [st |-> "created", pay |-> req[r].pay, amount |-> req[r].amount]]
  /\ req' = [req EXCEPT ![r].stage = "insert", ![r].refund = g]
  /\ UNCHANGED <<ledger, seen, settle, job, lock, stuck>>

\* A mutant for the checks: an upsert outside of the transaction.
RefundCommitUpsert(r, row) ==
  /\ req[r].stage = "insert"
  /\ IF req[r].pay \in Online THEN row = req[r].refund ELSE row \in OfflineRefunds
  /\ ledger' = [ledger EXCEPT ![row] =
       [st |-> IF req[r].pay \in Online THEN "PENDING" ELSE "PROCESSED",
        pay |-> req[r].pay, amount |-> req[r].amount]]
  /\ req' = [req EXCEPT ![r] = Idle]
  /\ UNCHANGED <<gateway, seen, settle, job, lock, stuck>>

\* Inserts the ledger row and commits: PENDING with the id of the gateway, or
\* PROCESSED for an offline refund.  A taken id fails the transaction.
RefundCommit(r, row) ==
  /\ req[r].stage = "insert" /\ req[r].tx
  /\ IF req[r].pay \in Online THEN row = req[r].refund ELSE row \in OfflineRefunds
  /\ ledger[row].st = "NONE"
  /\ ledger' = [ledger EXCEPT ![row] =
       [st |-> IF req[r].pay \in Online THEN "PENDING" ELSE "PROCESSED",
        pay |-> req[r].pay, amount |-> req[r].amount]]
  /\ req' = [req EXCEPT ![r] = Idle]
  /\ UNCHANGED <<gateway, seen, settle, job, lock, stuck>>

\* The transaction is older than 20 seconds: it is rolled back and its lock is
\* gone, while the handler still waits for the gateway.
TxExpires(r) ==
  /\ req[r].tx
  /\ req' = [req EXCEPT ![r].tx = FALSE]
  /\ UNCHANGED <<gateway, ledger, seen, settle, job, lock, stuck>>

\* The gateway refuses, its answer is lost, the insert fails, the process dies.
RefundAbort(r) ==
  /\ req[r].stage # "idle"
  /\ req' = [req EXCEPT ![r] = Idle]
  /\ UNCHANGED <<gateway, ledger, seen, settle, job, lock, stuck>>

\* External: the money moves, or the gateway gives up.  Either is final.
GatewaySettles(g, outcome) ==
  /\ gateway[g].st = "created"
  /\ gateway' = [gateway EXCEPT ![g].st = outcome]
  /\ UNCHANGED <<ledger, req, seen, settle, job, lock, stuck>>

-----------------------------------------------------------------------------
(* settleRefund, called with a refund id and the outcome of the gateway. *)

NoCall == [stage |-> "idle", refund |-> None, outcome |-> "FAILED"]

SettleSlot == [stage : {"idle", "find", "update", "recover"},
               refund : GatewayRefunds \cup {None}, outcome : RefundOutcome]

Call(s, g) ==
  settle' = [settle EXCEPT ![s] = [stage |-> "find", refund |-> g,
                                   outcome |-> gateway[g].st]]

Return(s) == settle' = [settle EXCEPT ![s] = NoCall]

\* Reads the row: to be settled, to be recovered, or settled already.
SettleFind(s) ==
  LET st == ledger[settle[s].refund].st
  IN /\ settle[s].stage = "find"
     /\ CASE st = "PENDING" -> settle' = [settle EXCEPT ![s].stage = "update"]
          [] st = "NONE"    -> settle' = [settle EXCEPT ![s].stage = "recover"]
          [] OTHER          -> Return(s)
     /\ UNCHANGED <<gateway, ledger, req, seen, job, lock, stuck>>

\* Updates the row by id, whatever its status is by now.
SettleUpdate(s) ==
  /\ settle[s].stage = "update"
  /\ ledger' = [ledger EXCEPT ![settle[s].refund].st = settle[s].outcome]
  /\ Return(s)
  /\ UNCHANGED <<gateway, req, seen, job, lock, stuck>>

\* A mutant for the checks: the amount of the event is ignored.
SettleRecoverAll(s) ==
  LET g == settle[s].refund
  IN /\ settle[s].stage = "recover"
     /\ ~locked(gateway[g].pay)
     /\ ledger' = IF ledger[g].st = "NONE"
                  THEN [ledger EXCEPT ![g] = [st |-> settle[s].outcome,
                                              pay |-> gateway[g].pay,
                                              amount |-> Captured[gateway[g].pay]]]
                  ELSE ledger
     /\ Return(s)
     /\ UNCHANGED <<gateway, req, seen, job, lock, stuck>>

\* Inserts the row from the numbers of the gateway.  The foreign key waits for
\* the lock of the payment row; a taken id ends the call without a change.
SettleRecover(s) ==
  LET g == settle[s].refund
  IN /\ settle[s].stage = "recover"
     /\ ~locked(gateway[g].pay)
     /\ ledger' = IF ledger[g].st = "NONE"
                  THEN [ledger EXCEPT ![g] = [st |-> settle[s].outcome,
                                              pay |-> gateway[g].pay,
                                              amount |-> gateway[g].amount]]
                  ELSE ledger
     /\ Return(s)
     /\ UNCHANGED <<gateway, req, seen, job, lock, stuck>>

\* A query throws or the process dies.
SettleFails(s) ==
  /\ settle[s].stage # "idle"
  /\ Return(s)
  /\ UNCHANGED <<gateway, ledger, req, seen, job, lock, stuck>>

-----------------------------------------------------------------------------
(* The webhook: refund.processed and refund.failed, one event per refund,    *)
(* delivered until the program has answered, or never.                       *)

settled(g) == gateway[g].st \in RefundOutcome

\* processWebhookEvent marks the event as seen, then handles it.
WebhookReceive(d, g) ==
  /\ settle[d].stage = "idle"
  /\ settled(g)
  /\ g \notin seen
  /\ seen' = seen \cup {g}
  /\ Call(d, g)
  /\ UNCHANGED <<gateway, ledger, req, job, lock, stuck>>

-----------------------------------------------------------------------------
(* The reconciliation, under a Redis lock with a time to live. *)

Asleep == [running |-> FALSE, batch |-> {}]

\* The rows a run still has to look at.
JobSlot == [running : BOOLEAN, batch : SUBSET GatewayRefunds]

\* Time goes by while a refund is pending.
RowAges(g) ==
  /\ ledger[g].st = "PENDING" /\ g \notin stuck
  /\ stuck' = stuck \cup {g}
  /\ UNCHANGED <<gateway, ledger, req, seen, settle, job, lock>>

\* Lists the pending rows that have a gateway id.  Those that are more than seven
\* days old by now are only complained about, in this run and in all later ones.
\* Neither the least age of a row nor the size of a batch is modelled.
ReconcileStart(j) ==
  /\ ~job[j].running
  /\ ~lock
  /\ lock' = TRUE
  /\ job' = [job EXCEPT ![j] =
       [running |-> TRUE,
        batch |-> {g \in GatewayRefunds : ledger[g].st = "PENDING"} \ stuck]]
  /\ UNCHANGED <<gateway, ledger, req, seen, settle, stuck>>

NextInBatch(j, g) ==
  /\ g \in job[j].batch
  /\ settle[j].stage = "idle"
  /\ job' = [job EXCEPT ![j].batch = @ \ {g}]

\* A mutant for the checks: the status of the gateway is stored as it is.
ReconcileFetchUnmapped(j, g) ==
  /\ NextInBatch(j, g)
  /\ Call(j, g)
  /\ UNCHANGED <<gateway, ledger, req, seen, lock, stuck>>

\* The gateway knows the outcome of a listed refund.
ReconcileFetch(j, g) ==
  /\ NextInBatch(j, g)
  /\ settled(g)
  /\ Call(j, g)
  /\ UNCHANGED <<gateway, ledger, req, seen, lock, stuck>>

\* The money has not moved, or the gateway does not answer.
ReconcileSkip(j, g) ==
  /\ NextInBatch(j, g)
  /\ UNCHANGED <<gateway, ledger, req, seen, settle, lock, stuck>>

\* finally: DEL, whoever holds the lock by now.
ReconcileEnd(j) ==
  /\ job[j].running
  /\ job[j].batch = {} /\ settle[j].stage = "idle"
  /\ job' = [job EXCEPT ![j] = Asleep]
  /\ lock' = FALSE
  /\ UNCHANGED <<gateway, ledger, req, seen, settle, stuck>>

\* The process dies: the lock stays until it expires.
ReconcileCrash(j) ==
  /\ job[j].running
  /\ job' = [job EXCEPT ![j] = Asleep]
  /\ Return(j)
  /\ UNCHANGED <<gateway, ledger, req, seen, lock, stuck>>

\* A mutant for the checks: the lock is set without a time to live.
LockStays == lock /\ FALSE /\ UNCHANGED vars

LockExpires ==
  /\ lock
  /\ lock' = FALSE
  /\ UNCHANGED <<gateway, ledger, req, seen, settle, job, stuck>>

-----------------------------------------------------------------------------

Init ==
  /\ gateway = [g \in GatewayRefunds |-> NoRefund]
  /\ ledger = [row \in Rows |-> NoRefund]
  /\ req = [r \in Requests |-> Idle]
  /\ seen = {}
  /\ settle = [s \in Deliveries \cup Jobs |-> NoCall]
  /\ job = [j \in Jobs |-> Asleep]
  /\ lock = FALSE
  /\ stuck = {}

recordAdminPaymentRefund(r) ==
  \/ \E p \in Payments : \E amount \in 1 .. Captured[p] : RefundCheck(r, p, amount)
  \/ \E g \in GatewayRefunds : GatewayAccepts(r, g)
  \/ \E row \in Rows : RefundCommit(r, row)
  \/ TxExpires(r)
  \/ RefundAbort(r)

settleRefund(s) ==
  SettleFind(s) \/ SettleUpdate(s) \/ SettleRecover(s) \/ SettleFails(s)

runReconciliation(j) ==
  \/ ReconcileStart(j) \/ ReconcileEnd(j) \/ ReconcileCrash(j)
  \/ \E g \in GatewayRefunds : ReconcileFetch(j, g) \/ ReconcileSkip(j, g)

Next ==
  \/ \E r \in Requests : recordAdminPaymentRefund(r)
  \/ \E g \in GatewayRefunds, outcome \in RefundOutcome : GatewaySettles(g, outcome)
  \/ \E d \in Deliveries, g \in GatewayRefunds : WebhookReceive(d, g)
  \/ \E s \in Deliveries \cup Jobs : settleRefund(s)
  \/ \E g \in GatewayRefunds : RowAges(g)
  \/ \E j \in Jobs : runReconciliation(j)
  \/ LockExpires

Spec == Init /\ [][Next]_vars

\* The cron fires every half hour and at every start of a process, the lock
\* expires, and neither the queries of the job nor its calls to the gateway fail
\* every single time: of a row that is listed in run after run.  A row that is seven
\* days old is not, whatever is assumed.  Nothing is assumed of admins or of webhooks.
ReconciliationFairness ==
  /\ WF_vars(LockExpires)
  /\ \A j \in Jobs : /\ SF_vars(ReconcileStart(j))
                     /\ WF_vars(ReconcileEnd(j))
                     /\ \A g \in GatewayRefunds : SF_vars(ReconcileFetch(j, g))
                     /\ SF_vars(SettleFind(j))
                     /\ SF_vars(SettleUpdate(j))

ReconciledSpec == Spec /\ ReconciliationFairness

-----------------------------------------------------------------------------
(* What must hold. *)

TypeOK ==
  /\ gateway \in [GatewayRefunds -> GatewayRow]
  /\ ledger \in [Rows -> LedgerRow]
  /\ req \in [Requests -> RequestSlot]
  /\ seen \in SUBSET GatewayRefunds
  /\ settle \in [Deliveries \cup Jobs -> SettleSlot]
  /\ job \in [Jobs -> JobSlot]
  /\ lock \in BOOLEAN
  /\ stuck \in SUBSET GatewayRefunds

\* The ledger never holds two refunds of one payment that are under way, although
\* webhook and reconciliation write rows without the lock of the payment
\* (assertNoRefundInFlight).
OnePendingPerPayment ==
  \A row1, row2 \in Rows :
    /\ ledger[row1].st = "PENDING" /\ ledger[row2].st = "PENDING"
    /\ ledger[row1].pay = ledger[row2].pay
    => row1 = row2

\* A row with a gateway id, recorded by the admin's request or recovered, names
\* the payment and the amount the gateway refunded, and once it is settled the
\* outcome the gateway reached (settleRefund).
LedgerFollowsGateway ==
  \A g \in GatewayRefunds :
    ledger[g].st # "NONE"
      => /\ gateway[g].st # "NONE"
         /\ ledger[g].pay = gateway[g].pay
         /\ ledger[g].amount = gateway[g].amount
         /\ ledger[g].st \in RefundOutcome => ledger[g].st = gateway[g].st

\* A settled row never changes: webhook and reconciliation settle it once between
\* them, though both read before they write (settleRefund).
SettledIsFinal ==
  [][\A row \in Rows :
       ledger[row].st \in RefundOutcome => ledger'[row] = ledger[row]]_vars

\* What the ledger says was paid back, per payment.
paidBack(p) == {row \in Rows : ledger[row].pay = p /\ ledger[row].st = "PROCESSED"}

amountReturned == [p \in Payments |-> total(ledger, paidBack(p))]

Account == INSTANCE RefundAccount WITH returned <- amountReturned

\* Every step of the refund ledger pays back nothing or one refund within what
\* the payment captured.
KeepsRefundAccount == Account!Spec

\* A recorded refund that the gateway has settled is settled in the ledger before it
\* is seven days old, in spite of lost and dropped webhooks, crashes and expiring
\* locks, or the reconciliation failed for that long (reconcilePendingRefunds).
PendingIsSettled ==
  \A g \in GatewayRefunds :
    settled(g) /\ ledger[g].st = "PENDING"
      ~> ledger[g].st \in RefundOutcome \/ g \in stuck
=============================================================================
