------------------------ MODULE RefundAccountProofs ------------------------
(***************************************************************************)
(* RefundLedger implements RefundAccount, for any number of payments,        *)
(* refunds, requests, deliveries and reconciliations and for any amounts.    *)
(***************************************************************************)
EXTENDS RefundLedgerProofs, FiniteSetTheorems

-----------------------------------------------------------------------------
(* Sums. *)

\* Rows whose amounts are numbers.
hasAmounts(table, rows) == IsFiniteSet(rows) /\ \A row \in rows : table[row].amount \in Nat

LEMMA RupeesOfRow ==
  ASSUME NEW row, NEW n \in Nat
  PROVE  /\ IsFiniteSet({row} \X (1 .. n))
         /\ Cardinality({row} \X (1 .. n)) = n
<1>1. IsFiniteSet({row}) /\ Cardinality({row}) = 1
  BY FS_Singleton
<1>2. IsFiniteSet(1 .. n) /\ Cardinality(1 .. n) = n
  BY FS_Interval
<1>3. /\ IsFiniteSet({row} \X (1 .. n))
      /\ Cardinality({row} \X (1 .. n)) = Cardinality({row}) * Cardinality(1 .. n)
  BY <1>1, <1>2, FS_Product
<1> QED
  BY <1>1, <1>2, <1>3

LEMMA TotalType ==
  ASSUME NEW table, NEW rows, hasAmounts(table, rows)
  PROVE  IsFiniteSet(rupees(table, rows)) /\ total(table, rows) \in Nat
<1> DEFINE ofRow == [row \in rows |-> {row} \X (1 .. table[row].amount)]
           all   == {{row} \X (1 .. table[row].amount) : row \in rows}
<1>1. ofRow \in Surjection(rows, all)
  BY DEF Surjection
<1>2. IsFiniteSet(all)
  <2> HIDE DEF ofRow, all
  <2> QED
    BY <1>1, FS_Surjection DEF hasAmounts
<1>3. \A T \in all : IsFiniteSet(T)
  <2>1. ASSUME NEW row \in rows PROVE IsFiniteSet({row} \X (1 .. table[row].amount))
    <3>1. table[row].amount \in Nat
      BY DEF hasAmounts
    <3> QED
      BY <3>1, RupeesOfRow
  <2> QED
    BY <2>1
<1>4. IsFiniteSet(UNION all)
  <2> HIDE DEF all
  <2> QED
    BY <1>2, <1>3, FS_UNION
<1>5. rupees(table, rows) = UNION all
  BY DEF rupees
<1> QED
  BY <1>4, <1>5, FS_CardinalityType DEF total

LEMMA TotalOfNone == ASSUME NEW table PROVE total(table, {}) = 0
<1>1. rupees(table, {}) = {}
  BY DEF rupees
<1> QED
  BY <1>1, FS_EmptySet DEF total

\* Only the amounts matter.
LEMMA TotalAgrees ==
  ASSUME NEW table, NEW other, NEW rows,
         \A row \in rows : other[row].amount = table[row].amount
  PROVE  total(other, rows) = total(table, rows)
<1>1. rupees(other, rows) = rupees(table, rows)
  BY DEF rupees
<1> QED
  BY <1>1 DEF total

LEMMA TotalGrows ==
  ASSUME NEW table, NEW rows, NEW some \in SUBSET rows, hasAmounts(table, rows)
  PROVE  total(table, some) <= total(table, rows)
<1>1. rupees(table, some) \subseteq rupees(table, rows)
  BY DEF rupees
<1> QED
  BY <1>1, TotalType, FS_Subset DEF total

LEMMA TotalAdds ==
  ASSUME NEW table, NEW rows, NEW row, row \notin rows,
         hasAmounts(table, rows), table[row].amount \in Nat
  PROVE  total(table, rows \cup {row}) = total(table, rows) + table[row].amount
<1> DEFINE new == {row} \X (1 .. table[row].amount)
<1>1. rupees(table, rows \cup {row}) = rupees(table, rows) \cup new
  BY DEF rupees
<1>2. rupees(table, rows) \cap new = {}
  BY DEF rupees
<1>3. IsFiniteSet(new) /\ Cardinality(new) = table[row].amount
  BY RupeesOfRow
<1>4. IsFiniteSet(rupees(table, rows)) /\ total(table, rows) \in Nat
  BY TotalType
<1> HIDE DEF new
<1>5. Cardinality(rupees(table, rows) \cup new)
        = Cardinality(rupees(table, rows)) + Cardinality(new)
            - Cardinality(rupees(table, rows) \cap new)
  BY <1>3, <1>4, FS_Union
<1>6. Cardinality(rupees(table, rows) \cap new) = 0
  BY <1>2, FS_EmptySet
<1>7. total(table, rows \cup {row}) = Cardinality(rupees(table, rows) \cup new)
  BY <1>1 DEF total
<1>8. total(table, rows) = Cardinality(rupees(table, rows))
  BY DEF total
<1> QED
  BY <1>3, <1>4, <1>5, <1>6, <1>7, <1>8

-----------------------------------------------------------------------------
(* The money. *)

\* What the gateway has moved or is about to.
moved(p) ==
  {g \in GatewayRefunds : gateway[g].pay = p /\ gateway[g].st \in {"created", "PROCESSED"}}

\* A request knows its payment and amount; one of a payment online has the answer of
\* the gateway before it inserts.
RequestsTrue ==
  \A r \in Requests :
    /\ req[r].stage # "idle"
         => req[r].pay \in Payments /\ req[r].amount \in 1 .. Captured[req[r].pay]
    /\ req[r].stage = "call" => req[r].pay \in Online
    /\ req[r].stage = "insert" /\ req[r].pay \in Online => req[r].refund \in GatewayRefunds

GatewayTrue ==
  \A g \in GatewayRefunds :
    gateway[g].st # "NONE"
      => gateway[g].pay \in Online /\ gateway[g].amount \in 1 .. Captured[gateway[g].pay]

GatewayWithin == \A p \in Payments : total(gateway, moved(p)) <= Captured[p]

OfflineRows ==
  \A row \in OfflineRefunds : ledger[row].st # "NONE" => ledger[row].pay \in Payments \ Online

\* What an open transaction of a payment offline has checked still holds.
OfflineChecked ==
  \A r \in Requests :
    req[r].tx /\ req[r].pay \notin Online
      => req[r].amount + total(ledger, paidBack(req[r].pay)) <= Captured[req[r].pay]

MoneyInv == RequestsTrue /\ GatewayTrue /\ GatewayWithin /\ OfflineRows /\ OfflineChecked

RefundInv == PendingInv /\ FollowInv /\ MoneyInv

LEMMA TablesHaveAmounts ==
  ASSUME TypeOK, NEW p
  PROVE  /\ hasAmounts(gateway, moved(p)) /\ hasAmounts(ledger, paidBack(p))
         /\ total(gateway, moved(p)) \in Nat /\ total(ledger, paidBack(p)) \in Nat
<1>1. moved(p) \subseteq Rows /\ paidBack(p) \subseteq Rows
  BY DEF moved, paidBack, Rows
<1>2. IsFiniteSet(moved(p)) /\ IsFiniteSet(paidBack(p))
  BY <1>1, RefundAssumption, FS_Subset
<1>3. /\ \A g \in moved(p) : gateway[g].amount \in Nat
      /\ \A row \in paidBack(p) : ledger[row].amount \in Nat
  BY DEF TypeOK, GatewayRow, LedgerRow, moved, paidBack
<1>4. hasAmounts(gateway, moved(p)) /\ hasAmounts(ledger, paidBack(p))
  BY <1>2, <1>3 DEF hasAmounts
<1> QED
  BY <1>4, TotalType

-----------------------------------------------------------------------------
(* Steps of the requests and of the gateway. *)

LEMMA RequestsStayTrue ==
  ASSUME TypeOK, RequestsTrue, NEW r \in Requests, recordAdminPaymentRefund(r)
  PROVE  RequestsTrue'
<1>1. ASSUME NEW p \in Payments, NEW amount \in 1 .. Captured[p], RefundCheck(r, p, amount)
      PROVE  RequestsTrue'
  <2>1. /\ req'[r].stage = IF p \in Online THEN "call" ELSE "insert"
        /\ req'[r].pay = p /\ req'[r].amount = amount
        /\ \A q \in Requests \ {r} : req'[q] = req[q]
    BY <1>1 DEF RefundCheck, TypeOK
  <2> QED
    BY <2>1 DEF RequestsTrue
<1>2. ASSUME NEW g \in GatewayRefunds, GatewayAccepts(r, g) PROVE RequestsTrue'
  <2>1. /\ req[r].stage = "call" /\ req'[r].stage = "insert" /\ req'[r].refund = g
        /\ req'[r].pay = req[r].pay /\ req'[r].amount = req[r].amount
        /\ \A q \in Requests \ {r} : req'[q] = req[q]
    BY <1>2 DEF GatewayAccepts, TypeOK, RequestSlot
  <2> QED
    BY <2>1 DEF RequestsTrue
<1>3. CASE TxExpires(r)
  <2>1. /\ req'[r].stage = req[r].stage /\ req'[r].refund = req[r].refund
        /\ req'[r].pay = req[r].pay /\ req'[r].amount = req[r].amount
        /\ \A q \in Requests \ {r} : req'[q] = req[q]
    BY <1>3 DEF TxExpires, TypeOK, RequestSlot
  <2> QED
    BY <2>1 DEF RequestsTrue
<1>4. CASE RefundAbort(r) \/ \E row \in Rows : RefundCommit(r, row)
  <2>1. req'[r].stage = "idle" /\ \A q \in Requests \ {r} : req'[q] = req[q]
    BY <1>4 DEF RefundAbort, RefundCommit, TypeOK, Idle
  <2> QED
    BY <2>1 DEF RequestsTrue
<1> QED
  BY <1>1, <1>2, <1>3, <1>4 DEF recordAdminPaymentRefund

\* The gateway accepts what a request asks for, within what was captured.
LEMMA AcceptsWithin ==
  ASSUME TypeOK, RequestsTrue, GatewayTrue, GatewayWithin,
         NEW r \in Requests, NEW g \in GatewayRefunds, GatewayAccepts(r, g)
  PROVE  GatewayTrue' /\ GatewayWithin'
<1> PICK p \in Payments, amount \in Nat : p = req[r].pay /\ amount = req[r].amount
  BY DEF GatewayAccepts, RequestsTrue, TypeOK, RequestSlot
<1>1. p \in Online /\ amount \in 1 .. Captured[p]
  BY DEF GatewayAccepts, RequestsTrue
<1>2. gateway[g].st = "NONE" /\ amount + total(gateway, moved(p)) <= Captured[p]
  BY DEF GatewayAccepts, moved
<1>3. /\ gateway'[g] = [st |-> "created", pay |-> p, amount |-> amount]
      /\ \A h \in GatewayRefunds \ {g} : gateway'[h] = gateway[h]
  BY DEF GatewayAccepts, TypeOK
<1>4. GatewayTrue'
  BY <1>1, <1>3 DEF GatewayTrue
<1>5. moved(p)' = moved(p) \cup {g} /\ g \notin moved(p)
  BY <1>2, <1>3 DEF moved
<1>6. total(gateway', moved(p) \cup {g}) <= Captured[p]
  <2>1. /\ \A h \in moved(p) : gateway'[h].amount = gateway[h].amount
        /\ gateway'[g].amount = amount
    BY <1>3, <1>5 DEF moved
  <2>2. hasAmounts(gateway', moved(p))
    BY <2>1, TablesHaveAmounts DEF hasAmounts
  <2>3. total(gateway', moved(p) \cup {g}) = total(gateway', moved(p)) + amount
    <3>1. g \notin moved(p) /\ gateway'[g].amount \in Nat
      BY <1>5, <2>1
    <3>2. total(gateway', moved(p) \cup {g}) = total(gateway', moved(p)) + gateway'[g].amount
      BY <2>2, <3>1, TotalAdds
    <3> QED
      BY <2>1, <3>2
  <2>4. total(gateway', moved(p)) = total(gateway, moved(p))
    BY <2>1, TotalAgrees
  <2> QED
    BY <1>1, <1>2, <2>3, <2>4, TablesHaveAmounts
<1>7. ASSUME NEW q \in Payments, q # p PROVE total(gateway', moved(q)') <= Captured[q]
  <2>1. moved(q)' = moved(q)
    BY <1>2, <1>3, <1>7 DEF moved
  <2>2. \A h \in moved(q) : gateway'[h].amount = gateway[h].amount
    BY <1>2, <1>3 DEF moved
  <2> QED
    BY <2>1, <2>2, TotalAgrees DEF GatewayWithin
<1> QED
  BY <1>4, <1>5, <1>6, <1>7 DEF GatewayWithin

LEMMA SettlesWithin ==
  ASSUME TypeOK, GatewayTrue, GatewayWithin,
         NEW g \in GatewayRefunds, NEW outcome \in RefundOutcome, GatewaySettles(g, outcome)
  PROVE  GatewayTrue' /\ GatewayWithin'
<1>1. /\ gateway[g].st = "created" /\ gateway'[g].st = outcome
      /\ gateway'[g].pay = gateway[g].pay /\ gateway'[g].amount = gateway[g].amount
      /\ \A h \in GatewayRefunds \ {g} : gateway'[h] = gateway[h]
  BY DEF GatewaySettles, TypeOK, GatewayRow
<1>2. \A h \in GatewayRefunds : /\ gateway'[h].amount = gateway[h].amount
                                /\ gateway'[h].pay = gateway[h].pay
                                /\ gateway[h].st = "NONE" => gateway'[h].st = "NONE"
  BY <1>1
<1>3. GatewayTrue'
  BY <1>1 DEF GatewayTrue
<1>4. ASSUME NEW p \in Payments PROVE total(gateway', moved(p)') <= Captured[p]
  <2>1. moved(p)' \subseteq moved(p)
    BY <1>1 DEF moved
  <2>2. total(gateway', moved(p)') = total(gateway, moved(p)')
    BY <1>2, <2>1, TotalAgrees DEF moved
  <2>3. total(gateway, moved(p)') <= total(gateway, moved(p))
    BY <2>1, TablesHaveAmounts, TotalGrows
  <2>4. total(gateway, moved(p)') \in Nat
    <3>1. hasAmounts(gateway, moved(p)')
      BY <2>1, TablesHaveAmounts, FS_Subset DEF hasAmounts
    <3> QED
      BY <3>1, TotalType
  <2>5. total(gateway, moved(p)) <= Captured[p] /\ Captured[p] \in Nat
    BY RefundAssumption DEF GatewayWithin
  <2> QED
    BY <2>2, <2>3, <2>4, <2>5, TablesHaveAmounts
<1> QED
  BY <1>3, <1>4 DEF GatewayWithin

-----------------------------------------------------------------------------
(* Steps of the ledger. *)

\* A settlement writes at most one row, of a refund of the gateway.
LEMMA SettleWritesOne ==
  ASSUME FollowInv, NEW s \in Deliveries \cup Jobs, settleRefund(s)
  PROVE  /\ UNCHANGED <<gateway, req>>
         /\ \E g \in GatewayRefunds : \A row \in Rows \ {g} : ledger'[row] = ledger[row]
<1>1. settle[s].stage # "idle" /\ UNCHANGED <<gateway, req>>
  BY DEF settleRefund, SettleFind, SettleUpdate, SettleRecover, SettleFails
<1>2. settle[s].refund \in GatewayRefunds
  BY <1>1 DEF FollowInv, CallsFollow
<1>3. \A row \in Rows \ {settle[s].refund} : ledger'[row] = ledger[row]
  BY <1>2 DEF settleRefund, SettleFind, SettleUpdate, SettleRecover, SettleFails, FollowInv,
     TypeOK
<1> QED
  BY <1>1, <1>2, <1>3

\* A row with a gateway id is of a payment online.
LEMMA GatewayRowsOnline ==
  ASSUME LedgerFollowsGateway, GatewayTrue, NEW g \in GatewayRefunds, ledger[g].st # "NONE"
  PROVE  ledger[g].pay \in Online
BY DEF LedgerFollowsGateway, GatewayTrue

LEMMA SettleStaysOffline ==
  ASSUME RefundInv, FollowInv', GatewayTrue', NEW s \in Deliveries \cup Jobs, settleRefund(s)
  PROVE  OfflineRows' /\ OfflineChecked'
<1>1. PICK g \in GatewayRefunds : \A row \in Rows \ {g} : ledger'[row] = ledger[row]
  BY SettleWritesOne DEF RefundInv
<1>2. UNCHANGED req
  BY SettleWritesOne DEF RefundInv
<1>3. OfflineRows'
  BY <1>1, RefundAssumption DEF RefundInv, MoneyInv, OfflineRows, Rows
<1>4. ASSUME NEW p, p \notin Online
      PROVE  total(ledger', paidBack(p)') = total(ledger, paidBack(p))
  <2>1. /\ ledger[g].st # "NONE" => ledger[g].pay \in Online
        /\ ledger'[g].st # "NONE" => ledger'[g].pay \in Online
    BY GatewayRowsOnline DEF RefundInv, FollowInv, MoneyInv, LedgerFollowsGateway, GatewayTrue
  <2>2. g \notin paidBack(p) /\ g \notin paidBack(p)'
    BY <1>4, <2>1 DEF paidBack
  <2>3. paidBack(p)' = paidBack(p)
    BY <1>1, <2>2 DEF paidBack
  <2>4. \A row \in paidBack(p) : ledger'[row].amount = ledger[row].amount
    BY <1>1, <2>2 DEF paidBack
  <2> QED
    BY <2>3, <2>4, TotalAgrees
<1>5. OfflineChecked'
  <2> SUFFICES ASSUME NEW r \in Requests, req'[r].tx, req'[r].pay \notin Online
               PROVE  req'[r].amount + total(ledger', paidBack(req[r].pay)')
                        <= Captured[req'[r].pay]
    BY <1>2 DEF OfflineChecked
  <2>1. req[r].amount + total(ledger, paidBack(req[r].pay)) <= Captured[req[r].pay]
    BY <1>2 DEF RefundInv, MoneyInv, OfflineChecked
  <2> QED
    BY <1>2, <1>4, <2>1
<1> QED
  BY <1>3, <1>5

LEMMA RequestStaysOffline ==
  ASSUME RefundInv, TypeOK', NEW r \in Requests, recordAdminPaymentRefund(r)
  PROVE  OfflineRows' /\ OfflineChecked'
<1>1. /\ TypeOK /\ LockedPaymentsQuiet /\ RequestsTrue /\ OfflineRows /\ OfflineChecked
  BY DEF RefundInv, PendingInv, MoneyInv
<1>2. ASSUME NEW p \in Payments, NEW amount \in 1 .. Captured[p], RefundCheck(r, p, amount)
      PROVE  OfflineRows' /\ OfflineChecked'
  <2>1. /\ req'[r].pay = p /\ req'[r].amount = amount
        /\ \A q \in Requests \ {r} : req'[q] = req[q]
        /\ UNCHANGED ledger
    BY <1>1, <1>2 DEF RefundCheck, TypeOK
  <2>2. {row \in Rows : ledger[row].pay = p /\ ledger[row].st \in {"PENDING", "PROCESSED"}}
          = paidBack(p)
    BY <1>2 DEF RefundCheck, noRefundInFlight, paidBack
  <2>3. amount + total(ledger, paidBack(p)) <= Captured[p]
    BY <1>2, <2>2 DEF RefundCheck, sumRefunds
  <2>4. \A q : paidBack(q)' = paidBack(q)
    BY <2>1 DEF paidBack
  <2>5. OfflineChecked'
    <3> SUFFICES ASSUME NEW q \in Requests, req'[q].tx, req'[q].pay \notin Online
                 PROVE  req'[q].amount + total(ledger, paidBack(req'[q].pay))
                          <= Captured[req'[q].pay]
      BY <2>1 DEF OfflineChecked, paidBack
    <3>1. CASE q = r
      BY <2>1, <2>3, <3>1
    <3>2. CASE q # r
      BY <1>1, <2>1, <3>2 DEF OfflineChecked
    <3> QED
      BY <3>1, <3>2
  <2> QED
    BY <1>1, <2>1, <2>5 DEF OfflineRows
<1>3. ASSUME NEW new \in Rows, RefundCommit(r, new) PROVE OfflineRows' /\ OfflineChecked'
  <2>1. PICK p \in Payments : p = req[r].pay
    BY <1>1, <1>3 DEF RefundCommit, RequestsTrue
  <2>2. /\ req[r].tx /\ ~req'[r].tx /\ ledger[new].st = "NONE"
        /\ ledger'[new].pay = p
        /\ \A row \in Rows \ {new} : ledger'[row] = ledger[row]
        /\ \A q \in Requests \ {r} : req'[q] = req[q]
    BY <1>1, <1>3, <2>1 DEF RefundCommit, TypeOK, Idle
  <2>3. OfflineRows'
    <3>1. new \in OfflineRefunds => p \notin Online
      BY <1>1, <1>3, <2>1, RefundAssumption DEF RefundCommit, RequestsTrue
    <3> QED
      BY <1>1, <2>2, <3>1 DEF OfflineRows, Rows
  <2>4. OfflineChecked'
    <3> SUFFICES ASSUME NEW q \in Requests, req'[q].tx, req'[q].pay \notin Online
                 PROVE  req'[q].amount + total(ledger', paidBack(req[q].pay)')
                          <= Captured[req'[q].pay]
      <4>1. \A q \in Requests : req'[q].tx => req'[q] = req[q]
        BY <2>2
      <4> QED
        BY <4>1 DEF OfflineChecked, paidBack
    <3>1. q # r /\ req'[q] = req[q] /\ req[q].pay # p
      BY <1>1, <2>1, <2>2 DEF LockedPaymentsQuiet
    <3>2. paidBack(req[q].pay)'
            = {row \in Rows : ledger'[row].pay = req[q].pay /\ ledger'[row].st = "PROCESSED"}
      BY <3>1 DEF paidBack
    <3>3. {row \in Rows : ledger'[row].pay = req[q].pay /\ ledger'[row].st = "PROCESSED"}
            = paidBack(req[q].pay)
      BY <2>2, <3>1 DEF paidBack
    <3>4. \A row \in paidBack(req[q].pay) : ledger'[row].amount = ledger[row].amount
      BY <2>2 DEF paidBack
    <3>5. total(ledger', paidBack(req[q].pay)) = total(ledger, paidBack(req[q].pay))
      BY <3>4, TotalAgrees
    <3> QED
      BY <1>1, <3>1, <3>2, <3>3, <3>5 DEF OfflineChecked
  <2> QED
    BY <2>3, <2>4
<1>4. CASE \/ TxExpires(r) \/ RefundAbort(r)
           \/ \E g \in GatewayRefunds : GatewayAccepts(r, g)
  <2>1. /\ UNCHANGED ledger
        /\ \A q \in Requests \ {r} : req'[q] = req[q]
        /\ req'[r].tx => /\ req[r].tx /\ req'[r].pay = req[r].pay
                         /\ req'[r].amount = req[r].amount
    <3>1. req[r] \in RequestSlot /\ req \in [Requests -> RequestSlot]
      BY <1>1 DEF TypeOK
    <3>2. CASE TxExpires(r)
      BY <3>1, <3>2 DEF TxExpires, RequestSlot
    <3>3. CASE RefundAbort(r)
      BY <3>1, <3>3 DEF RefundAbort, Idle
    <3>4. ASSUME NEW g \in GatewayRefunds, GatewayAccepts(r, g)
          PROVE  /\ UNCHANGED ledger
                 /\ \A q \in Requests \ {r} : req'[q] = req[q]
                 /\ /\ req'[r].tx = req[r].tx /\ req'[r].pay = req[r].pay
                    /\ req'[r].amount = req[r].amount
      <4>1. req' = [req EXCEPT ![r] = [req[r] EXCEPT !.stage = "insert", !.refund = g]]
        BY <3>4 DEF GatewayAccepts
      <4> QED
        BY <3>1, <3>4, <4>1 DEF GatewayAccepts, RequestSlot
    <3> QED
      BY <1>4, <3>2, <3>3, <3>4
  <2>2. OfflineRows'
    BY <1>1, <2>1 DEF OfflineRows
  <2>3. OfflineChecked'
    <3> SUFFICES ASSUME NEW q \in Requests, req'[q].tx, req'[q].pay \notin Online
                 PROVE  req'[q].amount + total(ledger, paidBack(req'[q].pay))
                          <= Captured[req'[q].pay]
      BY <2>1 DEF OfflineChecked, paidBack
    <3> QED
      BY <1>1, <2>1 DEF OfflineChecked
  <2> QED
    BY <2>2, <2>3
<1> QED
  BY <1>2, <1>3, <1>4 DEF recordAdminPaymentRefund

LEMMA MoneyStep ==
  ASSUME RefundInv, FollowInv', [Next]_vars
  PROVE  MoneyInv'
<1>1. /\ TypeOK /\ TypeOK' /\ RequestsTrue /\ GatewayTrue /\ GatewayWithin
      /\ OfflineRows /\ OfflineChecked
  BY DEF RefundInv, PendingInv, MoneyInv, FollowInv
<1>2. ASSUME UNCHANGED gateway PROVE GatewayTrue' /\ GatewayWithin'
  <2>1. \A p : moved(p)' = moved(p)
    BY <1>2 DEF moved
  <2> QED
    BY <1>1, <1>2, <2>1 DEF GatewayTrue, GatewayWithin, moved
<1>3. ASSUME NEW r \in Requests, recordAdminPaymentRefund(r) PROVE MoneyInv'
  <2>1. GatewayTrue' /\ GatewayWithin'
    <3>1. ASSUME NEW g \in GatewayRefunds, GatewayAccepts(r, g)
          PROVE  GatewayTrue' /\ GatewayWithin'
      BY <1>1, <3>1, AcceptsWithin
    <3>2. CASE ~\E g \in GatewayRefunds : GatewayAccepts(r, g)
      BY <1>2, <1>3, <3>2 DEF recordAdminPaymentRefund, RefundCheck, RefundCommit, TxExpires,
         RefundAbort
    <3> QED
      BY <3>1, <3>2
  <2> QED
    BY <1>1, <1>3, <2>1, RequestsStayTrue, RequestStaysOffline DEF MoneyInv
<1>4. ASSUME NEW s \in Deliveries \cup Jobs, settleRefund(s) PROVE MoneyInv'
  <2>1. UNCHANGED <<gateway, req>>
    BY <1>4, SettleWritesOne DEF RefundInv
  <2>2. RequestsTrue' /\ GatewayTrue' /\ GatewayWithin'
    BY <1>1, <1>2, <2>1 DEF RequestsTrue
  <2> QED
    BY <1>4, <2>2, SettleStaysOffline DEF MoneyInv
<1>5. CASE UNCHANGED <<ledger, req>>
  <2>1. GatewayTrue' /\ GatewayWithin'
    <3>1. ASSUME NEW g \in GatewayRefunds, NEW outcome \in RefundOutcome,
                 GatewaySettles(g, outcome)
          PROVE  GatewayTrue' /\ GatewayWithin'
      BY <1>1, <3>1, SettlesWithin
    <3>2. ASSUME NEW r \in Requests, recordAdminPaymentRefund(r)
          PROVE  GatewayTrue' /\ GatewayWithin'
      BY <1>3, <3>2 DEF MoneyInv
    <3>3. ASSUME NEW s \in Deliveries \cup Jobs, settleRefund(s)
          PROVE  GatewayTrue' /\ GatewayWithin'
      BY <1>4, <3>3 DEF MoneyInv
    <3>4. ASSUME NEW j \in Jobs, runReconciliation(j)
          PROVE  UNCHANGED gateway
      BY <3>4 DEF runReconciliation, ReconcileStart, ReconcileEnd, ReconcileCrash,
         ReconcileFetch, ReconcileSkip
    <3>5. ASSUME NEW d \in Deliveries, NEW g \in GatewayRefunds, WebhookReceive(d, g)
          PROVE  UNCHANGED gateway
      BY <3>5 DEF WebhookReceive
    <3>6. CASE LockExpires \/ UNCHANGED vars \/ \E g \in GatewayRefunds : RowAges(g)
      BY <1>2, <3>6 DEF LockExpires, RowAges, vars
    <3> QED
      BY <1>2, <3>1, <3>2, <3>3, <3>4, <3>5, <3>6 DEF Next
  <2>2. \A p : paidBack(p)' = paidBack(p)
    BY <1>5 DEF paidBack
  <2>3. OfflineChecked'
    BY <1>1, <1>5, <2>2 DEF OfflineChecked, paidBack
  <2> QED
    BY <1>1, <1>5, <2>1, <2>3 DEF MoneyInv, RequestsTrue, OfflineRows
<1> QED
  BY <1>3, <1>4, <1>5, OtherSteps

LEMMA RefundInvHolds == Spec => []RefundInv
<1>1. Init => MoneyInv
  <2> SUFFICES ASSUME Init PROVE MoneyInv
    OBVIOUS
  <2>1. RequestsTrue /\ GatewayTrue /\ OfflineRows /\ OfflineChecked
    BY DEF Init, RequestsTrue, GatewayTrue, OfflineRows, OfflineChecked, Idle, NoRefund, Rows
  <2>2. ASSUME NEW p \in Payments PROVE total(gateway, moved(p)) <= Captured[p]
    <3>1. moved(p) = {}
      BY DEF Init, NoRefund, moved
    <3> QED
      BY <3>1, TotalOfNone, RefundAssumption
  <2> QED
    BY <2>1, <2>2 DEF MoneyInv, GatewayWithin
<1>2. PendingInv /\ FollowInv /\ MoneyInv /\ FollowInv' /\ [Next]_vars => MoneyInv'
  BY MoneyStep DEF RefundInv
<1>3. PendingInv /\ FollowInv /\ MoneyInv => RefundInv
  BY DEF RefundInv
<1> QED
  BY <1>1, <1>2, <1>3, PendingHolds, FollowHolds, PTL DEF Spec

-----------------------------------------------------------------------------
(* The refinement. *)

\* A row that comes to be paid back adds its amount to what was returned of its
\* payment.
LEMMA RowPaidBack ==
  ASSUME TypeOK, TypeOK', NEW new \in Rows,
         \A row \in Rows \ {new} : ledger'[row] = ledger[row],
         ledger[new].st # "PROCESSED", ledger'[new].st = "PROCESSED",
         NEW p \in Payments, ledger'[new].pay = p
  PROVE  /\ paidBack(p)' = paidBack(p) \cup {new}
         /\ total(ledger', paidBack(p)') = total(ledger, paidBack(p)) + ledger'[new].amount
         /\ amountReturned' = [amountReturned EXCEPT ![p] = @ + ledger'[new].amount]
<1>1. paidBack(p)' = paidBack(p) \cup {new} /\ new \notin paidBack(p)
  BY DEF paidBack
<1>2. \A row \in paidBack(p) : ledger'[row].amount = ledger[row].amount
  BY <1>1 DEF paidBack
<1>3. total(ledger', paidBack(p)) = total(ledger, paidBack(p))
  BY <1>2, TotalAgrees
<1>4. hasAmounts(ledger', paidBack(p)) /\ ledger'[new].amount \in Nat
  <2>1. hasAmounts(ledger, paidBack(p))
    BY TablesHaveAmounts
  <2>2. hasAmounts(ledger', paidBack(p))
    BY <1>2, <2>1 DEF hasAmounts
  <2>3. ledger'[new] \in LedgerRow
    BY DEF TypeOK
  <2> QED
    BY <2>2, <2>3 DEF LedgerRow
<1>5. total(ledger', paidBack(p) \cup {new})
        = total(ledger', paidBack(p)) + ledger'[new].amount
  <2>1. new \notin paidBack(p) /\ hasAmounts(ledger', paidBack(p)) /\ ledger'[new].amount \in Nat
    BY <1>1, <1>4
  <2> QED
    BY <2>1, TotalAdds, Zenon
<1>6. ASSUME NEW q \in Payments \ {p}
      PROVE  total(ledger', paidBack(q)') = total(ledger, paidBack(q))
  <2>1. paidBack(q)' = paidBack(q)
    BY <1>6 DEF paidBack
  <2>2. \A row \in paidBack(q) : ledger'[row].amount = ledger[row].amount
    BY DEF paidBack
  <2> QED
    BY <2>1, <2>2, TotalAgrees
<1>7. total(ledger', paidBack(p)') = total(ledger, paidBack(p)) + ledger'[new].amount
  BY <1>1, <1>3, <1>5
<1> QED
  BY <1>1, <1>6, <1>7 DEF amountReturned

LEMMA NothingPaidBack ==
  ASSUME \A row \in Rows :
           \/ ledger'[row] = ledger[row]
           \/ ledger[row].st # "PROCESSED" /\ ledger'[row].st # "PROCESSED"
  PROVE  amountReturned' = amountReturned
<1>1. ASSUME NEW p \in Payments
      PROVE  total(ledger', paidBack(p)') = total(ledger, paidBack(p))
  <2>1. paidBack(p)' = paidBack(p)
    BY DEF paidBack
  <2>2. \A row \in paidBack(p) : ledger'[row].amount = ledger[row].amount
    BY DEF paidBack
  <2> QED
    BY <2>1, <2>2, TotalAgrees
<1> QED
  BY <1>1 DEF amountReturned

\* An offline refund is paid back when it is recorded, within what its transaction
\* checked; the row of an online one is pending.
LEMMA RequestPaysBack ==
  ASSUME RefundInv, RefundInv', NEW r \in Requests, recordAdminPaymentRefund(r)
  PROVE  [Account!Next]_amountReturned
<1>1. TypeOK /\ TypeOK' /\ RequestsTrue /\ OfflineChecked
  BY DEF RefundInv, PendingInv, MoneyInv
<1>2. CASE UNCHANGED ledger
  BY <1>2, NothingPaidBack
<1>3. ASSUME NEW new \in Rows, RefundCommit(r, new) PROVE [Account!Next]_amountReturned
  <2>1. PICK p \in Payments, amount \in Nat :
          /\ p = req[r].pay /\ amount = req[r].amount
          /\ amount \in 1 .. Captured[p]
    BY <1>1, <1>3 DEF RefundCommit, RequestsTrue, TypeOK, RequestSlot
  <2>2. /\ req[r].tx /\ ledger[new].st = "NONE"
        /\ ledger'[new].st = IF p \in Online THEN "PENDING" ELSE "PROCESSED"
        /\ ledger'[new].pay = p /\ ledger'[new].amount = amount
        /\ \A row \in Rows \ {new} : ledger'[row] = ledger[row]
    BY <1>1, <1>3, <2>1 DEF RefundCommit, TypeOK
  <2>3. CASE p \in Online
    <3>1. ledger[new].st # "PROCESSED" /\ ledger'[new].st # "PROCESSED"
      BY <2>2, <2>3
    <3> QED
      BY <2>2, <3>1, NothingPaidBack
  <2>4. CASE p \notin Online
    <3>1. amountReturned' = [amountReturned EXCEPT ![p] = @ + amount]
      BY <1>1, <2>2, <2>4, RowPaidBack
    <3>2. amount + total(ledger, paidBack(p)) <= Captured[p]
      BY <1>1, <2>1, <2>2, <2>4 DEF OfflineChecked
    <3>3. amountReturned[p] + amount <= Captured[p]
      <4>1. amountReturned[p] = total(ledger, paidBack(p))
        BY DEF amountReturned
      <4> QED
        BY <1>1, <3>2, <4>1, TablesHaveAmounts
    <3> QED
      BY <2>1, <3>1, <3>3 DEF Account!Next, Account!PayBack
  <2> QED
    BY <2>3, <2>4
<1> QED
  BY <1>2, <1>3 DEF recordAdminPaymentRefund, RefundCheck, GatewayAccepts, TxExpires, RefundAbort

\* What the ledger paid back online the gateway has moved.
OnlineWithin == \A p \in Online : total(ledger, paidBack(p)) <= Captured[p]

LEMMA PaidBackMoved == RefundInv => OnlineWithin
<1> SUFFICES ASSUME RefundInv, NEW p \in Online
             PROVE  total(ledger, paidBack(p)) <= Captured[p]
  BY DEF OnlineWithin
<1>1. /\ TypeOK /\ LedgerFollowsGateway /\ GatewayWithin /\ OfflineRows
  BY DEF RefundInv, PendingInv, FollowInv, MoneyInv
<1>2. \A row \in paidBack(p) : /\ row \in moved(p)
                               /\ gateway[row].amount = ledger[row].amount
  <2>1. \A row \in paidBack(p) : row \in GatewayRefunds
    BY <1>1 DEF paidBack, OfflineRows, Rows
  <2> QED
    BY <1>1, <2>1 DEF paidBack, moved, LedgerFollowsGateway, RefundOutcome
<1>3. total(gateway, paidBack(p)) = total(ledger, paidBack(p))
  BY <1>2, TotalAgrees
<1>4. paidBack(p) \in SUBSET moved(p) /\ hasAmounts(gateway, moved(p))
  BY <1>1, <1>2, TablesHaveAmounts
<1>5. total(gateway, paidBack(p)) <= total(gateway, moved(p))
  BY <1>4, TotalGrows
<1>6. p \in Payments /\ Captured[p] \in Nat /\ total(gateway, moved(p)) <= Captured[p]
  BY <1>1, RefundAssumption DEF GatewayWithin
<1> QED
  BY <1>1, <1>3, <1>5, <1>6, TablesHaveAmounts

LEMMA SettlePaysBack ==
  ASSUME RefundInv, RefundInv', OnlineWithin', NEW s \in Deliveries \cup Jobs, settleRefund(s)
  PROVE  [Account!Next]_amountReturned
<1>1. /\ TypeOK /\ TypeOK' /\ FollowInv /\ FollowInv' /\ GatewayTrue
  BY DEF RefundInv, PendingInv, MoneyInv
<1>2. PICK g \in GatewayRefunds : \A row \in Rows \ {g} : ledger'[row] = ledger[row]
  BY <1>1, SettleWritesOne
<1>3. UNCHANGED <<gateway, req>>
  BY <1>1, SettleWritesOne
<1>4. CASE ledger'[g].st = "PROCESSED" /\ ledger[g].st # "PROCESSED"
  <2>1. PICK p \in Online, amount \in Nat :
          /\ p = ledger'[g].pay /\ amount = ledger'[g].amount
          /\ amount \in 1 .. Captured[p]
    <3>1. /\ gateway[g].st # "NONE" /\ ledger'[g].pay = gateway[g].pay
          /\ ledger'[g].amount = gateway[g].amount
      BY <1>1, <1>3, <1>4 DEF FollowInv, LedgerFollowsGateway
    <3>2. ledger'[g].amount \in Nat
      BY <1>1 DEF TypeOK, LedgerRow, Rows
    <3> QED
      BY <1>1, <3>1, <3>2 DEF GatewayTrue
  <2>2. p \in Payments /\ g \in Rows
    BY RefundAssumption DEF Rows
  <2>3. /\ total(ledger', paidBack(p)') = total(ledger, paidBack(p)) + amount
        /\ amountReturned' = [amountReturned EXCEPT ![p] = @ + amount]
    BY <1>1, <1>2, <1>4, <2>1, <2>2, RowPaidBack
  <2>4. total(ledger', paidBack(p)') <= Captured[p]
    BY DEF OnlineWithin
  <2>5. amountReturned[p] + amount <= Captured[p]
    BY <2>2, <2>3, <2>4 DEF amountReturned
  <2> QED
    BY <2>1, <2>2, <2>3, <2>5 DEF Account!Next, Account!PayBack
<1>5. CASE ~(ledger'[g].st = "PROCESSED" /\ ledger[g].st # "PROCESSED")
  <2>1. ledger[g].st = "PROCESSED" => ledger'[g] = ledger[g]
    BY <1>1, SettleFollows DEF Rows, RefundOutcome
  <2> QED
    BY <1>2, <1>5, <2>1, NothingPaidBack
<1> QED
  BY <1>4, <1>5

\* Of every payment what was paid back grows by whole refunds and never exceeds what
\* was captured, although webhook and reconciliation write rows no transaction has
\* checked (recordAdminPaymentRefund, settleRefund).
THEOREM RefundAccountKept == Spec => KeepsRefundAccount
<1>1. Init => Account!Init
  <2> SUFFICES ASSUME Init, NEW p \in Payments PROVE total(ledger, paidBack(p)) = 0
    BY DEF Account!Init, amountReturned
  <2>1. paidBack(p) = {}
    BY DEF Init, NoRefund, paidBack
  <2> QED
    BY <2>1, TotalOfNone
<1>2. RefundInv /\ RefundInv' /\ OnlineWithin' /\ [Next]_vars => [Account!Next]_amountReturned
  <2> SUFFICES ASSUME RefundInv, RefundInv', OnlineWithin', [Next]_vars
               PROVE  [Account!Next]_amountReturned
    OBVIOUS
  <2>1. CASE UNCHANGED <<ledger, req>>
    BY <2>1, NothingPaidBack
  <2> QED
    BY <2>1, RequestPaysBack, SettlePaysBack, OtherSteps
<1> QED
  BY <1>1, <1>2, PaidBackMoved, RefundInvHolds, PTL DEF Spec, KeepsRefundAccount, Account!Spec

\* What the ledger says was paid back is never more than the payment captured.
THEOREM NeverMoreThanCaptured == Spec => []Account!Within
<1>1. Account!Init => Account!Within
  BY RefundAssumption DEF Account!Init, Account!Within
<1>2. Account!Within /\ [Account!Next]_amountReturned => Account!Within'
  <2> SUFFICES ASSUME Account!Within, [Account!Next]_amountReturned PROVE Account!Within'
    OBVIOUS
  <2>1. CASE UNCHANGED amountReturned
    BY <2>1 DEF Account!Within
  <2>2. ASSUME NEW p \in Payments, NEW amount \in 1 .. Captured[p], Account!PayBack(p, amount)
        PROVE  Account!Within'
    <3>1. /\ amountReturned'[p] = amountReturned[p] + amount
          /\ amountReturned[p] + amount <= Captured[p]
          /\ \A q \in Payments \ {p} : amountReturned'[q] = amountReturned[q]
      BY <2>2 DEF Account!PayBack, amountReturned
    <3>2. amountReturned[p] \in Nat /\ Captured[p] \in Nat /\ amount \in Nat
      BY RefundAssumption DEF Account!Within
    <3>3. amountReturned'[p] \in 0 .. Captured[p]
      BY <3>1, <3>2
    <3> QED
      BY <3>1, <3>3 DEF Account!Within
  <2> QED
    BY <2>1, <2>2 DEF Account!Next
<1> QED
  BY <1>1, <1>2, RefundAccountKept, PTL DEF KeepsRefundAccount, Account!Spec

=============================================================================
