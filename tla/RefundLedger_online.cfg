\* A payment with gateway refunds and one with offline refunds, two admin requests,
\* one webhook delivery and one reconciliation.
SPECIFICATION Spec
CONSTANTS
  Payments = {p1, p2}
  Captured <- MCCaptured
  Online = {p1}
  GatewayRefunds = {g1, g2}
  OfflineRefunds = {o1, o2}
  Requests = {r1, r2}
  Deliveries = {d1}
  Jobs = {j1}
  None = None
SYMMETRY MCSymmetry
INVARIANTS TypeOK OnePendingPerPayment LedgerFollowsGateway
PROPERTIES SettledIsFinal KeepsRefundAccount
