\* Two reconciliations and a webhook that settle one refund, whose row may grow older
\* than seven days.
SPECIFICATION ReconciledSpec
CONSTANTS
  Payments = {p1}
  Captured <- MCCaptured
  Online = {p1}
  GatewayRefunds = {g1}
  OfflineRefunds = {}
  Requests = {r1}
  Deliveries = {d1}
  Jobs = {j1, j2}
  None = None
PROPERTY PendingIsSettled
