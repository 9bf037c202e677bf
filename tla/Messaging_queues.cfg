\* Two processes, one of which may break once, an e-mail and the invoices of two
\* bookings.
SPECIFICATION FairSpec
CONSTANTS
  Processes = {p1, p2}
  Mails = {m1}
  Tasks = {t1, t2}
  Bookings = {b1, b2}
  t1 = t1
  t2 = t2
  b1 = b1
  b2 = b2
  BookingOf <- BookingEach
  MaxBreaks = 1
  None = None
INVARIANTS TypeOK AckedIsDone GivenUpAfterThree InvoiceIsLinked
PROPERTIES RenumberedOnlyByOverlap MessagesSettle
CHECK_DEADLOCK FALSE
