--------------------------- MODULE MessagingProofs ---------------------------
(***************************************************************************)
(* Theorems about Messaging, for any number of processes, messages, bookings *)
(* and broken connections.                                                  *)
(***************************************************************************)
EXTENDS Messaging, TLAPS

-----------------------------------------------------------------------------
(* The e-mail queue.  What makes it work is that a message is held by one open *)
(* channel at most: a process whose connection closed may still be at work on   *)
(* a message that another one holds by now, and cannot acknowledge it.          *)

MailType ==
  /\ channel \in [Processes -> {"open", "closed"}]
  /\ mail \in [Mails -> MailRow]
  /\ mailer \in [Processes -> MailerSlot]
  /\ sent \in SUBSET Mails
  /\ dlq \in SUBSET Mails

MailHeld ==
  \A p \in Processes :
    /\ mailer[p].stage = "idle" => mailer[p].msg = None
    /\ mailer[p].stage # "idle" => mailer[p].msg \in Mails
    /\ open(p) /\ mailer[p].stage # "idle"
         => /\ mail[mailer[p].msg].at = "held"
            /\ \A q \in Processes : open(q) /\ mailer[q].msg = mailer[p].msg => q = p

MailAttempts ==
  \A p \in Processes :
    /\ open(p) /\ mailer[p].stage = "send" => mail[mailer[p].msg].deaths < MaxAttempts
    /\ open(p) /\ mailer[p].stage = "giveUp" => mail[mailer[p].msg].deaths = MaxAttempts
    /\ mailer[p].stage = "ack" => mailer[p].msg \in sent \cup dlq

MailDone == \A m \in Mails : mail[m].at = "acked" => m \in sent \cup dlq

MailInv == MailType /\ MailHeld /\ MailAttempts /\ MailDone /\ GivenUpAfterThree

LEMMA MailRestart ==
  ASSUME MailInv, NEW p \in Processes, Restart(p)
  PROVE  MailInv'
<1>1. MailType /\ MailHeld /\ MailAttempts /\ MailDone /\ GivenUpAfterThree
  BY DEF MailInv
<1>2. /\ mailer'[p] = NoMail
      /\ \A q \in Processes \ {p} : mailer'[q] = mailer[q] /\ channel'[q] = channel[q]
      /\ UNCHANGED <<sent, dlq>>
  BY <1>1 DEF Restart, MailType
<1>3. \A m \in Mails :
        /\ mail'[m].deaths = mail[m].deaths
        /\ \/ mail'[m] = mail[m]
           \/ mail'[m].at = "ready" /\ open(p) /\ mailer[p].msg = m
  BY <1>1 DEF Restart, mailReturned, MailType, MailRow
<1>4. MailType'
  <2>1. mail' \in [Mails -> MailRow]
    BY <1>1 DEF Restart, mailReturned, MailType, MailRow, Place
  <2>2. NoMail \in MailerSlot
    BY DEF NoMail, MailerSlot
  <2> QED
    BY <1>1, <2>1, <2>2 DEF Restart, MailType
<1>5. MailHeld'
  <2> SUFFICES ASSUME NEW q \in Processes
               PROVE  /\ mailer'[q].stage = "idle" => mailer'[q].msg = None
                      /\ mailer'[q].stage # "idle" => mailer'[q].msg \in Mails
                      /\ channel'[q] = "open" /\ mailer'[q].stage # "idle"
                           => /\ mail'[mailer'[q].msg].at = "held"
                              /\ \A o \in Processes :
                                   channel'[o] = "open" /\ mailer'[o].msg = mailer'[q].msg
                                     => o = q
    BY DEF MailHeld, open
  <2>1. CASE q = p
    BY <1>2, <2>1 DEF NoMail
  <2>2. CASE q # p
    BY <1>1, <1>2, <1>3, <2>2, MessagingAssumption DEF MailHeld, open, NoMail
  <2> QED
    BY <2>1, <2>2
<1>6. MailAttempts'
  BY <1>1, <1>2, <1>3 DEF MailAttempts, MailHeld, open, NoMail
<1>7. MailDone' /\ GivenUpAfterThree'
  BY <1>1, <1>2, <1>3 DEF MailDone, GivenUpAfterThree, MailType
<1> QED
  BY <1>4, <1>5, <1>6, <1>7 DEF MailInv

LEMMA MailClose ==
  ASSUME MailInv, NEW p \in Processes, ConnectionCloses(p)
  PROVE  MailInv'
<1>1. MailType /\ MailHeld /\ MailAttempts /\ MailDone /\ GivenUpAfterThree
  BY DEF MailInv
<1>2. /\ channel'[p] = "closed"
      /\ \A q \in Processes \ {p} : channel'[q] = channel[q]
      /\ UNCHANGED <<mailer, sent, dlq>>
  BY <1>1 DEF ConnectionCloses, MailType
<1>3. \A m \in Mails :
        /\ mail'[m].deaths = mail[m].deaths
        /\ \/ mail'[m] = mail[m]
           \/ mail'[m].at = "ready" /\ open(p) /\ mailer[p].msg = m
  BY <1>1 DEF ConnectionCloses, mailReturned, MailType, MailRow
<1>4. MailType'
  <2>1. mail' \in [Mails -> MailRow]
    BY <1>1 DEF ConnectionCloses, mailReturned, MailType, MailRow, Place
  <2> QED
    BY <1>1, <2>1 DEF ConnectionCloses, MailType
<1>5. MailHeld'
  BY <1>1, <1>2, <1>3, MessagingAssumption DEF MailHeld, open
<1>6. MailAttempts'
  BY <1>1, <1>2, <1>3 DEF MailAttempts, MailHeld, open
<1>7. MailDone' /\ GivenUpAfterThree'
  BY <1>1, <1>2, <1>3 DEF MailDone, GivenUpAfterThree, MailType
<1> QED
  BY <1>4, <1>5, <1>6, <1>7 DEF MailInv

\* A consumer that leaves its message, or goes on with it, in the state given.
LEMMA MailMoves ==
  ASSUME MailInv, NEW p \in Processes, emailConsumer(p)
  PROVE  MailInv'
<1>1. MailType /\ MailHeld /\ MailAttempts /\ MailDone /\ GivenUpAfterThree
  BY DEF MailInv
<1>2. ASSUME NEW m \in Mails, MailDeliver(p, m) PROVE MailInv'
  <2>1. /\ mail'[m].at = "held" /\ mail'[m].deaths = mail[m].deaths
        /\ \A n \in Mails \ {m} : mail'[n] = mail[n]
        /\ mailer'[p].msg = m
        /\ mailer'[p].stage = IF mail[m].deaths >= MaxAttempts THEN "giveUp" ELSE "send"
        /\ \A q \in Processes \ {p} : mailer'[q] = mailer[q]
        /\ UNCHANGED <<channel, sent, dlq>>
    BY <1>1, <1>2 DEF MailDeliver, MailType, MailRow
  <2>2. \A q \in Processes : open(q) => mailer[q].msg # m
    BY <1>1, <1>2, MessagingAssumption DEF MailDeliver, MailHeld
  <2>3. MailType'
    <3>1. [mail[m] EXCEPT !.at = "held"] \in MailRow
      BY <1>1 DEF MailType, MailRow, Place
    <3>2. [stage |-> IF mail[m].deaths >= MaxAttempts THEN "giveUp" ELSE "send", msg |-> m]
            \in MailerSlot
      BY DEF MailerSlot
    <3> QED
      BY <1>1, <1>2, <3>1, <3>2 DEF MailDeliver, MailType
  <2>4. MailHeld'
    BY <1>1, <2>1, <2>2, MessagingAssumption DEF MailHeld, open
  <2>5. mail[m].deaths \in 0 .. MaxAttempts
    BY <1>1 DEF MailType, MailRow
  <2>6. MailAttempts'
    <3> SUFFICES ASSUME NEW q \in Processes
                 PROVE  /\ channel[q] = "open" /\ mailer'[q].stage = "send"
                             => mail'[mailer'[q].msg].deaths < MaxAttempts
                        /\ channel[q] = "open" /\ mailer'[q].stage = "giveUp"
                             => mail'[mailer'[q].msg].deaths = MaxAttempts
                        /\ mailer'[q].stage = "ack" => mailer'[q].msg \in sent \cup dlq
      BY <2>1 DEF MailAttempts, open
    <3>1. CASE q = p
      BY <2>1, <2>5, <3>1 DEF MaxAttempts
    <3>2. CASE q # p
      BY <1>1, <2>1, <3>2 DEF MailAttempts, MailHeld, open
    <3> QED
      BY <3>1, <3>2
  <2>7. MailDone' /\ GivenUpAfterThree'
    BY <1>1, <2>1 DEF MailDone, GivenUpAfterThree, MailType
  <2> QED
    BY <2>3, <2>4, <2>6, <2>7 DEF MailInv
<1>3. CASE MailSend(p)
  <2>1. /\ mailer'[p].stage = "ack" /\ mailer'[p].msg = mailer[p].msg
        /\ \A q \in Processes \ {p} : mailer'[q] = mailer[q]
        /\ mailer[p].msg \in Mails /\ sent' = sent \cup {mailer[p].msg}
        /\ UNCHANGED <<channel, mail, dlq>>
    BY <1>1, <1>3 DEF MailSend, MailType, MailerSlot, MailHeld
  <2>2. [mailer[p] EXCEPT !.stage = "ack"] \in MailerSlot
    BY <1>1 DEF MailType, MailerSlot
  <2>3. MailType'
    BY <1>1, <1>3, <2>1, <2>2 DEF MailSend, MailType
  <2>4. MailHeld'
    BY <1>1, <1>3, <2>1 DEF MailSend, MailHeld, open
  <2>5. MailAttempts'
    BY <1>1, <2>1 DEF MailAttempts, open
  <2> QED
    BY <1>1, <2>1, <2>3, <2>4, <2>5 DEF MailInv, MailDone, GivenUpAfterThree
<1>4. ASSUME MailFail(p) \/ MailAck(p), open(p) PROVE MailInv'
  <2>1. PICK m \in Mails : m = mailer[p].msg
    BY <1>1, <1>4 DEF MailFail, MailAck, MailHeld
  <2>2. /\ mailer'[p] = NoMail
        /\ \A q \in Processes \ {p} : mailer'[q] = mailer[q]
        /\ \A n \in Mails \ {m} : mail'[n] = mail[n]
        /\ UNCHANGED <<channel, sent, dlq>>
    BY <1>1, <1>4, <2>1 DEF MailFail, MailAck, MailType
  <2>3. \/ /\ mailer[p].stage = "send"
           /\ mail' = [mail EXCEPT ![m] = [at |-> "retry", deaths |-> mail[m].deaths + 1]]
        \/ mailer[p].stage = "ack" /\ mail' = [mail EXCEPT ![m].at = "acked"]
    BY <1>1, <1>4, <2>1 DEF MailFail, MailAck, MailType
  <2>4. mail[m].deaths \in 0 .. MaxAttempts
    BY <1>1 DEF MailType, MailRow
  <2>5. mailer[p].stage = "send" => mail[m].deaths + 1 \in 0 .. MaxAttempts
    BY <1>1, <1>4, <2>1, <2>4 DEF MailAttempts, MaxAttempts
  <2>6. mail' \in [Mails -> MailRow]
    <3>1. CASE mailer[p].stage = "send"
      <4>1. [at |-> "retry", deaths |-> mail[m].deaths + 1] \in MailRow
        BY <2>5, <3>1 DEF MailRow
      <4> QED
        BY <1>1, <2>3, <3>1, <4>1 DEF MailType
    <3>2. CASE mailer[p].stage = "ack"
      <4>1. [mail[m] EXCEPT !.at = "acked"] \in MailRow
        BY <1>1 DEF MailType, MailRow, Place
      <4> QED
        BY <1>1, <2>3, <3>2, <4>1 DEF MailType
    <3> QED
      BY <2>3, <3>1, <3>2
  <2>7. MailType'
    <3>1. NoMail \in MailerSlot
      BY DEF NoMail, MailerSlot
    <3> QED
      BY <1>1, <1>4, <2>2, <2>6, <3>1 DEF MailFail, MailAck, MailType
  <2>8. \A q \in Processes \ {p} : open(q) => mailer[q].msg # m
    BY <1>1, <1>4, <2>1 DEF MailFail, MailAck, MailHeld
  <2>9. MailHeld'
    <3> SUFFICES ASSUME NEW q \in Processes
                 PROVE  /\ mailer'[q].stage = "idle" => mailer'[q].msg = None
                        /\ mailer'[q].stage # "idle" => mailer'[q].msg \in Mails
                        /\ channel[q] = "open" /\ mailer'[q].stage # "idle"
                             => /\ mail'[mailer'[q].msg].at = "held"
                                /\ \A o \in Processes :
                                     channel[o] = "open" /\ mailer'[o].msg = mailer'[q].msg
                                       => o = q
      BY <2>2 DEF MailHeld, open
    <3>1. CASE q = p
      BY <2>2, <3>1 DEF NoMail
    <3>2. CASE q # p
      BY <1>1, <2>2, <2>8, <3>2, MessagingAssumption DEF MailHeld, open, NoMail
    <3> QED
      BY <3>1, <3>2
  <2>10. MailAttempts'
    BY <1>1, <2>2, <2>8 DEF MailAttempts, MailHeld, open, NoMail
  <2>11. MailDone'
    BY <1>1, <1>4, <2>1, <2>2, <2>3 DEF MailDone, MailAttempts, MailType
  <2>12. GivenUpAfterThree'
    <3>1. mailer[p].stage = "send" => m \notin dlq
      BY <1>1, <1>4, <2>1, <2>4 DEF GivenUpAfterThree, MailAttempts
    <3>2. mailer[p].stage = "ack" => mail'[m].deaths = mail[m].deaths
      BY <1>1, <2>3 DEF MailType, MailRow
    <3> QED
      BY <1>1, <2>2, <2>3, <3>1, <3>2 DEF GivenUpAfterThree, MailType
  <2> QED
    BY <2>7, <2>9, <2>10, <2>11, <2>12 DEF MailInv
<1>5. ASSUME MailGiveUp(p), open(p) PROVE MailInv'
  <2>1. /\ mailer'[p].stage = "ack" /\ mailer'[p].msg = mailer[p].msg
        /\ \A q \in Processes \ {p} : mailer'[q] = mailer[q]
        /\ mailer[p].msg \in Mails /\ dlq' = dlq \cup {mailer[p].msg}
        /\ UNCHANGED <<channel, mail, sent>>
    BY <1>1, <1>5 DEF MailGiveUp, MailType, MailerSlot, MailHeld
  <2>2. [mailer[p] EXCEPT !.stage = "ack"] \in MailerSlot
    BY <1>1 DEF MailType, MailerSlot
  <2>3. MailType'
    BY <1>1, <1>5, <2>1, <2>2 DEF MailGiveUp, MailType
  <2>4. MailHeld'
    BY <1>1, <1>5, <2>1 DEF MailGiveUp, MailHeld, open
  <2>5. MailAttempts'
    BY <1>1, <2>1 DEF MailAttempts, open
  <2>6. GivenUpAfterThree'
    BY <1>1, <1>5, <2>1 DEF MailGiveUp, GivenUpAfterThree, MailAttempts
  <2> QED
    BY <1>1, <2>1, <2>3, <2>4, <2>5, <2>6 DEF MailInv, MailDone
<1>6. CASE Restart(p)
  BY <1>6, MailRestart
<1> QED
  BY <1>2, <1>3, <1>4, <1>5, <1>6 DEF emailConsumer, MailFail, MailGiveUp, MailAck

\* A message nobody holds is published, or comes back from the retry queue.
LEMMA MailArrives ==
  ASSUME MailInv, NEW m \in Mails, mail[m].at \in {"none", "retry"},
         NEW at \in {"ready", "lost"}, mail' = [mail EXCEPT ![m].at = at],
         UNCHANGED <<channel, mailer, sent, dlq>>
  PROVE  MailInv'
<1>1. MailType /\ MailHeld /\ MailAttempts /\ MailDone /\ GivenUpAfterThree
  BY DEF MailInv
<1>2. /\ mail'[m].at = at /\ mail'[m].deaths = mail[m].deaths
      /\ \A n \in Mails \ {m} : mail'[n] = mail[n]
  BY <1>1 DEF MailType, MailRow
<1>3. [mail[m] EXCEPT !.at = at] \in MailRow
  BY <1>1 DEF MailType, MailRow, Place
<1>4. MailType'
  BY <1>1, <1>3 DEF MailType
<1>5. MailHeld' /\ MailAttempts'
  BY <1>1, <1>2 DEF MailHeld, MailAttempts, open
<1>6. MailDone' /\ GivenUpAfterThree'
  BY <1>1, <1>2 DEF MailDone, GivenUpAfterThree, MailType
<1> QED
  BY <1>4, <1>5, <1>6 DEF MailInv

LEMMA MailStep == MailInv /\ [Next]_vars => MailInv'
<1> SUFFICES ASSUME MailInv, [Next]_vars PROVE MailInv'
  OBVIOUS
<1>1. CASE UNCHANGED <<channel, mailVars>>
  BY <1>1 DEF mailVars, MailInv, MailType, MailHeld, MailAttempts, MailDone,
     GivenUpAfterThree, open
<1>2. ASSUME NEW p \in Processes, rabbitmq(p) PROVE MailInv'
  <2>1. ASSUME NEW m \in Mails, PublishMail(p, m) PROVE MailInv'
    BY <2>1, MailArrives DEF PublishMail
  <2>2. ASSUME NEW t \in Tasks, PublishTask(p, t) PROVE MailInv'
    BY <1>1, <2>2 DEF PublishTask
  <2> QED
    BY <1>2, <2>1, <2>2 DEF rabbitmq
<1>3. ASSUME NEW p \in Processes, invoiceConsumer(p) PROVE MailInv'
  BY <1>1, <1>3, MailRestart
  DEF invoiceConsumer, invoiceWorker, TaskDeliver, InvoiceFind, InvoiceNumber, InvoiceStore,
      InvoiceLink, InvoiceFail, TaskAck, Reject
<1>4. ASSUME NEW p \in Processes, ConnectionCloses(p) \/ ProcessDies(p) PROVE MailInv'
  BY <1>4, MailClose, MailRestart DEF ProcessDies
<1>5. ASSUME NEW m \in Mails, RetryExpires(m) PROVE MailInv'
  BY <1>5, MailArrives DEF RetryExpires
<1> QED
  BY <1>1, <1>2, <1>3, <1>4, <1>5, MailMoves DEF Next, vars

-----------------------------------------------------------------------------
(* The invoice queue. *)

BillType ==
  /\ task \in [Tasks -> TaskRow]
  /\ biller \in [Processes -> BillerSlot]
  /\ invoice \in [Bookings -> Nat]
  /\ linked \in SUBSET Bookings
  /\ torn \in SUBSET Bookings

\* What a worker knows: which message it is at work on, that its number is one, that
\* the booking had no invoice when it looked, and has one when it is about to finish.
BillTrue(p) ==
  /\ biller[p].stage # "idle" => biller[p].msg \in Tasks
  /\ biller[p].stage = "idle" => biller[p].msg = None
  /\ biller[p].stage = "store" => biller[p].number # 0
  /\ biller[p].stage \in {"number", "store"} => biller[p].saw = 0
  /\ biller[p].stage \in {"link", "ack"} => invoice[Of(p)] # 0

BillDone == \A t \in Tasks : task[t] = "acked" => invoice[BookingOf[t]] # 0

BillInv ==
  BillType /\ (\A p \in Processes : BillTrue(p)) /\ BillDone /\ InvoiceIsLinked

\* A worker stops: its booking counts as torn if it was about to be linked.
LEMMA BillStops ==
  ASSUME BillInv, NEW p \in Processes, biller' = [biller EXCEPT ![p] = NoTask],
         torn' = tornBy(p), UNCHANGED <<invoice, linked>>,
         task' \in [Tasks -> TaskRow],
         \A t \in Tasks : task'[t] = "acked"
           => task[t] = "acked" \/ (biller[p].stage = "ack" /\ biller[p].msg = t)
  PROVE  BillInv'
<1>1. BillType /\ (\A q \in Processes : BillTrue(q)) /\ BillDone /\ InvoiceIsLinked
  BY DEF BillInv
<1>2. biller'[p] = NoTask /\ \A q \in Processes \ {p} : biller'[q] = biller[q]
  BY <1>1 DEF BillType
<1>3. BillType'
  <2>1. NoTask \in BillerSlot
    BY DEF NoTask, BillerSlot
  <2>2. torn' \in SUBSET Bookings
    BY <1>1, MessagingAssumption DEF tornBy, BillTrue, BillType
  <2> QED
    BY <1>1, <2>1, <2>2 DEF BillType
<1>4. \A q \in Processes : BillTrue(q)'
  BY <1>1, <1>2 DEF BillTrue, NoTask, Of
<1>5. BillDone'
  BY <1>1 DEF BillDone, BillTrue, Of
<1>6. InvoiceIsLinked'
  <2> SUFFICES ASSUME NEW b \in Bookings, invoice[b] # 0,
                      \A q \in Processes : biller'[q].stage = "link" => Of(q)' # b
               PROVE  b \in linked \cup torn'
    BY DEF InvoiceIsLinked
  <2>1. CASE biller[p].stage = "link" /\ Of(p) = b
    BY <2>1 DEF tornBy, Of
  <2>2. CASE ~(biller[p].stage = "link" /\ Of(p) = b)
    <3>1. \A q \in Processes : biller[q].stage = "link" => Of(q) # b
      BY <1>2, <2>2 DEF Of
    <3> QED
      BY <1>1, <3>1 DEF InvoiceIsLinked, tornBy
  <2> QED
    BY <2>1, <2>2
<1> QED
  BY <1>3, <1>4, <1>5, <1>6 DEF BillInv

LEMMA BillRestart ==
  ASSUME BillInv, NEW p \in Processes, Restart(p)
  PROVE  BillInv'
<1>1. BillType
  BY DEF BillInv
<1>2. task' \in [Tasks -> TaskRow] /\ \A t \in Tasks : task'[t] = "acked" => task[t] = "acked"
  BY <1>1 DEF Restart, taskReturned, BillType, TaskRow, Place
<1> QED
  BY <1>2, BillStops DEF Restart

\* Messages move, and no message becomes acknowledged.
LEMMA TasksMove ==
  ASSUME BillInv, UNCHANGED <<biller, invoice, linked, torn>>,
         task' \in [Tasks -> TaskRow], \A t \in Tasks : task'[t] = "acked" => task[t] = "acked"
  PROVE  BillInv'
BY DEF BillInv, BillType, BillTrue, BillDone, InvoiceIsLinked, Of

\* A worker goes on with its message, before there is anything to link.
LEMMA BillGoesOn ==
  ASSUME BillInv, NEW p \in Processes, biller[p].stage # "link",
         biller'[p].msg = biller[p].msg,
         \A q \in Processes \ {p} : biller'[q] = biller[q],
         UNCHANGED <<task, invoice, linked, torn>>,
         BillType', BillTrue(p)'
  PROVE  BillInv'
<1>1. BillType /\ (\A q \in Processes : BillTrue(q)) /\ BillDone /\ InvoiceIsLinked
  BY DEF BillInv
<1>2. ASSUME NEW q \in Processes PROVE BillTrue(q)'
  <2>1. CASE q = p
    BY <2>1
  <2>2. CASE q # p
    <3>1. BillTrue(q) /\ biller'[q] = biller[q]
      BY <1>1, <2>2
    <3> QED
      BY <3>1 DEF BillTrue, Of
  <2> QED
    BY <2>1, <2>2
<1>3. \A q \in Processes : biller[q].stage = "link" => biller'[q] = biller[q]
  OBVIOUS
<1>4. InvoiceIsLinked'
  <2> SUFFICES ASSUME NEW b \in Bookings, invoice[b] # 0,
                      \A q \in Processes : biller'[q].stage = "link" => Of(q)' # b
               PROVE  b \in linked \cup torn
    BY DEF InvoiceIsLinked
  <2>1. \A q \in Processes : biller[q].stage = "link" => Of(q) # b
    BY <1>3 DEF Of
  <2> QED
    BY <1>1, <2>1 DEF InvoiceIsLinked
<1> QED
  BY <1>1, <1>2, <1>4 DEF BillInv, BillDone

LEMMA BillMoves ==
  ASSUME BillInv, NEW p \in Processes, invoiceConsumer(p)
  PROVE  BillInv'
<1>1. BillType /\ (\A q \in Processes : BillTrue(q)) /\ BillDone /\ InvoiceIsLinked
  BY DEF BillInv
<1>2. biller[p].stage # "idle" => biller[p].msg \in Tasks /\ Of(p) \in Bookings
  BY <1>1, MessagingAssumption DEF BillTrue, Of
<1>3. ASSUME NEW t \in Tasks, TaskDeliver(p, t) PROVE BillInv'
  <2>1. /\ biller'[p] = [stage |-> "find", msg |-> t, number |-> 0, saw |-> 0]
        /\ \A q \in Processes \ {p} : biller'[q] = biller[q]
        /\ task' = [task EXCEPT ![t] = "held"]
        /\ UNCHANGED <<invoice, linked, torn>>
    BY <1>1, <1>3 DEF TaskDeliver, BillType, NoTask
  <2>2. BillType'
    <3>1. [stage |-> "find", msg |-> t, number |-> 0, saw |-> 0] \in BillerSlot
      BY DEF BillerSlot
    <3>2. biller' \in [Processes -> BillerSlot]
      BY <1>1, <1>3, <3>1 DEF TaskDeliver, BillType, NoTask
    <3> QED
      BY <1>1, <2>1, <3>2 DEF BillType, TaskRow, Place
  <2>3. \A q \in Processes : BillTrue(q)'
    BY <1>1, <2>1 DEF BillTrue, Of
  <2>4. BillDone'
    BY <1>1, <2>1 DEF BillDone, BillType
  <2>5. InvoiceIsLinked'
    BY <1>1, <1>3, <2>1 DEF InvoiceIsLinked, Of, TaskDeliver
  <2> QED
    BY <2>2, <2>3, <2>4, <2>5 DEF BillInv
<1>4. CASE InvoiceFind(p)
  <2>1. /\ biller[p].stage = "find" /\ biller'[p].stage \in {"ack", "number"}
        /\ biller'[p].stage = "ack" => invoice[Of(p)] # 0
        /\ biller'[p].stage = "number" => biller'[p].saw = 0
        /\ biller'[p].msg = biller[p].msg
        /\ \A q \in Processes \ {p} : biller'[q] = biller[q]
        /\ UNCHANGED <<task, invoice, linked, torn>>
    BY <1>1, <1>4 DEF InvoiceFind, BillType, BillerSlot
  <2>2. BillType'
    <3>1. invoice[Of(p)] \in Nat
      BY <1>1, <1>2, <1>4 DEF InvoiceFind, BillType
    <3>2. \A stage \in {"ack", "number"} :
            [biller[p] EXCEPT !.stage = stage, !.saw = invoice[Of(p)]] \in BillerSlot
      BY <1>1, <3>1 DEF BillType, BillerSlot
    <3>3. biller' \in [Processes -> BillerSlot]
      BY <1>1, <1>4, <3>2 DEF InvoiceFind, BillType
    <3> QED
      BY <1>1, <2>1, <3>3 DEF BillType
  <2>3. BillTrue(p)'
    BY <1>2, <2>1 DEF BillTrue, Of
  <2> QED
    BY <2>1, <2>2, <2>3, BillGoesOn
<1>5. CASE InvoiceNumber(p)
  <2>1. PICK n \in {invoice[b] + 1 : b \in Bookings} :
          biller' = [biller EXCEPT ![p].stage = "store", ![p].number = n]
    BY <1>5 DEF InvoiceNumber
  <2>2. n \in Nat /\ n # 0
    BY <1>1, <2>1 DEF BillType
  <2>3. /\ biller[p].stage = "number"
        /\ biller'[p].stage = "store" /\ biller'[p].number = n
        /\ biller'[p].msg = biller[p].msg /\ biller'[p].saw = biller[p].saw
        /\ \A q \in Processes \ {p} : biller'[q] = biller[q]
        /\ UNCHANGED <<task, invoice, linked, torn>>
    BY <1>1, <1>5, <2>1 DEF InvoiceNumber, BillType, BillerSlot
  <2>4. BillType'
    <3>1. [biller[p] EXCEPT !.stage = "store", !.number = n] \in BillerSlot
      BY <1>1, <2>2 DEF BillType, BillerSlot
    <3> QED
      BY <1>1, <2>1, <2>3, <3>1 DEF BillType
  <2>5. BillTrue(p)'
    BY <1>1, <1>2, <2>2, <2>3 DEF BillTrue, Of
  <2> QED
    BY <2>3, <2>4, <2>5, BillGoesOn
<1>6. ASSUME biller[p].stage \in {"find", "number", "store", "link"}, Reject(p)
      PROVE  BillInv'
  <2>1. CASE open(p)
    <3>1. /\ task' = [task EXCEPT ![biller[p].msg] = "dlq"]
          /\ biller' = [biller EXCEPT ![p] = NoTask]
          /\ torn' = tornBy(p) /\ UNCHANGED <<invoice, linked>>
      BY <1>6, <2>1 DEF Reject
    <3>2. /\ task' \in [Tasks -> TaskRow]
          /\ \A t \in Tasks : task'[t] = "acked" => task[t] = "acked"
      BY <1>1, <3>1 DEF BillType, TaskRow, Place
    <3> QED
      BY <3>1, <3>2, BillStops
  <2>2. CASE ~open(p)
    BY <1>6, <2>2, BillRestart DEF Reject
  <2> QED
    BY <2>1, <2>2
<1>7. ASSUME InvoiceStore(p), ~taken(p) PROVE BillInv'
  <2>1. PICK b \in Bookings : b = Of(p)
    BY <1>2, <1>7 DEF InvoiceStore
  <2>2. /\ invoice'[b] = biller[p].number
        /\ \A c \in Bookings \ {b} : invoice'[c] = invoice[c]
        /\ biller'[p].stage = "link" /\ biller'[p].msg = biller[p].msg
        /\ \A q \in Processes \ {p} : biller'[q] = biller[q]
        /\ UNCHANGED <<task, linked, torn>>
    BY <1>1, <1>7, <2>1 DEF InvoiceStore, BillType, BillerSlot
  <2>3. biller[p].number \in Nat /\ biller[p].number # 0
    BY <1>1, <1>7 DEF InvoiceStore, BillTrue, BillType, BillerSlot
  <2>4. BillType'
    <3>1. [biller[p] EXCEPT !.stage = "link"] \in BillerSlot
      BY <1>1 DEF BillType, BillerSlot
    <3> QED
      BY <1>1, <1>7, <2>1, <2>2, <2>3, <3>1 DEF InvoiceStore, BillType
  <2>5. \A c \in Bookings : invoice[c] # 0 => invoice'[c] # 0
    BY <2>2, <2>3
  <2>6. \A q \in Processes : BillTrue(q)'
    <3> SUFFICES ASSUME NEW q \in Processes PROVE BillTrue(q)'
      OBVIOUS
    <3>1. CASE q = p
      BY <1>2, <1>7, <2>1, <2>2, <2>3, <3>1 DEF BillTrue, Of, InvoiceStore
    <3>2. CASE q # p
      BY <1>1, <2>2, <2>5, <3>2, MessagingAssumption DEF BillTrue, Of
    <3> QED
      BY <3>1, <3>2
  <2>7. BillDone'
    BY <1>1, <2>2, <2>5, MessagingAssumption DEF BillDone
  <2>8. InvoiceIsLinked'
    <3> SUFFICES ASSUME NEW c \in Bookings, invoice'[c] # 0,
                        \A q \in Processes : biller'[q].stage = "link" => Of(q)' # c
                 PROVE  c \in linked \cup torn
      BY <2>2 DEF InvoiceIsLinked
    <3>1. c # b
      BY <2>1, <2>2 DEF Of
    <3>2. \A q \in Processes : biller[q].stage = "link" => Of(q) # c
      BY <1>7, <2>2 DEF Of, InvoiceStore
    <3> QED
      BY <1>1, <2>2, <3>1, <3>2 DEF InvoiceIsLinked
  <2> QED
    BY <2>4, <2>6, <2>7, <2>8 DEF BillInv
<1>8. CASE InvoiceLink(p)
  <2>1. /\ linked' = linked \cup {Of(p)} /\ Of(p) \in Bookings
        /\ biller'[p].stage = "ack" /\ biller'[p].msg = biller[p].msg
        /\ \A q \in Processes \ {p} : biller'[q] = biller[q]
        /\ UNCHANGED <<task, invoice, torn>>
    BY <1>1, <1>2, <1>8 DEF InvoiceLink, BillType, BillerSlot
  <2>2. BillType'
    <3>1. [biller[p] EXCEPT !.stage = "ack"] \in BillerSlot
      BY <1>1 DEF BillType, BillerSlot
    <3> QED
      BY <1>1, <1>8, <2>1, <3>1 DEF InvoiceLink, BillType
  <2>3. \A q \in Processes : BillTrue(q)'
    BY <1>1, <1>2, <1>8, <2>1 DEF BillTrue, Of, InvoiceLink
  <2>4. InvoiceIsLinked'
    BY <1>1, <2>1 DEF InvoiceIsLinked, Of
  <2> QED
    BY <1>1, <2>1, <2>2, <2>3, <2>4 DEF BillInv, BillDone
<1>9. CASE TaskAck(p)
  <2>1. CASE open(p)
    <3>1. /\ task' = [task EXCEPT ![biller[p].msg] = "acked"]
          /\ biller' = [biller EXCEPT ![p] = NoTask]
          /\ biller[p].stage = "ack" /\ torn' = tornBy(p) /\ UNCHANGED <<invoice, linked>>
      BY <1>9, <2>1 DEF TaskAck, tornBy
    <3>2. /\ task' \in [Tasks -> TaskRow]
          /\ \A t \in Tasks : task'[t] = "acked" => task[t] = "acked" \/ biller[p].msg = t
      BY <1>1, <3>1 DEF BillType, TaskRow, Place
    <3> QED
      BY <3>1, <3>2, BillStops
  <2>2. CASE ~open(p)
    BY <1>9, <2>2, BillRestart DEF TaskAck
  <2> QED
    BY <2>1, <2>2
<1> QED
  BY <1>3, <1>4, <1>5, <1>6, <1>7, <1>8, <1>9
  DEF invoiceConsumer, invoiceWorker, InvoiceStore, InvoiceFail

LEMMA BillStep == BillInv /\ [Next]_vars => BillInv'
<1> SUFFICES ASSUME BillInv, [Next]_vars PROVE BillInv'
  OBVIOUS
<1>1. CASE UNCHANGED <<billVars, torn>>
  BY <1>1 DEF billVars, BillInv, BillType, BillTrue, BillDone, InvoiceIsLinked, Of
<1>2. ASSUME NEW p \in Processes, rabbitmq(p) PROVE BillInv'
  <2>1. ASSUME NEW t \in Tasks, PublishTask(p, t) PROVE BillInv'
    <3>1. PICK at \in {"ready", "lost"} : task' = [task EXCEPT ![t] = at]
      BY <2>1 DEF PublishTask
    <3>2. /\ task' \in [Tasks -> TaskRow]
          /\ \A u \in Tasks : task'[u] = "acked" => task[u] = "acked"
      BY <3>1 DEF BillInv, BillType, TaskRow, Place
    <3> QED
      BY <2>1, <3>2, TasksMove DEF PublishTask
  <2>2. ASSUME NEW m \in Mails, PublishMail(p, m) PROVE BillInv'
    BY <1>1, <2>2 DEF PublishMail
  <2> QED
    BY <1>2, <2>1, <2>2 DEF rabbitmq
<1>3. ASSUME NEW p \in Processes, emailConsumer(p) PROVE BillInv'
  BY <1>1, <1>3, BillRestart
  DEF emailConsumer, MailDeliver, MailSend, MailFail, MailGiveUp, MailAck
<1>4. ASSUME NEW p \in Processes, ProcessDies(p) PROVE BillInv'
  BY <1>4, BillRestart DEF ProcessDies
<1>5. ASSUME NEW p \in Processes, ConnectionCloses(p) PROVE BillInv'
  <2>1. /\ task' \in [Tasks -> TaskRow]
        /\ \A t \in Tasks : task'[t] = "acked" => task[t] = "acked"
    BY <1>5 DEF ConnectionCloses, taskReturned, BillInv, BillType, TaskRow, Place
  <2> QED
    BY <1>5, <2>1, TasksMove DEF ConnectionCloses
<1>6. ASSUME NEW m \in Mails, RetryExpires(m) PROVE BillInv'
  BY <1>1, <1>6 DEF RetryExpires
<1> QED
  BY <1>1, <1>2, <1>3, <1>4, <1>5, <1>6, BillMoves DEF Next, vars

-----------------------------------------------------------------------------
(* Theorems. *)

LEMMA QueuesInit == Init => MailInv /\ BillInv
<1> SUFFICES ASSUME Init PROVE MailInv /\ BillInv
  OBVIOUS
<1>1. NoMail \in MailerSlot /\ NoTask \in BillerSlot
  BY DEF NoMail, MailerSlot, NoTask, BillerSlot
<1>2. [at |-> "none", deaths |-> 0] \in MailRow
  BY DEF MailRow, Place, MaxAttempts
<1>3. MailType
  BY <1>1, <1>2 DEF Init, MailType
<1>4. MailInv
  BY <1>3 DEF Init, MailInv, MailHeld, MailAttempts, MailDone, GivenUpAfterThree, NoMail
<1>5. BillType
  BY <1>1 DEF Init, BillType, TaskRow, Place
<1>6. BillInv
  BY <1>5 DEF Init, BillInv, BillTrue, BillDone, InvoiceIsLinked, NoTask
<1> QED
  BY <1>4, <1>6

LEMMA QueuesHold == Spec => [](MailInv /\ BillInv)
BY QueuesInit, MailStep, BillStep, PTL DEF Spec

\* Messages, consumers, workers and invoices keep the shape the code gives them
\* (TypeOK).
THEOREM MessagingTypeCorrect == Spec => []TypeOK
<1> DEFINE Bounded == breaks \in 0 .. MaxBreaks
<1>1. Init => Bounded
  BY MessagingAssumption DEF Init
<1>2. Bounded /\ [Next]_vars => Bounded'
  <2> SUFFICES ASSUME Bounded, [Next]_vars PROVE Bounded'
    OBVIOUS
  <2>1. ASSUME Break PROVE Bounded'
    BY <2>1, MessagingAssumption DEF Break
  <2>2. CASE UNCHANGED breaks
    BY <2>2
  <2> QED
    BY <2>1, <2>2 DEF Next, vars, ConnectionCloses, ProcessDies
<1>3. MailInv /\ BillInv /\ Bounded => TypeOK
  BY DEF MailInv, MailType, BillInv, BillType, TypeOK
<1> QED
  BY <1>1, <1>2, <1>3, QueuesHold, PTL DEF Spec

\* A message is acknowledged only when its e-mail was sent or dead-lettered, or its
\* booking has an invoice (emailConsumer, invoiceConsumer).
THEOREM AcknowledgedIsDone == Spec => []AckedIsDone
<1>1. MailInv /\ BillInv => AckedIsDone
  BY DEF MailInv, MailDone, BillInv, BillDone, AckedIsDone
<1> QED
  BY <1>1, QueuesHold, PTL

\* An e-mail is given up after three rejections, and connections that broke do not
\* count (the x-death header of emailConsumer).
THEOREM GivenUpAfterThreeRejections == Spec => []GivenUpAfterThree
<1>1. MailInv => GivenUpAfterThree
  BY DEF MailInv
<1> QED
  BY <1>1, QueuesHold, PTL

\* A booking that has an invoice is linked to it, unless a worker broke off between
\* the two statements (invoiceWorker).
THEOREM InvoiceLinked == Spec => []InvoiceIsLinked
<1>1. BillInv => InvoiceIsLinked
  BY DEF BillInv
<1> QED
  BY <1>1, QueuesHold, PTL

\* Only a worker that looked for an invoice before there was one gives it another
\* number (invoiceWorker).
THEOREM InvoiceRenumbered == Spec => RenumberedOnlyByOverlap
<1>1. BillInv /\ [Next]_vars
        => [\A b \in Bookings :
              invoice[b] # 0 /\ invoice'[b] # invoice[b]
                => \E p \in Processes :
                     biller[p].stage = "store" /\ Of(p) = b /\ biller[p].saw = 0]_vars
  <2> SUFFICES ASSUME BillInv, Next, NEW b \in Bookings, invoice'[b] # invoice[b]
               PROVE  \E p \in Processes :
                        biller[p].stage = "store" /\ Of(p) = b /\ biller[p].saw = 0
    BY DEF vars
  <2>1. ASSUME NEW p \in Processes, InvoiceStore(p), ~taken(p)
        PROVE  biller[p].stage = "store" /\ Of(p) = b /\ biller[p].saw = 0
    BY <2>1 DEF InvoiceStore, BillInv, BillTrue, BillType
  <2>2. \E p \in Processes : InvoiceStore(p) /\ ~taken(p)
    BY DEF Next, ConnectionCloses, ProcessDies, Restart, rabbitmq, PublishMail, PublishTask,
       emailConsumer, MailDeliver, MailSend, MailFail, MailGiveUp, MailAck, RetryExpires,
       invoiceConsumer, invoiceWorker, TaskDeliver, InvoiceFind, InvoiceNumber, InvoiceStore,
       InvoiceLink, InvoiceFail, TaskAck, Reject, billVars
  <2> QED
    BY <2>1, <2>2
<1> QED
  BY <1>1, QueuesHold, PTL DEF Spec, RenumberedOnlyByOverlap

=============================================================================
