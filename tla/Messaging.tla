----------------------------- MODULE Messaging -----------------------------
(***************************************************************************)
(* The queues behind bookings: lib/rabbitmq with its e-mail and invoice      *)
(* consumers and their workers, and the broker as an external part.         *)
(*                                                                         *)
(* Every process of the backend has one channel, which is opened once and    *)
(* never again, and on it one consumer of each queue that holds one message  *)
(* at a time.  When the connection closes the broker returns what was held,  *)
(* while the worker goes on until it wants to acknowledge.                  *)
(***************************************************************************)
EXTENDS Naturals, FiniteSets

CONSTANTS
  Processes,   \* processes of the backend
  Mails,       \* e-mail messages createBooking may come to publish
  Tasks,       \* invoice messages an approval may come to publish
  Bookings,    \* bookings they are about
  BookingOf,   \* the booking of each invoice message
  MaxBreaks,   \* bound: connections that close and processes that die
  None         \* null

ASSUME MessagingAssumption ==
  /\ BookingOf \in [Tasks -> Bookings]
  /\ MaxBreaks \in Nat
  /\ None \notin Mails \cup Tasks

MaxAttempts == 3

VARIABLES
  channel,   \* of each process: open or closed
  mail,      \* where each e-mail message is, and its x-death count
  mailer,    \* what the e-mail consumer of each process is doing
  sent,      \* e-mail messages the provider has accepted
  dlq,       \* e-mail messages in tribel.email.dlq
  task,      \* where each invoice message is
  biller,    \* what the invoice consumer of each process is doing
  invoice,   \* the Invoice table: the number of the day of each booking, or 0
  linked,    \* bookings whose column invoiceId is set
  torn,      \* history: bookings a worker failed or died on before linking
  breaks     \* history: how many connections and processes broke so far

mailVars == <<mail, mailer, sent, dlq>>
billVars == <<task, biller, invoice, linked>>
vars == <<channel, mailVars, billVars, torn, breaks>>

-----------------------------------------------------------------------------

Place == {"none", "lost", "ready", "held", "acked"}

MailRow == [at : Place \cup {"retry"}, deaths : 0 .. MaxAttempts]

TaskRow == Place \cup {"dlq"}

NoMail == [stage |-> "idle", msg |-> None]

MailerSlot == [stage : {"idle", "send", "giveUp", "ack"}, msg : Mails \cup {None}]

NoTask == [stage |-> "idle", msg |-> None, number |-> 0, saw |-> 0]

BillerSlot == [stage : {"idle", "find", "number", "store", "link", "ack"},
               msg : Tasks \cup {None},
               number : Nat,   \* the number the worker will give
               saw : Nat]      \* the number the invoice had when it was looked up

open(p) == channel[p] = "open"

\* The broker returns what the channel of a process held.
mailReturned(p) ==
  [m \in Mails |-> IF open(p) /\ mailer[p].msg = m
                   THEN [mail[m] EXCEPT !.at = "ready"] ELSE mail[m]]

taskReturned(p) ==
  [t \in Tasks |-> IF open(p) /\ biller[p].msg = t THEN "ready" ELSE task[t]]

tornBy(p) == IF biller[p].stage = "link" THEN torn \cup {BookingOf[biller[p].msg]}
             ELSE torn

\* The channel is created at the start, or the first connect fails; the promise
\* is kept either way.
Restart(p) ==
  /\ \E state \in {"open", "closed"} : channel' = [channel EXCEPT ![p] = state]
  /\ mail' = mailReturned(p)
  /\ mailer' = [mailer EXCEPT ![p] = NoMail]
  /\ task' = taskReturned(p)
  /\ biller' = [biller EXCEPT ![p] = NoTask]
  /\ torn' = tornBy(p)
  /\ UNCHANGED <<sent, dlq, invoice, linked>>

Break == breaks < MaxBreaks /\ breaks' = breaks + 1

\* The process dies, or is deployed anew, and is started again.
ProcessDies(p) == Break /\ Restart(p)

\* Logged, and nothing else: consumers of the process hear nothing any more.
ConnectionCloses(p) ==
  /\ Break
  /\ open(p)
  /\ channel' = [channel EXCEPT ![p] = "closed"]
  /\ mail' = mailReturned(p)
  /\ task' = taskReturned(p)
  /\ UNCHANGED <<mailer, biller, sent, dlq, invoice, linked, torn>>

-----------------------------------------------------------------------------
(* rabbitmq(...): publish without a confirm, after the commit. *)

\* On a closed channel publish throws, which is logged; on an open one the frame
\* may be lost with its connection.
PublishMail(p, m) ==
  /\ mail[m].at = "none"
  /\ \E at \in (IF open(p) THEN {"ready", "lost"} ELSE {"lost"}) :
       mail' = [mail EXCEPT ![m].at = at]
  /\ UNCHANGED <<channel, mailer, sent, dlq, billVars, torn>>

PublishTask(p, t) ==
  /\ task[t] = "none"
  /\ \E at \in (IF open(p) THEN {"ready", "lost"} ELSE {"lost"}) :
       task' = [task EXCEPT ![t] = at]
  /\ UNCHANGED <<channel, mailVars, biller, invoice, linked, torn>>

-----------------------------------------------------------------------------
(* The e-mail consumer. *)

\* A mutant for the checks: one rejection too few.
MailDeliverEarly(p, m) ==
  /\ open(p) /\ mailer[p].stage = "idle"
  /\ mail[m].at = "ready"
  /\ mail' = [mail EXCEPT ![m].at = "held"]
  /\ mailer' = [mailer EXCEPT ![p] =
       [stage |-> IF mail[m].deaths >= MaxAttempts - 1 THEN "giveUp" ELSE "send", msg |-> m]]
  /\ UNCHANGED <<channel, sent, dlq, billVars, torn>>

\* A mutant for the checks: x-death is not looked at.
MailDeliverAlways(p, m) ==
  /\ open(p) /\ mailer[p].stage = "idle"
  /\ mail[m].at = "ready"
  /\ mail' = [mail EXCEPT ![m].at = "held"]
  /\ mailer' = [mailer EXCEPT ![p] = [stage |-> "send", msg |-> m]]
  /\ UNCHANGED <<channel, sent, dlq, billVars, torn>>

\* Takes a message and looks at how often it has been rejected.
MailDeliver(p, m) ==
  /\ open(p) /\ mailer[p].stage = "idle"
  /\ mail[m].at = "ready"
  /\ mail' = [mail EXCEPT ![m].at = "held"]
  /\ mailer' = [mailer EXCEPT ![p] =
       [stage |-> IF mail[m].deaths >= MaxAttempts THEN "giveUp" ELSE "send", msg |-> m]]
  /\ UNCHANGED <<channel, sent, dlq, billVars, torn>>

\* emailWorker: reads the booking, renders, sends.
MailSend(p) ==
  /\ mailer[p].stage = "send"
  /\ sent' = sent \cup {mailer[p].msg}
  /\ mailer' = [mailer EXCEPT ![p].stage = "ack"]
  /\ UNCHANGED <<channel, mail, dlq, billVars, torn>>

\* A mutant for the checks: a message that fails is acknowledged.
MailFailAcked(p) ==
  /\ mailer[p].stage = "send" /\ open(p)
  /\ mail' = [mail EXCEPT ![mailer[p].msg].at = "acked"]
  /\ mailer' = [mailer EXCEPT ![p] = NoMail]
  /\ UNCHANGED <<channel, sent, dlq, billVars, torn>>

\* The worker throws: nack without requeue.  On a closed channel nack throws
\* inside the handler of the exception, and takes the process down.
MailFail(p) ==
  /\ mailer[p].stage = "send"
  /\ IF open(p)
     THEN /\ mail' = [mail EXCEPT ![mailer[p].msg] = [at |-> "retry", deaths |-> @.deaths + 1]]
          /\ mailer' = [mailer EXCEPT ![p] = NoMail]
          /\ UNCHANGED <<channel, sent, dlq, billVars, torn>>
     ELSE Restart(p)

\* Publishes to tribel.dlx.  The acknowledgement follows, if the connection lasts.
MailGiveUp(p) ==
  /\ mailer[p].stage = "giveUp"
  /\ IF open(p)
     THEN /\ dlq' = dlq \cup {mailer[p].msg}
          /\ mailer' = [mailer EXCEPT ![p].stage = "ack"]
          /\ UNCHANGED <<channel, mail, sent, billVars, torn>>
     ELSE Restart(p)

\* On a closed channel ack throws, then nack does.
MailAck(p) ==
  /\ mailer[p].stage = "ack"
  /\ IF open(p)
     THEN /\ mail' = [mail EXCEPT ![mailer[p].msg].at = "acked"]
          /\ mailer' = [mailer EXCEPT ![p] = NoMail]
          /\ UNCHANGED <<channel, sent, dlq, billVars, torn>>
     ELSE Restart(p)

\* A mutant for the checks: a routing key nothing is bound to, as that of
\* tribel.invoice.retry.
RetryUnbound(m) ==
  /\ mail[m].at = "retry"
  /\ mail' = [mail EXCEPT ![m].at = "lost"]
  /\ UNCHANGED <<channel, mailer, sent, dlq, billVars, torn>>

\* 30 seconds in tribel.email.retry are over: back to tribel.events, with its own key.
RetryExpires(m) ==
  /\ mail[m].at = "retry"
  /\ mail' = [mail EXCEPT ![m].at = "ready"]
  /\ UNCHANGED <<channel, mailer, sent, dlq, billVars, torn>>

-----------------------------------------------------------------------------
(* The invoice consumer. *)

Of(p) == BookingOf[biller[p].msg]

\* Its branch for three rejections is never taken: nothing that is rejected comes
\* back to the queue.
TaskDeliver(p, t) ==
  /\ open(p) /\ biller[p].stage = "idle"
  /\ task[t] = "ready"
  /\ task' = [task EXCEPT ![t] = "held"]
  /\ biller' = [biller EXCEPT ![p] = [NoTask EXCEPT !.stage = "find", !.msg = t]]
  /\ UNCHANGED <<channel, mailVars, invoice, linked, torn>>

\* A mutant for the checks: invoices are not looked up.
InvoiceFindNone(p) ==
  /\ biller[p].stage = "find"
  /\ biller' = [biller EXCEPT ![p].stage = "number", ![p].saw = invoice[Of(p)]]
  /\ UNCHANGED <<channel, mailVars, task, invoice, linked, torn>>

\* invoiceWorker: nothing to do for a booking that has its invoice.
InvoiceFind(p) ==
  /\ biller[p].stage = "find"
  /\ biller' = [biller EXCEPT ![p].stage = IF invoice[Of(p)] # 0 THEN "ack" ELSE "number",
                              ![p].saw = invoice[Of(p)]]
  /\ UNCHANGED <<channel, mailVars, task, invoice, linked, torn>>

\* generateInvoiceNo: one more than the highest number of the tenant and day.  Then
\* the worker renders the PDF and uploads it.
InvoiceNumber(p) ==
  /\ biller[p].stage = "number"
  /\ \E n \in {invoice[b] + 1 : b \in Bookings} :
       /\ \A b \in Bookings : invoice[b] < n
       /\ biller' = [biller EXCEPT ![p].stage = "store", ![p].number = n]
  /\ UNCHANGED <<channel, mailVars, task, invoice, linked, torn>>

\* A rejected message goes to tribel.invoice.dlq.
Reject(p) ==
  IF open(p)
  THEN /\ task' = [task EXCEPT ![biller[p].msg] = "dlq"]
       /\ biller' = [biller EXCEPT ![p] = NoTask]
       /\ torn' = tornBy(p)
       /\ UNCHANGED <<channel, mailVars, invoice, linked>>
  ELSE Restart(p)

taken(p) == \E b \in Bookings \ {Of(p)} : invoice[b] = biller[p].number

\* Upserts the invoice of the booking; its number is unique.
InvoiceStore(p) ==
  /\ biller[p].stage = "store"
  /\ IF taken(p)
     THEN Reject(p)
     ELSE /\ invoice' = [invoice EXCEPT ![Of(p)] = biller[p].number]
          /\ biller' = [biller EXCEPT ![p].stage = "link"]
          /\ UNCHANGED <<channel, mailVars, task, linked, torn>>

\* A mutant for the checks: booking.invoiceId is not written.
InvoiceLinkSkipped(p) ==
  /\ biller[p].stage = "link"
  /\ biller' = [biller EXCEPT ![p].stage = "ack"]
  /\ UNCHANGED <<channel, mailVars, task, invoice, linked, torn>>

InvoiceLink(p) ==
  /\ biller[p].stage = "link"
  /\ linked' = linked \cup {Of(p)}
  /\ biller' = [biller EXCEPT ![p].stage = "ack"]
  /\ UNCHANGED <<channel, mailVars, task, invoice, torn>>

\* A query, the browser or the upload fails.
InvoiceFail(p) ==
  /\ biller[p].stage \in {"find", "number", "store", "link"}
  /\ Reject(p)

TaskAck(p) ==
  /\ biller[p].stage = "ack"
  /\ IF open(p)
     THEN /\ task' = [task EXCEPT ![biller[p].msg] = "acked"]
          /\ biller' = [biller EXCEPT ![p] = NoTask]
          /\ UNCHANGED <<channel, mailVars, invoice, linked, torn>>
     ELSE Restart(p)

-----------------------------------------------------------------------------

Init ==
  /\ channel \in [Processes -> {"open", "closed"}]
  /\ mail = [m \in Mails |-> [at |-> "none", deaths |-> 0]]
  /\ mailer = [p \in Processes |-> NoMail]
  /\ sent = {} /\ dlq = {}
  /\ task = [t \in Tasks |-> "none"]
  /\ biller = [p \in Processes |-> NoTask]
  /\ invoice = [b \in Bookings |-> 0]
  /\ linked = {} /\ torn = {} /\ breaks = 0

rabbitmq(p) ==
  \/ \E m \in Mails : PublishMail(p, m)
  \/ \E t \in Tasks : PublishTask(p, t)

emailConsumer(p) ==
  \/ \E m \in Mails : MailDeliver(p, m)
  \/ MailSend(p) \/ MailFail(p) \/ MailGiveUp(p) \/ MailAck(p)

invoiceWorker(p) ==
  \/ InvoiceFind(p) \/ InvoiceNumber(p) \/ InvoiceStore(p)
  \/ InvoiceLink(p) \/ InvoiceFail(p)

invoiceConsumer(p) ==
  (\E t \in Tasks : TaskDeliver(p, t)) \/ invoiceWorker(p) \/ TaskAck(p)

Next ==
  \/ \E p \in Processes : ConnectionCloses(p) \/ ProcessDies(p)
  \/ /\ \/ \E p \in Processes : rabbitmq(p) \/ emailConsumer(p) \/ invoiceConsumer(p)
        \/ \E m \in Mails : RetryExpires(m)
     /\ UNCHANGED breaks

Spec == Init /\ [][Next]_vars

\* Faults cease at some point; consumers with an open channel go on, and messages
\* wait 30 seconds for a retry and no longer.  Nobody has to publish anything, and a
\* process whose connection is closed gets no new one.
ConsumerFairness ==
  /\ \A m \in Mails : WF_vars(RetryExpires(m) /\ UNCHANGED breaks)
  /\ \A p \in Processes :
       /\ WF_vars(emailConsumer(p) /\ UNCHANGED breaks)
       /\ WF_vars(invoiceConsumer(p) /\ UNCHANGED breaks)

FairSpec == Spec /\ ConsumerFairness

-----------------------------------------------------------------------------
(* What must hold. *)

TypeOK ==
  /\ channel \in [Processes -> {"open", "closed"}]
  /\ mail \in [Mails -> MailRow]
  /\ mailer \in [Processes -> MailerSlot]
  /\ sent \in SUBSET Mails
  /\ dlq \in SUBSET Mails
  /\ task \in [Tasks -> TaskRow]
  /\ biller \in [Processes -> BillerSlot]
  /\ invoice \in [Bookings -> Nat]
  /\ linked \in SUBSET Bookings
  /\ torn \in SUBSET Bookings
  /\ breaks \in 0 .. MaxBreaks

\* A message leaves its queue for good only when its work is done: the e-mail has
\* been sent or is in the dead-letter queue, the booking has its invoice, whatever
\* connections and processes broke on the way (emailConsumer, invoiceConsumer).
AckedIsDone ==
  /\ \A m \in Mails : mail[m].at = "acked" => m \in sent \cup dlq
  /\ \A t \in Tasks : task[t] = "acked" => invoice[BookingOf[t]] # 0

\* An e-mail is given up after three rejected attempts, not before: what a broken
\* connection returned does not count (the x-death header of emailConsumer).
GivenUpAfterThree ==
  \A m \in dlq : mail[m].deaths = MaxAttempts

\* A booking that has an invoice knows it, as soon as nobody is at work between the
\* two statements, unless a worker broke off there (invoiceWorker).
InvoiceIsLinked ==
  \A b \in Bookings :
    /\ invoice[b] # 0
    /\ \A p \in Processes : biller[p].stage = "link" => Of(p) # b
    => b \in linked \cup torn

\* A repeated message does not give a new number to an invoice that was issued,
\* but in a worker that had started before the invoice was there (invoiceWorker).
RenumberedOnlyByOverlap ==
  [][\A b \in Bookings :
       invoice[b] # 0 /\ invoice'[b] # invoice[b]
         => \E p \in Processes :
              biller[p].stage = "store" /\ Of(p) = b /\ biller[p].saw = 0]_vars

deaf == \A p \in Processes : ~open(p)

\* A message that reached its queue is worked off in the end, over rejections,
\* broken connections and processes, unless all connections are closed: no process
\* opens a new one (createRabbitMQConnection).
MessagesSettle ==
  /\ \A m \in Mails : mail[m].at = "ready" ~> mail[m].at = "acked" \/ deaf
  /\ \A t \in Tasks : task[t] = "ready" ~> task[t] \in {"acked", "dlq"} \/ deaf

=============================================================================
