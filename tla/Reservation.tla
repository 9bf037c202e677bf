---------------------------- MODULE Reservation ----------------------------
(***************************************************************************)
(* The booking engine: the Booking table, the HTTP handlers of             *)
(* controller/booking.controller.ts that write it (and the one in           *)
(* controller/razorpay.controller.ts that writes its status), and the daily *)
(* sweep of jobs/booking-lifecycle.job.ts.                                  *)
(*                                                                         *)
(* A handler is a request slot that walks through its database statements:  *)
(* each action is one statement, because the RLS-extended Prisma client     *)
(* wraps every query in a transaction of its own (lib/prisma/prisma-rls.ts) *)
(* and no read but the one of createBooking takes a row lock.  What a       *)
(* handler read, and still uses, is kept in its slot.  A refused request    *)
(* changes nothing: it is a step that is not taken, or Abandon once it is   *)
(* under way.                                                              *)
(*                                                                         *)
(* Row-level security decides which rows of Booking a statement sees.  An   *)
(* admin's client sees those of his tenant (the model has one); a guest's    *)
(* client, and createBooking, which sets the guest's id and nothing else,    *)
(* see the guest's own; the plain client, which sets nothing, sees none.     *)
(* Unless the database role of the application is exempt: Exempt.            *)
(***************************************************************************)
EXTENDS BookingPolicy

CONSTANTS
  Bookings,     \* rows the Booking table may come to hold
  Guests,
  Beds, Templates,
  BedTemplate,  \* the room template each bed belongs to
  RetiredBeds,  \* beds with a deletedAt
  TotalBeds,    \* the beds a template says it has: numberOfRooms * bedsPerRoom
  Keys,         \* idempotency keys clients send
  Requests,     \* request slots: how many handlers may be in flight at once
  Sweepers,     \* processes that run the lifecycle sweep
  MaxDay,       \* the calendar is 0 .. MaxDay
  Stays,        \* the <<check-in, check-out>> pairs clients send
  Modes,        \* the payment modes clients choose
  Traffic,      \* the operations clients call
  Exempt,       \* is the role of APP_DATABASE_URL exempt from row-level security?
  None          \* null

Days == 0 .. MaxDay

Operations == {"create", "cancelGuest", "cancelAdmin", "approve", "reject",
               "assign", "moveGuest", "moveAdmin", "patch", "markPaid",
               "verifyFailed"}

ASSUME ReservationAssumption ==
  /\ MaxDay \in Nat
  /\ IsFiniteSet(Bookings) /\ IsFiniteSet(Beds)
  /\ BedTemplate \in [Beds -> Templates]
  /\ RetiredBeds \subseteq Beds
  /\ TotalBeds \in [Templates -> Nat]
  /\ None \notin Bookings \cup Guests \cup Beds \cup Templates \cup Keys
  /\ Stays \subseteq Days \X Days
  /\ Modes \subseteq PaymentMode
  /\ Traffic \subseteq Operations
  /\ Exempt \in BOOLEAN

VARIABLES
  today,    \* the IST calendar day
  booking,  \* the Booking table, with the IdempotencyKey row of each booking
  req,      \* what every request in flight is doing
  sweep,    \* what every sweeper is doing
  lock      \* Redis key BookingLifecycle:sweepLock: set or not

vars == <<today, booking, req, sweep, lock>>

-----------------------------------------------------------------------------
(* The tables. *)

\* A row that createBooking has not inserted yet.
NoRow == [st |-> "NONE", guest |-> None, tpl |-> None, bed |-> None,
          from |-> 0, to |-> 0, nights |-> 0, mode |-> "OFFLINE", payment |-> "PENDING", key |-> None]

BookingRow ==
  [st : BookingStatus \cup {"NONE"}, guest : Guests \cup {None},
   tpl : Templates \cup {None},
   bed : Beds \cup {None}, from : Days, to : Days,
   nights : Int,                         \* the nights totalPrice was computed for
   mode : PaymentMode, payment : {"PENDING", "PAID"},
   key : Keys \cup {None}]               \* the idempotency key it was created with

exists(b) == booking[b].st # "NONE"

\* Policy booking_all_guest_or_admins, for a client that set the guest's id only.
visible(g) == {b \in Bookings : Exempt \/ booking[b].guest = g}

\* The same for the plain client, which sets nothing.
visibleToPlain == IF Exempt THEN Bookings ELSE {}

\* The Bed rows of a template that are in use: they need not be TotalBeds many.
bedRows(t) == Cardinality({bed \in Beds \ RetiredBeds : BedTemplate[bed] = t})

\* Active bookings other than self that meet [from, to) and hold the bed.
bedOverlaps(bed, self, from, to) ==
  {c \in Bookings \ {self} : /\ isActive(booking[c])
                             /\ booking[c].bed = bed
                             /\ Overlaps(booking[c], from, to)}

\* The same for bookings of the template, whatever bed they hold.
templateOverlaps(t, self, from, to) ==
  {c \in Bookings \ {self} : /\ isActive(booking[c])
                             /\ booking[c].tpl = t
                             /\ Overlaps(booking[c], from, to)}

\* What the PATCH handler calls a conflict: any status, both ends inclusive,
\* and for a booking without a bed every other booking without one.
patchConflicts(bed, self, from, to) ==
  {c \in Bookings \ {self} : /\ exists(c)
                             /\ booking[c].bed = bed
                             /\ booking[c].from <= to
                             /\ booking[c].to >= from}

\* Rows under the partial predicate of the exclusion constraint.
holdsBed(row) == isActive(row) /\ row.bed # None

\* tsrange && tsrange: an empty range meets nothing.
rangesMeet(row1, row2) ==
  /\ row1.from < row1.to /\ row2.from < row2.to
  /\ row1.from < row2.to /\ row2.from < row1.to

\* A mutant for the checks: a unique index on bed and check-in day instead of
\* the exclusion constraint.
admissibleByCheckIn(b, row) ==
  holdsBed(row) =>
    \A c \in Bookings \ {b} :
      holdsBed(booking[c]) /\ booking[c].bed = row.bed => row.from # booking[c].from

\* booking_no_double_bed accepts the row.  A range that ends before it starts
\* is an error of tsrange itself.
admissible(b, row) ==
  holdsBed(row) =>
    /\ row.from <= row.to
    /\ \A c \in Bookings \ {b} :
         holdsBed(booking[c]) /\ booking[c].bed = row.bed
           => ~rangesMeet(row, booking[c])

\* An UPDATE or INSERT of one row: it takes effect or the database refuses it,
\* and the handler fails.
Store(b, row) ==
  booking' = IF admissible(b, row) THEN [booking EXCEPT ![b] = row] ELSE booking

-----------------------------------------------------------------------------
(* Request slots. *)

Idle == [op |-> "none", stage |-> "idle", guest |-> None, b |-> None,
         seen |-> "NONE", bed |-> None, tpl |-> None, from |-> 0, to |-> 0,
         mode |-> "OFFLINE", key |-> None]

Stages == {"idle", "lock", "count", "write"}

RequestSlot ==
  [op : Operations \cup {"none"}, stage : Stages,
   guest : Guests \cup {None},           \* the guest who creates a booking
   b : Bookings \cup {None},
   seen : BookingStatus \cup {"NONE"},   \* the status the handler decided on
   bed : Beds \cup {None},               \* the bed it assigns, or the bed it read
   tpl : Templates \cup {None},
   from : Days, to : Days, mode : PaymentMode,
   key : Keys \cup {None}]

Begin(r, slot) ==
  /\ req[r].stage = "idle"
  /\ slot.op \in Traffic
  /\ req' = [req EXCEPT ![r] = slot]

At(r, op, stage) == req[r].op = op /\ req[r].stage = stage

Goto(r, stage) == req' = [req EXCEPT ![r].stage = stage]

Respond(r) == req' = [req EXCEPT ![r] = Idle]

\* A handler that is under way ends without its write: an assertion refuses,
\* the database or a cache throws, the transaction times out, the process dies.
Abandon(r) ==
  /\ req[r].stage # "idle"
  /\ Respond(r)
  /\ UNCHANGED <<today, booking, sweep, lock>>

-----------------------------------------------------------------------------
(* createBooking: POST / *)

keyUsed(k) == \E b \in Bookings : booking[b].key = k

\* The key is looked up outside the transaction.  A used one replays the stored
\* response, which changes nothing.  The start may lie a day back: it is
\* compared with the clock minus 24 hours.
CreateBookingReceive(r, g, k, t, stay, mode) ==
  /\ ~keyUsed(k)
  /\ stay[1] >= today - 1
  /\ stay[1] < stay[2]
  /\ Begin(r, [Idle EXCEPT !.op = "create", !.stage = "lock", !.guest = g, !.key = k,
                           !.tpl = t, !.from = stay[1], !.to = stay[2],
                           !.mode = mode])
  /\ UNCHANGED <<today, booking, sweep, lock>>

\* A mutant for the checks: the count runs without the row lock.
templateNeverLocked(t) == FALSE

\* Transactions past SELECT ... FOR NO KEY UPDATE on the template row.
templateLocked(t) == \E r \in Requests : At(r, "create", "write") /\ req[r].tpl = t

\* Locks the template row and counts, in the same transaction, the bookings that
\* row-level security lets the guest see.
CreateBookingCount(r) ==
  /\ At(r, "create", "lock")
  /\ ~templateLocked(req[r].tpl)
  /\ Cardinality(templateOverlaps(req[r].tpl, None, req[r].from, req[r].to)
                   \cap visible(req[r].guest)) < TotalBeds[req[r].tpl]
  /\ Goto(r, "write")
  /\ UNCHANGED <<today, booking, sweep, lock>>

\* A mutant for the checks: IdempotencyKey.key is not unique.
CreateBookingCommitAnyKey(r, b) ==
  /\ At(r, "create", "write")
  /\ ~exists(b)
  /\ Store(b, [NoRow EXCEPT !.st = "PENDING", !.guest = req[r].guest,
                            !.tpl = req[r].tpl,
                            !.from = req[r].from, !.to = req[r].to,
                            !.nights = billedNights(req[r].from, req[r].to),
                            !.mode = req[r].mode, !.key = req[r].key])
  /\ Respond(r)
  /\ UNCHANGED <<today, sweep, lock>>

\* Inserts the booking and the key, and commits; IdempotencyKey.key is unique.
CreateBookingCommit(r, b) ==
  /\ At(r, "create", "write")
  /\ ~exists(b)
  /\ ~keyUsed(req[r].key)
  /\ Store(b, [NoRow EXCEPT !.st = "PENDING", !.guest = req[r].guest,
                            !.tpl = req[r].tpl,
                            !.from = req[r].from, !.to = req[r].to,
                            !.nights = billedNights(req[r].from, req[r].to),
                            !.mode = req[r].mode, !.key = req[r].key])
  /\ Respond(r)
  /\ UNCHANGED <<today, sweep, lock>>

-----------------------------------------------------------------------------
(* Handlers that read a booking, decide on its status, and then write a     *)
(* status into it by id alone.                                              *)

Decide(r, op, b) ==
  /\ exists(b)
  /\ Begin(r, [Idle EXCEPT !.op = op, !.stage = "write", !.b = b,
                           !.seen = booking[b].st])
  /\ UNCHANGED <<today, booking, sweep, lock>>

WriteStatus(r, op, status) ==
  /\ At(r, op, "write")
  /\ Store(req[r].b, [booking[req[r].b] EXCEPT !.st = status])
  /\ Respond(r)
  /\ UNCHANGED <<today, sweep, lock>>

CancelBookingRead(r, b) ==
  assertGuestCancellable(booking[b], today) /\ Decide(r, "cancelGuest", b)

\* Writes with the plain client: a row it cannot see makes the handler fail, which
\* is Abandon.
CancelBookingWrite(r) == Exempt /\ WriteStatus(r, "cancelGuest", "CANCELLED")

CancelAdminBookingRead(r, b) ==
  assertAdminCancellable(booking[b], today) /\ Decide(r, "cancelAdmin", b)

CancelAdminBookingWrite(r) == WriteStatus(r, "cancelAdmin", "CANCELLED")

UpdateBookingStatusRead(r, b) ==
  /\ assertRejectable(booking[b])
  /\ Decide(r, "approve", b) \/ Decide(r, "reject", b)

\* A mutant for the checks: the action of the request is stored as the status.
UpdateBookingStatusWriteAction(r) ==
  WriteStatus(r, "approve", "APPROVED") \/ WriteStatus(r, "reject", "REJECTED")

UpdateBookingStatusWrite(r) ==
  WriteStatus(r, "approve", "CONFIRMED") \/ WriteStatus(r, "reject", "REJECTED")

\* verifyRazorpayPayment, signature mismatch: no status is looked at.
VerifyFailedRead(r, b) == Decide(r, "verifyFailed", b)

VerifyFailedWrite(r) == WriteStatus(r, "verifyFailed", "CANCELLED")

-----------------------------------------------------------------------------
(* assignBookingBed: the booking, the bed, the overlap count and the update  *)
(* are separate statements; the bed row is not locked.                       *)

AssignBedRead(r, b, bed) ==
  /\ exists(b)
  /\ Begin(r, [Idle EXCEPT !.op = "assign", !.stage = "count", !.b = b,
                           !.bed = bed, !.from = booking[b].from,
                           !.to = booking[b].to, !.tpl = booking[b].tpl,
                           !.seen = booking[b].st])
  /\ UNCHANGED <<today, booking, sweep, lock>>

AssignBedCount(r) ==
  /\ At(r, "assign", "count")
  /\ assertBedAssignable([st |-> req[r].seen, tpl |-> req[r].tpl],
                         [tpl |-> BedTemplate[req[r].bed],
                          deleted |-> req[r].bed \in RetiredBeds],
                         Cardinality(bedOverlaps(req[r].bed, req[r].b,
                                                 req[r].from, req[r].to)))
  /\ Goto(r, "write")
  /\ UNCHANGED <<today, booking, sweep, lock>>

AssignBedWrite(r) ==
  /\ At(r, "assign", "write")
  /\ Store(req[r].b, [booking[req[r].b] EXCEPT !.bed = req[r].bed])
  /\ Respond(r)
  /\ UNCHANGED <<today, sweep, lock>>

-----------------------------------------------------------------------------
(* updateGuestBookingDates and updateAdminBookingDates, by way of            *)
(* applyBookingDateChange.  The template row is not locked.                  *)

DateChangeRead(r, b, stay) ==
  \E op \in {"moveGuest", "moveAdmin"} :
    /\ exists(b)
    /\ assertDateChangeAllowed(booking[b],
                               IF op = "moveGuest" THEN "GUEST" ELSE "ADMIN",
                               stay[1], stay[2], today)
    /\ Begin(r, [Idle EXCEPT !.op = op, !.stage = "count", !.b = b,
                             !.bed = booking[b].bed, !.tpl = booking[b].tpl,
                             !.from = stay[1], !.to = stay[2]])
    /\ UNCHANGED <<today, booking, sweep, lock>>

AtMove(r, stage) == At(r, "moveGuest", stage) \/ At(r, "moveAdmin", stage)

\* With a bed only the bed is looked at, without one only the template; a guest's
\* client counts the guest's own bookings.
DateChangeCount(r) ==
  LET q == req[r]
      counted == IF q.op = "moveGuest" THEN visible(booking[q.b].guest) ELSE Bookings
  IN /\ AtMove(r, "count")
     /\ IF q.bed # None
        THEN bedOverlaps(q.bed, q.b, q.from, q.to) \cap counted = {}
        ELSE Cardinality(templateOverlaps(q.tpl, q.b, q.from, q.to) \cap counted)
               < bedRows(q.tpl)
     /\ Goto(r, "write")
     /\ UNCHANGED <<today, booking, sweep, lock>>

\* A mutant for the checks: the dates move and totalPrice stays.
DateChangeWriteUnpriced(r) ==
  /\ AtMove(r, "write")
  /\ Store(req[r].b, [booking[req[r].b] EXCEPT !.from = req[r].from, !.to = req[r].to])
  /\ Respond(r)
  /\ UNCHANGED <<today, sweep, lock>>

DateChangeWrite(r) ==
  /\ AtMove(r, "write")
  /\ Store(req[r].b, [booking[req[r].b] EXCEPT
                        !.from = req[r].from, !.to = req[r].to,
                        !.nights = billedNights(req[r].from, req[r].to)])
  /\ Respond(r)
  /\ UNCHANGED <<today, sweep, lock>>

-----------------------------------------------------------------------------
(* updateUserBooking: PATCH /:bookingId.  Neither status, nor calendar, nor  *)
(* the order of the two dates is checked, and the price stays.  It reads     *)
(* with the plain client.                                                    *)

PatchRead(r, b, stay) ==
  /\ exists(b)
  /\ b \in visibleToPlain
  /\ Begin(r, [Idle EXCEPT !.op = "patch", !.stage = "count", !.b = b,
                           !.bed = booking[b].bed,
                           !.from = stay[1], !.to = stay[2]])
  /\ UNCHANGED <<today, booking, sweep, lock>>

PatchCount(r) ==
  /\ At(r, "patch", "count")
  /\ patchConflicts(req[r].bed, req[r].b, req[r].from, req[r].to) = {}
  /\ Goto(r, "write")
  /\ UNCHANGED <<today, booking, sweep, lock>>

PatchWrite(r) ==
  /\ At(r, "patch", "write")
  /\ Store(req[r].b, [booking[req[r].b] EXCEPT !.from = req[r].from, !.to = req[r].to])
  /\ Respond(r)
  /\ UNCHANGED <<today, sweep, lock>>

-----------------------------------------------------------------------------
(* markAdminPaymentPaid, as far as the booking row goes. *)

MarkPaidRead(r, b) ==
  assertMarkPaidAllowed(booking[b]) /\ Decide(r, "markPaid", b)

MarkPaidWrite(r) ==
  /\ At(r, "markPaid", "write")
  /\ Store(req[r].b, [booking[req[r].b] EXCEPT !.payment = "PAID"])
  /\ Respond(r)
  /\ UNCHANGED <<today, sweep, lock>>

-----------------------------------------------------------------------------
(* The lifecycle sweep, under a Redis lock with a time to live.  All its      *)
(* queries are made with the plain client.  A slot forgets what the sweep no  *)
(* longer uses.                                                               *)

Asleep == [stage |-> "idle", day |-> 0, started |-> {}, ended |-> {}]

SweepSlot ==
  [stage : {"idle", "listEnded", "writeStarted", "writeEnded", "release"},
   day : Days, started : SUBSET Bookings, ended : SUBSET Bookings]

\* A mutant for the checks: the first query does not ask for a bed.
SweepStartAnyBed(s) ==
  /\ sweep[s].stage = "idle"
  /\ ~lock
  /\ lock' = TRUE
  /\ sweep' = [sweep EXCEPT ![s] =
       [stage |-> "listEnded", day |-> today, ended |-> {},
        started |-> {b \in visibleToPlain : /\ booking[b].st = "CONFIRMED"
                                            /\ hasStarted(booking[b].from, today)}]]
  /\ UNCHANGED <<today, booking, req>>

\* SET NX, then istTodayKey and the first query.
SweepStart(s) ==
  /\ sweep[s].stage = "idle"
  /\ ~lock
  /\ lock' = TRUE
  /\ sweep' = [sweep EXCEPT ![s] =
       [stage |-> "listEnded", day |-> today, ended |-> {},
        started |-> {b \in visibleToPlain : /\ booking[b].st = "CONFIRMED"
                                            /\ booking[b].bed # None
                                            /\ hasStarted(booking[b].from, today)}]]
  /\ UNCHANGED <<today, booking, req>>

SweepListEnded(s) ==
  /\ sweep[s].stage = "listEnded"
  /\ sweep' = [sweep EXCEPT ![s].stage = "writeStarted", ![s].day = 0,
                            ![s].ended = {b \in visibleToPlain :
                               /\ booking[b].st = "ONGOING"
                               /\ hasEnded(booking[b].to, sweep[s].day)}]
  /\ UNCHANGED <<today, booking, req, lock>>

\* updateMany with the old status in its WHERE clause; the dates are not.
Advance(listed, old, new) ==
  booking' = [b \in Bookings |->
                IF b \in listed \cap visibleToPlain /\ booking[b].st = old
                THEN [booking[b] EXCEPT !.st = new]
                ELSE booking[b]]

SweepWriteStarted(s) ==
  /\ sweep[s].stage = "writeStarted"
  /\ Advance(sweep[s].started, "CONFIRMED", "ONGOING")
  /\ sweep' = [sweep EXCEPT ![s].stage = "writeEnded", ![s].started = {}]
  /\ UNCHANGED <<today, req, lock>>

SweepWriteEnded(s) ==
  /\ sweep[s].stage = "writeEnded"
  /\ Advance(sweep[s].ended, "ONGOING", "COMPLETED")
  /\ sweep' = [sweep EXCEPT ![s].stage = "release", ![s].ended = {}]
  /\ UNCHANGED <<today, req, lock>>

\* finally: DEL, whoever holds the lock by now.  A query that throws ends here.
SweepRelease(s) ==
  /\ sweep[s].stage # "idle"
  /\ sweep' = [sweep EXCEPT ![s] = Asleep]
  /\ lock' = FALSE
  /\ UNCHANGED <<today, booking, req>>

\* The process dies and restarts: the lock stays until it expires.
SweepCrash(s) ==
  /\ sweep[s].stage # "idle"
  /\ sweep' = [sweep EXCEPT ![s] = Asleep]
  /\ UNCHANGED <<today, booking, req, lock>>

\* A mutant for the checks: the lock is set without a time to live.
LockStays == lock /\ FALSE /\ UNCHANGED vars

LockExpires ==
  /\ lock
  /\ lock' = FALSE
  /\ UNCHANGED <<today, booking, req, sweep>>

-----------------------------------------------------------------------------

\* Midnight IST.  The calendar of an instance ends at MaxDay.
Midnight ==
  /\ today < MaxDay
  /\ today' = today + 1
  /\ UNCHANGED <<booking, req, sweep, lock>>

Init ==
  /\ today = 0
  /\ booking = [b \in Bookings |-> NoRow]
  /\ req = [r \in Requests |-> Idle]
  /\ sweep = [s \in Sweepers |-> Asleep]
  /\ lock = FALSE

CreateBooking(r) ==
  \/ \E g \in Guests, k \in Keys, t \in Templates, stay \in Stays, mode \in Modes :
       CreateBookingReceive(r, g, k, t, stay, mode)
  \/ CreateBookingCount(r)
  \/ \E b \in Bookings : CreateBookingCommit(r, b)

ChangeStatus(r) ==
  \/ \E b \in Bookings : \/ CancelBookingRead(r, b)
                         \/ CancelAdminBookingRead(r, b)
                         \/ UpdateBookingStatusRead(r, b)
                         \/ VerifyFailedRead(r, b)
  \/ CancelBookingWrite(r)
  \/ CancelAdminBookingWrite(r)
  \/ UpdateBookingStatusWrite(r)
  \/ VerifyFailedWrite(r)

AssignBed(r) ==
  \/ \E b \in Bookings, bed \in Beds : AssignBedRead(r, b, bed)
  \/ AssignBedCount(r)
  \/ AssignBedWrite(r)

ChangeDates(r) ==
  \/ \E b \in Bookings, stay \in Stays : DateChangeRead(r, b, stay) \/ PatchRead(r, b, stay)
  \/ DateChangeCount(r) \/ DateChangeWrite(r)
  \/ PatchCount(r) \/ PatchWrite(r)

MarkPaid(r) == (\E b \in Bookings : MarkPaidRead(r, b)) \/ MarkPaidWrite(r)

Handler(r) == \/ CreateBooking(r) \/ ChangeStatus(r) \/ AssignBed(r)
              \/ ChangeDates(r) \/ MarkPaid(r) \/ Abandon(r)

Sweep(s) == \/ SweepStart(s) \/ SweepListEnded(s)
            \/ SweepWriteStarted(s) \/ SweepWriteEnded(s)
            \/ SweepRelease(s) \/ SweepCrash(s)

Next == \/ \E r \in Requests : Handler(r)
        \/ \E s \in Sweepers : Sweep(s)
        \/ LockExpires
        \/ Midnight

Spec == Init /\ [][Next]_vars

\* The cron fires every day and at every start of a process, the lock expires, a
\* sweep ends, and no query of the sweep fails every single time.  Nothing is
\* assumed of clients.
SweepFairness ==
  /\ WF_vars(LockExpires)
  /\ \A s \in Sweepers : /\ SF_vars(SweepStart(s))
                         /\ SF_vars(SweepListEnded(s))
                         /\ SF_vars(SweepWriteStarted(s))
                         /\ SF_vars(SweepWriteEnded(s))
                         /\ WF_vars(SweepRelease(s))

FairSpec == Spec /\ SweepFairness

-----------------------------------------------------------------------------
(* What must hold. *)

TypeOK ==
  /\ today \in Days
  /\ booking \in [Bookings -> BookingRow]
  /\ req \in [Requests -> RequestSlot]
  /\ sweep \in [Sweepers -> SweepSlot]
  /\ lock \in BOOLEAN

\* What a handler may rely on between its statements: rows are never deleted,
\* and what it decided on was fit to decide on when it was read.
SlotsRemember ==
  \A r \in Requests :
    /\ req[r].b # None => exists(req[r].b)
    /\ req[r].op # "none" => req[r].op \in Traffic
    /\ req[r].op = "create" => req[r].tpl \in Templates
    /\ req[r].op = "assign" => req[r].bed \in Beds
    /\ req[r].op = "patch" => Exempt
    /\ req[r].op \in {"cancelGuest", "cancelAdmin", "approve", "reject"}
         => req[r].seen \in ACTIVE_BOOKING_STATUSES

\* Whatever handlers interleave, stale decisions included, no night of a bed is
\* promised to two active bookings (prisma migration of the booking engine v2,
\* README "Preventing double booking").
BedExclusive ==
  \A b, c \in Bookings :
    /\ b # c
    /\ holdsBed(booking[b]) /\ holdsBed(booking[c])
    /\ booking[b].bed = booking[c].bed
    => Nights(booking[b]) \cap Nights(booking[c]) = {}

\* Retries and double submissions of one idempotency key, in flight at the same
\* time or one after the other, create one booking (README "Idempotency").
OneBookingPerKey ==
  \A b, c \in Bookings :
    b # c /\ exists(b) /\ exists(c) => booking[b].key # booking[c].key

\* Nobody is checked in, and no stay is completed, without a bed: the sweep acts
\* on a list that may be old, but a bed is never taken away.
StayHasBed ==
  \A b \in Bookings :
    booking[b].st \in {"ONGOING", "COMPLETED"} => booking[b].bed # None

\* A cancelled, rejected or completed booking comes back, or changes its ending,
\* only through a handler that had read it while it was still active, a lost
\* update; or it is cancelled by the one handler that looks at no status, payment
\* verification with a wrong signature.
TerminalUndoneOnlyByStaleDecision ==
  [][\A b \in Bookings :
       /\ booking[b].st \in TERMINAL_BOOKING_STATUSES
       /\ booking'[b].st # booking[b].st
       => \E r \in Requests : /\ req[r].stage = "write" /\ req[r].b = b
                              /\ req'[r] = Idle
                              /\ \/ req[r].seen \in ACTIVE_BOOKING_STATUSES
                                 \/ /\ req[r].op = "verifyFailed"
                                    /\ booking'[b].st = "CANCELLED"]_vars

\* The active bookings of a template on a night.
occupants(t, d) == {b \in Bookings : /\ isActive(booking[b]) /\ booking[b].tpl = t
                                     /\ d \in Nights(booking[b])}

\* Of the bookings a guest sees, no night has more active ones of a template than
\* the template has beds.  That is what createBooking's count under the template
\* lock gives: creations in flight together do not pass on one last bed, as long
\* as they see each other's bookings.  Handlers that bring a booking back or move
\* it do not take that lock.
NoOversellInView ==
  \A g \in Guests, t \in Templates, d \in Days :
    Cardinality(occupants(t, d) \cap visible(g)) <= TotalBeds[t]

\* No night has more active bookings of a template than the template has beds:
\* createBooking's comment says that the row lock keeps two concurrent guests from
\* both passing the count.
NoOversell ==
  \A t \in Templates, d \in Days : Cardinality(occupants(t, d)) <= TotalBeds[t]

\* The price stored with a booking is the price of its dates (README "Booking
\* lifecycle"), also when the guest and the admin move it at the same time and
\* whatever the PATCH route gets to do.
PriceMatchesDates ==
  \A b \in Bookings :
    exists(b) => booking[b].nights = billedNights(booking[b].from, booking[b].to)

\* Once a booking is due (normalizeBookingStatus shows readers another status
\* than the stored one), sweeps that see the bookings store the status readers are
\* shown, in spite of crashes, expired locks and overlapping sweepers
\* (sweepBookingLifecycle).
SweepCatchesUp ==
  \A b \in Bookings :
    normalizeBookingStatus(booking[b], today, None) # booking[b].st
      ~> normalizeBookingStatus(booking[b], today, None) = booking[b].st

\* The bed-nights a row holds, and each booking with it.
bedNights(row) == IF holdsBed(row) THEN {row.bed} \X Nights(row) ELSE {}

bedNightsHeld == [b \in Bookings |-> bedNights(booking[b])]

Calendar == INSTANCE BedCalendar WITH BedNights <- Beds \X Days, held <- bedNightsHeld

\* Every step of the booking engine is a step of the bed calendar: one booking
\* exchanges bed-nights for free ones, or some give all of theirs back.
KeepsBedCalendar == Calendar!Spec
=============================================================================
