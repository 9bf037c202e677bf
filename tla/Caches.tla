------------------------------- MODULE Caches -------------------------------
(***************************************************************************)
(* The read-through and write-through copies in Redis (lib/redis) and the    *)
(* handlers that fill, overwrite and delete them around their queries.      *)
(*                                                                         *)
(* A handler is the program of its awaited steps: every await is a point     *)
(* where others go on.  One row stands for each table; a write gives it a     *)
(* new version, and what a key holds is the versions it was made from.       *)
(***************************************************************************)
EXTENDS Naturals, Sequences

CONSTANTS
  Requests,    \* slots for requests in progress
  Workloads,   \* sets of handlers that are called together
  MaxVersion,  \* bound: writes of each table
  None         \* null

VARIABLES
  offered,   \* the handlers of this behaviour
  db,        \* the version of each table
  cached,    \* what each key of Redis holds, or None
  request,   \* the request in progress in each slot
  missed,    \* history: keys left as they were by a request that failed after its
             \* write, or by a handler that forgets them
  overlapped \* history: two requests have been in progress at once

vars == <<offered, db, cached, request, missed, overlapped>>

-----------------------------------------------------------------------------
(* The keys, and the tables whose writers keep each of them up to date.  What  *)
(* a copy embeds of other tables is left to its expiry.                       *)

\* The columns of User have different writers: avatar, phoneNo, and the rest.
Tables ==
  {"profile", "avatar", "phone", "tenant", "property", "template", "room", "booking"}

Keeps == [
  session            |-> {"profile"},
  user               |-> {"profile", "avatar", "phone"},
  tenant             |-> {"tenant"},
  property           |-> {"property"},
  roomTemplates      |-> {"template"},
  roomTemplateDetail |-> {"template", "room"},
  occupancy          |-> {"booking"}]

Keys == DOMAIN Keeps

-----------------------------------------------------------------------------
(* The steps of a handler.  Queries that only authorise are left out.  A key is  *)
(* set from the row its last write returned, or from what was read for it.       *)

Get(key)        == [op |-> "get", key |-> key, of |-> "none", tables |-> {}]
Read(key)       == [op |-> "read", key |-> key, of |-> "none", tables |-> {}]
Write(tables)   == [op |-> "write", key |-> "none", of |-> "none", tables |-> tables]
Put(key)        == [op |-> "set", key |-> key, of |-> "row", tables |-> {}]
Fill(key)       == [op |-> "set", key |-> key, of |-> "seen", tables |-> {}]
Del(key)        == [op |-> "del", key |-> key, of |-> "none", tables |-> {}]
Scan(key)       == [op |-> "scan", key |-> key, of |-> "none", tables |-> {}]
DelScanned(key) == [op |-> "delScanned", key |-> key, of |-> "none", tables |-> {}]

readThrough(key) == <<Get(key), Read(key), Fill(key)>>

\* A mutant for the checks: DEL of the pattern, which matches no key.
deletePattern == <<Scan("occupancy")>>

deleteOccupancyCache == <<Scan("occupancy"), DelScanned("occupancy")>>

getPropertyDetail == readThrough("property")
createProperty    == <<Write({"property"}), Put("property")>>
updateProperty    == <<Write({"property"}), Put("property")>>
deleteProperty    == <<Write({"property"}), Del("property")>>

clearTemplates == <<Del("roomTemplates"), Del("roomTemplateDetail")>>

getRoomTemplates      == readThrough("roomTemplates")
getRoomTemplateDetail == readThrough("roomTemplateDetail")
createRoomTemplate    == <<Write({"template"})>> \o clearTemplates

\* The caller's own bookings of the property go first: see BackOffice.
deleteRoomTemplate == <<Write({"booking"}), Write({"template"})>> \o clearTemplates

\* The price of the rooms is a statement of its own, sent along with the first.
updateRoomTemplate == <<Write({"template"}), Write({"room"})>> \o clearTemplates

sessionMiddleware == readThrough("session")
authBridge        == readThrough("session")
logout            == <<Del("user"), Del("session")>>

\* On a miss the email that Auth0 gives is written to the row.
loginUser == <<Get("user"), Write({"profile"}), Put("user")>>

updateUserProfile == <<Write({"profile", "phone"}), Put("user"), Put("session")>>
updateAvatar      == <<Write({"avatar"}), Del("user")>>
deleteUser        == <<Write({"profile"})>> \o logout

\* The role of the user changes before the tenant is there.
createTenant ==
  <<Write({"profile"}), Put("session"), Write({"tenant"}), Read("user"), Fill("user"), Put("tenant")>>

\* A mutant for the checks: the copy is of a read before the update.
updateTenantAsRead == <<Read("tenant"), Write({"tenant"}), Fill("tenant")>>

getTenantDetail     == readThrough("tenant")
updateTenant        == <<Write({"tenant"}), Put("tenant")>>
updateTenantProfile == <<Write({"tenant"}), Del("tenant")>>

getOccupancy  == readThrough("occupancy")

\* So do the other handlers of booking.controller.ts that change a booking, but for
\* updateUserBooking, and the lifecycle job.
cancelBooking == <<Write({"booking"})>> \o deleteOccupancyCache
settleRefund  == <<Write({"booking"})>> \o deleteOccupancyCache

\* With the phone number of a guest who had none.
createBooking ==
  <<Write({"booking", "phone"}), Del("roomTemplateDetail")>> \o deleteOccupancyCache

updateUserBooking     == <<Write({"booking"})>>
verifyRazorpayPayment == <<Write({"booking"})>>
handleOrderPaid       == <<Write({"booking"})>>
handlePaymentFailed   == <<Write({"booking"})>>
invoiceWorker         == <<Write({"booking"})>>

Program == [
  getPropertyDetail |-> getPropertyDetail, createProperty |-> createProperty,
  updateProperty |-> updateProperty, deleteProperty |-> deleteProperty,
  getRoomTemplates |-> getRoomTemplates, getRoomTemplateDetail |-> getRoomTemplateDetail,
  createRoomTemplate |-> createRoomTemplate, updateRoomTemplate |-> updateRoomTemplate,
  deleteRoomTemplate |-> deleteRoomTemplate,
  sessionMiddleware |-> sessionMiddleware, authBridge |-> authBridge,
  logout |-> logout, loginUser |-> loginUser, updateUserProfile |-> updateUserProfile,
  updateAvatar |-> updateAvatar, deleteUser |-> deleteUser,
  createTenant |-> createTenant, getTenantDetail |-> getTenantDetail,
  updateTenant |-> updateTenant, updateTenantProfile |-> updateTenantProfile,
  getOccupancy |-> getOccupancy, cancelBooking |-> cancelBooking,
  settleRefund |-> settleRefund, createBooking |-> createBooking,
  updateUserBooking |-> updateUserBooking,
  verifyRazorpayPayment |-> verifyRazorpayPayment,
  handleOrderPaid |-> handleOrderPaid, handlePaymentFailed |-> handlePaymentFailed,
  invoiceWorker |-> invoiceWorker]

Handlers == DOMAIN Program

\* Keys a handler forgets.  loginUser leaves session:<sub>, with its email, as it is;
\* createBooking deletes user:<id> where the key is user:<sub>; the others leave every
\* occupancy window to its 300 seconds.
forgets(h) ==
  IF h = "loginUser" THEN {"session"}
  ELSE IF h = "createBooking" THEN {"user"}
  ELSE IF h \in {"updateUserBooking", "verifyRazorpayPayment", "handleOrderPaid",
                 "handlePaymentFailed", "invoiceWorker", "deleteRoomTemplate"}
       THEN {"occupancy"}
       ELSE {}

ASSUME CachesAssumption ==
  /\ Workloads \subseteq SUBSET Handlers
  /\ MaxVersion \in Nat

-----------------------------------------------------------------------------

\* Of some tables.
isVersions(v) == DOMAIN v \subseteq Tables /\ \A t \in DOMAIN v : v[t] \in Nat

\* What a key holds; late: outdated when it was stored.
Copy(key) == [of : [Keeps[key] -> Nat], late : BOOLEAN]

\* The slot of a request at step n of handler h that has read and written nothing.
slotAt(h, n) == [handler |-> h, at |-> n, row |-> None, seen |-> None, scanned |-> FALSE]

NoRequest == slotAt(None, 0)

busy(r) == request[r] # NoRequest

OneAtATime == \A q, r \in Requests : busy(q) /\ busy(r) => q = r

steps(r) == Program[request[r].handler]

step(r) == steps(r)[request[r].at]

done(r) == {steps(r)[i] : i \in 1 .. request[r].at - 1}

toDo(r) == {steps(r)[i] : i \in request[r].at .. Len(steps(r))}

\* Keys a request has yet to bring up to date with what it wrote.
owed(r) ==
  {key \in Keys : /\ \E s \in done(r) : s.op = "write" /\ s.tables \cap Keeps[key] # {}
                  /\ \E s \in toDo(r) : s.op \in {"set", "del", "delScanned"} /\ s.key = key}

\* A mutant for the checks: the last step is not the end.
AdvanceOn(r, slot) == request' = [request EXCEPT ![r] = [slot EXCEPT !.at = @ + 1]]

\* On to the next await, or the response.
Advance(r, slot) ==
  request' = [request EXCEPT ![r] =
    IF slot.at = Len(steps(r)) THEN NoRequest ELSE [slot EXCEPT !.at = @ + 1]]

Call(r, h) ==
  /\ ~busy(r)
  /\ request' = [request EXCEPT ![r] = slotAt(h, 1)]
  /\ UNCHANGED <<db, cached, missed>>

\* A hit is the response.
GetKey(r) ==
  /\ step(r).op = "get"
  /\ IF cached[step(r).key] = None
     THEN Advance(r, request[r])
     ELSE request' = [request EXCEPT ![r] = NoRequest]
  /\ UNCHANGED <<db, cached, missed>>

Query(r) ==
  /\ step(r).op = "read"
  /\ Advance(r, [request[r] EXCEPT !.seen = [t \in Keeps[step(r).key] |-> db[t]]])
  /\ UNCHANGED <<db, cached, missed>>

\* What a write has to return for the keys that are set from its row.
returned(r) ==
  UNION {Keeps[s.key] : s \in {x \in toDo(r) : x.op = "set" /\ x.of = "row"}}

written(r) == [t \in Tables |-> IF t \in step(r).tables THEN db[t] + 1 ELSE db[t]]

\* One statement or transaction.
Mutate(r) ==
  /\ step(r).op = "write"
  /\ \A t \in step(r).tables : db[t] < MaxVersion
  /\ db' = written(r)
  /\ missed' = missed \cup {key \in forgets(request[r].handler) : cached[key] # None}
  /\ Advance(r, [request[r] EXCEPT !.row = [t \in returned(r) |-> written(r)[t]]])
  /\ UNCHANGED cached

outdated(key, copy) == \E t \in Keeps[key] : copy[t] # db[t]

SetKey(r) ==
  /\ step(r).op = "set"
  /\ LET key  == step(r).key
         row  == IF step(r).of = "row" THEN request[r].row ELSE request[r].seen
         copy == [t \in Keeps[key] |-> row[t]]
     IN /\ cached' = [cached EXCEPT ![key] = [of |-> copy, late |-> outdated(key, copy)]]
        /\ missed' = missed \ {key}
  /\ Advance(r, request[r])
  /\ UNCHANGED db

Remove(key) ==
  /\ cached' = [cached EXCEPT ![key] = None]
  /\ missed' = missed \ {key}

DelKey(r) ==
  /\ step(r).op = "del"
  /\ Remove(step(r).key)
  /\ Advance(r, request[r])
  /\ UNCHANGED db

\* SCAN returns the keys of the property that are there all along.
ScanKeys(r) ==
  /\ step(r).op = "scan"
  /\ Advance(r, [request[r] EXCEPT !.scanned = cached[step(r).key] # None])
  /\ UNCHANGED <<db, cached, missed>>

DelScannedKeys(r) ==
  /\ step(r).op = "delScanned"
  /\ IF request[r].scanned THEN Remove(step(r).key) ELSE UNCHANGED <<cached, missed>>
  /\ Advance(r, request[r])
  /\ UNCHANGED db

\* A query or Redis fails, or the process dies.
Fail(r) ==
  /\ missed' = missed \cup {key \in owed(r) : cached[key] # None}
  /\ request' = [request EXCEPT ![r] = NoRequest]
  /\ UNCHANGED <<db, cached>>

\* EX 3600, and EX 300 of an occupancy.
Expire(key) ==
  /\ cached[key] # None
  /\ Remove(key)
  /\ UNCHANGED <<db, request>>

-----------------------------------------------------------------------------

Init ==
  /\ offered \in Workloads
  /\ db = [t \in Tables |-> 0]
  /\ cached = [key \in Keys |-> None]
  /\ request = [r \in Requests |-> NoRequest]
  /\ missed = {}
  /\ overlapped = FALSE

Step(r) ==
  \/ GetKey(r) \/ Query(r) \/ Mutate(r) \/ SetKey(r) \/ DelKey(r)
  \/ ScanKeys(r) \/ DelScannedKeys(r) \/ Fail(r)

Next ==
  /\ \/ \E r \in Requests : \/ \E h \in offered : Call(r, h)
                            \/ busy(r) /\ Step(r)
     \/ \E key \in Keys : Expire(key)
  /\ UNCHANGED offered
  /\ overlapped' = (overlapped \/ ~OneAtATime')

Spec == Init /\ [][Next]_vars

-----------------------------------------------------------------------------
(* What must hold. *)

TypeOK ==
  /\ offered \in Workloads
  /\ db \in [Tables -> Nat]
  /\ DOMAIN cached = Keys
  /\ \A key \in Keys : cached[key] \in Copy(key) \cup {None}
  /\ DOMAIN request = Requests
  /\ \A r \in Requests : busy(r) =>
       /\ request[r].handler \in offered
       /\ request[r].at \in 1 .. Len(steps(r))
       /\ request[r].row # None => isVersions(request[r].row)
       /\ request[r].seen # None => isVersions(request[r].seen)
       /\ request[r].scanned \in BOOLEAN
  /\ missed \subseteq Keys
  /\ overlapped \in BOOLEAN

\* A copy is never outdated without a reason that its expiry is there for: it was
\* outdated when it was stored, by a request that overlapped with a write, or the
\* writer failed before it got to the key, or is one of the eight that forgets names.
\* No other writer of a table forgets a key that is kept up to date with it, and none
\* forgets another key (the client.set and client.del of the controllers,
\* deleteOccupancyCache).
NoForgottenInvalidation ==
  \A key \in Keys :
    /\ cached[key] # None
    /\ ~cached[key].late
    /\ key \notin missed
    /\ \A r \in Requests : busy(r) => key \notin owed(r)
    => ~outdated(key, cached[key].of)

\* As long as requests have not overlapped, Redis agrees with the tables whenever none is in
\* progress, but for the keys that a failure or a forgetful handler has left: what a
\* handler stores is of its last write or of a read after it, and it gets to every key it
\* has made outdated before it answers.  So the copies NoForgottenInvalidation excepts as late take two.
FreshAtRest ==
  ~overlapped /\ (\A r \in Requests : ~busy(r)) =>
    \A key \in Keys :
      cached[key] # None /\ key \notin missed => ~outdated(key, cached[key].of)

=============================================================================
