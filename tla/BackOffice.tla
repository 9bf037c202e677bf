----------------------------- MODULE BackOffice -----------------------------
(***************************************************************************)
(* What happens behind the counter: a user becomes the owner of a tenant,    *)
(* its properties and room templates come, change and go, pictures are       *)
(* replaced (controller/tenant, property, roomTemplate, user, upload).        *)
(*                                                                         *)
(* As in Reservation, a handler is a request slot and an action is one        *)
(* statement or one transaction.                                            *)
(***************************************************************************)
EXTENDS Naturals

CONSTANTS
  Users, Properties, Templates, Bookings,
  Images,      \* keys of objects in the public bucket
  Prices,      \* prices of a bed that admins send
  Requests,    \* slots for requests in progress
  Workloads,   \* sets of operations that are called together
  None         \* null

Operations == {"createTenant", "property", "createTemplate", "updateTemplate",
               "deleteTemplate", "picture"}

ASSUME BackOfficeAssumption ==
  /\ Workloads \subseteq SUBSET Operations
  /\ None \notin Users \cup Properties \cup Templates \cup Images \cup Prices
  /\ Templates \cap (Properties \cup Users) = {}

VARIABLES
  offered,   \* the operations of this behaviour
  role,      \* the column role of each user
  session,   \* the role in the cached session of each user, or None
  tenants,   \* users who own a tenant
  owner,     \* the admin of each property that was ever created, or None
  deleted,   \* properties and templates that are gone
  template,  \* the RoomTemplate table, with the price of its rooms
  booking,   \* the Booking table: guest and template, or NoBooking
  picture,   \* the key of each user's avatar and tenant profile, or None
  stored,    \* keys that have an object in the bucket
  upload,    \* history: what became of each key getPresignedUploadUrl may give out
  request,   \* the request in progress in each slot
  broken     \* history: users whose onboarding broke off, and templates whose update
             \* broke off or met another one

accountVars == <<role, session, tenants>>
inventoryVars == <<owner, deleted, template, booking>>
pictureVars == <<picture, stored, upload>>
vars == <<offered, accountVars, inventoryVars, pictureVars, request, broken>>

-----------------------------------------------------------------------------

NoTemplate == [property |-> None, price |-> None, rooms |-> None]

NoBooking == [guest |-> None, template |-> None]

Holders == {"avatar", "profile"} \X Users

NoRequest == [op |-> "none", stage |-> "idle", user |-> None, known |-> None, on |-> None,
              property |-> None, price |-> None, key |-> None, old |-> None,
              left |-> {}, permitted |-> FALSE]

busy(r) == request[r] # NoRequest

At(r, op, stage) == request[r].op = op /\ request[r].stage = stage

Begin(r, slot) ==
  /\ ~busy(r)
  /\ slot.op \in offered
  /\ request' = [request EXCEPT ![r] = slot]

Goto(r, stage) == request' = [request EXCEPT ![r].stage = stage]

Respond(r) == request' = [request EXCEPT ![r] = NoRequest]

-----------------------------------------------------------------------------
(* createTenant *)

\* The middleware looks for the cached session, whatever the request is for.
SessionGet(r, u) ==
  /\ Begin(r, [NoRequest EXCEPT !.op = "createTenant", !.user = u, !.known = session[u],
                                !.stage = IF session[u] = None THEN "query" ELSE "admit"])
  /\ UNCHANGED <<accountVars, inventoryVars, pictureVars, broken>>

SessionQuery(r) ==
  /\ At(r, "createTenant", "query")
  /\ request' = [request EXCEPT ![r].known = role[request[r].user], ![r].stage = "store"]
  /\ UNCHANGED <<accountVars, inventoryVars, pictureVars, broken>>

SessionSet(r) ==
  /\ At(r, "createTenant", "store")
  /\ session' = [session EXCEPT ![request[r].user] = request[r].known]
  /\ Goto(r, "admit")
  /\ UNCHANGED <<role, tenants, inventoryVars, pictureVars, broken>>

SessionExpires(u) ==
  /\ session[u] # None
  /\ session' = [session EXCEPT ![u] = None]
  /\ UNCHANGED <<role, tenants, inventoryVars, pictureVars, request, broken>>

\* An Admin, as far as the session goes, is said to have a tenant; a request for
\* something else only passes through here.
CreateTenant(r) ==
  /\ At(r, "createTenant", "admit")
  /\ \/ request[r].known # "Admin" /\ Goto(r, "promote")
     \/ Respond(r)
  /\ UNCHANGED <<accountVars, inventoryVars, pictureVars, broken>>

\* A mutant for the checks: the role of the platform's own admins.
TenantPromoteSuper(r) ==
  /\ At(r, "createTenant", "promote")
  /\ role' = [role EXCEPT ![request[r].user] = "Super_Admin"]
  /\ IF request[r].user \in tenants THEN Respond(r) ELSE Goto(r, "session")
  /\ UNCHANGED <<session, tenants, inventoryVars, pictureVars, broken>>

\* The role is written first; the update also returns the tenant, if there is one.
TenantPromote(r) ==
  /\ At(r, "createTenant", "promote")
  /\ role' = [role EXCEPT ![request[r].user] = "Admin"]
  /\ IF request[r].user \in tenants THEN Respond(r) ELSE Goto(r, "session")
  /\ UNCHANGED <<session, tenants, inventoryVars, pictureVars, broken>>

\* A mutant for the checks: a session that is an Admin's is taken for a tenant.
TenantSessionOnly(r) ==
  /\ At(r, "createTenant", "session")
  /\ session' = [session EXCEPT ![request[r].user] = "Admin"]
  /\ IF session[request[r].user] = "Admin" THEN Respond(r) ELSE Goto(r, "create")
  /\ UNCHANGED <<role, tenants, inventoryVars, pictureVars, broken>>

TenantSession(r) ==
  /\ At(r, "createTenant", "session")
  /\ session' = [session EXCEPT ![request[r].user] = "Admin"]
  /\ Goto(r, "create")
  /\ UNCHANGED <<role, tenants, inventoryVars, pictureVars, broken>>

\* The user of a tenant is unique, and so is its slug: see Fail.
TenantCreate(r) ==
  /\ At(r, "createTenant", "create")
  /\ request[r].user \notin tenants
  /\ tenants' = tenants \cup {request[r].user}
  /\ Respond(r)
  /\ UNCHANGED <<role, session, inventoryVars, pictureVars, broken>>

-----------------------------------------------------------------------------
(* createProperty, deleteProperty: the owner of a property never changes, and   *)
(* nobody loses a tenant, so that what was read still holds.                  *)

administers(u, p) == owner[p] = u /\ u \in tenants /\ p \notin deleted

CreateProperty(u, p) ==
  /\ "property" \in offered
  /\ u \in tenants
  /\ owner[p] = None
  /\ owner' = [owner EXCEPT ![p] = u]
  /\ UNCHANGED <<accountVars, deleted, template, booking, pictureVars, request, broken>>

\* Room templates and bookings refer to the property ON DELETE RESTRICT.
DeleteProperty(u, p) ==
  /\ "property" \in offered
  /\ administers(u, p)
  /\ \A t \in Templates : t \notin deleted => template[t].property # p
  /\ deleted' = deleted \cup {p}
  /\ UNCHANGED <<accountVars, owner, template, booking, pictureVars, request, broken>>

-----------------------------------------------------------------------------
(* Room templates.  The rooms and beds of a template come and go with it.      *)

live(t) == template[t] # NoTemplate /\ t \notin deleted

CreateRoomTemplate(u, p, t, price) ==
  /\ "createTemplate" \in offered
  /\ template[t] = NoTemplate
  /\ administers(u, p)
  /\ template' = [template EXCEPT ![t] = [property |-> p, price |-> price, rooms |-> price]]
  /\ UNCHANGED <<accountVars, owner, deleted, booking, pictureVars, request, broken>>

updating(r, t) == request[r].op = "updateTemplate" /\ request[r].on = t

UpdateRoomTemplate(r, u, p, t, price) ==
  /\ administers(u, p)
  /\ live(t) /\ template[t].property = p
  /\ Begin(r, [NoRequest EXCEPT !.op = "updateTemplate", !.stage = "write", !.user = u,
                                !.on = t, !.price = price, !.left = {"price", "rooms"}])
  /\ broken' = IF \E other \in Requests : updating(other, t) THEN broken \cup {t} ELSE broken
  /\ UNCHANGED <<accountVars, inventoryVars, pictureVars>>

\* A statement of Promise.all has ended.
Ended(r, which) ==
  LET q == request[r]
  IN request' = [request EXCEPT ![r] =
       IF q.left = {which} /\ q.op = "updateTemplate" THEN NoRequest
       ELSE [q EXCEPT !.left = @ \ {which}]]

\* A mutant for the checks: the price of the rooms is not written.
UpdatePriceOnly(r, which) ==
  LET t == request[r].on
  IN /\ At(r, "updateTemplate", "write")
     /\ which \in request[r].left
     /\ template' = IF live(t) THEN [template EXCEPT ![t].price = request[r].price] ELSE template
     /\ Ended(r, which)
     /\ UNCHANGED <<accountVars, owner, deleted, booking, pictureVars, broken>>

\* Two statements in parallel, each a transaction; a template that is gone takes
\* neither.
UpdatePrices(r, which) ==
  LET t == request[r].on
  IN /\ At(r, "updateTemplate", "write")
     /\ which \in request[r].left
     /\ template' = IF live(t) THEN [template EXCEPT ![t] = [@ EXCEPT ![which] = request[r].price]]
                    ELSE template
     /\ Ended(r, which)
     /\ UNCHANGED <<accountVars, owner, deleted, booking, pictureVars, broken>>

\* One of them fails, which does not keep the other from going on.
UpdateFails(r, which) ==
  /\ At(r, "updateTemplate", "write")
  /\ which \in request[r].left
  /\ broken' = broken \cup {request[r].on}
  /\ Ended(r, which)
  /\ UNCHANGED <<accountVars, inventoryVars, pictureVars>>

\* Property and template are those of the path; nothing but the role is checked yet.
DeleteRoomTemplate(r, u, p, t) ==
  /\ role[u] = "Admin"
  /\ Begin(r, [NoRequest EXCEPT !.op = "deleteTemplate", !.stage = "read", !.user = u, !.on = t,
                                !.property = p, !.left = {"template", "bookings"}])
  /\ UNCHANGED <<accountVars, inventoryVars, pictureVars, broken>>

propertyOf(b) == template[booking[b].template].property

\* A mutant for the checks: the client is secured with the role of an admin.
DeleteAllBookings(r) ==
  /\ At(r, "deleteTemplate", "read")
  /\ "bookings" \in request[r].left
  /\ booking' = [b \in Bookings |->
       IF booking[b] # NoBooking /\ propertyOf(b) = request[r].property
       THEN NoBooking ELSE booking[b]]
  /\ Ended(r, "bookings")
  /\ UNCHANGED <<accountVars, owner, deleted, template, pictureVars, broken>>

\* The bookings of the property, as far as a client without a role sees any: those
\* the caller made as a guest.
DeleteOwnBookings(r) ==
  /\ At(r, "deleteTemplate", "read")
  /\ "bookings" \in request[r].left
  /\ booking' = [b \in Bookings |->
       IF /\ booking[b].guest = request[r].user
          /\ propertyOf(b) = request[r].property
       THEN NoBooking ELSE booking[b]]
  /\ Ended(r, "bookings")
  /\ UNCHANGED <<accountVars, owner, deleted, template, pictureVars, broken>>

\* In parallel with that, the template is read and then the request authorised.
ReadRoomTemplate(r) ==
  LET q == request[r]
  IN /\ At(r, "deleteTemplate", "read")
     /\ "template" \in q.left
     /\ request' = [request EXCEPT ![r].left = @ \ {"template"},
          ![r].permitted = /\ live(q.on) /\ template[q.on].property = q.property
                           /\ administers(q.user, q.property)]
     /\ UNCHANGED <<accountVars, inventoryVars, pictureVars, broken>>

AuthoriseDelete(r) ==
  /\ At(r, "deleteTemplate", "read")
  /\ request[r].left = {}
  /\ IF request[r].permitted THEN Goto(r, "delete") ELSE Respond(r)
  /\ UNCHANGED <<accountVars, inventoryVars, pictureVars, broken>>

\* Beds, rooms and template in a transaction, which fails as a whole while a booking
\* refers to one of them.
DeleteRooms(r) ==
  /\ At(r, "deleteTemplate", "delete")
  /\ \A b \in Bookings : booking[b].template # request[r].on
  /\ request[r].on \notin deleted
  /\ deleted' = deleted \cup {request[r].on}
  /\ Respond(r)
  /\ UNCHANGED <<accountVars, owner, template, booking, pictureVars, broken>>

\* createBooking, which is in Reservation; an admin may be a guest as well.
CreateBooking(b, u, t) ==
  /\ "deleteTemplate" \in offered
  /\ booking[b] = NoBooking
  /\ live(t)
  /\ booking' = [booking EXCEPT ![b] = [guest |-> u, template |-> t]]
  /\ UNCHANGED <<accountVars, owner, deleted, template, pictureVars, request, broken>>

-----------------------------------------------------------------------------
(* Pictures: updateAvatar and updateTenantProfile. *)

\* getPresignedUploadUrl gives out a key of its own to every request, and the client
\* uploads to it.
Upload(k) ==
  /\ "picture" \in offered
  /\ upload[k] = "none"
  /\ upload' = [upload EXCEPT ![k] = "issued"]
  /\ stored' = stored \cup {k}
  /\ UNCHANGED <<accountVars, inventoryVars, picture, request, broken>>

\* deleteKey: whatever key the client names.
DeleteKey(k) ==
  /\ "picture" \in offered
  /\ upload[k] # "none"
  /\ upload' = [upload EXCEPT ![k] = "disowned"]
  /\ stored' = stored \ {k}
  /\ UNCHANGED <<accountVars, inventoryVars, picture, request, broken>>

\* Reads the key that is there.
PictureRead(r, h, k) ==
  /\ h[1] = "profile" => h[2] \in tenants
  /\ upload[k] # "none"
  /\ upload' = [upload EXCEPT ![k] = IF @ = "issued" THEN "sent" ELSE "disowned"]
  /\ Begin(r, [NoRequest EXCEPT !.op = "picture", !.stage = "write", !.on = h,
                                !.key = k, !.old = picture[h]])
  /\ UNCHANGED <<accountVars, inventoryVars, picture, stored, broken>>

\* A mutant for the checks: what is to be deleted is what the update returns.
PictureWriteReturning(r) ==
  /\ At(r, "picture", "write")
  /\ picture' = [picture EXCEPT ![request[r].on] = request[r].key]
  /\ request' = [request EXCEPT ![r].stage = "discard", ![r].old = request[r].key]
  /\ UNCHANGED <<accountVars, inventoryVars, stored, upload, broken>>

PictureWrite(r) ==
  /\ At(r, "picture", "write")
  /\ picture' = [picture EXCEPT ![request[r].on] = request[r].key]
  /\ Goto(r, "discard")
  /\ UNCHANGED <<accountVars, inventoryVars, stored, upload, broken>>

\* deleteObject of the key that was there before.
PictureDiscard(r) ==
  /\ At(r, "picture", "discard")
  /\ stored' = stored \ {request[r].old}
  /\ Respond(r)
  /\ UNCHANGED <<accountVars, inventoryVars, picture, upload, broken>>

-----------------------------------------------------------------------------

\* A query, S3 or Redis fails, a unique index refuses, or the process dies.
Fail(r) ==
  /\ busy(r)
  /\ broken' = IF \/ /\ request[r].stage \in {"session", "create"}
                     /\ request[r].user \notin tenants
                  \/ request[r].op = "updateTemplate" /\ request[r].left # {"price", "rooms"}
               THEN broken \cup {IF request[r].op = "updateTemplate"
                                 THEN request[r].on ELSE request[r].user}
               ELSE broken
  /\ Respond(r)
  /\ UNCHANGED <<accountVars, inventoryVars, pictureVars>>

Init ==
  /\ offered \in Workloads
  /\ tenants \in SUBSET Users
  /\ role = [u \in Users |-> IF u \in tenants THEN "Admin" ELSE "Guest"]
  /\ session = [u \in Users |-> None]
  /\ owner = [p \in Properties |-> None]
  /\ deleted = {}
  /\ template = [t \in Templates |-> NoTemplate]
  /\ booking = [b \in Bookings |-> NoBooking]
  /\ picture = [h \in Holders |-> None]
  /\ stored = {}
  /\ upload = [k \in Images |-> "none"]
  /\ request = [r \in Requests |-> NoRequest]
  /\ broken = {}

Onboarding(r) ==
  \/ \E u \in Users : SessionGet(r, u)
  \/ SessionQuery(r) \/ SessionSet(r) \/ CreateTenant(r)
  \/ TenantPromote(r) \/ TenantSession(r) \/ TenantCreate(r)

ChangeProperty ==
  \E u \in Users, p \in Properties : CreateProperty(u, p) \/ DeleteProperty(u, p)

ChangeTemplate(r) ==
  \/ \E u \in Users, p \in Properties, t \in Templates :
       \/ \E price \in Prices : \/ CreateRoomTemplate(u, p, t, price)
                                \/ UpdateRoomTemplate(r, u, p, t, price)
       \/ DeleteRoomTemplate(r, u, p, t)
  \/ \E which \in {"price", "rooms"} : UpdatePrices(r, which) \/ UpdateFails(r, which)
  \/ DeleteOwnBookings(r) \/ ReadRoomTemplate(r) \/ AuthoriseDelete(r) \/ DeleteRooms(r)

ChangePicture(r) ==
  \/ \E h \in Holders, k \in Images : PictureRead(r, h, k)
  \/ PictureWrite(r) \/ PictureDiscard(r)

Next ==
  /\ \/ \E r \in Requests : Onboarding(r) \/ ChangeTemplate(r) \/ ChangePicture(r) \/ Fail(r)
     \/ \E u \in Users : SessionExpires(u)
     \/ ChangeProperty
     \/ \E b \in Bookings, u \in Users, t \in Templates : CreateBooking(b, u, t)
     \/ \E k \in Images : Upload(k) \/ DeleteKey(k)
  /\ UNCHANGED offered

Spec == Init /\ [][Next]_vars

-----------------------------------------------------------------------------
(* What must hold. *)

TemplateRow == [property : Properties \cup {None}, price : Prices \cup {None},
                rooms : Prices \cup {None}]

BookingRow == [guest : Users \cup {None}, template : Templates \cup {None}]

RequestSlot ==
  [op : Operations \cup {"none"},
   stage : {"idle", "query", "store", "admit", "promote", "session", "create",
            "write", "read", "delete", "discard"},
   user : Users \cup {None},
   known : {"Guest", "Admin", None},
   on : Templates \cup Holders \cup {None},
   property : Properties \cup {None},
   price : Prices \cup {None},
   key : Images \cup {None},
   old : Images \cup {None},
   left : SUBSET {"price", "rooms", "template", "bookings"},
   permitted : BOOLEAN]

TypeOK ==
  /\ offered \in Workloads
  /\ role \in [Users -> {"Guest", "Admin"}]
  /\ session \in [Users -> {"Guest", "Admin", None}]
  /\ tenants \subseteq Users
  /\ owner \in [Properties -> Users \cup {None}]
  /\ deleted \subseteq Properties \cup Templates
  /\ template \in [Templates -> TemplateRow]
  /\ booking \in [Bookings -> BookingRow]
  /\ picture \in [Holders -> Images \cup {None}]
  /\ stored \subseteq Images
  /\ upload \in [Images -> {"none", "issued", "sent", "disowned"}]
  /\ request \in [Requests -> RequestSlot]
  /\ broken \subseteq Users \cup Templates

\* Every Admin has a tenant, is about to get it, or had a request that broke off
\* between the two writes of createTenant (after which, once the session says Admin,
\* every further request of theirs for a tenant is refused).
AdminHasTenant ==
  \A u \in Users :
    role[u] = "Admin"
      => \/ u \in tenants \cup broken
         \/ \E r \in Requests : request[r].stage \in {"session", "create"} /\ request[r].user = u

\* The rooms of a template cost what the template says, unless an update of it is
\* under way, has failed halfway or met another one (updateRoomTemplate).
RoomsPricedAsTemplate ==
  \A t \in Templates :
    /\ live(t) /\ t \notin broken
    /\ \A r \in Requests : ~updating(r, t)
    => template[t].rooms = template[t].price

\* However pictures are replaced at the same time or broken off, the picture a user
\* or tenant shows is in the bucket, as long as no client sends a key twice or has
\* it deleted (updateAvatar, updateTenantProfile).
PictureIsStored ==
  \A h \in Holders :
    picture[h] # None => picture[h] \in stored \/ upload[picture[h]] = "disowned"

\* Deleting a room template takes no booking from anybody but its own guest, and a
\* template keeps the bookings it was sold for: all others stay, whether the request
\* is refused or not (deleteRoomTemplate).
OthersBookingsStay ==
  [][\A b \in Bookings :
       booking'[b] # booking[b] /\ booking[b] # NoBooking
         => /\ live(booking[b].template)
            /\ \E r \in Requests : /\ request[r].op = "deleteTemplate"
                                   /\ request[r].user = booking[b].guest]_vars

=============================================================================
