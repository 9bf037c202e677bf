-------------------------- MODULE BackOfficeProofs --------------------------
(***************************************************************************)
(* Theorems about BackOffice, for any number of users, properties, room       *)
(* templates, bookings, pictures, prices and requests and for any workloads.  *)
(***************************************************************************)
EXTENDS BackOffice, TLAPS

-----------------------------------------------------------------------------
(* Types. *)

LEMMA SlotTypes ==
  /\ NoRequest \in RequestSlot
  /\ \A u \in Users, known \in {"Guest", "Admin", None}, stage \in {"query", "admit"} :
       [NoRequest EXCEPT !.op = "createTenant", !.user = u, !.known = known, !.stage = stage]
         \in RequestSlot
  /\ \A u \in Users, t \in Templates, price \in Prices :
       [NoRequest EXCEPT !.op = "updateTemplate", !.stage = "write", !.user = u, !.on = t,
                         !.price = price, !.left = {"price", "rooms"}] \in RequestSlot
  /\ \A u \in Users, p \in Properties, t \in Templates :
       [NoRequest EXCEPT !.op = "deleteTemplate", !.stage = "read", !.user = u, !.on = t,
                         !.property = p, !.left = {"template", "bookings"}] \in RequestSlot
  /\ \A h \in Holders, k \in Images, old \in Images \cup {None} :
       [NoRequest EXCEPT !.op = "picture", !.stage = "write", !.on = h, !.key = k,
                         !.old = old] \in RequestSlot
<1>1. NoRequest \in RequestSlot
  BY DEF NoRequest, RequestSlot, Operations
<1>2. ASSUME NEW u \in Users, NEW known \in {"Guest", "Admin", None},
             NEW stage \in {"query", "admit"}
      PROVE  [NoRequest EXCEPT !.op = "createTenant", !.user = u, !.known = known,
                               !.stage = stage] \in RequestSlot
  BY <1>1 DEF RequestSlot, Operations
<1>3. ASSUME NEW u \in Users, NEW t \in Templates, NEW price \in Prices
      PROVE  [NoRequest EXCEPT !.op = "updateTemplate", !.stage = "write", !.user = u, !.on = t,
                               !.price = price, !.left = {"price", "rooms"}] \in RequestSlot
  BY <1>1 DEF RequestSlot, Operations
<1>4. ASSUME NEW u \in Users, NEW p \in Properties, NEW t \in Templates
      PROVE  [NoRequest EXCEPT !.op = "deleteTemplate", !.stage = "read", !.user = u, !.on = t,
                               !.property = p, !.left = {"template", "bookings"}]
               \in RequestSlot
  BY <1>1 DEF RequestSlot, Operations
<1>5. ASSUME NEW h \in Holders, NEW k \in Images, NEW old \in Images \cup {None}
      PROVE  [NoRequest EXCEPT !.op = "picture", !.stage = "write", !.on = h, !.key = k,
                               !.old = old] \in RequestSlot
  BY <1>1 DEF RequestSlot, Operations
<1> QED
  BY <1>1, <1>2, <1>3, <1>4, <1>5

LEMMA SlotRead ==
  ASSUME NEW x \in RequestSlot, NEW may \in BOOLEAN
  PROVE  [x EXCEPT !.left = x.left \ {"template"}, !.permitted = may] \in RequestSlot
<1>1. x.left \ {"template"} \in SUBSET {"price", "rooms", "template", "bookings"}
  BY DEF RequestSlot
<1> QED
  BY <1>1 DEF RequestSlot

LEMMA SlotKnown ==
  ASSUME NEW x \in RequestSlot, NEW known \in {"Guest", "Admin", None}
  PROVE  [x EXCEPT !.known = known, !.stage = "store"] \in RequestSlot
BY DEF RequestSlot

\* What the steps on room templates leave alone.
LEMMA TemplateFrame ==
  ASSUME NEW r \in Requests, ChangeTemplate(r)
  PROVE  /\ UNCHANGED accountVars /\ UNCHANGED pictureVars
         /\ broken \subseteq broken'
         /\ booking' = booking \/ DeleteOwnBookings(r)
<1>1. ASSUME NEW u \in Users, NEW p \in Properties, NEW t \in Templates, NEW price \in Prices,
             CreateRoomTemplate(u, p, t, price)
      PROVE  /\ UNCHANGED accountVars /\ UNCHANGED pictureVars
             /\ broken' = broken /\ booking' = booking
  BY <1>1 DEF CreateRoomTemplate
<1>2. ASSUME NEW u \in Users, NEW p \in Properties, NEW t \in Templates, NEW price \in Prices,
             UpdateRoomTemplate(r, u, p, t, price)
      PROVE  /\ UNCHANGED accountVars /\ UNCHANGED pictureVars
             /\ broken \subseteq broken' /\ booking' = booking
  BY <1>2 DEF UpdateRoomTemplate, inventoryVars
<1>3. ASSUME NEW u \in Users, NEW p \in Properties, NEW t \in Templates,
             DeleteRoomTemplate(r, u, p, t)
      PROVE  /\ UNCHANGED accountVars /\ UNCHANGED pictureVars
             /\ broken' = broken /\ booking' = booking
  BY <1>3 DEF DeleteRoomTemplate, inventoryVars
<1>4. ASSUME NEW which \in {"price", "rooms"}, UpdatePrices(r, which)
      PROVE  /\ UNCHANGED accountVars /\ UNCHANGED pictureVars
             /\ broken' = broken /\ booking' = booking
  BY <1>4 DEF UpdatePrices
<1>5. ASSUME NEW which \in {"price", "rooms"}, UpdateFails(r, which)
      PROVE  /\ UNCHANGED accountVars /\ UNCHANGED pictureVars
             /\ broken \subseteq broken' /\ booking' = booking
  BY <1>5 DEF UpdateFails, inventoryVars
<1>6. CASE DeleteOwnBookings(r)
  BY <1>6 DEF DeleteOwnBookings
<1>7. CASE ReadRoomTemplate(r)
  BY <1>7 DEF ReadRoomTemplate, inventoryVars
<1>8. CASE AuthoriseDelete(r)
  BY <1>8 DEF AuthoriseDelete, inventoryVars
<1>9. CASE DeleteRooms(r)
  BY <1>9 DEF DeleteRooms
<1> QED
  BY <1>1, <1>2, <1>3, <1>4, <1>5, <1>6, <1>7, <1>8, <1>9 DEF ChangeTemplate

LEMMA SlotMoves ==
  ASSUME TypeOK, NEW r \in Requests
  PROVE  /\ Respond(r) => request' \in [Requests -> RequestSlot]
         /\ \A stage \in {"admit", "promote", "session", "create", "delete", "discard"} :
              Goto(r, stage) => request' \in [Requests -> RequestSlot]
         /\ \A which : Ended(r, which) => request' \in [Requests -> RequestSlot]
<1> USE DEF TypeOK
<1>1. Respond(r) => request' \in [Requests -> RequestSlot]
  BY SlotTypes DEF Respond
<1>2. ASSUME NEW stage \in {"admit", "promote", "session", "create", "delete", "discard"},
             Goto(r, stage)
      PROVE  request' \in [Requests -> RequestSlot]
  <2>1. [request[r] EXCEPT !.stage = stage] \in RequestSlot
    BY DEF RequestSlot
  <2> QED
    BY <1>2, <2>1 DEF Goto
<1>3. ASSUME NEW which, Ended(r, which) PROVE request' \in [Requests -> RequestSlot]
  <2>1. [request[r] EXCEPT !.left = request[r].left \ {which}] \in RequestSlot
    BY DEF RequestSlot
  <2>2. request' = [request EXCEPT ![r] =
          IF request[r].left = {which} /\ request[r].op = "updateTemplate" THEN NoRequest
          ELSE [request[r] EXCEPT !.left = request[r].left \ {which}]]
    BY <1>3 DEF Ended
  <2> QED
    BY <2>1, <2>2, SlotTypes
<1> QED
  BY <1>1, <1>2, <1>3

LEMMA OnboardingType ==
  ASSUME TypeOK, NEW r \in Requests, Onboarding(r) \/ Fail(r), UNCHANGED offered,
         request[r].op = "createTenant" => request[r].user \in Users,
         request[r].stage \in {"promote", "session", "create"} => request[r].user \in Users,
         request[r].op = "updateTemplate" => request[r].on \in Templates
  PROVE  TypeOK'
<1> USE DEF TypeOK, accountVars, inventoryVars, pictureVars
<1>1. ASSUME NEW u \in Users, SessionGet(r, u) PROVE TypeOK'
  <2>1. PICK known \in {"Guest", "Admin", None}, stage \in {"query", "admit"} :
          request' = [request EXCEPT ![r] =
            [NoRequest EXCEPT !.op = "createTenant", !.user = u, !.known = known,
                              !.stage = stage]]
    BY <1>1 DEF SessionGet, Begin
  <2>2. request' \in [Requests -> RequestSlot]
    BY <2>1, SlotTypes
  <2> QED
    BY <1>1, <2>2 DEF SessionGet
<1>6. CASE SessionQuery(r)
  <2>1. PICK known \in {"Guest", "Admin", None} :
          request' = [request EXCEPT ![r] =
            [request[r] EXCEPT !.known = known, !.stage = "store"]]
    BY <1>6 DEF SessionQuery, At
  <2>2. [request[r] EXCEPT !.known = known, !.stage = "store"] \in RequestSlot
    BY SlotKnown
  <2>3. request' \in [Requests -> RequestSlot]
    BY <2>1, <2>2
  <2> QED
    BY <1>6, <2>3 DEF SessionQuery
<1>7. CASE SessionSet(r)
  <2>1. request[r].known \in {"Guest", "Admin", None}
    BY DEF RequestSlot
  <2> QED
    BY <1>7, <2>1, SlotMoves DEF SessionSet
<1>8. CASE CreateTenant(r)
  BY <1>8, SlotMoves DEF CreateTenant
<1>2. CASE TenantPromote(r)
  BY <1>2, SlotMoves DEF TenantPromote
<1>3. CASE TenantSession(r)
  BY <1>3, SlotMoves DEF TenantSession
<1>4. CASE TenantCreate(r)
  BY <1>4, SlotMoves DEF TenantCreate, At
<1>5. CASE Fail(r)
  <2>1. broken' \subseteq Users \cup Templates
    <3>1. request[r].op # "updateTemplate" \/ request[r].on \in Templates
      OBVIOUS
    <3> QED
      BY <1>5 DEF Fail
  <2> QED
    BY <1>5, <2>1, SlotMoves DEF Fail
<1> QED
  BY <1>1, <1>2, <1>3, <1>4, <1>5, <1>6, <1>7, <1>8 DEF Onboarding

LEMMA PropertyType ==
  ASSUME TypeOK, UNCHANGED offered, ChangeProperty
  PROVE  TypeOK'
BY DEF TypeOK, ChangeProperty, CreateProperty, DeleteProperty, accountVars, inventoryVars,
   pictureVars

LEMMA TemplateType ==
  ASSUME TypeOK, NEW r \in Requests, ChangeTemplate(r), UNCHANGED offered,
         request[r].op \in {"updateTemplate", "deleteTemplate"} => request[r].on \in Templates,
         request[r].op = "updateTemplate" => request[r].price \in Prices
  PROVE  TypeOK'
<1> USE DEF TypeOK, accountVars, inventoryVars, pictureVars
<1>1. ASSUME NEW u \in Users, NEW p \in Properties, NEW t \in Templates, NEW price \in Prices,
             CreateRoomTemplate(u, p, t, price)
      PROVE  TypeOK'
  <2>1. [property |-> p, price |-> price, rooms |-> price] \in TemplateRow
    BY DEF TemplateRow
  <2> QED
    BY <1>1, <2>1 DEF CreateRoomTemplate
<1>2. ASSUME NEW u \in Users, NEW p \in Properties, NEW t \in Templates, NEW price \in Prices,
             UpdateRoomTemplate(r, u, p, t, price)
      PROVE  TypeOK'
  <2>1. request' \in [Requests -> RequestSlot]
    BY <1>2, SlotTypes DEF UpdateRoomTemplate, Begin
  <2> QED
    BY <1>2, <2>1 DEF UpdateRoomTemplate
<1>3. ASSUME NEW u \in Users, NEW p \in Properties, NEW t \in Templates,
             DeleteRoomTemplate(r, u, p, t)
      PROVE  TypeOK'
  BY <1>3, SlotTypes DEF DeleteRoomTemplate, Begin
<1>4. ASSUME NEW which \in {"price", "rooms"}, UpdatePrices(r, which) PROVE TypeOK'
  <2>1. PICK t \in Templates : t = request[r].on
    BY <1>4 DEF UpdatePrices, At
  <2>2. request[r].price \in Prices
    BY <1>4 DEF UpdatePrices, At
  <2>3. [template[t] EXCEPT ![which] = request[r].price] \in TemplateRow
    BY <2>2 DEF TemplateRow
  <2>4. template' \in [Templates -> TemplateRow]
    BY <1>4, <2>1, <2>3 DEF UpdatePrices
  <2> QED
    BY <1>4, <2>4, SlotMoves DEF UpdatePrices
<1>5. ASSUME NEW which \in {"price", "rooms"}, UpdateFails(r, which) PROVE TypeOK'
  BY <1>5, SlotMoves DEF UpdateFails, At
<1>6. CASE DeleteOwnBookings(r)
  <2>1. NoBooking \in BookingRow
    BY DEF NoBooking, BookingRow
  <2>2. booking' \in [Bookings -> BookingRow]
    BY <1>6, <2>1 DEF DeleteOwnBookings
  <2> QED
    BY <1>6, <2>2, SlotMoves DEF DeleteOwnBookings
<1>7. CASE ReadRoomTemplate(r)
  <2>1. \A may \in BOOLEAN :
          [request[r] EXCEPT !.left = request[r].left \ {"template"}, !.permitted = may]
            \in RequestSlot
    BY SlotRead
  <2>2. PICK may \in BOOLEAN :
          request' = [request EXCEPT ![r] =
            [request[r] EXCEPT !.left = request[r].left \ {"template"}, !.permitted = may]]
    BY <1>7 DEF ReadRoomTemplate, administers
  <2>3. request \in [Requests -> RequestSlot]
    BY DEF TypeOK
  <2>4. request' \in [Requests -> RequestSlot]
    BY <2>1, <2>2, <2>3
  <2>5. UNCHANGED <<accountVars, inventoryVars, pictureVars, broken>>
    BY <1>7 DEF ReadRoomTemplate
  <2> QED
    BY <2>4, <2>5
<1>8. CASE AuthoriseDelete(r)
  BY <1>8, SlotMoves DEF AuthoriseDelete
<1>9. CASE DeleteRooms(r)
  BY <1>9, SlotMoves DEF DeleteRooms, At
<1> QED
  BY <1>1, <1>2, <1>3, <1>4, <1>5, <1>6, <1>7, <1>8, <1>9 DEF ChangeTemplate

LEMMA PictureType ==
  ASSUME TypeOK, NEW r \in Requests, ChangePicture(r), UNCHANGED offered,
         request[r].op = "picture" => request[r].on \in Holders /\ request[r].key \in Images
  PROVE  TypeOK'
<1> USE DEF TypeOK, accountVars, inventoryVars, pictureVars
<1>1. ASSUME NEW h \in Holders, NEW k \in Images, PictureRead(r, h, k) PROVE TypeOK'
  <2>1. request' \in [Requests -> RequestSlot]
    BY <1>1, SlotTypes DEF PictureRead, Begin
  <2> QED
    BY <1>1, <2>1 DEF PictureRead
<1>2. CASE PictureWrite(r)
  BY <1>2, SlotMoves DEF PictureWrite, At
<1>3. CASE PictureDiscard(r)
  BY <1>3, SlotMoves DEF PictureDiscard
<1> QED
  BY <1>1, <1>2, <1>3 DEF ChangePicture

-----------------------------------------------------------------------------
(* What a slot holds: the operation it carries out decides the rest. *)

slotTrue(r) ==
  /\ request[r].op = "createTenant"
       => /\ request[r].stage \in {"query", "store", "admit", "promote", "session", "create"}
          /\ request[r].user \in Users
  /\ request[r].op = "updateTemplate"
       => /\ request[r].stage = "write"
          /\ request[r].on \in Templates /\ request[r].price \in Prices
  /\ request[r].op = "deleteTemplate"
       => /\ request[r].stage \in {"read", "delete"}
          /\ request[r].on \in Templates /\ request[r].user \in Users
  /\ request[r].op = "picture"
       => /\ request[r].stage \in {"write", "discard"}
          /\ request[r].on \in Holders /\ request[r].key \in Images
  /\ request[r].op \notin {"createTenant", "updateTemplate", "deleteTemplate", "picture"}
       => request[r].stage = "idle"

SlotInv == TypeOK /\ \A r \in Requests : slotTrue(r)

OthersWait(r) == \A q \in Requests \ {r} : request'[q] = request[q]

\* What a request in progress is about stays.
Kept(r) ==
  /\ request'[r].op = request[r].op /\ request'[r].user = request[r].user
  /\ request'[r].on = request[r].on /\ request'[r].property = request[r].property
  /\ request'[r].price = request[r].price
  /\ request'[r].key = request[r].key /\ request'[r].old = request[r].old

\* A request moves its own slot only.
LEMMA Moves ==
  ASSUME TypeOK, NEW r \in Requests
  PROVE  /\ Respond(r) => OthersWait(r) /\ request'[r] = NoRequest
         /\ \A stage : Goto(r, stage)
              => /\ OthersWait(r) /\ Kept(r)
                 /\ request'[r].stage = stage /\ request'[r].left = request[r].left
         /\ \A which : Ended(r, which)
              => /\ OthersWait(r)
                 /\ \/ request'[r] = NoRequest
                    \/ /\ Kept(r) /\ request'[r].stage = request[r].stage
                       /\ request'[r].left = request[r].left \ {which}
                       /\ request[r].op = "updateTemplate" => request[r].left # {which}
         /\ \A slot : Begin(r, slot)
              => OthersWait(r) /\ request'[r] = slot /\ request[r] = NoRequest
<1>1. request[r] \in RequestSlot /\ r \in DOMAIN request
  BY DEF TypeOK
<1>2. ASSUME Respond(r) PROVE OthersWait(r) /\ request'[r] = NoRequest
  BY <1>2 DEF TypeOK, Respond, OthersWait
<1>3. ASSUME NEW stage, Goto(r, stage)
      PROVE  /\ OthersWait(r) /\ Kept(r)
             /\ request'[r].stage = stage /\ request'[r].left = request[r].left
  <2>1. OthersWait(r) /\ request'[r] = [request[r] EXCEPT !.stage = stage]
    BY <1>3 DEF TypeOK, Goto, OthersWait
  <2> QED
    BY <1>1, <2>1 DEF Kept, RequestSlot
<1>4. ASSUME NEW which, Ended(r, which)
      PROVE  /\ OthersWait(r)
             /\ \/ request'[r] = NoRequest
                \/ /\ Kept(r) /\ request'[r].stage = request[r].stage
                   /\ request'[r].left = request[r].left \ {which}
                   /\ request[r].op = "updateTemplate" => request[r].left # {which}
  <2>1. OthersWait(r)
    BY <1>4 DEF TypeOK, Ended, OthersWait
  <2>2. request'[r] = IF request[r].left = {which} /\ request[r].op = "updateTemplate"
                      THEN NoRequest
                      ELSE [request[r] EXCEPT !.left = request[r].left \ {which}]
    BY <1>4 DEF TypeOK, Ended
  <2>3. CASE request[r].left = {which} /\ request[r].op = "updateTemplate"
    BY <2>1, <2>2, <2>3
  <2>4. CASE ~(request[r].left = {which} /\ request[r].op = "updateTemplate")
    <3>1. request'[r] = [request[r] EXCEPT !.left = request[r].left \ {which}]
      BY <2>2, <2>4
    <3> QED
      BY <1>1, <2>1, <2>4, <3>1 DEF Kept, RequestSlot
  <2> QED
    BY <2>3, <2>4
<1>5. ASSUME NEW slot, Begin(r, slot)
      PROVE  OthersWait(r) /\ request'[r] = slot /\ request[r] = NoRequest
  BY <1>5 DEF TypeOK, Begin, busy, OthersWait
<1> QED
  BY <1>2, <1>3, <1>4, <1>5

\* The ways a slot changes, for every operation.
Begins(r) ==
  \/ /\ request'[r].op = "createTenant" /\ request'[r].stage \in {"query", "admit"}
     /\ request'[r].user \in Users
  \/ /\ request'[r].op = "updateTemplate" /\ request'[r].stage = "write"
     /\ request'[r].on \in Templates /\ request'[r].price \in Prices
     /\ request'[r].left = {"price", "rooms"}
  \/ /\ request'[r].op = "deleteTemplate" /\ request'[r].stage = "read"
     /\ request'[r].on \in Templates /\ request'[r].user \in Users
  \/ /\ request'[r].op = "picture" /\ request'[r].stage = "write"
     /\ request'[r].on \in Holders /\ request'[r].key \in Images

GoesOn(r) ==
  /\ Kept(r)
  /\ \/ request'[r].stage = request[r].stage
     \/ At(r, "createTenant", "query") /\ request'[r].stage = "store"
     \/ At(r, "createTenant", "store") /\ request'[r].stage = "admit"
     \/ At(r, "createTenant", "admit") /\ request'[r].stage = "promote"
     \/ At(r, "createTenant", "promote") /\ request'[r].stage = "session"
     \/ At(r, "createTenant", "session") /\ request'[r].stage = "create"
     \/ At(r, "deleteTemplate", "read") /\ request'[r].stage = "delete"
     \/ At(r, "picture", "write") /\ request'[r].stage = "discard"

SlotStep(r) ==
  /\ OthersWait(r)
  /\ request'[r] = NoRequest \/ GoesOn(r) \/ (request[r] = NoRequest /\ Begins(r))

LEMMA GetBegins ==
  ASSUME TypeOK, NEW r \in Requests, NEW u \in Users, SessionGet(r, u)
  PROVE  /\ OthersWait(r) /\ request[r] = NoRequest /\ Begins(r)
         /\ request'[r].op = "createTenant"
<1> DEFINE stage == IF session[u] = None THEN "query" ELSE "admit"
<1>1. /\ OthersWait(r) /\ request[r] = NoRequest
      /\ request'[r] = [NoRequest EXCEPT !.op = "createTenant", !.user = u,
                                         !.known = session[u], !.stage = stage]
  BY Moves DEF SessionGet
<1>2. stage \in {"query", "admit"}
  OBVIOUS
<1> HIDE DEF stage
<1> QED
  BY <1>1, <1>2 DEF NoRequest, Begins

LEMMA QuerySlot ==
  ASSUME TypeOK, NEW r \in Requests, SessionQuery(r)
  PROVE  OthersWait(r) /\ Kept(r) /\ request'[r].stage = "store"
<1>1. PICK known :
        request' = [request EXCEPT ![r] =
          [request[r] EXCEPT !.known = known, !.stage = "store"]]
  BY DEF SessionQuery
<1>2. /\ OthersWait(r)
      /\ request'[r] = [request[r] EXCEPT !.known = known, !.stage = "store"]
  BY <1>1 DEF TypeOK, OthersWait
<1>3. request[r] \in RequestSlot
  BY DEF TypeOK
<1> QED
  BY <1>2, <1>3 DEF Kept, RequestSlot

LEMMA UpdateBegins ==
  ASSUME TypeOK, NEW r \in Requests, NEW u \in Users, NEW p \in Properties,
         NEW t \in Templates, NEW price \in Prices, UpdateRoomTemplate(r, u, p, t, price)
  PROVE  /\ OthersWait(r) /\ request[r] = NoRequest /\ Begins(r)
         /\ request'[r].op = "updateTemplate" /\ request'[r].stage = "write"
         /\ request'[r].on = t /\ request'[r].left = {"price", "rooms"}
<1>1. /\ OthersWait(r) /\ request[r] = NoRequest
      /\ request'[r] = [NoRequest EXCEPT !.op = "updateTemplate", !.stage = "write",
                          !.user = u, !.on = t, !.price = price, !.left = {"price", "rooms"}]
  BY Moves DEF UpdateRoomTemplate
<1> QED
  BY <1>1 DEF NoRequest, Begins

LEMMA DeleteBegins ==
  ASSUME TypeOK, NEW r \in Requests, NEW u \in Users, NEW p \in Properties,
         NEW t \in Templates, DeleteRoomTemplate(r, u, p, t)
  PROVE  /\ OthersWait(r) /\ request[r] = NoRequest /\ Begins(r)
         /\ request'[r].op = "deleteTemplate" /\ request'[r].stage = "read"
<1>1. /\ OthersWait(r) /\ request[r] = NoRequest
      /\ request'[r] = [NoRequest EXCEPT !.op = "deleteTemplate", !.stage = "read",
                          !.user = u, !.on = t, !.property = p,
                          !.left = {"template", "bookings"}]
  BY Moves DEF DeleteRoomTemplate
<1> QED
  BY <1>1 DEF NoRequest, Begins

LEMMA PictureBegins ==
  ASSUME TypeOK, NEW r \in Requests, NEW h \in Holders, NEW k \in Images, PictureRead(r, h, k)
  PROVE  /\ OthersWait(r) /\ request[r] = NoRequest /\ Begins(r)
         /\ request'[r].op = "picture" /\ request'[r].stage = "write"
         /\ request'[r].on = h /\ request'[r].key = k /\ request'[r].old = picture[h]
<1>1. /\ OthersWait(r) /\ request[r] = NoRequest
      /\ request'[r] = [NoRequest EXCEPT !.op = "picture", !.stage = "write", !.on = h,
                          !.key = k, !.old = picture[h]]
  BY Moves DEF PictureRead
<1> QED
  BY <1>1 DEF NoRequest, Begins

LEMMA OnboardingSlots ==
  ASSUME TypeOK, NEW r \in Requests, Onboarding(r) \/ Fail(r)
  PROVE  SlotStep(r)
<1>1. ASSUME NEW u \in Users, SessionGet(r, u) PROVE SlotStep(r)
  BY <1>1, GetBegins DEF SlotStep
<1>5. CASE SessionQuery(r)
  BY <1>5, QuerySlot DEF SessionQuery, SlotStep, GoesOn
<1>6. CASE SessionSet(r)
  <2>1. OthersWait(r) /\ Kept(r) /\ request'[r].stage = "admit"
    BY <1>6, Moves DEF SessionSet
  <2> QED
    BY <1>6, <2>1 DEF SessionSet, SlotStep, GoesOn
<1>7. CASE CreateTenant(r)
  <2>1. OthersWait(r) /\ (request'[r] = NoRequest \/ (Kept(r) /\ request'[r].stage = "promote"))
    BY <1>7, Moves DEF CreateTenant
  <2> QED
    BY <1>7, <2>1 DEF CreateTenant, SlotStep, GoesOn
<1>2. CASE TenantPromote(r)
  <2>1. OthersWait(r) /\ (request'[r] = NoRequest \/ (Kept(r) /\ request'[r].stage = "session"))
    BY <1>2, Moves DEF TenantPromote
  <2> QED
    BY <1>2, <2>1 DEF TenantPromote, SlotStep, GoesOn
<1>3. CASE TenantSession(r)
  <2>1. OthersWait(r) /\ Kept(r) /\ request'[r].stage = "create"
    BY <1>3, Moves DEF TenantSession
  <2> QED
    BY <1>3, <2>1 DEF TenantSession, SlotStep, GoesOn
<1>4. CASE TenantCreate(r) \/ Fail(r)
  BY <1>4, Moves DEF TenantCreate, Fail, SlotStep
<1> QED
  BY <1>1, <1>2, <1>3, <1>4, <1>5, <1>6, <1>7 DEF Onboarding

LEMMA ReadSlot ==
  ASSUME TypeOK, NEW r \in Requests, ReadRoomTemplate(r)
  PROVE  OthersWait(r) /\ Kept(r) /\ request'[r].stage = request[r].stage
<1>1. PICK may \in BOOLEAN :
        request' = [request EXCEPT ![r] =
          [request[r] EXCEPT !.left = request[r].left \ {"template"}, !.permitted = may]]
  BY DEF ReadRoomTemplate, administers
<1>2. /\ OthersWait(r)
      /\ request'[r] =
           [request[r] EXCEPT !.left = request[r].left \ {"template"}, !.permitted = may]
  BY <1>1 DEF TypeOK, OthersWait
<1>3. request[r] \in RequestSlot
  BY DEF TypeOK
<1> QED
  BY <1>2, <1>3 DEF Kept, RequestSlot

LEMMA TemplateSlots ==
  ASSUME TypeOK, NEW r \in Requests, ChangeTemplate(r)
  PROVE  UNCHANGED request \/ SlotStep(r)
<1>1. ASSUME NEW u \in Users, NEW p \in Properties, NEW t \in Templates, NEW price \in Prices,
             UpdateRoomTemplate(r, u, p, t, price)
      PROVE  SlotStep(r)
  BY <1>1, UpdateBegins DEF SlotStep
<1>2. ASSUME NEW u \in Users, NEW p \in Properties, NEW t \in Templates,
             DeleteRoomTemplate(r, u, p, t)
      PROVE  SlotStep(r)
  BY <1>2, DeleteBegins DEF SlotStep
<1>3. ASSUME NEW which, Ended(r, which) PROVE SlotStep(r)
  BY <1>3, Moves DEF SlotStep, GoesOn
<1>4. CASE ReadRoomTemplate(r)
  BY <1>4, ReadSlot DEF SlotStep, GoesOn
<1>5. CASE AuthoriseDelete(r)
  <2>1. OthersWait(r) /\ (request'[r] = NoRequest \/ (Kept(r) /\ request'[r].stage = "delete"))
    BY <1>5, Moves DEF AuthoriseDelete
  <2> QED
    BY <1>5, <2>1 DEF AuthoriseDelete, SlotStep, GoesOn
<1>6. CASE DeleteRooms(r)
  BY <1>6, Moves DEF DeleteRooms, SlotStep
<1> QED
  BY <1>1, <1>2, <1>3, <1>4, <1>5, <1>6
  DEF ChangeTemplate, CreateRoomTemplate, UpdatePrices, UpdateFails, DeleteOwnBookings

LEMMA PictureSlots ==
  ASSUME TypeOK, NEW r \in Requests, ChangePicture(r)
  PROVE  SlotStep(r)
<1>1. ASSUME NEW h \in Holders, NEW k \in Images, PictureRead(r, h, k) PROVE SlotStep(r)
  BY <1>1, PictureBegins DEF SlotStep
<1>2. CASE PictureWrite(r)
  <2>1. OthersWait(r) /\ Kept(r) /\ request'[r].stage = "discard"
    BY <1>2, Moves DEF PictureWrite
  <2> QED
    BY <1>2, <2>1 DEF PictureWrite, SlotStep, GoesOn
<1>3. CASE PictureDiscard(r)
  BY <1>3, Moves DEF PictureDiscard, SlotStep
<1> QED
  BY <1>1, <1>2, <1>3 DEF ChangePicture

LEMMA SlotsStayTrue ==
  ASSUME SlotInv, NEW r \in Requests, SlotStep(r)
  PROVE  \A q \in Requests : slotTrue(q)'
BY DEF SlotInv, SlotStep, OthersWait, GoesOn, Begins, Kept, slotTrue, At, NoRequest

\* The steps that are no request's.
Aside ==
  \/ \E u \in Users : SessionExpires(u)
  \/ ChangeProperty
  \/ \E b \in Bookings, u \in Users, t \in Templates : CreateBooking(b, u, t)
  \/ \E k \in Images : Upload(k) \/ DeleteKey(k)

LEMMA AsideType ==
  ASSUME TypeOK, Aside, UNCHANGED offered
  PROVE  TypeOK' /\ UNCHANGED request
<1> USE DEF accountVars, inventoryVars, pictureVars
<1>1. ASSUME NEW u \in Users, SessionExpires(u)
      PROVE  TypeOK' /\ UNCHANGED request
  BY <1>1 DEF TypeOK, SessionExpires
<1>2. ASSUME ChangeProperty PROVE TypeOK' /\ UNCHANGED request
  BY <1>2, PropertyType DEF ChangeProperty, CreateProperty, DeleteProperty
<1>3. ASSUME NEW b \in Bookings, NEW u \in Users, NEW t \in Templates, CreateBooking(b, u, t)
      PROVE  TypeOK' /\ UNCHANGED request
  <2>1. [guest |-> u, template |-> t] \in BookingRow
    BY DEF BookingRow
  <2> QED
    BY <1>3, <2>1 DEF TypeOK, CreateBooking
<1>4. ASSUME NEW k \in Images, Upload(k) \/ DeleteKey(k) PROVE TypeOK' /\ UNCHANGED request
  BY <1>4 DEF TypeOK, Upload, DeleteKey
<1> QED
  BY <1>1, <1>2, <1>3, <1>4 DEF Aside

LEMMA SlotInvStep == SlotInv /\ [Next]_vars => SlotInv'
<1> SUFFICES ASSUME SlotInv, [Next]_vars PROVE SlotInv'
  OBVIOUS
<1>1. TypeOK /\ \A r \in Requests : slotTrue(r)
  BY DEF SlotInv
<1>2. CASE UNCHANGED vars
  BY <1>2 DEF vars, accountVars, inventoryVars, pictureVars, SlotInv, TypeOK, slotTrue
<1>3. CASE Aside /\ UNCHANGED offered
  BY <1>1, <1>3, AsideType DEF SlotInv, slotTrue
<1>4. ASSUME NEW r \in Requests, Onboarding(r) \/ Fail(r), UNCHANGED offered PROVE SlotInv'
  <2>1. TypeOK'
    BY <1>1, <1>4, OnboardingType DEF slotTrue, TypeOK, RequestSlot, Operations
  <2> QED
    BY <1>1, <1>4, <2>1, OnboardingSlots, SlotsStayTrue DEF SlotInv
<1>5. ASSUME NEW r \in Requests, ChangeTemplate(r), UNCHANGED offered PROVE SlotInv'
  <2>1. TypeOK'
    BY <1>1, <1>5, TemplateType DEF slotTrue
  <2>2. UNCHANGED request => \A q \in Requests : slotTrue(q)'
    BY <1>1 DEF slotTrue
  <2> QED
    BY <1>1, <1>5, <2>1, <2>2, TemplateSlots, SlotsStayTrue DEF SlotInv
<1>6. ASSUME NEW r \in Requests, ChangePicture(r), UNCHANGED offered PROVE SlotInv'
  <2>1. TypeOK'
    BY <1>1, <1>6, PictureType DEF slotTrue
  <2> QED
    BY <1>1, <1>6, <2>1, PictureSlots, SlotsStayTrue DEF SlotInv
<1> QED
  BY <1>2, <1>3, <1>4, <1>5, <1>6 DEF Next, Aside

LEMMA SlotInvInit == Init => SlotInv
<1> SUFFICES ASSUME Init PROVE SlotInv
  OBVIOUS
<1>1. NoTemplate \in TemplateRow /\ NoBooking \in BookingRow
  BY DEF NoTemplate, TemplateRow, NoBooking, BookingRow
<1>2. TypeOK
  BY <1>1, SlotTypes DEF Init, TypeOK
<1> QED
  BY <1>2 DEF Init, SlotInv, slotTrue, NoRequest

LEMMA SlotsHold == Spec => []SlotInv
BY SlotInvInit, SlotInvStep, PTL DEF Spec

\* Accounts, templates, bookings, pictures and requests keep the shape the code gives
\* them (TypeOK).
THEOREM BackOfficeTypeCorrect == Spec => []TypeOK
<1>1. SlotInv => TypeOK
  BY DEF SlotInv
<1> QED
  BY <1>1, SlotsHold, PTL

-----------------------------------------------------------------------------
(* Onboarding. *)

waits(u) ==
  \E r \in Requests : request[r].stage \in {"session", "create"} /\ request[r].user = u

\* Who owns a tenant keeps it, what broke off is not forgotten, and a request leaves
\* the two statements only by the third one or by failing.
LEMMA AdminStays ==
  ASSUME SlotInv, NEW r \in Requests, Onboarding(r) \/ Fail(r), NEW u \in Users,
         role'[u] = "Admin",
         role[u] = "Admin" => u \in tenants \cup broken \/ waits(u)
  PROVE  u \in tenants' \cup broken' \/ waits(u)'
<1>1. TypeOK /\ \A q \in Requests : slotTrue(q)
  BY DEF SlotInv
<1>2. ASSUME OthersWait(r), waits(u)
      PROVE  waits(u)' \/ (request[r].stage \in {"session", "create"} /\ request[r].user = u)
  BY <1>2 DEF waits, OthersWait
<1>3. ASSUME \/ \E v \in Users : SessionGet(r, v)
             \/ SessionQuery(r) \/ SessionSet(r) \/ CreateTenant(r)
      PROVE  u \in tenants' \cup broken' \/ waits(u)'
  <2>1. OthersWait(r)
    BY <1>1, OnboardingSlots DEF SlotStep
  <2>2. UNCHANGED <<role, tenants, broken>>
    BY <1>3 DEF SessionGet, SessionQuery, SessionSet, CreateTenant, accountVars
  <2>3. request[r].stage \notin {"session", "create"}
    <3>1. ASSUME NEW v \in Users, SessionGet(r, v) PROVE request[r].stage = "idle"
      BY <1>1, <3>1, GetBegins DEF NoRequest
    <3>2. SessionQuery(r) \/ SessionSet(r) \/ CreateTenant(r)
            => request[r].stage \in {"query", "store", "admit"}
      BY DEF SessionQuery, SessionSet, CreateTenant, At
    <3> QED
      BY <1>3, <3>1, <3>2
  <2> QED
    BY <1>2, <2>1, <2>2, <2>3
<1>4. CASE TenantPromote(r)
  <2>1. /\ OthersWait(r)
        /\ IF request[r].user \in tenants THEN request'[r] = NoRequest
           ELSE Kept(r) /\ request'[r].stage = "session"
    BY <1>1, <1>4, Moves DEF TenantPromote
  <2>2. CASE u = request[r].user
    BY <1>4, <2>1, <2>2 DEF TenantPromote, waits, Kept
  <2>3. CASE u # request[r].user
    <3>1. role[u] = "Admin"
      BY <1>1, <1>4, <2>3 DEF TenantPromote, TypeOK
    <3> QED
      BY <1>2, <1>4, <2>1, <2>3, <3>1 DEF TenantPromote
  <2> QED
    BY <2>2, <2>3
<1>5. CASE TenantSession(r)
  <2>1. OthersWait(r) /\ Kept(r) /\ request'[r].stage = "create"
    BY <1>1, <1>5, Moves DEF TenantSession
  <2>2. request[r].stage \in {"session", "create"} /\ request[r].user = u => waits(u)'
    BY <2>1 DEF waits, Kept
  <2> QED
    BY <1>2, <1>5, <2>1, <2>2 DEF TenantSession
<1>6. CASE TenantCreate(r)
  <2>1. OthersWait(r) /\ tenants' = tenants \cup {request[r].user} /\ UNCHANGED <<role, broken>>
    BY <1>1, <1>6, Moves DEF TenantCreate
  <2> QED
    BY <1>2, <2>1
<1>7. CASE Fail(r)
  <2>1. request[r].stage \in {"session", "create"} => request[r].op = "createTenant"
    BY <1>1 DEF slotTrue
  <2>2. request[r].stage \in {"session", "create"} /\ request[r].user = u
          => u \in tenants \cup broken'
    BY <1>7, <2>1 DEF Fail
  <2> QED
    BY <1>1, <1>2, <1>7, <2>2, Moves DEF Fail, accountVars
<1> QED
  BY <1>3, <1>4, <1>5, <1>6, <1>7 DEF Onboarding

LEMMA AdminStep == SlotInv /\ AdminHasTenant /\ [Next]_vars => AdminHasTenant'
<1> SUFFICES ASSUME SlotInv, AdminHasTenant, [Next]_vars, NEW u \in Users, role'[u] = "Admin"
             PROVE  u \in tenants' \cup broken' \/ waits(u)'
  BY DEF AdminHasTenant, waits
<1>1. TypeOK /\ (role[u] = "Admin" => u \in tenants \cup broken \/ waits(u))
  BY DEF SlotInv, AdminHasTenant, waits
<1>2. ASSUME UNCHANGED <<role, tenants>>, broken \subseteq broken', waits(u) => waits(u)'
      PROVE  u \in tenants' \cup broken' \/ waits(u)'
  BY <1>1, <1>2
<1>3. CASE UNCHANGED vars
  BY <1>2, <1>3 DEF vars, accountVars, waits
<1>4. CASE Aside
  <2>1. UNCHANGED <<role, tenants, request, broken>>
    BY <1>4 DEF Aside, SessionExpires, ChangeProperty, CreateProperty,
       DeleteProperty, CreateBooking, Upload, DeleteKey, accountVars
  <2> QED
    BY <1>2, <2>1 DEF waits
<1>5. ASSUME NEW r \in Requests, Onboarding(r) \/ Fail(r)
      PROVE  u \in tenants' \cup broken' \/ waits(u)'
  BY <1>1, <1>5, AdminStays
<1>6. ASSUME NEW r \in Requests, ChangeTemplate(r) \/ ChangePicture(r)
      PROVE  u \in tenants' \cup broken' \/ waits(u)'
  <2>1. UNCHANGED <<role, tenants>> /\ broken \subseteq broken'
    <3>1. CASE ChangeTemplate(r)
      BY <3>1, TemplateFrame DEF accountVars
    <3>2. CASE ChangePicture(r)
      BY <3>2 DEF ChangePicture, PictureRead, PictureWrite, PictureDiscard, accountVars
    <3> QED
      BY <1>6, <3>1, <3>2
  <2>2. UNCHANGED request \/ SlotStep(r)
    BY <1>1, <1>6, TemplateSlots, PictureSlots
  <2>3. UNCHANGED request \/ request[r].stage \notin {"session", "create"}
    <3>1. slotTrue(r)
      BY DEF SlotInv
    <3>2. request[r] = NoRequest => request[r].op = "none"
      BY DEF NoRequest
    <3>3. \/ UNCHANGED request
          \/ request[r] = NoRequest
          \/ request[r].op \in {"updateTemplate", "deleteTemplate", "picture"}
      <4>1. CASE ChangePicture(r)
        BY <4>1 DEF ChangePicture, PictureRead, PictureWrite, PictureDiscard, Begin, busy, At
      <4>2. CASE ChangeTemplate(r)
        <5>1. ASSUME NEW u2 \in Users, NEW p \in Properties, NEW t \in Templates
              PROVE  /\ \A price : CreateRoomTemplate(u2, p, t, price) => UNCHANGED request
                     /\ \A price : UpdateRoomTemplate(r, u2, p, t, price)
                          => request[r] = NoRequest
                     /\ DeleteRoomTemplate(r, u2, p, t) => request[r] = NoRequest
          BY DEF CreateRoomTemplate, UpdateRoomTemplate, DeleteRoomTemplate, Begin, busy
        <5>2. ASSUME NEW which, UpdatePrices(r, which) \/ UpdateFails(r, which)
              PROVE  request[r].op = "updateTemplate"
          BY <5>2 DEF UpdatePrices, UpdateFails, At
        <5>3. DeleteOwnBookings(r) \/ ReadRoomTemplate(r) \/ AuthoriseDelete(r) \/ DeleteRooms(r)
                => request[r].op = "deleteTemplate"
          BY DEF DeleteOwnBookings, ReadRoomTemplate, AuthoriseDelete, DeleteRooms, At
        <5> QED
          BY <4>2, <5>1, <5>2, <5>3 DEF ChangeTemplate
      <4> QED
        BY <1>6, <4>1, <4>2
    <3> QED
      BY <3>1, <3>2, <3>3 DEF slotTrue
  <2> QED
    BY <1>2, <2>1, <2>2, <2>3 DEF waits, SlotStep, OthersWait
<1> QED
  BY <1>3, <1>4, <1>5, <1>6 DEF Next, Aside

\* Every Admin has a tenant, is about to get it, or broke off between the writes of
\* createTenant.
THEOREM AdminsHaveTenants == Spec => []AdminHasTenant
<1>1. Init => AdminHasTenant
  BY DEF Init, AdminHasTenant
<1> QED
  BY <1>1, AdminStep, SlotsHold, PTL DEF Spec

-----------------------------------------------------------------------------
(* Templates and their bookings.  A booking keeps its template, as the foreign   *)
(* key says, and a template that was created has a property.                    *)

RowInv ==
  /\ \A t \in Templates :
       /\ template[t] # NoTemplate => template[t].property # None
       /\ \A r \in Requests : updating(r, t) => template[t] # NoTemplate
  /\ \A b \in Bookings :
       booking[b] # NoBooking => booking[b].template \in Templates /\ live(booking[b].template)

LEMMA RowsStay ==
  ASSUME SlotInv, RowInv, UNCHANGED <<template, deleted>>,
         \A b \in Bookings : booking'[b] = booking[b] \/ booking'[b] = NoBooking,
         \A r \in Requests, t \in Templates : updating(r, t)' => template[t] # NoTemplate
  PROVE  RowInv'
BY DEF RowInv, live

LEMMA UpdatesKept ==
  ASSUME SlotInv, NEW r \in Requests, SlotStep(r), request[r] # NoRequest, NEW t \in Templates,
         NEW q \in Requests, updating(q, t)'
  PROVE  updating(q, t)
BY DEF SlotStep, OthersWait, GoesOn, Kept, updating, NoRequest

\* Every step but those of updateRoomTemplate and createRoomTemplate leaves the prices
\* and the updates alone; the booking table changes by createBooking and
\* deleteRoomTemplate only.
LEMMA AsideRows ==
  ASSUME SlotInv, RowInv, Aside
  PROVE  /\ RowInv'
         /\ UNCHANGED <<template, request, broken>> /\ deleted \subseteq deleted'
         /\ \A b \in Bookings : booking[b] # NoBooking => booking'[b] = booking[b]
<1>1. ASSUME NEW b \in Bookings, NEW u \in Users, NEW t \in Templates, CreateBooking(b, u, t)
      PROVE  /\ RowInv'
             /\ UNCHANGED <<template, request, broken>> /\ deleted \subseteq deleted'
             /\ \A c \in Bookings : booking[c] # NoBooking => booking'[c] = booking[c]
  <2>1. /\ booking[b] = NoBooking /\ booking'[b].template = t /\ live(t)
        /\ \A c \in Bookings \ {b} : booking'[c] = booking[c]
        /\ UNCHANGED <<template, deleted, request, broken>>
    BY <1>1 DEF CreateBooking, SlotInv, TypeOK
  <2> QED
    BY <2>1 DEF RowInv, live, updating
<1>2. ASSUME ChangeProperty
      PROVE  /\ RowInv'
             /\ UNCHANGED <<template, request, broken>> /\ deleted \subseteq deleted'
             /\ \A c \in Bookings : booking[c] # NoBooking => booking'[c] = booking[c]
  <2>1. PICK u \in Users, p \in Properties : CreateProperty(u, p) \/ DeleteProperty(u, p)
    BY <1>2 DEF ChangeProperty
  <2>2. UNCHANGED <<template, booking, request, broken>> /\ deleted \subseteq deleted'
    BY <2>1 DEF CreateProperty, DeleteProperty
  <2>3. \A t \in Templates : t \in deleted' => t \in deleted \/ t = p
    BY <2>1 DEF CreateProperty, DeleteProperty
  <2>4. \A t \in Templates : live(t) => live(t)'
    BY <2>1, <2>2, <2>3, BackOfficeAssumption DEF live
  <2> QED
    BY <2>2, <2>4 DEF RowInv, updating
<1>3. ASSUME \/ \E u \in Users : SessionExpires(u)
             \/ \E k \in Images : Upload(k) \/ DeleteKey(k)
      PROVE  UNCHANGED <<template, deleted, booking, request, broken>>
  BY <1>3 DEF SessionExpires, Upload, DeleteKey, inventoryVars
<1> QED
  BY <1>1, <1>2, <1>3 DEF Aside, RowInv, live, updating

LEMMA TemplateRows ==
  ASSUME SlotInv, RowInv, NEW r \in Requests, ChangeTemplate(r)
  PROVE  RowInv'
<1>1. TypeOK /\ slotTrue(r)
  BY DEF SlotInv
<1>2. ASSUME NEW q \in Requests, NEW t \in Templates, request[r] # NoRequest, SlotStep(r),
             updating(q, t)'
      PROVE  template[t] # NoTemplate
  BY <1>2, UpdatesKept DEF RowInv
<1>3. ASSUME UNCHANGED <<template, deleted>>, request[r] # NoRequest, SlotStep(r),
             \A b \in Bookings : booking'[b] = booking[b] \/ booking'[b] = NoBooking
      PROVE  RowInv'
  BY <1>2, <1>3, RowsStay
<1>4. request[r].op # "none" => request[r] # NoRequest
  BY DEF NoRequest
<1>5. ASSUME NEW u \in Users, NEW p \in Properties, NEW t \in Templates, NEW price \in Prices,
             CreateRoomTemplate(u, p, t, price)
      PROVE  RowInv'
  <2>1. /\ template'[t].property = p
        /\ \A o \in Templates \ {t} : template'[o] = template[o]
        /\ template[t] = NoTemplate
        /\ UNCHANGED <<deleted, booking, request>>
    BY <1>1, <1>5 DEF CreateRoomTemplate, TypeOK
  <2>2. p # None /\ NoTemplate.property = None
    BY BackOfficeAssumption DEF NoTemplate
  <2> QED
    BY <2>1, <2>2 DEF RowInv, live, updating
<1>6. ASSUME NEW u \in Users, NEW p \in Properties, NEW t \in Templates, NEW price \in Prices,
             UpdateRoomTemplate(r, u, p, t, price)
      PROVE  RowInv'
  <2>0. OthersWait(r) /\ request'[r].on = t
    BY <1>1, <1>6, UpdateBegins
  <2>1. /\ OthersWait(r) /\ request'[r].on = t /\ live(t)
        /\ UNCHANGED <<template, deleted, booking>>
    BY <1>6, <2>0 DEF UpdateRoomTemplate, inventoryVars
  <2>2. \A q \in Requests, o \in Templates : updating(q, o)' => template[o] # NoTemplate
    BY <2>1 DEF RowInv, updating, OthersWait, live
  <2> QED
    BY <2>1, <2>2, RowsStay
<1>7. ASSUME NEW u \in Users, NEW p \in Properties, NEW t \in Templates,
             DeleteRoomTemplate(r, u, p, t)
      PROVE  RowInv'
  <2>1. /\ OthersWait(r) /\ request'[r].op = "deleteTemplate"
        /\ UNCHANGED <<template, deleted, booking>>
    BY <1>1, <1>7, DeleteBegins DEF DeleteRoomTemplate, inventoryVars
  <2>2. \A q \in Requests, o \in Templates : updating(q, o)' => template[o] # NoTemplate
    BY <2>1 DEF RowInv, updating, OthersWait
  <2> QED
    BY <2>1, <2>2, RowsStay
<1>8. ASSUME NEW which \in {"price", "rooms"}, UpdatePrices(r, which) PROVE RowInv'
  <2>1. SlotStep(r) /\ request[r] # NoRequest
    BY <1>1, <1>4, <1>8, Moves DEF UpdatePrices, At, SlotStep, GoesOn
  <2>2. PICK t \in Templates : t = request[r].on
    BY <1>1, <1>8 DEF UpdatePrices, At, slotTrue
  <2>3. /\ \A o \in Templates \ {t} : template'[o] = template[o]
        /\ template'[t].property = template[t].property
        /\ template'[t] # template[t] => live(t)
        /\ UNCHANGED <<deleted, booking>>
    BY <1>1, <1>8, <2>2 DEF UpdatePrices, TypeOK, TemplateRow
  <2>4. \A o \in Templates : template[o] # NoTemplate => template'[o] # NoTemplate
    BY <2>3 DEF RowInv, NoTemplate
  <2>5. \A o \in Templates : template'[o] # NoTemplate => template[o] # NoTemplate
    BY <2>3 DEF live
  <2> QED
    BY <1>2, <2>1, <2>3, <2>4, <2>5 DEF RowInv, live
<1>9. ASSUME NEW which \in {"price", "rooms"}, UpdateFails(r, which) PROVE RowInv'
  <2>1. SlotStep(r) /\ request[r] # NoRequest /\ UNCHANGED <<template, deleted, booking>>
    BY <1>1, <1>4, <1>9, Moves DEF UpdateFails, At, SlotStep, GoesOn, inventoryVars
  <2> QED
    BY <1>3, <2>1
<1>10. CASE DeleteOwnBookings(r)
  <2>1. SlotStep(r) /\ request[r] # NoRequest /\ UNCHANGED <<template, deleted>>
    BY <1>1, <1>4, <1>10, Moves DEF DeleteOwnBookings, At, SlotStep, GoesOn
  <2>2. \A b \in Bookings : booking'[b] = booking[b] \/ booking'[b] = NoBooking
    BY <1>10 DEF DeleteOwnBookings
  <2> QED
    BY <1>3, <2>1, <2>2
<1>11. CASE ReadRoomTemplate(r) \/ AuthoriseDelete(r)
  <2>1. SlotStep(r) /\ request[r] # NoRequest
    <3>1. request[r] # NoRequest
      BY <1>4, <1>11 DEF ReadRoomTemplate, AuthoriseDelete, At
    <3>2. CASE ReadRoomTemplate(r)
      BY <1>1, <3>1, <3>2, ReadSlot DEF SlotStep, GoesOn
    <3>3. CASE AuthoriseDelete(r)
      <4>1. OthersWait(r) /\ (request'[r] = NoRequest
                               \/ (Kept(r) /\ request'[r].stage = "delete"))
        BY <1>1, <3>3, Moves DEF AuthoriseDelete
      <4> QED
        BY <3>1, <3>3, <4>1 DEF AuthoriseDelete, SlotStep, GoesOn
    <3> QED
      BY <1>11, <3>2, <3>3, <3>1
  <2>2. UNCHANGED <<template, deleted, booking>>
    BY <1>11 DEF ReadRoomTemplate, AuthoriseDelete, inventoryVars
  <2> QED
    BY <1>3, <2>1, <2>2
<1>12. CASE DeleteRooms(r)
  <2>1. SlotStep(r) /\ request[r] # NoRequest
    BY <1>1, <1>4, <1>12, Moves DEF DeleteRooms, At, SlotStep
  <2>2. /\ deleted' = deleted \cup {request[r].on}
        /\ \A b \in Bookings : booking[b].template # request[r].on
        /\ UNCHANGED <<template, booking>>
    BY <1>12 DEF DeleteRooms
  <2> QED
    BY <1>2, <2>1, <2>2 DEF RowInv, live
<1> QED
  BY <1>5, <1>6, <1>7, <1>8, <1>9, <1>10, <1>11, <1>12 DEF ChangeTemplate

LEMMA OtherRows ==
  ASSUME SlotInv, RowInv, NEW r \in Requests, Onboarding(r) \/ ChangePicture(r) \/ Fail(r)
  PROVE  RowInv' /\ UNCHANGED inventoryVars
<1>1. TypeOK /\ slotTrue(r)
  BY DEF SlotInv
<1>2. UNCHANGED inventoryVars
  BY DEF Onboarding, SessionGet, SessionQuery, SessionSet, CreateTenant, TenantPromote,
     TenantSession, TenantCreate, ChangePicture, PictureRead, PictureWrite, PictureDiscard, Fail
<1>3. SlotStep(r)
  BY <1>1, OnboardingSlots, PictureSlots
<1>4. \A q \in Requests, t \in Templates : updating(q, t)' => template[t] # NoTemplate
  <2>1. CASE request[r] # NoRequest
    BY <1>3, <2>1, UpdatesKept DEF RowInv
  <2>2. CASE request[r] = NoRequest
    <3>1. request'[r].op # "updateTemplate"
      <4>1. \A u \in Users : SessionGet(r, u) => request'[r].op = "createTenant"
        BY <1>1, GetBegins
      <4>2. \A h \in Holders, k \in Images : PictureRead(r, h, k) => request'[r].op = "picture"
        BY <1>1, PictureBegins
      <4>3. ~(SessionQuery(r) \/ SessionSet(r) \/ CreateTenant(r) \/ TenantPromote(r)
               \/ TenantSession(r) \/ TenantCreate(r) \/ PictureWrite(r)
               \/ PictureDiscard(r) \/ Fail(r))
        BY <2>2 DEF SessionQuery, SessionSet, CreateTenant, TenantPromote,
           TenantSession, TenantCreate, PictureWrite, PictureDiscard,
           Fail, At, busy, NoRequest
      <4> QED
        BY <4>1, <4>2, <4>3 DEF Onboarding, ChangePicture
    <3> QED
      BY <1>3, <3>1 DEF SlotStep, OthersWait, updating, RowInv
  <2> QED
    BY <2>1, <2>2
<1> QED
  BY <1>2, <1>4, RowsStay DEF inventoryVars

LEMMA RowStep == SlotInv /\ RowInv /\ [Next]_vars => RowInv'
<1> SUFFICES ASSUME SlotInv, RowInv, [Next]_vars PROVE RowInv'
  OBVIOUS
<1>1. CASE UNCHANGED vars
  BY <1>1 DEF vars, inventoryVars, RowInv, live, updating
<1> QED
  BY <1>1, AsideRows, TemplateRows, OtherRows DEF Next, Aside

LEMMA RowsHold == Spec => [](SlotInv /\ RowInv)
<1>1. Init => RowInv
  BY DEF Init, RowInv, updating, NoRequest
<1> QED
  BY <1>1, RowStep, SlotsHold, PTL DEF Spec

\* Deleting a room template, refused or not, takes no booking but the caller's own,
\* and a template keeps the bookings it was sold for (deleteRoomTemplate).
THEOREM OthersBookings == Spec => OthersBookingsStay
<1>1. SlotInv /\ RowInv /\ [Next]_vars
        => [\A b \in Bookings :
              booking'[b] # booking[b] /\ booking[b] # NoBooking
                => /\ live(booking[b].template)
                   /\ \E r \in Requests : /\ request[r].op = "deleteTemplate"
                                          /\ request[r].user = booking[b].guest]_vars
  <2> SUFFICES ASSUME SlotInv, RowInv, Next, NEW b \in Bookings,
                      booking'[b] # booking[b], booking[b] # NoBooking
               PROVE  /\ live(booking[b].template)
                      /\ \E r \in Requests : /\ request[r].op = "deleteTemplate"
                                             /\ request[r].user = booking[b].guest
    BY DEF vars, inventoryVars
  <2>1. live(booking[b].template)
    BY DEF RowInv
  <2>2. ~Aside
    BY AsideRows
  <2>3. PICK r \in Requests : ChangeTemplate(r)
    BY <2>2, OtherRows DEF Next, Aside, inventoryVars
  <2>4. DeleteOwnBookings(r)
    BY <2>3, TemplateFrame
  <2>5. request[r].op = "deleteTemplate" /\ request[r].user = booking[b].guest
    BY <2>4 DEF DeleteOwnBookings, At, SlotInv, TypeOK
  <2> QED
    BY <2>1, <2>5
<1> QED
  BY <1>1, RowsHold, PTL DEF Spec, OthersBookingsStay


-----------------------------------------------------------------------------
(* Whose slot a step moves. *)

LEMMA OnboardingOps ==
  ASSUME TypeOK, NEW r \in Requests, Onboarding(r)
  PROVE  /\ OthersWait(r)
         /\ {request[r].op, request'[r].op} \subseteq {"none", "createTenant"}
<1>1. SlotStep(r)
  BY OnboardingSlots
<1>2. NoRequest.op = "none"
  BY DEF NoRequest
<1>3. \A u \in Users : SessionGet(r, u)
        => request[r] = NoRequest /\ request'[r].op = "createTenant"
  BY GetBegins
<1>4. (SessionQuery(r) \/ SessionSet(r) \/ CreateTenant(r)
        \/ TenantPromote(r) \/ TenantSession(r) \/ TenantCreate(r))
        => request[r].op = "createTenant"
  BY DEF SessionQuery, SessionSet, CreateTenant, TenantPromote, TenantSession, TenantCreate, At
<1>5. request[r].op = "createTenant" => request'[r].op \in {"none", "createTenant"}
  BY <1>1, <1>2 DEF SlotStep, GoesOn, Kept
<1>6. \/ request[r].op = "none" /\ request'[r].op = "createTenant"
      \/ request[r].op = "createTenant"
  BY <1>2, <1>3, <1>4 DEF Onboarding
<1> QED
  BY <1>1, <1>5, <1>6 DEF SlotStep

LEMMA TemplateOps ==
  ASSUME TypeOK, NEW r \in Requests, ChangeTemplate(r)
  PROVE  \/ UNCHANGED request
         \/ /\ OthersWait(r)
            /\ {request[r].op, request'[r].op}
                 \subseteq {"none", "updateTemplate", "deleteTemplate"}
<1>1. UNCHANGED request \/ SlotStep(r)
  BY TemplateSlots
<1>2. NoRequest.op = "none"
  BY DEF NoRequest
<1>3. ASSUME NEW u \in Users, NEW p \in Properties, NEW t \in Templates
      PROVE  /\ \A price \in Prices : UpdateRoomTemplate(r, u, p, t, price)
                  => request[r] = NoRequest /\ request'[r].op = "updateTemplate"
             /\ DeleteRoomTemplate(r, u, p, t)
                  => request[r] = NoRequest /\ request'[r].op = "deleteTemplate"
  BY UpdateBegins, DeleteBegins
<1>4. ASSUME NEW which, UpdatePrices(r, which) \/ UpdateFails(r, which)
      PROVE  request[r].op = "updateTemplate"
  BY <1>4 DEF UpdatePrices, UpdateFails, At
<1>5. DeleteOwnBookings(r) \/ ReadRoomTemplate(r) \/ AuthoriseDelete(r) \/ DeleteRooms(r)
        => request[r].op = "deleteTemplate"
  BY DEF DeleteOwnBookings, ReadRoomTemplate, AuthoriseDelete, DeleteRooms, At
<1>6. SlotStep(r) /\ request[r].op # "none" => request'[r].op \in {"none", request[r].op}
  BY <1>2 DEF SlotStep, GoesOn, Kept
<1>7. \A u, p, t, price : CreateRoomTemplate(u, p, t, price) => UNCHANGED request
  BY DEF CreateRoomTemplate
<1> QED
  BY <1>1, <1>2, <1>3, <1>4, <1>5, <1>6, <1>7 DEF ChangeTemplate, SlotStep

LEMMA PictureOps ==
  ASSUME TypeOK, NEW r \in Requests, ChangePicture(r)
  PROVE  OthersWait(r) /\ {request[r].op, request'[r].op} \subseteq {"none", "picture"}
<1>1. SlotStep(r)
  BY PictureSlots
<1>2. NoRequest.op = "none"
  BY DEF NoRequest
<1>3. \A h \in Holders, k \in Images : PictureRead(r, h, k)
        => request[r] = NoRequest /\ request'[r].op = "picture"
  BY PictureBegins
<1>4. PictureWrite(r) \/ PictureDiscard(r) => request[r].op = "picture"
  BY DEF PictureWrite, PictureDiscard, At
<1>5. request[r].op = "picture" => request'[r].op \in {"none", "picture"}
  BY <1>1, <1>2 DEF SlotStep, GoesOn, Kept
<1> QED
  BY <1>1, <1>2, <1>3, <1>4, <1>5 DEF ChangePicture, SlotStep

-----------------------------------------------------------------------------
(* Pictures.  A key that was sent once is carried by one request or one holder, *)
(* and who is about to delete it is the one who replaces it.                    *)

writes(r, k) == At(r, "picture", "write") /\ request[r].key = k

replaces(r, k) == request[r].op = "picture" /\ request[r].old = k

OneCarrier(k) ==
  /\ \A r, q \in Requests : writes(r, k) /\ writes(q, k) => r = q
  /\ \A h, g \in Holders : picture[h] = k /\ picture[g] = k => h = g
  /\ \A r \in Requests, h \in Holders : ~(writes(r, k) /\ picture[h] = k)
  /\ \A r, q \in Requests : ~(replaces(r, k) /\ writes(q, k))
  /\ \A r \in Requests, h \in Holders :
       replaces(r, k) /\ picture[h] = k => request[r].stage = "write" /\ request[r].on = h
  /\ (\E r \in Requests : writes(r, k)) \/ (\E h \in Holders : picture[h] = k) => k \in stored

Unused(k) ==
  /\ \A h \in Holders : picture[h] # k
  /\ \A r \in Requests : ~writes(r, k) /\ ~replaces(r, k)

PictureInv ==
  \A k \in Images :
    /\ upload[k] = "sent" => OneCarrier(k)
    /\ upload[k] \in {"none", "issued"} => Unused(k)
    /\ upload[k] = "issued" => k \in stored

LEMMA PictureFrame ==
  ASSUME PictureInv, UNCHANGED pictureVars,
         \A r \in Requests : request'[r] = request[r] \/ request'[r].op # "picture"
  PROVE  PictureInv'
BY DEF PictureInv, OneCarrier, Unused, writes, replaces, At, pictureVars

LEMMA PictureReadKeeps ==
  ASSUME SlotInv, PictureInv, NEW r \in Requests, NEW h \in Holders, NEW key \in Images,
         PictureRead(r, h, key)
  PROVE  PictureInv'
<1>1. TypeOK
  BY DEF SlotInv
<1>2. /\ OthersWait(r) /\ request[r] = NoRequest
      /\ request'[r].op = "picture" /\ request'[r].stage = "write"
      /\ request'[r].on = h /\ request'[r].key = key /\ request'[r].old = picture[h]
  BY <1>1, PictureBegins
<1>3. /\ upload[key] # "none"
      /\ upload'[key] = IF upload[key] = "issued" THEN "sent" ELSE "disowned"
      /\ \A k \in Images \ {key} : upload'[k] = upload[k]
      /\ UNCHANGED <<picture, stored>>
  BY <1>1 DEF PictureRead, TypeOK
<1>4. \A q \in Requests, k \in Images :
        /\ writes(q, k)' <=> (writes(q, k) /\ q # r) \/ (q = r /\ k = key)
        /\ replaces(q, k)' <=> (replaces(q, k) /\ q # r) \/ (q = r /\ k = picture[h])
  BY <1>2 DEF OthersWait, writes, replaces, At
<1>5. ASSUME NEW k \in Images, upload'[k] = "sent" PROVE OneCarrier(k)'
  <2>1. CASE k = key
    <3>1. Unused(k) /\ k \in stored
      BY <1>3, <1>5, <2>1 DEF PictureInv
    <3> QED
      BY <1>3, <1>4, <2>1, <3>1 DEF OneCarrier, Unused
  <2>2. CASE k # key
    <3>1. OneCarrier(k)
      BY <1>3, <1>5, <2>2 DEF PictureInv
    <3>2. \A q \in Requests : writes(q, k)' => writes(q, k)
      BY <1>4, <2>2
    <3>3. \A q \in Requests, g \in Holders :
            replaces(q, k)' /\ picture[g] = k => request'[q].stage = "write" /\ request'[q].on = g
      BY <1>2, <1>4, <3>1 DEF OneCarrier, OthersWait
    <3>4. \A q, q2 \in Requests : ~(replaces(q, k)' /\ writes(q2, k)')
      BY <1>4, <3>1, <3>2 DEF OneCarrier
    <3> QED
      BY <1>3, <3>1, <3>2, <3>3, <3>4 DEF OneCarrier
  <2> QED
    BY <2>1, <2>2
<1>6. ASSUME NEW k \in Images, upload'[k] \in {"none", "issued"}
      PROVE  Unused(k)' /\ (upload'[k] = "issued" => k \in stored')
  <2>1. k # key /\ Unused(k) /\ (upload[k] = "issued" => k \in stored)
    BY <1>3, <1>6 DEF PictureInv
  <2> QED
    BY <1>3, <1>4, <2>1 DEF Unused
<1> QED
  BY <1>5, <1>6 DEF PictureInv

LEMMA PictureWriteKeeps ==
  ASSUME SlotInv, PictureInv, NEW r \in Requests, PictureWrite(r)
  PROVE  PictureInv'
<1>1. TypeOK /\ slotTrue(r)
  BY DEF SlotInv
<1>2. OthersWait(r) /\ Kept(r) /\ request'[r].stage = "discard"
  BY <1>1, Moves DEF PictureWrite
<1>3. PICK h \in Holders, key \in Images : h = request[r].on /\ key = request[r].key
  BY <1>1 DEF PictureWrite, At, slotTrue
<1>4. /\ picture'[h] = key
      /\ \A g \in Holders \ {h} : picture'[g] = picture[g]
      /\ UNCHANGED <<stored, upload>>
  BY <1>1, <1>3 DEF PictureWrite, TypeOK
<1>5. writes(r, key)
  BY <1>3 DEF PictureWrite, writes
<1>6. \A q \in Requests, k \in Images :
        /\ writes(q, k)' <=> writes(q, k) /\ q # r
        /\ replaces(q, k)' <=> replaces(q, k)
  BY <1>2 DEF OthersWait, Kept, writes, replaces, At
<1>7. ASSUME NEW k \in Images, upload'[k] = "sent" PROVE OneCarrier(k)'
  <2>1. OneCarrier(k)
    BY <1>4, <1>7 DEF PictureInv
  <2>2. CASE k = key
    <3>1. /\ \A q \in Requests : ~writes(q, k)' /\ ~replaces(q, k)'
          /\ \A g \in Holders : picture'[g] = k => g = h
          /\ k \in stored'
      BY <1>4, <1>5, <1>6, <2>1, <2>2 DEF OneCarrier
    <3> QED
      BY <3>1 DEF OneCarrier
  <2>3. CASE k # key
    <3>1. \A g \in Holders : picture'[g] = k => g # h /\ picture[g] = k
      BY <1>4, <2>3
    <3>2. \A q \in Requests, g \in Holders :
            replaces(q, k)' /\ picture'[g] = k
              => request'[q].stage = "write" /\ request'[q].on = g
      BY <1>2, <1>3, <1>6, <2>1, <3>1 DEF OneCarrier, OthersWait
    <3> QED
      BY <1>4, <1>6, <2>1, <3>1, <3>2 DEF OneCarrier
  <2> QED
    BY <2>2, <2>3
<1>8. ASSUME NEW k \in Images, upload'[k] \in {"none", "issued"}
      PROVE  Unused(k)' /\ (upload'[k] = "issued" => k \in stored')
  <2>1. Unused(k) /\ (upload[k] = "issued" => k \in stored)
    BY <1>4, <1>8 DEF PictureInv
  <2>2. k # key
    BY <1>5, <2>1 DEF Unused
  <2> QED
    BY <1>4, <1>6, <2>1, <2>2 DEF Unused
<1> QED
  BY <1>7, <1>8 DEF PictureInv

LEMMA PictureDiscardKeeps ==
  ASSUME SlotInv, PictureInv, NEW r \in Requests, PictureDiscard(r)
  PROVE  PictureInv'
<1>1. TypeOK
  BY DEF SlotInv
<1>2. OthersWait(r) /\ request'[r] = NoRequest
  BY <1>1, Moves DEF PictureDiscard
<1>3. stored' = stored \ {request[r].old} /\ UNCHANGED <<picture, upload>>
  BY DEF PictureDiscard
<1>4. \A q \in Requests, k \in Images :
        /\ writes(q, k)' <=> writes(q, k) /\ q # r
        /\ replaces(q, k)' <=> replaces(q, k) /\ q # r
  BY <1>2 DEF OthersWait, writes, replaces, At, NoRequest
<1>5. replaces(r, request[r].old) /\ request[r].stage = "discard"
  BY DEF PictureDiscard, At, replaces
<1>6. ASSUME NEW k \in Images, upload'[k] = "sent" PROVE OneCarrier(k)'
  <2>1. OneCarrier(k)
    BY <1>3, <1>6 DEF PictureInv
  <2>2. \A q \in Requests : q # r => request'[q] = request[q]
    BY <1>2 DEF OthersWait
  <2>3. (\E q \in Requests : writes(q, k)) \/ (\E h \in Holders : picture[h] = k)
          => k # request[r].old
    BY <1>5, <2>1 DEF OneCarrier
  <2> QED
    BY <1>3, <1>4, <2>1, <2>2, <2>3 DEF OneCarrier
<1>7. ASSUME NEW k \in Images, upload'[k] \in {"none", "issued"}
      PROVE  Unused(k)' /\ (upload'[k] = "issued" => k \in stored')
  <2>1. Unused(k) /\ (upload[k] = "issued" => k \in stored)
    BY <1>3, <1>7 DEF PictureInv
  <2> QED
    BY <1>3, <1>4, <1>5, <2>1 DEF Unused
<1> QED
  BY <1>6, <1>7 DEF PictureInv

LEMMA BucketKeeps ==
  ASSUME SlotInv, PictureInv, NEW key \in Images, Upload(key) \/ DeleteKey(key)
  PROVE  PictureInv'
<1>1. UNCHANGED <<picture, request>>
  BY DEF Upload, DeleteKey
<1>2. \A k \in Images :
        /\ OneCarrier(k) /\ (k \in stored => k \in stored') => OneCarrier(k)'
        /\ Unused(k) => Unused(k)'
  BY <1>1 DEF OneCarrier, Unused, writes, replaces, At
<1>3. /\ \A k \in Images \ {key} : upload'[k] = upload[k] /\ (k \in stored => k \in stored')
      /\ \/ upload[key] = "none" /\ upload'[key] = "issued" /\ key \in stored'
         \/ upload'[key] = "disowned"
  BY DEF Upload, DeleteKey, SlotInv, TypeOK
<1> QED
  BY <1>2, <1>3 DEF PictureInv

LEMMA PictureStep == SlotInv /\ PictureInv /\ [Next]_vars => PictureInv'
<1> SUFFICES ASSUME SlotInv, PictureInv, [Next]_vars PROVE PictureInv'
  OBVIOUS
<1>1. TypeOK
  BY DEF SlotInv
<1>2. CASE UNCHANGED vars
  BY <1>2, PictureFrame DEF vars
<1>3. ASSUME \/ \E u \in Users : SessionExpires(u)
             \/ ChangeProperty
             \/ \E b \in Bookings, u \in Users, t \in Templates : CreateBooking(b, u, t)
      PROVE  PictureInv'
  BY <1>3, PictureFrame DEF SessionExpires, ChangeProperty, CreateProperty,
     DeleteProperty, CreateBooking
<1>4. ASSUME NEW r \in Requests, Onboarding(r) PROVE PictureInv'
  <2>1. UNCHANGED pictureVars
    BY <1>4 DEF Onboarding, SessionGet, SessionQuery, SessionSet, CreateTenant, TenantPromote,
       TenantSession, TenantCreate
  <2> QED
    BY <1>1, <1>4, <2>1, OnboardingOps, PictureFrame DEF OthersWait
<1>5. ASSUME NEW r \in Requests, ChangeTemplate(r) PROVE PictureInv'
  <2>1. UNCHANGED pictureVars
    BY <1>5, TemplateFrame
  <2> QED
    BY <1>1, <1>5, <2>1, TemplateOps, PictureFrame DEF OthersWait
<1>6. ASSUME NEW r \in Requests, Fail(r) PROVE PictureInv'
  <2>1. OthersWait(r) /\ request'[r] = NoRequest /\ UNCHANGED pictureVars
    BY <1>1, <1>6, Moves DEF Fail
  <2> QED
    BY <2>1, PictureFrame DEF OthersWait, NoRequest
<1>7. ASSUME NEW r \in Requests, ChangePicture(r) PROVE PictureInv'
  BY <1>7, PictureReadKeeps, PictureWriteKeeps, PictureDiscardKeeps DEF ChangePicture
<1> QED
  BY <1>2, <1>3, <1>4, <1>5, <1>6, <1>7, BucketKeeps DEF Next

\* Whatever pictures are replaced at the same time, the picture a user or tenant shows
\* is in the bucket, unless a client sent its key twice or had it deleted.
THEOREM PicturesAreStored == Spec => []PictureIsStored
<1>1. Init => PictureInv
  <2> SUFFICES ASSUME Init PROVE PictureInv
    OBVIOUS
  <2>1. \A k \in Images : Unused(k) /\ upload[k] = "none"
    BY BackOfficeAssumption DEF Init, Unused, writes, replaces, At, NoRequest
  <2> QED
    BY <2>1 DEF PictureInv
<1>2. SlotInv /\ PictureInv => PictureIsStored
  <2> SUFFICES ASSUME SlotInv, PictureInv, NEW h \in Holders, picture[h] # None
               PROVE  picture[h] \in stored \/ upload[picture[h]] = "disowned"
    BY DEF PictureIsStored
  <2>1. /\ picture[h] \in Images
        /\ upload[picture[h]] \in {"none", "issued", "sent", "disowned"}
    BY DEF SlotInv, TypeOK
  <2> QED
    BY <2>1 DEF PictureInv, OneCarrier, Unused
<1> QED
  BY <1>1, <1>2, PictureStep, SlotsHold, PTL DEF Spec


-----------------------------------------------------------------------------
(* Prices.  A template nobody updates has one price; the only update under way of *)
(* a template knows which of the two prices is still to be written.              *)

halfway(r, t) ==
  \/ request[r].left = {"price", "rooms"} /\ template[t].rooms = template[t].price
  \/ request[r].left = {"rooms"} /\ template[t].price = request[r].price
  \/ request[r].left = {"price"} /\ template[t].rooms = request[r].price

OnePrice(t) ==
  /\ \A r, q \in Requests : updating(r, t) /\ updating(q, t) => r = q
  /\ \A r \in Requests : updating(r, t) => halfway(r, t)
  /\ (\A r \in Requests : ~updating(r, t)) => template[t].rooms = template[t].price

PriceInv == \A t \in Templates : live(t) /\ t \notin broken => OnePrice(t)

\* A step leaves the updates in progress alone.
UpdatesStay ==
  \A r \in Requests :
    request'[r] = request[r]
      \/ (request[r].op # "updateTemplate" /\ request'[r].op # "updateTemplate")

LEMMA PriceFrame ==
  ASSUME PriceInv, UNCHANGED template, deleted \subseteq deleted', broken \subseteq broken',
         UpdatesStay
  PROVE  PriceInv'
BY DEF PriceInv, OnePrice, halfway, updating, live, UpdatesStay

LEMMA CreateTemplateKeeps ==
  ASSUME SlotInv, RowInv, PriceInv, NEW u \in Users, NEW p \in Properties, NEW t \in Templates,
         NEW price \in Prices, CreateRoomTemplate(u, p, t, price)
  PROVE  PriceInv'
<1>1. /\ template'[t] = [property |-> p, price |-> price, rooms |-> price]
      /\ \A o \in Templates \ {t} : template'[o] = template[o]
      /\ \A r \in Requests : ~updating(r, t)
      /\ UNCHANGED <<deleted, request, broken>>
  BY DEF CreateRoomTemplate, SlotInv, TypeOK, RowInv
<1>2. \A o \in Templates \ {t} : OnePrice(o) => OnePrice(o)'
  BY <1>1 DEF OnePrice, halfway, updating
<1>3. OnePrice(t)'
  BY <1>1 DEF OnePrice, updating
<1> QED
  BY <1>1, <1>2, <1>3 DEF PriceInv, live

LEMMA UpdateTemplateKeeps ==
  ASSUME SlotInv, PriceInv, NEW r \in Requests, NEW u \in Users, NEW p \in Properties,
         NEW t \in Templates, NEW price \in Prices, UpdateRoomTemplate(r, u, p, t, price)
  PROVE  PriceInv'
<1>1. /\ OthersWait(r) /\ request[r] = NoRequest
      /\ request'[r].op = "updateTemplate" /\ request'[r].on = t
      /\ request'[r].left = {"price", "rooms"}
  BY UpdateBegins DEF SlotInv
<1>2. UNCHANGED <<template, deleted>>
  BY DEF UpdateRoomTemplate, inventoryVars
<1>3. broken' = IF \E q \in Requests : updating(q, t) THEN broken \cup {t} ELSE broken
  BY DEF UpdateRoomTemplate
<1>4. \A q \in Requests, o \in Templates :
        updating(q, o)' <=> updating(q, o) \/ (q = r /\ o = t)
  BY <1>1 DEF OthersWait, updating, NoRequest
<1>5. ASSUME NEW o \in Templates, o # t, OnePrice(o) PROVE OnePrice(o)'
  <2>1. \A q \in Requests : (updating(q, o)' <=> updating(q, o))
                             /\ (updating(q, o) => request'[q] = request[q])
    BY <1>1, <1>4, <1>5 DEF OthersWait, updating, NoRequest
  <2> QED
    BY <1>2, <1>5, <2>1 DEF OnePrice, halfway
<1>6. ASSUME t \notin broken', OnePrice(t) PROVE OnePrice(t)'
  <2>1. \A q \in Requests : ~updating(q, t)
    BY <1>3, <1>6
  <2>2. template'[t].rooms = template'[t].price
    BY <1>2, <1>6, <2>1 DEF OnePrice
  <2>3. halfway(r, t)'
    BY <1>1, <2>2 DEF halfway
  <2> QED
    BY <1>4, <2>1, <2>2, <2>3 DEF OnePrice
<1> QED
  BY <1>2, <1>3, <1>5, <1>6 DEF PriceInv, live

\* The end of one of the two statements.
LEMMA UpdateEnds ==
  ASSUME SlotInv, NEW r \in Requests, NEW which \in {"price", "rooms"}, Ended(r, which),
         request[r].op = "updateTemplate"
  PROVE  /\ OthersWait(r)
         /\ IF request[r].left = {which} THEN request'[r] = NoRequest
            ELSE Kept(r) /\ request'[r].left = request[r].left \ {which}
<1>1. TypeOK
  BY DEF SlotInv
<1>2. request'[r] = IF request[r].left = {which} THEN NoRequest
                    ELSE [request[r] EXCEPT !.left = request[r].left \ {which}]
  BY <1>1 DEF Ended, TypeOK
<1>3. OthersWait(r)
  BY <1>1, Moves
<1>4. request[r] \in RequestSlot
  BY <1>1 DEF TypeOK
<1>5. CASE request[r].left = {which}
  BY <1>2, <1>3, <1>5
<1>6. CASE request[r].left # {which}
  <2>1. request'[r] = [request[r] EXCEPT !.left = request[r].left \ {which}]
    BY <1>2, <1>6
  <2> QED
    BY <1>3, <1>4, <1>6, <2>1 DEF Kept, RequestSlot
<1> QED
  BY <1>5, <1>6

LEMMA UpdatePricesKeeps ==
  ASSUME SlotInv, PriceInv, NEW r \in Requests, NEW which \in {"price", "rooms"},
         UpdatePrices(r, which)
  PROVE  PriceInv'
<1>1. TypeOK /\ slotTrue(r)
  BY DEF SlotInv
<1>2. /\ request[r].op = "updateTemplate" /\ which \in request[r].left
      /\ UNCHANGED <<deleted, broken>>
  BY DEF UpdatePrices, At
<1>3. PICK t \in Templates : t = request[r].on
  BY <1>1, <1>2 DEF slotTrue
<1>4. /\ OthersWait(r)
      /\ IF request[r].left = {which} THEN request'[r] = NoRequest
         ELSE Kept(r) /\ request'[r].left = request[r].left \ {which}
  BY <1>2, UpdateEnds DEF UpdatePrices
<1>5. updating(r, t) /\ \A o \in Templates \ {t} : ~updating(r, o) /\ ~updating(r, o)'
  BY <1>2, <1>3, <1>4 DEF updating, Kept, NoRequest
<1>6. template' = IF live(t)
                  THEN [template EXCEPT ![t] = [template[t] EXCEPT ![which] = request[r].price]]
                  ELSE template
  BY <1>3 DEF UpdatePrices
<1>7. \A o \in Templates : live(o)' => live(o)
  BY <1>1, <1>2, <1>6 DEF live, TypeOK
<1>8. ASSUME NEW o \in Templates, o # t, OnePrice(o) PROVE OnePrice(o)'
  <2>1. template'[o] = template[o]
    BY <1>1, <1>6, <1>8 DEF TypeOK
  <2>2. \A q \in Requests : (updating(q, o)' <=> updating(q, o))
                             /\ (updating(q, o) => request'[q] = request[q])
    BY <1>4, <1>5, <1>8 DEF OthersWait, updating
  <2> QED
    BY <1>8, <2>1, <2>2 DEF OnePrice, halfway
<1>9. ASSUME live(t), OnePrice(t) PROVE OnePrice(t)'
  <2>1. \A q \in Requests : q # r => ~updating(q, t) /\ ~updating(q, t)'
    BY <1>4, <1>5, <1>9 DEF OnePrice, OthersWait, updating
  <2>2. template'[t] = [template[t] EXCEPT ![which] = request[r].price]
    BY <1>1, <1>6, <1>9 DEF TypeOK
  <2>3. template[t] \in TemplateRow
    BY <1>1 DEF TypeOK
  <2>4. /\ which = "price" => /\ template'[t].price = request[r].price
                              /\ template'[t].rooms = template[t].rooms
        /\ which = "rooms" => /\ template'[t].rooms = request[r].price
                              /\ template'[t].price = template[t].price
    BY <2>2, <2>3 DEF TemplateRow
  <2>5. halfway(r, t)
    BY <1>5, <1>9 DEF OnePrice
  <2>6. CASE request[r].left = {which}
    <3>1. ~updating(r, t)'
      BY <1>4, <2>6 DEF updating, NoRequest
    <3>2. template'[t].rooms = template'[t].price
      BY <2>4, <2>5, <2>6 DEF halfway
    <3> QED
      BY <2>1, <3>1, <3>2 DEF OnePrice
  <2>7. CASE request[r].left # {which}
    <3>1. request[r].left = {"price", "rooms"}
      BY <1>2, <2>5, <2>7 DEF halfway
    <3>2. Kept(r) /\ request'[r].left = {"price", "rooms"} \ {which}
      BY <1>4, <2>7, <3>1
    <3>3. halfway(r, t)'
      BY <2>4, <3>2 DEF halfway, Kept
    <3>4. updating(r, t)'
      BY <1>5, <3>2 DEF updating, Kept
    <3> QED
      BY <2>1, <3>3, <3>4 DEF OnePrice
  <2> QED
    BY <2>6, <2>7
<1> QED
  BY <1>2, <1>7, <1>8, <1>9 DEF PriceInv

\* A statement fails, or the request does.
LEMMA UpdateBreaksOff ==
  ASSUME SlotInv, PriceInv, NEW r \in Requests,
         Fail(r) \/ \E which \in {"price", "rooms"} : UpdateFails(r, which)
  PROVE  PriceInv'
<1>1. TypeOK /\ slotTrue(r)
  BY DEF SlotInv
<1>2. UNCHANGED <<template, deleted>>
  BY DEF Fail, UpdateFails, inventoryVars
<1>3. broken \subseteq broken' /\ SlotStep(r) /\ request[r] # NoRequest
  <2>1. CASE Fail(r)
    BY <1>1, <2>1, OnboardingSlots DEF Fail, busy
  <2>2. ASSUME NEW which \in {"price", "rooms"}, UpdateFails(r, which)
        PROVE  broken \subseteq broken' /\ SlotStep(r) /\ request[r] # NoRequest
    <3>1. request[r] # NoRequest /\ broken \subseteq broken'
      BY <2>2 DEF UpdateFails, At, NoRequest
    <3>2. /\ OthersWait(r)
          /\ request'[r] = NoRequest \/ (Kept(r) /\ request'[r].stage = request[r].stage)
      BY <1>1, <2>2, Moves DEF UpdateFails
    <3> QED
      BY <3>1, <3>2 DEF SlotStep, GoesOn
  <2> QED
    BY <2>1, <2>2
<1>4. CASE request[r].op # "updateTemplate"
  <2>1. UpdatesStay
    BY <1>3, <1>4 DEF SlotStep, GoesOn, Kept, OthersWait, UpdatesStay, NoRequest
  <2> QED
    BY <1>2, <1>3, <2>1, PriceFrame
<1>5. CASE request[r].op = "updateTemplate"
  <2>1. PICK t \in Templates : t = request[r].on
    BY <1>1, <1>5 DEF slotTrue
  <2>2. updating(r, t) /\ \A o \in Templates \ {t} : ~updating(r, o)
    BY <1>5, <2>1 DEF updating
  <2>3. \A q \in Requests, o \in Templates : q # r => (updating(q, o)' <=> updating(q, o))
    BY <1>3 DEF SlotStep, OthersWait, updating
  <2>4. \A o \in Templates \ {t} : ~updating(r, o)'
    BY <1>3, <2>1 DEF SlotStep, GoesOn, Kept, updating, NoRequest
  <2>5. ASSUME NEW o \in Templates, o # t, OnePrice(o) PROVE OnePrice(o)'
    <3>1. \A q \in Requests : (updating(q, o)' <=> updating(q, o))
                               /\ (updating(q, o) => request'[q] = request[q])
      BY <1>3, <2>2, <2>3, <2>4, <2>5 DEF SlotStep, OthersWait
    <3> QED
      BY <1>2, <2>5, <3>1 DEF OnePrice, halfway
  <2>6. ASSUME t \notin broken', OnePrice(t) PROVE OnePrice(t)'
    <3>1. Fail(r) /\ request[r].left = {"price", "rooms"}
      BY <1>5, <2>1, <2>6 DEF Fail, UpdateFails
    <3>2. request'[r] = NoRequest
      BY <1>1, <3>1, Moves DEF Fail
    <3>3. \A q \in Requests : ~updating(q, t)'
      BY <2>2, <2>3, <2>6, <3>2 DEF OnePrice, updating, NoRequest
    <3>4. template[t].rooms = template[t].price
      BY <2>2, <2>6, <3>1 DEF OnePrice, halfway
    <3> QED
      BY <1>2, <3>3, <3>4 DEF OnePrice
  <2> QED
    BY <1>2, <1>3, <2>5, <2>6 DEF PriceInv, live
<1> QED
  BY <1>4, <1>5

LEMMA PriceStep == SlotInv /\ RowInv /\ PriceInv /\ [Next]_vars => PriceInv'
<1> SUFFICES ASSUME SlotInv, RowInv, PriceInv, [Next]_vars PROVE PriceInv'
  OBVIOUS
<1>1. TypeOK
  BY DEF SlotInv
<1>2. CASE UNCHANGED vars
  BY <1>2, PriceFrame DEF vars, inventoryVars, UpdatesStay
<1>3. CASE Aside
  BY <1>3, AsideRows, PriceFrame DEF UpdatesStay
<1>4. ASSUME NEW r \in Requests, Onboarding(r) \/ ChangePicture(r) PROVE PriceInv'
  <2>1. UNCHANGED <<inventoryVars, broken>>
    BY <1>4 DEF Onboarding, SessionGet, SessionQuery, SessionSet, CreateTenant, TenantPromote,
       TenantSession, TenantCreate,
       ChangePicture, PictureRead, PictureWrite, PictureDiscard
  <2>2. UpdatesStay
    BY <1>1, <1>4, OnboardingOps, PictureOps DEF OthersWait, UpdatesStay
  <2> QED
    BY <2>1, <2>2, PriceFrame DEF inventoryVars
<1>5. ASSUME NEW r \in Requests, ChangeTemplate(r) PROVE PriceInv'
  <2>1. CASE DeleteOwnBookings(r) \/ ReadRoomTemplate(r) \/ AuthoriseDelete(r) \/ DeleteRooms(r)
    <3>1. UNCHANGED <<template, broken>> /\ deleted \subseteq deleted'
      BY <2>1 DEF DeleteOwnBookings, ReadRoomTemplate, AuthoriseDelete, DeleteRooms, inventoryVars
    <3>2. request[r].op = "deleteTemplate"
      BY <2>1 DEF DeleteOwnBookings, ReadRoomTemplate, AuthoriseDelete, DeleteRooms, At
    <3>3. UpdatesStay
      BY <1>1, <1>5, <3>2, TemplateSlots
      DEF SlotStep, GoesOn, Kept, OthersWait, UpdatesStay, NoRequest
    <3> QED
      BY <3>1, <3>3, PriceFrame
  <2>2. ASSUME NEW u \in Users, NEW p \in Properties, NEW t \in Templates,
               DeleteRoomTemplate(r, u, p, t)
        PROVE  PriceInv'
    <3>1. UNCHANGED <<template, deleted, broken>>
      BY <2>2 DEF DeleteRoomTemplate, inventoryVars
    <3>2. UpdatesStay
      BY <1>1, <2>2, DeleteBegins DEF OthersWait, UpdatesStay, NoRequest
    <3> QED
      BY <3>1, <3>2, PriceFrame
  <2> QED
    BY <1>5, <2>1, <2>2, CreateTemplateKeeps, UpdateTemplateKeeps, UpdatePricesKeeps,
       UpdateBreaksOff DEF ChangeTemplate
<1> QED
  BY <1>2, <1>3, <1>4, <1>5, UpdateBreaksOff DEF Next, Aside

\* The rooms of a template cost what the template says, unless an update of it is under
\* way, has failed halfway or met another one.
THEOREM RoomsArePriced == Spec => []RoomsPricedAsTemplate
<1>1. Init => PriceInv
  BY DEF Init, PriceInv, live
<1>2. PriceInv => RoomsPricedAsTemplate
  BY DEF PriceInv, OnePrice, RoomsPricedAsTemplate
<1> QED
  BY <1>1, <1>2, PriceStep, RowsHold, PTL DEF Spec

=============================================================================
