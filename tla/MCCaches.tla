------------------------------ MODULE MCCaches ------------------------------
(***************************************************************************)
(* A small instance of Caches for TLC.  The handlers of a workload share     *)
(* keys; those of different workloads have none in common that both keep.    *)
(***************************************************************************)
EXTENDS Caches, TLC

CONSTANTS r1, r2

AccountHandlers ==
  {"sessionMiddleware", "authBridge", "logout", "loginUser", "updateUserProfile",
   "updateAvatar", "deleteUser", "createTenant"}

PhoneHandlers == {"loginUser", "updateUserProfile", "createBooking"}

TenantHandlers == {"createTenant", "getTenantDetail", "updateTenant", "updateTenantProfile"}

PropertyHandlers == {"getPropertyDetail", "createProperty", "updateProperty", "deleteProperty"}

TemplateHandlers ==
  {"getRoomTemplates", "getRoomTemplateDetail", "createRoomTemplate",
   "updateRoomTemplate", "deleteRoomTemplate", "createBooking"}

OccupancyHandlers ==
  {"getOccupancy", "cancelBooking", "settleRefund", "createBooking", "updateUserBooking",
   "verifyRazorpayPayment", "handleOrderPaid", "handlePaymentFailed", "invoiceWorker",
   "deleteRoomTemplate"}

Together ==
  {AccountHandlers, PhoneHandlers, TenantHandlers, PropertyHandlers, TemplateHandlers,
   OccupancyHandlers}

RequestSymmetry == Permutations(Requests)
=============================================================================
