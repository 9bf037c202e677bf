----------------------------- MODULE MCMessaging -----------------------------
(***************************************************************************)
(* Small instances of Messaging for TLC.                                    *)
(***************************************************************************)
EXTENDS Messaging, TLC

CONSTANTS t1, t2, b1, b2

BookingEach == (t1 :> b1) @@ (t2 :> b2)
=============================================================================
