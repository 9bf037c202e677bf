---------------------------- MODULE MCBackOffice ----------------------------
(***************************************************************************)
(* A small instance of BackOffice for TLC.                                  *)
(***************************************************************************)
EXTENDS BackOffice, TLC

\* Onboarding, the life of templates and their bookings, and pictures.
Together ==
  {{"createTenant", "property"},
   {"property", "createTemplate", "updateTemplate", "deleteTemplate"},
   {"picture"}}

OfficeSymmetry ==
  Permutations(Requests) \cup Permutations(Users) \cup Permutations(Templates)
    \cup Permutations(Bookings) \cup Permutations(Images) \cup Permutations(Prices)
=============================================================================
