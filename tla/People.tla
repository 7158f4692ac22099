------------------------------- MODULE People --------------------------------
(***************************************************************************)
(* Accounts with the sanctions on them (Sanctions, which extends Accounts)  *)
(* and taking part in an event (Membership).  They share no state.          *)
(***************************************************************************)
EXTENDS Sanctions, Membership

TakingPartSpec == PeopleSpec /\ Spec

\* Type invariant of accounts and membership.
PeopleTypeOK == AccountsTypeOK /\ MembershipTypeOK
=============================================================================
