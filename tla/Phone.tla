-------------------------------- MODULE Phone --------------------------------
(***************************************************************************)
(* One phone: what it stores and sends (Device), the stack of its screens   *)
(* (Screens) and the availability screen with its pings (Helping).  The     *)
(* three share no state, so the phone does what all of them allow.          *)
(***************************************************************************)
EXTENDS Device, Screens, Helping

PhoneSpec == DeviceSpec /\ ScreensSpec /\ HelpingSpec

\* Type invariant of the phone's storage, screens and helping.
PhoneTypeOK == DeviceTypeOK /\ ScreensTypeOK /\ HelpingTypeOK
=============================================================================
