------------------------------- MODULE Clients -------------------------------
(***************************************************************************)
(* What people do and see on their screens: signing in (SignUp), the forms  *)
(* (Forms) and the match (MatchScreen) of the mobile app, the staff's web   *)
(* console (Console), and what both read in pages (Pages) and figures       *)
(* (Board).  They share no state.                                           *)
(***************************************************************************)
EXTENDS SignUp, Forms, MatchScreen, Console, Pages, Board

ClientsSpec == SignUpSpec /\ FormsSpec /\ MatchSpec /\ ConsoleSpec /\ PagesSpec /\ BoardSpec

\* Type invariant of the screens, the console, the lists and the board.
ClientsTypeOK ==
    /\ SignUpTypeOK /\ FormsTypeOK /\ MatchScreenTypeOK
    /\ ConsoleTypeOK /\ PagesTypeOK /\ BoardTypeOK

\* The credentials step is not slipped past, and more stock never looks like more want.
ClientStepsHold == CredentialsStepHolds /\ MoreStockEases
=============================================================================
