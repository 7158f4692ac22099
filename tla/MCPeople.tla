------------------------------ MODULE MCPeople ------------------------------
(***************************************************************************)
(* Accounts, Sanctions and Membership for TLC.  They share no state, and    *)
(* `desk' says which is busy.  The sign-in desk lets two devices race for   *)
(* the same address and name; the moderation desk sanctions one person who  *)
(* can sign in, appeal and ask for deletion.  The other two desks are an    *)
(* event of two days whose reminders do not fall on the instant of a sweep: *)
(* at one, people help and share positions (the reminders then add nothing  *)
(* and the event is over after its first day), at the other they answer the *)
(* reminders.                                                               *)
(***************************************************************************)
EXTENDS People

CONSTANTS m1, h1, h2, volunteer, moderator, row1, mail, staffMail

VARIABLE desk

MCInitialAddress == [a \in Known |-> IF a = volunteer THEN mail ELSE staffMail]

\* The moderation desk starts with one device signed in and the sign-in of another
\* verified but not yet recorded; the report desk needs neither.
Reporting ==
    /\ SignInit /\ SanctionInit
    /\ desk \in {"signin", "reports", "sharing", "attending"}
Opening == [Idle EXCEPT !.step = "opening", !.row = volunteer]
ModerationInit ==
    /\ SanctionInit
    /\ account = [a \in Accounts |-> IF a = volunteer
                     THEN [Free EXCEPT !.status = "active", !.address = mail] ELSE Free]
    /\ code = [c \in Codes |-> [state |-> "consumed", address |-> mail, attempts |-> 1, wrong |-> 0]]
    /\ \E d \in Devices : /\ session = (Devices \ {d}) \X {volunteer}
                          /\ flow = [c \in Devices |-> IF c = d THEN Opening ELSE Idle]
    /\ signupOpen = TRUE
    /\ desk = "moderation"

SignIn == desk = "signin" /\ SignNext /\ UNCHANGED <<sanctionVars, desk>>

Moderation ==
    /\ desk = "moderation" /\ UNCHANGED desk
    /\ \/ /\ \E d \in Devices : OpenSession(d) \/ RequestDeletion(d, volunteer)
          /\ UNCHANGED sanctionVars
       \/ account[volunteer].status = "deleted" /\ EraseAccount(volunteer) /\ UNCHANGED sanctionVars
       \/ \E role \in Roles : ModerateStep(role, volunteer)
       \/ AppealStep \/ ClockStep
       \/ LiftSuspensions \/ LiftRestrictions

ReportDesk == desk = "reports" /\ ReportStep(volunteer) /\ UNCHANGED desk

Sharing ==
    /\ desk = "sharing"
    /\ \/ \E h \in Calls : SetHelping(h) \/ PutLocation(h)
       \/ StartPing(h1, m1)
       \/ \E until \in {now + TICK, EndsAt, Never} : StartHelping(h2, m1, until)
       \/ LeaveEvent(m1) \/ StopHelping(m1) \/ DeleteLocation(m1) \/ Ask(m1)
Attending ==
    /\ desk = "attending"
    /\ \/ StartJoin(h1, m1) \/ Join(h1)
       \/ LeaveEvent(m1)
       \/ \E attending \in BOOLEAN : AnswerAttendance(m1, attending)
Everywhere == PurgeLocations \/ ExpireAvailability \/ EventLifecycle \/ StartReminders
              \/ (\E m \in listed : AddReminder(m[1], m[2])) \/ Pass

\* The sharing desk starts with a member of an event that has begun; where accounts are
\* the matter the event is over and nobody takes part.
EventInit(t, state, sweeps, days) ==
    /\ now = t /\ status = state
    /\ member = [u \in Members |-> IF state = "active" THEN "in" ELSE "left"] /\ since = [u \in Members |-> 0]
    /\ helping = [u \in Members |-> [on |-> FALSE, until |-> 0]]
    /\ position = [u \in Members |-> 0] /\ asking = [u \in Members |-> FALSE]
    /\ call = [h \in Calls |-> NoCall]
    /\ swept = sweeps /\ listed = {} /\ reminders = [m \in Members \X days |-> 1]
    /\ declined = [u \in Members |-> 0]
    /\ late = FALSE
MCInit ==
    /\ Reporting \/ ModerationInit
    /\ CASE desk = "attending" -> Init
         [] desk = "sharing" -> EventInit(StartsAt + 1, "active", 3, {1})
         [] OTHER -> EventInit(Horizon, "completed", Horizon, Days)
MCNext ==
    \/ (SignIn \/ Moderation \/ ReportDesk) /\ UNCHANGED vars
    \/ (Sharing \/ Attending \/ (desk \in {"sharing", "attending"} /\ Everywhere)) /\ UNCHANGED <<peopleVars, desk>>
MCSpec == MCInit /\ [][MCNext]_<<peopleVars, vars, desk>> /\ SanctionFairness /\ Fairness

\* Whatever was given for a time ends by itself: restrictions, suspensions, helping now.
TermsEnd == RestrictionsEnd /\ SuspensionsEnd /\ HelpEnds
=============================================================================
