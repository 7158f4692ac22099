------------------------------ MODULE Sanctions ------------------------------
(***************************************************************************)
(* Moderation of people: warnings, restrictions, suspensions, reports and   *)
(* appeals, and the sweep that lifts what has run out.  It acts on the      *)
(* accounts and sessions of Accounts.  A sanction lives in two places: the  *)
(* flags and status of the user, which every request consults, and the      *)
(* moderation_actions row, which carries its clock.                         *)
(***************************************************************************)
EXTENDS Accounts

CONSTANTS Reports,      \* bound: reports that may be filed
          MaxActions,   \* bound: moderation_actions rows about people
          MaxAppeals    \* bound: appeals

ASSUME SanctionBounds == MaxActions \in Nat /\ MaxAppeals \in Nat

Rows == 1 .. MaxActions
Appeals == 1 .. MaxAppeals
Roles == {"moderator", "admin"}
\* hours: none given, at most MODERATOR_MAX_SUSPEND_HOURS, more than that
Durations == {"none", "short", "long"}
Restrictions == {"restrict_requests", "restrict_helping"}

VARIABLES ability,     \* [request, help]: can_request and can_help of every user
          action,      \* moderation_actions, in order; `lifted' is history
          appeal,      \* appeals, in order
          drafting,    \* the action each device is about to appeal against, or 0
          report,      \* status of each report, "none" while not filed
          flagged      \* users with the urgent_report risk flag

sanctionVars == <<ability, action, appeal, drafting, report, flagged>>
peopleVars == <<signVars, sanctionVars>>

NextRow == Min({n \in Rows : action[n].kind = "none"})
NextAppeal == Min({k \in Appeals : appeal[k].state = "none"})
RoomForAction == \E n \in Rows : action[n].kind = "none"

\* actionAllowedForRole: moderators suspend for a bounded, short time only.
AllowedForRole(kind, role, hours) ==
    \/ role = "admin"
    \/ /\ role = "moderator"
       /\ kind \notin {"unsuspend", "event_disable"}
       /\ kind = "suspend" => hours = "short"

Logged(kind, a, hours, lifted) ==
    action' = [n \in Rows |->
        IF n = NextRow
        THEN [kind |-> kind, target |-> a, lifted |-> FALSE,
              expiry |-> IF hours = "none" THEN "indefinite" ELSE "running"]
        ELSE IF n \in lifted THEN [action[n] EXCEPT !.lifted = TRUE]
        ELSE action[n]]

RestrictionRows(a) == {n \in Rows : action[n].target = a /\ action[n].kind \in Restrictions}

-----------------------------------------------------------------------------
\* moderate(), one action per kind of decision about a person

Warn(role, a) ==
    /\ RoomForAction /\ account[a].status # "none"
    /\ AllowedForRole("warn", role, "none")
    /\ Logged("warn", a, "none", {})
    /\ UNCHANGED <<signVars, ability, appeal, drafting, report, flagged>>

RestrictPerson(role, kind, a, hours) ==
    /\ RoomForAction /\ account[a].status # "none"
    /\ AllowedForRole(kind, role, hours)
    /\ ability' = IF kind = "restrict_requests" THEN [ability EXCEPT ![a].request = FALSE]
                                                ELSE [ability EXCEPT ![a].help = FALSE]
    /\ Logged(kind, a, hours, {})
    /\ UNCHANGED <<signVars, appeal, drafting, report, flagged>>

\* The status and its clock are overwritten, whatever they were.  Matches are cancelled
\* after the commit, which Removals models.
Suspend(role, a, hours) ==
    /\ RoomForAction /\ account[a].status # "none"
    /\ AllowedForRole("suspend", role, hours)
    /\ account' = [account EXCEPT ![a].status = "suspended",
                                  ![a].until = IF hours = "none" THEN "none" ELSE "running"]
    /\ session' = SignedOut(a)
    /\ Logged("suspend", a, hours, {})
    /\ UNCHANGED <<code, flow, signupOpen, ability, appeal, drafting, report, flagged>>

Unsuspend(role, a) ==
    /\ RoomForAction /\ account[a].status # "none"
    /\ AllowedForRole("unsuspend", role, "none")
    /\ account' = [account EXCEPT ![a].status = "active", ![a].until = "none"]
    /\ ability' = [ability EXCEPT ![a] = [request |-> TRUE, help |-> TRUE]]
    /\ Logged("unsuspend", a, "none", RestrictionRows(a))
    /\ UNCHANGED <<code, session, flow, signupOpen, appeal, drafting, report, flagged>>

-----------------------------------------------------------------------------
\* Reports

\* createReport: urgent categories flag the subject, once.
FileReport(r, subject, urgent) ==
    /\ report[r] = "none"
    /\ report' = [report EXCEPT ![r] = "open"]
    /\ flagged' = IF urgent THEN flagged \cup {subject} ELSE flagged
    /\ UNCHANGED <<signVars, ability, action, appeal, drafting>>

\* report_resolve and report_dismiss do not ask whether the report is still open.
CloseReport(r, outcome, subject) ==
    /\ report[r] # "none" /\ RoomForAction
    /\ report' = [report EXCEPT ![r] = outcome]
    /\ Logged(IF outcome = "resolved" THEN "report_resolve" ELSE "report_dismiss", subject, "none", {})
    /\ UNCHANGED <<signVars, ability, appeal, drafting, flagged>>

-----------------------------------------------------------------------------
\* Appeals

\* createAppeal, of the person the action is about and even while suspended: it looks
\* for an open appeal first and inserts its own in a later statement.
CheckAppeal(d, a, n) ==
    /\ drafting[d] = 0
    /\ Resolves(d, a) /\ action[n].kind # "none" /\ action[n].target = a
    /\ \A k \in Appeals : appeal[k].action = n => appeal[k].state # "open"
    /\ drafting' = [drafting EXCEPT ![d] = n]
    /\ UNCHANGED <<signVars, ability, action, appeal, report, flagged>>

InsertAppeal(d) ==
    /\ drafting[d] # 0
    /\ \E k \in Appeals : appeal[k].state = "none"
    /\ appeal' = [appeal EXCEPT ![NextAppeal] = [state |-> "open", action |-> drafting[d]]]
    /\ drafting' = [drafting EXCEPT ![d] = 0]
    /\ UNCHANGED <<signVars, ability, action, report, flagged>>

\* resolveAppeal holds the appeal's row.  Overturning undoes the effect on the user, not
\* only that of the action appealed against.
ResolveAppeal(k, outcome) ==
    LET n == appeal[k].action
        a == action[n].target
        overturns(kind) == outcome = "overturned" /\ action[n].kind = kind
    IN  /\ appeal[k].state = "open"
        /\ appeal' = [appeal EXCEPT ![k].state = outcome]
        /\ account' = IF overturns("suspend") /\ account[a].status = "suspended"
                      THEN [account EXCEPT ![a].status = "active", ![a].until = "none"] ELSE account
        /\ ability' = [ability EXCEPT ![a].request = @ \/ overturns("restrict_requests"),
                                      ![a].help = @ \/ overturns("restrict_helping")]
        /\ action' = [m \in Rows |->
              IF action[m].target = a /\ action[m].kind \in Restrictions /\ overturns(action[m].kind)
              THEN [action[m] EXCEPT !.lifted = TRUE] ELSE action[m]]
        /\ UNCHANGED <<code, session, flow, signupOpen, drafting, report, flagged>>

-----------------------------------------------------------------------------
\* The clock, and the sweep that lifts what has run out (event_lifecycle)

RestrictionRunsOut(n) ==
    /\ action[n].kind \in Restrictions /\ action[n].expiry = "running"
    /\ action' = [action EXCEPT ![n].expiry = "past"]
    /\ UNCHANGED <<signVars, ability, appeal, drafting, report, flagged>>

SuspensionRunsOut(a) ==
    /\ account[a].until = "running"
    /\ account' = [account EXCEPT ![a].until = "past"]
    /\ UNCHANGED <<code, session, flow, signupOpen, sanctionVars>>

RunningSuspensions == {a \in Accounts : account[a].status = "suspended" /\ account[a].until = "running"} \* mutant

LapsedSuspensions == {a \in Accounts : account[a].status = "suspended" /\ account[a].until = "past"}

LiftSuspensions ==
    /\ LapsedSuspensions # {}
    /\ account' = [a \in Accounts |-> IF a \in LapsedSuspensions
                      THEN [account[a] EXCEPT !.status = "active", !.until = "none"] ELSE account[a]]
    /\ UNCHANGED <<code, session, flow, signupOpen, sanctionVars>>

LapsedAny == {a \in Accounts : \* mutant
    /\ ~ability[a].request \/ ~ability[a].help
    /\ \E n \in RestrictionRows(a) : action[n].expiry = "past"}


\* Both flags come back once some restriction has run out and none is left in force.
LapsedRestrictions == {a \in Accounts :
    /\ ~ability[a].request \/ ~ability[a].help
    /\ \E n \in RestrictionRows(a) : action[n].expiry = "past"
    /\ \A n \in RestrictionRows(a) : action[n].expiry = "past"}

LiftRestrictions ==
    /\ LapsedRestrictions # {}
    /\ ability' = [a \in Accounts |-> IF a \in LapsedRestrictions
                                      THEN [request |-> TRUE, help |-> TRUE] ELSE ability[a]]
    /\ UNCHANGED <<signVars, action, appeal, drafting, report, flagged>>

SanctionInit ==
    /\ ability = [a \in Accounts |-> [request |-> TRUE, help |-> TRUE]]
    /\ action = [n \in Rows |-> [kind |-> "none", target |-> NoAccount, expiry |-> "none", lifted |-> FALSE]]
    /\ appeal = [k \in Appeals |-> [state |-> "none", action |-> 0]]
    /\ drafting = [d \in Devices |-> 0]
    /\ report = [r \in Reports |-> "none"]
    /\ flagged = {}

ModerateStep(role, a) ==
    \/ Warn(role, a) \/ Unsuspend(role, a)
    \/ \E hours \in Durations : \/ Suspend(role, a, hours)
                                \/ \E kind \in Restrictions : RestrictPerson(role, kind, a, hours)

ReportStep(a) == \E r \in Reports :
    \/ \E urgent \in BOOLEAN : FileReport(r, a, urgent)
    \/ \E outcome \in {"resolved", "dismissed"} : CloseReport(r, outcome, a)

AppealStep ==
    \/ \E d \in Devices, a \in Accounts, n \in Rows : CheckAppeal(d, a, n)
    \/ \E d \in Devices : InsertAppeal(d)
    \/ \E k \in Appeals, outcome \in {"upheld", "overturned"} : ResolveAppeal(k, outcome)

ClockStep ==
    \/ \E n \in Rows : RestrictionRunsOut(n)
    \/ \E a \in Accounts : SuspensionRunsOut(a)

SanctionNext ==
    \/ \E role \in Roles, a \in Accounts : ModerateStep(role, a)
    \/ \E a \in Accounts : ReportStep(a)
    \/ AppealStep \/ ClockStep
    \/ LiftSuspensions \/ LiftRestrictions

\* Signing in and moderation together; the handlers of both write the users table.
PeopleInit == SignInit /\ SanctionInit
PeopleNext == (SignNext /\ UNCHANGED sanctionVars) \/ SanctionNext
PeopleSpec == PeopleInit /\ [][PeopleNext]_peopleVars

\* Time passes, and the scheduled sweep runs again and again.
SanctionFairness ==
    /\ \A n \in Rows : WF_peopleVars(RestrictionRunsOut(n))
    /\ \A a \in Accounts : WF_peopleVars(SuspensionRunsOut(a))
    /\ WF_peopleVars(LiftSuspensions) /\ WF_peopleVars(LiftRestrictions)

-----------------------------------------------------------------------------

\* A restriction in force that nobody has lifted keeps its flag down: neither the sweep
\* nor the end of another restriction of the same person brings it back.
RestrictionInForceHolds ==
    \A n \in Rows : action[n].kind \in Restrictions /\ action[n].expiry # "past" /\ ~action[n].lifted =>
        IF action[n].kind = "restrict_requests" THEN ~ability[action[n].target].request
                                                ELSE ~ability[action[n].target].help

\* Time-boxed sanctions end by themselves: somebody restricted for a bounded time only, or
\* suspended until some moment, is free again without anybody's help.
RestrictionsEnd ==
    \A a \in Accounts :
        (~ability[a].request \/ ~ability[a].help) /\ (\A n \in RestrictionRows(a) : action[n].expiry # "indefinite")
        ~> (ability[a].request /\ ability[a].help) \/ (\E n \in RestrictionRows(a) : action[n].expiry = "indefinite")
SuspensionsEnd ==
    \A a \in Accounts :
        account[a].status = "suspended" /\ account[a].until # "none"
        ~> account[a].status # "suspended" \/ account[a].until = "none"
=============================================================================
