----------------------------- MODULE Membership -----------------------------
(***************************************************************************)
(* Taking part in one event: joining and leaving, "helping now", the coarse *)
(* position that is shared meanwhile, and the question a day before each of *)
(* its days.  Calls read and write in separate statements: `call[h]' is     *)
(* what the request handled by h has read.  Time is counted in units of     *)
(* which TICK make one interval of the retention sweep.                     *)
(***************************************************************************)
EXTENDS Naturals, FiniteSets

CONSTANTS Members, Calls,
          TICK,            \* units per sweep interval
          DAY,             \* units per day
          StartsAt, EndsAt,
          LocationTTL,
          MaxLate,         \* bound: how late a sweep may run
          Horizon,         \* bound: last instant considered
          NoMember

ASSUME TimesAssumption == /\ {TICK, DAY, StartsAt, EndsAt, LocationTTL, MaxLate, Horizon} \subseteq Nat
                          /\ 0 < TICK /\ TICK < DAY /\ DAY <= StartsAt /\ StartsAt <= EndsAt
                          /\ 0 < LocationTTL
ASSUME NoMemberAssumption == NoMember \notin Members

Never == Horizon + DAY      \* an end time that does not come

VARIABLES now,
          status,        \* of the event
          member,        \* memberships: never / in / left
          since,         \* history: when the membership was last begun
          helping,       \* availability rows
          position,      \* member_locations: when the row expires, 0 without a row
          asking,        \* who has an open request at the event
          call,          \* requests being handled
          swept,         \* history: attendance sweeps that ran so far
          listed,        \* members the running sweep still has to notify
          reminders,     \* history: reminders that reached a member, with how often
          declined,      \* history: the last day each member said no to, 0 for none
          late           \* whether sweeps are late at all

eventVars == <<status, member, since, helping, position, asking>>
reminderVars == <<swept, listed, reminders>>
vars == <<now, eventVars, call, reminderVars, declined, late>>

\* The daily starts: startsAt and the same time of the days after, up to endsAt.
Days == {d \in 1 .. Horizon : StartsAt + (d - 1) * DAY <= EndsAt}
StartOf(d) == StartsAt + (d - 1) * DAY
LastDay == CHOOSE d \in Days : \A c \in Days : c <= d

\* Slip: the end of the event is not looked at.
NextStartUnbounded(from) == CHOOSE d \in 1 .. Horizon : StartOf(d) >= from /\ \A c \in 1 .. Horizon : StartOf(c) >= from => d <= c

\* nextDailyStart, as a day number; 0 when no start is left.
NextDailyStart(from) ==
    LET coming == {d \in Days : StartOf(d) >= from}
    IN  IF coming = {} THEN 0 ELSE CHOOSE d \in coming : \A c \in coming : d <= c

\* isReminderDue: the one-tick window that opens a day before the start.
IsReminderDue(d) == now + DAY >= StartOf(d) /\ now + DAY < StartOf(d) + TICK

IsMember(u) == member[u] = "in"
IsHelping(u) == helping[u].on /\ helping[u].until > now
Running == status \in {"scheduled", "active"}

NoCall == [op |-> "none", user |-> NoMember, until |-> 0]
Answered(h) == call' = [call EXCEPT ![h] = NoCall]
Begin(h, op, u, until) == call' = [call EXCEPT ![h] = [op |-> op, user |-> u, until |-> until]]

-----------------------------------------------------------------------------
\* Joining and leaving

\* joinEvent reads the event and the row, then revives or inserts the row.
StartJoin(h, u) ==
    /\ call[h] = NoCall /\ Running
    /\ Begin(h, IF member[u] = "in" THEN "none" ELSE "join", IF member[u] = "in" THEN NoMember ELSE u, 0)
    /\ UNCHANGED <<now, eventVars, reminderVars, declined, late>>

Join(h) ==
    LET u == call[h].user IN
    /\ call[h].op = "join"
    /\ member' = [member EXCEPT ![u] = "in"]
    /\ since' = IF IsMember(u) THEN since ELSE [since EXCEPT ![u] = now]
    /\ declined' = [declined EXCEPT ![u] = 0]
    /\ Answered(h)
    /\ UNCHANGED <<now, status, helping, position, asking, reminderVars, late>>

\* What leaving changes, in one transaction.
Leaves(u) ==
    /\ member' = IF IsMember(u) THEN [member EXCEPT ![u] = "left"] ELSE member
    /\ helping' = [helping EXCEPT ![u] = [on |-> FALSE, until |-> 0]]
    /\ position' = [position EXCEPT ![u] = 0]

LeaveEvent(u) ==
    /\ Leaves(u)
    /\ UNCHANGED <<now, status, since, asking, call, reminderVars, declined, late>>

\* answerAttendance: one minute on, is any start still to come?  The answer does not say
\* which day it is about; `latest' is the one the member was last asked about.
AnswerAttendance(u, attending) ==
    LET next == NextDailyStart(now + 1)
        asked == {d \in Days : <<u, d>> \in DOMAIN reminders}
        latest == IF asked = {} THEN 0 ELSE CHOOSE d \in asked : \A c \in asked : c <= d
    IN
    /\ declined' = IF attending THEN declined ELSE [declined EXCEPT ![u] = latest]
    /\ IF attending \/ next # 0 THEN UNCHANGED <<member, helping, position>> ELSE Leaves(u)
    /\ UNCHANGED <<now, status, since, asking, call, reminderVars, late>>

\* A request opened, matched or closed at the event (module Exchange).
Ask(u) ==
    /\ asking[u] \/ (IsMember(u) /\ status = "active")
    /\ asking' = [asking EXCEPT ![u] = ~@]
    /\ UNCHANGED <<now, status, member, since, helping, position, call, reminderVars, declined, late>>

-----------------------------------------------------------------------------
\* Helping now, and the position that goes with it

\* setAvailability checks event and membership ...
StartHelping(h, u, until) ==
    /\ call[h] = NoCall /\ IsMember(u) /\ status = "active"
    /\ until > now
    /\ Begin(h, "help", u, until)
    /\ UNCHANGED <<now, eventVars, reminderVars, declined, late>>

\* ... and writes what it was asked to, whatever happened meanwhile.
SetHelping(h) ==
    /\ call[h].op = "help"
    /\ helping' = [helping EXCEPT ![call[h].user] = [on |-> TRUE, until |-> call[h].until]]
    /\ Answered(h)
    /\ UNCHANGED <<now, status, member, since, position, asking, reminderVars, declined, late>>

\* Switching off needs no check.
StopHelping(u) ==
    /\ helping' = [helping EXCEPT ![u] = [on |-> FALSE, until |-> 0]]
    /\ UNCHANGED <<now, status, member, since, position, asking, call, reminderVars, declined, late>>

\* mayShareLocation: while helping or actively asking.
MayShare(u) == IsHelping(u) \/ asking[u]

StartPing(h, u) ==
    /\ call[h] = NoCall /\ MayShare(u)
    /\ Begin(h, "ping", u, now + LocationTTL)
    /\ UNCHANGED <<now, eventVars, reminderVars, declined, late>>

\* One row per person and event, replaced by every ping.
PutLocation(h) ==
    /\ call[h].op = "ping"
    /\ position' = [position EXCEPT ![call[h].user] = call[h].until]
    /\ Answered(h)
    /\ UNCHANGED <<now, status, member, since, helping, asking, reminderVars, declined, late>>

DeleteLocation(u) ==
    /\ position' = [position EXCEPT ![u] = 0]
    /\ UNCHANGED <<now, status, member, since, helping, asking, call, reminderVars, declined, late>>

-----------------------------------------------------------------------------
\* The sweep, and the clock

\* Slip: the positions of people still asking are spared.
ExpiredUnasked(u) == 0 < position[u] /\ position[u] < now /\ ~asking[u]

Expired(u) == 0 < position[u] /\ position[u] < now
PurgeLocations ==
    /\ \E u \in Members : Expired(u)
    /\ position' = [u \in Members |-> IF Expired(u) THEN 0 ELSE position[u]]
    /\ UNCHANGED <<now, status, member, since, helping, asking, call, reminderVars, declined, late>>


\* Helping ends at its chosen time, and when the event does.
HelpIsOver(u) == helping[u].on /\ (helping[u].until < now \/ EndsAt < now)
ExpireAvailability ==
    /\ \E u \in Members : HelpIsOver(u)
    /\ helping' = [u \in Members |-> IF HelpIsOver(u) THEN [helping[u] EXCEPT !.on = FALSE] ELSE helping[u]]
    /\ UNCHANGED <<now, status, member, since, position, asking, call, reminderVars, declined, late>>

\* scheduled -> active -> completed; completing switches everyone's help off.
LifecycleStatus ==
    CASE Running /\ EndsAt <= now -> "completed"
      [] status = "scheduled" /\ StartsAt <= now -> "active"
      [] OTHER -> status
EventLifecycle ==
    /\ status' = LifecycleStatus /\ status' # status
    /\ helping' = IF status' = "completed"
                    THEN [u \in Members |-> [helping[u] EXCEPT !.on = FALSE]]
                    ELSE helping
    /\ UNCHANGED <<now, member, since, position, asking, call, reminderVars, declined, late>>

\* sendAttendanceReminders: lists the members of a running event, then adds one
\* notification each.
SweepIsDue == swept * TICK <= now
StartReminders ==
    LET d == NextDailyStart(now) IN
    /\ SweepIsDue /\ listed = {}
    /\ swept' = swept + 1
    /\ listed' = IF Running /\ now < EndsAt /\ d # 0 /\ IsReminderDue(d)
                   THEN {<<u, d>> : u \in {v \in Members : IsMember(v)}} ELSE {}
    /\ UNCHANGED <<now, eventVars, call, reminders, declined, late>>

\* Slip: dedupe without the day.
SentBefore(u, d) == \E c \in Days : <<u, c>> \in DOMAIN reminders

\* Dedupe is by event, member and day: a second sweep in the window adds nothing.
AlreadySent(u, d) == <<u, d>> \in DOMAIN reminders
AddReminder(u, d) ==
    /\ <<u, d>> \in listed
    /\ listed' = listed \ {<<u, d>>}
    /\ reminders' = IF AlreadySent(u, d) THEN reminders
                      ELSE [m \in DOMAIN reminders \cup {<<u, d>>} |->
                              IF m = <<u, d>> THEN (IF m \in DOMAIN reminders THEN 2 ELSE 1) ELSE reminders[m]]
    /\ UNCHANGED <<now, eventVars, call, swept, declined, late>>

\* Time passes: a sweep whose time has come runs before the clock is MaxLate past it,
\* the other tasks do so on time, and a call is over before the position it stores is.
MustSweep == swept * TICK + (IF late THEN MaxLate ELSE 0) <= now
TasksLeft == \/ \E u \in Members : Expired(u) \/ HelpIsOver(u)
             \/ LifecycleStatus # status
Pass ==
    /\ now < Horizon /\ ~MustSweep /\ listed = {}
    /\ now % TICK = 0 => ~TasksLeft
    /\ \A h \in Calls : call[h].op = "ping" => now < call[h].until
    /\ now' = now + 1
    /\ UNCHANGED <<eventVars, call, reminderVars, declined, late>>

-----------------------------------------------------------------------------

Init ==
    /\ now = 0 /\ status = "scheduled"
    /\ member = [u \in Members |-> "never"] /\ since = [u \in Members |-> 0]
    /\ helping = [u \in Members |-> [on |-> FALSE, until |-> 0]]
    /\ position = [u \in Members |-> 0] /\ asking = [u \in Members |-> FALSE]
    /\ call = [h \in Calls |-> NoCall]
    /\ swept = 0 /\ listed = {} /\ reminders = [m \in {} |-> 0]
    /\ declined = [u \in Members |-> 0]
    /\ late \in BOOLEAN

Sweep == PurgeLocations \/ ExpireAvailability \/ EventLifecycle \/ StartReminders
         \/ \E m \in listed : AddReminder(m[1], m[2])
CallStep(h) == Join(h) \/ SetHelping(h) \/ PutLocation(h)
UserStep(u) ==
    \/ \E h \in Calls : StartJoin(h, u) \/ StartPing(h, u)
    \/ \E h \in Calls, until \in {now + TICK, EndsAt, Never} : StartHelping(h, u, until)
    \/ LeaveEvent(u) \/ StopHelping(u) \/ DeleteLocation(u) \/ Ask(u)
    \/ \E attending \in BOOLEAN : AnswerAttendance(u, attending)
Next == Sweep \/ (\E h \in Calls : CallStep(h)) \/ (\E u \in Members : UserStep(u)) \/ Pass
Spec == Init /\ [][Next]_vars

\* Time passes, the server answers, and the repeatable job runs its tasks.
Fairness == /\ WF_vars(Pass)
            /\ \A h \in Calls : WF_vars(CallStep(h))
            /\ WF_vars(PurgeLocations) /\ WF_vars(ExpireAvailability)
            /\ WF_vars(EventLifecycle) /\ WF_vars(StartReminders)
            /\ WF_vars(\E m \in listed : AddReminder(m[1], m[2]))
FairSpec == Spec /\ Fairness
-----------------------------------------------------------------------------
\* Properties

\* Every variable stays in its type, and a position row always has a time to end.
MembershipTypeOK ==
    /\ now \in 0 .. Horizon /\ status \in {"scheduled", "active", "completed"}
    /\ member \in [Members -> {"never", "in", "left"}]
    /\ since \in [Members -> 0 .. Horizon]
    /\ \A u \in Members : helping[u].on \in BOOLEAN /\ helping[u].until \in 0 .. Never
    /\ \A u \in Members : position[u] \in 0 .. Horizon + LocationTTL
    /\ asking \in [Members -> BOOLEAN]
    /\ listed \subseteq Members \X Days
    /\ DOMAIN reminders \subseteq Members \X Days
    /\ declined \in [Members -> Days \cup {0}]

\* The position promise: a stored position is gone one sweep after it expired, however
\* the person left, stopped helping or was still being answered meanwhile (purgeLocations).
PositionsAreFresh ==
    \A u \in Members : position[u] # 0 => now <= position[u] + TICK

\* A member is asked at most once about a day, although a late sweep and the next one
\* may both fall in the window of the reminder (sendAttendanceReminders).
RemindedOnce == \A m \in DOMAIN reminders : reminders[m] = 1

\* When sweeps are on time, everyone who was a member when the reminder of a day fell
\* due has got it once its window is over (nextDailyStart, isReminderDue).
EveryDayReminded ==
    \A u \in Members, d \in Days :
        /\ ~late /\ listed = {} /\ IsMember(u)
        /\ since[u] + DAY <= StartOf(d)
        /\ StartOf(d) + TICK <= now + DAY
        => <<u, d>> \in DOMAIN reminders

\* Helping now ends for good some time after the event does, also for those who switched
\* it on "until I stop" while the event was being completed (expireAvailability).
HelpEnds == <>[](\A u \in Members : ~helping[u].on)

\* events/service.ts:403-410: declining when no further day exists ends the membership.
DecliningTheLastDayLeaves == \A u \in Members : declined[u] = LastDay => ~IsMember(u)

\* A member is reminded of a day once at most, and of every day unless a sweep was late.
RemindedOnceADay == RemindedOnce /\ EveryDayReminded
=============================================================================
