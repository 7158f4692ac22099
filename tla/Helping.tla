------------------------------ MODULE Helping -------------------------------
(***************************************************************************)
(* "Helping now": the switch on the home screen, the pings that tell the    *)
(* server a coarse position once a minute, and the row the server keeps of  *)
(* it.  Pings are answered out of step with the switch, the phone may stay  *)
(* in the background beyond the location's lifetime, and calls may be lost. *)
(***************************************************************************)
EXTENDS Naturals, FiniteSets

CONSTANTS Pings,        \* bound: pings that may be under way at once
          MaxLosses     \* bound: calls the phone gives up on, and kills

ASSUME HelpingAssumption == MaxLosses \in Nat

Togglers == {"switch", "away"}      \* the person's switch; the auto-off of useLocationPings

VARIABLES
    avail,          \* server: off / on / lapsed (its `until' has passed)
    asking,         \* server: does the person have a searching or offering request
    position,       \* server: member_locations row: none / fresh / expired
    shownOn,        \* the availability query's data
    front,          \* is the app in the foreground
    away,           \* the effect's backgroundedAt: none / short / long (beyond the TTL)
    ticking,        \* does the effect's interval run
    ping,           \* where each ping is
    toggle,         \* where each setAvailability is
    stopped,        \* history: the last switch-off, delete included, was carried out
    raced,          \* history: a ping already allowed was under way when it was
    returned,       \* history: the app came back after longer than the TTL, helping
    losses

phoneSide == <<shownOn, front, away, ticking>>
helpingVars == <<avail, asking, position, phoneSide, ping, toggle, stopped, raced, returned, losses>>

Lose == losses < MaxLosses /\ losses' = losses + 1

-----------------------------------------------------------------------------
\* The server

\* `until' passes; every duration the app offers has one.
Lapse ==
    /\ avail = "on" /\ avail' = "lapsed"
    /\ UNCHANGED <<asking, position, phoneSide, ping, toggle, stopped, raced, returned, losses>>
\* A request of the person opens or ends.
AskForHelp ==
    /\ ~asking /\ asking' = TRUE /\ stopped' = FALSE
    /\ UNCHANGED <<avail, position, phoneSide, ping, toggle, raced, returned, losses>>
NoLongerAsking ==
    /\ asking /\ asking' = FALSE
    /\ UNCHANGED <<avail, position, phoneSide, ping, toggle, stopped, raced, returned, losses>>
PositionExpires ==
    /\ position = "fresh" /\ position' = "expired"
    /\ UNCHANGED <<avail, asking, phoneSide, ping, toggle, stopped, raced, returned, losses>>
Purgeable(p) == p = "expired"
PurgeLocations ==
    /\ Purgeable(position) /\ position' = "none"
    /\ UNCHANGED <<avail, asking, phoneSide, ping, toggle, stopped, raced, returned, losses>>

AnyoneMayShare == TRUE
\* Only while helping or asking; a lapsed availability reads as off.
MayShareLocation == avail = "on" \/ asking

-----------------------------------------------------------------------------
\* Pings

StartPing(p) ==
    /\ ticking /\ ping[p] = "idle" /\ ping' = [ping EXCEPT ![p] = "measuring"]
    /\ UNCHANGED <<avail, asking, position, phoneSide, toggle, stopped, raced, returned, losses>>
\* getCoarseCoords, which may find nothing.
Measure(p) ==
    /\ ping[p] = "measuring" /\ \E pc \in {"sent", "idle"} : ping' = [ping EXCEPT ![p] = pc]
    /\ UNCHANGED <<avail, asking, position, phoneSide, toggle, stopped, raced, returned, losses>>
\* putLocation checks, then writes; the phone ignores a refusal.
CheckShare(p) ==
    /\ ping[p] = "sent"
    /\ ping' = [ping EXCEPT ![p] = IF MayShareLocation THEN "allowed" ELSE "idle"]
    /\ UNCHANGED <<avail, asking, position, phoneSide, toggle, stopped, raced, returned, losses>>
WritePosition(p) ==
    /\ ping[p] = "allowed" /\ ping' = [ping EXCEPT ![p] = "idle"]
    /\ position' = "fresh"
    /\ UNCHANGED <<avail, asking, phoneSide, toggle, stopped, raced, returned, losses>>
\* The call never reaches the server.
LosePing(p) ==
    /\ ping[p] = "sent" /\ Lose /\ ping' = [ping EXCEPT ![p] = "idle"]
    /\ UNCHANGED <<avail, asking, position, phoneSide, toggle, stopped, raced, returned>>

-----------------------------------------------------------------------------
\* setAvailability

Toggling(c, pc) == toggle' = [toggle EXCEPT ![c] = pc]
\* The switch shows the query's data and is disabled while it works.
Switch ==
    /\ front /\ toggle["switch"] = "no"
    /\ Toggling("switch", IF shownOn THEN "off" ELSE "consent")
    /\ UNCHANGED <<avail, asking, position, phoneSide, ping, stopped, raced, returned, losses>>
Consent ==
    /\ toggle["switch"] = "consent" /\ \E pc \in {"on", "no"} : Toggling("switch", pc)
    /\ UNCHANGED <<avail, asking, position, phoneSide, ping, stopped, raced, returned, losses>>
\* PUT availability on; the server may refuse (event paused, account restricted).
PutOn ==
    /\ toggle["switch"] = "on" /\ Toggling("switch", "no")
    /\ \/ avail' = "on" /\ stopped' = FALSE /\ returned' = FALSE
       \/ UNCHANGED <<avail, stopped, returned>>
    /\ UNCHANGED <<asking, position, phoneSide, ping, raced, losses>>
\* PUT availability off, and the DELETE of the position after it.
PutOff(c) ==
    /\ toggle[c] = "off" /\ Toggling(c, "delete")
    /\ avail' = "off"
    /\ UNCHANGED <<asking, position, phoneSide, ping, stopped, raced, returned, losses>>
DeletePosition(c) ==
    /\ toggle[c] = "delete" /\ Toggling(c, "no")
    /\ position' = "none"
    /\ stopped' = (avail # "on" /\ ~asking)
    /\ raced' = \E p \in Pings : ping[p] = "allowed"
    /\ UNCHANGED <<avail, asking, phoneSide, ping, returned, losses>>
\* A call of either kind is lost, carried out or not: after a PUT the rest is left out.
LoseCall(c) ==
    /\ toggle[c] \in {"on", "off", "delete"} /\ Lose /\ Toggling(c, "no")
    /\ avail' \in (IF toggle[c] = "delete" THEN {avail} ELSE {avail, toggle[c]})
    /\ position' \in (IF toggle[c] = "delete" THEN {position, "none"} ELSE {position})
    /\ stopped' = IF avail' = "on" THEN FALSE ELSE stopped
    /\ UNCHANGED <<asking, phoneSide, ping, raced, returned>>

-----------------------------------------------------------------------------
\* The effect of useLocationPings

TicksAfter(on) == on /\ (ticking \/ ~shownOn)
\* GET availability, after a toggle or when the screen asks again; the effect follows.
Refetch ==
    /\ shownOn' = (avail = "on")
    /\ ticking' = TicksAfter(avail = "on")
    /\ away' = IF shownOn' = shownOn THEN away ELSE "none"
    /\ UNCHANGED <<avail, asking, position, front, ping, toggle, stopped, raced, returned, losses>>
ToBackground ==
    /\ front /\ front' = FALSE
    /\ IF shownOn THEN away' = "short" /\ ticking' = FALSE ELSE UNCHANGED <<away, ticking>>
    /\ UNCHANGED <<avail, asking, position, shownOn, ping, toggle, stopped, raced, returned, losses>>
TimeAway ==
    /\ ~front /\ away = "short" /\ away' = "long"
    /\ UNCHANGED <<avail, asking, position, shownOn, front, ticking, ping, toggle, stopped, raced, returned, losses>>
AwayTooLong == away = "long"
\* Back in front: pings go on, or after too long an absence helping is switched off.
ToForeground ==
    /\ ~front /\ front' = TRUE /\ away' = "none"
    /\ toggle["away"] = "no"
    /\ IF shownOn /\ AwayTooLong
         THEN ticking' = FALSE /\ Toggling("away", "off")
         ELSE ticking' = shownOn /\ UNCHANGED toggle
    /\ returned' = (returned \/ (shownOn /\ away = "long" /\ avail = "on"))
    /\ UNCHANGED <<avail, asking, position, shownOn, ping, stopped, raced, losses>>
\* The process ends and starts again; nothing is shown until the first fetch.
KillApp ==
    /\ Lose
    /\ shownOn' = FALSE /\ front' = TRUE /\ away' = "none" /\ ticking' = FALSE
    /\ toggle' = [c \in Togglers |-> "no"]
    /\ ping' = [p \in Pings |-> IF ping[p] = "allowed" THEN "allowed" ELSE "idle"]
    /\ returned' = FALSE
    /\ UNCHANGED <<avail, asking, position, stopped, raced>>

-----------------------------------------------------------------------------

HelpingInit ==
    /\ avail = "off" /\ asking = FALSE /\ position = "none"
    /\ shownOn = FALSE /\ front = TRUE /\ away = "none" /\ ticking = FALSE
    /\ ping = [p \in Pings |-> "idle"] /\ toggle = [c \in Togglers |-> "no"]
    /\ stopped = FALSE /\ raced = FALSE /\ returned = FALSE /\ losses = 0
ToggleStep == Consent \/ PutOn \/ \E c \in Togglers : PutOff(c) \/ DeletePosition(c)
HelpingNext ==
    \/ Lapse \/ AskForHelp \/ NoLongerAsking \/ PositionExpires \/ PurgeLocations
    \/ \E p \in Pings : StartPing(p) \/ Measure(p) \/ CheckShare(p) \/ WritePosition(p) \/ LosePing(p)
    \/ Switch \/ ToggleStep \/ (\E c \in Togglers : LoseCall(c))
    \/ Refetch \/ ToBackground \/ TimeAway \/ ToForeground \/ KillApp
HelpingSpec == HelpingInit /\ [][HelpingNext]_helpingVars

\* Calls are answered or given up on; time passes and the purge runs every minute.
HelpingFairness ==
    /\ \A c \in Togglers : WF_helpingVars(PutOff(c) \/ DeletePosition(c))
    /\ WF_helpingVars(PositionExpires \/ PurgeLocations)

-----------------------------------------------------------------------------
\* Properties

\* Every variable stays in its type; pings tick only while the screen shows helping on, and
\* the effect remembers an absence only while it is not ticking.
HelpingTypeOK ==
    /\ avail \in {"off", "on", "lapsed"} /\ position \in {"none", "fresh", "expired"}
    /\ ping \in [Pings -> {"idle", "measuring", "sent", "allowed"}]
    /\ toggle \in [Togglers -> {"no", "consent", "on", "off", "delete"}] /\ toggle["away"] \in {"no", "off", "delete"}
    /\ ticking => shownOn
    /\ away # "none" => (shownOn /\ ~ticking /\ ~front)

\* When helping was switched off and the delete carried out, the server holds no position -
\* whatever pings were under way - except one it had already allowed (putLocation's check
\* and its write are two statements).
OffMeansNoPosition == (stopped /\ avail # "on" /\ ~asking) => (position = "none" \/ raced)

\* A position nobody renews is gone from the server in the end, also when the phone was
\* killed, lost its connection or only stayed in the background (purge_locations).
Quiet == ~ticking /\ \A p \in Pings : ping[p] = "idle"
PositionGoes == (position # "none" /\ Quiet) ~> (position = "none" \/ ~Quiet)

\* Coming back after longer than the location's lifetime ends helping, unless the call is
\* lost or helping is switched on again (useLocationPings, onAutoOff).
LongAbsenceEndsHelp == returned ~> (avail # "on" \/ ~returned \/ losses > 0)
=============================================================================
