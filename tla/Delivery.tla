------------------------------ MODULE Delivery ------------------------------
(***************************************************************************)
(* One account's notifications on their way to its devices: the notify      *)
(* worker, the sockets of the gateway, and the app that signs out when its  *)
(* session is revoked and fetches its feed again when told or reconnected.  *)
(* Frames are hints that may be lost; a worker may die and its job is then  *)
(* taken up again from the start.                                           *)
(***************************************************************************)
EXTENDS Naturals, FiniteSets

CONSTANTS Devices, Notes, Keys,
          KeyOf,          \* the dedupe key of each queued notification
          Urgent          \* those of type account_security or moderation_outcome

ASSUME KeysAssumption == KeyOf \in [Notes -> Keys] /\ Urgent \subseteq Notes

VARIABLES account,     \* active / suspended
          session,     \* per device: live / revoked
          signedIn,    \* does the app on the device hold a token
          socket,      \* down / resolved / up, as the gateway sees it
          before,      \* has the app been connected before
          frames,      \* frames on their way to each device
          job,         \* the notify queue
          feed,        \* notifications rows, by key
          told, pushes,\* history: how often each key was announced and pushed
          muted,       \* the account's preference for pushes
          token,       \* push_tokens rows: none / on / disabled
          seen,        \* the feed each app shows
          stale,       \* apps whose feed query is invalidated
          unheard,     \* history: keys announced to an app not connected yet
          overlapped   \* history: devices revoked while their handshake ran

accountVars == <<account, session>>
jobVars == <<job, feed, told, pushes, muted, token>>
appVars == <<signedIn, socket, before, frames, seen, stale>>
deliveryVars == <<accountVars, jobVars, appVars, unheard, overlapped>>

Up == {d \in Devices : socket[d] = "up"}

\* onMessage in the gateway: a frame goes to every socket of the account.
ToEverySocket(f) == frames' = [d \in Devices |-> IF d \in Up THEN frames[d] \cup {f} ELSE frames[d]]

\* What signing out leaves of the app.
SignsOut(d) ==
    /\ signedIn' = [signedIn EXCEPT ![d] = FALSE]
    /\ socket' = [socket EXCEPT ![d] = "down"]
    /\ frames' = [frames EXCEPT ![d] = {}]
    /\ before' = [before EXCEPT ![d] = FALSE]
    /\ seen' = [seen EXCEPT ![d] = {}]
    /\ stale' = stale \ {d}

-----------------------------------------------------------------------------
\* The notify worker

Enqueue(n) ==
    /\ job[n] = "none"
    /\ job' = [job EXCEPT ![n] = "queued"]
    /\ UNCHANGED <<accountVars, feed, told, pushes, muted, token, appVars, unheard, overlapped>>

\* A suspended account hears only of its security and of moderation; a second job with
\* the same key stops at the row.
Hears(n) == account = "active" \/ n \in Urgent
RowAssumedNew(n) == TRUE
RowIsNew(n) == KeyOf[n] \notin feed
StoreRow(n) ==
    /\ job[n] = "queued"
    /\ IF Hears(n) /\ RowIsNew(n)
         THEN feed' = feed \cup {KeyOf[n]} /\ job' = [job EXCEPT ![n] = "stored"]
         ELSE UNCHANGED feed /\ job' = [job EXCEPT ![n] = "done"]
    /\ UNCHANGED <<accountVars, told, pushes, muted, token, appVars, unheard, overlapped>>

Tell(n) ==
    /\ job[n] = "stored"
    /\ job' = [job EXCEPT ![n] = "told"]
    /\ told' = [told EXCEPT ![KeyOf[n]] = @ + 1]
    /\ ToEverySocket("notification")
    /\ unheard' = [d \in Devices |-> IF d \notin Up /\ ~before[d] THEN unheard[d] \cup {KeyOf[n]} ELSE unheard[d]]
    /\ UNCHANGED <<accountVars, feed, pushes, muted, token, signedIn, socket, before, seen, stale, overlapped>>

\* Any of the tokens may turn out to be dead; a passing failure of a provider disables none.
DeadTokens(live) == SUBSET live
\* A muted type is not pushed; tokens the provider calls dead are disabled.
Push(n) ==
    LET live == {d \in Devices : token[d] = "on"} IN
    /\ job[n] = "told"
    /\ job' = [job EXCEPT ![n] = "done"]
    /\ IF muted \/ live = {} THEN UNCHANGED <<pushes, token>>
         ELSE /\ pushes' = [pushes EXCEPT ![KeyOf[n]] = @ + 1]
              /\ \E dead \in DeadTokens(live) :
                    token' = [d \in Devices |-> IF d \in dead THEN "disabled" ELSE token[d]]
    /\ UNCHANGED <<accountVars, feed, told, muted, appVars, unheard, overlapped>>

\* The worker dies; the stalled job is taken up again from the start.
WorkerDies(n) ==
    /\ job[n] \in {"stored", "told"}
    /\ job' = [job EXCEPT ![n] = "queued"]
    /\ UNCHANGED <<accountVars, feed, told, pushes, muted, token, appVars, unheard, overlapped>>

\* A job that throws is not tried again (no attempts are configured).
JobFails(n) ==
    /\ job[n] \in {"queued", "stored", "told"}
    /\ job' = [job EXCEPT ![n] = "done"]
    /\ UNCHANGED <<accountVars, feed, told, pushes, muted, token, appVars, unheard, overlapped>>

Mute ==
    /\ muted' = ~muted
    /\ UNCHANGED <<accountVars, job, feed, told, pushes, token, appVars, unheard, overlapped>>

\* registerPushToken, once permission was given; a token registered again is on again.
RegisterToken(d) ==
    /\ signedIn[d] /\ session[d] = "live" /\ token[d] # "on"
    /\ token' = [token EXCEPT ![d] = "on"]
    /\ UNCHANGED <<accountVars, job, feed, told, pushes, muted, appVars, unheard, overlapped>>

-----------------------------------------------------------------------------
\* Sockets

\* The upgrade resolves the token before the handshake is completed.
SessionHolds(d) == session[d] = "live"
Reconnects(d) == signedIn[d] /\ socket[d] = "down"
Upgrade(d) ==
    /\ Reconnects(d) /\ SessionHolds(d)
    /\ socket' = [socket EXCEPT ![d] = "resolved"]
    /\ UNCHANGED <<accountVars, jobVars, signedIn, before, frames, seen, stale, unheard, overlapped>>
\* Close code 4401: the app gives its token up.
Refuse(d) ==
    /\ Reconnects(d) /\ ~SessionHolds(d)
    /\ SignsOut(d)
    /\ UNCHANGED <<accountVars, jobVars, unheard, overlapped>>

\* onopen: whoever was connected before fetches everything again.
Missed(d) == before[d]
Open(d) ==
    /\ socket[d] = "resolved"
    /\ socket' = [socket EXCEPT ![d] = "up"]
    /\ before' = [before EXCEPT ![d] = TRUE]
    /\ stale' = IF Missed(d) THEN stale \cup {d} ELSE stale
    /\ UNCHANGED <<accountVars, jobVars, signedIn, frames, seen, unheard, overlapped>>

\* The network drops the connection, or the heartbeat terminates a silent socket.
Drop(d) ==
    /\ socket[d] # "down"
    /\ socket' = [socket EXCEPT ![d] = "down"]
    /\ frames' = [frames EXCEPT ![d] = {}]
    /\ UNCHANGED <<accountVars, jobVars, signedIn, before, seen, stale, unheard, overlapped>>

Hint(d) ==
    /\ "notification" \in frames[d]
    /\ frames' = [frames EXCEPT ![d] = @ \ {"notification"}]
    /\ stale' = stale \cup {d}
    /\ UNCHANGED <<accountVars, jobVars, signedIn, socket, before, seen, unheard, overlapped>>
\* The frame does not say which session it is about that the app looks at: every device
\* that gets it signs out.
HearsRevoked(d) ==
    /\ "revoked" \in frames[d]
    /\ SignsOut(d)
    /\ UNCHANGED <<accountVars, jobVars, unheard, overlapped>>

Refetch(d) ==
    /\ d \in stale /\ signedIn[d] /\ session[d] = "live" /\ account = "active"
    /\ seen' = [seen EXCEPT ![d] = feed]
    /\ stale' = stale \ {d}
    /\ UNCHANGED <<accountVars, jobVars, signedIn, socket, before, frames, unheard, overlapped>>

-----------------------------------------------------------------------------
\* Sessions

\* A sign-in on the device: a new session, and a first fetch of the feed.
SignIn(d) ==
    /\ ~signedIn[d] /\ account = "active"
    /\ signedIn' = [signedIn EXCEPT ![d] = TRUE]
    /\ session' = [session EXCEPT ![d] = "live"]
    /\ seen' = [seen EXCEPT ![d] = feed]
    /\ unheard' = [unheard EXCEPT ![d] = {}]
    /\ overlapped' = overlapped \ {d}
    /\ UNCHANGED <<account, jobVars, socket, before, frames, stale>>

Revoked(ds) ==
    /\ session' = [d \in Devices |-> IF d \in ds THEN "revoked" ELSE session[d]]
    /\ ToEverySocket("revoked")
    /\ overlapped' = overlapped \cup {d \in ds : socket[d] = "resolved"}

\* DELETE /auth/sessions/:id from another device, and a suspension.
RevokeSession(d, by) ==
    /\ d # by /\ session[d] = "live" /\ signedIn[by] /\ session[by] = "live" /\ account = "active"
    /\ Revoked({d})
    /\ UNCHANGED <<account, jobVars, signedIn, socket, before, seen, stale, unheard>>
Suspend ==
    /\ account = "active"
    /\ account' = "suspended"
    /\ Revoked(Devices)
    /\ UNCHANGED <<jobVars, signedIn, socket, before, seen, stale, unheard>>

-----------------------------------------------------------------------------

\* The devices of `used' are signed in; the others hold no session.
DeliveryInit(used) ==
    /\ account = "active" /\ session = [d \in Devices |-> IF d \in used THEN "live" ELSE "revoked"]
    /\ signedIn = [d \in Devices |-> d \in used] /\ socket = [d \in Devices |-> "down"]
    /\ before = [d \in Devices |-> FALSE] /\ frames = [d \in Devices |-> {}]
    /\ job = [n \in Notes |-> "none"] /\ feed = {}
    /\ told = [k \in Keys |-> 0] /\ pushes = [k \in Keys |-> 0]
    /\ muted = FALSE /\ token = [d \in Devices |-> "none"]
    /\ seen = [d \in Devices |-> {}] /\ stale = {}
    /\ unheard = [d \in Devices |-> {}] /\ overlapped = {}

Work(n) == StoreRow(n) \/ Tell(n) \/ Push(n)
App(d) == Upgrade(d) \/ Refuse(d) \/ Open(d) \/ Hint(d) \/ HearsRevoked(d) \/ Refetch(d)
DeliveryNext ==
    \/ \E n \in Notes : Enqueue(n) \/ Work(n) \/ WorkerDies(n) \/ JobFails(n)
    \/ Mute \/ Suspend
    \/ \E d \in Devices : App(d) \/ Drop(d) \/ SignIn(d) \/ RegisterToken(d)
    \/ \E d, by \in Devices : RevokeSession(d, by)
DeliverySpec == DeliveryInit(Devices) /\ [][DeliveryNext]_deliveryVars

\* The app connects again and again, and does what a frame asks.
DeliveryFairness == \A d \in Devices :
    /\ WF_deliveryVars(Upgrade(d) \/ Refuse(d)) /\ SF_deliveryVars(Open(d))
    /\ WF_deliveryVars(HearsRevoked(d)) /\ WF_deliveryVars(Hint(d)) /\ WF_deliveryVars(Refetch(d))
FairDelivery == DeliverySpec /\ DeliveryFairness

-----------------------------------------------------------------------------
\* Properties

\* Every variable stays in its type, and a socket belongs to an app that is signed in.
DeliveryTypeOK ==
    /\ account \in {"active", "suspended"} /\ session \in [Devices -> {"live", "revoked"}]
    /\ socket \in [Devices -> {"down", "resolved", "up"}]
    /\ \A d \in Devices : socket[d] # "down" => signedIn[d]
    /\ \A d \in Devices : frames[d] \subseteq {"notification", "revoked"}
    /\ \A d \in Devices : frames[d] # {} => socket[d] = "up"
    /\ job \in [Notes -> {"none", "queued", "stored", "told", "done"}]
    /\ feed \subseteq Keys /\ token \in [Devices -> {"none", "on", "disabled"}]
    /\ \A d \in Devices : seen[d] \subseteq feed

\* Two jobs with one dedupe key, or one job worked on twice because its worker died, push
\* and announce a notification at most once (deliverNotification).
DeliveredOnce == \A k \in Keys : told[k] <= 1 /\ pushes[k] <= 1

\* An app whose session was revoked signs out, whether it was connected, away or just
\* reconnecting - unless its handshake was past the token check at that moment, when no
\* frame reaches it and nothing closes the socket (gateway.ts).
RevokedSignsOut ==
    \A d \in Devices : session[d] = "revoked" ~> (~signedIn[d] \/ d \in overlapped \/ session[d] = "live")

\* A notification that was announced gets into the feed an app shows although its frame
\* may be lost, provided the app had been connected before (onReconnect).
FeedCatchesUp ==
    \A d \in Devices, k \in Keys :
        (told[k] > 0 /\ k \notin unheard[d])
          ~> (k \in seen[d] \/ ~signedIn[d] \/ session[d] # "live" \/ account # "active" \/ k \in unheard[d])
=============================================================================
