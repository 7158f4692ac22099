--------------------------- MODULE MessagingProofs ---------------------------
(***************************************************************************)
(* What conversations and notifications promise, for any number of people, *)
(* texts, retries, jobs and devices.                                       *)
(***************************************************************************)
EXTENDS Messaging, TLAPS, FiniteSetTheorems

-----------------------------------------------------------------------------
(* Conversations *)

HandlerSteps == {"none", "asked", "open", "closed", "checked", "inserted"}

ChatTypes ==
    /\ log \in Seq(Messages)
    /\ handler \in [Texts \X Tries -> HandlerSteps]

\* No text is stored twice.
NoDoubles == \A i, j \in 1 .. Len(log) : log[i] \in Texts /\ log[i] = log[j] => i = j

\* A purged conversation takes in no text but those in a handler that had found it open, and
\* the closing message of a match that was active.
PurgedIsClosed ==
    conv = "expired" =>
        /\ Stored \subseteq late
        /\ \A t \in Texts, k \in Tries : handler[<<t, k>>] \in {"open", "checked"} => t \in late
        /\ match => "closed" \in late

ChatInv == ChatTypes /\ NoDoubles /\ PurgedIsClosed /\ OnePushPerMinute

LEMMA StoredIs ==
    ASSUME log \in Seq(Messages)
    PROVE  Stored = {log[i] : i \in 1 .. Len(log)}
  BY DEF Stored, Range

\* What the other handlers do to the transcript: nothing.
LEMMA TranscriptKept ==
    ASSUME ChatInv, UNCHANGED <<match, conv, log, late, pushed>>,
           handler' \in [Texts \X Tries -> HandlerSteps],
           \A t \in Texts, k \in Tries : handler'[<<t, k>>] \in {"open", "checked"} =>
              \/ handler[<<t, k>>] \in {"open", "checked"}
              \/ conv # "expired"
    PROVE  ChatInv'
  <1>1. ChatTypes' /\ NoDoubles'
    BY DEF ChatInv, ChatTypes, NoDoubles
  <1>2. PurgedIsClosed'
    BY DEF ChatInv, PurgedIsClosed, Stored
  <1>3. OnePushPerMinute'
    BY DEF ChatInv, OnePushPerMinute
  <1> QED
    BY <1>1, <1>2, <1>3 DEF ChatInv

\* A handler goes on to a step, or answers.
LEMMA HandlerMoves ==
    ASSUME ChatInv, NEW t \in Texts, NEW k \in Tries, NEW s \in HandlerSteps,
           handler' = [handler EXCEPT ![<<t, k>>] = s]
    PROVE  /\ handler' \in [Texts \X Tries -> HandlerSteps]
           /\ \A u \in Texts, j \in Tries : handler'[<<u, j>>] = IF u = t /\ j = k THEN s ELSE handler[<<u, j>>]
  BY DEF ChatInv, ChatTypes

LEMMA SendKeeps ==
    ASSUME ChatInv, NEW t \in Texts, Send(t)
    PROVE  ChatInv'
  <1>1. /\ handler' = [handler EXCEPT ![<<t, typed[t] + 1>>] = "asked"]
        /\ UNCHANGED <<match, conv, log, late, pushed>>
    BY DEF Send, noticeVars
  <1>2. handler' \in [Texts \X Tries -> HandlerSteps]
    BY <1>1 DEF ChatInv, ChatTypes, HandlerSteps
  <1>3. \A u \in Texts, j \in Tries : handler'[<<u, j>>] \in {handler[<<u, j>>], "asked"}
    BY <1>1 DEF ChatInv, ChatTypes
  <1> QED
    BY <1>1, <1>2, <1>3, TranscriptKept

LEMMA HandleKeeps ==
    ASSUME ChatInv, NEW t \in Texts, NEW k \in Tries,
           ReadContext(t, k) \/ Check(t, k) \/ Announce(t, k) \/ Crash(t, k)
    PROVE  ChatInv'
  <1>1. UNCHANGED <<match, conv, log, late, pushed>>
    BY DEF ReadContext, Check, Announce, Crash, noticeVars
  <1>2. \/ handler' = [handler EXCEPT ![<<t, k>>] = "none"]
        \/ handler' = [handler EXCEPT ![<<t, k>>] = "closed"]
        \/ conv # "expired" /\ handler' = [handler EXCEPT ![<<t, k>>] = "open"]
        \/ handler[<<t, k>>] = "open" /\ handler' = [handler EXCEPT ![<<t, k>>] = "checked"]
    <2>1. CASE ReadContext(t, k)
      BY <2>1 DEF ReadContext, Proceeds, EffectiveStatus
    <2>2. CASE Check(t, k)
      BY <2>2 DEF Check, Proceeds, Answers
    <2>3. CASE Announce(t, k)
      BY <2>3 DEF Announce, Answers
    <2>4. CASE Crash(t, k)
      BY <2>4 DEF Crash, Answers
    <2> QED
      BY <2>1, <2>2, <2>3, <2>4
  <1>3. ASSUME NEW s \in HandlerSteps, handler' = [handler EXCEPT ![<<t, k>>] = s],
               s \in {"open", "checked"} => handler[<<t, k>>] \in {"open", "checked"} \/ conv # "expired"
        PROVE  ChatInv'
    BY <1>1, <1>3, HandlerMoves, TranscriptKept
  <1> QED
    BY <1>2, <1>3 DEF HandlerSteps

LEMMA InsertKeeps ==
    ASSUME ChatInv, NEW t \in Texts, NEW k \in Tries, Insert(t, k)
    PROVE  ChatInv'
  <1>1. UNCHANGED <<match, conv, late, pushed>> /\ handler[<<t, k>>] = "checked"
    BY DEF Insert, noticeVars
  <1>2. CASE log' = log
    <2>1. handler' = [handler EXCEPT ![<<t, k>>] = "none"] \/ handler' = [handler EXCEPT ![<<t, k>>] = "inserted"]
      BY DEF Insert, Answers, Proceeds
    <2>2. ASSUME NEW s \in {"none", "inserted"}, handler' = [handler EXCEPT ![<<t, k>>] = s]
          PROVE  ChatInv'
      <3>1. s \in HandlerSteps
        BY DEF HandlerSteps
      <3> QED
        BY <1>1, <1>2, <2>2, <3>1, HandlerMoves, TranscriptKept
    <2> QED
      BY <2>1, <2>2
  <1>3. CASE t \notin Stored /\ log' = Append(log, t) /\ Proceeds(t, k, "inserted")
    <2>1. log \in Seq(Messages) /\ t \in Messages /\ handler' = [handler EXCEPT ![<<t, k>>] = "inserted"]
      BY <1>3 DEF ChatInv, ChatTypes, Proceeds, Messages
    <2>2. /\ handler' \in [Texts \X Tries -> HandlerSteps]
          /\ \A u \in Texts, j \in Tries : handler'[<<u, j>>] \in {handler[<<u, j>>], "inserted"}
      BY <2>1 DEF ChatInv, ChatTypes, HandlerSteps
    <2>3. /\ log' \in Seq(Messages) /\ Len(log') = Len(log) + 1 /\ log'[Len(log) + 1] = t
          /\ Len(log) \in Nat /\ \A i \in 1 .. Len(log) : log'[i] = log[i]
      BY <1>3, <2>1
    <2>4. \A i \in 1 .. Len(log) : log[i] # t
      BY <1>3, <2>1, StoredIs
    <2>5. NoDoubles'
      BY <2>3, <2>4 DEF ChatInv, NoDoubles
    <2>6. \A x \in Stored' : x \in Stored \/ x = t
      <3>1. Stored' = {log'[i] : i \in 1 .. Len(log')}
        BY <2>3 DEF Stored, Range
      <3> QED
        BY <2>1, <2>3, <3>1, StoredIs
    <2>7. PurgedIsClosed'
      BY <1>1, <2>2, <2>6 DEF ChatInv, PurgedIsClosed
    <2>8. OnePushPerMinute'
      BY <1>1 DEF ChatInv, OnePushPerMinute
    <2> QED
      BY <2>2, <2>3, <2>5, <2>7, <2>8 DEF ChatInv, ChatTypes
  <1> QED
    BY <1>2, <1>3 DEF Insert, IndexAllows

LEMMA PurgeKeeps ==
    ASSUME ChatInv, PurgeMessages
    PROVE  ChatInv'
  <1>1. /\ log' = <<>> /\ handler' = handler /\ pushed' = pushed
        /\ late' = late \cup {t \in Texts : \E k \in Tries : handler[<<t, k>>] \in {"open", "checked"}}
                        \cup (IF match THEN {"closed"} ELSE {})
        /\ match' = match
    BY DEF PurgeMessages, noticeVars
  <1>2. ChatTypes' /\ NoDoubles' /\ Stored' = {}
    BY <1>1 DEF ChatInv, ChatTypes, NoDoubles, Stored, Range
  <1>3. PurgedIsClosed'
    BY <1>1, <1>2 DEF PurgedIsClosed
  <1>4. OnePushPerMinute'
    BY <1>1 DEF ChatInv, OnePushPerMinute
  <1> QED
    BY <1>2, <1>3, <1>4 DEF ChatInv

\* The match, the clock and the phones leave the transcript alone; a conversation does not
\* become an expired one but by the purge.
LEMMA ElsewhereKeeps ==
    ASSUME ChatInv, UNCHANGED <<match, log, late, handler, pushed>>,
           conv' = "expired" => conv = "expired"
    PROVE  ChatInv'
  <1>1. ChatTypes' /\ NoDoubles'
    BY DEF ChatInv, ChatTypes, NoDoubles
  <1>2. PurgedIsClosed'
    BY DEF ChatInv, PurgedIsClosed, Stored
  <1>3. OnePushPerMinute'
    BY DEF ChatInv, OnePushPerMinute
  <1> QED
    BY <1>1, <1>2, <1>3 DEF ChatInv

\* Closing the match writes a message of its own, and that only once.
LEMMA CloseKeeps ==
    ASSUME ChatInv, NEW by \in People, NEW unsafe \in BOOLEAN, CloseMatch(by, unsafe)
    PROVE  ChatInv'
  <1>1. /\ match /\ match' = FALSE /\ UNCHANGED <<late, handler, pushed>>
        /\ log' = Append(log, "closed") /\ conv' \in {conv, "readonly"}
    BY DEF CloseMatch, noticeVars
  <1>2. log \in Seq(Messages) /\ "closed" \in Messages /\ "closed" \notin Texts
    BY SystemAssumption DEF ChatInv, ChatTypes, Messages
  <1>3. /\ log' \in Seq(Messages) /\ Len(log') = Len(log) + 1 /\ log'[Len(log) + 1] = "closed"
        /\ Len(log) \in Nat /\ \A i \in 1 .. Len(log) : log'[i] = log[i]
    BY <1>1, <1>2
  <1>4. NoDoubles'
    BY <1>2, <1>3 DEF ChatInv, NoDoubles
  <1>5. \A x \in Stored' : x \in Stored \/ x = "closed"
    <2>1. Stored' = {log'[i] : i \in 1 .. Len(log')}
      BY <1>3 DEF Stored, Range
    <2> QED
      BY <1>2, <1>3, <2>1, StoredIs
  <1>6. PurgedIsClosed'
    BY <1>1, <1>5 DEF ChatInv, PurgedIsClosed
  <1>7. OnePushPerMinute'
    BY <1>1 DEF ChatInv, OnePushPerMinute
  <1> QED
    BY <1>1, <1>3, <1>4, <1>6, <1>7 DEF ChatInv, ChatTypes

LEMMA DeliverKeeps ==
    ASSUME ChatInv, NEW n \in notices, Deliver(n)
    PROVE  ChatInv'
  <1>1. UNCHANGED <<match, log, late, handler, conv>>
    BY DEF Deliver, serverVars
  <1>2. pushed' = IF pushed[n] = 0 THEN [pushed EXCEPT ![n] = @ + 1] ELSE pushed
    BY DEF Deliver, DedupeAllows
  <1>3. OnePushPerMinute'
    BY <1>2 DEF ChatInv, OnePushPerMinute
  <1>4. ChatTypes' /\ NoDoubles' /\ PurgedIsClosed'
    BY <1>1 DEF ChatInv, ChatTypes, NoDoubles, PurgedIsClosed, Stored
  <1> QED
    BY <1>3, <1>4 DEF ChatInv

LEMMA ChatKept ==
    ASSUME ChatInv, [Next]_vars
    PROVE  ChatInv'
  <1>1. ASSUME NEW t \in Texts, Send(t) \/ GivesUp(t)
        PROVE  ChatInv'
    <2>1. CASE GivesUp(t)
      BY <2>1, ElsewhereKeeps DEF GivesUp, serverVars, noticeVars
    <2> QED
      BY <1>1, <2>1, SendKeeps
  <1>2. ASSUME NEW t \in Texts, NEW k \in Tries, Handle(t, k) \/ Crash(t, k)
        PROVE  ChatInv'
    BY <1>2, HandleKeeps, InsertKeeps DEF Handle
  <1>3. ASSUME NEW u \in People,
               RefetchMessages(u) \/ MarkRead(u) \/ RefetchMatch(u) \/ RefetchConversation(u) \/ LoseFrames(u)
        PROVE  ChatInv'
    <2>1. UNCHANGED <<match, log, late, handler, pushed, conv>>
      BY <1>3 DEF RefetchMessages, MarkRead, RefetchMatch, RefetchConversation, LoseFrames,
                  serverVars, noticeVars
    <2> QED
      BY <2>1, ElsewhereKeeps
  <1>4. CASE GraceEnds \/ ExpireConversation \/ RetentionEnds
    <2>1. UNCHANGED <<match, log, late, handler, pushed>> /\ conv' \in {conv, "readonly"}
      BY <1>4 DEF GraceEnds, ExpireConversation, RetentionEnds, noticeVars
    <2> QED
      BY <2>1, ElsewhereKeeps
  <1>5. CASE MinutePasses \/ UNCHANGED vars
    <2>1. UNCHANGED <<match, log, late, handler, pushed, conv>>
      BY <1>5 DEF MinutePasses, vars, serverVars, noticeVars
    <2> QED
      BY <2>1, ElsewhereKeeps
  <1> QED
    BY <1>1, <1>2, <1>3, <1>4, <1>5, CloseKeeps, PurgeKeeps, DeliverKeeps DEF Next

LEMMA ChatStart ==
    ASSUME Init
    PROVE  ChatInv
  <1>1. ChatTypes /\ NoDoubles
    BY DEF Init, ChatTypes, NoDoubles, HandlerSteps, Messages
  <1>2. PurgedIsClosed /\ OnePushPerMinute
    BY DEF Init, PurgedIsClosed, OnePushPerMinute
  <1> QED
    BY <1>1, <1>2 DEF ChatInv

\* No position but one holds a text, so its rows are one at most.
LEMMA OneRow ==
    ASSUME ChatInv, NEW t \in Texts
    PROVE  Rows(t) <= 1
  <1> DEFINE S == {i \in DOMAIN log : log[i] = t}
  <1>1. DOMAIN log = 1 .. Len(log)
    BY DEF ChatInv, ChatTypes
  <1>2. CASE S = {}
    BY <1>2, FS_EmptySet DEF Rows
  <1>3. CASE S # {}
    <2>1. PICK i \in S : TRUE
      BY <1>3
    <2>2. S = {i}
      BY <1>1, <2>1 DEF ChatInv, NoDoubles
    <2>3. Cardinality({i}) = 1
      BY FS_Singleton
    <2> QED
      BY <2>2, <2>3 DEF Rows
  <1> QED
    BY <1>2, <1>3

\* TranscriptHolds: retries, crashes and overlapping handlers store a text once and push one
\* notice a minute, and what is left in a purged conversation came after the purge, from a
\* handler already at work or from the end of a match still active.
THEOREM TranscriptsHold == Spec => []TranscriptHolds
  <1>1. Init => ChatInv
    BY ChatStart
  <1>2. ChatInv /\ [Next]_vars => ChatInv'
    BY ChatKept
  <1>3. ChatInv => TranscriptHolds
    BY OneRow DEF ChatInv, PurgedIsClosed, TranscriptHolds, StoredOnce, OnlyLateMessagesRemain
  <1> QED
    BY <1>1, <1>2, <1>3, PTL DEF Spec

-----------------------------------------------------------------------------
(* Notifications *)

AtWork(n) == job[n] \in {"stored", "told"}

JobTypes ==
    /\ job \in [Notes -> {"none", "queued", "stored", "told", "done"}]
    /\ told \in [Keys -> Nat] /\ pushes \in [Keys -> Nat]

\* A job at work has its row; what it has yet to do was not done for its key before.
WorkIsDue ==
    \A n \in Notes :
        /\ AtWork(n) => KeyOf[n] \in feed /\ pushes[KeyOf[n]] = 0
        /\ job[n] = "stored" => told[KeyOf[n]] = 0

\* The row of a key is stored by one job, and only that one goes on.
OneAtWork == \A m, n \in Notes : AtWork(m) /\ AtWork(n) /\ KeyOf[m] = KeyOf[n] => m = n

\* Nothing is announced or pushed without a row.
RowFirst == \A k \in Keys : k \notin feed => told[k] = 0 /\ pushes[k] = 0

DeliveryInv == JobTypes /\ WorkIsDue /\ OneAtWork /\ RowFirst /\ DeliveredOnce

\* Sockets, sessions and tokens are not what is announced.
LEMMA DevicesKeep ==
    ASSUME DeliveryInv, UNCHANGED <<job, feed, told, pushes>>
    PROVE  DeliveryInv'
  <1>1. JobTypes' /\ RowFirst' /\ DeliveredOnce'
    BY DEF DeliveryInv, JobTypes, RowFirst, DeliveredOnce
  <1>2. WorkIsDue' /\ OneAtWork'
    BY DEF DeliveryInv, WorkIsDue, OneAtWork, AtWork
  <1> QED
    BY <1>1, <1>2 DEF DeliveryInv

\* A job may wait or stop at any time.
LEMMA RestKeeps ==
    ASSUME DeliveryInv, UNCHANGED <<feed, told, pushes>>, NEW n \in Notes,
           NEW s \in {"queued", "done"}, job' = [job EXCEPT ![n] = s]
    PROVE  DeliveryInv'
  <1>1. JobTypes' /\ RowFirst' /\ DeliveredOnce'
    BY DEF DeliveryInv, JobTypes, RowFirst, DeliveredOnce
  <1>2. \A m \in Notes : job'[m] = job[m] \/ job'[m] \in {"queued", "done"}
    BY DEF DeliveryInv, JobTypes
  <1>3. WorkIsDue' /\ OneAtWork'
    BY <1>2 DEF DeliveryInv, WorkIsDue, OneAtWork, AtWork
  <1> QED
    BY <1>1, <1>3 DEF DeliveryInv

LEMMA StoreRowKeeps ==
    ASSUME DeliveryInv, NEW n \in Notes, StoreRow(n)
    PROVE  DeliveryInv'
  <1>1. UNCHANGED <<told, pushes>>
    BY DEF StoreRow
  <1>2. CASE feed' = feed
    <2>1. CASE ~(Hears(n) /\ RowIsNew(n))
      BY <1>1, <2>1, RestKeeps DEF StoreRow
    <2>2. CASE RowIsNew(n)
      BY <1>2, <2>2, <1>1, RestKeeps DEF StoreRow, RowIsNew
    <2> QED
      BY <2>1, <2>2
  <1>3. CASE KeyOf[n] \notin feed /\ feed' = feed \cup {KeyOf[n]} /\ job' = [job EXCEPT ![n] = "stored"]
    <2>1. KeyOf[n] \in Keys /\ told[KeyOf[n]] = 0 /\ pushes[KeyOf[n]] = 0
      BY <1>3, KeysAssumption DEF DeliveryInv, RowFirst
    <2>2. \A m \in Notes : job'[m] = IF m = n THEN "stored" ELSE job[m]
      BY <1>3 DEF DeliveryInv, JobTypes
    <2>3. \A m \in Notes : AtWork(m) => KeyOf[m] # KeyOf[n]
      BY <1>3 DEF DeliveryInv, WorkIsDue
    <2>4. JobTypes' /\ RowFirst' /\ DeliveredOnce'
      BY <1>1, <1>3 DEF DeliveryInv, JobTypes, RowFirst, DeliveredOnce
    <2>5. WorkIsDue'
      BY <1>1, <1>3, <2>1, <2>2 DEF DeliveryInv, WorkIsDue, AtWork
    <2>6. OneAtWork'
      BY <2>2, <2>3 DEF DeliveryInv, OneAtWork, AtWork
    <2> QED
      BY <2>4, <2>5, <2>6 DEF DeliveryInv
  <1> QED
    BY <1>2, <1>3 DEF StoreRow, RowIsNew

LEMMA TellKeeps ==
    ASSUME DeliveryInv, NEW n \in Notes, Tell(n)
    PROVE  DeliveryInv'
  <1>1. /\ UNCHANGED <<feed, pushes>> /\ job[n] = "stored" /\ job' = [job EXCEPT ![n] = "told"]
        /\ told' = [told EXCEPT ![KeyOf[n]] = @ + 1]
    BY DEF Tell
  <1>2. KeyOf[n] \in Keys /\ KeyOf[n] \in feed /\ told[KeyOf[n]] = 0 /\ pushes[KeyOf[n]] = 0
    BY <1>1, KeysAssumption DEF DeliveryInv, WorkIsDue, AtWork
  <1>3. \A m \in Notes : job'[m] = IF m = n THEN "told" ELSE job[m]
    BY <1>1 DEF DeliveryInv, JobTypes
  <1>4. \A k \in Keys : told'[k] = IF k = KeyOf[n] THEN 1 ELSE told[k]
    BY <1>1, <1>2 DEF DeliveryInv, JobTypes
  <1>5. \A m \in Notes : m # n /\ AtWork(m) => KeyOf[m] # KeyOf[n]
    BY <1>1 DEF DeliveryInv, OneAtWork, AtWork
  <1>6. JobTypes'
    <2>1. told' \in [Keys -> Nat]
      BY <1>1, <1>2 DEF DeliveryInv, JobTypes
    <2> QED
      BY <1>1, <2>1 DEF DeliveryInv, JobTypes
  <1>7. RowFirst' /\ DeliveredOnce'
    BY <1>1, <1>2, <1>4 DEF DeliveryInv, RowFirst, DeliveredOnce
  <1>8. WorkIsDue'
    BY <1>1, <1>2, <1>3, <1>4, <1>5, KeysAssumption DEF DeliveryInv, WorkIsDue, AtWork
  <1>9. OneAtWork'
    BY <1>1, <1>3 DEF DeliveryInv, OneAtWork, AtWork
  <1> QED
    BY <1>6, <1>7, <1>8, <1>9 DEF DeliveryInv

LEMMA PushKeeps ==
    ASSUME DeliveryInv, NEW n \in Notes, Push(n)
    PROVE  DeliveryInv'
  <1>1. /\ UNCHANGED <<feed, told>> /\ job[n] = "told" /\ job' = [job EXCEPT ![n] = "done"]
        /\ pushes' = pushes \/ pushes' = [pushes EXCEPT ![KeyOf[n]] = @ + 1]
    BY DEF Push
  <1>2. CASE pushes' = pushes
    BY <1>1, <1>2, RestKeeps
  <1>3. CASE pushes' = [pushes EXCEPT ![KeyOf[n]] = @ + 1]
    <2>1. KeyOf[n] \in Keys /\ KeyOf[n] \in feed /\ pushes[KeyOf[n]] = 0
      BY <1>1, KeysAssumption DEF DeliveryInv, WorkIsDue, AtWork
    <2>2. \A m \in Notes : job'[m] = IF m = n THEN "done" ELSE job[m]
      BY <1>1 DEF DeliveryInv, JobTypes
    <2>3. \A k \in Keys : pushes'[k] = IF k = KeyOf[n] THEN 1 ELSE pushes[k]
      BY <1>3, <2>1 DEF DeliveryInv, JobTypes
    <2>4. \A m \in Notes : m # n /\ AtWork(m) => KeyOf[m] # KeyOf[n]
      BY <1>1 DEF DeliveryInv, OneAtWork, AtWork
    <2>5. JobTypes'
      <3>1. pushes' \in [Keys -> Nat]
        BY <1>3, <2>1 DEF DeliveryInv, JobTypes
      <3> QED
        BY <1>1, <3>1 DEF DeliveryInv, JobTypes
    <2>6. RowFirst' /\ DeliveredOnce'
      BY <1>1, <2>1, <2>3 DEF DeliveryInv, RowFirst, DeliveredOnce
    <2>7. WorkIsDue'
      BY <1>1, <2>2, <2>3, <2>4, KeysAssumption DEF DeliveryInv, WorkIsDue, AtWork
    <2>8. OneAtWork'
      BY <2>2 DEF DeliveryInv, OneAtWork, AtWork
    <2> QED
      BY <2>5, <2>6, <2>7, <2>8 DEF DeliveryInv
  <1> QED
    BY <1>1, <1>2, <1>3

LEMMA DeliveryKept ==
    ASSUME DeliveryInv, [DeliveryNext]_deliveryVars
    PROVE  DeliveryInv'
  <1>1. ASSUME NEW n \in Notes, Enqueue(n) \/ WorkerDies(n) \/ JobFails(n)
        PROVE  DeliveryInv'
    <2>1. UNCHANGED <<feed, told, pushes>>
      BY <1>1 DEF Enqueue, WorkerDies, JobFails
    <2>2. job' = [job EXCEPT ![n] = "queued"] \/ job' = [job EXCEPT ![n] = "done"]
      BY <1>1 DEF Enqueue, WorkerDies, JobFails
    <2> QED
      BY <2>1, <2>2, RestKeeps
  <1>2. ASSUME NEW n \in Notes, Work(n)
        PROVE  DeliveryInv'
    BY <1>2, StoreRowKeeps, TellKeeps, PushKeeps DEF Work
  <1>3. ASSUME NEW d \in Devices, App(d) \/ Drop(d) \/ SignIn(d) \/ RegisterToken(d)
        PROVE  DeliveryInv'
    <2>1. UNCHANGED <<job, feed, told, pushes>>
      BY <1>3 DEF App, Upgrade, Refuse, Open, Hint, HearsRevoked, Refetch, Drop, SignIn, RegisterToken, jobVars
    <2> QED
      BY <2>1, DevicesKeep
  <1>4. CASE Mute \/ Suspend \/ UNCHANGED deliveryVars
    <2>1. UNCHANGED <<job, feed, told, pushes>>
      BY <1>4 DEF Mute, Suspend, deliveryVars, jobVars
    <2> QED
      BY <2>1, DevicesKeep
  <1>5. ASSUME NEW d \in Devices, NEW by \in Devices, RevokeSession(d, by)
        PROVE  DeliveryInv'
    BY <1>5, DevicesKeep DEF RevokeSession, jobVars
  <1> QED
    BY <1>1, <1>2, <1>3, <1>4, <1>5 DEF DeliveryNext

\* DeliveredOnce: whatever jobs share a key, however often a worker dies and its job is taken
\* up again, a notification is announced once and pushed once at most.
THEOREM NotificationsAreDeliveredOnce == DeliverySpec => []DeliveredOnce
  <1>1. DeliveryInit(Devices) => DeliveryInv
    <2> SUFFICES ASSUME DeliveryInit(Devices)
                 PROVE  DeliveryInv
      OBVIOUS
    <2>1. JobTypes /\ RowFirst /\ DeliveredOnce
      BY DEF DeliveryInit, JobTypes, RowFirst, DeliveredOnce
    <2>2. WorkIsDue /\ OneAtWork
      BY DEF DeliveryInit, WorkIsDue, OneAtWork, AtWork
    <2> QED
      BY <2>1, <2>2 DEF DeliveryInv
  <1>2. DeliveryInv /\ [DeliveryNext]_deliveryVars => DeliveryInv'
    BY DeliveryKept
  <1>3. DeliveryInv => DeliveredOnce
    BY DEF DeliveryInv
  <1> QED
    BY <1>1, <1>2, <1>3, PTL DEF DeliverySpec

-----------------------------------------------------------------------------
(* The types of both, and what they say besides: what was read was delivered, a socket       *)
(* belongs to an app that is signed in, and no app shows what is not in the feed.            *)

ChatSafe == ChatTypeOK /\ wire \in [People -> SUBSET {"message", "conversation"}]

\* What is shown and marked is in the log, and the log holds messages.
LEMMA StoredAreTexts ==
    ASSUME log \in Seq(Messages)
    PROVE  Stored \subseteq Messages /\ FirstPage \subseteq Messages
  <1>1. Stored \subseteq Messages
    BY StoredIs
  <1> DEFINE n == IF Len(log) < PageLimit THEN Len(log) ELSE PageLimit
  <1>2. n \in 0 .. Len(log)
    BY PageAssumption
  <1>3. SubSeq(log, 1, n) \in Seq(Messages)
    BY <1>2
  <1> HIDE DEF n
  <1>4. \A s \in Seq(Messages) : Range(s) \subseteq Messages
    BY DEF Range
  <1>5. FirstPage = Range(SubSeq(log, 1, n))
    BY DEF FirstPage, n
  <1> QED
    BY <1>1, <1>3, <1>4, <1>5

\* An answer changes the bubble and the wait of one text, and ends its handler.
LEMMA AnswerIsTyped ==
    ASSUME ChatSafe, NEW t \in Texts, NEW k, NEW ok \in BOOLEAN, Answers(t, k, ok)
    PROVE  /\ handler' \in [Texts \X Tries -> HandlerSteps]
           /\ bubble' \in [Texts -> {"none", "sending", "failed"}]
           /\ waiting' \subseteq Texts
  <1>1. handler' \in [Texts \X Tries -> HandlerSteps]
    BY DEF ChatSafe, ChatTypeOK, Answers, HandlerSteps
  <1>2. waiting' \subseteq Texts
    BY DEF ChatSafe, ChatTypeOK, Answers, Answered
  <1>3. CASE UNCHANGED bubble
    BY <1>1, <1>2, <1>3 DEF ChatSafe, ChatTypeOK
  <1>4. CASE bubble' = [bubble EXCEPT ![t] = IF ok THEN "none" ELSE IF @ = "none" THEN @ ELSE "failed"]
    BY <1>1, <1>2, <1>4 DEF ChatSafe, ChatTypeOK
  <1> QED
    BY <1>3, <1>4 DEF Answers, Answered

LEMMA ServerKeepsTypes ==
    ASSUME ChatSafe, NEW t \in Texts, NEW k \in Tries, Handle(t, k) \/ Crash(t, k)
    PROVE  ChatSafe'
  <1>1. UNCHANGED <<match, conv, closer, delivered, read, shown>>
    BY DEF Handle, ReadContext, Check, Insert, Announce, Crash
  <1>2. log' \in Seq(Messages)
    <2>1. log' = log \/ log' = Append(log, t)
      BY DEF Handle, ReadContext, Check, Insert, Announce, Crash
    <2>2. t \in Messages
      BY DEF Messages
    <2> QED
      BY <2>1, <2>2 DEF ChatSafe, ChatTypeOK
  <1>3. wire' \in [People -> SUBSET {"message", "conversation"}]
    <2>1. CASE Announce(t, k)
      BY <2>1 DEF Announce, Publish, ChatSafe
    <2>2. CASE ~Announce(t, k)
      BY <2>2 DEF Handle, ReadContext, Check, Insert, Crash, ChatSafe
    <2> QED
      BY <2>1, <2>2
  <1>4. \/ \E ok \in BOOLEAN : Answers(t, k, ok)
        \/ \E s \in HandlerSteps : Proceeds(t, k, s)
    <2>1. CASE ReadContext(t, k)
      BY <2>1 DEF ReadContext, HandlerSteps
    <2>2. CASE Check(t, k)
      BY <2>2 DEF Check, HandlerSteps
    <2>3. CASE Insert(t, k)
      BY <2>3 DEF Insert, HandlerSteps
    <2>4. CASE Announce(t, k) \/ Crash(t, k)
      BY <2>4 DEF Announce, Crash
    <2> QED
      BY <2>1, <2>2, <2>3, <2>4 DEF Handle
  <1>5. /\ handler' \in [Texts \X Tries -> HandlerSteps]
        /\ bubble' \in [Texts -> {"none", "sending", "failed"}]
        /\ waiting' \subseteq Texts
    <2>1. ASSUME NEW s \in HandlerSteps, Proceeds(t, k, s)
          PROVE  handler' \in [Texts \X Tries -> HandlerSteps] /\ UNCHANGED <<bubble, waiting>>
      BY <2>1 DEF Proceeds, ChatSafe, ChatTypeOK, HandlerSteps
    <2>2. bubble \in [Texts -> {"none", "sending", "failed"}] /\ waiting \subseteq Texts
      BY DEF ChatSafe, ChatTypeOK
    <2> QED
      BY <1>4, <2>1, <2>2, AnswerIsTyped
  <1> QED
    BY <1>1, <1>2, <1>3, <1>5 DEF ChatSafe, ChatTypeOK, HandlerSteps

LEMMA PressingKeepsTypes ==
    ASSUME ChatSafe, NEW t \in Texts, Send(t) \/ GivesUp(t)
    PROVE  ChatSafe'
  <1>1. UNCHANGED <<match, conv, log, closer, delivered, read, shown, wire>>
    BY DEF Send, GivesUp, serverVars
  <1>2. handler' = handler \/ handler' = [handler EXCEPT ![<<t, typed[t] + 1>>] = "asked"]
    BY DEF Send, GivesUp, serverVars
  <1>3. handler' \in [Texts \X Tries -> HandlerSteps]
    BY <1>2 DEF ChatSafe, ChatTypeOK, HandlerSteps
  <1>4. waiting' \subseteq Texts
    BY DEF Send, GivesUp, Answered, ChatSafe, ChatTypeOK
  <1>5. bubble' \in [Texts -> {"none", "sending", "failed"}]
    <2>1. CASE Send(t)
      BY <2>1 DEF Send, ChatSafe, ChatTypeOK
    <2>2. CASE GivesUp(t)
      <3>1. bubble' = [bubble EXCEPT ![t] = IF @ = "none" THEN @ ELSE "failed"]
        BY <2>2 DEF GivesUp, Answered
      <3> QED
        BY <3>1 DEF ChatSafe, ChatTypeOK
    <2> QED
      BY <2>1, <2>2
  <1> QED
    BY <1>1, <1>3, <1>4, <1>5 DEF ChatSafe, ChatTypeOK, HandlerSteps

LEMMA ReadingKeepsTypes ==
    ASSUME ChatSafe, NEW u \in People,
           RefetchMessages(u) \/ MarkRead(u) \/ RefetchMatch(u) \/ RefetchConversation(u) \/ LoseFrames(u)
    PROVE  ChatSafe'
  <1>1. Stored \subseteq Messages /\ FirstPage \subseteq Messages
    BY StoredAreTexts DEF ChatSafe, ChatTypeOK
  <1>2. UNCHANGED <<match, conv, log, closer, handler, waiting>>
    BY DEF RefetchMessages, MarkRead, RefetchMatch, RefetchConversation, LoseFrames, serverVars
  <1>3. read' \subseteq delivered' /\ delivered' \subseteq Messages
    <2>1. CASE RefetchMessages(u)
      BY <1>1, <2>1 DEF RefetchMessages, ChatSafe, ChatTypeOK
    <2>2. CASE MarkRead(u)
      BY <1>1, <2>2 DEF MarkRead, ChatSafe, ChatTypeOK
    <2>3. CASE UNCHANGED <<read, delivered>>
      BY <2>3 DEF ChatSafe, ChatTypeOK
    <2> QED
      BY <2>1, <2>2, <2>3 DEF RefetchMatch, RefetchConversation, LoseFrames, serverVars
  <1>4. shown' \in [People -> SUBSET Messages]
    <2>1. shown' = shown \/ shown' = [shown EXCEPT ![u] = FirstPage]
      BY DEF RefetchMessages, ShowMessages, MarkRead, RefetchMatch, RefetchConversation, LoseFrames
    <2> QED
      BY <1>1, <2>1 DEF ChatSafe, ChatTypeOK
  <1>5. wire' \in [People -> SUBSET {"message", "conversation"}]
    <2>1. CASE RefetchMessages(u)
      BY <2>1 DEF RefetchMessages, ChatSafe
    <2>2. CASE MarkRead(u)
      BY <2>2 DEF MarkRead, Publish, ChatSafe
    <2>3. CASE RefetchMatch(u) \/ RefetchConversation(u) \/ LoseFrames(u)
      BY <2>3 DEF RefetchMatch, RefetchConversation, LoseFrames, ChatSafe
    <2> QED
      BY <2>1, <2>2, <2>3
  <1>6. bubble' \in [Texts -> {"none", "sending", "failed"}]
    <2>1. bubble' = bubble \/ bubble' = [t \in Texts |-> IF Author[t] = u /\ FirstPage # {} /\ bubble[t] # "failed"
                                                         THEN "none" ELSE bubble[t]]
      BY DEF RefetchMessages, MarkRead, RefetchMatch, RefetchConversation, LoseFrames
    <2> QED
      BY <2>1 DEF ChatSafe, ChatTypeOK
  <1> QED
    BY <1>2, <1>3, <1>4, <1>5, <1>6 DEF ChatSafe, ChatTypeOK, HandlerSteps

LEMMA EndingKeepsTypes ==
    ASSUME ChatSafe,
           (\E by \in People, unsafe \in BOOLEAN : CloseMatch(by, unsafe)) \/ GraceEnds \/ ExpireConversation
             \/ RetentionEnds \/ PurgeMessages
    PROVE  ChatSafe'
  <1>1. UNCHANGED <<delivered, read, handler, bubble, waiting, shown>>
    BY DEF CloseMatch, GraceEnds, ExpireConversation, RetentionEnds, PurgeMessages, phoneVars
  <1>2. match' \in BOOLEAN /\ conv' \in {"open", "readonly", "expired"} /\ log' \in Seq(Messages)
        /\ closer' \in People
    <2>1. match' \in {match, FALSE} /\ conv' \in {conv, "readonly", "expired"}
      BY DEF CloseMatch, GraceEnds, ExpireConversation, RetentionEnds, PurgeMessages
    <2>2. log' = log \/ log' = <<>> \/ log' = Append(log, "closed")
      BY DEF CloseMatch, GraceEnds, ExpireConversation, RetentionEnds, PurgeMessages
    <2>3. match \in BOOLEAN /\ conv \in {"open", "readonly", "expired"} /\ log \in Seq(Messages)
      BY DEF ChatSafe, ChatTypeOK
    <2>4. match' \in BOOLEAN
      BY <2>1, <2>3
    <2>5. conv' \in {"open", "readonly", "expired"}
      BY <2>1, <2>3
    <2>6. log' \in Seq(Messages)
      <3>1. CASE log' = <<>>
        BY <3>1
      <3>2. "closed" \in Messages
        BY DEF Messages
      <3> QED
        BY <2>3, <2>2, <3>1, <3>2
    <2>7. closer' \in People
      BY DEF CloseMatch, GraceEnds, ExpireConversation, RetentionEnds, PurgeMessages, ChatSafe, ChatTypeOK
    <2> QED
      BY <2>4, <2>5, <2>6, <2>7
  <1>3. wire' = wire \/ wire' = [u \in People |-> wire[u] \cup {"conversation"}]
    BY DEF CloseMatch, GraceEnds, ExpireConversation, RetentionEnds, PurgeMessages, phoneVars
  <1>4. wire' \in [People -> SUBSET {"message", "conversation"}]
    BY <1>3 DEF ChatSafe
  <1> QED
    BY <1>1, <1>2, <1>4 DEF ChatSafe, ChatTypeOK

\* ChatTypeOK: what a phone marks as read was delivered, and nobody sees a message that is none.
THEOREM ConversationIsTyped == Spec => []ChatTypeOK
  <1>1. Init => ChatSafe
    BY TwoPeopleAssumption DEF Init, ChatSafe, ChatTypeOK, Messages
  <1>2. ASSUME ChatSafe, [Next]_vars
        PROVE  ChatSafe'
    <2>1. CASE (\E n \in notices : Deliver(n)) \/ MinutePasses \/ UNCHANGED vars
      <3>1. UNCHANGED <<serverVars, phoneVars>>
        BY <2>1 DEF Deliver, MinutePasses, vars
      <3> QED
        BY <1>2, <3>1 DEF ChatSafe, ChatTypeOK, serverVars, phoneVars
    <2> QED
      BY <1>2, <2>1, ServerKeepsTypes, PressingKeepsTypes, ReadingKeepsTypes, EndingKeepsTypes DEF Next
  <1> QED
    BY <1>1, <1>2, PTL DEF Spec, ChatSafe

\* Sockets and frames belong to an app that is signed in, connected, and gets the two kinds.
SocketsFit ==
    /\ socket \in [Devices -> {"down", "resolved", "up"}]
    /\ signedIn \in [Devices -> BOOLEAN]
    /\ frames \in [Devices -> SUBSET {"notification", "revoked"}]
    /\ \A d \in Devices : socket[d] # "down" => signedIn[d]
    /\ \A d \in Devices : frames[d] # {} => socket[d] = "up"

FeedsFit ==
    /\ feed \subseteq Keys
    /\ DOMAIN seen = Devices /\ seen = [d \in Devices |-> seen[d]]
    /\ \A d \in Devices : seen[d] \subseteq feed

RowsFit ==
    /\ account \in {"active", "suspended"} /\ session \in [Devices -> {"live", "revoked"}]
    /\ job \in [Notes -> {"none", "queued", "stored", "told", "done"}]
    /\ token \in [Devices -> {"none", "on", "disabled"}]

DevicesFit == SocketsFit /\ FeedsFit /\ RowsFit

LEMMA FramesGoToSockets ==
    ASSUME SocketsFit, NEW f \in {"notification", "revoked"}, ToEverySocket(f), UNCHANGED <<socket, signedIn>>
    PROVE  SocketsFit'
  <1>1. frames' \in [Devices -> SUBSET {"notification", "revoked"}]
    BY DEF ToEverySocket, SocketsFit
  <1>2. \A d \in Devices : frames'[d] # {} => socket[d] = "up"
    BY DEF ToEverySocket, SocketsFit, Up
  <1> QED
    BY <1>1, <1>2 DEF SocketsFit

LEMMA SigningOutFits ==
    ASSUME SocketsFit, FeedsFit, NEW d \in Devices, SignsOut(d), UNCHANGED feed
    PROVE  SocketsFit' /\ FeedsFit'
  <1>1. /\ socket' \in [Devices -> {"down", "resolved", "up"}]
        /\ signedIn' \in [Devices -> BOOLEAN]
        /\ frames' \in [Devices -> SUBSET {"notification", "revoked"}]
    BY DEF SignsOut, SocketsFit
  <1>2. \A e \in Devices : socket'[e] = IF e = d THEN "down" ELSE socket[e]
    BY DEF SignsOut, SocketsFit
  <1>3. \A e \in Devices : frames'[e] = IF e = d THEN {} ELSE frames[e]
    BY DEF SignsOut, SocketsFit
  <1>4. \A e \in Devices : e # d => signedIn'[e] = signedIn[e]
    BY DEF SignsOut, SocketsFit
  <1>5. SocketsFit'
    BY <1>1, <1>2, <1>3, <1>4 DEF SocketsFit
  <1>6. FeedsFit'
    BY DEF SignsOut, FeedsFit
  <1> QED
    BY <1>5, <1>6

\* A socket of a signed-in app moves on, and only an open one keeps frames.
LEMMA SocketMoves ==
    ASSUME SocketsFit, signedIn' = signedIn, NEW d \in Devices,
           NEW s \in {"down", "resolved", "up"}, s # "down" => signedIn[d],
           socket' = [socket EXCEPT ![d] = s],
           frames' \in [Devices -> SUBSET {"notification", "revoked"}],
           \A e \in Devices : e # d => frames'[e] = frames[e],
           frames'[d] # {} => s = "up"
    PROVE  SocketsFit'
  <1>1. socket' \in [Devices -> {"down", "resolved", "up"}]
    BY DEF SocketsFit
  <1>2. \A e \in Devices : socket'[e] = IF e = d THEN s ELSE socket[e]
    BY DEF SocketsFit
  <1>3. \A e \in Devices : socket'[e] # "down" => signedIn[e]
    BY <1>2 DEF SocketsFit
  <1>4. \A e \in Devices : frames'[e] # {} => socket'[e] = "up"
    BY <1>2 DEF SocketsFit
  <1> QED
    BY <1>1, <1>3, <1>4 DEF SocketsFit

LEMMA WorkerFits ==
    ASSUME DevicesFit, NEW n \in Notes, Enqueue(n) \/ Work(n) \/ WorkerDies(n) \/ JobFails(n)
    PROVE  DevicesFit'
  <1>1. SocketsFit'
    <2>1. CASE Tell(n)
      BY <2>1, FramesGoToSockets DEF Tell, DevicesFit
    <2>2. CASE ~Tell(n)
      BY <2>2 DEF Enqueue, Work, StoreRow, Push, WorkerDies, JobFails, appVars, DevicesFit, SocketsFit
    <2> QED
      BY <2>1, <2>2
  <1>2. FeedsFit'
    <2>1. feed' = feed \/ feed' = feed \cup {KeyOf[n]}
      BY DEF Enqueue, Work, StoreRow, Tell, Push, WorkerDies, JobFails
    <2>2. seen' = seen
      BY DEF Enqueue, Work, StoreRow, Tell, Push, WorkerDies, JobFails, appVars
    <2>3. KeyOf[n] \in Keys
      BY KeysAssumption
    <2> QED
      BY <2>1, <2>2, <2>3 DEF DevicesFit, FeedsFit
  <1>3. RowsFit'
    <2>1. UNCHANGED <<account, session>>
      BY DEF Enqueue, Work, StoreRow, Tell, Push, WorkerDies, JobFails, accountVars
    <2>2. \E s \in {"queued", "stored", "told", "done"} : job' = [job EXCEPT ![n] = s]
      BY DEF Enqueue, Work, StoreRow, Tell, Push, WorkerDies, JobFails
    <2>3. token' = token \/ \E dead : token' = [d \in Devices |-> IF d \in dead THEN "disabled" ELSE token[d]]
      BY DEF Enqueue, Work, StoreRow, Tell, Push, WorkerDies, JobFails
    <2>4. token' \in [Devices -> {"none", "on", "disabled"}]
      BY <2>3 DEF DevicesFit, RowsFit
    <2>5. job' \in [Notes -> {"none", "queued", "stored", "told", "done"}]
      BY <2>2 DEF DevicesFit, RowsFit
    <2> QED
      BY <2>1, <2>4, <2>5 DEF DevicesFit, RowsFit
  <1> QED
    BY <1>1, <1>2, <1>3 DEF DevicesFit

LEMMA AppFits ==
    ASSUME DevicesFit, NEW d \in Devices, App(d) \/ Drop(d) \/ SignIn(d) \/ RegisterToken(d)
    PROVE  DevicesFit'
  <1>1. CASE Refuse(d) \/ HearsRevoked(d)
    <2>1. SignsOut(d) /\ UNCHANGED <<accountVars, jobVars>>
      BY <1>1 DEF Refuse, HearsRevoked
    <2>2. RowsFit'
      BY <2>1 DEF accountVars, jobVars, DevicesFit, RowsFit
    <2> QED
      BY <2>1, <2>2, SigningOutFits DEF DevicesFit, jobVars
  <1>2. CASE Upgrade(d) \/ Open(d) \/ Hint(d) \/ Drop(d)
    <2>1. UNCHANGED <<account, session, job, feed, token, seen, signedIn>>
      BY <1>2 DEF Upgrade, Open, Hint, Drop, accountVars, jobVars
    <2>2. ASSUME Upgrade(d)
        PROVE  SocketsFit'
      <3>1. signedIn[d] /\ socket[d] = "down" /\ socket' = [socket EXCEPT ![d] = "resolved"] /\ frames' = frames
        BY <2>2 DEF Upgrade, Reconnects
      <3>2. frames[d] = {} /\ frames \in [Devices -> SUBSET {"notification", "revoked"}]
        BY <3>1 DEF DevicesFit, SocketsFit
      <3> QED
        BY <2>1, <3>1, <3>2, SocketMoves DEF DevicesFit
    <2>3. ASSUME Open(d)
        PROVE  SocketsFit'
      <3>1. socket[d] = "resolved" /\ socket' = [socket EXCEPT ![d] = "up"] /\ frames' = frames
        BY <2>3 DEF Open
      <3>2. signedIn[d] /\ frames \in [Devices -> SUBSET {"notification", "revoked"}]
        BY <3>1 DEF DevicesFit, SocketsFit
      <3> QED
        BY <2>1, <3>1, <3>2, SocketMoves DEF DevicesFit
    <2>4. ASSUME Hint(d)
        PROVE  SocketsFit'
      <3>1. frames[d] # {} /\ frames' = [frames EXCEPT ![d] = @ \ {"notification"}] /\ socket' = socket
        BY <2>4 DEF Hint
      <3>2. socket[d] = "up" /\ signedIn[d]
        BY <3>1 DEF DevicesFit, SocketsFit
      <3>3. socket' = [socket EXCEPT ![d] = "up"]
        BY <3>1, <3>2 DEF DevicesFit, SocketsFit
      <3>4. /\ frames' \in [Devices -> SUBSET {"notification", "revoked"}]
            /\ \A e \in Devices : e # d => frames'[e] = frames[e]
        BY <3>1 DEF DevicesFit, SocketsFit
      <3> QED
        BY <2>1, <3>2, <3>3, <3>4, SocketMoves DEF DevicesFit
    <2>5. ASSUME Drop(d)
        PROVE  SocketsFit'
      <3>1. socket' = [socket EXCEPT ![d] = "down"] /\ frames' = [frames EXCEPT ![d] = {}]
        BY <2>5 DEF Drop
      <3>2. /\ frames' \in [Devices -> SUBSET {"notification", "revoked"}]
            /\ \A e \in Devices : e # d => frames'[e] = frames[e]
            /\ frames'[d] = {}
        BY <3>1 DEF DevicesFit, SocketsFit
      <3> QED
        BY <2>1, <3>1, <3>2, SocketMoves DEF DevicesFit
    <2>6. SocketsFit'
      BY <1>2, <2>2, <2>3, <2>4, <2>5 DEF DevicesFit
    <2> QED
      BY <2>1, <2>6 DEF DevicesFit, FeedsFit, RowsFit
  <1>3. CASE Refetch(d) \/ SignIn(d) \/ RegisterToken(d)
    <2>1. UNCHANGED <<account, job, feed, socket, frames>>
      BY <1>3 DEF Refetch, SignIn, RegisterToken, accountVars, jobVars, appVars
    <2>2. signedIn' \in {signedIn, [signedIn EXCEPT ![d] = TRUE]}
      BY <1>3 DEF Refetch, SignIn, RegisterToken, appVars
    <2>3. session' \in {session, [session EXCEPT ![d] = "live"]} /\ token' \in {token, [token EXCEPT ![d] = "on"]}
      BY <1>3 DEF Refetch, SignIn, RegisterToken, accountVars, jobVars
    <2>4. seen' \in {seen, [seen EXCEPT ![d] = feed]}
      BY <1>3 DEF Refetch, SignIn, RegisterToken, appVars
    <2>5. SocketsFit'
      BY <2>1, <2>2 DEF DevicesFit, SocketsFit
    <2>6. FeedsFit'
      BY <2>1, <2>4 DEF DevicesFit, FeedsFit
    <2>7. RowsFit'
      BY <2>1, <2>3 DEF DevicesFit, RowsFit
    <2> QED
      BY <2>5, <2>6, <2>7 DEF DevicesFit
  <1> QED
    BY <1>1, <1>2, <1>3 DEF App

LEMMA SessionsFit ==
    ASSUME DevicesFit, Mute \/ Suspend \/ \E d, by \in Devices : RevokeSession(d, by)
    PROVE  DevicesFit'
  <1>1. UNCHANGED <<job, feed, token, seen, signedIn, socket>> /\ account' \in {account, "suspended"}
    BY DEF Mute, Suspend, RevokeSession, jobVars, accountVars, appVars
  <1>2. UNCHANGED <<frames, session>> \/ \E ds \in SUBSET Devices : Revoked(ds)
    <2>1. CASE Mute
      BY <2>1 DEF Mute, accountVars, appVars
    <2>2. CASE Suspend
      BY <2>2 DEF Suspend
    <2>3. CASE \E d, by \in Devices : RevokeSession(d, by)
      <3>1. PICK d \in Devices, by \in Devices : RevokeSession(d, by)
        BY <2>3
      <3>2. Revoked({d})
        BY <3>1 DEF RevokeSession
      <3> QED
        BY <3>2
    <2> QED
      BY <2>1, <2>2, <2>3
  <1>3. FeedsFit'
    BY <1>1 DEF DevicesFit, FeedsFit
  <1>4. CASE UNCHANGED <<frames, session>>
    BY <1>1, <1>3, <1>4 DEF DevicesFit, SocketsFit, RowsFit
  <1>5. ASSUME NEW ds \in SUBSET Devices, Revoked(ds)
        PROVE  SocketsFit' /\ RowsFit'
    <2>1. SocketsFit'
      BY <1>1, <1>5, FramesGoToSockets DEF Revoked, DevicesFit
    <2>2. session' \in [Devices -> {"live", "revoked"}]
      BY <1>5 DEF Revoked, DevicesFit, RowsFit
    <2> QED
      BY <1>1, <2>1, <2>2 DEF DevicesFit, RowsFit
  <1> QED
    BY <1>2, <1>3, <1>4, <1>5 DEF DevicesFit

\* DeliveryTypeOK: whichever sessions end while sockets open and workers die, no socket is left
\* to an app that is signed out and no app shows what the feed does not hold.
THEOREM DeliveryIsTyped == DeliverySpec => []DeliveryTypeOK
  <1>1. DeliveryInit(Devices) => DevicesFit
    BY DEF DeliveryInit, DevicesFit, SocketsFit, FeedsFit, RowsFit
  <1>2. DevicesFit /\ [DeliveryNext]_deliveryVars => DevicesFit'
    <2> SUFFICES ASSUME DevicesFit, [DeliveryNext]_deliveryVars
                 PROVE  DevicesFit'
      OBVIOUS
    <2>1. CASE UNCHANGED deliveryVars
      BY <2>1 DEF deliveryVars, accountVars, jobVars, appVars, DevicesFit, SocketsFit, FeedsFit, RowsFit
    <2> QED
      BY <2>1, WorkerFits, AppFits, SessionsFit DEF DeliveryNext
  <1>3. DevicesFit => DeliveryTypeOK
    BY DEF DevicesFit, SocketsFit, FeedsFit, RowsFit, DeliveryTypeOK
  <1> QED
    BY <1>1, <1>2, <1>3, PTL DEF DeliverySpec

\* MessagingTypeOK: conversations and deliveries, each beside the other.
THEOREM MessagingIsTyped == MessagingSpec => []MessagingTypeOK
  <1>1. ChatTypeOK /\ DeliveryTypeOK => MessagingTypeOK
    BY DEF MessagingTypeOK
  <1> QED
    BY <1>1, ConversationIsTyped, DeliveryIsTyped, PTL DEF MessagingSpec

=============================================================================
