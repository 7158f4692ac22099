-------------------------------- MODULE Chat --------------------------------
(***************************************************************************)
(* One conversation of a match, from both phones to the messages table and  *)
(* back.  A text is one press of "send": its client message id makes the    *)
(* retries of that press the same message.  The server's handler works in   *)
(* steps and may die between them; frames to the phones may be lost.        *)
(* The match writes two messages of its own into the conversation: one when *)
(* it is made, one when it is closed.                                       *)
(***************************************************************************)
EXTENDS Naturals, Sequences, FiniteSets, Functions

CONSTANTS People, Texts,
          Author,          \* who presses send on each text
          Helper,          \* in whose name the first system message is
          PageLimit,       \* messages the match screen asks for
          MaxMinute,       \* bound: minutes considered
          MaxTries         \* bound: times a text is sent

ASSUME PageAssumption == PageLimit \in Nat \ {0}
ASSUME TwoPeopleAssumption ==
    Cardinality(People) = 2 /\ Author \in [Texts -> People] /\ Helper \in People
ASSUME SystemAssumption == {"matched", "closed"} \cap Texts = {}

Tries == 1 .. MaxTries

VARIABLES match,       \* is the match still active
          conv,        \* conversations.status
          graceOver,   \* expires_at has passed
          retained,    \* the event's retention window has not closed
          log,         \* the messages table, oldest first
          closer,      \* in whose name the match was closed
          delivered, read,
          handler,     \* the server's handler of each try of a text
          late,        \* history: what the purge came too early for
          notices,     \* jobs on the notify queue: <<to, minute>>
          pushed,      \* history: pushes by person and minute
          minute,
          bubble,      \* the phone's optimistic copy of each text
          waiting,     \* texts whose latest try the phone waits for
          typed,       \* history: how often each text was sent
          shown,       \* messages on each phone's screen
          view,        \* what each phone believes: match and conversation
          wire         \* frames on their way to each phone

serverVars == <<match, conv, graceOver, retained, log, closer, delivered, read, handler, late>>
noticeVars == <<notices, pushed, minute>>
phoneVars == <<bubble, waiting, typed, shown, view, wire>>
vars == <<serverVars, noticeVars, phoneVars>>

Other(u) == CHOOSE v \in People : v # u
Stored == Range(log)
Messages == Texts \cup {"matched", "closed"}
From(m) == IF m \in Texts THEN Author[m] ELSE IF m = "matched" THEN Helper ELSE closer
Rows(t) == Cardinality({i \in DOMAIN log : log[i] = t})

\* effectiveStatus: an open conversation past its time reads as readonly.
EffectiveStatus == IF conv = "open" /\ graceOver THEN "readonly" ELSE conv

Publish(u, frame) == wire' = [wire EXCEPT ![u] = @ \cup {frame}]

-----------------------------------------------------------------------------
\* Sending

\* The composer shows while match and conversation look open; pressing send adds a
\* bubble, and a failed bubble can be sent again under the same id.
CanWrite(u) == view[u].match /\ view[u].conv = "open"
Composer(t) == typed[t] = 0 /\ CanWrite(Author[t])
Resend(t) == bubble[t] = "failed"
Send(t) ==
    /\ typed[t] < MaxTries
    /\ Composer(t) \/ Resend(t)
    /\ typed' = [typed EXCEPT ![t] = @ + 1]
    /\ bubble' = [bubble EXCEPT ![t] = "sending"]
    /\ waiting' = waiting \cup {t}
    /\ handler' = [handler EXCEPT ![<<t, typed[t] + 1>>] = "asked"]
    /\ UNCHANGED <<match, conv, graceOver, retained, log, closer, delivered, read, late, noticeVars, shown, view, wire>>

\* The answer to the latest try reaches a phone that still waits for it: a success drops
\* the bubble, a failure marks it - if it is still there.
AnsweredBlindly(t, ok) ==
    /\ waiting' = waiting \ {t}
    /\ bubble' = [bubble EXCEPT ![t] = IF ok THEN "sent" ELSE "failed"]
Answered(t, ok) ==
    /\ waiting' = waiting \ {t}
    /\ bubble' = [bubble EXCEPT ![t] = IF ok THEN "none" ELSE IF @ = "none" THEN @ ELSE "failed"]
Answers(t, k, ok) ==
    /\ handler' = [handler EXCEPT ![<<t, k>>] = "none"]
    /\ IF k = typed[t] /\ t \in waiting THEN Answered(t, ok) ELSE UNCHANGED <<waiting, bubble>>
Proceeds(t, k, step) ==
    /\ handler' = [handler EXCEPT ![<<t, k>>] = step]
    /\ UNCHANGED <<waiting, bubble>>

\* sendMessage goes by the conversation it read first.
ReadContext(t, k) ==
    /\ handler[<<t, k>>] = "asked"
    /\ Proceeds(t, k, IF EffectiveStatus = "open" THEN "open" ELSE "closed")
    /\ UNCHANGED <<match, conv, graceOver, retained, log, closer, delivered, read, late, noticeVars,
                   typed, shown, view, wire>>
\* A replay answers with the row there is; a closed conversation refuses.
Check(t, k) ==
    /\ handler[<<t, k>>] \in {"open", "closed"}
    /\ \/ t \in Stored /\ Answers(t, k, TRUE)
       \/ t \notin Stored /\ handler[<<t, k>>] = "closed" /\ Answers(t, k, FALSE)
       \/ t \notin Stored /\ handler[<<t, k>>] = "open" /\ Proceeds(t, k, "checked")
    /\ UNCHANGED <<match, conv, graceOver, retained, log, closer, delivered, read, late, noticeVars,
                   typed, shown, view, wire>>

\* Two handlers of one id race for the unique index: the loser answers with the winner's row.
IndexMissing(t) == TRUE
IndexAllows(t) == t \notin Stored
Insert(t, k) ==
    /\ handler[<<t, k>>] = "checked"
    /\ \/ IndexAllows(t) /\ log' = Append(log, t) /\ Proceeds(t, k, "inserted")
       \/ ~IndexAllows(t) /\ UNCHANGED log /\ Answers(t, k, TRUE)
    /\ UNCHANGED <<match, conv, graceOver, retained, closer, delivered, read, late, noticeVars,
                   typed, shown, view, wire>>

\* The peer gets a frame and a notification, the sender the answer.
Announce(t, k) ==
    /\ handler[<<t, k>>] = "inserted"
    /\ Answers(t, k, TRUE)
    /\ Publish(Other(Author[t]), "message")
    /\ notices' = notices \cup {<<Other(Author[t]), minute>>}
    /\ UNCHANGED <<match, conv, graceOver, retained, log, closer, delivered, read, late, pushed, minute,
                   typed, shown, view>>

\* The connection drops, or the phone stops waiting after twenty seconds, while the server
\* may still be at work.
GivesUp(t) ==
    /\ t \in waiting
    /\ Answered(t, FALSE)
    /\ UNCHANGED <<serverVars, noticeVars, typed, shown, view, wire>>

\* The server dies between two steps of the handler.
Crash(t, k) ==
    /\ handler[<<t, k>>] # "none"
    /\ Answers(t, k, FALSE)
    /\ UNCHANGED <<match, conv, graceOver, retained, log, closer, delivered, read, late, noticeVars,
                   typed, shown, view, wire>>

-----------------------------------------------------------------------------
\* Reading

\* listMessages, every ten seconds and on a frame: one page, oldest first.  What is shown
\* counts as delivered, and once anything is shown all "sending" bubbles go.
FirstPage == Range(SubSeq(log, 1, IF Len(log) < PageLimit THEN Len(log) ELSE PageLimit))
Polls(u) == TRUE
ShowMessages(u) == shown' = [shown EXCEPT ![u] = FirstPage]
RefetchMessages(u) ==
    /\ Polls(u)
    /\ ShowMessages(u)
    /\ delivered' = delivered \cup {m \in FirstPage : From(m) # u}
    /\ bubble' = [t \in Texts |-> IF Author[t] = u /\ FirstPage # {} /\ bubble[t] # "failed"
                                    THEN "none" ELSE bubble[t]]
    /\ wire' = [wire EXCEPT ![u] = @ \ {"message"}]
    /\ UNCHANGED <<match, conv, graceOver, retained, log, closer, read, handler, late, noticeVars, waiting, typed, view>>

\* markRead covers everything the peer wrote so far, shown or not.
MarkRead(u) ==
    /\ \E m \in shown[u] : From(m) # u /\ m \notin read
    /\ read' = read \cup {m \in Stored : From(m) # u}
    /\ delivered' = delivered \cup {m \in Stored : From(m) # u}
    /\ Publish(Other(u), "conversation")
    /\ UNCHANGED <<match, conv, graceOver, retained, log, closer, handler, late, noticeVars,
                   bubble, waiting, typed, shown, view>>

\* The match is polled; the conversation is fetched again only on a frame.
RefetchMatch(u) ==
    /\ view' = [view EXCEPT ![u].match = match]
    /\ UNCHANGED <<serverVars, noticeVars, bubble, waiting, typed, shown, wire>>
RefetchConversation(u) ==
    /\ wire[u] # {}
    /\ view' = [view EXCEPT ![u].conv = EffectiveStatus]
    /\ wire' = [wire EXCEPT ![u] = {}]
    /\ UNCHANGED <<serverVars, noticeVars, bubble, waiting, typed, shown>>
LoseFrames(u) ==
    /\ wire[u] # {}
    /\ wire' = [wire EXCEPT ![u] = {}]
    /\ UNCHANGED <<serverVars, noticeVars, bubble, waiting, typed, shown, view>>

-----------------------------------------------------------------------------
\* The end of a conversation

\* Settling or cancelling starts the grace window and writes a message, into a purged
\* conversation too; an unsafe cancel closes at once.
CloseMatch(by, unsafe) ==
    /\ match
    /\ match' = FALSE
    /\ closer' = by
    /\ log' = Append(log, "closed")
    /\ conv' = IF unsafe THEN "readonly" ELSE conv
    /\ wire' = IF unsafe THEN [u \in People |-> wire[u] \cup {"conversation"}] ELSE wire
    /\ UNCHANGED <<graceOver, retained, delivered, read, handler, late, noticeVars,
                   bubble, waiting, typed, shown, view>>
GraceEnds ==
    /\ ~match /\ ~graceOver /\ graceOver' = TRUE
    /\ UNCHANGED <<match, conv, retained, log, closer, delivered, read, handler, late, noticeVars, phoneVars>>
ExpireConversation ==
    /\ conv = "open" /\ graceOver
    /\ conv' = "readonly"
    /\ wire' = [u \in People |-> wire[u] \cup {"conversation"}]
    /\ UNCHANGED <<match, graceOver, retained, log, closer, delivered, read, handler, late, noticeVars,
                   bubble, waiting, typed, shown, view>>

RetentionEnds ==
    /\ retained /\ retained' = FALSE
    /\ UNCHANGED <<match, conv, graceOver, log, closer, delivered, read, handler, late, noticeVars, phoneVars>>
\* purgeMessages deletes the transcript of every conversation not purged before, whatever
\* its status; the shell stays as "expired".
PurgeTarget == ~retained /\ conv # "expired"
PurgeMessages ==
    /\ PurgeTarget
    /\ conv' = "expired" /\ log' = <<>>
    /\ late' = late \cup {t \in Texts : \E k \in Tries : handler[<<t, k>>] \in {"open", "checked"}}
                    \cup (IF match THEN {"closed"} ELSE {})
    /\ UNCHANGED <<match, graceOver, retained, closer, delivered, read, handler, noticeVars, phoneVars>>

-----------------------------------------------------------------------------
\* The notify queue: one push per person, conversation and minute.

DedupeAllows(n) == pushed[n] = 0
Deliver(n) ==
    /\ n \in notices
    /\ notices' = notices \ {n}
    /\ pushed' = IF DedupeAllows(n) THEN [pushed EXCEPT ![n] = @ + 1] ELSE pushed
    /\ UNCHANGED <<serverVars, minute, phoneVars>>
MinutePasses ==
    /\ minute < MaxMinute /\ minute' = minute + 1
    /\ UNCHANGED <<serverVars, notices, pushed, phoneVars>>

-----------------------------------------------------------------------------

Init ==
    /\ match = TRUE /\ conv = "open" /\ graceOver = FALSE /\ retained = TRUE
    /\ log = <<"matched">> /\ closer = Helper /\ delivered = {} /\ read = {}
    /\ handler = [h \in Texts \X Tries |-> "none"] /\ late = {}
    /\ notices = {} /\ pushed = [n \in People \X (0 .. MaxMinute) |-> 0] /\ minute = 0
    /\ waiting = {} /\ bubble = [t \in Texts |-> "none"] /\ typed = [t \in Texts |-> 0]
    /\ shown = [u \in People |-> {}]
    /\ view = [u \in People |-> [match |-> TRUE, conv |-> "open"]]
    /\ wire = [u \in People |-> {}]

Handle(t, k) == ReadContext(t, k) \/ Check(t, k) \/ Insert(t, k) \/ Announce(t, k)
Next ==
    \/ \E t \in Texts : Send(t) \/ GivesUp(t)
    \/ \E t \in Texts, k \in Tries : Handle(t, k) \/ Crash(t, k)
    \/ \E u \in People : RefetchMessages(u) \/ MarkRead(u) \/ RefetchMatch(u)
                         \/ RefetchConversation(u) \/ LoseFrames(u)
    \/ \E by \in People, unsafe \in BOOLEAN : CloseMatch(by, unsafe)
    \/ GraceEnds \/ ExpireConversation \/ RetentionEnds \/ PurgeMessages
    \/ \E n \in notices : Deliver(n)
    \/ MinutePasses
Spec == Init /\ [][Next]_vars

\* The server answers, the screen is left open and polls, the sweep runs.
Fairness == /\ \A t \in Texts, k \in Tries : WF_vars(Handle(t, k))
            /\ \A u \in People : WF_vars(RefetchMessages(u))
            /\ WF_vars(PurgeMessages)
FairSpec == Spec /\ Fairness

-----------------------------------------------------------------------------
\* Properties

\* Every variable stays in its type.
ChatTypeOK ==
    /\ match \in BOOLEAN /\ conv \in {"open", "readonly", "expired"}
    /\ log \in Seq(Messages) /\ read \subseteq delivered /\ delivered \subseteq Messages
    /\ closer \in People
    /\ waiting \subseteq Texts
    /\ handler \in [Texts \X Tries -> {"none", "asked", "open", "closed", "checked", "inserted"}]
    /\ bubble \in [Texts -> {"none", "sending", "failed"}]
    /\ shown \in [People -> SUBSET Messages]
    /\ \A u \in People : wire[u] \subseteq {"message", "conversation"}

\* However often a text is sent again, after a timeout, a crash or a lost answer, and
\* although two handlers of it may overlap, it is stored once (the unique index on sender
\* and client message id in sendMessage).
StoredOnce == \A t \in Texts : Rows(t) <= 1

\* At most one push per person and minute comes out of a conversation (dedupeKey), with
\* jobs of one minute delivered late and in any order.
OnePushPerMinute == \A n \in DOMAIN pushed : pushed[n] <= 1

\* What is left in a purged conversation came after the purge: a text whose handler had
\* found it open before, or the closing message of a match that was still active
\* (purgeMessages against sendMessage, settleLocked and cancelMatchLocked).
OnlyLateMessagesRemain == conv = "expired" => Stored \subseteq late

\* When the event's retention window closes the transcript goes, also of a match nobody
\* ever closed (purgeMessages).
TranscriptGoes == ~retained ~> Stored \subseteq late

\* A message on the first page reaches the peer's screen although any frame may be lost,
\* unless the transcript is purged first.  The phone asks for one page and never for the
\* next, so what is written behind it is not shown (useMessages polls).
MessagesArrive ==
    \A t \in Texts : (t \in FirstPage) ~> (t \in shown[Other(Author[t])] \/ ~retained)

\* A conversation keeps each text once and announces it once a minute, and forgets it when
\* it is purged, whichever retries and late handlers there are (sendMessage, purgeMessages).
TranscriptHolds == StoredOnce /\ OnePushPerMinute /\ OnlyLateMessagesRemain
=============================================================================
