------------------------------ MODULE Screens -------------------------------
(***************************************************************************)
(* The mobile app's screens.  The live layer pushes an offer over whatever   *)
(* is on top, the request screen sends its owner to the match-found moment,  *)
(* and that moment moves on by itself to the conversation.  Timers and       *)
(* answers of a screen that others cover still navigate, and what they       *)
(* replace or close is the screen on top.                                    *)
(***************************************************************************)
EXTENDS Naturals, Sequences, SequencesExt, FiniteSets

CONSTANTS Offers,       \* offers made to this person; each also names the match it may become
          Mine,         \* the match of this person's own request
          MaxScreens,   \* bound: screens on the stack
          MaxChecks,    \* bound: reads of matchFoundSeen under way at once
          MaxRestarts   \* bound: restarts of the app

ASSUME ScreensAssumption == Mine \notin Offers /\ {MaxScreens, MaxChecks, MaxRestarts} \subseteq Nat

VARIABLES
    offer,          \* server: none / offered / accepted / declined / expired
    request,        \* server: searching / matched / closed
    stack,          \* the screens, top last: kind, what it is about, done (it has navigated away)
    shownOffers,    \* the offers query's data
    seenOffers,     \* the live layer's ref
    answers,        \* answers of the server on their way to an offer screen
    checks,         \* reads of matchFoundSeen under way that found nothing
    recorded,       \* storage: matches whose moment is recorded
    pushes,         \* history: how often the live layer pushed each offer since the start
    covered,        \* history: moments that moved on while another screen covered them
    overlap, again, \* history: two checks ran at once; a moment was repeated after its chat
    opened,         \* history: matches whose conversation was opened
    restarts

screens == <<stack, answers, checks>>
screenVars == <<offer, request, screens, shownOffers, seenOffers, recorded, pushes, covered, overlap, again,
                opened, restarts>>

Screen(kind, id) == [kind |-> kind, id |-> id, done |-> FALSE]
Home == Screen("home", Mine)
Top == stack[Len(stack)]
Room == Len(stack) < MaxScreens
PushScreen(s) == stack' = Append(stack, s)
\* router.replace and router.back act on the top of the stack.
Replaced(st, s) == [st EXCEPT ![Len(st)] = s]
Popped(st) == IF Len(st) > 1 THEN Front(st) ELSE st
On(kind, id) == \E i \in 1..Len(stack) : stack[i].kind = kind /\ stack[i].id = id

-----------------------------------------------------------------------------
\* The server

MakeOffer(o) ==
    /\ offer[o] = "none" /\ offer' = [offer EXCEPT ![o] = "offered"]
    /\ UNCHANGED <<request, screens, shownOffers, seenOffers, recorded, pushes, covered, overlap, again, opened, restarts>>
ExpireOffer(o) ==
    /\ offer[o] = "offered" /\ offer' = [offer EXCEPT ![o] = "expired"]
    /\ UNCHANGED <<request, screens, shownOffers, seenOffers, recorded, pushes, covered, overlap, again, opened, restarts>>
MatchMine ==
    /\ request = "searching" /\ request' = "matched"
    /\ UNCHANGED <<offer, screens, shownOffers, seenOffers, recorded, pushes, covered, overlap, again, opened, restarts>>
CloseMine ==
    /\ request = "matched" /\ request' = "closed"
    /\ UNCHANGED <<offer, screens, shownOffers, seenOffers, recorded, pushes, covered, overlap, again, opened, restarts>>

-----------------------------------------------------------------------------
\* Offers

Unseen(o) == o \notin seenOffers
\* The query fetches again; only when its data changed does the effect run, and it pushes
\* one offer that is open and new to it.
FetchOffers ==
    LET data == {o \in Offers : offer[o] = "offered"}
        fresh == {o \in data : Unseen(o)}
    IN
    /\ data # shownOffers /\ shownOffers' = data
    /\ IF fresh = {} THEN UNCHANGED <<seenOffers, stack, pushes>>
         ELSE Room /\ \E o \in fresh :
                /\ seenOffers' = seenOffers \cup {o}
                /\ pushes' = [pushes EXCEPT ![o] = @ + 1]
                /\ PushScreen(Screen("offer", o))
    /\ UNCHANGED <<offer, request, answers, checks, recorded, covered, overlap, again, opened, restarts>>

\* Accept, decline, decline and stop: the server decides at once, the screen hears later.
Respond(accept) ==
    LET o == Top.id IN
    /\ Top.kind = "offer" /\ ~\E a \in answers : a.id = o
    /\ IF offer[o] = "offered"
         THEN LET end == IF accept THEN "accepted" ELSE "declined" IN
              /\ offer' = [offer EXCEPT ![o] = end]
              /\ answers' = answers \cup {[id |-> o, end |-> end]}
         ELSE UNCHANGED <<offer, answers>>
    /\ UNCHANGED <<request, stack, checks, shownOffers, seenOffers, recorded, pushes, covered, overlap, again, opened, restarts>>
\* An accepted offer leads to the match-found moment, a declined one closes the screen -
\* whichever screen is on top by then.
AnswerArrives(a) ==
    /\ a \in answers /\ answers' = answers \ {a}
    /\ stack' = IF a.end = "accepted" THEN Replaced(stack, Screen("found", a.id)) ELSE Popped(stack)
    /\ UNCHANGED <<offer, request, checks, shownOffers, seenOffers, recorded, pushes, covered, overlap, again, opened, restarts>>

-----------------------------------------------------------------------------
\* The request screen and the match-found moment

OpenRequest ==
    /\ Top.kind = "home" /\ Room /\ PushScreen(Screen("request", Mine))
    /\ UNCHANGED <<offer, request, answers, checks, shownOffers, seenOffers, recorded, pushes, covered, overlap, again, opened, restarts>>

NeverSeen(m) == FALSE
HasSeenMatchFound(m) == m \in recorded
\* The polled request is matched: once per visit of the screen, storage is asked.
FetchRequest ==
    /\ request = "matched" /\ checks < MaxChecks
    /\ \E i \in 1..Len(stack) :
          /\ stack[i].kind = "request" /\ ~stack[i].done
          /\ stack' = [stack EXCEPT ![i].done = TRUE]
    /\ checks' = IF HasSeenMatchFound(Mine) THEN checks ELSE checks + 1
    /\ overlap' = (overlap \/ checks > 0 \/ On("found", Mine))
    /\ UNCHANGED <<offer, request, answers, shownOffers, seenOffers, recorded, pushes, covered, again, opened, restarts>>
Celebrate ==
    /\ checks > 0 /\ checks' = checks - 1
    /\ PushScreen(Screen("found", Mine))
    /\ again' = (again \/ Mine \in opened)
    /\ UNCHANGED <<offer, request, answers, shownOffers, seenOffers, recorded, pushes, covered, overlap, opened, restarts>>

\* openChat, by its timer or by a tap; `left' lets it happen once.
ChatInstead(st, i) == Replaced([st EXCEPT ![i].done = TRUE], Screen("chat", st[i].id))
OpenChat(i) ==
    LET m == stack[i].id IN
    /\ stack[i].kind = "found" /\ ~stack[i].done
    /\ recorded' = recorded \cup {m} /\ opened' = opened \cup {m}
    /\ stack' = ChatInstead(stack, i)
    /\ covered' = IF i = Len(stack) THEN covered ELSE covered \cup {m}
    /\ UNCHANGED <<offer, request, answers, checks, shownOffers, seenOffers, pushes, overlap, again, restarts>>

-----------------------------------------------------------------------------
\* Everywhere

Back ==
    /\ Len(stack) > 1 /\ stack' = Front(stack)
    /\ UNCHANGED <<offer, request, answers, checks, shownOffers, seenOffers, recorded, pushes, covered, overlap, again, opened, restarts>>
\* A tap on a push notification, wherever the person is.
FollowLink(s) ==
    /\ Room /\ PushScreen(s)
    /\ s.kind = "offer" => offer[s.id] # "none"
    /\ s.kind = "chat" => request # "searching"
    /\ UNCHANGED <<offer, request, answers, checks, shownOffers, seenOffers, recorded, pushes, covered, overlap, again, opened, restarts>>
Restart ==
    /\ restarts < MaxRestarts /\ restarts' = restarts + 1
    /\ stack' = <<Home>> /\ answers' = {} /\ checks' = 0
    /\ shownOffers' = {} /\ seenOffers' = {} /\ pushes' = [o \in Offers |-> 0]
    /\ UNCHANGED <<offer, request, recorded, covered, overlap, again, opened>>

Links == {Screen("offer", o) : o \in Offers} \cup {Screen("chat", Mine)}
ScreensInit ==
    /\ offer = [o \in Offers |-> "none"] /\ request \in {"searching", "closed"}
    /\ stack = <<Home>> /\ answers = {} /\ checks = 0
    /\ shownOffers = {} /\ seenOffers = {} /\ recorded = {} /\ pushes = [o \in Offers |-> 0]
    /\ covered = {} /\ overlap = FALSE /\ again = FALSE /\ opened = {} /\ restarts = 0
ScreensNext ==
    \/ \E o \in Offers : MakeOffer(o) \/ ExpireOffer(o)
    \/ MatchMine \/ CloseMine
    \/ FetchOffers \/ (\E accept \in BOOLEAN : Respond(accept)) \/ \E a \in answers : AnswerArrives(a)
    \/ OpenRequest \/ FetchRequest \/ Celebrate \/ \E i \in 1..Len(stack) : OpenChat(i)
    \/ Back \/ (\E s \in Links : FollowLink(s)) \/ Restart
ScreensSpec == ScreensInit /\ [][ScreensNext]_screenVars

\* Polls come round, storage answers, and the moment's timer runs down.
ScreensFairness ==
    /\ WF_screenVars(FetchRequest) /\ WF_screenVars(Celebrate)
    /\ WF_screenVars(\E i \in 1..Len(stack) : OpenChat(i))

-----------------------------------------------------------------------------
\* Properties

Kinds == {"home", "offer", "request", "found", "chat"}
\* Every variable stays in its type, and the stack stands on the home screen.
ScreensTypeOK ==
    /\ offer \in [Offers -> {"none", "offered", "accepted", "declined", "expired"}]
    /\ request \in {"searching", "matched", "closed"}
    /\ Len(stack) \in 1..MaxScreens + MaxChecks + 1 /\ checks \in 0..MaxChecks
    /\ \A i \in 1..Len(stack) : stack[i].kind \in Kinds /\ stack[i].done \in BOOLEAN
    /\ shownOffers \subseteq Offers /\ seenOffers \subseteq Offers /\ answers \subseteq [id : Offers, end : {"accepted", "declined"}]
    /\ recorded = opened

\* In one run of the app an offer is pushed by the live layer at most once, although its
\* data comes and goes with every fetch (live.tsx, "exactly-once").
OfferPushedOnce == \A o \in Offers : pushes[o] <= 1

\* Once its conversation was opened the match-found moment is not shown again, however the
\* person leaves the conversation and comes back to the request - unless two visits of the
\* request screen asked storage at the same time (request/[id].tsx).
NotCelebratedAgain == again => overlap

\* A moment that has moved on is not left behind: nobody goes back to one whose button and
\* timer do nothing any more - unless another screen covered it when it moved on.
NoDeadScreens ==
    \A i \in 1..Len(stack) : (stack[i].kind = "found" /\ stack[i].done) => stack[i].id \in covered

\* A visit of the request screen that finds the request matched leads to the match-found
\* moment, unless its conversation was opened before or the person leaves.
NewVisit == \E i \in 1..Len(stack) : stack[i].kind = "request" /\ ~stack[i].done
MatchedIsCelebrated ==
    (request = "matched" /\ NewVisit)
      ~> (On("found", Mine) \/ Mine \in opened \/ request # "matched" \/ ~On("request", Mine))

\* Offers and celebrations are shown once, and none that is over is left on the stack
\* (live.tsx, request/[id].tsx, match-found/[id].tsx).
ShownOnce == OfferPushedOnce /\ NotCelebratedAgain /\ NoDeadScreens
=============================================================================
