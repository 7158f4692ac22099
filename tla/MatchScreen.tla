---------------------------- MODULE MatchScreen -----------------------------
(***************************************************************************)
(* The two people of one match on their screens: the dialogs that confirm   *)
(* the exchange, the one that asks because the other side confirmed first,  *)
(* and the safety sheet (unsafe, end, block, report).  A dialog stays open  *)
(* while the match moves on; its answer is sent from what it then shows.    *)
(***************************************************************************)
EXTENDS Naturals, FiniteSets

CONSTANTS Pair,             \* the two people
          MaxUnheard,       \* bound: calls whose answer is lost, the server's crashes included
          MaxVisits         \* bound: visits of the screen per person

ASSUME MatchScreenAssumption ==
    IsFiniteSet(Pair) /\ Cardinality(Pair) = 2 /\ {MaxUnheard, MaxVisits} \subseteq Nat

VARIABLES
    mStatus, confirmed,     \* server: active / completed / cancelled; who confirmed
    finalizeDue,            \* server: the job of the first confirmation waits
    blocks, reports,        \* server: who blocked, who reported the other
    view,                   \* per person: the match as last fetched
    askedOf,                \* per person: the ref that keeps the dialog from opening again
    alerts,                 \* per person: dialogs open
    mcalls,                 \* calls under way: by whom, what, from which dialog, where it is
    toldOf,                 \* per person: what the last alert told - an error, by kind of call, or the block
    asks, visits,           \* history: peer dialogs in this visit; visits
    finalized, unheard

screenState == <<view, askedOf, alerts, asks, visits>>
serverState == <<mStatus, confirmed, finalizeDue, blocks, reports, finalized>>
matchVars == <<serverState, screenState, mcalls, toldOf, unheard>>

Peer(u) == CHOOSE w \in Pair : w # u
ViewOf(u) == [status |-> mStatus, mine |-> u \in confirmed, peer |-> Peer(u) \in confirmed]
Confirming(u) == \E c \in mcalls : c.by = u /\ c.kind = "confirm" /\ c.heard

-----------------------------------------------------------------------------
\* The screen

NotAskedYet(u) == ~askedOf[u]
\* A poll, or a refresh after a call: the effect opens the dialog once.
FetchMatch(u) ==
    /\ view' = [view EXCEPT ![u] = ViewOf(u)]
    /\ IF mStatus = "active" /\ Peer(u) \in confirmed /\ u \notin confirmed /\ NotAskedYet(u)
         THEN /\ askedOf' = [askedOf EXCEPT ![u] = TRUE] /\ asks' = [asks EXCEPT ![u] = @ + 1]
              /\ alerts' = [alerts EXCEPT ![u] = @ \cup {"peer"}]
              /\ asks[u] < 2                    \* bound
         ELSE UNCHANGED <<askedOf, asks, alerts>>
    /\ UNCHANGED <<serverState, visits, mcalls, toldOf, unheard>>
\* The pill and the sheet.
Opens(u, a) ==
    /\ CASE a = "confirm" -> view[u].status = "active" /\ ~view[u].mine /\ ~Confirming(u)
         [] a = "end" -> view[u].status = "active"
         [] OTHER -> TRUE
OpenAlert(u, a) ==
    /\ alerts[u] = {} /\ Opens(u, a) /\ alerts' = [alerts EXCEPT ![u] = {a}]
    /\ UNCHANGED <<serverState, view, askedOf, asks, visits, mcalls, toldOf, unheard>>
Dismiss(u, a) ==
    /\ a \in alerts[u] /\ alerts' = [alerts EXCEPT ![u] = @ \ {a}]
    /\ UNCHANGED <<serverState, view, askedOf, asks, visits, mcalls, toldOf, unheard>>
KindOf(a) == IF a \in {"confirm", "peer"} THEN "confirm" ELSE a
\* A dialog's button; "after", the dialog that follows an unsafe cancel, has two.
Press(u, a, kind) ==
    /\ a \in alerts[u] /\ alerts' = [alerts EXCEPT ![u] = @ \ {a}]
    /\ IF a = "after" THEN kind \in {"block", "report"} ELSE kind = KindOf(a)
    /\ ~\E c \in mcalls : c.by = u /\ c.from = a         \* bound
    /\ mcalls' = mcalls \cup {[by |-> u, kind |-> kind, from |-> a, pc |-> "sent", heard |-> TRUE]}
    /\ UNCHANGED <<serverState, view, askedOf, asks, visits, toldOf, unheard>>
\* The screen is closed and opened again: the ref is new, calls go on unheard.
Revisit(u) ==
    /\ visits[u] < MaxVisits /\ visits' = [visits EXCEPT ![u] = @ + 1]
    /\ askedOf' = [askedOf EXCEPT ![u] = FALSE] /\ alerts' = [alerts EXCEPT ![u] = {}] /\ asks' = [asks EXCEPT ![u] = 0]
    /\ mcalls' = {IF c.by = u THEN [c EXCEPT !.heard = FALSE] ELSE c : c \in mcalls}
    /\ UNCHANGED <<serverState, view, toldOf, unheard>>

-----------------------------------------------------------------------------
\* The server

CallMoves(c, pc) == mcalls' = (mcalls \ {c}) \cup {[c EXCEPT !.pc = pc]}
NoReplay(u) == FALSE
\* The same quantity again: the first confirmation's answer is given once more.
Replays(u) == u \in confirmed
StatusAfterConfirm == IF confirmed = {} THEN "active" ELSE "completed"
ServeConfirm(c) ==
    /\ c.kind = "confirm" /\ c.pc = "sent"
    /\ CASE Replays(c.by) -> CallMoves(c, "ok") /\ UNCHANGED <<mStatus, confirmed, finalizeDue>>
         [] ~Replays(c.by) /\ (mStatus # "active" \/ c.by \in confirmed) ->
              CallMoves(c, "error") /\ UNCHANGED <<mStatus, confirmed, finalizeDue>>
         [] OTHER ->
              /\ CallMoves(c, "ok") /\ confirmed' = confirmed \cup {c.by}
              /\ mStatus' = StatusAfterConfirm
              /\ finalizeDue' = (finalizeDue \/ confirmed = {})
    /\ UNCHANGED <<blocks, reports, finalized, screenState, toldOf, unheard>>
ServeCancel(c) ==
    /\ c.kind \in {"unsafe", "end"} /\ c.pc = "sent"
    /\ IF mStatus = "active" THEN mStatus' = "cancelled" /\ CallMoves(c, "ok")
         ELSE UNCHANGED mStatus /\ CallMoves(c, "error")
    /\ UNCHANGED <<confirmed, finalizeDue, blocks, reports, finalized, screenState, toldOf, unheard>>
SkipsCancel == "ok"
\* blockViaMatch reads the match, stores the block, and cancels the match it read as active.
AfterBlock == IF mStatus = "active" THEN "cancel" ELSE "ok"
BlocksAfter(c) == blocks \cup {c.by}
ServeBlock(c) ==
    /\ c.kind = "block" /\ c.pc = "sent"
    /\ blocks' = BlocksAfter(c) /\ CallMoves(c, AfterBlock)
    /\ UNCHANGED <<mStatus, confirmed, finalizeDue, reports, finalized, screenState, toldOf, unheard>>
CancelBlocked(c) ==
    /\ c.pc = "cancel"
    /\ IF mStatus = "active" THEN mStatus' = "cancelled" /\ CallMoves(c, "ok")
         ELSE UNCHANGED mStatus /\ CallMoves(c, "error")
    /\ UNCHANGED <<confirmed, finalizeDue, blocks, reports, finalized, screenState, toldOf, unheard>>
ServeReport(c) ==
    /\ c.kind = "report" /\ c.pc = "sent" /\ reports' = reports \cup {c.by} /\ CallMoves(c, "ok")
    /\ UNCHANGED <<mStatus, confirmed, finalizeDue, blocks, finalized, screenState, toldOf, unheard>>
\* autoFinalizeMatch, an hour after the first confirmation.
AutoFinalize ==
    /\ finalizeDue /\ finalizeDue' = FALSE
    /\ IF mStatus = "active" /\ Cardinality(confirmed) = 1
         THEN mStatus' = "completed" /\ finalized' = TRUE ELSE UNCHANGED <<mStatus, finalized>>
    /\ UNCHANGED <<confirmed, blocks, reports, screenState, mcalls, toldOf, unheard>>

\* The answer: an error is told; an unsafe cancel is followed by a dialog.
CallEnds(c) ==
    /\ c.pc \in {"ok", "error"} /\ mcalls' = mcalls \ {c}
    /\ toldOf' = IF c.heard /\ (c.pc = "error" \/ c.kind = "block")
                 THEN [toldOf EXCEPT ![c.by] = IF c.pc = "ok" THEN "blocked" ELSE c.kind] ELSE toldOf
    /\ alerts' = IF c.heard /\ c.pc = "ok" /\ c.kind = "unsafe" THEN [alerts EXCEPT ![c.by] = @ \cup {"after"}] ELSE alerts
    /\ UNCHANGED <<serverState, view, askedOf, asks, visits, unheard>>
\* The phone gives up: "offline" is told, and the server goes on or never got it.
GiveUp(c) ==
    /\ c.heard /\ unheard < MaxUnheard /\ unheard' = unheard + 1
    /\ toldOf' = [toldOf EXCEPT ![c.by] = "offline"]
    /\ mcalls' = (mcalls \ {c}) \cup (IF c.pc = "sent" THEN {} ELSE {[c EXCEPT !.heard = FALSE]})
    /\ UNCHANGED <<serverState, screenState>>
\* The server stops between the block and the cancel.
ServerStops(c) ==
    /\ c.pc = "cancel" /\ unheard < MaxUnheard /\ unheard' = unheard + 1
    /\ CallMoves(c, "error")
    /\ UNCHANGED <<serverState, screenState, toldOf>>

-----------------------------------------------------------------------------

Alerts == {"confirm", "unsafe", "end", "block", "report"}
MatchInit ==
    /\ mStatus = "active" /\ confirmed = {} /\ finalizeDue = FALSE /\ blocks = {} /\ reports = {} /\ finalized = FALSE
    /\ view = [u \in Pair |-> [status |-> "active", mine |-> FALSE, peer |-> FALSE]]
    /\ askedOf = [u \in Pair |-> FALSE] /\ alerts = [u \in Pair |-> {}] /\ asks = [u \in Pair |-> 0]
    /\ visits = [u \in Pair |-> 1] /\ mcalls = {} /\ toldOf = [u \in Pair |-> "none"] /\ unheard = 0
ServeStep(c) == ServeConfirm(c) \/ ServeCancel(c) \/ ServeBlock(c) \/ CancelBlocked(c) \/ ServeReport(c)
MatchNext ==
    \/ \E u \in Pair :
          \/ FetchMatch(u) \/ Revisit(u)
          \/ \E a \in Alerts : OpenAlert(u, a)
          \/ \E a \in Alerts \cup {"peer", "after"} :
                Dismiss(u, a) \/ \E kind \in {"confirm", "unsafe", "end", "block", "report"} : Press(u, a, kind)
    \/ \E c \in mcalls : ServeStep(c) \/ CallEnds(c) \/ GiveUp(c) \/ ServerStops(c)
    \/ AutoFinalize
MatchSpec == MatchInit /\ [][MatchNext]_matchVars

\* The screen polls, and the server works on what reached it.
MatchFairness ==
    /\ \A u \in Pair : WF_matchVars(FetchMatch(u))
    /\ WF_matchVars(\E c \in mcalls : CancelBlocked(c))

-----------------------------------------------------------------------------
\* Properties

\* Every variable stays in its type; a match completes with both confirmations or by the
\* job of the first.
MatchScreenTypeOK ==
    /\ mStatus \in {"active", "completed", "cancelled"} /\ confirmed \subseteq Pair
    /\ alerts \in [Pair -> SUBSET (Alerts \cup {"peer", "after"})]
    /\ mStatus = "completed" => (confirmed = Pair \/ (finalized /\ confirmed # {}))
    /\ finalizeDue => confirmed # {}

\* Polls and refreshes do not open the dialog again while the person is reading it, nor
\* after "Not yet" (asked).
AskedOncePerVisit == \A u \in Pair : asks[u] <= 1

\* Whoever looks at the screen after the other side confirmed is asked, unless the match
\* moves on first: again and again nobody is left unasked.
Unasked(u) == mStatus = "active" /\ Peer(u) \in confirmed /\ u \notin confirmed /\ asks[u] = 0
PeerIsAsked == []<>(\A u \in Pair : ~Unasked(u))

\* A refusal of "Confirm" is told only to somebody whose confirmation did not count, though
\* two dialogs may send it twice and a lost answer makes people press again.
ConfirmRefusedMeansUncounted == \A u \in Pair : toldOf[u] = "confirm" => u \notin confirmed

\* Whoever is told that the block was made, or that it failed, has blocked the other: the
\* error is that of the cancel, and a match that ended meanwhile does not undo the block.
BlockHolds == \A u \in Pair : toldOf[u] \in {"block", "blocked"} => u \in blocks

\* Blocking somebody ends the match with them, unless the server stopped in between.
BlockEndsMatch == []<>(blocks = {} \/ mStatus # "active" \/ unheard > 0)

\* What the match screen asks and tells is true: one question a visit, an error only of what
\* did not count, and a block that holds (app/match/[id].tsx).
MatchScreenHolds == AskedOncePerVisit /\ ConfirmRefusedMeansUncounted /\ BlockHolds
=============================================================================
