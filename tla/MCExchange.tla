----------------------------- MODULE MCExchange -----------------------------
(***************************************************************************)
(* Instances of Exchange for TLC.  Each run takes the steps of one part of  *)
(* the system's surroundings (a slice of Next), so that all of them can be  *)
(* explored exhaustively on instances where the interesting cases happen.   *)
(***************************************************************************)
EXTENDS Exchange

CONSTANTS asker, helper, helper2, r1, r2, bread, water

CONSTANTS t1, t2        \* the connections of the locks' slice

VARIABLES slice,
          todo, held, effects, open     \* see LockOrder
lockVars == <<todo, held, effects, open>>

MCRequester == [r \in Requests |-> asker]
MCOwner == [i \in Items |-> IF i = bread THEN helper ELSE helper2]
TwoThenOne == [r \in Requests |-> IF r = r1 THEN 2 ELSE 1]
SecondFarther == [u \in Users |-> IF u = helper2 THEN 2 ELSE 1]

Helpers == {helper, helper2}

\* The rows a slice works with: a request that is absent stays absent, the second
\* helper takes no part without stock.
RequestsOf == [stock |-> {r1, r2}, sequence |-> {r1}, event |-> {r2}, safety |-> {r1, r2}]
ItemsOf == [stock |-> {bread}, sequence |-> {bread, water}, event |-> {bread}, safety |-> {bread}]
HelpersOf == [stock |-> {helper}, sequence |-> Helpers, event |-> {helper}, safety |-> {helper}]
Takes(name) == slice = name /\ UNCHANGED slice
Within(name) ==
    /\ \A r \in Requests \ RequestsOf[name] : request'[r].status = "none"
    /\ \A i \in Items \ ItemsOf[name] : ~item'[i].exists
    /\ \A u \in Helpers \ HelpersOf[name] : ~available'[u]
\* The only helper is within the first radius: no pass needs to widen it.
Near == \A r \in Requests : request'[r].radius = InitialRadius

\* What every slice has: asking, offering, answering, settling, cancelling.
Trading ==
    \/ RequesterStep
    \/ \E r \in Requests : Pass(r) \/ RequestDeadline(r)
    \/ \E p \in Pairs : \/ AcceptOffer(p) \/ AcceptFindsNothing(p) \/ DeclineOffer(p, FALSE)
                        \/ ExpireOffer(p) \/ OfferDeadline(p)
    \/ \E p \in Pairs, side \in Sides :
          \/ AutoFinalize(p, side)
          \/ CancelMatch(p, side, FALSE)
          \/ \E q \in Quantity : ConfirmFirst(p, side, q) \/ ConfirmSecond(p, side, q)
    \/ \E i \in Items, q \in Quantity : AddInventory(i, q)
    \/ \E u \in Helpers : SetAvailability(u, TRUE)

\* Helpers edit and delete their stock, leave and come back while two requests, neither
\* of them due, wait for it.
StockSlice ==
    /\ Takes("stock")
    /\ \/ Trading
       \/ \E i \in Items, q \in Quantity, a \in BOOLEAN : UpdateInventory(i, q, a)
       \/ \E i \in Items : DeleteInventory(i)
       \/ \E p \in Pairs : DeclineOffer(p, TRUE)
       \/ \E u \in Helpers : DeletionCollapsesStock(u) \/ SetAvailability(u, FALSE)
    /\ Within("stock") /\ Near
    /\ \A r \in Requests : ~request'[r].due

\* Two helpers are asked in turn as the radius widens.
SequenceSlice == Takes("sequence") /\ Trading /\ Within("sequence")

\* Moderation, blocks, meetings and unsafe cancels.  Stock is one unit, one arrival decides
\* what a cancel counts, and no request is due.
SafetySlice ==
    /\ Takes("safety")
    /\ \/ Trading
       \/ \E p \in Pairs, side \in Sides : CancelMatch(p, side, TRUE)
       \/ \E p \in Pairs, there \in BOOLEAN : SetMeetingState(p, "helper", there)
       \/ \E p \in Pairs : ModerationCancel(p) \/ Block(p)
       \/ DeletionCancelsRequests(asker)
    /\ Within("safety") /\ Near
    /\ item'[bread].onHand <= 1
    /\ \A r \in Requests : ~request'[r].due

\* The event is paused, disabled, over, past its retention window, and moved in time, so that
\* a helper whose offer was deleted may be asked again: MaxOffers times.  One unit is
\* asked for and in stock.
MaxOffers == 2
EventSlice ==
    /\ Takes("event")
    /\ \/ Trading
       \/ DisableEvent
       \/ \E row \in EventRow :
             (row.matchingPaused => row.status = "active") /\ PatchEvent(row, phase)
       \/ PatchEvent(event, "running")
       \/ \E i \in Items : ItemExpires(i)
       \/ EventClock \/ EventStarts \/ EventCompletes \/ EventArchived \/ PurgeMessages \/ AnonymizeClosed
       \/ \E p \in Pairs : ExpireConversation(p) \/ ModerationCancel(p)
    /\ Within("event") /\ Near
    /\ stats'[helper].received <= MaxOffers /\ item'[bread].onHand <= 1

\* The row locks of the transactions that the other slices take as atomic: two requests,
\* each asked by the other's helper, so that their transactions share reliability rows.
Locks == INSTANCE LockOrder WITH
            Processes <- {t1, t2}, OrderBreakers <- FALSE,
            RequesterOf <- [r \in Requests |-> IF r = r1 THEN asker ELSE helper],
            HelperOf <- [r \in Requests |-> IF r = r1 THEN helper ELSE asker],
            ItemOf <- [r \in Requests |-> IF r = r1 THEN bread ELSE water]
LocksSlice == Takes("locks") /\ Locks!Next /\ UNCHANGED vars

MCInit == Init /\ Locks!Init /\ slice \in {"stock", "sequence", "safety", "event", "locks"}
MCNext ==
    \/ (StockSlice \/ SequenceSlice \/ SafetySlice \/ EventSlice) /\ UNCHANGED lockVars
    \/ LocksSlice
MCSpec == MCInit /\ [][MCNext]_<<vars, lockVars, slice>>

-----------------------------------------------------------------------------

\* No set of transactions waits on itself (LockOrder), so a transaction that follows the
\* order is never the victim of a deadlock and may be taken as one step.
NoDeadlock == Locks!NoDeadlock

\* threat-model.md: "blocks exclude pairs from all future matching in both
\* directions".  The code refutes it: acceptOffer does not look at blocks, so an
\* offer made before the block can be accepted after it.
BlockedPairsNeverMatch ==
    [][\A p \in Pairs : match[p].status = "none" /\ match'[p].status = "active"
          => {p[2], Requester[p[1]]} \notin blocked]_vars
=============================================================================
