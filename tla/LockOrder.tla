------------------------------ MODULE LockOrder ------------------------------
(***************************************************************************)
(* The row locks of the exchange's transactions, which Exchange.tla takes   *)
(* as atomic.  A transaction is the sequence of rows it locks, in the order *)
(* of its statements; PostgreSQL keeps every lock until commit.  A row an   *)
(* uncommitted transaction has inserted is invisible to the others, so a    *)
(* SELECT ... FOR UPDATE that finds no open offer locks nothing.            *)
(***************************************************************************)
EXTENDS Naturals, Sequences, FiniteSets

CONSTANTS
    Requests,       \* requests, each with at most one open offer and one match
    Users,
    Items,
    RequesterOf, HelperOf, ItemOf,  \* of a request: who asks, who is offered it, whose stock
    Processes,      \* connections that run transactions
    OrderBreakers   \* whether the transactions that break the order run too

Offer(r) == <<"offer", r>>
Request(r) == <<"request", r>>
Item(i) == <<"item", i>>
Match(r) == <<"match", r>>
Stats(u) == <<"stats", u>>          \* reliability_stats, a row per user

Need(row) == [op |-> "need", row |-> row]       \* by id: throws if closed or missing
Lock(row) == [op |-> "lock", row |-> row]       \* by condition: may find no row
Insert(row) == [op |-> "insert", row |-> row]
Close(row) == [op |-> "close", row |-> row]     \* no longer open after commit

\* reliability.ts bump: the counters of one user, the last row a transaction takes.
Bump(u) == Need(Stats(u))

\* offers/service.ts acceptOffer (with stock to reserve, and without), declineOffer;
\* workers/matching.ts expireOffer.
AcceptOfferRequestFirst(r) ==                                           \* mutant
    <<Need(Request(r)), Need(Offer(r)), Need(Item(ItemOf[r])), Close(Offer(r)),
      Insert(Match(r)), Bump(HelperOf[r])>>
AcceptOffer(r) ==
    <<Need(Offer(r)), Need(Request(r)), Need(Item(ItemOf[r])), Close(Offer(r)),
      Insert(Match(r)), Bump(HelperOf[r])>>
AcceptFindsNothing(r) ==
    <<Need(Offer(r)), Need(Request(r)), Need(Item(ItemOf[r])), Close(Offer(r))>>
DeclineOffer(r) ==
    <<Need(Offer(r)), Need(Request(r)), Close(Offer(r)), Bump(HelperOf[r])>>
ExpireOffer(r) == <<Need(Offer(r)), Need(Request(r)), Close(Offer(r))>>

\* runMatchPass: open offers first, then the request; then it makes an offer,
\* or closes the offers that are open by now.
PassOffers(r) == <<Lock(Offer(r)), Need(Request(r)), Insert(Offer(r)), Bump(HelperOf[r])>>
PassExpires(r) == <<Lock(Offer(r)), Need(Request(r)), Close(Offer(r))>>

\* lockMatchRows, then: a cancel that counts against nobody; a settlement or a helper's
\* cancel, which count for the helper; a disputed settlement, which counts for both.
CloseMatch(r) == <<Need(Request(r)), Need(Item(ItemOf[r])), Need(Match(r)), Close(Match(r))>>
SettleMatch(r) == CloseMatch(r) \o <<Bump(HelperOf[r])>>
DisputeMatch(r) == SettleMatch(r) \o <<Bump(RequesterOf[r])>>
SetMeetingState(r) == <<Need(Match(r))>>
UpdateInventory(i) == <<Need(Item(i))>>

\* requests/service.ts cancelRequest, and the same order in event_disable and
\* in step 2 of an account deletion.
CancelRequest(r) == <<Need(Request(r)), Close(Offer(r))>>

\* The transactions that follow the order; those that do not.  Two update offers while they
\* hold the request: the owner's cancel, and the pass that finds its request expired.  The
\* disputed settlement takes two rows of the same table, the helper's before the
\* requester's whoever they are.
Ordered ==
    {UpdateInventory(i) : i \in Items}
    \cup UNION {{AcceptOffer(r), AcceptFindsNothing(r), DeclineOffer(r), ExpireOffer(r),
                 PassOffers(r), CloseMatch(r), SettleMatch(r), SetMeetingState(r)}
                : r \in Requests}
Breaking == UNION {{CancelRequest(r), PassExpires(r), DisputeMatch(r)} : r \in Requests}
Programs == IF OrderBreakers THEN Ordered \cup Breaking ELSE Ordered

-----------------------------------------------------------------------------

VARIABLES
    todo,       \* the statements each process has left in its transaction
    held,       \* the rows it has locked
    effects,    \* the inserts and closes that its commit publishes
    open        \* committed open offers and matches

vars == <<todo, held, effects, open>>

Idle == <<>>

Init ==
    /\ todo = [t \in Processes |-> Idle]
    /\ held = [t \in Processes |-> {}]
    /\ effects = [t \in Processes |-> {}]
    /\ open = {}

\* The rows that exist whatever happened.
Permanent == {Item(i) : i \in Items} \cup {Request(r) : r \in Requests}
                \cup {Stats(u) : u \in Users}

\* t's next statement finds its row: nothing to lock otherwise.
Finds(t) == Head(todo[t]).row \in Permanent \cup open \cup held[t]

HeldByOther(t) == \E s \in Processes \ {t} : Head(todo[t]).row \in held[s]

Begin(t) ==
    /\ todo[t] = Idle /\ held[t] = {}
    /\ \E p \in Programs : todo' = [todo EXCEPT ![t] = p]
    /\ UNCHANGED <<held, effects, open>>

\* One statement: it waits while another transaction holds the row it finds.
Execute(t) ==
    LET s == Head(todo[t])
    IN  /\ todo[t] # Idle
        /\ s.op = "insert" => s.row \notin open
        /\ s.op = "need" => Finds(t)
        /\ s.op # "insert" /\ Finds(t) => ~HeldByOther(t)
        /\ todo' = [todo EXCEPT ![t] = Tail(@)]
        /\ held' = [held EXCEPT ![t] = IF s.op = "insert" \/ Finds(t) THEN @ \cup {s.row} ELSE @]
        /\ effects' = [effects EXCEPT ![t] = IF s.op \in {"insert", "close"} THEN @ \cup {s} ELSE @]
        /\ UNCHANGED open

Commit(t) ==
    /\ todo[t] = Idle /\ held[t] # {}
    /\ open' = (open \cup {s.row : s \in {e \in effects[t] : e.op = "insert"}})
                  \ {s.row : s \in {e \in effects[t] : e.op = "close"}}
    /\ held' = [held EXCEPT ![t] = {}]
    /\ effects' = [effects EXCEPT ![t] = {}]
    /\ UNCHANGED todo

\* A row is missing, or a re-check under the locks fails: rolled back.  A
\* transaction that waits for a lock does not get to decide anything.
Rollback(t) ==
    /\ todo[t] # Idle
    /\ Finds(t) /\ Head(todo[t]).op # "insert" => ~HeldByOther(t)
    /\ todo' = [todo EXCEPT ![t] = Idle]
    /\ held' = [held EXCEPT ![t] = {}]
    /\ effects' = [effects EXCEPT ![t] = {}]
    /\ UNCHANGED open

Next == \E t \in Processes : Begin(t) \/ Execute(t) \/ Commit(t) \/ Rollback(t)

Spec == Init /\ [][Next]_vars

-----------------------------------------------------------------------------

WaitsFor(t, s) ==
    /\ todo[t] # Idle /\ s # t
    /\ Head(todo[t]).op # "insert" /\ Finds(t)
    /\ Head(todo[t]).row \in held[s]

\* No set of transactions waits on itself, so PostgreSQL never has to abort a
\* deadlock victim (an aborted job is not retried): the claim of the global
\* lock order offer -> request -> inventory (-> match -> reliability_stats).
NoDeadlock ==
    \A T \in (SUBSET Processes) \ {{}} : \E t \in T : \A s \in T : ~WaitsFor(t, s)

=============================================================================
