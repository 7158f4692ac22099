--------------------------- MODULE AccountDeletion ---------------------------
(***************************************************************************)
(* Account deletion beside a running exchange.  requestAccountDeletion      *)
(* revokes the sessions and flips users.status at once; the data-request    *)
(* worker then works through performAccountDeletion, one transaction after  *)
(* another, from a list of active matches it read at the start.  The other  *)
(* users, the passes and the timers go on in between, and so does a call of *)
(* the account itself that had passed resolveAuth, or a login that had read *)
(* the user: nothing it does afterwards looks at users.status again.        *)
(* Steps 3, 5 and 6 (sessions, tokens, notifications, own blocks) touch no  *)
(* exchange row and belong to the last step here.                           *)
(***************************************************************************)
EXTENDS Exchange

CONSTANTS
    MaxCrashes,                 \* bound: worker crashes in a behaviour
    MaxLate                     \* bound: calls of accounts already in deletion

ASSUME CrashBound == MaxCrashes \in Nat /\ MaxLate \in Nat

VARIABLES
    deletion,   \* how far each account's deletion is
    listed,     \* active matches the worker read and has not cancelled yet
    crashes,    \* worker crashes so far
    late,       \* calls that went on after their account's deletion was asked for
    raced       \* what came behind each account's worker: matches, requests, items

deletionVars == <<request, offer, match, item, available, blocked, event, phase, stats,
                  deletion, listed, crashes, late, raced>>

\* queued: job pending; cancelling: steps 1 and 2; collapsing: steps 3 to 7;
\* failed: the job threw and is not retried.
DeletionStates == {"none", "queued", "cancelling", "collapsing", "done", "failed"}

DeletionTypeOK ==
    /\ deletion \in [Users -> DeletionStates]
    /\ listed \in [Users -> SUBSET Pairs]
    /\ crashes \in 0 .. MaxCrashes
    /\ late \in 0 .. MaxLate
    /\ raced \in [Users -> SUBSET (Pairs \cup Requests \cup Items)]

DeletionInit ==
    /\ Init
    /\ deletion = [u \in Users |-> "none"]
    /\ listed = [u \in Users |-> {}]
    /\ crashes = 0
    /\ late = 0
    /\ raced = [u \in Users |-> {}]

Parties(p) == {p[2], Requester[p[1]]}
MatchesAsRequester(u) ==                                                \* mutant
    {p \in Pairs : match[p].status = "active" /\ u = Requester[p[1]]}
RequestsOf(u) ==                                                        \* mutant
    {p[1] : p \in {o \in Pairs : match[o].status = "active" /\ u \in Parties(o)}}
MatchesOf(u) == {p \in Pairs : match[p].status = "active" /\ u \in Parties(p)}

\* requestAccountDeletion; the candidate query wants users.status = 'active'.
RequestAccountDeletion(u) ==
    /\ deletion[u] = "none"
    /\ deletion' = [deletion EXCEPT ![u] = "queued"]
    /\ available' = [available EXCEPT ![u] = FALSE]
    /\ UNCHANGED <<request, offer, match, item, blocked, event, phase, stats, listed, crashes, late,
                   raced>>

\* Step 1 reads the list, then cancels one match per transaction.
ListMatches(u) ==
    /\ deletion[u] = "queued"
    /\ deletion' = [deletion EXCEPT ![u] = "cancelling"]
    /\ listed' = [listed EXCEPT ![u] = MatchesOf(u)]
    /\ raced' = [raced EXCEPT ![u] = {}]
    /\ UNCHANGED vars /\ UNCHANGED <<crashes, late>>

CancelListed(u) ==
    /\ deletion[u] = "cancelling"
    /\ \E p \in listed[u] :
          /\ ModerationCancel(p)
          /\ listed' = [listed EXCEPT ![u] = @ \ {p}]
    /\ UNCHANGED <<deletion, crashes, late, raced>>

\* cancelMatchLocked throws on a match that is no longer active.
CancelListedThrows(u) ==
    /\ deletion[u] = "cancelling"
    /\ \E p \in listed[u] : match[p].status # "active"
    /\ deletion' = [deletion EXCEPT ![u] = "failed"]
    /\ UNCHANGED vars /\ UNCHANGED <<listed, crashes, late, raced>>

CloseOwnRequests(u) ==
    /\ deletion[u] = "cancelling" /\ listed[u] = {}
    /\ DeletionCancelsRequests(u)
    /\ deletion' = [deletion EXCEPT ![u] = "collapsing"]
    /\ UNCHANGED <<listed, crashes, late, raced>>

CollapseAndAnonymize(u) ==
    /\ deletion[u] = "collapsing"
    /\ DeletionCollapsesStock(u)
    /\ deletion' = [deletion EXCEPT ![u] = "done"]
    /\ UNCHANGED <<listed, crashes, late, raced>>

\* A stalled job is taken up again from the start.
WorkerCrash(u) ==
    /\ crashes < MaxCrashes
    /\ deletion[u] \in {"cancelling", "collapsing"}
    /\ deletion' = [deletion EXCEPT ![u] = "queued"]
    /\ listed' = [listed EXCEPT ![u] = {}]
    /\ crashes' = crashes + 1
    /\ UNCHANGED vars /\ UNCHANGED <<late, raced>>

Worker(u) ==
    \/ ListMatches(u) \/ CancelListed(u) \/ CancelListedThrows(u)
    \/ CloseOwnRequests(u) \/ CollapseAndAnonymize(u)

-----------------------------------------------------------------------------
(* The exchange meanwhile *)

Side(p, side) == IF side = "helper" THEN p[2] ELSE Requester[p[1]]

\* A call of u: on requests of their own, offers to them, their side of a match, their
\* stock.  The candidate query finds nobody whose users.status is 'deleted'.
UserCall(u) ==
    \/ \E r \in Requests :
          /\ Requester[r] = u
          /\ \/ CreateRequest(r) \/ CancelOpenRequest(r) \/ CancelMatchedRequest(r)
             \/ RenewRequest(r) \/ ContinueRequest(r) \/ StopAfterPartial(r)
    \/ \E p \in Pairs :
          /\ p[2] = u
          /\ AcceptOffer(p) \/ AcceptFindsNothing(p) \/ DeclineOffer(p, FALSE)
    \/ \E p \in Pairs, side \in Sides :
          /\ Side(p, side) = u
          /\ \/ CancelMatch(p, side, FALSE)
             \/ \E q \in Quantity : ConfirmFirst(p, side, q) \/ ConfirmSecond(p, side, q)
    \/ \E on \in BOOLEAN : (on => deletion[u] = "none") /\ SetAvailability(u, on)
    \/ \E i \in Items, q \in Quantity : Owner[i] = u /\ AddInventory(i, q)

\* The sessions are revoked with the request to delete the account: a call of the account
\* that commits later was under way, or is of a login that was.
UserStep ==
    \E u \in Users :
        /\ UserCall(u)
        /\ \/ deletion[u] = "none" /\ UNCHANGED late
           \/ deletion[u] # "none" /\ late < MaxLate /\ late' = late + 1

TimerStep ==
    \/ \E r \in Requests : Pass(r) \/ RequestDeadline(r)
    \/ \E p \in Pairs : ExpireOffer(p) \/ OfferDeadline(p)
    \/ \E p \in Pairs, side \in Sides : AutoFinalize(p, side)

Open == {"searching", "offering", "matched"}

NewMatches(u) ==
    {p \in Pairs : u \in Parties(p) /\ match'[p].status = "active" /\ match[p].status # "active"}
NewRequests(u) ==
    {r \in Requests : Requester[r] = u /\ request'[r].status \in Open /\ request[r].status \notin Open}
NewStock(u) == {i \in Items : Owner[i] = u /\ item'[i].onHand > item[i].onHand}

\* What this step brings in behind the worker of u: a match that was not there when it read
\* its list (with its request and item), a request opened after it closed them, stock put
\* in after it took the stock away.
Races(u) ==
    (IF deletion[u] \in {"cancelling", "collapsing", "done"}
     THEN NewMatches(u) \cup {p[1] : p \in NewMatches(u)} \cup {match'[p].item : p \in NewMatches(u)}
     ELSE {})
    \cup (IF deletion[u] \in {"collapsing", "done"} THEN NewRequests(u) ELSE {})
    \cup (IF deletion[u] = "done" THEN NewStock(u) ELSE {})

Meanwhile ==
    /\ UserStep \/ (TimerStep /\ UNCHANGED late)
    /\ raced' = [u \in Users |-> raced[u] \cup Races(u)]
    /\ UNCHANGED <<deletion, listed, crashes>>

DeletionNext ==
    \/ Meanwhile
    \/ \E u \in Users : RequestAccountDeletion(u) \/ Worker(u) \/ WorkerCrash(u)

\* The worker takes the job up and keeps going.
DeletionSpec ==
    DeletionInit /\ [][DeletionNext]_deletionVars /\ \A u \in Users : WF_deletionVars(Worker(u))

-----------------------------------------------------------------------------
(* Properties *)

\* What a deleted account still has came in behind its worker: no active match, open
\* request, reservation or stock that was there when the worker looked for it is left
\* ("reservations were released in step 1, so on_hand collapses to qty_reserved (0)"),
\* after crashes and second runs too, whatever the peers and the timers do in between.
OnlyRacesOutliveDeletion ==
    \A u \in Users : deletion[u] = "done" =>
        /\ \A p \in Pairs : u \in Parties(p) /\ match[p].status = "active" => p \in raced[u]
        /\ \A r \in Requests : Requester[r] = u /\ request[r].status \in Open => r \in raced[u]
        /\ \A i \in Items : Owner[i] = u /\ item[i].onHand > 0 => i \in raced[u]

\* A deleted requester has nothing left open: step 1 is to "cancel active
\* matches", step 2 to "cancel any still-open requests".  A match made after the
\* list was read escapes both, and its request searches again if it is cancelled.
DeletedRequesterHasNothingOpen ==
    \A r \in Requests : deletion[Requester[r]] = "done" => request[r].status \notin Open

\* Every accepted deletion is carried out ("retry-safe").  The job throws when
\* the peer or a timer closes a match it has listed, and nothing retries it.
DeletionCompletes == \A u \in Users : (deletion[u] = "queued") ~> (deletion[u] = "done")

=============================================================================
