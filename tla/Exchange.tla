------------------------------ MODULE Exchange ------------------------------
(***************************************************************************)
(* The exchange core of the server: requests, the sequential offers made   *)
(* for them, the matches that accepted offers become, the helpers' stock   *)
(* and the reliability counters.                                           *)
(*                                                                         *)
(* Every action is one PostgreSQL transaction (or one autocommitted        *)
(* statement).  The transactions lock the rows they decide on with         *)
(* SELECT ... FOR UPDATE and re-read them, so each is one atomic step      *)
(* here; LockOrder.tla looks at the locks themselves.  A transaction that  *)
(* throws is rolled back, so an error path is simply a disabled action.    *)
(*                                                                         *)
(* The background jobs (matching pass, offer timeout, finalisation,        *)
(* retention sweeps) are actions that may happen whenever the rows allow   *)
(* it: a job may be late, repeated or lost.  ExchangeJobs.tla adds the     *)
(* queue that decides when they do run.                                    *)
(*                                                                         *)
(* Rows are records.  An offer, and the match it becomes, is named by its  *)
(* pair <<request, helper>>: match_offers has UNIQUE (request_id,          *)
(* helper_id) and matches.offer_id points at that row.                     *)
(*                                                                         *)
(* A definition marked "mutant" is a faulty variant of the one after it.   *)
(* No specification uses it: put in the other's place, it must break the   *)
(* property that PROJECT.json names, which shows that the property bites.  *)
(***************************************************************************)
EXTENDS Integers, FiniteSets, RequestTransitions

CONSTANTS
    Users,                      \* accounts
    Requests,                   \* request ids
    Items,                      \* inventory item ids, one category
    NoItem,                     \* no inventory item (NULL)
    Requester,                  \* the account that owns each request
    Owner,                      \* the account that owns each item
    Qty,                        \* the quantity each request asks for
    Reach,                      \* smallest radius at which each helper is found
    InitialRadius,              \* LIMITS.initialSearchRadiusM
    MaxRadius,                  \* event.maxMatchRadiusM
    MaxActiveMatchesPerHelper,  \* LIMITS.maxActiveMatchesPerHelper
    MaxActiveRequestsPerUser,   \* LIMITS.maxActiveRequestsPerUser
    MaxStock                    \* bound: largest quantity typed into inventory

ASSUME FiniteTables == IsFiniteSet(Users) /\ IsFiniteSet(Requests) /\ IsFiniteSet(Items)
ASSUME ItemIds == NoItem \notin Items
ASSUME Ownership == Requester \in [Requests -> Users] /\ Owner \in [Items -> Users]
ASSUME Quantities == Qty \in [Requests -> Nat \ {0}] /\ MaxStock \in Nat
ASSUME Radii ==
    /\ InitialRadius \in Nat /\ MaxRadius \in Nat
    /\ Reach \in [Users -> Nat]
ASSUME Limits == MaxActiveMatchesPerHelper \in Nat /\ MaxActiveRequestsPerUser \in Nat

VARIABLES
    request,    \* requests rows
    offer,      \* match_offers rows
    match,      \* matches rows, with the status of their conversation
    item,       \* inventory_items rows
    available,  \* helper may be asked: member, helping now, not restricted
    blocked,    \* pairs of accounts with a blocks row in either direction
    event,      \* events row: status and matching_paused
    phase,      \* how far the clock is past events.ends_at
    stats       \* reliability_stats rows

vars == <<request, offer, match, item, available, blocked, event, phase, stats>>

-----------------------------------------------------------------------------
(* Rows *)

Pairs == Requests \X Users

OfferStatuses == {"none", "offered", "accepted", "declined", "expired", "superseded"}

SettledStatuses == {"completed", "partially_completed", "disputed"}
CancelledStatuses == {"cancelled_by_requester", "cancelled_by_helper",
                      "cancelled_unsafe", "cancelled_moderation"}
MatchStatuses == {"none", "active"} \cup SettledStatuses \cup CancelledStatuses

Sides == {"requester", "helper"}
EventStatuses == {"scheduled", "active", "paused", "completed", "archived", "disabled"}
EventRow == [status : EventStatuses, matchingPaused : BOOLEAN]

\* before ends_at; after it; after ends_at + retention_days
Phases == {"running", "over", "purgeable"}

Quantity == 0 .. MaxStock
NoQty == -1                     \* a *_confirmed_qty column that is NULL

RequestRow == [status : RequestStatuses, due : BOOLEAN, closed : BOOLEAN,
               fulfilled : Nat, radius : Nat]
OfferRow == [status : OfferStatuses, late : BOOLEAN, item : Items \cup {NoItem},
             qty : Quantity]
MatchRow == [status : MatchStatuses, item : Items \cup {NoItem}, qty : Quantity,
             confirmed : [Sides -> Quantity \cup {NoQty}], arrived : SUBSET Sides,
             inventoryApplied : BOOLEAN, reliabilityApplied : BOOLEAN,
             conversation : {"none", "open", "readonly", "expired"},
             grace : BOOLEAN]
ItemRow == [exists : BOOLEAN, active : BOOLEAN, expired : BOOLEAN, onHand : Quantity,
            reserved : Quantity]
StatsRow == [received : Nat, responded : Nat, accepted : Nat, completed : Nat,
             confirmed : Nat, cancelledPre : Nat, cancelledPost : Nat,
             disputes : Nat]

TypeOK ==
    /\ request \in [Requests -> RequestRow]
    /\ offer \in [Pairs -> OfferRow]
    /\ match \in [Pairs -> MatchRow]
    /\ item \in [Items -> ItemRow]
    /\ available \in [Users -> BOOLEAN]
    /\ blocked \in SUBSET SUBSET Users
    /\ event \in EventRow
    /\ phase \in Phases
    /\ stats \in [Users -> StatsRow]

NoRequest == [status |-> "none", due |-> FALSE, closed |-> FALSE, fulfilled |-> 0,
              radius |-> InitialRadius]
NoOffer == [status |-> "none", late |-> FALSE, item |-> NoItem, qty |-> 0]
NoMatch == [status |-> "none", item |-> NoItem, qty |-> 0,
            confirmed |-> [s \in Sides |-> NoQty], arrived |-> {},
            inventoryApplied |-> FALSE, reliabilityApplied |-> FALSE,
            conversation |-> "none", grace |-> FALSE]
AbsentItem == [exists |-> FALSE, active |-> FALSE, expired |-> FALSE, onHand |-> 0,
               reserved |-> 0]
NewStats == [received |-> 0, responded |-> 0, accepted |-> 0, completed |-> 0,
             confirmed |-> 0, cancelledPre |-> 0, cancelledPost |-> 0,
             disputes |-> 0]

Init ==
    /\ request = [r \in Requests |-> NoRequest]
    /\ offer = [p \in Pairs |-> NoOffer]
    /\ match = [p \in Pairs |-> NoMatch]
    /\ item = [i \in Items |-> AbsentItem]
    /\ available = [u \in Users |-> FALSE]
    /\ blocked = {}
    /\ event = [status |-> "active", matchingPaused |-> FALSE]
    /\ phase = "running"
    /\ stats = [u \in Users |-> NewStats]

-----------------------------------------------------------------------------
(* What the queries compute *)

Min2(a, b) == IF a <= b THEN a ELSE b

RemainingForgetsDelivered(r) == Qty[r]                                  \* mutant
Remaining(r) == Qty[r] - request[r].fulfilled
Free(i) == item[i].onHand - item[i].reserved

OpenOffers(r) == {p \in Pairs : p[1] = r /\ offer[p].status = "offered"}
WasAsked(r) == \E u \in Users : offer[<<r, u>>].status # "none"
ActiveMatches(u) == {p \in Pairs : p[2] = u /\ match[p].status = "active"}
ActiveRequests(u) ==
    {r \in Requests : Requester[r] = u
                      /\ request[r].status \in {"searching", "offering", "matched"}}

\* Requests are taken and passes run only while this holds.
MatchingOpen == event.status = "active" /\ ~event.matchingPaused

\* Stock the candidate query can see: active, unexpired, with something left.
Offerable(i) == item[i].exists /\ item[i].active /\ ~item[i].expired /\ Free(i) > 0

BestItemOfAnyone(u, i) == Offerable(i)                                  \* mutant
\* DISTINCT ON (u.id) ... ORDER BY available DESC: each helper's best item.
BestItem(u, i) ==
    /\ Owner[i] = u /\ Offerable(i)
    /\ \A j \in Items : Owner[j] = u /\ Offerable(j) => Free(j) <= Free(i)

Eligible(r, u) ==
    /\ u # Requester[r]
    /\ available[u]
    /\ {u, Requester[r]} \notin blocked
    /\ offer[<<r, u>>].status = "none"
    /\ Cardinality(ActiveMatches(u)) < MaxActiveMatchesPerHelper
    /\ Reach[u] <= request[r].radius

Candidates(r) == {c \in Users \X Items : Eligible(r, c[1]) /\ BestItem(c[1], c[2])}

ReserveQtyUnclamped(offerQty, need, free) == Min2(offerQty, need)       \* mutant
\* The reservation clamp, whole units.
ReserveQty(offerQty, need, free) == Min2(offerQty, Min2(need, free))

-----------------------------------------------------------------------------
(* Updates shared by several transactions *)

\* A status change of request r that the table permits; the fields that are
\* part of the same change are set by the caller.
Moved(r, to) == [request EXCEPT ![r].status = to]
Closing(r, to) == [request EXCEPT ![r] = [@ EXCEPT !.status = to, !.closed = TRUE]]

\* Close every open offer of the requests in R with the given status.
CloseOffers(R, to) ==
    [p \in Pairs |-> IF p[1] \in R /\ offer[p].status = "offered"
                     THEN [offer[p] EXCEPT !.status = to] ELSE offer[p]]

One(b) == IF b THEN 1 ELSE 0

-----------------------------------------------------------------------------
(* Requester: modules/requests/service.ts *)

CreateRequest(r) ==
    /\ request[r].status = "none"
    /\ MatchingOpen
    /\ Cardinality(ActiveRequests(Requester[r])) < MaxActiveRequestsPerUser
    /\ request' = [request EXCEPT ![r] = [NoRequest EXCEPT !.status = "searching"]]
    /\ UNCHANGED <<offer, match, item, available, blocked, event, phase, stats>>

\* The owner takes back a request nobody has accepted yet.
CancelOpenRequest(r) ==
    /\ request[r].status \in {"searching", "offering"}
    /\ CanTransition(request[r].status, "cancelled")
    /\ request' = Closing(r, "cancelled")
    /\ offer' = CloseOffers({r}, "superseded")
    /\ UNCHANGED <<match, item, available, blocked, event, phase, stats>>

\* A fresh deadline and radius; qty_fulfilled is kept.  No event or limit check.
Reopened(r) ==
    [request EXCEPT ![r] = [@ EXCEPT !.status = "searching", !.due = FALSE,
                                     !.radius = InitialRadius, !.closed = FALSE]]

RenewRequest(r) ==
    /\ request[r].status \in {"expired", "no_match", "cancelled"}
    /\ CanTransition(request[r].status, "searching")
    /\ request' = Reopened(r)
    /\ UNCHANGED <<offer, match, item, available, blocked, event, phase, stats>>

ContinueRequest(r) ==
    /\ request[r].status = "partially_fulfilled"
    /\ Remaining(r) > 0
    /\ CanTransition(request[r].status, "searching")
    /\ request' = Reopened(r)
    /\ UNCHANGED <<offer, match, item, available, blocked, event, phase, stats>>

StopAfterPartial(r) ==
    /\ request[r].status = "partially_fulfilled"
    /\ LET to == IF request[r].fulfilled > 0 THEN "fulfilled" ELSE "cancelled"
       IN  /\ CanTransition(request[r].status, to)
           /\ request' = Closing(r, to)
    /\ UNCHANGED <<offer, match, item, available, blocked, event, phase, stats>>

-----------------------------------------------------------------------------
(* The matching pass: workers/matching.ts runMatchPass, by outcome.  A pass  *)
(* that finds the event paused or an open offer in time changes no row.      *)

PassExpires(r) ==
    /\ request[r].status \in {"searching", "offering"}
    /\ request[r].due
    /\ LET to == IF WasAsked(r) THEN "expired" ELSE "no_match"
       IN  /\ CanTransition(request[r].status, to)
           /\ request' = Closing(r, to)
    /\ offer' = CloseOffers({r}, "superseded")
    /\ UNCHANGED <<match, item, available, blocked, event, phase, stats>>

\* The pass goes on to look for a helper.  An open offer that is past its
\* deadline is expired on the way, and the request is searching again.
PassSearches(r) ==
    /\ request[r].status \in {"searching", "offering"}
    /\ ~request[r].due
    /\ MatchingOpen
    /\ request[r].status = "offering" => \A p \in OpenOffers(r) : offer[p].late

SweptOffers(r) ==
    IF request[r].status = "offering" THEN CloseOffers({r}, "expired") ELSE offer

PassOffers(r) ==
    /\ PassSearches(r)
    /\ \E c \in Candidates(r) :
          LET u == c[1]
              q == Min2(Remaining(r), Free(c[2]))
          IN  /\ q > 0
              /\ offer' = [SweptOffers(r) EXCEPT
                              ![<<r, u>>] = [status |-> "offered", late |-> FALSE,
                                             item |-> c[2], qty |-> q]]
              /\ request' = Moved(r, "offering")
              /\ stats' = [stats EXCEPT ![u].received = @ + 1]
    /\ UNCHANGED <<match, item, available, blocked, event, phase>>

NobodyToAsk(r) == \A c \in Candidates(r) : Min2(Remaining(r), Free(c[2])) <= 0

PassWidens(r) ==
    /\ PassSearches(r)
    /\ NobodyToAsk(r)
    /\ request[r].radius < MaxRadius
    /\ request' = [request EXCEPT ![r] = [@ EXCEPT !.status = "searching",
                                                   !.radius = Min2(2 * request[r].radius, MaxRadius)]]
    /\ offer' = SweptOffers(r)
    /\ UNCHANGED <<match, item, available, blocked, event, phase, stats>>

PassIdles(r) ==
    /\ PassSearches(r)
    /\ NobodyToAsk(r)
    /\ request[r].radius >= MaxRadius
    /\ request' = Moved(r, "searching")
    /\ offer' = SweptOffers(r)
    /\ UNCHANGED <<match, item, available, blocked, event, phase, stats>>

-----------------------------------------------------------------------------
(* Helper: modules/offers/service.ts, and expireOffer of workers/matching.ts *)

SearchStays(r) == request' = request                                    \* mutant
\* The search resumes when an offer fails, if the request still waits for it.
SearchResumes(r) ==
    request' = IF request[r].status = "offering" THEN Moved(r, "searching") ELSE request

ExpireOffer(p) ==
    /\ offer[p].status = "offered" /\ offer[p].late
    /\ offer' = [offer EXCEPT ![p].status = "expired"]
    /\ SearchResumes(p[1])
    /\ UNCHANGED <<match, item, available, blocked, event, phase, stats>>

DeclineOffer(p, alsoStopReceiving) ==
    /\ offer[p].status = "offered" /\ ~offer[p].late
    /\ offer' = [offer EXCEPT ![p].status = "declined"]
    /\ SearchResumes(p[1])
    /\ stats' = [stats EXCEPT ![p[2]].responded = @ + 1]
    /\ available' = [available EXCEPT ![p[2]] = @ /\ ~alsoStopReceiving]
    /\ UNCHANGED <<match, item, blocked, event, phase>>

\* What accepting would reserve now; an inactive item has nothing available.
Reservable(p) ==
    LET i == offer[p].item
    IN  ReserveQty(offer[p].qty, Remaining(p[1]), IF item[i].active THEN Free(i) ELSE 0)

MayAccept(p) ==
    /\ offer[p].status = "offered" /\ ~offer[p].late
    /\ request[p[1]].status = "offering"
    /\ item[offer[p].item].exists

AcceptOffer(p) ==
    LET r == p[1]
        i == offer[p].item
        q == Reservable(p)
        s == stats[p[2]]
    IN  /\ MayAccept(p)
        /\ q > 0
        /\ CanTransition(request[r].status, "matched")
        /\ \A o \in Pairs : o[1] = r => match[o].status # "active"   \* unique index
        /\ item' = [item EXCEPT ![i].reserved = @ + q]
        /\ offer' = [offer EXCEPT ![p].status = "accepted"]
        /\ match' = [match EXCEPT ![p] = [NoMatch EXCEPT !.status = "active", !.item = i,
                                             !.qty = q, !.conversation = "open"]]
        /\ request' = Moved(r, "matched")
        /\ stats' = [stats EXCEPT ![p[2]] = [s EXCEPT !.accepted = s.accepted + 1,
                                                       !.responded = s.responded + 1]]
        /\ UNCHANGED <<available, blocked, event, phase>>

\* The stock is gone: the offer is void and the search resumes.
AcceptFindsNothing(p) ==
    /\ MayAccept(p)
    /\ Reservable(p) <= 0
    /\ CanTransition(request[p[1]].status, "searching")
    /\ offer' = [offer EXCEPT ![p].status = "expired"]
    /\ request' = Moved(p[1], "searching")
    /\ UNCHANGED <<match, item, available, blocked, event, phase, stats>>

-----------------------------------------------------------------------------
(* Matched pair: modules/matches/service.ts *)

IsActiveOrClosed(p) == match[p].status # "none"                         \* mutant
\* lockMatchRows and the check under its locks: the match is still active.
IsActive(p) == match[p].status = "active"

SetMeetingState(p, side, there) ==
    /\ IsActive(p)
    /\ match' = [match EXCEPT ![p].arrived = IF there THEN @ \cup {side} ELSE @ \ {side}]
    /\ UNCHANGED <<request, offer, item, available, blocked, event, phase, stats>>

ReleasedOnlyUsed(p, used) ==                                            \* mutant
    [item EXCEPT ![match[p].item] = [@ EXCEPT !.onHand = item[match[p].item].onHand - used,
                                              !.reserved = item[match[p].item].reserved - used]]
\* The stock once match p, which held match[p].qty, has handed over `used` units.
Released(p, used) ==
    LET i == match[p].item
    IN  IF match[p].inventoryApplied THEN item
        ELSE [item EXCEPT ![i] = [@ EXCEPT !.onHand = item[i].onHand - used,
                                           !.reserved = item[i].reserved - match[p].qty]]

\* settleLocked: deduct the final quantity, release the reservation, credit
\* the request, close the match, start the chat's grace time, count.
Settle(p, confirmed, final, disputed) ==
    LET r == p[1]
        total == request[r].fulfilled + final
        covered == total >= Qty[r]
        to == IF covered THEN "fulfilled"
              ELSE IF total > 0 THEN "partially_fulfilled" ELSE "searching"
    IN  /\ CanTransition(request[r].status, to)
        /\ item' = Released(p, final)
        /\ request' = [request EXCEPT ![r] = [@ EXCEPT !.status = to, !.fulfilled = total,
                                                       !.closed = covered \/ request[r].closed]]
        /\ match' = [match EXCEPT ![p] = [@ EXCEPT
                !.status = IF disputed THEN "disputed"
                           ELSE IF covered THEN "completed" ELSE "partially_completed",
                !.confirmed = confirmed, !.inventoryApplied = TRUE,
                !.reliabilityApplied = TRUE, !.grace = TRUE]]
        /\ stats' = IF match[p].reliabilityApplied THEN stats
                    ELSE [u \in Users |-> [stats[u] EXCEPT
                            !.completed = @ + One(u = p[2] /\ final > 0),
                            !.confirmed = @ + One(u = p[2] /\ confirmed["requester"] > 0),
                            !.disputes = @ + One(disputed /\ u \in {p[2], Requester[r]})]]
        /\ UNCHANGED <<offer, available, blocked, event, phase>>

Peer(side) == IF side = "requester" THEN "helper" ELSE "requester"

MayConfirm(p, side, q) ==
    /\ IsActive(p)
    /\ match[p].confirmed[side] = NoQty
    /\ q <= match[p].qty

ConfirmFirst(p, side, q) ==
    /\ MayConfirm(p, side, q)
    /\ match[p].confirmed[Peer(side)] = NoQty
    /\ match' = [match EXCEPT ![p].confirmed[side] = q]
    /\ UNCHANGED <<request, offer, item, available, blocked, event, phase, stats>>

\* The sides agree on the smaller of the two quantities.
FinalQty(q, other) == Min2(q, other)

ConfirmSecond(p, side, q) ==
    LET other == match[p].confirmed[Peer(side)]
    IN  /\ MayConfirm(p, side, q)
        /\ other # NoQty
        /\ Settle(p, [match[p].confirmed EXCEPT ![side] = q], FinalQty(q, other), q # other)

\* An hour after a single confirmation: settle with it.
AutoFinalize(p, side) ==
    /\ IsActive(p) /\ ~match[p].inventoryApplied
    /\ match[p].confirmed[side] # NoQty
    /\ match[p].confirmed[Peer(side)] = NoQty
    /\ Settle(p, match[p].confirmed, match[p].confirmed[side], FALSE)

AbandonedUnsafeToo(actor, unsafe) == actor = "helper"                   \* mutant
\* A cancel that counts against the helper.
Abandoned(actor, unsafe) == actor = "helper" /\ ~unsafe

\* A cancel that makes the chat read-only at once.
CutsChat(actor, unsafe) == unsafe \/ actor = "moderator"

\* cancelMatchLocked: release the reservation, close match and chat, route
\* the request by who cancelled.
CancelMatch(p, actor, unsafe) ==
    LET r == p[1]
        to == [moderator |-> "moderated", requester |-> "cancelled",
               helper |-> "searching"][actor]
        abandoned == Abandoned(actor, unsafe)
        met == match[p].arrived # {}
        s == stats[p[2]]
    IN  /\ IsActive(p)
        /\ CanTransition(request[r].status, to)
        /\ item' = Released(p, 0)
        /\ match' = [match EXCEPT ![p] = [@ EXCEPT
                !.status = IF actor = "moderator" THEN "cancelled_moderation"
                           ELSE IF unsafe THEN "cancelled_unsafe"
                           ELSE IF actor = "requester" THEN "cancelled_by_requester"
                           ELSE "cancelled_by_helper",
                !.inventoryApplied = TRUE, !.grace = TRUE,
                !.conversation = IF CutsChat(actor, unsafe) THEN "readonly"
                                 ELSE match[p].conversation]]
        /\ request' = IF actor = "helper" THEN Moved(r, to) ELSE Closing(r, to)
        /\ stats' = [stats EXCEPT ![p[2]] =
                [s EXCEPT !.cancelledPre = s.cancelledPre + One(abandoned /\ ~met),
                          !.cancelledPost = s.cancelledPost + One(abandoned /\ met)]]
        /\ UNCHANGED <<offer, available, blocked, event, phase>>

CancelRequestOnly(r) ==                                                 \* mutant
    /\ request[r].status = "matched"
    /\ request' = Closing(r, "cancelled")
    /\ UNCHANGED <<offer, match, item, available, blocked, event, phase, stats>>
\* cancelRequest on a matched request cancels its active match.
CancelMatchedRequest(r) ==
    /\ request[r].status = "matched"
    /\ \E u \in Users : CancelMatch(<<r, u>>, "requester", FALSE)

\* cancelMatchForModeration: match_cancel, and the cancels that follow a
\* block, a suspension, a disabled event or an account deletion.
ModerationCancel(p) == CancelMatch(p, "moderator", FALSE)

\* blockViaMatch.  The cancel of a still active match that follows is a
\* transaction of its own, a ModerationCancel: others run in between, and it is
\* refused if the match was closed meanwhile.
Block(p) ==
    /\ match[p].status # "none"
    /\ blocked' = blocked \cup {{p[2], Requester[p[1]]}}
    /\ UNCHANGED <<request, offer, match, item, available, event, phase, stats>>

-----------------------------------------------------------------------------
(* Stock: modules/inventory/service.ts *)

\* The item is good until a day after the event's end as it stands now.
AddInventory(i, q) ==
    /\ ~item[i].exists
    /\ event.status \in {"active", "scheduled"}
    /\ q > 0
    /\ \E gone \in BOOLEAN :
          /\ phase = "running" => ~gone
          /\ phase = "purgeable" => gone
          /\ item' = [item EXCEPT ![i] = [exists |-> TRUE, active |-> TRUE, expired |-> gone,
                                          onHand |-> q, reserved |-> 0]]
    /\ UNCHANGED <<request, offer, match, available, blocked, event, phase, stats>>

UpdateInventory(i, qtyTotal, active) ==
    /\ item[i].exists
    /\ qtyTotal >= item[i].reserved
    /\ item' = [item EXCEPT ![i] = [@ EXCEPT !.onHand = qtyTotal, !.active = active]]
    /\ UNCHANGED <<request, offer, match, available, blocked, event, phase, stats>>

\* A row that an offer or a match refers to is only deactivated.
Referenced(i) == \E p \in Pairs : offer[p].item = i \/ match[p].item = i

DeleteInventory(i) ==
    /\ item[i].exists
    /\ item' = IF Referenced(i) THEN [item EXCEPT ![i].active = FALSE]
               ELSE [item EXCEPT ![i] = AbsentItem]
    /\ UNCHANGED <<request, offer, match, available, blocked, event, phase, stats>>

-----------------------------------------------------------------------------
(* Availability, account deletion (workers/data-request.ts, its steps 2 and  *)
(* 4), event moderation (modules/admin/service.ts)                           *)

SetAvailability(u, on) ==
    /\ on => event.status = "active"
    /\ available' = [available EXCEPT ![u] = on]
    /\ UNCHANGED <<request, offer, match, item, blocked, event, phase, stats>>

OpenRequests(R) == {r \in R : request[r].status \in {"searching", "offering"}}

\* Close the open ones of R in one transaction, with their offers.
CloseRequests(R, to) ==
    /\ \A r \in OpenRequests(R) : CanTransition(request[r].status, to)
    /\ request' = [r \in Requests |-> IF r \in OpenRequests(R)
                                      THEN [request[r] EXCEPT !.status = to, !.closed = TRUE]
                                      ELSE request[r]]
    /\ offer' = CloseOffers(OpenRequests(R), "superseded")

DeletionCancelsRequests(u) ==
    /\ CloseRequests({r \in Requests : Requester[r] = u}, "cancelled")
    /\ UNCHANGED <<match, item, available, blocked, event, phase, stats>>

DeletionCollapsesStock(u) ==
    /\ item' = [i \in Items |-> IF Owner[i] = u
                                THEN [item[i] EXCEPT !.onHand = item[i].reserved,
                                                     !.active = FALSE]
                                ELSE item[i]]
    /\ UNCHANGED <<request, offer, match, available, blocked, event, phase, stats>>

\* event_pause, event_unpause, emergencyShutdown (which leave the times alone), and
\* adminPatchEvent: with ends_at and retention_days it puts the clock in any phase, and
\* nothing that a sweep did in the old one is taken back.
PatchEvent(row, to) ==
    /\ event' = row
    /\ phase' = to
    /\ UNCHANGED <<request, offer, match, item, available, blocked, stats>>

\* event_disable; its active matches are then cancelled one transaction at a
\* time, each a ModerationCancel.
DisableEvent ==
    /\ event' = [event EXCEPT !.status = "disabled"]
    /\ CloseRequests(Requests, "moderated")
    /\ UNCHANGED <<match, item, available, blocked, phase, stats>>

-----------------------------------------------------------------------------
(* Time, and the sweeps of workers/retention.ts that write rows *)

\* expires_at passes; in the other statuses it is set anew before it is read.
RequestDeadline(r) ==
    /\ request[r].status \in {"searching", "offering", "matched"}
    /\ ~request[r].due
    /\ request' = [request EXCEPT ![r].due = TRUE]
    /\ UNCHANGED <<offer, match, item, available, blocked, event, phase, stats>>

OfferDeadline(p) ==
    /\ offer[p].status = "offered" /\ ~offer[p].late
    /\ offer' = [offer EXCEPT ![p].late = TRUE]
    /\ UNCHANGED <<request, match, item, available, blocked, event, phase, stats>>

\* An item's time was fixed when it was added; the event's may have been moved since.
ItemExpires(i) ==
    /\ item[i].exists /\ ~item[i].expired
    /\ item' = [item EXCEPT ![i].expired = TRUE]
    /\ UNCHANGED <<request, offer, match, available, blocked, event, phase, stats>>

EventClock ==
    /\ phase' = [running |-> "over", over |-> "purgeable", purgeable |-> "purgeable"][phase]
    /\ UNCHANGED <<request, offer, match, item, available, blocked, event, stats>>

\* eventLifecycle: scheduled -> active -> completed (nobody helps on) -> archived.
EventStarts ==
    /\ phase = "running" /\ event.status = "scheduled"
    /\ event' = [event EXCEPT !.status = "active"]
    /\ UNCHANGED <<request, offer, match, item, available, blocked, phase, stats>>

EventCompletes ==
    /\ phase # "running" /\ event.status \in {"scheduled", "active"}
    /\ event' = [event EXCEPT !.status = "completed"]
    /\ available' = [u \in Users |-> FALSE]
    /\ UNCHANGED <<request, offer, match, item, blocked, phase, stats>>

EventArchived ==
    /\ phase = "purgeable" /\ event.status = "completed"
    /\ event' = [event EXCEPT !.status = "archived"]
    /\ UNCHANGED <<request, offer, match, item, available, blocked, phase, stats>>

ExpireConversation(p) ==
    /\ match[p].conversation = "open" /\ match[p].grace
    /\ match' = [match EXCEPT ![p].conversation = "readonly"]
    /\ UNCHANGED <<request, offer, item, available, blocked, event, phase, stats>>

PurgeMessages ==
    /\ phase = "purgeable"
    /\ match' = [p \in Pairs |-> IF match[p].status = "none" THEN match[p]
                                 ELSE [match[p] EXCEPT !.conversation = "expired"]]
    /\ UNCHANGED <<request, offer, item, available, blocked, event, phase, stats>>

\* Offers no match refers to are deleted, whatever their status.
AnonymizeClosed ==
    /\ phase = "purgeable"
    /\ offer' = [p \in Pairs |-> IF match[p].status = "none" THEN NoOffer ELSE offer[p]]
    /\ UNCHANGED <<request, match, item, available, blocked, event, phase, stats>>

-----------------------------------------------------------------------------

Pass(r) == PassExpires(r) \/ PassOffers(r) \/ PassWidens(r) \/ PassIdles(r)

RequesterStep ==
    \E r \in Requests :
        \/ CreateRequest(r)
        \/ CancelOpenRequest(r)
        \/ CancelMatchedRequest(r)
        \/ RenewRequest(r)
        \/ ContinueRequest(r)
        \/ StopAfterPartial(r)

HelperStep ==
    \/ \E p \in Pairs : AcceptOffer(p) \/ AcceptFindsNothing(p)
    \/ \E p \in Pairs, stop \in BOOLEAN : DeclineOffer(p, stop)
    \/ \E u \in Users, on \in BOOLEAN : SetAvailability(u, on)
    \/ \E i \in Items, q \in Quantity : AddInventory(i, q)
    \/ \E i \in Items, q \in Quantity, a \in BOOLEAN : UpdateInventory(i, q, a)
    \/ \E i \in Items : DeleteInventory(i)

MatchStep ==
    \E p \in Pairs :
        \/ \E side \in Sides, there \in BOOLEAN : SetMeetingState(p, side, there)
        \/ \E side \in Sides, q \in Quantity : ConfirmFirst(p, side, q)
        \/ \E side \in Sides, q \in Quantity : ConfirmSecond(p, side, q)
        \/ \E side \in Sides, unsafe \in BOOLEAN : CancelMatch(p, side, unsafe)
        \/ ModerationCancel(p)
        \/ Block(p)

SystemStep ==
    \/ \E r \in Requests : Pass(r)
    \/ \E p \in Pairs : ExpireOffer(p)
    \/ \E p \in Pairs, side \in Sides : AutoFinalize(p, side)
    \/ \E p \in Pairs : ExpireConversation(p)
    \/ PurgeMessages
    \/ AnonymizeClosed
    \/ EventStarts \/ EventCompletes \/ EventArchived
    \/ \E u \in Users : DeletionCancelsRequests(u) \/ DeletionCollapsesStock(u)

AdminStep == DisableEvent \/ \E row \in EventRow, to \in Phases : PatchEvent(row, to)

ClockStep ==
    \/ \E r \in Requests : RequestDeadline(r)
    \/ \E p \in Pairs : OfferDeadline(p)
    \/ \E i \in Items : ItemExpires(i)
    \/ EventClock

Next == RequesterStep \/ HelperStep \/ MatchStep \/ SystemStep \/ AdminStep \/ ClockStep

Spec == Init /\ [][Next]_vars

-----------------------------------------------------------------------------
(* Properties *)

\* The units of item i that active matches hold: one element per unit.
HeldUnits(i) ==
    {x \in Pairs \X (1 .. MaxStock) :
        /\ match[x[1]].status = "active" /\ match[x[1]].item = i
        /\ x[2] <= match[x[1]].qty}

\* What a settled match handed over: the smaller confirmation, or the only one.
SettledQty(p) ==
    LET a == match[p].confirmed["requester"]
        b == match[p].confirmed["helper"]
    IN  IF a = NoQty THEN b ELSE IF b = NoQty THEN a ELSE Min2(a, b)

HandedOverUnits(r) ==
    {x \in Pairs \X (1 .. MaxStock) :
        /\ x[1][1] = r /\ match[x[1]].status \in SettledStatuses
        /\ x[2] <= SettledQty(x[1])}

\* Accounting: qty_reserved is exactly what the active matches hold, through
\* every accept, settlement, cancel and stock edit (a reservation is applied
\* and released exactly once).
ReservedIsHeld == \A i \in Items : item[i].reserved = Cardinality(HeldUnits(i))

\* The CHECK qty_reserved <= qty_on_hand never has to fire: no legal sequence
\* of accepts, stock edits, settlements and deletions reserves what is not there.
NeverOverReserved == \A i \in Items : item[i].reserved <= item[i].onHand

\* A request is "matched" exactly while one match on it is active: no path
\* closes one side and leaves the other.
MatchedHasOneMatch ==
    \A r \in Requests :
        LET active == {p \in Pairs : p[1] = r /\ match[p].status = "active"}
        IN  IF request[r].status = "matched" THEN \E p \in Pairs : active = {p}
            ELSE active = {}

\* Matching is sequential: an open offer belongs to an offering request and is
\* the only open one.
OneOpenOffer ==
    \A r \in Requests : \A p, o \in OpenOffers(r) :
        p = o /\ request[r].status = "offering"

\* Retention deletes the offers of r that became no match, all in one statement, the open
\* one included, and leaves the request as it is.
OffersDeleted(r) ==
    \A p \in Pairs : p[1] = r /\ match[p].status = "none" => offer[p].status = "none"

\* An offering request waits for an open offer, or retention took its offers away: no path
\* that answers, expires or supersedes an offer leaves its request waiting for it, also
\* when the event's times are moved after the sweep and matching goes on.
OfferingIsAnswerable ==
    \A r \in Requests :
        request[r].status = "offering" => OpenOffers(r) # {} \/ OffersDeleted(r)

\* qty_fulfilled is the sum of what the settled matches handed over.
FulfilledIsHandedOver ==
    \A r \in Requests : request[r].fulfilled = Cardinality(HandedOverUnits(r))

\* A request that searches still needs something, and an active match never
\* holds more than the need (CHECK qty_fulfilled <= qty never fires).
NeedRemains ==
    /\ \A r \in Requests :
          /\ request[r].fulfilled <= Qty[r]
          /\ request[r].status \notin {"fulfilled", "moderated"}
                => request[r].fulfilled < Qty[r]
    /\ \A p \in Pairs : match[p].status = "active"
          => request[p[1]].fulfilled + match[p].qty <= Qty[p[1]]

\* closed_at is set exactly on the closed statuses, renewals included.
ClosedAtOfClosed ==
    \A r \in Requests : request[r].closed <=>
        request[r].status \in {"fulfilled", "cancelled", "expired", "no_match", "moderated"}

CountMatches(u, statuses) ==
    Cardinality({p \in Pairs : p[2] = u /\ match[p].status \in statuses})

\* The reliability counters are what a recount over the matches would give:
\* every settlement, abandonment and dispute is counted once.
CountersMatchHistory ==
    \A u \in Users :
        /\ stats[u].accepted = CountMatches(u, MatchStatuses \ {"none"})
        /\ stats[u].completed =
              Cardinality({p \in Pairs : /\ p[2] = u /\ SettledQty(p) > 0
                                         /\ match[p].status \in SettledStatuses})
        /\ stats[u].cancelledPre + stats[u].cancelledPost
              = CountMatches(u, {"cancelled_by_helper"})
        /\ stats[u].disputes =
              Cardinality({p \in Pairs : /\ u \in {p[2], Requester[p[1]]}
                                         /\ match[p].status = "disputed"})
        /\ stats[u].accepted <= stats[u].responded
        /\ stats[u].responded <= stats[u].received

\* The chat outlives the match only under a running grace timer, and is not
\* writable after an unsafe or a moderation cancel.
ConversationFollowsMatch ==
    \A p \in Pairs :
        /\ match[p].conversation = "none" <=> match[p].status = "none"
        /\ match[p].grace <=> match[p].status \notin {"none", "active"}
        /\ match[p].status \in {"cancelled_unsafe", "cancelled_moderation"}
              => match[p].conversation # "open"

\* A closed match is history: its outcome, quantity and confirmations never
\* change again, and a fulfilled or moderated request stays so.
HistoryIsFinal ==
    [][/\ \A p \in Pairs : match[p].status \notin {"none", "active"} =>
             /\ match'[p].status = match[p].status
             /\ match'[p].qty = match[p].qty
             /\ match'[p].confirmed = match[p].confirmed
       /\ \A r \in Requests : request[r].status \in {"fulfilled", "moderated"} =>
             request'[r] = request[r]]_vars

-----------------------------------------------------------------------------
(* The exchange implements the ledger *)

StageOf ==
    [none |-> "absent", searching |-> "seeking", offering |-> "seeking",
     matched |-> "promised", fulfilled |-> "done", partially_fulfilled |-> "resting",
     cancelled |-> "resting", expired |-> "resting", no_match |-> "resting",
     disputed |-> "done", moderated |-> "done"]

L == INSTANCE Ledger WITH
        stage <- [r \in Requests |-> StageOf[request[r].status]],
        credit <- [r \in Requests |-> request[r].fulfilled],
        promise <- [p \in Pairs |-> IF match[p].status = "active"
                                    THEN [item |-> match[p].item, qty |-> match[p].qty]
                                    ELSE [item |-> NoItem, qty |-> 0]],
        stock <- [i \in Items |-> item[i].onHand]

\* Whatever offers, timeouts, moderation and retention do, every step of the
\* exchange is an asking, promising, delivering, releasing or restocking step of
\* the ledger, or changes nothing there: one helper at a time promises own,
\* uncommitted goods, and what is delivered is what was promised or less.
ImplementsLedger == L!LedgerSpec

\* Stock is accounted for: what is reserved is what active matches hold, and it is there
\* (inventory_items, acceptOffer, settleMatch, cancelMatch).
StockBalances == ReservedIsHeld /\ NeverOverReserved

\* A request's quantities and its closing time agree with what happened to it, over
\* partial deliveries, renewals and continuations (requests, settleMatch, renewRequest).
RequestsAddUp == FulfilledIsHandedOver /\ NeedRemains /\ ClosedAtOfClosed

\* An offering request has one open offer, or none after the deletion of its offers, and no
\* other request has any (runMatchPass, expireOffer, cancelRequest, anonymizeClosed).
OffersInStep == OneOpenOffer /\ OfferingIsAnswerable

\* Request, match and conversation are closed together, whoever closes them
\* (cancelMatch, cancelRequest, cancelMatchForModeration, performAccountDeletion).
MatchesInStep == MatchedHasOneMatch /\ ConversationFollowsMatch
=============================================================================
