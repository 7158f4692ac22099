------------------------------- MODULE Ledger -------------------------------
(***************************************************************************)
(* What the exchange promises its users, without offers, timers, events,   *)
(* chat or moderation: a request seeks goods, one helper at a time promises *)
(* some of their own stock, and the promise is delivered, in part or in     *)
(* full, or released.  Exchange.tla implements this specification.          *)
(***************************************************************************)
EXTENDS Integers, FiniteSets

CONSTANTS Users, Requests, Items, NoItem, Owner, Qty, MaxStock

VARIABLES
    stage,      \* where each request stands
    credit,     \* what each request has received
    promise,    \* what helper u holds back for request r, by <<r, u>>
    stock       \* what there is of each item

ledgerVars == <<stage, credit, promise, stock>>

NoPromise == [item |-> NoItem, qty |-> 0]

\* The units of item i that are promised: one element per unit.
PromisedUnits(i) ==
    {x \in (Requests \X Users) \X (1 .. MaxStock) :
        promise[x[1]].item = i /\ x[2] <= promise[x[1]].qty}

Uncommitted(i) == stock[i] - Cardinality(PromisedUnits(i))

LedgerInit ==
    /\ stage = [r \in Requests |-> "absent"]
    /\ credit = [r \in Requests |-> 0]
    /\ promise = [p \in Requests \X Users |-> NoPromise]
    /\ stock = [i \in Items |-> 0]

\* A request is made, or made again.
Ask(r) ==
    /\ stage[r] \in {"absent", "resting"}
    /\ credit[r] < Qty[r]
    /\ stage' = [stage EXCEPT ![r] = "seeking"]
    /\ UNCHANGED <<credit, promise, stock>>

\* Requests that hold no promise stop seeking, some of them for good.
Withdraw(R, to) ==
    /\ UNCHANGED <<credit, promise, stock>>
    /\ \A r \in R : stage[r] \in {"seeking", "resting"}
    /\ stage' = [r \in Requests |-> IF r \in R THEN to ELSE stage[r]]

\* Helper u sets aside q units of their own for r, never more than is left.
Promise(r, u, i, q) ==
    /\ stage[r] = "seeking"
    /\ \A v \in Users : promise[<<r, v>>] = NoPromise
    /\ Owner[i] = u
    /\ 0 < q /\ q <= Qty[r] - credit[r] /\ q <= Uncommitted(i)
    /\ stage' = [stage EXCEPT ![r] = "promised"]
    /\ promise' = [promise EXCEPT ![<<r, u>>] = [item |-> i, qty |-> q]]
    /\ UNCHANGED <<credit, stock>>

\* d of the promised units change hands; what is left over is free again.
Deliver(r, u, d) ==
    LET p == promise[<<r, u>>]
        total == credit[r] + d
    IN  /\ p # NoPromise /\ d <= p.qty
        /\ credit' = [credit EXCEPT ![r] = total]
        /\ stock' = [stock EXCEPT ![p.item] = @ - d]
        /\ promise' = [promise EXCEPT ![<<r, u>>] = NoPromise]
        /\ stage' = [stage EXCEPT ![r] = IF total = Qty[r] THEN "done"
                                         ELSE IF total > 0 THEN "resting" ELSE "seeking"]

\* The promise is dropped; nothing changes hands.
Release(r, u, to) ==
    /\ promise[<<r, u>>] # NoPromise
    /\ promise' = [promise EXCEPT ![<<r, u>>] = NoPromise]
    /\ stage' = [stage EXCEPT ![r] = to]
    /\ UNCHANGED <<credit, stock>>

\* Owners restate what they have, never below what they promised.
Restock ==
    /\ UNCHANGED <<stage, credit, promise>>
    /\ stock' \in [Items -> 0 .. MaxStock]
    /\ \A i \in Items : Cardinality(PromisedUnits(i)) <= stock'[i]

LedgerNext ==
    \/ \E r \in Requests : Ask(r)
    \/ \E R \in SUBSET Requests, to \in {"resting", "done"} : Withdraw(R, to)
    \/ \E r \in Requests, u \in Users :
          \/ \E i \in Items, q \in 1 .. MaxStock : Promise(r, u, i, q)
          \/ \E d \in 0 .. MaxStock : Deliver(r, u, d)
          \/ \E to \in {"seeking", "resting", "done"} : Release(r, u, to)
    \/ Restock

LedgerSpec == LedgerInit /\ [][LedgerNext]_ledgerVars

=============================================================================
