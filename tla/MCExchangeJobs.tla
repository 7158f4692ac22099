--------------------------- MODULE MCExchangeJobs ---------------------------
(***************************************************************************)
(* The workers for TLC: one request, one helper.                            *)
(* `part' says which of the two adds its steps to the exchange: the queue,  *)
(* or the deletion of either account.  The deletion part runs its own       *)
(* timers and leaves the queue alone, as one that has failed for good.      *)
(* The third part is the export of an account's data, beside an exchange    *)
(* that stands still: one phone, two exports, one row of data per table.    *)
(***************************************************************************)
EXTENDS Workers

CONSTANTS asker, helper, r1, bread, phone1

VARIABLE part

MCRequester == [r \in Requests |-> asker]
MCOwner == [i \in Items |-> helper]
OneUnit == [r \in Requests |-> 1]
\* One table gains a row, the other loses one; the account is deleted under two exports.
MCTableOf == [f \in {1, 2} |-> f]
AllNear == [u \in Users |-> 1]

MCInit ==
    /\ part \in {"queue", "deletion", "export"}
    /\ DeletionInit /\ jobs = {}
    /\ faults = IF part = "queue" THEN 0 ELSE MaxFaults
    /\ ExportInit /\ linked = {2}
QueuePart == part = "queue" /\ JobNext /\ UNCHANGED <<deletion, listed, crashes, late, raced>>
DeletionPart == part = "deletion" /\ DeletionNext /\ NoJobs
Exporting ==
    /\ part = "export"
    /\ \/ \E f \in Phones :
            AskForExport(f) \/ QueueExport(f) \/ Poll(f) \/ Download(f) \/ FreeButton(f)
       \/ \E e \in Exports : ExportWorker(e)
       \/ ExportWorkerDies(1) \/ ExportJobFails(1) \/ Link(1) \/ PurgeFact(2)
       \/ AskedRows = {1} /\ QuotaResets
       \/ AskedRows = Exports /\ (DeleteAccount \/ EraseHolder)
MCNext ==
    /\ \/ (QueuePart \/ DeletionPart) /\ UNCHANGED exportVars
       \/ Exporting /\ UNCHANGED <<jobVars, deletionVars>>
    /\ UNCHANGED part
MCSpec ==
    /\ MCInit /\ [][MCNext]_<<jobVars, deletionVars, exportVars, part>>
    /\ Fairness /\ ExportFairness

\* The queue alone.
QueueSpec == MCSpec /\ part = "queue"

\* Everything that waits for a worker is served in the end: open offers, due requests,
\* half-confirmed matches and exports, whatever worker dies.
WaitsEnd == OffersResolve /\ DueRequestsClose /\ HalfConfirmedSettlesUnlessFault /\ ExportsAreServed
=============================================================================
