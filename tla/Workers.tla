------------------------------- MODULE Workers -------------------------------
(***************************************************************************)
(* What workers do beside the services: the job queue (ExchangeJobs), the   *)
(* deletion of accounts (AccountDeletion), the export of data (Export).     *)
(* The first two each take the exchange's steps with something of their     *)
(* own, so a behaviour takes those of one of them: the other has nothing    *)
(* to do.  The export reads tables of its own.                              *)
(***************************************************************************)
EXTENDS ExchangeJobs, AccountDeletion, Export

NoDeletion ==
    /\ deletion = [u \in Users |-> "none"] /\ listed = [u \in Users |-> {}] /\ crashes = 0
    /\ late = 0 /\ raced = [u \in Users |-> {}]
    /\ [][FALSE]_<<deletion, listed, crashes, late, raced>>
\* A queue that has failed for good, as often as it may.
DeadQueue == jobs = {} /\ faults = MaxFaults /\ [][FALSE]_<<jobs, faults>>
WorkersSpec ==
    /\ (JobSpec /\ NoDeletion) \/ (DeletionSpec /\ DeadQueue)
    /\ ExportSpec

\* Type invariant of the queue, the deletion and the export.
JobsTypeOK == JobTypeOK /\ DeletionTypeOK /\ ExportTypeOK
=============================================================================
