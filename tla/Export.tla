------------------------------- MODULE Export -------------------------------
(***************************************************************************)
(* The export of an account's own data: apps that ask, poll and download,   *)
(* the data_requests rows, and the worker that reads one table after the    *)
(* other while rows come and go.  A worker may die at any step and its job  *)
(* starts anew; a job that throws is not tried again.                       *)
(***************************************************************************)
EXTENDS Naturals, FiniteSets

CONSTANTS Exports,        \* data_requests rows, numbered in the order of created_at
          Facts,          \* rows of the database that may be linked to the account
          TableOf,        \* the position of a fact's table in the order of reading
          Scrubbed,       \* facts that the deletion of the account removes
          Phones, MaxPolls, ExportsPerDay, MaxDeaths

\* Rows are numbered as they are made, tables as they are read.
Numbered(S) == IsFiniteSet(S) /\ S = 1..Cardinality(S)
ASSUME ExportAssumption ==
    /\ Numbered(Exports)
    /\ TableOf \in [Facts -> Nat \ {0}] /\ Numbered({TableOf[f] : f \in Facts})
    /\ Scrubbed \subseteq Facts
    /\ MaxPolls \in Nat /\ ExportsPerDay \in Nat /\ MaxDeaths \in Nat

VARIABLES row,            \* data_requests: none / pending / ready, and the payload
          work,           \* per row, the job and its worker
          linked,         \* facts linked to the account now
          holder,         \* active / deleted / erased
          asked,          \* the rate limiter's counter of the day
          phone,          \* what exportData has reached in each app
          notified,       \* dedupe keys of the export notifications
          deaths,
          kept            \* history: facts linked since a row was asked for

exportVars == <<row, work, linked, holder, asked, phone, notified, deaths, kept>>

Tables == {TableOf[f] : f \in Facts}
Statuses == {"none", "pending", "ready"}
JobStates == {"none", "waiting", "reading", "written", "done", "failed"}
WorkRows == [job : JobStates, next : Nat, bundle : SUBSET Facts]
PhoneStates == {"idle", "asking", "polling", "told", "shared"}
PhoneRows == [at : PhoneStates, export : Exports \cup {0}, polls : 0..MaxPolls, shared : SUBSET Facts]
NoWork == [job |-> "none", next |-> 1, bundle |-> {}]
NotAsking == [at |-> "idle", export |-> 0, polls |-> 0, shared |-> {}]
AskedRows == {e \in Exports : row[e].status # "none"}
Newest(es) == CHOOSE e \in es : \A o \in es : o <= e
Oldest(es) == CHOOSE e \in es : \A o \in es : e <= o
ReadyRows == {e \in Exports : row[e].status = "ready"}

\* GET /me/export speaks of the newest row, the download of the newest that is ready.
Advertised == AskedRows # {} /\ row[Newest(AskedRows)].status = "ready"
DownloadedOldest == row[Oldest(ReadyRows)].payload
Downloaded == row[Newest(ReadyRows)].payload

-----------------------------------------------------------------------------
\* The apps

QuotaLeft == asked < ExportsPerDay
AskForExport(p) ==
    /\ holder = "active" /\ phone[p].at = "idle" /\ QuotaLeft
    /\ \E e \in Exports \ AskedRows :
         /\ e = Cardinality(AskedRows) + 1
         /\ asked' = asked + 1
         /\ row' = [row EXCEPT ![e].status = "pending"]
         /\ kept' = [kept EXCEPT ![e] = linked]
         /\ phone' = [phone EXCEPT ![p] = [NotAsking EXCEPT !.at = "asking", !.export = e]]
    /\ UNCHANGED <<work, linked, holder, notified, deaths>>

\* The job is added after the row; when that fails the row stays pending.
QueueExport(p) ==
    /\ phone[p].at = "asking"
    /\ \/ /\ work' = [work EXCEPT ![phone[p].export].job = "waiting"]
          /\ phone' = [phone EXCEPT ![p].at = "polling"]
       \/ /\ phone' = [phone EXCEPT ![p] = NotAsking]
          /\ UNCHANGED work
    /\ UNCHANGED <<row, linked, holder, asked, notified, deaths, kept>>

Poll(p) ==
    /\ phone[p].at = "polling" /\ holder = "active" /\ phone[p].polls < MaxPolls
    /\ phone' = [phone EXCEPT ![p].polls = @ + 1, ![p].at = IF Advertised THEN "told" ELSE "polling"]
    /\ UNCHANGED <<row, work, linked, holder, asked, notified, deaths, kept>>

Download(p) ==
    /\ phone[p].at = "told" /\ holder = "active"
    /\ phone' = [phone EXCEPT ![p].at = "shared",
                              ![p].shared = IF ReadyRows = {} THEN {} ELSE Downloaded]
    /\ UNCHANGED <<row, work, linked, holder, asked, notified, deaths, kept>>

\* Polled ten times, refused, or done: the button is free again.
FreeButton(p) ==
    /\ \/ phone[p].at = "polling" /\ phone[p].polls = MaxPolls
       \/ phone[p].at \in {"polling", "told"} /\ holder # "active"
       \/ phone[p].at = "shared"
    /\ phone' = [phone EXCEPT ![p] = NotAsking]
    /\ UNCHANGED <<row, work, linked, holder, asked, notified, deaths, kept>>

-----------------------------------------------------------------------------
\* The worker

BuildsAnew(e) == TRUE
MustBuild(e) == row[e].status = "pending"
StartExport(e) ==
    /\ work[e].job = "waiting"
    /\ work' = [work EXCEPT ![e] = [NoWork EXCEPT !.job = IF MustBuild(e) THEN "reading" ELSE "done"]]
    /\ UNCHANGED <<row, linked, holder, asked, phone, notified, deaths, kept>>

InTable(f, t) == TableOf[f] = t
ReadTable(e) ==
    /\ work[e].job = "reading" /\ work[e].next \in Tables
    /\ work' = [work EXCEPT ![e].next = @ + 1,
                            ![e].bundle = @ \cup {f \in linked : InTable(f, work[e].next)}]
    /\ UNCHANGED <<row, linked, holder, asked, phone, notified, deaths, kept>>

AsReady(e) == [status |-> "ready", payload |-> work[e].bundle]
WriteExport(e) ==
    /\ work[e].job = "reading" /\ work[e].next \notin Tables
    /\ row' = [row EXCEPT ![e] = AsReady(e)]
    /\ work' = [work EXCEPT ![e].job = "written"]
    /\ UNCHANGED <<linked, holder, asked, phone, notified, deaths, kept>>

AnnounceExport(e) ==
    /\ work[e].job = "written"
    /\ notified' = notified \cup {e}
    /\ work' = [work EXCEPT ![e].job = "done"]
    /\ UNCHANGED <<row, linked, holder, asked, phone, deaths, kept>>

ExportWorkerDies(e) ==
    /\ work[e].job \in {"reading", "written"} /\ deaths < MaxDeaths
    /\ work' = [work EXCEPT ![e] = [NoWork EXCEPT !.job = "waiting"]]
    /\ deaths' = deaths + 1
    /\ UNCHANGED <<row, linked, holder, asked, phone, notified, kept>>

ExportJobFails(e) ==
    /\ work[e].job \in {"reading", "written"}
    /\ work' = [work EXCEPT ![e].job = "failed"]
    /\ UNCHANGED <<row, linked, holder, asked, phone, notified, deaths, kept>>

-----------------------------------------------------------------------------
\* The account's data, and the account

Link(f) ==
    /\ holder = "active" /\ f \notin linked /\ \A e \in AskedRows : f \notin kept[e]
    /\ linked' = linked \cup {f}
    /\ UNCHANGED <<row, work, holder, asked, phone, notified, deaths, kept>>

Unlink(fs) ==
    /\ linked' = linked \ fs
    /\ kept' = [e \in Exports |-> kept[e] \ fs]
    /\ UNCHANGED <<row, work, asked, phone, notified, deaths>>
PurgeFact(f) == f \in linked /\ Unlink({f}) /\ UNCHANGED holder

DeleteAccount ==
    /\ holder = "active" /\ holder' = "deleted"
    /\ UNCHANGED <<row, work, linked, asked, phone, notified, deaths, kept>>
EraseHolder == holder = "deleted" /\ holder' = "erased" /\ Unlink(Scrubbed)

QuotaResets ==
    /\ asked > 0 /\ asked' = 0
    /\ UNCHANGED <<row, work, linked, holder, phone, notified, deaths, kept>>

ExportInit ==
    /\ row = [e \in Exports |-> [status |-> "none", payload |-> {}]]
    /\ work = [e \in Exports |-> NoWork]
    /\ linked \in SUBSET Facts
    /\ holder = "active" /\ asked = 0 /\ deaths = 0 /\ notified = {}
    /\ phone = [p \in Phones |-> NotAsking]
    /\ kept = [e \in Exports |-> {}]
ExportWorker(e) ==
    StartExport(e) \/ ReadTable(e) \/ WriteExport(e) \/ AnnounceExport(e)
ExportNext ==
    \/ \E p \in Phones : AskForExport(p) \/ QueueExport(p) \/ Poll(p) \/ Download(p) \/ FreeButton(p)
    \/ \E e \in Exports : ExportWorker(e) \/ ExportWorkerDies(e) \/ ExportJobFails(e)
    \/ \E f \in Facts : Link(f) \/ PurgeFact(f)
    \/ DeleteAccount \/ EraseHolder \/ QuotaResets
ExportSpec == ExportInit /\ [][ExportNext]_exportVars
\* A worker runs and takes up a stalled job again.
ExportFairness == \A e \in Exports : WF_exportVars(ExportWorker(e))

-----------------------------------------------------------------------------
\* Properties

\* Type invariant of the rows, the worker and the apps (privacy/service.ts, data-request.ts).
ExportTypeOK ==
    /\ row \in [Exports -> [status : Statuses, payload : SUBSET Facts]]
    /\ work \in [Exports -> WorkRows] /\ phone \in [Phones -> PhoneRows]
    /\ linked \subseteq Facts /\ kept \in [Exports -> SUBSET Facts]
    /\ asked \in 0..ExportsPerDay

\* What an app shares holds everything that was linked to the account when that app
\* asked and is still linked: however the tables change under the worker, and whichever of
\* two exports the download serves (data-request.ts:30-178, privacy/service.ts:54-70).
SharedIsWhole ==
    \A p \in Phones : phone[p].at = "shared" => kept[phone[p].export] \subseteq phone[p].shared

\* An export that is ready never changes, also when its job is run again after a
\* worker's death (processExport: "idempotent").
ReadyStaysAsItWas ==
    [][\A e \in Exports : row[e].status = "ready" => row'[e] = row[e]]_exportVars

\* No export whose job was queued is left pending: again and again each of them is
\* ready or its job has thrown, whatever deaths of the worker come between
\* (processDataRequest, workers/index.ts:30-51).
ExportsAreServed ==
    []<>(\A e \in Exports : work[e].job \notin {"none", "failed"} => row[e].status = "ready")
=============================================================================
