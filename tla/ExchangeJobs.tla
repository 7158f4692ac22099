---------------------------- MODULE ExchangeJobs ----------------------------
(***************************************************************************)
(* The exchange with the job queue that drives it.  In Exchange.tla a       *)
(* matching pass, an offer timeout or a finalisation may run at any time;   *)
(* here it runs because a job is pending, and jobs are only added after the *)
(* transaction that needs them has committed: the process may die, or Redis *)
(* refuse, in between, and then the rows have changed and the job is lost.  *)
(* Two retention sweeps look for rows whose job was lost.                   *)
(*                                                                         *)
(* The jobs are a set: a second identical job only runs a processor again   *)
(* that re-checks its rows.  Delays are kept where they order things: an    *)
(* expiry or timeout job does not run before the deadline it waits for.     *)
(***************************************************************************)
EXTENDS Exchange

CONSTANT MaxFaults              \* bound: jobs lost or failed in a behaviour

ASSUME FaultBound == MaxFaults \in Nat

VARIABLES
    jobs,       \* pending jobs of the match and offer-timeout queues
    faults      \* how many times the queue has failed

jobVars == <<request, offer, match, item, available, blocked, event, phase, stats,
             jobs, faults>>

MatchJob(r) == <<"match", r>>
ExpiryJob(r) == <<"expiry", r>>          \* the delayed one of enqueueMatching
TimeoutJob(p) == <<"timeout", p>>
FinalizeJob(p) == <<"finalize", p>>

JobTypeOK ==
    /\ jobs \subseteq {MatchJob(r) : r \in Requests} \cup {ExpiryJob(r) : r \in Requests}
                  \cup {TimeoutJob(p) : p \in Pairs} \cup {FinalizeJob(p) : p \in Pairs}
    /\ faults \in 0 .. MaxFaults

JobInit == Init /\ jobs = {} /\ faults = 0

-----------------------------------------------------------------------------
(* The queue *)

\* From the pending jobs J, add those of K; a fault loses any of them.
Replace(J, K) ==
    \/ jobs' = J \cup K /\ UNCHANGED faults
    \/ /\ K # {} /\ faults < MaxFaults
       /\ faults' = faults + 1
       /\ \E kept \in SUBSET K : kept # K /\ jobs' = J \cup kept

Enqueue(K) == Replace(jobs, K)
Done(job, K) == Replace(jobs \ {job}, K)

NoJobs == UNCHANGED <<jobs, faults>>

ResumeForgotten(r) == {}                                                \* mutant
\* The match job that a search which resumes in this step needs.
Resume(r) ==
    IF request'[r].status = "searching" /\ request[r].status # "searching"
    THEN {MatchJob(r)} ELSE {}

-----------------------------------------------------------------------------
(* What users do *)

JobRequesterStep ==
    \E r \in Requests :
        \/ /\ CreateRequest(r) \/ RenewRequest(r) \/ ContinueRequest(r)
           /\ Enqueue({MatchJob(r), ExpiryJob(r)})
        \/ /\ CancelOpenRequest(r) \/ CancelMatchedRequest(r) \/ StopAfterPartial(r)
           /\ NoJobs

\* decline enqueues whether or not the search resumes.
JobAnswerStep ==
    \E p \in Pairs :
        \/ AcceptOffer(p) /\ NoJobs
        \/ AcceptFindsNothing(p) /\ Enqueue({MatchJob(p[1])})
        \/ \E stop \in BOOLEAN : DeclineOffer(p, stop) /\ Enqueue({MatchJob(p[1])})

JobSettleStep ==
    \E p \in Pairs, side \in Sides :
        \/ \E q \in Quantity :
              \/ ConfirmFirst(p, side, q) /\ Enqueue({FinalizeJob(p)})
              \/ ConfirmSecond(p, side, q) /\ Enqueue(Resume(p[1]))
        \/ \E unsafe \in BOOLEAN :
              CancelMatch(p, side, unsafe) /\ Enqueue(Resume(p[1]))

\* Availability matters for accounts with stock only.
JobStockStep ==
    /\ \/ \E i \in Items, on \in BOOLEAN : SetAvailability(Owner[i], on)
       \/ \E i \in Items, q \in Quantity : AddInventory(i, q)
       \/ \E i \in Items : DeleteInventory(i)
    /\ NoJobs

JobAdminStep ==
    /\ \/ \E p \in Pairs : ModerationCancel(p)
       \/ \E paused \in BOOLEAN : PatchEvent([event EXCEPT !.matchingPaused = paused], phase)
       \/ DisableEvent
    /\ NoJobs

-----------------------------------------------------------------------------
(* What workers do *)

\* The pass leaves the rows as they are and ends: a request nobody searches
\* for any more, or one whose open offer is in time.
PassHasNothingToDo(r) ==
    \/ request[r].status \notin {"searching", "offering"}
    \/ /\ ~request[r].due /\ MatchingOpen /\ request[r].status = "offering"
       /\ \E p \in OpenOffers(r) : ~offer[p].late

\* A paused event defers the pass: the job comes back after 30 s.
PassDefers(r) ==
    /\ request[r].status \in {"searching", "offering"}
    /\ ~request[r].due /\ ~MatchingOpen

\* The offer that this step makes for r.
MadeOffers(r) ==
    {p \in Pairs : p[1] = r /\ offer'[p].status = "offered" /\ offer[p].status = "none"}

RunPass(job, r) ==
    /\ job \in jobs
    /\ \/ PassHasNothingToDo(r) /\ UNCHANGED vars /\ Done(job, {})
       \/ PassDefers(r) /\ UNCHANGED vars /\ Done(job, {MatchJob(r)})
       \/ PassExpires(r) /\ Done(job, {})
       \/ PassOffers(r) /\ Done(job, {TimeoutJob(p) : p \in MadeOffers(r)})
       \/ (PassWidens(r) \/ PassIdles(r)) /\ Done(job, {MatchJob(r)})

RunMatch(r) == RunPass(MatchJob(r), r)
RunExpiry(r) ==
    /\ request[r].due \/ request[r].status \notin {"searching", "offering"}
    /\ RunPass(ExpiryJob(r), r)

RunTimeout(p) ==
    /\ TimeoutJob(p) \in jobs
    /\ \/ ExpireOffer(p) /\ Done(TimeoutJob(p), {MatchJob(p[1])})
       \/ offer[p].status # "offered" /\ UNCHANGED vars /\ Done(TimeoutJob(p), {})

\* Exactly one side has confirmed an active match.
HalfConfirmed(p) ==
    /\ match[p].status = "active"
    /\ Cardinality({side \in Sides : match[p].confirmed[side] # NoQty}) = 1

RunFinalize(p) ==
    /\ FinalizeJob(p) \in jobs
    /\ \/ /\ \E side \in Sides : AutoFinalize(p, side)
          /\ Done(FinalizeJob(p), Resume(p[1]))
       \/ ~HalfConfirmed(p) /\ UNCHANGED vars /\ Done(FinalizeJob(p), {})

\* A processor that throws (a deadlock victim, a lost connection) rolls back
\* and is not tried again.
JobFails ==
    /\ faults < MaxFaults
    /\ \E job \in jobs : jobs' = jobs \ {job}
    /\ faults' = faults + 1
    /\ UNCHANGED vars

SweepOffersOfDueRequests ==                                             \* mutant
    /\ jobs' = jobs \cup {TimeoutJob(p) : p \in {x \in Pairs :
                    offer[x].status = "offered" /\ request[x[1]].due}}
    /\ UNCHANGED vars /\ UNCHANGED faults
\* expire_requests and expire_offers, once a minute.
SweepRequests ==
    /\ jobs' = jobs \cup {MatchJob(r) : r \in {x \in Requests :
                    request[x].status \in {"searching", "offering"} /\ request[x].due}}
    /\ UNCHANGED vars /\ UNCHANGED faults

SweepOffers ==
    /\ jobs' = jobs \cup {TimeoutJob(p) : p \in {x \in Pairs :
                    offer[x].status = "offered" /\ offer[x].late}}
    /\ UNCHANGED vars /\ UNCHANGED faults

JobDeadlines ==
    /\ \/ \E r \in Requests : RequestDeadline(r)
       \/ \E p \in Pairs : OfferDeadline(p)
    /\ NoJobs

JobNext ==
    \/ JobRequesterStep \/ JobAnswerStep \/ JobSettleStep \/ JobStockStep \/ JobAdminStep
    \/ \E r \in Requests : RunMatch(r) \/ RunExpiry(r)
    \/ \E p \in Pairs : RunTimeout(p) \/ RunFinalize(p)
    \/ JobFails \/ SweepRequests \/ SweepOffers \/ JobDeadlines

\* Offer deadlines (45 s) pass, workers take pending jobs, sweeps recur.  Users
\* owe nothing, and a request's own deadline may be as far off as one likes.
Fairness ==
    /\ \A r \in Requests :
          WF_jobVars(RunMatch(r)) /\ WF_jobVars(RunExpiry(r))
    /\ \A p \in Pairs :
          /\ WF_jobVars(RunTimeout(p)) /\ WF_jobVars(RunFinalize(p))
          /\ WF_jobVars(OfferDeadline(p) /\ NoJobs)
    /\ WF_jobVars(SweepRequests) /\ WF_jobVars(SweepOffers)

JobSpec == JobInit /\ [][JobNext]_jobVars /\ Fairness

-----------------------------------------------------------------------------
(* Properties *)

\* While the queue has not failed, whatever waits for the system has its job
\* pending: a search its pass, an open offer its timeout, a half-confirmed match
\* its finalisation.  No path forgets to enqueue.
EveryWaitHasItsJob ==
    faults = 0 =>
        /\ \A r \in Requests : request[r].status = "searching" => MatchJob(r) \in jobs
        /\ \A p \in Pairs :
              /\ offer[p].status = "offered" => TimeoutJob(p) \in jobs
              /\ HalfConfirmed(p) => FinalizeJob(p) \in jobs

\* A helper is not kept on an open offer for ever: it is answered, expired or
\* superseded, also when its timeout job was lost.
OffersResolve ==
    \A p \in Pairs : (offer[p].status = "offered") ~> (offer[p].status # "offered")

\* A request past expires_at stops searching, also when its jobs were lost.
DueRequestsClose ==
    \A r \in Requests :
        LET waiting == request[r].status \in {"searching", "offering"} /\ request[r].due
        IN  waiting ~> ~waiting

\* A single confirmation settles, or the match is cancelled (request-states.md:
\* "One side confirmed, grace elapsed": auto-close).  The code refutes it once a
\* finalise job is lost: no sweep looks for the match.
HalfConfirmedSettles == \A p \in Pairs : HalfConfirmed(p) ~> ~HalfConfirmed(p)

\* While the queue does not fail, a single confirmation does settle, whichever
\* side gave it.
HalfConfirmedSettlesUnlessFault ==
    \A p \in Pairs : HalfConfirmed(p) ~> (~HalfConfirmed(p) \/ faults > 0)

=============================================================================
