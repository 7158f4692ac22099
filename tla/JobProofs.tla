------------------------------ MODULE JobProofs ------------------------------
(***************************************************************************)
(* The job queue and the deletion of accounts beside the exchange: each of *)
(* their steps is a step of the exchange, so that all that is proved of    *)
(* the exchange holds of both; no path forgets to enqueue the job that a   *)
(* waiting row needs; a deleted account keeps only races; and the export  *)
(* an app shares is whole.                                                 *)
(***************************************************************************)
EXTENDS ExchangeProofs, Workers, WellFoundedInduction

-----------------------------------------------------------------------------
(* The queue takes the steps of the exchange *)

LEMMA JobStepIsStep == StepInv /\ [JobNext]_jobVars => [Next]_vars
  <1> SUFFICES ASSUME StepInv, [JobNext]_jobVars PROVE Next \/ UNCHANGED vars
    OBVIOUS
  <1>1. CASE JobRequesterStep
    <2>1. PICK r \in Requests : \/ CreateRequest(r) \/ RenewRequest(r) \/ ContinueRequest(r)
                                \/ CancelOpenRequest(r) \/ CancelMatchedRequest(r)
                                \/ StopAfterPartial(r)
      BY <1>1 DEF JobRequesterStep
    <2> QED
      BY <2>1 DEF Next, RequesterStep
  <1>2. CASE JobAnswerStep
    <2>1. PICK p \in Pairs : \/ AcceptOffer(p) \/ AcceptFindsNothing(p)
                             \/ \E stop \in BOOLEAN : DeclineOffer(p, stop)
      BY <1>2 DEF JobAnswerStep
    <2> QED
      BY <2>1 DEF Next, HelperStep
  <1>3. CASE JobSettleStep
    <2>1. PICK p \in Pairs, side \in Sides :
             \/ \E q \in Quantity : ConfirmFirst(p, side, q) \/ ConfirmSecond(p, side, q)
             \/ \E unsafe \in BOOLEAN : CancelMatch(p, side, unsafe)
      BY <1>3 DEF JobSettleStep
    <2>2. MatchStep
      BY <2>1 DEF MatchStep
    <2> QED
      BY <2>2 DEF Next
  <1>4. CASE JobStockStep
    <2>1. CASE \E i \in Items, on \in BOOLEAN : SetAvailability(Owner[i], on)
      <3>1. \A i \in Items : Owner[i] \in Users
        BY Ownership
      <3> QED
        BY <2>1, <3>1 DEF Next, HelperStep
    <2>2. CASE \/ \E i \in Items, q \in Quantity : AddInventory(i, q)
               \/ \E i \in Items : DeleteInventory(i)
      BY <2>2 DEF Next, HelperStep
    <2> QED
      BY <1>4, <2>1, <2>2 DEF JobStockStep
  <1>5. CASE JobAdminStep
    <2>1. CASE \E p \in Pairs : ModerationCancel(p)
      BY <2>1 DEF Next, MatchStep
    <2>2. CASE \E paused \in BOOLEAN : PatchEvent([event EXCEPT !.matchingPaused = paused], phase)
      <3>1. PICK paused \in BOOLEAN : PatchEvent([event EXCEPT !.matchingPaused = paused], phase)
        BY <2>2
      <3>2. [event EXCEPT !.matchingPaused = paused] \in EventRow
        BY DEF StepInv, StockInv, TypeOK, EventRow
      <3>3. phase \in Phases
        BY DEF StepInv, StockInv, TypeOK
      <3> QED
        BY <3>1, <3>2, <3>3 DEF Next, AdminStep
    <2>3. CASE DisableEvent
      BY <2>3 DEF Next, AdminStep
    <2> QED
      BY <1>5, <2>1, <2>2, <2>3 DEF JobAdminStep
  <1>6. CASE \E r \in Requests : RunMatch(r) \/ RunExpiry(r)
    <2>1. PICK r \in Requests : UNCHANGED vars \/ Pass(r)
      BY <1>6 DEF RunMatch, RunExpiry, RunPass, Pass
    <2> QED
      BY <2>1 DEF Next, SystemStep
  <1>7. CASE \E p \in Pairs : RunTimeout(p) \/ RunFinalize(p)
    <2>1. PICK p \in Pairs : \/ UNCHANGED vars \/ ExpireOffer(p)
                             \/ \E side \in Sides : AutoFinalize(p, side)
      BY <1>7 DEF RunTimeout, RunFinalize
    <2> QED
      BY <2>1 DEF Next, SystemStep
  <1>8. CASE JobFails \/ SweepRequests \/ SweepOffers
    BY <1>8 DEF JobFails, SweepRequests, SweepOffers
  <1>9. CASE JobDeadlines
    BY <1>9 DEF JobDeadlines, Next, ClockStep
  <1>10. CASE UNCHANGED jobVars
    BY <1>10 DEF jobVars, vars
  <1> QED
    BY <1>1, <1>2, <1>3, <1>4, <1>5, <1>6, <1>7, <1>8, <1>9, <1>10 DEF JobNext

\* Whatever jobs are pending, late or lost, what they do to the rows is what Exchange.tla
\* allows: what is proved of the exchange holds of the exchange with its queue.
THEOREM JobsRunTheExchange == JobSpec => Spec
  <1>1. JobInit => Init /\ StepInv
    BY StepInit DEF JobInit
  <1>2. StepInv /\ [JobNext]_jobVars => [Next]_vars /\ StepInv'
    BY JobStepIsStep, StepInvKept
  <1> QED
    BY <1>1, <1>2, PTL DEF JobSpec, Spec

-----------------------------------------------------------------------------
(* Waits *)

\* After this step nothing waits that did not wait before, but for the searches of R,
\* the open offers P and the half-confirmed matches H.
NewWaits(R, P, H) ==
    /\ \A r \in Requests \ R :
          request'[r].status = "searching" => request[r].status = "searching"
    /\ \A p \in Pairs \ P : offer'[p].status = "offered" => offer[p].status = "offered"
    /\ \A p \in Pairs \ H : HalfConfirmed(p)' => HalfConfirmed(p)

\* Jobs of J, and the jobs of K that are added, cover what waits after the step.
Covers(J, K) ==
    /\ \A r \in Requests : request'[r].status = "searching" =>
          \/ MatchJob(r) \in K
          \/ request[r].status = "searching" /\ (MatchJob(r) \in jobs => MatchJob(r) \in J)
    /\ \A p \in Pairs :
          /\ offer'[p].status = "offered" =>
                \/ TimeoutJob(p) \in K
                \/ offer[p].status = "offered" /\ (TimeoutJob(p) \in jobs => TimeoutJob(p) \in J)
          /\ HalfConfirmed(p)' =>
                \/ FinalizeJob(p) \in K
                \/ HalfConfirmed(p) /\ (FinalizeJob(p) \in jobs => FinalizeJob(p) \in J)

LEMMA CoveredWaits ==
    ASSUME JobTypeOK, EveryWaitHasItsJob, NEW J, NEW K, Replace(J, K), Covers(J, K)
    PROVE  EveryWaitHasItsJob'
  <1> SUFFICES ASSUME faults' = 0
               PROVE  /\ \A r \in Requests : request'[r].status = "searching" => MatchJob(r) \in jobs'
                      /\ \A p \in Pairs :
                            /\ offer'[p].status = "offered" => TimeoutJob(p) \in jobs'
                            /\ HalfConfirmed(p)' => FinalizeJob(p) \in jobs'
    BY DEF EveryWaitHasItsJob, MatchJob, TimeoutJob, FinalizeJob
  <1>1. faults \in Nat
    BY FaultBound DEF JobTypeOK
  <1>2. jobs' = J \cup K /\ faults = 0
    BY <1>1 DEF Replace
  <1> QED
    BY <1>2 DEF EveryWaitHasItsJob, Covers

\* A step after which nothing new waits may leave the queue alone.
LEMMA NothingToEnqueue ==
    ASSUME JobTypeOK, EveryWaitHasItsJob, NoJobs, NewWaits({}, {}, {})
    PROVE  EveryWaitHasItsJob'
  <1>1. Replace(jobs, {})
    BY DEF NoJobs, Replace
  <1>2. Covers(jobs, {})
    BY DEF NewWaits, Covers
  <1> QED
    BY <1>1, <1>2, CoveredWaits

\* Half-confirmed is a matter of the match's own row.
LEMMA HalfSame ==
    ASSUME NEW p, match'[p].status = match[p].status, match'[p].confirmed = match[p].confirmed
    PROVE  HalfConfirmed(p)' = HalfConfirmed(p)
  BY DEF HalfConfirmed

LEMMA HalvesSame ==
    ASSUME match' = match
    PROVE  \A p \in Pairs : HalfConfirmed(p)' = HalfConfirmed(p)
  BY HalfSame

-----------------------------------------------------------------------------
(* What waits after each transaction *)

LEMMA AskWaits ==
    ASSUME TypeOK, NEW r \in Requests, CreateRequest(r) \/ RenewRequest(r) \/ ContinueRequest(r)
    PROVE  NewWaits({r}, {}, {})
  <1>1. \A x \in Requests \ {r} : request'[x] = request[x]
    BY DEF TypeOK, CreateRequest, RenewRequest, ContinueRequest, Reopened
  <1>2. UNCHANGED <<offer, match>>
    BY DEF CreateRequest, RenewRequest, ContinueRequest
  <1> QED
    BY <1>1, <1>2, HalvesSame DEF NewWaits

\* A request that is closed waits for nothing, nor do the offers that are closed with it.
LEMMA CloseWaits ==
    ASSUME TypeOK, NEW r \in Requests, NEW to \in {"fulfilled", "cancelled", "expired", "no_match"},
           request' = Closing(r, to), match' = match,
           offer' = offer \/ offer' = CloseOffers({r}, "superseded")
    PROVE  NewWaits({}, {}, {})
  <1>1. /\ \A x \in Requests \ {r} : request'[x] = request[x]
        /\ request'[r].status = to
    BY DEF TypeOK, RequestRow, Closing
  <1>2. \A p \in Pairs : offer'[p].status \in {offer[p].status, "superseded"}
    BY DEF TypeOK, OfferRow, CloseOffers
  <1> QED
    BY <1>1, <1>2, HalvesSame DEF NewWaits

LEMMA AnswerWaits ==
    ASSUME TypeOK, NEW p \in Pairs, NEW stop,
           ExpireOffer(p) \/ DeclineOffer(p, stop) \/ AcceptFindsNothing(p)
    PROVE  NewWaits({p[1]}, {}, {}) /\ offer'[p].status # "offered"
  <1>1. /\ match' = match
        /\ request' = request \/ request' = Moved(p[1], "searching")
        /\ \E to \in {"expired", "declined"} : offer' = [offer EXCEPT ![p].status = to]
    BY DEF ExpireOffer, DeclineOffer, AcceptFindsNothing, SearchResumes
  <1>2. \A x \in Requests \ {p[1]} : request'[x] = request[x]
    BY <1>1 DEF TypeOK, Moved
  <1>3. offer'[p].status # "offered" /\ \A o \in Pairs \ {p} : offer'[o] = offer[o]
    BY <1>1 DEF TypeOK, OfferRow
  <1> QED
    BY <1>1, <1>2, <1>3, HalvesSame DEF NewWaits

LEMMA AcceptWaits ==
    ASSUME TypeOK, NEW p \in Pairs, AcceptOffer(p)
    PROVE  NewWaits({}, {}, {})
  <1> DEFINE m == [NoMatch EXCEPT !.status = "active", !.item = offer[p].item,
                                  !.qty = Reservable(p), !.conversation = "open"]
  <1>1. /\ p[1] \in Requests
        /\ request' = Moved(p[1], "matched")
        /\ offer' = [offer EXCEPT ![p].status = "accepted"]
        /\ match' = [match EXCEPT ![p] = m]
    BY DEF AcceptOffer, Pairs
  <1>2. \A r \in Requests : request'[r].status \in {request[r].status, "matched"}
    BY <1>1 DEF TypeOK, RequestRow, Moved
  <1>3. \A o \in Pairs : offer'[o].status \in {offer[o].status, "accepted"}
    BY <1>1 DEF TypeOK, OfferRow
  <1>4. m.confirmed = [s \in Sides |-> NoQty]
    BY DEF NoMatch
  <1> HIDE DEF m
  <1>5. match'[p] = m /\ \A o \in Pairs \ {p} : match'[o] = match[o]
    BY <1>1 DEF TypeOK
  <1>6. \A o \in Pairs \ {p} : HalfConfirmed(o)' = HalfConfirmed(o)
    BY <1>5, HalfSame
  <1>7. ~HalfConfirmed(p)'
    <2>1. {side \in Sides : match'[p].confirmed[side] # NoQty} = {}
      BY <1>4, <1>5
    <2>2. Cardinality({side \in Sides : match'[p].confirmed[side] # NoQty}) = 0
      BY <2>1, FS_EmptySet
    <2> QED
      BY <2>2 DEF HalfConfirmed
  <1> QED
    BY <1>2, <1>3, <1>6, <1>7 DEF NewWaits

LEMMA ConfirmWaits ==
    ASSUME TypeOK, NEW p \in Pairs, NEW side, NEW q, ConfirmFirst(p, side, q)
    PROVE  NewWaits({}, {}, {p})
  <1>1. UNCHANGED <<request, offer>> /\ \A o \in Pairs \ {p} : match'[o] = match[o]
    BY DEF ConfirmFirst, TypeOK
  <1>2. \A o \in Pairs \ {p} : HalfConfirmed(o)' = HalfConfirmed(o)
    BY <1>1, HalfSame
  <1> QED
    BY <1>1, <1>2 DEF NewWaits

\* A match that ends in this step waits for nothing; its request may search again.
LEMMA EndWaits ==
    ASSUME NEW p \in Pairs, offer' = offer, RequestsKept({p[1]}), MatchesKept({p}),
           \A o \in Pairs \ {p} : match'[o] = match[o], match'[p].status # "active"
    PROVE  NewWaits({p[1]}, {}, {}) /\ ~HalfConfirmed(p)'
  <1>1. \A o \in Pairs \ {p} : HalfConfirmed(o)' = HalfConfirmed(o)
    BY HalfSame
  <1>2. ~HalfConfirmed(p)'
    BY DEF HalfConfirmed
  <1> QED
    BY <1>1, <1>2 DEF NewWaits, RequestsKept, RequestKept

LEMMA SettleWaits ==
    ASSUME TypeOK, NEW p \in Pairs, NEW confirmed, NEW final, NEW disputed \in BOOLEAN,
           Settle(p, confirmed, final, disputed)
    PROVE  NewWaits({p[1]}, {}, {}) /\ ~HalfConfirmed(p)'
  <1> DEFINE outcome == IF disputed THEN "disputed"
                        ELSE IF request[p[1]].fulfilled + final >= Qty[p[1]]
                             THEN "completed" ELSE "partially_completed"
             m == [match[p] EXCEPT !.status = outcome, !.confirmed = confirmed,
                                   !.inventoryApplied = TRUE, !.reliabilityApplied = TRUE,
                                   !.grace = TRUE]
  <1>1. offer' = offer /\ match' = [match EXCEPT ![p] = m]
    BY DEF Settle
  <1>2. RequestsKept({p[1]})
    BY DEF Settle, TypeOK, RequestsKept, RequestKept
  <1>3. match[p] \in MatchRow
    BY DEF TypeOK
  <1>4. m.status = outcome /\ outcome # "active"
    BY <1>3 DEF MatchRow
  <1> HIDE DEF m, outcome
  <1>5. match'[p] = m /\ \A o \in Pairs \ {p} : match'[o] = match[o]
    BY <1>1 DEF TypeOK
  <1>6. MatchesKept({p})
    BY <1>5 DEF MatchesKept, MatchKept
  <1> QED
    BY <1>1, <1>2, <1>4, <1>5, <1>6, EndWaits

LEMMA CancelWaits ==
    ASSUME TypeOK, NEW p \in Pairs, NEW actor, NEW unsafe, CancelMatch(p, actor, unsafe)
    PROVE  NewWaits({p[1]}, {}, {}) /\ ~HalfConfirmed(p)'
  <1> DEFINE to == [moderator |-> "moderated", requester |-> "cancelled",
                    helper |-> "searching"][actor]
             outcome == IF actor = "moderator" THEN "cancelled_moderation"
                        ELSE IF unsafe THEN "cancelled_unsafe"
                        ELSE IF actor = "requester" THEN "cancelled_by_requester"
                        ELSE "cancelled_by_helper"
             chat == IF CutsChat(actor, unsafe) THEN "readonly" ELSE match[p].conversation
             m == [match[p] EXCEPT !.status = outcome, !.inventoryApplied = TRUE,
                                   !.grace = TRUE, !.conversation = chat]
  <1>1. /\ offer' = offer /\ match' = [match EXCEPT ![p] = m]
        /\ request' = Moved(p[1], to) \/ request' = Closing(p[1], to)
    BY DEF CancelMatch
  <1> HIDE DEF to
  <1>2. RequestsKept({p[1]})
    BY <1>1 DEF Moved, Closing, TypeOK, RequestsKept, RequestKept
  <1>3. match[p] \in MatchRow
    BY DEF TypeOK
  <1>4. m.status = outcome /\ outcome # "active"
    BY <1>3 DEF MatchRow
  <1> HIDE DEF m, outcome
  <1>5. match'[p] = m /\ \A o \in Pairs \ {p} : match'[o] = match[o]
    BY <1>1 DEF TypeOK
  <1>6. MatchesKept({p})
    BY <1>5 DEF MatchesKept, MatchKept
  <1> QED
    BY <1>1, <1>2, <1>4, <1>5, <1>6, EndWaits

\* Only a helper's cancel makes the request search again.
LEMMA ClosingCancelWaits ==
    ASSUME TypeOK, NEW p \in Pairs, NEW actor \in {"requester", "moderator"}, NEW unsafe,
           CancelMatch(p, actor, unsafe)
    PROVE  NewWaits({}, {}, {})
  <1>1. NewWaits({p[1]}, {}, {})
    BY CancelWaits
  <1>2. /\ p[1] \in Requests
        /\ \E to \in {"cancelled", "moderated"} : request' = Closing(p[1], to)
    BY DEF CancelMatch, Pairs
  <1>3. request'[p[1]].status # "searching"
    BY <1>2 DEF Closing, TypeOK, RequestRow
  <1> QED
    BY <1>1, <1>3 DEF NewWaits

LEMMA DisableWaits ==
    ASSUME TypeOK, DisableEvent
    PROVE  NewWaits({}, {}, {})
  <1> DEFINE Q == OpenRequests(Requests)
  <1>1. /\ match' = match /\ offer' = CloseOffers(Q, "superseded")
        /\ request' = [r \in Requests |-> IF r \in Q
                                          THEN [request[r] EXCEPT !.status = "moderated", !.closed = TRUE]
                                          ELSE request[r]]
    BY DEF DisableEvent, CloseRequests
  <1> HIDE DEF Q
  <1>2. \A r \in Requests : request'[r].status \in {request[r].status, "moderated"}
    <2>1. \A r \in Requests : request[r] \in RequestRow
      BY DEF TypeOK
    <2> QED
      BY <1>1, <2>1 DEF RequestRow
  <1>3. \A p \in Pairs : offer'[p].status \in {offer[p].status, "superseded"}
    BY <1>1 DEF TypeOK, OfferRow, CloseOffers
  <1> QED
    BY <1>1, <1>2, <1>3, HalvesSame DEF NewWaits

LEMMA NothingMoves ==
    ASSUME UNCHANGED <<request, offer, match>>
    PROVE  NewWaits({}, {}, {})
  BY HalvesSame DEF NewWaits

\* Deadlines pass.
LEMMA DeadlineWaits ==
    ASSUME TypeOK,
           \/ \E r \in Requests : RequestDeadline(r)
           \/ \E p \in Pairs : OfferDeadline(p)
    PROVE  NewWaits({}, {}, {})
  <1>1. match' = match
    BY DEF RequestDeadline, OfferDeadline
  <1>2. \A r \in Requests : request'[r].status = request[r].status
    BY DEF RequestDeadline, OfferDeadline, TypeOK, RequestRow
  <1>3. \A p \in Pairs : offer'[p].status = offer[p].status
    BY DEF RequestDeadline, OfferDeadline, TypeOK, OfferRow
  <1> QED
    BY <1>1, <1>2, <1>3, HalvesSame DEF NewWaits

LEMMA PassWaits ==
    ASSUME TypeOK, NEW r \in Requests
    PROVE  /\ PassExpires(r) => NewWaits({}, {}, {}) /\ request'[r].status # "searching"
           /\ PassOffers(r) => NewWaits({}, MadeOffers(r), {}) /\ request'[r].status # "searching"
           /\ PassWidens(r) \/ PassIdles(r) => NewWaits({r}, {}, {})
  <1>s. \A p \in Pairs : SweptOffers(r)[p].status \in {offer[p].status, "expired"}
    BY DEF TypeOK, OfferRow, SweptOffers, CloseOffers
  <1>1. ASSUME PassExpires(r)
        PROVE  NewWaits({}, {}, {}) /\ request'[r].status # "searching"
    <2>1. PICK to \in {"expired", "no_match"} : request' = Closing(r, to)
      BY <1>1 DEF PassExpires
    <2>2. match' = match /\ offer' = CloseOffers({r}, "superseded")
      BY <1>1 DEF PassExpires
    <2>3. request'[r].status # "searching"
      BY <2>1 DEF TypeOK, RequestRow, Closing
    <2> QED
      BY <2>1, <2>2, <2>3, CloseWaits
  <1>2. ASSUME PassOffers(r)
        PROVE  NewWaits({}, MadeOffers(r), {}) /\ request'[r].status # "searching"
    <2>1. PICK c \in Candidates(r) :
             /\ offer' = [SweptOffers(r) EXCEPT
                             ![<<r, c[1]>>] = [status |-> "offered", late |-> FALSE,
                                               item |-> c[2],
                                               qty |-> Min2(Remaining(r), Free(c[2]))]]
             /\ request' = Moved(r, "offering") /\ match' = match
      BY <1>2 DEF PassOffers
    <2>2. <<r, c[1]>> \in Pairs /\ <<r, c[1]>>[1] = r /\ offer[<<r, c[1]>>].status = "none"
      BY DEF Candidates, Eligible, Pairs
    <2>3. /\ offer'[<<r, c[1]>>].status = "offered"
          /\ \A p \in Pairs \ {<<r, c[1]>>} : offer'[p] = SweptOffers(r)[p]
      BY <2>1, <2>2, SweptTypes
    <2>4. <<r, c[1]>> \in MadeOffers(r)
      BY <2>2, <2>3 DEF MadeOffers
    <2>5. \A p \in Pairs \ MadeOffers(r) :
             offer'[p].status = "offered" => offer[p].status = "offered"
      BY <1>s, <2>3, <2>4
    <2>6. request'[r].status = "offering" /\ \A x \in Requests \ {r} : request'[x] = request[x]
      BY <2>1 DEF TypeOK, RequestRow, Moved
    <2> QED
      BY <2>1, <2>5, <2>6, HalvesSame DEF NewWaits
  <1>3. ASSUME PassWidens(r) \/ PassIdles(r)
        PROVE  NewWaits({r}, {}, {})
    <2>1. match' = match /\ offer' = SweptOffers(r)
      BY <1>3 DEF PassWidens, PassIdles
    <2>2. \A x \in Requests \ {r} : request'[x] = request[x]
      BY <1>3 DEF PassWidens, PassIdles, Moved, TypeOK
    <2> QED
      BY <1>s, <2>1, <2>2, HalvesSame DEF NewWaits
  <1> QED
    BY <1>1, <1>2, <1>3

-----------------------------------------------------------------------------
(* No path forgets to enqueue *)

\* Jobs are added for what is new.
LEMMA EnqueueCovers ==
    ASSUME JobTypeOK, EveryWaitHasItsJob, NEW R, NEW H, NEW K, Enqueue(K),
           NewWaits(R, {}, H),
           \A r \in R : \/ MatchJob(r) \in K
                        \/ request'[r].status = "searching" => request[r].status = "searching",
           \A p \in H : FinalizeJob(p) \in K
    PROVE  EveryWaitHasItsJob'
  <1>1. Replace(jobs, K)
    BY DEF Enqueue
  <1>2. Covers(jobs, K)
    BY DEF NewWaits, Covers
  <1> QED
    BY <1>1, <1>2, CoveredWaits

\* A job is taken off the queue when what it was for is over, or is added again.
LEMMA DoneCovers ==
    ASSUME JobTypeOK, EveryWaitHasItsJob, NEW R, NEW P, NEW job, NEW K, Done(job, K),
           NewWaits(R, P, {}),
           \A r \in R : \/ MatchJob(r) \in K
                        \/ request'[r].status = "searching" => request[r].status = "searching",
           \A p \in P : TimeoutJob(p) \in K,
           \A r \in Requests : job = MatchJob(r) =>
               MatchJob(r) \in K \/ request'[r].status # "searching",
           \A p \in Pairs : job = TimeoutJob(p) => offer'[p].status # "offered",
           \A p \in Pairs : job = FinalizeJob(p) => ~HalfConfirmed(p)'
    PROVE  EveryWaitHasItsJob'
  <1> DEFINE J == jobs \ {job}
  <1>1. Replace(J, K)
    BY DEF Done
  <1>2. Covers(J, K)
    <2>1. \A r \in Requests : request'[r].status = "searching" =>
             \/ MatchJob(r) \in K
             \/ request[r].status = "searching" /\ (MatchJob(r) \in jobs => MatchJob(r) \in J)
      BY DEF NewWaits
    <2>2. \A p \in Pairs : offer'[p].status = "offered" =>
             \/ TimeoutJob(p) \in K
             \/ offer[p].status = "offered" /\ (TimeoutJob(p) \in jobs => TimeoutJob(p) \in J)
      BY DEF NewWaits
    <2>3. \A p \in Pairs : HalfConfirmed(p)' =>
             HalfConfirmed(p) /\ (FinalizeJob(p) \in jobs => FinalizeJob(p) \in J)
      BY DEF NewWaits
    <2> HIDE DEF J
    <2> QED
      BY <2>1, <2>2, <2>3 DEF Covers
  <1> HIDE DEF J
  <1> QED
    BY <1>1, <1>2, CoveredWaits

\* The queue gains jobs while the rows stay as they are.
LEMMA SweepCovers ==
    ASSUME EveryWaitHasItsJob, UNCHANGED vars, jobs \subseteq jobs', faults' = faults
    PROVE  EveryWaitHasItsJob'
  <1>1. UNCHANGED <<request, offer, match>>
    BY DEF vars
  <1>2. \A p \in Pairs : HalfConfirmed(p)' = HalfConfirmed(p)
    BY <1>1, HalvesSame
  <1> QED
    BY <1>1, <1>2 DEF EveryWaitHasItsJob, MatchJob, TimeoutJob, FinalizeJob

LEMMA RunPassCovers ==
    ASSUME TypeOK, JobTypeOK, EveryWaitHasItsJob, NEW r \in Requests,
           NEW job \in {MatchJob(r), ExpiryJob(r)}, RunPass(job, r)
    PROVE  EveryWaitHasItsJob'
  <1>j. /\ \A x \in Requests : job = MatchJob(x) => x = r
        /\ \A p \in Pairs : job # TimeoutJob(p) /\ job # FinalizeJob(p)
    BY DEF MatchJob, ExpiryJob, TimeoutJob, FinalizeJob
  <1>1. CASE PassHasNothingToDo(r) /\ UNCHANGED vars /\ Done(job, {})
    <2>1. NewWaits({}, {}, {}) /\ request'[r].status # "searching"
      BY <1>1, NothingMoves DEF vars, PassHasNothingToDo
    <2> QED
      BY <1>1, <1>j, <2>1, DoneCovers
  <1>2. CASE PassDefers(r) /\ UNCHANGED vars /\ Done(job, {MatchJob(r)})
    <2>1. NewWaits({}, {}, {})
      BY <1>2, NothingMoves DEF vars
    <2> QED
      BY <1>2, <1>j, <2>1, DoneCovers
  <1>3. CASE PassExpires(r) /\ Done(job, {})
    <2>1. NewWaits({}, {}, {}) /\ request'[r].status # "searching"
      BY <1>3, PassWaits
    <2> QED
      BY <1>3, <1>j, <2>1, DoneCovers
  <1>4. CASE PassOffers(r) /\ Done(job, {TimeoutJob(p) : p \in MadeOffers(r)})
    <2> DEFINE K == {TimeoutJob(p) : p \in MadeOffers(r)}
               P == MadeOffers(r)
    <2>1. NewWaits({}, P, {}) /\ request'[r].status # "searching"
      BY <1>4, PassWaits
    <2>2. \A p \in P : TimeoutJob(p) \in K
      OBVIOUS
    <2>3. Done(job, K)
      BY <1>4
    <2> HIDE DEF K, P
    <2> QED
      BY <1>j, <2>1, <2>2, <2>3, DoneCovers
  <1>5. CASE (PassWidens(r) \/ PassIdles(r)) /\ Done(job, {MatchJob(r)})
    <2>1. NewWaits({r}, {}, {})
      BY <1>5, PassWaits
    <2> QED
      BY <1>5, <1>j, <2>1, DoneCovers
  <1> QED
    BY <1>1, <1>2, <1>3, <1>4, <1>5 DEF RunPass

LEMMA RunTimeoutCovers ==
    ASSUME TypeOK, JobTypeOK, EveryWaitHasItsJob, NEW p \in Pairs, RunTimeout(p)
    PROVE  EveryWaitHasItsJob'
  <1> DEFINE job == TimeoutJob(p)
  <1>j. /\ \A r \in Requests : job # MatchJob(r)
        /\ \A o \in Pairs : (job = TimeoutJob(o) => o = p) /\ job # FinalizeJob(o)
    BY DEF MatchJob, TimeoutJob, FinalizeJob
  <1>1. CASE ExpireOffer(p) /\ Done(job, {MatchJob(p[1])})
    <2>1. NewWaits({p[1]}, {}, {}) /\ offer'[p].status # "offered"
      BY <1>1, AnswerWaits
    <2> HIDE DEF job
    <2> QED
      BY <1>1, <1>j, <2>1, DoneCovers
  <1>2. CASE offer[p].status # "offered" /\ UNCHANGED vars /\ Done(job, {})
    <2>1. NewWaits({}, {}, {}) /\ offer'[p].status # "offered"
      BY <1>2, NothingMoves DEF vars
    <2> HIDE DEF job
    <2> QED
      BY <1>2, <1>j, <2>1, DoneCovers
  <1> QED
    BY <1>1, <1>2 DEF RunTimeout

LEMMA RunFinalizeCovers ==
    ASSUME TypeOK, JobTypeOK, EveryWaitHasItsJob, NEW p \in Pairs, RunFinalize(p)
    PROVE  EveryWaitHasItsJob'
  <1> DEFINE job == FinalizeJob(p)
  <1>j. /\ \A r \in Requests : job # MatchJob(r)
        /\ \A o \in Pairs : (job = FinalizeJob(o) => o = p) /\ job # TimeoutJob(o)
    BY DEF MatchJob, TimeoutJob, FinalizeJob
  <1>1. CASE (\E side \in Sides : AutoFinalize(p, side)) /\ Done(job, Resume(p[1]))
    <2>1. NewWaits({p[1]}, {}, {}) /\ ~HalfConfirmed(p)'
      BY <1>1, SettleWaits DEF AutoFinalize
    <2>2. \/ MatchJob(p[1]) \in Resume(p[1])
          \/ request'[p[1]].status = "searching" => request[p[1]].status = "searching"
      BY DEF Resume
    <2> HIDE DEF job
    <2> QED
      BY <1>1, <1>j, <2>1, <2>2, DoneCovers
  <1>2. CASE ~HalfConfirmed(p) /\ UNCHANGED vars /\ Done(job, {})
    <2>1. NewWaits({}, {}, {}) /\ ~HalfConfirmed(p)'
      BY <1>2, NothingMoves DEF vars, NewWaits
    <2> HIDE DEF job
    <2> QED
      BY <1>2, <1>j, <2>1, DoneCovers
  <1> QED
    BY <1>1, <1>2 DEF RunFinalize

LEMMA UserJobs ==
    ASSUME TypeOK, JobTypeOK, EveryWaitHasItsJob,
           JobRequesterStep \/ JobAnswerStep \/ JobSettleStep
    PROVE  EveryWaitHasItsJob'
  <1>1. CASE JobRequesterStep
    <2>1. PICK r \in Requests :
             \/ /\ CreateRequest(r) \/ RenewRequest(r) \/ ContinueRequest(r)
                /\ Enqueue({MatchJob(r), ExpiryJob(r)})
             \/ /\ CancelOpenRequest(r) \/ CancelMatchedRequest(r) \/ StopAfterPartial(r)
                /\ NoJobs
      BY <1>1 DEF JobRequesterStep
    <2>2. CASE /\ CreateRequest(r) \/ RenewRequest(r) \/ ContinueRequest(r)
               /\ Enqueue({MatchJob(r), ExpiryJob(r)})
      <3>1. NewWaits({r}, {}, {})
        BY <2>2, AskWaits
      <3> QED
        BY <2>2, <3>1, EnqueueCovers
    <2>3. CASE CancelOpenRequest(r) /\ NoJobs
      <3>1. NewWaits({}, {}, {})
        BY <2>3, CloseWaits DEF CancelOpenRequest
      <3> QED
        BY <2>3, <3>1, NothingToEnqueue
    <2>4. CASE StopAfterPartial(r) /\ NoJobs
      <3>1. NewWaits({}, {}, {})
        BY <2>4, CloseWaits DEF StopAfterPartial
      <3> QED
        BY <2>4, <3>1, NothingToEnqueue
    <2>5. CASE CancelMatchedRequest(r) /\ NoJobs
      <3>1. PICK u \in Users : CancelMatch(<<r, u>>, "requester", FALSE)
        BY <2>5 DEF CancelMatchedRequest
      <3>2. <<r, u>> \in Pairs
        BY DEF Pairs
      <3>3. NewWaits({}, {}, {})
        BY <3>1, <3>2, ClosingCancelWaits
      <3> QED
        BY <2>5, <3>3, NothingToEnqueue
    <2> QED
      BY <2>1, <2>2, <2>3, <2>4, <2>5
  <1>2. CASE JobAnswerStep
    <2>1. PICK p \in Pairs :
             \/ AcceptOffer(p) /\ NoJobs
             \/ AcceptFindsNothing(p) /\ Enqueue({MatchJob(p[1])})
             \/ \E stop \in BOOLEAN : DeclineOffer(p, stop) /\ Enqueue({MatchJob(p[1])})
      BY <1>2 DEF JobAnswerStep
    <2>2. CASE AcceptOffer(p) /\ NoJobs
      BY <2>2, AcceptWaits, NothingToEnqueue
    <2>3. CASE AcceptFindsNothing(p) /\ Enqueue({MatchJob(p[1])})
      <3>1. NewWaits({p[1]}, {}, {})
        BY <2>3, AnswerWaits
      <3> QED
        BY <2>3, <3>1, EnqueueCovers
    <2>4. CASE \E stop \in BOOLEAN : DeclineOffer(p, stop) /\ Enqueue({MatchJob(p[1])})
      <3>1. NewWaits({p[1]}, {}, {})
        BY <2>4, AnswerWaits
      <3> QED
        BY <2>4, <3>1, EnqueueCovers
    <2> QED
      BY <2>1, <2>2, <2>3, <2>4
  <1>3. CASE JobSettleStep
    <2>1. PICK p \in Pairs, side \in Sides :
             \/ \E q \in Quantity :
                   \/ ConfirmFirst(p, side, q) /\ Enqueue({FinalizeJob(p)})
                   \/ ConfirmSecond(p, side, q) /\ Enqueue(Resume(p[1]))
             \/ \E unsafe \in BOOLEAN :
                   CancelMatch(p, side, unsafe) /\ Enqueue(Resume(p[1]))
      BY <1>3 DEF JobSettleStep
    <2>2. \/ MatchJob(p[1]) \in Resume(p[1])
          \/ request'[p[1]].status = "searching" => request[p[1]].status = "searching"
      BY DEF Resume
    <2>3. CASE \E q \in Quantity : ConfirmFirst(p, side, q) /\ Enqueue({FinalizeJob(p)})
      <3>1. NewWaits({}, {}, {p})
        BY <2>3, ConfirmWaits
      <3> QED
        BY <2>3, <3>1, EnqueueCovers
    <2>4. CASE \E q \in Quantity : ConfirmSecond(p, side, q) /\ Enqueue(Resume(p[1]))
      <3>1. PICK q \in Quantity : ConfirmSecond(p, side, q) /\ Enqueue(Resume(p[1]))
        BY <2>4
      <3>2. NewWaits({p[1]}, {}, {})
        BY <3>1, SettleWaits DEF ConfirmSecond
      <3> QED
        BY <2>2, <3>1, <3>2, EnqueueCovers
    <2>5. CASE \E unsafe \in BOOLEAN : CancelMatch(p, side, unsafe) /\ Enqueue(Resume(p[1]))
      <3>1. NewWaits({p[1]}, {}, {})
        BY <2>5, CancelWaits
      <3> QED
        BY <2>2, <2>5, <3>1, EnqueueCovers
    <2> QED
      BY <2>1, <2>3, <2>4, <2>5
  <1> QED
    BY <1>1, <1>2, <1>3

LEMMA WaitsKeepTheirJobs ==
    StepInv /\ JobTypeOK /\ EveryWaitHasItsJob /\ [JobNext]_jobVars => EveryWaitHasItsJob'
  <1> SUFFICES ASSUME StepInv, JobTypeOK, EveryWaitHasItsJob, [JobNext]_jobVars
               PROVE  EveryWaitHasItsJob'
    OBVIOUS
  <1>t. TypeOK
    BY DEF StepInv, StockInv
  <1>1. CASE JobRequesterStep \/ JobAnswerStep \/ JobSettleStep
    BY <1>t, <1>1, UserJobs
  <1>2. CASE JobStockStep
    <2>1. UNCHANGED <<request, offer, match>> /\ NoJobs
      BY <1>2 DEF JobStockStep, SetAvailability, AddInventory, DeleteInventory
    <2> QED
      BY <2>1, NothingMoves, NothingToEnqueue
  <1>3. CASE JobAdminStep
    <2>1. NoJobs
      BY <1>3 DEF JobAdminStep
    <2>2. CASE \E p \in Pairs : ModerationCancel(p)
      BY <1>t, <2>1, <2>2, ClosingCancelWaits, NothingToEnqueue DEF ModerationCancel
    <2>3. CASE \E paused \in BOOLEAN : PatchEvent([event EXCEPT !.matchingPaused = paused], phase)
      <3>1. UNCHANGED <<request, offer, match>>
        BY <2>3 DEF PatchEvent
      <3> QED
        BY <2>1, <3>1, NothingMoves, NothingToEnqueue
    <2>4. CASE DisableEvent
      BY <1>t, <2>1, <2>4, DisableWaits, NothingToEnqueue
    <2> QED
      BY <1>3, <2>2, <2>3, <2>4 DEF JobAdminStep
  <1>4. CASE \E r \in Requests : RunMatch(r) \/ RunExpiry(r)
    BY <1>t, <1>4, RunPassCovers DEF RunMatch, RunExpiry
  <1>5. CASE \E p \in Pairs : RunTimeout(p) \/ RunFinalize(p)
    BY <1>t, <1>5, RunTimeoutCovers, RunFinalizeCovers
  <1>6. CASE JobFails
    <2>1. faults' # 0
      BY <1>6, FaultBound DEF JobFails, JobTypeOK
    <2> QED
      BY <2>1 DEF EveryWaitHasItsJob
  <1>7. CASE SweepRequests \/ SweepOffers
    <2>1. UNCHANGED vars /\ jobs \subseteq jobs' /\ faults' = faults
      BY <1>7 DEF SweepRequests, SweepOffers
    <2> QED
      BY <2>1, SweepCovers
  <1>8. CASE JobDeadlines
    BY <1>t, <1>8, DeadlineWaits, NothingToEnqueue DEF JobDeadlines
  <1>9. CASE UNCHANGED jobVars
    <2>1. UNCHANGED vars /\ jobs' = jobs /\ faults' = faults
      BY <1>9 DEF jobVars, vars
    <2> QED
      BY <2>1, SweepCovers
  <1> QED
    BY <1>1, <1>2, <1>3, <1>4, <1>5, <1>6, <1>7, <1>8, <1>9 DEF JobNext

-----------------------------------------------------------------------------
(* What may be on the queue *)

AllJobs ==
    {MatchJob(r) : r \in Requests} \cup {ExpiryJob(r) : r \in Requests}
    \cup {TimeoutJob(p) : p \in Pairs} \cup {FinalizeJob(p) : p \in Pairs}

LEMMA JobsOf ==
    /\ \A r \in Requests : {MatchJob(r)} \subseteq AllJobs /\ {ExpiryJob(r)} \subseteq AllJobs
    /\ \A p \in Pairs : {TimeoutJob(p)} \subseteq AllJobs /\ {FinalizeJob(p)} \subseteq AllJobs
    /\ \A p \in Pairs : {MatchJob(p[1])} \subseteq AllJobs /\ Resume(p[1]) \subseteq AllJobs
    /\ \A r \in Requests : {TimeoutJob(p) : p \in MadeOffers(r)} \subseteq AllJobs
  <1>1. \A p \in Pairs : p[1] \in Requests
    BY DEF Pairs
  <1>2. \A r : MadeOffers(r) \subseteq Pairs
    BY DEF MadeOffers
  <1> QED
    BY <1>1, <1>2, Zenon DEF AllJobs, Resume

LEMMA ReplaceTypes ==
    ASSUME JobTypeOK, NEW J \in SUBSET AllJobs, NEW K \in SUBSET AllJobs, Replace(J, K)
    PROVE  JobTypeOK'
  <1>1. jobs' \subseteq AllJobs
    BY DEF Replace
  <1>2. faults' \in 0 .. MaxFaults
    BY FaultBound DEF Replace, JobTypeOK
  <1> QED
    BY <1>1, <1>2 DEF JobTypeOK, AllJobs, MatchJob, ExpiryJob, TimeoutJob, FinalizeJob

LEMMA EnqueueTypes ==
    ASSUME JobTypeOK, NEW K, K \subseteq AllJobs,
           Enqueue(K) \/ \E job : Done(job, K)
    PROVE  JobTypeOK'
  <1>1. jobs \subseteq AllJobs
    BY DEF JobTypeOK, AllJobs
  <1> QED
    BY <1>1, ReplaceTypes DEF Enqueue, Done

LEMMA NoJobsTypes ==
    ASSUME JobTypeOK, UNCHANGED <<jobs, faults>>
    PROVE  JobTypeOK'
  BY DEF JobTypeOK, MatchJob, ExpiryJob, TimeoutJob, FinalizeJob

LEMMA JobTypesKept == JobTypeOK /\ [JobNext]_jobVars => JobTypeOK'
  <1> SUFFICES ASSUME JobTypeOK, [JobNext]_jobVars PROVE JobTypeOK'
    OBVIOUS
  <1>0. jobs \subseteq AllJobs
    BY DEF JobTypeOK, AllJobs
  <1>1. CASE JobRequesterStep
    <2>1. PICK r \in Requests : Enqueue({MatchJob(r), ExpiryJob(r)}) \/ NoJobs
      BY <1>1 DEF JobRequesterStep
    <2>2. {MatchJob(r), ExpiryJob(r)} \subseteq AllJobs
      BY JobsOf
    <2> QED
      BY <2>1, <2>2, EnqueueTypes, NoJobsTypes DEF NoJobs
  <1>2. CASE JobAnswerStep
    <2>1. PICK p \in Pairs : Enqueue({MatchJob(p[1])}) \/ NoJobs
      BY <1>2 DEF JobAnswerStep
    <2> QED
      BY <2>1, JobsOf, EnqueueTypes, NoJobsTypes DEF NoJobs
  <1>3. CASE JobSettleStep
    <2>1. PICK p \in Pairs : Enqueue({FinalizeJob(p)}) \/ Enqueue(Resume(p[1]))
      BY <1>3 DEF JobSettleStep
    <2> QED
      BY <2>1, JobsOf, EnqueueTypes
  <1>4. CASE JobStockStep \/ JobAdminStep \/ JobDeadlines
    BY <1>4, NoJobsTypes DEF JobStockStep, JobAdminStep, JobDeadlines, NoJobs
  <1>5. CASE \E r \in Requests : RunMatch(r) \/ RunExpiry(r)
    <2>1. PICK r \in Requests : \E job : RunPass(job, r)
      BY <1>5 DEF RunMatch, RunExpiry
    <2>2. PICK job : \/ Done(job, {}) \/ Done(job, {MatchJob(r)})
                     \/ Done(job, {TimeoutJob(p) : p \in MadeOffers(r)})
      BY <2>1 DEF RunPass
    <2>3. CASE Done(job, {})
      BY <2>3, EnqueueTypes
    <2>4. CASE Done(job, {MatchJob(r)})
      BY <2>4, JobsOf, EnqueueTypes
    <2>5. CASE Done(job, {TimeoutJob(p) : p \in MadeOffers(r)})
      <3> DEFINE K == {TimeoutJob(p) : p \in MadeOffers(r)}
      <3>1. K \subseteq AllJobs
        BY JobsOf
      <3>2. Done(job, K)
        BY <2>5
      <3> HIDE DEF K
      <3> QED
        BY <3>1, <3>2, EnqueueTypes
    <2> QED
      BY <2>2, <2>3, <2>4, <2>5
  <1>6. CASE \E p \in Pairs : RunTimeout(p) \/ RunFinalize(p)
    <2>1. PICK p \in Pairs : RunTimeout(p) \/ RunFinalize(p)
      BY <1>6
    <2>2. \E job : Done(job, {}) \/ Done(job, {MatchJob(p[1])}) \/ Done(job, Resume(p[1]))
      BY <2>1 DEF RunTimeout, RunFinalize
    <2> QED
      BY <2>2, JobsOf, EnqueueTypes
  <1>7. CASE JobFails
    <2>1. jobs' \subseteq AllJobs /\ faults' \in 0 .. MaxFaults
      BY <1>0, <1>7, FaultBound DEF JobFails, JobTypeOK
    <2> QED
      BY <2>1 DEF JobTypeOK, AllJobs, MatchJob, ExpiryJob, TimeoutJob, FinalizeJob
  <1>8. CASE SweepRequests \/ SweepOffers
    <2>1. jobs' \subseteq AllJobs /\ faults' = faults
      BY <1>0, <1>8 DEF SweepRequests, SweepOffers, AllJobs
    <2> QED
      BY <2>1 DEF JobTypeOK, AllJobs, MatchJob, ExpiryJob, TimeoutJob, FinalizeJob
  <1>9. CASE UNCHANGED jobVars
    BY <1>9, NoJobsTypes DEF jobVars
  <1> QED
    BY <1>1, <1>2, <1>3, <1>4, <1>5, <1>6, <1>7, <1>8, <1>9 DEF JobNext

LEMMA JobsStart == JobInit => StepInv /\ JobTypeOK /\ EveryWaitHasItsJob
  <1> SUFFICES ASSUME JobInit PROVE StepInv /\ JobTypeOK /\ EveryWaitHasItsJob
    OBVIOUS
  <1>1. StepInv
    BY StepInit DEF JobInit
  <1>2. JobTypeOK
    BY FaultBound DEF JobInit, JobTypeOK
  <1>3. EveryWaitHasItsJob
    BY DEF JobInit, Init, NoRequest, NoOffer, NoMatch, EveryWaitHasItsJob, HalfConfirmed
  <1> QED
    BY <1>1, <1>2, <1>3

\* For any accounts, requests and items: until the queue first fails, whatever waits for
\* the system has its job pending, whichever service or worker made it wait (jobs/queues.ts
\* and its callers).
THEOREM NoWaitIsForgotten == JobSpec => []EveryWaitHasItsJob
  <1>1. StepInv /\ [JobNext]_jobVars => StepInv'
    BY JobStepIsStep, StepInvKept
  <1> QED
    BY <1>1, JobsStart, JobTypesKept, WaitsKeepTheirJobs, PTL DEF JobSpec

-----------------------------------------------------------------------------
(* Account deletion takes the steps of the exchange *)

LEMMA DeletionStepIsStep ==
    StepInv /\ DeletionTypeOK /\ [DeletionNext]_deletionVars => [Next]_vars
  <1> SUFFICES ASSUME StepInv, DeletionTypeOK, [DeletionNext]_deletionVars
               PROVE  Next \/ UNCHANGED vars
    OBVIOUS
  <1>1. CASE UserStep
    <2>1. PICK u \in Users : UserCall(u)
      BY <1>1 DEF UserStep
    <2>2. CASE \E r \in Requests :
                  \/ CreateRequest(r) \/ CancelOpenRequest(r) \/ CancelMatchedRequest(r)
                  \/ RenewRequest(r) \/ ContinueRequest(r) \/ StopAfterPartial(r)
      BY <2>2 DEF Next, RequesterStep
    <2>3. CASE \E p \in Pairs :
                  \/ AcceptOffer(p) \/ AcceptFindsNothing(p) \/ DeclineOffer(p, FALSE)
      BY <2>3 DEF Next, HelperStep
    <2>4. CASE \E p \in Pairs, side \in Sides :
                  \/ CancelMatch(p, side, FALSE)
                  \/ \E q \in Quantity : ConfirmFirst(p, side, q) \/ ConfirmSecond(p, side, q)
      <3>1. MatchStep
        BY <2>4 DEF MatchStep
      <3> QED
        BY <3>1 DEF Next
    <2>5. CASE \/ \E on \in BOOLEAN : SetAvailability(u, on)
               \/ \E i \in Items, q \in Quantity : AddInventory(i, q)
      BY <2>5 DEF Next, HelperStep
    <2> QED
      BY <2>1, <2>2, <2>3, <2>4, <2>5 DEF UserCall
  <1>2. CASE TimerStep
    BY <1>2 DEF TimerStep, Next, SystemStep, ClockStep
  <1>3. CASE \E u \in Users : RequestAccountDeletion(u) \/ Worker(u) \/ WorkerCrash(u)
    <2>1. PICK u \in Users : RequestAccountDeletion(u) \/ Worker(u) \/ WorkerCrash(u)
      BY <1>3
    <2>2. CASE RequestAccountDeletion(u)
      <3>1. SetAvailability(u, FALSE)
        BY <2>2 DEF RequestAccountDeletion, SetAvailability
      <3> QED
        BY <3>1 DEF Next, HelperStep
    <2>3. CASE ListMatches(u) \/ CancelListedThrows(u) \/ WorkerCrash(u)
      BY <2>3 DEF ListMatches, CancelListedThrows, WorkerCrash
    <2>4. CASE CancelListed(u)
      <3>1. PICK p \in listed[u] : ModerationCancel(p)
        BY <2>4 DEF CancelListed
      <3>2. p \in Pairs
        BY DEF DeletionTypeOK
      <3> QED
        BY <3>1, <3>2 DEF Next, MatchStep
    <2>5. CASE CloseOwnRequests(u) \/ CollapseAndAnonymize(u)
      BY <2>5 DEF CloseOwnRequests, CollapseAndAnonymize, Next, SystemStep
    <2> QED
      BY <2>1, <2>2, <2>3, <2>4, <2>5 DEF Worker
  <1>4. CASE UNCHANGED deletionVars
    BY <1>4 DEF deletionVars, vars
  <1> QED
    BY <1>1, <1>2, <1>3, <1>4 DEF DeletionNext, Meanwhile

-----------------------------------------------------------------------------
(* What a deletion leaves *)

\* A match holds goods of its helper.
OwnMatches == \A p \in Pairs : match[p].status = "active" => Owner[match[p].item] = p[2]

\* The match p of u came in behind u's worker, with its request and its item.
Behind(u, p) == {p, p[1], match[p].item} \subseteq raced[u]

\* While the worker cancels, a match it has not listed came in behind it; once it has closed
\* the requests, every match and open request did; and in the end what stock there is.
Remnants(u) ==
    /\ deletion[u] = "cancelling" => \A p \in Pairs :
          u \in Parties(p) /\ match[p].status = "active" => p \in listed[u] \/ Behind(u, p)
    /\ deletion[u] \in {"collapsing", "done"} => \A p \in Pairs :
          u \in Parties(p) /\ match[p].status = "active" => Behind(u, p)
    /\ deletion[u] \in {"collapsing", "done"} => \A r \in Requests :
          Requester[r] = u /\ request[r].status \in Open => r \in raced[u]
    /\ deletion[u] = "done" => \A i \in Items :
          Owner[i] = u /\ item[i].onHand > 0 => i \in raced[u]

DeletionShape == \A u \in Users : Remnants(u)

DeletionInv == StepInv /\ DeletionTypeOK /\ OwnMatches /\ DeletionShape

\* An active match was active before, on the same item, or is made in this step of goods of
\* its helper.
LEMMA ActiveBefore ==
    ASSUME StepInv, StepKind, NEW p \in Pairs, match'[p].status = "active"
    PROVE  \/ match[p].status = "active" /\ match'[p].item = match[p].item
           \/ match[p].status = "none" /\ Owner[match'[p].item] = p[2]
  <1>1. CASE MatchKept(p)
    BY <1>1 DEF MatchKept
  <1>2. CASE \E i \in Items, q \in 1 .. MaxStock : Accepts(p, i, q)
    BY <1>2 DEF Accepts
  <1>3. CASE ~MatchKept(p) /\ ~\E i \in Items, q \in 1 .. MaxStock : Accepts(p, i, q)
    <2>1. ~MatchesKept({}) /\ \A o \in Pairs : o # p => ~MatchesKept({o})
      BY <1>3 DEF MatchesKept
    <2>2. ASSUME NEW o \in Pairs, NEW confirmed, NEW final, NEW disputed \in BOOLEAN,
                 Settles(o, confirmed, final, disputed)
          PROVE  FALSE
      <3>1. o = p
        BY <2>1, <2>2 DEF Settles
      <3> QED
        BY <2>2, <3>1 DEF Settles
    <2>3. ASSUME NEW o \in Pairs, NEW actor, NEW unsafe, Cancels(o, actor, unsafe)
          PROVE  FALSE
      <3>1. o = p
        BY <2>1, <2>3 DEF Cancels
      <3> QED
        BY <2>3, <3>1 DEF Cancels
    <2>4. ASSUME NEW o \in Pairs, NEW i \in Items, NEW q \in 1 .. MaxStock, Accepts(o, i, q)
          PROVE  FALSE
      <3>1. o = p
        BY <2>1, <2>4 DEF Accepts
      <3> QED
        BY <1>3, <2>4, <3>1
    <2>5. ~Quiet /\ ~Forgets
      BY <2>1 DEF Quiet, Forgets
    <2>6. /\ \A r : ~Reopens(r) /\ ~Searches(r)
          /\ \A R, to : ~Closes(R, to)
          /\ \A o : ~Offers(o)
      BY <2>1 DEF Reopens, Searches, Closes, Offers
    <2> QED
      BY <2>2, <2>3, <2>4, <2>5, <2>6 DEF StepKind
  <1> QED
    BY <1>1, <1>2, <1>3

LEMMA OwnMatchesKept == StepInv /\ OwnMatches /\ StepKind => OwnMatches'
  <1> SUFFICES ASSUME StepInv, OwnMatches, StepKind, NEW p \in Pairs,
                      match'[p].status = "active"
               PROVE  Owner[match'[p].item] = p[2]
    BY DEF OwnMatches
  <1> QED
    BY ActiveBefore DEF OwnMatches

\* Whatever comes in while others go on is noted: as a match taken, a request opened or
\* stock put in behind the worker.
LEMMA MeanwhileKept ==
    ASSUME DeletionInv, StepKind, Meanwhile, StepInv', NEW u \in Users
    PROVE  Remnants(u)'
  <1>1. /\ deletion' = deletion /\ listed' = listed
        /\ raced'[u] = raced[u] \cup Races(u)
    BY DEF Meanwhile
  <1>2. Remnants(u)
    BY DEF DeletionInv, DeletionShape
  <1>3. ASSUME NEW p \in Pairs, u \in Parties(p), match'[p].status = "active",
               deletion[u] \in {"cancelling", "collapsing", "done"}
        PROVE  \/ match[p].status = "active" /\ (Behind(u, p) => Behind(u, p)')
               \/ Behind(u, p)'
    <2>1. CASE match[p].status = "active"
      <3>1. match'[p].item = match[p].item
        BY <1>3, <2>1, ActiveBefore DEF DeletionInv
      <3> QED
        BY <1>1, <2>1, <3>1 DEF Behind
    <2>2. CASE match[p].status # "active"
      <3>1. p \in NewMatches(u)
        BY <1>3, <2>2 DEF NewMatches
      <3>2. p \in Races(u) /\ p[1] \in Races(u) /\ match'[p].item \in Races(u)
        BY <1>3, <3>1 DEF Races
      <3> QED
        BY <1>1, <3>2 DEF Behind
    <2> QED
      BY <2>1, <2>2
  <1>4. ASSUME NEW r \in Requests, Requester[r] = u, request'[r].status \in Open,
               deletion[u] \in {"collapsing", "done"}
        PROVE  r \in raced'[u]
    <2>1. CASE request[r].status \in Open
      BY <1>1, <1>2, <1>4, <2>1 DEF Remnants
    <2>2. CASE request[r].status \notin Open
      <3>1. r \in Races(u)
        BY <1>4, <2>2 DEF Races, NewRequests
      <3> QED
        BY <1>1, <3>1
    <2> QED
      BY <2>1, <2>2
  <1>5. ASSUME NEW i \in Items, Owner[i] = u, item'[i].onHand > 0, deletion[u] = "done"
        PROVE  i \in raced'[u]
    <2>1. CASE item[i].onHand > 0
      BY <1>1, <1>2, <1>5, <2>1 DEF Remnants
    <2>2. CASE ~(item[i].onHand > 0)
      <3>1. item[i] \in ItemRow /\ item'[i] \in ItemRow
        BY DEF DeletionInv, StepInv, StockInv, TypeOK
      <3>2. item'[i].onHand > item[i].onHand
        BY <1>5, <2>2, <3>1 DEF ItemRow, Quantity
      <3>3. i \in Races(u)
        BY <1>5, <3>2 DEF Races, NewStock
      <3> QED
        BY <1>1, <3>3
    <2> QED
      BY <2>1, <2>2
  <1>6. deletion'[u] = "cancelling" => \A p \in Pairs :
           u \in Parties(p) /\ match'[p].status = "active" => p \in listed'[u] \/ Behind(u, p)'
    BY <1>1, <1>2, <1>3 DEF Remnants
  <1>7. deletion'[u] \in {"collapsing", "done"} => \A p \in Pairs :
           u \in Parties(p) /\ match'[p].status = "active" => Behind(u, p)'
    BY <1>1, <1>2, <1>3 DEF Remnants
  <1> QED
    BY <1>1, <1>4, <1>5, <1>6, <1>7 DEF Remnants, Behind, Parties

-----------------------------------------------------------------------------
(* The worker's own steps *)

\* Nothing comes in: no match, no open request, no stock.
Calm ==
    /\ \A p \in Pairs : match'[p].status = "active" =>
          match[p].status = "active" /\ match'[p].item = match[p].item
    /\ \A r \in Requests : request'[r].status \in Open => request[r].status \in Open
    /\ \A i \in Items : item'[i].onHand > 0 => item[i].onHand > 0

LEMMA StillCalm == UNCHANGED <<request, match, item>> => Calm
  BY DEF Calm

LEMMA ModerationCalm ==
    ASSUME StepInv, NEW p \in Pairs, ModerationCancel(p)
    PROVE  Calm /\ match'[p].status # "active"
  <1>t. TypeOK /\ match[p] \in MatchRow /\ p[1] \in Requests
    BY DEF StepInv, StockInv, TypeOK, Pairs
  <1>1. match'[p].status = "cancelled_moderation" /\ \A o \in Pairs \ {p} : match'[o] = match[o]
    BY <1>t DEF ModerationCancel, CancelMatch, TypeOK, MatchRow
  <1>2. request' = Closing(p[1], "moderated")
    BY DEF ModerationCancel, CancelMatch
  <1>3. \A r \in Requests : request'[r].status \in Open => request[r].status \in Open
    BY <1>t, <1>2 DEF Closing, TypeOK, RequestRow, Open
  <1>4. \A i \in Items : item'[i].onHand = item[i].onHand
    <2>1. item' = Released(p, 0)
      BY DEF ModerationCancel, CancelMatch
    <2>2. \A i \in Items : item[i] \in ItemRow
      BY <1>t DEF TypeOK
    <2> QED
      BY <1>t, <2>1, <2>2 DEF Released, TypeOK, ItemRow, Quantity
  <1> QED
    BY <1>1, <1>3, <1>4 DEF Calm

LEMMA CloseCalm ==
    ASSUME StepInv, NEW u \in Users, DeletionCancelsRequests(u)
    PROVE  /\ Calm
           /\ \A r \in Requests : Requester[r] = u => request'[r].status \notin {"searching", "offering"}
  <1> DEFINE mine == {r \in Requests : Requester[r] = u}
  <1>1. /\ request' = [r \in Requests |-> IF r \in OpenRequests(mine)
                                      THEN [request[r] EXCEPT !.status = "cancelled", !.closed = TRUE]
                                      ELSE request[r]]
        /\ UNCHANGED <<match, item>>
    BY DEF DeletionCancelsRequests, CloseRequests
  <1>2. \A r \in Requests : request[r] \in RequestRow
    BY DEF StepInv, StockInv, TypeOK
  <1>3. ASSUME NEW r \in OpenRequests(mine)
        PROVE  request'[r].status = "cancelled" /\ r \in Requests
    <2>1. r \in Requests /\ request[r] \in RequestRow
      BY <1>2 DEF OpenRequests
    <2> QED
      BY <1>1, <1>3, <2>1 DEF RequestRow
  <1>4. \A r \in Requests : r \notin OpenRequests(mine) => request'[r] = request[r]
    BY <1>1
  <1>5. \A r \in Requests : request'[r].status \in Open => request[r].status \in Open
    BY <1>3, <1>4 DEF Open
  <1>6. \A r \in Requests : Requester[r] = u => request'[r].status \notin {"searching", "offering"}
    BY <1>3, <1>4 DEF OpenRequests
  <1> QED
    BY <1>1, <1>5, <1>6 DEF Calm

LEMMA CollapseCalm ==
    ASSUME StepInv, NEW u \in Users, DeletionCollapsesStock(u)
    PROVE  /\ Calm
           /\ \A i \in Items : Owner[i] = u => item'[i].onHand = item[i].reserved
  <1>1. /\ item' = [i \in Items |-> IF Owner[i] = u
                                   THEN [item[i] EXCEPT !.onHand = item[i].reserved, !.active = FALSE]
                                   ELSE item[i]]
        /\ UNCHANGED <<request, match>>
    BY DEF DeletionCollapsesStock
  <1>2. \A i \in Items : item[i] \in ItemRow /\ item[i].reserved <= item[i].onHand
    BY DEF StepInv, StockInv, TypeOK, NeverOverReserved
  <1>3. ASSUME NEW i \in Items, Owner[i] = u PROVE item'[i].onHand = item[i].reserved
    BY <1>1, <1>2, <1>3 DEF ItemRow
  <1>4. \A i \in Items : item'[i].onHand > 0 => item[i].onHand > 0
    <2> TAKE i \in Items
    <2>1. CASE Owner[i] = u
      BY <1>2, <1>3, <2>1 DEF ItemRow, Quantity
    <2>2. CASE Owner[i] # u
      BY <1>1, <2>2
    <2> QED
      BY <2>1, <2>2
  <1> QED
    BY <1>1, <1>3, <1>4 DEF Calm

\* An account whose own deletion stands still loses nothing of its shape in a calm step.
LEMMA CalmKeeps ==
    ASSUME NEW u, Remnants(u), Calm, deletion'[u] = deletion[u], raced'[u] = raced[u],
           \A p \in Pairs : p \in listed[u] /\ match'[p].status = "active" => p \in listed'[u]
    PROVE  Remnants(u)'
  <1>1. \A p \in Pairs : match'[p].status = "active" =>
           match[p].status = "active" /\ (Behind(u, p) => Behind(u, p)')
    BY DEF Calm, Behind
  <1>2. deletion'[u] = "cancelling" => \A p \in Pairs :
           u \in Parties(p) /\ match'[p].status = "active" => p \in listed'[u] \/ Behind(u, p)'
    BY <1>1 DEF Remnants
  <1>3. deletion'[u] \in {"collapsing", "done"} => \A p \in Pairs :
           u \in Parties(p) /\ match'[p].status = "active" => Behind(u, p)'
    BY <1>1 DEF Remnants
  <1>4. deletion'[u] \in {"collapsing", "done"} => \A r \in Requests :
           Requester[r] = u /\ request'[r].status \in Open => r \in raced'[u]
    BY DEF Remnants, Calm
  <1>5. deletion'[u] = "done" => \A i \in Items :
           Owner[i] = u /\ item'[i].onHand > 0 => i \in raced'[u]
    BY DEF Remnants, Calm
  <1> QED
    BY <1>2, <1>3, <1>4, <1>5 DEF Remnants, Behind, Parties

\* An account whose deletion has not begun, or starts again, or failed.
LEMMA NotBegun ==
    ASSUME NEW u, deletion'[u] \notin {"cancelling", "collapsing", "done"}
    PROVE  Remnants(u)'
  BY DEF Remnants

\* Reserved units of u are held by a match that came in behind the worker.
LEMMA HeldBehind ==
    ASSUME StepInv, OwnMatches, NEW u,
           \A p \in Pairs : u \in Parties(p) /\ match[p].status = "active" => Behind(u, p),
           NEW i \in Items, Owner[i] = u, item[i].reserved > 0
    PROVE  i \in raced[u]
  <1>1. HeldUnits(i) # {}
    BY FS_EmptySet DEF StepInv, StockInv, ReservedIsHeld
  <1>2. PICK p \in Pairs : match[p].status = "active" /\ match[p].item = i
    BY <1>1 DEF HeldUnits
  <1>3. p[2] = u
    BY <1>2 DEF OwnMatches
  <1> QED
    BY <1>2, <1>3 DEF Behind, Parties

LEMMA WorkerKept ==
    ASSUME DeletionInv, NEW u \in Users, NEW v \in Users,
           RequestAccountDeletion(v) \/ Worker(v) \/ WorkerCrash(v)
    PROVE  Remnants(u)'
  <1>t. /\ StepInv /\ TypeOK /\ DeletionTypeOK /\ OwnMatches /\ Remnants(u)
    BY DEF DeletionInv, StepInv, StockInv, DeletionShape
  <1>1. CASE RequestAccountDeletion(v)
    <2>1. UNCHANGED <<listed, raced>> /\ Calm
      BY <1>1, StillCalm DEF RequestAccountDeletion
    <2>2. CASE u = v
      <3>1. deletion'[u] = "queued"
        BY <1>1, <1>t, <2>2 DEF RequestAccountDeletion, DeletionTypeOK
      <3> QED
        BY <3>1, NotBegun
    <2>3. CASE u # v
      <3>1. deletion'[u] = deletion[u]
        BY <1>1, <1>t, <2>3 DEF RequestAccountDeletion, DeletionTypeOK
      <3> QED
        BY <1>t, <2>1, <3>1, CalmKeeps
    <2> QED
      BY <2>2, <2>3
  <1>2. CASE ListMatches(v)
    <2>1. UNCHANGED <<match, item, request>> /\ Calm
      BY <1>2, StillCalm DEF ListMatches, vars
    <2>2. CASE u = v
      <3>1. deletion'[u] = "cancelling" /\ listed'[u] = MatchesOf(u)
        BY <1>2, <1>t, <2>2 DEF ListMatches, DeletionTypeOK
      <3>2. \A p \in Pairs : u \in Parties(p) /\ match'[p].status = "active" => p \in listed'[u]
        BY <2>1, <3>1 DEF MatchesOf
      <3> QED
        BY <3>1, <3>2 DEF Remnants, Parties
    <2>3. CASE u # v
      <3>1. deletion'[u] = deletion[u] /\ listed'[u] = listed[u] /\ raced'[u] = raced[u]
        BY <1>2, <1>t, <2>3 DEF ListMatches, DeletionTypeOK
      <3> QED
        BY <1>t, <2>1, <3>1, CalmKeeps
    <2> QED
      BY <2>2, <2>3
  <1>3. CASE CancelListed(v)
    <2>1. PICK p \in listed[v] : ModerationCancel(p) /\ listed' = [listed EXCEPT ![v] = @ \ {p}]
      BY <1>3 DEF CancelListed
    <2>2. p \in Pairs
      BY <1>t DEF DeletionTypeOK
    <2>3. Calm /\ match'[p].status # "active" /\ UNCHANGED <<deletion, raced>>
      BY <1>3, <1>t, <2>1, <2>2, ModerationCalm DEF CancelListed
    <2>4. listed[u] \ {p} \subseteq listed'[u]
      BY <1>t, <2>1 DEF DeletionTypeOK
    <2> QED
      BY <1>t, <2>3, <2>4, CalmKeeps
  <1>4. CASE CancelListedThrows(v)
    <2>1. UNCHANGED <<listed, raced>> /\ Calm
      BY <1>4, StillCalm DEF CancelListedThrows, vars
    <2>2. CASE u = v
      <3>1. deletion'[u] = "failed"
        BY <1>4, <1>t, <2>2 DEF CancelListedThrows, DeletionTypeOK
      <3> QED
        BY <3>1, NotBegun
    <2>3. CASE u # v
      <3>1. deletion'[u] = deletion[u]
        BY <1>4, <1>t, <2>3 DEF CancelListedThrows, DeletionTypeOK
      <3> QED
        BY <1>t, <2>1, <3>1, CalmKeeps
    <2> QED
      BY <2>2, <2>3
  <1>5. CASE CloseOwnRequests(v)
    <2>1. UNCHANGED <<match, item, listed, raced>> /\ Calm
      BY <1>5, <1>t, CloseCalm DEF CloseOwnRequests, DeletionCancelsRequests
    <2>2. CASE u = v
      <3>1. deletion[u] = "cancelling" /\ listed[u] = {} /\ deletion'[u] = "collapsing"
        BY <1>5, <1>t, <2>2 DEF CloseOwnRequests, DeletionTypeOK
      <3>2. \A p \in Pairs : u \in Parties(p) /\ match[p].status = "active" => Behind(u, p)
        BY <1>t, <3>1 DEF Remnants
      <3>3. \A p \in Pairs : u \in Parties(p) /\ match'[p].status = "active" => Behind(u, p)'
        BY <2>1, <3>2 DEF Behind
      <3>4. ASSUME NEW r \in Requests, Requester[r] = u, request'[r].status \in Open
            PROVE  r \in raced'[u]
        <4>1. request'[r].status = "matched"
          BY <1>5, <1>t, <2>2, <3>4, CloseCalm DEF CloseOwnRequests, Open
        <4>2. request[r].status = "matched"
          <5>1. request'[r] = request[r] \/ request'[r].status = "cancelled"
            <6>1. request[r] \in RequestRow
              BY <1>t DEF TypeOK
            <6> QED
              BY <1>5, <6>1 DEF CloseOwnRequests, DeletionCancelsRequests, CloseRequests, RequestRow
          <5> QED
            BY <4>1, <5>1
        <4>3. MatchedShape
          BY <1>t, MatchedIsShape DEF StepInv
        <4>4. PICK p \in Pairs : p[1] = r /\ match[p].status = "active"
          BY <4>2, <4>3 DEF MatchedShape
        <4> QED
          BY <2>1, <3>2, <3>4, <4>4 DEF Behind, Parties
      <3> QED
        BY <3>1, <3>3, <3>4 DEF Remnants, Behind, Parties
    <2>3. CASE u # v
      <3>1. deletion'[u] = deletion[u]
        BY <1>5, <1>t, <2>3 DEF CloseOwnRequests, DeletionTypeOK
      <3> QED
        BY <1>t, <2>1, <3>1, CalmKeeps
    <2> QED
      BY <2>2, <2>3
  <1>6. CASE CollapseAndAnonymize(v)
    <2>1. UNCHANGED <<request, match, listed, raced>> /\ Calm
      BY <1>6, <1>t, CollapseCalm DEF CollapseAndAnonymize, DeletionCollapsesStock
    <2>2. CASE u = v
      <3>1. deletion[u] = "collapsing" /\ deletion'[u] = "done"
        BY <1>6, <1>t, <2>2 DEF CollapseAndAnonymize, DeletionTypeOK
      <3>2. \A p \in Pairs : u \in Parties(p) /\ match[p].status = "active" => Behind(u, p)
        BY <1>t, <3>1 DEF Remnants
      <3>3. \A p \in Pairs : u \in Parties(p) /\ match'[p].status = "active" => Behind(u, p)'
        BY <2>1, <3>2 DEF Behind
      <3>4. \A r \in Requests : Requester[r] = u /\ request'[r].status \in Open => r \in raced'[u]
        BY <1>t, <2>1, <3>1 DEF Remnants
      <3>5. ASSUME NEW i \in Items, Owner[i] = u, item'[i].onHand > 0 PROVE i \in raced'[u]
        <4>1. item[i].reserved > 0
          BY <1>6, <1>t, <2>2, <3>5, CollapseCalm DEF CollapseAndAnonymize
        <4> QED
          BY <1>t, <2>1, <3>2, <3>5, <4>1, HeldBehind
      <3> QED
        BY <3>1, <3>3, <3>4, <3>5 DEF Remnants, Behind, Parties
    <2>3. CASE u # v
      <3>1. deletion'[u] = deletion[u]
        BY <1>6, <1>t, <2>3 DEF CollapseAndAnonymize, DeletionTypeOK
      <3> QED
        BY <1>t, <2>1, <3>1, CalmKeeps
    <2> QED
      BY <2>2, <2>3
  <1>7. CASE WorkerCrash(v)
    <2>1. raced' = raced /\ Calm
      BY <1>7, StillCalm DEF WorkerCrash, vars
    <2>2. CASE u = v
      <3>1. deletion'[u] = "queued"
        BY <1>7, <1>t, <2>2 DEF WorkerCrash, DeletionTypeOK
      <3> QED
        BY <3>1, NotBegun
    <2>3. CASE u # v
      <3>1. deletion'[u] = deletion[u] /\ listed'[u] = listed[u]
        BY <1>7, <1>t, <2>3 DEF WorkerCrash, DeletionTypeOK
      <3> QED
        BY <1>t, <2>1, <3>1, CalmKeeps
    <2> QED
      BY <2>2, <2>3
  <1> QED
    BY <1>1, <1>2, <1>3, <1>4, <1>5, <1>6, <1>7 DEF Worker

-----------------------------------------------------------------------------
(* The invariant and what it gives *)

\* What comes in behind a worker is a match, a request or an item.
LEMMA RacesTyped ==
    ASSUME StepInv', NEW u \in Users
    PROVE  Races(u) \subseteq Pairs \cup Requests \cup Items
  <1>1. \A p \in NewMatches(u) : p \in Pairs /\ p[1] \in Requests /\ match'[p].item \in Items
    <2>1. \A p \in NewMatches(u) : p \in Pairs /\ match'[p].status = "active"
      BY DEF NewMatches
    <2>2. \A p \in Pairs : match'[p].status = "active" => match'[p].item \in Items
      BY DEF StepInv, StockInv, ActiveShape, Pairs
    <2> QED
      BY <2>1, <2>2 DEF Pairs
  <1>2. NewRequests(u) \subseteq Requests /\ NewStock(u) \subseteq Items
    BY DEF NewRequests, NewStock
  <1> QED
    BY <1>1, <1>2 DEF Races

LEMMA DeletionTypesKept ==
    DeletionTypeOK /\ StepInv' /\ [DeletionNext]_deletionVars => DeletionTypeOK'
  <1> SUFFICES ASSUME DeletionTypeOK, StepInv', [DeletionNext]_deletionVars PROVE DeletionTypeOK'
    OBVIOUS
  <1>1. CASE UNCHANGED <<deletion, listed, crashes, late, raced>>
    BY <1>1 DEF DeletionTypeOK, Pairs
  <1>2. CASE Meanwhile
    <2>1. UNCHANGED <<deletion, listed, crashes>>
      BY <1>2 DEF Meanwhile
    <2>2. late' \in 0 .. MaxLate
      <3>1. late' = late \/ (late < MaxLate /\ late' = late + 1)
        <4>1. CASE UserStep
          <5>1. PICK u \in Users : \/ deletion[u] = "none" /\ UNCHANGED late
                                   \/ deletion[u] # "none" /\ late < MaxLate /\ late' = late + 1
            BY <4>1, Zenon DEF UserStep
          <5> QED
            BY <5>1
        <4>2. CASE TimerStep /\ UNCHANGED late
          BY <4>2
        <4> QED
          BY <1>2, <4>1, <4>2, Zenon DEF Meanwhile
      <3> QED
        BY <3>1, CrashBound DEF DeletionTypeOK
    <2>3. raced' \in [Users -> SUBSET (Pairs \cup Requests \cup Items)]
      <3>1. raced' = [u \in Users |-> raced[u] \cup Races(u)]
        BY <1>2 DEF Meanwhile
      <3>2. \A u \in Users : raced[u] \cup Races(u) \in SUBSET (Pairs \cup Requests \cup Items)
        BY RacesTyped DEF DeletionTypeOK
      <3> QED
        BY <3>1, <3>2
    <2> QED
      BY <2>1, <2>2, <2>3 DEF DeletionTypeOK, Pairs
  <1>3. CASE \E u \in Users : RequestAccountDeletion(u) \/ Worker(u) \/ WorkerCrash(u)
    <2>1. PICK u \in Users : RequestAccountDeletion(u) \/ Worker(u) \/ WorkerCrash(u)
      BY <1>3
    <2>2. deletion' = deletion \/ \E s \in DeletionStates : deletion' = [deletion EXCEPT ![u] = s]
      BY <2>1 DEF RequestAccountDeletion, WorkerCrash, Worker, ListMatches, CancelListed,
                  CancelListedThrows, CloseOwnRequests, CollapseAndAnonymize, DeletionStates
    <2>3. listed' = listed \/ \E S \in SUBSET Pairs : listed' = [listed EXCEPT ![u] = S]
      <3>1. CASE ListMatches(u)
        BY <3>1 DEF ListMatches, MatchesOf
      <3>2. CASE CancelListed(u)
        <4>1. PICK p : listed' = [listed EXCEPT ![u] = listed[u] \ {p}]
          BY <3>2 DEF CancelListed
        <4>2. listed[u] \ {p} \in SUBSET Pairs
          BY DEF DeletionTypeOK
        <4> QED
          BY <4>1, <4>2
      <3>3. CASE WorkerCrash(u)
        BY <3>3 DEF WorkerCrash
      <3> QED
        BY <2>1, <3>1, <3>2, <3>3
           DEF RequestAccountDeletion, Worker, CancelListedThrows, CloseOwnRequests,
               CollapseAndAnonymize
    <2>4. crashes' \in 0 .. MaxCrashes
      BY <2>1, CrashBound
         DEF DeletionTypeOK, RequestAccountDeletion, WorkerCrash, Worker, ListMatches,
             CancelListed, CancelListedThrows, CloseOwnRequests, CollapseAndAnonymize
    <2>5. late' = late /\ (raced' = raced \/ raced' = [raced EXCEPT ![u] = {}])
      BY <2>1 DEF RequestAccountDeletion, WorkerCrash, Worker, ListMatches, CancelListed,
                  CancelListedThrows, CloseOwnRequests, CollapseAndAnonymize
    <2>6. deletion' \in [Users -> DeletionStates]
      BY <2>2 DEF DeletionTypeOK
    <2>7. listed' \in [Users -> SUBSET Pairs]
      BY <2>3 DEF DeletionTypeOK
    <2>8. raced' \in [Users -> SUBSET (Pairs \cup Requests \cup Items)]
      BY <2>5 DEF DeletionTypeOK
    <2> QED
      BY <2>4, <2>5, <2>6, <2>7, <2>8 DEF DeletionTypeOK, Pairs
  <1> QED
    BY <1>1, <1>2, <1>3 DEF DeletionNext, deletionVars

LEMMA DeletionInvKept == DeletionInv /\ [DeletionNext]_deletionVars => DeletionInv'
  <1> SUFFICES ASSUME DeletionInv, [DeletionNext]_deletionVars PROVE DeletionInv'
    OBVIOUS
  <1>t. StepInv /\ DeletionTypeOK /\ OwnMatches /\ DeletionShape
    BY DEF DeletionInv
  <1>1. [Next]_vars
    BY <1>t, DeletionStepIsStep
  <1>2. StepKind
    BY <1>t, <1>1, NextKinds
  <1>3. StepInv' /\ OwnMatches'
    BY <1>t, <1>1, <1>2, StepInvKept, OwnMatchesKept
  <1>4. DeletionTypeOK'
    BY <1>t, <1>3, DeletionTypesKept
  <1>5. ASSUME NEW u \in Users PROVE Remnants(u)'
    <2>1. CASE Meanwhile
      BY <1>2, <1>3, <2>1, MeanwhileKept
    <2>2. CASE \E v \in Users : RequestAccountDeletion(v) \/ Worker(v) \/ WorkerCrash(v)
      BY <2>2, WorkerKept
    <2>3. CASE UNCHANGED deletionVars
      <3>1. Calm /\ UNCHANGED <<deletion, listed, raced>> /\ Remnants(u)
        BY <1>t, <2>3, StillCalm DEF deletionVars, DeletionShape
      <3> QED
        BY <3>1, CalmKeeps
    <2> QED
      BY <2>1, <2>2, <2>3 DEF DeletionNext
  <1>6. DeletionShape'
    BY <1>5 DEF DeletionShape
  <1> QED
    BY <1>3, <1>4, <1>6 DEF DeletionInv

LEMMA DeletionStarts == DeletionInit => DeletionInv
  <1> SUFFICES ASSUME DeletionInit PROVE DeletionInv
    OBVIOUS
  <1>1. StepInv
    BY StepInit DEF DeletionInit
  <1>2. DeletionTypeOK
    BY CrashBound DEF DeletionInit, DeletionTypeOK, DeletionStates
  <1>3. OwnMatches
    BY DEF DeletionInit, Init, NoMatch, OwnMatches
  <1>4. DeletionShape
    BY DEF DeletionInit, DeletionShape, Remnants
  <1> QED
    BY <1>1, <1>2, <1>3, <1>4 DEF DeletionInv

\* Requests to delete accounts, the worker and its crashes do nothing to the rows that the
\* exchange would not do: what is proved of it holds while accounts are deleted.
THEOREM DeletionRunsBesideTheExchange == DeletionSpec => Spec
  <1>1. DeletionInit => Init
    BY DEF DeletionInit
  <1>2. DeletionInv /\ [DeletionNext]_deletionVars => [Next]_vars
    BY DeletionStepIsStep DEF DeletionInv
  <1> QED
    BY <1>1, <1>2, DeletionStarts, DeletionInvKept, PTL DEF DeletionSpec, Spec

\* For any accounts, requests and items: a deleted account has no active match, open request,
\* reservation or stock but what came in behind its worker, whatever users and timers did
\* between the transactions of the deletion, however often its worker died and however many
\* calls of the account went on (workers/data-request.ts).
THEOREM DeletedAccountsKeepOnlyRaces == DeletionSpec => []OnlyRacesOutliveDeletion
  <1>1. DeletionInv => OnlyRacesOutliveDeletion
    BY DEF DeletionInv, DeletionShape, Remnants, Behind, OnlyRacesOutliveDeletion
  <1> QED
    BY <1>1, DeletionStarts, DeletionInvKept, PTL DEF DeletionSpec

-----------------------------------------------------------------------------
(* The data export: the strengthening *)

\* Rows are asked for in their order, and only an asked row has a job.
RowsInOrder ==
    /\ AskedRows = 1..Cardinality(AskedRows)
    /\ \A e \in Exports : row[e].status = "none" => work[e].job = "none"

\* An app that is under way has asked for a row.
PhonesHaveRows == \A p \in Phones : phone[p].at # "idle" => phone[p].export \in AskedRows

\* What is kept is still linked, and whoever asked later keeps all of it too.
KeptGrows ==
    /\ \A e \in Exports : kept[e] \subseteq linked
    /\ \A e, o \in AskedRows : e <= o => kept[e] \subseteq kept[o]

\* A worker that reads has everything kept of the tables it has passed.
ReadsAll ==
    \A e \in Exports : work[e].job = "reading" =>
        /\ row[e].status = "pending"
        /\ work[e].next \in 1..Cardinality(Tables) + 1
        /\ \A f \in kept[e] : TableOf[f] < work[e].next => f \in work[e].bundle

\* A ready row has everything kept.
ReadyIsWhole == \A e \in ReadyRows : kept[e] \subseteq row[e].payload

\* An app is told only when its own row or a later one is ready.
ToldOfReady ==
    \A p \in Phones : phone[p].at = "told" => \E e \in ReadyRows : phone[p].export <= e

ExportInv ==
    /\ ExportTypeOK /\ RowsInOrder /\ PhonesHaveRows /\ KeptGrows
    /\ ReadsAll /\ ReadyIsWhole /\ ToldOfReady /\ SharedIsWhole

-----------------------------------------------------------------------------
(* Numbers *)

LEMMA ExportNumbers == Cardinality(Exports) \in Nat /\ Exports = 1..Cardinality(Exports) /\ Exports \subseteq Nat
  BY ExportAssumption, FS_CardinalityType DEF Numbered

LEMMA TableNumbers ==
    /\ Cardinality(Tables) \in Nat /\ Tables = 1..Cardinality(Tables)
    /\ \A f \in Facts : TableOf[f] \in Tables
  <1>1. IsFiniteSet(Tables) /\ Tables = 1..Cardinality(Tables)
    BY ExportAssumption DEF Numbered, Tables
  <1> QED
    BY <1>1, FS_CardinalityType DEF Tables

\* A set of exports that is not empty has a newest one.
LEMMA NewestExists ==
    ASSUME NEW es \in SUBSET Exports, es # {}
    PROVE  Newest(es) \in es /\ \A o \in es : o <= Newest(es)
  <1> DEFINE N == Cardinality(Exports)
             T == {N - e : e \in es}
  <1>1. N \in Nat /\ Exports = 1..N
    BY ExportNumbers
  <1>2. T \subseteq Nat /\ T # {}
    BY <1>1
  <1>3. PICK x \in T : \A y \in T : ~(<<y, x>> \in OpToRel(<, Nat))
    BY <1>2, NatLessThanWellFounded, WFMin
  <1>4. \A y \in T : x <= y
    <2> TAKE y \in T
    <2>1. x \in Nat /\ y \in Nat
      BY <1>2, <1>3
    <2>2. <<y, x>> \in Nat \X Nat /\ <<y, x>>[1] = y /\ <<y, x>>[2] = x
      BY <2>1
    <2>3. y < x => <<y, x>> \in OpToRel(<, Nat)
      BY <2>2, Zenon DEF OpToRel
    <2>4. ~(y < x)
      BY <1>3, <2>3, Zenon
    <2> QED
      BY <2>1, <2>4
  <1>5. PICK e \in es : x = N - e
    BY <1>3
  <1>6. \A o \in es : o <= e
    <2> TAKE o \in es
    <2>1. x <= N - o
      BY <1>4
    <2> QED
      BY <2>1, <1>1, <1>5
  <1> QED
    BY <1>5, <1>6 DEF Newest
-----------------------------------------------------------------------------
(* What each step keeps *)

\* Each part of the invariant speaks of a few variables, and stays when they do.
LEMMA WhatStays ==
    ASSUME ExportInv
    PROVE  /\ UNCHANGED <<row, linked, kept>> => (KeptGrows /\ ReadyIsWhole)'
           /\ UNCHANGED <<row, work>> => RowsInOrder'
           /\ UNCHANGED <<row, work, kept>> => ReadsAll'
           /\ UNCHANGED <<row, phone>> => (PhonesHaveRows /\ ToldOfReady)'
           /\ UNCHANGED <<phone, kept>> => SharedIsWhole'
  <1>1. UNCHANGED row => AskedRows' = AskedRows /\ ReadyRows' = ReadyRows
    BY DEF AskedRows, ReadyRows
  <1>2. UNCHANGED <<row, linked, kept>> => (KeptGrows /\ ReadyIsWhole)'
    BY <1>1 DEF ExportInv, KeptGrows, ReadyIsWhole
  <1>3. UNCHANGED <<row, work>> => RowsInOrder'
    BY <1>1 DEF ExportInv, RowsInOrder
  <1>4. UNCHANGED <<row, work, kept>> => ReadsAll'
    BY DEF ExportInv, ReadsAll
  <1>5. UNCHANGED <<row, phone>> => (PhonesHaveRows /\ ToldOfReady)'
    BY <1>1 DEF ExportInv, PhonesHaveRows, ToldOfReady
  <1>6. UNCHANGED <<phone, kept>> => SharedIsWhole'
    BY DEF ExportInv, SharedIsWhole
  <1> QED
    BY <1>2, <1>3, <1>4, <1>5, <1>6

\* AskForExport numbers the new row after all others and keeps what is linked.
LEMMA AskKeeps ==
    ASSUME ExportInv, NEW p \in Phones, AskForExport(p)
    PROVE  ExportInv'
  <1>1. PICK k \in Nat : AskedRows = 1..k
    <2>1. IsFiniteSet(AskedRows)
      BY ExportAssumption, FS_Subset DEF Numbered, AskedRows
    <2> QED
      BY <2>1, FS_CardinalityType DEF ExportInv, RowsInOrder
  <1>2. /\ k + 1 \in Exports \ AskedRows /\ asked < ExportsPerDay
        /\ row' = [row EXCEPT ![k + 1].status = "pending"]
        /\ kept' = [kept EXCEPT ![k + 1] = linked]
        /\ phone' = [phone EXCEPT ![p] = [NotAsking EXCEPT !.at = "asking", !.export = k + 1]]
        /\ asked' = asked + 1 /\ UNCHANGED <<work, linked>>
    <2>1. Cardinality(AskedRows) = k
      BY <1>1, FS_Interval
    <2> QED
      BY <2>1 DEF AskForExport, QuotaLeft
  <1>3. AskedRows' = 1..(k + 1) /\ Cardinality(AskedRows') = k + 1 /\ ReadyRows' = ReadyRows
    <2>1. AskedRows' = AskedRows \cup {k + 1} /\ ReadyRows' = ReadyRows
      BY <1>2 DEF ExportInv, ExportTypeOK, Statuses, AskedRows, ReadyRows
    <2>2. AskedRows' = 1..(k + 1)
      BY <1>1, <2>1
    <2>3. Cardinality(1..(k + 1)) = k + 1
      BY FS_Interval
    <2> QED
      BY <2>1, <2>2, <2>3
  <1>4. phone' \in [Phones -> PhoneRows]
    <2>1. phone'[p] = [at |-> "asking", export |-> k + 1, polls |-> 0, shared |-> {}]
      BY <1>2 DEF ExportInv, ExportTypeOK, NotAsking
    <2>2. k + 1 \in Exports \cup {0} /\ 0 \in 0..MaxPolls
      BY <1>2, ExportAssumption
    <2>3. phone'[p] \in PhoneRows
      BY <2>1, <2>2 DEF PhoneRows, PhoneStates
    <2> QED
      BY <1>2, <2>3 DEF ExportInv, ExportTypeOK
  <1>5. ExportTypeOK'
    BY <1>2, <1>4, ExportAssumption DEF ExportInv, ExportTypeOK, Statuses
  <1>6. RowsInOrder'
    BY <1>2, <1>3 DEF ExportInv, ExportTypeOK, RowsInOrder
  <1>7. PhonesHaveRows'
    BY <1>1, <1>2, <1>3 DEF ExportInv, ExportTypeOK, PhonesHaveRows, PhoneRows, NotAsking
  <1>8. KeptGrows'
    <2>1. \A e \in Exports : kept'[e] = IF e = k + 1 THEN linked ELSE kept[e]
      BY <1>2 DEF ExportInv, ExportTypeOK
    <2>2. ASSUME NEW e \in 1..(k + 1), NEW o \in 1..(k + 1), e <= o PROVE kept'[e] \subseteq kept'[o]
      <3>1. e \in Exports /\ o \in Exports
        BY <1>1, <1>2, <2>2 DEF AskedRows
      <3>2. o = k + 1 \/ (e \in AskedRows /\ o \in AskedRows /\ e # k + 1 /\ o # k + 1)
        BY <1>1, <2>2
      <3> QED
        BY <2>1, <2>2, <3>1, <3>2 DEF ExportInv, KeptGrows
    <2> QED
      BY <1>2, <1>3, <2>1, <2>2 DEF ExportInv, KeptGrows
  <1>9. ReadsAll'
    BY <1>1, <1>2 DEF ExportInv, ExportTypeOK, ReadsAll, RowsInOrder, AskedRows
  <1>10. ReadyIsWhole'
    BY <1>2, <1>3 DEF ExportInv, ExportTypeOK, ReadyIsWhole, ReadyRows, AskedRows
  <1>11. ToldOfReady'
    BY <1>2, <1>3 DEF ExportInv, ExportTypeOK, ToldOfReady, NotAsking
  <1>12. SharedIsWhole'
    BY <1>1, <1>2 DEF ExportInv, ExportTypeOK, SharedIsWhole, PhonesHaveRows, NotAsking
  <1> QED
    BY <1>5, <1>6, <1>7, <1>8, <1>9, <1>10, <1>11, <1>12 DEF ExportInv

\* The row of an app that has asked exists; its job starts with no table read.
LEMMA QueueKeeps ==
    ASSUME ExportInv, NEW p \in Phones, QueueExport(p)
    PROVE  ExportInv'
  <1>1. phone[p].export \in AskedRows /\ phone[p].export \in Exports
    BY DEF ExportInv, PhonesHaveRows, QueueExport, AskedRows
  <1>2. UNCHANGED <<row, linked, kept, asked>> /\ AskedRows' = AskedRows /\ ReadyRows' = ReadyRows
    BY DEF QueueExport, AskedRows, ReadyRows
  <1>3. /\ work' \in [Exports -> WorkRows]
        /\ \A e \in Exports : work'[e] = work[e] \/ (e \in AskedRows /\ work'[e].job = "waiting")
    <2>1. [work[phone[p].export] EXCEPT !.job = "waiting"] \in WorkRows
      BY <1>1 DEF ExportInv, ExportTypeOK, WorkRows, JobStates
    <2>2. work' = work \/ work' = [work EXCEPT ![phone[p].export].job = "waiting"]
      BY DEF QueueExport
    <2>3. \A e \in Exports : work[e] \in WorkRows
      BY DEF ExportInv, ExportTypeOK
    <2> QED
      BY <1>1, <2>1, <2>2, <2>3 DEF ExportInv, ExportTypeOK, WorkRows
  <1>4. /\ phone' \in [Phones -> PhoneRows]
        /\ phone'[p] = NotAsking \/ (phone'[p] = [phone[p] EXCEPT !.at = "polling"])
        /\ \A o \in Phones \ {p} : phone'[o] = phone[o]
    <2>1. NotAsking \in PhoneRows
      BY ExportAssumption DEF PhoneRows, PhoneStates, NotAsking
    <2>2. [phone[p] EXCEPT !.at = "polling"] \in PhoneRows
      BY DEF ExportInv, ExportTypeOK, PhoneRows, PhoneStates
    <2>3. phone' = [phone EXCEPT ![p] = NotAsking] \/ phone' = [phone EXCEPT ![p].at = "polling"]
      BY DEF QueueExport
    <2> QED
      BY <2>1, <2>2, <2>3 DEF ExportInv, ExportTypeOK
  <1>5. ExportTypeOK'
    <2>1. row' = row /\ linked' = linked /\ kept' = kept /\ asked' = asked
      BY <1>2
    <2>2. work' \in [Exports -> WorkRows]
      BY <1>3
    <2>3. phone' \in [Phones -> PhoneRows]
      BY <1>4
    <2>4. ExportTypeOK
      BY DEF ExportInv
    <2> QED
      BY <2>1, <2>2, <2>3, <2>4 DEF ExportTypeOK, WorkRows, PhoneRows
  <1>6. RowsInOrder'
    BY <1>2, <1>3 DEF ExportInv, RowsInOrder, AskedRows
  <1>7. PhonesHaveRows'
    BY <1>1, <1>2, <1>4 DEF ExportInv, ExportTypeOK, PhonesHaveRows, PhoneRows, NotAsking
  <1>8. KeptGrows'
    BY <1>2 DEF ExportInv, KeptGrows
  <1>9. ReadsAll'
    BY <1>2, <1>3 DEF ExportInv, ReadsAll
  <1>10. ReadyIsWhole'
    BY <1>2 DEF ExportInv, ReadyIsWhole
  <1>11. ToldOfReady'
    BY <1>2, <1>4 DEF ExportInv, ExportTypeOK, ToldOfReady, PhoneRows, NotAsking
  <1>12. SharedIsWhole'
    BY <1>2, <1>4 DEF ExportInv, ExportTypeOK, SharedIsWhole, PhoneRows, NotAsking
  <1> QED
    BY <1>5, <1>6, <1>7, <1>8, <1>9, <1>10, <1>11, <1>12 DEF ExportInv

\* An app is told of the newest row, which its own is not later than.
LEMMA PollKeeps ==
    ASSUME ExportInv, NEW p \in Phones, Poll(p)
    PROVE  ExportInv'
  <1>1. /\ phone'[p] = [phone[p] EXCEPT !.polls = @ + 1, !.at = IF Advertised THEN "told" ELSE "polling"]
        /\ phone[p].at = "polling" /\ phone[p].polls < MaxPolls
    BY DEF ExportInv, ExportTypeOK, PhoneRows, Poll
  <1>2. phone'[p] \in PhoneRows
    <2>1. phone[p] \in PhoneRows /\ phone[p].polls + 1 \in 0..MaxPolls
      BY <1>1, ExportAssumption DEF ExportInv, ExportTypeOK, PhoneRows
    <2> QED
      BY <1>1, <2>1 DEF PhoneRows, PhoneStates
  <1>3. ExportTypeOK'
    BY <1>2 DEF ExportInv, ExportTypeOK, Poll
  <1>4. PhonesHaveRows'
    BY <1>1 DEF ExportInv, ExportTypeOK, PhonesHaveRows, AskedRows, Poll, PhoneRows
  <1>5. ToldOfReady'
    <2>1. Advertised => \E e \in ReadyRows : phone[p].export <= e
      BY <1>1, NewestExists DEF ExportInv, PhonesHaveRows, Advertised, ReadyRows, AskedRows
    <2> QED
      BY <1>1, <2>1 DEF ExportInv, ExportTypeOK, PhoneRows, ToldOfReady, ReadyRows, Poll
  <1>6. SharedIsWhole'
    BY DEF ExportInv, ExportTypeOK, SharedIsWhole, Poll
  <1>7. (RowsInOrder /\ KeptGrows /\ ReadsAll /\ ReadyIsWhole)'
    BY WhatStays DEF Poll
  <1> QED
    BY <1>3, <1>4, <1>5, <1>6, <1>7 DEF ExportInv

\* What is downloaded is the newest ready row's, which holds all that an earlier one keeps.
LEMMA DownloadKeeps ==
    ASSUME ExportInv, NEW p \in Phones, Download(p)
    PROVE  ExportInv'
  <1>1. PICK e \in ReadyRows : phone[p].export <= e
    BY DEF ExportInv, ToldOfReady, Download
  <1>2. Newest(ReadyRows) \in ReadyRows /\ e <= Newest(ReadyRows)
    BY <1>1, NewestExists DEF ReadyRows
  <1>3. kept[phone[p].export] \subseteq Downloaded /\ Downloaded \subseteq Facts
    <2>1. phone[p].export \in AskedRows /\ phone[p].export \in Nat
      BY ExportNumbers DEF ExportInv, PhonesHaveRows, Download, AskedRows
    <2>2. Newest(ReadyRows) \in AskedRows /\ Newest(ReadyRows) \in Nat /\ e \in Nat
      BY <1>2, ExportNumbers DEF ReadyRows, AskedRows
    <2>3. kept[phone[p].export] \subseteq kept[Newest(ReadyRows)]
      BY <1>1, <1>2, <2>1, <2>2 DEF ExportInv, KeptGrows
    <2> QED
      BY <1>2, <2>3 DEF ExportInv, ExportTypeOK, ReadyIsWhole, ReadyRows, Downloaded
  <1>4. phone'[p] = [phone[p] EXCEPT !.at = "shared", !.shared = Downloaded] /\ phone'[p] \in PhoneRows
    <2>1. phone'[p] = [phone[p] EXCEPT !.at = "shared", !.shared = Downloaded]
      BY <1>1 DEF ExportInv, ExportTypeOK, PhoneRows, Download
    <2> QED
      BY <1>3, <2>1 DEF ExportInv, ExportTypeOK, PhoneRows, PhoneStates
  <1>5. ExportTypeOK'
    BY <1>4 DEF ExportInv, ExportTypeOK, Download
  <1>6. PhonesHaveRows'
    BY <1>4 DEF ExportInv, ExportTypeOK, PhonesHaveRows, AskedRows, Download, PhoneRows
  <1>7. SharedIsWhole'
    BY <1>3, <1>4 DEF ExportInv, ExportTypeOK, PhoneRows, SharedIsWhole, Download
  <1>8. ToldOfReady'
    BY DEF ExportInv, ExportTypeOK, ToldOfReady, ReadyRows, Download, PhoneRows
  <1>9. (RowsInOrder /\ KeptGrows /\ ReadsAll /\ ReadyIsWhole)'
    BY WhatStays DEF Download
  <1> QED
    BY <1>5, <1>6, <1>7, <1>8, <1>9 DEF ExportInv

\* A free button forgets its export.
LEMMA FreeKeeps ==
    ASSUME ExportInv, NEW p \in Phones, FreeButton(p)
    PROVE  ExportInv'
  <1>1. ExportTypeOK'
    BY ExportAssumption DEF ExportInv, ExportTypeOK, FreeButton, PhoneRows, PhoneStates, NotAsking
  <1>2. PhonesHaveRows'
    BY DEF ExportInv, ExportTypeOK, PhonesHaveRows, AskedRows, FreeButton, NotAsking
  <1>3. ToldOfReady'
    BY DEF ExportInv, ExportTypeOK, ToldOfReady, ReadyRows, FreeButton, NotAsking
  <1>4. SharedIsWhole'
    BY DEF ExportInv, ExportTypeOK, SharedIsWhole, FreeButton, NotAsking
  <1>5. (RowsInOrder /\ KeptGrows /\ ReadsAll /\ ReadyIsWhole)'
    BY WhatStays DEF FreeButton
  <1> QED
    BY <1>1, <1>2, <1>3, <1>4, <1>5 DEF ExportInv

\* A job that starts has read nothing.
LEMMA StartKeeps ==
    ASSUME ExportInv, NEW e \in Exports, StartExport(e)
    PROVE  ExportInv'
  <1>1. ExportTypeOK'
    BY DEF ExportInv, ExportTypeOK, StartExport, WorkRows, JobStates, NoWork
  <1>2. ReadsAll'
    BY ExportAssumption, TableNumbers DEF ExportInv, ExportTypeOK, ReadsAll, StartExport, NoWork,
         MustBuild
  <1>3. RowsInOrder'
    BY DEF ExportInv, ExportTypeOK, RowsInOrder, AskedRows, StartExport, NoWork, MustBuild
  <1>4. (PhonesHaveRows /\ KeptGrows /\ ReadyIsWhole /\ ToldOfReady /\ SharedIsWhole)'
    BY WhatStays DEF StartExport
  <1> QED
    BY <1>1, <1>2, <1>3, <1>4 DEF ExportInv

\* Reading a table adds all that is kept of it, because what is kept is linked.
LEMMA ReadKeeps ==
    ASSUME ExportInv, NEW e \in Exports, ReadTable(e)
    PROVE  ExportInv'
  <1>1. work'[e] = [work[e] EXCEPT !.next = @ + 1,
                             !.bundle = @ \cup {f \in linked : TableOf[f] = work[e].next}]
    BY DEF ExportInv, ExportTypeOK, ReadTable, WorkRows, InTable
  <1>2. work'[e] \in WorkRows
    <2>1. work[e] \in WorkRows /\ linked \subseteq Facts
      BY DEF ExportInv, ExportTypeOK
    <2>2. /\ work[e].next + 1 \in Nat
          /\ work[e].bundle \cup {f \in linked : TableOf[f] = work[e].next} \in SUBSET Facts
      BY <2>1 DEF WorkRows
    <2> QED
      BY <1>1, <2>1, <2>2 DEF WorkRows
  <1>3. ExportTypeOK'
    BY <1>2 DEF ExportInv, ExportTypeOK, ReadTable
  <1>4. ReadsAll'
    <2>1. \A o \in Exports \ {e} : work'[o] = work[o]
      BY DEF ExportInv, ExportTypeOK, ReadTable
    <2>2. /\ row[e].status = "pending" /\ work[e].next \in 1..Cardinality(Tables)
          /\ \A f \in kept[e] : TableOf[f] < work[e].next => f \in work[e].bundle
      BY TableNumbers DEF ExportInv, ReadsAll, ReadTable
    <2>3. work'[e].next = work[e].next + 1
          /\ work'[e].bundle = work[e].bundle \cup {f \in linked : TableOf[f] = work[e].next}
      BY <1>1 DEF ExportInv, ExportTypeOK, WorkRows
    <2>4. \A f \in kept[e] : f \in linked /\ TableOf[f] \in Nat
      BY ExportAssumption DEF ExportInv, ExportTypeOK, KeptGrows
    <2>5. \A f \in kept[e] : TableOf[f] < work[e].next + 1 => f \in work'[e].bundle
      BY <2>2, <2>3, <2>4
    <2>6. work[e].next + 1 \in 1..Cardinality(Tables) + 1 /\ UNCHANGED <<row, kept>>
      BY <2>2, TableNumbers DEF ReadTable
    <2> QED
      BY <2>1, <2>2, <2>3, <2>5, <2>6 DEF ExportInv, ReadsAll
  <1>5. RowsInOrder'
    BY DEF ExportInv, ExportTypeOK, RowsInOrder, AskedRows, ReadTable
  <1>6. (PhonesHaveRows /\ KeptGrows /\ ReadyIsWhole /\ ToldOfReady /\ SharedIsWhole)'
    BY WhatStays DEF ReadTable
  <1> QED
    BY <1>3, <1>4, <1>5, <1>6 DEF ExportInv

\* Past the last table the bundle has everything kept.
LEMMA WriteKeeps ==
    ASSUME ExportInv, NEW e \in Exports, WriteExport(e)
    PROVE  ExportInv'
  <1>1. \A f \in kept[e] : f \in work[e].bundle
    BY ExportAssumption, TableNumbers DEF ExportInv, ExportTypeOK, ReadsAll, WriteExport
  <1>2. row[e].status = "pending" /\ AskedRows' = AskedRows /\ ReadyRows' = ReadyRows \cup {e}
    BY DEF ExportInv, ExportTypeOK, ReadsAll, WriteExport, AsReady, AskedRows, ReadyRows
  <1>3. ExportTypeOK'
    BY DEF ExportInv, ExportTypeOK, WriteExport, WorkRows, JobStates, Statuses, AsReady
  <1>4. KeptGrows'
    BY <1>2 DEF ExportInv, KeptGrows, WriteExport
  <1>5. ReadyIsWhole'
    BY <1>1, <1>2 DEF ExportInv, ExportTypeOK, ReadyIsWhole, ReadyRows, WriteExport, AsReady
  <1>6. RowsInOrder'
    BY DEF ExportInv, ExportTypeOK, RowsInOrder, AskedRows, WriteExport, AsReady
  <1>7. PhonesHaveRows'
    BY DEF ExportInv, ExportTypeOK, PhonesHaveRows, AskedRows, WriteExport, AsReady
  <1>8. ReadsAll'
    BY DEF ExportInv, ExportTypeOK, ReadsAll, WriteExport, AsReady
  <1>9. ToldOfReady'
    BY DEF ExportInv, ExportTypeOK, ToldOfReady, ReadyRows, WriteExport, AsReady
  <1>10. SharedIsWhole'
    BY WhatStays DEF WriteExport
  <1> QED
    BY <1>3, <1>4, <1>5, <1>6, <1>7, <1>8, <1>9, <1>10 DEF ExportInv

\* Announcing touches no row.
LEMMA AnnounceKeeps ==
    ASSUME ExportInv, NEW e \in Exports, AnnounceExport(e)
    PROVE  ExportInv'
  <1>1. work'[e] \in WorkRows
    BY DEF ExportInv, ExportTypeOK, AnnounceExport, WorkRows, JobStates
  <1>2. ExportTypeOK'
    BY <1>1 DEF ExportInv, ExportTypeOK, AnnounceExport
  <1>3. RowsInOrder'
    BY DEF ExportInv, ExportTypeOK, RowsInOrder, AskedRows, AnnounceExport
  <1>4. ReadsAll'
    BY DEF ExportInv, ExportTypeOK, ReadsAll, AnnounceExport
  <1>5. (PhonesHaveRows /\ KeptGrows /\ ReadyIsWhole /\ ToldOfReady /\ SharedIsWhole)'
    BY WhatStays DEF AnnounceExport
  <1> QED
    BY <1>2, <1>3, <1>4, <1>5 DEF ExportInv

\* A job that died starts anew.
LEMMA DeathKeeps ==
    ASSUME ExportInv, NEW e \in Exports, ExportWorkerDies(e)
    PROVE  ExportInv'
  <1>1. ExportTypeOK'
    BY DEF ExportInv, ExportTypeOK, ExportWorkerDies, WorkRows, JobStates, NoWork
  <1>2. RowsInOrder'
    BY DEF ExportInv, ExportTypeOK, RowsInOrder, AskedRows, ExportWorkerDies, NoWork
  <1>3. ReadsAll'
    BY DEF ExportInv, ExportTypeOK, ReadsAll, ExportWorkerDies, NoWork
  <1>4. (PhonesHaveRows /\ KeptGrows /\ ReadyIsWhole /\ ToldOfReady /\ SharedIsWhole)'
    BY WhatStays DEF ExportWorkerDies
  <1> QED
    BY <1>1, <1>2, <1>3, <1>4 DEF ExportInv

\* A job that threw stays as it is.
LEMMA FailKeeps ==
    ASSUME ExportInv, NEW e \in Exports, ExportJobFails(e)
    PROVE  ExportInv'
  <1>1. work'[e] \in WorkRows
    BY DEF ExportInv, ExportTypeOK, ExportJobFails, WorkRows, JobStates
  <1>2. ExportTypeOK'
    BY <1>1 DEF ExportInv, ExportTypeOK, ExportJobFails
  <1>3. RowsInOrder'
    BY DEF ExportInv, ExportTypeOK, RowsInOrder, AskedRows, ExportJobFails
  <1>4. ReadsAll'
    BY DEF ExportInv, ExportTypeOK, ReadsAll, ExportJobFails
  <1>5. (PhonesHaveRows /\ KeptGrows /\ ReadyIsWhole /\ ToldOfReady /\ SharedIsWhole)'
    BY WhatStays DEF ExportJobFails
  <1> QED
    BY <1>2, <1>3, <1>4, <1>5 DEF ExportInv

\* A new fact is nobody's to have read.
LEMMA LinkKeeps ==
    ASSUME ExportInv, NEW f \in Facts, Link(f)
    PROVE  ExportInv'
  <1>1. ExportTypeOK'
    BY DEF ExportInv, ExportTypeOK, Link
  <1>2. KeptGrows'
    BY DEF ExportInv, ExportTypeOK, KeptGrows, AskedRows, Link
  <1>3. ReadyIsWhole'
    BY DEF ExportInv, ExportTypeOK, ReadyIsWhole, ReadyRows, Link
  <1>4. (RowsInOrder /\ PhonesHaveRows /\ ReadsAll /\ ToldOfReady /\ SharedIsWhole)'
    BY WhatStays DEF Link
  <1> QED
    BY <1>1, <1>2, <1>3, <1>4 DEF ExportInv

\* What is no longer linked is no longer kept.
LEMMA UnlinkKeeps ==
    ASSUME ExportInv, NEW fs \in SUBSET Facts, Unlink(fs)
    PROVE  ExportInv'
  <1>1. \A e \in Exports : kept'[e] = kept[e] \ fs
    BY DEF Unlink
  <1>2. KeptGrows'
    BY <1>1 DEF ExportInv, KeptGrows, AskedRows, Unlink
  <1>3. ReadsAll'
    BY <1>1 DEF ExportInv, ReadsAll, Unlink
  <1>4. ReadyIsWhole'
    BY <1>1 DEF ExportInv, ReadyIsWhole, ReadyRows, Unlink
  <1>5. SharedIsWhole'
    <2>1. \A o \in Phones : phone[o].at = "shared" => phone[o].export \in Exports
      BY DEF ExportInv, PhonesHaveRows, AskedRows
    <2> QED
      BY <1>1, <2>1 DEF ExportInv, SharedIsWhole, Unlink
  <1>6. ExportTypeOK'
    BY DEF ExportInv, ExportTypeOK, Unlink
  <1>7. (RowsInOrder /\ PhonesHaveRows /\ ToldOfReady)'
    BY WhatStays DEF Unlink
  <1> QED
    BY <1>2, <1>3, <1>4, <1>5, <1>6, <1>7 DEF ExportInv

\* The account's deletion, the quota and stuttering change none of this.
LEMMA OthersKeep ==
    ASSUME ExportInv, DeleteAccount \/ QuotaResets \/ UNCHANGED exportVars
    PROVE  ExportInv'
  <1>1. ExportTypeOK'
    BY ExportAssumption DEF ExportInv, ExportTypeOK, DeleteAccount, QuotaResets, exportVars,
         DeleteAccount, QuotaResets, exportVars
  <1>2. (RowsInOrder /\ PhonesHaveRows /\ KeptGrows /\ ReadsAll /\ ReadyIsWhole /\ ToldOfReady /\ SharedIsWhole)'
    BY WhatStays DEF DeleteAccount, QuotaResets, exportVars
  <1> QED
    BY <1>1, <1>2 DEF ExportInv

-----------------------------------------------------------------------------
(* Every step, and the theorems *)

LEMMA ExportStarts == ExportInit => ExportInv
  <1> SUFFICES ASSUME ExportInit PROVE ExportInv
    OBVIOUS
  <1>1. AskedRows = {} /\ ReadyRows = {} /\ Cardinality(AskedRows) = 0
    BY FS_EmptySet DEF ExportInit, AskedRows, ReadyRows
  <1>2. ExportTypeOK
    BY ExportAssumption DEF ExportInit, ExportTypeOK, WorkRows, PhoneRows, JobStates, PhoneStates,
                            Statuses, NoWork, NotAsking
  <1>3. RowsInOrder /\ PhonesHaveRows /\ KeptGrows /\ ReadsAll
    BY <1>1 DEF ExportInit, RowsInOrder, PhonesHaveRows, KeptGrows, ReadsAll, NoWork, NotAsking
  <1>4. ReadyIsWhole /\ ToldOfReady /\ SharedIsWhole
    BY <1>1 DEF ExportInit, ReadyIsWhole, ToldOfReady, SharedIsWhole, NotAsking
  <1> QED
    BY <1>2, <1>3, <1>4 DEF ExportInv

LEMMA ExportContinues == ExportInv /\ [ExportNext]_exportVars => ExportInv'
  <1> SUFFICES ASSUME ExportInv, [ExportNext]_exportVars PROVE ExportInv'
    OBVIOUS
  <1>1. ASSUME NEW p \in Phones,
               AskForExport(p) \/ QueueExport(p) \/ Poll(p) \/ Download(p) \/ FreeButton(p)
        PROVE  ExportInv'
    BY <1>1, AskKeeps, QueueKeeps, PollKeeps, DownloadKeeps, FreeKeeps
  <1>2. ASSUME NEW e \in Exports, ExportWorker(e) \/ ExportWorkerDies(e) \/ ExportJobFails(e)
        PROVE  ExportInv'
    BY <1>2, StartKeeps, ReadKeeps, WriteKeeps, AnnounceKeeps, DeathKeeps, FailKeeps DEF ExportWorker
  <1>3. ASSUME NEW f \in Facts, Link(f) \/ PurgeFact(f)
        PROVE  ExportInv'
    BY <1>3, LinkKeeps, UnlinkKeeps DEF PurgeFact
  <1>4. CASE EraseHolder
    BY <1>4, UnlinkKeeps, ExportAssumption DEF EraseHolder
  <1>5. CASE DeleteAccount \/ QuotaResets \/ UNCHANGED exportVars
    BY <1>5, OthersKeep
  <1> QED
    BY <1>1, <1>2, <1>3, <1>4, <1>5 DEF ExportNext

\* The strengthened invariant of the export holds in every reachable state.
THEOREM ExportInvariant == ExportSpec => []ExportInv
  BY ExportStarts, ExportContinues, PTL DEF ExportSpec

\* However the tables change under the worker, however often it dies, and whichever of
\* several exports the download serves: what an app shares has everything that was the
\* account's when that app asked and still is.
THEOREM SharedExportIsWhole == ExportSpec => []SharedIsWhole
  <1>1. ExportInv => SharedIsWhole
    BY DEF ExportInv
  <1> QED
    BY <1>1, ExportInvariant, PTL

\* A ready export is never written again: the only step that writes a row is that of a
\* worker that found it pending, and no step in between makes it ready.
THEOREM ReadyExportStays == ExportSpec => ReadyStaysAsItWas
  <1> DEFINE Stays == \A e \in Exports : row[e].status = "ready" => row'[e] = row[e]
  <1>1. ASSUME ExportInv, [ExportNext]_exportVars PROVE Stays
    <2>1. CASE \E p \in Phones : AskForExport(p)
      BY <1>1, <2>1 DEF AskForExport, AskedRows, ExportInv, ExportTypeOK
    <2>2. CASE \E e \in Exports : WriteExport(e)
      BY <1>1, <2>2 DEF WriteExport, ExportInv, ExportTypeOK, ReadsAll
    <2>3. CASE UNCHANGED row
      BY <2>3
    <2> QED
      BY <1>1, <2>1, <2>2, <2>3
         DEF ExportNext, exportVars, QueueExport, Poll, Download, FreeButton, ExportWorker, StartExport,
             ReadTable, AnnounceExport, ExportWorkerDies, ExportJobFails, Link, PurgeFact, Unlink,
             DeleteAccount, EraseHolder, QuotaResets
  <1>2. ExportSpec => [][Stays]_exportVars
    BY <1>1, ExportInvariant, PTL DEF ExportSpec
  <1> QED
    BY <1>2 DEF ReadyStaysAsItWas

-----------------------------------------------------------------------------
(* Types *)

\* JobTypeOK: pending jobs are of the four kinds and about rows there are, whatever is lost.
THEOREM JobsAreTyped == JobSpec => []JobTypeOK
  BY JobsStart, JobTypesKept, PTL DEF JobSpec

\* DeletionTypeOK: a deletion is at one of its steps, with a list of matches, whenever its
\* worker dies.
THEOREM DeletionIsTyped == DeletionSpec => []DeletionTypeOK
  <1>1. DeletionInv => DeletionTypeOK
    BY DEF DeletionInv
  <1> QED
    BY <1>1, DeletionStarts, DeletionInvKept, PTL DEF DeletionSpec

\* ExportTypeOK: rows, workers and waiting phones stay in their types, and a day's exports in its quota.
THEOREM ExportIsTyped == ExportSpec => []ExportTypeOK
  <1>1. ExportInv => ExportTypeOK
    BY DEF ExportInv
  <1> QED
    BY <1>1, ExportInvariant, PTL

\* JobsTypeOK: the queue, the deletion worker and the export keep their types beside each
\* other, whichever of the first two runs the exchange's steps.
THEOREM WorkersAreTyped == WorkersSpec => []JobsTypeOK
  <1>1. NoDeletion => []DeletionTypeOK
    <2>1. ASSUME deletion = [u \in Users |-> "none"], listed = [u \in Users |-> {}], crashes = 0,
                 late = 0, raced = [u \in Users |-> {}]
          PROVE  DeletionTypeOK
      BY <2>1, CrashBound DEF DeletionTypeOK, DeletionStates
    <2>2. DeletionTypeOK /\ [FALSE]_<<deletion, listed, crashes, late, raced>> => DeletionTypeOK'
      BY DEF DeletionTypeOK, Pairs
    <2> QED
      BY <2>1, <2>2, PTL DEF NoDeletion
  <1>2. DeadQueue => []JobTypeOK
    <2>1. ASSUME jobs = {}, faults = MaxFaults PROVE JobTypeOK
      BY <2>1, FaultBound DEF JobTypeOK
    <2>2. JobTypeOK /\ [FALSE]_<<jobs, faults>> => JobTypeOK'
      BY DEF JobTypeOK, Pairs
    <2> QED
      BY <2>1, <2>2, PTL DEF DeadQueue
  <1>3. JobTypeOK /\ DeletionTypeOK /\ ExportTypeOK => JobsTypeOK
    BY DEF JobsTypeOK
  <1> QED
    BY <1>1, <1>2, <1>3, JobsAreTyped, DeletionIsTyped, ExportIsTyped, PTL DEF WorkersSpec

=============================================================================
