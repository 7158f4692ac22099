---------------------------- MODULE LedgerProofs ----------------------------
(***************************************************************************)
(* The books of the exchange.  First its reliability counters against the  *)
(* history they count: a step adds to a counter exactly when it adds to     *)
(* what a recount would find.  Then the ledger it implements: under the     *)
(* refinement mapping of Exchange, initial states are initial states and    *)
(* every kind of step is a step of the ledger or changes nothing there.     *)
(***************************************************************************)
EXTENDS ExchangeProofs

-----------------------------------------------------------------------------
(* What a recount looks at *)

AcceptedBy(u) ==
    {p \in Pairs : p[2] = u /\ match[p].status \in MatchStatuses \ {"none"}}
CompletedBy(u) ==
    {p \in Pairs : /\ p[2] = u /\ SettledQty(p) > 0
                   /\ match[p].status \in SettledStatuses}
AbandonedBy(u) == {p \in Pairs : p[2] = u /\ match[p].status \in {"cancelled_by_helper"}}
DisputedOf(u) ==
    {p \in Pairs : /\ u \in {p[2], Requester[p[1]]}
                   /\ match[p].status = "disputed"}
OpenTo(u) == {p \in Pairs : p[2] = u /\ offer[p].status = "offered"}

\* Every offer a helper received was answered, is still open, or came to nothing.
AnswersReceived == \A u \in Users : stats[u].responded + Cardinality(OpenTo(u)) <= stats[u].received

CounterInv == CountersMatchHistory /\ AnswersReceived

Tally(u) ==
    /\ stats[u].accepted = Cardinality(AcceptedBy(u))
    /\ stats[u].completed = Cardinality(CompletedBy(u))
    /\ stats[u].cancelledPre + stats[u].cancelledPost = Cardinality(AbandonedBy(u))
    /\ stats[u].disputes = Cardinality(DisputedOf(u))
    /\ stats[u].accepted <= stats[u].responded
    /\ stats[u].responded + Cardinality(OpenTo(u)) <= stats[u].received

-----------------------------------------------------------------------------
(* Counting *)

LEMMA PairsFinite == IsFiniteSet(Pairs)
  BY FiniteTables, FS_Product DEF Pairs

LEMMA TallyFinite ==
    ASSUME NEW u
    PROVE  /\ IsFiniteSet(AcceptedBy(u)) /\ IsFiniteSet(CompletedBy(u))
           /\ IsFiniteSet(AbandonedBy(u)) /\ IsFiniteSet(DisputedOf(u))
           /\ IsFiniteSet(OpenTo(u)) /\ IsFiniteSet(OpenTo(u)')
           /\ Cardinality(OpenTo(u)) \in Nat /\ Cardinality(OpenTo(u)') \in Nat
  <1>1. /\ AcceptedBy(u) \subseteq Pairs /\ CompletedBy(u) \subseteq Pairs
        /\ AbandonedBy(u) \subseteq Pairs /\ DisputedOf(u) \subseteq Pairs
        /\ OpenTo(u) \subseteq Pairs /\ OpenTo(u)' \subseteq Pairs
    BY DEF AcceptedBy, CompletedBy, AbandonedBy, DisputedOf, OpenTo
  <1> QED
    BY <1>1, PairsFinite, FS_Subset, FS_CardinalityType

\* A set that gains the element x, or is as it was.
LEMMA GainsOne ==
    ASSUME NEW S, NEW T, NEW x, IsFiniteSet(S), x \notin S, NEW b \in BOOLEAN,
           T = IF b THEN S \cup {x} ELSE S
    PROVE  Cardinality(T) = Cardinality(S) + One(b)
  <1>0. Cardinality(S) \in Nat
    BY FS_CardinalityType
  <1>1. Cardinality(S \cup {x}) = Cardinality(S) + 1
    BY FS_AddElement
  <1> QED
    BY <1>0, <1>1 DEF One

\* A set that only loses elements, x among them if b.
LEMMA LosesOne ==
    ASSUME NEW S, NEW T, NEW x, IsFiniteSet(S), NEW b \in BOOLEAN,
           T \subseteq S, b => x \in S /\ x \notin T
    PROVE  Cardinality(T) + One(b) <= Cardinality(S)
  <1>0. Cardinality(S) \in Nat
    BY FS_CardinalityType
  <1>1. IsFiniteSet(T) /\ Cardinality(T) \in Nat /\ Cardinality(T) <= Cardinality(S)
    BY FS_Subset, FS_CardinalityType
  <1>2. CASE b
    <2>1. x \in S /\ T \subseteq S \ {x}
      BY <1>2
    <2>2. IsFiniteSet(S \ {x}) /\ Cardinality(S \ {x}) = Cardinality(S) - 1
      BY <2>1, FS_RemoveElement
    <2>3. Cardinality(T) <= Cardinality(S \ {x})
      BY <2>1, <2>2, FS_Subset
    <2> QED
      BY <1>0, <1>1, <1>2, <2>2, <2>3 DEF One
  <1>3. CASE ~b
    BY <1>0, <1>1, <1>3 DEF One
  <1> QED
    BY <1>2, <1>3

LEMMA CounterIsTally == StepInv => (CounterInv <=> \A u \in Users : Tally(u))
  <1> SUFFICES ASSUME StepInv PROVE CounterInv <=> \A u \in Users : Tally(u)
    OBVIOUS
  <1>1. \A u \in Users : /\ stats[u].responded \in Nat /\ stats[u].received \in Nat
                         /\ Cardinality(OpenTo(u)) \in Nat
    BY TallyFinite DEF StepInv, StockInv, TypeOK, StatsRow
  <1>2. \A u \in Users :
           /\ CountMatches(u, MatchStatuses \ {"none"}) = Cardinality(AcceptedBy(u))
           /\ CountMatches(u, {"cancelled_by_helper"}) = Cardinality(AbandonedBy(u))
    BY DEF CountMatches, AcceptedBy, AbandonedBy
  <1>3. CountersMatchHistory <=> \A u \in Users :
           /\ stats[u].accepted = Cardinality(AcceptedBy(u))
           /\ stats[u].completed = Cardinality(CompletedBy(u))
           /\ stats[u].cancelledPre + stats[u].cancelledPost = Cardinality(AbandonedBy(u))
           /\ stats[u].disputes = Cardinality(DisputedOf(u))
           /\ stats[u].accepted <= stats[u].responded
           /\ stats[u].responded <= stats[u].received
    BY <1>2, Zenon DEF CountersMatchHistory, CompletedBy, DisputedOf
  <1> QED
    BY <1>1, <1>3 DEF CounterInv, AnswersReceived, Tally

\* The recount of u is what it was.
SameRecount(u) ==
    /\ AcceptedBy(u)' = AcceptedBy(u) /\ CompletedBy(u)' = CompletedBy(u)
    /\ AbandonedBy(u)' = AbandonedBy(u) /\ DisputedOf(u)' = DisputedOf(u)

LEMMA KeptRecount ==
    ASSUME MatchesKept({}), NEW u
    PROVE  SameRecount(u)
  <1>1. \A p \in Pairs : /\ match'[p].status = match[p].status
                         /\ match[p].status \in SettledStatuses =>
                               match'[p].confirmed = match[p].confirmed
    BY DEF MatchesKept, MatchKept, SettledStatuses
  <1>2. \A p \in Pairs : match[p].status \in SettledStatuses => SettledQty(p)' = SettledQty(p)
    BY <1>1 DEF SettledQty
  <1>3. AcceptedBy(u)' = AcceptedBy(u)
    BY <1>1 DEF AcceptedBy
  <1>4. CompletedBy(u)' = CompletedBy(u)
    BY <1>1, <1>2 DEF CompletedBy
  <1>5. AbandonedBy(u)' = AbandonedBy(u)
    BY <1>1 DEF AbandonedBy
  <1>6. DisputedOf(u)' = DisputedOf(u)
    BY <1>1 DEF DisputedOf
  <1> QED
    BY <1>3, <1>4, <1>5, <1>6 DEF SameRecount

\* A step that keeps the matches, and counts neither more answers than it closes
\* offers nor fewer offers than it makes.
LEMMA TallyKept ==
    ASSUME NEW u \in Users, Tally(u), StepInv, MatchesKept({}),
           /\ stats'[u].accepted = stats[u].accepted
           /\ stats'[u].completed = stats[u].completed
           /\ stats'[u].cancelledPre = stats[u].cancelledPre
           /\ stats'[u].cancelledPost = stats[u].cancelledPost
           /\ stats'[u].disputes = stats[u].disputes,
           NEW d \in {0, 1},
           stats'[u].responded = stats[u].responded + d,
           stats'[u].responded + Cardinality(OpenTo(u)') <= stats'[u].received
    PROVE  Tally(u)'
  <1>1. SameRecount(u)
    BY KeptRecount
  <1>2. stats[u].responded \in Nat /\ stats[u].accepted \in Nat
    BY DEF StepInv, StockInv, TypeOK, StatsRow
  <1> QED
    BY <1>1, <1>2 DEF SameRecount, Tally

LEMMA StatsSame ==
    ASSUME NEW u \in Users, Tally(u), StepInv, MatchesKept({}), stats' = stats,
           \A p \in Pairs : offer'[p].status = "offered" => offer[p].status = "offered"
    PROVE  Tally(u)'
  <1>1. OpenTo(u)' \subseteq OpenTo(u)
    BY DEF OpenTo
  <1>2. Cardinality(OpenTo(u)') <= Cardinality(OpenTo(u))
    BY <1>1, TallyFinite, FS_Subset
  <1>3. /\ stats[u].responded \in Nat /\ stats[u].received \in Nat
        /\ Cardinality(OpenTo(u)) \in Nat /\ Cardinality(OpenTo(u)') \in Nat
    BY TallyFinite DEF StepInv, StockInv, TypeOK, StatsRow
  <1>4. stats[u].responded + Cardinality(OpenTo(u)') <= stats[u].received
    BY <1>2, <1>3 DEF Tally
  <1>5. stats'[u].responded = stats[u].responded + 0
    BY <1>3
  <1> QED
    BY <1>4, <1>5, TallyKept

-----------------------------------------------------------------------------
(* Every kind of step counts what it does *)

LEMMA CalmTally ==
    ASSUME StepInv, NEW u \in Users, Tally(u),
           \/ Quiet \/ Forgets \/ \E r \in Requests : Reopens(r)
           \/ \E R \in SUBSET Requests, to \in RequestStatuses : Closes(R, to)
    PROVE  Tally(u)'
  <1>1. MatchesKept({}) /\ stats' = stats
    BY DEF Quiet, Forgets, Reopens, Closes
  <1>2. OffersKept \/ Forgets \/ \E R : OffersClosed(R)
    BY DEF Quiet, Forgets, Reopens, Closes
  <1>3. \A p \in Pairs : offer'[p].status = "offered" => offer[p].status = "offered"
    <2>1. CASE OffersKept
      BY <2>1 DEF OffersKept, OfferKept
    <2>2. CASE Forgets
      BY <2>2 DEF Forgets, OfferKept
    <2>3. CASE \E R : OffersClosed(R)
      BY <2>3 DEF OffersClosed, OfferKept
    <2> QED
      BY <1>2, <2>1, <2>2, <2>3
  <1> QED
    BY <1>1, <1>3, StatsSame

LEMMA SearchTally ==
    ASSUME StepInv, NEW u \in Users, Tally(u), NEW r \in Requests, Searches(r)
    PROVE  Tally(u)'
  <1>1. \A p \in Pairs : offer'[p].status = "offered" =>
           offer[p].status = "offered" /\ p[1] # r
    BY DEF Searches, OffersClosed, OfferKept
  <1>2. MatchesKept({})
    BY DEF Searches
  <1>3. CASE stats' = stats
    BY <1>1, <1>2, <1>3, StatsSame
  <1>4. ASSUME NEW p \in Pairs, p[1] = r, offer[p].status = "offered",
               stats' = [stats EXCEPT ![p[2]].responded = @ + 1]
        PROVE  Tally(u)'
    <2> DEFINE b == u = p[2]
    <2>t. stats \in [Users -> StatsRow] /\ p[2] \in Users
      BY DEF StepInv, StockInv, TypeOK, Pairs
    <2>1. /\ stats'[u].accepted = stats[u].accepted
          /\ stats'[u].completed = stats[u].completed
          /\ stats'[u].cancelledPre = stats[u].cancelledPre
          /\ stats'[u].cancelledPost = stats[u].cancelledPost
          /\ stats'[u].disputes = stats[u].disputes
          /\ stats'[u].received = stats[u].received
      BY <1>4, <2>t DEF StatsRow
    <2>2. stats'[u].responded = stats[u].responded + One(b)
      BY <1>4, <2>t DEF StatsRow, One
    <2>3. OpenTo(u)' \subseteq OpenTo(u) /\ (b => p \in OpenTo(u) /\ p \notin OpenTo(u)')
      BY <1>1, <1>4 DEF OpenTo
    <2>4. Cardinality(OpenTo(u)') + One(b) <= Cardinality(OpenTo(u))
      BY <2>3, LosesOne, TallyFinite
    <2>5. /\ stats[u].responded \in Nat /\ stats[u].received \in Nat
          /\ Cardinality(OpenTo(u)) \in Nat /\ Cardinality(OpenTo(u)') \in Nat
          /\ One(b) \in {0, 1}
      BY <2>t, TallyFinite DEF StatsRow, One
    <2> HIDE DEF b
    <2>6. stats'[u].responded + Cardinality(OpenTo(u)') <= stats'[u].received
      BY <2>1, <2>2, <2>4, <2>5 DEF Tally
    <2> QED
      BY <1>2, <2>1, <2>2, <2>5, <2>6, TallyKept
  <1> QED
    BY <1>3, <1>4 DEF Searches

LEMMA OfferTally ==
    ASSUME StepInv, NEW u \in Users, Tally(u), NEW p \in Pairs, Offers(p)
    PROVE  Tally(u)'
  <1> DEFINE b == u = p[2]
  <1>t. stats \in [Users -> StatsRow] /\ p[2] \in Users
    BY DEF StepInv, StockInv, TypeOK, Pairs
  <1>1. stats' = [stats EXCEPT ![p[2]].received = @ + 1] /\ MatchesKept({})
    BY DEF Offers
  <1>2. /\ stats'[u].accepted = stats[u].accepted
        /\ stats'[u].completed = stats[u].completed
        /\ stats'[u].cancelledPre = stats[u].cancelledPre
        /\ stats'[u].cancelledPost = stats[u].cancelledPost
        /\ stats'[u].disputes = stats[u].disputes
        /\ stats'[u].responded = stats[u].responded
    BY <1>t, <1>1 DEF StatsRow
  <1>3. stats'[u].received = stats[u].received + One(b)
    BY <1>t, <1>1 DEF StatsRow, One
  <1>4. OpenTo(u)' \subseteq IF b THEN OpenTo(u) \cup {p} ELSE OpenTo(u)
    BY DEF Offers, OfferKept, OpenTo
  <1>5. p \notin OpenTo(u)
    BY DEF Offers, OpenTo
  <1> DEFINE most == IF b THEN OpenTo(u) \cup {p} ELSE OpenTo(u)
  <1>6. Cardinality(most) = Cardinality(OpenTo(u)) + One(b)
    BY <1>5, GainsOne, TallyFinite
  <1>7. IsFiniteSet(most)
    BY TallyFinite, FS_AddElement
  <1> HIDE DEF most
  <1>8. Cardinality(OpenTo(u)') <= Cardinality(most)
    BY <1>4, <1>7, FS_Subset DEF most
  <1>9. /\ stats[u].responded \in Nat /\ stats[u].received \in Nat
        /\ Cardinality(OpenTo(u)) \in Nat /\ Cardinality(OpenTo(u)') \in Nat
        /\ One(b) \in {0, 1}
    BY <1>t, TallyFinite DEF StatsRow, One
  <1> HIDE DEF b
  <1>10. stats'[u].responded + Cardinality(OpenTo(u)') <= stats'[u].received
    BY <1>2, <1>3, <1>6, <1>8, <1>9 DEF Tally
  <1>11. stats'[u].responded = stats[u].responded + 0
    BY <1>2, <1>9
  <1> QED
    BY <1>1, <1>2, <1>10, <1>11, TallyKept

LEMMA AcceptTally ==
    ASSUME StepInv, NEW u \in Users, Tally(u), NEW p \in Pairs, NEW i, NEW q,
           Accepts(p, i, q)
    PROVE  Tally(u)'
  <1> DEFINE b == u = p[2]
             s == stats[p[2]]
             a == s.accepted + 1
             c == s.responded + 1
             new == [s EXCEPT !.accepted = a, !.responded = c]
  <1>t. stats \in [Users -> StatsRow] /\ p[2] \in Users
    BY DEF StepInv, StockInv, TypeOK, Pairs
  <1>1. stats' = [stats EXCEPT ![p[2]] = new]
    BY DEF Accepts
  <1>2. /\ new.accepted = a /\ new.responded = c
        /\ new.completed = s.completed /\ new.disputes = s.disputes
        /\ new.cancelledPre = s.cancelledPre /\ new.cancelledPost = s.cancelledPost
        /\ new.received = s.received
    BY <1>t DEF StatsRow
  <1>9. /\ stats[u].responded \in Nat /\ stats[u].received \in Nat /\ stats[u].accepted \in Nat
        /\ Cardinality(OpenTo(u)) \in Nat /\ Cardinality(OpenTo(u)') \in Nat
        /\ One(b) \in {0, 1}
    BY <1>t, TallyFinite DEF StatsRow, One
  <1> HIDE DEF new
  <1>3. /\ stats'[u].accepted = stats[u].accepted + One(b)
        /\ stats'[u].responded = stats[u].responded + One(b)
    BY <1>t, <1>1, <1>2, <1>9 DEF One
  <1>4. /\ stats'[u].completed = stats[u].completed
        /\ stats'[u].disputes = stats[u].disputes
        /\ stats'[u].cancelledPre = stats[u].cancelledPre
        /\ stats'[u].cancelledPost = stats[u].cancelledPost
        /\ stats'[u].received = stats[u].received
    BY <1>t, <1>1, <1>2
  <1>5. /\ match[p].status = "none" /\ match'[p].status = "active"
        /\ offer[p].status = "offered" /\ offer'[p].status = "accepted"
        /\ \A o \in Pairs \ {p} : OfferKept(o) /\ MatchKept(o)
    BY DEF Accepts, MatchesKept
  <1>6. \A o \in Pairs \ {p} : /\ match'[o].status = match[o].status
                               /\ match[o].status \in SettledStatuses =>
                                     SettledQty(o)' = SettledQty(o)
    BY <1>5 DEF MatchKept, SettledQty, SettledStatuses
  <1>7. AcceptedBy(u)' = IF b THEN AcceptedBy(u) \cup {p} ELSE AcceptedBy(u)
    BY <1>5, <1>6 DEF AcceptedBy, MatchStatuses
  <1>8. p \notin AcceptedBy(u)
    BY <1>5 DEF AcceptedBy
  <1>10. Cardinality(AcceptedBy(u)') = Cardinality(AcceptedBy(u)) + One(b)
    BY <1>7, <1>8, GainsOne, TallyFinite
  <1>11. CompletedBy(u)' = CompletedBy(u)
    BY <1>5, <1>6 DEF CompletedBy, SettledStatuses
  <1>12. AbandonedBy(u)' = AbandonedBy(u)
    BY <1>5, <1>6 DEF AbandonedBy
  <1>13. DisputedOf(u)' = DisputedOf(u)
    BY <1>5, <1>6 DEF DisputedOf
  <1>14. OpenTo(u)' \subseteq OpenTo(u) /\ (b => p \in OpenTo(u) /\ p \notin OpenTo(u)')
    BY <1>5 DEF OpenTo, OfferKept
  <1>15. Cardinality(OpenTo(u)') + One(b) <= Cardinality(OpenTo(u))
    BY <1>14, LosesOne, TallyFinite
  <1> HIDE DEF b
  <1>16. /\ stats[u].accepted = Cardinality(AcceptedBy(u))
         /\ stats[u].completed = Cardinality(CompletedBy(u))
         /\ stats[u].cancelledPre + stats[u].cancelledPost = Cardinality(AbandonedBy(u))
         /\ stats[u].disputes = Cardinality(DisputedOf(u))
         /\ stats[u].accepted <= stats[u].responded
         /\ stats[u].responded + Cardinality(OpenTo(u)) <= stats[u].received
    BY DEF Tally
  <1>17. stats'[u].responded + Cardinality(OpenTo(u)') <= stats'[u].received
    BY <1>3, <1>4, <1>9, <1>15, <1>16
  <1>18. /\ stats'[u].accepted = Cardinality(AcceptedBy(u)')
         /\ stats'[u].accepted <= stats'[u].responded
    BY <1>3, <1>9, <1>10, <1>16
  <1> QED
    BY <1>4, <1>11, <1>12, <1>13, <1>16, <1>17, <1>18 DEF Tally

LEMMA SettleTally ==
    ASSUME StepInv, NEW u \in Users, Tally(u), NEW p \in Pairs,
           NEW confirmed, NEW final \in Quantity, NEW disputed \in BOOLEAN,
           Settles(p, confirmed, final, disputed)
    PROVE  Tally(u)'
  <1> DEFINE b == u = p[2] /\ final > 0
             c == u = p[2] /\ confirmed["requester"] > 0
             d == disputed /\ u \in {p[2], Requester[p[1]]}
             x == stats[u].completed + One(b)
             y == stats[u].confirmed + One(c)
             z == stats[u].disputes + One(d)
             new == [stats[u] EXCEPT !.completed = x, !.confirmed = y, !.disputes = z]
  <1>t. stats[u] \in StatsRow /\ p[2] \in Users
    BY DEF StepInv, StockInv, TypeOK, Pairs
  <1>1. stats'[u] = new
    BY DEF Settles
  <1>2. /\ stats'[u].completed = x /\ stats'[u].disputes = z
        /\ stats'[u].accepted = stats[u].accepted
        /\ stats'[u].responded = stats[u].responded
        /\ stats'[u].received = stats[u].received
        /\ stats'[u].cancelledPre = stats[u].cancelledPre
        /\ stats'[u].cancelledPost = stats[u].cancelledPost
    BY <1>t, <1>1 DEF StatsRow
  <1> HIDE DEF new
  <1>3. /\ match[p].status = "active"
        /\ match'[p].status \in {"disputed", "completed", "partially_completed"}
        /\ match'[p].status = "disputed" <=> disputed
        /\ SettledQty(p)' = final
        /\ \A o \in Pairs \ {p} : MatchKept(o)
        /\ OffersKept
    BY DEF Settles, MatchesKept
  <1>4. \A o \in Pairs \ {p} : /\ match'[o].status = match[o].status
                               /\ match[o].status \in SettledStatuses =>
                                     SettledQty(o)' = SettledQty(o)
    BY <1>3 DEF MatchKept, SettledQty, SettledStatuses
  <1>5. AcceptedBy(u)' = AcceptedBy(u)
    BY <1>3, <1>4 DEF AcceptedBy, MatchStatuses, SettledStatuses
  <1>6. AbandonedBy(u)' = AbandonedBy(u)
    BY <1>3, <1>4 DEF AbandonedBy
  <1>7. OpenTo(u)' = OpenTo(u)
    BY <1>3 DEF OpenTo, OffersKept, OfferKept
  <1>8. CompletedBy(u)' = IF b THEN CompletedBy(u) \cup {p} ELSE CompletedBy(u)
    BY <1>3, <1>4 DEF CompletedBy, SettledStatuses
  <1>9. DisputedOf(u)' = IF d THEN DisputedOf(u) \cup {p} ELSE DisputedOf(u)
    BY <1>3, <1>4 DEF DisputedOf
  <1>10. p \notin CompletedBy(u) /\ p \notin DisputedOf(u)
    BY <1>3 DEF CompletedBy, DisputedOf, SettledStatuses
  <1>11. b \in BOOLEAN /\ d \in BOOLEAN
    OBVIOUS
  <1> HIDE DEF b, d
  <1>12. Cardinality(CompletedBy(u)') = Cardinality(CompletedBy(u)) + One(b)
    BY <1>8, <1>10, <1>11, GainsOne, TallyFinite
  <1>13. Cardinality(DisputedOf(u)') = Cardinality(DisputedOf(u)) + One(d)
    BY <1>9, <1>10, <1>11, GainsOne, TallyFinite
  <1> QED
    BY <1>2, <1>5, <1>6, <1>7, <1>12, <1>13 DEF Tally

LEMMA CancelTally ==
    ASSUME StepInv, NEW u \in Users, Tally(u), NEW p \in Pairs,
           NEW actor \in Actors, NEW unsafe \in BOOLEAN, Cancels(p, actor, unsafe)
    PROVE  Tally(u)'
  <1> DEFINE s == stats[p[2]]
             met == match[p].arrived # {}
             abandoned == Abandoned(actor, unsafe)
             x == s.cancelledPre + One(abandoned /\ ~met)
             y == s.cancelledPost + One(abandoned /\ met)
             new == [s EXCEPT !.cancelledPre = x, !.cancelledPost = y]
             b == u = p[2] /\ abandoned
  <1>t. stats \in [Users -> StatsRow] /\ p[2] \in Users
    BY DEF StepInv, StockInv, TypeOK, Pairs
  <1>1. stats' = [stats EXCEPT ![p[2]] = new]
    BY DEF Cancels
  <1>2. /\ new.cancelledPre = x /\ new.cancelledPost = y
        /\ new.accepted = s.accepted /\ new.responded = s.responded
        /\ new.received = s.received /\ new.completed = s.completed
        /\ new.disputes = s.disputes
    BY <1>t DEF StatsRow
  <1> HIDE DEF new
  <1>3. /\ stats'[u].accepted = stats[u].accepted
        /\ stats'[u].responded = stats[u].responded
        /\ stats'[u].received = stats[u].received
        /\ stats'[u].completed = stats[u].completed
        /\ stats'[u].disputes = stats[u].disputes
    BY <1>t, <1>1, <1>2
  <1>4. stats[u].cancelledPre \in Nat /\ stats[u].cancelledPost \in Nat
    BY <1>t DEF StatsRow
  <1>5. stats'[u].cancelledPre + stats'[u].cancelledPost
           = stats[u].cancelledPre + stats[u].cancelledPost + One(b)
    <2>1. CASE u # p[2]
      BY <1>t, <1>1, <1>4, <2>1 DEF One
    <2>2. CASE u = p[2]
      <3>1. stats'[u].cancelledPre = x /\ stats'[u].cancelledPost = y /\ s = stats[u]
        BY <1>t, <1>1, <1>2, <2>2
      <3>2. abandoned \in BOOLEAN /\ met \in BOOLEAN /\ (b <=> abandoned)
        BY <2>2 DEF Abandoned
      <3> HIDE DEF b, abandoned, met
      <3> QED
        BY <1>4, <3>1, <3>2 DEF One
    <2> QED
      BY <2>1, <2>2
  <1>6. /\ match[p].status = "active"
        /\ match'[p].status \in CancelledStatuses
        /\ match'[p].status = "cancelled_by_helper" <=> abandoned
        /\ \A o \in Pairs \ {p} : MatchKept(o)
        /\ OffersKept
    BY DEF Cancels, MatchesKept, CancelledStatuses, Actors, Abandoned
  <1>7. \A o \in Pairs \ {p} : /\ match'[o].status = match[o].status
                               /\ match[o].status \in SettledStatuses =>
                                     SettledQty(o)' = SettledQty(o)
    BY <1>6 DEF MatchKept, SettledQty, SettledStatuses
  <1>8. AcceptedBy(u)' = AcceptedBy(u)
    BY <1>6, <1>7 DEF AcceptedBy, MatchStatuses, CancelledStatuses
  <1>9. CompletedBy(u)' = CompletedBy(u)
    BY <1>6, <1>7 DEF CompletedBy, SettledStatuses, CancelledStatuses
  <1>10. DisputedOf(u)' = DisputedOf(u)
    BY <1>6, <1>7 DEF DisputedOf, CancelledStatuses
  <1>11. OpenTo(u)' = OpenTo(u)
    BY <1>6 DEF OpenTo, OffersKept, OfferKept
  <1>12. AbandonedBy(u)' = IF b THEN AbandonedBy(u) \cup {p} ELSE AbandonedBy(u)
    BY <1>6, <1>7 DEF AbandonedBy
  <1>13. p \notin AbandonedBy(u) /\ b \in BOOLEAN
    BY <1>6 DEF AbandonedBy
  <1> HIDE DEF b
  <1>14. Cardinality(AbandonedBy(u)') = Cardinality(AbandonedBy(u)) + One(b)
    BY <1>12, <1>13, GainsOne, TallyFinite
  <1> QED
    BY <1>3, <1>5, <1>8, <1>9, <1>10, <1>11, <1>14 DEF Tally

LEMMA CounterInvKept == StepInv /\ CounterInv /\ [Next]_vars => CounterInv'
  <1> SUFFICES ASSUME StepInv, CounterInv, [Next]_vars PROVE CounterInv'
    OBVIOUS
  <1>1. StepKind /\ StepInv'
    BY NextKinds, StepInvKept
  <1>2. \A u \in Users : Tally(u)
    BY CounterIsTally
  <1>3. ASSUME NEW u \in Users PROVE Tally(u)'
    BY <1>1, <1>2, CalmTally, SearchTally, OfferTally, AcceptTally, SettleTally, CancelTally
       DEF StepKind
  <1>4. (CounterInv <=> \A u \in Users : Tally(u))'
    BY <1>1, CounterIsTally, PTL
  <1> QED
    BY <1>3, <1>4

LEMMA CounterInit == Init => CounterInv
  <1> SUFFICES ASSUME Init PROVE CounterInv
    OBVIOUS
  <1>1. StepInv
    BY StepInit
  <1>2. ASSUME NEW u \in Users PROVE Tally(u)
    <2>1. \A p \in Pairs : match[p].status = "none" /\ offer[p].status = "none"
      BY DEF Init, NoMatch, NoOffer
    <2>2. /\ AcceptedBy(u) = {} /\ CompletedBy(u) = {} /\ AbandonedBy(u) = {}
          /\ DisputedOf(u) = {} /\ OpenTo(u) = {}
      BY <2>1 DEF AcceptedBy, CompletedBy, AbandonedBy, DisputedOf, OpenTo, SettledStatuses
    <2>3. stats[u] = NewStats
      BY DEF Init
    <2> QED
      BY <2>2, <2>3, FS_EmptySet DEF Tally, NewStats
  <1> QED
    BY <1>1, <1>2, CounterIsTally

\* For any accounts and requests: the reliability counters are what a recount over the
\* matches would give; each settlement, abandonment and dispute is counted once, for the
\* accounts it is about, and no helper answers more offers than they received.
THEOREM CountersAlwaysMatch == Spec => []CountersMatchHistory
  <1>1. Init => StepInv /\ CounterInv
    BY StepInit, CounterInit
  <1>2. StepInv /\ CounterInv /\ [Next]_vars => StepInv' /\ CounterInv'
    BY StepInvKept, CounterInvKept
  <1>3. CounterInv => CountersMatchHistory
    BY DEF CounterInv
  <1> QED
    BY <1>1, <1>2, <1>3, PTL DEF Spec

-----------------------------------------------------------------------------
(* The ledger's variables, as the exchange has them *)

Stage == [r \in Requests |-> StageOf[request[r].status]]
Credit == [r \in Requests |-> request[r].fulfilled]
Promised(p) == IF match[p].status = "active"
               THEN [item |-> match[p].item, qty |-> match[p].qty]
               ELSE [item |-> NoItem, qty |-> 0]
Promises == [p \in Pairs |-> Promised(p)]
Stock == [i \in Items |-> item[i].onHand]

LEMMA StageIs ==
    /\ StageOf["none"] = "absent"
    /\ \A s \in {"searching", "offering"} : StageOf[s] = "seeking"
    /\ StageOf["matched"] = "promised"
    /\ \A s \in {"partially_fulfilled", "cancelled", "expired", "no_match"} :
          StageOf[s] = "resting"
    /\ \A s \in {"fulfilled", "moderated"} : StageOf[s] = "done"
  BY DEF StageOf

\* The ledger counts as the exchange does.
LEMMA SameCardinality ==
    ASSUME NEW S
    PROVE  L!Cardinality(S) = Cardinality(S)
  BY DEF L!Cardinality, Cardinality

\* What is promised of an item is what its active matches hold.
LEMMA PromisedIsHeld ==
    ASSUME NEW i \in Items
    PROVE  L!PromisedUnits(i) = HeldUnits(i)
  BY ItemIds DEF L!PromisedUnits, HeldUnits, Pairs

\* Under the invariant, what the ledger has left of an item is what is free of it.
LEMMA UncommittedIsFree ==
    ASSUME StepInv, NEW i \in Items
    PROVE  L!Uncommitted(i) = Free(i)
  <1>1. item[i].reserved = Cardinality(HeldUnits(i))
    BY DEF StepInv, StockInv, ReservedIsHeld
  <1>2. Cardinality(L!PromisedUnits(i)) = item[i].reserved
    BY <1>1, PromisedIsHeld
  <1>3. Stock[i] = item[i].onHand
    BY DEF Stock
  <1>4. L!Uncommitted(i) = Stock[i] - Cardinality(L!PromisedUnits(i))
    BY SameCardinality DEF L!Uncommitted, Stock
  <1> QED
    BY <1>2, <1>3, <1>4 DEF Free

-----------------------------------------------------------------------------
(* What each part of a step does to the ledger *)

LEMMA StageSame ==
    ASSUME \A r \in Requests : StageOf[request'[r].status] = StageOf[request[r].status]
    PROVE  Stage' = Stage
  BY DEF Stage

LEMMA CreditSame ==
    ASSUME \A r \in Requests : request'[r].fulfilled = request[r].fulfilled
    PROVE  Credit' = Credit
  BY DEF Credit

LEMMA StockSame ==
    ASSUME StockKept
    PROVE  Stock' = Stock
  BY DEF Stock, StockKept

LEMMA PromisesSame ==
    ASSUME MatchesKept({})
    PROVE  Promises' = Promises
  <1>1. \A p \in Pairs : Promised(p)' = Promised(p)
    BY DEF MatchesKept, MatchKept, Promised
  <1> QED
    BY <1>1 DEF Promises

\* The request r moves to stage `to`, the others stay.
LEMMA StageMoves ==
    ASSUME NEW r \in Requests, RequestsKept({r}), NEW to, StageOf[request'[r].status] = to
    PROVE  Stage' = [Stage EXCEPT ![r] = to]
  <1>1. \A x \in Requests \ {r} : request'[x].status = request[x].status
    BY DEF RequestsKept, RequestKept
  <1> QED
    BY <1>1 DEF Stage

\* The promise of p becomes `row`, the others stay.
LEMMA PromiseMoves ==
    ASSUME NEW p \in Pairs, MatchesKept({p}), NEW row, Promised(p)' = row
    PROVE  Promises' = [Promises EXCEPT ![p] = row]
  <1>1. \A o \in Pairs \ {p} : Promised(o)' = Promised(o)
    BY DEF MatchesKept, MatchKept, Promised
  <1> QED
    BY <1>1 DEF Promises

-----------------------------------------------------------------------------
(* The kinds of step, on the ledger *)

LEMMA QuietRestocks ==
    ASSUME StepInv, StepInv', Quiet
    PROVE  L!Restock
  <1>1. Stage' = Stage
    BY StageSame DEF Quiet, RequestsKept, RequestKept
  <1>2. Credit' = Credit
    BY CreditSame DEF Quiet, RequestsKept, RequestKept
  <1>3. Promises' = Promises
    BY PromisesSame DEF Quiet
  <1>4. Stock' \in [Items -> 0 .. MaxStock]
    <2>1. \A i \in Items : item'[i].onHand \in 0 .. MaxStock
      BY DEF StepInv, StockInv, TypeOK, ItemRow, Quantity
    <2> QED
      BY <2>1 DEF Stock
  <1>5. ASSUME NEW i \in Items PROVE Cardinality(L!PromisedUnits(i)) <= Stock'[i]
    <2>1. HeldUnits(i)' = HeldUnits(i)
      BY HeldSame DEF Quiet, MatchesKept, MatchKept, SameHold
    <2>2. item'[i].reserved = Cardinality(HeldUnits(i)') /\ item'[i].reserved <= item'[i].onHand
      BY DEF StepInv, StockInv, ReservedIsHeld, NeverOverReserved
    <2>3. Stock'[i] = item'[i].onHand
      BY DEF Stock
    <2> QED
      BY <2>1, <2>2, <2>3, PromisedIsHeld
  <1>6. \A i \in Items : Cardinality(L!PromisedUnits(i)) <= Stock'[i]
    BY <1>5
  <1>7. /\ UNCHANGED <<Stage, Credit, Promises>>
        /\ Stock' \in [Items -> 0 .. MaxStock]
        /\ \A i \in Items : Cardinality(L!PromisedUnits(i)) <= Stock'[i]
    BY <1>1, <1>2, <1>3, <1>4, <1>6
  <1> QED
    BY <1>7, SameCardinality, Zenon DEF L!Restock, Stage, Credit, Promises, Promised, Stock, Pairs

LEMMA ReopensAsks ==
    ASSUME StepInv, NeedRemains, NEW r \in Requests, Reopens(r)
    PROVE  L!Ask(r)
  <1>1. Stage[r] \in {"absent", "resting"} /\ Stage' = [Stage EXCEPT ![r] = "seeking"]
    <2>1. StageOf[request[r].status] \in {"absent", "resting"}
      BY StageIs DEF Reopens
    <2>2. StageOf[request'[r].status] = "seeking" /\ RequestsKept({r})
      BY StageIs DEF Reopens
    <2> QED
      BY <2>1, <2>2, StageMoves DEF Stage
  <1>2. Credit[r] < Qty[r]
    BY DEF Reopens, NeedRemains, Credit
  <1>3. Credit' = Credit
    BY CreditSame DEF Reopens, RequestsKept, RequestKept
  <1>4. Promises' = Promises /\ Stock' = Stock
    BY PromisesSame, StockSame DEF Reopens
  <1> QED
    BY <1>1, <1>2, <1>3, <1>4 DEF L!Ask, Stage, Credit, Promises, Promised, Stock, Pairs

LEMMA ClosesWithdraws ==
    ASSUME StepInv, NEW R \in SUBSET Requests, NEW to, Closes(R, to)
    PROVE  \E final \in {"resting", "done"} : L!Withdraw(R, final)
  <1> DEFINE final == StageOf[to]
  <1>1. final \in {"resting", "done"}
    BY StageIs DEF Closes
  <1>2. \A r \in R : Stage[r] \in {"seeking", "resting"}
    BY StageIs DEF Closes, Stage
  <1>3. Stage' = [r \in Requests |-> IF r \in R THEN final ELSE Stage[r]]
    BY DEF Closes, RequestsKept, RequestKept, Stage
  <1>4. Credit' = Credit
    BY CreditSame DEF Closes, RequestsKept, RequestKept
  <1>5. Promises' = Promises /\ Stock' = Stock
    BY PromisesSame, StockSame DEF Closes
  <1> HIDE DEF final
  <1>6. L!Withdraw(R, final)
    BY <1>2, <1>3, <1>4, <1>5
       DEF L!Withdraw, Stage, Credit, Promises, Promised, Stock, Pairs
  <1> QED
    BY <1>1, <1>6

LEMMA LedgerSame ==
    ASSUME Stage' = Stage, Credit' = Credit, Promises' = Promises, Stock' = Stock
    PROVE  UNCHANGED L!ledgerVars
  BY DEF L!ledgerVars, Stage, Credit, Promises, Promised, Stock, Pairs

\* A step that only moves requests between searching and offering.
LEMMA SeekingStays ==
    ASSUME NEW r \in Requests, RequestsKept({r}),
           request[r].status \in {"searching", "offering"},
           request'[r].status \in {"searching", "offering"},
           request'[r].fulfilled = request[r].fulfilled,
           MatchesKept({}), StockKept
    PROVE  UNCHANGED L!ledgerVars
  <1>1. Stage' = Stage
    <2>1. StageOf[request'[r].status] = StageOf[request[r].status]
      BY StageIs
    <2> QED
      BY <2>1, StageSame DEF RequestsKept, RequestKept
  <1>2. Credit' = Credit
    BY CreditSame DEF RequestsKept, RequestKept
  <1>3. Promises' = Promises /\ Stock' = Stock
    BY PromisesSame, StockSame
  <1> QED
    BY <1>1, <1>2, <1>3, LedgerSame

LEMMA ForgetsNothing ==
    ASSUME Forgets
    PROVE  UNCHANGED L!ledgerVars
  <1>1. Stage' = Stage
    BY StageSame DEF Forgets, RequestsKept, RequestKept
  <1>2. Credit' = Credit
    BY CreditSame DEF Forgets, RequestsKept, RequestKept
  <1>3. Promises' = Promises /\ Stock' = Stock
    BY PromisesSame, StockSame DEF Forgets
  <1> QED
    BY <1>1, <1>2, <1>3, LedgerSame

LEMMA AcceptsPromises ==
    ASSUME StepInv, NEW r \in Requests, NEW u \in Users, NEW i \in Items,
           NEW q \in 1 .. MaxStock, Accepts(<<r, u>>, i, q)
    PROVE  L!Promise(r, u, i, q)
  <1> DEFINE p == <<r, u>>
             row == [item |-> i, qty |-> q]
  <1>p. p \in Pairs /\ p[1] = r /\ p[2] = u
    BY DEF Pairs
  <1>1. Stage[r] = "seeking" /\ Stage' = [Stage EXCEPT ![r] = "promised"]
    <2>1. StageOf[request[r].status] = "seeking" /\ StageOf[request'[r].status] = "promised"
      BY <1>p, StageIs DEF Accepts
    <2>2. RequestsKept({r})
      BY <1>p DEF Accepts
    <2> QED
      BY <2>1, <2>2, StageMoves DEF Stage
  <1>2. \A v \in Users : Promises[<<r, v>>] = [item |-> NoItem, qty |-> 0]
    <2> SUFFICES ASSUME NEW v \in Users
                 PROVE  Promises[<<r, v>>] = [item |-> NoItem, qty |-> 0]
      OBVIOUS
    <2>1. <<r, v>> \in Pairs /\ <<r, v>>[1] = r
      BY DEF Pairs
    <2>2. request[r].status = "offering"
      BY <1>p DEF Accepts
    <2>3. match[<<r, v>>].status # "active"
      BY <2>1, <2>2, ActiveIsMatched DEF StepInv
    <2> QED
      BY <2>1, <2>3 DEF Promises, Promised
  <1>3. Owner[i] = u /\ 0 < q /\ q <= Qty[r] - Credit[r] /\ q <= Free(i)
    BY <1>p DEF Accepts, Remaining, Credit
  <1>4. q <= L!Uncommitted(i)
    BY <1>3, UncommittedIsFree
  <1>5. Promises' = [Promises EXCEPT ![<<r, u>>] = row]
    <2>1. MatchesKept({p}) /\ Promised(p)' = row
      BY <1>p DEF Accepts, Promised
    <2> HIDE DEF row
    <2> QED
      BY <1>p, <2>1, PromiseMoves
  <1>6. Credit' = Credit
    BY <1>p, CreditSame DEF Accepts, RequestsKept, RequestKept
  <1>7. Stock' = Stock
    BY StockSame DEF Accepts
  <1> QED
    BY <1>1, <1>2, <1>3, <1>4, <1>5, <1>6, <1>7, Zenon
       DEF L!Promise, L!NoPromise, Stage, Credit, Promises, Promised, Stock, Pairs

\* What an active match promises.
LEMMA ActivePromise ==
    ASSUME StepInv, NEW p \in Pairs, match[p].status = "active"
    PROVE  /\ Promises[p] = [item |-> match[p].item, qty |-> match[p].qty]
           /\ Promises[p] # [item |-> NoItem, qty |-> 0]
           /\ match[p].item \in Items /\ match[p].qty \in Nat
  <1>1. match[p].item \in Items /\ match[p].qty \in Nat
    BY Quantities DEF StepInv, StockInv, ActiveShape, TypeOK, MatchRow, Quantity
  <1>2. Promises[p] = [item |-> match[p].item, qty |-> match[p].qty]
    BY DEF Promises, Promised
  <1>3. Promises[p].item # NoItem
    BY <1>1, <1>2, ItemIds
  <1> QED
    BY <1>1, <1>2, <1>3

LEMMA SettlesDelivers ==
    ASSUME StepInv, NeedRemains, NEW r \in Requests, NEW u \in Users, NEW confirmed,
           NEW final \in Quantity, NEW disputed \in BOOLEAN,
           Settles(<<r, u>>, confirmed, final, disputed)
    PROVE  L!Deliver(r, u, final)
  <1> DEFINE p == <<r, u>>
             none == [item |-> NoItem, qty |-> 0]
             total == Credit[r] + final
  <1>p. p \in Pairs /\ p[1] = r /\ p[2] = u
    BY DEF Pairs
  <1>0. match[p].status = "active" /\ final \in 0 .. match[p].qty
    BY <1>p DEF Settles
  <1>a. /\ Promises[p] = [item |-> match[p].item, qty |-> match[p].qty]
        /\ Promises[p] # none
        /\ match[p].item \in Items /\ match[p].qty \in Nat
    BY <1>p, <1>0, ActivePromise
  <1>b. Promises[p].item = match[p].item /\ Promises[p].qty = match[p].qty
    BY <1>a
  <1>1. Promises[p] # none /\ final <= Promises[p].qty
    BY <1>0, <1>a, <1>b
  <1>2. total = request[r].fulfilled + final /\ request'[r].fulfilled = total
    BY <1>p DEF Settles, Credit
  <1>3. total \in Nat /\ total <= Qty[r] /\ Qty[r] \in Nat
    <2>1. request[r].fulfilled \in Nat
      BY DEF StepInv, StockInv, TypeOK, RequestRow
    <2>2. request[r].fulfilled + match[p].qty <= Qty[r]
      BY <1>p, <1>0 DEF NeedRemains
    <2>3. Qty[r] \in Nat
      BY Quantities
    <2> HIDE DEF total
    <2> QED
      BY <1>0, <1>a, <1>2, <2>1, <2>2, <2>3
  <1> HIDE DEF total
  <1>4. Credit' = [Credit EXCEPT ![r] = total]
    <2>1. \A x \in Requests \ {r} : request'[x].fulfilled = request[x].fulfilled
      BY <1>p DEF Settles, RequestsKept, RequestKept
    <2> QED
      BY <1>2, <2>1 DEF Credit
  <1>5. Stock' = [Stock EXCEPT ![Promises[p].item] = @ - final]
    <2>1. \A j \in Items : item'[j].onHand =
              item[j].onHand - IF j = match[p].item THEN final ELSE 0
      BY DEF Settles
    <2>2. \A j \in Items : item[j].onHand \in Nat
      BY Quantities DEF StepInv, StockInv, TypeOK, ItemRow, Quantity
    <2>3. \A j \in Items : item'[j].onHand =
              IF j = match[p].item THEN item[j].onHand - final ELSE item[j].onHand
      BY <2>1, <2>2
    <2> QED
      BY <1>a, <1>b, <2>3 DEF Stock
  <1>6. Promises' = [Promises EXCEPT ![<<r, u>>] = none]
    <2>1. MatchesKept({p})
      BY DEF Settles
    <2>2. match'[p].status # "active"
      BY <1>p DEF Settles
    <2>3. Promised(p)' = none
      BY <2>2 DEF Promised
    <2> HIDE DEF none
    <2> QED
      BY <1>p, <2>1, <2>3, PromiseMoves
  <1>7. Stage' = [Stage EXCEPT ![r] = IF total = Qty[r] THEN "done"
                                      ELSE IF total > 0 THEN "resting" ELSE "seeking"]
    <2>1. request'[r].status = IF total >= Qty[r] THEN "fulfilled"
                               ELSE IF total > 0 THEN "partially_fulfilled" ELSE "searching"
      BY <1>p, <1>2 DEF Settles
    <2>2. StageOf[request'[r].status] = IF total = Qty[r] THEN "done"
                                        ELSE IF total > 0 THEN "resting" ELSE "seeking"
      BY <1>3, <2>1, StageIs
    <2>3. RequestsKept({r})
      BY <1>p DEF Settles
    <2> QED
      BY <2>2, <2>3, StageMoves
  <1> QED
    BY <1>1, <1>4, <1>5, <1>6, <1>7, Zenon
       DEF total, L!Deliver, L!NoPromise, Stage, Credit, Promises, Promised, Stock, Pairs

LEMMA CancelsReleases ==
    ASSUME StepInv, NEW r \in Requests, NEW u \in Users, NEW actor \in Actors,
           NEW unsafe \in BOOLEAN, Cancels(<<r, u>>, actor, unsafe)
    PROVE  \E to \in {"seeking", "resting", "done"} : L!Release(r, u, to)
  <1> DEFINE p == <<r, u>>
             none == [item |-> NoItem, qty |-> 0]
  <1>p. p \in Pairs /\ p[1] = r /\ p[2] = u
    BY DEF Pairs
  <1>1. PICK to \in {"seeking", "resting", "done"} : to = StageOf[request'[r].status]
    <2>1. request'[r].status \in {"moderated", "cancelled", "searching"}
      BY <1>p DEF Cancels, Actors
    <2> QED
      BY <2>1, StageIs
  <1>2. Promises[p] # none
    BY <1>p, ActivePromise DEF Cancels
  <1>3. Stage' = [Stage EXCEPT ![r] = to]
    <2>1. RequestsKept({r})
      BY <1>p DEF Cancels
    <2> QED
      BY <1>1, <2>1, StageMoves
  <1>4. Promises' = [Promises EXCEPT ![<<r, u>>] = none]
    <2>1. MatchesKept({p})
      BY DEF Cancels
    <2>2. match'[p].status # "active"
      BY <1>p DEF Cancels
    <2>3. Promised(p)' = none
      BY <2>2 DEF Promised
    <2> HIDE DEF none
    <2> QED
      BY <1>p, <2>1, <2>3, PromiseMoves
  <1>5. Credit' = Credit
    BY <1>p, CreditSame DEF Cancels, RequestsKept, RequestKept
  <1>6. Stock' = Stock
    BY StockSame DEF Cancels
  <1>7. L!Release(r, u, to)
    BY <1>2, <1>3, <1>4, <1>5, <1>6, Zenon
       DEF L!Release, L!NoPromise, Stage, Credit, Promises, Promised, Stock, Pairs
  <1> QED
    BY <1>1, <1>7

-----------------------------------------------------------------------------
(* The refinement *)

LEMMA LedgerStarts == Init => L!LedgerInit
  <1> SUFFICES ASSUME Init PROVE L!LedgerInit
    OBVIOUS
  <1>1. Stage = [r \in Requests |-> "absent"]
    BY StageIs DEF Init, NoRequest, Stage
  <1>2. Credit = [r \in Requests |-> 0]
    BY DEF Init, NoRequest, Credit
  <1>3. Promises = [p \in Requests \X Users |-> [item |-> NoItem, qty |-> 0]]
    BY DEF Init, NoMatch, Promises, Promised, Pairs
  <1>4. Stock = [i \in Items |-> 0]
    BY DEF Init, AbsentItem, Stock
  <1> QED
    BY <1>1, <1>2, <1>3, <1>4, Zenon
       DEF L!LedgerInit, L!NoPromise, Stage, Credit, Promises, Promised, Stock, Pairs

LEMMA LedgerSteps ==
    StepInv /\ SumInv /\ [Next]_vars /\ StepInv' => [L!LedgerNext]_(L!ledgerVars)
  <1> SUFFICES ASSUME StepInv, SumInv, StepInv', StepKind
               PROVE  L!LedgerNext \/ UNCHANGED L!ledgerVars
    BY NextKinds
  <1>n. NeedRemains
    BY DEF SumInv
  <1>1. CASE Quiet
    BY <1>1, QuietRestocks DEF L!LedgerNext
  <1>2. CASE Forgets
    BY <1>2, ForgetsNothing
  <1>3. CASE \E r \in Requests : Reopens(r) \/ Searches(r)
    <2>1. PICK r \in Requests : Reopens(r) \/ Searches(r)
      BY <1>3
    <2>2. CASE Reopens(r)
      BY <1>n, <2>2, ReopensAsks DEF L!LedgerNext
    <2>3. CASE Searches(r)
      <3>1. /\ RequestsKept({r}) /\ MatchesKept({}) /\ StockKept
            /\ request[r].status \in {"searching", "offering"}
            /\ request'[r].status = "searching"
            /\ request'[r].fulfilled = request[r].fulfilled
        BY <2>3 DEF Searches
      <3> QED
        BY <3>1, SeekingStays
    <2> QED
      BY <2>1, <2>2, <2>3
  <1>4. CASE \E R \in SUBSET Requests, to \in RequestStatuses : Closes(R, to)
    <2>1. PICK R \in SUBSET Requests, to \in RequestStatuses : Closes(R, to)
      BY <1>4
    <2> QED
      BY <2>1, ClosesWithdraws DEF L!LedgerNext
  <1>5. CASE \E p \in Pairs : Offers(p)
    <2>1. PICK p \in Pairs : Offers(p)
      BY <1>5
    <2>2. /\ p[1] \in Requests
          /\ RequestsKept({p[1]}) /\ MatchesKept({}) /\ StockKept
          /\ request[p[1]].status \in {"searching", "offering"}
          /\ request'[p[1]].status = "offering"
          /\ request'[p[1]].fulfilled = request[p[1]].fulfilled
      BY <2>1 DEF Offers, Pairs
    <2> QED
      BY <2>2, SeekingStays
  <1>6. CASE \E p \in Pairs, i \in Items, q \in 1 .. MaxStock : Accepts(p, i, q)
    <2>1. PICK p \in Pairs, i \in Items, q \in 1 .. MaxStock : Accepts(p, i, q)
      BY <1>6
    <2>2. p[1] \in Requests /\ p[2] \in Users /\ p = <<p[1], p[2]>>
      BY DEF Pairs
    <2>3. L!Promise(p[1], p[2], i, q)
      BY <2>1, <2>2, AcceptsPromises
    <2> QED
      BY <2>2, <2>3 DEF L!LedgerNext
  <1>7. CASE \E p \in Pairs, confirmed \in [Sides -> Quantity \cup {NoQty}],
                final \in Quantity, disputed \in BOOLEAN :
                Settles(p, confirmed, final, disputed)
    <2>1. PICK p \in Pairs, confirmed \in [Sides -> Quantity \cup {NoQty}],
               final \in Quantity, disputed \in BOOLEAN :
               Settles(p, confirmed, final, disputed)
      BY <1>7
    <2>2. p[1] \in Requests /\ p[2] \in Users /\ p = <<p[1], p[2]>>
      BY DEF Pairs
    <2>3. L!Deliver(p[1], p[2], final)
      BY <1>n, <2>1, <2>2, SettlesDelivers
    <2>4. final \in 0 .. MaxStock
      BY DEF Quantity
    <2> QED
      BY <2>2, <2>3, <2>4 DEF L!LedgerNext
  <1>8. CASE \E p \in Pairs, actor \in Actors, unsafe \in BOOLEAN : Cancels(p, actor, unsafe)
    <2>1. PICK p \in Pairs, actor \in Actors, unsafe \in BOOLEAN : Cancels(p, actor, unsafe)
      BY <1>8
    <2>2. p[1] \in Requests /\ p[2] \in Users /\ p = <<p[1], p[2]>>
      BY DEF Pairs
    <2>3. \E to \in {"seeking", "resting", "done"} : L!Release(p[1], p[2], to)
      BY <2>1, <2>2, CancelsReleases
    <2> QED
      BY <2>2, <2>3 DEF L!LedgerNext
  <1> QED
    BY <1>1, <1>2, <1>3, <1>4, <1>5, <1>6, <1>7, <1>8 DEF StepKind

\* For any accounts, requests and items: whatever offers, timeouts, moderation and
\* retention do, every transaction of the exchange is an asking, promising, delivering,
\* releasing or restocking step of the ledger, or changes nothing there.  One helper at a
\* time promises own, uncommitted goods, and no more is delivered than was promised.
THEOREM ExchangeImplementsLedger == Spec => ImplementsLedger
  <1>1. Init => StepInv /\ SumInv
    BY StepInit, SumInit
  <1>2. StepInv /\ SumInv /\ [Next]_vars => StepInv' /\ SumInv'
    BY StepInvKept, SumInvKept
  <1>3. StepInv /\ SumInv /\ [Next]_vars => [L!LedgerNext]_(L!ledgerVars)
    BY <1>2, LedgerSteps
  <1> QED
    BY <1>1, <1>2, <1>3, LedgerStarts, PTL DEF Spec, ImplementsLedger, L!LedgerSpec

=============================================================================
