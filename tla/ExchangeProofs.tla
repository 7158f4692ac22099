--------------------------- MODULE ExchangeProofs ---------------------------
(***************************************************************************)
(* Proofs about Exchange, for every set of accounts, requests and items:   *)
(* stock and reservations first; then what a transaction can do to         *)
(* requests, offers and matches taken together - every step is of one of   *)
(* nine kinds, and each kind keeps the three tables in step and history as *)
(* it was.                                                                 *)
(***************************************************************************)
EXTENDS Exchange, FiniteSetTheorems, TLAPS

-----------------------------------------------------------------------------
(* The strengthening *)

\* An active match was made from an accepted offer, holds at least one unit of
\* a real item, has not been settled, and nobody confirmed more than it holds.
ActiveShape ==
    \A p \in Pairs :
        /\ match[p].status # "none" => offer[p].status = "accepted"
        /\ match[p].status = "active" =>
              /\ match[p].item \in Items /\ match[p].qty >= 1
              /\ ~match[p].inventoryApplied
              /\ \A s \in Sides : match[p].confirmed[s] <= match[p].qty

\* An open offer names a real item.
OfferShape == \A p \in Pairs : offer[p].status = "offered" => offer[p].item \in Items

\* An item that was never added, or was deleted, holds and offers nothing.
AbsentShape ==
    \A i \in Items : ~item[i].exists => item[i].reserved = 0 /\ ~item[i].active

StockInv ==
    TypeOK /\ ActiveShape /\ OfferShape /\ AbsentShape /\ ReservedIsHeld /\ NeverOverReserved

-----------------------------------------------------------------------------
(* Counting units *)

LEMMA UnitsFinite == IsFiniteSet(Pairs \X (1 .. MaxStock))
  <1>1. IsFiniteSet(Pairs)
    BY FiniteTables, FS_Product DEF Pairs
  <1>2. IsFiniteSet(1 .. MaxStock)
    BY Quantities, FS_Interval
  <1> QED
    BY <1>1, <1>2, FS_Product

\* The units one match of quantity q holds are q.
LEMMA UnitBlock ==
    ASSUME NEW p, NEW q \in Nat
    PROVE  IsFiniteSet({p} \X (1 .. q)) /\ Cardinality({p} \X (1 .. q)) = q
  <1>1. IsFiniteSet({p}) /\ Cardinality({p}) = 1
    BY FS_Singleton
  <1>2. IsFiniteSet(1 .. q) /\ Cardinality(1 .. q) = q
    BY FS_Interval
  <1>3. /\ IsFiniteSet({p} \X (1 .. q))
        /\ Cardinality({p} \X (1 .. q)) = Cardinality({p}) * Cardinality(1 .. q)
    BY <1>1, <1>2, FS_Product, Zenon
  <1> QED
    BY <1>1, <1>2, <1>3

\* Match o holds the same units before and after the step.
SameHold(o) ==
    /\ match'[o].status = match[o].status
    /\ match'[o].item = match[o].item
    /\ match'[o].qty = match[o].qty

LEMMA HeldSame ==
    ASSUME \A o \in Pairs : SameHold(o), NEW i \in Items
    PROVE  HeldUnits(i)' = HeldUnits(i)
  BY DEF HeldUnits, SameHold

\* A match that becomes active adds its units to its item.
LEMMA HeldGain ==
    ASSUME NEW p \in Pairs, NEW i \in Items, NEW q \in 1 .. MaxStock,
           match[p].status # "active",
           match'[p].status = "active", match'[p].item = i, match'[p].qty = q,
           \A o \in Pairs \ {p} : SameHold(o),
           NEW j \in Items
    PROVE  Cardinality(HeldUnits(j)') = Cardinality(HeldUnits(j)) + IF j = i THEN q ELSE 0
  <1>1. CASE j # i
    <2>1. HeldUnits(j)' = HeldUnits(j)
      BY <1>1 DEF HeldUnits, SameHold
    <2>2. Cardinality(HeldUnits(j)) \in Nat
      BY UnitsFinite, FS_Subset, FS_CardinalityType DEF HeldUnits
    <2> QED
      BY <1>1, <2>1, <2>2
  <1>2. CASE j = i
    <2> DEFINE B == {p} \X (1 .. q)
    <2>1. HeldUnits(i)' = HeldUnits(i) \cup B
      BY Quantities DEF HeldUnits, SameHold
    <2>2. HeldUnits(i) \cap B = {}
      BY DEF HeldUnits
    <2>3. IsFiniteSet(HeldUnits(i))
      BY UnitsFinite, FS_Subset DEF HeldUnits
    <2>q. q \in Nat
      BY Quantities
    <2>4. IsFiniteSet(B) /\ Cardinality(B) = q
      BY <2>q, UnitBlock, Zenon
    <2>5. Cardinality(HeldUnits(i) \cap B) = 0
      BY <2>2, FS_EmptySet
    <2>6. Cardinality(HeldUnits(i)) \in Nat
      BY <2>3, FS_CardinalityType
    <2> HIDE DEF B
    <2>7. Cardinality(HeldUnits(i) \cup B)
             = Cardinality(HeldUnits(i)) + Cardinality(B) - Cardinality(HeldUnits(i) \cap B)
      BY <2>3, <2>4, FS_Union, Zenon
    <2>8. Cardinality(HeldUnits(i) \cup B) = Cardinality(HeldUnits(i)) + q
      BY <2>q, <2>4, <2>5, <2>6, <2>7
    <2> QED
      BY <1>2, <2>1, <2>8
  <1> QED
    BY <1>1, <1>2

\* A match that stops being active gives its units back.
LEMMA HeldLoss ==
    ASSUME NEW p \in Pairs, NEW i \in Items, NEW q \in 1 .. MaxStock,
           match[p].status = "active", match[p].item = i, match[p].qty = q,
           match'[p].status # "active",
           \A o \in Pairs \ {p} : SameHold(o),
           NEW j \in Items
    PROVE  /\ Cardinality(HeldUnits(j)') = Cardinality(HeldUnits(j)) - IF j = i THEN q ELSE 0
           /\ Cardinality(HeldUnits(j)') \in Nat
  <1>0. Cardinality(HeldUnits(j)) \in Nat /\ Cardinality(HeldUnits(j)') \in Nat
    BY UnitsFinite, FS_Subset, FS_CardinalityType DEF HeldUnits
  <1>1. CASE j # i
    <2>1. HeldUnits(j)' = HeldUnits(j)
      BY <1>1 DEF HeldUnits, SameHold
    <2> QED
      BY <1>0, <1>1, <2>1
  <1>2. CASE j = i
    <2> DEFINE B == {p} \X (1 .. q)
    <2>1. HeldUnits(i)' = HeldUnits(i) \ B
      BY DEF HeldUnits, SameHold
    <2>2. HeldUnits(i) \cap B = B
      BY Quantities DEF HeldUnits
    <2>3. IsFiniteSet(HeldUnits(i))
      BY UnitsFinite, FS_Subset DEF HeldUnits
    <2>q. q \in Nat
      BY Quantities
    <2>4. Cardinality(B) = q
      BY <2>q, UnitBlock, Zenon
    <2> HIDE DEF B
    <2>5. Cardinality(HeldUnits(i) \ B)
             = Cardinality(HeldUnits(i)) - Cardinality(HeldUnits(i) \cap B)
      BY <2>3, FS_Difference, Zenon
    <2> QED
      BY <1>0, <1>2, <2>1, <2>2, <2>4, <2>5
  <1> QED
    BY <1>1, <1>2

-----------------------------------------------------------------------------
(* Types of the updates *)

LEMMA RequestTypes ==
    ASSUME TypeOK, NEW r \in Requests, NEW to \in RequestStatuses
    PROVE  /\ Moved(r, to) \in [Requests -> RequestRow]
           /\ Closing(r, to) \in [Requests -> RequestRow]
           /\ Reopened(r) \in [Requests -> RequestRow]
  <1>1. Moved(r, to) \in [Requests -> RequestRow]
    BY DEF TypeOK, RequestRow, Moved
  <1>2. Closing(r, to) \in [Requests -> RequestRow]
    BY DEF TypeOK, RequestRow, Closing
  <1>3. Reopened(r) \in [Requests -> RequestRow]
    <2> DEFINE new == [request[r] EXCEPT !.status = "searching", !.due = FALSE,
                                         !.radius = InitialRadius, !.closed = FALSE]
    <2>1. request[r] \in RequestRow
      BY DEF TypeOK
    <2>2. "searching" \in RequestStatuses
      BY DEF RequestStatuses
    <2>3. new \in RequestRow
      BY <2>1, <2>2, Radii DEF RequestRow
    <2>4. Reopened(r) = [request EXCEPT ![r] = new]
      BY DEF Reopened
    <2> HIDE DEF new
    <2> QED
      BY <2>3, <2>4 DEF TypeOK
  <1> QED
    BY <1>1, <1>2, <1>3

LEMMA OfferTypes ==
    ASSUME TypeOK, NEW R, NEW to \in OfferStatuses \ {"offered", "none"}
    PROVE  /\ CloseOffers(R, to) \in [Pairs -> OfferRow]
           /\ \A p \in Pairs :
                 /\ offer[p].status = "accepted" => CloseOffers(R, to)[p].status = "accepted"
                 /\ CloseOffers(R, to)[p].status = "offered" =>
                       offer[p].status = "offered" /\ CloseOffers(R, to)[p].item = offer[p].item
  BY DEF TypeOK, OfferRow, CloseOffers

\* A step that leaves matches and stock alone, keeps the accepted offers of
\* matches and offers real items keeps the invariant.
LEMMA FrameRequests ==
    ASSUME StockInv, UNCHANGED <<match, item>>,
           request' \in [Requests -> RequestRow], offer' \in [Pairs -> OfferRow],
           available' \in [Users -> BOOLEAN], blocked' \in SUBSET SUBSET Users,
           event' \in EventRow, phase' \in Phases, stats' \in [Users -> StatsRow],
           \A p \in Pairs : /\ offer[p].status = "accepted" /\ match[p].status # "none"
                                  => offer'[p].status = "accepted"
                            /\ offer'[p].status = "offered" =>
                                  \/ offer[p].status = "offered" /\ offer'[p].item = offer[p].item
                                  \/ offer'[p].item \in Items
    PROVE  StockInv'
  <1>1. TypeOK'
    BY DEF StockInv, TypeOK
  <1>2. ActiveShape'
    BY DEF StockInv, ActiveShape
  <1>3. OfferShape'
    BY DEF StockInv, OfferShape
  <1>4. AbsentShape' /\ NeverOverReserved'
    BY DEF StockInv, AbsentShape, NeverOverReserved
  <1>5. ReservedIsHeld'
    BY HeldSame DEF StockInv, ReservedIsHeld, SameHold
  <1> QED
    BY <1>1, <1>2, <1>3, <1>4, <1>5 DEF StockInv

\* A step that changes nothing an active match is about keeps the invariant.
LEMMA FrameMatches ==
    ASSUME StockInv, UNCHANGED <<offer, item, request, available, blocked, event, phase, stats>>,
           match' \in [Pairs -> MatchRow],
           \A p \in Pairs : /\ SameHold(p)
                            /\ match'[p].inventoryApplied = match[p].inventoryApplied
                            /\ \A s \in Sides : match'[p].confirmed[s] <= match[p].qty
                                                \/ match'[p].confirmed = match[p].confirmed
    PROVE  StockInv'
  <1>1. TypeOK'
    BY DEF StockInv, TypeOK
  <1>2. ActiveShape'
    BY DEF StockInv, ActiveShape, SameHold
  <1>3. OfferShape' /\ AbsentShape' /\ NeverOverReserved'
    BY DEF StockInv, OfferShape, AbsentShape, NeverOverReserved
  <1>4. ReservedIsHeld'
    BY HeldSame DEF StockInv, ReservedIsHeld
  <1> QED
    BY <1>1, <1>2, <1>3, <1>4 DEF StockInv

\* A stock edit that keeps reservations, or drops them where nothing is held.
LEMMA FrameStock ==
    ASSUME StockInv, UNCHANGED <<offer, match, request, available, blocked, event, phase, stats>>,
           item' \in [Items -> ItemRow],
           \A i \in Items : /\ item'[i].reserved = item[i].reserved
                            /\ item'[i].reserved <= item'[i].onHand
                            /\ ~item'[i].exists => item'[i].reserved = 0 /\ ~item'[i].active
    PROVE  StockInv'
  <1>1. TypeOK' /\ ActiveShape' /\ OfferShape'
    BY DEF StockInv, TypeOK, ActiveShape, OfferShape
  <1>2. AbsentShape' /\ NeverOverReserved'
    BY DEF AbsentShape, NeverOverReserved
  <1>3. ReservedIsHeld'
    BY HeldSame DEF StockInv, ReservedIsHeld, SameHold
  <1> QED
    BY <1>1, <1>2, <1>3 DEF StockInv

-----------------------------------------------------------------------------
(* Every step keeps the invariant *)

LEMMA StockInit == Init => StockInv
  <1> SUFFICES ASSUME Init PROVE StockInv
    OBVIOUS
  <1>1. TypeOK
    <2>1. request \in [Requests -> RequestRow]
      BY Radii DEF Init, NoRequest, RequestRow, RequestStatuses
    <2>2. offer \in [Pairs -> OfferRow]
      BY Quantities DEF Init, NoOffer, OfferRow, OfferStatuses, Quantity
    <2>3. match \in [Pairs -> MatchRow]
      BY Quantities DEF Init, NoMatch, MatchRow, MatchStatuses, Quantity, Sides
    <2>4. item \in [Items -> ItemRow]
      BY Quantities DEF Init, AbsentItem, ItemRow, Quantity
    <2>5. stats \in [Users -> StatsRow]
      BY DEF Init, NewStats, StatsRow
    <2>6. event \in EventRow /\ phase \in Phases
      BY DEF Init, EventRow, EventStatuses, Phases
    <2> QED
      BY <2>1, <2>2, <2>3, <2>4, <2>5, <2>6 DEF Init, TypeOK
  <1>2. ActiveShape /\ OfferShape
    BY DEF Init, ActiveShape, OfferShape, NoMatch, NoOffer
  <1>3. AbsentShape /\ NeverOverReserved
    BY DEF Init, AbsentShape, NeverOverReserved, AbsentItem
  <1>4. ReservedIsHeld
    <2> SUFFICES ASSUME NEW i \in Items PROVE item[i].reserved = Cardinality(HeldUnits(i))
      BY DEF ReservedIsHeld
    <2>1. HeldUnits(i) = {}
      BY DEF HeldUnits, Init, NoMatch
    <2> QED
      BY <2>1, FS_EmptySet DEF Init, AbsentItem
  <1> QED
    BY <1>1, <1>2, <1>3, <1>4 DEF StockInv

LEMMA RequesterKeepsStock ==
    ASSUME StockInv, NEW r \in Requests,
           \/ CreateRequest(r) \/ CancelOpenRequest(r)
           \/ RenewRequest(r) \/ ContinueRequest(r) \/ StopAfterPartial(r)
    PROVE  StockInv'
  <1>t. TypeOK
    BY DEF StockInv
  <1>s. {"searching", "cancelled", "fulfilled"} \subseteq RequestStatuses
    BY DEF RequestStatuses
  <1>1. CASE CreateRequest(r)
    <2>1. request' \in [Requests -> RequestRow]
      BY <1>1, <1>t, <1>s, Radii DEF CreateRequest, TypeOK, RequestRow, NoRequest
    <2> QED
      BY <1>1, <1>t, <2>1, FrameRequests DEF CreateRequest, TypeOK
  <1>2. CASE CancelOpenRequest(r)
    <2>1. request' \in [Requests -> RequestRow]
      BY <1>2, <1>t, <1>s, RequestTypes DEF CancelOpenRequest
    <2>2. "superseded" \in OfferStatuses \ {"offered", "none"}
      BY DEF OfferStatuses
    <2> QED
      BY <1>2, <1>t, <2>1, <2>2, OfferTypes, FrameRequests DEF CancelOpenRequest, TypeOK
  <1>3. CASE RenewRequest(r)
    <2>1. request' \in [Requests -> RequestRow]
      BY <1>3, <1>t, <1>s, RequestTypes DEF RenewRequest
    <2> QED
      BY <1>3, <1>t, <2>1, FrameRequests DEF RenewRequest, TypeOK
  <1>4. CASE ContinueRequest(r)
    <2>1. request' \in [Requests -> RequestRow]
      BY <1>4, <1>t, <1>s, RequestTypes DEF ContinueRequest
    <2> QED
      BY <1>4, <1>t, <2>1, FrameRequests DEF ContinueRequest, TypeOK
  <1>5. CASE StopAfterPartial(r)
    <2>1. request' \in [Requests -> RequestRow]
      BY <1>5, <1>t, <1>s, RequestTypes DEF StopAfterPartial
    <2> QED
      BY <1>5, <1>t, <2>1, FrameRequests DEF StopAfterPartial, TypeOK
  <1> QED
    BY <1>1, <1>2, <1>3, <1>4, <1>5

\* The offers a pass sweeps stay typed, accepted ones stay accepted.
LEMMA SweptTypes ==
    ASSUME TypeOK, NEW r \in Requests
    PROVE  /\ SweptOffers(r) \in [Pairs -> OfferRow]
           /\ \A p \in Pairs :
                 /\ offer[p].status = "accepted" => SweptOffers(r)[p].status = "accepted"
                 /\ SweptOffers(r)[p].status = "offered" =>
                       offer[p].status = "offered" /\ SweptOffers(r)[p].item = offer[p].item
  <1>1. "expired" \in OfferStatuses \ {"offered", "none"}
    BY DEF OfferStatuses
  <1>2. CASE request[r].status = "offering"
    BY <1>1, <1>2, OfferTypes DEF SweptOffers
  <1>3. CASE request[r].status # "offering"
    BY <1>3 DEF SweptOffers, TypeOK
  <1> QED
    BY <1>2, <1>3

LEMMA PassKeepsStock ==
    ASSUME StockInv, NEW r \in Requests, Pass(r)
    PROVE  StockInv'
  <1>t. TypeOK
    BY DEF StockInv
  <1>s. {"searching", "offering", "expired", "no_match"} \subseteq RequestStatuses
    BY DEF RequestStatuses
  <1>1. CASE PassExpires(r)
    <2>1. request' \in [Requests -> RequestRow]
      BY <1>1, <1>t, <1>s, RequestTypes DEF PassExpires
    <2>2. "superseded" \in OfferStatuses \ {"offered", "none"}
      BY DEF OfferStatuses
    <2> QED
      BY <1>1, <1>t, <2>1, <2>2, OfferTypes, FrameRequests DEF PassExpires, TypeOK
  <1>2. CASE PassOffers(r)
    <2>1. PICK c \in Candidates(r) :
             LET q == Min2(Remaining(r), Free(c[2]))
             IN  /\ q > 0
                 /\ offer' = [SweptOffers(r) EXCEPT
                                 ![<<r, c[1]>>] = [status |-> "offered", late |-> FALSE,
                                                   item |-> c[2], qty |-> q]]
                 /\ request' = Moved(r, "offering")
                 /\ stats' = [stats EXCEPT ![c[1]].received = @ + 1]
      BY <1>2 DEF PassOffers
    <2> DEFINE q == Min2(Remaining(r), Free(c[2]))
               p0 == <<r, c[1]>>
               new == [status |-> "offered", late |-> FALSE, item |-> c[2], qty |-> q]
    <2>2. c[1] \in Users /\ c[2] \in Items /\ offer[p0].status = "none" /\ p0 \in Pairs
      BY DEF Candidates, Eligible, Pairs
    <2>3. q \in Quantity
      <3>1. item[c[2]].onHand \in 0 .. MaxStock /\ item[c[2]].reserved \in 0 .. MaxStock
        BY <1>t, <2>2 DEF TypeOK, ItemRow, Quantity
      <3>2. Qty[r] \in Nat /\ request[r].fulfilled \in Nat
        BY <1>t, Quantities DEF TypeOK, RequestRow
      <3> QED
        BY <2>1, <3>1, <3>2, Quantities DEF Min2, Remaining, Free, Quantity
    <2>4. new \in OfferRow
      BY <2>2, <2>3 DEF OfferRow, OfferStatuses
    <2>5. offer' = [SweptOffers(r) EXCEPT ![p0] = new]
      BY <2>1
    <2> HIDE DEF q, new
    <2>6. /\ offer' \in [Pairs -> OfferRow]
          /\ \A p \in Pairs :
                /\ offer[p].status = "accepted" => offer'[p].status = "accepted"
                /\ p # p0 /\ offer'[p].status = "offered" =>
                      offer[p].status = "offered" /\ offer'[p].item = offer[p].item
      BY <1>t, <2>2, <2>4, <2>5, SweptTypes
    <2>7. offer'[p0].item \in Items
      BY <1>t, <2>2, <2>5, SweptTypes DEF new
    <2>8. request' \in [Requests -> RequestRow]
      BY <1>t, <1>s, <2>1, RequestTypes
    <2>9. stats' \in [Users -> StatsRow]
      BY <1>t, <2>1, <2>2 DEF TypeOK, StatsRow
    <2> QED
      BY <1>2, <1>t, <2>6, <2>7, <2>8, <2>9, FrameRequests DEF PassOffers, TypeOK
  <1>3. CASE PassWidens(r)
    <2>1. request' \in [Requests -> RequestRow]
      <3> DEFINE wide == Min2(2 * request[r].radius, MaxRadius)
                 new == [request[r] EXCEPT !.status = "searching", !.radius = wide]
      <3>1. request[r] \in RequestRow /\ request[r].radius \in Nat
        BY <1>t DEF TypeOK, RequestRow
      <3>2. wide \in Nat
        BY <3>1, Radii DEF Min2
      <3>3. request' = [request EXCEPT ![r] = new]
        BY <1>3 DEF PassWidens
      <3> HIDE DEF wide
      <3>4. new \in RequestRow
        BY <1>s, <3>1, <3>2 DEF RequestRow
      <3> HIDE DEF new
      <3> QED
        BY <1>t, <3>3, <3>4 DEF TypeOK
    <2> QED
      BY <1>3, <1>t, <2>1, SweptTypes, FrameRequests DEF PassWidens, TypeOK
  <1>4. CASE PassIdles(r)
    <2>1. request' \in [Requests -> RequestRow]
      BY <1>4, <1>t, <1>s, RequestTypes DEF PassIdles
    <2> QED
      BY <1>4, <1>t, <2>1, SweptTypes, FrameRequests DEF PassIdles, TypeOK
  <1> QED
    BY <1>1, <1>2, <1>3, <1>4 DEF Pass

LEMMA AnswerKeepsStock ==
    ASSUME StockInv, NEW p \in Pairs, NEW stop \in BOOLEAN,
           ExpireOffer(p) \/ DeclineOffer(p, stop) \/ AcceptFindsNothing(p)
    PROVE  StockInv'
  <1>t. TypeOK /\ p[1] \in Requests /\ p[2] \in Users
    BY DEF StockInv, Pairs
  <1>s. "searching" \in RequestStatuses /\ {"expired", "declined"} \subseteq OfferStatuses
    BY DEF RequestStatuses, OfferStatuses
  <1>1. CASE ExpireOffer(p)
    <2>1. request' \in [Requests -> RequestRow]
      BY <1>1, <1>t, <1>s, RequestTypes DEF ExpireOffer, SearchResumes, TypeOK
    <2>2. offer' \in [Pairs -> OfferRow]
      BY <1>1, <1>t, <1>s DEF ExpireOffer, TypeOK, OfferRow
    <2> QED
      BY <1>1, <1>t, <2>1, <2>2, FrameRequests DEF ExpireOffer, TypeOK, OfferRow
  <1>2. CASE DeclineOffer(p, stop)
    <2>1. request' \in [Requests -> RequestRow]
      BY <1>2, <1>t, <1>s, RequestTypes DEF DeclineOffer, SearchResumes, TypeOK
    <2>2. offer' \in [Pairs -> OfferRow]
      BY <1>2, <1>t, <1>s DEF DeclineOffer, TypeOK, OfferRow
    <2>3. stats' \in [Users -> StatsRow] /\ available' \in [Users -> BOOLEAN]
      BY <1>2, <1>t DEF DeclineOffer, TypeOK, StatsRow
    <2> QED
      BY <1>2, <1>t, <2>1, <2>2, <2>3, FrameRequests DEF DeclineOffer, TypeOK, OfferRow
  <1>3. CASE AcceptFindsNothing(p)
    <2>1. request' \in [Requests -> RequestRow]
      BY <1>3, <1>t, <1>s, RequestTypes DEF AcceptFindsNothing
    <2>2. offer' \in [Pairs -> OfferRow]
      BY <1>3, <1>t, <1>s DEF AcceptFindsNothing, TypeOK, OfferRow
    <2> QED
      BY <1>3, <1>t, <2>1, <2>2, FrameRequests
         DEF AcceptFindsNothing, MayAccept, TypeOK, OfferRow
  <1> QED
    BY <1>1, <1>2, <1>3


LEMMA AcceptKeepsStock ==
    ASSUME StockInv, NEW p \in Pairs, AcceptOffer(p)
    PROVE  StockInv'
  <1> DEFINE i == offer[p].item
             q == Reservable(p)
             m == [NoMatch EXCEPT !.status = "active", !.item = i, !.qty = q,
                                  !.conversation = "open"]
  <1>t. TypeOK /\ p[1] \in Requests /\ p[2] \in Users
    BY DEF StockInv, Pairs
  <1>i. i \in Items
    BY DEF StockInv, OfferShape, AcceptOffer, MayAccept
  <1>n. match[p].status # "active"
    BY DEF StockInv, ActiveShape, AcceptOffer, MayAccept
  <1>1. item[i] \in ItemRow /\ item[i].onHand \in Nat /\ item[i].reserved \in Nat
    BY <1>t, <1>i DEF TypeOK, ItemRow, Quantity
  <1>2. Qty[p[1]] \in Nat /\ request[p[1]].fulfilled \in Nat
    BY <1>t, Quantities DEF TypeOK, RequestRow
  <1>3. offer[p].qty \in 0 .. MaxStock
    BY <1>t DEF TypeOK, OfferRow, Quantity
  <1>4. q \in 1 .. MaxStock /\ q <= item[i].onHand - item[i].reserved /\ item[i].active
    BY <1>1, <1>2, <1>3, Quantities
       DEF AcceptOffer, Reservable, ReserveQty, Min2, Free, Remaining
  <1>5. /\ item' = [item EXCEPT ![i].reserved = item[i].reserved + q]
        /\ offer' = [offer EXCEPT ![p].status = "accepted"]
        /\ match' = [match EXCEPT ![p] = m]
        /\ request' = Moved(p[1], "matched")
        /\ UNCHANGED <<available, blocked, event, phase>>
    BY DEF AcceptOffer
  <1> HIDE DEF q
  <1>6. m \in MatchRow /\ m.status = "active" /\ m.item = i /\ m.qty = q
        /\ ~m.inventoryApplied /\ \A s \in Sides : m.confirmed[s] = -1
    <2>1. NoMatch \in MatchRow
      BY Quantities DEF MatchRow, MatchStatuses, NoMatch, Quantity
    <2>2. ~NoMatch.inventoryApplied /\ \A s \in Sides : NoMatch.confirmed[s] = -1
      BY DEF NoMatch, NoQty
    <2>3. q \in Quantity /\ "active" \in MatchStatuses
      BY <1>4 DEF Quantity, MatchStatuses
    <2> QED
      BY <1>i, <2>1, <2>2, <2>3 DEF MatchRow
  <1> HIDE DEF m, i
  <1>7. stats' \in [Users -> StatsRow]
    <2> DEFINE s == stats[p[2]]
               a == s.accepted + 1
               b == s.responded + 1
               new == [s EXCEPT !.accepted = a, !.responded = b]
    <2>1. s \in StatsRow /\ a \in Nat /\ b \in Nat
      BY <1>t DEF TypeOK, StatsRow
    <2>3. stats' = [stats EXCEPT ![p[2]] = new]
      BY DEF AcceptOffer
    <2> HIDE DEF s, a, b
    <2>2. new \in StatsRow
      BY <2>1 DEF StatsRow
    <2> HIDE DEF new
    <2> QED
      BY <1>t, <2>2, <2>3 DEF TypeOK
  <1>8. TypeOK'
    <2>1. request' \in [Requests -> RequestRow]
      BY <1>t, <1>5, RequestTypes DEF RequestStatuses
    <2>2. offer' \in [Pairs -> OfferRow]
      BY <1>t, <1>5 DEF TypeOK, OfferRow, OfferStatuses
    <2>3. match' \in [Pairs -> MatchRow]
      BY <1>t, <1>5, <1>6 DEF TypeOK
    <2>4. item' \in [Items -> ItemRow]
      <3> DEFINE n == item[i].reserved + q
                 new == [item[i] EXCEPT !.reserved = n]
      <3>1. item[i].onHand \in 0 .. MaxStock
        BY <1>t, <1>i DEF TypeOK, ItemRow, Quantity
      <3>2. n \in Quantity
        BY <1>1, <1>4, <3>1, Quantities DEF Quantity
      <3>3. item' = [item EXCEPT ![i] = new]
        BY <1>5
      <3> HIDE DEF n
      <3>4. new \in ItemRow
        BY <1>1, <3>2 DEF ItemRow
      <3> HIDE DEF new
      <3> QED
        BY <1>t, <1>i, <3>3, <3>4 DEF TypeOK
    <2> QED
      BY <1>t, <1>5, <1>7, <2>1, <2>2, <2>3, <2>4 DEF TypeOK
  <1>9. ActiveShape'
    <2> SUFFICES ASSUME NEW o \in Pairs
                 PROVE  /\ match'[o].status # "none" => offer'[o].status = "accepted"
                        /\ match'[o].status = "active" =>
                              /\ match'[o].item \in Items /\ match'[o].qty >= 1
                              /\ ~match'[o].inventoryApplied
                              /\ \A s \in Sides : match'[o].confirmed[s] <= match'[o].qty
      BY DEF ActiveShape
    <2>1. CASE o = p
      <3>1. match'[o] = m /\ offer'[o].status = "accepted"
        BY <1>t, <1>5, <2>1 DEF TypeOK, OfferRow
      <3> QED
        BY <1>i, <1>4, <1>6, <3>1
    <2>2. CASE o # p
      <3>1. match'[o] = match[o] /\ offer'[o] = offer[o]
        BY <1>t, <1>5, <2>2 DEF TypeOK
      <3> QED
        BY <3>1 DEF StockInv, ActiveShape
    <2> QED
      BY <2>1, <2>2
  <1>10. OfferShape'
    BY <1>t, <1>5 DEF StockInv, OfferShape, TypeOK, OfferRow
  <1>11. AbsentShape' /\ NeverOverReserved'
    BY <1>t, <1>i, <1>1, <1>4, <1>5
       DEF StockInv, AbsentShape, NeverOverReserved, TypeOK, ItemRow
  <1>12. ReservedIsHeld'
    <2> SUFFICES ASSUME NEW j \in Items PROVE item'[j].reserved = Cardinality(HeldUnits(j)')
      BY DEF ReservedIsHeld
    <2>1. match'[p].status = "active" /\ match'[p].item = i /\ match'[p].qty = q
      BY <1>t, <1>5, <1>6 DEF TypeOK
    <2>2. \A o \in Pairs \ {p} : SameHold(o)
      BY <1>t, <1>5 DEF TypeOK, SameHold
    <2>3. Cardinality(HeldUnits(j)') = Cardinality(HeldUnits(j)) + IF j = i THEN q ELSE 0
      BY <1>i, <1>n, <1>4, <2>1, <2>2, HeldGain
    <2>4. item[j].reserved = Cardinality(HeldUnits(j)) /\ item[j].reserved \in Nat
      BY <1>t DEF StockInv, ReservedIsHeld, TypeOK, ItemRow, Quantity
    <2>5. item'[j].reserved = item[j].reserved + IF j = i THEN q ELSE 0
      BY <1>t, <1>5, <1>i, <1>4, <2>4 DEF TypeOK, ItemRow
    <2> QED
      BY <2>3, <2>4, <2>5
  <1> QED
    BY <1>8, <1>9, <1>10, <1>11, <1>12 DEF StockInv

\* A match leaves "active": its reservation is released and d <= qty units of
\* the item are gone.
LEMMA CloseKeepsStock ==
    ASSUME StockInv, NEW p \in Pairs, NEW d \in Nat, NEW row, NEW m \in MatchRow,
           match[p].status = "active", d <= match[p].qty,
           row \in [exists : BOOLEAN, active : BOOLEAN, expired : BOOLEAN, onHand : Int,
                    reserved : Int],
           row.exists = item[match[p].item].exists,
           row.active = item[match[p].item].active,
           row.onHand = item[match[p].item].onHand - d,
           row.reserved = item[match[p].item].reserved - match[p].qty,
           m.status \notin {"none", "active"},
           item' = [item EXCEPT ![match[p].item] = row],
           match' = [match EXCEPT ![p] = m],
           request' \in [Requests -> RequestRow], stats' \in [Users -> StatsRow],
           UNCHANGED <<offer, available, blocked, event, phase>>
    PROVE  StockInv'
  <1> DEFINE i == match[p].item
             q == match[p].qty
  <1>t. TypeOK
    BY DEF StockInv
  <1>1. i \in Items /\ q \in 1 .. MaxStock
    BY <1>t, Quantities DEF StockInv, ActiveShape, TypeOK, MatchRow, Quantity
  <1>2. match'[p].status \notin {"none", "active"}
    BY <1>t DEF TypeOK
  <1>3. \A o \in Pairs \ {p} : SameHold(o)
    BY <1>t DEF TypeOK, SameHold
  <1>4. \A j \in Items :
           /\ Cardinality(HeldUnits(j)') = Cardinality(HeldUnits(j)) - IF j = i THEN q ELSE 0
           /\ Cardinality(HeldUnits(j)') \in Nat
    BY <1>1, <1>2, <1>3, HeldLoss
  <1>5. /\ item[i].onHand \in 0 .. MaxStock /\ item[i].reserved \in 0 .. MaxStock
        /\ item[i].reserved <= item[i].onHand
        /\ item[i].reserved = Cardinality(HeldUnits(i))
    BY <1>t, <1>1 DEF StockInv, NeverOverReserved, ReservedIsHeld, TypeOK, ItemRow, Quantity
  <1>6. row.reserved \in Nat
    BY <1>1, <1>4, <1>5
  <1>7. row.onHand \in 0 .. MaxStock /\ row.reserved \in 0 .. MaxStock
        /\ row.reserved <= row.onHand
    BY <1>1, <1>5, <1>6, Quantities
  <1>8. row \in ItemRow
    BY <1>7 DEF ItemRow, Quantity
  <1>9. TypeOK'
    BY <1>t, <1>1, <1>8 DEF TypeOK
  <1>10. ActiveShape' /\ OfferShape'
    BY <1>t, <1>2 DEF StockInv, ActiveShape, OfferShape, TypeOK
  <1>11. NeverOverReserved'
    BY <1>t, <1>1, <1>7 DEF StockInv, NeverOverReserved, TypeOK
  <1>12. AbsentShape'
    BY <1>t, <1>1, <1>5, <1>6 DEF StockInv, AbsentShape, TypeOK
  <1>13. ReservedIsHeld'
    <2> SUFFICES ASSUME NEW j \in Items PROVE item'[j].reserved = Cardinality(HeldUnits(j)')
      BY DEF ReservedIsHeld
    <2>1. item[j].reserved = Cardinality(HeldUnits(j)) /\ item[j].reserved \in Nat
      BY <1>t DEF StockInv, ReservedIsHeld, TypeOK, ItemRow, Quantity
    <2>2. CASE j = i
      BY <1>1, <1>t, <1>4, <2>1, <2>2 DEF TypeOK
    <2>3. CASE j # i
      <3>1. item'[j] = item[j]
        BY <2>3, <1>t DEF TypeOK
      <3> QED
        BY <1>4, <2>1, <2>3, <3>1
    <2> QED
      BY <2>2, <2>3
  <1> QED
    BY <1>9, <1>10, <1>11, <1>12, <1>13 DEF StockInv


LEMMA SettleKeepsStock ==
    ASSUME StockInv, NEW p \in Pairs, NEW confirmed \in [Sides -> Quantity \cup {NoQty}],
           NEW final \in Nat, NEW disputed \in BOOLEAN,
           match[p].status = "active", final <= match[p].qty,
           Settle(p, confirmed, final, disputed)
    PROVE  StockInv'
  <1> DEFINE r == p[1]
             i == match[p].item
             total == request[r].fulfilled + final
             covered == total >= Qty[r]
             to == IF covered THEN "fulfilled"
                   ELSE IF total > 0 THEN "partially_fulfilled" ELSE "searching"
             onHand == item[i].onHand - final
             reserved == item[i].reserved - match[p].qty
             row == [item[i] EXCEPT !.onHand = onHand, !.reserved = reserved]
             outcome == IF disputed THEN "disputed"
                        ELSE IF covered THEN "completed" ELSE "partially_completed"
             m == [match[p] EXCEPT !.status = outcome, !.confirmed = confirmed,
                                   !.inventoryApplied = TRUE, !.reliabilityApplied = TRUE,
                                   !.grace = TRUE]
             closed == covered \/ request[r].closed
             req == [request[r] EXCEPT !.status = to, !.fulfilled = total, !.closed = closed]
  <1>t. TypeOK /\ r \in Requests /\ p[2] \in Users /\ i \in Items /\ ~match[p].inventoryApplied
    BY DEF StockInv, ActiveShape, Pairs
  <1>1. /\ item' = [item EXCEPT ![i] = row]
        /\ match' = [match EXCEPT ![p] = m]
        /\ request' = [request EXCEPT ![r] = req]
        /\ UNCHANGED <<offer, available, blocked, event, phase>>
    BY <1>t DEF Settle, Released
  <1>2. stats' \in [Users -> StatsRow]
    <2>1. CASE match[p].reliabilityApplied
      BY <1>t, <2>1 DEF Settle, TypeOK
    <2>2. CASE ~match[p].reliabilityApplied
      <3> DEFINE a(u) == stats[u].completed + One(u = p[2] /\ final > 0)
                 b(u) == stats[u].confirmed + One(u = p[2] /\ confirmed["requester"] > 0)
                 c(u) == stats[u].disputes + One(disputed /\ u \in {p[2], Requester[r]})
                 new(u) == [stats[u] EXCEPT !.completed = a(u), !.confirmed = b(u),
                                            !.disputes = c(u)]
      <3>1. ASSUME NEW u \in Users PROVE new(u) \in StatsRow
        <4>1. stats[u] \in StatsRow /\ stats[u].completed \in Nat /\ stats[u].confirmed \in Nat
              /\ stats[u].disputes \in Nat
          BY <1>t DEF TypeOK, StatsRow
        <4>2. a(u) \in Nat /\ b(u) \in Nat /\ c(u) \in Nat
          BY <4>1 DEF One
        <4> HIDE DEF a, b, c
        <4> QED
          BY <4>1, <4>2 DEF StatsRow
      <3>2. stats' = [u \in Users |-> new(u)]
        BY <2>2 DEF Settle
      <3> HIDE DEF new
      <3> QED
        BY <3>1, <3>2
    <2> QED
      BY <2>1, <2>2
  <1>3. request' \in [Requests -> RequestRow]
    <2>1. request[r] \in RequestRow /\ request[r].closed \in BOOLEAN
          /\ request[r].fulfilled \in Nat
      BY <1>t DEF TypeOK, RequestRow
    <2>2. total \in Nat /\ to \in RequestStatuses /\ closed \in BOOLEAN
      BY <2>1 DEF RequestStatuses
    <2> HIDE DEF total, to, closed
    <2>3. req \in RequestRow
      BY <2>1, <2>2 DEF RequestRow
    <2> HIDE DEF req
    <2> QED
      BY <1>t, <1>1, <2>3 DEF TypeOK
  <1>4. m \in MatchRow /\ m.status \notin {"none", "active"}
    <2>1. match[p] \in MatchRow
      BY <1>t DEF TypeOK
    <2>2. outcome \in MatchStatuses \ {"none", "active"}
      BY DEF MatchStatuses, SettledStatuses
    <2> HIDE DEF outcome
    <2> QED
      BY <2>1, <2>2 DEF MatchRow
  <1>5. /\ row \in [exists : BOOLEAN, active : BOOLEAN, expired : BOOLEAN, onHand : Int,
                   reserved : Int]
        /\ row.exists = item[i].exists /\ row.active = item[i].active
        /\ row.onHand = onHand /\ row.reserved = reserved
    <2>1. item[i] \in ItemRow /\ item[i].onHand \in Int /\ item[i].reserved \in Int
      BY <1>t DEF TypeOK, ItemRow, Quantity
    <2>2. match[p].qty \in Int
      BY <1>t DEF TypeOK, MatchRow, Quantity
    <2>3. onHand \in Int /\ reserved \in Int
      BY <2>1, <2>2
    <2> HIDE DEF onHand, reserved
    <2> QED
      BY <2>1, <2>3 DEF ItemRow
  <1> HIDE DEF m, row, req
  <1> QED
    BY <1>1, <1>2, <1>3, <1>4, <1>5, CloseKeepsStock

LEMMA ConfirmKeepsStock ==
    ASSUME StockInv, NEW p \in Pairs, NEW side \in Sides, NEW q \in Quantity,
           ConfirmFirst(p, side, q) \/ ConfirmSecond(p, side, q) \/ AutoFinalize(p, side)
    PROVE  StockInv'
  <1>t. /\ TypeOK /\ q \in Nat /\ Peer(side) \in Sides
        /\ match[p].confirmed \in [Sides -> Quantity \cup {NoQty}]
    BY Quantities DEF StockInv, TypeOK, MatchRow, Peer, Sides, Quantity
  <1>a. match[p].status = "active"
    BY DEF ConfirmFirst, ConfirmSecond, MayConfirm, AutoFinalize, IsActive
  <1>b. \A s \in Sides : match[p].confirmed[s] <= match[p].qty
    BY <1>a DEF StockInv, ActiveShape
  <1>n. \A s \in Sides : match[p].confirmed[s] # NoQty => match[p].confirmed[s] \in Nat
    BY <1>t, Quantities DEF Quantity
  <1>1. CASE ConfirmFirst(p, side, q)
    <2> DEFINE c == [match[p].confirmed EXCEPT ![side] = q]
               m == [match[p] EXCEPT !.confirmed = c]
    <2>1. c \in [Sides -> Quantity \cup {NoQty}]
      BY <1>t
    <2>2. \A s \in Sides : c[s] <= match[p].qty
      BY <1>1, <1>t, <1>b DEF ConfirmFirst, MayConfirm
    <2>3. match' = [match EXCEPT ![p] = m]
      BY <1>1 DEF ConfirmFirst
    <2> HIDE DEF c
    <2>0. match[p] \in MatchRow
      BY <1>t DEF TypeOK
    <2>4. /\ m \in MatchRow /\ m.status = match[p].status /\ m.item = match[p].item
          /\ m.qty = match[p].qty /\ m.inventoryApplied = match[p].inventoryApplied
          /\ m.confirmed = c
      BY <2>0, <2>1 DEF MatchRow
    <2> HIDE DEF m
    <2>5. match' \in [Pairs -> MatchRow]
      BY <1>t, <2>3, <2>4 DEF TypeOK
    <2>6. \A o \in Pairs : /\ SameHold(o)
                           /\ match'[o].inventoryApplied = match[o].inventoryApplied
                           /\ \A s \in Sides : match'[o].confirmed[s] <= match[o].qty
                                               \/ match'[o].confirmed = match[o].confirmed
      BY <1>t, <2>2, <2>3, <2>4 DEF TypeOK, SameHold
    <2>7. UNCHANGED <<offer, item, request, available, blocked, event, phase, stats>>
      BY <1>1 DEF ConfirmFirst
    <2> QED
      BY <2>5, <2>6, <2>7, FrameMatches
  <1>2. CASE ConfirmSecond(p, side, q)
    <2> DEFINE c == [match[p].confirmed EXCEPT ![side] = q]
               other == match[p].confirmed[Peer(side)]
               final == FinalQty(q, other)
    <2>1. c \in [Sides -> Quantity \cup {NoQty}]
      BY <1>t
    <2>2. final \in Nat /\ final <= match[p].qty
      BY <1>2, <1>t, <1>b, <1>n DEF ConfirmSecond, MayConfirm, FinalQty, Min2
    <2>3. Settle(p, c, final, q # other)
      BY <1>2 DEF ConfirmSecond
    <2> HIDE DEF c, final
    <2> QED
      BY <1>a, <2>1, <2>2, <2>3, SettleKeepsStock
  <1>3. CASE AutoFinalize(p, side)
    <2>1. match[p].confirmed[side] \in Nat /\ match[p].confirmed[side] <= match[p].qty
      BY <1>3, <1>b, <1>n DEF AutoFinalize
    <2>2. Settle(p, match[p].confirmed, match[p].confirmed[side], FALSE)
      BY <1>3 DEF AutoFinalize
    <2> QED
      BY <1>a, <1>t, <2>1, <2>2, SettleKeepsStock
  <1> QED
    BY <1>1, <1>2, <1>3

LEMMA CancelKeepsStock ==
    ASSUME StockInv, NEW p \in Pairs, NEW actor \in {"requester", "helper", "moderator"},
           NEW unsafe \in BOOLEAN, CancelMatch(p, actor, unsafe)
    PROVE  StockInv'
  <1> DEFINE r == p[1]
             i == match[p].item
             to == [moderator |-> "moderated", requester |-> "cancelled",
                    helper |-> "searching"][actor]
             reserved == item[i].reserved - match[p].qty
             onHand == item[i].onHand - 0
             row == [item[i] EXCEPT !.onHand = onHand, !.reserved = reserved]
             outcome == IF actor = "moderator" THEN "cancelled_moderation"
                        ELSE IF unsafe THEN "cancelled_unsafe"
                        ELSE IF actor = "requester" THEN "cancelled_by_requester"
                        ELSE "cancelled_by_helper"
             chat == IF CutsChat(actor, unsafe) THEN "readonly"
                     ELSE match[p].conversation
             m == [match[p] EXCEPT !.status = outcome, !.inventoryApplied = TRUE,
                                   !.grace = TRUE, !.conversation = chat]
             s == stats[p[2]]
             pre == s.cancelledPre + One(Abandoned(actor, unsafe) /\ ~(match[p].arrived # {}))
             post == s.cancelledPost + One(Abandoned(actor, unsafe) /\ match[p].arrived # {})
             count == [s EXCEPT !.cancelledPre = pre, !.cancelledPost = post]
  <1>a. match[p].status = "active"
    BY DEF CancelMatch, IsActive
  <1>t. TypeOK /\ r \in Requests /\ p[2] \in Users /\ i \in Items /\ ~match[p].inventoryApplied
    BY <1>a DEF StockInv, ActiveShape, Pairs
  <1>1. /\ item' = [item EXCEPT ![i] = row]
        /\ match' = [match EXCEPT ![p] = m]
        /\ request' = IF actor = "helper" THEN Moved(r, to) ELSE Closing(r, to)
        /\ stats' = [stats EXCEPT ![p[2]] = count]
        /\ UNCHANGED <<offer, available, blocked, event, phase>>
    BY <1>t DEF CancelMatch, Released
  <1>2. stats' \in [Users -> StatsRow]
    <2>1. s \in StatsRow /\ s.cancelledPre \in Nat /\ s.cancelledPost \in Nat
      BY <1>t DEF TypeOK, StatsRow
    <2>2. pre \in Nat /\ post \in Nat
      BY <2>1 DEF One
    <2> HIDE DEF s, pre, post
    <2>3. count \in StatsRow
      BY <2>1, <2>2 DEF StatsRow
    <2> HIDE DEF count
    <2> QED
      BY <1>t, <1>1, <2>3 DEF TypeOK
  <1>3. request' \in [Requests -> RequestRow]
    <2>1. to \in RequestStatuses
      BY DEF RequestStatuses
    <2> HIDE DEF to
    <2> QED
      BY <1>t, <1>1, <2>1, RequestTypes
  <1>4. m \in MatchRow /\ m.status \notin {"none", "active"}
    <2>1. match[p] \in MatchRow
      BY <1>t DEF TypeOK
    <2>2. outcome \in MatchStatuses \ {"none", "active"}
      BY DEF MatchStatuses, CancelledStatuses
    <2>3. chat \in {"none", "open", "readonly", "expired"}
      BY <2>1 DEF MatchRow
    <2> HIDE DEF outcome, chat
    <2> QED
      BY <2>1, <2>2, <2>3 DEF MatchRow
  <1>5. /\ row \in [exists : BOOLEAN, active : BOOLEAN, expired : BOOLEAN, onHand : Int,
                   reserved : Int]
        /\ row.exists = item[i].exists /\ row.active = item[i].active
        /\ row.onHand = onHand /\ row.reserved = reserved
    <2>1. item[i] \in ItemRow /\ item[i].onHand \in Int /\ item[i].reserved \in Int
      BY <1>t DEF TypeOK, ItemRow, Quantity
    <2>2. match[p].qty \in Int
      BY <1>t DEF TypeOK, MatchRow, Quantity
    <2>3. onHand \in Int /\ reserved \in Int
      BY <2>1, <2>2
    <2> HIDE DEF onHand, reserved
    <2> QED
      BY <2>1, <2>3 DEF ItemRow
  <1>6. 0 <= match[p].qty
    BY <1>t, Quantities DEF TypeOK, MatchRow, Quantity
  <1> HIDE DEF m, row, count
  <1> QED
    BY <1>a, <1>1, <1>2, <1>3, <1>4, <1>5, <1>6, CloseKeepsStock


\* Meetings and chats change nothing an active match is about.
LEMMA ChatKeepsStock ==
    ASSUME StockInv,
           \/ \E p \in Pairs, side \in Sides, there \in BOOLEAN : SetMeetingState(p, side, there)
           \/ \E p \in Pairs : ExpireConversation(p)
           \/ PurgeMessages
    PROVE  StockInv'
  <1>t. TypeOK
    BY DEF StockInv
  <1>1. CASE \E p \in Pairs, side \in Sides, there \in BOOLEAN : SetMeetingState(p, side, there)
    <2>1. PICK p \in Pairs, side \in Sides, there \in BOOLEAN : SetMeetingState(p, side, there)
      BY <1>1
    <2> DEFINE a == IF there THEN match[p].arrived \cup {side} ELSE match[p].arrived \ {side}
    <2>2. match[p] \in MatchRow /\ a \in SUBSET Sides
      BY <1>t DEF TypeOK, MatchRow
    <2>3. match' = [match EXCEPT ![p] = [match[p] EXCEPT !.arrived = a]]
          /\ UNCHANGED <<offer, item, request, available, blocked, event, phase, stats>>
      BY <2>1 DEF SetMeetingState
    <2> HIDE DEF a
    <2>4. match' \in [Pairs -> MatchRow]
      BY <1>t, <2>2, <2>3 DEF TypeOK, MatchRow
    <2>5. \A o \in Pairs : /\ SameHold(o)
                           /\ match'[o].inventoryApplied = match[o].inventoryApplied
                           /\ match'[o].confirmed = match[o].confirmed
      BY <1>t, <2>2, <2>3 DEF TypeOK, MatchRow, SameHold
    <2> QED
      BY <2>3, <2>4, <2>5, FrameMatches
  <1>2. CASE \E p \in Pairs : ExpireConversation(p)
    <2>1. PICK p \in Pairs : ExpireConversation(p)
      BY <1>2
    <2>2. match[p] \in MatchRow
      BY <1>t DEF TypeOK
    <2>3. match' = [match EXCEPT ![p] = [match[p] EXCEPT !.conversation = "readonly"]]
          /\ UNCHANGED <<offer, item, request, available, blocked, event, phase, stats>>
      BY <2>1 DEF ExpireConversation
    <2>4. match' \in [Pairs -> MatchRow]
      BY <1>t, <2>2, <2>3 DEF TypeOK, MatchRow
    <2>5. \A o \in Pairs : /\ SameHold(o)
                           /\ match'[o].inventoryApplied = match[o].inventoryApplied
                           /\ match'[o].confirmed = match[o].confirmed
      BY <1>t, <2>2, <2>3 DEF TypeOK, MatchRow, SameHold
    <2> QED
      BY <2>3, <2>4, <2>5, FrameMatches
  <1>3. CASE PurgeMessages
    <2>1. \A o \in Pairs : match[o] \in MatchRow
      BY <1>t DEF TypeOK
    <2>2. UNCHANGED <<offer, item, request, available, blocked, event, phase, stats>>
      BY <1>3 DEF PurgeMessages
    <2>3. match' \in [Pairs -> MatchRow]
      BY <1>3, <2>1 DEF PurgeMessages, MatchRow
    <2>4. \A o \in Pairs : /\ SameHold(o)
                           /\ match'[o].inventoryApplied = match[o].inventoryApplied
                           /\ match'[o].confirmed = match[o].confirmed
      BY <1>3, <2>1 DEF PurgeMessages, MatchRow, SameHold
    <2> QED
      BY <2>2, <2>3, <2>4, FrameMatches
  <1> QED
    BY <1>1, <1>2, <1>3

\* An item no match refers to holds nothing, so deleting its row loses nothing.
LEMMA UnreferencedHoldsNothing ==
    ASSUME StockInv, NEW i \in Items, ~Referenced(i)
    PROVE  item[i].reserved = 0
  <1>1. HeldUnits(i) = {}
    BY DEF HeldUnits, Referenced
  <1> QED
    BY <1>1, FS_EmptySet DEF StockInv, ReservedIsHeld

LEMMA StockEditsKeepStock ==
    ASSUME StockInv,
           \/ \E i \in Items, q \in Quantity : AddInventory(i, q)
           \/ \E i \in Items, q \in Quantity, a \in BOOLEAN : UpdateInventory(i, q, a)
           \/ \E i \in Items : DeleteInventory(i)
           \/ \E i \in Items : ItemExpires(i)
           \/ \E u \in Users : DeletionCollapsesStock(u)
    PROVE  StockInv'
  <1>t. TypeOK /\ 0 \in Quantity
    BY Quantities DEF StockInv, Quantity
  <1>r. \A i \in Items : /\ item[i] \in ItemRow /\ item[i].reserved \in Nat
                         /\ item[i].reserved <= item[i].onHand
                         /\ ~item[i].exists => item[i].reserved = 0 /\ ~item[i].active
    BY <1>t DEF StockInv, NeverOverReserved, AbsentShape, TypeOK, ItemRow, Quantity
  <1>1. CASE \E i \in Items, q \in Quantity : AddInventory(i, q)
    <2>1. PICK i \in Items, q \in Quantity : AddInventory(i, q)
      BY <1>1
    <2>g. PICK gone \in BOOLEAN :
             item' = [item EXCEPT ![i] = [exists |-> TRUE, active |-> TRUE, expired |-> gone,
                                          onHand |-> q, reserved |-> 0]]
      BY <2>1 DEF AddInventory
    <2> DEFINE new == [exists |-> TRUE, active |-> TRUE, expired |-> gone, onHand |-> q,
                       reserved |-> 0]
    <2>2. new \in ItemRow /\ new.reserved = item[i].reserved /\ new.reserved <= new.onHand
          /\ new.exists
      BY <1>t, <1>r, <2>1 DEF AddInventory, ItemRow, Quantity
    <2>3. item' = [item EXCEPT ![i] = new]
          /\ UNCHANGED <<request, offer, match, available, blocked, event, phase, stats>>
      BY <2>1, <2>g DEF AddInventory
    <2> HIDE DEF new
    <2>4. item' \in [Items -> ItemRow]
      BY <1>t, <2>2, <2>3 DEF TypeOK
    <2> QED
      BY <1>t, <1>r, <2>2, <2>3, <2>4, FrameStock DEF TypeOK
  <1>2. CASE \E i \in Items, q \in Quantity, a \in BOOLEAN : UpdateInventory(i, q, a)
    <2>1. PICK i \in Items, q \in Quantity, a \in BOOLEAN : UpdateInventory(i, q, a)
      BY <1>2
    <2> DEFINE new == [item[i] EXCEPT !.onHand = q, !.active = a]
    <2>2. new \in ItemRow /\ new.reserved = item[i].reserved /\ new.reserved <= new.onHand
          /\ new.exists
      BY <1>r, <2>1 DEF UpdateInventory, ItemRow
    <2>3. item' = [item EXCEPT ![i] = new]
          /\ UNCHANGED <<request, offer, match, available, blocked, event, phase, stats>>
      BY <2>1 DEF UpdateInventory
    <2> HIDE DEF new
    <2>4. item' \in [Items -> ItemRow]
      BY <1>t, <2>2, <2>3 DEF TypeOK
    <2> QED
      BY <1>t, <1>r, <2>2, <2>3, <2>4, FrameStock DEF TypeOK
  <1>3. CASE \E i \in Items : DeleteInventory(i)
    <2>1. PICK i \in Items : DeleteInventory(i)
      BY <1>3
    <2> DEFINE new == IF Referenced(i) THEN [item[i] EXCEPT !.active = FALSE] ELSE AbsentItem
    <2>2. new \in ItemRow /\ new.reserved = item[i].reserved /\ new.reserved <= new.onHand
          /\ ~new.active /\ (~new.exists => new.reserved = 0)
      <3>1. CASE Referenced(i)
        BY <1>r, <3>1 DEF ItemRow
      <3>2. CASE ~Referenced(i)
        BY <1>t, <3>2, UnreferencedHoldsNothing DEF ItemRow, AbsentItem
      <3> QED
        BY <3>1, <3>2
    <2>3. item' = [item EXCEPT ![i] = new]
          /\ UNCHANGED <<request, offer, match, available, blocked, event, phase, stats>>
      BY <2>1 DEF DeleteInventory
    <2> HIDE DEF new
    <2>4. item' \in [Items -> ItemRow]
      BY <1>t, <2>2, <2>3 DEF TypeOK
    <2> QED
      BY <1>t, <1>r, <2>2, <2>3, <2>4, FrameStock DEF TypeOK
  <1>4. CASE \E u \in Users : DeletionCollapsesStock(u)
    <2>1. PICK u \in Users : DeletionCollapsesStock(u)
      BY <1>4
    <2> DEFINE new(i) == IF Owner[i] = u THEN [item[i] EXCEPT !.onHand = item[i].reserved,
                                                              !.active = FALSE]
                         ELSE item[i]
    <2>2. ASSUME NEW i \in Items
          PROVE  /\ new(i) \in ItemRow /\ new(i).reserved = item[i].reserved
                 /\ new(i).reserved <= new(i).onHand
                 /\ ~new(i).exists => new(i).reserved = 0 /\ ~new(i).active
      <3> DEFINE k == item[i].reserved
                 low == [item[i] EXCEPT !.onHand = k, !.active = FALSE]
      <3>1. item[i] \in ItemRow /\ item[i].reserved = k /\ k \in Quantity /\ k \in Nat
        BY <1>r DEF ItemRow
      <3>2. new(i) = IF Owner[i] = u THEN low ELSE item[i]
        OBVIOUS
      <3> HIDE DEF k, new
      <3>3. low \in ItemRow /\ low.reserved = k /\ low.onHand = k /\ ~low.active
            /\ low.exists = item[i].exists
        BY <3>1 DEF ItemRow
      <3> HIDE DEF low
      <3> QED
        BY <1>r, <3>1, <3>2, <3>3
    <2>3. item' = [i \in Items |-> new(i)]
          /\ UNCHANGED <<request, offer, match, available, blocked, event, phase, stats>>
      BY <2>1 DEF DeletionCollapsesStock
    <2> HIDE DEF new
    <2> QED
      BY <2>2, <2>3, FrameStock
  <1>5. CASE \E i \in Items : ItemExpires(i)
    <2>1. PICK i \in Items : ItemExpires(i)
      BY <1>5
    <2> DEFINE new == [item[i] EXCEPT !.expired = TRUE]
    <2>2. new \in ItemRow /\ new.reserved = item[i].reserved /\ new.reserved <= new.onHand
          /\ new.exists
      BY <1>r, <2>1 DEF ItemExpires, ItemRow
    <2>3. item' = [item EXCEPT ![i] = new]
          /\ UNCHANGED <<request, offer, match, available, blocked, event, phase, stats>>
      BY <2>1 DEF ItemExpires
    <2> HIDE DEF new
    <2>4. item' \in [Items -> ItemRow]
      BY <1>t, <2>2, <2>3 DEF TypeOK
    <2> QED
      BY <1>t, <1>r, <2>2, <2>3, <2>4, FrameStock DEF TypeOK
  <1> QED
    BY <1>1, <1>2, <1>3, <1>4, <1>5

LEMMA CloseRequestsTypes ==
    ASSUME TypeOK, NEW R \in SUBSET Requests, NEW to \in RequestStatuses, CloseRequests(R, to)
    PROVE  /\ request' \in [Requests -> RequestRow]
           /\ offer' \in [Pairs -> OfferRow]
           /\ \A p \in Pairs :
                 /\ offer[p].status = "accepted" => offer'[p].status = "accepted"
                 /\ offer'[p].status = "offered" =>
                       offer[p].status = "offered" /\ offer'[p].item = offer[p].item
  <1>1. request' \in [Requests -> RequestRow]
    <2>1. \A r \in Requests : request[r] \in RequestRow
      BY DEF TypeOK
    <2> QED
      BY <2>1 DEF CloseRequests, RequestRow
  <1>2. "superseded" \in OfferStatuses \ {"offered", "none"}
    BY DEF OfferStatuses
  <1> QED
    BY <1>1, <1>2, OfferTypes DEF CloseRequests

\* The steps of helpers' availability, blocks, event moderation, deadlines and
\* retention touch neither matches nor stock.
LEMMA ScheduleKeepsStock ==
    ASSUME StockInv,
           \/ \E p \in Pairs : Block(p)
           \/ \E u \in Users, on \in BOOLEAN : SetAvailability(u, on)
           \/ \E u \in Users : DeletionCancelsRequests(u)
           \/ DisableEvent \/ \E row \in EventRow, to \in Phases : PatchEvent(row, to)
           \/ \E r \in Requests : RequestDeadline(r)
           \/ \E p \in Pairs : OfferDeadline(p)
           \/ EventClock \/ EventStarts \/ EventCompletes \/ EventArchived
           \/ AnonymizeClosed
    PROVE  StockInv'
  <1>t. TypeOK
    BY DEF StockInv
  <1>1. CASE \E p \in Pairs : Block(p)
    <2>1. PICK p \in Pairs : Block(p)
      BY <1>1
    <2>2. blocked' \in SUBSET SUBSET Users
      BY <1>t, <2>1, Ownership DEF Block, TypeOK, Pairs
    <2> QED
      BY <1>t, <2>1, <2>2, FrameRequests DEF Block, TypeOK
  <1>2. CASE \E u \in Users, on \in BOOLEAN : SetAvailability(u, on)
    BY <1>t, <1>2, FrameRequests DEF SetAvailability, TypeOK
  <1>3. CASE \E u \in Users : DeletionCancelsRequests(u)
    <2>1. PICK u \in Users : DeletionCancelsRequests(u)
      BY <1>3
    <2>2. "cancelled" \in RequestStatuses
      BY DEF RequestStatuses
    <2> QED
      BY <1>t, <2>1, <2>2, CloseRequestsTypes, FrameRequests
         DEF DeletionCancelsRequests, TypeOK
  <1>4. CASE DisableEvent
    <2>1. "moderated" \in RequestStatuses
      BY DEF RequestStatuses
    <2>2. event' \in EventRow
      BY <1>t, <1>4 DEF DisableEvent, TypeOK, EventRow, EventStatuses
    <2> QED
      BY <1>t, <1>4, <2>1, <2>2, CloseRequestsTypes, FrameRequests DEF DisableEvent, TypeOK
  <1>5. CASE \E row \in EventRow, to \in Phases : PatchEvent(row, to)
    BY <1>t, <1>5, FrameRequests DEF PatchEvent, TypeOK
  <1>6. CASE \E r \in Requests : RequestDeadline(r)
    <2>1. PICK r \in Requests : RequestDeadline(r)
      BY <1>6
    <2>2. request' \in [Requests -> RequestRow]
      BY <1>t, <2>1 DEF RequestDeadline, TypeOK, RequestRow
    <2> QED
      BY <1>t, <2>1, <2>2, FrameRequests DEF RequestDeadline, TypeOK
  <1>7. CASE \E p \in Pairs : OfferDeadline(p)
    <2>1. PICK p \in Pairs : OfferDeadline(p)
      BY <1>7
    <2>2. offer' \in [Pairs -> OfferRow]
      BY <1>t, <2>1 DEF OfferDeadline, TypeOK, OfferRow
    <2> QED
      BY <1>t, <2>1, <2>2, FrameRequests DEF OfferDeadline, TypeOK, OfferRow
  <1>8. CASE EventClock
    <2>1. phase' \in Phases
      BY <1>t, <1>8 DEF EventClock, TypeOK, Phases
    <2> QED
      BY <1>t, <1>8, <2>1, FrameRequests DEF EventClock, TypeOK
  <1>9. CASE EventStarts \/ EventCompletes \/ EventArchived
    <2>1. event' \in EventRow /\ available' \in [Users -> BOOLEAN]
      BY <1>t, <1>9 DEF EventStarts, EventCompletes, EventArchived, TypeOK, EventRow,
                        EventStatuses
    <2> QED
      BY <1>t, <1>9, <2>1, FrameRequests DEF EventStarts, EventCompletes, EventArchived, TypeOK
  <1>10. CASE AnonymizeClosed
    <2>1. offer' \in [Pairs -> OfferRow]
      BY <1>t, <1>10, Quantities
         DEF AnonymizeClosed, TypeOK, OfferRow, NoOffer, OfferStatuses, Quantity
    <2> QED
      BY <1>t, <1>10, <2>1, FrameRequests DEF AnonymizeClosed, TypeOK, NoOffer
  <1> QED
    BY <1>1, <1>2, <1>3, <1>4, <1>5, <1>6, <1>7, <1>8, <1>9, <1>10

LEMMA NextKeepsStock == StockInv /\ [Next]_vars => StockInv'
  <1> SUFFICES ASSUME StockInv, [Next]_vars PROVE StockInv'
    OBVIOUS
  <1>1. CASE RequesterStep
    <2>1. PICK r \in Requests :
             \/ CreateRequest(r) \/ CancelOpenRequest(r) \/ CancelMatchedRequest(r)
             \/ RenewRequest(r) \/ ContinueRequest(r) \/ StopAfterPartial(r)
      BY <1>1 DEF RequesterStep
    <2>2. CASE CancelMatchedRequest(r)
      <3>1. PICK u \in Users : CancelMatch(<<r, u>>, "requester", FALSE)
        BY <2>2 DEF CancelMatchedRequest
      <3>2. <<r, u>> \in Pairs
        BY DEF Pairs
      <3> QED
        BY <3>1, <3>2, CancelKeepsStock
    <2> QED
      BY <2>1, <2>2, RequesterKeepsStock
  <1>2. CASE HelperStep
    BY <1>2, AcceptKeepsStock, AnswerKeepsStock, ScheduleKeepsStock, StockEditsKeepStock
       DEF HelperStep
  <1>3. CASE MatchStep
    <2>1. PICK p \in Pairs :
             \/ \E side \in Sides, there \in BOOLEAN : SetMeetingState(p, side, there)
             \/ \E side \in Sides, q \in Quantity : ConfirmFirst(p, side, q)
             \/ \E side \in Sides, q \in Quantity : ConfirmSecond(p, side, q)
             \/ \E side \in Sides, unsafe \in BOOLEAN : CancelMatch(p, side, unsafe)
             \/ ModerationCancel(p)
             \/ Block(p)
      BY <1>3 DEF MatchStep
    <2>2. CASE \E side \in Sides, there \in BOOLEAN : SetMeetingState(p, side, there)
      BY <2>2, ChatKeepsStock
    <2>3. CASE \E side \in Sides, q \in Quantity : ConfirmFirst(p, side, q)
      BY <2>3, ConfirmKeepsStock
    <2>4. CASE \E side \in Sides, q \in Quantity : ConfirmSecond(p, side, q)
      BY <2>4, ConfirmKeepsStock
    <2>5. CASE \E side \in Sides, unsafe \in BOOLEAN : CancelMatch(p, side, unsafe)
      BY <2>5, CancelKeepsStock DEF Sides
    <2>6. CASE ModerationCancel(p)
      BY <2>6, CancelKeepsStock DEF ModerationCancel
    <2>7. CASE Block(p)
      BY <2>7, ScheduleKeepsStock
    <2> QED
      BY <2>1, <2>2, <2>3, <2>4, <2>5, <2>6, <2>7
  <1>4. CASE SystemStep
    <2>1. CASE \E r \in Requests : Pass(r)
      BY <2>1, PassKeepsStock
    <2>2. CASE \E p \in Pairs : ExpireOffer(p)
      BY <2>2, AnswerKeepsStock
    <2>3. CASE \E p \in Pairs, side \in Sides : AutoFinalize(p, side)
      <3>1. 0 \in Quantity
        BY Quantities DEF Quantity
      <3> QED
        BY <2>3, <3>1, ConfirmKeepsStock
    <2>4. CASE (\E p \in Pairs : ExpireConversation(p)) \/ PurgeMessages
      BY <2>4, ChatKeepsStock
    <2>5. CASE \/ AnonymizeClosed \/ EventStarts \/ EventCompletes \/ EventArchived
               \/ \E u \in Users : DeletionCancelsRequests(u)
      BY <2>5, ScheduleKeepsStock
    <2>6. CASE \E u \in Users : DeletionCollapsesStock(u)
      BY <2>6, StockEditsKeepStock
    <2> QED
      BY <1>4, <2>1, <2>2, <2>3, <2>4, <2>5, <2>6 DEF SystemStep
  <1>5. CASE AdminStep
    BY <1>5, ScheduleKeepsStock DEF AdminStep
  <1>6. CASE ClockStep
    BY <1>6, ScheduleKeepsStock, StockEditsKeepStock DEF ClockStep
  <1>7. CASE UNCHANGED vars
    BY <1>7 DEF vars, StockInv, TypeOK, ActiveShape, OfferShape, AbsentShape, ReservedIsHeld,
                NeverOverReserved, HeldUnits
  <1> QED
    BY <1>1, <1>2, <1>3, <1>4, <1>5, <1>6, <1>7 DEF Next

\* The strengthened invariant holds in every reachable state of the exchange.
THEOREM StockInvariant == Spec => []StockInv
  <1>1. Init => StockInv
    BY StockInit
  <1>2. StockInv /\ [Next]_vars => StockInv'
    BY NextKeepsStock
  <1> QED
    BY <1>1, <1>2, PTL DEF Spec

\* Every row keeps its type: no legal sequence of transactions drives a stock
\* column below zero or above what was typed in.
THEOREM TypeCorrect == Spec => []TypeOK
  <1>1. StockInv => TypeOK
    BY DEF StockInv
  <1> QED
    BY <1>1, StockInvariant, PTL

\* For any accounts, requests and items: qty_reserved of an item is exactly the
\* sum of what its active matches hold, so accept reserves once and settlement
\* or cancellation releases once, in every order.
THEOREM ReservationsBalance == Spec => []ReservedIsHeld
  <1>1. StockInv => ReservedIsHeld
    BY DEF StockInv
  <1> QED
    BY <1>1, StockInvariant, PTL

\* For any accounts, requests and items: the CHECK qty_reserved <= qty_on_hand
\* of inventory_items never has to reject a transaction.
THEOREM NoOverReservation == Spec => []NeverOverReserved
  <1>1. StockInv => NeverOverReserved
    BY DEF StockInv
  <1> QED
    BY <1>1, StockInvariant, PTL

\* For any accounts, requests and items: reservations balance and are covered, so neither
\* the code's bookkeeping nor the table's CHECK is ever off.
THEOREM StockIsBalanced == Spec => []StockBalances
  <1>1. ReservedIsHeld /\ NeverOverReserved => StockBalances
    BY DEF StockBalances
  <1> QED
    BY <1>1, ReservationsBalance, NoOverReservation, PTL

-----------------------------------------------------------------------------
(* What a step leaves as it was *)

RequestKept(r) ==
    /\ request'[r].status = request[r].status
    /\ request'[r].fulfilled = request[r].fulfilled
    /\ request'[r].closed = request[r].closed
    /\ request[r].status \in {"fulfilled", "moderated"} => request'[r] = request[r]

OfferKept(p) ==
    /\ offer'[p].status = offer[p].status
    /\ offer'[p].item = offer[p].item

\* Meetings and single confirmations belong to an active match, and the chat of
\* any match may be closed.
MatchKept(p) ==
    /\ match'[p].status = match[p].status
    /\ match'[p].item = match[p].item
    /\ match'[p].qty = match[p].qty
    /\ match'[p].grace = match[p].grace
    /\ match'[p].reliabilityApplied = match[p].reliabilityApplied
    /\ match[p].status # "active" => match'[p].confirmed = match[p].confirmed
    /\ \/ match'[p].conversation = match[p].conversation
       \/ /\ match'[p].conversation \in {"readonly", "expired"}
          /\ match[p].status # "none" \/ match[p].conversation # "none"

RequestsKept(R) == \A r \in Requests \ R : RequestKept(r)
OffersKept == \A p \in Pairs : OfferKept(p)
MatchesKept(P) == \A p \in Pairs \ P : MatchKept(p)
StockKept == \A i \in Items : item'[i].onHand = item[i].onHand

\* The requests of R have no open offer any more; every other offer is as it was.
OffersClosed(R) ==
    \A p \in Pairs :
        IF p[1] \in R /\ offer[p].status = "offered"
        THEN offer'[p].status \in {"declined", "expired", "superseded"}
        ELSE OfferKept(p)

-----------------------------------------------------------------------------
(* The kinds of step *)

\* Availability, blocks, stock, meetings, confirmations, chats, deadlines.
Quiet ==
    /\ RequestsKept({}) /\ OffersKept /\ MatchesKept({})
    /\ stats' = stats

\* Retention deletes the offers that no match refers to.
Forgets ==
    /\ RequestsKept({}) /\ MatchesKept({}) /\ StockKept
    /\ \A p \in Pairs : IF match[p].status = "none" THEN offer'[p].status = "none"
                        ELSE OfferKept(p)
    /\ stats' = stats

\* A request is made, renewed or continued.
Reopens(r) ==
    /\ request[r].status \in {"none", "expired", "no_match", "cancelled",
                              "partially_fulfilled"}
    /\ request'[r].status = "searching" /\ ~request'[r].closed
    /\ request'[r].fulfilled = request[r].fulfilled
    /\ RequestsKept({r}) /\ OffersKept /\ MatchesKept({}) /\ StockKept
    /\ stats' = stats

\* Requests without a match are closed, with their offers.
Closes(R, to) ==
    /\ to \in {"fulfilled", "cancelled", "expired", "no_match", "moderated"}
    /\ \A r \in R :
          /\ request[r].status \in {"searching", "offering", "partially_fulfilled"}
          /\ request'[r].status = to /\ request'[r].closed
          /\ request'[r].fulfilled = request[r].fulfilled
    /\ RequestsKept(R) /\ OffersClosed(R) /\ MatchesKept({}) /\ StockKept
    /\ stats' = stats

\* An offer came to nothing, or a pass found nobody: the request searches.
Searches(r) ==
    /\ request[r].status \in {"searching", "offering"}
    /\ request'[r].status = "searching"
    /\ request'[r].fulfilled = request[r].fulfilled
    /\ request'[r].closed = request[r].closed
    /\ RequestsKept({r}) /\ OffersClosed({r}) /\ MatchesKept({}) /\ StockKept
    /\ \/ stats' = stats
       \/ \E p \in Pairs :
             /\ p[1] = r /\ offer[p].status = "offered"
             /\ stats' = [stats EXCEPT ![p[2]].responded = @ + 1]

\* A pass asks the helper of p, who was not asked before.
Offers(p) ==
    LET r == p[1]
    IN  /\ request[r].status \in {"searching", "offering"}
        /\ request'[r].status = "offering"
        /\ request'[r].fulfilled = request[r].fulfilled
        /\ request'[r].closed = request[r].closed
        /\ offer[p].status = "none" /\ offer'[p].status = "offered"
        /\ offer'[p].item \in Items /\ Owner[offer'[p].item] = p[2]
        /\ \A o \in Pairs \ {p} :
              IF o[1] = r /\ offer[o].status = "offered" THEN offer'[o].status = "expired"
              ELSE OfferKept(o)
        /\ RequestsKept({r}) /\ MatchesKept({}) /\ StockKept
        /\ stats' = [stats EXCEPT ![p[2]].received = @ + 1]

\* The open offer p becomes a match that holds q units of item i.
Accepts(p, i, q) ==
    LET r == p[1]
    IN  /\ request[r].status = "offering" /\ request'[r].status = "matched"
        /\ request'[r].fulfilled = request[r].fulfilled
        /\ request'[r].closed = request[r].closed
        /\ offer[p].status = "offered" /\ offer'[p].status = "accepted"
        /\ \A o \in Pairs \ {p} : OfferKept(o)
        /\ i \in Items /\ Owner[i] = p[2]
        /\ q \in 1 .. MaxStock /\ q <= Remaining(r) /\ q <= Free(i)
        /\ match[p].status = "none" /\ match'[p].status = "active"
        /\ match'[p].item = i /\ match'[p].qty = q
        /\ match'[p].conversation = "open"
        /\ ~match'[p].grace /\ ~match'[p].reliabilityApplied
        /\ RequestsKept({r}) /\ MatchesKept({p}) /\ StockKept
        /\ stats' = [stats EXCEPT ![p[2]] =
                        [stats[p[2]] EXCEPT !.accepted = stats[p[2]].accepted + 1,
                                            !.responded = stats[p[2]].responded + 1]]

\* The active match p is settled: `final` units change hands.
Settles(p, confirmed, final, disputed) ==
    LET r == p[1]
        total == request[r].fulfilled + final
        covered == total >= Qty[r]
    IN  /\ match[p].status = "active" /\ final \in 0 .. match[p].qty
        /\ match'[p].status = IF disputed THEN "disputed"
                              ELSE IF covered THEN "completed" ELSE "partially_completed"
        /\ match'[p].qty = match[p].qty
        /\ match'[p].confirmed = confirmed
        /\ SettledQty(p)' = final
        /\ match'[p].grace /\ match'[p].conversation = match[p].conversation
        /\ request[r].status = "matched"
        /\ request'[r].status = IF covered THEN "fulfilled"
                                ELSE IF total > 0 THEN "partially_fulfilled" ELSE "searching"
        /\ request'[r].fulfilled = total
        /\ request'[r].closed = (covered \/ request[r].closed)
        /\ RequestsKept({r}) /\ OffersKept /\ MatchesKept({p})
        /\ \A j \in Items : item'[j].onHand =
               item[j].onHand - IF j = match[p].item THEN final ELSE 0
        /\ stats' = [u \in Users |-> [stats[u] EXCEPT
                        !.completed = @ + One(u = p[2] /\ final > 0),
                        !.confirmed = @ + One(u = p[2] /\ confirmed["requester"] > 0),
                        !.disputes = @ + One(disputed /\ u \in {p[2], Requester[r]})]]

\* The active match p is cancelled, and its request goes where the canceller says.
Cancels(p, actor, unsafe) ==
    LET r == p[1]
        to == [moderator |-> "moderated", requester |-> "cancelled",
               helper |-> "searching"][actor]
        abandoned == Abandoned(actor, unsafe)
        met == match[p].arrived # {}
        s == stats[p[2]]
    IN  /\ match[p].status = "active"
        /\ match'[p].status = IF actor = "moderator" THEN "cancelled_moderation"
                              ELSE IF unsafe THEN "cancelled_unsafe"
                              ELSE IF actor = "requester" THEN "cancelled_by_requester"
                              ELSE "cancelled_by_helper"
        /\ match'[p].grace
        /\ match'[p].conversation = IF CutsChat(actor, unsafe) THEN "readonly"
                                    ELSE match[p].conversation
        /\ request[r].status = "matched" /\ request'[r].status = to
        /\ request'[r].fulfilled = request[r].fulfilled
        /\ request'[r].closed = (actor # "helper" \/ request[r].closed)
        /\ RequestsKept({r}) /\ OffersKept /\ MatchesKept({p}) /\ StockKept
        /\ stats' = [stats EXCEPT ![p[2]] =
               [s EXCEPT !.cancelledPre = s.cancelledPre + One(abandoned /\ ~met),
                         !.cancelledPost = s.cancelledPost + One(abandoned /\ met)]]

Actors == {"requester", "helper", "moderator"}

StepKind ==
    \/ Quiet
    \/ Forgets
    \/ \E r \in Requests : Reopens(r) \/ Searches(r)
    \/ \E R \in SUBSET Requests, to \in RequestStatuses : Closes(R, to)
    \/ \E p \in Pairs : Offers(p)
    \/ \E p \in Pairs, i \in Items, q \in 1 .. MaxStock : Accepts(p, i, q)
    \/ \E p \in Pairs, confirmed \in [Sides -> Quantity \cup {NoQty}], final \in Quantity,
          disputed \in BOOLEAN : Settles(p, confirmed, final, disputed)
    \/ \E p \in Pairs, actor \in Actors, unsafe \in BOOLEAN : Cancels(p, actor, unsafe)

-----------------------------------------------------------------------------
(* The invariant *)

\* A request that was never made has received nothing.
UnmadeShape == \A r \in Requests : request[r].status = "none" => request[r].fulfilled = 0

\* A helper is only asked for goods of their own.
OwnGoods == \A p \in Pairs : offer[p].status = "offered" => Owner[offer[p].item] = p[2]

\* The outcome of an active match has not been counted.
Uncounted == \A p \in Pairs : match[p].status = "active" => ~match[p].reliabilityApplied

StepInv ==
    /\ StockInv /\ UnmadeShape /\ OwnGoods /\ Uncounted
    /\ OneOpenOffer /\ OfferingIsAnswerable
    /\ MatchedHasOneMatch /\ ConversationFollowsMatch

SumInv == FulfilledIsHandedOver /\ NeedRemains /\ ClosedAtOfClosed

-----------------------------------------------------------------------------
(* What the shared updates leave as it was *)

LEMMA NothingTouched ==
    /\ request' = request => \A R : RequestsKept(R)
    /\ offer' = offer => OffersKept
    /\ match' = match => \A P : MatchesKept(P)
    /\ item' = item => StockKept
  <1>1. request' = request => \A R : RequestsKept(R)
    BY DEF RequestsKept, RequestKept
  <1>2. offer' = offer => OffersKept
    BY DEF OffersKept, OfferKept
  <1>3. match' = match => \A P : MatchesKept(P)
    BY DEF MatchesKept, MatchKept
  <1>4. item' = item => StockKept
    BY DEF StockKept
  <1> QED
    BY <1>1, <1>2, <1>3, <1>4

LEMMA MovedKeeps ==
    ASSUME TypeOK, NEW r \in Requests, NEW to, request' = Moved(r, to)
    PROVE  /\ request'[r].status = to
           /\ request'[r].fulfilled = request[r].fulfilled
           /\ request'[r].closed = request[r].closed
           /\ RequestsKept({r})
  BY DEF TypeOK, RequestRow, Moved, RequestsKept, RequestKept

LEMMA ClosingKeeps ==
    ASSUME TypeOK, NEW r \in Requests, NEW to, request' = Closing(r, to)
    PROVE  /\ request'[r].status = to
           /\ request'[r].fulfilled = request[r].fulfilled
           /\ request'[r].closed
           /\ RequestsKept({r})
  BY DEF TypeOK, RequestRow, Closing, RequestsKept, RequestKept

LEMMA ReopenedKeeps ==
    ASSUME TypeOK, NEW r \in Requests, request' = Reopened(r)
    PROVE  /\ request'[r].status = "searching"
           /\ request'[r].fulfilled = request[r].fulfilled
           /\ ~request'[r].closed
           /\ RequestsKept({r})
  BY DEF TypeOK, RequestRow, Reopened, RequestsKept, RequestKept

LEMMA ClosedOffers ==
    ASSUME TypeOK, NEW R, NEW to \in {"declined", "expired", "superseded"},
           offer' = CloseOffers(R, to)
    PROVE  OffersClosed(R)
  BY DEF TypeOK, OfferRow, CloseOffers, OffersClosed, OfferKept

\* Requests that are neither searching nor offering have no open offers to close.
LEMMA NothingToClose ==
    ASSUME OneOpenOffer, NEW r \in Requests, request[r].status # "offering",
           OffersKept
    PROVE  OffersClosed({r})
  <1> SUFFICES ASSUME NEW p \in Pairs, p[1] = r, offer[p].status = "offered"
               PROVE  FALSE
    BY DEF OffersKept, OffersClosed
  <1>1. p \in OpenOffers(r)
    BY DEF OpenOffers
  <1> QED
    BY <1>1 DEF OneOpenOffer

\* The only open offer of a request is closed: it has none.
LEMMA OneOfferClosed ==
    ASSUME TypeOK, OneOpenOffer, NEW p \in Pairs, offer[p].status = "offered",
           NEW to \in {"declined", "expired"}, offer' = [offer EXCEPT ![p].status = to]
    PROVE  OffersClosed({p[1]}) /\ request[p[1]].status = "offering"
  <1>1. p[1] \in Requests /\ p \in OpenOffers(p[1])
    BY DEF OpenOffers, Pairs
  <1>2. ASSUME NEW o \in Pairs, o[1] = p[1], offer[o].status = "offered" PROVE o = p
    <2>1. o \in OpenOffers(p[1])
      BY <1>2 DEF OpenOffers
    <2> QED
      BY <1>1, <2>1 DEF OneOpenOffer
  <1>3. offer'[p].status = to
    BY DEF TypeOK, OfferRow
  <1>4. \A o \in Pairs \ {p} : offer'[o] = offer[o]
    BY DEF TypeOK
  <1> QED
    BY <1>1, <1>2, <1>3, <1>4 DEF OneOpenOffer, OffersClosed, OfferKept

LEMMA SweptClosed ==
    ASSUME TypeOK, OneOpenOffer, NEW r \in Requests, offer' = SweptOffers(r)
    PROVE  OffersClosed({r})
  <1>1. CASE request[r].status = "offering"
    BY <1>1, ClosedOffers DEF SweptOffers
  <1>2. CASE request[r].status # "offering"
    <2>1. OffersKept
      BY <1>2, NothingTouched DEF SweptOffers
    <2> QED
      BY <1>2, <2>1, NothingToClose
  <1> QED
    BY <1>1, <1>2

-----------------------------------------------------------------------------
(* Every step is of one kind *)

LEMMA RequesterKinds ==
    ASSUME StepInv, NEW r \in Requests,
           \/ CreateRequest(r) \/ CancelOpenRequest(r)
           \/ RenewRequest(r) \/ ContinueRequest(r) \/ StopAfterPartial(r)
    PROVE  StepKind
  <1>t. TypeOK /\ OneOpenOffer /\ UnmadeShape
    BY DEF StepInv, StockInv
  <1>s. {"cancelled", "fulfilled"} \subseteq RequestStatuses
    BY DEF RequestStatuses
  <1>1. CASE CreateRequest(r)
    <2>1. /\ request[r].status = "none" /\ request[r].fulfilled = 0
          /\ request' = [request EXCEPT ![r] = [NoRequest EXCEPT !.status = "searching"]]
          /\ UNCHANGED <<offer, match, item, phase, stats>>
      BY <1>1, <1>t DEF CreateRequest, UnmadeShape
    <2>2. request'[r].status = "searching" /\ ~request'[r].closed
          /\ request'[r].fulfilled = request[r].fulfilled
      BY <1>t, <2>1 DEF TypeOK, NoRequest
    <2>3. RequestsKept({r})
      BY <1>t, <2>1 DEF TypeOK, RequestsKept, RequestKept
    <2>4. Reopens(r)
      BY <2>1, <2>2, <2>3, NothingTouched DEF Reopens
    <2> QED
      BY <2>4 DEF StepKind
  <1>2. CASE CancelOpenRequest(r)
    <2>1. /\ request[r].status \in {"searching", "offering"}
          /\ request' = Closing(r, "cancelled")
          /\ offer' = CloseOffers({r}, "superseded")
          /\ UNCHANGED <<match, item, phase, stats>>
      BY <1>2 DEF CancelOpenRequest
    <2>2. OffersClosed({r})
      BY <1>t, <2>1, ClosedOffers
    <2>3. Closes({r}, "cancelled")
      BY <1>t, <2>1, <2>2, ClosingKeeps, NothingTouched DEF Closes
    <2> QED
      BY <1>s, <2>3 DEF StepKind
  <1>3. CASE RenewRequest(r) \/ ContinueRequest(r)
    <2>1. /\ request[r].status \in {"expired", "no_match", "cancelled", "partially_fulfilled"}
          /\ request' = Reopened(r)
          /\ UNCHANGED <<offer, match, item, phase, stats>>
      BY <1>3 DEF RenewRequest, ContinueRequest
    <2>2. Reopens(r)
      BY <1>t, <2>1, ReopenedKeeps, NothingTouched DEF Reopens
    <2> QED
      BY <2>2 DEF StepKind
  <1>4. CASE StopAfterPartial(r)
    <2> DEFINE to == IF request[r].fulfilled > 0 THEN "fulfilled" ELSE "cancelled"
    <2>1. /\ request[r].status = "partially_fulfilled"
          /\ request' = Closing(r, to)
          /\ UNCHANGED <<offer, match, item, phase, stats>>
      BY <1>4 DEF StopAfterPartial
    <2>2. to \in {"fulfilled", "cancelled"}
      OBVIOUS
    <2> HIDE DEF to
    <2>3. OffersClosed({r})
      BY <1>t, <2>1, NothingTouched, NothingToClose
    <2>4. Closes({r}, to)
      BY <1>t, <2>1, <2>2, <2>3, ClosingKeeps, NothingTouched DEF Closes
    <2> QED
      BY <1>s, <2>2, <2>4 DEF StepKind
  <1> QED
    BY <1>1, <1>2, <1>3, <1>4

LEMMA PassKinds ==
    ASSUME StepInv, NEW r \in Requests, Pass(r)
    PROVE  StepKind
  <1>t. TypeOK /\ OneOpenOffer
    BY DEF StepInv, StockInv
  <1>1. CASE PassExpires(r)
    <2> DEFINE to == IF WasAsked(r) THEN "expired" ELSE "no_match"
    <2>1. /\ request[r].status \in {"searching", "offering"}
          /\ request' = Closing(r, to)
          /\ offer' = CloseOffers({r}, "superseded")
          /\ UNCHANGED <<match, item, phase, stats>>
      BY <1>1 DEF PassExpires
    <2>2. to \in {"expired", "no_match"} /\ to \in RequestStatuses
      BY DEF RequestStatuses
    <2> HIDE DEF to
    <2>3. OffersClosed({r})
      BY <1>t, <2>1, ClosedOffers
    <2>4. Closes({r}, to)
      BY <1>t, <2>1, <2>2, <2>3, ClosingKeeps, NothingTouched DEF Closes
    <2> QED
      BY <2>2, <2>4 DEF StepKind
  <1>2. CASE PassOffers(r)
    <2>1. PICK c \in Candidates(r) :
             /\ offer' = [SweptOffers(r) EXCEPT
                             ![<<r, c[1]>>] = [status |-> "offered", late |-> FALSE,
                                               item |-> c[2],
                                               qty |-> Min2(Remaining(r), Free(c[2]))]]
             /\ request' = Moved(r, "offering")
             /\ stats' = [stats EXCEPT ![c[1]].received = @ + 1]
      BY <1>2 DEF PassOffers
    <2> DEFINE p == <<r, c[1]>>
    <2>2. /\ p \in Pairs /\ p[1] = r /\ p[2] = c[1]
          /\ c[2] \in Items /\ Owner[c[2]] = p[2] /\ offer[p].status = "none"
      BY DEF Candidates, Eligible, BestItem, Pairs
    <2>3. /\ request[r].status \in {"searching", "offering"}
          /\ UNCHANGED <<match, item, phase>>
      BY <1>2 DEF PassOffers, PassSearches
    <2> DEFINE swept == SweptOffers(r)
    <2>4. swept \in [Pairs -> OfferRow]
      BY <1>t, SweptTypes
    <2>5. \A o \in Pairs :
             IF o[1] = r /\ offer[o].status = "offered" THEN swept[o].status = "expired"
             ELSE swept[o] = offer[o]
      <3>1. CASE request[r].status = "offering"
        BY <1>t, <3>1 DEF SweptOffers, CloseOffers, TypeOK, OfferRow
      <3>2. CASE request[r].status # "offering"
        <4>1. ASSUME NEW o \in Pairs, o[1] = r, offer[o].status = "offered" PROVE FALSE
          <5>1. o \in OpenOffers(r)
            BY <4>1 DEF OpenOffers
          <5> QED
            BY <1>t, <3>2, <5>1 DEF OneOpenOffer
        <4> QED
          BY <3>2, <4>1 DEF SweptOffers
      <3> QED
        BY <3>1, <3>2
    <2> HIDE DEF swept
    <2>6. /\ offer'[p].status = "offered" /\ offer'[p].item = c[2]
          /\ \A o \in Pairs \ {p} : offer'[o] = swept[o]
      BY <2>1, <2>2, <2>4 DEF swept
    <2>7. \A o \in Pairs \ {p} :
             IF o[1] = r /\ offer[o].status = "offered" THEN offer'[o].status = "expired"
             ELSE OfferKept(o)
      BY <2>5, <2>6 DEF OfferKept
    <2>8. stats' = [stats EXCEPT ![p[2]].received = @ + 1]
      BY <2>1, <2>2
    <2> HIDE DEF p
    <2>9. Offers(p)
      BY <1>t, <2>1, <2>2, <2>3, <2>6, <2>7, <2>8, MovedKeeps, NothingTouched DEF Offers
    <2> QED
      BY <2>2, <2>9 DEF StepKind
  <1>3. CASE PassWidens(r) \/ PassIdles(r)
    <2>1. /\ request[r].status \in {"searching", "offering"}
          /\ offer' = SweptOffers(r)
          /\ UNCHANGED <<match, item, phase, stats>>
      BY <1>3 DEF PassWidens, PassIdles, PassSearches
    <2>2. /\ request'[r].status = "searching"
          /\ request'[r].fulfilled = request[r].fulfilled
          /\ request'[r].closed = request[r].closed
          /\ RequestsKept({r})
      <3>1. CASE PassWidens(r)
        BY <1>t, <3>1 DEF PassWidens, TypeOK, RequestRow, RequestsKept, RequestKept
      <3>2. CASE PassIdles(r)
        BY <1>t, <3>2, MovedKeeps DEF PassIdles
      <3> QED
        BY <1>3, <3>1, <3>2
    <2>3. OffersClosed({r})
      BY <1>t, <2>1, SweptClosed
    <2>4. Searches(r)
      BY <2>1, <2>2, <2>3, NothingTouched DEF Searches
    <2> QED
      BY <2>4 DEF StepKind
  <1> QED
    BY <1>1, <1>2, <1>3 DEF Pass

LEMMA AnswerKinds ==
    ASSUME StepInv, NEW p \in Pairs, NEW stop \in BOOLEAN,
           ExpireOffer(p) \/ DeclineOffer(p, stop) \/ AcceptFindsNothing(p)
    PROVE  StepKind
  <1> DEFINE r == p[1]
  <1>t. TypeOK /\ OneOpenOffer /\ r \in Requests
    BY DEF StepInv, StockInv, Pairs
  <1>1. PICK to \in {"declined", "expired"} :
           offer[p].status = "offered" /\ offer' = [offer EXCEPT ![p].status = to]
    BY DEF ExpireOffer, DeclineOffer, AcceptFindsNothing, MayAccept
  <1>2. OffersClosed({r}) /\ request[r].status = "offering"
    BY <1>t, <1>1, OneOfferClosed
  <1>3. request' = Moved(r, "searching") /\ UNCHANGED <<match, item, phase>>
    BY <1>2 DEF ExpireOffer, DeclineOffer, AcceptFindsNothing, SearchResumes
  <1>4. \/ stats' = stats
        \/ stats' = [stats EXCEPT ![p[2]].responded = @ + 1]
    BY DEF ExpireOffer, DeclineOffer, AcceptFindsNothing
  <1>5. Searches(r)
    BY <1>t, <1>1, <1>2, <1>3, <1>4, MovedKeeps, NothingTouched DEF Searches
  <1> QED
    BY <1>t, <1>5 DEF StepKind

LEMMA AcceptKind ==
    ASSUME StepInv, NEW p \in Pairs, AcceptOffer(p)
    PROVE  StepKind
  <1> DEFINE r == p[1]
             i == offer[p].item
             q == Reservable(p)
             s == stats[p[2]]
             m == [NoMatch EXCEPT !.status = "active", !.item = i, !.qty = q,
                                  !.conversation = "open"]
  <1>t. TypeOK /\ r \in Requests /\ p[2] \in Users
    BY DEF StepInv, StockInv, Pairs
  <1>1. offer[p].status = "offered" /\ request[r].status = "offering"
    BY DEF AcceptOffer, MayAccept
  <1>2. i \in Items /\ Owner[i] = p[2] /\ match[p].status = "none"
    BY <1>1 DEF StepInv, StockInv, OfferShape, OwnGoods, ActiveShape
  <1>3. q \in 1 .. MaxStock /\ q <= Remaining(r) /\ q <= Free(i)
    <2>1. item[i].onHand \in Nat /\ item[i].reserved \in Nat
      BY <1>t, <1>2 DEF TypeOK, ItemRow, Quantity
    <2>2. Qty[r] \in Nat /\ request[r].fulfilled \in Nat
      BY <1>t, Quantities DEF TypeOK, RequestRow
    <2>3. offer[p].qty \in 0 .. MaxStock
      BY <1>t DEF TypeOK, OfferRow, Quantity
    <2> QED
      BY <2>1, <2>2, <2>3, Quantities
         DEF AcceptOffer, Reservable, ReserveQty, Min2, Free, Remaining
  <1>4. /\ item' = [item EXCEPT ![i].reserved = item[i].reserved + q]
        /\ offer' = [offer EXCEPT ![p].status = "accepted"]
        /\ match' = [match EXCEPT ![p] = m]
        /\ request' = Moved(r, "matched")
        /\ stats' = [stats EXCEPT ![p[2]] = [s EXCEPT !.accepted = s.accepted + 1,
                                                       !.responded = s.responded + 1]]
    BY DEF AcceptOffer
  <1> HIDE DEF q
  <1>5. /\ m.status = "active" /\ m.item = i /\ m.qty = q /\ m.conversation = "open"
        /\ ~m.grace /\ ~m.reliabilityApplied
    BY DEF NoMatch
  <1> HIDE DEF m
  <1>6. match'[p] = m /\ MatchesKept({p})
    BY <1>t, <1>4 DEF TypeOK, MatchesKept, MatchKept
  <1>7. offer'[p].status = "accepted" /\ \A o \in Pairs \ {p} : OfferKept(o)
    BY <1>t, <1>4 DEF TypeOK, OfferRow, OfferKept
  <1>8. StockKept
    BY <1>t, <1>4 DEF TypeOK, ItemRow, StockKept
  <1>9. Accepts(p, i, q)
    BY <1>t, <1>1, <1>2, <1>3, <1>4, <1>5, <1>6, <1>7, <1>8, MovedKeeps DEF Accepts
  <1> QED
    BY <1>2, <1>3, <1>9 DEF StepKind

\* The request of an active match is matched, and has no other.
LEMMA ActiveIsMatched ==
    ASSUME MatchedHasOneMatch, NEW p \in Pairs, match[p].status = "active"
    PROVE  /\ p[1] \in Requests /\ request[p[1]].status = "matched"
           /\ \A o \in Pairs : o[1] = p[1] /\ match[o].status = "active" => o = p
  <1> DEFINE active == {o \in Pairs : o[1] = p[1] /\ match[o].status = "active"}
  <1>1. p[1] \in Requests /\ p \in active
    BY DEF Pairs
  <1>2. request[p[1]].status = "matched" /\ \E o \in Pairs : active = {o}
    BY <1>1 DEF MatchedHasOneMatch
  <1> QED
    BY <1>1, <1>2

LEMMA SettleKind ==
    ASSUME StepInv, NEW p \in Pairs, NEW confirmed \in [Sides -> Quantity \cup {NoQty}],
           NEW final \in Quantity, NEW disputed \in BOOLEAN,
           match[p].status = "active", final <= match[p].qty,
           confirmed["requester"] = NoQty => final = confirmed["helper"],
           confirmed["helper"] = NoQty => final = confirmed["requester"],
           confirmed["requester"] # NoQty /\ confirmed["helper"] # NoQty
               => final = Min2(confirmed["requester"], confirmed["helper"]),
           Settle(p, confirmed, final, disputed)
    PROVE  StepKind
  <1> DEFINE r == p[1]
             i == match[p].item
             total == request[r].fulfilled + final
             covered == total >= Qty[r]
             to == IF covered THEN "fulfilled"
                   ELSE IF total > 0 THEN "partially_fulfilled" ELSE "searching"
             outcome == IF disputed THEN "disputed"
                        ELSE IF covered THEN "completed" ELSE "partially_completed"
             m == [match[p] EXCEPT !.status = outcome, !.confirmed = confirmed,
                                   !.inventoryApplied = TRUE, !.reliabilityApplied = TRUE,
                                   !.grace = TRUE]
             closed == covered \/ request[r].closed
             req == [request[r] EXCEPT !.status = to, !.fulfilled = total, !.closed = closed]
             onHand == item[i].onHand - final
             reserved == item[i].reserved - match[p].qty
             row == [item[i] EXCEPT !.onHand = onHand, !.reserved = reserved]
  <1>t. /\ TypeOK /\ r \in Requests /\ p[2] \in Users /\ i \in Items
        /\ ~match[p].inventoryApplied /\ ~match[p].reliabilityApplied
    BY DEF StepInv, StockInv, ActiveShape, Uncounted, Pairs
  <1>f. final \in Nat /\ final \in 0 .. match[p].qty
    BY <1>t, Quantities DEF Quantity, TypeOK, MatchRow
  <1>1. /\ item' = [item EXCEPT ![i] = row]
        /\ match' = [match EXCEPT ![p] = m]
        /\ request' = [request EXCEPT ![r] = req]
        /\ UNCHANGED <<offer, phase>>
    BY <1>t DEF Settle, Released
  <1>2. stats' = [u \in Users |-> [stats[u] EXCEPT
                        !.completed = @ + One(u = p[2] /\ final > 0),
                        !.confirmed = @ + One(u = p[2] /\ confirmed["requester"] > 0),
                        !.disputes = @ + One(disputed /\ u \in {p[2], Requester[r]})]]
    BY <1>t DEF Settle
  <1>3. match[p] \in MatchRow /\ match'[p] = m /\ request'[r] = req
    BY <1>t, <1>1 DEF TypeOK
  <1>4. /\ m.status = outcome /\ m.qty = match[p].qty /\ m.confirmed = confirmed
        /\ m.grace /\ m.conversation = match[p].conversation
    BY <1>3 DEF MatchRow
  <1>5. request[r] \in RequestRow
    BY <1>t DEF TypeOK
  <1>6. req.status = to /\ req.fulfilled = total /\ req.closed = closed
    BY <1>5 DEF RequestRow
  <1> HIDE DEF m, req
  <1>7. SettledQty(p)' = final
    <2>1. match'[p].confirmed = confirmed
      BY <1>3, <1>4
    <2> QED
      BY <2>1 DEF SettledQty
  <1>8. RequestsKept({r}) /\ MatchesKept({p})
    BY <1>t, <1>1 DEF TypeOK, RequestsKept, RequestKept, MatchesKept, MatchKept
  <1>9. \A j \in Items : item'[j].onHand = item[j].onHand - IF j = i THEN final ELSE 0
    <2>1. \A j \in Items : item[j] \in ItemRow /\ item[j].onHand \in Int
      BY <1>t DEF TypeOK, ItemRow, Quantity
    <2>2. item'[i] = row /\ \A j \in Items \ {i} : item'[j] = item[j]
      BY <1>t, <1>1 DEF TypeOK
    <2>3. row.onHand = onHand
      BY <1>t, <2>1 DEF ItemRow
    <2> HIDE DEF row
    <2> QED
      BY <1>t, <1>f, <2>1, <2>2, <2>3
  <1>10. request[r].status = "matched"
    BY ActiveIsMatched DEF StepInv
  <1>11. /\ match'[p].status = outcome /\ match'[p].qty = match[p].qty
         /\ match'[p].confirmed = confirmed /\ match'[p].grace
         /\ match'[p].conversation = match[p].conversation
    BY <1>3, <1>4
  <1>12. request'[r].status = to /\ request'[r].fulfilled = total
         /\ request'[r].closed = closed
    BY <1>3, <1>6
  <1>13. Settles(p, confirmed, final, disputed)
    BY <1>f, <1>1, <1>2, <1>7, <1>8, <1>9, <1>10, <1>11, <1>12, NothingTouched DEF Settles
  <1> QED
    BY <1>13 DEF StepKind

LEMMA ConfirmKinds ==
    ASSUME StepInv, NEW p \in Pairs, NEW side \in Sides, NEW q \in Quantity,
           ConfirmFirst(p, side, q) \/ ConfirmSecond(p, side, q) \/ AutoFinalize(p, side)
    PROVE  StepKind
  <1>t. /\ TypeOK /\ q \in Nat /\ Peer(side) \in Sides /\ Peer(side) # side
        /\ Sides = {side, Peer(side)}
        /\ match[p].confirmed \in [Sides -> Quantity \cup {NoQty}]
    BY Quantities DEF StepInv, StockInv, TypeOK, MatchRow, Peer, Sides, Quantity
  <1>a. match[p].status = "active"
    BY DEF ConfirmFirst, ConfirmSecond, MayConfirm, AutoFinalize, IsActive
  <1>b. \A s \in Sides : match[p].confirmed[s] <= match[p].qty
    BY <1>a DEF StepInv, StockInv, ActiveShape
  <1>n. \A x \in Quantity : x \in Nat /\ x # NoQty
    BY Quantities DEF Quantity, NoQty
  <1>1. CASE ConfirmFirst(p, side, q)
    <2>1. /\ match' = [match EXCEPT ![p].confirmed[side] = q]
          /\ UNCHANGED <<request, offer, phase, stats>>
      BY <1>1 DEF ConfirmFirst
    <2>2. MatchesKept({})
      BY <1>t, <1>a, <2>1 DEF TypeOK, MatchRow, MatchesKept, MatchKept
    <2>3. Quiet
      BY <2>1, <2>2, NothingTouched DEF Quiet
    <2> QED
      BY <2>3 DEF StepKind
  <1>2. CASE ConfirmSecond(p, side, q)
    <2> DEFINE c == [match[p].confirmed EXCEPT ![side] = q]
               other == match[p].confirmed[Peer(side)]
               final == FinalQty(q, other)
    <2>1. c \in [Sides -> Quantity \cup {NoQty}] /\ c[side] = q /\ c[Peer(side)] = other
      BY <1>t
    <2>2. other \in Quantity /\ other # NoQty
      BY <1>2, <1>t DEF ConfirmSecond
    <2>3. final \in Quantity /\ final <= match[p].qty
      BY <1>2, <1>t, <1>b, <1>n, <2>2 DEF ConfirmSecond, MayConfirm, FinalQty, Min2
    <2>4. c["requester"] # NoQty /\ c["helper"] # NoQty
          /\ final = Min2(c["requester"], c["helper"])
      BY <1>t, <1>n, <2>1, <2>2 DEF FinalQty, Min2, Peer, Sides
    <2>5. Settle(p, c, final, q # other)
      BY <1>2 DEF ConfirmSecond
    <2> HIDE DEF c, final
    <2> QED
      BY <1>a, <2>1, <2>3, <2>4, <2>5, SettleKind
  <1>3. CASE AutoFinalize(p, side)
    <2> DEFINE c == match[p].confirmed
    <2>1. c[side] \in Quantity /\ c[side] <= match[p].qty /\ c[side] # NoQty
          /\ c[Peer(side)] = NoQty
      BY <1>3, <1>t, <1>b DEF AutoFinalize
    <2>2. /\ c["requester"] = NoQty => c[side] = c["helper"]
          /\ c["helper"] = NoQty => c[side] = c["requester"]
          /\ c["requester"] = NoQty \/ c["helper"] = NoQty
      BY <2>1 DEF Peer, Sides
    <2>3. Settle(p, c, c[side], FALSE)
      BY <1>3 DEF AutoFinalize
    <2> HIDE DEF c
    <2>4. c \in [Sides -> Quantity \cup {NoQty}]
      BY <1>t DEF c
    <2> QED
      BY <1>a, <2>1, <2>2, <2>3, <2>4, SettleKind
  <1> QED
    BY <1>1, <1>2, <1>3

LEMMA CancelKind ==
    ASSUME StepInv, NEW p \in Pairs, NEW actor \in Actors, NEW unsafe \in BOOLEAN,
           CancelMatch(p, actor, unsafe)
    PROVE  StepKind
  <1> DEFINE r == p[1]
             i == match[p].item
             to == [moderator |-> "moderated", requester |-> "cancelled",
                    helper |-> "searching"][actor]
             outcome == IF actor = "moderator" THEN "cancelled_moderation"
                        ELSE IF unsafe THEN "cancelled_unsafe"
                        ELSE IF actor = "requester" THEN "cancelled_by_requester"
                        ELSE "cancelled_by_helper"
             chat == IF CutsChat(actor, unsafe) THEN "readonly"
                     ELSE match[p].conversation
             m == [match[p] EXCEPT !.status = outcome, !.inventoryApplied = TRUE,
                                   !.grace = TRUE, !.conversation = chat]
             s == stats[p[2]]
             met == match[p].arrived # {}
             abandoned == Abandoned(actor, unsafe)
             count == [s EXCEPT !.cancelledPre = s.cancelledPre + One(abandoned /\ ~met),
                                !.cancelledPost = s.cancelledPost + One(abandoned /\ met)]
  <1>a. match[p].status = "active"
    BY DEF CancelMatch, IsActive
  <1>t. /\ TypeOK /\ r \in Requests /\ p[2] \in Users /\ i \in Items
        /\ ~match[p].inventoryApplied
    BY <1>a DEF StepInv, StockInv, ActiveShape, Pairs
  <1>1. /\ item' = [item EXCEPT ![i] = [@ EXCEPT !.onHand = item[i].onHand - 0,
                                                 !.reserved = item[i].reserved - match[p].qty]]
        /\ match' = [match EXCEPT ![p] = m]
        /\ request' = IF actor = "helper" THEN Moved(r, to) ELSE Closing(r, to)
        /\ stats' = [stats EXCEPT ![p[2]] = count]
        /\ UNCHANGED <<offer, phase>>
    BY <1>t DEF CancelMatch, Released
  <1>2. match[p] \in MatchRow /\ match'[p] = m
    BY <1>t, <1>1 DEF TypeOK
  <1>3. m.status = outcome /\ m.grace /\ m.conversation = chat
    BY <1>2 DEF MatchRow
  <1>4. MatchesKept({p})
    BY <1>t, <1>1 DEF TypeOK, MatchesKept, MatchKept
  <1> HIDE DEF m
  <1>5. StockKept
    <2>1. \A j \in Items : item[j] \in ItemRow /\ item[j].onHand \in Int
      BY <1>t DEF TypeOK, ItemRow, Quantity
    <2> QED
      BY <1>t, <1>1, <2>1 DEF TypeOK, ItemRow, StockKept
  <1>6. request[r].status = "matched"
    BY <1>a, ActiveIsMatched DEF StepInv
  <1>7. /\ request'[r].status = to
        /\ request'[r].fulfilled = request[r].fulfilled
        /\ request'[r].closed = (actor # "helper" \/ request[r].closed)
        /\ RequestsKept({r})
    <2> HIDE DEF to
    <2>2. CASE actor = "helper"
      <3>1. request' = Moved(r, to)
        BY <1>1, <2>2
      <3> QED
        BY <1>t, <2>2, <3>1, MovedKeeps DEF TypeOK, RequestRow
    <2>3. CASE actor # "helper"
      <3>1. request' = Closing(r, to)
        BY <1>1, <2>3
      <3>2. request'[r].closed = TRUE
        BY <1>t, <3>1 DEF Closing, TypeOK, RequestRow
      <3> QED
        BY <1>t, <2>3, <3>1, <3>2, ClosingKeeps
    <2> QED
      BY <2>2, <2>3
  <1>8. OffersKept /\ phase' = phase
    BY <1>1, NothingTouched
  <1>9. Cancels(p, actor, unsafe)
    BY <1>a, <1>1, <1>2, <1>3, <1>4, <1>5, <1>6, <1>7, <1>8 DEF Cancels
  <1> QED
    BY <1>9 DEF StepKind

LEMMA ChatKinds ==
    ASSUME StepInv,
           \/ \E p \in Pairs, side \in Sides, there \in BOOLEAN : SetMeetingState(p, side, there)
           \/ \E p \in Pairs : ExpireConversation(p)
           \/ PurgeMessages
    PROVE  StepKind
  <1>t. TypeOK
    BY DEF StepInv, StockInv
  <1>1. UNCHANGED <<request, offer, phase, stats>>
    BY DEF SetMeetingState, ExpireConversation, PurgeMessages
  <1>2. MatchesKept({})
    <2>1. CASE \E p \in Pairs, side \in Sides, there \in BOOLEAN : SetMeetingState(p, side, there)
      BY <1>t, <2>1 DEF SetMeetingState, IsActive, TypeOK, MatchRow, MatchesKept, MatchKept
    <2>2. CASE \E p \in Pairs : ExpireConversation(p)
      BY <1>t, <2>2 DEF ExpireConversation, TypeOK, MatchRow, MatchesKept, MatchKept
    <2>3. CASE PurgeMessages
      BY <1>t, <2>3 DEF PurgeMessages, TypeOK, MatchRow, MatchesKept, MatchKept
    <2> QED
      BY <2>1, <2>2, <2>3
  <1>3. Quiet
    BY <1>1, <1>2, NothingTouched DEF Quiet
  <1> QED
    BY <1>3 DEF StepKind

LEMMA CloseRequestsKind ==
    ASSUME StepInv, NEW R \in SUBSET Requests, NEW to \in {"cancelled", "moderated"},
           CloseRequests(R, to), UNCHANGED <<match, item, phase, stats>>
    PROVE  StepKind
  <1> DEFINE Q == OpenRequests(R)
  <1>t. TypeOK
    BY DEF StepInv, StockInv
  <1>1. /\ Q \in SUBSET Requests
        /\ \A r \in Q : request[r].status \in {"searching", "offering"}
    BY DEF OpenRequests
  <1>2. /\ request' = [r \in Requests |-> IF r \in Q
                                          THEN [request[r] EXCEPT !.status = to, !.closed = TRUE]
                                          ELSE request[r]]
        /\ offer' = CloseOffers(Q, "superseded")
    BY DEF CloseRequests
  <1> HIDE DEF Q
  <1>3. /\ \A r \in Q : /\ request'[r].status = to /\ request'[r].closed
                        /\ request'[r].fulfilled = request[r].fulfilled
        /\ RequestsKept(Q)
    <2>1. \A r \in Requests : request[r] \in RequestRow
      BY <1>t DEF TypeOK
    <2>2. ASSUME NEW r \in Q
          PROVE  /\ request'[r].status = to /\ request'[r].closed
                 /\ request'[r].fulfilled = request[r].fulfilled
      <3>1. request'[r] = [request[r] EXCEPT !.status = to, !.closed = TRUE]
        BY <1>1, <1>2
      <3> QED
        BY <1>1, <2>1, <3>1 DEF RequestRow
    <2>3. \A r \in Requests \ Q : request'[r] = request[r]
      BY <1>2
    <2>4. RequestsKept(Q)
      BY <2>3 DEF RequestsKept, RequestKept
    <2> QED
      BY <2>2, <2>4
  <1>4. OffersClosed(Q)
    BY <1>t, <1>2, ClosedOffers
  <1>5. Closes(Q, to)
    BY <1>1, <1>3, <1>4, NothingTouched DEF Closes
  <1> QED
    BY <1>1, <1>5 DEF StepKind, RequestStatuses

LEMMA ScheduleKinds ==
    ASSUME StepInv,
           \/ \E p \in Pairs : Block(p)
           \/ \E u \in Users, on \in BOOLEAN : SetAvailability(u, on)
           \/ \E u \in Users : DeletionCancelsRequests(u)
           \/ DisableEvent \/ \E row \in EventRow, to \in Phases : PatchEvent(row, to)
           \/ \E r \in Requests : RequestDeadline(r)
           \/ \E p \in Pairs : OfferDeadline(p)
           \/ EventClock \/ EventStarts \/ EventCompletes \/ EventArchived
           \/ AnonymizeClosed
           \/ \E i \in Items, q \in Quantity : AddInventory(i, q)
           \/ \E i \in Items, q \in Quantity, a \in BOOLEAN : UpdateInventory(i, q, a)
           \/ \E i \in Items : DeleteInventory(i)
           \/ \E i \in Items : ItemExpires(i)
           \/ \E u \in Users : DeletionCollapsesStock(u)
    PROVE  StepKind
  <1>t. TypeOK
    BY DEF StepInv, StockInv
  <1>1. CASE \/ \E p \in Pairs : Block(p)
             \/ \E u \in Users, on \in BOOLEAN : SetAvailability(u, on)
             \/ \E row \in EventRow, to \in Phases : PatchEvent(row, to)
             \/ EventClock \/ EventStarts \/ EventCompletes \/ EventArchived
             \/ \E i \in Items : ItemExpires(i)
             \/ \E i \in Items, q \in Quantity : AddInventory(i, q)
             \/ \E i \in Items, q \in Quantity, a \in BOOLEAN : UpdateInventory(i, q, a)
             \/ \E i \in Items : DeleteInventory(i)
             \/ \E u \in Users : DeletionCollapsesStock(u)
    <2>1. UNCHANGED <<request, offer, match, stats>>
      BY <1>1 DEF Block, SetAvailability, PatchEvent, EventClock, EventStarts, EventCompletes,
                  EventArchived, AddInventory, UpdateInventory, DeleteInventory, ItemExpires,
                  DeletionCollapsesStock
    <2>2. Quiet
      BY <2>1, NothingTouched DEF Quiet
    <2> QED
      BY <2>2 DEF StepKind
  <1>2. CASE \E u \in Users : DeletionCancelsRequests(u)
    BY <1>2, CloseRequestsKind DEF DeletionCancelsRequests
  <1>3. CASE DisableEvent
    BY <1>3, CloseRequestsKind DEF DisableEvent
  <1>4. CASE \E r \in Requests : RequestDeadline(r)
    <2>1. UNCHANGED <<offer, match, phase, stats>>
      BY <1>4 DEF RequestDeadline
    <2>2. RequestsKept({})
      BY <1>t, <1>4 DEF RequestDeadline, TypeOK, RequestRow, RequestsKept, RequestKept
    <2>3. Quiet
      BY <2>1, <2>2, NothingTouched DEF Quiet
    <2> QED
      BY <2>3 DEF StepKind
  <1>5. CASE \E p \in Pairs : OfferDeadline(p)
    <2>1. UNCHANGED <<request, match, phase, stats>>
      BY <1>5 DEF OfferDeadline
    <2>2. OffersKept
      BY <1>t, <1>5 DEF OfferDeadline, TypeOK, OfferRow, OffersKept, OfferKept
    <2>3. Quiet
      BY <2>1, <2>2, NothingTouched DEF Quiet
    <2> QED
      BY <2>3 DEF StepKind
  <1>7. CASE AnonymizeClosed
    <2>1. UNCHANGED <<request, match, item, stats>>
      BY <1>7 DEF AnonymizeClosed
    <2>2. \A p \in Pairs : IF match[p].status = "none" THEN offer'[p].status = "none"
                           ELSE OfferKept(p)
      BY <1>7 DEF AnonymizeClosed, NoOffer, OfferKept
    <2>3. Forgets
      BY <2>1, <2>2, NothingTouched DEF Forgets
    <2> QED
      BY <2>3 DEF StepKind
  <1> QED
    BY <1>1, <1>2, <1>3, <1>4, <1>5, <1>7

\* Every transaction of the exchange is of one of the nine kinds.
LEMMA NextKinds == StepInv /\ [Next]_vars => StepKind
  <1> SUFFICES ASSUME StepInv, [Next]_vars PROVE StepKind
    OBVIOUS
  <1>1. CASE RequesterStep
    <2>1. PICK r \in Requests :
             \/ CreateRequest(r) \/ CancelOpenRequest(r) \/ CancelMatchedRequest(r)
             \/ RenewRequest(r) \/ ContinueRequest(r) \/ StopAfterPartial(r)
      BY <1>1 DEF RequesterStep
    <2>2. CASE CancelMatchedRequest(r)
      <3>1. PICK u \in Users : CancelMatch(<<r, u>>, "requester", FALSE)
        BY <2>2 DEF CancelMatchedRequest
      <3>2. <<r, u>> \in Pairs
        BY DEF Pairs
      <3> QED
        BY <3>1, <3>2, CancelKind DEF Actors
    <2> QED
      BY <2>1, <2>2, RequesterKinds
  <1>2. CASE HelperStep
    BY <1>2, AcceptKind, AnswerKinds, ScheduleKinds DEF HelperStep
  <1>3. CASE MatchStep
    <2>1. PICK p \in Pairs :
             \/ \E side \in Sides, there \in BOOLEAN : SetMeetingState(p, side, there)
             \/ \E side \in Sides, q \in Quantity : ConfirmFirst(p, side, q)
             \/ \E side \in Sides, q \in Quantity : ConfirmSecond(p, side, q)
             \/ \E side \in Sides, unsafe \in BOOLEAN : CancelMatch(p, side, unsafe)
             \/ ModerationCancel(p)
             \/ Block(p)
      BY <1>3 DEF MatchStep
    <2>2. CASE \E side \in Sides, there \in BOOLEAN : SetMeetingState(p, side, there)
      BY <2>2, ChatKinds
    <2>3. CASE \E side \in Sides, q \in Quantity :
                  ConfirmFirst(p, side, q) \/ ConfirmSecond(p, side, q)
      BY <2>3, ConfirmKinds
    <2>4. CASE \E side \in Sides, unsafe \in BOOLEAN : CancelMatch(p, side, unsafe)
      BY <2>4, CancelKind DEF Sides, Actors
    <2>5. CASE ModerationCancel(p)
      BY <2>5, CancelKind DEF ModerationCancel, Actors
    <2>6. CASE Block(p)
      BY <2>6, ScheduleKinds
    <2> QED
      BY <2>1, <2>2, <2>3, <2>4, <2>5, <2>6
  <1>4. CASE SystemStep
    <2>1. CASE \E r \in Requests : Pass(r)
      BY <2>1, PassKinds
    <2>2. CASE \E p \in Pairs : ExpireOffer(p)
      BY <2>2, AnswerKinds
    <2>3. CASE \E p \in Pairs, side \in Sides : AutoFinalize(p, side)
      <3>1. 0 \in Quantity
        BY Quantities DEF Quantity
      <3> QED
        BY <2>3, <3>1, ConfirmKinds
    <2>4. CASE (\E p \in Pairs : ExpireConversation(p)) \/ PurgeMessages
      BY <2>4, ChatKinds
    <2>5. CASE \/ AnonymizeClosed \/ EventStarts \/ EventCompletes \/ EventArchived
               \/ \E u \in Users : DeletionCancelsRequests(u) \/ DeletionCollapsesStock(u)
      BY <2>5, ScheduleKinds
    <2> QED
      BY <1>4, <2>1, <2>2, <2>3, <2>4, <2>5 DEF SystemStep
  <1>5. CASE AdminStep
    BY <1>5, ScheduleKinds DEF AdminStep
  <1>6. CASE ClockStep
    BY <1>6, ScheduleKinds DEF ClockStep
  <1>7. CASE UNCHANGED vars
    <2>1. UNCHANGED <<request, offer, match, phase, stats>>
      BY <1>7 DEF vars
    <2>2. Quiet
      BY <2>1, NothingTouched DEF Quiet
    <2> QED
      BY <2>2 DEF StepKind
  <1> QED
    BY <1>1, <1>2, <1>3, <1>4, <1>5, <1>6, <1>7 DEF Next

-----------------------------------------------------------------------------
(* Each kind keeps the tables in step *)

\* OneOpenOffer, offer by offer.
OpenShape ==
    /\ \A p \in Pairs : offer[p].status = "offered" => request[p[1]].status = "offering"
    /\ \A p, o \in Pairs : p[1] = o[1] /\ offer[p].status = "offered"
                           /\ offer[o].status = "offered" => p = o

LEMMA OpenIsShape == OneOpenOffer <=> OpenShape
  <1>1. \A p \in Pairs : p[1] \in Requests
    BY DEF Pairs
  <1> QED
    BY <1>1 DEF OneOpenOffer, OpenShape, OpenOffers

\* MatchedHasOneMatch, match by match.
MatchedShape ==
    /\ \A p \in Pairs : match[p].status = "active" => request[p[1]].status = "matched"
    /\ \A p, o \in Pairs : p[1] = o[1] /\ match[p].status = "active"
                           /\ match[o].status = "active" => p = o
    /\ \A r \in Requests : request[r].status = "matched" =>
          \E p \in Pairs : p[1] = r /\ match[p].status = "active"

LEMMA MatchedIsShape == MatchedHasOneMatch <=> MatchedShape
  <1> DEFINE active(r) == {p \in Pairs : p[1] = r /\ match[p].status = "active"}
  <1>1. \A p \in Pairs : p[1] \in Requests
    BY DEF Pairs
  <1>2. ASSUME MatchedHasOneMatch PROVE MatchedShape
    <2>1. \A p \in Pairs : match[p].status = "active" =>
             /\ request[p[1]].status = "matched"
             /\ \A o \in Pairs : o[1] = p[1] /\ match[o].status = "active" => o = p
      BY <1>2, ActiveIsMatched
    <2>2. \A r \in Requests : request[r].status = "matched" =>
             \E p \in Pairs : p[1] = r /\ match[p].status = "active"
      <3>1. \A r \in Requests : request[r].status = "matched" =>
               \E p \in Pairs : active(r) = {p}
        BY <1>2 DEF MatchedHasOneMatch
      <3> QED
        BY <3>1
    <2> QED
      BY <2>1, <2>2 DEF MatchedShape
  <1>3. ASSUME MatchedShape, NEW r \in Requests
        PROVE  IF request[r].status = "matched" THEN \E p \in Pairs : active(r) = {p}
               ELSE active(r) = {}
    <2>1. CASE request[r].status = "matched"
      <3>1. PICK p \in Pairs : p[1] = r /\ match[p].status = "active"
        BY <1>3, <2>1 DEF MatchedShape
      <3>2. active(r) = {p}
        BY <1>3, <3>1 DEF MatchedShape
      <3> QED
        BY <2>1, <3>2
    <2>2. CASE request[r].status # "matched"
      BY <1>3, <2>2 DEF MatchedShape
    <2> QED
      BY <2>1, <2>2
  <1> QED
    BY <1>2, <1>3 DEF MatchedHasOneMatch

\* The active match p is settled or cancelled.
MatchEnds(p) ==
    /\ match[p].status = "active"
    /\ match'[p].status \in SettledStatuses \cup CancelledStatuses
    /\ request[p[1]].status = "matched"
    /\ request'[p[1]].status \notin {"none", "offering", "matched"}
    /\ match'[p].grace
    /\ \/ match'[p].conversation = match[p].conversation
             /\ match'[p].status \notin {"cancelled_unsafe", "cancelled_moderation"}
       \/ match'[p].conversation = "readonly"
    /\ RequestsKept({p[1]}) /\ OffersKept /\ MatchesKept({p})

LEMMA Endings ==
    ASSUME \/ \E p \in Pairs, confirmed \in [Sides -> Quantity \cup {NoQty}], final \in Quantity,
                 disputed \in BOOLEAN : Settles(p, confirmed, final, disputed)
           \/ \E p \in Pairs, actor \in Actors, unsafe \in BOOLEAN : Cancels(p, actor, unsafe)
    PROVE  \E p \in Pairs : MatchEnds(p)
  <1>1. ASSUME NEW p \in Pairs, NEW confirmed, NEW final, NEW disputed,
               Settles(p, confirmed, final, disputed)
        PROVE  MatchEnds(p)
    <2>1. match'[p].status \in SettledStatuses
      BY <1>1 DEF Settles, SettledStatuses
    <2>2. request'[p[1]].status \in {"fulfilled", "partially_fulfilled", "searching"}
      BY <1>1 DEF Settles
    <2>3. match'[p].status \notin {"cancelled_unsafe", "cancelled_moderation"}
      BY <2>1 DEF SettledStatuses
    <2> QED
      BY <1>1, <2>1, <2>2, <2>3 DEF Settles, MatchEnds
  <1>2. ASSUME NEW p \in Pairs, NEW actor \in Actors, NEW unsafe \in BOOLEAN,
               Cancels(p, actor, unsafe)
        PROVE  MatchEnds(p)
    <2>1. match'[p].status \in CancelledStatuses
      BY <1>2 DEF Cancels, CancelledStatuses
    <2>2. request'[p[1]].status \in {"moderated", "cancelled", "searching"}
      <3>1. request'[p[1]].status = [moderator |-> "moderated", requester |-> "cancelled",
                                     helper |-> "searching"][actor]
        BY <1>2 DEF Cancels
      <3> QED
        BY <3>1 DEF Actors
    <2>3. \/ match'[p].conversation = match[p].conversation
                /\ match'[p].status \notin {"cancelled_unsafe", "cancelled_moderation"}
          \/ match'[p].conversation = "readonly"
      BY <1>2 DEF Cancels, CutsChat
    <2> QED
      BY <1>2, <2>1, <2>2, <2>3 DEF Cancels, MatchEnds
  <1> QED
    BY <1>1, <1>2

LEMMA OpenShapeKept == StepInv /\ StepKind => OpenShape'
  <1> SUFFICES ASSUME StepInv, StepKind PROVE OpenShape'
    OBVIOUS
  <1>o. OpenShape
    BY OpenIsShape DEF StepInv
  <1>p. \A p \in Pairs : p[1] \in Requests
    BY DEF Pairs
  <1>1. CASE Quiet \/ Forgets
    <2>1. \A r \in Requests : request'[r].status = request[r].status
      BY <1>1 DEF Quiet, Forgets, RequestsKept, RequestKept
    <2>2. \A p \in Pairs : offer'[p].status = "offered" => offer[p].status = "offered"
      BY <1>1 DEF Quiet, Forgets, OffersKept, OfferKept
    <2> QED
      BY <1>o, <1>p, <2>1, <2>2 DEF OpenShape
  <1>2. ASSUME NEW r \in Requests, Reopens(r) PROVE OpenShape'
    <2>1. \A x \in Requests \ {r} : request'[x].status = request[x].status
      BY <1>2 DEF Reopens, RequestsKept, RequestKept
    <2>2. \A p \in Pairs : offer'[p].status = offer[p].status
      BY <1>2 DEF Reopens, OffersKept, OfferKept
    <2>3. request[r].status # "offering"
      BY <1>2 DEF Reopens
    <2> QED
      BY <1>o, <1>p, <2>1, <2>2, <2>3 DEF OpenShape
  <1>3. ASSUME NEW R \in SUBSET Requests, OffersClosed(R), RequestsKept(R) PROVE OpenShape'
    <2>1. \A x \in Requests \ R : request'[x].status = request[x].status
      BY <1>3 DEF RequestsKept, RequestKept
    <2>2. \A p \in Pairs : offer'[p].status = "offered" => offer[p].status = "offered" /\ p[1] \notin R
      BY <1>3 DEF OffersClosed, OfferKept
    <2> QED
      BY <1>o, <1>p, <2>1, <2>2 DEF OpenShape
  <1>4. CASE \/ \E r \in Requests : Searches(r)
             \/ \E R \in SUBSET Requests, to \in RequestStatuses : Closes(R, to)
    <2>1. \A r \in Requests : {r} \in SUBSET Requests
      OBVIOUS
    <2> QED
      BY <1>3, <1>4, <2>1 DEF Searches, Closes
  <1>5. ASSUME NEW p \in Pairs, Offers(p) PROVE OpenShape'
    <2>1. \A x \in Requests \ {p[1]} : request'[x].status = request[x].status
      BY <1>5 DEF Offers, RequestsKept, RequestKept
    <2>2. \A o \in Pairs \ {p} : offer'[o].status = "offered" =>
             offer[o].status = "offered" /\ o[1] # p[1]
      BY <1>5 DEF Offers, OfferKept
    <2>3. request'[p[1]].status = "offering"
      BY <1>5 DEF Offers
    <2> QED
      BY <1>o, <1>p, <2>1, <2>2, <2>3 DEF OpenShape
  <1>6. ASSUME NEW p \in Pairs, NEW i, NEW q, Accepts(p, i, q) PROVE OpenShape'
    <2>1. \A x \in Requests \ {p[1]} : request'[x].status = request[x].status
      BY <1>6 DEF Accepts, RequestsKept, RequestKept
    <2>2. \A o \in Pairs : offer'[o].status = "offered" => offer[o].status = "offered" /\ o # p
      BY <1>6 DEF Accepts, OfferKept
    <2>3. offer[p].status = "offered"
      BY <1>6 DEF Accepts
    <2> QED
      BY <1>o, <1>p, <2>1, <2>2, <2>3 DEF OpenShape
  <1>7. ASSUME NEW p \in Pairs, MatchEnds(p) PROVE OpenShape'
    <2>1. \A x \in Requests \ {p[1]} : request'[x].status = request[x].status
      BY <1>7 DEF MatchEnds, RequestsKept, RequestKept
    <2>2. \A o \in Pairs : offer'[o].status = offer[o].status
      BY <1>7 DEF MatchEnds, OffersKept, OfferKept
    <2>3. request[p[1]].status = "matched"
      BY <1>7 DEF MatchEnds
    <2> QED
      BY <1>o, <1>p, <2>1, <2>2, <2>3 DEF OpenShape
  <1> QED
    BY <1>1, <1>2, <1>4, <1>5, <1>6, <1>7, Endings DEF StepKind

LEMMA AnswerableKept == StepInv /\ StepKind => OfferingIsAnswerable'
  <1> DEFINE Has(r) == \E p \in Pairs : p[1] = r /\ offer[p].status = "offered"
             Gone(r) == \A p \in Pairs : p[1] = r /\ match[p].status = "none"
                                          => offer[p].status = "none"
             HasNext(r) == \E p \in Pairs : p[1] = r /\ offer'[p].status = "offered"
             GoneNext(r) == \A p \in Pairs : p[1] = r /\ match'[p].status = "none"
                                              => offer'[p].status = "none"
  <1> SUFFICES ASSUME StepInv, StepKind, NEW r \in Requests, request'[r].status = "offering"
               PROVE  HasNext(r) \/ GoneNext(r)
    BY DEF OfferingIsAnswerable, OpenOffers, OffersDeleted
  <1>h. request[r].status = "offering" => Has(r) \/ Gone(r)
    BY DEF StepInv, OfferingIsAnswerable, OpenOffers, OffersDeleted
  <1>p. \A p \in Pairs : p[1] \in Requests
    BY DEF Pairs
  \* The offers of r stay as they are, and no match of it is unmade.
  <1>3. ASSUME request[r].status = "offering",
               \A p \in Pairs : p[1] = r =>
                  /\ offer'[p].status = offer[p].status
                  /\ match'[p].status = "none" => match[p].status = "none"
        PROVE  HasNext(r) \/ GoneNext(r)
    <2>1. CASE Has(r)
      BY <1>3, <2>1
    <2>2. CASE Gone(r)
      BY <1>3, <2>2
    <2> QED
      BY <1>3, <1>h, <2>1, <2>2
  <1>1. ASSUME Quiet PROVE HasNext(r) \/ GoneNext(r)
    <2>1. /\ request[r].status = "offering"
          /\ \A p \in Pairs : p[1] = r =>
                  /\ offer'[p].status = offer[p].status
                  /\ match'[p].status = "none" => match[p].status = "none"
      BY <1>1 DEF Quiet, RequestsKept, RequestKept, OffersKept, OfferKept, MatchesKept, MatchKept
    <2> HIDE DEF HasNext, GoneNext
    <2> QED
      BY <1>3, <2>1
  <1>2. ASSUME Forgets PROVE HasNext(r) \/ GoneNext(r)
    <2>1. \A p \in Pairs : match'[p].status = "none" => offer'[p].status = "none"
      BY <1>2 DEF Forgets, MatchesKept, MatchKept
    <2> QED
      BY <2>1
  <1>c. ASSUME NEW R, r \in R => request'[r].status # "offering", RequestsKept(R),
               OffersClosed(R) \/ OffersKept,
               \A p \in Pairs : match'[p].status = "none" => match[p].status = "none"
        PROVE  HasNext(r) \/ GoneNext(r)
    <2>1. /\ request[r].status = "offering"
          /\ \A p \in Pairs : p[1] = r => offer'[p].status = offer[p].status
      BY <1>c DEF RequestsKept, RequestKept, OffersClosed, OffersKept, OfferKept
    <2> HIDE DEF HasNext, GoneNext
    <2> QED
      BY <1>3, <1>c, <2>1
  <1>m. MatchesKept({}) => \A p \in Pairs : match'[p].status = "none" => match[p].status = "none"
    BY DEF MatchesKept, MatchKept
  <1> HIDE DEF HasNext, GoneNext
  <1>4. ASSUME NEW x \in Requests, Reopens(x) \/ Searches(x) PROVE HasNext(r) \/ GoneNext(r)
    <2>1. /\ RequestsKept({x}) /\ MatchesKept({})
          /\ r \in {x} => request'[r].status # "offering"
          /\ OffersClosed({x}) \/ OffersKept
      BY <1>4 DEF Reopens, Searches
    <2> QED
      BY <1>c, <1>m, <2>1
  <1>5. ASSUME NEW R \in SUBSET Requests, NEW to, Closes(R, to)
        PROVE  HasNext(r) \/ GoneNext(r)
    <2>1. /\ RequestsKept(R) /\ MatchesKept({})
          /\ r \in R => request'[r].status # "offering"
          /\ OffersClosed(R)
      BY <1>5 DEF Closes
    <2> QED
      BY <1>c, <1>m, <2>1
  <1>6. ASSUME NEW p \in Pairs, Offers(p) PROVE HasNext(r) \/ GoneNext(r)
    <2>1. CASE r = p[1]
      BY <1>6, <2>1 DEF Offers, HasNext
    <2>2. CASE r # p[1]
      <3>1. request[r].status = "offering" /\ MatchesKept({})
        BY <1>6, <2>2 DEF Offers, RequestsKept, RequestKept
      <3>2. \A o \in Pairs : o[1] = r => offer'[o].status = offer[o].status
        BY <1>6, <2>2 DEF Offers, OfferKept
      <3> QED
        BY <1>3, <1>m, <3>1, <3>2
    <2> QED
      BY <2>1, <2>2
  <1>7. ASSUME NEW p \in Pairs, NEW i, NEW q, Accepts(p, i, q)
        PROVE  HasNext(r) \/ GoneNext(r)
    <2>1. r # p[1] /\ request[r].status = "offering"
      BY <1>7 DEF Accepts, RequestsKept, RequestKept
    <2>2. \A o \in Pairs : o[1] = r => offer'[o].status = offer[o].status
                                       /\ match'[o].status = match[o].status
      BY <1>7, <2>1 DEF Accepts, OfferKept, MatchesKept, MatchKept
    <2> QED
      BY <1>3, <2>1, <2>2
  <1>8. ASSUME NEW p \in Pairs, MatchEnds(p) PROVE HasNext(r) \/ GoneNext(r)
    <2>1. /\ RequestsKept({p[1]}) /\ OffersKept
          /\ r \in {p[1]} => request'[r].status # "offering"
      BY <1>8 DEF MatchEnds
    <2>2. \A o \in Pairs : match'[o].status = "none" => match[o].status = "none"
      BY <1>8 DEF MatchEnds, MatchesKept, MatchKept, SettledStatuses, CancelledStatuses
    <2> QED
      BY <1>c, <2>1, <2>2
  <1> QED
    BY <1>1, <1>2, <1>4, <1>5, <1>6, <1>7, <1>8, Endings DEF StepKind

LEMMA MatchedShapeKept == StepInv /\ StepKind => MatchedShape'
  <1> SUFFICES ASSUME StepInv, StepKind PROVE MatchedShape'
    OBVIOUS
  <1>m. MatchedShape
    BY MatchedIsShape DEF StepInv
  <1>p. \A p \in Pairs : p[1] \in Requests
    BY DEF Pairs
  \* A step that makes no match and ends none, of requests that have none.
  <1>1. ASSUME NEW R, RequestsKept(R), MatchesKept({}),
               \A r \in R : request[r].status # "matched" /\ request'[r].status # "matched"
        PROVE  MatchedShape'
    <2>1. \A r \in Requests \ R : request'[r].status = request[r].status
      BY <1>1 DEF RequestsKept, RequestKept
    <2>2. \A p \in Pairs : match'[p].status = match[p].status
      BY <1>1 DEF MatchesKept, MatchKept
    <2> QED
      BY <1>m, <1>p, <1>1, <2>1, <2>2 DEF MatchedShape
  <1>2. CASE Quiet \/ Forgets
    BY <1>1, <1>2 DEF Quiet, Forgets
  <1>3. ASSUME NEW r \in Requests, Reopens(r) \/ Searches(r) PROVE MatchedShape'
    <2>1. /\ RequestsKept({r}) /\ MatchesKept({})
          /\ request[r].status # "matched" /\ request'[r].status # "matched"
      BY <1>3 DEF Reopens, Searches
    <2> QED
      BY <1>1, <2>1
  <1>4. ASSUME NEW R \in SUBSET Requests, NEW to, Closes(R, to) PROVE MatchedShape'
    BY <1>1, <1>4 DEF Closes
  <1>5. ASSUME NEW p \in Pairs, Offers(p) PROVE MatchedShape'
    <2>1. /\ RequestsKept({p[1]}) /\ MatchesKept({})
          /\ request[p[1]].status # "matched" /\ request'[p[1]].status # "matched"
      BY <1>5 DEF Offers
    <2> QED
      BY <1>1, <2>1
  <1>6. ASSUME NEW p \in Pairs, NEW i, NEW q, Accepts(p, i, q) PROVE MatchedShape'
    <2>1. /\ request[p[1]].status = "offering" /\ request'[p[1]].status = "matched"
          /\ match'[p].status = "active"
      BY <1>6 DEF Accepts
    <2>2. \A r \in Requests \ {p[1]} : request'[r].status = request[r].status
      BY <1>6 DEF Accepts, RequestsKept, RequestKept
    <2>3. \A o \in Pairs \ {p} : match'[o].status = match[o].status
      BY <1>6 DEF Accepts, MatchesKept, MatchKept
    <2>4. \A o \in Pairs : match[o].status = "active" => o[1] # p[1]
      BY <1>m, <2>1 DEF MatchedShape
    <2>5. \A o \in Pairs : match'[o].status = "active" =>
             o = p \/ (match[o].status = "active" /\ o[1] # p[1])
      BY <2>3, <2>4
    <2>6. \A o \in Pairs : match'[o].status = "active" => request'[o[1]].status = "matched"
      BY <1>m, <1>p, <2>1, <2>2, <2>5 DEF MatchedShape
    <2>7. \A o, x \in Pairs : o[1] = x[1] /\ match'[o].status = "active"
                              /\ match'[x].status = "active" => o = x
      BY <1>m, <2>5 DEF MatchedShape
    <2>8. ASSUME NEW r \in Requests, request'[r].status = "matched"
          PROVE  \E o \in Pairs : o[1] = r /\ match'[o].status = "active"
      <3>1. CASE r = p[1]
        BY <2>1, <3>1
      <3>2. CASE r # p[1]
        <4>1. PICK o \in Pairs : o[1] = r /\ match[o].status = "active"
          BY <1>m, <2>2, <2>8, <3>2 DEF MatchedShape
        <4> QED
          BY <2>3, <3>2, <4>1
      <3> QED
        BY <3>1, <3>2
    <2> QED
      BY <2>6, <2>7, <2>8 DEF MatchedShape
  <1>7. ASSUME NEW p \in Pairs, MatchEnds(p) PROVE MatchedShape'
    <2>1. /\ match[p].status = "active" /\ request[p[1]].status = "matched"
          /\ match'[p].status # "active" /\ request'[p[1]].status # "matched"
      BY <1>7 DEF MatchEnds, SettledStatuses, CancelledStatuses
    <2>2. \A r \in Requests \ {p[1]} : request'[r].status = request[r].status
      BY <1>7 DEF MatchEnds, RequestsKept, RequestKept
    <2>3. \A o \in Pairs \ {p} : match'[o].status = match[o].status
      BY <1>7 DEF MatchEnds, MatchesKept, MatchKept
    <2>4. \A o \in Pairs : match'[o].status = "active" =>
             match[o].status = "active" /\ o[1] # p[1]
      BY <1>m, <2>1, <2>3 DEF MatchedShape
    <2>5. \A o \in Pairs : match'[o].status = "active" => request'[o[1]].status = "matched"
      BY <1>m, <1>p, <2>2, <2>4 DEF MatchedShape
    <2>6. \A o, x \in Pairs : o[1] = x[1] /\ match'[o].status = "active"
                              /\ match'[x].status = "active" => o = x
      BY <1>m, <2>4 DEF MatchedShape
    <2>7. ASSUME NEW r \in Requests, request'[r].status = "matched"
          PROVE  \E o \in Pairs : o[1] = r /\ match'[o].status = "active"
      <3>1. r # p[1] /\ request[r].status = "matched"
        BY <2>1, <2>2, <2>7
      <3>2. PICK o \in Pairs : o[1] = r /\ match[o].status = "active"
        BY <1>m, <3>1 DEF MatchedShape
      <3> QED
        BY <2>3, <3>1, <3>2
    <2> QED
      BY <2>5, <2>6, <2>7 DEF MatchedShape
  <1> QED
    BY <1>2, <1>3, <1>4, <1>5, <1>6, <1>7, Endings DEF StepKind

LEMMA ConversationKept == StepInv /\ StepKind => ConversationFollowsMatch'
  <1> DEFINE Agrees(p) ==
               /\ match[p].conversation = "none" <=> match[p].status = "none"
               /\ match[p].grace <=> match[p].status \notin {"none", "active"}
               /\ match[p].status \in {"cancelled_unsafe", "cancelled_moderation"}
                     => match[p].conversation # "open"
             AgreesNext(p) ==
               /\ match'[p].conversation = "none" <=> match'[p].status = "none"
               /\ match'[p].grace <=> match'[p].status \notin {"none", "active"}
               /\ match'[p].status \in {"cancelled_unsafe", "cancelled_moderation"}
                     => match'[p].conversation # "open"
  <1> SUFFICES ASSUME StepInv, StepKind PROVE \A p \in Pairs : AgreesNext(p)
    BY DEF ConversationFollowsMatch
  <1>a. \A p \in Pairs : Agrees(p)
    BY DEF StepInv, ConversationFollowsMatch
  <1>1. ASSUME NEW p \in Pairs, MatchKept(p) PROVE AgreesNext(p)
    BY <1>a, <1>1 DEF MatchKept
  <1>2. ASSUME MatchesKept({}) PROVE \A p \in Pairs : AgreesNext(p)
    BY <1>1, <1>2 DEF MatchesKept
  <1>3. ASSUME NEW p \in Pairs, NEW i, NEW q, Accepts(p, i, q)
        PROVE  \A o \in Pairs : AgreesNext(o)
    <2>1. AgreesNext(p)
      BY <1>3 DEF Accepts
    <2>2. \A o \in Pairs \ {p} : MatchKept(o)
      BY <1>3 DEF Accepts, MatchesKept
    <2> QED
      BY <1>1, <2>1, <2>2
  <1>4. ASSUME NEW p \in Pairs, MatchEnds(p) PROVE \A o \in Pairs : AgreesNext(o)
    <2>1. AgreesNext(p)
      <3>1. match[p].conversation # "none" /\ match[p].status = "active"
        BY <1>a, <1>4 DEF MatchEnds
      <3>2. match'[p].status \notin {"none", "active"}
        BY <1>4 DEF MatchEnds, SettledStatuses, CancelledStatuses
      <3> QED
        BY <1>4, <3>1, <3>2 DEF MatchEnds
    <2>2. \A o \in Pairs \ {p} : MatchKept(o)
      BY <1>4 DEF MatchEnds, MatchesKept
    <2> QED
      BY <1>1, <2>1, <2>2
  <1> HIDE DEF AgreesNext
  <1>5. CASE Quiet \/ Forgets \/ \E r \in Requests : Reopens(r) \/ Searches(r)
    BY <1>2, <1>5 DEF Quiet, Forgets, Reopens, Searches
  <1>6. CASE \/ \E R \in SUBSET Requests, to \in RequestStatuses : Closes(R, to)
             \/ \E p \in Pairs : Offers(p)
    BY <1>2, <1>6 DEF Closes, Offers
  <1> QED
    BY <1>3, <1>4, <1>5, <1>6, Endings DEF StepKind

LEMMA ShapesKept == StepInv /\ StepKind => UnmadeShape' /\ OwnGoods' /\ Uncounted'
  <1> SUFFICES ASSUME StepInv, StepKind PROVE UnmadeShape' /\ OwnGoods' /\ Uncounted'
    OBVIOUS
  <1>u. UnmadeShape /\ OwnGoods /\ Uncounted
    BY DEF StepInv
  <1>1. ASSUME NEW R, RequestsKept(R), \A r \in R \cap Requests : request'[r].status # "none"
        PROVE  UnmadeShape'
    BY <1>u, <1>1 DEF UnmadeShape, RequestsKept, RequestKept
  <1>2. ASSUME OffersKept \/ \E R : OffersClosed(R)
        PROVE  OwnGoods'
    BY <1>u, <1>2 DEF OwnGoods, OffersKept, OffersClosed, OfferKept
  <1>3. ASSUME NEW P, MatchesKept(P),
               \A p \in P \cap Pairs : match'[p].status # "active" \/ ~match'[p].reliabilityApplied
        PROVE  Uncounted'
    BY <1>u, <1>3 DEF Uncounted, MatchesKept, MatchKept
  <1>4. CASE Quiet
    BY <1>1, <1>2, <1>3, <1>4 DEF Quiet
  <1>5. CASE Forgets
    <2>1. OwnGoods'
      BY <1>u, <1>5 DEF Forgets, OwnGoods, OfferKept
    <2> QED
      BY <1>1, <1>3, <1>5, <2>1 DEF Forgets
  <1>6. ASSUME NEW r \in Requests, Reopens(r) \/ Searches(r)
        PROVE  UnmadeShape' /\ OwnGoods' /\ Uncounted'
    <2>1. RequestsKept({r}) /\ request'[r].status # "none" /\ MatchesKept({})
          /\ (OffersKept \/ OffersClosed({r}))
      BY <1>6 DEF Reopens, Searches
    <2> QED
      BY <1>1, <1>2, <1>3, <2>1
  <1>7. ASSUME NEW R \in SUBSET Requests, NEW to, Closes(R, to)
        PROVE  UnmadeShape' /\ OwnGoods' /\ Uncounted'
    <2>1. RequestsKept(R) /\ MatchesKept({}) /\ OffersClosed(R)
          /\ \A r \in R : request'[r].status # "none"
      BY <1>7 DEF Closes
    <2> QED
      BY <1>1, <1>2, <1>3, <2>1
  <1>8. ASSUME NEW p \in Pairs, Offers(p)
        PROVE  UnmadeShape' /\ OwnGoods' /\ Uncounted'
    <2>1. RequestsKept({p[1]}) /\ request'[p[1]].status # "none" /\ MatchesKept({})
      BY <1>8 DEF Offers
    <2>2. OwnGoods'
      BY <1>u, <1>8 DEF Offers, OwnGoods, OfferKept
    <2> QED
      BY <1>1, <1>3, <2>1, <2>2
  <1>9. ASSUME NEW p \in Pairs, NEW i, NEW q, Accepts(p, i, q)
        PROVE  UnmadeShape' /\ OwnGoods' /\ Uncounted'
    <2>1. RequestsKept({p[1]}) /\ request'[p[1]].status # "none" /\ MatchesKept({p})
          /\ ~match'[p].reliabilityApplied
      BY <1>9 DEF Accepts
    <2>2. OwnGoods'
      BY <1>u, <1>9 DEF Accepts, OwnGoods, OfferKept
    <2> QED
      BY <1>1, <1>3, <2>1, <2>2
  <1>10. ASSUME NEW p \in Pairs, MatchEnds(p)
         PROVE  UnmadeShape' /\ OwnGoods' /\ Uncounted'
    <2>1. RequestsKept({p[1]}) /\ request'[p[1]].status # "none" /\ MatchesKept({p})
          /\ match'[p].status # "active" /\ OffersKept
      BY <1>10 DEF MatchEnds, SettledStatuses, CancelledStatuses
    <2> QED
      BY <1>1, <1>2, <1>3, <2>1
  <1> QED
    BY <1>4, <1>5, <1>6, <1>7, <1>8, <1>9, <1>10, Endings DEF StepKind

LEMMA StepInvKept == StepInv /\ [Next]_vars => StepInv'
  <1> SUFFICES ASSUME StepInv, [Next]_vars PROVE StepInv'
    OBVIOUS
  <1>1. StepKind
    BY NextKinds
  <1>2. StockInv'
    BY NextKeepsStock DEF StepInv
  <1>3. OneOpenOffer' /\ MatchedHasOneMatch'
    BY <1>1, OpenShapeKept, MatchedShapeKept, OpenIsShape, MatchedIsShape, PTL
  <1>4. OfferingIsAnswerable' /\ ConversationFollowsMatch'
    BY <1>1, AnswerableKept, ConversationKept
  <1>5. UnmadeShape' /\ OwnGoods' /\ Uncounted'
    BY <1>1, ShapesKept
  <1> QED
    BY <1>2, <1>3, <1>4, <1>5 DEF StepInv

LEMMA StepInit == Init => StepInv
  <1> SUFFICES ASSUME Init PROVE StepInv
    OBVIOUS
  <1>1. StockInv
    BY StockInit
  <1>2. UnmadeShape /\ OwnGoods /\ Uncounted
    BY DEF Init, NoRequest, NoOffer, NoMatch, UnmadeShape, OwnGoods, Uncounted
  <1>3. OpenShape /\ OfferingIsAnswerable
    BY DEF Init, NoRequest, NoOffer, OpenShape, OfferingIsAnswerable
  <1>4. MatchedShape /\ ConversationFollowsMatch
    BY DEF Init, NoRequest, NoMatch, MatchedShape, ConversationFollowsMatch
  <1> QED
    BY <1>1, <1>2, <1>3, <1>4, OpenIsShape, MatchedIsShape DEF StepInv

\* The three tables are in step, and the small facts that needs hold, in every
\* reachable state of the exchange.
THEOREM StepInvariant == Spec => []StepInv
  <1> QED
    BY StepInit, StepInvKept, PTL DEF Spec

\* For any accounts, requests and items: an offering request has one open offer, or none of
\* its unmatched offers is left (retention deleted them), and no other request has any, in
\* whatever order passes, answers, deadlines, cancels, moderation, retention and the
\* administrator's changes of the event's times commit.
THEOREM OffersStayInStep == Spec => []OffersInStep
  <1>1. StepInv => OffersInStep
    BY DEF StepInv, OffersInStep
  <1> QED
    BY <1>1, StepInvariant, PTL

\* For any accounts, requests and items: a request is matched exactly while one match on
\* it is active, and the conversation is closed with the match.
THEOREM MatchesStayInStep == Spec => []MatchesInStep
  <1>1. StepInv => MatchesInStep
    BY DEF StepInv, MatchesInStep
  <1> QED
    BY <1>1, StepInvariant, PTL

\* No step rewrites history: a closed match keeps its outcome, quantity and
\* confirmations, and a fulfilled or moderated request stays as it is.
THEOREM HistoryNeverChanges == Spec => HistoryIsFinal
  <1>1. StepInv /\ [Next]_vars =>
          [/\ \A p \in Pairs : match[p].status \notin {"none", "active"} =>
                 /\ match'[p].status = match[p].status
                 /\ match'[p].qty = match[p].qty
                 /\ match'[p].confirmed = match[p].confirmed
           /\ \A r \in Requests : request[r].status \in {"fulfilled", "moderated"} =>
                 request'[r] = request[r]]_vars
    <2> SUFFICES ASSUME StepInv, [Next]_vars
                 PROVE  /\ \A p \in Pairs : match[p].status \notin {"none", "active"} =>
                              /\ match'[p].status = match[p].status
                              /\ match'[p].qty = match[p].qty
                              /\ match'[p].confirmed = match[p].confirmed
                        /\ \A r \in Requests : request[r].status \in {"fulfilled", "moderated"} =>
                              request'[r] = request[r]
      OBVIOUS
    <2>1. StepKind
      BY NextKinds
    <2>2. ASSUME NEW P, MatchesKept(P),
                 \A p \in P \cap Pairs : match[p].status \in {"none", "active"}
          PROVE  \A p \in Pairs : match[p].status \notin {"none", "active"} =>
                    /\ match'[p].status = match[p].status
                    /\ match'[p].qty = match[p].qty
                    /\ match'[p].confirmed = match[p].confirmed
      BY <2>2 DEF MatchesKept, MatchKept
    <2>3. ASSUME NEW R, RequestsKept(R),
                 \A r \in R \cap Requests : request[r].status \notin {"fulfilled", "moderated"}
          PROVE  \A r \in Requests : request[r].status \in {"fulfilled", "moderated"} =>
                    request'[r] = request[r]
      BY <2>3 DEF RequestsKept, RequestKept
    <2>4. CASE Quiet \/ Forgets
      BY <2>2, <2>3, <2>4 DEF Quiet, Forgets
    <2>5. ASSUME NEW r \in Requests, Reopens(r) \/ Searches(r)
          PROVE  MatchesKept({}) /\ RequestsKept({r})
                 /\ request[r].status \notin {"fulfilled", "moderated"}
      BY <2>5 DEF Reopens, Searches
    <2>6. ASSUME NEW R \in SUBSET Requests, NEW to, Closes(R, to)
          PROVE  MatchesKept({}) /\ RequestsKept(R)
                 /\ \A r \in R : request[r].status \notin {"fulfilled", "moderated"}
      BY <2>6 DEF Closes
    <2>7. ASSUME NEW p \in Pairs, Offers(p)
          PROVE  MatchesKept({}) /\ RequestsKept({p[1]})
                 /\ request[p[1]].status \notin {"fulfilled", "moderated"}
      BY <2>7 DEF Offers
    <2>8. ASSUME NEW p \in Pairs, NEW i, NEW q, Accepts(p, i, q)
          PROVE  MatchesKept({p}) /\ match[p].status = "none" /\ RequestsKept({p[1]})
                 /\ request[p[1]].status \notin {"fulfilled", "moderated"}
      BY <2>8 DEF Accepts
    <2>9. ASSUME NEW p \in Pairs, MatchEnds(p)
          PROVE  MatchesKept({p}) /\ match[p].status = "active" /\ RequestsKept({p[1]})
                 /\ request[p[1]].status \notin {"fulfilled", "moderated"}
      BY <2>9 DEF MatchEnds
    <2>10. \/ MatchesKept({})
           \/ \E p \in Pairs : MatchesKept({p}) /\ match[p].status \in {"none", "active"}
      BY <2>1, <2>5, <2>6, <2>7, <2>8, <2>9, Endings DEF StepKind, Quiet, Forgets
    <2>11. \/ RequestsKept({})
           \/ \E r \in Requests : /\ RequestsKept({r})
                                  /\ request[r].status \notin {"fulfilled", "moderated"}
           \/ \E R \in SUBSET Requests :
                 /\ RequestsKept(R)
                 /\ \A r \in R : request[r].status \notin {"fulfilled", "moderated"}
      <3>1. \A p \in Pairs : p[1] \in Requests
        BY DEF Pairs
      <3> QED
        BY <3>1, <2>1, <2>5, <2>6, <2>7, <2>8, <2>9, Endings DEF StepKind, Quiet, Forgets
    <2> QED
      BY <2>2, <2>3, <2>10, <2>11
  <1> QED
    BY <1>1, StepInvariant, PTL DEF Spec, HistoryIsFinal

-----------------------------------------------------------------------------
(* Quantities *)

LEMMA HandedFinite ==
    ASSUME NEW r \in Requests
    PROVE  IsFiniteSet(HandedOverUnits(r)) /\ Cardinality(HandedOverUnits(r)) \in Nat
  BY UnitsFinite, FS_Subset, FS_CardinalityType DEF HandedOverUnits

\* Match o has handed over the same units before and after the step.
SameHanded(o) ==
    /\ match'[o].status \in SettledStatuses <=> match[o].status \in SettledStatuses
    /\ match[o].status \in SettledStatuses => match'[o].confirmed = match[o].confirmed

LEMMA KeptHanded ==
    ASSUME NEW o \in Pairs, MatchKept(o) PROVE SameHanded(o)
  BY DEF MatchKept, SameHanded, SettledStatuses

LEMMA HandedSame ==
    ASSUME NEW r \in Requests, \A o \in Pairs : o[1] = r => SameHanded(o)
    PROVE  HandedOverUnits(r)' = HandedOverUnits(r)
  <1>1. \A o \in Pairs : o[1] = r /\ match[o].status \in SettledStatuses =>
           SettledQty(o)' = SettledQty(o)
    BY DEF SameHanded, SettledQty
  <1>2. \A o \in Pairs : o[1] = r => (match'[o].status \in SettledStatuses
                                        <=> match[o].status \in SettledStatuses)
    BY DEF SameHanded
  <1> QED
    BY <1>1, <1>2 DEF HandedOverUnits

\* A match that is settled adds what it hands over to its request.
LEMMA HandedGain ==
    ASSUME NEW p \in Pairs, NEW f \in 0 .. MaxStock,
           match[p].status \notin SettledStatuses,
           match'[p].status \in SettledStatuses, SettledQty(p)' = f,
           \A o \in Pairs \ {p} : SameHanded(o),
           NEW r \in Requests
    PROVE  Cardinality(HandedOverUnits(r)')
              = Cardinality(HandedOverUnits(r)) + IF p[1] = r THEN f ELSE 0
  <1>0. Cardinality(HandedOverUnits(r)) \in Nat
    BY HandedFinite
  <1>1. CASE p[1] # r
    <2>1. HandedOverUnits(r)' = HandedOverUnits(r)
      BY <1>1, HandedSame
    <2> QED
      BY <1>0, <1>1, <2>1
  <1>2. CASE p[1] = r
    <2> DEFINE B == {p} \X (1 .. f)
    <2>1. \A o \in Pairs \ {p} :
             /\ match'[o].status \in SettledStatuses <=> match[o].status \in SettledStatuses
             /\ match[o].status \in SettledStatuses => SettledQty(o)' = SettledQty(o)
      BY DEF SameHanded, SettledQty
    <2>2. HandedOverUnits(r)' = HandedOverUnits(r) \cup B
      BY <1>2, <2>1, Quantities DEF HandedOverUnits
    <2>3. HandedOverUnits(r) \cap B = {}
      BY DEF HandedOverUnits
    <2>q. f \in Nat
      BY Quantities
    <2>4. IsFiniteSet(B) /\ Cardinality(B) = f
      BY <2>q, UnitBlock, Zenon
    <2>5. Cardinality(HandedOverUnits(r) \cap B) = 0
      BY <2>3, FS_EmptySet
    <2> HIDE DEF B
    <2>6. Cardinality(HandedOverUnits(r) \cup B)
             = Cardinality(HandedOverUnits(r)) + Cardinality(B)
               - Cardinality(HandedOverUnits(r) \cap B)
      BY <2>4, HandedFinite, FS_Union, Zenon
    <2>7. Cardinality(HandedOverUnits(r) \cup B) = Cardinality(HandedOverUnits(r)) + f
      BY <1>0, <2>q, <2>4, <2>5, <2>6
    <2> QED
      BY <1>2, <2>2, <2>7
  <1> QED
    BY <1>1, <1>2

\* What a kind of step does to a request's quantity: nothing, unless it settles.
LEMMA FulfilledSame ==
    ASSUME \A r \in Requests : request'[r].fulfilled = request[r].fulfilled,
           \A o \in Pairs : SameHanded(o), FulfilledIsHandedOver
    PROVE  FulfilledIsHandedOver'
  BY HandedSame DEF FulfilledIsHandedOver

LEMMA FulfilledKept == StepInv /\ FulfilledIsHandedOver /\ StepKind => FulfilledIsHandedOver'
  <1> SUFFICES ASSUME StepInv, FulfilledIsHandedOver, StepKind PROVE FulfilledIsHandedOver'
    OBVIOUS
  <1>1. ASSUME NEW R, RequestsKept(R), MatchesKept({}),
               \A r \in R : request'[r].fulfilled = request[r].fulfilled
        PROVE  FulfilledIsHandedOver'
    <2>1. \A r \in Requests : request'[r].fulfilled = request[r].fulfilled
      BY <1>1 DEF RequestsKept, RequestKept
    <2>2. \A o \in Pairs : SameHanded(o)
      BY <1>1, KeptHanded DEF MatchesKept
    <2> QED
      BY <2>1, <2>2, FulfilledSame
  <1>2. ASSUME NEW p \in Pairs, RequestsKept({p[1]}), MatchesKept({p}),
               request'[p[1]].fulfilled = request[p[1]].fulfilled, SameHanded(p)
        PROVE  FulfilledIsHandedOver'
    <2>1. \A r \in Requests : request'[r].fulfilled = request[r].fulfilled
      BY <1>2 DEF RequestsKept, RequestKept
    <2>2. \A o \in Pairs : SameHanded(o)
      BY <1>2, KeptHanded DEF MatchesKept
    <2> QED
      BY <2>1, <2>2, FulfilledSame
  <1>3. CASE Quiet \/ Forgets
    BY <1>1, <1>3 DEF Quiet, Forgets
  <1>4. ASSUME NEW r \in Requests, Reopens(r) \/ Searches(r) PROVE FulfilledIsHandedOver'
    <2>1. RequestsKept({r}) /\ MatchesKept({}) /\ request'[r].fulfilled = request[r].fulfilled
      BY <1>4 DEF Reopens, Searches
    <2> QED
      BY <1>1, <2>1
  <1>5. ASSUME NEW R \in SUBSET Requests, NEW to, Closes(R, to) PROVE FulfilledIsHandedOver'
    <2>1. RequestsKept(R) /\ MatchesKept({})
          /\ \A r \in R : request'[r].fulfilled = request[r].fulfilled
      BY <1>5 DEF Closes
    <2> QED
      BY <1>1, <2>1
  <1>6. ASSUME NEW p \in Pairs, Offers(p) PROVE FulfilledIsHandedOver'
    <2>1. RequestsKept({p[1]}) /\ MatchesKept({})
          /\ request'[p[1]].fulfilled = request[p[1]].fulfilled
      BY <1>6 DEF Offers
    <2> QED
      BY <1>1, <2>1
  <1>7. ASSUME NEW p \in Pairs, NEW i, NEW q, Accepts(p, i, q) PROVE FulfilledIsHandedOver'
    <2>1. RequestsKept({p[1]}) /\ MatchesKept({p})
          /\ request'[p[1]].fulfilled = request[p[1]].fulfilled
          /\ match[p].status = "none" /\ match'[p].status = "active"
      BY <1>7 DEF Accepts
    <2>2. SameHanded(p)
      BY <2>1 DEF SameHanded, SettledStatuses
    <2> QED
      BY <1>2, <2>1, <2>2
  <1>8. ASSUME NEW p \in Pairs, NEW actor \in Actors, NEW unsafe \in BOOLEAN,
               Cancels(p, actor, unsafe)
        PROVE  FulfilledIsHandedOver'
    <2>1. RequestsKept({p[1]}) /\ MatchesKept({p})
          /\ request'[p[1]].fulfilled = request[p[1]].fulfilled
          /\ match[p].status = "active"
          /\ match'[p].status \in CancelledStatuses
      BY <1>8 DEF Cancels, CancelledStatuses
    <2>2. SameHanded(p)
      BY <2>1 DEF SameHanded, SettledStatuses, CancelledStatuses
    <2> QED
      BY <1>2, <2>1, <2>2
  <1>9. ASSUME NEW p \in Pairs, NEW confirmed, NEW final \in Quantity, NEW disputed,
               Settles(p, confirmed, final, disputed)
        PROVE  FulfilledIsHandedOver'
    <2>1. /\ match[p].status \notin SettledStatuses /\ match'[p].status \in SettledStatuses
          /\ SettledQty(p)' = final /\ final \in 0 .. MaxStock
      BY <1>9 DEF Settles, SettledStatuses, Quantity
    <2>2. \A o \in Pairs \ {p} : SameHanded(o)
      BY <1>9, KeptHanded DEF Settles, MatchesKept
    <2>3. \A r \in Requests : Cardinality(HandedOverUnits(r)')
                = Cardinality(HandedOverUnits(r)) + IF p[1] = r THEN final ELSE 0
      BY <2>1, <2>2, HandedGain
    <2>4. \A r \in Requests : request[r].fulfilled \in Nat
      BY DEF StepInv, StockInv, TypeOK, RequestRow
    <2>5. \A r \in Requests : request'[r].fulfilled
                = request[r].fulfilled + IF p[1] = r THEN final ELSE 0
      <3>1. request'[p[1]].fulfilled = request[p[1]].fulfilled + final
        BY <1>9 DEF Settles
      <3>2. \A r \in Requests \ {p[1]} : request'[r].fulfilled = request[r].fulfilled
        BY <1>9 DEF Settles, RequestsKept, RequestKept
      <3> QED
        BY <2>4, <3>1, <3>2
    <2> QED
      BY <2>3, <2>5 DEF FulfilledIsHandedOver
  <1> QED
    BY <1>3, <1>4, <1>5, <1>6, <1>7, <1>8, <1>9 DEF StepKind

LEMMA NeedKept == StepInv /\ NeedRemains /\ StepKind => NeedRemains'
  <1> DEFINE Within(r) ==
               /\ request[r].fulfilled <= Qty[r]
               /\ request[r].status \notin {"fulfilled", "moderated"}
                     => request[r].fulfilled < Qty[r]
             WithinNext(r) ==
               /\ request'[r].fulfilled <= Qty[r]
               /\ request'[r].status \notin {"fulfilled", "moderated"}
                     => request'[r].fulfilled < Qty[r]
             Covers(p) == match[p].status = "active"
                             => request[p[1]].fulfilled + match[p].qty <= Qty[p[1]]
             CoversNext(p) == match'[p].status = "active"
                                => request'[p[1]].fulfilled + match'[p].qty <= Qty[p[1]]
  <1> SUFFICES ASSUME StepInv, NeedRemains, StepKind
               PROVE  /\ \A r \in Requests : WithinNext(r)
                      /\ \A p \in Pairs : CoversNext(p)
    BY DEF NeedRemains
  <1>n. /\ \A r \in Requests : Within(r)
        /\ \A p \in Pairs : Covers(p)
    BY DEF NeedRemains
  <1>t. /\ \A r \in Requests : request[r].fulfilled \in Nat /\ Qty[r] \in Nat
        /\ \A p \in Pairs : p[1] \in Requests /\ match[p].qty \in Nat
    BY Quantities DEF StepInv, StockInv, TypeOK, RequestRow, MatchRow, Quantity, Pairs
  <1>1. ASSUME NEW r \in Requests, RequestKept(r) PROVE WithinNext(r)
    BY <1>n, <1>1 DEF RequestKept
  <1>2. ASSUME NEW p \in Pairs, MatchKept(p),
               request'[p[1]].fulfilled = request[p[1]].fulfilled
        PROVE  CoversNext(p)
    BY <1>n, <1>2 DEF MatchKept
  <1>3. ASSUME NEW R, RequestsKept(R), MatchesKept({}),
               \A r \in R : /\ request'[r].fulfilled = request[r].fulfilled
                            /\ request[r].status \notin {"fulfilled", "moderated"}
        PROVE  /\ \A r \in Requests : WithinNext(r)
               /\ \A p \in Pairs : CoversNext(p)
    <2>1. \A r \in Requests : request'[r].fulfilled = request[r].fulfilled
      BY <1>3 DEF RequestsKept, RequestKept
    <2>2. \A r \in Requests : WithinNext(r)
      BY <1>n, <1>1, <1>3, <2>1 DEF RequestsKept
    <2>3. \A p \in Pairs : CoversNext(p)
      BY <1>2, <1>3, <1>t, <2>1 DEF MatchesKept
    <2> QED
      BY <2>2, <2>3
  <1>4. CASE Quiet \/ Forgets
    BY <1>3, <1>4 DEF Quiet, Forgets
  <1>5. ASSUME NEW r \in Requests, Reopens(r) \/ Searches(r)
        PROVE  /\ \A x \in Requests : WithinNext(x)
               /\ \A p \in Pairs : CoversNext(p)
    <2>1. /\ RequestsKept({r}) /\ MatchesKept({})
          /\ request'[r].fulfilled = request[r].fulfilled
          /\ request[r].status \notin {"fulfilled", "moderated"}
      BY <1>5 DEF Reopens, Searches
    <2> QED
      BY <1>3, <2>1
  <1>6. ASSUME NEW R \in SUBSET Requests, NEW to, Closes(R, to)
        PROVE  /\ \A x \in Requests : WithinNext(x)
               /\ \A p \in Pairs : CoversNext(p)
    <2>1. /\ RequestsKept(R) /\ MatchesKept({})
          /\ \A r \in R : /\ request'[r].fulfilled = request[r].fulfilled
                          /\ request[r].status \notin {"fulfilled", "moderated"}
      BY <1>6 DEF Closes
    <2> QED
      BY <1>3, <2>1
  <1>7. ASSUME NEW p \in Pairs, Offers(p)
        PROVE  /\ \A x \in Requests : WithinNext(x)
               /\ \A o \in Pairs : CoversNext(o)
    <2>1. /\ RequestsKept({p[1]}) /\ MatchesKept({})
          /\ request'[p[1]].fulfilled = request[p[1]].fulfilled
          /\ request[p[1]].status \notin {"fulfilled", "moderated"}
      BY <1>7 DEF Offers
    <2> QED
      BY <1>3, <2>1
  <1>8. ASSUME NEW p \in Pairs, NEW i \in Items, NEW q \in 1 .. MaxStock, Accepts(p, i, q)
        PROVE  /\ \A x \in Requests : WithinNext(x)
               /\ \A o \in Pairs : CoversNext(o)
    <2> DEFINE r == p[1]
    <2>1. /\ RequestsKept({r}) /\ MatchesKept({p})
          /\ request'[r].fulfilled = request[r].fulfilled
          /\ request[r].status = "offering" /\ match'[p].qty = q
          /\ q <= Qty[r] - request[r].fulfilled
      BY <1>8 DEF Accepts, Remaining
    <2>2. \A x \in Requests : request'[x].fulfilled = request[x].fulfilled
      BY <2>1 DEF RequestsKept, RequestKept
    <2>3. \A x \in Requests : WithinNext(x)
      BY <1>n, <1>1, <2>1, <2>2 DEF RequestsKept
    <2>4. CoversNext(p)
      BY <1>t, <2>1, <2>2
    <2>5. \A o \in Pairs \ {p} : CoversNext(o)
      BY <1>2, <1>t, <2>1, <2>2 DEF MatchesKept
    <2> QED
      BY <2>3, <2>4, <2>5
  <1>9. ASSUME NEW p \in Pairs, NEW actor \in Actors, NEW unsafe \in BOOLEAN,
               Cancels(p, actor, unsafe)
        PROVE  /\ \A x \in Requests : WithinNext(x)
               /\ \A o \in Pairs : CoversNext(o)
    <2> DEFINE r == p[1]
    <2>1. /\ RequestsKept({r}) /\ MatchesKept({p})
          /\ request'[r].fulfilled = request[r].fulfilled
          /\ request[r].status = "matched"
      BY <1>9 DEF Cancels
    <2>2. \A x \in Requests : request'[x].fulfilled = request[x].fulfilled
      BY <2>1 DEF RequestsKept, RequestKept
    <2>3. \A x \in Requests : WithinNext(x)
      BY <1>n, <1>1, <2>1, <2>2 DEF RequestsKept
    <2>4. match'[p].status # "active"
      BY <1>9 DEF Cancels
    <2>5. \A o \in Pairs \ {p} : CoversNext(o)
      BY <1>2, <1>t, <2>1, <2>2 DEF MatchesKept
    <2> QED
      BY <2>3, <2>4, <2>5
  <1>10. ASSUME NEW p \in Pairs, NEW confirmed, NEW final \in Quantity, NEW disputed,
                Settles(p, confirmed, final, disputed)
         PROVE  /\ \A x \in Requests : WithinNext(x)
                /\ \A o \in Pairs : CoversNext(o)
    <2> DEFINE r == p[1]
               total == request[r].fulfilled + final
               covered == total >= Qty[r]
    <2>1. /\ RequestsKept({r}) /\ MatchesKept({p}) /\ match[p].status = "active"
          /\ final \in 0 .. match[p].qty
          /\ request'[r].status = IF covered THEN "fulfilled"
                                  ELSE IF total > 0 THEN "partially_fulfilled" ELSE "searching"
          /\ request'[r].fulfilled = total
      BY <1>10 DEF Settles
    <2>2. WithinNext(r)
      BY <1>n, <1>t, <2>1
    <2>3. \A x \in Requests \ {r} : WithinNext(x)
      BY <1>1, <2>1 DEF RequestsKept
    <2>4. \A o \in Pairs \ {p} : match[o].status = "active" => o[1] # r
      BY <2>1, ActiveIsMatched DEF StepInv
    <2>5. match'[p].status # "active"
      BY <1>10 DEF Settles
    <2>6. ASSUME NEW o \in Pairs \ {p}, match'[o].status = "active" PROVE CoversNext(o)
      <3>1. MatchKept(o) /\ match[o].status = "active"
        BY <2>1, <2>6 DEF MatchesKept, MatchKept
      <3>2. request'[o[1]].fulfilled = request[o[1]].fulfilled
        BY <1>t, <2>1, <2>4, <3>1 DEF RequestsKept, RequestKept
      <3> QED
        BY <1>2, <3>1, <3>2
    <2> QED
      BY <2>2, <2>3, <2>5, <2>6
  <1> QED
    BY <1>4, <1>5, <1>6, <1>7, <1>8, <1>9, <1>10 DEF StepKind

LEMMA ClosedAtKept == StepInv /\ ClosedAtOfClosed /\ StepKind => ClosedAtOfClosed'
  <1> DEFINE Final == {"fulfilled", "cancelled", "expired", "no_match", "moderated"}
             Agrees(r) == request[r].closed <=> request[r].status \in Final
             AgreesNext(r) == request'[r].closed <=> request'[r].status \in Final
  <1> SUFFICES ASSUME StepInv, ClosedAtOfClosed, StepKind
               PROVE  \A r \in Requests : AgreesNext(r)
    BY DEF ClosedAtOfClosed
  <1>a. \A r \in Requests : Agrees(r)
    BY DEF ClosedAtOfClosed
  <1>p. \A p \in Pairs : p[1] \in Requests
    BY DEF Pairs
  <1>1. ASSUME NEW r \in Requests, RequestKept(r) PROVE AgreesNext(r)
    BY <1>a, <1>1 DEF RequestKept
  <1>2. ASSUME NEW R, RequestsKept(R), \A r \in R \cap Requests : AgreesNext(r)
        PROVE  \A r \in Requests : AgreesNext(r)
    BY <1>1, <1>2 DEF RequestsKept
  <1>3. CASE Quiet \/ Forgets
    BY <1>2, <1>3 DEF Quiet, Forgets
  <1>4. ASSUME NEW r \in Requests, Reopens(r) \/ Searches(r)
        PROVE  \A x \in Requests : AgreesNext(x)
    <2>1. RequestsKept({r}) /\ AgreesNext(r)
      BY <1>a, <1>4 DEF Reopens, Searches
    <2> QED
      BY <1>2, <2>1
  <1>5. ASSUME NEW R \in SUBSET Requests, NEW to, Closes(R, to)
        PROVE  \A x \in Requests : AgreesNext(x)
    <2>1. RequestsKept(R) /\ \A r \in R : AgreesNext(r)
      BY <1>5 DEF Closes
    <2> QED
      BY <1>2, <2>1
  <1>6. ASSUME NEW p \in Pairs, \/ Offers(p)
                                \/ \E i \in Items, q \in 1 .. MaxStock : Accepts(p, i, q)
        PROVE  \A x \in Requests : AgreesNext(x)
    <2>1. RequestsKept({p[1]}) /\ AgreesNext(p[1])
      BY <1>a, <1>p, <1>6 DEF Offers, Accepts
    <2> QED
      BY <1>2, <2>1
  <1>7. ASSUME NEW p \in Pairs, NEW confirmed, NEW final, NEW disputed,
               Settles(p, confirmed, final, disputed)
        PROVE  \A x \in Requests : AgreesNext(x)
    <2>1. RequestsKept({p[1]}) /\ AgreesNext(p[1])
      BY <1>a, <1>p, <1>7 DEF Settles
    <2> QED
      BY <1>2, <2>1
  <1>8. ASSUME NEW p \in Pairs, NEW actor \in Actors, NEW unsafe \in BOOLEAN,
               Cancels(p, actor, unsafe)
        PROVE  \A x \in Requests : AgreesNext(x)
    <2>1. /\ request[p[1]].status = "matched"
          /\ request'[p[1]].status = [moderator |-> "moderated", requester |-> "cancelled",
                                      helper |-> "searching"][actor]
          /\ request'[p[1]].closed = (actor # "helper" \/ request[p[1]].closed)
          /\ RequestsKept({p[1]})
      BY <1>8 DEF Cancels
    <2>2. CASE actor = "helper"
      <3>1. request'[p[1]].status = "searching"
            /\ request'[p[1]].closed = (FALSE \/ request[p[1]].closed)
        BY <2>1, <2>2
      <3>2. AgreesNext(p[1])
        BY <1>a, <1>p, <2>1, <3>1
      <3> QED
        BY <1>2, <2>1, <3>2
    <2>3. CASE actor # "helper"
      <3>1. request'[p[1]].status \in {"moderated", "cancelled"} /\ request'[p[1]].closed
        <4>1. request'[p[1]].closed
          BY <2>1, <2>3, Zenon
        <4>2. actor \in {"requester", "moderator"}
          BY <2>3 DEF Actors
        <4>3. request'[p[1]].status \in {"moderated", "cancelled"}
          BY <2>1, <4>2
        <4> QED
          BY <4>1, <4>3
      <3>2. AgreesNext(p[1])
        BY <3>1
      <3> QED
        BY <1>2, <2>1, <3>2
    <2> QED
      BY <2>2, <2>3
  <1> QED
    BY <1>3, <1>4, <1>5, <1>6, <1>7, <1>8 DEF StepKind

LEMMA SumInvKept == StepInv /\ SumInv /\ [Next]_vars => SumInv'
  BY NextKinds, FulfilledKept, NeedKept, ClosedAtKept DEF SumInv

LEMMA SumInit == Init => SumInv
  <1> SUFFICES ASSUME Init PROVE SumInv
    OBVIOUS
  <1>1. FulfilledIsHandedOver
    <2> SUFFICES ASSUME NEW r \in Requests
                 PROVE  request[r].fulfilled = Cardinality(HandedOverUnits(r))
      BY DEF FulfilledIsHandedOver
    <2>1. HandedOverUnits(r) = {}
      BY DEF Init, NoMatch, HandedOverUnits, SettledStatuses
    <2> QED
      BY <2>1, FS_EmptySet DEF Init, NoRequest
  <1>2. NeedRemains
    BY Quantities DEF Init, NoRequest, NoMatch, NeedRemains
  <1>3. ClosedAtOfClosed
    BY DEF Init, NoRequest, ClosedAtOfClosed
  <1> QED
    BY <1>1, <1>2, <1>3 DEF SumInv

\* For any accounts, requests and quantities: what a request received is the sum of what
\* its settled matches handed over, it never receives or is promised more than it asked
\* for, it only searches while something is missing, and closed_at is set exactly while
\* it is closed.
THEOREM RequestsAlwaysAddUp == Spec => []RequestsAddUp
  <1>1. Init => StepInv /\ SumInv
    BY StepInit, SumInit
  <1>2. StepInv /\ SumInv /\ [Next]_vars => StepInv' /\ SumInv'
    BY StepInvKept, SumInvKept
  <1>3. SumInv => RequestsAddUp
    BY DEF SumInv, RequestsAddUp
  <1> QED
    BY <1>1, <1>2, <1>3, PTL DEF Spec

=============================================================================
