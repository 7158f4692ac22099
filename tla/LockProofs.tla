----------------------------- MODULE LockProofs -----------------------------
(***************************************************************************)
(* Transactions that lock rows in the global order never wait for each     *)
(* other in a circle, however many connections run them on however many    *)
(* requests.  The order is stated as a discipline of single transactions   *)
(* (Disciplined), which every ordered program follows and which, with the  *)
(* exclusiveness of locks, rules deadlock out.                             *)
(***************************************************************************)
EXTENDS LockOrder, TLAPS, SequenceTheorems

-----------------------------------------------------------------------------
(* The discipline *)

\* Every request is somebody's, and so is what is offered for it.
Roles ==
    /\ RequesterOf \in [Requests -> Users] /\ HelperOf \in [Requests -> Users]
    /\ ItemOf \in [Requests -> Items]

Rows == Permanent \cup UNION {{Offer(r), Match(r)} : r \in Requests}
Statements == [op : {"need", "lock", "insert", "close"}, row : Rows]

\* offer -> request -> inventory -> match -> reliability_stats
Level(row) ==
    CASE row[1] = "offer" -> 1
      [] row[1] = "request" -> 2
      [] row[1] = "item" -> 3
      [] row[1] = "match" -> 4
      [] OTHER -> 5

\* The request that an offer or a match belongs to.
Parent(row) == Request(row[2])

\* What a transaction that holds the rows H has left to do: it locks upwards, closes rows it
\* holds, and inserts rows of requests it holds; by then, as far as H does not say so yet.
Disciplined(p, H) ==
    \A i \in 1 .. Len(p) :
        /\ p[i].op \in {"need", "lock"} =>
              /\ \A x \in H : Level(x) < Level(p[i].row)
              /\ \A j \in 1 .. i - 1 : p[j].op # "close" => Level(p[j].row) < Level(p[i].row)
        /\ p[i].op = "close" =>
              p[i].row \in H \/ \E j \in 1 .. i - 1 : p[j] = Need(p[i].row)
        /\ p[i].op = "insert" =>
              /\ p[i].row \notin Permanent
              /\ Parent(p[i].row) \in H \/ \E j \in 1 .. i - 1 : p[j] = Need(Parent(p[i].row))

LEMMA LevelIs ==
    ASSUME NEW r \in Requests
    PROVE  /\ Level(Offer(r)) = 1 /\ Level(Request(r)) = 2 /\ Level(Match(r)) = 4
           /\ Parent(Offer(r)) = Request(r) /\ Parent(Match(r)) = Request(r)
           /\ Offer(r) \notin Permanent /\ Match(r) \notin Permanent
           /\ {Offer(r), Request(r), Match(r)} \subseteq Rows
  <1>1. Level(Offer(r)) = 1 /\ Level(Request(r)) = 2 /\ Level(Match(r)) = 4
    BY DEF Level, Offer, Request, Match
  <1>2. Parent(Offer(r)) = Request(r) /\ Parent(Match(r)) = Request(r)
    BY DEF Parent, Offer, Match
  <1>3. Offer(r) \notin Permanent /\ Match(r) \notin Permanent
    BY DEF Permanent, Offer, Match, Request, Item, Stats
  <1>4. {Offer(r), Request(r), Match(r)} \subseteq Rows
    BY DEF Rows, Permanent
  <1> QED
    BY <1>1, <1>2, <1>3, <1>4

LEMMA ItemLevel ==
    ASSUME NEW i \in Items
    PROVE  Level(Item(i)) = 3 /\ Item(i) \in Rows
  BY DEF Level, Item, Rows, Permanent

LEMMA StatsLevel ==
    ASSUME NEW u \in Users
    PROVE  Level(Stats(u)) = 5 /\ Stats(u) \in Rows
  BY DEF Level, Stats, Rows, Permanent

LEMMA LevelBounds ==
    ASSUME NEW x
    PROVE  Level(x) \in 1 .. 5
  BY DEF Level

LEMMA StatementsOf ==
    ASSUME NEW x \in Rows
    PROVE  /\ {Need(x), Lock(x), Insert(x), Close(x)} \subseteq Statements
           /\ Need(x).op = "need" /\ Need(x).row = x /\ Lock(x).op = "lock" /\ Lock(x).row = x
           /\ Insert(x).op = "insert" /\ Insert(x).row = x
           /\ Close(x).op = "close" /\ Close(x).row = x
  BY DEF Need, Lock, Insert, Close, Statements

\* Every ordered program follows the discipline, from the start.
LEMMA AcceptDisciplined ==
    ASSUME Roles, NEW r \in Requests
    PROVE  AcceptOffer(r) \in Seq(Statements) /\ Disciplined(AcceptOffer(r), {})
  <1> DEFINE p == AcceptOffer(r)
  <1>0. ItemOf[r] \in Items /\ HelperOf[r] \in Users
    BY DEF Roles
  <1>1. /\ p \in Seq(Statements) /\ Len(p) = 6
        /\ p[1] = Need(Offer(r)) /\ p[2] = Need(Request(r)) /\ p[3] = Need(Item(ItemOf[r]))
        /\ p[4] = Close(Offer(r)) /\ p[5] = Insert(Match(r)) /\ p[6] = Need(Stats(HelperOf[r]))
    BY <1>0, LevelIs, ItemLevel, StatsLevel, StatementsOf DEF AcceptOffer, Bump
  <1> HIDE DEF p
  <1>2. Disciplined(p, {})
    BY <1>0, <1>1, LevelIs, ItemLevel, StatsLevel, StatementsOf DEF Disciplined
  <1> QED
    BY <1>1, <1>2 DEF p

LEMMA AcceptNothingDisciplined ==
    ASSUME Roles, NEW r \in Requests
    PROVE  AcceptFindsNothing(r) \in Seq(Statements) /\ Disciplined(AcceptFindsNothing(r), {})
  <1> DEFINE p == AcceptFindsNothing(r)
  <1>0. ItemOf[r] \in Items /\ HelperOf[r] \in Users
    BY DEF Roles
  <1>1. /\ p \in Seq(Statements) /\ Len(p) = 4
        /\ p[1] = Need(Offer(r)) /\ p[2] = Need(Request(r)) /\ p[3] = Need(Item(ItemOf[r]))
        /\ p[4] = Close(Offer(r))
    BY <1>0, LevelIs, ItemLevel, StatsLevel, StatementsOf DEF AcceptFindsNothing
  <1> HIDE DEF p
  <1>2. Disciplined(p, {})
    BY <1>0, <1>1, LevelIs, ItemLevel, StatsLevel, StatementsOf DEF Disciplined
  <1> QED
    BY <1>1, <1>2 DEF p

LEMMA DeclineDisciplined ==
    ASSUME Roles, NEW r \in Requests
    PROVE  DeclineOffer(r) \in Seq(Statements) /\ Disciplined(DeclineOffer(r), {})
  <1> DEFINE p == DeclineOffer(r)
  <1>0. ItemOf[r] \in Items /\ HelperOf[r] \in Users
    BY DEF Roles
  <1>1. /\ p \in Seq(Statements) /\ Len(p) = 4
        /\ p[1] = Need(Offer(r)) /\ p[2] = Need(Request(r)) /\ p[3] = Close(Offer(r))
        /\ p[4] = Need(Stats(HelperOf[r]))
    BY <1>0, LevelIs, ItemLevel, StatsLevel, StatementsOf DEF DeclineOffer, Bump
  <1> HIDE DEF p
  <1>2. Disciplined(p, {})
    BY <1>0, <1>1, LevelIs, ItemLevel, StatsLevel, StatementsOf DEF Disciplined
  <1> QED
    BY <1>1, <1>2 DEF p

LEMMA ExpireDisciplined ==
    ASSUME Roles, NEW r \in Requests
    PROVE  ExpireOffer(r) \in Seq(Statements) /\ Disciplined(ExpireOffer(r), {})
  <1> DEFINE p == ExpireOffer(r)
  <1>0. ItemOf[r] \in Items /\ HelperOf[r] \in Users
    BY DEF Roles
  <1>1. /\ p \in Seq(Statements) /\ Len(p) = 3
        /\ p[1] = Need(Offer(r)) /\ p[2] = Need(Request(r)) /\ p[3] = Close(Offer(r))
    BY <1>0, LevelIs, ItemLevel, StatsLevel, StatementsOf DEF ExpireOffer
  <1> HIDE DEF p
  <1>2. Disciplined(p, {})
    BY <1>0, <1>1, LevelIs, ItemLevel, StatsLevel, StatementsOf DEF Disciplined
  <1> QED
    BY <1>1, <1>2 DEF p

LEMMA PassDisciplined ==
    ASSUME Roles, NEW r \in Requests
    PROVE  PassOffers(r) \in Seq(Statements) /\ Disciplined(PassOffers(r), {})
  <1> DEFINE p == PassOffers(r)
  <1>0. ItemOf[r] \in Items /\ HelperOf[r] \in Users
    BY DEF Roles
  <1>1. /\ p \in Seq(Statements) /\ Len(p) = 4
        /\ p[1] = Lock(Offer(r)) /\ p[2] = Need(Request(r)) /\ p[3] = Insert(Offer(r))
        /\ p[4] = Need(Stats(HelperOf[r]))
    BY <1>0, LevelIs, ItemLevel, StatsLevel, StatementsOf DEF PassOffers, Bump
  <1> HIDE DEF p
  <1>2. Disciplined(p, {})
    BY <1>0, <1>1, LevelIs, ItemLevel, StatsLevel, StatementsOf DEF Disciplined
  <1> QED
    BY <1>1, <1>2 DEF p

LEMMA CloseDisciplined ==
    ASSUME Roles, NEW r \in Requests
    PROVE  CloseMatch(r) \in Seq(Statements) /\ Disciplined(CloseMatch(r), {})
  <1> DEFINE p == CloseMatch(r)
  <1>0. ItemOf[r] \in Items /\ HelperOf[r] \in Users
    BY DEF Roles
  <1>1. /\ p \in Seq(Statements) /\ Len(p) = 4
        /\ p[1] = Need(Request(r)) /\ p[2] = Need(Item(ItemOf[r])) /\ p[3] = Need(Match(r))
        /\ p[4] = Close(Match(r))
    BY <1>0, LevelIs, ItemLevel, StatsLevel, StatementsOf DEF CloseMatch
  <1> HIDE DEF p
  <1>2. Disciplined(p, {})
    BY <1>0, <1>1, LevelIs, ItemLevel, StatsLevel, StatementsOf DEF Disciplined
  <1> QED
    BY <1>1, <1>2 DEF p

LEMMA SettleDisciplined ==
    ASSUME Roles, NEW r \in Requests
    PROVE  SettleMatch(r) \in Seq(Statements) /\ Disciplined(SettleMatch(r), {})
  <1> DEFINE p == SettleMatch(r)
  <1>0. ItemOf[r] \in Items /\ HelperOf[r] \in Users
    BY DEF Roles
  <1>1. /\ p \in Seq(Statements) /\ Len(p) = 5
        /\ p[1] = Need(Request(r)) /\ p[2] = Need(Item(ItemOf[r])) /\ p[3] = Need(Match(r))
        /\ p[4] = Close(Match(r)) /\ p[5] = Need(Stats(HelperOf[r]))
    BY <1>0, LevelIs, ItemLevel, StatsLevel, StatementsOf DEF SettleMatch, CloseMatch, Bump
  <1> HIDE DEF p
  <1>2. Disciplined(p, {})
    BY <1>0, <1>1, LevelIs, ItemLevel, StatsLevel, StatementsOf DEF Disciplined
  <1> QED
    BY <1>1, <1>2 DEF p

LEMMA SingleDisciplined ==
    ASSUME NEW x \in Rows
    PROVE  <<Need(x)>> \in Seq(Statements) /\ Disciplined(<<Need(x)>>, {})
  BY StatementsOf DEF Disciplined

LEMMA ProgramsDisciplined ==
    ASSUME Roles, ~OrderBreakers, NEW p \in Programs
    PROVE  p \in Seq(Statements) /\ Disciplined(p, {})
  <1>1. CASE \E i \in Items : p = UpdateInventory(i)
    BY <1>1, ItemLevel, SingleDisciplined DEF UpdateInventory
  <1>2. ASSUME NEW r \in Requests,
               p \in {AcceptOffer(r), AcceptFindsNothing(r), DeclineOffer(r), ExpireOffer(r),
                      PassOffers(r), CloseMatch(r), SettleMatch(r), SetMeetingState(r)}
        PROVE  p \in Seq(Statements) /\ Disciplined(p, {})
    <2>1. CASE p = SetMeetingState(r)
      BY <2>1, LevelIs, SingleDisciplined DEF SetMeetingState
    <2> QED
      BY <1>2, <2>1, AcceptDisciplined, AcceptNothingDisciplined, DeclineDisciplined,
         ExpireDisciplined, PassDisciplined, CloseDisciplined, SettleDisciplined
  <1> QED
    BY <1>1, <1>2 DEF Programs, Ordered

-----------------------------------------------------------------------------
(* The invariant *)

LockTypeOK ==
    /\ todo \in [Processes -> Seq(Statements)]
    /\ held \in [Processes -> SUBSET Rows]
    /\ effects \in [Processes -> SUBSET Statements]
    /\ open \in SUBSET Rows

\* Two transactions never hold the same row.
Exclusive == \A t, s \in Processes : s # t => held[t] \cap held[s] = {}

\* A held row is there, or its holder has inserted it under the lock of its request.
HeldIsReal ==
    \A t \in Processes : \A x \in held[t] :
        \/ x \in Permanent \cup open
        \/ Insert(x) \in effects[t] /\ Parent(x) \in held[t]

\* Only the holder of a row closes it.
ClosesItsOwn ==
    \A t \in Processes : \A e \in effects[t] : e.op = "close" => e.row \in held[t]

LockInv ==
    /\ LockTypeOK
    /\ \A t \in Processes : Disciplined(todo[t], held[t])
    /\ Exclusive /\ HeldIsReal /\ ClosesItsOwn

\* The next statement of a disciplined transaction.
LEMMA NextStatement ==
    ASSUME NEW p \in Seq(Statements), NEW H, p # <<>>, Disciplined(p, H)
    PROVE  /\ Head(p) \in Statements
           /\ Head(p).op \in {"need", "lock"} => \A x \in H : Level(x) < Level(Head(p).row)
           /\ Head(p).op = "close" => Head(p).row \in H
           /\ Head(p).op = "insert" => /\ Head(p).row \notin Permanent
                                       /\ Parent(Head(p).row) \in H
  <1>1. Len(p) >= 1 /\ Head(p) = p[1] /\ p[1] \in Statements
    OBVIOUS
  <1>2. 1 \in 1 .. Len(p) /\ 1 .. 1 - 1 = {}
    BY <1>1
  <1> QED
    BY <1>1, <1>2 DEF Disciplined

\* Executing a statement keeps to the discipline.
LEMMA RestDisciplined ==
    ASSUME NEW p \in Seq(Statements), NEW H, p # <<>>, Disciplined(p, H), NEW G,
           G = H \/ (G = H \cup {Head(p).row} /\ Head(p).op # "close"),
           Head(p).op = "need" => Head(p).row \in G
    PROVE  Tail(p) \in Seq(Statements) /\ Disciplined(Tail(p), G)
  <1> DEFINE q == Tail(p)
  <1>1. /\ q \in Seq(Statements) /\ Len(q) = Len(p) - 1 /\ Len(p) \in Nat /\ Len(p) >= 1
        /\ \A i \in 1 .. Len(q) : q[i] = p[i + 1]
        /\ Head(p) = p[1]
    OBVIOUS
  <1> HIDE DEF q
  <1> SUFFICES ASSUME NEW i \in 1 .. Len(q)
               PROVE  /\ q[i].op \in {"need", "lock"} =>
                            /\ \A x \in G : Level(x) < Level(q[i].row)
                            /\ \A j \in 1 .. i - 1 :
                                  q[j].op # "close" => Level(q[j].row) < Level(q[i].row)
                      /\ q[i].op = "close" =>
                            q[i].row \in G \/ \E j \in 1 .. i - 1 : q[j] = Need(q[i].row)
                      /\ q[i].op = "insert" =>
                            /\ q[i].row \notin Permanent
                            /\ \/ Parent(q[i].row) \in G
                               \/ \E j \in 1 .. i - 1 : q[j] = Need(Parent(q[i].row))
    BY <1>1 DEF Disciplined, q
  <1>2. i + 1 \in 1 .. Len(p) /\ q[i] = p[i + 1] /\ (i + 1) - 1 = i
    BY <1>1
  <1>3. \A j \in 1 .. i - 1 : q[j] = p[j + 1] /\ j + 1 \in 1 .. i
    BY <1>1
  <1>4. \A j \in 1 .. i : j = 1 \/ (j - 1 \in 1 .. i - 1 /\ p[j] = q[j - 1])
    BY <1>1
  <1>h. H \subseteq G
    OBVIOUS
  <1>n. \A x : p[1] = Need(x) => x \in G
    BY <1>1 DEF Need
  <1>5. ASSUME q[i].op \in {"need", "lock"}
        PROVE  /\ \A x \in G : Level(x) < Level(q[i].row)
               /\ \A j \in 1 .. i - 1 : q[j].op # "close" => Level(q[j].row) < Level(q[i].row)
    <2>1. /\ \A x \in H : Level(x) < Level(q[i].row)
          /\ \A j \in 1 .. i : p[j].op # "close" => Level(p[j].row) < Level(q[i].row)
      BY <1>2, <1>5 DEF Disciplined
    <2>2. p[1].op # "close" => Level(p[1].row) < Level(q[i].row)
      BY <2>1
    <2> QED
      BY <1>1, <1>3, <2>1, <2>2
  <1>6. ASSUME q[i].op = "close"
        PROVE  q[i].row \in G \/ \E j \in 1 .. i - 1 : q[j] = Need(q[i].row)
    <2>1. q[i].row \in H \/ \E j \in 1 .. i : p[j] = Need(q[i].row)
      BY <1>2, <1>6 DEF Disciplined
    <2> QED
      BY <1>4, <1>h, <1>n, <2>1
  <1>7. ASSUME q[i].op = "insert"
        PROVE  /\ q[i].row \notin Permanent
               /\ \/ Parent(q[i].row) \in G
                  \/ \E j \in 1 .. i - 1 : q[j] = Need(Parent(q[i].row))
    <2>1. /\ q[i].row \notin Permanent
          /\ Parent(q[i].row) \in H \/ \E j \in 1 .. i : p[j] = Need(Parent(q[i].row))
      BY <1>2, <1>7 DEF Disciplined
    <2> QED
      BY <1>4, <1>h, <1>n, <2>1
  <1> QED
    BY <1>5, <1>6, <1>7

LEMMA InitKeeps ==
    ASSUME Init
    PROVE  LockInv
  <1>1. LockTypeOK
    BY DEF Init, Idle, LockTypeOK
  <1>2. \A t \in Processes : Disciplined(todo[t], held[t])
    BY DEF Init, Idle, Disciplined
  <1>3. Exclusive /\ HeldIsReal /\ ClosesItsOwn
    BY DEF Init, Exclusive, HeldIsReal, ClosesItsOwn
  <1> QED
    BY <1>1, <1>2, <1>3 DEF LockInv

LEMMA BeginKeeps ==
    ASSUME Roles, ~OrderBreakers, LockInv, NEW t \in Processes, Begin(t)
    PROVE  LockInv'
  <1>1. PICK p \in Programs : todo' = [todo EXCEPT ![t] = p]
    BY DEF Begin
  <1>2. held[t] = {} /\ held' = held /\ effects' = effects /\ open' = open
    BY DEF Begin
  <1>3. p \in Seq(Statements) /\ Disciplined(p, {})
    BY ProgramsDisciplined
  <1>4. LockTypeOK'
    BY <1>1, <1>2, <1>3 DEF LockInv, LockTypeOK
  <1>5. ASSUME NEW s \in Processes
        PROVE  Disciplined(todo'[s], held'[s])
    <2>1. CASE s = t
      <3>1. todo'[s] = p /\ held'[s] = {}
        BY <1>1, <1>2, <2>1 DEF LockInv, LockTypeOK
      <3> QED
        BY <1>3, <3>1
    <2>2. CASE s # t
      <3>1. todo'[s] = todo[s] /\ held'[s] = held[s]
        BY <1>1, <1>2, <2>2 DEF LockInv, LockTypeOK
      <3> QED
        BY <3>1 DEF LockInv
    <2> QED
      BY <2>1, <2>2
  <1>6. Exclusive' /\ HeldIsReal' /\ ClosesItsOwn'
    BY <1>2 DEF LockInv, Exclusive, HeldIsReal, ClosesItsOwn
  <1>7. (\A s \in Processes : Disciplined(todo[s], held[s]))'
    BY <1>5
  <1> QED
    BY <1>4, <1>6, <1>7 DEF LockInv

\* Both ends of a transaction drop its rows, and none of the others'.
LEMMA EndKeeps ==
    ASSUME LockInv, NEW t \in Processes,
           todo' = [todo EXCEPT ![t] = <<>>],
           held' = [held EXCEPT ![t] = {}],
           effects' = [effects EXCEPT ![t] = {}],
           open' \in SUBSET Rows,
           \A x \in open : x \in open' \/ x \in held[t]
    PROVE  LockInv'
  <1>1. LockTypeOK'
    BY DEF LockInv, LockTypeOK
  <1>2. todo'[t] = <<>> /\ held'[t] = {} /\ effects'[t] = {}
    BY DEF LockInv, LockTypeOK
  <1>3. \A s \in Processes \ {t} :
            todo'[s] = todo[s] /\ held'[s] = held[s] /\ effects'[s] = effects[s]
    BY DEF LockInv, LockTypeOK
  <1>4. Disciplined(<<>>, {})
    BY DEF Disciplined
  <1>5. ASSUME NEW s \in Processes
        PROVE  Disciplined(todo'[s], held'[s])
    <2>1. CASE s = t
      BY <1>2, <1>4, <2>1
    <2>2. CASE s # t
      BY <1>3, <2>2 DEF LockInv
    <2> QED
      BY <2>1, <2>2
  <1>6. Exclusive'
    BY <1>2, <1>3 DEF LockInv, Exclusive
  <1>7. HeldIsReal'
    <2> SUFFICES ASSUME NEW s \in Processes, NEW x \in held'[s]
                 PROVE  \/ x \in Permanent \cup open'
                        \/ Insert(x) \in effects'[s] /\ Parent(x) \in held'[s]
      BY DEF HeldIsReal
    <2>1. s # t /\ x \in held[s] /\ x \notin held[t]
      BY <1>2, <1>3 DEF LockInv, Exclusive
    <2> QED
      BY <1>3, <2>1 DEF LockInv, HeldIsReal
  <1>8. ClosesItsOwn'
    BY <1>2, <1>3 DEF LockInv, ClosesItsOwn
  <1>9. (\A s \in Processes : Disciplined(todo[s], held[s]))'
    BY <1>5
  <1> QED
    BY <1>1, <1>6, <1>7, <1>8, <1>9 DEF LockInv

LEMMA CommitKeeps ==
    ASSUME LockInv, NEW t \in Processes, Commit(t)
    PROVE  LockInv'
  <1>1. /\ todo[t] = <<>> /\ todo' = todo
        /\ held' = [held EXCEPT ![t] = {}] /\ effects' = [effects EXCEPT ![t] = {}]
        /\ open' = (open \cup {s.row : s \in {e \in effects[t] : e.op = "insert"}})
                     \ {s.row : s \in {e \in effects[t] : e.op = "close"}}
    BY DEF Commit, Idle
  <1>2. todo' = [todo EXCEPT ![t] = <<>>]
    BY <1>1 DEF LockInv, LockTypeOK
  <1>3. \A e \in effects[t] : e.row \in Rows
    BY DEF LockInv, LockTypeOK, Statements
  <1>4. open' \in SUBSET Rows
    BY <1>1, <1>3 DEF LockInv, LockTypeOK
  <1>5. \A x \in open : x \in open' \/ x \in held[t]
    BY <1>1 DEF LockInv, ClosesItsOwn
  <1> QED
    BY <1>1, <1>2, <1>4, <1>5, EndKeeps

LEMMA RollbackKeeps ==
    ASSUME LockInv, NEW t \in Processes, Rollback(t)
    PROVE  LockInv'
  <1>1. open' \in SUBSET Rows /\ \A x \in open : x \in open' \/ x \in held[t]
    BY DEF LockInv, LockTypeOK, Rollback
  <1> QED
    BY <1>1, EndKeeps DEF Rollback, Idle

LEMMA ExecuteKeeps ==
    ASSUME LockInv, NEW t \in Processes, Execute(t)
    PROVE  LockInv'
  <1> DEFINE e == Head(todo[t])
             H == held[t]
             G == held'[t]
  <1>1. /\ todo[t] # <<>> /\ todo[t] \in Seq(Statements) /\ Disciplined(todo[t], H)
        /\ e.op = "insert" => e.row \notin open
        /\ e.op = "need" => Finds(t)
        /\ e.op # "insert" /\ Finds(t) => ~HeldByOther(t)
        /\ open' = open
    BY DEF Execute, Idle, LockInv, LockTypeOK
  <1>2. /\ todo' = [todo EXCEPT ![t] = Tail(todo[t])]
        /\ held' = [held EXCEPT ![t] = IF e.op = "insert" \/ Finds(t) THEN H \cup {e.row} ELSE H]
        /\ effects' = [effects EXCEPT ![t] =
                          IF e.op \in {"insert", "close"} THEN effects[t] \cup {e} ELSE effects[t]]
    BY DEF Execute
  <1>3. /\ todo'[t] = Tail(todo[t])
        /\ G = IF e.op = "insert" \/ Finds(t) THEN H \cup {e.row} ELSE H
        /\ effects'[t] = IF e.op \in {"insert", "close"} THEN effects[t] \cup {e} ELSE effects[t]
    BY <1>2 DEF LockInv, LockTypeOK
  <1>4. \A s \in Processes \ {t} :
            todo'[s] = todo[s] /\ held'[s] = held[s] /\ effects'[s] = effects[s]
    BY <1>2 DEF LockInv, LockTypeOK
  <1>5. /\ e \in Statements
        /\ e.op = "close" => e.row \in H
        /\ e.op = "insert" => e.row \notin Permanent /\ Parent(e.row) \in H
    BY <1>1, NextStatement
  <1>6. e.op \in {"need", "lock", "insert", "close"} /\ e.row \in Rows
    BY <1>5 DEF Statements
  <1>f. Finds(t) <=> e.row \in Permanent \cup open \cup H
    BY DEF Finds
  <1>g. HeldByOther(t) <=> \E s \in Processes \ {t} : e.row \in held[s]
    BY DEF HeldByOther
  <1>t. LockInv /\ LockTypeOK
    BY DEF LockInv
  <1>T. H \subseteq Rows /\ effects[t] \subseteq Statements /\ open \subseteq Rows
    BY <1>t DEF LockTypeOK
  <1> HIDE DEF e
  <1>7. /\ G = H \/ (G = H \cup {e.row} /\ e.op # "close")
        /\ e.op = "need" => e.row \in G
        /\ H \subseteq G /\ G \subseteq H \cup {e.row}
    BY <1>1, <1>3, <1>5, <1>f
  <1>8. Tail(todo[t]) \in Seq(Statements) /\ Disciplined(Tail(todo[t]), G)
    <2> HIDE DEF G, H
    <2> QED
      BY <1>1, <1>7, RestDisciplined DEF e
  <1>9. LockTypeOK'
    <2>1. todo' \in [Processes -> Seq(Statements)]
      BY <1>2, <1>8, <1>t DEF LockTypeOK
    <2>2. held' \in [Processes -> SUBSET Rows]
      BY <1>2, <1>6, <1>t, <1>T DEF LockTypeOK
    <2>3. effects' \in [Processes -> SUBSET Statements]
      BY <1>2, <1>5, <1>t, <1>T DEF LockTypeOK
    <2> QED
      BY <1>1, <2>1, <2>2, <2>3, <1>T DEF LockTypeOK
  <1>10. (\A s \in Processes : Disciplined(todo[s], held[s]))'
    <2> SUFFICES ASSUME NEW s \in Processes
                 PROVE  Disciplined(todo'[s], held'[s])
      OBVIOUS
    <2>1. CASE s = t
      BY <1>3, <1>8, <2>1
    <2>2. CASE s # t
      BY <1>4, <2>2 DEF LockInv
    <2> QED
      BY <2>1, <2>2
  <1>11. \A s \in Processes \ {t} : G \cap held[s] = {}
    <2> SUFFICES ASSUME NEW s \in Processes \ {t}, e.row \in held[s], e.row \in G, e.row \notin H
                 PROVE  FALSE
      BY <1>7 DEF LockInv, Exclusive
    <2>1. e.op = "insert"
      BY <1>1, <1>3, <1>g
    <2>2. Parent(e.row) \in held[s]
      BY <1>1, <1>5, <2>1 DEF LockInv, HeldIsReal
    <2>3. Parent(e.row) \in H
      BY <1>5, <2>1
    <2> QED
      BY <2>2, <2>3 DEF LockInv, Exclusive
  <1>12. Exclusive'
    BY <1>4, <1>11 DEF LockInv, Exclusive
  <1>13. HeldIsReal'
    <2> SUFFICES ASSUME NEW s \in Processes, NEW x \in held'[s]
                 PROVE  \/ x \in Permanent \cup open
                        \/ Insert(x) \in effects'[s] /\ Parent(x) \in held'[s]
      BY <1>1 DEF HeldIsReal
    <2>1. CASE x \in held[s]
      <3>1. \/ x \in Permanent \cup open
            \/ Insert(x) \in effects[s] /\ Parent(x) \in held[s]
        BY <2>1 DEF LockInv, HeldIsReal
      <3>2. effects[s] \subseteq effects'[s] /\ held[s] \subseteq held'[s]
        BY <1>3, <1>4, <1>7
      <3> QED
        BY <3>1, <3>2
    <2>2. CASE x \notin held[s]
      <3>1. s = t /\ x = e.row /\ (e.op = "insert" \/ x \in Permanent \cup open)
        BY <1>3, <1>4, <1>f, <2>2
      <3>2. ASSUME e.op = "insert"
            PROVE  Insert(x) \in effects'[s] /\ Parent(x) \in held'[s]
        <4>1. e = Insert(x)
          BY <1>5, <3>1, <3>2 DEF Statements, Insert
        <4> QED
          BY <1>3, <1>5, <1>7, <3>1, <3>2, <4>1
      <3> QED
        BY <3>1, <3>2
    <2> QED
      BY <2>1, <2>2
  <1>14. ClosesItsOwn'
    <2> SUFFICES ASSUME NEW s \in Processes, NEW d \in effects'[s], d.op = "close"
                 PROVE  d.row \in held'[s]
      BY DEF ClosesItsOwn
    <2>1. CASE d \in effects[s]
      BY <1>4, <1>7, <2>1 DEF LockInv, ClosesItsOwn
    <2>2. CASE d \notin effects[s]
      <3>1. s = t /\ d = e
        BY <1>3, <1>4, <2>2
      <3> QED
        BY <1>5, <1>7, <3>1
    <2> QED
      BY <2>1, <2>2
  <1> QED
    BY <1>9, <1>10, <1>12, <1>13, <1>14 DEF LockInv

\* Every step keeps the invariant.
LEMMA LockInvKept ==
    ASSUME Roles, ~OrderBreakers, LockInv, [Next]_vars
    PROVE  LockInv'
  <1>1. CASE Next
    BY <1>1, BeginKeeps, ExecuteKeeps, CommitKeeps, RollbackKeeps DEF Next
  <1>2. CASE UNCHANGED vars
    BY <1>2 DEF vars, LockInv, LockTypeOK, Exclusive, HeldIsReal, ClosesItsOwn, Disciplined
  <1> QED
    BY <1>1, <1>2

-----------------------------------------------------------------------------
(* No deadlock *)

\* What is the row t waits for.
Awaited(t) == Head(todo[t]).row

\* A transaction waits above every row it holds.
LEMMA WaitsUpwards ==
    ASSUME LockInv, NEW t \in Processes, NEW s \in Processes, WaitsFor(t, s)
    PROVE  Awaited(t) \in held[s] /\ \A x \in held[t] : Level(x) < Level(Awaited(t))
  <1>1. /\ todo[t] # <<>> /\ s # t /\ Head(todo[t]).op # "insert" /\ Awaited(t) \in held[s]
        /\ todo[t] \in Seq(Statements) /\ Disciplined(todo[t], held[t])
    BY DEF WaitsFor, Idle, Awaited, LockInv, LockTypeOK
  <1>2. /\ Head(todo[t]) \in Statements
        /\ Head(todo[t]).op \in {"need", "lock"} => \A x \in held[t] : Level(x) < Level(Awaited(t))
        /\ Head(todo[t]).op = "close" => Awaited(t) \in held[t]
    BY <1>1, NextStatement DEF Awaited
  <1>3. Head(todo[t]).op \in {"need", "lock", "insert", "close"}
    BY <1>2 DEF Statements
  <1>4. Head(todo[t]).op # "close"
    BY <1>1, <1>2 DEF LockInv, Exclusive
  <1> QED
    BY <1>1, <1>2, <1>3, <1>4

\* So one it waits for waits higher still.
LEMMA NextWaitIsHigher ==
    ASSUME LockInv, NEW t \in Processes, NEW s \in Processes, NEW u \in Processes,
           WaitsFor(t, s), WaitsFor(s, u)
    PROVE  Level(Awaited(t)) < Level(Awaited(s))
  BY WaitsUpwards

LEMMA LockInvMeansNoDeadlock ==
    ASSUME LockInv
    PROVE  NoDeadlock
  <1> SUFFICES ASSUME NEW T \in (SUBSET Processes) \ {{}},
                      \A t \in T : \E s \in T : WaitsFor(t, s)
               PROVE  FALSE
    BY DEF NoDeadlock
  <1>1. PICK a \in T : TRUE
    OBVIOUS
  <1>2. PICK b \in T : WaitsFor(a, b)
    BY <1>1
  <1>3. PICK c \in T : WaitsFor(b, c)
    BY <1>2
  <1>4. PICK d \in T : WaitsFor(c, d)
    BY <1>3
  <1>5. PICK e \in T : WaitsFor(d, e)
    BY <1>4
  <1>6. PICK f \in T : WaitsFor(e, f)
    BY <1>5
  <1>g. PICK g \in T : WaitsFor(f, g)
    BY <1>6
  <1>7. /\ Level(Awaited(a)) < Level(Awaited(b)) /\ Level(Awaited(b)) < Level(Awaited(c))
        /\ Level(Awaited(c)) < Level(Awaited(d)) /\ Level(Awaited(d)) < Level(Awaited(e))
        /\ Level(Awaited(e)) < Level(Awaited(f))
    BY <1>2, <1>3, <1>4, <1>5, <1>6, <1>g, NextWaitIsHigher
  <1>8. /\ Level(Awaited(a)) \in 1 .. 5 /\ Level(Awaited(b)) \in 1 .. 5
        /\ Level(Awaited(c)) \in 1 .. 5 /\ Level(Awaited(d)) \in 1 .. 5
        /\ Level(Awaited(e)) \in 1 .. 5 /\ Level(Awaited(f)) \in 1 .. 5
    BY LevelBounds
  <1> QED
    BY <1>7, <1>8

\* NoDeadlock: transactions that follow the global lock order never wait for each other in a
\* circle, whoever asks whom for what.  ~OrderBreakers leaves out the three programs that do
\* not follow the order: the owner's cancel and the expiring pass, which update an offer under
\* the lock of its request (requests/service.ts cancelRequest, workers/matching.ts), and the
\* disputed settlement, which takes the reliability rows of two users (settleLocked).
THEOREM OrderNeverDeadlocks ==
    ASSUME Roles, ~OrderBreakers
    PROVE  Spec => []NoDeadlock
  <1>1. Init => LockInv
    BY InitKeeps
  <1>2. LockInv /\ [Next]_vars => LockInv'
    BY LockInvKept
  <1>3. LockInv => NoDeadlock
    BY LockInvMeansNoDeadlock
  <1> QED
    BY <1>1, <1>2, <1>3, PTL DEF Spec

=============================================================================
