---------------------------- MODULE DeviceProofs ----------------------------
(***************************************************************************)
(* Proofs about what one phone does on its own, for any number of accounts, *)
(* queued ops, offers and screens: what it stores and for whom (Device),    *)
(* its stack of screens (Screens), and helping switched off (Helping).      *)
(***************************************************************************)
EXTENDS Phone, SequenceTheorems, FiniteSetTheorems, TLAPS

-----------------------------------------------------------------------------
(* Device: the account the phone holds, and whose the storage is *)

UserOrNone == Users \cup {None}
LeavingSteps == {"no", "asked", "forgotten", "wiped"}

\* The token in the keyring, the account in memory and the last account of the storage agree,
\* as far as the sign-out has not got.
AccountInv ==
    /\ running \in BOOLEAN /\ me \in UserOrNone /\ keyring \in UserOrNone /\ lastUser \in UserOrNone
    /\ leaving \in LeavingSteps
    /\ leaving # "no" => running /\ me # None
    /\ ~running => me = None
    /\ keyring # None => lastUser = keyring
    /\ running => keyring = IF leaving \in {"no", "asked"} THEN me ELSE None
    /\ leaving = "forgotten" => lastUser = me
    /\ leaving = "wiped" => lastUser = None

\* What is stored was stored for that account, or strayed in.
StoredInv ==
    /\ joined \subseteq Users \X Events /\ joinedSto \subseteq Users \X Events
    /\ joining = None \/ joining \in Users \X Events
    /\ pushing \subseteq Users /\ registered \subseteq Users /\ marker \in BOOLEAN
    /\ \A j \in joinedSto : j[1] = lastUser \/ j \in strays
    /\ \A o \in Listed(queue) : author[o] = lastUser \/ o \in strays
    /\ marker => lastUser \in registered \/ \E u \in Users : <<u, "marker">> \in strays

-----------------------------------------------------------------------------
(* Device: the queue, its copies, and the calls under way *)

Steps == {"idle", "posted", "insert", "created", "refused", "conflict", "offline", "write"}
Handled(o) == o \in gone \cup overlapped \/ \E u \in Users : rows[u][o] > 0

\* Only what was said to be saved is in a list, and it has an author.
ListsInv ==
    /\ queue \in Seq(Entries)
    /\ copy \in [Callers -> Seq(Entries)] /\ todo \in [Flushes -> Seq(Entries)]
    /\ author \in [Ops -> UserOrNone] /\ saved \subseteq Ops
    /\ \A o \in saved : author[o] # None
    /\ Listed(queue) \subseteq saved
    /\ \A c \in Callers : Listed(copy[c]) \subseteq saved
    /\ \A f \in Flushes : Listed(todo[f]) \subseteq saved

WaitsInv ==
    /\ as \in [Flushes -> UserOrNone] /\ call \in [Callers -> [pc : Steps, op : Ops \cup {None}]]
    /\ rows \in [Users -> [Ops -> {0, 1}]]
    /\ heldBack \in UserOrNone /\ formAs \in UserOrNone /\ formOp \in Ops \cup {None}

CallsInv ==
    /\ ~running => (\A c \in Callers : call[c] = Idle) /\ (\A f \in Flushes : as[f] = None)
    /\ \A c \in Callers : call[c].pc = "idle" => call[c] = Idle
    /\ call["form"].pc = "idle" => formOp = None
    /\ call["form"].pc # "idle" => /\ formOp \in Ops /\ formAs \in Users /\ formOp \notin saved
                                   /\ author[formOp] = formAs /\ call["form"].op = formOp
    /\ \A f \in Flushes :
         /\ as[f] = None => todo[f] = <<>> /\ call[f] = Idle
         /\ call[f].pc # "idle" => todo[f] # <<>> /\ call[f].op = Head(todo[f]).op
         /\ call[f].pc = "created" => \E u \in Users : rows[u][call[f].op] > 0

\* What a flush has still to send is in its copy, or has been dealt with.
WorkInv ==
    /\ \A o \in saved : o \in Listed(queue) \/ Handled(o)
    /\ \A f \in Flushes : \A o \in Listed(todo[f]) : o \in Listed(copy[f]) \/ Handled(o)

Distinct(q) == \A i, j \in 1..Len(q) : q[i].op = q[j].op => i = j
OnceInv == Distinct(queue) /\ \A c \in Callers : Distinct(copy[c])

QueueInv == ListsInv /\ WaitsInv /\ CallsInv /\ WorkInv /\ OnceInv
DeviceInv == AccountInv /\ StoredInv /\ QueueInv

accountVars == <<running, me, keyring, lastUser, leaving>>
storedVars == <<joined, joinedSto, joining, pushing, registered, marker, queue, lastUser>>
workVars == <<queue, copy, todo, author, saved, as, call, rows, heldBack, formAs, formOp, gone, overlapped>>

LEMMA DeviceConstants == /\ None \notin Users /\ None \notin Ops /\ None \notin Events
                         /\ "form" \in Callers /\ "form" \notin Flushes /\ Flushes \subseteq Callers
                         /\ \A c \in Callers : c # "form" => c \in Flushes
  BY DeviceAssumption DEF Callers, Flushes

-----------------------------------------------------------------------------
(* Device: the account *)

LEMMA AccountIdle == ASSUME AccountInv, UNCHANGED accountVars PROVE AccountInv'
  BY DEF AccountInv, accountVars

LEMMA JoiningIsBeside == Joining \/ Notifying => UNCHANGED <<accountVars, queueVars>>
  <1>1. ASSUME NEW e \in Events, Join(e) \/ Leave(e) PROVE UNCHANGED <<accountVars, queueVars>>
    BY <1>1 DEF Join, Leave, accountVars, memory, storage
  <1>2. AddJoined => UNCHANGED <<accountVars, queueVars>>
    BY DEF AddJoined, accountVars
  <1>3. PushEffect => UNCHANGED <<accountVars, queueVars>>
    BY DEF PushEffect, accountVars, memory, storage
  <1>4. ASSUME NEW u \in Users, Registered(u) \/ NotRegistered(u) PROVE UNCHANGED <<accountVars, queueVars>>
    BY <1>4 DEF Registered, NotRegistered, accountVars, memory, storage
  <1> QED
    BY <1>1, <1>2, <1>3, <1>4 DEF Joining, Notifying

LEMMA AddingIsBeside == Adding \/ Flushing => UNCHANGED <<accountVars, phone>>
  <1>1. ASSUME NEW o \in Ops, Submit(o) PROVE UNCHANGED <<accountVars, phone>>
    BY <1>1 DEF Submit, phone, memory, storage, accountVars
  <1>2. Answered \/ ReadForEnqueue \/ Enqueue => UNCHANGED <<accountVars, phone>>
    BY DEF Answered, ReadForEnqueue, Enqueue, phone, memory, storage, accountVars
  <1>3. ASSUME NEW c \in Callers, CheckAdd(c) \/ NotActive(c) \/ Insert(c) \/ ServerErrs(c) \/ Offline(c) PROVE UNCHANGED <<accountVars, phone>>
    BY <1>3 DEF CheckAdd, NotActive, Insert, ServerErrs, Offline, ServerOnly, phone, memory, storage, accountVars
  <1>4. ASSUME NEW u \in Users, NEW o \in Ops, LateInsert(u, o) PROVE UNCHANGED <<accountVars, phone>>
    BY <1>4 DEF LateInsert, ServerOnly, phone, memory, storage, accountVars
  <1>5. ASSUME NEW f \in Flushes, StartFlush(f) \/ PostNext(f) \/ FlushEnds(f) \/ Settle(f) \/ WriteQueue(f)
        PROVE  UNCHANGED <<accountVars, phone>>
    BY <1>5 DEF StartFlush, PostNext, FlushEnds, Settle, WriteQueue, phone, memory, storage, accountVars
  <1> QED
    BY <1>1, <1>2, <1>3, <1>4, <1>5 DEF Adding, Flushing

LEMMA AccountKeeps == ASSUME AccountInv, [DeviceNext]_deviceVars PROVE AccountInv'
  <1>1. ASSUME NEW u \in Users, SignIn(u) PROVE AccountInv'
    BY <1>1, DeviceConstants DEF SignIn, AccountInv, UserOrNone, LeavingSteps
  <1>2. SignOut => AccountInv'
    BY DEF SignOut, Signed, AccountInv, UserOrNone, LeavingSteps, memory, storage
  <1>3. ForgetToken => AccountInv'
    BY DEF ForgetToken, AccountInv, UserOrNone, LeavingSteps, memory, storage
  <1>4. Wipe => AccountInv'
    BY DEF Wipe, AccountInv, UserOrNone, LeavingSteps, memory
  <1>5. SignedOut => AccountInv'
    BY DEF SignedOut, AccountInv, UserOrNone, LeavingSteps, storage
  <1>6. SessionEnds => UNCHANGED accountVars
    BY DEF SessionEnds, memory, storage, accountVars
  <1>7. Kill => AccountInv'
    BY DEF Kill, AccountInv, UserOrNone, LeavingSteps, storage
  <1>8. Boot => AccountInv'
    BY DEF Boot, AccountInv, UserOrNone, LeavingSteps, storage
  <1>9. BootRejected => AccountInv'
    BY DEF BootRejected, AccountInv, UserOrNone, LeavingSteps, storage
  <1>10. UNCHANGED deviceVars => UNCHANGED accountVars
    BY DEF deviceVars, phone, memory, storage, accountVars
  <1> QED
    BY <1>1, <1>2, <1>3, <1>4, <1>5, <1>6, <1>7, <1>8, <1>9, <1>10, AccountIdle, JoiningIsBeside, AddingIsBeside
       DEF DeviceNext, Accounting

-----------------------------------------------------------------------------
(* Device: lists of ops *)

LEMMA ListedOps ==
    ASSUME NEW q \in Seq(Entries)
    PROVE  /\ Listed(q) \subseteq Ops
           /\ \A i \in 1..Len(q) : q[i] \in Entries /\ q[i].op \in Listed(q)
           /\ \A o \in Listed(q) : \E i \in 1..Len(q) : q[i].op = o
           /\ q # <<>> => Head(q) \in Entries /\ Head(q).op \in Listed(q)
  <1>1. Len(q) \in Nat /\ \A i \in 1..Len(q) : q[i] \in Entries
    BY ElementOfSeq, LenProperties
  <1>2. q # <<>> => Head(q) = q[1] /\ 1 \in 1..Len(q)
    BY <1>1, EmptySeq, HeadTailProperties
  <1> QED
    BY <1>1, <1>2 DEF Listed, Entries

LEMMA ListedAppend ==
    ASSUME NEW q \in Seq(Entries), NEW e \in Entries
    PROVE  Append(q, e) \in Seq(Entries) /\ Listed(Append(q, e)) = Listed(q) \cup {e.op}
  <1>1. /\ Append(q, e) \in Seq(Entries) /\ Len(Append(q, e)) = Len(q) + 1 /\ Append(q, e)[Len(q) + 1] = e
        /\ \A i \in 1..Len(q) : Append(q, e)[i] = q[i]
    BY AppendProperties
  <1>2. Len(q) \in Nat
    BY LenProperties
  <1>3. \A i \in 1..(Len(q) + 1) : i \in 1..Len(q) \/ i = Len(q) + 1
    BY <1>2
  <1>4. \A i \in 1..Len(q) : i \in 1..(Len(q) + 1)
    BY <1>2
  <1>5. Len(q) + 1 \in 1..(Len(q) + 1)
    BY <1>2
  <1> QED
    BY <1>1, <1>3, <1>4, <1>5, Zenon DEF Listed

LEMMA DistinctAppend ==
    ASSUME NEW q \in Seq(Entries), NEW e \in Entries, Distinct(q), e.op \notin Listed(q)
    PROVE  Distinct(Append(q, e))
  <1>1. /\ Len(Append(q, e)) = Len(q) + 1 /\ Append(q, e)[Len(q) + 1] = e
        /\ \A i \in 1..Len(q) : Append(q, e)[i] = q[i]
    BY AppendProperties
  <1>2. Len(q) \in Nat /\ \A i \in 1..Len(q) : q[i].op # e.op
    BY LenProperties DEF Listed
  <1>3. \A i \in 1..(Len(q) + 1) : i \in 1..Len(q) \/ i = Len(q) + 1
    BY <1>2
  <1> SUFFICES ASSUME NEW i \in 1..(Len(q) + 1), NEW j \in 1..(Len(q) + 1), Append(q, e)[i].op = Append(q, e)[j].op
               PROVE  i = j
    BY <1>1 DEF Distinct
  <1> QED
    BY <1>1, <1>2, <1>3, Zenon DEF Distinct

LEMMA ListedTail ==
    ASSUME NEW q \in Seq(Entries), q # <<>>
    PROVE  Tail(q) \in Seq(Entries) /\ Listed(Tail(q)) \subseteq Listed(q)
  <1>1. Tail(q) \in Seq(Entries) /\ Len(Tail(q)) = Len(q) - 1 /\ \A i \in 1..Len(Tail(q)) : Tail(q)[i] = q[i + 1]
    BY HeadTailProperties
  <1>2. Len(q) \in Nat
    BY LenProperties
  <1>3. \A i \in 1..Len(Tail(q)) : i + 1 \in 1..Len(q)
    BY <1>1, <1>2
  <1> QED
    BY <1>1, <1>3, Zenon DEF Listed

\* Without filters: everything else stays, in its order, and of an op queued once nothing is left.
LEMMA WithoutFilters ==
    ASSUME NEW q \in Seq(Entries), NEW o
    PROVE  /\ Without(q, o) \in Seq(Entries)
           /\ Listed(Without(q, o)) \subseteq Listed(q) /\ Listed(q) \ {o} \subseteq Listed(Without(q, o))
           /\ Distinct(q) => Distinct(Without(q, o)) /\ o \notin Listed(Without(q, o))
  <1>1. CASE o \notin Listed(q)
    BY <1>1 DEF Without
  <1>2. CASE o \in Listed(q)
    <2> DEFINE n == CHOOSE i \in 1..Len(q) : q[i].op = o
               w == RemoveAt(q, n)
    <2>1. n \in 1..Len(q) /\ q[n].op = o
      BY <1>2 DEF Listed
    <2>2. Without(q, o) = w
      BY <1>2 DEF Without
    <2> HIDE DEF n
    <2>3. Len(q) \in Nat
      BY LenProperties
    <2>4. w = SubSeq(q, 1, n - 1) \o SubSeq(q, n + 1, Len(q))
      BY DEF RemoveAt
    <2>5. /\ w \in Seq(Entries) /\ Len(w) = Len(q) - 1
          /\ \A i \in 1..Len(w) : w[i] = IF i < n THEN q[i] ELSE q[i + 1]
      <3> DEFINE s1 == SubSeq(q, 1, n - 1)
                 s2 == SubSeq(q, n + 1, Len(q))
      <3>1. 1 \in Int /\ n - 1 \in Int /\ n + 1 \in Int /\ Len(q) \in Int
        BY <2>1, <2>3
      <3>2. (\A i \in 1..(n - 1) : q[i] \in Entries) /\ (\A i \in (n + 1)..Len(q) : q[i] \in Entries)
        BY <2>1, <2>3, ElementOfSeq
      <3>3. s1 \in Seq(Entries) /\ Len(s1) = n - 1 /\ \A i \in 1..(n - 1) : s1[i] = q[i]
        BY <2>1, <2>3, <3>1, <3>2, SubSeqProperties
      <3>4. s2 \in Seq(Entries) /\ Len(s2) = Len(q) - n /\ \A i \in 1..(Len(q) - n) : s2[i] = q[n + i]
        BY <2>1, <2>3, <3>1, <3>2, SubSeqProperties
      <3>5. w = s1 \o s2
        BY <2>4
      <3> HIDE DEF s1, s2, w
      <3>6. /\ s1 \o s2 \in Seq(Entries) /\ Len(s1 \o s2) = Len(s1) + Len(s2)
            /\ \A i \in 1..Len(s1) + Len(s2) : (s1 \o s2)[i] = IF i <= Len(s1) THEN s1[i] ELSE s2[i - Len(s1)]
        BY <3>3, <3>4, ConcatProperties
      <3>7. w \in Seq(Entries) /\ Len(w) = Len(q) - 1
        BY <3>3, <3>4, <3>5, <3>6, <2>1, <2>3
      <3>8. ASSUME NEW i \in 1..Len(w) PROVE w[i] = IF i < n THEN q[i] ELSE q[i + 1]
        <4>1. w[i] = IF i <= n - 1 THEN s1[i] ELSE s2[i - (n - 1)]
          BY <3>3, <3>4, <3>5, <3>6, <3>7, <2>1, <2>3
        <4>2. i <= n - 1 => s1[i] = q[i]
          BY <3>3, <3>7, <2>1, <2>3
        <4>3. ~(i <= n - 1) => i - (n - 1) \in 1..(Len(q) - n) /\ n + (i - (n - 1)) = i + 1
          BY <3>7, <2>1, <2>3
        <4>4. ~(i <= n - 1) => s2[i - (n - 1)] = q[i + 1]
          BY <4>3, <3>4
        <4> QED
          BY <4>1, <4>2, <4>4, <2>1, <2>3
      <3> QED
        BY <3>7, <3>8
    <2> HIDE DEF w
    <2>7. Listed(w) \subseteq Listed(q)
      BY <2>1, <2>3, <2>5 DEF Listed
    <2>8. \A i \in 1..Len(q) : i # n => \E k \in 1..Len(w) : w[k] = q[i]
      <3> TAKE i \in 1..Len(q)
      <3>1. i < n => i \in 1..Len(w) /\ w[i] = q[i]
        BY <2>1, <2>3, <2>5
      <3>2. i > n => i - 1 \in 1..Len(w) /\ w[i - 1] = q[i]
        BY <2>1, <2>3, <2>5
      <3> QED
        BY <3>1, <3>2, <2>1, <2>3
    <2>9. Listed(q) \ {o} \subseteq Listed(w)
      BY <2>1, <2>8 DEF Listed
    <2>10. ASSUME Distinct(q) PROVE Distinct(w) /\ o \notin Listed(w)
      <3>1. ASSUME NEW i \in 1..Len(w), NEW j \in 1..Len(w), w[i].op = w[j].op PROVE i = j
        BY <3>1, <2>10, <2>1, <2>3, <2>5 DEF Distinct
      <3>2. ASSUME NEW i \in 1..Len(w) PROVE w[i].op # o
        BY <2>10, <2>1, <2>3, <2>5 DEF Distinct
      <3> QED
        BY <3>1, <3>2 DEF Distinct, Listed
    <2> QED
      BY <2>2, <2>5, <2>7, <2>9, <2>10
  <1> QED
    BY <1>1, <1>2

Counted(q, o) == [i \in 1..Len(q) |-> IF q[i].op = o THEN [q[i] EXCEPT !.tries = @ + 1] ELSE q[i]]

LEMMA CountedKeepsList ==
    ASSUME NEW q \in Seq(Entries), NEW o
    PROVE  /\ Counted(q, o) \in Seq(Entries) /\ Listed(Counted(q, o)) = Listed(q)
           /\ Distinct(q) => Distinct(Counted(q, o))
  <1>1. Len(q) \in Nat /\ \A i \in 1..Len(q) : q[i] \in Entries
    BY ElementOfSeq, LenProperties
  <1>2. \A i \in 1..Len(q) : Counted(q, o)[i] \in Entries /\ Counted(q, o)[i].op = q[i].op
    BY <1>1 DEF Counted, Entries
  <1>3. Counted(q, o) \in [1..Len(q) -> Entries]
    BY <1>2 DEF Counted
  <1>4. Counted(q, o) \in Seq(Entries) /\ Len(Counted(q, o)) = Len(q)
    BY <1>1, <1>3, IsASeq, LenProperties
  <1>5. Listed(Counted(q, o)) = Listed(q)
    BY <1>2, <1>4, Zenon DEF Listed
  <1>6. Distinct(q) => Distinct(Counted(q, o))
    BY <1>2, <1>4, Zenon DEF Distinct
  <1> QED
    BY <1>4, <1>5, <1>6

-----------------------------------------------------------------------------
(* Device: what is stored *)

\* Nothing else is stored, and nobody takes over what an op's author left.
LEMMA StoredIdle ==
    ASSUME StoredInv, UNCHANGED storedVars, strays \subseteq strays', \A o \in Listed(queue) : author'[o] = author[o]
    PROVE  StoredInv'
  <1>1. UNCHANGED <<joined, joinedSto, joining, pushing, registered, marker, queue, lastUser>>
    BY DEF storedVars
  <1>2. Listed(queue)' = Listed(queue)
    BY <1>1 DEF Listed
  <1> QED
    BY <1>1, <1>2 DEF StoredInv

\* While an account owns what is written, the storage is that account's.
LEMMA OwnersStorage == ASSUME AccountInv, NEW u \in Users, Owns(u) PROVE lastUser = u
  BY DeviceConstants DEF AccountInv, Owns, LeavingSteps

LEMMA AuthorsAreUsers == ASSUME ListsInv, NEW o \in saved PROVE o \in Ops /\ author[o] \in Users
  BY DEF ListsInv, UserOrNone

\* A writer of the queue: what it puts back of another account is a stray.
LEMMA WrittenQueue ==
    ASSUME AccountInv, StoredInv, NEW new, queue' = new, strays' = strays \cup PutBack(new),
           \A o \in Listed(new) : author[o] \in Users,
           UNCHANGED <<joined, joinedSto, joining, pushing, registered, marker, lastUser, author>>
    PROVE  StoredInv'
  <1>1. Listed(queue)' = Listed(new)
    BY DEF Listed
  <1>2. ASSUME NEW o \in Listed(new) PROVE author[o] = lastUser \/ o \in strays'
    <2>1. CASE o \in Listed(queue)
      BY <2>1 DEF StoredInv
    <2>2. CASE o \notin Listed(queue) /\ ~Owns(author[o])
      BY <2>2 DEF PutBack
    <2>3. CASE Owns(author[o])
      BY <2>3, OwnersStorage
    <2> QED
      BY <2>1, <2>2, <2>3
  <1>3. \A j \in joinedSto' : j[1] = lastUser' \/ j \in strays'
    BY DEF StoredInv
  <1>4. marker' => lastUser' \in registered' \/ \E u \in Users : <<u, "marker">> \in strays'
    BY DEF StoredInv
  <1>5. \A o \in Listed(queue)' : author'[o] = lastUser' \/ o \in strays'
    BY <1>1, <1>2
  <1> QED
    BY <1>3, <1>4, <1>5 DEF StoredInv

LEMMA ClearedStorage ==
    ASSUME StoredInv, joinedSto' = {}, queue' = <<>>, marker' = FALSE,
           UNCHANGED <<joined, joining, pushing, registered, strays, author>>
    PROVE  StoredInv'
  <1>1. Listed(queue)' = {}
    BY DEF Listed
  <1> QED
    BY <1>1 DEF StoredInv

LEMMA SignInStored == ASSUME AccountInv, StoredInv, ListsInv, NEW u \in Users, SignIn(u) PROVE StoredInv'
  <1>1. lastUser' = u /\ UNCHANGED <<joined, joining, pushing, registered, strays, author>>
    BY DEF SignIn, queueVars, server
  <1>2. CASE AnotherAccount(u)
    BY <1>1, <1>2, ClearedStorage DEF SignIn, ClearAccountScopedState
  <1>3. CASE ~AnotherAccount(u)
    <2>1. UNCHANGED <<joinedSto, queue, marker>> /\ (lastUser = None \/ lastUser = u)
      BY <1>3 DEF SignIn, AnotherAccount
    <2>2. Listed(queue)' = Listed(queue)
      BY <2>1 DEF Listed
    <2>3. \A j \in joinedSto : j[1] # None
      BY DeviceConstants DEF StoredInv
    <2>4. \A o \in Listed(queue) : author[o] # None
      BY DEF ListsInv
    <2>5. None \notin registered
      BY DeviceConstants DEF StoredInv
    <2>6. \A j \in joinedSto' : j[1] = lastUser' \/ j \in strays'
      BY <1>1, <2>1, <2>3 DEF StoredInv
    <2>7. \A o \in Listed(queue)' : author'[o] = lastUser' \/ o \in strays'
      BY <1>1, <2>1, <2>2, <2>4 DEF StoredInv
    <2>8. marker' => lastUser' \in registered' \/ \E v \in Users : <<v, "marker">> \in strays'
      BY <1>1, <2>1, <2>5 DEF StoredInv
    <2> QED
      BY <1>1, <2>1, <2>6, <2>7, <2>8 DEF StoredInv
  <1> QED
    BY <1>2, <1>3

LEMMA AccountingStored ==
    ASSUME AccountInv, StoredInv, ListsInv,
           SignOut \/ ForgetToken \/ Wipe \/ SignedOut \/ SessionEnds \/ Kill \/ Boot \/ BootRejected
    PROVE  StoredInv'
  <1>1. UNCHANGED <<strays, author>>
    BY DEF SignOut, ForgetToken, Wipe, SignedOut, SessionEnds, Kill, Boot, BootRejected, history
  <1>2. SignOut \/ ForgetToken \/ SignedOut \/ SessionEnds \/ BootRejected => UNCHANGED storedVars
    BY DEF SignOut, ForgetToken, SignedOut, SessionEnds, BootRejected, memory, storage, server, storedVars
  <1>3. ASSUME Wipe PROVE StoredInv'
    BY <1>1, <1>3, ClearedStorage DEF Wipe, ClearAccountScopedState, memory, server
  <1>4. ASSUME Kill \/ Boot PROVE StoredInv'
    <2>1. /\ joined' = {} \/ joined' = joinedSto
          /\ joining' = None \/ joining' = joining
          /\ pushing' = {} \/ pushing' = pushing
          /\ UNCHANGED <<lastUser, joinedSto, marker, queue, registered>>
      BY <1>4 DEF Kill, Boot, storage, server
    <2>2. Listed(queue)' = Listed(queue)
      BY <2>1 DEF Listed
    <2> QED
      BY <1>1, <2>1, <2>2 DEF StoredInv
  <1> QED
    BY <1>1, <1>2, <1>3, <1>4, StoredIdle

LEMMA JoiningStored ==
    ASSUME AccountInv, StoredInv, ListsInv, Joining \/ Notifying
    PROVE  StoredInv'
  <1>1. ASSUME NEW e \in Events, Join(e) PROVE StoredInv'
    <2>1. joining' = <<me, e>> /\ me \in Users
      BY <1>1 DEF Join, Signed, AccountInv, UserOrNone
    <2>2. UNCHANGED <<joined, joinedSto, pushing, registered, marker, queue, lastUser, strays, author>>
      BY <1>1 DEF Join, memory, storage, server, history
    <2>3. Listed(queue)' = Listed(queue)
      BY <2>2 DEF Listed
    <2> QED
      BY <2>1, <2>2, <2>3 DEF StoredInv
  <1>2. ASSUME NEW e \in Events, Leave(e) PROVE StoredInv'
    <2>1. /\ joinedSto' = joinedSto \ {<<me, e>>} /\ (joined' = joinedSto' \/ joined' = joined)
          /\ UNCHANGED <<joining, pushing, registered, marker, queue, lastUser, strays, author>>
      BY <1>2 DEF Leave, server, history
    <2>2. Listed(queue)' = Listed(queue)
      BY <2>1 DEF Listed
    <2> QED
      BY <2>1, <2>2 DEF StoredInv
  <1>3. ASSUME AddJoined PROVE StoredInv'
    <2>1. /\ joinedSto' = joinedSto \cup {joining} /\ joined' = joinedSto \cup {joining} /\ joining' = None
          /\ strays' = Stray(joining[1], {joining}) /\ joining \in Users \X Events
          /\ UNCHANGED <<pushing, registered, marker, queue, lastUser, author>>
      BY <1>3 DEF AddJoined, server, StoredInv
    <2>2. Listed(queue)' = Listed(queue)
      BY <2>1 DEF Listed
    <2>3. joining[1] = lastUser \/ joining \in strays'
      <3>1. joining[1] \in Users
        BY <2>1
      <3> QED
        BY <2>1, <3>1, OwnersStorage DEF Stray
    <2>4. strays \subseteq strays'
      BY <2>1 DEF Stray
    <2> QED
      BY <2>1, <2>2, <2>3, <2>4 DEF StoredInv
  <1>4. ASSUME PushEffect PROVE StoredInv'
    <2>1. pushing' \subseteq pushing \cup {me} /\ me \in Users
      BY <1>4 DEF PushEffect, AccountInv, UserOrNone
    <2>2. UNCHANGED <<joined, joinedSto, joining, registered, marker, queue, lastUser, strays, author>>
      BY <1>4 DEF PushEffect, memory, storage, server, history
    <2>3. Listed(queue)' = Listed(queue)
      BY <2>2 DEF Listed
    <2> QED
      BY <2>1, <2>2, <2>3 DEF StoredInv
  <1>5. ASSUME NEW u \in Users, Registered(u) PROVE StoredInv'
    <2>1. /\ pushing' = pushing \ {u} /\ registered' = registered \cup {u} /\ marker' = TRUE
          /\ strays' = Stray(u, {<<u, "marker">>})
          /\ UNCHANGED <<joined, joinedSto, joining, queue, lastUser, author>>
      BY <1>5 DEF Registered, memory
    <2>2. Listed(queue)' = Listed(queue)
      BY <2>1 DEF Listed
    <2>3. lastUser = u \/ <<u, "marker">> \in strays'
      BY <2>1, OwnersStorage DEF Stray
    <2>4. strays \subseteq strays'
      BY <2>1 DEF Stray
    <2>5. marker' => lastUser' \in registered' \/ \E v \in Users : <<v, "marker">> \in strays'
      BY <2>1, <2>3
    <2>6. \A j \in joinedSto' : j[1] = lastUser' \/ j \in strays'
      BY <2>1, <2>4 DEF StoredInv
    <2>7. \A o \in Listed(queue)' : author'[o] = lastUser' \/ o \in strays'
      BY <2>1, <2>2, <2>4 DEF StoredInv
    <2> QED
      BY <2>1, <2>5, <2>6, <2>7 DEF StoredInv
  <1>6. ASSUME NEW u \in Users, NotRegistered(u) PROVE StoredInv'
    <2>1. /\ pushing' = pushing \ {u}
          /\ UNCHANGED <<joined, joinedSto, joining, registered, marker, queue, lastUser, strays, author>>
      BY <1>6 DEF NotRegistered, memory, storage, server, history
    <2>2. Listed(queue)' = Listed(queue)
      BY <2>1 DEF Listed
    <2> QED
      BY <2>1, <2>2 DEF StoredInv
  <1> QED
    BY <1>1, <1>2, <1>3, <1>4, <1>5, <1>6 DEF Joining, Notifying

LEMMA QueueStored ==
    ASSUME AccountInv, StoredInv, ListsInv, CallsInv, WaitsInv, Adding \/ Flushing
    PROVE  StoredInv'
  <1>1. UNCHANGED <<joined, joining, pushing>>
    BY AddingIsBeside DEF phone, memory
  <1>2. ASSUME NEW o \in Ops, Submit(o) PROVE StoredInv'
    <2>1. author[o] = None /\ author' = [author EXCEPT ![o] = me] /\ UNCHANGED <<storedVars, strays>>
      BY <1>1, <1>2 DEF Submit, storage, server, storedVars
    <2>2. o \notin Listed(queue)
      BY <2>1 DEF ListsInv
    <2>3. \A x \in Listed(queue) : author'[x] = author[x]
      BY <2>1, <2>2 DEF ListsInv
    <2> QED
      BY <2>1, <2>3, StoredIdle
  <1>3. ASSUME Enqueue PROVE StoredInv'
    <2> DEFINE new == Append(copy["form"], [op |-> formOp, tries |-> 0])
    <2>1. /\ queue' = new /\ strays' = strays \cup PutBack(new)
          /\ UNCHANGED <<joinedSto, registered, marker, lastUser, author>>
      BY <1>3 DEF Enqueue, server
    <2>2. formOp \in Ops /\ author[formOp] \in Users
      BY <1>3 DEF Enqueue, CallsInv
    <2>3. [op |-> formOp, tries |-> 0] \in Entries
      BY <2>2 DEF Entries
    <2>4. Listed(new) = Listed(copy["form"]) \cup {formOp}
      BY <2>3, DeviceConstants, ListedAppend DEF ListsInv
    <2>5. \A o \in Listed(new) : author[o] \in Users
      BY <2>2, <2>4, AuthorsAreUsers, DeviceConstants DEF ListsInv
    <2> HIDE DEF new
    <2> QED
      BY <1>1, <2>1, <2>5, WrittenQueue
  <1>4. ASSUME NEW f \in Flushes, WriteQueue(f) PROVE StoredInv'
    <2>1. /\ queue' = copy[f] /\ strays' = strays \cup PutBack(copy[f])
          /\ UNCHANGED <<joinedSto, registered, marker, lastUser, author>>
      BY <1>4 DEF WriteQueue, server
    <2>2. \A o \in Listed(copy[f]) : author[o] \in Users
      BY AuthorsAreUsers, DeviceConstants DEF ListsInv
    <2> QED
      BY <1>1, <2>1, <2>2, WrittenQueue
  <1>5. Answered \/ ReadForEnqueue => UNCHANGED <<storedVars, strays, author>>
    BY <1>1 DEF Answered, ReadForEnqueue, storage, server, history, storedVars
  <1>6. ASSUME NEW c \in Callers, CheckAdd(c) \/ NotActive(c) \/ Insert(c) \/ ServerErrs(c) \/ Offline(c) PROVE UNCHANGED <<storedVars, strays, author>>
    BY <1>1, <1>6 DEF CheckAdd, NotActive, Insert, ServerErrs, Offline, ServerOnly, storage, storedVars
  <1>7. ASSUME NEW u \in Users, NEW o \in Ops, LateInsert(u, o) PROVE UNCHANGED <<storedVars, strays, author>>
    BY <1>1, <1>7 DEF LateInsert, ServerOnly, storage, storedVars
  <1>8. ASSUME NEW f \in Flushes, StartFlush(f) \/ PostNext(f) \/ FlushEnds(f) \/ Settle(f) PROVE UNCHANGED <<storedVars, strays, author>>
    BY <1>1, <1>8 DEF StartFlush, PostNext, FlushEnds, Settle, storage, server, history, storedVars
  <1> QED
    BY <1>2, <1>3, <1>4, <1>5, <1>6, <1>7, <1>8, StoredIdle DEF Adding, Flushing

LEMMA StoredKeeps == ASSUME DeviceInv, [DeviceNext]_deviceVars PROVE StoredInv'
  <1>1. AccountInv /\ StoredInv /\ ListsInv /\ CallsInv /\ WaitsInv
    BY DEF DeviceInv, QueueInv
  <1>2. UNCHANGED deviceVars => UNCHANGED <<storedVars, strays, author>>
    BY DEF deviceVars, phone, memory, storage, server, history, storedVars
  <1> QED
    BY <1>1, <1>2, StoredIdle, SignInStored, AccountingStored, JoiningStored, QueueStored DEF DeviceNext, Accounting

-----------------------------------------------------------------------------
(* Device: the queue and what is under way *)

LEMMA QueueIdle ==
    ASSUME QueueInv, UNCHANGED workVars, running => running'
    PROVE  QueueInv'
  <1>1. UNCHANGED <<queue, copy, todo, author, saved, as, call, rows, heldBack, formAs, formOp, gone, overlapped>>
    BY DEF workVars
  <1>2. ListsInv' /\ WaitsInv'
    BY <1>1 DEF QueueInv, ListsInv, WaitsInv, Listed
  <1>3. CallsInv'
    BY <1>1 DEF QueueInv, CallsInv
  <1>4. WorkInv' /\ OnceInv'
    BY <1>1 DEF QueueInv, WorkInv, OnceInv, Handled, Listed, Distinct
  <1> QED
    BY <1>2, <1>3, <1>4 DEF QueueInv

\* Signing out, or another account signing in, ends what was queued.
LEMMA QueueCleared ==
    ASSUME QueueInv, queue' = <<>>, gone' = gone \cup Listed(queue),
           UNCHANGED <<running, copy, todo, author, saved, as, call, rows, heldBack, formAs, formOp, overlapped>>
    PROVE  QueueInv'
  <1>1. Listed(queue)' = {} /\ queue' \in Seq(Entries) /\ Len(queue') = 0
    BY DEF Listed
  <1>2. ListsInv'
    BY <1>1 DEF QueueInv, ListsInv, Listed
  <1>3. WaitsInv' /\ CallsInv'
    BY DEF QueueInv, WaitsInv, CallsInv
  <1>4. \A o \in Ops : Handled(o) => Handled(o)'
    BY DEF Handled
  <1>5. WorkInv'
    <2>1. \A o \in saved : Handled(o)'
      BY <1>4 DEF QueueInv, WorkInv, Handled, ListsInv
    <2>2. \A f \in Flushes : \A o \in Listed(todo[f]) : o \in Listed(copy[f]) \/ Handled(o)'
      BY <1>4 DEF QueueInv, WorkInv, ListsInv
    <2> QED
      BY <2>1, <2>2 DEF WorkInv, Listed
  <1>6. OnceInv'
    BY <1>1 DEF QueueInv, OnceInv, Distinct
  <1> QED
    BY <1>2, <1>3, <1>5, <1>6 DEF QueueInv

LEMMA KillQueue == ASSUME QueueInv, Kill PROVE QueueInv'
  <1>1. /\ call' = [c \in Callers |-> Idle] /\ todo' = [f \in Flushes |-> <<>>] /\ copy' = [f \in Callers |-> <<>>]
        /\ as' = [f \in Flushes |-> None] /\ heldBack' = None /\ formOp' = None /\ formAs' = None
        /\ UNCHANGED <<queue, rows, author, saved, gone, overlapped>>
    BY DEF Kill, storage
  <1>2. <<>> \in Seq(Entries) /\ Listed(<<>>) = {} /\ Distinct(<<>>)
    BY DEF Listed, Distinct
  <1>3. Idle \in [pc : Steps, op : Ops \cup {None}] /\ Idle.pc = "idle"
    BY DEF Idle, Steps
  <1>4. ListsInv'
    <2>1. copy' \in [Callers -> Seq(Entries)] /\ todo' \in [Flushes -> Seq(Entries)]
      BY <1>1, <1>2
    <2>2. (\A c \in Callers : Listed(copy'[c]) = {}) /\ (\A f \in Flushes : Listed(todo'[f]) = {})
      BY <1>1, <1>2
    <2> QED
      BY <1>1, <2>1, <2>2 DEF QueueInv, ListsInv, Listed
  <1>5. WaitsInv'
    BY <1>1, <1>3 DEF QueueInv, WaitsInv, UserOrNone
  <1>6. CallsInv'
    BY <1>1, <1>3, DeviceConstants DEF CallsInv
  <1>7. WorkInv'
    <2>1. \A f \in Flushes : Listed(todo'[f]) = {}
      BY <1>1, <1>2
    <2>2. \A o \in saved' : o \in Listed(queue') \/ Handled(o)'
      BY <1>1 DEF QueueInv, WorkInv, Handled, Listed
    <2> QED
      BY <2>1, <2>2 DEF WorkInv, Listed
  <1>8. OnceInv'
    <2>1. \A c \in Callers : Distinct(copy'[c])
      BY <1>1, <1>2
    <2> QED
      BY <1>1, <2>1 DEF QueueInv, OnceInv, Distinct
  <1> QED
    BY <1>4, <1>5, <1>6, <1>7, <1>8 DEF QueueInv

LEMMA AccountingQueue == ASSUME QueueInv, Accounting PROVE QueueInv'
  <1>1. ASSUME NEW u \in Users, SignIn(u) PROVE QueueInv'
    <2>1. UNCHANGED <<running, copy, todo, author, saved, as, call, rows, heldBack, formAs, formOp, overlapped>>
      BY <1>1 DEF SignIn, queueVars, server
    <2>2. AnotherAccount(u) => queue' = <<>> /\ gone' = gone \cup Listed(queue)
      BY <1>1 DEF SignIn, ClearAccountScopedState
    <2>3. ~AnotherAccount(u) => UNCHANGED <<queue, gone>>
      BY <1>1 DEF SignIn
    <2> QED
      BY <2>1, <2>2, <2>3, QueueCleared, QueueIdle DEF workVars
  <1>2. ASSUME Wipe PROVE QueueInv'
    <2>1. UNCHANGED <<running, copy, todo, author, saved, as, call, rows, heldBack, formAs, formOp, overlapped>>
      BY <1>2 DEF Wipe, queueVars, server
    <2> QED
      BY <1>2, <2>1, QueueCleared DEF Wipe, ClearAccountScopedState
  <1>3. SignOut => UNCHANGED workVars /\ (running => running')
    BY DEF SignOut, Signed, storage, queueVars, server, history, workVars
  <1>4. ForgetToken => UNCHANGED workVars /\ (running => running')
    BY DEF ForgetToken, storage, queueVars, server, history, workVars
  <1>5. SignedOut => UNCHANGED workVars /\ (running => running')
    BY DEF SignedOut, storage, queueVars, server, history, workVars
  <1>6. SessionEnds => UNCHANGED workVars /\ (running => running')
    BY DEF SessionEnds, storage, queueVars, server, history, workVars
  <1>7. Boot => UNCHANGED workVars /\ (running => running')
    BY DEF Boot, storage, queueVars, server, history, workVars
  <1>8. BootRejected => UNCHANGED workVars /\ (running => running')
    BY DEF BootRejected, storage, queueVars, server, history, workVars
  <1> QED
    BY <1>1, <1>2, <1>3, <1>4, <1>5, <1>6, <1>7, <1>8, KillQueue, QueueIdle DEF Accounting

LEMMA JoiningQueue == ASSUME QueueInv, Joining \/ Notifying PROVE QueueInv'
  <1>1. UNCHANGED <<copy, todo, as, call, heldBack, formAs, formOp, running>>
    BY JoiningIsBeside DEF queueVars, accountVars
  <1>2. UNCHANGED <<queue, author, saved, rows, gone, overlapped>>
    <2>1. ASSUME NEW e \in Events, Join(e) \/ Leave(e) PROVE UNCHANGED <<queue, author, saved, rows, gone, overlapped>>
      BY <2>1 DEF Join, Leave, storage, server, history
    <2>2. AddJoined \/ PushEffect => UNCHANGED <<queue, author, saved, rows, gone, overlapped>>
      BY DEF AddJoined, PushEffect, storage, server, history
    <2>3. ASSUME NEW u \in Users, Registered(u) \/ NotRegistered(u) PROVE UNCHANGED <<queue, author, saved, rows, gone, overlapped>>
      BY <2>3 DEF Registered, NotRegistered, storage, server, history
    <2> QED
      BY <2>1, <2>2, <2>3 DEF Joining, Notifying
  <1> QED
    BY <1>1, <1>2, QueueIdle DEF workVars

\* A row is never taken away: what was dealt with stays so.
RowsGrow == \A u \in Users : \A o \in Ops : rows[u][o] > 0 => rows'[u][o] > 0

LEMMA HandledStays ==
    ASSUME RowsGrow, gone \subseteq gone', overlapped \subseteq overlapped', NEW o \in Ops, Handled(o)
    PROVE  Handled(o)'
  BY DEF RowsGrow, Handled

\* The op of a call is an op, of an account.
LEMMA CallIsForSomeone ==
    ASSUME QueueInv, NEW c \in Callers, call[c].pc # "idle"
    PROVE  call[c].op \in Ops /\ Caller(c) \in Users /\ (c \in Flushes => as[c] # None /\ call[c].op \in Listed(todo[c]) /\ todo[c] # <<>>)
  <1>1. CASE c = "form"
    BY <1>1, DeviceConstants DEF QueueInv, CallsInv, Caller
  <1>2. CASE c \in Flushes
    <2>1. as[c] # None /\ todo[c] # <<>> /\ call[c].op = Head(todo[c]).op
      BY <1>2 DEF QueueInv, CallsInv, Idle
    <2>2. todo[c] \in Seq(Entries) /\ Listed(todo[c]) \subseteq Ops
      BY <1>2 DEF QueueInv, ListsInv
    <2>3. call[c].op \in Listed(todo[c])
      BY <2>1, <2>2, ListedOps
    <2> QED
      BY <1>2, <2>1, <2>2, <2>3, DeviceConstants DEF QueueInv, WaitsInv, UserOrNone, Caller
  <1> QED
    BY <1>1, <1>2, DeviceConstants

\* A call gets on, and a row may be there after it.
LEMMA CallGetsOn ==
    ASSUME QueueInv, NEW c \in Callers, NEW pc \in Steps, call[c].pc # "idle", pc # "idle", pc # "write",
           call' = [call EXCEPT ![c].pc = pc], rows' \in [Users -> [Ops -> {0, 1}]], RowsGrow,
           (pc = "created" /\ c \in Flushes) => \E u \in Users : rows'[u][call[c].op] > 0,
           UNCHANGED <<running, queue, copy, todo, author, saved, as, heldBack, formAs, formOp, gone, overlapped>>
    PROVE  QueueInv'
  <1>1. \A d \in Callers : /\ call'[d].op = call[d].op
                           /\ call'[d].pc = IF d = c THEN pc ELSE call[d].pc
                           /\ d # c => call'[d] = call[d]
    BY DEF QueueInv, WaitsInv
  <1>2. ListsInv' /\ OnceInv'
    BY DEF QueueInv, ListsInv, OnceInv, Listed, Distinct
  <1>3. WaitsInv'
    <2>1. call' \in [Callers -> [pc : Steps, op : Ops \cup {None}]]
      BY DEF QueueInv, WaitsInv
    <2> QED
      BY <2>1 DEF QueueInv, WaitsInv
  <1>4. running
    <2>1. Idle.pc = "idle"
      BY DEF Idle
    <2> QED
      BY <2>1 DEF QueueInv, CallsInv
  <1>5. CallsInv'
    <2>1. \A d \in Callers : call'[d].pc = "idle" => call'[d] = Idle
      BY <1>1 DEF QueueInv, CallsInv
    <2>2. (call'["form"].pc = "idle" => formOp' = None) /\ (call'["form"].pc # "idle" => call["form"].pc # "idle" /\ call'["form"].op = call["form"].op)
      BY <1>1, DeviceConstants DEF QueueInv, CallsInv
    <2>3. \A f \in Flushes : as[f] = None => f # c
      BY CallIsForSomeone
    <2>4. ASSUME NEW f \in Flushes
          PROVE  /\ as'[f] = None => todo'[f] = <<>> /\ call'[f] = Idle
                 /\ call'[f].pc # "idle" => todo'[f] # <<>> /\ call'[f].op = Head(todo'[f]).op
                 /\ call'[f].pc = "created" => \E u \in Users : rows'[u][call'[f].op] > 0
      <3>1. as'[f] = None => todo'[f] = <<>> /\ call'[f] = Idle
        BY <1>1, <2>3, DeviceConstants DEF QueueInv, CallsInv
      <3>2. call'[f].pc # "idle" => todo'[f] # <<>> /\ call'[f].op = Head(todo'[f]).op
        BY <1>1, DeviceConstants DEF QueueInv, CallsInv
      <3>3. call'[f].pc = "created" => \E u \in Users : rows'[u][call'[f].op] > 0
        <4>1. CASE f = c
          BY <4>1, <1>1
        <4>2. CASE f # c
          <5> SUFFICES ASSUME call[f].pc = "created" PROVE \E u \in Users : rows'[u][call[f].op] > 0
            BY <1>1, <4>2, DeviceConstants
          <5>1. call[f].op \in Ops
            BY CallIsForSomeone, DeviceConstants
          <5> QED
            BY <5>1 DEF QueueInv, CallsInv, RowsGrow
        <4> QED
          BY <4>1, <4>2
      <3> QED
        BY <3>1, <3>2, <3>3
    <2> QED
      BY <1>4, <2>1, <2>2, <2>4 DEF QueueInv, CallsInv
  <1>6. WorkInv'
    <2>1. \A o \in Ops : Handled(o) => Handled(o)'
      BY HandledStays
    <2>2. \A o \in saved : o \in Listed(queue) \/ Handled(o)'
      BY <2>1 DEF QueueInv, WorkInv, ListsInv
    <2>3. \A f \in Flushes : \A o \in Listed(todo[f]) : o \in Listed(copy[f]) \/ Handled(o)'
      BY <2>1 DEF QueueInv, WorkInv, ListsInv
    <2> QED
      BY <2>2, <2>3 DEF WorkInv, Listed
  <1> QED
    BY <1>2, <1>3, <1>5, <1>6 DEF QueueInv

LEMMA IdleCall == Idle \in [pc : Steps, op : Ops \cup {None}] /\ Idle.pc = "idle"
  BY DEF Idle, Steps

LEMMA SubmitKeeps == ASSUME AccountInv, QueueInv, NEW o \in Ops, Submit(o) PROVE QueueInv'
  <1>1. /\ running /\ me # None /\ formOp = None /\ author[o] = None
        /\ formOp' = o /\ formAs' = me /\ author' = [author EXCEPT ![o] = me]
        /\ call' = [call EXCEPT !["form"] = [pc |-> "posted", op |-> o]]
        /\ UNCHANGED <<running, queue, copy, todo, saved, as, rows, heldBack, gone, overlapped>>
    BY DEF Submit, Signed, phone, storage, server
  <1>2. me \in Users
    BY <1>1 DEF AccountInv, UserOrNone
  <1>3. o \notin saved
    BY <1>1 DEF QueueInv, ListsInv
  <1>4. ListsInv'
    <2>1. author' \in [Ops -> UserOrNone] /\ \A x \in saved : author'[x] # None
      BY <1>1, <1>2, <1>3 DEF QueueInv, ListsInv, UserOrNone
    <2> QED
      BY <1>1, <2>1 DEF QueueInv, ListsInv, Listed
  <1>5. [pc |-> "posted", op |-> o] \in [pc : Steps, op : Ops \cup {None}]
    BY DEF Steps
  <1>6. /\ \A f \in Flushes : call'[f] = call[f]
        /\ call'["form"] = [pc |-> "posted", op |-> o]
        /\ call' \in [Callers -> [pc : Steps, op : Ops \cup {None}]]
    BY <1>1, <1>5, DeviceConstants DEF QueueInv, WaitsInv
  <1>7. WaitsInv'
    BY <1>1, <1>2, <1>6 DEF QueueInv, WaitsInv, UserOrNone
  <1>8. CallsInv'
    <2>1. \A c \in Callers : call'[c].pc = "idle" => call'[c] = Idle
      BY <1>6, DeviceConstants DEF QueueInv, CallsInv
    <2>2. /\ call'["form"].pc # "idle" /\ call'["form"].op = o
          /\ formOp' \in Ops /\ formAs' \in Users /\ formOp' \notin saved' /\ author'[formOp'] = formAs'
      BY <1>1, <1>2, <1>3, <1>6 DEF QueueInv, ListsInv
    <2>3. \A f \in Flushes : /\ as'[f] = None => todo'[f] = <<>> /\ call'[f] = Idle
                             /\ call'[f].pc # "idle" => todo'[f] # <<>> /\ call'[f].op = Head(todo'[f]).op
                             /\ call'[f].pc = "created" => \E u \in Users : rows'[u][call'[f].op] > 0
      BY <1>1, <1>6 DEF QueueInv, CallsInv
    <2> QED
      BY <1>1, <2>1, <2>2, <2>3 DEF CallsInv
  <1>9. WorkInv' /\ OnceInv'
    BY <1>1 DEF QueueInv, WorkInv, OnceInv, Handled, Listed, Distinct
  <1> QED
    BY <1>4, <1>7, <1>8, <1>9 DEF QueueInv

\* The form has its answer, or its op is saved: a later one may be filled in.
LEMMA AnsweredKeeps == ASSUME QueueInv, Answered PROVE QueueInv'
  <1>1. /\ call' = [call EXCEPT !["form"] = Idle] /\ formOp' = None /\ formAs' = None /\ gone \subseteq gone'
        /\ UNCHANGED <<running, queue, copy, todo, author, saved, as, rows, heldBack, overlapped>>
    BY DEF Answered, FormEnds, phone, storage, server
  <1>2. /\ \A f \in Flushes : call'[f] = call[f]
        /\ call'["form"] = Idle
        /\ call' \in [Callers -> [pc : Steps, op : Ops \cup {None}]]
    BY <1>1, DeviceConstants, IdleCall DEF QueueInv, WaitsInv
  <1>3. ListsInv' /\ OnceInv'
    BY <1>1 DEF QueueInv, ListsInv, OnceInv, Listed, Distinct
  <1>4. WaitsInv'
    BY <1>1, <1>2 DEF QueueInv, WaitsInv, UserOrNone
  <1>5. CallsInv'
    <2>1. \A c \in Callers : call'[c].pc = "idle" => call'[c] = Idle
      BY <1>2, DeviceConstants DEF QueueInv, CallsInv
    <2>2. call'["form"].pc = "idle"
      BY <1>2, IdleCall
    <2>3. \A f \in Flushes : /\ as'[f] = None => todo'[f] = <<>> /\ call'[f] = Idle
                             /\ call'[f].pc # "idle" => todo'[f] # <<>> /\ call'[f].op = Head(todo'[f]).op
                             /\ call'[f].pc = "created" => \E u \in Users : rows'[u][call'[f].op] > 0
      BY <1>1, <1>2 DEF QueueInv, CallsInv
    <2>4. ~running => (\A c \in Callers : call'[c] = Idle) /\ \A f \in Flushes : as'[f] = None
      BY <1>1, <1>2, DeviceConstants DEF QueueInv, CallsInv
    <2> QED
      BY <1>1, <2>1, <2>2, <2>3, <2>4 DEF CallsInv
  <1>6. WorkInv'
    BY <1>1 DEF QueueInv, WorkInv, Handled, Listed
  <1> QED
    BY <1>3, <1>4, <1>5, <1>6 DEF QueueInv

LEMMA ReadForEnqueueKeeps == ASSUME QueueInv, ReadForEnqueue PROVE QueueInv'
  <1>1. /\ call["form"].pc = "offline" /\ copy' = [copy EXCEPT !["form"] = queue]
        /\ call' = [call EXCEPT !["form"].pc = "write"]
        /\ UNCHANGED <<running, queue, todo, author, saved, as, rows, heldBack, formOp, formAs, gone, overlapped>>
    BY DEF ReadForEnqueue, phone, storage, form, server, history
  <1>2. /\ \A f \in Flushes : call'[f] = call[f] /\ copy'[f] = copy[f]
        /\ call'["form"].pc = "write" /\ call'["form"].op = call["form"].op /\ copy'["form"] = queue
        /\ call' \in [Callers -> [pc : Steps, op : Ops \cup {None}]]
    BY <1>1, DeviceConstants DEF QueueInv, ListsInv, WaitsInv, Steps
  <1>3. ListsInv'
    <2>1. copy' \in [Callers -> Seq(Entries)]
      BY <1>1 DEF QueueInv, ListsInv
    <2>2. \A c \in Callers : Listed(copy'[c]) \subseteq saved
      BY <1>2, DeviceConstants DEF QueueInv, ListsInv
    <2> QED
      BY <1>1, <2>1, <2>2 DEF QueueInv, ListsInv, Listed
  <1>4. WaitsInv'
    BY <1>1, <1>2 DEF QueueInv, WaitsInv, UserOrNone
  <1>5. CallsInv'
    <2>1. \A c \in Callers : call'[c].pc = "idle" => call'[c] = Idle
      BY <1>2, DeviceConstants DEF QueueInv, CallsInv
    <2>2. running
      BY <1>1, IdleCall, DeviceConstants DEF QueueInv, CallsInv
    <2>3. \A f \in Flushes : /\ as'[f] = None => todo'[f] = <<>> /\ call'[f] = Idle
                             /\ call'[f].pc # "idle" => todo'[f] # <<>> /\ call'[f].op = Head(todo'[f]).op
                             /\ call'[f].pc = "created" => \E u \in Users : rows'[u][call'[f].op] > 0
      BY <1>1, <1>2 DEF QueueInv, CallsInv
    <2>4. /\ formOp' \in Ops /\ formAs' \in Users /\ formOp' \notin saved' /\ author'[formOp'] = formAs'
          /\ call'["form"].op = formOp' /\ call'["form"].pc # "idle"
      BY <1>1, <1>2 DEF QueueInv, CallsInv
    <2> QED
      BY <1>1, <2>1, <2>2, <2>3, <2>4 DEF CallsInv
  <1>6. WorkInv'
    <2>1. \A f \in Flushes : copy'[f] = copy[f]
      BY <1>2
    <2> QED
      BY <1>1, <2>1 DEF QueueInv, WorkInv, Handled, Listed
  <1>7. OnceInv'
    <2>1. \A c \in Callers : Distinct(copy'[c])
      BY <1>2, DeviceConstants DEF QueueInv, OnceInv
    <2> QED
      BY <1>1, <2>1 DEF QueueInv, OnceInv, Distinct
  <1> QED
    BY <1>3, <1>4, <1>5, <1>6, <1>7 DEF QueueInv

\* The op goes to the end of the list the form read, and what that list did not know is lost.
LEMMA EnqueueKeeps == ASSUME QueueInv, Enqueue PROVE QueueInv'
  <1> DEFINE new == Append(copy["form"], [op |-> formOp, tries |-> 0])
  <1>1. /\ call["form"].pc = "write" /\ queue' = new /\ overlapped' = overlapped \cup Lost(new) /\ saved' = saved \cup {formOp}
        /\ call' = [call EXCEPT !["form"] = Idle] /\ copy' = [copy EXCEPT !["form"] = <<>>]
        /\ heldBack' \in {heldBack, formAs} /\ formOp' = None /\ formAs' = None
        /\ UNCHANGED <<running, todo, author, as, rows, gone>>
    BY DEF Enqueue, FormEnds, phone, server
  <1>2. formOp \in Ops /\ formAs \in Users /\ formOp \notin saved /\ author[formOp] = formAs
    BY <1>1 DEF QueueInv, CallsInv
  <1>3. copy["form"] \in Seq(Entries) /\ [op |-> formOp, tries |-> 0] \in Entries
    BY <1>2, DeviceConstants DEF QueueInv, ListsInv, Entries
  <1>4. new \in Seq(Entries) /\ Listed(new) = Listed(copy["form"]) \cup {formOp}
    BY <1>3, ListedAppend
  <1>5. Distinct(new)
    <2>1. formOp \notin Listed(copy["form"])
      BY <1>2, DeviceConstants DEF QueueInv, ListsInv
    <2> QED
      BY <1>3, <2>1, DistinctAppend, DeviceConstants DEF QueueInv, OnceInv
  <1> HIDE DEF new
  <1>6. /\ \A f \in Flushes : call'[f] = call[f] /\ copy'[f] = copy[f]
        /\ call'["form"] = Idle /\ copy'["form"] = <<>>
        /\ call' \in [Callers -> [pc : Steps, op : Ops \cup {None}]]
    BY <1>1, DeviceConstants, IdleCall DEF QueueInv, ListsInv, WaitsInv
  <1>7. <<>> \in Seq(Entries) /\ Listed(<<>>) = {} /\ Distinct(<<>>)
    BY DEF Listed, Distinct
  <1>8. ListsInv'
    <2>1. copy' \in [Callers -> Seq(Entries)]
      BY <1>1, <1>7 DEF QueueInv, ListsInv
    <2>2. \A c \in Callers : Listed(copy'[c]) \subseteq saved'
      BY <1>1, <1>6, <1>7, DeviceConstants DEF QueueInv, ListsInv
    <2>3. saved' \subseteq Ops /\ \A o \in saved' : author'[o] # None
      BY <1>1, <1>2, DeviceConstants DEF QueueInv, ListsInv
    <2>4. Listed(queue') \subseteq saved'
      BY <1>1, <1>4, DeviceConstants DEF QueueInv, ListsInv
    <2>5. \A f \in Flushes : Listed(todo'[f]) \subseteq saved'
      BY <1>1 DEF QueueInv, ListsInv
    <2> QED
      BY <1>1, <1>4, <2>1, <2>2, <2>3, <2>4, <2>5 DEF QueueInv, ListsInv, Listed
  <1>9. WaitsInv'
    BY <1>1, <1>2, <1>6 DEF QueueInv, WaitsInv, UserOrNone
  <1>10. CallsInv'
    <2>1. \A c \in Callers : call'[c].pc = "idle" => call'[c] = Idle
      BY <1>6, DeviceConstants DEF QueueInv, CallsInv
    <2>2. call'["form"].pc = "idle"
      BY <1>6, IdleCall
    <2>3. \A f \in Flushes : /\ as'[f] = None => todo'[f] = <<>> /\ call'[f] = Idle
                             /\ call'[f].pc # "idle" => todo'[f] # <<>> /\ call'[f].op = Head(todo'[f]).op
                             /\ call'[f].pc = "created" => \E u \in Users : rows'[u][call'[f].op] > 0
      BY <1>1, <1>6 DEF QueueInv, CallsInv
    <2>4. ~running => (\A c \in Callers : call'[c] = Idle) /\ \A f \in Flushes : as'[f] = None
      BY <1>1, <1>6, DeviceConstants DEF QueueInv, CallsInv
    <2> QED
      BY <1>1, <2>1, <2>2, <2>3, <2>4 DEF CallsInv
  <1>11. \A o \in Ops : Handled(o) => Handled(o)'
    BY <1>1 DEF Handled
  <1>12. WorkInv'
    <2>1. \A o \in saved' : o \in Listed(new) \/ Handled(o)'
      <3> TAKE o \in saved'
      <3>1. CASE o = formOp
        BY <3>1, <1>4
      <3>2. CASE o \in saved
        <4>1. o \in Listed(queue) => o \in Listed(new) \/ o \in overlapped'
          BY <1>1 DEF Lost
        <4>2. Handled(o) => Handled(o)'
          BY <3>2, <1>11 DEF QueueInv, ListsInv
        <4> QED
          BY <3>2, <4>1, <4>2 DEF QueueInv, WorkInv, Handled
      <3> QED
        BY <1>1, <3>1, <3>2
    <2>2. \A f \in Flushes : \A o \in Listed(todo[f]) : o \in Listed(copy'[f]) \/ Handled(o)'
      BY <1>6, <1>11 DEF QueueInv, WorkInv, ListsInv
    <2> QED
      BY <1>1, <2>1, <2>2 DEF WorkInv, Listed
  <1>13. OnceInv'
    <2>1. \A c \in Callers : Distinct(copy'[c])
      BY <1>6, <1>7, DeviceConstants DEF QueueInv, OnceInv
    <2> QED
      BY <1>1, <1>5, <2>1 DEF OnceInv, Distinct
  <1> QED
    BY <1>8, <1>9, <1>10, <1>12, <1>13 DEF QueueInv

-----------------------------------------------------------------------------
(* Device: the server's answers *)

\* A call that gets no row leaves the rows as they are.
LEMMA AnswerKeeps ==
    ASSUME QueueInv, NEW c \in Callers, CheckAdd(c) \/ NotActive(c) \/ Insert(c) \/ ServerErrs(c) \/ Offline(c)
    PROVE  QueueInv'
  <1> DEFINE u == Caller(c)
             o == call[c].op
  <1>1. UNCHANGED <<running, queue, copy, todo, author, saved, as, heldBack, formAs, formOp, gone, overlapped>>
    BY DEF CheckAdd, NotActive, Insert, ServerErrs, Offline, ServerOnly, phone, storage, form
  <1>2. call[c].pc # "idle"
    BY DEF CheckAdd, NotActive, Insert, ServerErrs, Offline
  <1>3. o \in Ops /\ u \in Users
    BY <1>2, CallIsForSomeone
  <1>4. ASSUME UNCHANGED rows PROVE rows' \in [Users -> [Ops -> {0, 1}]] /\ RowsGrow
    BY <1>4 DEF RowsGrow, QueueInv, WaitsInv
  <1>5. "created" \in Steps /\ "refused" \in Steps /\ "conflict" \in Steps /\ "insert" \in Steps /\ "offline" \in Steps
    BY DEF Steps
  <1>6. ASSUME UNCHANGED rows, NEW pc \in {"refused", "conflict", "insert", "offline"}, Answer(c, pc) PROVE QueueInv'
    BY <1>1, <1>2, <1>4, <1>5, <1>6, CallGetsOn DEF Answer
  <1>7. ASSUME rows' \in [Users -> [Ops -> {0, 1}]], RowsGrow, rows'[u][o] > 0, Answer(c, "created") PROVE QueueInv'
    BY <1>1, <1>2, <1>3, <1>5, <1>7, CallGetsOn DEF Answer
  <1>8. ASSUME CheckAdd(c) PROVE QueueInv'
    <2>1. UNCHANGED rows
      BY <1>8 DEF CheckAdd
    <2>2. CASE u \in dead \/ o \in Poison
      BY <1>8, <1>6, <2>1, <2>2 DEF CheckAdd
    <2>3. CASE u \notin dead /\ o \notin Poison /\ rows[u][o] > 0
      <3>1. Answer(c, "created")
        BY <1>8, <2>3 DEF CheckAdd
      <3> QED
        BY <1>4, <1>7, <2>1, <2>3, <3>1
    <2>4. CASE ~(u \in dead \/ o \in Poison) /\ ~(u \notin dead /\ o \notin Poison /\ rows[u][o] > 0)
      BY <1>8, <1>6, <2>1, <2>4 DEF CheckAdd
    <2> QED
      BY <2>2, <2>3, <2>4
  <1>9. ASSUME Insert(c) PROVE QueueInv'
    <2>1. CASE KeyIsFree(u, o)
      <3>1. rows' = [rows EXCEPT ![u][o] = @ + 1] /\ Answer(c, "created") /\ rows[u][o] = 0
        BY <1>9, <2>1 DEF Insert, KeyIsFree
      <3>2. \A v \in Users : \A x \in Ops : rows'[v][x] = IF v = u /\ x = o THEN 1 ELSE rows[v][x]
        BY <1>3, <3>1 DEF QueueInv, WaitsInv
      <3>3. rows' \in [Users -> [Ops -> {0, 1}]]
        BY <1>3, <3>1 DEF QueueInv, WaitsInv
      <3>4. RowsGrow /\ rows'[u][o] > 0
        BY <1>3, <3>2 DEF RowsGrow
      <3> QED
        BY <1>7, <3>1, <3>3, <3>4
    <2>2. CASE ~KeyIsFree(u, o)
      BY <1>9, <1>6, <2>2 DEF Insert
    <2> QED
      BY <2>1, <2>2
  <1>10. ServerErrs(c) => QueueInv'
    BY <1>6 DEF ServerErrs
  <1>11. Offline(c) => QueueInv'
    BY <1>6 DEF Offline
  <1>12. NotActive(c) => QueueInv'
    BY <1>6 DEF NotActive
  <1> QED
    BY <1>8, <1>9, <1>10, <1>11, <1>12

LEMMA LateInsertKeeps == ASSUME QueueInv, NEW u \in Users, NEW o \in Ops, LateInsert(u, o) PROVE QueueInv'
  <1>1. /\ rows' = IF KeyIsFree(u, o) THEN [rows EXCEPT ![u][o] = @ + 1] ELSE rows
        /\ UNCHANGED <<running, queue, copy, todo, author, saved, as, call, heldBack, formAs, formOp, gone, overlapped>>
    BY DEF LateInsert, ServerOnly, phone, storage, form
  <1>2. rows' \in [Users -> [Ops -> {0, 1}]] /\ RowsGrow
    <2>1. CASE KeyIsFree(u, o)
      <3>1. rows[u][o] = 0 /\ rows' = [rows EXCEPT ![u][o] = @ + 1]
        BY <1>1, <2>1 DEF KeyIsFree
      <3>2. \A v \in Users : \A x \in Ops : rows'[v][x] = IF v = u /\ x = o THEN 1 ELSE rows[v][x]
        BY <3>1 DEF QueueInv, WaitsInv
      <3>3. rows' \in [Users -> [Ops -> {0, 1}]]
        BY <3>1 DEF QueueInv, WaitsInv
      <3> QED
        BY <3>2, <3>3 DEF RowsGrow
    <2>2. CASE ~KeyIsFree(u, o)
      BY <1>1, <2>2 DEF QueueInv, WaitsInv, RowsGrow
    <2> QED
      BY <2>1, <2>2
  <1>3. ListsInv' /\ OnceInv'
    BY <1>1 DEF QueueInv, ListsInv, OnceInv, Listed, Distinct
  <1>4. WaitsInv'
    BY <1>1, <1>2 DEF QueueInv, WaitsInv, UserOrNone
  <1>5. \A x \in Ops : Handled(x) => Handled(x)'
    BY <1>1, <1>2, HandledStays
  <1>6. CallsInv'
    <2>1. ASSUME NEW f \in Flushes, call'[f].pc = "created" PROVE \E v \in Users : rows'[v][call'[f].op] > 0
      <3>1. call[f].op \in Ops
        BY <1>1, <2>1, CallIsForSomeone, DeviceConstants
      <3> QED
        BY <1>1, <1>2, <2>1, <3>1 DEF QueueInv, CallsInv, RowsGrow
    <2> QED
      BY <1>1, <2>1 DEF QueueInv, CallsInv
  <1>7. WorkInv'
    <2>1. \A x \in saved : x \in Listed(queue) \/ Handled(x)'
      BY <1>5 DEF QueueInv, WorkInv, ListsInv
    <2>2. \A f \in Flushes : \A x \in Listed(todo[f]) : x \in Listed(copy[f]) \/ Handled(x)'
      BY <1>5 DEF QueueInv, WorkInv, ListsInv
    <2> QED
      BY <1>1, <2>1, <2>2 DEF WorkInv, Listed
  <1> QED
    BY <1>3, <1>4, <1>6, <1>7 DEF QueueInv

-----------------------------------------------------------------------------
(* Device: flushing the queue *)

LEMMA StartFlushKeeps == ASSUME AccountInv, QueueInv, NEW f \in Flushes, StartFlush(f) PROVE QueueInv'
  <1>1. /\ running /\ as[f] = None
        /\ todo' = [todo EXCEPT ![f] = queue] /\ copy' = [copy EXCEPT ![f] = queue]
        /\ heldBack' \in {heldBack, None}
        /\ UNCHANGED <<running, queue, author, saved, call, rows, formAs, formOp, gone, overlapped>>
    BY DEF StartFlush, phone, storage, form, server, history
  <1>2. \E u \in Users : as' = [as EXCEPT ![f] = u]
    BY DEF StartFlush, AccountInv, QueueInv, WaitsInv, UserOrNone
  <1>3. PICK u \in Users : as' = [as EXCEPT ![f] = u]
    BY <1>2
  <1>4. /\ \A g \in Flushes : as'[g] = IF g = f THEN u ELSE as[g]
        /\ \A g \in Flushes : todo'[g] = IF g = f THEN queue ELSE todo[g]
        /\ \A c \in Callers : copy'[c] = IF c = f THEN queue ELSE copy[c]
    BY <1>1, <1>3, DeviceConstants DEF QueueInv, ListsInv, WaitsInv
  <1>5. ListsInv'
    <2>1. copy' \in [Callers -> Seq(Entries)] /\ todo' \in [Flushes -> Seq(Entries)]
      BY <1>1 DEF QueueInv, ListsInv
    <2>2. (\A c \in Callers : Listed(copy'[c]) \subseteq saved) /\ \A g \in Flushes : Listed(todo'[g]) \subseteq saved
      BY <1>4 DEF QueueInv, ListsInv
    <2> QED
      BY <1>1, <2>1, <2>2 DEF QueueInv, ListsInv, Listed
  <1>6. WaitsInv'
    <2>1. as' \in [Flushes -> UserOrNone]
      BY <1>3 DEF QueueInv, WaitsInv, UserOrNone
    <2> QED
      BY <1>1, <2>1 DEF QueueInv, WaitsInv, UserOrNone
  <1>7. CallsInv'
    <2>1. call[f].pc = "idle"
      BY <1>1, IdleCall DEF QueueInv, CallsInv
    <2>2. ASSUME NEW g \in Flushes
          PROVE  /\ as'[g] = None => todo'[g] = <<>> /\ call'[g] = Idle
                 /\ call'[g].pc # "idle" => todo'[g] # <<>> /\ call'[g].op = Head(todo'[g]).op
                 /\ call'[g].pc = "created" => \E v \in Users : rows'[v][call'[g].op] > 0
      <3>1. CASE g = f
        BY <1>1, <1>4, <2>1, <3>1, DeviceConstants
      <3>2. CASE g # f
        BY <1>1, <1>4, <3>2 DEF QueueInv, CallsInv
      <3> QED
        BY <3>1, <3>2
    <2> QED
      BY <1>1, <2>2 DEF QueueInv, CallsInv
  <1>8. WorkInv'
    <2>1. \A g \in Flushes : \A o \in Listed(todo'[g]) : o \in Listed(copy'[g]) \/ Handled(o)
      BY <1>4, DeviceConstants DEF QueueInv, WorkInv
    <2> QED
      BY <1>1, <2>1 DEF QueueInv, WorkInv, Handled, Listed
  <1>9. OnceInv'
    <2>1. \A c \in Callers : Distinct(copy'[c])
      BY <1>4 DEF QueueInv, OnceInv
    <2> QED
      BY <1>1, <2>1 DEF QueueInv, OnceInv, Distinct
  <1> QED
    BY <1>5, <1>6, <1>7, <1>8, <1>9 DEF QueueInv

LEMMA PostNextKeeps == ASSUME QueueInv, NEW f \in Flushes, PostNext(f) PROVE QueueInv'
  <1>1. /\ as[f] # None /\ todo[f] # <<>>
        /\ call' = [call EXCEPT ![f] = [pc |-> "posted", op |-> Head(todo[f]).op]]
        /\ UNCHANGED <<running, queue, copy, todo, author, saved, as, rows, heldBack, formAs, formOp, gone, overlapped>>
    BY DEF PostNext, phone, storage, form, server, history
  <1>2. Head(todo[f]).op \in Ops
    <2>1. todo[f] \in Seq(Entries)
      BY DEF QueueInv, ListsInv
    <2> QED
      BY <1>1, <2>1, ListedOps DEF Entries
  <1>3. [pc |-> "posted", op |-> Head(todo[f]).op] \in [pc : Steps, op : Ops \cup {None}]
    BY <1>2 DEF Steps
  <1>4. /\ \A c \in Callers : c # f => call'[c] = call[c]
        /\ call'[f] = [pc |-> "posted", op |-> Head(todo[f]).op]
        /\ call' \in [Callers -> [pc : Steps, op : Ops \cup {None}]]
    BY <1>1, <1>3, DeviceConstants DEF QueueInv, WaitsInv
  <1>5. ListsInv' /\ OnceInv' /\ WorkInv'
    <2>1. ListsInv'
      BY <1>1 DEF QueueInv, ListsInv, Listed
    <2>2. OnceInv'
      BY <1>1 DEF QueueInv, OnceInv, Distinct
    <2>3. WorkInv'
      BY <1>1 DEF QueueInv, WorkInv, Handled, Listed
    <2> QED
      BY <2>1, <2>2, <2>3
  <1>6. WaitsInv'
    BY <1>1, <1>4 DEF QueueInv, WaitsInv, UserOrNone
  <1>7. CallsInv'
    <2>1. running
      BY <1>1 DEF QueueInv, CallsInv
    <2>2. \A c \in Callers : call'[c].pc = "idle" => call'[c] = Idle
      BY <1>4 DEF QueueInv, CallsInv
    <2>3. call'["form"] = call["form"]
      BY <1>4, DeviceConstants
    <2>4. ASSUME NEW g \in Flushes
          PROVE  /\ as'[g] = None => todo'[g] = <<>> /\ call'[g] = Idle
                 /\ call'[g].pc # "idle" => todo'[g] # <<>> /\ call'[g].op = Head(todo'[g]).op
                 /\ call'[g].pc = "created" => \E v \in Users : rows'[v][call'[g].op] > 0
      <3>1. CASE g = f
        <4>1. call'[f].pc = "posted" /\ call'[f].op = Head(todo[f]).op
          BY <1>4
        <4> QED
          BY <1>1, <3>1, <4>1
      <3>2. CASE g # f
        BY <1>1, <1>4, <3>2, DeviceConstants DEF QueueInv, CallsInv
      <3> QED
        BY <3>1, <3>2
    <2> QED
      BY <1>1, <2>1, <2>2, <2>3, <2>4 DEF QueueInv, CallsInv
  <1> QED
    BY <1>5, <1>6, <1>7 DEF QueueInv

LEMMA FlushEndsKeeps == ASSUME QueueInv, NEW f \in Flushes, FlushEnds(f) PROVE QueueInv'
  <1>1. /\ as' = [as EXCEPT ![f] = None] /\ todo' = [todo EXCEPT ![f] = <<>>] /\ copy' = [copy EXCEPT ![f] = <<>>]
        /\ call' = [call EXCEPT ![f] = Idle]
        /\ UNCHANGED <<running, queue, author, saved, rows, heldBack, formAs, formOp, gone, overlapped>>
    BY DEF FlushEnds, FlushOver, phone, storage, form, server, history
  <1>2. /\ \A g \in Flushes : as'[g] = IF g = f THEN None ELSE as[g]
        /\ \A g \in Flushes : todo'[g] = IF g = f THEN <<>> ELSE todo[g]
        /\ \A c \in Callers : copy'[c] = IF c = f THEN <<>> ELSE copy[c]
        /\ \A c \in Callers : call'[c] = IF c = f THEN Idle ELSE call[c]
    BY <1>1, DeviceConstants DEF QueueInv, ListsInv, WaitsInv
  <1>3. <<>> \in Seq(Entries) /\ Listed(<<>>) = {} /\ Distinct(<<>>)
    BY DEF Listed, Distinct
  <1>4. ListsInv'
    <2>1. copy' \in [Callers -> Seq(Entries)] /\ todo' \in [Flushes -> Seq(Entries)]
      BY <1>1, <1>3 DEF QueueInv, ListsInv
    <2>2. (\A c \in Callers : Listed(copy'[c]) \subseteq saved) /\ \A g \in Flushes : Listed(todo'[g]) \subseteq saved
      BY <1>2, <1>3 DEF QueueInv, ListsInv
    <2> QED
      BY <1>1, <2>1, <2>2 DEF QueueInv, ListsInv, Listed
  <1>5. WaitsInv'
    <2>1. as' \in [Flushes -> UserOrNone] /\ call' \in [Callers -> [pc : Steps, op : Ops \cup {None}]]
      BY <1>1, IdleCall DEF QueueInv, WaitsInv, UserOrNone
    <2> QED
      BY <1>1, <2>1 DEF QueueInv, WaitsInv, UserOrNone
  <1>6. CallsInv'
    <2>1. \A c \in Callers : call'[c].pc = "idle" => call'[c] = Idle
      BY <1>2 DEF QueueInv, CallsInv
    <2>2. call'["form"] = call["form"]
      BY <1>2, DeviceConstants
    <2>3. ASSUME NEW g \in Flushes
          PROVE  /\ as'[g] = None => todo'[g] = <<>> /\ call'[g] = Idle
                 /\ call'[g].pc # "idle" => todo'[g] # <<>> /\ call'[g].op = Head(todo'[g]).op
                 /\ call'[g].pc = "created" => \E v \in Users : rows'[v][call'[g].op] > 0
      <3>1. CASE g = f
        BY <1>2, <3>1, IdleCall, DeviceConstants
      <3>2. CASE g # f
        <4>1. as'[g] = as[g] /\ todo'[g] = todo[g] /\ call'[g] = call[g]
          BY <1>2, <3>2, DeviceConstants
        <4> QED
          BY <1>1, <4>1 DEF QueueInv, CallsInv
      <3> QED
        BY <3>1, <3>2
    <2>4. ~running => (\A c \in Callers : call'[c] = Idle) /\ \A g \in Flushes : as'[g] = None
      <3> HAVE ~running
      <3>1. (\A c \in Callers : call[c] = Idle) /\ \A g \in Flushes : as[g] = None
        BY DEF QueueInv, CallsInv
      <3> QED
        BY <1>2, <3>1
    <2> QED
      BY <1>1, <2>1, <2>2, <2>3, <2>4 DEF QueueInv, CallsInv
  <1>7. WorkInv'
    <2>1. \A g \in Flushes : \A o \in Listed(todo'[g]) : o \in Listed(copy'[g]) \/ Handled(o)
      BY <1>2, <1>3, DeviceConstants DEF QueueInv, WorkInv
    <2> QED
      BY <1>1, <2>1 DEF QueueInv, WorkInv, Handled, Listed
  <1>8. OnceInv'
    <2>1. \A c \in Callers : Distinct(copy'[c])
      BY <1>2, <1>3 DEF QueueInv, OnceInv
    <2> QED
      BY <1>1, <2>1 DEF QueueInv, OnceInv, Distinct
  <1> QED
    BY <1>4, <1>5, <1>6, <1>7, <1>8 DEF QueueInv

\* An op that is done with leaves the queue that is there now; one refused once more stays in
\* the list the flush already had.
LEMMA SettleKeeps == ASSUME QueueInv, NEW f \in Flushes, Settle(f) PROVE QueueInv'
  <1> DEFINE o == call[f].op
             new == IF Finished(f) THEN Without(queue, o) ELSE Counted(copy[f], o)
  <1>1. /\ as[f] # None /\ call[f].pc \in {"created", "refused", "conflict"}
        /\ copy' = [copy EXCEPT ![f] = new]
        /\ gone' = IF GivenUp(f) THEN gone \cup {o} ELSE gone
        /\ call' = [call EXCEPT ![f].pc = "write"]
        /\ UNCHANGED <<running, queue, todo, author, saved, as, rows, heldBack, formAs, formOp, overlapped>>
    BY DEF Settle, Counted, phone, storage, form, server
  <1>2. o \in Ops /\ o \in Listed(todo[f])
    BY <1>1, CallIsForSomeone, DeviceConstants
  <1>3. queue \in Seq(Entries) /\ copy[f] \in Seq(Entries) /\ Distinct(queue) /\ Distinct(copy[f])
        /\ Listed(queue) \subseteq saved /\ Listed(copy[f]) \subseteq saved
    BY DeviceConstants DEF QueueInv, ListsInv, OnceInv
  <1>4. new \in Seq(Entries) /\ Distinct(new) /\ Listed(new) \subseteq saved
    BY <1>3, WithoutFilters, CountedKeepsList
  <1>5. Finished(f) => \A x \in {o} : Handled(x)'
    <2>1. call[f].pc = "created" => \E u \in Users : rows[u][o] > 0
      BY DEF QueueInv, CallsInv
    <2>2. Finished(f) => call[f].pc = "created" \/ o \in gone'
      BY <1>1 DEF Finished
    <2> QED
      BY <1>1, <2>1, <2>2 DEF Handled
  <1>6. \A x \in Ops : Handled(x) => Handled(x)'
    BY <1>1 DEF Handled
  <1>7. \A x \in Listed(todo[f]) : x \in Listed(new) \/ Handled(x)'
    <2> TAKE x \in Listed(todo[f])
    <2>1. x \in saved /\ x \in Ops
      BY DEF QueueInv, ListsInv
    <2>2. CASE Finished(f)
      <3>1. x \in Listed(queue) \/ Handled(x)'
        BY <2>1, <1>6 DEF QueueInv, WorkInv
      <3>2. x \in Listed(queue) => x = o \/ x \in Listed(new)
        BY <1>3, <2>2, WithoutFilters
      <3> QED
        BY <3>1, <3>2, <1>5, <2>2, Zenon
    <2>3. CASE ~Finished(f)
      <3>1. x \in Listed(copy[f]) \/ Handled(x)'
        BY <2>1, <1>6 DEF QueueInv, WorkInv
      <3>2. Listed(new) = Listed(copy[f])
        BY <1>3, <2>3, CountedKeepsList
      <3> QED
        BY <3>1, <3>2
    <2> QED
      BY <2>2, <2>3
  <1> HIDE DEF new
  <1>8. \A c \in Callers : copy'[c] = IF c = f THEN new ELSE copy[c]
    BY <1>1, DeviceConstants DEF QueueInv, ListsInv
  <1>9. /\ \A c \in Callers : call'[c].op = call[c].op /\ (c # f => call'[c] = call[c])
        /\ call'[f].pc = "write"
        /\ call' \in [Callers -> [pc : Steps, op : Ops \cup {None}]]
    BY <1>1, DeviceConstants DEF QueueInv, WaitsInv, Steps
  <1>10. ListsInv'
    <2>1. copy' \in [Callers -> Seq(Entries)]
      BY <1>1, <1>4 DEF QueueInv, ListsInv
    <2>2. \A c \in Callers : Listed(copy'[c]) \subseteq saved
      BY <1>4, <1>8 DEF QueueInv, ListsInv
    <2> QED
      BY <1>1, <2>1, <2>2 DEF QueueInv, ListsInv, Listed
  <1>11. WaitsInv'
    BY <1>1, <1>9 DEF QueueInv, WaitsInv, UserOrNone
  <1>12. CallsInv'
    <2>1. running
      BY <1>1 DEF QueueInv, CallsInv
    <2>2. \A c \in Callers : call'[c].pc = "idle" => call'[c] = Idle
      BY <1>9 DEF QueueInv, CallsInv
    <2>3. call'["form"] = call["form"]
      BY <1>9, DeviceConstants
    <2>4. ASSUME NEW g \in Flushes
          PROVE  /\ as'[g] = None => todo'[g] = <<>> /\ call'[g] = Idle
                 /\ call'[g].pc # "idle" => todo'[g] # <<>> /\ call'[g].op = Head(todo'[g]).op
                 /\ call'[g].pc = "created" => \E v \in Users : rows'[v][call'[g].op] > 0
      <3>1. CASE g = f
        <4>1. todo[f] # <<>> /\ call[f].op = Head(todo[f]).op /\ call'[f].op = call[f].op
          BY <1>1, <1>9, DeviceConstants DEF QueueInv, CallsInv
        <4> QED
          BY <1>1, <1>9, <3>1, <4>1
      <3>2. CASE g # f
        <4>1. call'[g] = call[g]
          BY <1>9, <3>2, DeviceConstants
        <4> QED
          BY <1>1, <4>1 DEF QueueInv, CallsInv
      <3> QED
        BY <3>1, <3>2
    <2> QED
      BY <1>1, <2>1, <2>2, <2>3, <2>4 DEF QueueInv, CallsInv
  <1>13. WorkInv'
    <2>1. \A x \in saved : x \in Listed(queue) \/ Handled(x)'
      BY <1>6 DEF QueueInv, WorkInv, ListsInv
    <2>2. ASSUME NEW g \in Flushes PROVE \A x \in Listed(todo[g]) : x \in Listed(copy'[g]) \/ Handled(x)'
      <3>1. CASE g = f
        BY <1>7, <1>8, <3>1, DeviceConstants
      <3>2. CASE g # f
        BY <1>6, <1>8, <3>2, DeviceConstants DEF QueueInv, WorkInv, ListsInv
      <3> QED
        BY <3>1, <3>2
    <2> QED
      BY <1>1, <2>1, <2>2 DEF WorkInv, Listed
  <1>14. OnceInv'
    <2>1. \A c \in Callers : Distinct(copy'[c])
      BY <1>4, <1>8 DEF QueueInv, OnceInv
    <2> QED
      BY <1>1, <2>1 DEF QueueInv, OnceInv, Distinct
  <1> QED
    BY <1>10, <1>11, <1>12, <1>13, <1>14 DEF QueueInv

\* What the written list does not know is either done with or counted as overwritten.
LEMMA WriteQueueKeeps == ASSUME QueueInv, NEW f \in Flushes, WriteQueue(f) PROVE QueueInv'
  <1> DEFINE o == call[f].op
  <1>1. /\ as[f] # None /\ call[f].pc = "write" /\ queue' = copy[f]
        /\ overlapped' = overlapped \cup (Lost(copy[f]) \ {o})
        /\ todo' = [todo EXCEPT ![f] = Tail(@)] /\ call' = [call EXCEPT ![f] = Idle]
        /\ UNCHANGED <<running, copy, author, saved, as, rows, heldBack, formAs, formOp, gone>>
    BY DEF WriteQueue, phone, form, server
  <1>2. o \in Ops /\ o \in Listed(todo[f]) /\ todo[f] # <<>>
    BY <1>1, CallIsForSomeone, DeviceConstants
  <1>3. /\ copy[f] \in Seq(Entries) /\ Distinct(copy[f]) /\ Listed(copy[f]) \subseteq saved
        /\ Tail(todo[f]) \in Seq(Entries) /\ Listed(Tail(todo[f])) \subseteq Listed(todo[f])
    BY <1>2, ListedTail, DeviceConstants DEF QueueInv, ListsInv, OnceInv
  <1>4. /\ \A g \in Flushes : todo'[g] = IF g = f THEN Tail(todo[f]) ELSE todo[g]
        /\ \A c \in Callers : call'[c] = IF c = f THEN Idle ELSE call[c]
    BY <1>1, DeviceConstants DEF QueueInv, ListsInv, WaitsInv
  <1>5. \A x \in Ops : Handled(x) => Handled(x)'
    BY <1>1 DEF Handled
  <1>6. ListsInv'
    <2>1. todo' \in [Flushes -> Seq(Entries)]
      BY <1>1, <1>3 DEF QueueInv, ListsInv
    <2>2. \A g \in Flushes : Listed(todo'[g]) \subseteq saved
      BY <1>3, <1>4 DEF QueueInv, ListsInv
    <2> QED
      BY <1>1, <1>3, <2>1, <2>2 DEF QueueInv, ListsInv, Listed
  <1>7. WaitsInv'
    <2>1. call' \in [Callers -> [pc : Steps, op : Ops \cup {None}]]
      BY <1>1, IdleCall DEF QueueInv, WaitsInv
    <2> QED
      BY <1>1, <2>1 DEF QueueInv, WaitsInv, UserOrNone
  <1>8. CallsInv'
    <2>1. running
      BY <1>1 DEF QueueInv, CallsInv
    <2>2. \A c \in Callers : call'[c].pc = "idle" => call'[c] = Idle
      BY <1>4 DEF QueueInv, CallsInv
    <2>3. call'["form"] = call["form"]
      BY <1>4, DeviceConstants
    <2>4. ASSUME NEW g \in Flushes
          PROVE  /\ as'[g] = None => todo'[g] = <<>> /\ call'[g] = Idle
                 /\ call'[g].pc # "idle" => todo'[g] # <<>> /\ call'[g].op = Head(todo'[g]).op
                 /\ call'[g].pc = "created" => \E v \in Users : rows'[v][call'[g].op] > 0
      <3>1. CASE g = f
        <4>1. call'[f] = Idle
          BY <1>4, DeviceConstants
        <4> QED
          BY <1>1, <3>1, <4>1, IdleCall
      <3>2. CASE g # f
        <4>1. call'[g] = call[g] /\ todo'[g] = todo[g]
          BY <1>4, <3>2, DeviceConstants
        <4> QED
          BY <1>1, <4>1 DEF QueueInv, CallsInv
      <3> QED
        BY <3>1, <3>2
    <2> QED
      BY <1>1, <2>1, <2>2, <2>3, <2>4 DEF QueueInv, CallsInv
  <1>9. WorkInv'
    <2>1. \A x \in saved : x \in Listed(copy[f]) \/ Handled(x)'
      <3> TAKE x \in saved
      <3>1. CASE x = o
        BY <1>2, <1>5, <3>1 DEF QueueInv, WorkInv
      <3>2. CASE x # o
        <4>1. x \in Listed(queue) => x \in Listed(copy[f]) \/ x \in overlapped'
          BY <1>1, <3>2 DEF Lost
        <4>2. Handled(x) => Handled(x)'
          BY <1>5 DEF QueueInv, ListsInv
        <4> QED
          BY <4>1, <4>2 DEF QueueInv, WorkInv, Handled
      <3> QED
        BY <3>1, <3>2
    <2>2. \A g \in Flushes : \A x \in Listed(todo'[g]) : x \in Listed(copy[g]) \/ Handled(x)'
      <3>1. \A g \in Flushes : Listed(todo'[g]) \subseteq Listed(todo[g])
        BY <1>3, <1>4
      <3> QED
        BY <1>5, <3>1 DEF QueueInv, WorkInv, ListsInv
    <2> QED
      BY <1>1, <2>1, <2>2 DEF WorkInv, Listed
  <1>10. OnceInv'
    BY <1>1, <1>3 DEF QueueInv, OnceInv, Distinct
  <1> QED
    BY <1>6, <1>7, <1>8, <1>9, <1>10 DEF QueueInv

LEMMA QueueKeeps == ASSUME AccountInv, QueueInv, [DeviceNext]_deviceVars PROVE QueueInv'
  <1>1. UNCHANGED deviceVars => UNCHANGED workVars /\ UNCHANGED running
    BY DEF deviceVars, phone, storage, queueVars, server, history, workVars
  <1>2. Adding => QueueInv'
    BY SubmitKeeps, AnsweredKeeps, ReadForEnqueueKeeps, EnqueueKeeps, AnswerKeeps, LateInsertKeeps DEF Adding
  <1>3. Flushing => QueueInv'
    BY StartFlushKeeps, PostNextKeeps, FlushEndsKeeps, SettleKeeps, WriteQueueKeeps DEF Flushing
  <1> QED
    BY <1>1, <1>2, <1>3, QueueIdle, AccountingQueue, JoiningQueue DEF DeviceNext

-----------------------------------------------------------------------------
(* Device: the theorems *)

LEMMA DeviceStart == ASSUME NEW u \in UserOrNone, DeviceInit(u) PROVE DeviceInv
  <1>1. AccountInv
    BY DEF DeviceInit, AccountInv, UserOrNone, LeavingSteps
  <1>2. <<>> \in Seq(Entries) /\ Listed(<<>>) = {} /\ Distinct(<<>>)
    BY DEF Listed, Distinct
  <1>3. StoredInv
    BY <1>2 DEF DeviceInit, StoredInv
  <1>4. ListsInv
    BY <1>2 DEF DeviceInit, ListsInv, UserOrNone
  <1>5. WaitsInv
    BY IdleCall DEF DeviceInit, WaitsInv, UserOrNone
  <1>6. CallsInv
    BY IdleCall, DeviceConstants DEF DeviceInit, CallsInv
  <1>7. WorkInv /\ OnceInv
    BY <1>2 DEF DeviceInit, WorkInv, OnceInv
  <1> QED
    BY <1>1, <1>3, <1>4, <1>5, <1>6, <1>7 DEF DeviceInv, QueueInv

LEMMA DeviceKept == DeviceSpec => []DeviceInv
  <1>1. (\E u \in Users \cup {None} : DeviceInit(u)) => DeviceInv
    BY DeviceStart DEF UserOrNone
  <1>2. DeviceInv /\ [DeviceNext]_deviceVars => DeviceInv'
    BY AccountKeeps, StoredKeeps, QueueKeeps DEF DeviceInv
  <1> QED
    BY <1>1, <1>2, PTL DEF DeviceSpec

\* However accounts come and go, the app is killed and calls overlap, every variable of the
\* phone stays in its type, only an app that runs holds an account or waits for an answer, and
\* only a flush that runs has a list and a call (auth.tsx, pendingOps.ts, storage.ts).
THEOREM StorageIsTyped == DeviceSpec => []DeviceTypeOK
  <1>1. DeviceInv => DeviceTypeOK
    <2> SUFFICES ASSUME DeviceInv PROVE DeviceTypeOK
      OBVIOUS
    <2>1. AccountInv /\ StoredInv /\ ListsInv /\ CallsInv
      BY DEF DeviceInv, QueueInv
    <2>2. \A i \in 1..Len(queue) : queue[i] \in Entries
      BY <2>1, ListedOps DEF ListsInv
    <2>3. ~running => me = None /\ \A c \in Callers : call[c] = Idle
      BY <2>1 DEF AccountInv, CallsInv
    <2>4. \A f \in Flushes : as[f] = None => todo[f] = <<>> /\ call[f] = Idle
      BY <2>1 DEF CallsInv
    <2> QED
      BY <2>1, <2>2, <2>3, <2>4 DEF DeviceTypeOK, AccountInv, StoredInv, UserOrNone, LeavingSteps
  <1> QED
    BY <1>1, DeviceKept, PTL

\* However often the app is killed, a sign-out is cut off and writers of the queue overlap, the
\* phone keeps an account's work until the server took it or turned it away, adds none of it
\* twice and shows none of it to the next account (pendingOps.ts, storage.ts, auth.tsx, push.ts).
THEOREM PhoneKeepsItsOwn == DeviceSpec => []DeviceKeepsItsOwn
  <1>1. DeviceInv => DeviceKeepsItsOwn
    <2> SUFFICES ASSUME DeviceInv PROVE DeviceKeepsItsOwn
      OBVIOUS
    <2>1. AccountInv /\ StoredInv /\ WaitsInv /\ WorkInv
      BY DEF DeviceInv, QueueInv
    <2>2. CreatedOnce
      BY <2>1 DEF WaitsInv, CreatedOnce
    <2>3. QueueKeepsWork
      BY <2>1 DEF WorkInv, Handled, QueueKeepsWork
    <2>4. me # None /\ leaving = "no" => lastUser = me
      BY <2>1 DEF AccountInv
    <2>5. StorageIsOwn
      BY <2>1, <2>4 DEF StoredInv, StorageIsOwn
    <2>6. MarkerMeansRegistered
      BY <2>1, <2>4 DEF StoredInv, MarkerMeansRegistered
    <2> QED
      BY <2>2, <2>3, <2>5, <2>6 DEF DeviceKeepsItsOwn
  <1> QED
    BY <1>1, DeviceKept, PTL

-----------------------------------------------------------------------------
(* Helping: what is allowed when helping is switched off *)

PingSteps == {"idle", "measuring", "sent", "allowed"}

\* Helping was switched off for good: who asks or helps again withdraws `stopped'; and what the
\* server had allowed by then is what `raced' is about.
Stopped ==
    stopped => /\ avail # "on" /\ ~asking
               /\ position = "none" \/ raced
               /\ \A p \in Pings : ping[p] = "allowed" => raced

SwitchInv == ping \in [Pings -> PingSteps] /\ Stopped

\* A ping moves on: none is allowed that was not, once helping is over.
LEMMA PingMoves ==
    ASSUME SwitchInv, NEW p \in Pings, NEW pc \in PingSteps, ping' = [ping EXCEPT ![p] = pc],
           pc = "allowed" => MayShareLocation,
           UNCHANGED <<avail, asking, stopped, raced>>,
           position' = position \/ ping[p] = "allowed"
    PROVE  SwitchInv'
  <1>1. ping' \in [Pings -> PingSteps]
    BY DEF SwitchInv
  <1>2. \A q \in Pings : ping'[q] = IF q = p THEN pc ELSE ping[q]
    BY DEF SwitchInv
  <1>3. Stopped'
    BY <1>2 DEF SwitchInv, Stopped, MayShareLocation
  <1> QED
    BY <1>1, <1>3 DEF SwitchInv

LEMMA PingKeeps ==
    ASSUME SwitchInv, NEW p \in Pings,
           StartPing(p) \/ Measure(p) \/ CheckShare(p) \/ WritePosition(p) \/ LosePing(p)
    PROVE  SwitchInv'
  <1>1. UNCHANGED <<avail, asking, stopped, raced>>
    BY DEF StartPing, Measure, CheckShare, WritePosition, LosePing
  <1>2. \E pc \in PingSteps : /\ ping' = [ping EXCEPT ![p] = pc]
                              /\ pc = "allowed" => MayShareLocation
    BY DEF StartPing, Measure, CheckShare, WritePosition, LosePing, PingSteps
  <1>3. position' = position \/ ping[p] = "allowed"
    BY DEF StartPing, Measure, CheckShare, WritePosition, LosePing
  <1> QED
    BY <1>1, <1>2, <1>3, PingMoves

\* Whatever else happens allows nothing.
NoneAllowed == \A p \in Pings : ping'[p] = "allowed" => ping[p] = "allowed"

LEMMA StoppedStays ==
    ASSUME SwitchInv, ping' \in [Pings -> PingSteps], NoneAllowed,
           asking' = asking, stopped' = stopped, raced' = raced,
           avail # "on" => avail' # "on", position = "none" => position' = "none"
    PROVE  SwitchInv'
  BY DEF SwitchInv, Stopped, NoneAllowed

LEMMA StoppedEnds ==
    ASSUME SwitchInv, ping' \in [Pings -> PingSteps], ~stopped'
    PROVE  SwitchInv'
  BY DEF SwitchInv, Stopped

LEMMA SwitchKeeps ==
    ASSUME SwitchInv, UNCHANGED ping,
           \/ Lapse \/ AskForHelp \/ NoLongerAsking \/ PositionExpires \/ PurgeLocations
           \/ Switch \/ ToggleStep \/ (\E c \in Togglers : LoseCall(c))
           \/ Refetch \/ ToBackground \/ TimeAway \/ ToForeground
    PROVE  SwitchInv'
  <1>1. ping' \in [Pings -> PingSteps] /\ NoneAllowed
    BY DEF SwitchInv, NoneAllowed
  <1>2. CASE AskForHelp
    BY <1>1, <1>2, StoppedEnds DEF AskForHelp
  <1>3. CASE NoLongerAsking
    BY <1>3 DEF NoLongerAsking, SwitchInv, Stopped
  <1>4. CASE Lapse \/ PositionExpires \/ PurgeLocations
    BY <1>1, <1>4, StoppedStays DEF Lapse, PositionExpires, PurgeLocations, Purgeable
  <1>5. CASE Switch \/ Consent \/ Refetch \/ ToBackground \/ TimeAway \/ ToForeground
    BY <1>1, <1>5, StoppedStays DEF Switch, Consent, Refetch, ToBackground, TimeAway, ToForeground
  <1>6. CASE PutOn
    <2>1. CASE stopped' = FALSE
      BY <1>1, <2>1, StoppedEnds
    <2>2. CASE UNCHANGED <<avail, stopped>>
      BY <1>1, <1>6, <2>2, StoppedStays DEF PutOn
    <2> QED
      BY <1>6, <2>1, <2>2 DEF PutOn
  <1>7. ASSUME NEW c \in Togglers, PutOff(c)
        PROVE  SwitchInv'
    BY <1>1, <1>7, StoppedStays DEF PutOff
  <1>8. ASSUME NEW c \in Togglers, DeletePosition(c)
        PROVE  SwitchInv'
    BY <1>8 DEF DeletePosition, SwitchInv, Stopped
  <1>9. ASSUME NEW c \in Togglers, LoseCall(c)
        PROVE  SwitchInv'
    <2>1. CASE avail' = "on"
      BY <1>1, <1>9, <2>1, StoppedEnds DEF LoseCall
    <2>2. CASE avail' # "on"
      <3>1. UNCHANGED <<asking, raced>> /\ stopped' = stopped
        BY <1>9, <2>2 DEF LoseCall
      <3>2. position = "none" => position' = "none"
        BY <1>9 DEF LoseCall
      <3> QED
        BY <1>1, <2>2, <3>1, <3>2, StoppedStays
    <2> QED
      BY <2>1, <2>2
  <1> QED
    BY <1>2, <1>3, <1>4, <1>5, <1>6, <1>7, <1>8, <1>9 DEF ToggleStep

LEMMA SwitchKept == SwitchInv /\ [HelpingNext]_helpingVars => SwitchInv'
  <1> SUFFICES ASSUME SwitchInv, [HelpingNext]_helpingVars
               PROVE  SwitchInv'
    OBVIOUS
  <1>1. CASE UNCHANGED helpingVars
    BY <1>1 DEF helpingVars, SwitchInv, Stopped
  <1>2. CASE KillApp
    <2>1. UNCHANGED <<avail, asking, position, stopped, raced>>
      BY <1>2 DEF KillApp
    <2>2. ping' = [p \in Pings |-> IF ping[p] = "allowed" THEN "allowed" ELSE "idle"]
      BY <1>2 DEF KillApp
    <2>3. ping' \in [Pings -> PingSteps] /\ NoneAllowed
      BY <2>2 DEF PingSteps, NoneAllowed
    <2> QED
      BY <2>1, <2>3, StoppedStays
  <1>3. CASE \E p \in Pings : StartPing(p) \/ Measure(p) \/ CheckShare(p) \/ WritePosition(p) \/ LosePing(p)
    BY <1>3, PingKeeps
  <1>4. CASE \/ Lapse \/ AskForHelp \/ NoLongerAsking \/ PositionExpires \/ PurgeLocations
             \/ Switch \/ ToggleStep \/ (\E c \in Togglers : LoseCall(c))
             \/ Refetch \/ ToBackground \/ TimeAway \/ ToForeground
    <2>1. UNCHANGED ping
      BY <1>4 DEF Lapse, AskForHelp, NoLongerAsking, PositionExpires, PurgeLocations, Switch, ToggleStep,
                  Consent, PutOn, PutOff, DeletePosition, LoseCall, Refetch, ToBackground, TimeAway, ToForeground
    <2> QED
      BY <1>4, <2>1, SwitchKeeps
  <1> QED
    BY <1>1, <1>2, <1>3, <1>4 DEF HelpingNext

\* OffMeansNoPosition: once helping is off and the delete was carried out, no ping brings the
\* position back but one the server had allowed before (putLocation).
THEOREM SwitchedOffLeavesNothing == HelpingSpec => []OffMeansNoPosition
  <1>1. HelpingInit => SwitchInv
    BY DEF HelpingInit, SwitchInv, Stopped, PingSteps
  <1>2. SwitchInv => OffMeansNoPosition
    BY DEF SwitchInv, Stopped, OffMeansNoPosition
  <1> QED
    BY <1>1, <1>2, SwitchKept, PTL DEF HelpingSpec

-----------------------------------------------------------------------------
(* Screens: what is done to a stack *)

AnyScreen == [kind : Kinds, id : Offers \cup {Mine}, done : BOOLEAN]
Stacks == {st \in Seq(AnyScreen) : Len(st) >= 1}

LEMMA ScreenIsOne ==
    ASSUME NEW k \in Kinds, NEW m \in Offers \cup {Mine}
    PROVE  /\ Screen(k, m) \in AnyScreen
           /\ Screen(k, m).kind = k /\ Screen(k, m).id = m /\ Screen(k, m).done = FALSE
  BY DEF Screen, AnyScreen

LEMMA PushingAdds ==
    ASSUME NEW st \in Stacks, NEW s \in AnyScreen
    PROVE  /\ Append(st, s) \in Stacks
           /\ \A j \in 1..Len(Append(st, s)) :
                 Append(st, s)[j] = s \/ (j \in 1..Len(st) /\ Append(st, s)[j] = st[j])
  BY DEF Stacks

LEMMA ReplacingSwaps ==
    ASSUME NEW st \in Stacks, NEW s \in AnyScreen
    PROVE  /\ Replaced(st, s) \in Stacks /\ Len(Replaced(st, s)) = Len(st)
           /\ Replaced(st, s)[Len(st)] = s
           /\ \A j \in 1..Len(st) : j # Len(st) => Replaced(st, s)[j] = st[j]
  BY DEF Stacks, Replaced

LEMMA FrontDrops ==
    ASSUME NEW st \in Stacks, Len(st) > 1
    PROVE  /\ Front(st) \in Stacks
           /\ \A j \in 1..Len(Front(st)) : j \in 1..Len(st) /\ Front(st)[j] = st[j]
  <1>1. Len(st) \in Nat /\ st \in Seq(AnyScreen)
    BY DEF Stacks
  <1>2. Front(st) = SubSeq(st, 1, Len(st) - 1)
    BY DEF Front
  <1>3. /\ SubSeq(st, 1, Len(st) - 1) \in Seq(AnyScreen)
        /\ Len(SubSeq(st, 1, Len(st) - 1)) = Len(st) - 1
        /\ \A j \in 1..Len(st) - 1 : SubSeq(st, 1, Len(st) - 1)[j] = st[j]
    BY <1>1, SMT
  <1> QED
    BY <1>1, <1>2, <1>3 DEF Stacks

LEMMA MarkingKeeps ==
    ASSUME NEW st \in Stacks, NEW i \in 1..Len(st)
    PROVE  LET new == [st EXCEPT ![i].done = TRUE] IN
           /\ new \in Stacks /\ Len(new) = Len(st)
           /\ \A j \in 1..Len(st) : new[j].kind = st[j].kind /\ new[j].id = st[j].id
           /\ \A j \in 1..Len(st) : j # i => new[j] = st[j]
  <1>1. st[i] \in AnyScreen
    BY DEF Stacks
  <1>2. [st[i] EXCEPT !.done = TRUE] \in AnyScreen
        /\ [st[i] EXCEPT !.done = TRUE].kind = st[i].kind /\ [st[i] EXCEPT !.done = TRUE].id = st[i].id
    BY <1>1 DEF AnyScreen
  <1> DEFINE s == [st[i] EXCEPT !.done = TRUE]
  <1>3. [st EXCEPT ![i].done = TRUE] = [st EXCEPT ![i] = s]
    OBVIOUS
  <1> HIDE DEF s
  <1>4. [st EXCEPT ![i] = s] \in Stacks /\ Len([st EXCEPT ![i] = s]) = Len(st)
    BY <1>2 DEF Stacks, s
  <1>5. \A j \in 1..Len(st) : [st EXCEPT ![i] = s][j] = IF j = i THEN s ELSE st[j]
    BY DEF Stacks
  <1> QED
    BY <1>2, <1>3, <1>4, <1>5 DEF s

-----------------------------------------------------------------------------
(* Screens: the invariant *)

\* A screen of the stack: an offer's is about an offer, and a moment that has moved on and is
\* still there was covered.
Stands(s) ==
    /\ s \in AnyScreen
    /\ s.kind = "offer" => s.id \in Offers
    /\ s.kind = "found" /\ s.done => s.id \in covered
StackStands == stack \in Stacks /\ \A i \in 1..Len(stack) : Stands(stack[i])

\* The ref names every offer pushed since the start, which is why none is pushed again.
PushesAreSeen ==
    /\ pushes \in [Offers -> Nat]
    /\ \A o \in Offers : pushes[o] <= 1 /\ (pushes[o] # 0 => o \in seenOffers)

\* Until two checks have overlapped there is at most one, and while it runs neither the moment
\* nor its conversation was opened.
OneCheck ==
    /\ checks \in Nat /\ recorded = opened
    /\ overlap \in BOOLEAN /\ again \in BOOLEAN
    /\ again => overlap
    /\ ~overlap => /\ checks <= 1
                   /\ checks > 0 => Mine \notin opened /\ ~On("found", Mine)

AnswersAreOffers == \A a \in answers : a.id \in Offers
ScreensInv == StackStands /\ PushesAreSeen /\ OneCheck /\ AnswersAreOffers

LEMMA ScreensInvSafe == ScreensInv => ShownOnce
  <1> SUFFICES ASSUME ScreensInv PROVE ShownOnce
    OBVIOUS
  <1>1. OfferPushedOnce
    BY DEF ScreensInv, PushesAreSeen, OfferPushedOnce
  <1>2. NotCelebratedAgain
    BY DEF ScreensInv, OneCheck, NotCelebratedAgain
  <1>3. NoDeadScreens
    BY DEF ScreensInv, StackStands, Stands, NoDeadScreens
  <1> QED
    BY <1>1, <1>2, <1>3 DEF ShownOnce

\* What a step leaves of the stack: no moment of the own match appears.
NoNewMoment ==
    \A j \in 1..Len(stack') : (stack'[j].kind = "found" /\ stack'[j].id = Mine)
                                  => \E i \in 1..Len(stack) : stack[i].kind = "found" /\ stack[i].id = Mine

LEMMA NoMomentAppears ==
    ASSUME OneCheck, NoNewMoment, checks' = checks,
           UNCHANGED <<recorded, opened, again, overlap>>
    PROVE  OneCheck'
  BY DEF OneCheck, NoNewMoment, On

\* Every step that only pushes a screen.
LEMMA PushKeeps ==
    ASSUME ScreensInv, NEW k \in Kinds \ {"found"}, NEW m \in Offers \cup {Mine},
           k = "offer" => m \in Offers,
           stack' = Append(stack, Screen(k, m)),
           UNCHANGED <<covered, recorded, opened, again, overlap>>, checks' = checks
    PROVE  StackStands' /\ OneCheck'
  <1> DEFINE s == Screen(k, m)
  <1>1. s \in AnyScreen /\ s.kind = k /\ s.id = m
    BY ScreenIsOne
  <1> HIDE DEF s
  <1>2. stack \in Stacks /\ \A i \in 1..Len(stack) : Stands(stack[i])
    BY DEF ScreensInv, StackStands
  <1>3. stack' = Append(stack, s)
    BY DEF s
  <1>4. /\ stack' \in Stacks
        /\ \A j \in 1..Len(stack') : stack'[j] = s \/ (j \in 1..Len(stack) /\ stack'[j] = stack[j])
    BY <1>1, <1>2, <1>3, PushingAdds
  <1>5. Stands(s)'
    BY <1>1 DEF Stands, s
  <1>6. StackStands'
    BY <1>2, <1>4, <1>5 DEF StackStands, Stands
  <1>7. NoNewMoment
    BY <1>1, <1>4 DEF NoNewMoment
  <1> QED
    BY <1>6, <1>7, NoMomentAppears DEF ScreensInv

\* Every step that only takes the top away.
LEMMA PopKeeps ==
    ASSUME ScreensInv, Len(stack) > 1, stack' = Front(stack),
           UNCHANGED <<covered, recorded, opened, again, overlap>>, checks' = checks
    PROVE  StackStands' /\ OneCheck'
  <1>1. stack \in Stacks /\ \A i \in 1..Len(stack) : Stands(stack[i])
    BY DEF ScreensInv, StackStands
  <1>2. /\ stack' \in Stacks
        /\ \A j \in 1..Len(stack') : j \in 1..Len(stack) /\ stack'[j] = stack[j]
    BY <1>1, FrontDrops
  <1>3. StackStands'
    BY <1>1, <1>2 DEF StackStands, Stands
  <1>4. NoNewMoment
    BY <1>2 DEF NoNewMoment
  <1> QED
    BY <1>3, <1>4, NoMomentAppears DEF ScreensInv

-----------------------------------------------------------------------------
(* Screens: each step *)

LEMMA ServerStepKeeps ==
    ASSUME ScreensInv, UNCHANGED <<screens, seenOffers, recorded, pushes, covered, overlap, again, opened>>
    PROVE  ScreensInv'
  BY DEF ScreensInv, screens, StackStands, Stands, PushesAreSeen, OneCheck, AnswersAreOffers, On

LEMMA FetchOffersKeeps == ScreensInv /\ FetchOffers => ScreensInv'
  <1> SUFFICES ASSUME ScreensInv, FetchOffers PROVE ScreensInv'
    OBVIOUS
  <1>1. UNCHANGED <<answers, checks, recorded, covered, overlap, again, opened>>
    BY DEF FetchOffers
  <1>2. CASE UNCHANGED <<seenOffers, stack, pushes>>
    BY <1>1, <1>2, ServerStepKeeps DEF screens
  <1>3. CASE ~UNCHANGED <<seenOffers, stack, pushes>>
    <2>1. PICK o \in Offers : /\ o \notin seenOffers
                              /\ seenOffers' = seenOffers \cup {o}
                              /\ pushes' = [pushes EXCEPT ![o] = @ + 1]
                              /\ stack' = Append(stack, Screen("offer", o))
      BY <1>3 DEF FetchOffers, PushScreen, Unseen
    <2>2. "offer" \in Kinds \ {"found"}
      BY DEF Kinds
    <2>3. StackStands' /\ OneCheck'
      BY <1>1, <2>1, <2>2, PushKeeps
    <2>4. pushes[o] = 0
      BY <2>1 DEF ScreensInv, PushesAreSeen
    <2>5. PushesAreSeen'
      BY <2>1, <2>4 DEF ScreensInv, PushesAreSeen
    <2>6. AnswersAreOffers'
      BY <1>1 DEF ScreensInv, AnswersAreOffers
    <2> QED
      BY <2>3, <2>5, <2>6 DEF ScreensInv
  <1> QED
    BY <1>2, <1>3

LEMMA RespondKeeps == \A accept \in BOOLEAN : ScreensInv /\ Respond(accept) => ScreensInv'
  <1> SUFFICES ASSUME NEW accept \in BOOLEAN, ScreensInv, Respond(accept) PROVE ScreensInv'
    OBVIOUS
  <1>1. UNCHANGED <<stack, checks, seenOffers, recorded, pushes, covered, overlap, again, opened>>
    BY DEF Respond
  <1>2. Len(stack) \in 1..Len(stack)
    BY DEF ScreensInv, StackStands, Stacks
  <1>3. Top.id \in Offers
    BY <1>2 DEF Respond, Top, ScreensInv, StackStands, Stands
  <1>4. \A a \in answers' : a \in answers \/ a.id = Top.id
    BY DEF Respond
  <1>5. AnswersAreOffers'
    BY <1>3, <1>4 DEF ScreensInv, AnswersAreOffers
  <1>6. StackStands' /\ PushesAreSeen' /\ OneCheck'
    BY <1>1 DEF ScreensInv, StackStands, Stands, PushesAreSeen, OneCheck, On
  <1> QED
    BY <1>5, <1>6 DEF ScreensInv

LEMMA PoppedKeeps ==
    ASSUME ScreensInv, stack' = Popped(stack),
           UNCHANGED <<covered, recorded, opened, again, overlap>>, checks' = checks
    PROVE  StackStands' /\ OneCheck'
  <1>1. CASE Len(stack) > 1
    BY <1>1, PopKeeps DEF Popped
  <1>2. CASE ~(Len(stack) > 1)
    <2>1. stack' = stack
      BY <1>2 DEF Popped
    <2> QED
      BY <2>1 DEF ScreensInv, StackStands, Stands, OneCheck, On
  <1> QED
    BY <1>1, <1>2

\* The moment of an accepted offer is not that of the own request.
LEMMA AnswerArrivesKeeps == \A a \in answers : ScreensInv /\ AnswerArrives(a) => ScreensInv'
  <1> SUFFICES ASSUME NEW a \in answers, ScreensInv, AnswerArrives(a) PROVE ScreensInv'
    OBVIOUS
  <1>1. UNCHANGED <<seenOffers, pushes>> /\ UNCHANGED <<covered, recorded, opened, again, overlap>> /\ checks' = checks
    BY DEF AnswerArrives
  <1>2. PushesAreSeen' /\ AnswersAreOffers'
    BY <1>1 DEF AnswerArrives, ScreensInv, PushesAreSeen, AnswersAreOffers
  <1>3. CASE a.end = "accepted"
    <2> DEFINE s == Screen("found", a.id)
    <2>1. a.id \in Offers /\ a.id \in Offers \cup {Mine} /\ a.id # Mine
      BY ScreensAssumption DEF ScreensInv, AnswersAreOffers
    <2>2. "found" \in Kinds
      BY DEF Kinds
    <2>3. s \in AnyScreen /\ s.kind = "found" /\ s.id = a.id /\ s.done = FALSE
      BY <2>1, <2>2, ScreenIsOne
    <2> HIDE DEF s
    <2>4. stack \in Stacks /\ \A i \in 1..Len(stack) : Stands(stack[i])
      BY DEF ScreensInv, StackStands
    <2>5. stack' = Replaced(stack, s)
      BY <1>3 DEF AnswerArrives, s
    <2>6. /\ stack' \in Stacks /\ Len(stack') = Len(stack)
          /\ \A j \in 1..Len(stack) : stack'[j] = s \/ stack'[j] = stack[j]
      BY <2>3, <2>4, <2>5, ReplacingSwaps
    <2>7. StackStands'
      BY <1>1, <2>3, <2>4, <2>6 DEF StackStands, Stands
    <2>8. NoNewMoment
      BY <2>1, <2>3, <2>6 DEF NoNewMoment
    <2>9. OneCheck'
      BY <1>1, <2>8, NoMomentAppears DEF ScreensInv
    <2> QED
      BY <1>2, <2>7, <2>9 DEF ScreensInv
  <1>4. CASE a.end # "accepted"
    <2>1. stack' = Popped(stack)
      BY <1>4 DEF AnswerArrives
    <2>2. StackStands' /\ OneCheck'
      BY <1>1, <2>1, PoppedKeeps
    <2> QED
      BY <1>2, <2>2 DEF ScreensInv
  <1> QED
    BY <1>3, <1>4

\* Storage is asked only where nothing was recorded; a second check, or one beside the moment,
\* is an overlap.
LEMMA FetchRequestKeeps == ScreensInv /\ FetchRequest => ScreensInv'
  <1> SUFFICES ASSUME ScreensInv, FetchRequest PROVE ScreensInv'
    OBVIOUS
  <1>1. UNCHANGED <<answers, seenOffers, recorded, pushes, covered, again, opened>>
    BY DEF FetchRequest
  <1>2. PICK i \in 1..Len(stack) : stack[i].kind = "request" /\ stack' = [stack EXCEPT ![i].done = TRUE]
    BY DEF FetchRequest
  <1>3. stack \in Stacks /\ \A j \in 1..Len(stack) : Stands(stack[j])
    BY DEF ScreensInv, StackStands
  <1> DEFINE st == [stack EXCEPT ![i].done = TRUE]
  <1>14. /\ st \in Stacks /\ Len(st) = Len(stack)
         /\ \A j \in 1..Len(stack) : st[j].kind = stack[j].kind /\ st[j].id = stack[j].id
         /\ \A j \in 1..Len(stack) : j # i => st[j] = stack[j]
    BY <1>3, MarkingKeeps
  <1>4. /\ stack' \in Stacks /\ Len(stack') = Len(stack)
        /\ \A j \in 1..Len(stack) : stack'[j].kind = stack[j].kind /\ stack'[j].id = stack[j].id
        /\ \A j \in 1..Len(stack) : j # i => stack'[j] = stack[j]
    BY <1>2, <1>14
  <1>5. \A j \in 1..Len(stack') : stack'[j] \in AnyScreen
    BY <1>4 DEF Stacks
  <1>6. \A j \in 1..Len(stack') : Stands(stack[j])'
    <2> TAKE j \in 1..Len(stack')
    <2>1. j \in 1..Len(stack) /\ Stands(stack[j]) /\ stack'[j] \in AnyScreen
      BY <1>3, <1>4, <1>5
    <2>2. stack'[j].kind = stack[j].kind /\ stack'[j].id = stack[j].id
      BY <1>4, <2>1
    <2>3. stack'[j].kind = "found" => stack'[j] = stack[j]
      BY <1>2, <1>4, <2>1, <2>2
    <2> QED
      BY <1>1, <2>1, <2>2, <2>3 DEF Stands
  <1>7. StackStands'
    BY <1>4, <1>6 DEF StackStands
  <1>8. overlap' = (overlap \/ checks > 0 \/ On("found", Mine)) /\ checks' = IF Mine \in recorded THEN checks ELSE checks + 1
    BY DEF FetchRequest, HasSeenMatchFound
  <1>9. On("found", Mine)' => On("found", Mine)
    BY <1>4 DEF On
  <1>10. OneCheck'
    <2>1. checks' \in Nat /\ overlap' \in BOOLEAN /\ again' \in BOOLEAN /\ recorded' = opened'
      BY <1>1, <1>8 DEF ScreensInv, OneCheck
    <2>2. overlap => overlap'
      BY <1>8
    <2>3. ASSUME ~overlap'
          PROVE  checks = 0 /\ ~On("found", Mine)' /\ (Mine \in recorded => checks' = 0) /\ checks' <= 1
      <3>1. ~overlap /\ ~(checks > 0) /\ ~On("found", Mine)
        BY <1>8, <2>3
      <3>2. checks = 0
        BY <3>1 DEF ScreensInv, OneCheck
      <3> QED
        BY <1>8, <1>9, <3>1, <3>2
    <2>4. again' => overlap'
      BY <1>1, <2>2 DEF ScreensInv, OneCheck
    <2>5. ~overlap' => checks' <= 1 /\ (checks' > 0 => Mine \notin opened' /\ ~On("found", Mine)')
      BY <1>1, <2>3 DEF ScreensInv, OneCheck
    <2> QED
      BY <2>1, <2>4, <2>5 DEF OneCheck
  <1>11. PushesAreSeen' /\ AnswersAreOffers'
    BY <1>1 DEF ScreensInv, PushesAreSeen, AnswersAreOffers
  <1> QED
    BY <1>7, <1>10, <1>11 DEF ScreensInv

\* The check that is shown is the only one, unless there was an overlap.
LEMMA CelebrateKeeps == ScreensInv /\ Celebrate => ScreensInv'
  <1> SUFFICES ASSUME ScreensInv, Celebrate PROVE ScreensInv'
    OBVIOUS
  <1> DEFINE s == Screen("found", Mine)
  <1>1. UNCHANGED <<answers, seenOffers, recorded, pushes, covered, overlap, opened>>
    BY DEF Celebrate
  <1>2. s \in AnyScreen /\ s.kind = "found" /\ s.id = Mine /\ s.done = FALSE
    BY ScreenIsOne DEF Kinds
  <1> HIDE DEF s
  <1>3. stack \in Stacks /\ \A i \in 1..Len(stack) : Stands(stack[i])
    BY DEF ScreensInv, StackStands
  <1>4. stack' = Append(stack, s)
    BY DEF Celebrate, PushScreen, s
  <1>5. /\ stack' \in Stacks
        /\ \A j \in 1..Len(stack') : stack'[j] = s \/ (j \in 1..Len(stack) /\ stack'[j] = stack[j])
    BY <1>2, <1>3, <1>4, PushingAdds
  <1>6. StackStands'
    BY <1>1, <1>2, <1>3, <1>5 DEF StackStands, Stands
  <1>7. checks > 0 /\ checks' = checks - 1 /\ again' = (again \/ Mine \in opened)
    BY DEF Celebrate
  <1>8. OneCheck'
    <2>1. checks' \in Nat /\ overlap' \in BOOLEAN /\ again' \in BOOLEAN /\ recorded' = opened'
      BY <1>1, <1>7 DEF ScreensInv, OneCheck
    <2>2. ~overlap => checks' = 0 /\ ~again'
      BY <1>7 DEF ScreensInv, OneCheck
    <2> QED
      BY <1>1, <2>1, <2>2 DEF OneCheck
  <1>9. PushesAreSeen' /\ AnswersAreOffers'
    BY <1>1 DEF ScreensInv, PushesAreSeen, AnswersAreOffers
  <1> QED
    BY <1>6, <1>8, <1>9 DEF ScreensInv

\* The conversation of the own match is opened from its moment, beside which no check runs.
LEMMA OpenChatKeeps == \A i \in 1..Len(stack) : ScreensInv /\ OpenChat(i) => ScreensInv'
  <1> SUFFICES ASSUME NEW i \in 1..Len(stack), ScreensInv, OpenChat(i) PROVE ScreensInv'
    OBVIOUS
  <1> DEFINE m == stack[i].id
             s == Screen("chat", m)
             st == [stack EXCEPT ![i].done = TRUE]
  <1>1. UNCHANGED <<answers, seenOffers, pushes, overlap, again>> /\ checks' = checks
    BY DEF OpenChat
  <1>2. stack[i].kind = "found" /\ recorded' = recorded \cup {m} /\ opened' = opened \cup {m}
        /\ stack' = Replaced(st, Screen("chat", st[i].id))
        /\ covered' = IF i = Len(stack) THEN covered ELSE covered \cup {m}
    BY DEF OpenChat, ChatInstead
  <1>3. stack \in Stacks /\ \A j \in 1..Len(stack) : Stands(stack[j])
    BY DEF ScreensInv, StackStands
  <1>4. /\ st \in Stacks /\ Len(st) = Len(stack)
        /\ \A j \in 1..Len(stack) : st[j].kind = stack[j].kind /\ st[j].id = stack[j].id
        /\ \A j \in 1..Len(stack) : j # i => st[j] = stack[j]
    BY <1>3, MarkingKeeps
  <1> HIDE DEF st
  <1>5. m \in Offers \cup {Mine} /\ st[i].id = m
    BY <1>3, <1>4 DEF Stands, AnyScreen
  <1>6. s \in AnyScreen /\ s.kind = "chat" /\ s.id = m /\ s.done = FALSE
    BY <1>5, ScreenIsOne DEF Kinds
  <1>7. stack' = Replaced(st, s)
    BY <1>2, <1>5
  <1> HIDE DEF s
  <1>8. /\ stack' \in Stacks /\ Len(stack') = Len(stack) /\ stack'[Len(stack)] = s
        /\ \A j \in 1..Len(stack) : j # Len(stack) => stack'[j] = st[j]
    BY <1>4, <1>6, <1>7, ReplacingSwaps
  <1>9. \A j \in 1..Len(stack) : st[j] \in AnyScreen
    BY <1>4 DEF Stacks
  <1>10. \A j \in 1..Len(stack') : Stands(stack[j])'
    <2> TAKE j \in 1..Len(stack')
    <2>1. j \in 1..Len(stack)
      BY <1>8
    <2>2. CASE j = Len(stack)
      <3>1. stack'[j] = s
        BY <1>8, <2>2
      <3> QED
        BY <1>6, <3>1 DEF Stands
    <2>3. CASE j # Len(stack) /\ j # i
      <3>1. stack'[j] = stack[j] /\ Stands(stack[j])
        BY <1>3, <1>4, <1>8, <2>1, <2>3
      <3>2. covered \subseteq covered'
        BY <1>2
      <3> QED
        BY <3>1, <3>2 DEF Stands
    <2>4. CASE j # Len(stack) /\ j = i
      <3>1. stack'[j] = st[i] /\ st[i].kind = "found" /\ st[i].id = m /\ st[i] \in AnyScreen
        BY <1>2, <1>4, <1>5, <1>8, <1>9, <2>1, <2>4
      <3>2. m \in covered'
        BY <1>2, <2>4
      <3> QED
        BY <3>1, <3>2 DEF Stands
    <2> QED
      BY <2>2, <2>3, <2>4
  <1>11. StackStands'
    BY <1>8, <1>10 DEF StackStands
  <1>12. On("found", Mine)' => On("found", Mine)
    BY <1>4, <1>6, <1>8 DEF On
  <1>13. m = Mine => On("found", Mine)
    BY <1>2 DEF On
  <1>14. OneCheck'
    <2>1. recorded' = opened'
      BY <1>2 DEF ScreensInv, OneCheck
    <2>2. m # Mine => (Mine \in opened' => Mine \in opened)
      BY <1>2
    <2> QED
      BY <1>1, <1>12, <1>13, <2>1, <2>2 DEF ScreensInv, OneCheck
  <1>15. PushesAreSeen' /\ AnswersAreOffers'
    BY <1>1 DEF ScreensInv, PushesAreSeen, AnswersAreOffers
  <1> QED
    BY <1>11, <1>14, <1>15 DEF ScreensInv

LEMMA BackKeeps == ScreensInv /\ Back => ScreensInv'
  <1> SUFFICES ASSUME ScreensInv, Back PROVE ScreensInv'
    OBVIOUS
  <1>1. StackStands' /\ OneCheck'
    BY PopKeeps DEF Back
  <1>2. PushesAreSeen' /\ AnswersAreOffers'
    BY DEF Back, ScreensInv, PushesAreSeen, AnswersAreOffers
  <1> QED
    BY <1>1, <1>2 DEF ScreensInv

LEMMA OpenRequestKeeps == ScreensInv /\ OpenRequest => ScreensInv'
  <1> SUFFICES ASSUME ScreensInv, OpenRequest PROVE ScreensInv'
    OBVIOUS
  <1>1. "request" \in Kinds \ {"found"}
    BY DEF Kinds
  <1>2. StackStands' /\ OneCheck'
    BY <1>1, PushKeeps DEF OpenRequest, PushScreen
  <1>3. PushesAreSeen' /\ AnswersAreOffers'
    BY DEF OpenRequest, ScreensInv, PushesAreSeen, AnswersAreOffers
  <1> QED
    BY <1>2, <1>3 DEF ScreensInv

LEMMA FollowLinkKeeps == \A s \in Links : ScreensInv /\ FollowLink(s) => ScreensInv'
  <1> SUFFICES ASSUME NEW s \in Links, ScreensInv, FollowLink(s) PROVE ScreensInv'
    OBVIOUS
  <1>1. "offer" \in Kinds \ {"found"} /\ "chat" \in Kinds \ {"found"}
    BY DEF Kinds
  <1>2. stack' = Append(stack, s) /\ checks' = checks
    BY DEF FollowLink, PushScreen
  <1>3. UNCHANGED <<covered, recorded, opened, again, overlap>>
    BY DEF FollowLink
  <1>4. StackStands' /\ OneCheck'
    <2>1. CASE s = Screen("chat", Mine)
      BY <1>1, <1>2, <1>3, <2>1, PushKeeps
    <2>2. ASSUME NEW o \in Offers, s = Screen("offer", o)
          PROVE  StackStands' /\ OneCheck'
      BY <1>1, <1>2, <1>3, <2>2, PushKeeps
    <2> QED
      BY <2>1, <2>2 DEF Links
  <1>5. PushesAreSeen' /\ AnswersAreOffers'
    BY DEF FollowLink, ScreensInv, PushesAreSeen, AnswersAreOffers
  <1> QED
    BY <1>4, <1>5 DEF ScreensInv

\* A start of the app: the home screen, nothing seen, nothing under way.
LEMMA HomeStands ==
    /\ <<Home>> \in Stacks
    /\ \A i \in 1..Len(<<Home>>) : /\ <<Home>>[i] \in AnyScreen /\ <<Home>>[i].kind = "home"
                                   /\ <<Home>>[i].done = FALSE
  <1>1. Home \in AnyScreen /\ Home.kind = "home" /\ Home.done = FALSE
    BY ScreenIsOne DEF Home, Kinds
  <1> QED
    BY <1>1 DEF Stacks

LEMMA RestartKeeps == ScreensInv /\ Restart => ScreensInv'
  <1> SUFFICES ASSUME ScreensInv, Restart PROVE ScreensInv'
    OBVIOUS
  <1>1. StackStands'
    BY HomeStands DEF Restart, StackStands, Stands
  <1>2. ~On("found", Mine)'
    BY HomeStands DEF Restart, On
  <1>3. PushesAreSeen' /\ AnswersAreOffers'
    BY DEF Restart, PushesAreSeen, AnswersAreOffers
  <1>4. OneCheck'
    BY DEF Restart, ScreensInv, OneCheck
  <1> QED
    BY <1>1, <1>3, <1>4 DEF ScreensInv

LEMMA ScreensStart == ScreensInit => ScreensInv
  <1> SUFFICES ASSUME ScreensInit PROVE ScreensInv
    OBVIOUS
  <1>1. StackStands
    BY HomeStands DEF ScreensInit, StackStands, Stands
  <1>2. PushesAreSeen
    BY DEF ScreensInit, PushesAreSeen
  <1>3. AnswersAreOffers
    BY DEF ScreensInit, AnswersAreOffers
  <1>4. OneCheck
    <2>1. overlap = FALSE /\ again = FALSE /\ recorded = opened
      BY DEF ScreensInit
    <2>2. checks = 0
      BY DEF ScreensInit
    <2>3. checks \in Nat /\ checks <= 1 /\ ~(checks > 0)
      BY <2>2
    <2> QED
      BY <2>1, <2>3 DEF OneCheck
  <1> QED
    BY <1>1, <1>2, <1>3, <1>4 DEF ScreensInv

LEMMA ScreensKept == ScreensInv /\ [ScreensNext]_screenVars => ScreensInv'
  <1> SUFFICES ASSUME ScreensInv, [ScreensNext]_screenVars PROVE ScreensInv'
    OBVIOUS
  <1>1. CASE UNCHANGED screenVars
    BY <1>1, ServerStepKeeps DEF screenVars
  <1>2. CASE \/ \E o \in Offers : MakeOffer(o) \/ ExpireOffer(o)
             \/ MatchMine \/ CloseMine
    BY <1>2, ServerStepKeeps DEF MakeOffer, ExpireOffer, MatchMine, CloseMine
  <1>3. CASE FetchOffers \/ (\E accept \in BOOLEAN : Respond(accept)) \/ \E a \in answers : AnswerArrives(a)
    BY <1>3, FetchOffersKeeps, RespondKeeps, AnswerArrivesKeeps
  <1>4. CASE OpenRequest \/ FetchRequest \/ Celebrate \/ \E i \in 1..Len(stack) : OpenChat(i)
    BY <1>4, OpenRequestKeeps, FetchRequestKeeps, CelebrateKeeps, OpenChatKeeps
  <1>5. CASE Back \/ (\E s \in Links : FollowLink(s)) \/ Restart
    BY <1>5, BackKeeps, FollowLinkKeeps, RestartKeeps
  <1> QED
    BY <1>1, <1>2, <1>3, <1>4, <1>5 DEF ScreensNext

\* ShownOnce: an offer is pushed once in a run of the app, a celebration is not repeated after
\* its conversation but by overlapping checks, and no moment that has moved on stays behind
\* unless another screen covered it (live.tsx, request/[id].tsx, match-found/[id].tsx).
THEOREM MomentsAreShownOnce == ScreensSpec => []ShownOnce
  <1> QED
    BY ScreensStart, ScreensKept, ScreensInvSafe, PTL DEF ScreensSpec

-----------------------------------------------------------------------------
(* Helping: the availability screen and the pings *)

PhoneSideTypes ==
    /\ shownOn \in BOOLEAN /\ front \in BOOLEAN /\ ticking \in BOOLEAN
    /\ ticking => shownOn
    /\ away \in {"none", "short", "long"}
    /\ away # "none" => shownOn /\ ~ticking /\ ~front
ServerTypes == avail \in {"off", "on", "lapsed"} /\ position \in {"none", "fresh", "expired"}
PingTypes == ping \in [Pings -> {"idle", "measuring", "sent", "allowed"}]
ToggleTypes ==
    /\ toggle \in [Togglers -> {"no", "consent", "on", "off", "delete"}]
    /\ toggle["away"] \in {"no", "off", "delete"}
HelpingTypes == PhoneSideTypes /\ ServerTypes /\ PingTypes /\ ToggleTypes

LEMMA HelpingTyped == HelpingTypes /\ [HelpingNext]_helpingVars => HelpingTypes'
  <1> SUFFICES ASSUME HelpingTypes, [HelpingNext]_helpingVars PROVE HelpingTypes'
    OBVIOUS
  <1> USE DEF HelpingTypes
  <1>1. CASE UNCHANGED helpingVars
    BY <1>1 DEF helpingVars, phoneSide, PhoneSideTypes, ServerTypes, PingTypes, ToggleTypes
  <1>2. CASE Lapse \/ AskForHelp \/ NoLongerAsking \/ PositionExpires \/ PurgeLocations
    <2>1. UNCHANGED <<phoneSide, ping, toggle>>
      BY <1>2 DEF Lapse, AskForHelp, NoLongerAsking, PositionExpires, PurgeLocations
    <2>2. ServerTypes'
      BY <1>2 DEF Lapse, AskForHelp, NoLongerAsking, PositionExpires, PurgeLocations, ServerTypes
    <2> QED
      BY <2>1, <2>2 DEF phoneSide, PhoneSideTypes, PingTypes, ToggleTypes
  <1>3. ASSUME NEW p \in Pings,
               StartPing(p) \/ Measure(p) \/ CheckShare(p) \/ WritePosition(p) \/ LosePing(p)
        PROVE  HelpingTypes'
    <2>1. UNCHANGED <<phoneSide, toggle>>
      BY <1>3 DEF StartPing, Measure, CheckShare, WritePosition, LosePing
    <2>2. ServerTypes'
      BY <1>3 DEF StartPing, Measure, CheckShare, WritePosition, LosePing, ServerTypes
    <2>3. PingTypes'
      BY <1>3 DEF StartPing, Measure, CheckShare, WritePosition, LosePing, PingTypes
    <2> QED
      BY <2>1, <2>2, <2>3 DEF phoneSide, PhoneSideTypes, ToggleTypes
  <1>4. ASSUME NEW c \in Togglers, Switch \/ Consent \/ PutOn \/ PutOff(c) \/ DeletePosition(c) \/ LoseCall(c)
        PROVE  HelpingTypes'
    <2>1. UNCHANGED <<phoneSide, ping>>
      BY <1>4 DEF Switch, Consent, PutOn, PutOff, DeletePosition, LoseCall
    <2>2. ServerTypes'
      BY <1>4 DEF Switch, Consent, PutOn, PutOff, DeletePosition, LoseCall, ServerTypes, ToggleTypes
    <2>3. ToggleTypes'
      <3>1. CASE Switch \/ Consent \/ PutOn
        BY <3>1 DEF Switch, Consent, PutOn, Toggling, ToggleTypes, Togglers
      <3>2. CASE PutOff(c) \/ DeletePosition(c) \/ LoseCall(c)
        BY <3>2 DEF PutOff, DeletePosition, LoseCall, Toggling, ToggleTypes, Togglers
      <3> QED
        BY <1>4, <3>1, <3>2
    <2> QED
      BY <2>1, <2>2, <2>3 DEF phoneSide, PhoneSideTypes, PingTypes
  <1>5. CASE Refetch
    <2>1. PhoneSideTypes'
      <3>1. shownOn' \in BOOLEAN /\ ticking' \in BOOLEAN /\ front' = front /\ (ticking' => shownOn')
        BY <1>5 DEF Refetch, TicksAfter, PhoneSideTypes
      <3>2. CASE away' = "none"
        BY <3>1, <3>2 DEF PhoneSideTypes
      <3>3. CASE away' # "none"
        <4>1. away' = away /\ shownOn' = shownOn
          BY <1>5, <3>3 DEF Refetch
        <4>2. shownOn = TRUE /\ ticking = FALSE /\ front = FALSE
          BY <3>3, <4>1 DEF PhoneSideTypes
        <4>3. ticking' = FALSE
          BY <1>5, <4>2 DEF Refetch, TicksAfter
        <4> QED
          BY <3>1, <4>1, <4>2, <4>3 DEF PhoneSideTypes
      <3> QED
        BY <3>2, <3>3
    <2> QED
      BY <1>5, <2>1 DEF Refetch, ServerTypes, PingTypes, ToggleTypes
  <1>6. CASE ToBackground
    <2>1. PhoneSideTypes'
      BY <1>6 DEF ToBackground, PhoneSideTypes
    <2> QED
      BY <1>6, <2>1 DEF ToBackground, ServerTypes, PingTypes, ToggleTypes
  <1>7. CASE TimeAway
    <2>1. PhoneSideTypes'
      BY <1>7 DEF TimeAway, PhoneSideTypes
    <2> QED
      BY <1>7, <2>1 DEF TimeAway, ServerTypes, PingTypes, ToggleTypes
  <1>8. CASE ToForeground
    <2>1. PhoneSideTypes'
      BY <1>8 DEF ToForeground, PhoneSideTypes
    <2>2. ToggleTypes'
      BY <1>8 DEF ToForeground, Toggling, ToggleTypes, Togglers
    <2> QED
      BY <1>8, <2>1, <2>2 DEF ToForeground, ServerTypes, PingTypes
  <1>9. CASE KillApp
    <2>1. PhoneSideTypes' /\ ToggleTypes'
      BY <1>9 DEF KillApp, PhoneSideTypes, ToggleTypes, Togglers
    <2>2. PingTypes'
      BY <1>9 DEF KillApp, PingTypes
    <2> QED
      BY <1>9, <2>1, <2>2 DEF KillApp, ServerTypes
  <1> QED
    BY <1>1, <1>2, <1>3, <1>4, <1>5, <1>6, <1>7, <1>8, <1>9 DEF HelpingNext, ToggleStep, Togglers

\* Every variable of helping keeps its type; pings tick only while the screen shows helping on,
\* and an absence is remembered only while they do not (useLocationPings).
THEOREM HelpingIsTyped == HelpingSpec => []HelpingTypeOK
  <1>1. HelpingInit => HelpingTypes
    BY DEF HelpingInit, HelpingTypes, PhoneSideTypes, ServerTypes, PingTypes, ToggleTypes, Togglers
  <1>2. HelpingTypes => HelpingTypeOK
    BY DEF HelpingTypes, PhoneSideTypes, ServerTypes, PingTypes, ToggleTypes, HelpingTypeOK
  <1> QED
    BY <1>1, <1>2, HelpingTyped, PTL DEF HelpingSpec

-----------------------------------------------------------------------------
(* Screens: how high the stack grows *)

\* Home is at the bottom, and a request's screen, opened from home alone, directly above it. So
\* one visit of it may wait for an answer at most, and what checks still push is bounded.
ShapeOf(st) ==
    \A j \in 1..Len(st) : (st[j].kind = "home" => j = 1) /\ (st[j].kind = "request" => j = 2)
Unanswered(st) == \E j \in 1..Len(st) : st[j].kind = "request" /\ ~st[j].done
Visits(st) == IF Unanswered(st) THEN 1 ELSE 0
StackFits ==
    /\ ShapeOf(stack) /\ checks \in 0..MaxChecks
    /\ Len(stack) + checks + Visits(stack) <= MaxScreens + MaxChecks + 1
RowsTyped ==
    /\ offer \in [Offers -> {"none", "offered", "accepted", "declined", "expired"}]
    /\ request \in {"searching", "matched", "closed"}
    /\ shownOffers \subseteq Offers /\ seenOffers \subseteq Offers
    /\ answers \subseteq [id : Offers, end : {"accepted", "declined"}]

\* A stack whose homes and requests were there before is no nearer to its bound.
LEMMA ShapeStays ==
    ASSUME NEW st \in Stacks, NEW new \in Stacks, ShapeOf(st),
           \A j \in 1..Len(new) : \/ new[j].kind \notin {"home", "request"}
                                  \/ /\ j \in 1..Len(st) /\ new[j].kind = st[j].kind
                                     /\ st[j].done => new[j].done
    PROVE  ShapeOf(new) /\ Visits(new) <= Visits(st)
  <1>1. ShapeOf(new)
    BY DEF ShapeOf
  <1>2. Unanswered(new) => Unanswered(st)
    BY DEF Unanswered
  <1> QED
    BY <1>1, <1>2 DEF Visits

LEMMA VisitsAre == \A st : Visits(st) \in 0..1
  BY DEF Visits

LEMMA Bounds == MaxScreens \in Nat /\ MaxChecks \in Nat
  BY ScreensAssumption

LEMMA PushFits ==
    ASSUME ScreensInv, StackFits, Room, NEW s \in AnyScreen, s.kind \notin {"home", "request"},
           stack' = Append(stack, s), checks' = checks
    PROVE  StackFits'
  <1>1. stack \in Stacks
    BY DEF ScreensInv, StackStands
  <1>2. /\ stack' \in Stacks /\ Len(stack') = Len(stack) + 1
        /\ \A j \in 1..Len(stack') : stack'[j] = s \/ (j \in 1..Len(stack) /\ stack'[j] = stack[j])
    <2>1. Len(Append(stack, s)) = Len(stack) + 1
      BY <1>1 DEF Stacks
    <2> QED
      BY <1>1, <2>1, PushingAdds
  <1>3. ShapeOf(stack')
    BY <1>1, <1>2, ShapeStays DEF StackFits
  <1>4. Len(stack) \in Nat /\ Visits(stack') \in 0..1
    BY <1>1, VisitsAre DEF Stacks
  <1> QED
    BY <1>2, <1>3, <1>4, Bounds DEF StackFits, Room

\* A step that changes no more than what its screens have done, or takes some away.
LEMMA NoHigher ==
    ASSUME ScreensInv, StackFits, stack' \in Stacks, Len(stack') <= Len(stack), checks' = checks,
           \A j \in 1..Len(stack') : \/ stack'[j].kind \notin {"home", "request"}
                                     \/ /\ j \in 1..Len(stack) /\ stack'[j].kind = stack[j].kind
                                        /\ stack[j].done => stack'[j].done
    PROVE  StackFits'
  <1>1. stack \in Stacks
    BY DEF ScreensInv, StackStands
  <1>2. ShapeOf(stack') /\ Visits(stack') <= Visits(stack)
    BY <1>1, ShapeStays DEF StackFits
  <1>3. Len(stack) \in Nat /\ Len(stack') \in Nat /\ Visits(stack) \in 0..1 /\ Visits(stack') \in 0..1
    BY <1>1, VisitsAre DEF Stacks
  <1> QED
    BY <1>2, <1>3, Bounds DEF StackFits

LEMMA PopFits == ASSUME ScreensInv, StackFits, stack' = Popped(stack), checks' = checks PROVE StackFits'
  <1>1. stack \in Stacks
    BY DEF ScreensInv, StackStands
  <1>2. CASE Len(stack) > 1
    <2>1. stack' = Front(stack)
      BY <1>2 DEF Popped
    <2>2. /\ stack' \in Stacks /\ Len(stack') <= Len(stack)
          /\ \A j \in 1..Len(stack') : j \in 1..Len(stack) /\ stack'[j] = stack[j]
      <3>1. stack' \in Stacks /\ \A j \in 1..Len(stack') : j \in 1..Len(stack) /\ stack'[j] = stack[j]
        BY <1>1, <1>2, <2>1, FrontDrops
      <3>2. Len(stack') \in 1..Len(stack')
        BY <3>1 DEF Stacks
      <3>3. Len(stack') \in 1..Len(stack)
        BY <3>1, <3>2
      <3> QED
        BY <1>1, <3>1, <3>3 DEF Stacks
    <2> QED
      BY <2>2, NoHigher
  <1>3. CASE ~(Len(stack) > 1)
    <2>1. stack' = stack
      BY <1>3 DEF Popped
    <2> QED
      BY <2>1 DEF StackFits, ShapeOf, Visits, Unanswered
  <1> QED
    BY <1>2, <1>3

LEMMA ReplacedFits ==
    ASSUME ScreensInv, StackFits, NEW s \in AnyScreen, s.kind \notin {"home", "request"},
           stack' = Replaced(stack, s), checks' = checks
    PROVE  StackFits'
  <1>1. stack \in Stacks
    BY DEF ScreensInv, StackStands
  <1>2. /\ stack' \in Stacks /\ Len(stack') = Len(stack)
        /\ \A j \in 1..Len(stack) : stack'[j] = s \/ stack'[j] = stack[j]
    BY <1>1, ReplacingSwaps
  <1>3. Len(stack') <= Len(stack)
    BY <1>1, <1>2 DEF Stacks
  <1> QED
    BY <1>2, <1>3, NoHigher

LEMMA OpenRequestFits == ScreensInv /\ StackFits /\ OpenRequest => StackFits'
  <1> SUFFICES ASSUME ScreensInv, StackFits, OpenRequest PROVE StackFits'
    OBVIOUS
  <1> DEFINE s == Screen("request", Mine)
  <1>1. stack \in Stacks /\ Len(stack) \in Nat /\ Len(stack) >= 1
    BY DEF ScreensInv, StackStands, Stacks
  <1>2. Top.kind = "home" /\ Len(stack) < MaxScreens /\ stack' = Append(stack, s) /\ checks' = checks
    BY DEF OpenRequest, Room, PushScreen
  <1>3. s \in AnyScreen /\ s.kind = "request"
    BY ScreenIsOne DEF Kinds
  <1> HIDE DEF s
  <1>4. Len(stack) = 1
    <2>1. Len(stack) \in 1..Len(stack)
      BY <1>1
    <2>2. stack[Len(stack)].kind = "home"
      BY <1>2 DEF Top
    <2> QED
      BY <2>1, <2>2 DEF StackFits, ShapeOf
  <1>5. Len(stack') = 2 /\ stack'[1] = stack[1] /\ stack'[2] = s
    <2>1. stack \in Seq(AnyScreen)
      BY <1>1 DEF Stacks
    <2>2. Len(Append(stack, s)) = Len(stack) + 1
      BY <2>1
    <2>3. \A j \in 1..Len(Append(stack, s)) : Append(stack, s)[j] = IF j = Len(stack) + 1 THEN s ELSE stack[j]
      BY <1>3, <2>1
    <2>4. Len(stack') = 2 /\ \A j \in 1..2 : stack'[j] = IF j = 2 THEN s ELSE stack[j]
      BY <1>2, <1>4, <2>2, <2>3
    <2> QED
      BY <2>4
  <1>6. stack[1].kind = "home"
    BY <1>2, <1>4 DEF Top
  <1>7. ShapeOf(stack')
    BY <1>3, <1>5, <1>6 DEF ShapeOf
  <1>8. Visits(stack') \in 0..1
    BY VisitsAre
  <1> QED
    BY <1>2, <1>4, <1>5, <1>7, <1>8, Bounds DEF StackFits

\* The one visit that was waiting becomes one check at most.
LEMMA FetchRequestFits == ScreensInv /\ StackFits /\ FetchRequest => StackFits'
  <1> SUFFICES ASSUME ScreensInv, StackFits, FetchRequest PROVE StackFits'
    OBVIOUS
  <1>1. stack \in Stacks
    BY DEF ScreensInv, StackStands
  <1>2. PICK i \in 1..Len(stack) : /\ stack[i].kind = "request" /\ ~stack[i].done
                                   /\ stack' = [stack EXCEPT ![i].done = TRUE]
    BY DEF FetchRequest
  <1>3. checks < MaxChecks /\ (checks' = checks \/ checks' = checks + 1)
    BY DEF FetchRequest
  <1> DEFINE st == [stack EXCEPT ![i].done = TRUE]
  <1>10. /\ st \in Stacks /\ Len(st) = Len(stack)
         /\ \A j \in 1..Len(stack) : st[j].kind = stack[j].kind /\ st[j].id = stack[j].id
         /\ \A j \in 1..Len(stack) : j # i => st[j] = stack[j]
    BY <1>1, MarkingKeeps
  <1>4. /\ stack' \in Stacks /\ Len(stack') = Len(stack)
        /\ \A j \in 1..Len(stack) : stack'[j].kind = stack[j].kind
        /\ \A j \in 1..Len(stack) : j # i => stack'[j] = stack[j]
    BY <1>2, <1>10
  <1>5. stack'[i].done = TRUE
    <2>1. stack[i] \in AnyScreen
      BY <1>1 DEF Stacks
    <2> QED
      BY <1>1, <1>2, <2>1 DEF Stacks, AnyScreen
  <1>6. ShapeOf(stack')
    BY <1>4 DEF StackFits, ShapeOf
  <1>7. Visits(stack) = 1
    BY <1>2 DEF Visits, Unanswered
  <1>8. Visits(stack') = 0
    <2>1. \A j \in 1..Len(stack) : stack[j].kind = "request" => j = i
      BY <1>2 DEF StackFits, ShapeOf
    <2>2. ~Unanswered(stack')
      BY <1>4, <1>5, <2>1 DEF Unanswered
    <2> QED
      BY <2>2 DEF Visits
  <1>9. Len(stack) \in Nat
    BY <1>1 DEF Stacks
  <1> QED
    BY <1>3, <1>4, <1>6, <1>7, <1>8, <1>9, Bounds DEF StackFits

LEMMA CelebrateFits == ScreensInv /\ StackFits /\ Celebrate => StackFits'
  <1> SUFFICES ASSUME ScreensInv, StackFits, Celebrate PROVE StackFits'
    OBVIOUS
  <1> DEFINE s == Screen("found", Mine)
  <1>1. stack \in Stacks
    BY DEF ScreensInv, StackStands
  <1>2. s \in AnyScreen /\ s.kind = "found"
    BY ScreenIsOne DEF Kinds
  <1>3. stack' = Append(stack, s) /\ checks > 0 /\ checks' = checks - 1
    BY DEF Celebrate, PushScreen
  <1> HIDE DEF s
  <1>4. /\ stack' \in Stacks /\ Len(stack') = Len(stack) + 1
        /\ \A j \in 1..Len(stack') : stack'[j] = s \/ (j \in 1..Len(stack) /\ stack'[j] = stack[j])
    <2>1. Len(Append(stack, s)) = Len(stack) + 1
      BY <1>1 DEF Stacks
    <2> QED
      BY <1>1, <1>2, <1>3, <2>1, PushingAdds
  <1>5. ShapeOf(stack') /\ Visits(stack') <= Visits(stack)
    BY <1>1, <1>2, <1>4, ShapeStays DEF StackFits
  <1>6. Len(stack) \in Nat /\ Visits(stack) \in 0..1 /\ Visits(stack') \in 0..1
    BY <1>1, VisitsAre DEF Stacks
  <1> QED
    BY <1>3, <1>4, <1>5, <1>6, Bounds DEF StackFits

LEMMA OpenChatFits == \A i \in 1..Len(stack) : ScreensInv /\ StackFits /\ OpenChat(i) => StackFits'
  <1> SUFFICES ASSUME NEW i \in 1..Len(stack), ScreensInv, StackFits, OpenChat(i) PROVE StackFits'
    OBVIOUS
  <1> DEFINE st == [stack EXCEPT ![i].done = TRUE]
             s == Screen("chat", st[i].id)
  <1>1. stack \in Stacks /\ \A j \in 1..Len(stack) : Stands(stack[j])
    BY DEF ScreensInv, StackStands
  <1>2. stack[i].kind = "found" /\ stack' = Replaced(st, s) /\ checks' = checks
    BY DEF OpenChat, ChatInstead
  <1>3. /\ st \in Stacks /\ Len(st) = Len(stack)
        /\ \A j \in 1..Len(stack) : st[j].kind = stack[j].kind /\ st[j].id = stack[j].id
        /\ \A j \in 1..Len(stack) : j # i => st[j] = stack[j]
    BY <1>1, MarkingKeeps
  <1> HIDE DEF st
  <1>4. st[i].id \in Offers \cup {Mine}
    BY <1>1, <1>3 DEF Stands, AnyScreen
  <1>5. s \in AnyScreen /\ s.kind = "chat"
    BY <1>4, ScreenIsOne DEF Kinds
  <1> HIDE DEF s
  <1>6. /\ stack' \in Stacks /\ Len(stack') = Len(stack)
        /\ \A j \in 1..Len(stack) : stack'[j] = s \/ stack'[j] = st[j]
    BY <1>2, <1>3, <1>5, ReplacingSwaps
  <1>7. Len(stack') <= Len(stack)
    BY <1>1, <1>6 DEF Stacks
  <1>8. ASSUME NEW j \in 1..Len(stack')
        PROVE  \/ stack'[j].kind \notin {"home", "request"}
               \/ /\ j \in 1..Len(stack) /\ stack'[j].kind = stack[j].kind
                  /\ stack[j].done => stack'[j].done
    <2>1. j \in 1..Len(stack)
      BY <1>6
    <2>2. CASE stack'[j] = s
      BY <1>5, <2>2
    <2>3. CASE stack'[j] = st[j] /\ j = i
      BY <1>2, <1>3, <2>3
    <2>4. CASE stack'[j] = st[j] /\ j # i
      BY <1>3, <2>1, <2>4
    <2> QED
      BY <1>6, <2>1, <2>2, <2>3, <2>4
  <1> QED
    BY <1>2, <1>6, <1>7, <1>8, NoHigher

LEMMA RestartFits == ScreensInv /\ StackFits /\ Restart => StackFits'
  <1> SUFFICES ASSUME Restart PROVE StackFits'
    OBVIOUS
  <1>1. stack' = <<Home>> /\ checks' = 0
    BY DEF Restart
  <1>2. /\ Len(stack') = 1 /\ \A j \in 1..Len(stack') : j = 1 /\ stack'[j].kind = "home"
    BY <1>1, HomeStands
  <1>3. ShapeOf(stack') /\ Visits(stack') \in 0..1 /\ ~Unanswered(stack')
    BY <1>2, VisitsAre DEF ShapeOf, Unanswered
  <1>4. Visits(stack') = 0
    BY <1>3 DEF Visits
  <1> QED
    BY <1>1, <1>2, <1>3, <1>4, Bounds DEF StackFits

LEMMA StackKeepsFitting == ScreensInv /\ StackFits /\ [ScreensNext]_screenVars => StackFits'
  <1> SUFFICES ASSUME ScreensInv, StackFits, [ScreensNext]_screenVars PROVE StackFits'
    OBVIOUS
  <1>1. ASSUME UNCHANGED <<stack, checks>> PROVE StackFits'
    BY <1>1 DEF StackFits, ShapeOf, Visits, Unanswered
  <1>2. CASE UNCHANGED screenVars
    BY <1>1, <1>2 DEF screenVars, screens
  <1>3. CASE \/ \E o \in Offers : MakeOffer(o) \/ ExpireOffer(o)
             \/ MatchMine \/ CloseMine \/ \E accept \in BOOLEAN : Respond(accept)
    BY <1>1, <1>3 DEF MakeOffer, ExpireOffer, MatchMine, CloseMine, Respond, screens
  <1>4. CASE FetchOffers
    <2>1. CASE UNCHANGED stack
      BY <1>1, <1>4, <2>1 DEF FetchOffers
    <2>2. CASE ~UNCHANGED stack
      <3>1. PICK o \in Offers : stack' = Append(stack, Screen("offer", o))
        BY <1>4, <2>2 DEF FetchOffers, PushScreen
      <3>2. Room /\ checks' = checks
        BY <1>4, <2>2 DEF FetchOffers
      <3>3. Screen("offer", o) \in AnyScreen /\ Screen("offer", o).kind = "offer"
        BY ScreenIsOne DEF Kinds
      <3> QED
        BY <3>1, <3>2, <3>3, PushFits
    <2> QED
      BY <2>1, <2>2
  <1>5. ASSUME NEW a \in answers, AnswerArrives(a) PROVE StackFits'
    <2>1. checks' = checks /\ a.id \in Offers
      BY <1>5 DEF AnswerArrives, ScreensInv, AnswersAreOffers
    <2>2. CASE stack' = Replaced(stack, Screen("found", a.id))
      <3>1. Screen("found", a.id) \in AnyScreen /\ Screen("found", a.id).kind = "found"
        BY <2>1, ScreenIsOne DEF Kinds
      <3> QED
        BY <2>1, <2>2, <3>1, ReplacedFits
    <2>3. CASE stack' = Popped(stack)
      BY <2>1, <2>3, PopFits
    <2> QED
      BY <1>5, <2>2, <2>3 DEF AnswerArrives
  <1>6. CASE OpenRequest \/ FetchRequest \/ Celebrate \/ \E i \in 1..Len(stack) : OpenChat(i)
    BY <1>6, OpenRequestFits, FetchRequestFits, CelebrateFits, OpenChatFits
  <1>7. CASE Back
    BY <1>7, PopFits DEF Back, Popped
  <1>8. ASSUME NEW s \in Links, FollowLink(s) PROVE StackFits'
    <2>1. s \in AnyScreen /\ s.kind \in {"offer", "chat"}
      <3>1. "offer" \in Kinds /\ "chat" \in Kinds
        BY DEF Kinds
      <3>2. CASE s = Screen("chat", Mine)
        BY <3>1, <3>2, ScreenIsOne
      <3>3. ASSUME NEW o \in Offers, s = Screen("offer", o) PROVE s \in AnyScreen /\ s.kind \in {"offer", "chat"}
        BY <3>1, <3>3, ScreenIsOne
      <3> QED
        BY <3>2, <3>3 DEF Links
    <2>2. Room /\ stack' = Append(stack, s) /\ checks' = checks
      BY <1>8 DEF FollowLink, PushScreen
    <2> QED
      BY <2>1, <2>2, PushFits
  <1>9. CASE Restart
    BY <1>9, RestartFits
  <1> QED
    BY <1>2, <1>3, <1>4, <1>5, <1>6, <1>7, <1>8, <1>9 DEF ScreensNext

LEMMA RowsKeepTypes == ScreensInv /\ RowsTyped /\ [ScreensNext]_screenVars => RowsTyped'
  <1> SUFFICES ASSUME ScreensInv, RowsTyped, [ScreensNext]_screenVars PROVE RowsTyped'
    OBVIOUS
  <1>1. CASE UNCHANGED screenVars
    BY <1>1 DEF screenVars, screens, RowsTyped
  <1>2. CASE \/ \E o \in Offers : MakeOffer(o) \/ ExpireOffer(o)
             \/ MatchMine \/ CloseMine
    BY <1>2 DEF MakeOffer, ExpireOffer, MatchMine, CloseMine, screens, RowsTyped
  <1>3. CASE FetchOffers
    BY <1>3 DEF FetchOffers, RowsTyped
  <1>4. ASSUME NEW accept \in BOOLEAN, Respond(accept) PROVE RowsTyped'
    <2>1. Len(stack) \in 1..Len(stack)
      BY DEF ScreensInv, StackStands, Stacks
    <2>2. Top.id \in Offers
      BY <1>4, <2>1 DEF Respond, Top, ScreensInv, StackStands, Stands
    <2> QED
      BY <1>4, <2>2 DEF Respond, RowsTyped
  <1>5. CASE \E a \in answers : AnswerArrives(a)
    BY <1>5 DEF AnswerArrives, RowsTyped
  <1>6. CASE OpenRequest \/ FetchRequest \/ Celebrate \/ \E i \in 1..Len(stack) : OpenChat(i)
    BY <1>6 DEF OpenRequest, FetchRequest, Celebrate, OpenChat, RowsTyped
  <1>7. CASE Back \/ (\E s \in Links : FollowLink(s)) \/ Restart
    BY <1>7 DEF Back, FollowLink, Restart, RowsTyped
  <1> QED
    BY <1>1, <1>2, <1>3, <1>4, <1>5, <1>6, <1>7 DEF ScreensNext

\* Every variable of the screens keeps its type, and the stack is never higher than its bound
\* and the checks that were under way when it was reached (request/[id].tsx).
THEOREM ScreensAreTyped == ScreensSpec => []ScreensTypeOK
  <1>1. ScreensInit => StackFits /\ RowsTyped
    <2> SUFFICES ASSUME ScreensInit PROVE StackFits /\ RowsTyped
      OBVIOUS
    <2>1. RowsTyped
      BY DEF ScreensInit, RowsTyped
    <2>2. stack = <<Home>> /\ checks = 0
      BY DEF ScreensInit
    <2>3. Len(stack) = 1 /\ \A j \in 1..Len(stack) : j = 1 /\ stack[j].kind = "home"
      BY <2>2, HomeStands
    <2>4. ShapeOf(stack) /\ ~Unanswered(stack)
      BY <2>3 DEF ShapeOf, Unanswered
    <2>5. Visits(stack) = 0
      BY <2>4 DEF Visits
    <2> QED
      BY <2>1, <2>2, <2>3, <2>4, <2>5, Bounds DEF StackFits
  <1>2. ScreensInv /\ StackFits /\ RowsTyped => ScreensTypeOK
    <2> SUFFICES ASSUME ScreensInv, StackFits, RowsTyped PROVE ScreensTypeOK
      OBVIOUS
    <2>1. stack \in Stacks /\ \A i \in 1..Len(stack) : stack[i].kind \in Kinds /\ stack[i].done \in BOOLEAN
      BY DEF ScreensInv, StackStands, Stands, AnyScreen
    <2>2. Len(stack) \in Nat /\ Len(stack) >= 1 /\ Visits(stack) \in 0..1
      BY <2>1, VisitsAre DEF Stacks
    <2>3. Len(stack) \in 1..MaxScreens + MaxChecks + 1 /\ checks \in 0..MaxChecks
      BY <2>2, Bounds DEF StackFits
    <2>4. recorded = opened
      BY DEF ScreensInv, OneCheck
    <2> QED
      BY <2>1, <2>3, <2>4 DEF RowsTyped, ScreensTypeOK
  <1> QED
    BY <1>1, <1>2, ScreensStart, ScreensKept, StackKeepsFitting, RowsKeepTypes, PTL DEF ScreensSpec

-----------------------------------------------------------------------------
(* The phone as a whole *)

\* PhoneTypeOK: storage, screens and helping each keep what their type invariants say.
THEOREM PhoneIsTyped == PhoneSpec => []PhoneTypeOK
  <1>1. DeviceTypeOK /\ ScreensTypeOK /\ HelpingTypeOK => PhoneTypeOK
    BY DEF PhoneTypeOK
  <1> QED
    BY <1>1, StorageIsTyped, ScreensAreTyped, HelpingIsTyped, PTL DEF PhoneSpec

=============================================================================
