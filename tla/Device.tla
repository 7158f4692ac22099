------------------------------- MODULE Device -------------------------------
(***************************************************************************)
(* What one phone keeps: the token, the events its account joined, the push *)
(* marker and the queue of inventory items added while offline.  Accounts   *)
(* sign in and out on it, the app may be killed at any moment, and calls    *)
(* that were started go on after a sign-out.  Storage is read and written   *)
(* in separate steps, so two writers of the queue may overlap.              *)
(***************************************************************************)
EXTENDS Naturals, Sequences, SequencesExt, FiniteSets

CONSTANTS Users, Events, Ops,
          Poison,       \* ops the server will never accept
          DropAfter,    \* refusals after which a queued op is dropped
          MaxFaults,    \* bound: kills, and flushes that lose their connection
          None

ASSUME DeviceAssumption == Poison \subseteq Ops /\ DropAfter \in Nat /\ MaxFaults \in Nat /\ None \notin Users \cup Events \cup Ops

Flushes == {"net", "add"}           \* on reconnect or Retry; at the end of an offline add
Callers == Flushes \cup {"form"}

VARIABLES
    running,        \* is the app alive
    me, joined,     \* in memory: the account, the events it shows (tagged with who joined)
    keyring,        \* secure storage: whose token is held
    dead,           \* accounts whose session on this phone the server revoked
    lastUser, joinedSto, marker, queue,     \* AsyncStorage
    leaving,        \* how far a sign-out is
    joining,        \* a join on its way: who asks for which event
    due, pushing,   \* is the token new to the push effect; registrations on their way, for whom
    registered,     \* server: accounts with this phone's push token
    call,           \* per caller: the POST it waits for
    todo, copy, as, flushing, heldBack,     \* flushes: rest of the list, copied queue, account, flag
    formOp, formAs, formFlag,               \* the add form: op, account, `flushing' when pressed
    rows,           \* server: inventory rows per account and op
    late,           \* requests the phone gave up on and the server still works on
    author,         \* history: who filled in each op
    saved, gone,    \* history: ops said to be saved locally; ops ended (refused, turned away, signed out)
    overlapped,     \* history: ops another writer of the queue overwrote
    faults,         \* history: how many faults there were
    strays          \* history: what was written after its account had signed out

memory == <<me, joined>>
storage == <<lastUser, joinedSto, marker, queue>>
queueVars == <<call, todo, copy, as, flushing, heldBack, formOp, formAs, formFlag>>
server == <<registered, rows, late>>
history == <<author, saved, gone, overlapped, faults, strays>>
phone == <<running, memory, keyring, dead, leaving, joining, due, pushing>>
form == <<formOp, formAs, formFlag>>
deviceVars == <<phone, storage, queueVars, server, history>>

Listed(q) == {q[i].op : i \in 1..Len(q)}
Signed == running /\ me # None /\ leaving = "no"
\* Callbacks outlive the account that started them: what they write then is nobody's.
Owns(u) == me = u /\ leaving # "wiped"
Stray(u, things) == IF Owns(u) THEN strays ELSE strays \cup things

-----------------------------------------------------------------------------
\* Signing in and out

\* clearAccountScopedState: everything the account left in storage.
ClearAccountScopedState ==
    /\ joinedSto' = {} /\ queue' = <<>> /\ marker' = FALSE
    /\ gone' = gone \cup Listed(queue)

NobodyElse(u) == FALSE
AnotherAccount(u) == lastUser # None /\ lastUser # u
SignIn(u) ==
    /\ running /\ me = None /\ leaving = "no"
    /\ IF AnotherAccount(u) THEN ClearAccountScopedState ELSE UNCHANGED <<joinedSto, queue, marker, gone>>
    /\ lastUser' = u /\ keyring' = u /\ me' = u /\ due' = TRUE
    /\ dead' = dead \ {u}
    /\ UNCHANGED <<running, joined, leaving, joining, pushing, queueVars, server, author, saved, overlapped, faults, strays>>

\* signOut: the server's answer is not waited for to succeed.
SignOut ==
    /\ Signed /\ leaving' = "asked"
    /\ \E heard \in BOOLEAN : dead' = IF heard THEN dead \cup {me} ELSE dead
    /\ UNCHANGED <<running, memory, keyring, storage, joining, due, pushing, queueVars, server, history>>
ForgetToken ==
    /\ running /\ leaving = "asked" /\ leaving' = "forgotten"
    /\ keyring' = None
    /\ UNCHANGED <<running, memory, dead, storage, joining, due, pushing, queueVars, server, history>>
Wipe ==
    /\ running /\ leaving = "forgotten" /\ leaving' = "wiped"
    /\ ClearAccountScopedState /\ lastUser' = None
    /\ UNCHANGED <<running, memory, keyring, dead, joining, due, pushing, queueVars, server, author, saved, overlapped, faults, strays>>
\* The provider of joined events sits above the account and keeps its list.
SignedOut ==
    /\ running /\ leaving = "wiped" /\ leaving' = "no"
    /\ me' = None
    /\ UNCHANGED <<running, joined, keyring, dead, storage, joining, due, pushing, queueVars, server, history>>

\* The session is ended elsewhere; this phone is not connected.
SessionEnds ==
    /\ me # None /\ me \notin dead /\ dead' = dead \cup {me}
    /\ UNCHANGED <<running, memory, keyring, storage, leaving, joining, due, pushing, queueVars, server, history>>

-----------------------------------------------------------------------------
\* Life of the process

Idle == [pc |-> "idle", op |-> None]
\* Requests already at the server are worked on although nobody waits for them.
Abandoned(cs) ==
    LET owner(c) == IF c = "form" THEN formAs ELSE as[c]
    IN {<<owner(c), call[c].op>> : c \in {d \in cs : call[d].pc = "insert"}}
Kill ==
    /\ running /\ running' = FALSE
    /\ faults < MaxFaults /\ faults' = faults + 1
    /\ me' = None /\ joined' = {}
    /\ leaving' = "no" /\ joining' = None /\ due' = FALSE /\ pushing' = {}
    /\ \E ls \in SUBSET Abandoned(Callers) : late' = late \cup ls
    /\ call' = [c \in Callers |-> Idle]
    /\ todo' = [f \in Flushes |-> <<>>] /\ copy' = [f \in Callers |-> <<>>]
    /\ as' = [f \in Flushes |-> None] /\ flushing' = FALSE /\ heldBack' = None
    /\ formOp' = None /\ formAs' = None /\ formFlag' = FALSE
    /\ UNCHANGED <<keyring, dead, storage, registered, rows, author, saved, gone, overlapped, strays>>

\* The lists come from storage whoever holds the token.
Boot ==
    /\ ~running /\ running' = TRUE
    /\ me' = keyring /\ joined' = joinedSto
    /\ due' = (keyring # None)
    /\ UNCHANGED <<keyring, dead, storage, leaving, joining, pushing, queueVars, server, history>>
\* GET /me answers 401: only the token goes.
BootRejected ==
    /\ running /\ me # None /\ me \in dead /\ leaving = "no"
    /\ keyring' = None /\ me' = None
    /\ UNCHANGED <<running, joined, dead, storage, leaving, joining, due, pushing, queueVars, server, history>>

-----------------------------------------------------------------------------
\* Joined events and the push token

Join(e) ==
    /\ Signed /\ me \notin dead /\ joining = None
    /\ joining' = <<me, e>>
    /\ UNCHANGED <<running, memory, keyring, dead, storage, leaving, due, pushing, queueVars, server, history>>
\* addJoined, when the server has answered.
AddJoined ==
    /\ running /\ joining # None
    /\ joinedSto' = joinedSto \cup {joining} /\ joined' = joinedSto \cup {joining}
    /\ strays' = Stray(joining[1], {joining})
    /\ joining' = None
    /\ UNCHANGED <<running, me, keyring, dead, lastUser, marker, queue, leaving, due, pushing, queueVars, server, author, saved, gone, overlapped, faults>>
\* removeJoined (Leave), and forgetJoinedEvent (declining the last day): the second leaves
\* the list on the screen as it is.
Leave(e) ==
    /\ Signed /\ <<me, e>> \in joinedSto
    /\ joinedSto' = joinedSto \ {<<me, e>>}
    /\ joined' \in {joinedSto', joined}
    /\ UNCHANGED <<running, me, keyring, dead, lastUser, marker, queue, leaving, joining, due, pushing, queueVars, server, history>>

\* useAutoRegisterPush, once per token: with a marker, or without permission, nothing is done.
PushEffect ==
    /\ running /\ due /\ me # None /\ due' = FALSE
    /\ pushing' \in {pushing} \cup (IF marker THEN {} ELSE {pushing \cup {me}})
    /\ UNCHANGED <<running, memory, keyring, dead, storage, leaving, joining, queueVars, server, history>>
\* registerForPush: the marker is written when the server has the token.
Registered(u) ==
    /\ running /\ u \in pushing /\ u \notin dead
    /\ pushing' = pushing \ {u}
    /\ registered' = registered \cup {u} /\ marker' = TRUE
    /\ strays' = Stray(u, {<<u, "marker">>})
    /\ UNCHANGED <<running, memory, keyring, dead, lastUser, joinedSto, queue, leaving, joining, due, queueVars, rows, late, author, saved, gone, overlapped, faults>>
NotRegistered(u) ==
    /\ running /\ u \in pushing /\ pushing' = pushing \ {u}
    /\ UNCHANGED <<running, memory, keyring, dead, storage, leaving, joining, due, queueVars, server, history>>

-----------------------------------------------------------------------------
\* The server's half of POST /events/:id/inventory

KeyIsFree(u, o) == rows[u][o] = 0
Caller(c) == IF c = "form" THEN formAs ELSE as[c]
Answer(c, pc) == call' = [call EXCEPT ![c].pc = pc]
ServerOnly == UNCHANGED <<phone, storage, todo, copy, as, flushing, heldBack, form, registered,
                          author, saved, gone, overlapped, strays>>

\* The replay check and the request's other checks, outside the transaction.
CheckAdd(c) ==
    LET u == Caller(c) o == call[c].op IN
    /\ call[c].pc = "posted"
    /\ Answer(c, CASE u \in dead \/ o \in Poison -> "refused"
                   [] u \notin dead /\ o \notin Poison /\ rows[u][o] > 0 -> "created"
                   [] OTHER -> "insert")
    /\ UNCHANGED <<rows, late>> /\ ServerOnly /\ UNCHANGED faults
\* The replay check found nothing and the event is paused or over: event_not_active, a 409.
NotActive(c) ==
    LET u == Caller(c) o == call[c].op IN
    /\ call[c].pc = "posted" /\ u \notin dead /\ rows[u][o] = 0
    /\ Answer(c, "conflict")
    /\ UNCHANGED <<rows, late>> /\ ServerOnly /\ UNCHANGED faults
\* The insert: a duplicate key aborts the transaction, and the read in it fails too.
Insert(c) ==
    LET u == Caller(c) o == call[c].op IN
    /\ call[c].pc = "insert"
    /\ IF KeyIsFree(u, o)
         THEN rows' = [rows EXCEPT ![u][o] = @ + 1] /\ Answer(c, "created")
         ELSE UNCHANGED rows /\ Answer(c, "refused")
    /\ UNCHANGED late /\ ServerOnly /\ UNCHANGED faults
\* An error that says nothing about the op (a limit, an overloaded server).
ServerErrs(c) ==
    /\ call[c].pc = "posted" /\ Answer(c, "refused")
    /\ UNCHANGED <<rows, late>> /\ ServerOnly /\ UNCHANGED faults
\* No connection, or no answer within DEFAULT_TIMEOUT_MS.
Offline(c) ==
    /\ call[c].pc \in {"posted", "insert"} /\ Answer(c, "offline")
    /\ IF c = "form" THEN UNCHANGED faults ELSE faults < MaxFaults /\ faults' = faults + 1
    /\ \E ls \in SUBSET Abandoned({c}) : late' = late \cup ls
    /\ UNCHANGED rows /\ ServerOnly
LateInsert(u, o) ==
    /\ <<u, o>> \in late /\ late' = late \ {<<u, o>>}
    /\ rows' = IF KeyIsFree(u, o) THEN [rows EXCEPT ![u][o] = @ + 1] ELSE rows
    /\ UNCHANGED call /\ ServerOnly /\ UNCHANGED faults

-----------------------------------------------------------------------------
\* The add form

\* submit: the flush it may call at the end is the one of this moment's screen.
Submit(o) ==
    /\ Signed /\ formOp = None /\ author[o] = None
    /\ formOp' = o /\ formAs' = me /\ formFlag' = flushing
    /\ author' = [author EXCEPT ![o] = me]
    /\ call' = [call EXCEPT !["form"] = [pc |-> "posted", op |-> o]]
    /\ UNCHANGED <<phone, storage, todo, copy, as, flushing, heldBack, server, saved, gone, overlapped, faults, strays>>
FormEnds == formOp' = None /\ formAs' = None /\ formFlag' = FALSE
\* Done, or an error shown on the form.
Answered ==
    /\ call["form"].pc \in {"created", "refused", "conflict"}
    /\ call' = [call EXCEPT !["form"] = Idle]
    /\ gone' = IF call["form"].pc = "created" THEN gone ELSE gone \cup {formOp}
    /\ FormEnds
    /\ UNCHANGED <<phone, storage, todo, copy, as, flushing, heldBack, server, author, saved, overlapped, faults, strays>>
\* enqueueInventoryOp reads the queue, then writes it with the op at the end.
ReadForEnqueue ==
    /\ call["form"].pc = "offline"
    /\ copy' = [copy EXCEPT !["form"] = queue]
    /\ call' = [call EXCEPT !["form"].pc = "write"]
    /\ UNCHANGED <<phone, storage, todo, as, flushing, heldBack, form, server, history>>
\* Ops of the stored queue that a writer's older copy does not know; ops a writer puts back
\* although who filled them in is not signed in any more.
Lost(new) == Listed(queue) \ Listed(new)
PutBack(new) == {o \in Listed(new) \ Listed(queue) : ~Owns(author[o])}
Enqueue ==
    LET new == Append(copy["form"], [op |-> formOp, tries |-> 0]) IN
    /\ call["form"].pc = "write"
    /\ queue' = new
    /\ overlapped' = overlapped \cup Lost(new)
    /\ saved' = saved \cup {formOp}
    /\ strays' = strays \cup PutBack(new)
    /\ call' = [call EXCEPT !["form"] = Idle] /\ copy' = [copy EXCEPT !["form"] = <<>>]
    /\ heldBack' = IF formFlag THEN heldBack ELSE formAs
    /\ FormEnds
    /\ UNCHANGED <<phone, lastUser, joinedSto, marker, todo, as, flushing, server, author, gone, faults>>

-----------------------------------------------------------------------------
\* Flushing the queue

\* The list is read once; token and flag are those of the screen which called, so the flush
\* at the end of an add may run beside another (one such at a time).
StartFlush(f) ==
    /\ running /\ as[f] = None
    /\ IF f = "net" THEN ~flushing /\ queue # <<>> /\ me # None ELSE heldBack # None
    /\ todo' = [todo EXCEPT ![f] = queue] /\ copy' = [copy EXCEPT ![f] = queue]
    /\ as' = [as EXCEPT ![f] = IF f = "net" THEN me ELSE heldBack]
    /\ flushing' = TRUE
    /\ heldBack' = IF f = "add" THEN None ELSE heldBack
    /\ UNCHANGED <<phone, storage, call, form, server, history>>
PostNext(f) ==
    /\ as[f] # None /\ call[f].pc = "idle" /\ todo[f] # <<>>
    /\ call' = [call EXCEPT ![f] = [pc |-> "posted", op |-> Head(todo[f]).op]]
    /\ UNCHANGED <<phone, storage, todo, copy, as, flushing, heldBack, form, server, history>>
FlushOverQuietly(f) ==
    /\ as' = [as EXCEPT ![f] = None] /\ UNCHANGED flushing
    /\ todo' = [todo EXCEPT ![f] = <<>>] /\ copy' = [copy EXCEPT ![f] = <<>>]
    /\ call' = [call EXCEPT ![f] = Idle]
FlushOverUnheard(f) ==
    /\ as' = [as EXCEPT ![f] = None] /\ flushing' = FALSE
    /\ todo' = [todo EXCEPT ![f] = <<>>] /\ copy' = [copy EXCEPT ![f] = <<>>]
    /\ UNCHANGED call
FlushOver(f) ==
    /\ as' = [as EXCEPT ![f] = None] /\ flushing' = FALSE
    /\ todo' = [todo EXCEPT ![f] = <<>>] /\ copy' = [copy EXCEPT ![f] = <<>>]
    /\ call' = [call EXCEPT ![f] = Idle]
FlushEnds(f) ==
    /\ as[f] # None
    /\ \/ call[f].pc = "idle" /\ todo[f] = <<>>
       \/ call[f].pc = "offline"
    /\ FlushOver(f)
    /\ UNCHANGED <<phone, storage, heldBack, form, server, history>>

TriedEnough(f) == Head(todo[f]).tries >= DropAfter
\* A 409 ends an op at once, whatever its reason; the comment in flush takes it for
\* `already created', which addInventory answers with the row instead.
GivenUp(f) == call[f].pc = "conflict" \/ (call[f].pc = "refused" /\ TriedEnough(f))
Finished(f) == call[f].pc = "created" \/ GivenUp(f)
\* An op is queued once, so filtering it out takes away one entry.
Without(q, o) == IF o \in Listed(q) THEN RemoveAt(q, CHOOSE i \in 1..Len(q) : q[i].op = o) ELSE q
\* removeInventoryOp reads the queue anew; an op that is refused once more is only counted,
\* in the copy this flush already has.
Settle(f) ==
    LET o == call[f].op
        counted(q) == [i \in 1..Len(q) |-> IF q[i].op = o THEN [q[i] EXCEPT !.tries = @ + 1] ELSE q[i]]
    IN
    /\ as[f] # None /\ call[f].pc \in {"created", "refused", "conflict"}
    /\ copy' = [copy EXCEPT ![f] = IF Finished(f) THEN Without(queue, o) ELSE counted(copy[f])]
    /\ gone' = IF GivenUp(f) THEN gone \cup {o} ELSE gone
    /\ call' = [call EXCEPT ![f].pc = "write"]
    /\ UNCHANGED <<phone, storage, todo, as, flushing, heldBack, form, server, author, saved, overlapped, faults, strays>>
WriteQueue(f) ==
    LET o == call[f].op IN
    /\ as[f] # None /\ call[f].pc = "write"
    /\ queue' = copy[f]
    /\ overlapped' = overlapped \cup (Lost(copy[f]) \ {o})
    /\ strays' = strays \cup PutBack(copy[f])
    /\ todo' = [todo EXCEPT ![f] = Tail(@)]
    /\ call' = [call EXCEPT ![f] = Idle]
    /\ UNCHANGED <<phone, lastUser, joinedSto, marker, copy, as, flushing, heldBack, form, server, author, saved, gone, faults>>

-----------------------------------------------------------------------------

\* The app is open, with account u signed in or nobody.
DeviceInit(u) ==
    /\ running = TRUE /\ me = u /\ joined = {} /\ keyring = u /\ dead = {}
    /\ lastUser = u /\ joinedSto = {} /\ marker = FALSE /\ queue = <<>>
    /\ leaving = "no" /\ joining = None /\ due = FALSE /\ pushing = {} /\ registered = {}
    /\ call = [c \in Callers |-> Idle]
    /\ todo = [f \in Flushes |-> <<>>] /\ copy = [c \in Callers |-> <<>>]
    /\ as = [f \in Flushes |-> None] /\ flushing = FALSE /\ heldBack = None
    /\ formOp = None /\ formAs = None /\ formFlag = FALSE
    /\ rows = [v \in Users |-> [o \in Ops |-> 0]] /\ late = {}
    /\ author = [o \in Ops |-> None] /\ saved = {} /\ gone = {} /\ overlapped = {} /\ strays = {} /\ faults = 0

-----------------------------------------------------------------------------
\* Next steps, by what they are about

Accounting ==
    \/ \E u \in Users : SignIn(u)
    \/ SignOut \/ ForgetToken \/ Wipe \/ SignedOut \/ SessionEnds
    \/ Kill \/ Boot \/ BootRejected
Joining ==
    \/ \E e \in Events : Join(e) \/ Leave(e)
    \/ AddJoined
Notifying == PushEffect \/ \E u \in Users : Registered(u) \/ NotRegistered(u)
Adding ==
    \/ \E o \in Ops : Submit(o)
    \/ Answered \/ ReadForEnqueue \/ Enqueue
    \/ \E c \in Callers : CheckAdd(c) \/ NotActive(c) \/ Insert(c) \/ ServerErrs(c) \/ Offline(c)
    \/ \E u \in Users, o \in Ops : LateInsert(u, o)
Flushing == \E f \in Flushes : StartFlush(f) \/ PostNext(f) \/ FlushEnds(f) \/ Settle(f) \/ WriteQueue(f)
DeviceNext == Accounting \/ Joining \/ Notifying \/ Adding \/ Flushing
DeviceSpec == (\E u \in Users \cup {None} : DeviceInit(u)) /\ [][DeviceNext]_deviceVars

\* The app is opened again, and a flush goes on as soon as it can; faults are bounded.
FlushStep(f) == StartFlush(f) \/ PostNext(f) \/ FlushEnds(f) \/ Settle(f) \/ WriteQueue(f) \/ CheckAdd(f) \/ Insert(f)
DeviceFairness == WF_deviceVars(Boot \/ \E f \in Flushes : FlushStep(f))

-----------------------------------------------------------------------------
\* Properties

Entries == [op : Ops, tries : Nat]
\* Every variable stays in its type: only an app that runs holds an account or waits for an
\* answer, and only a flush that runs has a list and a call.
DeviceTypeOK ==
    /\ me \in Users \cup {None} /\ keyring \in Users \cup {None} /\ lastUser \in Users \cup {None}
    /\ joined \subseteq Users \X Events /\ joinedSto \subseteq Users \X Events
    /\ leaving \in {"no", "asked", "forgotten", "wiped"} /\ pushing \subseteq Users /\ registered \subseteq Users
    /\ ~running => me = None /\ \A c \in Callers : call[c] = Idle
    /\ \A i \in 1..Len(queue) : queue[i] \in Entries
    /\ \A f \in Flushes : as[f] = None => todo[f] = <<>> /\ call[f] = Idle

\* However often an add is sent - by the form, by two flushes at once, by a call given up on
\* that arrives late - an account gets one row for it (addInventory, pendingOps.ts:16).
CreatedOnce == \A u \in Users, o \in Ops : rows[u][o] <= 1

\* What the app said was saved locally is in the queue or on the server, or a sign-out took
\* it, or the server turned it away: refused more than DropAfter times, or told once that the
\* event is not active - unless another writer of the queue overlapped.
QueueKeepsWork ==
    \A o \in saved : o \in Listed(queue) \cup gone \cup overlapped \/ \E u \in Users : rows[u][o] > 0

\* A queued op leaves the queue: a refused one does not hold up those behind it (flush).
QueueDrains == \A o \in Ops : o \in Listed(queue) ~> (o \notin Listed(queue) \/ me = None)

\* Whatever moment the last account's sign-out was cut off at, the storage an account finds
\* is its own, but for what calls still under way wrote afterwards (signIn, signOut).
StorageIsOwn ==
    (me # None /\ leaving = "no") =>
        /\ \A j \in joinedSto : j[1] = me \/ j \in strays
        /\ \A o \in Listed(queue) : author[o] = me \/ o \in strays

\* While the marker keeps an account from registering for push, it is registered
\* (useAutoRegisterPush), unless a call of the account before wrote the marker late.
MarkerMeansRegistered == (me # None /\ leaving = "no" /\ marker) => (me \in registered \/ \E u \in Users : <<u, "marker">> \in strays)

\* The phone's storage loses none of an account's work, repeats none of it, and shows none of
\* it to the next account, when the app is killed or two flushes overlap
\* (pendingOps.ts, storage.ts, auth.tsx, push.ts).
DeviceKeepsItsOwn == CreatedOnce /\ QueueKeepsWork /\ StorageIsOwn /\ MarkerMeansRegistered
=============================================================================
