------------------------------- MODULE Forms --------------------------------
(***************************************************************************)
(* Forms of the mobile app whose calls may be lost and are pressed again:   *)
(* the new request (a fresh key for every press), the list of things to     *)
(* carry (a key made of item and quantity), the +1 and -1 of a stock row    *)
(* (an absolute total, taken from what the row shows) and the question      *)
(* whether one comes to the event today.                                    *)
(***************************************************************************)
EXTENDS Integers, FiniteSets

CONSTANTS Slugs,            \* items on the list of things to carry
          MaxQty,           \* bound: quantity of an item on the list
          MaxPresses,       \* bound: presses of the request form, taps on the stock row
          MaxSaves,         \* bound: saves of the list of things to carry
          ActiveRequests,   \* LIMITS.maxActiveRequestsPerUser
          Days              \* bound: days the event goes on

ASSUME FormsAssumption == {MaxQty, MaxPresses, MaxSaves, ActiveRequests, Days} \subseteq Nat

Presses == 1..MaxPresses

VARIABLES
    reqForm,        \* the request form: open / left
    reqCall,        \* per press: where its POST is
    reqAnswer,      \* per press: what the phone made of it: none / waiting / error
    requests,       \* server: presses that became a request
    reqCounted,     \* per press: active requests its transaction saw

    carryScreen,    \* list / home / done
    saveState,      \* none / saving / alert
    qty,            \* per item, the stepper
    named,          \* items of the list whose category the catalogue on the phone has
    toSend,         \* per item, what the save pressed last sends: zero of an item without category
    posts,          \* the POSTs of saves: item, quantity, key, where it is
    saves,          \* how often Save or Retry was pressed
    carried,        \* server: the rows, item, quantity and key
    repriced,       \* history: items whose quantity changed after a save
    unsent,         \* history: items changed while that save ran, or without category when it began

    total, reserved, shownRow,      \* a stock row: on the server, and as the screen shows it
    patches,        \* PATCHes under way: press and value
    waitingRow,     \* does the row wait for an answer (busy)
    taps, applied, settled,         \* history: taps; their sum as applied; what exchanges took
    staleTap,       \* history: a tap on an outdated total, or an exchange settled meanwhile

    day, answeredOn, askedRef, askChecks,   \* today; the day recorded; home's ref; checks under way
    prompts,        \* history: prompts pushed, per day, since the app started
    askedTwice      \* history: two checks ran at once

reqVars == <<reqForm, reqCall, reqAnswer, requests, reqCounted>>
carryList == <<qty, named>>
carryVars == <<carryScreen, saveState, carryList, toSend, posts, saves, carried, repriced, unsent>>
stockVars == <<total, reserved, shownRow, patches, waitingRow, taps, applied, settled, staleTap>>
askVars == <<day, answeredOn, askedRef, askChecks, prompts, askedTwice>>
formsVars == <<reqVars, carryVars, stockVars, askVars>>

-----------------------------------------------------------------------------
\* The request form

PressAnyTime == TRUE
\* `busy', set by a press and cleared by an error only.
FormFree == \A i \in Presses : reqAnswer[i] # "waiting"
Submit(i) ==
    /\ reqForm = "open" /\ FormFree /\ reqAnswer[i] = "none"
    /\ reqAnswer' = [reqAnswer EXCEPT ![i] = "waiting"] /\ reqCall' = [reqCall EXCEPT ![i] = "sent"]
    /\ UNCHANGED <<reqForm, requests, reqCounted>>
BelowCap(n) == n < ActiveRequests
\* createRequest: the key is new, so there is never a replay; the count comes before the insert.
CountActive(i) ==
    /\ reqCall[i] = "sent"
    /\ reqCounted' = [reqCounted EXCEPT ![i] = Cardinality(requests)]
    /\ reqCall' = [reqCall EXCEPT ![i] = IF BelowCap(Cardinality(requests)) THEN "insert" ELSE "refused"]
    /\ UNCHANGED <<reqForm, reqAnswer, requests>>
InsertRequest(i) ==
    /\ reqCall[i] = "insert" /\ reqCall' = [reqCall EXCEPT ![i] = "created"]
    /\ requests' = requests \cup {i}
    /\ UNCHANGED <<reqForm, reqAnswer, reqCounted>>
\* The screen goes on to the request, or shows the error; a lost call ends in an error too.
RequestAnswered(i) ==
    /\ reqAnswer[i] = "waiting"
    /\ \/ /\ reqCall[i] = "created" /\ reqForm' = "left" /\ reqAnswer' = [reqAnswer EXCEPT ![i] = "ok"]
       \/ reqAnswer' = [reqAnswer EXCEPT ![i] = "error"] /\ UNCHANGED reqForm
    /\ UNCHANGED <<reqCall, requests, reqCounted>>
Requesting == (\E i \in Presses : Submit(i) \/ CountActive(i) \/ InsertRequest(i) \/ RequestAnswered(i))
              /\ UNCHANGED <<carryVars, stockVars, askVars>>

-----------------------------------------------------------------------------
\* Things to carry

ItemKey(s, q) == <<s, q, 0>>
\* A stepper, or Add another, which sets one: live while a save runs.
SetQty(s, q) ==
    /\ carryScreen = "list" /\ saveState # "alert" /\ q # qty[s] /\ qty' = [qty EXCEPT ![s] = q]
    /\ repriced' = IF \E p \in posts : p.slug = s THEN repriced \cup {s} ELSE repriced
    /\ unsent' = IF saveState = "saving" THEN unsent \cup {s} ELSE unsent
    /\ UNCHANGED <<carryScreen, saveState, named, toSend, posts, saves, carried>>
\* The catalogue is fetched after all.
CatalogueComes ==
    /\ carryScreen = "list" /\ named # Slugs /\ named' = Slugs
    /\ UNCHANGED <<carryScreen, saveState, qty, toSend, posts, saves, carried, repriced, unsent>>
Chosen == {s \in Slugs : qty[s] > 0}
PostOf(s, q) == [slug |-> s, qty |-> q, key |-> ItemKey(s, q), save |-> saves + 1, pc |-> "sent"]
Send(amounts) ==
    /\ saves < MaxSaves /\ saves' = saves + 1 /\ saveState' = "saving" /\ toSend' = amounts
    /\ posts' = posts \cup {PostOf(s, amounts[s]) : s \in {t \in Slugs : amounts[t] > 0}}
    /\ UNCHANGED <<carryScreen, carryList, carried, repriced>>
\* save, by its button: all items at once, but those without category.  With nothing chosen it goes on.
SaveCarry ==
    /\ carryScreen = "list" /\ saveState = "none"
    /\ \/ /\ Chosen = {} /\ carryScreen' = "done"
          /\ UNCHANGED <<saveState, carryList, toSend, posts, saves, carried, repriced, unsent>>
       \/ /\ Chosen # {} /\ unsent' = Slugs \ named
          /\ Send([s \in Slugs |-> IF s \in named THEN qty[s] ELSE 0])
\* By Retry: with the amounts and the catalogue of the render the button was pressed in.
RetryCarry == saveState = "alert" /\ Send(toSend) /\ UNCHANGED unsent
Moved(p, pc) == posts' = (posts \ {p}) \cup {[p EXCEPT !.pc = pc]}
HasKey(p) == \E r \in carried : r.key = p.key
\* addInventory: a replay returns the first row; a key that is taken meanwhile is an error.
CheckCarry(p) ==
    /\ p.pc = "sent" /\ Moved(p, IF HasKey(p) THEN "ok" ELSE "insert")
    /\ UNCHANGED <<carryScreen, saveState, carryList, toSend, saves, carried, repriced, unsent>>
InsertCarry(p) ==
    /\ p.pc = "insert"
    /\ IF HasKey(p) THEN Moved(p, "error") /\ UNCHANGED carried
         ELSE Moved(p, "ok") /\ carried' = carried \cup {[slug |-> p.slug, qty |-> p.qty, key |-> p.key]}
    /\ UNCHANGED <<carryScreen, saveState, carryList, toSend, saves, repriced, unsent>>
Own == {p \in posts : p.save = saves}
AllSaved == \A p \in Own : p.pc = "ok"
\* Promise.all: done with the last answer, wherever the person is by then; the first error, a
\* refusal or no answer in time, asks whether to retry - the other POSTs go on.
SaveEnds ==
    /\ saveState = "saving"
    /\ \/ AllSaved /\ carryScreen' = "done" /\ saveState' = "none"
       \/ ~AllSaved /\ saveState' = "alert" /\ UNCHANGED carryScreen
    /\ UNCHANGED <<carryList, toSend, posts, saves, carried, repriced, unsent>>
CancelAlert ==
    /\ saveState = "alert" /\ saveState' = "none"
    /\ UNCHANGED <<carryScreen, carryList, toSend, posts, saves, carried, repriced, unsent>>
\* "I'll add this later": a save under way goes on.
CarryLater ==
    /\ carryScreen = "list" /\ saveState # "alert" /\ carryScreen' = "home"
    /\ UNCHANGED <<saveState, carryList, toSend, posts, saves, carried, repriced, unsent>>
Carrying == /\ \/ \E s \in Slugs, q \in 0..MaxQty : SetQty(s, q)
               \/ CatalogueComes \/ SaveCarry \/ RetryCarry \/ SaveEnds \/ CancelAlert \/ CarryLater
               \/ \E p \in posts : CheckCarry(p) \/ InsertCarry(p)
            /\ UNCHANGED <<reqVars, stockVars, askVars>>

-----------------------------------------------------------------------------
\* A stock row

RowFree == ~waitingRow
Tap(d) ==
    /\ RowFree /\ taps < MaxPresses /\ taps' = taps + 1
    /\ d = 1 \/ (d = -1 /\ shownRow.total > 1 /\ shownRow.total > shownRow.reserved)
    /\ patches' = patches \cup {[press |-> taps, value |-> shownRow.total + d, d |-> d]}
    /\ waitingRow' = TRUE
    /\ staleTap' = (staleTap \/ shownRow.total # total)
    /\ UNCHANGED <<total, reserved, shownRow, applied, settled>>
CoversReserved(p) == p.value >= reserved
\* updateInventory, the row locked.
ApplyPatch(p) ==
    /\ patches' = patches \ {p}
    /\ IF CoversReserved(p) THEN total' = p.value /\ applied' = applied + p.d ELSE UNCHANGED <<total, applied>>
    /\ UNCHANGED <<reserved, shownRow, waitingRow, taps, settled, staleTap>>
\* The answer, or a timeout while the call is still on its way; then the row asks for the list.
PatchAnswered ==
    /\ waitingRow /\ waitingRow' = FALSE
    /\ staleTap' = (staleTap \/ patches # {})
    /\ UNCHANGED <<total, reserved, shownRow, patches, taps, applied, settled>>
RefetchRow ==
    /\ shownRow' = [total |-> total, reserved |-> reserved]
    /\ UNCHANGED <<total, reserved, patches, waitingRow, taps, applied, settled, staleTap>>
\* An exchange reserves one, and takes it.
ReserveOne ==
    /\ reserved < total /\ reserved < 2 /\ settled = 0 /\ reserved' = reserved + 1
    /\ UNCHANGED <<total, shownRow, patches, waitingRow, taps, applied, settled, staleTap>>
SettleOne ==
    /\ reserved > 0 /\ settled = 0 /\ reserved' = reserved - 1
    /\ total' = total - 1 /\ settled' = 1
    /\ staleTap' = (staleTap \/ patches # {})
    /\ UNCHANGED <<shownRow, patches, waitingRow, taps, applied>>
Stocking == /\ \/ (\E d \in {1, -1} : Tap(d)) \/ (\E p \in patches : ApplyPatch(p)) \/ PatchAnswered
               \/ RefetchRow \/ ReserveOne \/ SettleOne
            /\ UNCHANGED <<reqVars, carryVars, askVars>>

-----------------------------------------------------------------------------
\* "Are you coming today?"

NotAsked == ~askedRef
\* The home screen's effect, whenever the event's data changes: storage is asked.
CheckAnswered ==
    /\ NotAsked /\ askChecks < 2
    /\ IF answeredOn = day THEN UNCHANGED askChecks ELSE askChecks' = askChecks + 1
    /\ askedTwice' = (askedTwice \/ askChecks > 0)
    /\ UNCHANGED <<day, answeredOn, askedRef, prompts>>
PushPrompt ==
    /\ askChecks > 0 /\ askChecks' = askChecks - 1
    /\ askedRef' = TRUE /\ prompts' = [prompts EXCEPT ![day] = @ + 1]
    /\ UNCHANGED <<day, answeredOn, askedTwice>>
\* Yes, No and Skip all record the day first; a failing POST changes nothing of it.
AnswerPrompt ==
    /\ prompts[day] > 0 /\ answeredOn' = day
    /\ UNCHANGED <<day, askedRef, askChecks, prompts, askedTwice>>
NextDay ==
    /\ day < Days /\ day' = day + 1
    /\ UNCHANGED <<answeredOn, askedRef, askChecks, prompts, askedTwice>>
AppRestarts ==
    /\ askedRef' = FALSE /\ askChecks' = 0 /\ prompts' = [d \in 1..Days |-> 0] /\ askedTwice' = FALSE
    /\ UNCHANGED <<day, answeredOn>>
Attending == (CheckAnswered \/ PushPrompt \/ AnswerPrompt \/ NextDay \/ AppRestarts)
             /\ UNCHANGED <<reqVars, carryVars, stockVars>>

-----------------------------------------------------------------------------

FormsInit ==
    /\ reqForm = "open" /\ reqCall = [i \in Presses |-> "none"] /\ reqAnswer = [i \in Presses |-> "none"]
    /\ requests = {} /\ reqCounted = [i \in Presses |-> 0]
    /\ carryScreen = "list" /\ saveState = "none" /\ qty = [s \in Slugs |-> 0] /\ named \in SUBSET Slugs
    /\ toSend = [s \in Slugs |-> 0] /\ posts = {} /\ saves = 0 /\ carried = {} /\ repriced = {} /\ unsent = {}
    /\ total = 2 /\ reserved = 0 /\ shownRow = [total |-> 2, reserved |-> 0] /\ patches = {} /\ waitingRow = FALSE
    /\ taps = 0 /\ applied = 0 /\ settled = 0 /\ staleTap = FALSE
    /\ day = 1 /\ answeredOn = 0 /\ askedRef = FALSE /\ askChecks = 0
    /\ prompts = [d \in 1..Days |-> 0] /\ askedTwice = FALSE
FormsNext == Requesting \/ Carrying \/ Stocking \/ Attending
FormsSpec == FormsInit /\ [][FormsNext]_formsVars

-----------------------------------------------------------------------------
\* Properties

\* Every variable stays in its type; a form that was left had its answer, and the row's
\* total never falls below what is reserved.
FormsTypeOK ==
    /\ reqForm \in {"open", "left"} /\ requests \subseteq Presses
    /\ reqForm = "left" <=> \E i \in Presses : reqAnswer[i] = "ok"
    /\ carryScreen \in {"list", "home", "done"} /\ saveState \in {"none", "saving", "alert"} /\ qty \in [Slugs -> 0..MaxQty] /\ saves \in 0..MaxSaves
    /\ total >= reserved /\ shownRow.total \in 0..2 + MaxPresses
    /\ answeredOn \in 0..day /\ askChecks \in 0..2

\* One press at a time is under way, so a second request appears only when the phone
\* reported an error for one the server had, or went on to have (request/new.tsx, submit).
OneRequestEach == Cardinality(requests) <= 1 + Cardinality({i \in Presses : reqAnswer[i] = "error" /\ i \in requests})

\* No more active requests than the cap - unless a call that was given up on and the next
\* press counted at the same time (createRequest).
CapHolds ==
    Cardinality(requests) <= ActiveRequests \/ \E i, j \in requests : i # j /\ reqCounted[i] = reqCounted[j]

\* However often a save is retried, and whatever part of it got through, an item is added
\* once - unless its quantity was changed after a save (carry/items.tsx, "cannot double-add").
CarriedOnce == \A r1, r2 \in carried : r1.slug = r2.slug => (r1 = r2 \/ r1.slug \in repriced)

\* The closing screen is reached only with everything the list shows on the server, in the
\* quantity it shows - unless an item was changed while the save that led there ran, or had no
\* category when it was pressed (Promise.all; an item without category counts as saved).
DoneMeansStored ==
    carryScreen = "done" => \A s \in Chosen : s \in unsent \/ \E r \in carried : r.slug = s /\ r.qty = qty[s]

\* What the server holds is what it held plus the taps and minus the exchanges, in whatever
\* order they arrive - unless a tap went out from an outdated total (InventoryRow, patch).
StockCountsTaps == (~staleTap /\ patches = {}) => total = 2 + applied - settled

\* In one run of the app the question is put at most once a day, and not after its answer,
\* unless two checks overlapped (home.tsx, asked).
AskedOncePerDay == \A d \in 1..Days : prompts[d] > 1 => askedTwice

\* A form does once what was asked once: the request, the items carried, the taps on the
\* stock and the daily question, over lost answers, retries and stale lists.
FormsActOnce ==
    /\ OneRequestEach /\ CapHolds
    /\ CarriedOnce /\ DoneMeansStored
    /\ StockCountsTaps
    /\ AskedOncePerDay
=============================================================================
