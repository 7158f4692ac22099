------------------------------- MODULE Console -------------------------------
(***************************************************************************)
(* The web console of the staff: tabs that share a token and each cache who *)
(* they are, the password change that a generated password forces, the      *)
(* dialogs that moderate an event or publish a notice, the list of wants,   *)
(* and the forms that create an event and a staff account.                  *)
(* An answer reaches a form's own callbacks only while the form is mounted. *)
(***************************************************************************)
EXTENDS Naturals, FiniteSets

CONSTANTS Tabs, Staff, NoOne, ConsoleEvents, Wanted,
          MaxSessions,  \* bound: sign-ins
          MaxTyped,     \* bound: texts typed in a dialog
          MaxCreated,   \* bound: events, and staff accounts, created
          MaxWantSaves, \* bound: saves of the list of wants under way at once
          MaxMissed     \* bound: answers lost, and saves of another admin

ASSUME ConsoleAssumption == NoOne \notin Staff \cup ConsoleEvents /\ {MaxSessions, MaxTyped, MaxCreated, MaxWantSaves, MaxMissed} \subseteq Nat

Dialogs == {"moderate", "notice"}
NoSession == 0
Idle == "idle"
Asked == "asked"
NotChanging == [call |-> Idle, by |-> NoSession]

VARIABLES
    token,          \* localStorage, shared by the tabs: the session held, or NoSession
    owner,          \* server: the account of each session
    ended,          \* server: revoked sessions
    mustChange,     \* server: accounts that still hold a generated password
    page, me,       \* of a tab: the page shown; the cached account, or NoOne
    mustSeen,       \* of a tab: the cached mustChangePassword
    gets,           \* of a tab: GET /me calls under way
    changing,       \* of a tab: the password change under way
    signer,         \* history: the tab that signed in last
    uncertain,      \* history: tabs whose cache outlived the token it came with
    changedHere,    \* history: of a tab: the account whose password it changed, or NoOne
    blind,          \* history: tabs that learnt of their change with no account cached, but asked for
    dialog,         \* of a kind: event shown, text typed, call under way
    sent,           \* server: what dialogs made happen, a bag of texts
    lostTexts,      \* history: texts whose answer was lost
    texts,          \* number of texts typed
    wants, shown,   \* server: wants stored; of the console: the list it shows
    picking,        \* of the wants dialog: open, picked; of the list: the refetch under way
    wantSaves,      \* saves of the wants dialog under way
    eventForm, eventRows, inviteSeen,   \* creating an event: the form, rows stored, codes shown
    staffForm, staffRows, handedOver,   \* creating an account: the same
    raced, left,    \* history: an event created elsewhere meanwhile; forms left with a call under way
    missed

sessionVars == <<token, owner, ended, mustChange, page, me, mustSeen, gets, changing, signer, uncertain, changedHere, blind>>
dialogVars == <<dialog, sent, lostTexts, texts>>
wantVars == <<wants, shown, picking, wantSaves>>
createVars == <<eventForm, eventRows, inviteSeen, staffForm, staffRows, handedOver, raced, left>>
consoleVars == <<sessionVars, dialogVars, wantVars, createVars, missed>>

Max1(n) == missed + n <= MaxMissed

-----------------------------------------------------------------------------
\* Tabs: the token, the cached account and the guard of the console's pages

\* RequireModerator, with what the tab has cached.
Guarded(t, who, must) ==
    IF token' = NoSession THEN "auth" ELSE IF who # NoOne /\ must THEN "password" ELSE "admin"
\* A tab renders again when something of its own changed.
Renders(t) ==
    page' = [page EXCEPT ![t] = CASE @ \in {"landing", "auth"} -> @
                                  [] @ = "password" -> IF token' = NoSession THEN "auth" ELSE "password"
                                  [] OTHER -> Guarded(t, me'[t], mustSeen'[t])]
FreshGet == [session |-> token, answer |-> "asked", who |-> NoOne, must |-> FALSE, kept |-> TRUE]

\* AuthPage sends a token's holder on, the console's guard anybody else away.
Visit(t, p) ==
    /\ p \in {"landing", "auth", "admin"} /\ p # page[t]
    /\ UNCHANGED <<token, owner, ended, mustChange, me, mustSeen, gets, changing, signer, uncertain, changedHere, blind>>
    /\ page' = [page EXCEPT ![t] = IF p = "landing" THEN p ELSE Guarded(t, me[t], mustSeen[t])]
\* An address is opened, or the page loaded again: nothing is cached, and calls under way are gone.
Reload(t, p) ==
    /\ p \in {"landing", "password", "admin"}
    /\ page' = [page EXCEPT ![t] = IF p # "landing" /\ token = NoSession THEN "auth" ELSE p]
    /\ me' = [me EXCEPT ![t] = NoOne] /\ mustSeen' = [mustSeen EXCEPT ![t] = FALSE]
    /\ gets' = [gets EXCEPT ![t] = {}] /\ changing' = [changing EXCEPT ![t] = NotChanging]
    /\ uncertain' = uncertain \ {t} /\ blind' = blind \ {t}
    /\ UNCHANGED <<token, owner, ended, mustChange, signer, changedHere>>
NeverAsking(t) == FALSE
AlreadyAsking(t) == \E g \in gets[t] : g.kept
\* useMe: on mount, and on focus when what is cached is stale.
FetchMe(t) ==
    /\ token # NoSession /\ ~AlreadyAsking(t)
    /\ gets' = [gets EXCEPT ![t] = @ \cup {FreshGet}]
    /\ UNCHANGED <<token, owner, ended, mustChange, page, me, mustSeen, changing, signer, uncertain, changedHere, blind>>
ServeMe(t, g) ==
    /\ g \in gets[t] /\ g.answer = "asked"
    /\ LET refused == g.session \in ended
           answer == [g EXCEPT !.answer = IF refused THEN "refused" ELSE "ok",
                               !.who = IF refused THEN NoOne ELSE owner[g.session],
                               !.must = ~refused /\ owner[g.session] \in mustChange]
       IN gets' = [gets EXCEPT ![t] = (@ \ {g}) \cup {answer}]
    /\ UNCHANGED <<token, owner, ended, mustChange, page, me, mustSeen, changing, signer, uncertain, changedHere, blind>>
\* The calls of a cache that is cleared, cancelled or asked again go on; nobody takes their answer.
Forget(gs) == {[g EXCEPT !.kept = FALSE] : g \in gs}
\* redirectToAuth: the shared token goes; away from /auth the page is loaded anew.
Redirected(t) ==
    /\ token' = NoSession
    /\ IF page[t] \in {"auth", "password"}
         THEN /\ UNCHANGED <<me, mustSeen>> /\ uncertain' = Tabs
              /\ page' = [page EXCEPT ![t] = "auth"]
              /\ UNCHANGED changing
         ELSE /\ me' = [me EXCEPT ![t] = NoOne] /\ mustSeen' = [mustSeen EXCEPT ![t] = FALSE]
              /\ page' = [page EXCEPT ![t] = "auth"] /\ changing' = [changing EXCEPT ![t] = NotChanging]
              /\ uncertain' = (uncertain \ {t}) \cup (Tabs \ {t})
MeAnswered(t, g) ==
    /\ g \in gets[t] /\ g.answer # "asked"
    /\ UNCHANGED <<owner, ended, mustChange, signer, changedHere, blind>>
    /\ IF g.answer = "refused"
         THEN /\ Redirected(t)
              /\ gets' = [gets EXCEPT ![t] = IF page[t] \in {"auth", "password"} THEN @ \ {g} ELSE {}]
         ELSE /\ gets' = [gets EXCEPT ![t] = @ \ {g}]
              /\ me' = [me EXCEPT ![t] = IF g.kept THEN g.who ELSE @]
              /\ mustSeen' = [mustSeen EXCEPT ![t] = IF g.kept THEN g.must ELSE @]
              /\ UNCHANGED <<token, changing, uncertain, changedHere, blind>> /\ Renders(t)

\* usePasswordLogin and AuthPage: token and account are set together.
SignInStaff(t, u) ==
    /\ page[t] = "auth" /\ token = NoSession /\ Cardinality(DOMAIN owner) < MaxSessions
    /\ LET s == Cardinality(DOMAIN owner) + 1 IN
         /\ token' = s
         /\ owner' = [x \in 1..s |-> IF x = s THEN u ELSE owner[x]]
    /\ me' = [me EXCEPT ![t] = u] /\ mustSeen' = [mustSeen EXCEPT ![t] = u \in mustChange]
    /\ page' = [page EXCEPT ![t] = IF u \in mustChange THEN "password" ELSE "admin"]
    /\ signer' = t
    /\ UNCHANGED <<ended, mustChange, gets, changing, uncertain, changedHere, blind>>
NeverClears(t) == FALSE
\* onSettled clears the cache as well as the token.
ClearsCache(t) == TRUE
\* useLogout, answered or not: the request may never have landed.
SignOutStaff(t) ==
    /\ token # NoSession
    /\ \/ ended' = ended \cup {token} /\ UNCHANGED missed
       \/ ended' = ended /\ Max1(1) /\ missed' = missed + 1
    /\ token' = NoSession
    /\ page' = [page EXCEPT ![t] = "landing"]
    /\ IF ClearsCache(t)
         THEN /\ me' = [me EXCEPT ![t] = NoOne] /\ mustSeen' = [mustSeen EXCEPT ![t] = FALSE]
              /\ gets' = [gets EXCEPT ![t] = Forget(@)]
         ELSE UNCHANGED <<me, mustSeen, gets>>
    /\ uncertain' = (uncertain \ {t}) \cup (Tabs \ {t})
    /\ changing' = [changing EXCEPT ![t] = NotChanging]
    /\ UNCHANGED <<owner, mustChange, signer, changedHere, blind>>
\* A sanction or another device ends the session, and the socket tells the tab.
RevokeStaff(t) ==
    /\ token # NoSession /\ me[t] # NoOne
    /\ ended' = ended \cup {token} /\ Redirected(t)
    /\ gets' = [gets EXCEPT ![t] = IF page[t] \in {"auth", "password"} THEN @ ELSE {}]
    /\ UNCHANGED <<owner, mustChange, signer, changedHere, blind>>
ResetStaff(u) ==
    /\ u \notin mustChange /\ Max1(1) /\ missed' = missed + 1
    /\ mustChange' = mustChange \cup {u}
    /\ changedHere' = [t \in Tabs |-> IF changedHere[t] = u THEN NoOne ELSE changedHere[t]]
    /\ UNCHANGED <<token, owner, ended, page, me, mustSeen, gets, changing, signer, uncertain, blind>>

\* ChangePasswordPage and useChangePassword.
AskChange(t) ==
    /\ page[t] = "password" /\ token # NoSession /\ changing[t] = NotChanging
    /\ changing' = [changing EXCEPT ![t] = [call |-> Asked, by |-> token]]
    /\ UNCHANGED <<token, owner, ended, mustChange, page, me, mustSeen, gets, signer, uncertain, changedHere, blind>>
ServeChange(t) ==
    /\ changing[t].call = Asked
    /\ IF changing[t].by \in ended
         THEN changing' = [changing EXCEPT ![t].call = "error"] /\ UNCHANGED mustChange
         ELSE /\ mustChange' = mustChange \ {owner[changing[t].by]}
              /\ changing' = [changing EXCEPT ![t].call = "ok"]
    /\ UNCHANGED <<token, owner, ended, page, me, mustSeen, gets, signer, uncertain, changedHere, blind>>
\* Invalidating the account asks anew and drops the answer of the call under way - but with
\* nothing cached a call under way is kept, and its answer with it.
AskedAnew(t) ==
    LET fresh == IF token = NoSession THEN {} ELSE {FreshGet}
    IN  IF me[t] # NoOne THEN Forget(gets[t]) \cup fresh
        ELSE IF AlreadyAsking(t) THEN gets[t] ELSE gets[t] \cup fresh
\* On success: the flag is cleared in the cache, if there is one, and the account asked for again.
ChangeAnswered(t) ==
    /\ changing[t].call \in {"ok", "error"} /\ changing' = [changing EXCEPT ![t] = NotChanging]
    /\ UNCHANGED <<token, owner, ended, mustChange, me, signer, uncertain>>
    /\ IF changing[t].call = "ok"
         THEN /\ changedHere' = [changedHere EXCEPT ![t] = IF owner[changing[t].by] \in mustChange THEN NoOne ELSE owner[changing[t].by]]
              /\ mustSeen' = [mustSeen EXCEPT ![t] = FALSE]
              /\ gets' = [gets EXCEPT ![t] = AskedAnew(t)]
              /\ blind' = IF me[t] = NoOne /\ AlreadyAsking(t) THEN blind \cup {t} ELSE blind \ {t}
              /\ page' = [page EXCEPT ![t] = IF @ = "password" THEN Guarded(t, me[t], FALSE) ELSE @]
         ELSE UNCHANGED <<mustSeen, gets, page, changedHere, blind>>
LoseChange(t) ==
    /\ changing[t].call = "ok" /\ Max1(1) /\ missed' = missed + 1
    /\ changing' = [changing EXCEPT ![t] = NotChanging] /\ UNCHANGED uncertain
    /\ UNCHANGED <<token, owner, ended, mustChange, page, me, mustSeen, gets, signer, changedHere, blind>>

TabStep ==
    \/ /\ UNCHANGED missed
       /\ \E t \in Tabs :
            \/ (\E p \in {"landing", "auth", "admin"} : Visit(t, p)) \/ \E u \in Staff : SignInStaff(t, u)
            \/ (\E p \in {"landing", "password", "admin"} : Reload(t, p))
            \/ FetchMe(t) \/ (\E g \in gets[t] : ServeMe(t, g)) \/ \E g \in gets[t] : MeAnswered(t, g)
            \/ RevokeStaff(t) \/ AskChange(t) \/ ServeChange(t) \/ ChangeAnswered(t)
    \/ \E t \in Tabs : SignOutStaff(t) \/ LoseChange(t)
    \/ \E u \in Staff : ResetStaff(u)

-----------------------------------------------------------------------------
\* The moderation and the notice dialog: one event shown, one text, one call at a time

OpenDialog(k, e) ==
    /\ dialog[k].event = NoOne
    /\ dialog' = [dialog EXCEPT ![k].event = e]
    /\ UNCHANGED <<sent, lostTexts, texts, missed>>
\* Closing keeps the text and the call.
CloseDialog(k) ==
    /\ dialog[k].event # NoOne
    /\ dialog' = [dialog EXCEPT ![k].event = NoOne]
    /\ UNCHANGED <<sent, lostTexts, texts, missed>>
TypeText(k) ==
    /\ dialog[k].event # NoOne /\ texts < MaxTyped
    /\ texts' = texts + 1 /\ dialog' = [dialog EXCEPT ![k].text = texts + 1]
    /\ UNCHANGED <<sent, lostTexts, missed>>
\* The button: off while a call is under way, and without a text.
MayConfirm(k) == dialog[k].call = Idle
Confirm(k) ==
    /\ dialog[k].event # NoOne /\ dialog[k].text # 0 /\ MayConfirm(k)
    /\ dialog' = [dialog EXCEPT ![k].call = Asked, ![k].carries = dialog[k].text]
    /\ UNCHANGED <<sent, lostTexts, texts, missed>>
ServeDialog(k) ==
    /\ dialog[k].call = Asked
    /\ \/ /\ sent' = [sent EXCEPT ![k][dialog[k].carries] = @ + 1]
          /\ dialog' = [dialog EXCEPT ![k].call = "ok"]
       \/ dialog' = [dialog EXCEPT ![k].call = "error"] /\ UNCHANGED sent
    /\ UNCHANGED <<lostTexts, texts, missed>>
\* Success closes whatever the dialog shows by then, and clears its text.
TextAfter(k) == 0
DialogAnswered(k) ==
    /\ dialog[k].call \in {"ok", "error"}
    /\ dialog' = [dialog EXCEPT ![k] = IF dialog[k].call = "ok"
                                       THEN [event |-> NoOne, text |-> TextAfter(k), call |-> Idle, carries |-> 0]
                                       ELSE [@ EXCEPT !.call = Idle, !.carries = 0]]
    /\ UNCHANGED <<sent, lostTexts, texts, missed>>
LoseDialog(k) ==
    /\ dialog[k].call = "ok" /\ Max1(1) /\ missed' = missed + 1
    /\ lostTexts' = lostTexts \cup {<<k, dialog[k].carries>>}
    /\ dialog' = [dialog EXCEPT ![k].call = Idle, ![k].carries = 0]
    /\ UNCHANGED <<sent, texts>>
DialogStep ==
    \E k \in Dialogs :
        \/ (\E e \in ConsoleEvents : OpenDialog(k, e)) \/ CloseDialog(k) \/ TypeText(k) \/ Confirm(k)
        \/ ServeDialog(k) \/ DialogAnswered(k) \/ LoseDialog(k)

-----------------------------------------------------------------------------
\* The wants dialog: a copy of the listed wants, saved as the whole list

Refetching == [picking EXCEPT !.list = Asked]
OpenWants ==
    /\ ~picking.open
    /\ picking' = [picking EXCEPT !.open = TRUE, !.picked = shown]
    /\ UNCHANGED <<wants, shown, wantSaves, missed>>
\* toggle and the stepper: what amount is asked for is left out.
PickWant(w) ==
    /\ picking.open
    /\ picking' = [picking EXCEPT !.picked = IF w \in @ THEN @ \ {w} ELSE @ \cup {w}]
    /\ UNCHANGED <<wants, shown, wantSaves, missed>>
\* The dialog is gone, and what it knew of a save under way; the save goes on.
CloseWants ==
    /\ picking.open /\ picking' = [picking EXCEPT !.open = FALSE]
    /\ wantSaves' = {[c EXCEPT !.mine = FALSE] : c \in wantSaves} /\ UNCHANGED <<wants, shown, missed>>
\* The button is off while a save of this dialog is under way: one opened again knows of none.
SaveWants ==
    /\ picking.open /\ (\A c \in wantSaves : ~c.mine) /\ Cardinality(wantSaves) < MaxWantSaves
    /\ wantSaves' = wantSaves \cup {[no |-> CHOOSE n \in 0..MaxWantSaves : \A c \in wantSaves : c.no # n,
                                    carried |-> picking.picked, answer |-> Asked, mine |-> TRUE]}
    /\ UNCHANGED <<wants, shown, picking, missed>>
\* setAdminWants: a replacement of the list, last save wins.
ServeWants(c) ==
    /\ c.answer = Asked
    /\ wants' = c.carried /\ wantSaves' = (wantSaves \ {c}) \cup {[c EXCEPT !.answer = "ok"]}
    /\ UNCHANGED <<shown, picking, missed>>
\* The list is asked for again whether or not the dialog is still open, an older answer dropped;
\* the dialog is closed by its own save only.
AfterSave(c) == [Refetching EXCEPT !.open = @ /\ ~c.mine]
WantsSaved(c) ==
    /\ c.answer = "ok" /\ picking' = AfterSave(c) /\ wantSaves' = wantSaves \ {c}
    /\ UNCHANGED <<wants, shown, missed>>
LoseSave(c) ==
    /\ Max1(1) /\ missed' = missed + 1
    /\ wantSaves' = wantSaves \ {c} /\ UNCHANGED <<wants, shown, picking>>
AskList == picking.list = Idle /\ picking' = Refetching /\ UNCHANGED <<wants, shown, wantSaves, missed>>
ServeList ==
    /\ picking.list = Asked
    /\ picking' = [picking EXCEPT !.list = "ok", !.listed = wants] /\ UNCHANGED <<wants, shown, wantSaves, missed>>
ListArrives ==
    /\ picking.list = "ok" /\ shown' = picking.listed
    /\ picking' = [picking EXCEPT !.list = Idle, !.listed = {}] /\ UNCHANGED <<wants, wantSaves, missed>>
\* Another admin's console saves a list read before or after.
OthersSave(ws) == Max1(1) /\ missed' = missed + 1 /\ wants' = ws /\ UNCHANGED <<shown, picking, wantSaves>>
WantsStep ==
    \/ OpenWants \/ (\E w \in Wanted : PickWant(w)) \/ CloseWants \/ SaveWants
    \/ (\E c \in wantSaves : ServeWants(c) \/ WantsSaved(c) \/ LoseSave(c))
    \/ AskList \/ ServeList \/ ListArrives \/ \E ws \in SUBSET Wanted : OthersSave(ws)

-----------------------------------------------------------------------------
\* Creating an event and a staff account: each answers with something shown only once

EventUnchanged == UNCHANGED <<eventForm, eventRows, inviteSeen, raced>>
StaffUnchanged == UNCHANGED <<staffForm, staffRows, handedOver>>
AskCreate ==
    /\ eventForm = "form" /\ eventForm' = "asked"
    /\ UNCHANGED <<eventRows, inviteSeen, raced, left, missed>> /\ StaffUnchanged
\* createEvent looks for the same title nearby at that time, then inserts.
Duplicate == eventRows > 0
CheckEvent ==
    /\ eventForm = "asked" /\ eventForm' = IF Duplicate THEN "duplicate" ELSE "free"
    /\ UNCHANGED <<eventRows, inviteSeen, raced, left, missed>> /\ StaffUnchanged
InsertEvent ==
    /\ eventForm = "free" /\ eventRows < MaxCreated
    /\ eventRows' = eventRows + 1 /\ eventForm' = "ok"
    /\ UNCHANGED <<inviteSeen, raced, left, missed>> /\ StaffUnchanged
ShowCreated ==
    /\ eventForm = "ok" /\ eventForm' = "created" /\ inviteSeen' = inviteSeen + 1
    /\ UNCHANGED <<eventRows, raced, left, missed>> /\ StaffUnchanged
ShowDuplicate ==
    /\ eventForm = "duplicate" /\ eventForm' = "form"
    /\ UNCHANGED <<eventRows, inviteSeen, raced, left, missed>> /\ StaffUnchanged
LoseCreate ==
    /\ eventForm \in {"ok", "free", "asked"} /\ Max1(1) /\ missed' = missed + 1
    /\ eventForm' = "form" /\ UNCHANGED <<eventRows, inviteSeen, raced, left>> /\ StaffUnchanged
\* The same event is created from elsewhere, its own check already behind it.
CreatedElsewhere ==
    /\ eventForm \in {"free", "form", "asked"} /\ eventRows < MaxCreated /\ Max1(1) /\ missed' = missed + 1
    /\ eventForm = "free" \/ eventRows = 0
    /\ eventRows' = eventRows + 1 /\ raced' = (raced \/ eventForm = "free") /\ UNCHANGED <<eventForm, inviteSeen, left>> /\ StaffUnchanged
OpenFormAnew ==
    /\ eventForm = "created" /\ eventForm' = "form"
    /\ UNCHANGED <<eventRows, inviteSeen, raced, left, missed>> /\ StaffUnchanged

\* StaffSection's button is off while a call is under way.
MayCreateStaff == staffForm.calls = {}
\* Only the last press has callbacks: the answers of earlier ones are not shown.
AskStaff(u) ==
    /\ ~staffForm.shows /\ MayCreateStaff
    /\ Cardinality(staffForm.calls) < MaxCreated
    /\ staffForm' = [staffForm EXCEPT !.calls = {[c EXCEPT !.heard = FALSE] : c \in @}
                                                \cup {[user |-> u, answer |-> "asked", heard |-> TRUE]}]
    /\ UNCHANGED <<staffRows, handedOver, left, missed>> /\ EventUnchanged
\* createAdminAccount: a name or an address in use is a conflict.
ServeStaff(c) ==
    /\ c \in staffForm.calls /\ c.answer = "asked"
    /\ staffRows' = staffRows \cup {c.user}
    /\ staffForm' = [staffForm EXCEPT !.calls = (@ \ {c}) \cup {[c EXCEPT !.answer = IF c.user \in staffRows THEN "taken" ELSE "ok"]}]
    /\ UNCHANGED <<handedOver, left, missed>> /\ EventUnchanged
StaffAnswered(c) ==
    /\ c \in staffForm.calls /\ c.answer \in {"ok", "taken"}
    /\ staffForm' = [shows |-> staffForm.shows \/ (c.heard /\ c.answer = "ok"), calls |-> staffForm.calls \ {c}]
    /\ handedOver' = IF c.heard /\ c.answer = "ok" THEN handedOver \cup {c.user} ELSE handedOver
    /\ UNCHANGED <<staffRows, left, missed>> /\ EventUnchanged
LoseStaff(c) ==
    /\ c \in staffForm.calls /\ Max1(1) /\ missed' = missed + 1
    /\ staffForm' = [staffForm EXCEPT !.calls = @ \ {c}]
    /\ left' = left \cup {c.user} /\ UNCHANGED <<staffRows, handedOver>> /\ EventUnchanged
DismissStaff ==
    /\ staffForm.shows /\ staffForm' = [staffForm EXCEPT !.shows = FALSE]
    /\ UNCHANGED <<staffRows, handedOver, left, missed>> /\ EventUnchanged
\* Leaving the page: what was not shown is not shown any more.
LeaveStaff ==
    /\ staffForm.calls # {}
    /\ staffForm' = [shows |-> FALSE, calls |-> {[c EXCEPT !.heard = FALSE] : c \in staffForm.calls}]
    /\ left' = left \cup {c.user : c \in staffForm.calls}
    /\ UNCHANGED <<staffRows, handedOver, missed>> /\ EventUnchanged
CreateStep ==
    \/ AskCreate \/ CheckEvent \/ InsertEvent \/ ShowCreated \/ ShowDuplicate \/ LoseCreate \/ CreatedElsewhere \/ OpenFormAnew
    \/ (\E u \in Staff : AskStaff(u)) \/ DismissStaff \/ LeaveStaff
    \/ \E c \in staffForm.calls : ServeStaff(c) \/ StaffAnswered(c) \/ LoseStaff(c)

-----------------------------------------------------------------------------

ConsoleInit ==
    /\ token = NoSession /\ owner = <<>> /\ ended = {} /\ mustChange = Staff
    /\ page = [t \in Tabs |-> "landing"] /\ me = [t \in Tabs |-> NoOne] /\ mustSeen = [t \in Tabs |-> FALSE]
    /\ gets = [t \in Tabs |-> {}] /\ changing = [t \in Tabs |-> NotChanging]
    /\ signer \in Tabs /\ uncertain = {} /\ blind = {} /\ changedHere = [t \in Tabs |-> NoOne]
    /\ dialog = [k \in Dialogs |-> [event |-> NoOne, text |-> 0, call |-> Idle, carries |-> 0]]
    /\ sent = [k \in Dialogs |-> [n \in 1..MaxTyped |-> 0]] /\ lostTexts = {} /\ texts = 0
    /\ wants \in SUBSET Wanted /\ shown = wants
    /\ picking = [open |-> FALSE, picked |-> {}, list |-> Idle, listed |-> {}] /\ wantSaves = {}
    /\ eventForm = "form" /\ eventRows = 0 /\ inviteSeen = 0
    /\ staffForm = [shows |-> FALSE, calls |-> {}] /\ staffRows = {} /\ handedOver = {}
    /\ raced = FALSE /\ left = {} /\ missed = 0
ConsoleNext ==
    \/ TabStep /\ UNCHANGED <<dialogVars, wantVars, createVars>>
    \/ DialogStep /\ UNCHANGED <<sessionVars, wantVars, createVars>>
    \/ WantsStep /\ UNCHANGED <<sessionVars, dialogVars, createVars>>
    \/ CreateStep /\ UNCHANGED <<sessionVars, dialogVars, wantVars>>
ConsoleSpec == ConsoleInit /\ [][ConsoleNext]_consoleVars

-----------------------------------------------------------------------------
\* Properties

\* Every variable stays in its type; at most one GET /me of a tab still counts, a dialog's call
\* carries a text that was typed, and at most one save of the wants is the open dialog's own.
ConsoleTypeOK ==
    /\ token \in {NoSession} \cup DOMAIN owner /\ ended \subseteq DOMAIN owner
    /\ page \in [Tabs -> {"landing", "auth", "password", "admin"}]
    /\ \A t \in Tabs : Cardinality({g \in gets[t] : g.kept}) <= 1
    /\ \A k \in Dialogs : dialog[k].call # Idle => dialog[k].carries \in 1..texts
    /\ \A c \in wantSaves : c.carried \subseteq Wanted /\ (c.mine => picking.open)
    /\ \A c, d \in wantSaves : c.mine /\ d.mine => c = d

\* In whatever order answers come, the tab that signed in shows the account whose token
\* it holds: a call made for the account before does not put that account back (useLogout).
\* A token taken away by another tab, or while the tab shows a sign-in page, leaves the
\* cache behind: those tabs are left out until they sign out themselves.
MeIsOwn ==
    (token # NoSession /\ signer \notin uncertain /\ me[signer] # NoOne) => me[signer] = owner[token]

\* Once the password is changed the tab is not sent back to change it again by an account
\* read before the change, until its password is reset (useChangePassword) - unless it had no
\* account cached and one was being asked for: that answer is taken though it was read before.
NotBouncedBack ==
    \A t \in Tabs \ blind : (changedHere[t] # NoOne /\ me[t] = changedHere[t]) => ~mustSeen[t]

\* A reason or a notice typed once takes effect once, however the dialog is closed and
\* opened again while the call is under way - unless the answer was lost and it is sent again.
TypedTextUsedOnce ==
    \A k \in Dialogs : \A n \in 1..MaxTyped : <<k, n>> \notin lostTexts => sent[k][n] <= 1

\* When nothing is under way and nobody else saved, the console lists the wants stored, even if
\* the dialog was closed before its save was answered, and opened again and saved meanwhile
\* (useAdminSetWants).
ListedWantsAreStored ==
    (missed = 0 /\ wantSaves = {} /\ picking.list = Idle) => shown = wants

\* Pressing again after a lost answer does not create the event twice: only a creation from
\* elsewhere between the look and the insert does (the duplicate heuristic of createEvent).
OneEventEach == eventRows <= 1 \/ raced

\* A staff account's password is shown, or the answer was lost or the page left meanwhile:
\* it is in one answer and nowhere else (createAdminAccount, StaffSection).
PasswordsHandedOver ==
    \A u \in staffRows : u \in handedOver \cup left \/ \E c \in staffForm.calls : c.user = u /\ c.heard

\* The console shows the account, the wants and the password that are current, and carries
\* out once what was typed once (api/hooks.ts, AdminPage.tsx, CreateEvent.tsx).
ConsoleHolds ==
    /\ MeIsOwn /\ NotBouncedBack
    /\ TypedTextUsedOnce /\ ListedWantsAreStored
    /\ OneEventEach /\ PasswordsHandedOver
=============================================================================
