------------------------------ MODULE MCClients -----------------------------
(***************************************************************************)
(* What the clients do and see, for TLC: SignUp, Forms and MatchScreen of   *)
(* the mobile app, the web Console, and Pages and Board.  They share no     *)
(* state; `form' gives each its steps, and splits the larger ones:          *)
(* answers lost against the sign-up screen left, confirming (with a second  *)
(* visit) against the safety menu, every level of need against the cache.   *)
(***************************************************************************)
EXTENDS Clients
CONSTANTS x, y, g1, g2, r, h, s1, s2, t1, t2, e1, e2, w1, c1, c2, c3
VARIABLE form

MCForms == {"answers", "again", "leaving", "request", "carry", "stock", "attend", "confirm", "revisit", "safety",
            "tabs", "reload", "moderate", "notice", "wants", "event", "staff",
            "pages", "needs", "cache", "access"}
readVars == <<pageVars, boardVars>>
clientVars == <<signUpVars, formsVars, matchVars, consoleVars, readVars, form>>

SigningUp ==
    /\ SignUpNext
    /\ \/ form = "answers" /\ (\A c \in calls' : c.mine) /\ account'[y] # "bare" /\ ~resending'
       \/ /\ form = "again" /\ UNCHANGED lost /\ (\A c \in calls' : c.mine) /\ screen # "home"
          /\ step' \in {"email", "code", "credentials"} /\ told' = "none"
       \/ /\ form = "leaving" /\ UNCHANGED lost /\ account'[y] # "bare" /\ ~resending'
          /\ step' \in {"email", "code", "credentials", "login"} /\ told' = "none"
          /\ (screen = "home" => \E c \in calls : c.kind = "save")
          /\ (screen = "landing" /\ screen' = "auth" => cutShort = {})
FillingIn ==
    \/ form = "request" /\ Requesting
    \/ form = "carry" /\ carryScreen # "done" /\ Carrying /\ qty'[g2] <= 1 /\ repriced' \subseteq {g1}
    \/ form = "stock" /\ Stocking
    \/ form = "attend" /\ Attending
Meeting ==
    /\ MatchNext
    /\ \/ form = "confirm" /\ UNCHANGED visits /\ \A u \in Pair : alerts'[u] \subseteq {"confirm", "peer"}
       \/ /\ form = "revisit" /\ UNCHANGED unheard /\ visits'[h] = 1
          /\ alerts'[r] \subseteq {"confirm", "peer"} /\ alerts'[h] \subseteq {"confirm"}
       \/ /\ form = "safety" /\ UNCHANGED visits
          /\ alerts'[r] \subseteq {"unsafe", "block", "report", "after"} /\ alerts'[h] \subseteq {"end"}
          /\ \A u \in Pair : Cardinality({c \in mcalls' : c.by = u}) <= 1
\* The second tab signs the session both hold out, and nothing else; a tab loaded again is alone.
Reloads == \E t \in Tabs, p \in {"landing", "password", "admin"} : Reload(t, p)
UsingTabs ==
    /\ TabStep
    /\ Cardinality(gets'[t1]) <= 2 /\ gets'[t2] = {} /\ me'[t2] = NoOne /\ page'[t2] = "landing"
    /\ \/ form = "tabs" /\ (Reloads => UNCHANGED <<me, gets, changing, uncertain>>)
       \/ form = "reload" /\ DOMAIN owner' \subseteq {1} /\ UNCHANGED missed /\ (token = NoSession \/ token' # NoSession)
UsingDialog == form \in Dialogs /\ DialogStep /\ \A k \in Dialogs \ {form} : UNCHANGED dialog[k]
Publishing ==
    \/ form = "wants" /\ WantsStep /\ UNCHANGED createVars
    \/ form = "event" /\ CreateStep /\ UNCHANGED <<wantVars, staffForm, left>>
    \/ form = "staff" /\ CreateStep /\ UNCHANGED <<wantVars, eventForm, eventRows>>

Paging ==
    /\ form = "pages" /\ PagesNext
    /\ moved' \subseteq {1} /\ (present' \subseteq present => present \ present' \subseteq {2})
    /\ UNCHANGED boardVars

MCOrder == <<c1, c2, c3>>
MCMaxOffer == [c \in {c1, c2, c3} |-> 3]
Nobody == [u \in Attendees |-> Nothing]
With(g) == [f \in FigureNames |-> IF f \in DOMAIN g THEN g[f] ELSE Nobody]
EveryNeed == {With(g) : g \in [{"requested", "offered"} -> [Attendees -> Entries]]}
AllOffer == {With([offered |-> [u \in Attendees |-> [cat |-> c1, qty |-> 4]]])}
PublicEvent == [status |-> "active", visibility |-> "public", approved |-> TRUE]
MCWants == {<<[cat |-> c1, qty |-> 1]>>, <<[cat |-> c2, qty |-> 1], [cat |-> c2, qty |-> 4]>>, << >>}
ChangesOf(fs, es) == \E f \in fs, u \in Attendees, e \in es : ChangePart(f, u, e)
Looking ==
    /\ \/ /\ form = "needs" /\ edits = 0
          /\ \/ ChangesOf({"requested", "offered"}, Entries)
             \/ \E w \in MCWants : SetAdminWants(w)
             \/ \E c \in Cats : PatchCategory(c)
       \/ /\ form = "cache"
          /\ \/ Computing \/ CacheExpires \/ \E c \in {c1, c3} : PatchCategory(c)
             \/ ChangesOf(FigureNames, {e \in Entries : e.cat # c2})
    /\ UNCHANGED pageVars

MCInit ==
    /\ form \in MCForms
    /\ SignUpInit /\ address = x /\ account[x] = "none" /\ account[y] = IF form = "again" THEN "none" ELSE "complete"
    /\ FormsInit /\ named \in (IF form = "carry" THEN {Slugs, {g1}} ELSE {Slugs}) /\ MatchInit
    /\ ConsoleInit /\ signer = t1 /\ wants = {}
    /\ PagesInit(IF form = "pages" THEN Start ELSE End) /\ (form # "pages" => list = "audit")
    /\ BoardInit(IF form = "needs" THEN EveryNeed ELSE AllOffer,
                 IF form \in {"needs", "cache"} THEN Cats ELSE {})
    /\ (form # "access" => event = PublicEvent)
    /\ override \in IF form = "needs" THEN {{}, {c2}} ELSE {{}}
MCNext ==
    /\ UNCHANGED form
    /\ \/ /\ \/ SigningUp /\ UNCHANGED <<formsVars, matchVars, consoleVars>>
             \/ FillingIn /\ UNCHANGED <<signUpVars, matchVars, consoleVars>>
             \/ Meeting /\ UNCHANGED <<signUpVars, formsVars, consoleVars>>
             \/ UsingTabs /\ UNCHANGED <<signUpVars, formsVars, matchVars, dialogVars, wantVars, createVars>>
             \/ UsingDialog /\ UNCHANGED <<signUpVars, formsVars, matchVars, sessionVars, wantVars, createVars>>
             \/ Publishing /\ UNCHANGED <<signUpVars, formsVars, matchVars, sessionVars, dialogVars>>
          /\ UNCHANGED readVars
       \/ (Paging \/ Looking) /\ UNCHANGED <<signUpVars, formsVars, matchVars, consoleVars>>
MCSpec ==
    /\ MCInit /\ [][MCNext]_clientVars
    /\ MatchFairness /\ BoardFairness

\* The peer is asked to confirm, a block ends the match, and the board catches up.
ClientsSettle == PeerIsAsked /\ BlockEndsMatch /\ BoardCatchesUp
=============================================================================
