-------------------------------- MODULE Board --------------------------------
(***************************************************************************)
(* What people see of an event's needs: the dashboard, whose figures need K *)
(* people behind them and which is cached for everyone, what to bring, the  *)
(* public wants, and who may see which of them.  Quantities are counted     *)
(* person by person; the four queries of a dashboard run one after another, *)
(* so the rows may change between them.                                     *)
(***************************************************************************)
EXTENDS Integers, Sequences, FiniteSets, FiniteSetsExt

CONSTANTS Attendees,         \* attendees of the event
          Order,          \* the catalogue: a sequence of categories, by sortOrder
          Amounts,        \* quantities one person may ask for, carry, reserve or receive
          MaxOffer,       \* max_offer_qty of each category
          K,              \* LIMITS.kAnonymityThreshold
          Listed,         \* how many suggestions are shown
          Banned,         \* categories the denylist names
          MaxEdits

ASSUME BoardAssumption ==
    /\ K \in Nat \ {0} /\ Listed \in Nat \ {0} /\ MaxEdits \in Nat /\ Amounts \subseteq Nat \ {0}
    /\ IsFiniteSet(Attendees) /\ IsFiniteSet(DOMAIN Order)
    /\ \A i \in DOMAIN Order : MaxOffer[Order[i]] \in Nat \ {0}

VARIABLES part,           \* per figure and person, the category and quantity, or Nothing
          active,         \* categories.active
          override,       \* event_categories of the event: a set of categories, {} for none
          curated,          \* event_admin_wants
          event,          \* the event's status, visibility and approval
          reading,        \* one process computing a dashboard
          cache,          \* the dashboard in Redis
          edits

boardVars == <<part, active, override, curated, event, reading, cache, edits>>

Cats == {Order[i] : i \in DOMAIN Order}
Figures == <<"requested", "offered", "reserved", "fulfilled">>
FigureNames == {Figures[i] : i \in DOMAIN Figures}
Nothing == [cat |-> "-", qty |-> 0]
Entries == [cat : Cats \ Banned, qty : Amounts] \cup {Nothing}
NoBoard == [c \in {} |-> {}]
Hidden == -1
NotReading == [next |-> 0, agg |-> [f \in FigureNames |-> Nothing]]
Position(c) == CHOOSE i \in DOMAIN Order : Order[i] = c

\* GROUP BY category_id: the sum, counted unit by unit, and the distinct people behind it.
Behind(f, c) == {u \in Attendees : part[f][u].cat = c}
Units(f, c, us) == UNION {{u} \X (1..part[f][u].qty) : u \in Behind(f, c) \cap us}
SumOf(f, c, us) == Cardinality(Units(f, c, us))
Aggregate(f, c) == [qty |-> SumOf(f, c, Attendees), users |-> Behind(f, c)]
AggregateAll(f) == [c \in Cats |-> Aggregate(f, c)]

\* effectiveEventCategories, in the catalogue's order.
Effective == IF override = {} THEN active ELSE override \cap active

\* computeShortage: how the quantity offered compares with the quantity asked for.
Severity == [critical_shortage |-> 0, high_need |-> 1, moderate_need |-> 2,
             adequate |-> 3, possible_surplus |-> 4, unknown |-> 5]
RatioSwapped(offered, asked) == IF 4 * asked < offered THEN "critical_shortage" ELSE "adequate"
Ratio(offered, asked) ==
    CASE 4 * offered < asked -> "critical_shortage"
      [] 4 * offered >= asked /\ 4 * offered < 3 * asked -> "high_need"
      [] 4 * offered >= 3 * asked /\ 4 * offered < 5 * asked -> "moderate_need"
      [] 4 * offered >= 5 * asked /\ offered < 3 * asked -> "adequate"
      [] offered >= 3 * asked -> "possible_surplus"
Shortage(req, off) ==
    IF Cardinality(req.users) < K /\ Cardinality(off.users) < K THEN "unknown"
    ELSE IF req.qty = 0 THEN IF off.qty > K THEN "possible_surplus" ELSE "adequate"
    ELSE Ratio(off.qty, req.qty)

-----------------------------------------------------------------------------
\* The dashboard

GateLoose(agg) == IF Cardinality(agg.users) + 1 >= K THEN agg.qty ELSE Hidden
GateValue(agg) == IF Cardinality(agg.users) >= K THEN agg.qty ELSE Hidden

\* The needs of a dashboard from four aggregates; `users' stays behind, as history.
NeedsOf(agg) ==
    [c \in Effective |->
        [level |-> Shortage(agg["requested"][c], agg["offered"][c]),
         figure |-> [f \in FigureNames |-> GateValue(agg[f][c])],
         users |-> [f \in FigureNames |-> agg[f][c].users]]]
FreshBoard == NeedsOf([f \in FigureNames |-> AggregateAll(f)])

MissCache ==
    /\ cache = NoBoard /\ reading.next = 0
    /\ reading' = [reading EXCEPT !.next = 1]
    /\ UNCHANGED <<part, active, override, curated, event, cache, edits>>
QueryFigure ==
    /\ reading.next \in DOMAIN Figures
    /\ reading' = [next |-> reading.next + 1,
                   agg |-> [reading.agg EXCEPT ![Figures[reading.next]] = AggregateAll(Figures[reading.next])]]
    /\ UNCHANGED <<part, active, override, curated, event, cache, edits>>
\* Redis may refuse the entry; the answer is given all the same.
SetCache ==
    /\ reading.next > Cardinality(FigureNames)
    /\ cache' \in {cache, NeedsOf(reading.agg)}
    /\ reading' = NotReading
    /\ UNCHANGED <<part, active, override, curated, event, edits>>
\* CACHE_TTL_SECONDS.
CacheTimesOut == cache # NoBoard
CacheExpires ==
    /\ CacheTimesOut /\ cache' = NoBoard
    /\ UNCHANGED <<part, active, override, curated, event, reading, edits>>

-----------------------------------------------------------------------------
\* What to bring, and the public wants

\* getBringSuggestions leaves the viewer's own stock out.
BringLevel(c, v) ==
    Shortage(Aggregate("requested", c),
             [qty |-> SumOf("offered", c, Attendees \ {v}), users |-> Behind("offered", c) \ {v}])
SuggestedQty(c, v) ==
    LET missing == SumOf("requested", c, Attendees) - SumOf("offered", c, Attendees \ {v})
    IN Max({Min({missing, MaxOffer[c], 10}), 0})
\* A stable sort by severity, then the first few.
MoreUrgent(c, d, v) ==
    LET sc == Severity[BringLevel(c, v)] sd == Severity[BringLevel(d, v)]
    IN sc < sd \/ (sc = sd /\ Position(c) < Position(d))
Suggestions(v) ==
    {c \in Effective : Cardinality({d \in Effective : MoreUrgent(d, c, v)}) < Listed}

\* computePublicWants: the organiser's categories, then those asked for, each with its source.
AskedFor == {c \in Cats : Behind("requested", c) # {}}
NotCurated(c) == c \notin DOMAIN curated
PublicWants ==
    {[cat |-> c, source |-> "admin", qty |-> curated[c]] : c \in DOMAIN curated}
      \cup {[cat |-> c, source |-> "user", qty |-> Aggregate("requested", c).qty] :
              c \in {d \in AskedFor : NotCurated(d)}}

-----------------------------------------------------------------------------
\* Who may see the event

Shown == event.status \notin {"draft", "disabled"}
OpenToAnyone == event.visibility = "public" /\ event.approved /\ Shown
FoundBySearch ==
    event.status \in {"scheduled", "active"} /\ event.visibility = "public" /\ event.approved
Viewers == [member : BOOLEAN, staff : BOOLEAN]
SeesEvent(v) == Shown \/ v.member \/ v.staff
SeesBoard(v) == OpenToAnyone \/ v.member \/ v.staff
SeesWants == OpenToAnyone

-----------------------------------------------------------------------------
\* What changes

Edit(step) == edits < MaxEdits /\ edits' = edits + 1 /\ step
\* Requests, stock, reservations and receipts, one person's at a time.
ChangePart(f, u, e) ==
    /\ Edit(part[f][u] # e /\ part' = [part EXCEPT ![f][u] = e])
    /\ UNCHANGED <<active, override, curated, event, reading, cache>>
MayReturn(c) == c \notin Banned
\* adminPatchCategory refuses to bring back what the denylist names.
PatchCategory(c) ==
    /\ Edit(/\ c \notin active => MayReturn(c)
            /\ active' = (active \ {c}) \cup ({c} \ active))
    /\ UNCHANGED <<part, override, curated, event, reading, cache>>
\* setAdminWants: the whole list, the last entry of a category counts.
LastQty(listed, c) == listed[Max({i \in DOMAIN listed : listed[i].cat = c})].qty
SetAdminWants(listed) ==
    /\ Edit(curated' = [c \in {listed[i].cat : i \in DOMAIN listed} |-> LastQty(listed, c)])
    /\ UNCHANGED <<part, active, override, event, reading, cache>>

\* createEvent takes active categories only.
BoardInit(parts, catalogue) ==
    /\ part \in parts
    /\ active = catalogue \ Banned /\ override \in SUBSET active
    /\ curated = [c \in {} |-> 0]
    /\ event \in [status : {"draft", "scheduled", "active", "paused", "completed", "archived", "disabled"},
                  visibility : {"public", "unlisted", "invite_only"}, approved : BOOLEAN]
    /\ reading = NotReading /\ cache = NoBoard /\ edits = 0
Computing == MissCache \/ QueryFigure \/ SetCache
BoardNext ==
    \/ Computing \/ CacheExpires
    \/ \E f \in FigureNames, u \in Attendees, e \in Entries : ChangePart(f, u, e)
    \/ \E c \in Cats : PatchCategory(c)
    \/ \E listed \in Seq([cat : Cats, qty : Amounts]) : SetAdminWants(listed)
BoardSpec == BoardInit([FigureNames -> [Attendees -> Entries]], Cats) /\ [][BoardNext]_boardVars
\* Redis drops the entry when its time is up, and a process that has begun goes on.
BoardFairness == WF_boardVars(QueryFigure \/ SetCache) /\ WF_boardVars(CacheExpires)

-----------------------------------------------------------------------------
\* Properties

\* Type invariant of the board's inputs and its cache (dashboard/service.ts, events/bring.ts).
BoardTypeOK ==
    /\ part \in [FigureNames -> [Attendees -> Entries]] /\ active \subseteq Cats \ Banned
    /\ reading.next \in 0..5 /\ edits <= MaxEdits
    /\ \A c \in DOMAIN cache : cache[c].level \in DOMAIN Severity

\* "Every figure is k-anonymized": no figure of the cached dashboard has fewer than K
\* people behind it, in whichever order its queries and the changes happened
\* (dashboard/service.ts:1-7).
FiguresNeedK ==
    \A c \in DOMAIN cache : \A f \in FigureNames :
        cache[c].figure[f] # Hidden => Cardinality(cache[c].users[f]) >= K

\* A cached dashboard comes to show the rows as they are, or goes: an entry computed from
\* a mixture of old and new rows does not stay (CACHE_TTL_SECONDS).
BoardCatchesUp == []<>(cache = NoBoard \/ cache = FreshBoard)

\* Bringing more never makes a category look more wanting, unless its level was or
\* becomes unknown for want of people (computeShortage).
MoreStockEases ==
    [][\A c \in Cats :
         LET before == Shortage(Aggregate("requested", c), Aggregate("offered", c))
             after == Shortage(Aggregate("requested", c), Aggregate("offered", c))'
         IN (/\ part'["requested"] = part["requested"]
             /\ Behind("offered", c) \subseteq Behind("offered", c)'
             /\ SumOf("offered", c, Attendees) <= SumOf("offered", c, Attendees)'
             /\ before # "unknown")
            => Severity[after] >= Severity[before]]_part

\* No category left off the list is more urgent than one on it, whoever looks
\* (getBringSuggestions).
WorstAreListed ==
    \A v \in Attendees : \A c \in Suggestions(v), d \in Effective \ Suggestions(v) :
        Severity[BringLevel(c, v)] <= Severity[BringLevel(d, v)]

\* Nobody is asked to bring some of what the same line calls adequate or in surplus, and
\* some of what is short is asked of everybody (getBringSuggestions, computeShortage).
AmountsFitLevels ==
    \A v \in Attendees, c \in Effective :
        /\ SuggestedQty(c, v) > 0 => BringLevel(c, v) \notin {"adequate", "possible_surplus"}
        /\ BringLevel(c, v) \in {"critical_shortage", "high_need"} => SuggestedQty(c, v) > 0

\* Each category is wanted once, and none that the organiser or an attendee wants is
\* missing (computePublicWants).
WantedOnce ==
    \A c \in Cats :
        Cardinality({w \in PublicWants : w.cat = c})
          = IF c \in DOMAIN curated \/ c \in AskedFor THEN 1 ELSE 0

\* Whoever finds an event in the search may open its dashboard, and whoever may open the
\* dashboard may open the event; the wants, which name what single people need, are shown
\* of no event whose dashboard somebody may not see
\* (searchEvents, registerDashboardRoutes, getEventForViewer, buildEventDetail).
AccessNests ==
    \A v \in Viewers :
        /\ FoundBySearch \/ SeesWants => SeesBoard(v)
        /\ SeesBoard(v) => SeesEvent(v)

\* What the board publishes is anonymous, ranks what is short first, names every want once,
\* and is open to those who may see the event (dashboard/service.ts, bring.ts, wants.ts).
BoardHolds == FiguresNeedK /\ WorstAreListed /\ AmountsFitLevels /\ WantedOnce /\ AccessNests
=============================================================================
