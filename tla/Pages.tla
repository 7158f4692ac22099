-------------------------------- MODULE Pages --------------------------------
(***************************************************************************)
(* Lists read page by page while rows come and go: the notifications of an  *)
(* account, newest first; the audit log, by descending id; the search for   *)
(* events, by ascending start.  A cursor names the last row of a page, its  *)
(* time cut to the millisecond; the database keeps microseconds (here: two  *)
(* to a millisecond).                                                       *)
(***************************************************************************)
EXTENDS Naturals, FiniteSets

CONSTANTS Ids,            \* ids of rows, in the order the database compares them
          MaxInstant, PageSize

ASSUME PagesAssumption == Ids \subseteq Nat /\ PageSize \in Nat \ {0} /\ MaxInstant \in Nat

VARIABLES list,           \* notifications / audit / events
          present,        \* rows there are now
          instant,        \* created_at or starts_at of each row
          now,            \* the database's clock
          cursor,         \* what the reader sends with its next call
          paged,          \* rows on the pages read so far
          twice,          \* history: rows shown a second time
          lasting,        \* history: rows there since the first page was read
          moved           \* history: events whose start was changed meanwhile

pageVars == <<list, present, instant, now, cursor, paged, twice, lasting, moved>>

Lists == {"notifications", "audit", "events"}
Start == [at |-> "start", time |-> 0, id |-> 0]
End == [at |-> "end", time |-> 0, id |-> 0]
CutToMs(t) == 2 * (t \div 2)

AfterOrAt(r, c) ==
    \/ c.at = "start"
    \/ list = "audit" /\ r <= c.id
    \/ list = "notifications" /\ (instant[r] < c.time \/ (instant[r] = c.time /\ r <= c.id))
    \/ list = "events" /\ (instant[r] > c.time \/ (instant[r] = c.time /\ r >= c.id))
\* The keyset condition of each query.
After(r, c) ==
    \/ c.at = "start"
    \/ list = "audit" /\ r < c.id
    \/ list = "notifications" /\ (instant[r] < c.time \/ (instant[r] = c.time /\ r < c.id))
    \/ list = "events" /\ (instant[r] > c.time \/ (instant[r] = c.time /\ r > c.id))

\* ORDER BY.
ComesBefore(r, s) ==
    \/ list = "audit" /\ r > s
    \/ list = "notifications" /\ (instant[r] > instant[s] \/ (instant[r] = instant[s] /\ r > s))
    \/ list = "events" /\ (instant[r] < instant[s] \/ (instant[r] = instant[s] /\ r < s))
PageAt(c) ==
    LET found == {r \in present : After(r, c)} IN
    {r \in found : Cardinality({s \in found : ComesBefore(s, r)}) < PageSize}

CursorOf(r) == [at |-> "after", time |-> CutToMs(instant[r]), id |-> r]
LastOf(page) == CHOOSE r \in page : \A s \in page \ {r} : ComesBefore(s, r)
CursorAfter(page) == IF Cardinality(page) = PageSize THEN CursorOf(LastOf(page)) ELSE End
ReadPage ==
    /\ cursor.at # "end"
    /\ LET page == PageAt(cursor) IN
         /\ paged' = paged \cup page
         /\ twice' = twice \cup (page \cap paged)
         /\ lasting' = IF cursor.at = "start" THEN present ELSE lasting
         /\ cursor' = CursorAfter(page)
    /\ UNCHANGED <<list, present, instant, now, moved>>

\* A notification is dated by the clock and has a random id; the ids of the log are
\* taken before the commit; an event starts when its organiser says, to the millisecond.
InsertRow(r) ==
    /\ r \notin present /\ instant[r] = 0
    /\ \E t \in 1..MaxInstant :
         /\ list # "events" => t = now
         /\ list = "events" => t = CutToMs(t)
         /\ instant' = [instant EXCEPT ![r] = t]
    /\ present' = present \cup {r}
    /\ UNCHANGED <<list, now, cursor, paged, twice, lasting, moved>>
\* Thirty days old; closed, hidden or disabled.
RowGoes(r) ==
    /\ r \in present /\ list # "audit"
    /\ present' = present \ {r} /\ lasting' = lasting \ {r}
    /\ UNCHANGED <<list, instant, now, cursor, paged, twice, moved>>
\* adminPatchEvent may move an event on the list.
RescheduleEvent(r) ==
    /\ list = "events" /\ r \in present
    /\ \E t \in 1..MaxInstant :
         t = CutToMs(t) /\ t # instant[r] /\ instant' = [instant EXCEPT ![r] = t]
    /\ moved' = moved \cup {r}
    /\ UNCHANGED <<list, present, now, cursor, paged, twice, lasting>>
ClockTicks ==
    /\ list # "events" /\ now < MaxInstant /\ now' = now + 1
    /\ UNCHANGED <<list, present, instant, cursor, paged, twice, lasting, moved>>

PagesInit(begun) ==
    /\ list \in Lists /\ present = {} /\ instant = [r \in Ids |-> 0] /\ now = 1
    /\ cursor = begun /\ paged = {} /\ twice = {} /\ lasting = {} /\ moved = {}
PagesNext == ReadPage \/ ClockTicks \/ \E r \in Ids : InsertRow(r) \/ RowGoes(r) \/ RescheduleEvent(r)
PagesSpec == PagesInit(Start) /\ [][PagesNext]_pageVars

-----------------------------------------------------------------------------
\* Properties

\* Type invariant of a list and its reader (users/service.ts, admin/service.ts, events/service.ts).
PagesTypeOK ==
    /\ list \in Lists /\ present \subseteq Ids /\ paged \subseteq Ids /\ lasting \subseteq present
    /\ instant \in [Ids -> 0..MaxInstant] /\ cursor.at \in {"start", "after", "end"}
    /\ cursor.id \in Ids \cup {0} /\ cursor.time % 2 = 0

\* No row is shown on two pages, whatever is inserted or removed between them,
\* unless it is an event whose start was moved (listNotifications, listAudit, searchEvents).
NoRowTwice == twice \subseteq moved

\* When the last page has been read, every row that was there all along has been shown.
\* The exception is the cut of a notification's cursor: a row of the same millisecond as
\* the last of a page may be passed over (encodeCursor, users/service.ts:121-132).
OnlySameMillisecondIsSkipped ==
    cursor.at = "end" =>
        \A r \in lasting \ (paged \cup moved) :
            /\ list = "notifications"
            /\ \E s \in paged : CutToMs(instant[s]) = CutToMs(instant[r])

\* Paging through a list that changes repeats no row and skips none but those.
PagesHold == NoRowTwice /\ OnlySameMillisecondIsSkipped
=============================================================================
