---------------------------- MODULE ClientProofs ---------------------------
(***************************************************************************)
(* Proofs about what the clients show and send: the screens of the mobile   *)
(* app for signing in, forms and matches (SignUp, Forms, MatchScreen), the  *)
(* staff's web console (Console), the lists both read in pages (Pages) and  *)
(* the dashboard, suggestions and wants of an event (Board).                *)
(***************************************************************************)
EXTENDS Clients, SequenceTheorems, FiniteSetTheorems, TLAPS

-----------------------------------------------------------------------------
(* The match screen *)

MeetingCalls ==
    [by : Pair, kind : {"confirm", "unsafe", "end", "block", "report"}, from : Alerts \cup {"peer", "after"},
     pc : {"sent", "cancel", "ok", "error"}, heard : BOOLEAN]

\* The ref remembers the dialog that was opened in this visit.
AskedIsRemembered ==
    /\ asks \in [Pair -> 0..1] /\ askedOf \in [Pair -> BOOLEAN]
    /\ \A u \in Pair : asks[u] = 1 => askedOf[u]

\* What a call has come to says what the server has done: a confirmation is refused only to
\* somebody who did not confirm, once the match is over; a block is stored before all else.
CallTrue(c) ==
    /\ c \in MeetingCalls
    /\ c.pc = "cancel" => c.kind = "block"
    /\ c.kind = "confirm" /\ c.pc = "error" => c.by \notin confirmed /\ mStatus # "active"
    /\ c.kind = "block" /\ c.pc # "sent" => c.by \in blocks
CallsAreTrue == \A c \in mcalls : CallTrue(c)
TaleTrue(u, t) ==
    /\ t = "confirm" => u \notin confirmed /\ mStatus # "active"
    /\ t \in {"block", "blocked"} => u \in blocks
Tales == {"none", "offline", "blocked", "confirm", "unsafe", "end", "block", "report"}
TalesAreTrue == toldOf \in [Pair -> Tales] /\ \A u \in Pair : TaleTrue(u, toldOf[u])
MeetingInv == AskedIsRemembered /\ CallsAreTrue /\ TalesAreTrue

\* A match that is over stays as it was confirmed, and blocks stay.
Onwards ==
    /\ blocks \subseteq blocks'
    /\ mStatus # "active" => mStatus' # "active" /\ confirmed' = confirmed
LEMMA TalesStay == ASSUME TalesAreTrue, Onwards, toldOf' = toldOf PROVE TalesAreTrue'
  BY DEF TalesAreTrue, TaleTrue, Onwards
LEMMA CallStays == ASSUME NEW c, CallTrue(c), Onwards PROVE CallTrue(c)'
  BY DEF CallTrue, Onwards
LEMMA CallsStay == ASSUME CallsAreTrue, Onwards, mcalls' \subseteq mcalls PROVE CallsAreTrue'
  BY CallStays DEF CallsAreTrue
LEMMA AskedStays == ASSUME AskedIsRemembered, UNCHANGED <<asks, askedOf>> PROVE AskedIsRemembered'
  BY DEF AskedIsRemembered

\* A call that is served moves on; the others stay as they are.
LEMMA CallServed ==
    ASSUME CallsAreTrue, Onwards, NEW c \in mcalls, NEW pc \in {"cancel", "ok", "error"}, CallMoves(c, pc),
           pc = "cancel" => c.kind = "block",
           c.kind = "confirm" /\ pc = "error" => c.by \notin confirmed' /\ mStatus' # "active",
           c.kind = "block" => c.by \in blocks'
    PROVE  CallsAreTrue'
  <1> DEFINE d == [c EXCEPT !.pc = pc]
  <1>1. c \in MeetingCalls
    BY DEF CallsAreTrue, CallTrue
  <1>2. d \in MeetingCalls /\ d.by = c.by /\ d.kind = c.kind /\ d.pc = pc
    BY <1>1 DEF MeetingCalls
  <1>3. mcalls' = (mcalls \ {c}) \cup {d}
    BY DEF CallMoves
  <1> HIDE DEF d
  <1>4. CallTrue(d)'
    BY <1>2 DEF CallTrue, d
  <1>5. \A e \in mcalls : CallTrue(e)'
    BY CallStays DEF CallsAreTrue
  <1> QED
    BY <1>3, <1>4, <1>5 DEF CallsAreTrue

LEMMA ServeKeeps == \A c \in mcalls : MeetingInv /\ ServeStep(c) => MeetingInv'
  <1> SUFFICES ASSUME NEW c \in mcalls, MeetingInv, ServeStep(c) PROVE MeetingInv'
    OBVIOUS
  <1>1. UNCHANGED <<asks, askedOf>> /\ toldOf' = toldOf
    BY DEF ServeStep, ServeConfirm, ServeCancel, ServeBlock, CancelBlocked, ServeReport, screenState
  <1>2. CallTrue(c) /\ CallsAreTrue
    BY DEF MeetingInv, CallsAreTrue
  <1>3. CASE ServeConfirm(c)
    <2>1. c.kind = "confirm" /\ UNCHANGED blocks
      BY <1>3 DEF ServeConfirm
    <2>2. CASE c.by \in confirmed
      <3>1. CallMoves(c, "ok") /\ UNCHANGED <<mStatus, confirmed>>
        BY <1>3, <2>2 DEF ServeConfirm, Replays
      <3>2. Onwards
        BY <2>1, <3>1 DEF Onwards
      <3>3. CallsAreTrue'
        BY <1>2, <2>1, <3>1, <3>2, CallServed
      <3> QED
        BY <1>1, <3>2, <3>3, TalesStay, AskedStays DEF MeetingInv
    <2>3. CASE c.by \notin confirmed /\ mStatus # "active"
      <3>1. CallMoves(c, "error") /\ UNCHANGED <<mStatus, confirmed>>
        BY <1>3, <2>3 DEF ServeConfirm, Replays
      <3>2. Onwards
        BY <2>1, <3>1 DEF Onwards
      <3>3. CallsAreTrue'
        BY <1>2, <2>1, <2>3, <3>1, <3>2, CallServed
      <3> QED
        BY <1>1, <3>2, <3>3, TalesStay, AskedStays DEF MeetingInv
    <2>4. CASE c.by \notin confirmed /\ mStatus = "active"
      <3>1. CallMoves(c, "ok")
        BY <1>3, <2>4 DEF ServeConfirm, Replays
      <3>2. Onwards
        BY <2>1, <2>4 DEF Onwards
      <3>3. CallsAreTrue'
        BY <1>2, <2>1, <3>1, <3>2, CallServed
      <3>4. TalesAreTrue'
        BY <1>1, <3>2, TalesStay DEF MeetingInv
      <3> QED
        BY <1>1, <3>3, <3>4, AskedStays DEF MeetingInv
    <2> QED
      BY <2>2, <2>3, <2>4
  <1>4. CASE ServeCancel(c) \/ CancelBlocked(c)
    <2>1. /\ UNCHANGED <<confirmed, blocks>>
          /\ mStatus # "active" => mStatus' # "active"
          /\ CallMoves(c, "ok") \/ CallMoves(c, "error")
      BY <1>4 DEF ServeCancel, CancelBlocked
    <2>2. c.kind # "confirm" /\ (c.kind = "block" => c.by \in blocks)
      BY <1>2, <1>4 DEF ServeCancel, CancelBlocked, CallTrue
    <2>3. Onwards
      BY <2>1 DEF Onwards
    <2>4. CallsAreTrue'
      BY <1>2, <2>1, <2>2, <2>3, CallServed
    <2> QED
      BY <1>1, <2>3, <2>4, TalesStay, AskedStays DEF MeetingInv
  <1>5. CASE ServeBlock(c)
    <2>1. c.kind = "block" /\ UNCHANGED <<mStatus, confirmed>> /\ blocks' = blocks \cup {c.by}
      BY <1>5 DEF ServeBlock, BlocksAfter
    <2>2. AfterBlock \in {"cancel", "ok"} /\ CallMoves(c, AfterBlock)
      BY <1>5 DEF ServeBlock, AfterBlock
    <2>3. Onwards
      BY <2>1 DEF Onwards
    <2>4. CASE CallMoves(c, "cancel")
      BY <1>1, <1>2, <2>1, <2>3, <2>4, CallServed, TalesStay, AskedStays DEF MeetingInv
    <2>5. CASE CallMoves(c, "ok")
      BY <1>1, <1>2, <2>1, <2>3, <2>5, CallServed, TalesStay, AskedStays DEF MeetingInv
    <2> QED
      BY <2>2, <2>4, <2>5
  <1>6. CASE ServeReport(c)
    <2>1. c.kind = "report" /\ UNCHANGED <<mStatus, confirmed, blocks>> /\ CallMoves(c, "ok")
      BY <1>6 DEF ServeReport
    <2>2. Onwards
      BY <2>1 DEF Onwards
    <2>3. CallsAreTrue'
      BY <1>2, <2>1, <2>2, CallServed
    <2> QED
      BY <1>1, <2>2, <2>3, TalesStay, AskedStays DEF MeetingInv
  <1> QED
    BY <1>3, <1>4, <1>5, <1>6 DEF ServeStep

\* The phone stops listening for a call: what it has come to stays as it is.
LEMMA UnheardStays ==
    ASSUME NEW c, CallTrue(c), Onwards
    PROVE  CallTrue([c EXCEPT !.heard = FALSE])'
  <1> DEFINE d == [c EXCEPT !.heard = FALSE]
  <1>1. c \in MeetingCalls
    BY DEF CallTrue
  <1>2. d \in MeetingCalls /\ d.by = c.by /\ d.kind = c.kind /\ d.pc = c.pc
    BY <1>1 DEF MeetingCalls
  <1> HIDE DEF d
  <1>3. CallTrue(d)'
    BY <1>2, CallStays DEF CallTrue
  <1> QED
    BY <1>3 DEF d

LEMMA TellKeeps ==
    ASSUME TalesAreTrue, Onwards, NEW u \in Pair, NEW t \in Tales, toldOf' = [toldOf EXCEPT ![u] = t],
           TaleTrue(u, t)'
    PROVE  TalesAreTrue'
  <1>1. toldOf' \in [Pair -> Tales] /\ \A w \in Pair : toldOf'[w] = IF w = u THEN t ELSE toldOf[w]
    BY DEF TalesAreTrue
  <1>2. ASSUME NEW w \in Pair, w # u
        PROVE  TaleTrue(w, toldOf[w])'
    <2>1. TaleTrue(w, toldOf[w]) /\ toldOf'[w] = toldOf[w]
      BY <1>1, <1>2 DEF TalesAreTrue
    <2> QED
      BY <2>1 DEF TaleTrue, Onwards
  <1>3. TaleTrue(u, toldOf[u])'
    <2>1. toldOf'[u] = t
      BY <1>1
    <2> QED
      BY <2>1 DEF TaleTrue
  <1> QED
    BY <1>1, <1>2, <1>3 DEF TalesAreTrue

LEMMA EndsKeep == \A c \in mcalls : MeetingInv /\ (CallEnds(c) \/ GiveUp(c) \/ ServerStops(c)) => MeetingInv'
  <1> SUFFICES ASSUME NEW c \in mcalls, MeetingInv, CallEnds(c) \/ GiveUp(c) \/ ServerStops(c) PROVE MeetingInv'
    OBVIOUS
  <1>1. UNCHANGED <<asks, askedOf>> /\ UNCHANGED <<mStatus, confirmed, blocks>>
    BY DEF CallEnds, GiveUp, ServerStops, screenState, serverState
  <1>2. Onwards
    BY <1>1 DEF Onwards
  <1>3. AskedIsRemembered'
    BY <1>1, AskedStays DEF MeetingInv
  <1>4. CallTrue(c) /\ c.by \in Pair /\ c.kind \in Tales
    BY DEF MeetingInv, CallsAreTrue, CallTrue, MeetingCalls, Tales
  <1>5. CASE CallEnds(c)
    <2>1. mcalls' \subseteq mcalls
      BY <1>5 DEF CallEnds
    <2>2. CallsAreTrue'
      BY <1>2, <2>1, CallsStay DEF MeetingInv
    <2>3. CASE toldOf' = toldOf
      BY <1>2, <1>3, <2>2, <2>3, TalesStay DEF MeetingInv
    <2>4. CASE toldOf' # toldOf
      <3> DEFINE t == IF c.pc = "ok" THEN "blocked" ELSE c.kind
      <3>1. toldOf' = [toldOf EXCEPT ![c.by] = t] /\ (c.pc = "error" \/ c.kind = "block") /\ c.pc \in {"ok", "error"}
        BY <1>5, <2>4 DEF CallEnds
      <3>2. t \in Tales
        BY <1>4 DEF Tales
      <3>3. TaleTrue(c.by, t)
        BY <1>4, <3>1 DEF TaleTrue, CallTrue, MeetingCalls
      <3>4. TaleTrue(c.by, t)'
        BY <1>1, <3>3 DEF TaleTrue
      <3> HIDE DEF t
      <3>5. TalesAreTrue'
        BY <1>2, <1>4, <3>1, <3>2, <3>4, TellKeeps DEF MeetingInv
      <3> QED
        BY <1>3, <2>2, <3>5 DEF MeetingInv
    <2> QED
      BY <2>3, <2>4
  <1>6. CASE GiveUp(c)
    <2>1. toldOf' = [toldOf EXCEPT ![c.by] = "offline"]
      BY <1>6 DEF GiveUp
    <2>2. TaleTrue(c.by, "offline")' /\ "offline" \in Tales
      BY DEF TaleTrue, Tales
    <2>3. TalesAreTrue'
      BY <1>2, <1>4, <2>1, <2>2, TellKeeps DEF MeetingInv
    <2>4. \A e \in mcalls' : e \in mcalls \/ e = [c EXCEPT !.heard = FALSE]
      BY <1>6 DEF GiveUp
    <2>5. CallTrue([c EXCEPT !.heard = FALSE])'
      BY <1>2, <1>4, UnheardStays
    <2>6. \A e \in mcalls : CallTrue(e)'
      BY <1>2, CallStays DEF MeetingInv, CallsAreTrue
    <2>7. CallsAreTrue'
      BY <2>4, <2>5, <2>6 DEF CallsAreTrue
    <2> QED
      BY <1>3, <2>3, <2>7 DEF MeetingInv
  <1>7. CASE ServerStops(c)
    <2>1. c.pc = "cancel" /\ CallMoves(c, "error") /\ toldOf' = toldOf
      BY <1>7 DEF ServerStops
    <2>2. c.kind = "block" /\ c.by \in blocks'
      BY <1>1, <1>4, <2>1 DEF CallTrue
    <2>3. CallsAreTrue'
      BY <1>2, <2>1, <2>2, CallServed DEF MeetingInv
    <2> QED
      BY <1>2, <1>3, <2>1, <2>3, TalesStay DEF MeetingInv
  <1> QED
    BY <1>5, <1>6, <1>7

LEMMA LooksKeep ==
    \A u \in Pair : MeetingInv /\ (\/ FetchMatch(u) \/ Revisit(u)
                                   \/ (\E a \in Alerts : OpenAlert(u, a))
                                   \/ (\E a \in Alerts \cup {"peer", "after"} : Dismiss(u, a))) => MeetingInv'
  <1> SUFFICES ASSUME NEW u \in Pair, MeetingInv,
                      \/ FetchMatch(u) \/ Revisit(u)
                      \/ (\E a \in Alerts : OpenAlert(u, a))
                      \/ (\E a \in Alerts \cup {"peer", "after"} : Dismiss(u, a))
               PROVE MeetingInv'
    OBVIOUS
  <1>1. UNCHANGED <<mStatus, confirmed, blocks>> /\ toldOf' = toldOf
    BY DEF FetchMatch, Revisit, OpenAlert, Dismiss, serverState
  <1>2. Onwards
    BY <1>1 DEF Onwards
  <1>3. TalesAreTrue'
    BY <1>1, <1>2, TalesStay DEF MeetingInv
  <1>4. CASE Revisit(u)
    <2>1. AskedIsRemembered'
      BY <1>4 DEF Revisit, MeetingInv, AskedIsRemembered
    <2>2. \A e \in mcalls' : \E c \in mcalls : e = c \/ e = [c EXCEPT !.heard = FALSE]
      BY <1>4 DEF Revisit
    <2>3. \A c \in mcalls : CallTrue(c)' /\ CallTrue([c EXCEPT !.heard = FALSE])'
      BY <1>2, CallStays, UnheardStays DEF MeetingInv, CallsAreTrue
    <2>4. CallsAreTrue'
      BY <2>2, <2>3 DEF CallsAreTrue
    <2> QED
      BY <1>3, <2>1, <2>4 DEF MeetingInv
  <1>5. CASE ~Revisit(u)
    <2>1. mcalls' = mcalls
      BY <1>5 DEF FetchMatch, OpenAlert, Dismiss
    <2>2. CallsAreTrue'
      BY <1>2, <2>1, CallsStay DEF MeetingInv
    <2>3. CASE UNCHANGED <<asks, askedOf>>
      BY <1>3, <2>2, <2>3, AskedStays DEF MeetingInv
    <2>4. CASE ~UNCHANGED <<asks, askedOf>>
      <3>1. ~askedOf[u] /\ askedOf' = [askedOf EXCEPT ![u] = TRUE] /\ asks' = [asks EXCEPT ![u] = @ + 1]
        BY <1>5, <2>4 DEF FetchMatch, OpenAlert, Dismiss, NotAskedYet
      <3>2. asks[u] = 0
        BY <3>1 DEF MeetingInv, AskedIsRemembered
      <3>3. asks' = [asks EXCEPT ![u] = 1]
        BY <3>1, <3>2
      <3>4. AskedIsRemembered'
        BY <3>1, <3>3 DEF MeetingInv, AskedIsRemembered
      <3> QED
        BY <1>3, <2>2, <3>4 DEF MeetingInv
    <2> QED
      BY <2>3, <2>4
  <1> QED
    BY <1>4, <1>5

\* A button sends a call that has come to nothing yet.
LEMMA PressKeeps ==
    \A u \in Pair, a \in Alerts \cup {"peer", "after"}, kind \in {"confirm", "unsafe", "end", "block", "report"} :
        MeetingInv /\ Press(u, a, kind) => MeetingInv'
  <1> SUFFICES ASSUME NEW u \in Pair, NEW a \in Alerts \cup {"peer", "after"},
                      NEW kind \in {"confirm", "unsafe", "end", "block", "report"},
                      MeetingInv, Press(u, a, kind)
               PROVE MeetingInv'
    OBVIOUS
  <1> DEFINE d == [by |-> u, kind |-> kind, from |-> a, pc |-> "sent", heard |-> TRUE]
  <1>1. UNCHANGED <<asks, askedOf>> /\ UNCHANGED <<mStatus, confirmed, blocks>> /\ toldOf' = toldOf
    BY DEF Press, serverState
  <1>2. Onwards
    BY <1>1 DEF Onwards
  <1>3. d \in MeetingCalls /\ d.pc = "sent"
    BY DEF MeetingCalls
  <1>4. mcalls' = mcalls \cup {d}
    BY DEF Press
  <1> HIDE DEF d
  <1>5. CallTrue(d)'
    BY <1>3 DEF CallTrue, d
  <1>6. \A c \in mcalls : CallTrue(c)'
    BY <1>2, CallStays DEF MeetingInv, CallsAreTrue
  <1>7. CallsAreTrue'
    BY <1>4, <1>5, <1>6 DEF CallsAreTrue
  <1> QED
    BY <1>1, <1>2, <1>7, TalesStay, AskedStays DEF MeetingInv

LEMMA MeetingKept == MeetingInv /\ [MatchNext]_matchVars => MeetingInv'
  <1> SUFFICES ASSUME MeetingInv, [MatchNext]_matchVars PROVE MeetingInv'
    OBVIOUS
  <1>1. CASE AutoFinalize \/ UNCHANGED matchVars
    <2>1. UNCHANGED <<asks, askedOf>> /\ toldOf' = toldOf /\ mcalls' = mcalls
      BY <1>1 DEF AutoFinalize, matchVars, screenState
    <2>2. Onwards
      BY <1>1 DEF AutoFinalize, matchVars, serverState, Onwards
    <2> QED
      BY <2>1, <2>2, TalesStay, AskedStays, CallsStay DEF MeetingInv
  <1>2. CASE \E c \in mcalls : ServeStep(c) \/ CallEnds(c) \/ GiveUp(c) \/ ServerStops(c)
    BY <1>2, ServeKeeps, EndsKeep
  <1>3. ASSUME NEW u \in Pair,
               \/ FetchMatch(u) \/ Revisit(u)
               \/ \E a \in Alerts : OpenAlert(u, a)
               \/ \E a \in Alerts \cup {"peer", "after"} :
                     Dismiss(u, a) \/ \E kind \in {"confirm", "unsafe", "end", "block", "report"} : Press(u, a, kind)
        PROVE  MeetingInv'
    BY <1>3, LooksKeep, PressKeeps
  <1> QED
    BY <1>1, <1>2, <1>3 DEF MatchNext

LEMMA MeetingStarts == MatchInit => MeetingInv
  <1> SUFFICES ASSUME MatchInit PROVE MeetingInv
    OBVIOUS
  <1>1. AskedIsRemembered
    BY DEF MatchInit, AskedIsRemembered
  <1>2. CallsAreTrue
    BY DEF MatchInit, CallsAreTrue
  <1>3. TalesAreTrue
    BY DEF MatchInit, TalesAreTrue, TaleTrue, Tales
  <1> QED
    BY <1>1, <1>2, <1>3 DEF MeetingInv

\* MatchScreenHolds: one question a visit, a refusal of "Confirm" told only to somebody whose
\* confirmation does not count, and a block that holds whatever its cancel met (app/match/[id].tsx).
THEOREM MatchScreenTellsTheTruth == MatchSpec => []MatchScreenHolds
  <1>1. MeetingInv => MatchScreenHolds
    <2> SUFFICES ASSUME MeetingInv PROVE MatchScreenHolds
      OBVIOUS
    <2>1. AskedOncePerVisit
      BY DEF MeetingInv, AskedIsRemembered, AskedOncePerVisit
    <2>2. ConfirmRefusedMeansUncounted /\ BlockHolds
      BY DEF MeetingInv, TalesAreTrue, TaleTrue, ConfirmRefusedMeansUncounted, BlockHolds
    <2> QED
      BY <2>1, <2>2 DEF MatchScreenHolds
  <1> QED
    BY <1>1, MeetingStarts, MeetingKept, PTL DEF MatchSpec

-----------------------------------------------------------------------------
(* Signing in *)

Holders == Addresses \cup {NoAccount}
AuthCalls(n) ==
    [no : {n}, kind : {"start", "verify", "save", "login", "forgot", "reset"}, address : Holders,
     next : Steps \cup {"home"}, answer : {"waiting", "ok", "error", "taken"}, mine : BOOLEAN]

\* Where a call leads follows from its kind, and its success from what the server stored.
CallOK(c) ==
    /\ c \in AuthCalls(c.no)
    /\ c.kind # "save" => c.address \in Addresses
    /\ c.next = "credentials" => c.kind = "verify"
    /\ c.next = "home" <=> c.kind \in {"save", "login"}
    /\ c.answer = "ok" /\ c.kind = "verify" => account[c.address] # "none"
    /\ c.answer = "ok" /\ c.kind \in {"save", "login"} => c.address \in Addresses /\ account[c.address] = "complete"

\* Calls of the screen that is there run beside each other only once a code was asked for
\* again; a save is for the account signed in to, unless another sign-in replaced that one.
Alone(c, d) == (c.mine /\ d.mine /\ c # d) => resending
OwnCall(c) ==
    c.mine => /\ screen = "auth"
              /\ c.kind = "save" => c.address = heldToken \/ heldToken \in cutShort \cup beside
              /\ step = "credentials" => c.kind = "save" \/ resending
CallsInv == \A c \in calls : CallOK(c) /\ OwnCall(c) /\ \A d \in calls : Alone(c, d)
BusyTells == (screen = "auth" /\ ~resending) => (busy <=> \E c \in calls : c.mine)

Named ==
    (screen = "home" /\ heldToken # NoAccount) =>
        (heldToken \in Addresses /\ account[heldToken] = "complete") \/ heldToken \in cutShort \cup beside
OwnAccount ==
    Shows("credentials") =>
        /\ freshToken \in Addresses /\ account[freshToken] # "none"
        /\ freshToken = heldToken \/ (overtaken /\ heldToken \in cutShort)
SignedOutHolds == screen = "landing" => heldToken = NoAccount
SignTypes ==
    /\ account \in [Addresses -> {"none", "bare", "complete"}] /\ address \in Addresses
    /\ heldToken \in Holders /\ freshToken \in Holders
    /\ screen \in {"landing", "auth", "home"} /\ step \in Steps
    /\ overtaken \in BOOLEAN /\ resending \in BOOLEAN /\ busy \in BOOLEAN
SignInv == SignTypes /\ Named /\ OwnAccount /\ SignedOutHolds /\ CallsInv /\ BusyTells

\* An account is only ever more complete.
Grows ==
    /\ account' \in [Addresses -> {"none", "bare", "complete"}]
    /\ \A a \in Addresses : /\ account[a] # "none" => account'[a] # "none"
                            /\ account[a] = "complete" => account'[a] = "complete"
LEMMA CallOKStays == ASSUME NEW c, CallOK(c), Grows PROVE CallOK(c)'
  BY DEF CallOK, Grows

\* A call whose screen is gone.
LEMMA Abandoned ==
    ASSUME NEW c, CallOK(c), Grows
    PROVE  CallOK([c EXCEPT !.mine = FALSE])' /\ [c EXCEPT !.mine = FALSE].mine = FALSE
  <1> DEFINE d == [c EXCEPT !.mine = FALSE]
  <1>1. c \in AuthCalls(c.no)
    BY DEF CallOK
  <1>2. d \in AuthCalls(c.no) /\ d.no = c.no /\ d.mine = FALSE /\ d.kind = c.kind /\ d.address = c.address
        /\ d.next = c.next /\ d.answer = c.answer
    BY <1>1 DEF AuthCalls
  <1> HIDE DEF d
  <1>3. CallOK(c)'
    BY CallOKStays
  <1>4. CallOK(d)'
    BY <1>2, <1>3 DEF CallOK
  <1> QED
    BY <1>2, <1>4 DEF d

LEMMA AbandonKeeps ==
    ASSUME NEW cs, \A c \in cs : CallOK(c), Grows, calls' = Abandon(cs)
    PROVE  CallsInv'
  <1>1. \A d \in calls' : CallOK(d)' /\ d.mine = FALSE
    BY Abandoned DEF Abandon
  <1> QED
    BY <1>1 DEF CallsInv, OwnCall, Alone

\* Calls that end, or stay, while the screen is the same.
LEMMA FewerCalls ==
    ASSUME CallsInv, Grows, calls' \subseteq calls, resending' = resending,
           \A c \in calls' : c.mine => OwnCall(c)'
    PROVE  CallsInv'
  <1>1. \A c \in calls' : CallOK(c)'
    BY CallOKStays DEF CallsInv
  <1>2. \A c \in calls' : OwnCall(c)'
    BY DEF OwnCall
  <1>3. \A c, d \in calls' : Alone(c, d)'
    BY DEF CallsInv, Alone
  <1> QED
    BY <1>1, <1>2, <1>3 DEF CallsInv

\* A screen that opens finds no call of its own.
LEMMA NoneIsMine ==
    ASSUME SignInv, screen # "auth", Grows, calls' = calls
    PROVE  CallsInv' /\ \A c \in calls : ~c.mine
  <1>1. \A c \in calls : ~c.mine /\ CallOK(c)
    BY DEF SignInv, CallsInv, OwnCall
  <1>2. \A c \in calls : CallOK(c)'
    BY <1>1, CallOKStays
  <1> QED
    BY <1>1, <1>2 DEF CallsInv, OwnCall, Alone

LEMMA MovesKeep ==
    SignInv /\ (\/ (\E mode \in {"email", "login"} : OpenAuth(mode)) \/ SignOutHome \/ ResendAgain
                \/ (\E a \in Addresses : TypeAddress(a)) \/ (\E s \in Steps : GoStep(s))) => SignInv'
  <1> SUFFICES ASSUME SignInv,
                      \/ (\E mode \in {"email", "login"} : OpenAuth(mode)) \/ SignOutHome \/ ResendAgain
                      \/ (\E a \in Addresses : TypeAddress(a)) \/ (\E s \in Steps : GoStep(s))
               PROVE SignInv'
    OBVIOUS
  <1>1. UNCHANGED <<calls, account, cutShort, beside, overtaken>>
    BY DEF OpenAuth, SignOutHome, ResendAgain, TypeAddress, GoStep, record
  <1>2. Grows
    BY <1>1 DEF Grows, SignInv, SignTypes
  <1>3. SignTypes'
    <2>1. /\ heldToken' \in Holders /\ freshToken' \in Holders /\ address' \in Addresses
          /\ busy' \in BOOLEAN /\ resending' \in BOOLEAN
      BY DEF OpenAuth, SignOutHome, ResendAgain, TypeAddress, GoStep, SignInv, SignTypes, Holders, authScreen, flags
    <2>2. screen' \in {"landing", "auth", "home"} /\ step' \in Steps
      BY DEF OpenAuth, SignOutHome, ResendAgain, TypeAddress, GoStep, SignInv, SignTypes, authScreen, Steps
    <2> QED
      BY <1>1, <2>1, <2>2 DEF SignInv, SignTypes
  <1>4. CASE \E mode \in {"email", "login"} : OpenAuth(mode)
    <2>1. screen = "landing" /\ screen' = "auth" /\ step' # "credentials" /\ busy' = FALSE /\ heldToken' = heldToken
      BY <1>4 DEF OpenAuth
    <2>2. CallsInv' /\ \A c \in calls : ~c.mine
      BY <1>1, <1>2, <2>1, NoneIsMine
    <2> QED
      BY <1>1, <1>3, <2>1, <2>2 DEF SignInv, Named, OwnAccount, SignedOutHolds, BusyTells, Shows
  <1>5. CASE SignOutHome
    <2>1. screen = "home" /\ screen' = "landing" /\ heldToken' = NoAccount
      BY <1>5 DEF SignOutHome
    <2>2. CallsInv'
      BY <1>1, <1>2, <2>1, NoneIsMine
    <2> QED
      BY <1>3, <2>1, <2>2 DEF SignInv, Named, OwnAccount, SignedOutHolds, BusyTells, Shows
  <1>6. CASE ResendAgain \/ \E a \in Addresses : TypeAddress(a)
    <2>1. UNCHANGED <<screen, step, freshToken, heldToken, busy, resending>>
      BY <1>6 DEF TypeAddress, ResendAgain, authScreen, flags
    <2>2. \A c \in calls : OwnCall(c)'
      BY <1>1, <2>1 DEF SignInv, CallsInv, OwnCall
    <2>3. CallsInv'
      BY <1>1, <1>2, <2>1, <2>2, FewerCalls DEF SignInv
    <2> QED
      BY <1>1, <1>3, <2>1, <2>3 DEF SignInv, Named, OwnAccount, SignedOutHolds, BusyTells, Shows
  <1>7. CASE \E s \in Steps : GoStep(s)
    <2>1. UNCHANGED <<screen, freshToken, heldToken, busy, resending>> /\ screen = "auth"
      BY <1>7 DEF GoStep, flags
    <2>2. step' # "credentials"
      <3>1. PICK s \in Steps : GoStep(s)
        BY <1>7
      <3>2. CASE HasBack(step)
        BY <3>1, <3>2 DEF GoStep, HasBack, BackTo
      <3>3. CASE ~HasBack(step)
        BY <3>1, <3>3 DEF GoStep
      <3> QED
        BY <3>2, <3>3
    <2>3. \A c \in calls : OwnCall(c)'
      BY <1>1, <2>1, <2>2 DEF SignInv, CallsInv, OwnCall
    <2>4. CallsInv'
      BY <1>1, <1>2, <2>1, <2>3, FewerCalls DEF SignInv
    <2> QED
      BY <1>1, <1>3, <2>1, <2>2, <2>4 DEF SignInv, Named, OwnAccount, SignedOutHolds, BusyTells, Shows
  <1> QED
    BY <1>4, <1>5, <1>6, <1>7

\* Whoever leaves with a token has cut the setup short.
LEMMA LeavingKeeps == SignInv /\ (LeaveAuth \/ KillAuth) => SignInv'
  <1> SUFFICES ASSUME SignInv, LeaveAuth \/ KillAuth PROVE SignInv'
    OBVIOUS
  <1>1. UNCHANGED <<account, resending, overtaken, beside, heldToken, address, step, busy>>
    BY DEF LeaveAuth, KillAuth, flags
  <1>2. Grows
    BY <1>1 DEF Grows, SignInv, SignTypes
  <1>3. SignTypes'
    BY <1>1 DEF LeaveAuth, KillAuth, SignInv, SignTypes, Holders
  <1>4. /\ screen' # "auth" /\ (screen' = "home" => heldToken' \in cutShort')
        /\ screen' = "landing" => heldToken' = NoAccount
    BY <1>1 DEF LeaveAuth, KillAuth
  <1>5. CallsInv'
    <2>1. CASE LeaveAuth
      BY <1>2, <2>1, AbandonKeeps DEF LeaveAuth, SignInv, CallsInv
    <2>2. CASE KillAuth
      BY <2>2 DEF KillAuth, CallsInv
    <2> QED
      BY <2>1, <2>2
  <1> QED
    BY <1>3, <1>4, <1>5 DEF SignInv, Named, OwnAccount, SignedOutHolds, BusyTells, Shows

\* A button that starts a call: alone, or as a resend beside the call under way.
LEMMA CallKeeps ==
    ASSUME SignInv, NEW k \in {"start", "verify", "save", "login", "forgot", "reset"}, NEW next \in Steps \cup {"home"},
           screen = "auth", Call(k, next),
           next = "credentials" => k = "verify",
           next = "home" <=> k \in {"save", "login"},
           k = "save" <=> step = "credentials",
           (resending' = resending /\ ~busy) \/ resending' = (resending \/ busy)
    PROVE  SignInv'
  <1>1. UNCHANGED <<screen, step, address, freshToken, heldToken, account, cutShort, beside, overtaken>> /\ busy' = TRUE
    BY DEF Call, authScreen, record
  <1>2. Grows
    BY <1>1 DEF Grows, SignInv, SignTypes
  <1>3. resending' \in BOOLEAN /\ (resending => resending') /\ ((\E c \in calls : c.mine) => resending')
    BY DEF SignInv, SignTypes, BusyTells
  <1>4. SignTypes'
    BY <1>1, <1>3 DEF SignInv, SignTypes, Holders
  <1>5. PICK n :
            /\ n \in AuthCalls(n.no) /\ calls' = calls \cup {n}
            /\ n.kind = k /\ n.next = next /\ n.answer = "waiting" /\ n.mine = TRUE
            /\ n.address = IF k = "save" THEN freshToken ELSE address
    <2> DEFINE m == NewCall(k, next, Waiting)
    <2>1. /\ m \in AuthCalls(m.no) /\ m.kind = k /\ m.next = next /\ m.answer = "waiting" /\ m.mine = TRUE
          /\ m.address = IF k = "save" THEN freshToken ELSE address
      BY DEF NewCall, Waiting, AuthCalls, SignInv, SignTypes, Holders
    <2>2. calls' = calls \cup {m}
      BY DEF Call
    <2> HIDE DEF m
    <2> QED
      BY <2>1, <2>2
  <1>7. CallOK(n)'
    <2>1. n.kind # "save" => n.address \in Addresses
      BY <1>5 DEF SignInv, SignTypes
    <2> QED
      BY <1>5, <2>1 DEF CallOK
  <1>8. OwnCall(n)'
    <2>1. step = "credentials" => freshToken = heldToken \/ heldToken \in cutShort
      BY DEF SignInv, OwnAccount, Shows
    <2> QED
      BY <1>1, <1>5, <2>1 DEF OwnCall
  <1>9. \A c \in calls : CallOK(c)' /\ OwnCall(c)'
    <2>1. \A c \in calls : CallOK(c)'
      BY <1>2, CallOKStays DEF SignInv, CallsInv
    <2>2. \A c \in calls : OwnCall(c)'
      BY <1>1, <1>3 DEF SignInv, CallsInv, OwnCall
    <2> QED
      BY <2>1, <2>2
  <1>10. \A c, d \in calls' : Alone(c, d)'
    <2> SUFFICES ASSUME NEW c \in calls', NEW d \in calls', c.mine, d.mine, c # d PROVE resending'
      BY DEF Alone
    <2>1. c \in calls \/ d \in calls
      BY <1>5
    <2> QED
      BY <1>3, <2>1
  <1>11. CallsInv'
    BY <1>5, <1>7, <1>8, <1>9, <1>10 DEF CallsInv
  <1>12. BusyTells'
    BY <1>1, <1>5 DEF BusyTells
  <1> QED
    BY <1>1, <1>4, <1>11, <1>12 DEF SignInv, Named, OwnAccount, SignedOutHolds, Shows

LEMMA PressesKeep ==
    SignInv /\ (\/ SendCode \/ Resend \/ VerifyCode \/ SaveCredentials \/ Login
                \/ ForgotUsername \/ ResetPassword) => SignInv'
  <1> SUFFICES ASSUME SignInv
               PROVE  (\/ SendCode \/ Resend \/ VerifyCode \/ SaveCredentials \/ Login
                       \/ ForgotUsername \/ ResetPassword) => SignInv'
    OBVIOUS
  <1>1. SendCode => SignInv'
    <2>1. CASE step = "email"
      BY <2>1, CallKeeps DEF SendCode, Steps
    <2>2. CASE step # "email"
      BY <2>2, CallKeeps DEF SendCode, Steps
    <2> QED
      BY <2>1, <2>2
  <1>2. Resend => SignInv'
    BY CallKeeps DEF Resend, Shows, Steps
  <1>3. VerifyCode => SignInv'
    BY CallKeeps DEF VerifyCode, Shows, Steps
  <1>4. SaveCredentials => SignInv'
    BY CallKeeps DEF SaveCredentials, Shows, Steps
  <1>5. Login => SignInv'
    BY CallKeeps DEF Login, Shows, Steps
  <1>6. ForgotUsername => SignInv'
    BY CallKeeps DEF ForgotUsername, Shows, Steps
  <1>7. ResetPassword => SignInv'
    BY CallKeeps DEF ResetPassword, Shows, Steps
  <1> QED
    BY <1>1, <1>2, <1>3, <1>4, <1>5, <1>6, <1>7

\* A call gets its answer: the others stay, and it stays the screen's that made it.
LEMMA AnswerKeeps ==
    ASSUME SignInv, Grows, NEW c \in calls, NEW r \in {"ok", "error", "taken"},
           calls' = (calls \ {c}) \cup {[c EXCEPT !.answer = r]},
           r = "ok" /\ c.kind = "verify" => account'[c.address] # "none",
           r = "ok" /\ c.kind \in {"save", "login"} => c.address \in Addresses /\ account'[c.address] = "complete",
           UNCHANGED <<screen, step, address, freshToken, heldToken, cutShort, beside, overtaken, resending, busy>>
    PROVE  SignInv'
  <1> DEFINE n == [c EXCEPT !.answer = r]
  <1>1. c \in AuthCalls(c.no) /\ CallOK(c) /\ OwnCall(c)
    BY DEF SignInv, CallsInv, CallOK
  <1>2. n \in AuthCalls(n.no) /\ n.kind = c.kind /\ n.address = c.address /\ n.next = c.next /\ n.mine = c.mine /\ n.answer = r
    BY <1>1 DEF AuthCalls
  <1>3. calls' = (calls \ {c}) \cup {n}
    OBVIOUS
  <1> HIDE DEF n
  <1>4. CallOK(n)'
    BY <1>1, <1>2 DEF CallOK
  <1>5. OwnCall(n)'
    BY <1>1, <1>2 DEF OwnCall
  <1>6. \A d \in calls : CallOK(d)'
    BY CallOKStays DEF SignInv, CallsInv
  <1>7. \A d \in calls : OwnCall(d)'
    BY DEF SignInv, CallsInv, OwnCall
  <1>8. \A d, e \in calls : Alone(d, e)'
    BY DEF SignInv, CallsInv, Alone
  <1>9. \A d \in calls \ {c} : Alone(d, n)' /\ Alone(n, d)'
    <2> TAKE d \in calls \ {c}
    <2>1. Alone(d, c)' /\ Alone(c, d)' /\ c # d
      BY <1>8
    <2> QED
      BY <1>2, <2>1 DEF Alone
  <1>10. Alone(n, n)'
    BY DEF Alone
  <1>11. CallsInv'
    BY <1>3, <1>4, <1>5, <1>6, <1>7, <1>8, <1>9, <1>10 DEF CallsInv
  <1>12. SignTypes'
    BY DEF Grows, SignInv, SignTypes, Holders
  <1>13. Named' /\ OwnAccount'
    BY DEF SignInv, SignTypes, Holders, Named, OwnAccount, Shows, Grows
  <1>14. (\E d \in calls' : d.mine) <=> \E d \in calls : d.mine
    BY <1>2, <1>3
  <1>15. BusyTells' /\ SignedOutHolds'
    BY <1>14 DEF SignInv, BusyTells, SignedOutHolds
  <1> QED
    BY <1>11, <1>12, <1>13, <1>15 DEF SignInv

LEMMA ServedKeeps == \A c \in calls : SignInv /\ (Serve(c) \/ LoseAnswer(c)) => SignInv'
  <1> SUFFICES ASSUME NEW c \in calls, SignInv, Serve(c) \/ LoseAnswer(c) PROVE SignInv'
    OBVIOUS
  <1>1. UNCHANGED <<screen, step, address, freshToken, heldToken, cutShort, beside, overtaken, resending, busy>>
    BY DEF Serve, LoseAnswer, authScreen, flags, record
  <1>2. account \in [Addresses -> {"none", "bare", "complete"}] /\ CallOK(c) /\ c \in AuthCalls(c.no)
    BY DEF SignInv, SignTypes, CallsInv, CallOK
  <1> DEFINE answered(r) == calls' = (calls \ {c}) \cup {[c EXCEPT !.answer = r]}
  <1>3. CASE (answered("error") \/ answered("taken")) /\ account' = account
    <2>1. Grows
      BY <1>2, <1>3 DEF Grows
    <2>2. CASE answered("error")
      BY <1>1, <2>1, <2>2, AnswerKeeps
    <2>3. CASE answered("taken")
      BY <1>1, <2>1, <2>3, AnswerKeeps
    <2> QED
      BY <1>3, <2>2, <2>3
  <1>4. CASE answered("ok") /\ account' = account /\ c.kind \in {"start", "forgot", "reset"}
    <2>1. Grows
      BY <1>2, <1>4 DEF Grows
    <2> QED
      BY <1>1, <1>4, <2>1, AnswerKeeps
  <1>5. CASE answered("ok") /\ c.kind = "login" /\ account' = account /\ account[c.address] = "complete"
    <2>1. Grows
      BY <1>2, <1>5 DEF Grows
    <2>2. c.address \in Addresses
      BY <1>2, <1>5 DEF CallOK
    <2> QED
      BY <1>1, <1>5, <2>1, <2>2, AnswerKeeps
  <1>6. CASE /\ answered("ok") /\ c.kind = "verify"
             /\ account' = [account EXCEPT ![c.address] = IF @ = "none" THEN "bare" ELSE @]
    <2>1. c.address \in Addresses
      BY <1>2, <1>6 DEF CallOK
    <2>2. Grows /\ account'[c.address] # "none"
      BY <1>2, <1>6, <2>1 DEF Grows
    <2> QED
      BY <1>1, <1>6, <2>2, AnswerKeeps
  <1>7. CASE /\ answered("ok") /\ c.kind = "save" /\ c.address # NoAccount
             /\ account' = [account EXCEPT ![c.address] = "complete"]
    <2>1. c.address \in Addresses
      BY <1>2, <1>7 DEF AuthCalls, Holders
    <2>2. Grows /\ account'[c.address] = "complete"
      BY <1>2, <1>7, <2>1 DEF Grows
    <2> QED
      BY <1>1, <1>7, <2>1, <2>2, AnswerKeeps
  <1>8. CASE LoseAnswer(c)
    BY <1>3, <1>8 DEF LoseAnswer
  <1>9. CASE Serve(c)
    <2>1. c.kind \in {"start", "verify", "save", "login", "forgot", "reset"}
      BY <1>2 DEF AuthCalls
    <2>2. CASE c.kind = "start"
      BY <1>3, <1>4, <1>9, <2>2 DEF Serve
    <2>3. CASE c.kind = "verify"
      BY <1>3, <1>6, <1>9, <2>3 DEF Serve
    <2>4. CASE c.kind = "save"
      BY <1>3, <1>7, <1>9, <2>4 DEF Serve
    <2>5. CASE c.kind = "login"
      BY <1>3, <1>5, <1>9, <2>5 DEF Serve
    <2>6. CASE c.kind = "forgot"
      BY <1>4, <1>9, <2>6 DEF Serve
    <2>7. CASE c.kind = "reset"
      BY <1>3, <1>4, <1>9, <2>7 DEF Serve
    <2> QED
      BY <2>1, <2>2, <2>3, <2>4, <2>5, <2>6, <2>7
  <1> QED
    BY <1>8, <1>9

\* What is left of the screen's calls when one was answered: nothing, until it asked for a
\* code again.
LEMMA RestIsResent ==
    ASSUME CallsInv, NEW c \in calls, c.mine, NEW d \in calls \ {c}, d.mine
    PROVE  resending
  BY DEF CallsInv, Alone

LEMMA AnsweredKeeps == \A c \in calls : SignInv /\ Answered(c) => SignInv'
  <1> SUFFICES ASSUME NEW c \in calls, SignInv, Answered(c) PROVE SignInv'
    OBVIOUS
  <1>1. UNCHANGED <<address, account, resending, cutShort, overtaken>> /\ busy' = FALSE
    BY DEF Answered
  <1>2. Grows
    BY <1>1 DEF Grows, SignInv, SignTypes
  <1>3. c.mine /\ CallOK(c) /\ OwnCall(c) /\ c \in AuthCalls(c.no)
    BY DEF Answered, SignInv, CallsInv, CallOK
  <1>4. screen = "auth"
    BY <1>3 DEF OwnCall
  <1>5. ASSUME screen' = "auth" PROVE calls' = calls \ {c} /\ BusyTells'
    <2>1. calls' = calls \ {c}
      BY <1>5 DEF Answered, StillThere
    <2>2. \A d \in calls' : d.mine => resending
      BY <1>3, <2>1, RestIsResent DEF SignInv
    <2> QED
      BY <1>1, <2>1, <2>2 DEF BusyTells
  <1>6. ASSUME c.answer # "ok" PROVE SignInv'
    <2>1. UNCHANGED <<heldToken, freshToken, step, screen, beside>>
      BY <1>6 DEF Answered, SignsIn
    <2>2. calls' = calls \ {c} /\ BusyTells'
      BY <1>4, <1>5, <2>1
    <2>3. \A d \in calls' : OwnCall(d)'
      BY <1>1, <2>1, <2>2 DEF SignInv, CallsInv, OwnCall
    <2>4. CallsInv'
      BY <1>1, <1>2, <2>2, <2>3, FewerCalls DEF SignInv
    <2> QED
      BY <1>1, <2>1, <2>2, <2>4 DEF SignInv, SignTypes, Named, OwnAccount, SignedOutHolds, Shows
  <1>7. ASSUME c.answer = "ok", c.kind \in {"save", "login"} PROVE SignInv'
    <2>1. screen' = "home" /\ freshToken' = freshToken /\ step' = step
      BY <1>3, <1>7 DEF Answered, NextStep, CallOK, FreshAfter
    <2>2. heldToken' = (IF c.kind = "login" THEN c.address ELSE heldToken) /\ beside \subseteq beside'
      BY <1>7 DEF Answered, SignsIn
    <2>3. c.address \in Addresses /\ account[c.address] = "complete"
      BY <1>3, <1>7 DEF CallOK
    <2>4. calls' = Abandon(calls \ {c})
      BY <2>1 DEF Answered, StillThere
    <2>5. CallsInv'
      BY <1>2, <2>4, AbandonKeeps DEF SignInv, CallsInv
    <2>6. SignTypes'
      BY <1>1, <2>1, <2>2, <2>3 DEF SignInv, SignTypes, Holders
    <2>7. (heldToken' \in Addresses /\ account'[heldToken'] = "complete") \/ heldToken' \in cutShort' \cup beside'
      <3>1. CASE c.kind = "login"
        BY <1>1, <2>2, <2>3, <3>1
      <3>2. CASE c.kind = "save"
        <4>1. c.address = heldToken \/ heldToken \in cutShort \cup beside
          BY <1>3, <3>2 DEF OwnCall
        <4>2. heldToken' = heldToken
          BY <2>2, <3>2
        <4> QED
          BY <1>1, <2>2, <2>3, <4>1, <4>2
      <3> QED
        BY <1>7, <3>1, <3>2
    <2> QED
      BY <2>1, <2>5, <2>6, <2>7 DEF SignInv, Named, OwnAccount, SignedOutHolds, BusyTells, Shows
  <1>8. ASSUME c.answer = "ok", c.kind = "verify" PROVE SignInv'
    <2>1. heldToken' = c.address /\ freshToken' = c.address
      BY <1>8 DEF Answered, SignsIn, FreshAfter
    <2>2. c.address \in Addresses /\ account[c.address] # "none"
      BY <1>3, <1>8 DEF CallOK
    <2>3. screen' = screen /\ step' \in Steps
      <3>1. c.next \in Steps \cup {"home"} /\ c.next # "home"
        BY <1>3, <1>8 DEF CallOK, AuthCalls
      <3> QED
        BY <1>8, <3>1 DEF Answered, NextStep
    <2>4. calls' = calls \ {c} /\ BusyTells'
      BY <1>4, <1>5, <2>3
    <2>5. \A d \in calls' : d.mine => resending
      BY <1>3, <2>4, RestIsResent DEF SignInv
    <2>6. \A d \in calls' : d.mine /\ d.kind = "save" => heldToken' \in beside'
      <3> SUFFICES ASSUME NEW d \in calls', d.mine, d.kind = "save" PROVE heldToken' \in beside'
        OBVIOUS
      <3>1. Saving
        BY <2>4 DEF Saving
      <3> QED
        BY <1>8, <2>1, <3>1 DEF Answered, SignsIn
    <2>7. \A d \in calls' : d.mine => OwnCall(d)'
      BY <1>1, <1>4, <2>3, <2>5, <2>6 DEF OwnCall
    <2>8. CallsInv'
      BY <1>1, <1>2, <2>4, <2>7, FewerCalls DEF SignInv
    <2>9. SignTypes'
      BY <1>1, <2>1, <2>2, <2>3 DEF SignInv, SignTypes, Holders
    <2>10. Named' /\ OwnAccount' /\ SignedOutHolds'
      BY <1>1, <1>4, <2>1, <2>2, <2>3 DEF Named, OwnAccount, SignedOutHolds, Shows
    <2> QED
      BY <2>4, <2>8, <2>9, <2>10 DEF SignInv
  <1>9. ASSUME c.answer = "ok", c.kind \in {"start", "forgot", "reset"} PROVE SignInv'
    <2>1. heldToken' = heldToken /\ freshToken' = freshToken /\ beside' = beside
      BY <1>9 DEF Answered, SignsIn, FreshAfter
    <2>2. screen' = screen /\ step' = c.next /\ step' # "credentials" /\ step' \in Steps
      <3>1. c.next \in Steps \cup {"home"} /\ c.next # "home" /\ c.next # "credentials"
        BY <1>3, <1>9 DEF CallOK, AuthCalls
      <3> QED
        BY <1>9, <3>1 DEF Answered, NextStep
    <2>3. calls' = calls \ {c} /\ BusyTells'
      BY <1>4, <1>5, <2>2
    <2>4. \A d \in calls' : OwnCall(d)'
      BY <1>1, <2>1, <2>2, <2>3 DEF SignInv, CallsInv, OwnCall
    <2>5. CallsInv'
      BY <1>1, <1>2, <2>3, <2>4, FewerCalls DEF SignInv
    <2> QED
      BY <1>1, <1>4, <2>1, <2>2, <2>3, <2>5 DEF SignInv, SignTypes, Named, OwnAccount, SignedOutHolds, Shows
  <1>10. c.kind \in {"start", "verify", "save", "login", "forgot", "reset"}
    BY <1>3 DEF AuthCalls
  <1> QED
    BY <1>6, <1>7, <1>8, <1>9, <1>10

\* An answer to a screen left before: a login brings home a complete account, a code one whose
\* setup this cuts short, and credentials saved take home whoever is signed in by then.
LEMMA LateKeeps == \A c \in calls : SignInv /\ AnsweredLate(c) => SignInv'
  <1> SUFFICES ASSUME NEW c \in calls, SignInv, AnsweredLate(c) PROVE SignInv'
    OBVIOUS
  <1>1. UNCHANGED <<address, account, resending, step, freshToken, beside, busy>>
    BY DEF AnsweredLate, flags
  <1>2. Grows
    BY <1>1 DEF Grows, SignInv, SignTypes
  <1>3. CallOK(c) /\ ~c.mine
    BY DEF AnsweredLate, SignInv, CallsInv
  <1>4. /\ calls' = (IF screen' = "auth" THEN calls \ {c} ELSE Abandon(calls \ {c}))
        /\ cutShort \subseteq cutShort' /\ (overtaken => overtaken')
        /\ heldToken' = (IF SignsIn(c) THEN c.address ELSE heldToken)
        /\ SignsIn(c) => overtaken'
        /\ screen' = "auth" => screen = "auth" /\ ~GoesHome(c)
        /\ screen' \in {screen, "home"}
    <2>1. overtaken' \in BOOLEAN /\ (overtaken' <=> overtaken \/ SignsIn(c))
      BY DEF AnsweredLate, SignsIn, SignInv, SignTypes
    <2> QED
      BY <2>1 DEF AnsweredLate, StillThere
  <1>5. SignsIn(c) => /\ c.address \in Addresses /\ c.kind \in {"verify", "login"} /\ c.answer = "ok"
                      /\ c.kind = "verify" => c.address \in cutShort'
                      /\ c.kind = "login" => GoesHome(c) /\ account[c.address] = "complete"
    BY <1>3 DEF SignsIn, CallOK, GoesHome, AnsweredLate
  <1>6. SignTypes'
    <2>1. heldToken' \in Holders
      BY <1>4, <1>5 DEF SignInv, SignTypes, Holders
    <2>2. overtaken' \in BOOLEAN
      BY DEF AnsweredLate, SignsIn, SignInv, SignTypes
    <2> QED
      BY <1>1, <1>4, <2>1, <2>2 DEF SignInv, SignTypes
  <1>7. ASSUME screen' = "auth" PROVE CallsInv' /\ BusyTells' /\ OwnAccount'
    <2>1. calls' = calls \ {c} /\ screen = "auth" /\ (SignsIn(c) => heldToken' \in cutShort')
      BY <1>4, <1>5, <1>7
    <2>2. \A d \in calls' : OwnCall(d)'
      BY <1>1, <1>4, <1>7, <2>1 DEF SignInv, CallsInv, OwnCall
    <2>3. CallsInv'
      BY <1>1, <1>2, <2>1, <2>2, FewerCalls DEF SignInv
    <2>4. BusyTells'
      BY <1>1, <1>3, <2>1 DEF SignInv, BusyTells
    <2>5. OwnAccount'
      BY <1>1, <1>4, <2>1 DEF SignInv, OwnAccount, Shows
    <2> QED
      BY <2>3, <2>4, <2>5
  <1>8. ASSUME screen' # "auth" PROVE CallsInv' /\ BusyTells' /\ OwnAccount'
    <2>1. CallsInv'
      BY <1>2, <1>4, <1>8, AbandonKeeps DEF SignInv, CallsInv
    <2> QED
      BY <1>8, <2>1 DEF BusyTells, OwnAccount, Shows
  <1>9. Named'
    <2> SUFFICES ASSUME screen' = "home", heldToken' # NoAccount
                 PROVE  (heldToken' \in Addresses /\ account'[heldToken'] = "complete") \/ heldToken' \in cutShort' \cup beside'
      BY DEF Named
    <2>1. CASE SignsIn(c)
      BY <1>1, <1>4, <1>5, <2>1
    <2>2. CASE ~SignsIn(c) /\ GoesHome(c)
      <3>1. c.kind = "save"
        BY <2>2 DEF SignsIn, GoesHome
      <3> QED
        BY <1>4, <2>2, <3>1 DEF AnsweredLate
    <2>3. CASE ~SignsIn(c) /\ ~GoesHome(c)
      <3>1. screen = "home" /\ heldToken' = heldToken
        BY <1>4, <2>3 DEF AnsweredLate
      <3> QED
        BY <1>1, <1>4, <3>1 DEF SignInv, Named
    <2> QED
      BY <2>1, <2>2, <2>3
  <1>10. SignedOutHolds'
    <2> SUFFICES ASSUME screen' = "landing" PROVE heldToken' = NoAccount
      BY DEF SignedOutHolds
    <2>1. ~SignsIn(c) /\ screen = "landing"
      BY DEF AnsweredLate
    <2> QED
      BY <1>4, <2>1 DEF SignInv, SignedOutHolds
  <1> QED
    BY <1>6, <1>7, <1>8, <1>9, <1>10 DEF SignInv

LEMMA SigningKept == SignInv /\ [SignUpNext]_signUpVars => SignInv'
  <1> SUFFICES ASSUME SignInv, [SignUpNext]_signUpVars PROVE SignInv'
    OBVIOUS
  <1>1. CASE UNCHANGED signUpVars
    <2>1. UNCHANGED <<screen, step, address, freshToken, busy, calls, heldToken, account, resending, cutShort, beside, overtaken>>
      BY <1>1 DEF signUpVars, authScreen, flags, record
    <2> QED
      BY <2>1 DEF SignInv, SignTypes, Named, OwnAccount, SignedOutHolds, BusyTells, Shows, CallsInv, CallOK, OwnCall, Alone
  <1>2. CASE \/ (\E mode \in {"email", "login"} : OpenAuth(mode)) \/ LeaveAuth \/ SignOutHome \/ KillAuth
             \/ (\E a \in Addresses : TypeAddress(a)) \/ (\E s \in Steps : GoStep(s)) \/ ResendAgain
    BY <1>2, MovesKeep, LeavingKeeps
  <1>3. CASE SendCode \/ Resend \/ VerifyCode \/ SaveCredentials \/ Login \/ ForgotUsername \/ ResetPassword
    BY <1>3, PressesKeep
  <1>4. CASE \E c \in calls : Serve(c) \/ Answered(c) \/ AnsweredLate(c) \/ LoseAnswer(c)
    BY <1>4, ServedKeeps, AnsweredKeeps, LateKeeps
  <1> QED
    BY <1>1, <1>2, <1>3, <1>4 DEF SignUpNext

LEMMA SigningStarts == SignUpInit => SignInv
  <1> SUFFICES ASSUME SignUpInit PROVE SignInv
    OBVIOUS
  <1>1. SignTypes
    BY DEF SignUpInit, SignTypes, Holders, Steps
  <1>2. Named /\ OwnAccount /\ SignedOutHolds /\ BusyTells /\ CallsInv
    BY DEF SignUpInit, Named, OwnAccount, SignedOutHolds, BusyTells, Shows, CallsInv
  <1> QED
    BY <1>1, <1>2 DEF SignInv

\* The inductive invariant of the sign-in screen.
THEOREM SignUpInvariant == SignUpSpec => []SignInv
  <1> QED
    BY SigningStarts, SigningKept, PTL DEF SignUpSpec

\* SignUpIsOwn: nobody reaches the app with an account that cannot be signed in to again,
\* unless its setup was cut short or it was verified while credentials were being saved, and
\* the credentials step names the account that was verified and is held, unless a sign-in
\* came late (app/auth.tsx).
THEOREM SignedInAsOneself == SignUpSpec => []SignUpIsOwn
  <1>1. SignInv => SignUpIsOwn
    <2> SUFFICES ASSUME SignInv PROVE SignUpIsOwn
      OBVIOUS
    <2>1. HomeIsNamed
      BY DEF SignInv, Named, HomeIsNamed
    <2>2. CredentialsAreOwn
      BY SignUpAssumption DEF SignInv, OwnAccount, CredentialsAreOwn
    <2> QED
      BY <2>1, <2>2 DEF SignUpIsOwn
  <1> QED
    BY <1>1, SignUpInvariant, PTL

\* CredentialsStepHolds: the screen stays on the credentials step until they are saved, unless
\* it asked for a code again beside another of its calls (verifyCode, "not skippable").
THEOREM CredentialsAreNotSkipped == SignUpSpec => CredentialsStepHolds
  <1> DEFINE Holds == (Shows("credentials") /\ screen' = "auth") => (step' = "credentials" \/ resending)
  <1>1. ASSUME SignInv, [SignUpNext]_signUpVars PROVE Holds
    <2> SUFFICES ASSUME screen = "auth", step = "credentials", screen' = "auth" PROVE step' = "credentials" \/ resending
      BY DEF Shows
    <2>1. CASE UNCHANGED step
      BY <2>1
    <2>2. CASE \E mode \in {"email", "login"} : OpenAuth(mode)
      BY <2>2 DEF OpenAuth
    <2>3. CASE (\E s \in Steps : GoStep(s)) \/ ResendAgain
      BY <2>3 DEF GoStep, HasBack, BackTo, ResendAgain, authScreen
    <2>4. ASSUME NEW c \in calls, Answered(c)
          PROVE  step' = "credentials" \/ resending
      <3>1. c.mine /\ OwnCall(c) /\ CallOK(c)
        BY <1>1, <2>4 DEF Answered, SignInv, CallsInv
      <3>2. c.kind = "save" \/ resending
        BY <3>1 DEF OwnCall
      <3>3. c.kind = "save" => c.next = "home"
        BY <3>1 DEF CallOK
      <3>4. c.next = "home" => step' = step
        BY <2>4 DEF Answered, NextStep
      <3> QED
        BY <3>2, <3>3, <3>4
    <2> QED
      BY <1>1, <2>1, <2>2, <2>3, <2>4
         DEF SignUpNext, signUpVars, authScreen, LeaveAuth, SignOutHome, KillAuth, TypeAddress, SendCode, Resend,
             VerifyCode, SaveCredentials, Login, ForgotUsername, ResetPassword, Call, Serve, AnsweredLate, LoseAnswer
  <1>2. SignUpSpec => [][Holds]_signUpVars
    BY <1>1, SignUpInvariant, PTL DEF SignUpSpec
  <1> QED
    BY <1>2 DEF CredentialsStepHolds

-----------------------------------------------------------------------------
(* Forms: the new request *)

\* A press is answered before the next; a call counts before it inserts, below the cap.
RequestInv ==
    /\ reqForm \in {"open", "left"}
    /\ reqCall \in [Presses -> {"none", "sent", "insert", "refused", "created"}]
    /\ reqAnswer \in [Presses -> {"none", "waiting", "ok", "error"}]
    /\ requests \subseteq Presses /\ reqCounted \in [Presses -> Nat]
    /\ \A i \in Presses : /\ reqAnswer[i] = "none" <=> reqCall[i] = "none"
                          /\ reqAnswer[i] = "ok" => reqForm = "left"
                          /\ reqCall[i] = "insert" => reqCounted[i] < ActiveRequests
                          /\ i \in requests <=> reqCall[i] = "created"
                          /\ i \in requests => reqCounted[i] < ActiveRequests
    /\ \A i, j \in Presses : (reqAnswer[i] \in {"waiting", "ok"} /\ reqAnswer[j] \in {"waiting", "ok"}) => i = j

LEMMA PressesAreFinite == IsFiniteSet(Presses)
  <1>1. 1 \in Int /\ MaxPresses \in Int
    BY FormsAssumption
  <1> QED
    BY <1>1, FS_Interval DEF Presses

LEMMA RequestKeeps ==
    ASSUME RequestInv, NEW i \in Presses,
           Submit(i) \/ CountActive(i) \/ InsertRequest(i) \/ RequestAnswered(i)
    PROVE  RequestInv'
  <1>1. IsFiniteSet(requests) /\ Cardinality(requests) \in Nat
    <2> QED
      BY PressesAreFinite, FS_Subset, FS_CardinalityType DEF RequestInv
  <1>2. CASE Submit(i)
    BY <1>2 DEF Submit, FormFree, RequestInv
  <1>3. CASE CountActive(i)
    BY <1>1, <1>3 DEF CountActive, BelowCap, RequestInv
  <1>4. CASE InsertRequest(i)
    BY <1>4 DEF InsertRequest, RequestInv
  <1>5. CASE RequestAnswered(i)
    BY <1>5 DEF RequestAnswered, RequestInv
  <1> QED
    BY <1>2, <1>3, <1>4, <1>5

LEMMA RequestsAreSafe == RequestInv => OneRequestEach /\ CapHolds
  <1> SUFFICES ASSUME RequestInv PROVE OneRequestEach /\ CapHolds
    OBVIOUS
  <1> DEFINE E == {i \in Presses : reqAnswer[i] = "error" /\ i \in requests}
             L == {i \in requests : reqAnswer[i] # "error"}
  <1>2. IsFiniteSet(requests) /\ IsFiniteSet(E) /\ IsFiniteSet(L)
    BY PressesAreFinite, FS_Subset DEF RequestInv
  <1>3. Cardinality(L) <= 1
    <2>1. \A i, j \in L : i = j
      BY DEF RequestInv
    <2>2. CASE L = {}
      BY <2>2, FS_EmptySet
    <2>3. CASE L # {}
      <3>1. PICK i : i \in L
        BY <2>3
      <3>2. L = {i}
        BY <2>1, <3>1
      <3>3. Cardinality({i}) = 1
        BY FS_Singleton
      <3> QED
        BY <3>2, <3>3
    <2> QED
      BY <2>2, <2>3
  <1>4. requests = L \cup E
    BY DEF RequestInv
  <1> HIDE DEF E, L
  <1>5. /\ Cardinality(L) \in Nat /\ Cardinality(E) \in Nat /\ Cardinality(L \cap E) \in Nat
        /\ Cardinality(requests) = Cardinality(L) + Cardinality(E) - Cardinality(L \cap E)
    <2>1. IsFiniteSet(L \cap E)
      BY <1>2, FS_Intersection
    <2> QED
      BY <1>2, <1>4, <2>1, FS_Union, FS_CardinalityType
  <1>6. Cardinality(requests) <= 1 + Cardinality(E)
    BY <1>3, <1>5
  <1>7. OneRequestEach
    BY <1>6 DEF OneRequestEach, E
  <1>8. CapHolds
    <2> SUFFICES ASSUME ~\E i, j \in requests : i # j /\ reqCounted[i] = reqCounted[j]
                 PROVE  Cardinality(requests) <= ActiveRequests
      BY DEF CapHolds
    <2> DEFINE T == 0..ActiveRequests - 1
               f == [i \in requests |-> reqCounted[i]]
    <2>1. ActiveRequests \in Nat
      BY FormsAssumption
    <2>2. IsFiniteSet(T) /\ Cardinality(T) = ActiveRequests
      BY <2>1, FS_Interval
    <2>3. f \in [requests -> T]
      BY <2>1 DEF RequestInv
    <2>4. \A i, j \in requests : f[i] = f[j] => i = j
      OBVIOUS
    <2> HIDE DEF T, f
    <2>5. f \in Injection(requests, T)
      BY <2>3, <2>4 DEF Injection, IsInjective
    <2> QED
      BY <2>2, <2>5, FS_Injection
  <1> QED
    BY <1>7, <1>8

-----------------------------------------------------------------------------
(* Forms: things to carry *)

CarryPosts == [slug : Slugs, qty : Nat, key : Slugs \X Nat \X {0}, save : Nat, pc : {"sent", "insert", "ok", "error"}]
CarryRows == [slug : Slugs, qty : Nat, key : Slugs \X Nat \X {0}]
Stored(s, q) == \E r \in carried : r.slug = s /\ r.qty = q

\* A post asks for what the stepper showed, unless that changed since; a row comes from a post
\* and is the only one with its key; what is answered is stored.  A save that is under way, or
\* may be retried, has a post for each amount it asks for, which is what the list shows of
\* every item that was neither changed meanwhile nor left out.
PostFits(p) ==
    /\ p \in CarryPosts /\ p.key = ItemKey(p.slug, p.qty)
    /\ p.slug \in repriced \/ p.qty = qty[p.slug]
    /\ p.pc = "ok" => Stored(p.slug, p.qty)
RowFits(r) ==
    /\ r \in CarryRows /\ r.key = ItemKey(r.slug, r.qty)
    /\ r.slug \in repriced \/ r.qty = qty[r.slug]
    /\ \E p \in posts : p.slug = r.slug
Asking == saveState \in {"saving", "alert"}
SaveFits ==
    /\ Asking => \A s \in Slugs : toSend[s] > 0 => \E p \in posts : p.save = saves /\ p.slug = s /\ p.qty = toSend[s]
    /\ Asking => \A s \in Slugs : s \in unsent \/ toSend[s] = qty[s]
DoneFits == carryScreen = "done" => \A s \in Chosen : s \in unsent \/ Stored(s, qty[s])
CarryTypes == qty \in [Slugs -> Nat] /\ toSend \in [Slugs -> Nat] /\ saves \in Nat
CarryInv ==
    /\ CarryTypes
    /\ \A p \in posts : PostFits(p)
    /\ \A r \in carried : RowFits(r)
    /\ \A r1, r2 \in carried : r1.key = r2.key => r1 = r2
    /\ SaveFits /\ DoneFits

LEMMA CarryIsSafe == CarryInv => CarriedOnce /\ DoneMeansStored
  <1> SUFFICES ASSUME CarryInv PROVE CarriedOnce /\ DoneMeansStored
    OBVIOUS
  <1>1. ASSUME NEW r1 \in carried, NEW r2 \in carried, r1.slug = r2.slug, r1.slug \notin repriced
        PROVE  r1 = r2
    <2>1. r1.qty = r2.qty
      BY <1>1 DEF CarryInv, RowFits
    <2>2. r1.key = r2.key
      BY <1>1, <2>1 DEF CarryInv, RowFits
    <2> QED
      BY <2>2 DEF CarryInv
  <1>2. CarriedOnce
    BY <1>1 DEF CarriedOnce
  <1>3. DoneMeansStored
    BY DEF CarryInv, DoneFits, Stored, DoneMeansStored
  <1> QED
    BY <1>2, <1>3

LEMMA SetQtyKeeps == \A s \in Slugs, q \in 0..MaxQty : CarryInv /\ SetQty(s, q) => CarryInv'
  <1> SUFFICES ASSUME NEW s \in Slugs, NEW q \in 0..MaxQty, CarryInv, SetQty(s, q) PROVE CarryInv'
    OBVIOUS
  <1>1. /\ UNCHANGED <<carryScreen, saveState, toSend, posts, saves, carried>> /\ carryScreen = "list"
        /\ qty' = [qty EXCEPT ![s] = q] /\ saveState # "alert"
        /\ unsent' = IF saveState = "saving" THEN unsent \cup {s} ELSE unsent
    BY DEF SetQty
  <1>2. repriced \subseteq repriced' /\ ((\E p \in posts : p.slug = s) => s \in repriced')
    BY DEF SetQty
  <1>3. q \in Nat
    BY FormsAssumption
  <1>4. qty' \in [Slugs -> Nat] /\ \A t \in Slugs : t # s => qty'[t] = qty[t]
    BY <1>1, <1>3 DEF CarryInv, CarryTypes
  <1>5. \A p \in posts : PostFits(p)'
    <2> TAKE p \in posts
    <2>1. PostFits(p) /\ p.slug \in Slugs
      BY DEF CarryInv, PostFits, CarryPosts
    <2>2. p.slug \in repriced' \/ p.qty = qty'[p.slug]
      BY <1>2, <1>4, <2>1 DEF PostFits
    <2> QED
      BY <1>1, <2>1, <2>2 DEF PostFits, Stored
  <1>6. \A r \in carried : RowFits(r)'
    <2> TAKE r \in carried
    <2>1. RowFits(r) /\ r.slug \in Slugs
      BY DEF CarryInv, RowFits, CarryRows
    <2>2. r.slug \in repriced' \/ r.qty = qty'[r.slug]
      BY <1>2, <1>4, <2>1 DEF RowFits
    <2> QED
      BY <1>1, <2>1, <2>2 DEF RowFits
  <1>7. SaveFits' /\ DoneFits'
    BY <1>1, <1>4 DEF CarryInv, SaveFits, DoneFits, Asking
  <1>8. CarryTypes'
    BY <1>1, <1>4 DEF CarryInv, CarryTypes
  <1> QED
    BY <1>1, <1>5, <1>6, <1>7, <1>8 DEF CarryInv

\* What is stored stays stored, and every post that was there still is, moved on perhaps.
LEMMA CarryMoves ==
    ASSUME CarryInv, NEW p \in posts, NEW pc \in {"insert", "ok", "error"}, Moved(p, pc),
           UNCHANGED <<carryScreen, saveState, carryList, toSend, saves, repriced, unsent>>,
           carried \subseteq carried', pc = "ok" => Stored(p.slug, p.qty)',
           \A r \in carried' \ carried : r \in CarryRows /\ r.slug = p.slug /\ r.qty = p.qty /\ r.key = p.key,
           \A r1, r2 \in carried' : r1.key = r2.key => r1 = r2
    PROVE  CarryInv'
  <1> DEFINE n == [p EXCEPT !.pc = pc]
  <1>1. PostFits(p) /\ p \in CarryPosts
    BY DEF CarryInv, PostFits
  <1>2. n \in CarryPosts /\ n.slug = p.slug /\ n.qty = p.qty /\ n.key = p.key /\ n.save = p.save /\ n.pc = pc
    BY <1>1 DEF CarryPosts
  <1>3. posts' = (posts \ {p}) \cup {n}
    BY DEF Moved
  <1> HIDE DEF n
  <1>4. \A s, q : Stored(s, q) => Stored(s, q)'
    BY DEF Stored
  <1>0. UNCHANGED <<qty, named, repriced>>
    BY DEF carryList
  <1>5. PostFits(n)'
    BY <1>0, <1>1, <1>2 DEF PostFits
  <1>6. \A m \in posts : PostFits(m)'
    BY <1>0, <1>4 DEF CarryInv, PostFits
  <1>7. \A m \in posts' : PostFits(m)'
    BY <1>3, <1>5, <1>6
  <1>8. \A m \in posts : \E o \in posts' : o.slug = m.slug /\ o.qty = m.qty /\ o.save = m.save
    BY <1>2, <1>3
  <1>9. \A r \in carried' : RowFits(r)'
    <2> TAKE r \in carried'
    <2>1. CASE r \in carried
      <3>1. RowFits(r)
        BY <2>1 DEF CarryInv
      <3> QED
        BY <1>0, <1>8, <3>1 DEF RowFits
    <2>2. CASE r \notin carried
      <3>1. r \in CarryRows /\ r.slug = p.slug /\ r.qty = p.qty /\ r.key = p.key
        BY <2>2
      <3>2. \E o \in posts' : o.slug = r.slug
        BY <1>8, <3>1
      <3> QED
        BY <1>0, <1>1, <3>1, <3>2 DEF RowFits, PostFits
    <2> QED
      BY <2>1, <2>2
  <1>10. Chosen' = Chosen
    BY DEF Chosen, carryList
  <1>11. SaveFits'
    BY <1>8 DEF CarryInv, SaveFits, Asking, carryList
  <1>12. DoneFits'
    BY <1>4, <1>10 DEF CarryInv, DoneFits, carryList
  <1>13. CarryTypes'
    BY DEF CarryInv, CarryTypes, carryList
  <1> QED
    BY <1>7, <1>9, <1>11, <1>12, <1>13 DEF CarryInv

LEMMA PostsKeep == \A p \in posts : CarryInv /\ (CheckCarry(p) \/ InsertCarry(p)) => CarryInv'
  <1> SUFFICES ASSUME NEW p \in posts, CarryInv, CheckCarry(p) \/ InsertCarry(p) PROVE CarryInv'
    OBVIOUS
  <1>1. PostFits(p) /\ p \in CarryPosts
    BY DEF CarryInv, PostFits
  <1>2. UNCHANGED <<carryScreen, saveState, carryList, toSend, saves, repriced, unsent>>
    BY DEF CheckCarry, InsertCarry
  <1>3. \A r1, r2 \in carried : r1.key = r2.key => r1 = r2
    BY DEF CarryInv
  \* A key is made of the item and its quantity, so a row with it is what the post asks for.
  <1>4. HasKey(p) => Stored(p.slug, p.qty)
    <2> SUFFICES ASSUME NEW r \in carried, r.key = p.key PROVE Stored(p.slug, p.qty)
      BY DEF HasKey
    <2>1. ItemKey(r.slug, r.qty) = ItemKey(p.slug, p.qty)
      BY <1>1 DEF CarryInv, RowFits, PostFits
    <2>2. r.slug = p.slug /\ r.qty = p.qty
      BY <2>1 DEF ItemKey
    <2> QED
      BY <2>2 DEF Stored
  <1>5. CASE UNCHANGED carried
    <2>1. Stored(p.slug, p.qty) => Stored(p.slug, p.qty)'
      BY <1>5 DEF Stored
    <2>2. CASE Moved(p, "insert")
      BY <1>2, <1>3, <1>5, <2>2, CarryMoves
    <2>3. CASE Moved(p, "error")
      BY <1>2, <1>3, <1>5, <2>3, CarryMoves
    <2>4. CASE Moved(p, "ok") /\ HasKey(p)
      BY <1>2, <1>3, <1>4, <1>5, <2>1, <2>4, CarryMoves
    <2>5. Moved(p, "insert") \/ Moved(p, "error") \/ (Moved(p, "ok") /\ HasKey(p))
      <3>1. CASE CheckCarry(p)
        BY <3>1 DEF CheckCarry
      <3>2. CASE InsertCarry(p) /\ HasKey(p)
        BY <3>2 DEF InsertCarry
      <3>3. CASE InsertCarry(p) /\ ~HasKey(p)
        <4>1. [slug |-> p.slug, qty |-> p.qty, key |-> p.key] \in carried
          BY <1>5, <3>3 DEF InsertCarry
        <4> QED
          BY <3>3, <4>1 DEF HasKey
      <3> QED
        BY <3>1, <3>2, <3>3
    <2> QED
      BY <2>2, <2>3, <2>4, <2>5
  <1>6. CASE ~UNCHANGED carried
    <2> DEFINE r == [slug |-> p.slug, qty |-> p.qty, key |-> p.key]
    <2>1. ~HasKey(p) /\ Moved(p, "ok") /\ carried' = carried \cup {r}
      BY <1>6 DEF CheckCarry, InsertCarry
    <2>2. r \in CarryRows /\ r.slug = p.slug /\ r.qty = p.qty /\ r.key = p.key
      BY <1>1 DEF CarryPosts, CarryRows
    <2> HIDE DEF r
    <2>3. Stored(p.slug, p.qty)'
      BY <2>1, <2>2 DEF Stored
    <2>4. \A r1, r2 \in carried' : r1.key = r2.key => r1 = r2
      BY <1>3, <2>1, <2>2 DEF HasKey
    <2> QED
      BY <1>2, <2>1, <2>2, <2>3, <2>4, CarryMoves
  <1> QED
    BY <1>5, <1>6

\* A step that neither sends nor stores anything, and leaves the list as it is.
LEMMA CarryStands ==
    ASSUME CarryInv, UNCHANGED <<qty, toSend, posts, saves, carried, repriced, unsent>>,
           Asking' => Asking, DoneFits'
    PROVE  CarryInv'
  <1>1. \A p \in posts : PostFits(p)'
    BY DEF CarryInv, PostFits, Stored
  <1>2. \A r \in carried : RowFits(r)'
    BY DEF CarryInv, RowFits
  <1>3. SaveFits'
    BY DEF CarryInv, SaveFits
  <1> QED
    BY <1>1, <1>2, <1>3 DEF CarryInv, CarryTypes

LEMMA CarryEndsKeep == CarryInv /\ (CatalogueComes \/ SaveEnds \/ CancelAlert \/ CarryLater) => CarryInv'
  <1> SUFFICES ASSUME CarryInv, CatalogueComes \/ SaveEnds \/ CancelAlert \/ CarryLater PROVE CarryInv'
    OBVIOUS
  <1>1. UNCHANGED <<qty, toSend, posts, saves, carried, repriced, unsent>>
    BY DEF CatalogueComes, SaveEnds, CancelAlert, CarryLater, carryList
  <1>2. Asking' => Asking
    BY DEF CatalogueComes, SaveEnds, CancelAlert, CarryLater, Asking
  <1>3. DoneFits'
    <2>1. CASE SaveEnds /\ AllSaved
      <3> SUFFICES ASSUME NEW s \in Chosen, s \notin unsent PROVE Stored(s, qty[s])
        BY <1>1 DEF DoneFits, Stored, Chosen
      <3>1. s \in Slugs /\ qty[s] > 0 /\ toSend[s] = qty[s] /\ Asking
        BY <2>1 DEF SaveEnds, Asking, Chosen, CarryInv, SaveFits
      <3>2. PICK p \in posts : p.save = saves /\ p.slug = s /\ p.qty = qty[s]
        BY <3>1 DEF CarryInv, SaveFits
      <3>3. p.pc = "ok"
        BY <2>1, <3>2 DEF AllSaved, Own
      <3> QED
        BY <3>2, <3>3 DEF CarryInv, PostFits
    <2>2. CASE ~(SaveEnds /\ AllSaved)
      <3>1. carryScreen' = "done" => carryScreen = "done"
        BY <2>2 DEF CatalogueComes, SaveEnds, CancelAlert, CarryLater
      <3> QED
        BY <1>1, <3>1 DEF CarryInv, DoneFits, Stored, Chosen
    <2> QED
      BY <2>1, <2>2
  <1> QED
    BY <1>1, <1>2, <1>3, CarryStands

\* A save sends amounts the list shows, or showed when an earlier one sent them.
LEMMA SendKeeps ==
    ASSUME CarryInv, NEW amounts \in [Slugs -> Nat], Send(amounts),
           \A s \in Slugs : amounts[s] > 0 => s \in repriced \/ amounts[s] = qty[s],
           \A s \in Slugs : s \in unsent' \/ amounts[s] = qty[s],
           carryScreen = "done" => unsent' = unsent
    PROVE  CarryInv'
  <1> DEFINE New == {PostOf(s, amounts[s]) : s \in {t \in Slugs : amounts[t] > 0}}
  <1>1. /\ saves' = saves + 1 /\ saveState' = "saving" /\ toSend' = amounts /\ posts' = posts \cup New
        /\ UNCHANGED <<carryScreen, qty, carried, repriced>>
    BY DEF Send, carryList
  <1>2. saves \in Nat /\ qty \in [Slugs -> Nat]
    BY DEF CarryInv, CarryTypes
  <1>3. \A s \in Slugs : amounts[s] > 0 =>
            \E p \in New : /\ p = PostOf(s, amounts[s]) /\ p \in CarryPosts /\ p.slug = s /\ p.qty = amounts[s]
                          /\ p.key = ItemKey(s, amounts[s]) /\ p.save = saves + 1 /\ p.pc = "sent"
    <2> SUFFICES ASSUME NEW s \in Slugs, amounts[s] > 0
                 PROVE  LET p == PostOf(s, amounts[s])
                        IN /\ p \in New /\ p \in CarryPosts /\ p.slug = s /\ p.qty = amounts[s]
                           /\ p.key = ItemKey(s, amounts[s]) /\ p.save = saves + 1 /\ p.pc = "sent"
      OBVIOUS
    <2>1. PostOf(s, amounts[s]) \in New
      OBVIOUS
    <2>2. ItemKey(s, amounts[s]) \in Slugs \X Nat \X {0}
      BY DEF ItemKey
    <2> QED
      BY <1>2, <2>1, <2>2 DEF PostOf, CarryPosts
  <1>4. \A p \in New : PostFits(p)'
    <2> TAKE p \in New
    <2>1. PICK s \in Slugs : amounts[s] > 0 /\ p = PostOf(s, amounts[s])
      OBVIOUS
    <2> HIDE DEF New
    <2>2. /\ p \in CarryPosts /\ p.slug = s /\ p.qty = amounts[s] /\ p.key = ItemKey(s, amounts[s])
          /\ p.pc = "sent"
      BY <1>3, <2>1
    <2> QED
      BY <1>1, <2>1, <2>2 DEF PostFits
  <1> HIDE DEF New
  <1>5. \A p \in posts : PostFits(p)'
    BY <1>1 DEF CarryInv, PostFits, Stored
  <1>6. \A r \in carried : RowFits(r)'
    BY <1>1 DEF CarryInv, RowFits
  <1>7. SaveFits'
    <2>1. \A s \in Slugs : toSend'[s] > 0 => \E p \in posts' : p.save = saves' /\ p.slug = s /\ p.qty = toSend'[s]
      BY <1>1, <1>3
    <2> QED
      BY <1>1, <2>1 DEF SaveFits
  <1>8. DoneFits'
    BY <1>1 DEF CarryInv, DoneFits, Stored, Chosen
  <1>9. CarryTypes'
    BY <1>1, <1>2 DEF CarryTypes
  <1> QED
    BY <1>1, <1>4, <1>5, <1>6, <1>7, <1>8, <1>9 DEF CarryInv

LEMMA SavesKeep == CarryInv /\ (SaveCarry \/ RetryCarry) => CarryInv'
  <1> SUFFICES ASSUME CarryInv, SaveCarry \/ RetryCarry PROVE CarryInv'
    OBVIOUS
  <1>1. CASE SaveCarry /\ Chosen = {}
    <2>1. UNCHANGED <<saveState, qty, toSend, posts, saves, carried, repriced, unsent>>
      BY <1>1 DEF SaveCarry, carryList
    <2>2. DoneFits'
      BY <1>1, <2>1 DEF DoneFits, Chosen
    <2> QED
      BY <2>1, <2>2, CarryStands DEF Asking
  <1>2. CASE SaveCarry /\ Chosen # {}
    <2> DEFINE amounts == [s \in Slugs |-> IF s \in named THEN qty[s] ELSE 0]
    <2>1. Send(amounts) /\ unsent' = Slugs \ named /\ carryScreen = "list"
      BY <1>2 DEF SaveCarry
    <2>2. amounts \in [Slugs -> Nat]
      BY DEF CarryInv, CarryTypes
    <2>3. \A s \in Slugs : /\ amounts[s] > 0 => s \in repriced \/ amounts[s] = qty[s]
                           /\ s \in unsent' \/ amounts[s] = qty[s]
      BY <2>1
    <2> HIDE DEF amounts
    <2> QED
      BY <2>1, <2>2, <2>3, SendKeeps
  <1>3. CASE RetryCarry
    <2>1. Send(toSend) /\ unsent' = unsent /\ Asking
      BY <1>3 DEF RetryCarry, Asking
    <2>2. toSend \in [Slugs -> Nat]
      BY DEF CarryInv, CarryTypes
    <2>3. \A s \in Slugs : toSend[s] > 0 => s \in repriced \/ toSend[s] = qty[s]
      BY <2>1 DEF CarryInv, SaveFits, PostFits
    <2>4. \A s \in Slugs : s \in unsent' \/ toSend[s] = qty[s]
      BY <2>1 DEF CarryInv, SaveFits
    <2> QED
      BY <2>1, <2>2, <2>3, <2>4, SendKeeps
  <1> QED
    BY <1>1, <1>2, <1>3

-----------------------------------------------------------------------------
(* Forms: the stock row and the daily question *)

\* Until a tap went out from an outdated total, one patch is under way at most; it is to bring
\* about the total there is plus what was tapped, and the row waits for it.
StockInv ==
    /\ total \in Int /\ applied \in Int /\ settled \in Int /\ staleTap \in BOOLEAN /\ waitingRow \in BOOLEAN
    /\ shownRow.total \in Int
    /\ \A p \in patches : p.value \in Int /\ p.d \in Int
    /\ ~staleTap => /\ total = 2 + applied - settled
                    /\ \A p \in patches : waitingRow /\ p.value = total + p.d
                    /\ \A p, q \in patches : p = q

LEMMA StockKeeps ==
    ASSUME StockInv,
           \/ (\E d \in {1, -1} : Tap(d)) \/ (\E p \in patches : ApplyPatch(p)) \/ PatchAnswered
           \/ RefetchRow \/ ReserveOne \/ SettleOne
    PROVE  StockInv'
  <1>1. ASSUME NEW d \in {1, -1}, Tap(d)
        PROVE  StockInv'
    <2> DEFINE n == [press |-> taps, value |-> shownRow.total + d, d |-> d]
    <2>1. patches' = patches \cup {n} /\ waitingRow = FALSE /\ waitingRow' = TRUE
          /\ staleTap' = (staleTap \/ shownRow.total # total)
      BY <1>1 DEF Tap, RowFree, StockInv
    <2>2. UNCHANGED <<total, applied, settled, shownRow>>
      BY <1>1 DEF Tap
    <2>3. n.value = shownRow.total + d /\ n.d = d /\ n.value \in Int /\ n.d \in Int
      BY DEF StockInv
    <2> HIDE DEF n
    <2>4. ~staleTap => patches = {}
      BY <2>1 DEF StockInv
    <2>5. ~staleTap' => patches' = {n} /\ shownRow.total = total /\ total = 2 + applied - settled
      BY <2>1, <2>4 DEF StockInv
    <2>6. \A p \in patches' : p.value \in Int /\ p.d \in Int
      BY <2>1, <2>3 DEF StockInv
    <2>7. ~staleTap' => /\ total' = 2 + applied' - settled'
                        /\ \A p \in patches' : waitingRow' /\ p.value = total' + p.d
                        /\ \A p, q \in patches' : p = q
      BY <2>1, <2>2, <2>3, <2>5
    <2>8. staleTap' \in BOOLEAN
      BY <2>1
    <2> QED
      BY <2>1, <2>2, <2>6, <2>7, <2>8 DEF StockInv
  <1>2. ASSUME NEW p \in patches, ApplyPatch(p)
        PROVE  StockInv'
    <2>1. /\ patches' = patches \ {p} /\ UNCHANGED <<settled, waitingRow, staleTap, shownRow>>
          /\ (total' = p.value /\ applied' = applied + p.d) \/ UNCHANGED <<total, applied>>
      BY <1>2 DEF ApplyPatch
    <2>2. ~staleTap => patches' = {} /\ p.value = total + p.d
      BY <2>1 DEF StockInv
    <2>3. total' \in Int /\ applied' \in Int
      BY <2>1 DEF StockInv
    <2>4. ~staleTap => total' = 2 + applied' - settled'
      BY <2>1, <2>2 DEF StockInv
    <2> QED
      BY <2>1, <2>2, <2>3, <2>4 DEF StockInv
  <1>3. CASE PatchAnswered
    BY <1>3 DEF PatchAnswered, StockInv
  <1>4. CASE RefetchRow
    <2>1. shownRow'.total = total
      BY <1>4 DEF RefetchRow
    <2> QED
      BY <1>4, <2>1 DEF RefetchRow, StockInv
  <1>5. CASE ReserveOne
    BY <1>5 DEF ReserveOne, StockInv
  <1>6. CASE SettleOne
    BY <1>6 DEF SettleOne, StockInv
  <1> QED
    BY <1>1, <1>2, <1>3, <1>4, <1>5, <1>6

\* Until two checks overlapped the question was put once at most since the app started, and no
\* check runs beside it.
QuestionInv ==
    /\ askChecks \in Nat /\ askedTwice \in BOOLEAN /\ askedRef \in BOOLEAN
    /\ prompts \in [1..Days -> Nat]
    /\ ~askedTwice => /\ askChecks <= 1
                      /\ askedRef => askChecks = 0
                      /\ \A d \in 1..Days : prompts[d] <= 1 /\ (prompts[d] = 1 => askedRef)

LEMMA QuestionKeeps ==
    ASSUME QuestionInv, CheckAnswered \/ PushPrompt \/ AnswerPrompt \/ NextDay \/ AppRestarts
    PROVE  QuestionInv'
  <1>1. CASE CheckAnswered
    <2>1. /\ askedRef = FALSE /\ UNCHANGED <<askedRef, prompts>>
          /\ askedTwice' = (askedTwice \/ askChecks > 0)
          /\ askChecks' = askChecks \/ askChecks' = askChecks + 1
      BY <1>1 DEF CheckAnswered, NotAsked, QuestionInv
    <2>2. askChecks' \in Nat /\ askedTwice' \in BOOLEAN
      BY <2>1 DEF QuestionInv
    <2>3. ASSUME ~askedTwice' PROVE ~askedTwice /\ askChecks' <= 1
      <3>1. ~askedTwice /\ ~(askChecks > 0)
        BY <2>1, <2>3
      <3>2. askChecks = 0
        BY <3>1 DEF QuestionInv
      <3> QED
        BY <2>1, <3>1, <3>2
    <2> QED
      BY <2>1, <2>2, <2>3 DEF QuestionInv
  <1>2. CASE PushPrompt
    <2>1. /\ askChecks > 0 /\ askChecks' = askChecks - 1 /\ askedRef' = TRUE
          /\ prompts' = [prompts EXCEPT ![day] = @ + 1] /\ UNCHANGED <<day, askedTwice>>
      BY <1>2 DEF PushPrompt
    <2>2. ~askedTwice => \A d \in 1..Days : prompts[d] = 0
      BY <2>1 DEF QuestionInv
    <2>3. prompts' = [d \in 1..Days |-> IF d = day THEN prompts[d] + 1 ELSE prompts[d]]
      BY <2>1 DEF QuestionInv
    <2>4. prompts' \in [1..Days -> Nat]
      BY <2>3 DEF QuestionInv
    <2>5. ~askedTwice => \A d \in 1..Days : prompts'[d] <= 1
      BY <2>2, <2>3
    <2> QED
      BY <2>1, <2>4, <2>5 DEF QuestionInv
  <1>3. CASE AnswerPrompt
    BY <1>3 DEF AnswerPrompt, QuestionInv
  <1>4. CASE NextDay
    BY <1>4 DEF NextDay, QuestionInv
  <1>5. CASE AppRestarts
    <2>1. askedRef' = FALSE /\ askChecks' = 0 /\ askedTwice' = FALSE /\ prompts' = [d \in 1..Days |-> 0]
      BY <1>5 DEF AppRestarts
    <2>2. prompts' \in [1..Days -> Nat] /\ \A d \in 1..Days : prompts'[d] <= 1 /\ prompts'[d] # 1
      BY <2>1
    <2>3. askChecks' \in Nat /\ askChecks' <= 1
      BY <2>1
    <2> QED
      BY <2>1, <2>2, <2>3 DEF QuestionInv
  <1> QED
    BY <1>1, <1>2, <1>3, <1>4, <1>5

LEMMA StockIsSafe == StockInv => StockCountsTaps
  BY DEF StockInv, StockCountsTaps
LEMMA QuestionIsSafe == QuestionInv => AskedOncePerDay
  BY DEF QuestionInv, AskedOncePerDay

-----------------------------------------------------------------------------
(* Forms: all of them *)

FormsInv == RequestInv /\ CarryInv /\ StockInv /\ QuestionInv

LEMMA RequestIdle == ASSUME RequestInv, UNCHANGED reqVars PROVE RequestInv'
  BY DEF RequestInv, reqVars
LEMMA CarryIdle == ASSUME CarryInv, UNCHANGED carryVars PROVE CarryInv'
  <1>1. UNCHANGED <<carryScreen, saveState, qty, toSend, posts, saves, carried, repriced, unsent>>
    BY DEF carryVars, carryList
  <1>2. DoneFits'
    BY <1>1 DEF CarryInv, DoneFits, Stored, Chosen
  <1> QED
    BY <1>1, <1>2, CarryStands DEF Asking
LEMMA StockIdle == ASSUME StockInv, UNCHANGED stockVars PROVE StockInv'
  BY DEF StockInv, stockVars
LEMMA QuestionIdle == ASSUME QuestionInv, UNCHANGED askVars PROVE QuestionInv'
  BY DEF QuestionInv, askVars

LEMMA FormsKept == FormsInv /\ [FormsNext]_formsVars => FormsInv'
  <1> SUFFICES ASSUME FormsInv, [FormsNext]_formsVars PROVE FormsInv'
    OBVIOUS
  <1>1. CASE Requesting
    BY <1>1, RequestKeeps, CarryIdle, StockIdle, QuestionIdle DEF Requesting, FormsInv
  <1>2. CASE Carrying
    <2>1. CarryInv'
      BY <1>2, SetQtyKeeps, CarryEndsKeep, SavesKeep, PostsKeep DEF Carrying, FormsInv
    <2> QED
      BY <1>2, <2>1, RequestIdle, StockIdle, QuestionIdle DEF Carrying, FormsInv
  <1>3. CASE Stocking
    BY <1>3, StockKeeps, RequestIdle, CarryIdle, QuestionIdle DEF Stocking, FormsInv
  <1>4. CASE Attending
    BY <1>4, QuestionKeeps, RequestIdle, CarryIdle, StockIdle DEF Attending, FormsInv
  <1>5. CASE UNCHANGED formsVars
    BY <1>5, RequestIdle, CarryIdle, StockIdle, QuestionIdle DEF formsVars, FormsInv
  <1> QED
    BY <1>1, <1>2, <1>3, <1>4, <1>5 DEF FormsNext

LEMMA FormsStart == FormsInit => FormsInv
  <1> SUFFICES ASSUME FormsInit PROVE FormsInv
    OBVIOUS
  <1>1. RequestInv
    BY DEF FormsInit, RequestInv
  <1>2. CarryInv
    BY DEF FormsInit, CarryInv, CarryTypes, SaveFits, DoneFits, Asking
  <1>3. StockInv
    <2>1. total = 2 /\ applied = 0 /\ settled = 0 /\ staleTap = FALSE /\ waitingRow = FALSE /\ patches = {}
      BY DEF FormsInit
    <2>2. shownRow.total = 2
      BY DEF FormsInit
    <2>3. total \in Int /\ applied \in Int /\ settled \in Int /\ shownRow.total \in Int /\ total = 2 + applied - settled
      BY <2>1, <2>2
    <2> QED
      BY <2>1, <2>3 DEF StockInv
  <1>4. QuestionInv
    <2>1. askedRef = FALSE /\ askChecks = 0 /\ askedTwice = FALSE /\ prompts = [d \in 1..Days |-> 0]
      BY DEF FormsInit
    <2>2. prompts \in [1..Days -> Nat] /\ \A d \in 1..Days : prompts[d] <= 1 /\ prompts[d] # 1
      BY <2>1
    <2>3. askChecks \in Nat /\ askChecks <= 1
      BY <2>1
    <2> QED
      BY <2>1, <2>2, <2>3 DEF QuestionInv
  <1> QED
    BY <1>1, <1>2, <1>3, <1>4 DEF FormsInv

\* FormsActOnce: over lost answers, presses repeated and stale lists, a request is made once, an
\* item carried once, a tap counted once and the daily question put once (request/new.tsx,
\* carry/items.tsx, supplies.tsx, home.tsx).
THEOREM FormsDoWhatWasAsked == FormsSpec => []FormsActOnce
  <1>1. FormsInv => FormsActOnce
    BY RequestsAreSafe, CarryIsSafe, StockIsSafe, QuestionIsSafe DEF FormsInv, FormsActOnce
  <1> QED
    BY <1>1, FormsStart, FormsKept, PTL DEF FormsSpec

-----------------------------------------------------------------------------
(* Console: the tabs *)

StaffOrNoOne == Staff \cup {NoOne}
Sessions == DOMAIN owner
GetFits(g) ==
    /\ g.session \in Sessions /\ g.who \in StaffOrNoOne /\ g.must \in BOOLEAN /\ g.kept \in BOOLEAN
    /\ g.answer = "ok" => g.who = owner[g.session]
MeCalls == [session : Nat, answer : {"asked", "ok", "refused"}, who : StaffOrNoOne, must : BOOLEAN, kept : BOOLEAN]

SessionTypes ==
    /\ \E n \in Nat : owner \in [1..n -> Staff]
    /\ token \in {NoSession} \cup Sessions /\ ended \subseteq Sessions
    /\ page \in [Tabs -> {"landing", "auth", "password", "admin"}]
    /\ me \in [Tabs -> StaffOrNoOne] /\ mustSeen \in [Tabs -> BOOLEAN] /\ gets \in [Tabs -> SUBSET MeCalls]
    /\ changing \in [Tabs -> [call : {Idle, Asked, "ok", "error"}, by : Nat]]
    /\ \A t \in Tabs : changing[t].call # Idle => changing[t].by \in Sessions
    /\ signer \in Tabs /\ uncertain \subseteq Tabs /\ blind \subseteq Tabs /\ changedHere \in [Tabs -> StaffOrNoOne]

\* A tab has at most one call that still counts, and every call tells of its own session.
GetsInv == \A t \in Tabs : /\ \A g \in gets[t] : GetFits(g)
                           /\ \A g, d \in gets[t] : g.kept /\ d.kept => g = d

\* Unless its token was taken away behind its back, what a tab holds is of the token's account.
CertainInv ==
    \A t \in Tabs \ uncertain :
        /\ me[t] = NoOne \/ (token # NoSession /\ me[t] = owner[token])
        /\ \A g \in gets[t] : g.kept => token # NoSession /\ g.session = token

\* Nothing a tab knows, or may still be told, has the changed password changed again, unless it
\* learnt of the change with nothing cached and an older call under way.
ChangedInv ==
    \A t \in Tabs : changedHere[t] # NoOne =>
        /\ changedHere[t] \notin mustChange
        /\ t \notin blind /\ me[t] = changedHere[t] => ~mustSeen[t]
        /\ t \notin blind => \A g \in gets[t] : g.kept /\ g.answer = "ok" /\ g.who = changedHere[t] => ~g.must

TabsInv == SessionTypes /\ GetsInv /\ CertainInv /\ ChangedInv

LEMMA ConsoleConstants == NoOne \notin Staff /\ MaxMissed \in Nat /\ MaxTyped \in Nat /\ MaxCreated \in Nat /\ MaxSessions \in Nat
  BY ConsoleAssumption

LEMMA SessionsCount ==
    ASSUME NEW n \in Nat, DOMAIN owner = 1..n
    PROVE  Cardinality(DOMAIN owner) = n /\ n + 1 # NoSession /\ NoSession \notin DOMAIN owner
  <1>1. 1 \in Int /\ n \in Int
    OBVIOUS
  <1>2. Cardinality(1..n) = IF 1 > n THEN 0 ELSE n - 1 + 1
    BY <1>1, FS_Interval
  <1> QED
    BY <1>2 DEF NoSession

LEMMA TabsIdle == ASSUME TabsInv, UNCHANGED sessionVars PROVE TabsInv'
  <1>1. UNCHANGED <<token, owner, ended, mustChange, page, me, mustSeen, gets, changing, signer, uncertain, changedHere, blind>>
    BY DEF sessionVars
  <1>2. SessionTypes'
    BY <1>1 DEF TabsInv, SessionTypes, Sessions
  <1>3. GetsInv'
    BY <1>1 DEF TabsInv, GetsInv, GetFits, Sessions
  <1>4. CertainInv' /\ ChangedInv'
    BY <1>1 DEF TabsInv, CertainInv, ChangedInv
  <1> QED
    BY <1>2, <1>3, <1>4 DEF TabsInv

\* A page shown, or a change of the password under way, says nothing of the account.
LEMMA PagesTurn ==
    ASSUME TabsInv, UNCHANGED <<token, owner, ended, me, mustSeen, gets, signer, uncertain, changedHere, blind>>,
           mustChange' \subseteq mustChange,
           page' \in [Tabs -> {"landing", "auth", "password", "admin"}],
           changing' \in [Tabs -> [call : {Idle, Asked, "ok", "error"}, by : Nat]],
           \A t \in Tabs : changing'[t].call # Idle => changing'[t].by \in Sessions
    PROVE  TabsInv'
  <1>1. SessionTypes'
    BY DEF TabsInv, SessionTypes, Sessions
  <1>2. GetsInv'
    BY DEF TabsInv, GetsInv, GetFits, Sessions
  <1>3. CertainInv' /\ ChangedInv'
    BY DEF TabsInv, CertainInv, ChangedInv
  <1> QED
    BY <1>1, <1>2, <1>3 DEF TabsInv

LEMMA VisitKeeps == ASSUME TabsInv, NEW t \in Tabs, NEW p, Visit(t, p) PROVE TabsInv'
  <1>1. Guarded(t, me[t], mustSeen[t]) \in {"auth", "password", "admin"}
    BY DEF Guarded
  <1>2. page' \in [Tabs -> {"landing", "auth", "password", "admin"}]
    BY <1>1 DEF Visit, TabsInv, SessionTypes
  <1>3. UNCHANGED <<token, owner, ended, mustChange, me, mustSeen, gets, changing, signer, uncertain, changedHere, blind>>
    BY DEF Visit
  <1> QED
    BY <1>2, <1>3, PagesTurn DEF TabsInv, SessionTypes

LEMMA AskChangeKeeps == ASSUME TabsInv, NEW t \in Tabs, AskChange(t) PROVE TabsInv'
  <1>1. /\ token \in Sessions /\ changing' = [changing EXCEPT ![t] = [call |-> Asked, by |-> token]]
        /\ UNCHANGED <<token, owner, ended, mustChange, page, me, mustSeen, gets, signer, uncertain, changedHere, blind>>
    BY DEF AskChange, TabsInv, SessionTypes
  <1>2. Sessions \subseteq Nat
    BY DEF TabsInv, SessionTypes, Sessions
  <1>3. /\ changing' \in [Tabs -> [call : {Idle, Asked, "ok", "error"}, by : Nat]]
        /\ \A x \in Tabs : changing'[x].call # Idle => changing'[x].by \in Sessions
    BY <1>1, <1>2 DEF TabsInv, SessionTypes
  <1> QED
    BY <1>1, <1>3, PagesTurn DEF TabsInv, SessionTypes

LEMMA ServeChangeKeeps == ASSUME TabsInv, NEW t \in Tabs, ServeChange(t) PROVE TabsInv'
  <1>1. /\ changing[t].call = Asked /\ mustChange' \subseteq mustChange
        /\ UNCHANGED <<token, owner, ended, page, me, mustSeen, gets, signer, uncertain, changedHere, blind>>
    BY DEF ServeChange
  <1>2. PICK a \in {"ok", "error"} : changing' = [changing EXCEPT ![t].call = a]
    BY DEF ServeChange
  <1>3. Asked # Idle
    BY DEF Asked, Idle
  <1>4. /\ changing' \in [Tabs -> [call : {Idle, Asked, "ok", "error"}, by : Nat]]
        /\ \A x \in Tabs : changing'[x].call # Idle => changing'[x].by \in Sessions
    BY <1>1, <1>2, <1>3 DEF TabsInv, SessionTypes
  <1> QED
    BY <1>1, <1>4, PagesTurn DEF TabsInv, SessionTypes

LEMMA NotChangingFits == NotChanging \in [call : {Idle, Asked, "ok", "error"}, by : Nat] /\ NotChanging.call = Idle
  BY DEF NotChanging, NoSession

LEMMA LoseChangeKeeps == ASSUME TabsInv, NEW t \in Tabs, LoseChange(t) PROVE TabsInv'
  <1>1. /\ changing' = [changing EXCEPT ![t] = NotChanging]
        /\ UNCHANGED <<token, owner, ended, mustChange, page, me, mustSeen, gets, signer, uncertain, changedHere, blind>>
    BY DEF LoseChange
  <1>2. /\ changing' \in [Tabs -> [call : {Idle, Asked, "ok", "error"}, by : Nat]]
        /\ \A x \in Tabs : changing'[x].call # Idle => changing'[x].by \in Sessions
    BY <1>1, NotChangingFits DEF TabsInv, SessionTypes
  <1> QED
    BY <1>1, <1>2, PagesTurn DEF TabsInv, SessionTypes

\* A call under way for the token held, and forgotten ones.
LEMMA FreshFits ==
    ASSUME TabsInv, token # NoSession
    PROVE  FreshGet \in MeCalls /\ GetFits(FreshGet) /\ FreshGet.kept /\ FreshGet.answer = "asked" /\ FreshGet.session = token
  <1>1. token \in Sessions /\ token \in Nat
    BY DEF TabsInv, SessionTypes, Sessions
  <1> QED
    BY <1>1 DEF FreshGet, MeCalls, GetFits, StaffOrNoOne

LEMMA ForgottenFit ==
    ASSUME TabsInv, NEW t \in Tabs
    PROVE  /\ Forget(gets[t]) \subseteq MeCalls
           /\ \A g \in Forget(gets[t]) : GetFits(g) /\ ~g.kept
  <1>1. gets[t] \subseteq MeCalls
    BY DEF TabsInv, SessionTypes
  <1>2. ASSUME NEW g \in gets[t] PROVE [g EXCEPT !.kept = FALSE] \in MeCalls /\ GetFits([g EXCEPT !.kept = FALSE]) /\ ~[g EXCEPT !.kept = FALSE].kept
    <2>1. GetFits(g) /\ g \in MeCalls
      BY <1>1 DEF TabsInv, GetsInv
    <2> QED
      BY <2>1 DEF GetFits, MeCalls
  <1> QED
    BY <1>2 DEF Forget

LEMMA FetchMeKeeps == ASSUME TabsInv, NEW t \in Tabs, FetchMe(t) PROVE TabsInv'
  <1>1. /\ token # NoSession /\ gets' = [gets EXCEPT ![t] = @ \cup {FreshGet}] /\ \A g \in gets[t] : ~g.kept
        /\ UNCHANGED <<token, owner, ended, mustChange, page, me, mustSeen, changing, signer, uncertain, changedHere, blind>>
    BY DEF FetchMe, AlreadyAsking
  <1>2. PICK new : new = FreshGet
    OBVIOUS
  <1>3. new \in MeCalls /\ GetFits(new) /\ new.kept /\ new.answer = "asked" /\ new.session = token
    BY <1>1, <1>2, FreshFits
  <1>4. \A x \in Tabs : gets'[x] = IF x = t THEN gets[t] \cup {new} ELSE gets[x]
    BY <1>1, <1>2 DEF TabsInv, SessionTypes
  <1>5. SessionTypes'
    <2>1. gets' \in [Tabs -> SUBSET MeCalls]
      BY <1>1, <1>2, <1>3 DEF TabsInv, SessionTypes
    <2> QED
      BY <1>1, <2>1 DEF TabsInv, SessionTypes, Sessions
  <1>6. GetsInv'
    <2>1. \A x \in Tabs : \A g \in gets'[x] : GetFits(g)
      BY <1>3, <1>4 DEF TabsInv, GetsInv
    <2>2. \A x \in Tabs : \A g \in gets'[x] : GetFits(g)'
      BY <1>1, <2>1 DEF GetFits, Sessions
    <2>3. \A x \in Tabs : \A g, d \in gets'[x] : g.kept /\ d.kept => g = d
      BY <1>1, <1>4 DEF TabsInv, GetsInv
    <2> QED
      BY <2>2, <2>3 DEF GetsInv
  <1>7. CertainInv'
    BY <1>1, <1>3, <1>4 DEF TabsInv, CertainInv
  <1>8. ChangedInv'
    <2>1. \A x \in Tabs : \A g \in gets'[x] : g \in gets[x] \/ g.answer # "ok"
      BY <1>3, <1>4
    <2> QED
      BY <1>1, <2>1 DEF TabsInv, ChangedInv
  <1> QED
    BY <1>5, <1>6, <1>7, <1>8 DEF TabsInv

\* The server answers for the session the call was made with.
LEMMA ServeMeKeeps == ASSUME TabsInv, NEW t \in Tabs, NEW g \in gets[t], ServeMe(t, g) PROVE TabsInv'
  <1> DEFINE refused == g.session \in ended
  <1>1. PICK new : new = [g EXCEPT !.answer = IF refused THEN "refused" ELSE "ok",
                               !.who = IF refused THEN NoOne ELSE owner[g.session],
                               !.must = ~refused /\ owner[g.session] \in mustChange]
    OBVIOUS
  <1>2. /\ gets' = [gets EXCEPT ![t] = (@ \ {g}) \cup {new}]
        /\ UNCHANGED <<token, owner, ended, mustChange, page, me, mustSeen, changing, signer, uncertain, changedHere, blind>>
    BY <1>1 DEF ServeMe
  <1>3. g \in MeCalls /\ GetFits(g)
    BY DEF TabsInv, SessionTypes, GetsInv
  <1>4. owner[g.session] \in Staff
    BY <1>3 DEF GetFits, TabsInv, SessionTypes, Sessions
  <1>5. new \in MeCalls /\ new.session = g.session /\ new.kept = g.kept
    BY <1>1, <1>3, <1>4 DEF MeCalls, StaffOrNoOne
  <1>6. new.answer = "ok" => new.who = owner[g.session] /\ (new.must => owner[g.session] \in mustChange)
    BY <1>1, <1>3 DEF MeCalls
  <1>7. GetFits(new)
    BY <1>3, <1>5, <1>6 DEF GetFits, MeCalls
  <1>8. \A x \in Tabs : gets'[x] = IF x = t THEN (gets[t] \ {g}) \cup {new} ELSE gets[x]
    BY <1>2 DEF TabsInv, SessionTypes
  <1>9. SessionTypes'
    <2>1. gets' \in [Tabs -> SUBSET MeCalls]
      BY <1>2, <1>5 DEF TabsInv, SessionTypes
    <2> QED
      BY <1>2, <2>1 DEF TabsInv, SessionTypes, Sessions
  <1>10. GetsInv'
    <2>1. \A x \in Tabs : \A d \in gets'[x] : GetFits(d)
      BY <1>7, <1>8 DEF TabsInv, GetsInv
    <2>2. \A x \in Tabs : \A d \in gets'[x] : GetFits(d)'
      BY <1>2, <2>1 DEF GetFits, Sessions
    <2>3. \A x \in Tabs : \A c, d \in gets'[x] : c.kept /\ d.kept => c = d
      BY <1>5, <1>8 DEF TabsInv, GetsInv
    <2> QED
      BY <2>2, <2>3 DEF GetsInv
  <1>11. CertainInv'
    BY <1>2, <1>5, <1>8 DEF TabsInv, CertainInv
  <1>12. ChangedInv'
    <2>1. ASSUME NEW x \in Tabs, changedHere[x] # NoOne, x \notin blind, NEW d \in gets'[x], d.kept, d.answer = "ok", d.who = changedHere[x]
          PROVE  ~d.must
      <3>1. CASE d \in gets[x]
        BY <2>1, <3>1 DEF TabsInv, ChangedInv
      <3>2. CASE d = new
        BY <1>6, <2>1, <3>2 DEF TabsInv, ChangedInv
      <3> QED
        BY <1>8, <2>1, <3>1, <3>2
    <2> QED
      BY <1>2, <2>1 DEF TabsInv, ChangedInv
  <1> QED
    BY <1>9, <1>10, <1>11, <1>12 DEF TabsInv

\* Signed out, sent away or revoked: this tab forgets what it held, or is counted among those
\* whose token was taken away behind their back, as all others are.
LEMMA TokenGoes ==
    ASSUME TabsInv, NEW t \in Tabs,
           token' = NoSession, UNCHANGED <<owner, mustChange, signer, changedHere, blind>>, ended' \subseteq Sessions,
           page' \in [Tabs -> {"landing", "auth", "password", "admin"}],
           changing' \in {changing, [changing EXCEPT ![t] = NotChanging]},
           gets' \in [Tabs -> SUBSET MeCalls],
           \A x \in Tabs : \A g \in gets'[x] : g \in gets[x] \/ (GetFits(g) /\ ~g.kept),
           me' \in [Tabs -> StaffOrNoOne], mustSeen' \in [Tabs -> BOOLEAN],
           \A x \in Tabs : (me'[x] = me[x] /\ mustSeen'[x] = mustSeen[x]) \/ (me'[x] = NoOne /\ ~mustSeen'[x]),
           uncertain' \subseteq Tabs, Tabs \ {t} \subseteq uncertain',
           t \notin uncertain' => me'[t] = NoOne /\ \A g \in gets'[t] : ~g.kept
    PROVE  TabsInv'
  <1>1. /\ changing' \in [Tabs -> [call : {Idle, Asked, "ok", "error"}, by : Nat]]
        /\ \A x \in Tabs : changing'[x].call # Idle => changing'[x].by \in Sessions
    <2>1. CASE changing' = changing
      BY <2>1 DEF TabsInv, SessionTypes
    <2>2. CASE changing' = [changing EXCEPT ![t] = NotChanging]
      BY <2>2, NotChangingFits DEF TabsInv, SessionTypes
    <2> QED
      BY <2>1, <2>2
  <1>2. SessionTypes'
    BY <1>1 DEF TabsInv, SessionTypes, Sessions
  <1>3. GetsInv'
    <2>1. \A x \in Tabs : \A g \in gets'[x] : GetFits(g)
      BY DEF TabsInv, GetsInv
    <2>2. \A x \in Tabs : \A g \in gets'[x] : GetFits(g)'
      BY <2>1 DEF GetFits, Sessions
    <2>3. \A x \in Tabs : \A g, d \in gets'[x] : g.kept /\ d.kept => g = d
      BY DEF TabsInv, GetsInv
    <2> QED
      BY <2>2, <2>3 DEF GetsInv
  <1>4. CertainInv'
    BY DEF CertainInv
  <1>5. ChangedInv'
    <2>1. \A x \in Tabs \ blind : changedHere[x] # NoOne => (me'[x] = changedHere[x] => ~mustSeen'[x])
      BY DEF TabsInv, ChangedInv
    <2>2. \A x \in Tabs \ blind : changedHere[x] # NoOne => \A g \in gets'[x] : g.kept /\ g.answer = "ok" /\ g.who = changedHere[x] => ~g.must
      BY DEF TabsInv, ChangedInv
    <2> QED
      BY <2>1, <2>2 DEF TabsInv, ChangedInv
  <1> QED
    BY <1>2, <1>3, <1>4, <1>5 DEF TabsInv

LEMMA RedirectedKeeps ==
    ASSUME TabsInv, NEW t \in Tabs, Redirected(t), UNCHANGED <<owner, mustChange, signer, changedHere, blind>>, ended' \subseteq Sessions,
           NEW rest \in SUBSET gets[t],
           gets' = [gets EXCEPT ![t] = IF page[t] \in {"auth", "password"} THEN rest ELSE {}]
    PROVE  TabsInv'
  <1>1. page' = [page EXCEPT ![t] = "auth"] /\ token' = NoSession
    BY DEF Redirected
  <1>2. page' \in [Tabs -> {"landing", "auth", "password", "admin"}]
    BY <1>1 DEF TabsInv, SessionTypes
  <1>3. /\ gets' \in [Tabs -> SUBSET MeCalls] /\ (\A x \in Tabs : gets'[x] \subseteq gets[x])
        /\ page[t] \notin {"auth", "password"} => gets'[t] = {}
    BY DEF TabsInv, SessionTypes
  <1>4. CASE page[t] \in {"auth", "password"}
    <2>1. UNCHANGED <<me, mustSeen, changing>> /\ uncertain' = Tabs
      BY <1>4 DEF Redirected
    <2> QED
      BY <1>1, <1>2, <1>3, <2>1, TokenGoes DEF TabsInv, SessionTypes
  <1>5. CASE page[t] \notin {"auth", "password"}
    <2>1. /\ me' = [me EXCEPT ![t] = NoOne] /\ mustSeen' = [mustSeen EXCEPT ![t] = FALSE]
          /\ changing' = [changing EXCEPT ![t] = NotChanging]
          /\ uncertain' = (uncertain \ {t}) \cup (Tabs \ {t})
      BY <1>5 DEF Redirected
    <2>2. me' \in [Tabs -> StaffOrNoOne] /\ mustSeen' \in [Tabs -> BOOLEAN] /\ uncertain' \subseteq Tabs
      BY <2>1 DEF TabsInv, SessionTypes, StaffOrNoOne
    <2>3. \A x \in Tabs : (me'[x] = me[x] /\ mustSeen'[x] = mustSeen[x]) \/ (me'[x] = NoOne /\ ~mustSeen'[x])
      BY <2>1 DEF TabsInv, SessionTypes
    <2>4. me'[t] = NoOne
      BY <2>1 DEF TabsInv, SessionTypes
    <2> QED
      BY <1>1, <1>2, <1>3, <1>5, <2>1, <2>2, <2>3, <2>4, TokenGoes
  <1> QED
    BY <1>4, <1>5

\* An answer that still counts is of the token's account; a refusal sends the tab away.
LEMMA MeAnsweredKeeps == ASSUME TabsInv, NEW t \in Tabs, NEW g \in gets[t], MeAnswered(t, g) PROVE TabsInv'
  <1>1. UNCHANGED <<owner, ended, mustChange, signer, changedHere, blind>>
    BY DEF MeAnswered
  <1>2. CASE g.answer = "refused"
    <2>1. Redirected(t) /\ gets' = [gets EXCEPT ![t] = IF page[t] \in {"auth", "password"} THEN gets[t] \ {g} ELSE {}]
      BY <1>2 DEF MeAnswered
    <2>2. gets[t] \ {g} \in SUBSET gets[t] /\ ended' \subseteq Sessions
      BY <1>1 DEF TabsInv, SessionTypes
    <2> QED
      BY <1>1, <2>1, <2>2, RedirectedKeeps
  <1>3. CASE g.answer # "refused"
    <2>1. /\ gets' = [gets EXCEPT ![t] = @ \ {g}]
          /\ me' = [me EXCEPT ![t] = IF g.kept THEN g.who ELSE @]
          /\ mustSeen' = [mustSeen EXCEPT ![t] = IF g.kept THEN g.must ELSE @]
          /\ UNCHANGED <<token, changing, uncertain, changedHere, blind>> /\ Renders(t)
      BY <1>3 DEF MeAnswered
    <2>2. g \in MeCalls /\ GetFits(g) /\ g.answer = "ok"
      BY <1>3 DEF MeAnswered, TabsInv, SessionTypes, GetsInv, MeCalls
    <2>3. /\ \A x \in Tabs : gets'[x] \subseteq gets[x]
          /\ \A x \in Tabs : x # t \/ ~g.kept => me'[x] = me[x] /\ mustSeen'[x] = mustSeen[x]
          /\ g.kept => me'[t] = g.who /\ mustSeen'[t] = g.must
      BY <2>1 DEF TabsInv, SessionTypes
    <2>4. SessionTypes'
      <3>1. gets' \in [Tabs -> SUBSET MeCalls] /\ me' \in [Tabs -> StaffOrNoOne] /\ mustSeen' \in [Tabs -> BOOLEAN]
        BY <2>1, <2>2 DEF TabsInv, SessionTypes, GetFits
      <3>2. Guarded(t, me'[t], mustSeen'[t]) \in {"auth", "password", "admin"}
        BY DEF Guarded
      <3>3. page' \in [Tabs -> {"landing", "auth", "password", "admin"}]
        BY <2>1, <3>2 DEF Renders, TabsInv, SessionTypes
      <3> QED
        BY <1>1, <2>1, <3>1, <3>3 DEF TabsInv, SessionTypes, Sessions
    <2>5. GetsInv'
      <3>1. \A x \in Tabs : \A d \in gets'[x] : GetFits(d)'
        BY <1>1, <2>3 DEF TabsInv, GetsInv, GetFits, Sessions
      <3> QED
        BY <2>3, <3>1 DEF TabsInv, GetsInv
    <2>6. CertainInv'
      <3>1. ASSUME NEW x \in Tabs, x \notin uncertain
            PROVE  /\ me'[x] = NoOne \/ (token # NoSession /\ me'[x] = owner[token])
                   /\ \A d \in gets'[x] : d.kept => token # NoSession /\ d.session = token
        <4>1. CASE x = t /\ g.kept
          <5>1. token # NoSession /\ g.session = token
            BY <3>1, <4>1 DEF TabsInv, CertainInv
          <5> QED
            BY <2>2, <2>3, <3>1, <4>1, <5>1 DEF TabsInv, CertainInv, GetFits
        <4>2. CASE x # t \/ ~g.kept
          BY <2>3, <3>1, <4>2 DEF TabsInv, CertainInv
        <4> QED
          BY <4>1, <4>2
      <3> QED
        BY <1>1, <2>1, <3>1 DEF CertainInv
    <2>7. ChangedInv'
      <3>1. ASSUME NEW x \in Tabs \ blind, changedHere[x] # NoOne, me'[x] = changedHere[x] PROVE ~mustSeen'[x]
        <4>1. CASE x = t /\ g.kept
          BY <2>2, <2>3, <3>1, <4>1 DEF TabsInv, ChangedInv
        <4>2. CASE x # t \/ ~g.kept
          BY <2>3, <3>1, <4>2 DEF TabsInv, ChangedInv
        <4> QED
          BY <4>1, <4>2
      <3> QED
        BY <1>1, <2>3, <3>1 DEF TabsInv, ChangedInv
    <2> QED
      BY <2>4, <2>5, <2>6, <2>7 DEF TabsInv
  <1> QED
    BY <1>2, <1>3

LEMMA SignOutKeeps == ASSUME TabsInv, NEW t \in Tabs, SignOutStaff(t) PROVE TabsInv'
  <1>1. /\ token \in Sessions /\ ended' \in {ended, ended \cup {token}} /\ token' = NoSession
        /\ page' = [page EXCEPT ![t] = "landing"]
        /\ me' = [me EXCEPT ![t] = NoOne] /\ mustSeen' = [mustSeen EXCEPT ![t] = FALSE]
        /\ gets' = [gets EXCEPT ![t] = Forget(@)]
        /\ uncertain' = (uncertain \ {t}) \cup (Tabs \ {t}) /\ changing' = [changing EXCEPT ![t] = NotChanging]
        /\ UNCHANGED <<owner, mustChange, signer, changedHere, blind>>
    BY DEF SignOutStaff, ClearsCache, TabsInv, SessionTypes
  <1>2. page' \in [Tabs -> {"landing", "auth", "password", "admin"}] /\ ended' \subseteq Sessions /\ uncertain' \subseteq Tabs
    BY <1>1 DEF TabsInv, SessionTypes
  <1>3. me' \in [Tabs -> StaffOrNoOne] /\ mustSeen' \in [Tabs -> BOOLEAN]
    BY <1>1 DEF TabsInv, SessionTypes, StaffOrNoOne
  <1>4. \A x \in Tabs : (me'[x] = me[x] /\ mustSeen'[x] = mustSeen[x]) \/ (me'[x] = NoOne /\ ~mustSeen'[x])
    BY <1>1 DEF TabsInv, SessionTypes
  <1>5. \A x \in Tabs : gets'[x] = IF x = t THEN Forget(gets[t]) ELSE gets[x]
    BY <1>1 DEF TabsInv, SessionTypes
  <1>6. gets' \in [Tabs -> SUBSET MeCalls]
    BY <1>1, ForgottenFit DEF TabsInv, SessionTypes
  <1>7. \A x \in Tabs : \A g \in gets'[x] : g \in gets[x] \/ (GetFits(g) /\ ~g.kept)
    BY <1>5, ForgottenFit
  <1>8. me'[t] = NoOne /\ \A g \in gets'[t] : ~g.kept
    BY <1>1, <1>5, ForgottenFit DEF TabsInv, SessionTypes
  <1> QED
    BY <1>1, <1>2, <1>3, <1>4, <1>6, <1>7, <1>8, TokenGoes

LEMMA RevokeKeeps == ASSUME TabsInv, NEW t \in Tabs, RevokeStaff(t) PROVE TabsInv'
  <1>1. /\ token \in Sessions /\ ended' = ended \cup {token} /\ Redirected(t)
        /\ gets' = [gets EXCEPT ![t] = IF page[t] \in {"auth", "password"} THEN gets[t] ELSE {}]
        /\ UNCHANGED <<owner, mustChange, signer, changedHere, blind>>
    BY DEF RevokeStaff, TabsInv, SessionTypes
  <1> QED
    BY <1>1, RedirectedKeeps DEF TabsInv, SessionTypes

\* Whoever signs in finds no token: what tabs hold that were not cut off is nothing.
LEMMA SignInKeeps == ASSUME TabsInv, NEW t \in Tabs, NEW u \in Staff, SignInStaff(t, u) PROVE TabsInv'
  <1>1. PICK n \in Nat : owner \in [1..n -> Staff]
    BY DEF TabsInv, SessionTypes
  <1>2. Sessions = 1..n /\ Cardinality(DOMAIN owner) = n /\ n + 1 # NoSession
    BY <1>1, SessionsCount DEF Sessions
  <1>3. /\ token = NoSession /\ token' = n + 1 /\ owner' = [x \in 1..(n + 1) |-> IF x = n + 1 THEN u ELSE owner[x]]
        /\ me' = [me EXCEPT ![t] = u] /\ mustSeen' = [mustSeen EXCEPT ![t] = u \in mustChange]
        /\ page' = [page EXCEPT ![t] = IF u \in mustChange THEN "password" ELSE "admin"] /\ signer' = t
        /\ UNCHANGED <<ended, mustChange, gets, changing, uncertain, changedHere, blind>>
    BY <1>2 DEF SignInStaff
  <1>4. owner' \in [1..(n + 1) -> Staff]
    <2>1. \A x \in 1..(n + 1) : x # n + 1 => x \in 1..n
      BY <1>2
    <2> QED
      BY <1>1, <1>3, <2>1
  <1>5. Sessions' = 1..(n + 1) /\ Sessions \subseteq Sessions' /\ n + 1 \in Sessions' /\ n + 1 \in Nat
    BY <1>2, <1>4 DEF Sessions
  <1>6. \A x \in Sessions : owner'[x] = owner[x]
    BY <1>2, <1>3
  <1>7. owner'[n + 1] = u
    BY <1>3, <1>5
  <1>8. \A x \in Tabs : /\ me'[x] = IF x = t THEN u ELSE me[x]
                        /\ mustSeen'[x] = IF x = t THEN u \in mustChange ELSE mustSeen[x]
    BY <1>3 DEF TabsInv, SessionTypes
  <1>9. SessionTypes'
    <2>1. me' \in [Tabs -> StaffOrNoOne] /\ mustSeen' \in [Tabs -> BOOLEAN]
      BY <1>3 DEF TabsInv, SessionTypes, StaffOrNoOne
    <2>2. page' \in [Tabs -> {"landing", "auth", "password", "admin"}]
      BY <1>3 DEF TabsInv, SessionTypes
    <2>3. \E m \in Nat : owner' \in [1..m -> Staff]
      BY <1>4, <1>5
    <2>4. token' \in {NoSession} \cup Sessions' /\ ended' \subseteq Sessions'
      BY <1>3, <1>5 DEF TabsInv, SessionTypes
    <2>5. \A x \in Tabs : changing'[x].call # Idle => changing'[x].by \in Sessions'
      BY <1>3, <1>5 DEF TabsInv, SessionTypes
    <2> QED
      BY <1>3, <2>1, <2>2, <2>3, <2>4, <2>5 DEF TabsInv, SessionTypes
  <1>10. GetsInv'
    <2>1. \A x \in Tabs : \A g \in gets'[x] : GetFits(g)'
      BY <1>3, <1>5, <1>6 DEF TabsInv, GetsInv, GetFits
    <2> QED
      BY <1>3, <2>1 DEF TabsInv, GetsInv
  <1>11. CertainInv'
    <2>1. \A x \in Tabs \ uncertain : me[x] = NoOne /\ \A g \in gets[x] : ~g.kept
      BY <1>3 DEF TabsInv, CertainInv
    <2>2. \A x \in Tabs \ uncertain : me'[x] = NoOne \/ (token' # NoSession /\ me'[x] = owner'[token'])
      BY <1>2, <1>3, <1>7, <1>8, <2>1
    <2> QED
      BY <1>3, <2>1, <2>2 DEF CertainInv
  <1>12. ChangedInv'
    <2>1. ASSUME NEW x \in Tabs \ blind, changedHere[x] # NoOne, me'[x] = changedHere[x] PROVE ~mustSeen'[x]
      <3>1. CASE x = t
        <4>1. u \notin mustChange
          BY <1>8, <2>1, <3>1 DEF TabsInv, ChangedInv
        <4> QED
          BY <1>8, <3>1, <4>1
      <3>2. CASE x # t
        BY <1>8, <2>1, <3>2 DEF TabsInv, ChangedInv
      <3> QED
        BY <3>1, <3>2
    <2> QED
      BY <1>3, <2>1 DEF TabsInv, ChangedInv
  <1> QED
    BY <1>9, <1>10, <1>11, <1>12 DEF TabsInv

LEMMA ResetKeeps == ASSUME TabsInv, NEW u \in Staff, ResetStaff(u) PROVE TabsInv'
  <1>1. /\ mustChange' = mustChange \cup {u}
        /\ changedHere' = [t \in Tabs |-> IF changedHere[t] = u THEN NoOne ELSE changedHere[t]]
        /\ UNCHANGED <<token, owner, ended, page, me, mustSeen, gets, changing, signer, uncertain, blind>>
    BY DEF ResetStaff
  <1>2. SessionTypes'
    <2>1. changedHere' \in [Tabs -> StaffOrNoOne]
      BY <1>1 DEF TabsInv, SessionTypes, StaffOrNoOne
    <2> QED
      BY <1>1, <2>1 DEF TabsInv, SessionTypes, Sessions
  <1>3. GetsInv'
    BY <1>1 DEF TabsInv, GetsInv, GetFits, Sessions
  <1>4. CertainInv'
    BY <1>1 DEF TabsInv, CertainInv
  <1>5. ChangedInv'
    BY <1>1 DEF TabsInv, ChangedInv
  <1> QED
    BY <1>2, <1>3, <1>4, <1>5 DEF TabsInv

\* A page loaded anew knows nothing and awaits nothing.
LEMMA ReloadKeeps == ASSUME TabsInv, NEW t \in Tabs, NEW p \in {"landing", "password", "admin"}, Reload(t, p) PROVE TabsInv'
  <1>1. /\ me' = [me EXCEPT ![t] = NoOne] /\ mustSeen' = [mustSeen EXCEPT ![t] = FALSE] /\ gets' = [gets EXCEPT ![t] = {}]
        /\ changing' = [changing EXCEPT ![t] = NotChanging] /\ uncertain' = uncertain \ {t} /\ blind' = blind \ {t}
        /\ UNCHANGED <<token, owner, ended, mustChange, signer, changedHere>>
    BY DEF Reload
  <1>2. page' \in [Tabs -> {"landing", "auth", "password", "admin"}]
    BY DEF Reload, TabsInv, SessionTypes
  <1>3. \A x \in Tabs : /\ me'[x] = IF x = t THEN NoOne ELSE me[x]
                        /\ mustSeen'[x] = IF x = t THEN FALSE ELSE mustSeen[x]
                        /\ gets'[x] = IF x = t THEN {} ELSE gets[x]
    BY <1>1 DEF TabsInv, SessionTypes
  <1>4. SessionTypes'
    <2>1. me' \in [Tabs -> StaffOrNoOne] /\ mustSeen' \in [Tabs -> BOOLEAN] /\ gets' \in [Tabs -> SUBSET MeCalls]
      BY <1>1 DEF TabsInv, SessionTypes, StaffOrNoOne
    <2>2. /\ changing' \in [Tabs -> [call : {Idle, Asked, "ok", "error"}, by : Nat]]
          /\ \A x \in Tabs : changing'[x].call # Idle => changing'[x].by \in Sessions
      BY <1>1, NotChangingFits DEF TabsInv, SessionTypes
    <2> QED
      BY <1>1, <1>2, <2>1, <2>2 DEF TabsInv, SessionTypes, Sessions
  <1>5. GetsInv'
    <2>1. ASSUME NEW x \in Tabs
          PROVE  (\A g \in gets'[x] : GetFits(g)') /\ \A g, d \in gets'[x] : g.kept /\ d.kept => g = d
      <3>1. CASE x = t
        BY <1>3, <3>1
      <3>2. CASE x # t
        <4>1. gets'[x] = gets[x] /\ owner' = owner
          BY <1>1, <1>3, <3>2
        <4> QED
          BY <4>1 DEF TabsInv, GetsInv, GetFits, Sessions
      <3> QED
        BY <3>1, <3>2
    <2> QED
      BY <2>1 DEF GetsInv
  <1>6. CertainInv'
    <2>1. ASSUME NEW x \in Tabs, x \notin uncertain'
          PROVE  /\ me'[x] = NoOne \/ (token' # NoSession /\ me'[x] = owner'[token'])
                 /\ \A g \in gets'[x] : g.kept => token' # NoSession /\ g.session = token'
      <3>1. CASE x = t
        BY <1>3, <3>1
      <3>2. CASE x # t
        <4>1. me'[x] = me[x] /\ gets'[x] = gets[x] /\ token' = token /\ owner' = owner /\ x \notin uncertain
          BY <1>1, <1>3, <2>1, <3>2
        <4> QED
          BY <4>1 DEF TabsInv, CertainInv
      <3> QED
        BY <3>1, <3>2
    <2> QED
      BY <2>1 DEF CertainInv
  <1>7. ChangedInv'
    <2>1. ASSUME NEW x \in Tabs, changedHere'[x] # NoOne
          PROVE  /\ changedHere'[x] \notin mustChange'
                 /\ x \notin blind' /\ me'[x] = changedHere'[x] => ~mustSeen'[x]
                 /\ x \notin blind' => \A g \in gets'[x] : g.kept /\ g.answer = "ok" /\ g.who = changedHere'[x] => ~g.must
      <3>1. CASE x = t
        <4>1. /\ me'[x] = NoOne /\ mustSeen'[x] = FALSE /\ gets'[x] = {}
              /\ changedHere' = changedHere /\ mustChange' = mustChange
          BY <1>1, <1>3, <3>1
        <4>2. changedHere'[x] \notin mustChange'
          BY <2>1, <4>1 DEF TabsInv, ChangedInv
        <4> QED
          BY <4>1, <4>2
      <3>2. CASE x # t
        <4>1. /\ me'[x] = me[x] /\ gets'[x] = gets[x] /\ mustSeen'[x] = mustSeen[x]
              /\ changedHere' = changedHere /\ mustChange' = mustChange
              /\ x \notin blind' => x \notin blind
          BY <1>1, <1>3, <3>2
        <4> QED
          BY <2>1, <4>1 DEF TabsInv, ChangedInv
      <3> QED
        BY <3>1, <3>2
    <2> QED
      BY <2>1 DEF ChangedInv
  <1> QED
    BY <1>4, <1>5, <1>6, <1>7 DEF TabsInv

\* The change is known and the account asked for anew: no answer from before it counts, unless
\* nothing was cached and it is still awaited.
LEMMA ChangeAnsweredKeeps == ASSUME TabsInv, NEW t \in Tabs, ChangeAnswered(t) PROVE TabsInv'
  <1>1. /\ changing' = [changing EXCEPT ![t] = NotChanging] /\ changing[t].call \in {"ok", "error"}
        /\ UNCHANGED <<token, owner, ended, mustChange, me, signer, uncertain>>
    BY DEF ChangeAnswered
  <1>2. /\ changing' \in [Tabs -> [call : {Idle, Asked, "ok", "error"}, by : Nat]]
        /\ \A x \in Tabs : changing'[x].call # Idle => changing'[x].by \in Sessions
    BY <1>1, NotChangingFits DEF TabsInv, SessionTypes
  <1>3. CASE changing[t].call # "ok"
    <2>1. UNCHANGED <<mustSeen, gets, page, changedHere, blind>>
      BY <1>3 DEF ChangeAnswered
    <2> QED
      BY <1>1, <1>2, <2>1, PagesTurn DEF TabsInv, SessionTypes
  <1>4. CASE changing[t].call = "ok"
    <2> DEFINE w == IF owner[changing[t].by] \in mustChange THEN NoOne ELSE owner[changing[t].by]
    <2>1. /\ changedHere' = [changedHere EXCEPT ![t] = w] /\ mustSeen' = [mustSeen EXCEPT ![t] = FALSE]
          /\ gets' = [gets EXCEPT ![t] = AskedAnew(t)]
          /\ page' = [page EXCEPT ![t] = IF @ = "password" THEN Guarded(t, me[t], FALSE) ELSE @]
          /\ blind' = IF me[t] = NoOne /\ AlreadyAsking(t) THEN blind \cup {t} ELSE blind \ {t}
      BY <1>4 DEF ChangeAnswered
    <2>2. changing[t].by \in Sessions
      BY <1>4 DEF TabsInv, SessionTypes, Idle
    <2>3. w \in StaffOrNoOne /\ (w # NoOne => w \notin mustChange)
      BY <2>2 DEF TabsInv, SessionTypes, StaffOrNoOne, Sessions
    <2>4. /\ AskedAnew(t) \subseteq MeCalls
          /\ \A g \in AskedAnew(t) : GetFits(g)
          /\ AskedAnew(t) = gets[t] \/ \A g \in AskedAnew(t) : g.kept => g = FreshGet /\ token # NoSession
          /\ t \notin blind' => \A g \in AskedAnew(t) : g.kept => g = FreshGet /\ token # NoSession
      <3> DEFINE fresh == IF token = NoSession THEN {} ELSE {FreshGet}
      <3>1. fresh \subseteq MeCalls /\ \A g \in fresh : GetFits(g) /\ g = FreshGet /\ token # NoSession
        BY FreshFits
      <3>2. gets[t] \subseteq MeCalls /\ \A g \in gets[t] : GetFits(g)
        BY DEF TabsInv, SessionTypes, GetsInv
      <3>3. AskedAnew(t) = IF me[t] # NoOne THEN Forget(gets[t]) \cup fresh
                           ELSE IF AlreadyAsking(t) THEN gets[t] ELSE gets[t] \cup fresh
        BY DEF AskedAnew
      <3> HIDE DEF fresh
      <3>4. CASE me[t] # NoOne
        BY <3>1, <3>3, <3>4, ForgottenFit
      <3>5. CASE me[t] = NoOne /\ AlreadyAsking(t)
        BY <2>1, <3>2, <3>3, <3>5
      <3>6. CASE me[t] = NoOne /\ ~AlreadyAsking(t)
        BY <3>1, <3>2, <3>3, <3>6 DEF AlreadyAsking
      <3> QED
        BY <3>4, <3>5, <3>6
    <2>5. \A x \in Tabs : /\ gets'[x] = IF x = t THEN AskedAnew(t) ELSE gets[x]
                          /\ changedHere'[x] = IF x = t THEN w ELSE changedHere[x]
                          /\ mustSeen'[x] = IF x = t THEN FALSE ELSE mustSeen[x]
                          /\ x # t => (x \in blind' <=> x \in blind)
      BY <2>1 DEF TabsInv, SessionTypes
    <2>6. SessionTypes'
      <3>1. gets' \in [Tabs -> SUBSET MeCalls]
        BY <2>1, <2>4 DEF TabsInv, SessionTypes
      <3>2. changedHere' \in [Tabs -> StaffOrNoOne] /\ mustSeen' \in [Tabs -> BOOLEAN]
        BY <2>1, <2>3 DEF TabsInv, SessionTypes
      <3>3. Guarded(t, me[t], FALSE) \in {"auth", "password", "admin"}
        BY DEF Guarded
      <3>4. page' \in [Tabs -> {"landing", "auth", "password", "admin"}]
        BY <2>1, <3>3 DEF TabsInv, SessionTypes
      <3> QED
        BY <1>1, <1>2, <2>1, <3>1, <3>2, <3>4 DEF TabsInv, SessionTypes, Sessions
    <2>7. GetsInv'
      <3>1. \A x \in Tabs : \A g \in gets'[x] : GetFits(g)
        BY <2>4, <2>5 DEF TabsInv, GetsInv
      <3>2. \A x \in Tabs : \A g \in gets'[x] : GetFits(g)'
        BY <1>1, <3>1 DEF GetFits, Sessions
      <3>3. \A g, d \in AskedAnew(t) : g.kept /\ d.kept => g = d
        <4>1. CASE AskedAnew(t) = gets[t]
          BY <4>1 DEF TabsInv, GetsInv
        <4>2. CASE \A g \in AskedAnew(t) : g.kept => g = FreshGet /\ token # NoSession
          BY <4>2, Zenon
        <4> QED
          BY <2>4, <4>1, <4>2
      <3>4. \A x \in Tabs : \A g, d \in gets'[x] : g.kept /\ d.kept => g = d
        BY <2>5, <3>3 DEF TabsInv, GetsInv
      <3> QED
        BY <3>2, <3>4 DEF GetsInv
    <2>8. CertainInv'
      <3>1. t \notin uncertain => \A g \in AskedAnew(t) : g.kept => token # NoSession /\ g.session = token
        <4>1. CASE AskedAnew(t) = gets[t]
          BY <4>1 DEF TabsInv, CertainInv
        <4>2. CASE \A g \in AskedAnew(t) : g.kept => g = FreshGet /\ token # NoSession
          BY <4>2, FreshFits
        <4> QED
          BY <2>4, <4>1, <4>2
      <3> QED
        BY <1>1, <2>5, <3>1 DEF TabsInv, CertainInv
    <2>9. ChangedInv'
      <3>1. t \notin blind' => \A g \in AskedAnew(t) : g.kept => g.answer # "ok"
        BY <2>4, FreshFits
      <3>2. ASSUME NEW x \in Tabs, changedHere'[x] # NoOne
            PROVE  /\ changedHere'[x] \notin mustChange
                   /\ x \notin blind' /\ me[x] = changedHere'[x] => ~mustSeen'[x]
                   /\ x \notin blind' => \A g \in gets'[x] : g.kept /\ g.answer = "ok" /\ g.who = changedHere'[x] => ~g.must
        <4>1. CASE x = t
          BY <2>3, <2>5, <3>1, <3>2, <4>1
        <4>2. CASE x # t
          BY <2>5, <3>2, <4>2 DEF TabsInv, ChangedInv
        <4> QED
          BY <4>1, <4>2
      <3> QED
        BY <1>1, <3>2 DEF ChangedInv
    <2> QED
      BY <2>6, <2>7, <2>8, <2>9 DEF TabsInv
  <1> QED
    BY <1>3, <1>4

LEMMA TabsKeep == ASSUME TabsInv, TabStep PROVE TabsInv'
  BY VisitKeeps, ReloadKeeps, SignInKeeps, FetchMeKeeps, ServeMeKeeps, MeAnsweredKeeps, RevokeKeeps, AskChangeKeeps,
     ServeChangeKeeps, ChangeAnsweredKeeps, SignOutKeeps, LoseChangeKeeps, ResetKeeps DEF TabStep

-----------------------------------------------------------------------------
(* Console: the dialogs *)

Answers == {Idle, Asked, "ok", "error"}
DialogTypes ==
    /\ dialog \in [Dialogs -> [event : ConsoleEvents \cup {NoOne}, text : Nat, call : Answers, carries : Nat]]
    /\ texts \in 0..MaxTyped /\ sent \in [Dialogs -> [1..MaxTyped -> Nat]]
    /\ \A k \in Dialogs : /\ dialog[k].text <= texts
                          /\ dialog[k].call # Idle => dialog[k].carries \in 1..texts

\* A text that took effect is about to be cleared, or is neither in the dialog nor on its way.
Used(k, n) ==
    /\ sent[k][n] <= 1
    /\ sent[k][n] > 0 =>
         /\ n <= texts
         /\ \/ dialog[k].call = "ok" /\ dialog[k].carries = n
            \/ dialog[k].text # n /\ (dialog[k].call = Idle \/ dialog[k].carries # n)
UsedInv == \A k \in Dialogs : \A n \in 1..MaxTyped : sent[k][n] > 0 => n <= texts
OnceInv == \A k \in Dialogs : \A n \in 1..MaxTyped : <<k, n>> \notin lostTexts => Used(k, n)
DialogsInv == DialogTypes /\ UsedInv /\ OnceInv

LEMMA DialogsIdle == ASSUME DialogsInv, UNCHANGED dialogVars PROVE DialogsInv'
  <1>1. UNCHANGED <<dialog, sent, lostTexts, texts>>
    BY DEF dialogVars
  <1> QED
    BY <1>1 DEF DialogsInv, DialogTypes, UsedInv, OnceInv, Used

\* One dialog's step that sends nothing.
LEMMA DialogMoves ==
    ASSUME DialogsInv, NEW k \in Dialogs,
           NEW d \in [event : ConsoleEvents \cup {NoOne}, text : Nat, call : Answers, carries : Nat],
           dialog' = [dialog EXCEPT ![k] = d], UNCHANGED sent, lostTexts \subseteq lostTexts',
           texts' \in texts..MaxTyped, d.text <= texts', d.call # Idle => d.carries \in 1..texts',
           \A n \in 1..MaxTyped : <<k, n>> \notin lostTexts' /\ Used(k, n) /\ sent[k][n] > 0 =>
               \/ d.call = "ok" /\ d.carries = n
               \/ d.text # n /\ (d.call = Idle \/ d.carries # n)
    PROVE  DialogsInv'
  <1>1. texts \in Nat /\ texts' \in Nat /\ MaxTyped \in Nat /\ texts <= texts' /\ texts' <= MaxTyped
    BY ConsoleConstants DEF DialogsInv, DialogTypes
  <1>2. \A x \in Dialogs : dialog'[x] = IF x = k THEN d ELSE dialog[x]
    BY DEF DialogsInv, DialogTypes
  <1>3. DialogTypes'
    <2>1. dialog' \in [Dialogs -> [event : ConsoleEvents \cup {NoOne}, text : Nat, call : Answers, carries : Nat]]
      BY DEF DialogsInv, DialogTypes
    <2>2. ASSUME NEW x \in Dialogs, x # k
          PROVE  dialog'[x].text <= texts' /\ (dialog'[x].call # Idle => dialog'[x].carries \in 1..texts')
      <3>1. dialog'[x] = dialog[x] /\ dialog[x].text \in Nat /\ dialog[x].carries \in Nat
        BY <1>2, <2>2 DEF DialogsInv, DialogTypes
      <3>2. dialog[x].text <= texts /\ (dialog[x].call # Idle => dialog[x].carries \in 1..texts)
        BY DEF DialogsInv, DialogTypes
      <3> QED
        BY <1>1, <3>1, <3>2
    <2>3. \A x \in Dialogs : dialog'[x].text <= texts' /\ (dialog'[x].call # Idle => dialog'[x].carries \in 1..texts')
      BY <1>2, <2>2
    <2>4. texts' \in 0..MaxTyped
      BY <1>1
    <2> QED
      BY <2>1, <2>3, <2>4 DEF DialogsInv, DialogTypes
  <1>4. UsedInv'
    BY <1>1 DEF DialogsInv, UsedInv
  <1>5. OnceInv'
    <2>1. ASSUME NEW x \in Dialogs, NEW n \in 1..MaxTyped, <<x, n>> \notin lostTexts' PROVE Used(x, n)'
      <3>1. Used(x, n) /\ (sent[x][n] > 0 => n <= texts')
        BY <1>1, <2>1 DEF DialogsInv, OnceInv, UsedInv
      <3>2. CASE x = k
        BY <1>2, <2>1, <3>1, <3>2 DEF Used
      <3>3. CASE x # k
        BY <1>2, <3>1, <3>3 DEF Used
      <3> QED
        BY <3>2, <3>3
    <2> QED
      BY <2>1 DEF OnceInv
  <1> QED
    BY <1>3, <1>4, <1>5 DEF DialogsInv

LEMMA DialogIs ==
    ASSUME DialogsInv, NEW k \in Dialogs
    PROVE  /\ dialog[k] \in [event : ConsoleEvents \cup {NoOne}, text : Nat, call : Answers, carries : Nat]
           /\ dialog[k].text \in Nat /\ dialog[k].carries \in Nat /\ dialog[k].text <= texts
           /\ dialog[k].call # Idle => dialog[k].carries \in 1..texts
  BY DEF DialogsInv, DialogTypes

LEMMA TextsCount == DialogsInv => texts \in Nat /\ texts <= MaxTyped /\ MaxTyped \in Nat /\ texts \in texts..MaxTyped
  BY ConsoleConstants DEF DialogsInv, DialogTypes

LEMMA CallNames == Idle # "ok" /\ Idle # "error" /\ Idle # Asked /\ Asked # "ok" /\ Asked # "error"
                   /\ Idle \in Answers /\ Asked \in Answers /\ "ok" \in Answers /\ "error" \in Answers
  BY DEF Idle, Asked, Answers

LEMMA OpenDialogKeeps ==
    ASSUME DialogsInv, NEW k \in Dialogs, NEW e \in ConsoleEvents \cup {NoOne},
           dialog' = [dialog EXCEPT ![k].event = e], UNCHANGED <<sent, lostTexts, texts>>
    PROVE  DialogsInv'
  <1>1. PICK d : d = [dialog[k] EXCEPT !.event = e]
    OBVIOUS
  <1>2. dialog' = [dialog EXCEPT ![k] = d]
    BY <1>1
  <1>3. /\ d \in [event : ConsoleEvents \cup {NoOne}, text : Nat, call : Answers, carries : Nat]
        /\ d.text = dialog[k].text /\ d.call = dialog[k].call /\ d.carries = dialog[k].carries
    BY <1>1, DialogIs
  <1>4. \A n \in 1..MaxTyped : Used(k, n) /\ sent[k][n] > 0 =>
            \/ d.call = "ok" /\ d.carries = n
            \/ d.text # n /\ (d.call = Idle \/ d.carries # n)
    BY <1>3 DEF Used
  <1>5. d.text <= texts' /\ (d.call # Idle => d.carries \in 1..texts') /\ texts' \in texts..MaxTyped
    BY <1>3, DialogIs, TextsCount
  <1> QED
    BY <1>2, <1>3, <1>4, <1>5, DialogMoves

LEMMA TypeTextKeeps == ASSUME DialogsInv, NEW k \in Dialogs, TypeText(k) PROVE DialogsInv'
  <1>1. PICK d : d = [dialog[k] EXCEPT !.text = texts + 1]
    OBVIOUS
  <1>2. dialog' = [dialog EXCEPT ![k] = d] /\ texts' = texts + 1 /\ texts < MaxTyped /\ UNCHANGED <<sent, lostTexts>>
    BY <1>1 DEF TypeText
  <1>3. /\ d \in [event : ConsoleEvents \cup {NoOne}, text : Nat, call : Answers, carries : Nat]
        /\ d.text = texts + 1 /\ d.call = dialog[k].call /\ d.carries = dialog[k].carries
    BY <1>1, DialogIs, TextsCount
  <1>4. \A n \in 1..MaxTyped : Used(k, n) /\ sent[k][n] > 0 =>
            \/ d.call = "ok" /\ d.carries = n
            \/ d.text # n /\ (d.call = Idle \/ d.carries # n)
    BY <1>3, TextsCount DEF Used
  <1>5. d.text <= texts' /\ (d.call # Idle => d.carries \in 1..texts') /\ texts' \in texts..MaxTyped
    BY <1>2, <1>3, DialogIs, TextsCount
  <1> QED
    BY <1>2, <1>3, <1>4, <1>5, DialogMoves

\* The button carries the text there is; it has had no effect yet.
LEMMA ConfirmKeeps == ASSUME DialogsInv, NEW k \in Dialogs, Confirm(k) PROVE DialogsInv'
  <1>1. PICK d : d = [dialog[k] EXCEPT !.call = Asked, !.carries = dialog[k].text]
    OBVIOUS
  <1>2. /\ dialog' = [dialog EXCEPT ![k] = d] /\ dialog[k].text # 0 /\ dialog[k].call = Idle
        /\ UNCHANGED <<sent, lostTexts, texts>>
    BY <1>1, DialogIs DEF Confirm, MayConfirm, DialogsInv, DialogTypes
  <1>3. /\ d \in [event : ConsoleEvents \cup {NoOne}, text : Nat, call : Answers, carries : Nat]
        /\ d.text = dialog[k].text /\ d.call = Asked /\ d.carries = dialog[k].text
    BY <1>1, DialogIs, CallNames
  <1>4. \A n \in 1..MaxTyped : Used(k, n) /\ sent[k][n] > 0 =>
            \/ d.call = "ok" /\ d.carries = n
            \/ d.text # n /\ (d.call = Idle \/ d.carries # n)
    BY <1>2, <1>3, CallNames DEF Used
  <1>5. d.text <= texts' /\ (d.call # Idle => d.carries \in 1..texts') /\ texts' \in texts..MaxTyped
    BY <1>2, <1>3, DialogIs, TextsCount
  <1> QED
    BY <1>2, <1>3, <1>4, <1>5, DialogMoves

\* The call ends without effect, or the dialog is cleared after one.
LEMMA DialogEnds ==
    ASSUME DialogsInv, NEW k \in Dialogs, dialog[k].call # Idle, UNCHANGED <<sent, texts>>, lostTexts \subseteq lostTexts',
           NEW d \in [event : ConsoleEvents \cup {NoOne}, text : Nat, call : Answers, carries : Nat],
           dialog' = [dialog EXCEPT ![k] = d],
           d.text \in {0, dialog[k].text},
           d.call = Idle \/ (d.call = "error" /\ dialog[k].call # "ok" /\ d.carries = dialog[k].carries),
           dialog[k].call = "ok" => d.text = 0 \/ <<k, dialog[k].carries>> \in lostTexts'
    PROVE  DialogsInv'
  <1>1. \A n \in 1..MaxTyped : <<k, n>> \notin lostTexts' /\ Used(k, n) /\ sent[k][n] > 0 =>
            \/ d.call = "ok" /\ d.carries = n
            \/ d.text # n /\ (d.call = Idle \/ d.carries # n)
    <2> SUFFICES ASSUME NEW n \in 1..MaxTyped, <<k, n>> \notin lostTexts', Used(k, n), sent[k][n] > 0
                 PROVE  d.text # n /\ (d.call = Idle \/ d.carries # n)
      OBVIOUS
    <2>1. n # 0
      BY ConsoleConstants
    <2>2. CASE dialog[k].call = "ok" /\ dialog[k].carries = n
      BY <2>1, <2>2
    <2>3. CASE dialog[k].text # n /\ (dialog[k].call = Idle \/ dialog[k].carries # n)
      BY <2>1, <2>3
    <2> QED
      BY <2>2, <2>3 DEF Used
  <1>2. d.text <= texts' /\ (d.call # Idle => d.carries \in 1..texts') /\ texts' \in texts..MaxTyped
    BY DialogIs, TextsCount
  <1> QED
    BY <1>1, <1>2, DialogMoves

\* The server carries out what it is sent, for the first time, or refuses.
LEMMA ServeDialogKeeps == ASSUME DialogsInv, NEW k \in Dialogs, ServeDialog(k) PROVE DialogsInv'
  <1>1. dialog[k].call = Asked /\ UNCHANGED <<lostTexts, texts>>
    BY DEF ServeDialog
  <1>2. CASE dialog' = [dialog EXCEPT ![k].call = "error"] /\ UNCHANGED sent
    <2>1. PICK d : d = [dialog[k] EXCEPT !.call = "error"]
      OBVIOUS
    <2>2. /\ d \in [event : ConsoleEvents \cup {NoOne}, text : Nat, call : Answers, carries : Nat]
          /\ d.text = dialog[k].text /\ d.call = "error" /\ d.carries = dialog[k].carries
      BY <2>1, DialogIs, CallNames
    <2>3. dialog' = [dialog EXCEPT ![k] = d]
      BY <1>2, <2>1
    <2> QED
      BY <1>1, <1>2, <2>2, <2>3, CallNames, DialogEnds
  <1>3. CASE sent' = [sent EXCEPT ![k][dialog[k].carries] = @ + 1] /\ dialog' = [dialog EXCEPT ![k].call = "ok"]
    <2>1. PICK m : m = dialog[k].carries
      OBVIOUS
    <2>2. m \in 1..texts /\ m \in 1..MaxTyped
      BY <1>1, <2>1, CallNames, DialogIs, TextsCount
    <2>3. \A x \in Dialogs : \A n \in 1..MaxTyped : sent'[x][n] = IF x = k /\ n = m THEN sent[x][n] + 1 ELSE sent[x][n]
      BY <1>3, <2>1, <2>2 DEF DialogsInv, DialogTypes
    <2>4. \A x \in Dialogs : /\ dialog'[x].text = dialog[x].text /\ dialog'[x].carries = dialog[x].carries
                             /\ dialog'[x].call = IF x = k THEN "ok" ELSE dialog[x].call
      BY <1>3 DEF DialogsInv, DialogTypes
    <2>5. DialogTypes'
      <3>1. dialog' \in [Dialogs -> [event : ConsoleEvents \cup {NoOne}, text : Nat, call : Answers, carries : Nat]]
        BY <1>3, CallNames DEF DialogsInv, DialogTypes
      <3>2. sent' \in [Dialogs -> [1..MaxTyped -> Nat]]
        <4>1. PICK I : I = 1..MaxTyped
          OBVIOUS
        <4>2. sent \in [Dialogs -> [I -> Nat]] /\ m \in I
          BY <2>2, <4>1 DEF DialogsInv, DialogTypes
        <4>3. sent' = [sent EXCEPT ![k][m] = @ + 1]
          BY <1>3, <2>1
        <4>4. sent' \in [Dialogs -> [I -> Nat]]
          BY <4>2, <4>3
        <4> QED
          BY <4>1, <4>4
      <3>3. \A x \in Dialogs : dialog'[x].text <= texts' /\ (dialog'[x].call # Idle => dialog'[x].carries \in 1..texts')
        BY <1>1, <2>1, <2>2, <2>4 DEF DialogsInv, DialogTypes
      <3> QED
        BY <1>1, <3>1, <3>2, <3>3 DEF DialogsInv, DialogTypes
    <2>6. UsedInv'
      <3>1. m <= texts
        BY <2>2
      <3> QED
        BY <1>1, <2>3, <3>1 DEF DialogsInv, UsedInv
    <2>7. OnceInv'
      <3>1. ASSUME NEW x \in Dialogs, NEW n \in 1..MaxTyped, <<x, n>> \notin lostTexts PROVE Used(x, n)'
        <4>1. Used(x, n) /\ sent[x][n] \in Nat
          BY <3>1 DEF DialogsInv, OnceInv, DialogTypes
        <4>2. CASE x = k /\ n = m
          <5>1. sent[x][n] = 0
            BY <1>1, <2>1, <4>1, <4>2, CallNames DEF Used
          <5>2. sent'[x][n] = 1 /\ dialog'[x].call = "ok" /\ dialog'[x].carries = n
            BY <2>1, <2>3, <2>4, <4>2, <5>1
          <5>3. n <= texts'
            BY <1>1, <2>2, <4>2
          <5> QED
            BY <5>2, <5>3 DEF Used
        <4>3. CASE x = k /\ n # m
          <5>1. sent'[x][n] = sent[x][n] /\ dialog'[x].text = dialog[x].text /\ dialog'[x].carries = m
            BY <2>1, <2>3, <2>4, <4>3
          <5>2. dialog[x].call # "ok"
            BY <1>1, <4>3, CallNames
          <5> QED
            BY <1>1, <4>1, <4>3, <5>1, <5>2 DEF Used
        <4>4. CASE x # k
          BY <1>1, <2>3, <2>4, <4>1, <4>4 DEF Used
        <4> QED
          BY <4>2, <4>3, <4>4
      <3> QED
        BY <1>1, <3>1 DEF OnceInv
    <2> QED
      BY <2>5, <2>6, <2>7 DEF DialogsInv
  <1> QED
    BY <1>2, <1>3 DEF ServeDialog

LEMMA DialogAnsweredKeeps == ASSUME DialogsInv, NEW k \in Dialogs, DialogAnswered(k) PROVE DialogsInv'
  <1>1. dialog[k].call \in {"ok", "error"} /\ dialog[k].call # Idle /\ UNCHANGED <<sent, lostTexts, texts>>
    BY CallNames DEF DialogAnswered
  <1>2. PICK d : d = IF dialog[k].call = "ok"
                     THEN [event |-> NoOne, text |-> 0, call |-> Idle, carries |-> 0]
                     ELSE [dialog[k] EXCEPT !.call = Idle, !.carries = 0]
    OBVIOUS
  <1>3. dialog' = [dialog EXCEPT ![k] = d]
    BY <1>2 DEF DialogAnswered, TextAfter
  <1>4. /\ d \in [event : ConsoleEvents \cup {NoOne}, text : Nat, call : Answers, carries : Nat]
        /\ d.text = (IF dialog[k].call = "ok" THEN 0 ELSE dialog[k].text) /\ d.call = Idle
    BY <1>2, DialogIs, CallNames
  <1> QED
    BY <1>1, <1>3, <1>4, DialogEnds

LEMMA LoseDialogKeeps == ASSUME DialogsInv, NEW k \in Dialogs, LoseDialog(k) PROVE DialogsInv'
  <1>1. /\ dialog[k].call # Idle /\ UNCHANGED <<sent, texts>>
        /\ lostTexts' = lostTexts \cup {<<k, dialog[k].carries>>}
    BY CallNames DEF LoseDialog
  <1>2. PICK d : d = [dialog[k] EXCEPT !.call = Idle, !.carries = 0]
    OBVIOUS
  <1>3. dialog' = [dialog EXCEPT ![k] = d]
    BY <1>2, DialogIs DEF LoseDialog, DialogsInv, DialogTypes
  <1>4. /\ d \in [event : ConsoleEvents \cup {NoOne}, text : Nat, call : Answers, carries : Nat]
        /\ d.text = dialog[k].text /\ d.call = Idle
    BY <1>2, DialogIs, CallNames
  <1> QED
    BY <1>1, <1>3, <1>4, DialogEnds

LEMMA DialogsKeep == ASSUME DialogsInv, DialogStep PROVE DialogsInv'
  <1>1. ASSUME NEW k \in Dialogs, CloseDialog(k) PROVE DialogsInv'
    BY <1>1, OpenDialogKeeps DEF CloseDialog
  <1>2. ASSUME NEW k \in Dialogs, NEW e \in ConsoleEvents, OpenDialog(k, e) PROVE DialogsInv'
    BY <1>2, OpenDialogKeeps DEF OpenDialog
  <1> QED
    BY <1>1, <1>2, TypeTextKeeps, ConfirmKeeps, ServeDialogKeeps, DialogAnsweredKeeps, LoseDialogKeeps DEF DialogStep

-----------------------------------------------------------------------------
(* Console: the wants *)

PickingStates == [open : BOOLEAN, picked : SUBSET Wanted, list : {Idle, Asked, "ok"}, listed : SUBSET Wanted]
WantCalls(n) == [no : {n}, carried : SUBSET Wanted, answer : {Asked, "ok"}, mine : BOOLEAN]
\* A dialog that is open has one save of its own at most.
SavesFit ==
    /\ \A c \in wantSaves : c \in WantCalls(c.no) /\ (c.mine => picking.open)
    /\ \A c, d \in wantSaves : c.mine /\ d.mine => c = d
\* Once no save is about to ask for the list anew, the list, or what is on its way, is stored.
NoneAnswered == \A c \in wantSaves : c.answer # "ok"
ListTells ==
    (missed = 0 /\ NoneAnswered) =>
        /\ picking.list = Idle => shown = wants
        /\ picking.list = "ok" => picking.listed = wants
WantTypes == wants \subseteq Wanted /\ shown \subseteq Wanted /\ picking \in PickingStates /\ missed \in Nat
WantsInv == WantTypes /\ SavesFit /\ ListTells

LEMMA WantsIdle == ASSUME WantsInv, UNCHANGED wantVars, missed' \in Nat, missed' = 0 => missed = 0 PROVE WantsInv'
  <1>1. UNCHANGED <<wants, shown, picking, wantSaves>>
    BY DEF wantVars
  <1>2. WantTypes' /\ SavesFit'
    BY <1>1 DEF WantsInv, WantTypes, SavesFit
  <1>3. ListTells'
    BY <1>1 DEF WantsInv, ListTells, NoneAnswered
  <1> QED
    BY <1>2, <1>3 DEF WantsInv

LEMMA ListKeeps ==
    ASSUME WantsInv, UNCHANGED wantSaves, OpenWants \/ (\E w \in Wanted : PickWant(w)) \/ AskList \/ ServeList \/ ListArrives
    PROVE  WantsInv'
  <1> USE CallNames
  <1>1. wants \subseteq Wanted /\ shown \subseteq Wanted /\ picking \in PickingStates
    BY DEF WantsInv, WantTypes
  <1>2. CASE OpenWants \/ \E w \in Wanted : PickWant(w)
    <2>1. /\ \E ws \in SUBSET Wanted : picking' = [picking EXCEPT !.open = TRUE, !.picked = ws]
          /\ UNCHANGED <<wants, shown, missed>>
      <3>1. CASE OpenWants
        BY <1>1, <3>1 DEF OpenWants
      <3>2. ASSUME NEW w \in Wanted, PickWant(w)
            PROVE  \E ws \in SUBSET Wanted : picking' = [picking EXCEPT !.open = TRUE, !.picked = ws]
        <4> DEFINE ws == IF w \in picking.picked THEN picking.picked \ {w} ELSE picking.picked \cup {w}
        <4>1. ws \in SUBSET Wanted /\ picking' = [picking EXCEPT !.picked = ws] /\ picking.open = TRUE
          BY <1>1, <3>2 DEF PickWant, PickingStates
        <4> HIDE DEF ws
        <4>2. picking' = [picking EXCEPT !.open = TRUE, !.picked = ws]
          BY <1>1, <4>1 DEF PickingStates
        <4> QED
          BY <4>1, <4>2
      <3> QED
        BY <1>2, <3>1, <3>2 DEF OpenWants, PickWant
    <2>2. picking' \in PickingStates /\ picking'.open /\ picking'.list = picking.list /\ picking'.listed = picking.listed
      BY <1>1, <2>1 DEF PickingStates
    <2> QED
      BY <2>1, <2>2 DEF WantsInv, WantTypes, SavesFit, ListTells, NoneAnswered
  <1>3. CASE AskList \/ ServeList \/ ListArrives
    <2>1. /\ picking' \in PickingStates /\ picking'.open = picking.open /\ shown' \subseteq Wanted
          /\ UNCHANGED <<wants, missed>>
      BY <1>1, <1>3 DEF AskList, ServeList, ListArrives, Refetching, PickingStates
    <2>2. ListTells'
      BY <1>1, <1>3 DEF AskList, ServeList, ListArrives, Refetching, PickingStates, WantsInv, ListTells, NoneAnswered
    <2> QED
      BY <2>1, <2>2 DEF WantsInv, WantTypes, SavesFit
  <1> QED
    BY <1>2, <1>3

\* A save may be replaced by one of the dialog's own or of none, and asks for the list when answered.
LEMMA SavesKept == ASSUME WantsInv, NEW c \in wantSaves, ServeWants(c) \/ WantsSaved(c) \/ LoseSave(c) PROVE WantsInv'
  <1> USE CallNames
  <1>1. c \in WantCalls(c.no) /\ picking \in PickingStates
    BY DEF WantsInv, WantTypes, SavesFit
  <1>2. CASE ServeWants(c)
    <2> DEFINE d == [c EXCEPT !.answer = "ok"]
    <2>1. d \in WantCalls(d.no) /\ d.mine = c.mine /\ d.answer = "ok"
      BY <1>1 DEF WantCalls
    <2>2. wantSaves' = (wantSaves \ {c}) \cup {d} /\ wants' = c.carried /\ UNCHANGED <<shown, picking, missed>>
      BY <1>2 DEF ServeWants
    <2> HIDE DEF d
    <2>3. WantTypes'
      BY <1>1, <2>2 DEF WantsInv, WantTypes, WantCalls
    <2>4. SavesFit'
      BY <2>1, <2>2 DEF WantsInv, SavesFit
    <2>5. ListTells'
      BY <2>1, <2>2 DEF ListTells, NoneAnswered
    <2> QED
      BY <2>3, <2>4, <2>5 DEF WantsInv
  <1>3. CASE WantsSaved(c)
    <2>1. /\ picking' \in PickingStates /\ picking'.list = Asked /\ picking'.open = (picking.open /\ ~c.mine)
          /\ wantSaves' = wantSaves \ {c} /\ UNCHANGED <<wants, shown, missed>>
      BY <1>1, <1>3 DEF WantsSaved, AfterSave, Refetching, PickingStates, WantCalls
    <2>2. SavesFit'
      BY <1>1, <2>1 DEF WantsInv, SavesFit, WantCalls
    <2> QED
      BY <2>1, <2>2 DEF WantsInv, WantTypes, ListTells
  <1>4. CASE LoseSave(c)
    <2>1. missed \in Nat /\ missed' = missed + 1 /\ wantSaves' = wantSaves \ {c} /\ UNCHANGED <<wants, shown, picking>>
      BY <1>4 DEF LoseSave, WantsInv, WantTypes
    <2>2. missed' \in Nat /\ missed' # 0
      BY <2>1
    <2> QED
      BY <2>1, <2>2 DEF WantsInv, WantTypes, SavesFit, ListTells
  <1> QED
    BY <1>2, <1>3, <1>4

LEMMA WantsKeep == ASSUME WantsInv, WantsStep PROVE WantsInv'
  <1> USE CallNames
  <1>1. CASE OpenWants \/ (\E w \in Wanted : PickWant(w)) \/ AskList \/ ServeList \/ ListArrives
    <2>1. UNCHANGED wantSaves
      BY <1>1 DEF OpenWants, PickWant, AskList, ServeList, ListArrives
    <2> QED
      BY <1>1, <2>1, ListKeeps
  <1>2. CASE \E c \in wantSaves : ServeWants(c) \/ WantsSaved(c) \/ LoseSave(c)
    BY <1>2, SavesKept
  <1>3. CASE CloseWants
    <2>1. /\ wantSaves' = {[c EXCEPT !.mine = FALSE] : c \in wantSaves} /\ picking' = [picking EXCEPT !.open = FALSE]
          /\ UNCHANGED <<wants, shown, missed>>
      BY <1>3 DEF CloseWants
    <2>2. \A c \in wantSaves : c \in WantCalls(c.no)
      BY DEF WantsInv, SavesFit
    <2>3. ASSUME NEW c \in wantSaves
          PROVE  LET d == [c EXCEPT !.mine = FALSE] IN d \in WantCalls(d.no) /\ d.mine = FALSE /\ d.answer = c.answer
      BY <2>2 DEF WantCalls
    <2>4. \A d \in wantSaves' : d \in WantCalls(d.no) /\ d.mine = FALSE
      BY <2>1, <2>3
    <2>5. NoneAnswered' => NoneAnswered
      BY <2>1, <2>3 DEF NoneAnswered
    <2>6. picking' \in PickingStates /\ picking'.list = picking.list /\ picking'.listed = picking.listed
      BY <2>1 DEF WantsInv, WantTypes, PickingStates
    <2>7. WantTypes' /\ SavesFit'
      BY <2>1, <2>4, <2>6 DEF WantsInv, WantTypes, SavesFit
    <2>8. ListTells'
      BY <2>1, <2>5, <2>6 DEF WantsInv, ListTells
    <2> QED
      BY <2>7, <2>8 DEF WantsInv
  <1>4. CASE SaveWants
    <2>1. PICK d : /\ d \in WantCalls(d.no) /\ d.mine /\ d.answer = Asked /\ wantSaves' = wantSaves \cup {d}
      <3> DEFINE n == CHOOSE n \in 0..MaxWantSaves : \A c \in wantSaves : c.no # n
                 d == [no |-> n, carried |-> picking.picked, answer |-> Asked, mine |-> TRUE]
      <3>1. wantSaves' = wantSaves \cup {d}
        BY <1>4 DEF SaveWants
      <3> HIDE DEF n
      <3>2. d \in WantCalls(d.no) /\ d.mine /\ d.answer = Asked
        BY DEF WantCalls, WantsInv, WantTypes, PickingStates
      <3> QED
        BY <3>1, <3>2
    <2>2. picking.open /\ (\A c \in wantSaves : ~c.mine) /\ UNCHANGED <<wants, shown, picking, missed>>
      BY <1>4 DEF SaveWants
    <2>3. WantTypes' /\ SavesFit'
      BY <2>1, <2>2 DEF WantsInv, WantTypes, SavesFit
    <2>4. ListTells'
      BY <2>1, <2>2 DEF WantsInv, ListTells, NoneAnswered
    <2> QED
      BY <2>3, <2>4 DEF WantsInv
  <1>5. ASSUME NEW ws \in SUBSET Wanted, OthersSave(ws) PROVE WantsInv'
    <2>1. missed \in Nat /\ missed' = missed + 1 /\ wants' = ws /\ UNCHANGED <<shown, picking, wantSaves>>
      BY <1>5 DEF OthersSave, WantsInv, WantTypes
    <2>2. missed' \in Nat /\ missed' # 0
      BY <2>1
    <2> QED
      BY <2>1, <2>2 DEF WantsInv, WantTypes, SavesFit, ListTells
  <1> QED
    BY <1>1, <1>2, <1>3, <1>4, <1>5 DEF WantsStep

-----------------------------------------------------------------------------
(* Console: creating an event and a staff account *)

EventInv ==
    /\ eventRows \in Nat /\ raced \in BOOLEAN
    /\ eventRows = 0 \/ eventRows = 1 \/ raced
    /\ eventForm = "free" => eventRows = 0 \/ raced

StaffCalls == [user : Staff, answer : {"asked", "ok", "taken"}, heard : BOOLEAN]
\* A password is in the answer that is still on its way to the page, or was shown, or the page was left.
StaffInv ==
    /\ staffForm \in [shows : BOOLEAN, calls : SUBSET StaffCalls]
    /\ \A c \in staffForm.calls : c.heard \/ c.user \in left
    /\ \A u \in staffRows : u \in handedOver \cup left
                            \/ \E c \in staffForm.calls : c.user = u /\ c.heard /\ c.answer = "ok"

LEMMA EventIdle == ASSUME EventInv, UNCHANGED <<eventForm, eventRows, raced>> PROVE EventInv'
  BY DEF EventInv

LEMMA StaffIdle == ASSUME StaffInv, UNCHANGED <<staffForm, staffRows, handedOver, left>> PROVE StaffInv'
  BY DEF StaffInv

LEMMA EventSteps ==
    ASSUME EventInv,
           AskCreate \/ CheckEvent \/ InsertEvent \/ ShowCreated \/ ShowDuplicate \/ LoseCreate \/ CreatedElsewhere \/ OpenFormAnew
    PROVE  EventInv' /\ UNCHANGED <<staffForm, staffRows, handedOver, left>>
  <1>1. AskCreate \/ ShowCreated \/ ShowDuplicate \/ LoseCreate \/ OpenFormAnew
        => EventInv' /\ UNCHANGED <<staffForm, staffRows, handedOver, left>>
    BY DEF AskCreate, ShowCreated, ShowDuplicate, LoseCreate, OpenFormAnew, EventInv, StaffUnchanged
  <1>2. CheckEvent => EventInv' /\ UNCHANGED <<staffForm, staffRows, handedOver, left>>
    BY DEF CheckEvent, Duplicate, EventInv, StaffUnchanged
  <1>3. InsertEvent => EventInv' /\ UNCHANGED <<staffForm, staffRows, handedOver, left>>
    BY DEF InsertEvent, EventInv, StaffUnchanged
  <1>4. ASSUME CreatedElsewhere PROVE EventInv' /\ UNCHANGED <<staffForm, staffRows, handedOver, left>>
    <2>1. /\ eventForm = "free" \/ eventRows = 0
          /\ eventRows' = eventRows + 1 /\ UNCHANGED <<eventForm, left>> /\ UNCHANGED <<staffForm, staffRows, handedOver>>
      BY <1>4 DEF CreatedElsewhere, StaffUnchanged
    <2>2. raced' \in BOOLEAN /\ (eventForm = "free" => raced') /\ (raced => raced')
      BY <1>4, Zenon DEF CreatedElsewhere, EventInv
    <2>3. eventRows' \in Nat /\ (eventRows' = 1 \/ eventForm = "free")
      BY <2>1 DEF EventInv
    <2> QED
      BY <2>1, <2>2, <2>3, Zenon DEF EventInv
  <1> QED
    BY <1>1, <1>2, <1>3, <1>4

LEMMA StaffFits ==
    ASSUME StaffInv
    PROVE  staffForm.calls \subseteq StaffCalls /\ staffForm.shows \in BOOLEAN
  BY DEF StaffInv

LEMMA AskStaffKeeps == ASSUME StaffInv, NEW u \in Staff, AskStaff(u) PROVE StaffInv'
  <1>1. PICK new : new = [user |-> u, answer |-> "asked", heard |-> TRUE]
    OBVIOUS
  <1>2. /\ staffForm.calls = {} /\ staffForm' = [staffForm EXCEPT !.calls = {new}]
        /\ UNCHANGED <<staffRows, handedOver, left>>
    <2>1. {[c EXCEPT !.heard = FALSE] : c \in {}} \cup {new} = {new}
      OBVIOUS
    <2>2. staffForm.calls = {}
      BY DEF AskStaff, MayCreateStaff
    <2> QED
      BY <1>1, <2>1, <2>2 DEF AskStaff
  <1>3. new \in StaffCalls /\ new.heard
    BY <1>1 DEF StaffCalls
  <1>4. staffForm' \in [shows : BOOLEAN, calls : SUBSET StaffCalls] /\ staffForm'.calls = {new}
    BY <1>2, <1>3 DEF StaffInv
  <1> QED
    BY <1>2, <1>3, <1>4 DEF StaffInv

LEMMA ServeStaffKeeps == ASSUME StaffInv, NEW c \in staffForm.calls, ServeStaff(c) PROVE StaffInv'
  <1>1. PICK new : new = [c EXCEPT !.answer = IF c.user \in staffRows THEN "taken" ELSE "ok"]
    OBVIOUS
  <1>2. /\ c.answer = "asked" /\ staffRows' = staffRows \cup {c.user}
        /\ staffForm' = [staffForm EXCEPT !.calls = (@ \ {c}) \cup {new}]
        /\ UNCHANGED <<handedOver, left>>
    BY <1>1 DEF ServeStaff
  <1>3. c \in StaffCalls
    BY StaffFits
  <1>4. /\ new \in StaffCalls /\ new.user = c.user /\ new.heard = c.heard
        /\ c.user \notin staffRows => new.answer = "ok"
    BY <1>1, <1>3 DEF StaffCalls
  <1>5. /\ staffForm' \in [shows : BOOLEAN, calls : SUBSET StaffCalls]
        /\ staffForm'.calls = (staffForm.calls \ {c}) \cup {new}
    <2>1. (staffForm.calls \ {c}) \cup {new} \in SUBSET StaffCalls
      BY <1>4, StaffFits
    <2> QED
      BY <1>2, <2>1 DEF StaffInv
  <1>6. \A d \in staffForm'.calls : d.heard \/ d.user \in left
    BY <1>4, <1>5 DEF StaffInv
  <1>7. ASSUME NEW u \in staffRows'
        PROVE  u \in handedOver \cup left \/ \E d \in staffForm'.calls : d.user = u /\ d.heard /\ d.answer = "ok"
    <2>1. CASE u \in staffRows
      <3> SUFFICES ASSUME NEW d \in staffForm.calls, d.user = u, d.heard, d.answer = "ok"
                   PROVE  \E x \in staffForm'.calls : x.user = u /\ x.heard /\ x.answer = "ok"
        BY <2>1 DEF StaffInv
      <3> QED
        BY <1>2, <1>5
    <2>2. CASE u = c.user /\ u \notin staffRows
      BY <1>4, <1>5, <2>2 DEF StaffInv
    <2> QED
      BY <1>2, <2>1, <2>2
  <1> QED
    BY <1>2, <1>5, <1>6, <1>7 DEF StaffInv

\* One call goes: its answer is shown, or nobody hears it, or it only says the name is taken.
LEMMA CallGoes ==
    ASSUME StaffInv, NEW c \in staffForm.calls, NEW shows \in BOOLEAN,
           staffForm' \in [shows : BOOLEAN, calls : SUBSET StaffCalls],
           staffForm'.calls = staffForm.calls \ {c}, UNCHANGED staffRows,
           handedOver \subseteq handedOver', left \subseteq left',
           c.heard /\ c.answer = "ok" => c.user \in handedOver' \cup left'
    PROVE  StaffInv'
  <1>1. \A d \in staffForm'.calls : d.heard \/ d.user \in left'
    BY DEF StaffInv
  <1>2. ASSUME NEW u \in staffRows
        PROVE  u \in handedOver' \cup left' \/ \E d \in staffForm'.calls : d.user = u /\ d.heard /\ d.answer = "ok"
    BY DEF StaffInv
  <1> QED
    BY <1>1, <1>2 DEF StaffInv

LEMMA StaffAnsweredKeeps == ASSUME StaffInv, NEW c \in staffForm.calls, StaffAnswered(c) PROVE StaffInv'
  <1>1. /\ staffForm' = [shows |-> staffForm.shows \/ (c.heard /\ c.answer = "ok"), calls |-> staffForm.calls \ {c}]
        /\ handedOver' = IF c.heard /\ c.answer = "ok" THEN handedOver \cup {c.user} ELSE handedOver
        /\ UNCHANGED <<staffRows, left>>
    BY DEF StaffAnswered
  <1>2. c \in StaffCalls
    BY StaffFits
  <1>3. (staffForm.shows \/ (c.heard /\ c.answer = "ok")) \in BOOLEAN /\ staffForm.calls \ {c} \in SUBSET StaffCalls
    BY StaffFits
  <1>4. staffForm' \in [shows : BOOLEAN, calls : SUBSET StaffCalls] /\ staffForm'.calls = staffForm.calls \ {c}
    BY <1>1, <1>3
  <1>5. c.heard /\ c.answer = "ok" => c.user \in handedOver'
    BY <1>1
  <1>6. handedOver \subseteq handedOver'
    BY <1>1
  <1> QED
    BY <1>1, <1>4, <1>5, <1>6, CallGoes

LEMMA LoseStaffKeeps == ASSUME StaffInv, NEW c \in staffForm.calls, LoseStaff(c) PROVE StaffInv'
  <1>1. /\ staffForm' = [staffForm EXCEPT !.calls = @ \ {c}] /\ left' = left \cup {c.user}
        /\ UNCHANGED <<staffRows, handedOver>>
    BY DEF LoseStaff
  <1>2. staffForm' \in [shows : BOOLEAN, calls : SUBSET StaffCalls] /\ staffForm'.calls = staffForm.calls \ {c}
    BY <1>1 DEF StaffInv
  <1> QED
    BY <1>1, <1>2, CallGoes

\* Whose page is left with a call under way is counted among those nobody was told of.
LEMMA LeaveStaffKeeps == ASSUME StaffInv, LeaveStaff PROVE StaffInv'
  <1>1. /\ staffForm' = [shows |-> FALSE, calls |-> {[c EXCEPT !.heard = FALSE] : c \in staffForm.calls}]
        /\ left' = left \cup {c.user : c \in staffForm.calls} /\ UNCHANGED <<staffRows, handedOver>>
    BY DEF LeaveStaff
  <1>2. \A c \in staffForm.calls : [c EXCEPT !.heard = FALSE] \in StaffCalls /\ [c EXCEPT !.heard = FALSE].user = c.user
    BY StaffFits DEF StaffCalls
  <1>3. {[c EXCEPT !.heard = FALSE] : c \in staffForm.calls} \in SUBSET StaffCalls
    BY <1>2
  <1>4. /\ staffForm' \in [shows : BOOLEAN, calls : SUBSET StaffCalls]
        /\ staffForm'.calls = {[c EXCEPT !.heard = FALSE] : c \in staffForm.calls}
    BY <1>1, <1>3
  <1>5. \A d \in staffForm'.calls : d.user \in left'
    BY <1>1, <1>2, <1>4
  <1>6. \A u \in staffRows : u \in handedOver \cup left'
    BY <1>1 DEF StaffInv
  <1> QED
    BY <1>1, <1>4, <1>5, <1>6 DEF StaffInv

LEMMA CreatesKeep == ASSUME EventInv, StaffInv, CreateStep PROVE EventInv' /\ StaffInv'
  <1>1. ASSUME DismissStaff PROVE StaffInv' /\ UNCHANGED <<eventForm, eventRows, raced>>
    <2>1. /\ staffForm' = [staffForm EXCEPT !.shows = FALSE]
          /\ UNCHANGED <<staffRows, handedOver, left, eventForm, eventRows, raced>>
      BY <1>1 DEF DismissStaff, EventUnchanged
    <2>2. staffForm' \in [shows : BOOLEAN, calls : SUBSET StaffCalls] /\ staffForm'.calls = staffForm.calls
      BY <2>1 DEF StaffInv
    <2> QED
      BY <2>1, <2>2 DEF StaffInv
  <1>2. ASSUME LeaveStaff \/ \E u \in Staff : AskStaff(u) PROVE StaffInv' /\ UNCHANGED <<eventForm, eventRows, raced>>
    <2>1. UNCHANGED <<eventForm, eventRows, raced>>
      BY <1>2 DEF LeaveStaff, AskStaff, EventUnchanged
    <2> QED
      BY <1>2, <2>1, LeaveStaffKeeps, AskStaffKeeps
  <1>3. ASSUME NEW c \in staffForm.calls, ServeStaff(c) \/ StaffAnswered(c) \/ LoseStaff(c)
        PROVE  StaffInv' /\ UNCHANGED <<eventForm, eventRows, raced>>
    <2>1. UNCHANGED <<eventForm, eventRows, raced>>
      BY <1>3 DEF ServeStaff, StaffAnswered, LoseStaff, EventUnchanged
    <2> QED
      BY <1>3, <2>1, ServeStaffKeeps, StaffAnsweredKeeps, LoseStaffKeeps
  <1> QED
    BY <1>1, <1>2, <1>3, EventSteps, EventIdle, StaffIdle DEF CreateStep

-----------------------------------------------------------------------------
(* Console: all of it *)

ConsoleInv == TabsInv /\ DialogsInv /\ WantsInv /\ EventInv /\ StaffInv

\* Faults are only counted up.
LEMMA MissedGrows == ASSUME missed \in Nat, [ConsoleNext]_consoleVars PROVE missed' \in Nat /\ (missed' = 0 => missed = 0)
  <1>1. missed' = missed \/ missed' = missed + 1
    <2>1. TabStep => missed' = missed \/ missed' = missed + 1
      BY DEF TabStep, SignOutStaff, LoseChange, ResetStaff
    <2>2. DialogStep => missed' = missed \/ missed' = missed + 1
      BY DEF DialogStep, OpenDialog, CloseDialog, TypeText, Confirm, ServeDialog, DialogAnswered, LoseDialog
    <2>3. WantsStep => missed' = missed \/ missed' = missed + 1
      BY DEF WantsStep, OpenWants, PickWant, CloseWants, SaveWants, ServeWants, WantsSaved, LoseSave, AskList, ServeList,
             ListArrives, OthersSave
    <2>4. CreateStep => missed' = missed \/ missed' = missed + 1
      BY DEF CreateStep, AskCreate, CheckEvent, InsertEvent, ShowCreated, ShowDuplicate, LoseCreate, CreatedElsewhere,
             OpenFormAnew, AskStaff, DismissStaff, LeaveStaff, ServeStaff, StaffAnswered, LoseStaff
    <2> QED
      BY <2>1, <2>2, <2>3, <2>4 DEF ConsoleNext, consoleVars
  <1> QED
    BY <1>1

LEMMA ConsoleKept == ASSUME ConsoleInv, [ConsoleNext]_consoleVars PROVE ConsoleInv'
  <1>1. missed' \in Nat /\ (missed' = 0 => missed = 0)
    BY MissedGrows DEF ConsoleInv, WantsInv, WantTypes
  <1>2. UNCHANGED consoleVars => UNCHANGED <<sessionVars, dialogVars, wantVars, createVars>>
    BY DEF consoleVars
  <1>3. UNCHANGED createVars => EventInv' /\ StaffInv'
    BY EventIdle, StaffIdle DEF createVars, ConsoleInv
  <1>4. TabsInv'
    BY <1>2, TabsKeep, TabsIdle DEF ConsoleInv, ConsoleNext
  <1>5. DialogsInv'
    BY <1>2, DialogsKeep, DialogsIdle DEF ConsoleInv, ConsoleNext
  <1>6. WantsInv'
    BY <1>1, <1>2, WantsKeep, WantsIdle DEF ConsoleInv, ConsoleNext
  <1>7. EventInv' /\ StaffInv'
    BY <1>2, <1>3, CreatesKeep DEF ConsoleInv, ConsoleNext
  <1> QED
    BY <1>4, <1>5, <1>6, <1>7 DEF ConsoleInv

LEMMA ConsoleStart == ConsoleInit => ConsoleInv
  <1> SUFFICES ASSUME ConsoleInit PROVE ConsoleInv
    OBVIOUS
  <1>1. SessionTypes
    <2>1. owner \in [1..0 -> Staff] /\ 0 \in Nat
      BY DEF ConsoleInit
    <2>2. changing \in [Tabs -> [call : {Idle, Asked, "ok", "error"}, by : Nat]] /\ \A t \in Tabs : changing[t].call = Idle
      BY NotChangingFits DEF ConsoleInit
    <2> QED
      BY <2>1, <2>2 DEF ConsoleInit, SessionTypes, StaffOrNoOne
  <1>2. TabsInv
    BY <1>1 DEF ConsoleInit, TabsInv, GetsInv, CertainInv, ChangedInv
  <1>3. DialogTypes
    BY CallNames, ConsoleConstants DEF ConsoleInit, DialogTypes
  <1>4. DialogsInv
    BY <1>3 DEF ConsoleInit, DialogsInv, UsedInv, OnceInv, Used
  <1>5. WantsInv
    BY CallNames DEF ConsoleInit, WantsInv, WantTypes, SavesFit, ListTells, NoneAnswered, PickingStates
  <1>6. EventInv
    <2>1. eventRows = 0 /\ eventRows \in Nat
      BY DEF ConsoleInit
    <2>2. raced \in BOOLEAN
      BY DEF ConsoleInit
    <2> QED
      BY <2>1, <2>2, Zenon DEF EventInv
  <1>7. StaffInv
    <2>1. staffForm.calls = {} /\ staffForm \in [shows : BOOLEAN, calls : SUBSET StaffCalls] /\ staffRows = {}
      BY DEF ConsoleInit
    <2> QED
      BY <2>1 DEF StaffInv
  <1> QED
    BY <1>2, <1>4, <1>5, <1>6, <1>7 DEF ConsoleInv

LEMMA ConsoleInvariant == ConsoleSpec => []ConsoleInv
  <1>1. ConsoleInv /\ [ConsoleNext]_consoleVars => ConsoleInv'
    BY ConsoleKept
  <1> QED
    BY <1>1, ConsoleStart, PTL DEF ConsoleSpec

\* Every variable of the console stays in its type, whatever tabs, dialogs and forms do at once;
\* of a tab's calls for its account at most one still counts (api/hooks.ts, AdminPage.tsx).
THEOREM ConsoleIsTyped == ConsoleSpec => []ConsoleTypeOK
  <1>1. ConsoleInv => ConsoleTypeOK
    <2> SUFFICES ASSUME ConsoleInv PROVE ConsoleTypeOK
      OBVIOUS
    <2>1. ASSUME NEW t \in Tabs PROVE Cardinality({g \in gets[t] : g.kept}) <= 1
      <3>1. CASE {g \in gets[t] : g.kept} = {}
        BY <3>1, FS_EmptySet
      <3>2. CASE {g \in gets[t] : g.kept} # {}
        <4>1. PICK g \in gets[t] : g.kept
          BY <3>2
        <4>2. {d \in gets[t] : d.kept} = {g}
          BY <4>1 DEF ConsoleInv, TabsInv, GetsInv
        <4>3. Cardinality({d \in gets[t] : d.kept}) = 1
          BY <4>2, FS_Singleton
        <4> QED
          BY <4>3
      <3> QED
        BY <3>1, <3>2
    <2>2. \A k \in Dialogs : dialog[k].call # Idle => dialog[k].carries \in 1..texts
      BY DEF ConsoleInv, DialogsInv, DialogTypes
    <2>3. /\ \A c \in wantSaves : c.carried \subseteq Wanted /\ (c.mine => picking.open)
          /\ \A c, d \in wantSaves : c.mine /\ d.mine => c = d
      BY DEF ConsoleInv, WantsInv, SavesFit, WantCalls
    <2> QED
      BY <2>1, <2>2, <2>3 DEF ConsoleTypeOK, ConsoleInv, TabsInv, SessionTypes, Sessions
  <1> QED
    BY <1>1, ConsoleInvariant, PTL

\* In whatever order answers come and tabs sign in and out, the console shows the account, the
\* wants and the password that are current, and carries out once what was typed once
\* (api/hooks.ts, AdminPage.tsx, CreateEvent.tsx).
THEOREM ConsoleShowsWhatIsTrue == ConsoleSpec => []ConsoleHolds
  <1>1. ConsoleInv => ConsoleHolds
    <2> SUFFICES ASSUME ConsoleInv PROVE ConsoleHolds
      OBVIOUS
    <2>1. MeIsOwn
      BY DEF ConsoleInv, TabsInv, SessionTypes, CertainInv, MeIsOwn
    <2>2. NotBouncedBack
      BY DEF ConsoleInv, TabsInv, ChangedInv, NotBouncedBack
    <2>3. TypedTextUsedOnce
      BY DEF ConsoleInv, DialogsInv, OnceInv, Used, TypedTextUsedOnce
    <2>4. ListedWantsAreStored
      <3>1. wantSaves = {} => NoneAnswered
        BY DEF NoneAnswered
      <3>2. ListTells
        BY DEF ConsoleInv, WantsInv
      <3> QED
        BY <3>1, <3>2 DEF ListTells, ListedWantsAreStored
    <2>5. OneEventEach
      BY DEF ConsoleInv, EventInv, OneEventEach
    <2>6. PasswordsHandedOver
      BY DEF ConsoleInv, StaffInv, PasswordsHandedOver
    <2> QED
      BY <2>1, <2>2, <2>3, <2>4, <2>5, <2>6 DEF ConsoleHolds
  <1> QED
    BY <1>1, ConsoleInvariant, PTL

-----------------------------------------------------------------------------
(* Pages: the order of a list *)

\* A row has its time for good once it is there; events start on a whole millisecond.
RowsDated ==
    /\ list \in Lists /\ now \in Nat \ {0}
    /\ present \subseteq Ids /\ IsFiniteSet(present) /\ lasting \subseteq present
    /\ instant \in [Ids -> Nat]
    /\ \A r \in Ids : list = "events" => instant[r] = CutToMs(instant[r])
    /\ \A r \in present : instant[r] # 0

\* What was shown lies behind the cursor; what was there all along lies before it or was shown.
BehindCursor(r) == cursor.at # "start" /\ (cursor.at = "after" => ~After(r, cursor))
SameMsShown(r) == list = "notifications" /\ \E s \in paged : CutToMs(instant[s]) = CutToMs(instant[r])
Ahead(r) == cursor.at = "after" /\ After(r, cursor)
CursorFits ==
    \/ cursor = Start /\ paged = {} /\ lasting = {}
    \/ cursor = End
    \/ /\ cursor.at = "after" /\ cursor.id \in Ids /\ cursor.time \in Nat /\ cursor.time = CutToMs(cursor.time)
PagesInv ==
    /\ RowsDated /\ CursorFits
    /\ paged \subseteq Ids /\ moved \subseteq Ids /\ twice \subseteq moved
    /\ \A r \in paged : instant[r] # 0
    /\ \A r \in paged \ moved : BehindCursor(r)
    /\ \A r \in lasting \ (paged \cup moved) : Ahead(r) \/ SameMsShown(r)

LEMMA Cuts ==
    /\ \A t \in Nat : CutToMs(t) \in Nat /\ CutToMs(t) <= t /\ t <= CutToMs(t) + 1 /\ CutToMs(CutToMs(t)) = CutToMs(t)
    /\ \A t, u \in Nat : (u <= t /\ CutToMs(t) <= u) => CutToMs(u) = CutToMs(t)
    /\ \A t, u \in Nat : u <= t => CutToMs(u) <= CutToMs(t)
  BY DEF CutToMs

\* ORDER BY is a strict total order of the rows.
LEMMA RowsAreOrdered ==
    ASSUME RowsDated, NEW r \in Ids, NEW s \in Ids
    PROVE  /\ ~ComesBefore(r, r)
           /\ r # s => ComesBefore(r, s) \/ ComesBefore(s, r)
           /\ \A q \in Ids : (ComesBefore(q, r) /\ ComesBefore(r, s)) => ComesBefore(q, s)
  <1>1. Ids \subseteq Nat /\ list \in Lists /\ \A q \in Ids : instant[q] \in Nat
    BY PagesAssumption DEF RowsDated
  <1>2. \A q \in Ids : q \in Nat
    BY <1>1
  <1> QED
    BY <1>1, <1>2 DEF ComesBefore, Lists

RowsBefore(S, r) == {s \in S : ComesBefore(s, r)}

\* The number of rows before a row grows with the order.
LEMMA RankGrows ==
    ASSUME RowsDated, NEW S \in SUBSET Ids, IsFiniteSet(S), NEW r \in S, NEW s \in S, ComesBefore(r, s)
    PROVE  /\ Cardinality(RowsBefore(S, r)) \in Nat /\ Cardinality(RowsBefore(S, s)) \in Nat
           /\ Cardinality(RowsBefore(S, r)) < Cardinality(RowsBefore(S, s))
  <1>1. RowsBefore(S, r) \subseteq RowsBefore(S, s)
    BY RowsAreOrdered DEF RowsBefore
  <1>2. r \in RowsBefore(S, s) /\ r \notin RowsBefore(S, r)
    BY RowsAreOrdered DEF RowsBefore
  <1>3. IsFiniteSet(RowsBefore(S, s)) /\ IsFiniteSet(RowsBefore(S, r))
    BY FS_Subset DEF RowsBefore
  <1>4. Cardinality(RowsBefore(S, r)) <= Cardinality(RowsBefore(S, s))
    BY <1>1, <1>3, FS_Subset
  <1>5. Cardinality(RowsBefore(S, r)) # Cardinality(RowsBefore(S, s))
    BY <1>1, <1>2, <1>3, FS_Subset
  <1>6. Cardinality(RowsBefore(S, r)) \in Nat /\ Cardinality(RowsBefore(S, s)) \in Nat
    BY <1>3, FS_CardinalityType
  <1> QED
    BY <1>4, <1>5, <1>6

\* A page holds everything that was found, or it is full.
LEMMA PagesAreFilled ==
    ASSUME RowsDated, NEW S \in SUBSET Ids, IsFiniteSet(S), NEW q \in S,
           ~(Cardinality(RowsBefore(S, q)) < PageSize)
    PROVE  Cardinality({r \in S : Cardinality(RowsBefore(S, r)) < PageSize}) = PageSize
  <1> DEFINE N == Cardinality(S)
             rank == [r \in S |-> Cardinality(RowsBefore(S, r))]
             ofPage == {r \in S : Cardinality(RowsBefore(S, r)) < PageSize}
             ranked == [r \in ofPage |-> rank[r]]
  <1>1. N \in Nat /\ PageSize \in Nat
    BY FS_CardinalityType, PagesAssumption
  <1>2. \A r \in S : rank[r] \in 0..(N - 1)
    <2> TAKE r \in S
    <2>1. RowsBefore(S, r) \subseteq S /\ r \notin RowsBefore(S, r)
      BY RowsAreOrdered DEF RowsBefore
    <2>2. IsFiniteSet(RowsBefore(S, r)) /\ Cardinality(RowsBefore(S, r)) <= N /\ Cardinality(RowsBefore(S, r)) # N
      BY <2>1, FS_Subset
    <2>3. Cardinality(RowsBefore(S, r)) \in Nat
      BY <2>2, FS_CardinalityType
    <2> QED
      BY <2>2, <2>3, <1>1
  <1>3. \A r, s \in S : rank[r] = rank[s] => r = s
    <2> SUFFICES ASSUME NEW r \in S, NEW s \in S, r # s PROVE rank[r] # rank[s]
      OBVIOUS
    <2>1. ComesBefore(r, s) \/ ComesBefore(s, r)
      BY RowsAreOrdered
    <2> QED
      BY <2>1, RankGrows
  <1>4. rank \in Injection(S, 0..(N - 1))
    <2>1. rank \in [S -> 0..(N - 1)]
      BY <1>2
    <2>2. IsInjective(rank)
      BY <1>3 DEF IsInjective
    <2> QED
      BY <2>1, <2>2 DEF Injection
  <1>5. IsFiniteSet(0..(N - 1)) /\ Cardinality(0..(N - 1)) = N
    <2> HIDE DEF N
    <2>1. 0 \in Int /\ N - 1 \in Int /\ (0 > N - 1 => N = 0)
      BY <1>1
    <2> QED
      BY <2>1, <1>1, FS_Interval
  <1>6. rank \in Surjection(S, 0..(N - 1))
    BY <1>4, <1>5, FS_Injection
  <1>7. \A n \in 0..(N - 1) : \E r \in S : rank[r] = n
    BY <1>6 DEF Surjection
  <1>8. PageSize <= N - 1
    <2>1. rank[q] \in 0..(N - 1) /\ ~(rank[q] < PageSize)
      BY <1>2
    <2> QED
      BY <2>1, <1>1
  <1>9. ranked \in Bijection(ofPage, 0..(PageSize - 1))
    <2>1. \A r \in ofPage : ranked[r] \in 0..(PageSize - 1)
      BY <1>1, <1>2
    <2>2. ranked \in [ofPage -> 0..(PageSize - 1)]
      BY <2>1
    <2>3. IsInjective(ranked)
      BY <1>3 DEF IsInjective
    <2>4. \A n \in 0..(PageSize - 1) : \E r \in ofPage : ranked[r] = n
      <3> TAKE n \in 0..(PageSize - 1)
      <3>1. n \in 0..(N - 1) /\ n < PageSize
        BY <1>1, <1>8
      <3>2. PICK r \in S : rank[r] = n
        BY <3>1, <1>7
      <3> QED
        BY <3>1, <3>2
    <2> QED
      BY <2>2, <2>3, <2>4 DEF Bijection, Injection, Surjection
  <1>10. IsFiniteSet(ofPage) /\ ExistsBijection(ofPage, 0..(PageSize - 1))
    BY <1>9, FS_Subset, Zenon DEF ExistsBijection
  <1>11. Cardinality(0..(PageSize - 1)) = PageSize
    BY <1>1, FS_Interval
  <1> QED
    BY <1>10, <1>11, FS_Bijection

\* A page that is not empty has a last row.
LEMMA LastExists ==
    ASSUME RowsDated, NEW S \in SUBSET Ids, IsFiniteSet(S), S # {}
    PROVE  LastOf(S) \in S /\ \A s \in S \ {LastOf(S)} : ComesBefore(s, LastOf(S))
  <1> DEFINE N == Cardinality(S)
             T == {N - Cardinality(RowsBefore(S, r)) : r \in S}
  <1>1. N \in Nat
    BY FS_CardinalityType
  <1>2. \A r \in S : Cardinality(RowsBefore(S, r)) \in Nat /\ Cardinality(RowsBefore(S, r)) <= N
    BY FS_Subset, FS_CardinalityType DEF RowsBefore
  <1>3. T \subseteq Nat /\ T # {}
    BY <1>1, <1>2
  <1>4. PICK x \in T : \A y \in T : ~(<<y, x>> \in OpToRel(<, Nat))
    BY <1>3, NatLessThanWellFounded, WFMin
  <1>5. \A y \in T : x <= y
    <2> TAKE y \in T
    <2>1. x \in Nat /\ y \in Nat
      BY <1>3, <1>4
    <2>2. <<y, x>> \in Nat \X Nat /\ <<y, x>>[1] = y /\ <<y, x>>[2] = x
      BY <2>1
    <2>3. y < x => <<y, x>> \in OpToRel(<, Nat)
      BY <2>2, Zenon DEF OpToRel
    <2>4. ~(y < x)
      BY <1>4, <2>3, Zenon
    <2> QED
      BY <2>1, <2>4
  <1>6. PICK r \in S : x = N - Cardinality(RowsBefore(S, r))
    BY <1>4
  <1>7. \A s \in S : Cardinality(RowsBefore(S, s)) <= Cardinality(RowsBefore(S, r))
    <2> TAKE s \in S
    <2>1. x <= N - Cardinality(RowsBefore(S, s))
      BY <1>5
    <2> QED
      BY <2>1, <1>1, <1>2, <1>6
  <1>8. \A s \in S \ {r} : ComesBefore(s, r)
    <2> TAKE s \in S \ {r}
    <2>1. ComesBefore(s, r) \/ ComesBefore(r, s)
      BY RowsAreOrdered
    <2>2. ~ComesBefore(r, s)
      BY RankGrows, <1>7, <1>2
    <2> QED
      BY <2>1, <2>2
  <1> QED
    BY <1>6, <1>8 DEF LastOf

-----------------------------------------------------------------------------
(* Pages: what each step keeps *)

Found == {r \in present : After(r, cursor)}

LEMMA PageIsFound ==
    ASSUME RowsDated
    PROVE  /\ Found \in SUBSET Ids /\ IsFiniteSet(Found)
           /\ PageAt(cursor) = {r \in Found : Cardinality(RowsBefore(Found, r)) < PageSize}
           /\ PageAt(cursor) \in SUBSET Ids /\ IsFiniteSet(PageAt(cursor)) /\ PageAt(cursor) \subseteq Found
  <1>1. Found \in SUBSET Ids /\ IsFiniteSet(Found)
    BY FS_Subset DEF RowsDated, Found
  <1>2. PageAt(cursor) = {r \in Found : Cardinality(RowsBefore(Found, r)) < PageSize}
    BY DEF PageAt, Found, RowsBefore
  <1> QED
    BY <1>1, <1>2, FS_Subset

\* What was found and is not on the page comes after all that is.
LEMMA PageComesFirst ==
    ASSUME RowsDated, NEW r \in Found \ PageAt(cursor), NEW s \in PageAt(cursor)
    PROVE  ComesBefore(s, r)
  <1>1. /\ Found \in SUBSET Ids /\ IsFiniteSet(Found) /\ s \in Found /\ r \in Found /\ r # s
        /\ Cardinality(RowsBefore(Found, s)) < PageSize /\ ~(Cardinality(RowsBefore(Found, r)) < PageSize)
    BY PageIsFound
  <1>2. ComesBefore(s, r) \/ ComesBefore(r, s)
    BY <1>1, RowsAreOrdered
  <1>3. PageSize \in Nat
    BY PagesAssumption
  <1>4. ~ComesBefore(r, s)
    BY <1>1, <1>3, RankGrows
  <1> QED
    BY <1>2, <1>4

\* A full page: its last row becomes the cursor.
LEMMA FullPage ==
    ASSUME RowsDated, Cardinality(PageAt(cursor)) = PageSize
    PROVE  \E l \in PageAt(cursor) : /\ CursorAfter(PageAt(cursor)) = CursorOf(l)
                                     /\ \A s \in PageAt(cursor) \ {l} : ComesBefore(s, l)
  <1>1. PageAt(cursor) \in SUBSET Ids /\ IsFiniteSet(PageAt(cursor))
    BY PageIsFound
  <1>2. PageAt(cursor) # {}
    BY FS_EmptySet, PagesAssumption
  <1> QED
    BY <1>1, <1>2, LastExists DEF CursorAfter

\* Any other page is the last: nothing is left over.
LEMMA ShortPage ==
    ASSUME RowsDated, Cardinality(PageAt(cursor)) # PageSize
    PROVE  CursorAfter(PageAt(cursor)) = End /\ Found = PageAt(cursor)
  <1>1. CursorAfter(PageAt(cursor)) = End
    BY DEF CursorAfter
  <1>2. \A q \in Found : Cardinality(RowsBefore(Found, q)) < PageSize
    BY PageIsFound, PagesAreFilled
  <1> QED
    BY <1>1, <1>2, PageIsFound

\* A cursor taken from a row found does not go back.
LEMMA CursorAdvances ==
    ASSUME RowsDated, CursorFits, NEW l \in Ids, After(l, cursor), cursor.at # "start", cursor.at # "end",
           NEW r \in Ids, After(r, CursorOf(l))
    PROVE  After(r, cursor)
  <1>1. /\ instant[l] \in Nat /\ instant[r] \in Nat /\ CutToMs(instant[l]) <= instant[l] /\ CutToMs(instant[l]) \in Nat
        /\ list = "events" => instant[l] = CutToMs(instant[l])
    BY Cuts DEF RowsDated
  <1>2. cursor.id \in Ids /\ cursor.time \in Nat
    BY DEF CursorFits, Start, End
  <1>3. l \in Nat /\ r \in Nat /\ cursor.id \in Nat
    BY <1>2, PagesAssumption
  <1> QED
    BY <1>1, <1>2, <1>3 DEF After, CursorOf

\* What is on the page is behind its last row.
LEMMA PageIsBehind ==
    ASSUME RowsDated, NEW l \in Ids, NEW r \in Ids, r = l \/ ComesBefore(r, l)
    PROVE  ~After(r, CursorOf(l))
  <1>1. /\ instant[l] \in Nat /\ instant[r] \in Nat /\ CutToMs(instant[l]) <= instant[l] /\ CutToMs(instant[l]) \in Nat
        /\ list = "events" => instant[l] = CutToMs(instant[l])
    BY Cuts DEF RowsDated
  <1>2. l \in Nat /\ r \in Nat
    BY PagesAssumption
  <1>3. list \in Lists
    BY DEF RowsDated
  <1> QED
    BY <1>1, <1>2, <1>3 DEF After, CursorOf, ComesBefore, Lists

\* What comes after the last row is ahead of it, or is of its millisecond.
LEMMA RestIsAhead ==
    ASSUME RowsDated, NEW l \in Ids, NEW r \in Ids, ComesBefore(l, r)
    PROVE  \/ After(r, CursorOf(l))
           \/ list = "notifications" /\ CutToMs(instant[l]) = CutToMs(instant[r])
  <1>1. /\ instant[l] \in Nat /\ instant[r] \in Nat /\ CutToMs(instant[l]) \in Nat
        /\ list = "events" => instant[l] = CutToMs(instant[l])
    BY Cuts DEF RowsDated
  <1>2. (instant[r] <= instant[l] /\ CutToMs(instant[l]) <= instant[r]) => CutToMs(instant[r]) = CutToMs(instant[l])
    BY <1>1, Cuts
  <1>3. l \in Nat /\ r \in Nat
    BY PagesAssumption
  <1> QED
    BY <1>1, <1>2, <1>3 DEF After, CursorOf, ComesBefore

LEMMA ReadKeeps == ASSUME PagesInv, ReadPage PROVE PagesInv'
  <1> DEFINE ofPage == PageAt(cursor)
  <1>1. RowsDated /\ CursorFits /\ cursor.at # "end"
    BY DEF PagesInv, ReadPage
  <1>2. /\ paged' = paged \cup ofPage /\ twice' = twice \cup (ofPage \cap paged)
        /\ lasting' = IF cursor.at = "start" THEN present ELSE lasting
        /\ cursor' = CursorAfter(ofPage)
        /\ UNCHANGED <<list, present, instant, now, moved>>
    BY DEF ReadPage
  <1>3. ofPage \subseteq Ids /\ ofPage \subseteq Found /\ Found \subseteq present /\ present \subseteq Ids
    BY <1>1, PageIsFound DEF Found, RowsDated
  <1>4. RowsDated'
    BY <1>1, <1>2 DEF RowsDated, CutToMs
  <1>5. \A r \in ofPage \cap paged : r \in moved
    BY <1>1, <1>3 DEF PagesInv, BehindCursor, Found, CursorFits, Start, End
  <1>6. CursorFits' /\ cursor'.at # "start"
    <2>1. CASE Cardinality(ofPage) = PageSize
      <3>1. PICK l \in ofPage : cursor' = CursorOf(l)
        BY <1>1, <1>2, <2>1, FullPage
      <3>2. l \in Ids /\ CutToMs(instant[l]) \in Nat /\ CutToMs(CutToMs(instant[l])) = CutToMs(instant[l])
        BY <1>1, <1>3, Cuts DEF RowsDated
      <3> QED
        BY <3>1, <3>2 DEF CursorFits, CursorOf, Start, End, CutToMs
    <2>2. CASE Cardinality(ofPage) # PageSize
      BY <1>1, <1>2, <2>2, ShortPage DEF CursorFits, End
    <2> QED
      BY <2>1, <2>2
  <1>7. ASSUME NEW r \in paged' \ moved' PROVE BehindCursor(r)'
    <2>1. r \in Ids
      BY <1>2, <1>3 DEF PagesInv
    <2>2. ASSUME Cardinality(ofPage) = PageSize PROVE ~After(r, cursor)'
      <3>1. PICK l \in ofPage : cursor' = CursorOf(l) /\ \A s \in ofPage \ {l} : ComesBefore(s, l)
        BY <1>1, <1>2, <2>2, FullPage
      <3>2. l \in Ids /\ After(l, cursor)
        BY <1>3 DEF Found
      <3>3. r \in ofPage => ~After(r, CursorOf(l))
        BY <1>1, <2>1, <3>1, <3>2, PageIsBehind
      <3>4. r \notin ofPage => ~After(r, CursorOf(l))
        <4> SUFFICES ASSUME r \in paged, r \notin moved PROVE ~After(r, CursorOf(l))
          BY <1>2
        <4>1. cursor.at = "after" /\ ~After(r, cursor)
          BY <1>1 DEF PagesInv, BehindCursor, CursorFits, Start, End
        <4> QED
          BY <1>1, <2>1, <3>2, <4>1, CursorAdvances
      <3>5. ~After(r, CursorOf(l))
        BY <3>3, <3>4
      <3> QED
        BY <3>1, <3>5, <1>2 DEF After
    <2>3. Cardinality(ofPage) # PageSize => cursor'.at = "end"
      BY <1>1, <1>2, ShortPage DEF End
    <2> QED
      BY <2>1, <2>2, <2>3, <1>2, <1>6 DEF BehindCursor
  <1>8. ASSUME NEW r \in lasting' \ (paged' \cup moved') PROVE (Ahead(r) \/ SameMsShown(r))'
    <2>1. r \in present /\ r \in Ids /\ r \notin ofPage /\ r \notin paged /\ r \notin moved
      BY <1>1, <1>2 DEF PagesInv, RowsDated
    <2>2. After(r, cursor) \/ SameMsShown(r)
      <3>1. CASE cursor.at = "start"
        BY <3>1 DEF After
      <3>2. CASE cursor.at # "start"
        BY <3>2, <1>2, <2>1 DEF PagesInv, Ahead
      <3> QED
        BY <3>1, <3>2
    <2>3. CASE SameMsShown(r)
      BY <2>3, <1>2 DEF SameMsShown, CutToMs
    <2>4. CASE After(r, cursor)
      <3>1. r \in Found \ ofPage
        BY <2>1, <2>4 DEF Found
      <3>2. Cardinality(ofPage) = PageSize
        BY <1>1, <3>1, ShortPage
      <3>3. PICK l \in ofPage : cursor' = CursorOf(l)
        BY <1>1, <1>2, <3>2, FullPage
      <3>4. ComesBefore(l, r) /\ l \in Ids
        BY <1>1, <1>3, <3>1, PageComesFirst
      <3>5. \/ After(r, CursorOf(l))
            \/ list = "notifications" /\ CutToMs(instant[l]) = CutToMs(instant[r])
        BY <1>1, <2>1, <3>4, RestIsAhead
      <3>6. ASSUME After(r, CursorOf(l)) PROVE Ahead(r)'
        BY <3>3, <3>6, <1>2 DEF Ahead, After, CursorOf
      <3>7. ASSUME list = "notifications", CutToMs(instant[l]) = CutToMs(instant[r]) PROVE SameMsShown(r)'
        BY <3>7, <1>2 DEF SameMsShown, CutToMs
      <3> QED
        BY <3>5, <3>6, <3>7
    <2> QED
      BY <2>2, <2>3, <2>4
  <1>9. paged' \subseteq Ids /\ moved' \subseteq Ids /\ twice' \subseteq moved'
    BY <1>2, <1>3, <1>5 DEF PagesInv
  <1>10. \A r \in paged' : instant'[r] # 0
    BY <1>1, <1>2, <1>3 DEF PagesInv, RowsDated
  <1> QED
    BY <1>4, <1>6, <1>7, <1>8, <1>9, <1>10 DEF PagesInv

\* A row that comes was on no page yet.
LEMMA InsertRowKeeps == ASSUME PagesInv, NEW r \in Ids, InsertRow(r) PROVE PagesInv'
  <1>1. RowsDated /\ r \notin present /\ instant[r] = 0
    BY DEF PagesInv, InsertRow
  <1>2. PICK t \in 1..MaxInstant : /\ instant' = [instant EXCEPT ![r] = t]
                                   /\ list = "events" => t = CutToMs(t)
    BY DEF InsertRow
  <1>3. present' = present \cup {r} /\ UNCHANGED <<list, now, cursor, paged, twice, lasting, moved>>
    BY DEF InsertRow
  <1>4. \A s \in Ids : instant'[s] = IF s = r THEN t ELSE instant[s]
    BY <1>1, <1>2 DEF RowsDated
  <1>5. t \in Nat /\ t # 0
    BY PagesAssumption
  <1>6. RowsDated'
    <2>1. IsFiniteSet(present') /\ present' \subseteq Ids /\ lasting' \subseteq present'
      BY <1>1, <1>3, FS_AddElement DEF RowsDated
    <2>2. instant' \in [Ids -> Nat]
      BY <1>1, <1>2, <1>5 DEF RowsDated
    <2>3. \A s \in Ids : (list' = "events") => instant'[s] = CutToMs(instant'[s])
      BY <1>1, <1>2, <1>3, <1>4 DEF RowsDated
    <2>4. \A s \in present' : instant'[s] # 0
      BY <1>1, <1>3, <1>4, <1>5 DEF RowsDated
    <2>5. list' \in Lists /\ now' \in Nat \ {0}
      BY <1>1, <1>3 DEF RowsDated
    <2> QED
      BY <2>1, <2>2, <2>3, <2>4, <2>5 DEF RowsDated, CutToMs
  <1>7. r \notin paged /\ r \notin lasting
    BY <1>1 DEF PagesInv, RowsDated
  <1>8. \A s \in Ids : s # r => (After(s, cursor)' <=> After(s, cursor))
    BY <1>3, <1>4 DEF After
  <1>9. \A s \in paged' \ moved' : BehindCursor(s)'
    BY <1>3, <1>4, <1>7, <1>8 DEF PagesInv, BehindCursor
  <1>10. ASSUME NEW s \in lasting' \ (paged' \cup moved') PROVE (Ahead(s) \/ SameMsShown(s))'
    <2>1. s \in Ids /\ s # r /\ (Ahead(s) \/ SameMsShown(s))
      BY <1>1, <1>3, <1>7 DEF PagesInv, RowsDated
    <2>2. ASSUME Ahead(s) PROVE Ahead(s)'
      BY <2>1, <2>2, <1>3, <1>8 DEF Ahead
    <2>3. ASSUME SameMsShown(s) PROVE SameMsShown(s)'
      <3>1. PICK q \in paged : CutToMs(instant[q]) = CutToMs(instant[s])
        BY <2>3 DEF SameMsShown
      <3>2. q \in Ids
        BY DEF PagesInv
      <3>3. q # r
        BY <1>7
      <3> QED
        BY <3>1, <3>2, <3>3, <2>1, <2>3, <1>3, <1>4 DEF SameMsShown, CutToMs
    <2> QED
      BY <2>1, <2>2, <2>3
  <1>11. \A s \in paged' : instant'[s] # 0
    BY <1>3, <1>4, <1>7 DEF PagesInv
  <1>12. CursorFits'
    BY <1>3, <1>7 DEF PagesInv, CursorFits, CutToMs
  <1> QED
    BY <1>3, <1>6, <1>9, <1>10, <1>11, <1>12 DEF PagesInv

LEMMA RowGoesKeeps == ASSUME PagesInv, NEW r \in Ids, RowGoes(r) PROVE PagesInv'
  <1>1. /\ present' = present \ {r} /\ lasting' = lasting \ {r}
        /\ UNCHANGED <<list, instant, now, cursor, paged, twice, moved>>
    BY DEF RowGoes
  <1>2. RowsDated'
    <2>1. IsFiniteSet(present')
      BY <1>1, FS_RemoveElement DEF PagesInv, RowsDated
    <2> QED
      BY <1>1, <2>1 DEF PagesInv, RowsDated, CutToMs
  <1>3. CursorFits'
    BY <1>1 DEF PagesInv, CursorFits, CutToMs
  <1>4. \A s \in paged' \ moved' : BehindCursor(s)'
    BY <1>1 DEF PagesInv, BehindCursor, After
  <1>5. \A s \in lasting' \ (paged' \cup moved') : (Ahead(s) \/ SameMsShown(s))'
    BY <1>1 DEF PagesInv, Ahead, After, SameMsShown, CutToMs
  <1> QED
    BY <1>1, <1>2, <1>3, <1>4, <1>5 DEF PagesInv

\* An event that is moved is left out from then on.
LEMMA RescheduleKeeps == ASSUME PagesInv, NEW r \in Ids, RescheduleEvent(r) PROVE PagesInv'
  <1>1. PICK t \in 1..MaxInstant : t = CutToMs(t) /\ instant' = [instant EXCEPT ![r] = t]
    BY DEF RescheduleEvent
  <1>2. /\ moved' = moved \cup {r} /\ list = "events"
        /\ UNCHANGED <<list, present, now, cursor, paged, twice, lasting>>
    BY DEF RescheduleEvent
  <1>3. \A s \in Ids : instant'[s] = IF s = r THEN t ELSE instant[s]
    BY <1>1 DEF PagesInv, RowsDated
  <1>4. t \in Nat /\ t # 0
    BY PagesAssumption
  <1>5. RowsDated'
    <2>1. instant' \in [Ids -> Nat]
      BY <1>1, <1>4 DEF PagesInv, RowsDated
    <2>2. \A s \in Ids : instant'[s] = CutToMs(instant'[s])
      BY <1>1, <1>2, <1>3 DEF PagesInv, RowsDated
    <2>3. \A s \in present' : instant'[s] # 0
      BY <1>2, <1>3, <1>4 DEF PagesInv, RowsDated
    <2> QED
      BY <1>2, <2>1, <2>2, <2>3 DEF PagesInv, RowsDated, CutToMs
  <1>6. CursorFits'
    BY <1>2 DEF PagesInv, CursorFits, CutToMs
  <1>7. \A s \in Ids : s # r => (After(s, cursor)' <=> After(s, cursor))
    BY <1>2, <1>3 DEF After
  <1>8. \A s \in paged' \ moved' : BehindCursor(s)'
    BY <1>2, <1>7 DEF PagesInv, BehindCursor
  <1>9. \A s \in lasting' \ (paged' \cup moved') : Ahead(s)'
    BY <1>2, <1>7 DEF PagesInv, Ahead, SameMsShown, RowsDated
  <1>10. \A s \in paged' : instant'[s] # 0
    BY <1>2, <1>3, <1>4 DEF PagesInv
  <1>11. moved' \subseteq Ids
    BY <1>2 DEF PagesInv
  <1> QED
    BY <1>2, <1>5, <1>6, <1>8, <1>9, <1>10, <1>11 DEF PagesInv

LEMMA PagesKept == PagesInv /\ [PagesNext]_pageVars => PagesInv'
  <1> SUFFICES ASSUME PagesInv, [PagesNext]_pageVars PROVE PagesInv'
    OBVIOUS
  <1>1. CASE ClockTicks \/ UNCHANGED pageVars
    <2>1. UNCHANGED <<list, present, instant, cursor, paged, twice, lasting, moved>> /\ now' \in Nat \ {0}
      BY <1>1 DEF ClockTicks, pageVars, PagesInv, RowsDated
    <2>2. RowsDated' /\ CursorFits'
      BY <2>1 DEF PagesInv, RowsDated, CursorFits, CutToMs
    <2>3. \A s \in paged' \ moved' : BehindCursor(s)'
      BY <2>1 DEF PagesInv, BehindCursor, After
    <2>4. \A s \in lasting' \ (paged' \cup moved') : (Ahead(s) \/ SameMsShown(s))'
      BY <2>1 DEF PagesInv, Ahead, After, SameMsShown, CutToMs
    <2> QED
      BY <2>1, <2>2, <2>3, <2>4 DEF PagesInv
  <1> QED
    BY <1>1, ReadKeeps, InsertRowKeeps, RowGoesKeeps, RescheduleKeeps DEF PagesNext

LEMMA PagesStart == PagesInit(Start) => PagesInv
  <1> SUFFICES ASSUME PagesInit(Start) PROVE PagesInv
    OBVIOUS
  <1>1. CutToMs(0) = 0
    BY DEF CutToMs
  <1>2. RowsDated
    BY <1>1, FS_EmptySet DEF PagesInit, RowsDated
  <1> QED
    BY <1>2 DEF PagesInit, PagesInv, CursorFits

\* PagesTypeOK: a list, its cursor and what was read stay in their types
\* (users/service.ts, admin/service.ts, events/service.ts).
THEOREM ListsAreTyped == PagesSpec => []PagesTypeOK
  <1> DEFINE Bounded == instant \in [Ids -> 0..MaxInstant]
  <1>1. PagesInit(Start) => Bounded
    BY PagesAssumption DEF PagesInit
  <1>2. ASSUME PagesInv, Bounded, [PagesNext]_pageVars PROVE Bounded'
    <2>1. ASSUME NEW r \in Ids, InsertRow(r) \/ RescheduleEvent(r) PROVE Bounded'
      <3>1. PICK t \in 1..MaxInstant : instant' = [instant EXCEPT ![r] = t]
        BY <2>1 DEF InsertRow, RescheduleEvent
      <3>2. t \in 0..MaxInstant
        BY PagesAssumption
      <3> QED
        BY <1>2, <3>1, <3>2
    <2>2. ASSUME ReadPage \/ ClockTicks \/ (\E r \in Ids : RowGoes(r)) \/ UNCHANGED pageVars PROVE Bounded'
      BY <1>2, <2>2 DEF ReadPage, ClockTicks, RowGoes, pageVars
    <2> QED
      BY <1>2, <2>1, <2>2 DEF PagesNext
  <1>3. ASSUME PagesInv, Bounded PROVE PagesTypeOK
    <2>1. cursor.at \in {"start", "after", "end"} /\ cursor.id \in Ids \cup {0} /\ cursor.time \in Nat /\ cursor.time = CutToMs(cursor.time)
      BY <1>3 DEF PagesInv, CursorFits, Start, End, CutToMs
    <2>2. cursor.time % 2 = 0
      BY <2>1 DEF CutToMs
    <2> QED
      BY <1>3, <2>1, <2>2 DEF PagesInv, RowsDated, PagesTypeOK
  <1> QED
    BY <1>1, <1>2, <1>3, PagesStart, PagesKept, PTL DEF PagesSpec

\* PagesHold: whatever comes, goes or moves between two pages, no row is shown twice and none that
\* was there all along is passed over, but for moved events and the millisecond of a cursor
\* (listNotifications, listAudit, searchEvents).
THEOREM PagesRepeatAndSkipNothing == PagesSpec => []PagesHold
  <1>1. PagesInv => PagesHold
    <2> SUFFICES ASSUME PagesInv PROVE PagesHold
      OBVIOUS
    <2>1. cursor.at = "end" => \A r \in lasting \ (paged \cup moved) : SameMsShown(r)
      BY DEF PagesInv, Ahead
    <2> QED
      BY <2>1 DEF PagesInv, PagesHold, NoRowTwice, OnlySameMillisecondIsSkipped, SameMsShown
  <1> QED
    BY <1>1, PagesStart, PagesKept, PTL DEF PagesSpec

-----------------------------------------------------------------------------
(* The board *)

Levels == DOMAIN Severity
Totals == [qty : Nat, users : SUBSET Attendees]
EventRows == [status : {"draft", "scheduled", "active", "paused", "completed", "archived", "disabled"},
              visibility : {"public", "unlisted", "invite_only"}, approved : BOOLEAN]

\* What everyone asks for and has is typed, the catalogue shows nothing the denylist names,
\* a reading holds an aggregate of every figure it has asked for, and the cache hides what
\* too few people stand behind.
PartsTyped == part \in [FigureNames -> [Attendees -> Entries]]
CatalogueInv == active \subseteq Cats \ Banned /\ edits \in 0..MaxEdits
ReadingInv ==
    /\ reading \in [next : 0..5, agg : [FigureNames -> {Nothing} \cup [Cats -> Totals]]]
    /\ \A i \in 1..4 : i < reading.next => reading.agg[Figures[i]] \in [Cats -> Totals]
CacheInv ==
    \A c \in DOMAIN cache :
        /\ cache[c].level \in Levels
        /\ \A f \in FigureNames : cache[c].figure[f] # Hidden => Cardinality(cache[c].users[f]) >= K
BoardInv == PartsTyped /\ CatalogueInv /\ ReadingInv /\ CacheInv

\* The four figures.
LEMMA FiguresAre ==
    /\ FigureNames = {"requested", "offered", "reserved", "fulfilled"}
    /\ DOMAIN Figures = 1..4 /\ \A i \in 1..4 : Figures[i] \in FigureNames
    /\ \A f \in FigureNames : \E i \in 1..4 : f = Figures[i]
    /\ Cardinality(FigureNames) = 4
  <1>1. /\ FigureNames = {"requested", "offered", "reserved", "fulfilled"}
        /\ DOMAIN Figures = 1..4 /\ \A i \in 1..4 : Figures[i] \in FigureNames
        /\ \A f \in FigureNames : \E i \in 1..4 : f = Figures[i]
    BY DEF FigureNames, Figures
  <1>2. IsFiniteSet({"requested"}) /\ Cardinality({"requested"}) = 1
    BY FS_Singleton
  <1>3. /\ IsFiniteSet({"requested"} \cup {"offered"})
        /\ Cardinality({"requested"} \cup {"offered"}) = 2
    BY <1>2, FS_AddElement
  <1>4. /\ IsFiniteSet({"requested"} \cup {"offered"} \cup {"reserved"})
        /\ Cardinality({"requested"} \cup {"offered"} \cup {"reserved"}) = 3
    BY <1>3, FS_AddElement
  <1>5. Cardinality({"requested"} \cup {"offered"} \cup {"reserved"} \cup {"fulfilled"}) = 4
    BY <1>4, FS_AddElement
  <1>6. {"requested"} \cup {"offered"} \cup {"reserved"} \cup {"fulfilled"} = FigureNames
    BY <1>1
  <1> QED
    BY <1>1, <1>5, <1>6

LEMMA CatsAreFinite == IsFiniteSet(Cats) /\ \A c \in Cats : MaxOffer[c] \in Nat \ {0}
  <1> DEFINE f == [i \in DOMAIN Order |-> Order[i]]
  <1>1. f \in Surjection(DOMAIN Order, Cats)
    BY DEF Surjection, Cats
  <1> QED
    BY <1>1, FS_Surjection, BoardAssumption DEF Cats

LEMMA QtyIsNat == \A e \in Entries : e.qty \in Nat
  <1>1. Nothing.qty = 0
    BY DEF Nothing
  <1>2. \A e \in [cat : Cats \ Banned, qty : Amounts] : e.qty \in Amounts
    OBVIOUS
  <1> QED
    <2>1. Amounts \subseteq Nat
      BY BoardAssumption
    <2>2. SUFFICES ASSUME NEW e \in Entries PROVE e.qty \in Nat
      OBVIOUS
    <2>3. CASE e = Nothing
      BY <1>1, <2>3
    <2>4. CASE e \in [cat : Cats \ Banned, qty : Amounts]
      BY <1>2, <2>1, <2>4
    <2> QED
      BY <2>3, <2>4 DEF Entries

\* The people behind a figure are finitely many, and so are their units.
LEMMA SumsAreNat ==
    ASSUME PartsTyped, NEW f \in FigureNames, NEW c, NEW us
    PROVE  SumOf(f, c, us) \in Nat /\ Behind(f, c) \in SUBSET Attendees /\ IsFiniteSet(Behind(f, c))
  <1> DEFINE B == Behind(f, c) \cap us
             block(u) == {u} \X (1..part[f][u].qty)
             S == {block(u) : u \in B}
             g == [u \in B |-> block(u)]
  <1>1. Behind(f, c) \in SUBSET Attendees
    BY DEF Behind
  <1>2. IsFiniteSet(Behind(f, c)) /\ IsFiniteSet(B)
    BY <1>1, BoardAssumption, FS_Subset
  <1>3. g \in Surjection(B, S)
    BY DEF Surjection
  <1>4. IsFiniteSet(S)
    BY <1>2, <1>3, FS_Surjection
  <1>5. ASSUME NEW T \in S PROVE IsFiniteSet(T)
    <2>1. PICK u \in B : T = {u} \X (1..part[f][u].qty)
      OBVIOUS
    <2>2. part[f][u] \in Entries
      BY <1>1, <2>1 DEF PartsTyped
    <2>3. part[f][u].qty \in Nat
      BY <2>2, QtyIsNat
    <2>4. IsFiniteSet(1..part[f][u].qty)
      <3>1. 1 \in Int /\ part[f][u].qty \in Int
        BY <2>3
      <3> QED
        BY <3>1, FS_Interval
    <2>5. IsFiniteSet({u})
      BY FS_Singleton
    <2> QED
      BY <2>1, <2>4, <2>5, FS_Product
  <1>6. IsFiniteSet(UNION S)
    BY <1>4, <1>5, FS_UNION
  <1>7. Units(f, c, us) = UNION S
    BY DEF Units
  <1> QED
    BY <1>1, <1>2, <1>6, <1>7, FS_CardinalityType DEF SumOf

LEMMA AggregatesAreTotals ==
    ASSUME PartsTyped, NEW f \in FigureNames
    PROVE  AggregateAll(f) \in [Cats -> Totals] /\ \A c : Aggregate(f, c) \in Totals
  BY SumsAreNat DEF AggregateAll, Aggregate, Totals

\* Every pair of totals has a level, and the level says how they compare.
LEMMA ShortageSays ==
    ASSUME NEW req \in Totals, NEW off \in Totals
    PROVE  /\ Shortage(req, off) \in Levels
           /\ Shortage(req, off) \in {"critical_shortage", "high_need"} => off.qty < req.qty
           /\ Shortage(req, off) \in {"adequate", "possible_surplus"} => off.qty >= req.qty
  <1>1. req.qty \in Nat /\ off.qty \in Nat
    BY DEF Totals
  <1>2. Levels = {"critical_shortage", "high_need", "moderate_need", "adequate", "possible_surplus", "unknown"}
    BY DEF Levels, Severity
  <1> DEFINE few == Cardinality(req.users) < K /\ Cardinality(off.users) < K
  <1>3. CASE few
    BY <1>2, <1>3 DEF Shortage
  <1>4. CASE ~few /\ req.qty = 0
    BY <1>1, <1>2, <1>4 DEF Shortage
  <1>5. CASE ~few /\ req.qty # 0
    <2>1. Shortage(req, off) = Ratio(off.qty, req.qty)
      BY <1>5 DEF Shortage
    <2>2. CASE 4 * off.qty < req.qty
      BY <1>1, <1>2, <2>1, <2>2 DEF Ratio
    <2>3. CASE 4 * off.qty >= req.qty /\ 4 * off.qty < 3 * req.qty
      BY <1>1, <1>2, <2>1, <2>3 DEF Ratio
    <2>4. CASE 4 * off.qty >= 3 * req.qty /\ 4 * off.qty < 5 * req.qty
      BY <1>1, <1>2, <2>1, <2>4 DEF Ratio
    <2>5. CASE 4 * off.qty >= 5 * req.qty /\ off.qty < 3 * req.qty
      BY <1>1, <1>2, <2>1, <2>5 DEF Ratio
    <2>6. CASE off.qty >= 3 * req.qty
      BY <1>1, <1>2, <1>5, <2>1, <2>6 DEF Ratio
    <2> QED
      BY <1>1, <2>2, <2>3, <2>4, <2>5, <2>6
  <1> QED
    BY <1>3, <1>4, <1>5

\* Levels are ranked by severity.
LEMMA LevelsAreOrdered == \A l \in Levels : Severity[l] \in 0..5
  BY DEF Levels, Severity

\* Max and Min of an amount and its caps.
LEMMA CapIs ==
    ASSUME NEW n \in Int, NEW m \in Nat \ {0}
    PROVE  LET q == Max({Min({n, m, 10}), 0}) IN q > 0 <=> n > 0
  <1> DEFINE low == Min({n, m, 10})
  <1>1. \E l \in {n, m, 10} : \A k \in {n, m, 10} : l =< k
    OBVIOUS
  <1>2. low \in {n, m, 10} /\ \A k \in {n, m, 10} : low =< k
    BY <1>1 DEF Min
  <1>3. \E h \in {low, 0} : \A k \in {low, 0} : h >= k
    BY <1>2
  <1>4. Max({low, 0}) \in {low, 0} /\ \A k \in {low, 0} : Max({low, 0}) >= k
    BY <1>3 DEF Max
  <1> QED
    BY <1>2, <1>4

LEMMA BoardStarts == BoardInit([FigureNames -> [Attendees -> Entries]], Cats) => BoardInv
  <1> SUFFICES ASSUME BoardInit([FigureNames -> [Attendees -> Entries]], Cats) PROVE BoardInv
    OBVIOUS
  <1>1. PartsTyped /\ CatalogueInv
    BY BoardAssumption DEF BoardInit, PartsTyped, CatalogueInv
  <1>2. ReadingInv
    BY DEF BoardInit, ReadingInv, NotReading
  <1>3. CacheInv
    BY DEF BoardInit, CacheInv, NoBoard
  <1> QED
    BY <1>1, <1>2, <1>3 DEF BoardInv

\* The needs computed from four aggregates hide what has to be hidden.
LEMMA NeedsAreGated ==
    ASSUME NEW agg, \A f \in FigureNames : agg[f] \in [Cats -> Totals], Effective \subseteq Cats,
           NEW c \in DOMAIN NeedsOf(agg)
    PROVE  /\ NeedsOf(agg)[c].level \in Levels
           /\ \A f \in FigureNames : NeedsOf(agg)[c].figure[f] # Hidden
                                       => Cardinality(NeedsOf(agg)[c].users[f]) >= K
  <1>1. c \in Cats /\ c \in Effective
    BY DEF NeedsOf
  <1>2. /\ NeedsOf(agg)[c].level = Shortage(agg["requested"][c], agg["offered"][c])
        /\ \A f \in FigureNames : /\ NeedsOf(agg)[c].figure[f] = GateValue(agg[f][c])
                                    /\ NeedsOf(agg)[c].users[f] = agg[f][c].users
    BY <1>1 DEF NeedsOf
  <1>3. NeedsOf(agg)[c].level \in Levels
    <2>1. agg["requested"][c] \in Totals /\ agg["offered"][c] \in Totals
      BY <1>1, FiguresAre
    <2> QED
      BY <1>2, <2>1, ShortageSays
  <1>4. ASSUME NEW f \in FigureNames, NeedsOf(agg)[c].figure[f] # Hidden
        PROVE  Cardinality(NeedsOf(agg)[c].users[f]) >= K
    BY <1>2, <1>4 DEF GateValue
  <1> QED
    BY <1>3, <1>4

\* An event shows categories of the catalogue.
LEMMA EffectiveAreCats == CatalogueInv => Effective \subseteq Cats
  BY DEF CatalogueInv, Effective

LEMMA BoardSteps == BoardInv /\ [BoardNext]_boardVars => BoardInv'
  <1> SUFFICES ASSUME BoardInv, [BoardNext]_boardVars PROVE BoardInv'
    OBVIOUS
  <1> USE DEF BoardInv
  <1>1. CASE UNCHANGED boardVars
    BY <1>1 DEF boardVars, PartsTyped, CatalogueInv, ReadingInv, CacheInv
  <1>2. CASE MissCache
    <2>1. PartsTyped' /\ CatalogueInv' /\ CacheInv'
      BY <1>2 DEF MissCache, PartsTyped, CatalogueInv, CacheInv
    <2>2. reading' = [reading EXCEPT !.next = 1] /\ reading.next = 0
      BY <1>2 DEF MissCache
    <2>3. ReadingInv'
      BY <2>2 DEF ReadingInv
    <2> QED
      BY <2>1, <2>3
  <1>3. CASE QueryFigure
    <2>1. PartsTyped' /\ CatalogueInv' /\ CacheInv'
      BY <1>3 DEF QueryFigure, PartsTyped, CatalogueInv, CacheInv
    <2> DEFINE n == reading.next
               fig == Figures[n]
    <2>2. n \in 1..4 /\ fig \in FigureNames
      BY <1>3, FiguresAre DEF QueryFigure
    <2>3. reading' = [next |-> n + 1, agg |-> [reading.agg EXCEPT ![fig] = AggregateAll(fig)]]
      BY <1>3 DEF QueryFigure
    <2>4. AggregateAll(fig) \in [Cats -> Totals]
      BY <2>2, AggregatesAreTotals
    <2>5. reading.agg \in [FigureNames -> {Nothing} \cup [Cats -> Totals]]
      BY DEF ReadingInv
    <2> HIDE DEF n, fig
    <2>6. reading' \in [next : 0..5, agg : [FigureNames -> {Nothing} \cup [Cats -> Totals]]]
      BY <2>2, <2>3, <2>4, <2>5
    <2>7. ASSUME NEW i \in 1..4, i < reading'.next PROVE reading'.agg[Figures[i]] \in [Cats -> Totals]
      <3>1. CASE Figures[i] = fig
        BY <2>2, <2>3, <2>4, <2>5, <3>1
      <3>2. CASE Figures[i] # fig
        <4>1. i < n
          BY <2>2, <2>3, <2>7, <3>2 DEF fig
        <4>2. reading.agg[Figures[i]] \in [Cats -> Totals]
          BY <4>1 DEF ReadingInv, n
        <4> QED
          BY <2>3, <2>5, <3>2, <4>2, FiguresAre
      <3> QED
        BY <3>1, <3>2
    <2> QED
      BY <2>1, <2>6, <2>7 DEF ReadingInv
  <1>4. CASE SetCache
    <2>1. PartsTyped' /\ CatalogueInv'
      BY <1>4 DEF SetCache, PartsTyped, CatalogueInv
    <2>2. ReadingInv'
      BY <1>4 DEF SetCache, ReadingInv, NotReading
    <2>3. \A f \in FigureNames : reading.agg[f] \in [Cats -> Totals]
      <3>1. reading.next > 4
        BY <1>4, FiguresAre DEF SetCache
      <3>2. \A i \in 1..4 : reading.agg[Figures[i]] \in [Cats -> Totals]
        BY <3>1 DEF ReadingInv
      <3> QED
        BY <3>2, FiguresAre
    <2>4. cache' = cache \/ cache' = NeedsOf(reading.agg)
      BY <1>4 DEF SetCache
    <2>5. CASE cache' = cache
      BY <2>1, <2>2, <2>5 DEF CacheInv
    <2>6. CASE cache' = NeedsOf(reading.agg)
      <3>1. CacheInv'
        BY <2>3, <2>6, NeedsAreGated, EffectiveAreCats DEF CacheInv
      <3> QED
        BY <2>1, <2>2, <3>1
    <2> QED
      BY <2>4, <2>5, <2>6
  <1>5. CASE CacheExpires
    BY <1>5 DEF CacheExpires, PartsTyped, CatalogueInv, ReadingInv, CacheInv, NoBoard
  <1>6. ASSUME NEW f \in FigureNames, NEW u \in Attendees, NEW e \in Entries, ChangePart(f, u, e) PROVE BoardInv'
    <2>1. ReadingInv' /\ CacheInv'
      BY <1>6 DEF ChangePart, ReadingInv, CacheInv
    <2>2. PartsTyped'
      BY <1>6 DEF ChangePart, Edit, PartsTyped
    <2>3. CatalogueInv'
      BY <1>6, BoardAssumption DEF ChangePart, Edit, CatalogueInv
    <2> QED
      BY <2>1, <2>2, <2>3
  <1>7. ASSUME NEW c \in Cats, PatchCategory(c) PROVE BoardInv'
    <2>1. PartsTyped' /\ ReadingInv' /\ CacheInv'
      BY <1>7 DEF PatchCategory, PartsTyped, ReadingInv, CacheInv
    <2>2. edits' \in 0..MaxEdits
      BY <1>7, BoardAssumption DEF PatchCategory, Edit, CatalogueInv
    <2>3. active' \subseteq Cats \ Banned
      BY <1>7 DEF PatchCategory, Edit, CatalogueInv, MayReturn
    <2> QED
      BY <2>1, <2>2, <2>3 DEF CatalogueInv
  <1>8. ASSUME NEW listed, SetAdminWants(listed) PROVE BoardInv'
    <2>1. PartsTyped' /\ ReadingInv' /\ CacheInv' /\ active' = active
      BY <1>8 DEF SetAdminWants, PartsTyped, ReadingInv, CacheInv
    <2>2. edits' \in 0..MaxEdits
      BY <1>8, BoardAssumption DEF SetAdminWants, Edit, CatalogueInv
    <2> QED
      BY <2>1, <2>2 DEF CatalogueInv
  <1> QED
    BY <1>1, <1>2, <1>3, <1>4, <1>5, <1>6, <1>7, <1>8 DEF BoardNext, Computing

\* A suggestion's level compares what is asked for with what others have.
LEMMA BringLevelsSay ==
    ASSUME PartsTyped, NEW v \in Attendees, NEW c \in Cats
    PROVE  LET asked == SumOf("requested", c, Attendees)
               had == SumOf("offered", c, Attendees \ {v})
           IN /\ asked \in Nat /\ had \in Nat
              /\ BringLevel(c, v) \in Levels
              /\ BringLevel(c, v) \in {"critical_shortage", "high_need"} => had < asked
              /\ BringLevel(c, v) \in {"adequate", "possible_surplus"} => had >= asked
  <1> DEFINE req == Aggregate("requested", c)
             off == [qty |-> SumOf("offered", c, Attendees \ {v}), users |-> Behind("offered", c) \ {v}]
  <1>1. req \in Totals /\ SumOf("requested", c, Attendees) \in Nat
    BY AggregatesAreTotals, SumsAreNat, FiguresAre
  <1>2. off \in Totals /\ SumOf("offered", c, Attendees \ {v}) \in Nat
    BY SumsAreNat, FiguresAre DEF Totals
  <1>3. /\ BringLevel(c, v) = Shortage(req, off)
        /\ req.qty = SumOf("requested", c, Attendees) /\ off.qty = SumOf("offered", c, Attendees \ {v})
    BY DEF BringLevel, Aggregate
  <1> HIDE DEF req, off
  <1> QED
    BY <1>1, <1>2, <1>3, ShortageSays

LEMMA AmountsFit == BoardInv => AmountsFitLevels
  <1> SUFFICES ASSUME BoardInv, NEW v \in Attendees, NEW c \in Effective
               PROVE  /\ SuggestedQty(c, v) > 0 => BringLevel(c, v) \notin {"adequate", "possible_surplus"}
                      /\ BringLevel(c, v) \in {"critical_shortage", "high_need"} => SuggestedQty(c, v) > 0
    BY DEF AmountsFitLevels
  <1> DEFINE asked == SumOf("requested", c, Attendees)
             had == SumOf("offered", c, Attendees \ {v})
  <1>1. c \in Cats /\ PartsTyped
    BY EffectiveAreCats DEF BoardInv
  <1>2. asked \in Nat /\ had \in Nat
    BY <1>1, BringLevelsSay
  <1>3. SuggestedQty(c, v) > 0 <=> asked - had > 0
    <2>1. asked - had \in Int
      BY <1>2
    <2>2. MaxOffer[c] \in Nat \ {0}
      BY <1>1, CatsAreFinite
    <2> QED
      BY <2>1, <2>2, CapIs DEF SuggestedQty
  <1>4. /\ BringLevel(c, v) \in {"critical_shortage", "high_need"} => had < asked
        /\ BringLevel(c, v) \in {"adequate", "possible_surplus"} => had >= asked
    BY <1>1, BringLevelsSay
  <1> HIDE DEF asked, had
  <1> QED
    BY <1>2, <1>3, <1>4

LEMMA WorstListed == BoardInv => WorstAreListed
  <1> SUFFICES ASSUME BoardInv, NEW v \in Attendees,
                      NEW c \in Suggestions(v), NEW d \in Effective \ Suggestions(v)
               PROVE  Severity[BringLevel(c, v)] <= Severity[BringLevel(d, v)]
    BY DEF WorstAreListed
  <1> DEFINE sev(e) == Severity[BringLevel(e, v)]
             before(e) == {x \in Effective : MoreUrgent(x, e, v)}
  <1>1. c \in Effective /\ Effective \subseteq Cats /\ PartsTyped
    BY EffectiveAreCats DEF BoardInv, Suggestions
  <1>2. \A e \in Effective : sev(e) \in 0..5
    BY <1>1, BringLevelsSay, LevelsAreOrdered
  <1>3. Cardinality(before(c)) < Listed /\ ~(Cardinality(before(d)) < Listed)
    BY DEF Suggestions
  <1>4. IsFiniteSet(Effective)
    BY <1>1, CatsAreFinite, FS_Subset
  <1>5. IsFiniteSet(before(c)) /\ IsFiniteSet(before(d))
    BY <1>4, FS_Subset
  <1>6. Cardinality(before(c)) \in Nat /\ Cardinality(before(d)) \in Nat
    BY <1>5, FS_CardinalityType
  <1>7. ASSUME sev(d) < sev(c) PROVE FALSE
    <2>1. \A x \in Effective : MoreUrgent(x, d, v) => MoreUrgent(x, c, v)
      BY <1>1, <1>2, <1>7 DEF MoreUrgent
    <2>2. before(d) \in SUBSET before(c)
      BY <2>1
    <2>3. Cardinality(before(d)) <= Cardinality(before(c))
      BY <1>5, <2>2, FS_Subset
    <2> QED
      BY <1>3, <1>6, <2>3, BoardAssumption
  <1> QED
    BY <1>1, <1>2, <1>7

LEMMA WantsAreOnce == WantedOnce
  <1> SUFFICES ASSUME NEW c \in Cats
               PROVE  Cardinality({w \in PublicWants : w.cat = c})
                        = IF c \in DOMAIN curated \/ c \in AskedFor THEN 1 ELSE 0
    BY DEF WantedOnce
  <1> DEFINE mine == {w \in PublicWants : w.cat = c}
             admin == [cat |-> c, source |-> "admin", qty |-> curated[c]]
             user == [cat |-> c, source |-> "user", qty |-> Aggregate("requested", c).qty]
  <1>1. CASE c \in DOMAIN curated
    <2>1. mine = {admin}
      BY <1>1 DEF PublicWants, NotCurated
    <2> QED
      BY <1>1, <2>1, FS_Singleton
  <1>2. CASE c \notin DOMAIN curated /\ c \in AskedFor
    <2>1. mine = {user}
      BY <1>2 DEF PublicWants, NotCurated
    <2> QED
      BY <1>2, <2>1, FS_Singleton
  <1>3. CASE c \notin DOMAIN curated /\ c \notin AskedFor
    <2>1. mine = {}
      BY <1>3 DEF PublicWants, NotCurated
    <2> QED
      BY <1>3, <2>1, FS_EmptySet
  <1> QED
    BY <1>1, <1>2, <1>3

LEMMA AccessIsNested == AccessNests
  BY DEF AccessNests, FoundBySearch, SeesWants, SeesBoard, SeesEvent, OpenToAnyone, Shown

\* No cached figure has too few people behind it, no category left off the list of what to
\* bring is more urgent than one on it, amounts and levels agree, every want is named once and
\* access nests: for any attendees, categories and quantities, and whatever changes between the
\* queries of a dashboard (computeDashboard, getBringSuggestions, computePublicWants).
THEOREM BoardShowsWhatItMay == BoardSpec => []BoardHolds
  <1>1. BoardInv => BoardHolds
    <2>1. BoardInv => FiguresNeedK
      BY DEF BoardInv, CacheInv, FiguresNeedK
    <2> QED
      BY <2>1, AmountsFit, WorstListed, WantsAreOnce, AccessIsNested DEF BoardHolds
  <1> QED
    BY <1>1, BoardStarts, BoardSteps, PTL DEF BoardSpec

\* The board's inputs, the reading of a dashboard and its cache keep their types, and nothing
\* the denylist names becomes active (getEventDashboard, adminPatchCategory).
THEOREM BoardIsTyped == BoardSpec => []BoardTypeOK
  <1>1. BoardInv => BoardTypeOK
    BY BoardAssumption DEF BoardInv, PartsTyped, CatalogueInv, ReadingInv, CacheInv, Levels, BoardTypeOK
  <1> QED
    BY <1>1, BoardStarts, BoardSteps, PTL DEF BoardSpec

\* More of the same category offered by no fewer people does not lower its level.
LEMMA LevelsEase ==
    ASSUME NEW req \in Totals, NEW off \in Totals, NEW more \in Totals,
           IsFiniteSet(more.users), off.users \subseteq more.users, off.qty <= more.qty,
           Shortage(req, off) # "unknown"
    PROVE  Severity[Shortage(req, more)] >= Severity[Shortage(req, off)]
  <1>1. req.qty \in Nat /\ off.qty \in Nat /\ more.qty \in Nat
    BY DEF Totals
  <1>2. Cardinality(off.users) <= Cardinality(more.users) /\ Cardinality(off.users) \in Nat
        /\ Cardinality(more.users) \in Nat
    BY FS_Subset, FS_CardinalityType
  <1>3. /\ ~(Cardinality(req.users) < K /\ Cardinality(off.users) < K)
        /\ ~(Cardinality(req.users) < K /\ Cardinality(more.users) < K)
    BY <1>2, BoardAssumption DEF Shortage
  <1>4. CASE req.qty = 0
    BY <1>1, <1>3, <1>4, BoardAssumption DEF Shortage, Severity
  <1>5. CASE req.qty # 0
    <2>1. Shortage(req, off) = Ratio(off.qty, req.qty) /\ Shortage(req, more) = Ratio(more.qty, req.qty)
      BY <1>3, <1>5 DEF Shortage
    <2>2. Severity[Ratio(more.qty, req.qty)] >= Severity[Ratio(off.qty, req.qty)]
      BY <1>1, <1>5 DEF Ratio, Severity
    <2> QED
      BY <2>1, <2>2
  <1> QED
    BY <1>4, <1>5

LEMMA OfferedTotals ==
    PartsTyped => \A c : Aggregate("offered", c) \in Totals /\ IsFiniteSet(Behind("offered", c))
  BY AggregatesAreTotals, SumsAreNat, FiguresAre

\* No step that only adds to what is offered makes a category look more wanting, unless its
\* level was unknown (computeShortage).
THEOREM MoreStockNeverLooksLess == BoardSpec => MoreStockEases
  <1>0. (PartsTyped => \A c : Aggregate("offered", c) \in Totals /\ IsFiniteSet(Behind("offered", c)))'
    BY OfferedTotals, PTL
  <1>1. BoardInv /\ BoardInv' =>
        \A c \in Cats :
         LET before == Shortage(Aggregate("requested", c), Aggregate("offered", c))
             after == Shortage(Aggregate("requested", c), Aggregate("offered", c))'
         IN (/\ part'["requested"] = part["requested"]
             /\ Behind("offered", c) \subseteq Behind("offered", c)'
             /\ SumOf("offered", c, Attendees) <= SumOf("offered", c, Attendees)'
             /\ before # "unknown")
            => Severity[after] >= Severity[before]
    <2> SUFFICES ASSUME BoardInv, BoardInv', NEW c \in Cats,
                        part'["requested"] = part["requested"],
                        Behind("offered", c) \subseteq Behind("offered", c)',
                        SumOf("offered", c, Attendees) <= SumOf("offered", c, Attendees)',
                        Shortage(Aggregate("requested", c), Aggregate("offered", c)) # "unknown"
                 PROVE  Severity[Shortage(Aggregate("requested", c), Aggregate("offered", c))']
                          >= Severity[Shortage(Aggregate("requested", c), Aggregate("offered", c))]
      OBVIOUS
    <2>1. Aggregate("requested", c)' = Aggregate("requested", c)
      BY DEF Aggregate, SumOf, Units, Behind
    <2>2. Aggregate("requested", c) \in Totals /\ Aggregate("offered", c) \in Totals
      BY AggregatesAreTotals, FiguresAre DEF BoardInv
    <2>3. Aggregate("offered", c)' \in Totals /\ IsFiniteSet(Behind("offered", c)')
      <3>1. PartsTyped'
        BY DEF BoardInv
      <3> QED
        BY <3>1, <1>0
    <2> QED
      BY <2>1, <2>2, <2>3, LevelsEase DEF Aggregate, Shortage
  <1> QED
    BY <1>1, BoardStarts, BoardSteps, PTL DEF BoardSpec, MoreStockEases

-----------------------------------------------------------------------------
(* The match screen: what completes a match *)

\* Two people, of whom a second one is the other.
LEMMA PairIsTwo == ASSUME NEW u \in Pair, NEW s \in SUBSET Pair, u \notin s, s # {} PROVE s \cup {u} = Pair
  <1>1. IsFiniteSet(Pair \ {u}) /\ Cardinality(Pair \ {u}) = 1
    BY FS_RemoveElement, MatchScreenAssumption
  <1>2. PICK w : Pair \ {u} = {w}
    BY <1>1, FS_Singleton
  <1>3. s \subseteq {w}
    BY <1>2
  <1> QED
    BY <1>2, <1>3

\* What the server knows of a match, and the dialogs.
Completion ==
    /\ mStatus \in {"active", "completed", "cancelled"} /\ confirmed \subseteq Pair
    /\ mStatus = "completed" => (confirmed = Pair \/ (finalized /\ confirmed # {}))
    /\ finalizeDue => confirmed # {}
AlertTypes == alerts \in [Pair -> SUBSET (Alerts \cup {"peer", "after"})]

LEMMA ServerKeepsCompletion ==
    \A c \in mcalls : MeetingInv /\ Completion /\ ServeStep(c) => Completion'
  <1> SUFFICES ASSUME NEW c \in mcalls, MeetingInv, Completion, ServeStep(c) PROVE Completion'
    OBVIOUS
  <1>1. c.by \in Pair
    BY DEF MeetingInv, CallsAreTrue, CallTrue, MeetingCalls
  <1>2. CASE ServeConfirm(c)
    <2>1. CASE UNCHANGED <<mStatus, confirmed, finalizeDue>>
      BY <1>2, <2>1 DEF ServeConfirm, Completion
    <2>2. CASE ~UNCHANGED <<mStatus, confirmed, finalizeDue>>
      <3>1. /\ mStatus = "active" /\ c.by \notin confirmed
            /\ confirmed' = confirmed \cup {c.by} /\ mStatus' = StatusAfterConfirm /\ finalized' = finalized
        BY <1>2, <2>2 DEF ServeConfirm, Replays
      <3>2. confirmed' \subseteq Pair /\ confirmed' # {}
        BY <1>1, <3>1 DEF Completion
      <3>3. mStatus' \in {"active", "completed", "cancelled"}
        BY <3>1 DEF StatusAfterConfirm
      <3>4. mStatus' = "completed" => confirmed' = Pair
        <4>1. mStatus' = "completed" => confirmed # {}
          BY <3>1 DEF StatusAfterConfirm
        <4>2. confirmed # {} => confirmed \cup {c.by} = Pair
          BY <1>1, <3>1, PairIsTwo DEF Completion
        <4> QED
          BY <3>1, <4>1, <4>2
      <3> QED
        BY <3>2, <3>3, <3>4 DEF Completion
    <2> QED
      BY <2>1, <2>2
  <1>3. CASE ServeCancel(c) \/ CancelBlocked(c)
    BY <1>3 DEF ServeCancel, CancelBlocked, Completion
  <1>4. CASE ServeBlock(c) \/ ServeReport(c)
    BY <1>4 DEF ServeBlock, ServeReport, Completion
  <1> QED
    BY <1>2, <1>3, <1>4 DEF ServeStep

LEMMA CompletionKept == MeetingInv /\ Completion /\ [MatchNext]_matchVars => Completion'
  <1> SUFFICES ASSUME MeetingInv, Completion, [MatchNext]_matchVars PROVE Completion'
    OBVIOUS
  <1>1. ASSUME UNCHANGED serverState PROVE Completion'
    BY <1>1 DEF serverState, Completion
  <1>2. CASE UNCHANGED matchVars
    BY <1>1, <1>2 DEF matchVars
  <1>3. ASSUME NEW u \in Pair,
               \/ FetchMatch(u) \/ Revisit(u)
               \/ \E a \in Alerts : OpenAlert(u, a)
               \/ \E a \in Alerts \cup {"peer", "after"} :
                     Dismiss(u, a) \/ \E kind \in {"confirm", "unsafe", "end", "block", "report"} : Press(u, a, kind)
        PROVE  Completion'
    BY <1>1, <1>3 DEF FetchMatch, Revisit, OpenAlert, Dismiss, Press
  <1>4. ASSUME NEW c \in mcalls, CallEnds(c) \/ GiveUp(c) \/ ServerStops(c) PROVE Completion'
    BY <1>1, <1>4 DEF CallEnds, GiveUp, ServerStops
  <1>5. CASE AutoFinalize
    <2>1. CASE UNCHANGED <<mStatus, finalized>>
      BY <1>5, <2>1 DEF AutoFinalize, Completion
    <2>2. CASE ~UNCHANGED <<mStatus, finalized>>
      <3>1. Cardinality(confirmed) = 1 /\ mStatus' = "completed" /\ finalized' = TRUE
            /\ confirmed' = confirmed /\ finalizeDue' = FALSE
        BY <1>5, <2>2 DEF AutoFinalize
      <3>2. confirmed # {}
        BY <3>1, FS_EmptySet
      <3> QED
        BY <3>1, <3>2 DEF Completion
    <2> QED
      BY <2>1, <2>2
  <1> QED
    BY <1>2, <1>3, <1>4, <1>5, ServerKeepsCompletion DEF MatchNext

LEMMA AlertsKept == MeetingInv /\ AlertTypes /\ [MatchNext]_matchVars => AlertTypes'
  <1> SUFFICES ASSUME MeetingInv, AlertTypes, [MatchNext]_matchVars PROVE AlertTypes'
    OBVIOUS
  <1>1. ASSUME alerts' = alerts PROVE AlertTypes'
    BY <1>1 DEF AlertTypes
  <1>2. CASE UNCHANGED matchVars \/ AutoFinalize
    BY <1>1, <1>2 DEF matchVars, screenState, AutoFinalize
  <1>3. ASSUME NEW u \in Pair, FetchMatch(u) \/ Revisit(u) PROVE AlertTypes'
    BY <1>3 DEF FetchMatch, Revisit, AlertTypes
  <1>4. ASSUME NEW u \in Pair, NEW a \in Alerts, OpenAlert(u, a) PROVE AlertTypes'
    BY <1>4 DEF OpenAlert, AlertTypes
  <1>5. ASSUME NEW u \in Pair, NEW a,
               Dismiss(u, a) \/ \E kind \in {"confirm", "unsafe", "end", "block", "report"} : Press(u, a, kind)
        PROVE  AlertTypes'
    BY <1>5 DEF Dismiss, Press, AlertTypes
  <1>6. ASSUME NEW c \in mcalls, ServeStep(c) \/ GiveUp(c) \/ ServerStops(c) PROVE AlertTypes'
    BY <1>1, <1>6 DEF ServeStep, ServeConfirm, ServeCancel, ServeBlock, CancelBlocked, ServeReport, GiveUp,
                      ServerStops, screenState
  <1>7. ASSUME NEW c \in mcalls, CallEnds(c) PROVE AlertTypes'
    <2>1. c.by \in Pair
      BY DEF MeetingInv, CallsAreTrue, CallTrue, MeetingCalls
    <2>2. alerts' = [alerts EXCEPT ![c.by] = @ \cup {"after"}] \/ alerts' = alerts
      BY <1>7 DEF CallEnds
    <2> QED
      BY <2>1, <2>2 DEF AlertTypes
  <1> QED
    BY <1>2, <1>3, <1>4, <1>5, <1>6, <1>7 DEF MatchNext

\* Every variable of the match keeps its type, and a match is completed only by both, or by the
\* timer an hour after one of them confirmed (confirmMatch, autoFinalizeMatch).
THEOREM CompletedByConfirmation == MatchSpec => []MatchScreenTypeOK
  <1>1. MatchInit => Completion /\ AlertTypes
    BY DEF MatchInit, Completion, AlertTypes
  <1>2. Completion /\ AlertTypes => MatchScreenTypeOK
    BY DEF Completion, AlertTypes, MatchScreenTypeOK
  <1> QED
    BY <1>1, <1>2, MeetingStarts, MeetingKept, CompletionKept, AlertsKept, PTL DEF MatchSpec

-----------------------------------------------------------------------------
(* Signing in: types *)

\* SignUpTypeOK: whatever is pressed while calls are under way, one flag tells of a single call
\* until a code is asked for again beside another call, and whoever is on the landing screen
\* holds no token (app/auth.tsx, app/index.tsx).
THEOREM SignUpIsTyped == SignUpSpec => []SignUpTypeOK
  <1>1. SignInv => SignUpTypeOK
    <2> SUFFICES ASSUME SignInv PROVE SignUpTypeOK
      OBVIOUS
    <2>1. (\E c \in calls : c.mine) => screen = "auth"
      BY DEF SignInv, CallsInv, OwnCall
    <2>2. ~resending => \A c, d \in calls : c.mine /\ d.mine => c = d
      BY DEF SignInv, CallsInv, Alone
    <2> QED
      BY <2>1, <2>2 DEF SignInv, SignTypes, SignedOutHolds, BusyTells, SignUpTypeOK, Holders
  <1> QED
    BY <1>1, SignUpInvariant, PTL

-----------------------------------------------------------------------------
(* Forms: bounds *)

\* The request form is left with an answer, and the list of things to carry is bounded.
LeftWithAnswer == reqForm = "left" => \E i \in Presses : reqAnswer[i] = "ok"
CarryBounds ==
    /\ carryScreen \in {"list", "home", "done"} /\ saveState \in {"none", "saving", "alert"} /\ qty \in [Slugs -> 0..MaxQty]
    /\ saves \in 0..MaxSaves
\* What was tapped reaches no further than one unit per tap, and never below what is reserved.
StockBounds ==
    /\ taps \in 0..MaxPresses /\ reserved \in Nat /\ total \in Int /\ total >= reserved
    /\ total <= 2 + taps /\ shownRow.total \in 0..2 + taps
    /\ \A p \in patches : p.value \in Int /\ p.value <= 2 + taps
DayBounds == day \in Nat /\ answeredOn \in 0..day /\ askChecks \in 0..2
FormBounds == LeftWithAnswer /\ CarryBounds /\ StockBounds /\ DayBounds

LEMMA FormBoundsKept == FormsInv /\ FormBounds /\ [FormsNext]_formsVars => FormBounds'
  <1> SUFFICES ASSUME FormsInv, FormBounds, [FormsNext]_formsVars PROVE FormBounds'
    OBVIOUS
  <1> USE FormsAssumption
  <1>1. LeftWithAnswer'
    <2>1. CASE Requesting
      <3> PICK i \in Presses : Submit(i) \/ CountActive(i) \/ InsertRequest(i) \/ RequestAnswered(i)
        BY <2>1 DEF Requesting
      <3>1. reqAnswer \in [Presses -> {"none", "waiting", "ok", "error"}]
        BY DEF FormsInv, RequestInv
      <3>2. CASE Submit(i)
        BY <3>1, <3>2 DEF Submit, FormBounds, LeftWithAnswer
      <3>3. CASE CountActive(i) \/ InsertRequest(i)
        BY <3>3 DEF CountActive, InsertRequest, FormBounds, LeftWithAnswer
      <3>4. CASE RequestAnswered(i)
        BY <3>1, <3>4 DEF RequestAnswered, FormBounds, LeftWithAnswer
      <3> QED
        BY <3>2, <3>3, <3>4
    <2>2. CASE UNCHANGED reqVars
      BY <2>2 DEF reqVars, FormBounds, LeftWithAnswer
    <2> QED
      BY <2>1, <2>2 DEF FormsNext, Carrying, Stocking, Attending, formsVars
  <1>2. CarryBounds'
    <2>1. CASE Carrying
      <3>1. ASSUME NEW s \in Slugs, NEW q \in 0..MaxQty, SetQty(s, q) PROVE CarryBounds'
        BY <3>1 DEF SetQty, FormBounds, CarryBounds
      <3>2. CASE SaveCarry \/ RetryCarry
        BY <3>2 DEF SaveCarry, RetryCarry, Send, carryList, FormBounds, CarryBounds
      <3>3. CASE CatalogueComes \/ SaveEnds \/ CancelAlert \/ CarryLater
        BY <3>3 DEF CatalogueComes, SaveEnds, CancelAlert, CarryLater, carryList, FormBounds, CarryBounds
      <3>4. ASSUME NEW p \in posts, CheckCarry(p) \/ InsertCarry(p) PROVE CarryBounds'
        BY <3>4 DEF CheckCarry, InsertCarry, carryList, FormBounds, CarryBounds
      <3> QED
        BY <2>1, <3>1, <3>2, <3>3, <3>4 DEF Carrying
    <2>2. CASE UNCHANGED carryVars
      BY <2>2 DEF carryVars, carryList, FormBounds, CarryBounds
    <2> QED
      BY <2>1, <2>2 DEF FormsNext, Requesting, Stocking, Attending, formsVars
  <1>3. StockBounds'
    <2>1. CASE Stocking
      <3>1. ASSUME NEW d \in {1, -1}, Tap(d) PROVE StockBounds'
        <4> DEFINE n == [press |-> taps, value |-> shownRow.total + d, d |-> d]
        <4>1. /\ taps < MaxPresses /\ taps' = taps + 1 /\ patches' = patches \cup {n}
              /\ UNCHANGED <<total, reserved, shownRow>>
          BY <3>1 DEF Tap
        <4>2. n.value = shownRow.total + d
          OBVIOUS
        <4> HIDE DEF n
        <4>3. n.value \in Int /\ n.value <= 2 + taps'
          BY <4>1, <4>2 DEF FormBounds, StockBounds
        <4> QED
          BY <4>1, <4>3 DEF FormBounds, StockBounds
      <3>2. ASSUME NEW p \in patches, ApplyPatch(p) PROVE StockBounds'
        BY <3>2 DEF ApplyPatch, CoversReserved, FormBounds, StockBounds
      <3>3. CASE PatchAnswered
        BY <3>3 DEF PatchAnswered, FormBounds, StockBounds
      <3>4. CASE RefetchRow
        <4>1. shownRow'.total = total
          BY <3>4 DEF RefetchRow
        <4> QED
          BY <3>4, <4>1 DEF RefetchRow, FormBounds, StockBounds
      <3>5. CASE ReserveOne
        BY <3>5 DEF ReserveOne, FormBounds, StockBounds
      <3>6. CASE SettleOne
        BY <3>6 DEF SettleOne, FormBounds, StockBounds
      <3> QED
        BY <2>1, <3>1, <3>2, <3>3, <3>4, <3>5, <3>6 DEF Stocking
    <2>2. CASE UNCHANGED stockVars
      BY <2>2 DEF stockVars, FormBounds, StockBounds
    <2> QED
      BY <2>1, <2>2 DEF FormsNext, Requesting, Carrying, Attending, formsVars
  <1>4. DayBounds'
    <2>1. CASE Attending
      BY <2>1 DEF Attending, CheckAnswered, PushPrompt, AnswerPrompt, NextDay, AppRestarts, FormBounds, DayBounds
    <2>2. CASE UNCHANGED askVars
      BY <2>2 DEF askVars, FormBounds, DayBounds
    <2> QED
      BY <2>1, <2>2 DEF FormsNext, Requesting, Carrying, Stocking, formsVars
  <1> QED
    BY <1>1, <1>2, <1>3, <1>4 DEF FormBounds

\* FormsTypeOK: a form is left with its answer, and the stock row, its totals absolute and its
\* answers late, never drops below what is reserved (request/new.tsx, supplies.tsx).
THEOREM FormsAreTyped == FormsSpec => []FormsTypeOK
  <1>1. FormsInit => FormsInv /\ FormBounds
    <2> SUFFICES ASSUME FormsInit PROVE FormsInv /\ FormBounds
      OBVIOUS
    <2>1. shownRow.total = 2
      BY DEF FormsInit
    <2>2. LeftWithAnswer /\ CarryBounds /\ DayBounds
      BY FormsAssumption DEF FormsInit, LeftWithAnswer, CarryBounds, DayBounds
    <2>3. StockBounds
      BY <2>1, FormsAssumption DEF FormsInit, StockBounds
    <2> QED
      BY <2>2, <2>3, FormsStart DEF FormBounds
  <1>2. FormsInv /\ FormBounds /\ [FormsNext]_formsVars => FormsInv' /\ FormBounds'
    BY FormsKept, FormBoundsKept
  <1>3. FormsInv /\ FormBounds => FormsTypeOK
    <2> SUFFICES ASSUME FormsInv, FormBounds PROVE FormsTypeOK
      OBVIOUS
    <2>1. /\ reqForm \in {"open", "left"} /\ requests \subseteq Presses
          /\ reqForm = "left" <=> \E i \in Presses : reqAnswer[i] = "ok"
      BY DEF FormsInv, RequestInv, FormBounds, LeftWithAnswer
    <2>2. total >= reserved /\ shownRow.total \in 0..2 + MaxPresses
      BY FormsAssumption DEF FormBounds, StockBounds
    <2> QED
      BY <2>1, <2>2 DEF FormsTypeOK, FormBounds, CarryBounds, DayBounds
  <1> QED
    BY <1>1, <1>2, <1>3, PTL DEF FormsSpec

-----------------------------------------------------------------------------
(* The clients together *)

\* ClientsTypeOK: the screens, the console, the lists and the board each keep what their
\* type invariants say, whatever the others do.
THEOREM ClientsAreTyped == ClientsSpec => []ClientsTypeOK
  <1>1. /\ SignUpTypeOK /\ FormsTypeOK /\ MatchScreenTypeOK
        /\ ConsoleTypeOK /\ PagesTypeOK /\ BoardTypeOK
        => ClientsTypeOK
    BY DEF ClientsTypeOK
  <1> QED
    BY <1>1, SignUpIsTyped, FormsAreTyped, CompletedByConfirmation, ConsoleIsTyped, ListsAreTyped,
       BoardIsTyped, PTL DEF ClientsSpec

\* ClientStepsHold: no step slips past the credentials, and none that adds stock makes an item
\* look more wanted.
THEOREM ClientStepsAreKept == ClientsSpec => ClientStepsHold
  BY CredentialsAreNotSkipped, MoreStockNeverLooksLess DEF ClientsSpec, ClientStepsHold

=============================================================================
