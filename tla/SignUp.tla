------------------------------- MODULE SignUp -------------------------------
(***************************************************************************)
(* The mobile app's sign-in screen: creating an account with an emailed     *)
(* code and then a name and password, signing in, the name reminder and the *)
(* password reset.  Every button starts a call; other buttons of the screen *)
(* stay live meanwhile, and the answer of a call moves the screen whatever  *)
(* it shows by then.  Signing in takes effect before the name is chosen.    *)
(***************************************************************************)
EXTENDS Naturals, FiniteSets

CONSTANTS Addresses, NoAccount,
          MaxLost,      \* bound: answers lost on the way, and kills
          MaxCalls,     \* bound: calls under way when another is started
          MaxAbandoned  \* bound: calls under way when the screen is left

ASSUME SignUpAssumption == NoAccount \notin Addresses /\ {MaxLost, MaxCalls, MaxAbandoned} \subseteq Nat

Steps == {"email", "code", "credentials", "login", "forgotUsername", "forgotUsernameSent", "resetEmail", "resetCode"}

VARIABLES
    screen,         \* landing / auth / home
    step, address,  \* of the screen: the step shown, the address typed
    freshToken,     \* of the screen: the account the credentials call is for
    busy,           \* of the screen: one flag for all its calls
    cooling,        \* of the screen: is resendIn above zero
    calls,          \* calls under way: number, kind, address, what the step is to become,
                    \* answer, and whether the screen that made it is still there
    heldToken,      \* whose token the phone holds
    liveCode,       \* server: addresses with a code that is not consumed
    account,        \* server: none / bare (verified, no credentials) / complete
    told,           \* the last error shown: none / taken / other
    resending,      \* history: this screen asked for a code again beside another call
    cutShort,       \* history: accounts whose setup a kill, the back gesture, or an answer to
                    \* a screen left before cut short
    beside,         \* history: accounts signed in while this screen was saving credentials
    overtaken,      \* history: a call of a screen already left signed an account in
    lost

flags == <<busy, cooling>>
authScreen == <<screen, step, address, freshToken>>
record == <<cutShort, beside, overtaken>>
signUpVars == <<authScreen, flags, calls, heldToken, liveCode, account, told, resending, record, lost>>

\* A save carries the fresh account's token, any other call the address typed.
NewCall(kind, next, answer) ==
    [no |-> CHOOSE n \in 0..MaxCalls : \A c \in calls : c.no # n,
     kind |-> kind, address |-> IF kind = "save" THEN freshToken ELSE address, next |-> next, answer |-> answer, mine |-> TRUE]
\* The screen that made these calls is gone; they go on.
Abandon(cs) == {[c EXCEPT !.mine = FALSE] : c \in cs}
Shows(s) == screen = "auth" /\ step = s
Waiting == "waiting"

-----------------------------------------------------------------------------
\* Moving about

OpenAuth(mode) ==
    /\ screen = "landing" /\ heldToken = NoAccount
    /\ screen' = "auth" /\ step' = mode /\ freshToken' = NoAccount /\ told' = "none"
    /\ busy' = FALSE /\ cooling' = FALSE /\ resending' = FALSE
    /\ UNCHANGED <<address, calls, heldToken, liveCode, account, record, lost>>
TypeAddress(a) ==
    /\ screen = "auth" /\ step \in {"email", "login", "forgotUsername", "resetEmail"} /\ a # address
    /\ address' = a
    /\ UNCHANGED <<screen, step, freshToken, flags, calls, heldToken, liveCode, account, told, resending, record, lost>>
BackTo == [s \in {"code", "forgotUsername", "forgotUsernameSent", "resetEmail", "resetCode"} |->
             CASE s = "code" -> "email" [] s = "resetCode" -> "resetEmail" [] OTHER -> "login"]
\* The steps that have a button back: the credentials step has none.
HasBack(s) == s \in DOMAIN BackTo
\* goStep: Back, and the two ways into recovery.
GoStep(next) ==
    /\ screen = "auth"
    /\ \/ HasBack(step) /\ next = IF step \in DOMAIN BackTo THEN BackTo[step] ELSE "email"
       \/ step = "login" /\ next \in {"forgotUsername", "resetEmail"}
    /\ step' = next /\ told' = "none"
    /\ UNCHANGED <<screen, address, freshToken, flags, calls, heldToken, liveCode, account, resending, record, lost>>
\* The countdown of the button Resend runs out.
ResendAgain ==
    /\ screen = "auth" /\ cooling /\ cooling' = FALSE
    /\ UNCHANGED <<authScreen, busy, calls, heldToken, liveCode, account, told, resending, record, lost>>
\* The system's back gesture, from any step: the landing screen sends a token's holder home.
\* Calls under way go on.
LeaveAuth ==
    /\ screen = "auth"
    /\ screen' = IF heldToken = NoAccount THEN "landing" ELSE "home"
    /\ cutShort' = IF heldToken = NoAccount THEN cutShort ELSE cutShort \cup {heldToken}
    /\ Cardinality(calls) <= MaxAbandoned
    /\ calls' = Abandon(calls)
    /\ UNCHANGED <<step, address, freshToken, flags, heldToken, liveCode, account, told, resending, beside, overtaken, lost>>
SignOutHome ==
    /\ screen = "home" /\ screen' = "landing" /\ heldToken' = NoAccount
    /\ UNCHANGED <<step, address, freshToken, flags, calls, liveCode, account, told, resending, record, lost>>
KillAuth ==
    /\ screen = "auth" /\ lost < MaxLost /\ lost' = lost + 1
    /\ screen' = IF heldToken = NoAccount THEN "landing" ELSE "home"
    /\ cutShort' = IF heldToken = NoAccount THEN cutShort ELSE cutShort \cup {heldToken}
    /\ calls' = {} /\ freshToken' = NoAccount /\ told' = "none"
    /\ UNCHANGED <<step, address, flags, heldToken, liveCode, account, resending, beside, overtaken>>

-----------------------------------------------------------------------------
\* The calls

\* run(fn): `busy' is set at the press, and every button but Resend and goStep's waits for it.
Call(kind, next) ==
    /\ Cardinality(calls) < MaxCalls
    /\ calls' = calls \cup {NewCall(kind, next, Waiting)}
    /\ busy' = TRUE /\ told' = "none"
    /\ UNCHANGED <<authScreen, cooling, heldToken, liveCode, account, record, lost>>
SendCode ==
    /\ screen = "auth" /\ step \in {"email", "resetEmail"} /\ ~busy
    /\ Call("start", IF step = "email" THEN "code" ELSE "resetCode") /\ UNCHANGED resending
\* Resend is off only while its countdown runs, which the answer starts.
Resend ==
    /\ Shows("code") /\ ~cooling
    /\ Call("start", "code") /\ resending' = (resending \/ busy)
VerifyCode == Shows("code") /\ ~busy /\ Call("verify", "credentials") /\ UNCHANGED resending
SaveCredentials == Shows("credentials") /\ ~busy /\ Call("save", "home") /\ UNCHANGED resending
Login == Shows("login") /\ ~busy /\ Call("login", "home") /\ UNCHANGED resending
ForgotUsername == Shows("forgotUsername") /\ ~busy /\ Call("forgot", "forgotUsernameSent") /\ UNCHANGED resending
ResetPassword == Shows("resetCode") /\ ~busy /\ Call("reset", "login") /\ UNCHANGED resending

\* The server's side of a call; a right code, a wrong one or a limit is its own choice.
MayBeNamed(a) == account[a] = "bare"
Serve(c) ==
    LET a == c.address
        answered(r) == calls' = (calls \ {c}) \cup {[c EXCEPT !.answer = r]}
        refused == answered("error") /\ UNCHANGED <<liveCode, account>>
        nothing == UNCHANGED <<liveCode, account>>
    IN
    /\ c.answer = Waiting
    /\ CASE c.kind = "start" ->
              \* Beyond its limits it answers the same and makes no code.
              \/ answered("ok") /\ liveCode' \in {liveCode, liveCode \cup {a}} /\ UNCHANGED <<account>>
              \/ refused
         [] c.kind = "verify" ->
              \/ /\ a \in liveCode /\ answered("ok") /\ liveCode' = liveCode \ {a}
                 /\ account' = [account EXCEPT ![a] = IF @ = "none" THEN "bare" ELSE @]
              \/ /\ a \in liveCode /\ account[a] = "none"      \* sign-ups are closed
                 /\ answered("error") /\ liveCode' = liveCode \ {a} /\ UNCHANGED account
              \/ refused
         [] c.kind = "save" ->
              \* setOwnCredentials: a name that is taken, or an account that has one.
              \/ /\ a # NoAccount /\ MayBeNamed(a)
                 /\ answered("ok") /\ account' = [account EXCEPT ![a] = "complete"]
                 /\ UNCHANGED <<liveCode>>
              \/ answered("taken") /\ nothing
         [] c.kind = "login" ->
              \/ account[a] = "complete" /\ answered("ok") /\ nothing
              \/ refused
         [] c.kind = "forgot" -> answered("ok") /\ nothing
         [] c.kind = "reset" ->
              \* The code is consumed even when there is no password to reset.
              \/ /\ a \in liveCode /\ liveCode' = liveCode \ {a} /\ UNCHANGED <<account>>
                 /\ answered(IF account[a] = "complete" THEN "ok" ELSE "error")
              \/ refused
    /\ UNCHANGED <<authScreen, flags, heldToken, told, resending, record, lost>>

\* Where the answer of a call leads.
NextStep(c) == c.next
FreshTyped(c) == IF c.kind = "verify" THEN address ELSE freshToken
FreshAfter(c) == IF c.kind = "verify" THEN c.address ELSE freshToken
SignsIn(c) == c.kind \in {"verify", "login"} /\ c.answer = "ok"
StillThere(c) == calls' = IF screen' = "auth" THEN calls \ {c} ELSE Abandon(calls \ {c})
Saving == \E c \in calls : c.mine /\ c.kind = "save"
\* The answer comes back while the screen is there: whichever call ends clears `busy'.
Answered(c) ==
    /\ c.mine /\ c.answer # Waiting
    /\ busy' = FALSE
    /\ heldToken' = IF SignsIn(c) THEN c.address ELSE heldToken
    /\ beside' = IF SignsIn(c) /\ Saving THEN beside \cup {c.address} ELSE beside
    /\ cooling' = (cooling \/ (c.kind = "start" /\ c.answer = "ok"))
    /\ IF c.answer = "ok"
         THEN /\ freshToken' = FreshAfter(c)
              /\ IF NextStep(c) = "home"
                   THEN screen' = "home" /\ UNCHANGED step
                   ELSE step' = NextStep(c) /\ UNCHANGED screen
              /\ UNCHANGED told
         ELSE /\ told' = IF c.answer = "taken" THEN "taken" ELSE "other"
              /\ UNCHANGED <<freshToken, step, screen>>
    /\ StillThere(c)
    /\ UNCHANGED <<address, liveCode, account, resending, cutShort, overtaken, lost>>
\* It comes back later: a sign-in still takes effect, and the landing screen follows the
\* token home; home() goes there from wherever the person is, even signed out by then.
GoesHome(c) == c.kind \in {"save", "login"} /\ c.answer = "ok"
AnsweredLate(c) ==
    /\ ~c.mine /\ c.answer # Waiting
    /\ heldToken' = IF SignsIn(c) THEN c.address ELSE heldToken
    /\ overtaken' = (overtaken \/ SignsIn(c))
    /\ screen' = IF GoesHome(c) \/ (SignsIn(c) /\ screen = "landing") THEN "home" ELSE screen
    /\ cutShort' = cutShort \cup (IF SignsIn(c) /\ c.kind = "verify" THEN {c.address} ELSE {})
                            \cup (IF GoesHome(c) /\ c.kind = "save" /\ heldToken # NoAccount THEN {heldToken} ELSE {})
    /\ StillThere(c)
    /\ UNCHANGED <<step, address, freshToken, flags, liveCode, account, told, resending, beside, lost>>
\* The server did its part, or nothing; the phone reports that it is offline.
LoseAnswer(c) ==
    /\ c \in calls /\ lost < MaxLost /\ lost' = lost + 1
    /\ calls' = (calls \ {c}) \cup {[c EXCEPT !.answer = "error"]}
    /\ UNCHANGED <<authScreen, flags, heldToken, liveCode, account, told, resending, record>>

-----------------------------------------------------------------------------

SignUpInit ==
    /\ screen = "landing" /\ step = "login" /\ freshToken = NoAccount
    /\ address \in Addresses /\ calls = {} /\ heldToken = NoAccount
    /\ liveCode = {} /\ account \in [Addresses -> {"none", "complete"}]
    /\ told = "none" /\ busy = FALSE /\ cooling = FALSE
    /\ resending = FALSE /\ cutShort = {} /\ beside = {} /\ overtaken = FALSE /\ lost = 0
SignUpNext ==
    \/ (\E mode \in {"email", "login"} : OpenAuth(mode)) \/ LeaveAuth \/ SignOutHome \/ KillAuth
    \/ (\E a \in Addresses : TypeAddress(a)) \/ (\E s \in Steps : GoStep(s)) \/ ResendAgain
    \/ SendCode \/ Resend \/ VerifyCode \/ SaveCredentials \/ Login \/ ForgotUsername \/ ResetPassword
    \/ \E c \in calls : Serve(c) \/ Answered(c) \/ AnsweredLate(c) \/ LoseAnswer(c)
SignUpSpec == SignUpInit /\ [][SignUpNext]_signUpVars

-----------------------------------------------------------------------------
\* Properties

\* Every variable stays in its type.  `busy' says whether a call of the screen is under way,
\* and there is one at most, until a code is asked for again beside another call.
SignUpTypeOK ==
    /\ screen \in {"landing", "auth", "home"} /\ step \in Steps
    /\ heldToken \in Addresses \cup {NoAccount} /\ freshToken \in Addresses \cup {NoAccount}
    /\ account \in [Addresses -> {"none", "bare", "complete"}]
    /\ (\E c \in calls : c.mine) => screen = "auth"
    /\ (screen = "auth" /\ ~resending) => /\ busy <=> \E c \in calls : c.mine
                                          /\ \A c, d \in calls : c.mine /\ d.mine => c = d
    /\ screen = "landing" => heldToken = NoAccount

\* Nobody is signed in to the app with an account that cannot be signed in to again - unless
\* its setup was cut short (left, killed, or ended by an answer to a screen left before), or
\* its code was verified while credentials were being saved (verifyCode, "not skippable").
HomeIsNamed ==
    (screen = "home" /\ heldToken # NoAccount) =>
        (account[heldToken] = "complete" \/ heldToken \in cutShort \cup beside)

\* Whatever address is typed in the meantime and in whatever order answers come, the
\* credentials step names the account whose code was verified (freshToken), which is
\* the account the phone is signed in to - unless a call of a screen left before signs in late.
CredentialsAreOwn ==
    (Shows("credentials") /\ ~overtaken) => (freshToken # NoAccount /\ freshToken = heldToken /\ account[freshToken] # "none")

\* The credentials step is left only with credentials saved, by the back gesture or a kill,
\* or - by an answer that leads to the code step - once the screen asked for a code again
\* while another of its calls was under way.
CredentialsStepHolds ==
    [][(Shows("credentials") /\ screen' = "auth") => (step' = "credentials" \/ resending)]_signUpVars

\* Whoever is signed in has finished signing up, as the address they verified (app/auth.tsx).
SignUpIsOwn == HomeIsNamed /\ CredentialsAreOwn
=============================================================================
