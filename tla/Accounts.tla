------------------------------ MODULE Accounts ------------------------------
(***************************************************************************)
(* Signing in: emailed codes, accounts, passwords, usernames and sessions.  *)
(* Every handler that reads rows in one statement and writes in another is  *)
(* split there: `flow[d]' is the request device d has in progress, with     *)
(* what it has read so far.  One session per device and account stands for  *)
(* all those rows; a revoked, expired or deleted session is simply absent.  *)
(***************************************************************************)
EXTENDS Naturals, FiniteSets, FiniteSetsExt

CONSTANTS Devices, Accounts, Addresses, Usernames,
          NoAccount, NoAddress, NoName,
          Known,               \* accounts that exist from the start
          Staff,               \* those of them that were created by an admin
          InitialAddress,      \* the address of every known account
          MaxCodes,            \* bound: codes sent
          OtpMaxAttempts,      \* LIMITS.otpMaxAttempts
          MaxGuesses           \* bound: guesses at one code

ASSUME AttemptsAssumption == OtpMaxAttempts \in Nat \ {0}
ASSUME NothingAssumption == /\ NoAccount \notin Accounts
                            /\ NoAddress \notin Addresses
                            /\ NoName \notin Usernames
ASSUME BoundsAssumption == MaxCodes \in Nat /\ MaxGuesses \in Nat
\* The accounts of the start have addresses of their own; the bootstrap script makes one
\* administrator at most.
ASSUME KnownAssumption == /\ Staff \subseteq Known /\ Known \subseteq Accounts
                          /\ \A a, b \in Staff : a = b
                          /\ InitialAddress \in [Known -> Addresses]
                          /\ \A a, b \in Known : InitialAddress[a] = InitialAddress[b] => a = b
                          /\ Usernames # {}

Codes == 1 .. MaxCodes
\* "generated" is a password the server made; "own" and "other" are the owner's choice.
Passwords == {"generated", "own", "other"}

VARIABLES account,      \* the users table
          code,         \* otp_codes, in order of creation; `wrong' is history
          session,      \* sessions in force: pairs <<device, account>>
          flow,         \* the request each device has in progress
          signupOpen    \* the feature flag

signVars == <<account, code, session, flow, signupOpen>>

Free == [status |-> "none", erased |-> FALSE, until |-> "none", address |-> NoAddress,
         username |-> NoName, password |-> "none", mustChange |-> FALSE]
Idle == [step |-> "idle", code |-> 0, seen |-> 0, purpose |-> "verify", address |-> NoAddress,
         row |-> NoAccount, username |-> NoName, password |-> "none"]

HolderOf(e) == {a \in Accounts : account[a].address = e}
Fresh == {a \in Accounts : account[a].status = "none"}
LiveCodes(e) == {c \in Codes : code[c].state = "live" /\ code[c].address = e}

Step(d, s) == flow' = [flow EXCEPT ![d].step = s]
Done(d) == flow' = [flow EXCEPT ![d] = Idle]

\* Suspensions whose clock ran out count as lifted before the sweep gets to them.
Suspended(a) == account[a].status = "suspended" /\ account[a].until # "past"

\* Who a bearer token stands for: session in force, account not erased.
Resolves(d, a) == <<d, a>> \in session /\ ~account[a].erased

\* What `authenticate' lets through; only leaving, reading yourself and changing the
\* password stay open while a generated password is still to be replaced.
Authenticated(d, a, exempt) ==
    /\ Resolves(d, a)
    /\ ~Suspended(a)
    /\ account[a].mustChange => exempt

-----------------------------------------------------------------------------
\* Emailed codes

\* startOtp: the codes sent before are consumed, then a new one is inserted.  Two
\* concurrent transactions do not see each other's insert.
StartOtp(d, e) ==
    /\ flow[d].step = "idle"
    /\ code' = [c \in Codes |-> IF c \in LiveCodes(e) THEN [code[c] EXCEPT !.state = "consumed"] ELSE code[c]]
    /\ flow' = [flow EXCEPT ![d].step = "starting", ![d].address = e]
    /\ UNCHANGED <<account, session, signupOpen>>

InsertCode(d) ==
    /\ flow[d].step = "starting"
    /\ \E c \in Codes :
          /\ code[c].state = "unsent"
          /\ \A b \in Codes : code[b].state = "unsent" => c <= b
          /\ code' = [code EXCEPT ![c] = [state |-> "live", address |-> flow[d].address, attempts |-> 0, wrong |-> 0]]
    /\ Done(d)
    /\ UNCHANGED <<account, session, signupOpen>>

CodeExpires(c) ==
    /\ code[c].state = "live"
    /\ code' = [code EXCEPT ![c].state = "expired"]
    /\ UNCHANGED <<account, session, flow, signupOpen>>

\* consumeOtp reads the newest code that is neither consumed nor expired ...
ReadCode(d, e, purpose) ==
    /\ flow[d].step = "idle"
    /\ LiveCodes(e) # {}
    /\ LET c == Max(LiveCodes(e))
       IN  flow' = [flow EXCEPT ![d].step = "guessing", ![d].address = e, ![d].purpose = purpose,
                                ![d].code = c, ![d].seen = code[c].attempts]
    /\ UNCHANGED <<account, code, session, signupOpen>>

AttemptsStale(d) == flow[d].seen + 1 \* mutant

\* ... counts the attempt in the row itself, and what it compares with is that count.
AttemptsAfter(d) == code[flow[d].code].attempts + 1

Guess(d, right) ==
    LET c == flow[d].code
        n == AttemptsAfter(d)
    IN  /\ flow[d].step = "guessing" /\ code[c].attempts < MaxGuesses
        /\ code' = [code EXCEPT ![c].attempts = n, ![c].wrong = IF right THEN @ ELSE @ + 1]
        /\ \/ right /\ n <= OtpMaxAttempts /\ Step(d, "matched")
           \/ right /\ n > OtpMaxAttempts /\ Done(d)
           \/ ~right /\ n >= OtpMaxAttempts /\ Step(d, "burning")
           \/ ~right /\ n < OtpMaxAttempts /\ Done(d)
        /\ UNCHANGED <<account, session, signupOpen>>

ConsumeCode(d) ==
    /\ flow[d].step \in {"matched", "burning"}
    /\ code' = [code EXCEPT ![flow[d].code].state = "consumed"]
    /\ IF flow[d].step = "matched" THEN Step(d, "proved") ELSE Done(d)
    /\ UNCHANGED <<account, session, signupOpen>>

-----------------------------------------------------------------------------
\* Signing in

\* verifyOtp looks for the account of the address, ...
FindAccount(d) ==
    /\ flow[d].step = "proved" /\ flow[d].purpose = "verify"
    /\ LET holder == HolderOf(flow[d].address)
           live == {a \in holder : account[a].status # "deleted" /\ ~account[a].erased}
       IN  IF live # {}
           THEN \E a \in live : flow' = [flow EXCEPT ![d].step = "opening", ![d].row = a]
           ELSE IF holder # {} THEN \E a \in holder : flow' = [flow EXCEPT ![d].step = "creating", ![d].row = a]
           ELSE flow' = [flow EXCEPT ![d].step = "creating", ![d].row = NoAccount]
    /\ UNCHANGED <<account, code, session, signupOpen>>

AddressAssumedFree(e, except) == TRUE \* mutant

\* the unique index on the blind index of the address
AddressFree(e, except) == HolderOf(e) \subseteq {except}

\* ... detaches it from a deleted account and signs up a fresh one.  Closed sign-ups and
\* a lost race for the address roll the transaction back; the code stays consumed.
SignUp(d) ==
    LET f == flow[d]
    IN  /\ f.step = "creating"
        /\ IF signupOpen /\ AddressFree(f.address, f.row)
           THEN \E a \in Fresh :
                   /\ account' = [b \in Accounts |->
                         IF b = a THEN [Free EXCEPT !.status = "active", !.address = f.address]
                         ELSE IF b = f.row THEN [account[b] EXCEPT !.address = NoAddress]
                         ELSE account[b]]
                   /\ flow' = [flow EXCEPT ![d].step = "opening", ![d].row = a]
           ELSE Done(d) /\ UNCHANGED account
        /\ UNCHANGED <<code, session, signupOpen>>

\* The session is inserted by a statement of its own, whatever happened meanwhile.
OpenSession(d) ==
    /\ flow[d].step = "opening"
    /\ session' = session \cup {<<d, flow[d].row>>}
    /\ Done(d)
    /\ UNCHANGED <<account, code, signupOpen>>

\* loginWithPassword
Login(d, a, p) ==
    /\ flow[d].step = "idle"
    /\ account[a].username # NoName /\ account[a].password = p
    /\ account[a].status \notin {"deleted", "suspended"} /\ ~account[a].erased
    /\ account[a].until # "running"
    /\ flow' = [flow EXCEPT ![d].step = "opening", ![d].row = a]
    /\ UNCHANGED <<account, code, session, signupOpen>>

\* revokeSession, of this device or of another one of the same account
RevokeSession(d, a, other) ==
    /\ Authenticated(d, a, d = other) /\ <<other, a>> \in session
    /\ session' = session \ {<<other, a>>}
    /\ UNCHANGED <<account, code, flow, signupOpen>>

-----------------------------------------------------------------------------
\* Passwords and usernames

\* changeOwnPassword: checks against the row it read, then writes blindly.
CheckPassword(d, a, new) ==
    /\ flow[d].step = "idle"
    /\ Authenticated(d, a, TRUE)
    /\ account[a].password # "none" /\ new \notin {account[a].password, "generated"}
    /\ flow' = [flow EXCEPT ![d].step = "changing", ![d].row = a, ![d].password = new]
    /\ UNCHANGED <<account, code, session, signupOpen>>

ChangePassword(d) ==
    LET a == flow[d].row
    IN  /\ flow[d].step = "changing"
        /\ account' = [account EXCEPT ![a].password = flow[d].password, ![a].mustChange = FALSE]
        /\ session' = {s \in session : s[2] = a => s[1] = d}
        /\ Done(d)
        /\ UNCHANGED <<code, signupOpen>>


\* setOwnCredentials: set-up, never a renaming; the unique index decides a race.
NameFree(n, except) == \A a \in Accounts \ {except} : account[a].username # n

CheckUsername(d, a, n) ==
    /\ flow[d].step = "idle"
    /\ Authenticated(d, a, FALSE)
    /\ account[a].username = NoName /\ NameFree(n, NoAccount)
    /\ flow' = [flow EXCEPT ![d].step = "naming", ![d].row = a, ![d].username = n]
    /\ UNCHANGED <<account, code, session, signupOpen>>

SetCredentials(d) ==
    LET f == flow[d]
    IN  /\ f.step = "naming"
        /\ IF NameFree(f.username, f.row)
           THEN account' = [account EXCEPT ![f.row].username = f.username, ![f.row].password = "own",
                                           ![f.row].mustChange = FALSE]
           ELSE UNCHANGED account
        /\ Done(d)
        /\ UNCHANGED <<code, session, signupOpen>>


\* Only an account with a username has a password to reset.
Resettable(e) == {a \in HolderOf(e) : ~account[a].erased /\ account[a].username # NoName}

\* resetPasswordWithOtp: reads the account outside the transaction that writes it, and
\* signs every device out.
FindReset(d) ==
    /\ flow[d].step = "proved" /\ flow[d].purpose = "reset"
    /\ IF Resettable(flow[d].address) = {} THEN Done(d)
       ELSE \E a \in Resettable(flow[d].address) :
               flow' = [flow EXCEPT ![d].step = "resetting", ![d].row = a]
    /\ UNCHANGED <<account, code, session, signupOpen>>

SignedOut(a) == {s \in session : s[2] # a}

ResetPassword(d, p) ==
    LET a == flow[d].row
    IN  /\ flow[d].step = "resetting"
        /\ account' = [account EXCEPT ![a].password = p, ![a].mustChange = FALSE]
        /\ session' = SignedOut(a)
        /\ Done(d)
        /\ UNCHANGED <<code, signupOpen>>

\* resetAdminPassword: a staff password is reissued; sessions stay, the gate closes.
ResetAdminPassword(a) ==
    /\ account[a].username # NoName
    /\ account' = [account EXCEPT ![a].password = "generated", ![a].mustChange = TRUE]
    /\ UNCHANGED <<code, session, flow, signupOpen>>

\* createAdminAccount, and the bootstrap script with its stricter test of the address:
\* both see to it that neither the name nor the address is taken.
CreateAdmin(a, n, e) ==
    /\ a \in Fresh /\ NameFree(n, NoAccount) /\ AddressFree(e, NoAccount)
    /\ account' = [account EXCEPT ![a] = [Free EXCEPT !.status = "active", !.address = e, !.username = n,
                                                      !.password = "generated", !.mustChange = TRUE]]
    /\ UNCHANGED <<code, session, flow, signupOpen>>

-----------------------------------------------------------------------------
\* Leaving

\* requestAccountDeletion: everybody is signed out and the status flips at once.
RequestDeletion(d, a) ==
    /\ Authenticated(d, a, FALSE)
    /\ account' = [account EXCEPT ![a].status = "deleted"]
    /\ session' = SignedOut(a)
    /\ UNCHANGED <<code, flow, signupOpen>>

\* The last steps of performAccountDeletion; username and password stay on the row.
EraseAccount(a) ==
    /\ account' = [account EXCEPT ![a].status = "deleted", ![a].erased = TRUE, ![a].address = NoAddress]
    /\ session' = SignedOut(a)
    /\ UNCHANGED <<code, flow, signupOpen>>

\* The signup_open flag, by hand or by the emergency shutdown.
SetSignup(open) ==
    /\ signupOpen' = open
    /\ UNCHANGED <<account, code, session, flow>>

SignInit ==
    /\ account = [a \in Accounts |->
          IF a \notin Known THEN Free
          ELSE IF a \in Staff
               THEN [Free EXCEPT !.status = "active", !.address = InitialAddress[a],
                                 !.username = CHOOSE n \in Usernames : TRUE,
                                 !.password = "generated", !.mustChange = TRUE]
               ELSE [Free EXCEPT !.status = "active", !.address = InitialAddress[a]]]
    /\ code = [c \in Codes |-> [state |-> "unsent", address |-> NoAddress, attempts |-> 0, wrong |-> 0]]
    /\ session = {}
    /\ flow = [d \in Devices |-> Idle]
    /\ signupOpen = TRUE

OtpStep(d) ==
    \/ \E e \in Addresses : StartOtp(d, e) \/ ReadCode(d, e, "verify") \/ ReadCode(d, e, "reset")
    \/ InsertCode(d) \/ Guess(d, TRUE) \/ Guess(d, FALSE) \/ ConsumeCode(d)
    \/ FindAccount(d) \/ SignUp(d) \/ OpenSession(d) \/ FindReset(d)
    \/ \E p \in Passwords : ResetPassword(d, p)

AccountStep(d, a) ==
    \/ \E p \in Passwords : Login(d, a, p) \/ CheckPassword(d, a, p)
    \/ \E other \in Devices : RevokeSession(d, a, other)
    \/ \E n \in Usernames : CheckUsername(d, a, n)
    \/ RequestDeletion(d, a)

SignNext ==
    \/ \E d \in Devices : OtpStep(d) \/ ChangePassword(d) \/ SetCredentials(d)
    \/ \E d \in Devices, a \in Accounts : AccountStep(d, a)
    \/ \E a \in Accounts :
          \/ ResetAdminPassword(a)
          \/ account[a].status = "deleted" /\ ~account[a].erased /\ EraseAccount(a)
          \/ \E n \in Usernames, e \in Addresses : CreateAdmin(a, n, e)
    \/ \E c \in Codes : CodeExpires(c)
    \/ \E open \in BOOLEAN : SetSignup(open)

-----------------------------------------------------------------------------

\* Every row and every request in progress is one the handlers can produce.
AccountsTypeOK ==
    /\ account \in [Accounts -> [status : {"none", "active", "suspended", "deleted"}, erased : BOOLEAN,
                                 until : {"none", "running", "past"}, address : Addresses \cup {NoAddress},
                                 username : Usernames \cup {NoName}, password : Passwords \cup {"none"},
                                 mustChange : BOOLEAN]]
    /\ code \in [Codes -> [state : {"unsent", "live", "consumed", "expired"},
                           address : Addresses \cup {NoAddress}, attempts : 0 .. MaxGuesses, wrong : 0 .. MaxGuesses]]
    /\ session \subseteq Devices \X Accounts
    /\ \A d \in Devices : flow[d].step # "idle" =>
          flow[d].step \in {"starting", "guessing", "matched", "burning", "proved", "opening", "creating",
                            "changing", "naming", "resetting"}
    /\ \A a \in Accounts : (account[a].username = NoName) = (account[a].password = "none")
    /\ signupOpen \in BOOLEAN

\* An address and a username belong to one account, though each is read by one
\* statement and claimed by a later one.
OneAccount ==
    \A a, b \in Accounts :
        \/ account[a].address = account[b].address /\ account[a].address # NoAddress
        \/ account[a].username = account[b].username /\ account[a].username # NoName
        => a = b

\* However many requests guess at once, a right guess is let through only if fewer
\* than OtpMaxAttempts wrong ones were counted before it.
LockedOut ==
    [][\A d \in Devices : flow[d].step = "guessing" /\ flow'[d].step = "matched"
          => code[flow[d].code].wrong < OtpMaxAttempts]_signVars
=============================================================================
