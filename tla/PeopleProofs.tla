---------------------------- MODULE PeopleProofs ----------------------------
(***************************************************************************)
(* What signing in, moderation and event membership promise, for any number *)
(* of accounts, devices, codes, sanctions and members.                      *)
(***************************************************************************)
EXTENDS People, TLAPS, WellFoundedInduction

-----------------------------------------------------------------------------
(* Numbers *)

\* A set of numbers has a smallest one, and a bounded one a largest.
LEMMA NatMin ==
    ASSUME NEW S \in SUBSET Nat, S # {}
    PROVE  Min(S) \in S /\ \A y \in S : Min(S) <= y
  <1> DEFINE R == OpToRel(<, Nat)
  <1>1. IsWellFoundedOn(R, Nat)
    BY NatLessThanWellFounded
  <1>2. \A x, y \in Nat : <<y, x>> \in R <=> y < x
    BY DEF OpToRel
  <1> HIDE DEF R
  <1>3. PICK x \in S : \A y \in S : ~(<<y, x>> \in R)
    BY <1>1, WFMin
  <1>4. \A y \in S : x <= y
    <2> SUFFICES ASSUME NEW y \in S
                 PROVE  x <= y
      OBVIOUS
    <2>1. x \in Nat /\ y \in Nat
      OBVIOUS
    <2>2. ~(y < x)
      BY <1>2, <1>3, <2>1, Zenon
    <2> QED
      BY <2>1, <2>2
  <1> QED
    BY <1>4 DEF Min

LEMMA BoundedMax ==
    ASSUME NEW n \in Nat, NEW S \in SUBSET (1 .. n), S # {}
    PROVE  Max(S) \in S /\ \A y \in S : Max(S) >= y
  <1> DEFINE T == {n - x : x \in S}
  <1>1. T \in SUBSET Nat /\ T # {}
    <2>1. \A x \in S : n - x \in Nat
      OBVIOUS
    <2> QED
      BY <2>1
  <1>2. PICK t \in T : \A y \in T : t <= y
    BY <1>1, NatMin
  <1>3. PICK x \in S : t = n - x
    OBVIOUS
  <1>4. \A y \in S : x >= y
    <2> SUFFICES ASSUME NEW y \in S
                 PROVE  x >= y
      OBVIOUS
    <2>1. n - x <= n - y
      BY <1>2, <1>3
    <2> QED
      BY <2>1
  <1> QED
    BY <1>4 DEF Max

\* The remainder of the next number.
LEMMA Remainder ==
    ASSUME NEW n \in Int, NEW k \in Int, k > 0, NEW q \in Int, NEW r \in Int,
           n = q * k + r, 0 <= r, r < k
    PROVE  n % k = r
  BY SMTT(30)

LEMMA NextMod ==
    ASSUME NEW n \in Nat, NEW k \in Nat, k > 0
    PROVE  /\ n % k \in 0 .. k - 1
           /\ (n + 1) % k = IF n % k = k - 1 THEN 0 ELSE (n % k) + 1
  <1> DEFINE q == n \div k
             r == n % k
  <1>1. q \in Int /\ r \in 0 .. k - 1
    OBVIOUS
  <1>2. n = k * q + r
    BY SMTT(30)
  <1> HIDE DEF q, r
  <1>3. k * q = q * k /\ (q + 1) * k = q * k + k
    BY <1>1
  <1>4. CASE r = k - 1
    <2>1. n + 1 = (q + 1) * k + 0
      BY <1>1, <1>2, <1>3, <1>4
    <2>2. (n + 1) % k = 0
      BY <1>1, <2>1, Remainder
    <2> QED
      BY <1>1, <1>4, <2>2 DEF r
  <1>5. CASE r # k - 1
    <2>1. n + 1 = q * k + (r + 1) /\ 0 <= r + 1 /\ r + 1 < k /\ r + 1 \in Int
      BY <1>1, <1>2, <1>3, <1>5
    <2> DEFINE m == n + 1
               d == r + 1
    <2>a. m \in Int /\ d \in Int /\ m = q * k + d /\ 0 <= d /\ d < k
      BY <2>1
    <2>2. m % k = d
      <3> HIDE DEF m, d
      <3> QED
        BY <1>1, <2>a, Remainder
    <2> QED
      BY <1>1, <1>5, <2>2 DEF r
  <1> QED
    BY <1>4, <1>5

-----------------------------------------------------------------------------
(* Accounts: the invariant *)

Steps == {"idle", "starting", "guessing", "matched", "burning", "proved", "opening", "creating",
          "changing", "naming", "resetting"}
AccountRow == [status : {"none", "active", "suspended", "deleted"}, erased : BOOLEAN,
               until : {"none", "running", "past"}, address : Addresses \cup {NoAddress},
               username : Usernames \cup {NoName}, password : Passwords \cup {"none"},
               mustChange : BOOLEAN]
CodeRow == [state : {"unsent", "live", "consumed", "expired"}, address : Addresses \cup {NoAddress},
            attempts : 0 .. MaxGuesses, wrong : 0 .. MaxGuesses]
FlowRow == [step : Steps, code : Nat, seen : Nat, purpose : {"verify", "reset"},
            address : Addresses \cup {NoAddress}, row : Accounts \cup {NoAccount},
            username : Usernames \cup {NoName}, password : Passwords \cup {"none"}]

\* A row nobody has is empty, and who has a username has a password.
RowFits(r) ==
    /\ (r.username = NoName) = (r.password = "none")
    /\ r.status = "none" => r.username = NoName /\ r.address = NoAddress

AccountPart ==
    /\ account \in [Accounts -> AccountRow]
    /\ \A a \in Accounts : RowFits(account[a])
    /\ OneAccount

\* Every wrong guess has been counted.
CodePart ==
    /\ code \in [Codes -> CodeRow]
    /\ \A c \in Codes : code[c].wrong <= code[c].attempts

SessionPart ==
    /\ session \subseteq Devices \X Accounts
    /\ \A s \in session : account[s[2]].status # "none"

\* What a request in progress has read is still so.
FlowFits(f, rows) ==
    /\ f \in FlowRow
    /\ f.step \in {"starting", "guessing", "matched", "burning", "proved"} => f.address \in Addresses
    /\ f.step \in {"guessing", "matched", "burning"} => f.code \in Codes
    /\ f.step \in {"opening", "changing", "naming", "resetting"} =>
          f.row \in Accounts /\ rows[f.row].status # "none"
    /\ f.step \in {"changing", "resetting"} => rows[f.row].username # NoName
    /\ f.step = "changing" => f.password \in Passwords
    /\ f.step = "naming" => f.username \in Usernames

FlowPart ==
    /\ flow \in [Devices -> FlowRow]
    /\ \A d \in Devices : FlowFits(flow[d], account)

AccountsInv == AccountPart /\ CodePart /\ SessionPart /\ FlowPart /\ signupOpen \in BOOLEAN

\* Rows are never given up again, nor are usernames.
Grows(old, new) ==
    \A a \in Accounts :
        /\ old[a].status # "none" => new[a].status # "none"
        /\ old[a].username # NoName => new[a].username # NoName

\* The step of LockedOut.
GuessCounted ==
    \A d \in Devices : flow[d].step = "guessing" /\ flow'[d].step = "matched"
        => code[flow[d].code].wrong < OtpMaxAttempts

LEMMA FitsLater ==
    ASSUME NEW f, NEW old, NEW new, FlowFits(f, old), Grows(old, new)
    PROVE  FlowFits(f, new)
  BY DEF FlowFits, Grows

\* A step is put together from what it does to each table.
LEMMA Assemble ==
    ASSUME AccountsInv, AccountPart', CodePart', Grows(account, account'),
           flow' \in [Devices -> FlowRow],
           \A d \in Devices : flow'[d] = flow[d] \/ FlowFits(flow'[d], account'),
           \A s \in session' : s \in session \/ (s \in Devices \X Accounts /\ account'[s[2]].status # "none"),
           signupOpen' \in BOOLEAN
    PROVE  AccountsInv'
  <1>1. FlowPart'
    <2>1. \A d \in Devices : FlowFits(flow[d], account')
      BY FitsLater DEF AccountsInv, FlowPart
    <2> QED
      BY <2>1 DEF FlowPart
  <1>2. SessionPart'
    <2>1. \A s \in session : s \in Devices \X Accounts /\ s[2] \in Accounts /\ account[s[2]].status # "none"
      BY DEF AccountsInv, SessionPart
    <2> QED
      BY <2>1 DEF Grows, SessionPart
  <1> QED
    BY <1>1, <1>2 DEF AccountsInv

\* Many handlers only move the request of their device on.
LEMMA FlowStep ==
    ASSUME AccountsInv, NEW d \in Devices, NEW f,
           flow' = [flow EXCEPT ![d] = f], FlowFits(f, account), f.step # "matched",
           UNCHANGED <<account, code, session, signupOpen>>
    PROVE  AccountsInv' /\ GuessCounted
  <1>1. flow' \in [Devices -> FlowRow]
    BY DEF AccountsInv, FlowPart, FlowFits
  <1>2. \A c \in Devices : flow'[c] = flow[c] \/ (flow'[c] = f /\ FlowFits(flow'[c], account'))
    BY DEF AccountsInv, FlowPart
  <1>3. AccountPart' /\ CodePart' /\ Grows(account, account') /\ signupOpen' \in BOOLEAN
    BY DEF AccountsInv, AccountPart, OneAccount, CodePart, Grows
  <1>4. AccountsInv'
    BY <1>1, <1>2, <1>3, Assemble
  <1>5. GuessCounted
    BY <1>2 DEF GuessCounted
  <1> QED
    BY <1>4, <1>5

-----------------------------------------------------------------------------
(* Accounts: the handlers *)

LEMMA ReadCodeKeeps ==
    ASSUME AccountsInv, NEW d \in Devices, NEW e \in Addresses, NEW purpose \in {"verify", "reset"},
           ReadCode(d, e, purpose)
    PROVE  AccountsInv' /\ GuessCounted
  <1> DEFINE c == Max(LiveCodes(e))
             f == [flow[d] EXCEPT !.step = "guessing", !.address = e, !.purpose = purpose,
                                  !.code = c, !.seen = code[c].attempts]
  <1>1. c \in Codes
    <2>1. LiveCodes(e) \in SUBSET (1 .. MaxCodes) /\ LiveCodes(e) # {}
      BY DEF LiveCodes, Codes, ReadCode
    <2> QED
      BY <2>1, BoundsAssumption, BoundedMax DEF LiveCodes
  <1>2. code[c].attempts \in Nat /\ c \in Nat
    BY <1>1, BoundsAssumption DEF AccountsInv, CodePart, CodeRow, Codes
  <1>t. flow \in [Devices -> FlowRow] /\ flow[d] \in FlowRow
    BY DEF AccountsInv, FlowPart
  <1>3. flow' = [flow EXCEPT ![d] = f] /\ UNCHANGED <<account, code, session, signupOpen>>
    BY <1>t DEF ReadCode
  <1> HIDE DEF c
  <1>4. f \in FlowRow
    BY <1>2, <1>t DEF FlowRow, Steps
  <1>5. f.step = "guessing" /\ f.address = e /\ f.code = c
    BY <1>t DEF FlowRow
  <1>6. FlowFits(f, account)
    BY <1>1, <1>4, <1>5 DEF FlowFits
  <1> HIDE DEF f
  <1> QED
    BY <1>3, <1>5, <1>6, FlowStep

\* A request that goes on to a row it has found.
LEMMA RowFound ==
    ASSUME AccountsInv, NEW d \in Devices, NEW f,
           flow' = [flow EXCEPT ![d] = f], f \in FlowRow,
           f.step \in {"opening", "changing", "naming", "resetting"},
           f.row \in Accounts, account[f.row].status # "none",
           f.step \in {"changing", "resetting"} => account[f.row].username # NoName,
           f.step = "changing" => f.password \in Passwords,
           f.step = "naming" => f.username \in Usernames,
           UNCHANGED <<account, code, session, signupOpen>>
    PROVE  AccountsInv' /\ GuessCounted
  <1>1. FlowFits(f, account) /\ f.step # "matched"
    BY DEF FlowFits
  <1> QED
    BY <1>1, FlowStep

LEMMA IdleFits ==
    ASSUME NEW rows
    PROVE  FlowFits(Idle, rows) /\ Idle \in FlowRow /\ Idle.step = "idle"
  <1>1. Idle \in FlowRow
    BY DEF Idle, FlowRow, Steps
  <1>2. Idle.step = "idle"
    BY DEF Idle
  <1> QED
    BY <1>1, <1>2 DEF FlowFits

LEMMA DoneKeeps ==
    ASSUME AccountsInv, NEW d \in Devices, Done(d), UNCHANGED <<account, code, session, signupOpen>>
    PROVE  AccountsInv' /\ GuessCounted
  <1>1. flow' = [flow EXCEPT ![d] = Idle]
    BY DEF Done
  <1> QED
    BY <1>1, IdleFits, FlowStep

LEMMA FindAccountKeeps ==
    ASSUME AccountsInv, NEW d \in Devices, FindAccount(d)
    PROVE  AccountsInv' /\ GuessCounted
  <1>t. /\ flow \in [Devices -> FlowRow] /\ flow[d] \in FlowRow /\ flow[d].step = "proved"
        /\ flow[d].address \in Addresses /\ UNCHANGED <<account, code, session, signupOpen>>
    BY DEF AccountsInv, FlowPart, FlowFits, FindAccount
  <1>h. \A a \in HolderOf(flow[d].address) : a \in Accounts /\ account[a].status # "none"
    BY <1>t, NothingAssumption DEF HolderOf, AccountsInv, AccountPart, RowFits
  <1>1. CASE \E a \in HolderOf(flow[d].address) :
                flow' = [flow EXCEPT ![d].step = "opening", ![d].row = a]
    <2>1. PICK a \in HolderOf(flow[d].address) :
                flow' = [flow EXCEPT ![d].step = "opening", ![d].row = a]
      BY <1>1
    <2> DEFINE f == [flow[d] EXCEPT !.step = "opening", !.row = a]
    <2>2. flow' = [flow EXCEPT ![d] = f]
      BY <1>t, <2>1
    <2>3. f \in FlowRow /\ f.step = "opening" /\ f.row = a
      BY <1>t, <1>h DEF FlowRow, Steps
    <2> HIDE DEF f
    <2> QED
      BY <1>t, <1>h, <2>2, <2>3, RowFound
  <1>2. CASE \E a \in HolderOf(flow[d].address) \cup {NoAccount} :
                flow' = [flow EXCEPT ![d].step = "creating", ![d].row = a]
    <2>1. PICK a \in HolderOf(flow[d].address) \cup {NoAccount} :
                flow' = [flow EXCEPT ![d].step = "creating", ![d].row = a]
      BY <1>2
    <2> DEFINE f == [flow[d] EXCEPT !.step = "creating", !.row = a]
    <2>2. flow' = [flow EXCEPT ![d] = f]
      BY <1>t, <2>1
    <2>3. f \in FlowRow /\ f.step = "creating"
      BY <1>t, <1>h DEF FlowRow, Steps
    <2>4. FlowFits(f, account)
      BY <2>3 DEF FlowFits
    <2> HIDE DEF f
    <2> QED
      BY <1>t, <2>2, <2>3, <2>4, FlowStep
  <1>3. \/ \E a \in HolderOf(flow[d].address) : flow' = [flow EXCEPT ![d].step = "opening", ![d].row = a]
        \/ \E a \in HolderOf(flow[d].address) \cup {NoAccount} :
              flow' = [flow EXCEPT ![d].step = "creating", ![d].row = a]
    BY Zenon DEF FindAccount
  <1> QED
    BY <1>1, <1>2, <1>3

LEMMA LoginKeeps ==
    ASSUME AccountsInv, NEW d \in Devices, NEW a \in Accounts, NEW p \in Passwords, Login(d, a, p)
    PROVE  AccountsInv' /\ GuessCounted
  <1> DEFINE f == [flow[d] EXCEPT !.step = "opening", !.row = a]
  <1>t. flow \in [Devices -> FlowRow] /\ flow[d] \in FlowRow
    BY DEF AccountsInv, FlowPart
  <1>1. flow' = [flow EXCEPT ![d] = f] /\ UNCHANGED <<account, code, session, signupOpen>>
    BY <1>t DEF Login
  <1>2. f \in FlowRow /\ f.step = "opening" /\ f.row = a
    BY <1>t DEF FlowRow, Steps
  <1>3. account[a].status # "none"
    BY DEF Login, AccountsInv, AccountPart, RowFits
  <1> HIDE DEF f
  <1> QED
    BY <1>1, <1>2, <1>3, RowFound

\* A bearer token belongs to an account.
LEMMA SignedIn ==
    ASSUME AccountsInv, NEW d, NEW a, NEW exempt, Authenticated(d, a, exempt)
    PROVE  a \in Accounts /\ account[a].status # "none"
  BY DEF AccountsInv, SessionPart, Authenticated, Resolves

LEMMA CheckPasswordKeeps ==
    ASSUME AccountsInv, NEW d \in Devices, NEW a \in Accounts, NEW new \in Passwords,
           CheckPassword(d, a, new)
    PROVE  AccountsInv' /\ GuessCounted
  <1> DEFINE f == [flow[d] EXCEPT !.step = "changing", !.row = a, !.password = new]
  <1>t. flow \in [Devices -> FlowRow] /\ flow[d] \in FlowRow
    BY DEF AccountsInv, FlowPart
  <1>1. flow' = [flow EXCEPT ![d] = f] /\ UNCHANGED <<account, code, session, signupOpen>>
    BY <1>t DEF CheckPassword
  <1>2. f \in FlowRow /\ f.step = "changing" /\ f.row = a /\ f.password = new
    BY <1>t DEF FlowRow, Steps
  <1>3. account[a].status # "none"
    BY SignedIn DEF CheckPassword
  <1>4. account[a].username # NoName
    BY DEF CheckPassword, AccountsInv, AccountPart, RowFits
  <1> HIDE DEF f
  <1> QED
    BY <1>1, <1>2, <1>3, <1>4, RowFound

LEMMA CheckUsernameKeeps ==
    ASSUME AccountsInv, NEW d \in Devices, NEW a \in Accounts, NEW n \in Usernames,
           CheckUsername(d, a, n)
    PROVE  AccountsInv' /\ GuessCounted
  <1> DEFINE f == [flow[d] EXCEPT !.step = "naming", !.row = a, !.username = n]
  <1>t. flow \in [Devices -> FlowRow] /\ flow[d] \in FlowRow
    BY DEF AccountsInv, FlowPart
  <1>1. flow' = [flow EXCEPT ![d] = f] /\ UNCHANGED <<account, code, session, signupOpen>>
    BY <1>t DEF CheckUsername
  <1>2. f \in FlowRow /\ f.step = "naming" /\ f.row = a /\ f.username = n
    BY <1>t DEF FlowRow, Steps
  <1>3. account[a].status # "none"
    BY SignedIn DEF CheckUsername
  <1> HIDE DEF f
  <1> QED
    BY <1>1, <1>2, <1>3, RowFound

LEMMA FindResetKeeps ==
    ASSUME AccountsInv, NEW d \in Devices, FindReset(d)
    PROVE  AccountsInv' /\ GuessCounted
  <1>t. /\ flow \in [Devices -> FlowRow] /\ flow[d] \in FlowRow
        /\ UNCHANGED <<account, code, session, signupOpen>>
    BY DEF AccountsInv, FlowPart, FindReset
  <1>1. CASE Done(d)
    BY <1>t, <1>1, DoneKeeps
  <1>2. CASE \E a \in Resettable(flow[d].address) :
                flow' = [flow EXCEPT ![d].step = "resetting", ![d].row = a]
    <2>1. PICK a \in Resettable(flow[d].address) :
                flow' = [flow EXCEPT ![d].step = "resetting", ![d].row = a]
      BY <1>2
    <2> DEFINE f == [flow[d] EXCEPT !.step = "resetting", !.row = a]
    <2>2. flow' = [flow EXCEPT ![d] = f]
      BY <1>t, <2>1
    <2>3. a \in Accounts /\ account[a].username # NoName /\ account[a].status # "none"
      BY DEF Resettable, HolderOf, AccountsInv, AccountPart, RowFits
    <2>4. f \in FlowRow /\ f.step = "resetting" /\ f.row = a
      BY <1>t, <2>3 DEF FlowRow, Steps
    <2> HIDE DEF f
    <2> QED
      BY <1>t, <2>2, <2>3, <2>4, RowFound
  <1> QED
    BY <1>1, <1>2 DEF FindReset

\* The handlers of emailed codes move a request on and write one code, or some.
LEMMA CodeStep ==
    ASSUME AccountsInv, CodePart', NEW d \in Devices, NEW f,
           flow' = [flow EXCEPT ![d] = f], FlowFits(f, account),
           f.step = "matched" /\ flow[d].step = "guessing" =>
              code[flow[d].code].wrong < OtpMaxAttempts,
           UNCHANGED <<account, session, signupOpen>>
    PROVE  AccountsInv' /\ GuessCounted
  <1>1. flow' \in [Devices -> FlowRow]
    BY DEF AccountsInv, FlowPart, FlowFits
  <1>2. \A c \in Devices : flow'[c] = flow[c] \/ (c = d /\ flow'[c] = f /\ FlowFits(flow'[c], account'))
    BY DEF AccountsInv, FlowPart
  <1>3. AccountPart' /\ Grows(account, account') /\ signupOpen' \in BOOLEAN
    BY DEF AccountsInv, AccountPart, OneAccount, Grows
  <1>4. AccountsInv'
    BY <1>1, <1>2, <1>3, Assemble
  <1>5. GuessCounted
    BY <1>2 DEF GuessCounted
  <1> QED
    BY <1>4, <1>5

LEMMA StartOtpKeeps ==
    ASSUME AccountsInv, NEW d \in Devices, NEW e \in Addresses, StartOtp(d, e)
    PROVE  AccountsInv' /\ GuessCounted
  <1> DEFINE f == [flow[d] EXCEPT !.step = "starting", !.address = e]
  <1>t. flow \in [Devices -> FlowRow] /\ flow[d] \in FlowRow
    BY DEF AccountsInv, FlowPart
  <1>1. flow' = [flow EXCEPT ![d] = f] /\ UNCHANGED <<account, session, signupOpen>>
    BY <1>t DEF StartOtp
  <1>2. f \in FlowRow /\ f.step = "starting" /\ f.address = e
    BY <1>t DEF FlowRow, Steps
  <1>3. FlowFits(f, account)
    BY <1>2 DEF FlowFits
  <1>4. CodePart'
    BY DEF StartOtp, AccountsInv, CodePart, CodeRow
  <1> HIDE DEF f
  <1> QED
    BY <1>1, <1>2, <1>3, <1>4, CodeStep

LEMMA InsertCodeKeeps ==
    ASSUME AccountsInv, NEW d \in Devices, InsertCode(d)
    PROVE  AccountsInv' /\ GuessCounted
  <1>1. flow' = [flow EXCEPT ![d] = Idle] /\ UNCHANGED <<account, session, signupOpen>>
    BY DEF InsertCode, Done
  <1>2. flow[d].address \in Addresses
    BY DEF InsertCode, AccountsInv, FlowPart, FlowFits
  <1>3. PICK c \in Codes :
            code' = [code EXCEPT ![c] = [state |-> "live", address |-> flow[d].address,
                                         attempts |-> 0, wrong |-> 0]]
    BY DEF InsertCode
  <1>4. CodePart'
    BY <1>2, <1>3, BoundsAssumption DEF AccountsInv, CodePart, CodeRow
  <1> QED
    BY <1>1, <1>4, IdleFits, CodeStep

LEMMA CodeExpiresKeeps ==
    ASSUME AccountsInv, NEW c \in Codes, CodeExpires(c)
    PROVE  AccountsInv' /\ GuessCounted
  <1>1. CodePart'
    BY DEF CodeExpires, AccountsInv, CodePart, CodeRow
  <1>2. /\ AccountPart' /\ Grows(account, account') /\ signupOpen' \in BOOLEAN
        /\ flow' = flow /\ flow' \in [Devices -> FlowRow] /\ session' = session
    BY DEF CodeExpires, AccountsInv, AccountPart, OneAccount, Grows, FlowPart
  <1>3. GuessCounted
    BY <1>2 DEF GuessCounted
  <1> QED
    BY <1>1, <1>2, <1>3, Assemble

\* The wrong guesses before the first one that is too many are fewer than OtpMaxAttempts.
LEMMA GuessKeeps ==
    ASSUME AccountsInv, NEW d \in Devices, NEW right \in BOOLEAN, Guess(d, right)
    PROVE  AccountsInv' /\ GuessCounted
  <1> DEFINE c == flow[d].code
             n == code[c].attempts + 1
  <1>t. /\ flow \in [Devices -> FlowRow] /\ flow[d] \in FlowRow /\ flow[d].step = "guessing"
        /\ c \in Codes /\ flow[d].address \in Addresses /\ FlowFits(flow[d], account)
        /\ UNCHANGED <<account, session, signupOpen>>
    BY DEF AccountsInv, FlowPart, FlowFits, Guess
  <1>c. /\ code \in [Codes -> CodeRow] /\ code[c] \in CodeRow
        /\ code[c].attempts \in Nat /\ code[c].wrong \in Nat
        /\ code[c].wrong <= code[c].attempts
    BY <1>t, BoundsAssumption DEF AccountsInv, CodePart, CodeRow
  <1>1. /\ code[c].attempts < MaxGuesses
        /\ code' = [code EXCEPT ![c].attempts = n, ![c].wrong = IF right THEN @ ELSE @ + 1]
    BY DEF Guess, AttemptsAfter
  <1>2. \/ right /\ n <= OtpMaxAttempts /\ Step(d, "matched")
        \/ Step(d, "burning")
        \/ Done(d)
    BY DEF Guess, AttemptsAfter
  <1>3. CodePart'
    <2> DEFINE w == IF right THEN code[c].wrong ELSE code[c].wrong + 1
               row == [code[c] EXCEPT !.attempts = n, !.wrong = w]
    <2>1. code' = [code EXCEPT ![c] = row]
      BY <1>1, <1>c, <1>t
    <2>w. w \in 0 .. MaxGuesses /\ n \in 0 .. MaxGuesses /\ w <= n
      BY <1>1, <1>c, BoundsAssumption
    <2>2. row \in CodeRow /\ row.wrong <= row.attempts
      <3> HIDE DEF w, n
      <3> QED
        BY <1>c, <2>w DEF CodeRow
    <2> HIDE DEF row
    <2> QED
      BY <1>t, <2>1, <2>2 DEF AccountsInv, CodePart, row
  <1>4. ASSUME NEW s \in {"matched", "burning"}, Step(d, s),
               s = "matched" => n <= OtpMaxAttempts
        PROVE  AccountsInv' /\ GuessCounted
    <2> DEFINE f == [flow[d] EXCEPT !.step = s]
    <2>1. flow' = [flow EXCEPT ![d] = f]
      BY <1>t, <1>4 DEF Step
    <2>2. /\ f \in FlowRow /\ f.step = s /\ f.code = c /\ f.address = flow[d].address
      BY <1>t DEF FlowRow, Steps
    <2>3. FlowFits(f, account)
      BY <1>t, <2>2 DEF FlowFits
    <2>4. s = "matched" => code[c].wrong < OtpMaxAttempts
      BY <1>4, <1>c, AttemptsAssumption
    <2> HIDE DEF f
    <2> QED
      BY <1>t, <1>3, <2>1, <2>2, <2>3, <2>4, CodeStep
  <1>5. CASE Done(d)
    <2>1. flow' = [flow EXCEPT ![d] = Idle]
      BY <1>5 DEF Done
    <2> QED
      BY <1>t, <1>3, <2>1, IdleFits, CodeStep
  <1> QED
    BY <1>2, <1>4, <1>5

LEMMA ConsumeCodeKeeps ==
    ASSUME AccountsInv, NEW d \in Devices, ConsumeCode(d)
    PROVE  AccountsInv' /\ GuessCounted
  <1>t. /\ flow \in [Devices -> FlowRow] /\ flow[d] \in FlowRow
        /\ flow[d].code \in Codes /\ flow[d].address \in Addresses
        /\ UNCHANGED <<account, session, signupOpen>>
    BY DEF AccountsInv, FlowPart, FlowFits, ConsumeCode
  <1>1. CodePart'
    BY <1>t DEF ConsumeCode, AccountsInv, CodePart, CodeRow
  <1>2. CASE Done(d)
    <2>1. flow' = [flow EXCEPT ![d] = Idle]
      BY <1>2 DEF Done
    <2> QED
      BY <1>t, <1>1, <2>1, IdleFits, CodeStep
  <1>3. CASE Step(d, "proved")
    <2> DEFINE f == [flow[d] EXCEPT !.step = "proved"]
    <2>1. flow' = [flow EXCEPT ![d] = f]
      BY <1>t, <1>3 DEF Step
    <2>2. f \in FlowRow /\ f.step = "proved" /\ f.address = flow[d].address
      BY <1>t DEF FlowRow, Steps
    <2>3. FlowFits(f, account)
      BY <1>t, <2>2 DEF FlowFits
    <2> HIDE DEF f
    <2> QED
      BY <1>t, <1>1, <2>1, <2>2, <2>3, CodeStep
  <1> QED
    BY <1>2, <1>3 DEF ConsumeCode

\* One row is written, with an address and a username that no other row has.
LEMMA OneRowWritten ==
    ASSUME AccountPart, NEW a \in Accounts, NEW r \in AccountRow,
           account' = [account EXCEPT ![a] = r], RowFits(r),
           account[a].status # "none" => r.status # "none",
           account[a].username # NoName => r.username # NoName,
           \A b \in Accounts \ {a} :
              /\ r.address = account[b].address => r.address = NoAddress
              /\ r.username = account[b].username => r.username = NoName
    PROVE  AccountPart' /\ Grows(account, account')
  <1>1. account' \in [Accounts -> AccountRow] /\ account'[a] = r
        /\ \A b \in Accounts \ {a} : account'[b] = account[b]
    BY DEF AccountPart
  <1>2. OneAccount'
    <2> SUFFICES ASSUME NEW b \in Accounts, NEW c \in Accounts,
                        \/ account'[b].address = account'[c].address /\ account'[b].address # NoAddress
                        \/ account'[b].username = account'[c].username /\ account'[b].username # NoName,
                        b # c
                 PROVE  FALSE
      BY DEF OneAccount
    <2>1. CASE b # a /\ c # a
      BY <1>1, <2>1 DEF AccountPart, OneAccount
    <2>2. CASE b = a
      BY <1>1, <2>2
    <2>3. CASE c = a
      BY <1>1, <2>3
    <2> QED
      BY <2>1, <2>2, <2>3
  <1>3. Grows(account, account')
    BY <1>1 DEF Grows
  <1>4. \A b \in Accounts : RowFits(account'[b])
    BY <1>1 DEF AccountPart
  <1> QED
    BY <1>1, <1>2, <1>3, <1>4 DEF AccountPart

\* As when its address and username stay, or the address goes.
LEMMA OwnRowWritten ==
    ASSUME AccountPart, NEW a \in Accounts, NEW r \in AccountRow,
           account' = [account EXCEPT ![a] = r], r.status # "none",
           r.address \in {account[a].address, NoAddress}, r.username = account[a].username,
           (r.username = NoName) = (r.password = "none")
    PROVE  AccountPart' /\ Grows(account, account')
  <1>1. RowFits(r)
    BY DEF RowFits
  <1>2. \A b \in Accounts \ {a} :
              /\ r.address = account[b].address => r.address = NoAddress
              /\ r.username = account[b].username => r.username = NoName
    BY DEF AccountPart, OneAccount
  <1> QED
    BY <1>1, <1>2, OneRowWritten

\* A handler that writes the users table, signs somebody out or not, and is then done with
\* its request or has none.
LEMMA AccountWritten ==
    ASSUME AccountsInv, AccountPart', Grows(account, account'), session' \subseteq session,
           flow' = flow \/ \E d \in Devices : Done(d),
           signupOpen' \in BOOLEAN, code' = code
    PROVE  AccountsInv' /\ GuessCounted
  <1>1. \A d \in Devices : flow'[d] = flow[d] \/ flow'[d] = Idle
    BY DEF Done, AccountsInv, FlowPart
  <1>2. flow' \in [Devices -> FlowRow]
    BY IdleFits DEF Done, AccountsInv, FlowPart
  <1>3. CodePart'
    BY DEF AccountsInv, CodePart
  <1>4. \A d \in Devices : flow'[d] = flow[d] \/ FlowFits(flow'[d], account')
    BY <1>1, IdleFits
  <1>5. \A s \in session' : s \in session
    OBVIOUS
  <1>6. AccountsInv'
    BY <1>2, <1>3, <1>4, <1>5, Assemble
  <1>7. GuessCounted
    BY <1>1, IdleFits DEF GuessCounted
  <1> QED
    BY <1>6, <1>7

LEMMA SignUpKeeps ==
    ASSUME AccountsInv, NEW d \in Devices, SignUp(d)
    PROVE  AccountsInv' /\ GuessCounted
  <1> DEFINE e == flow[d].address
             old == flow[d].row
  <1>t. /\ flow \in [Devices -> FlowRow] /\ flow[d] \in FlowRow
        /\ old \in Accounts \cup {NoAccount} /\ e \in Addresses \cup {NoAddress}
        /\ account \in [Accounts -> AccountRow] /\ UNCHANGED <<code, session, signupOpen>>
    BY DEF AccountsInv, FlowPart, FlowRow, AccountPart, SignUp
  <1>1. CASE Done(d) /\ UNCHANGED account
    BY <1>t, <1>1, DoneKeeps
  <1>2. CASE AddressFree(e, old) /\ ~(Done(d) /\ UNCHANGED account)
    <2> DEFINE new == [Free EXCEPT !.status = "active", !.address = e]
               left == [account[old] EXCEPT !.address = NoAddress]
    <2>1. PICK a \in Fresh :
             /\ account' = [b \in Accounts |->
                   IF b = a THEN new ELSE IF b = old THEN left ELSE account[b]]
             /\ flow' = [flow EXCEPT ![d].step = "opening", ![d].row = a]
      BY <1>2 DEF SignUp
    <2>2. a \in Accounts /\ account[a].status = "none" /\ account[a].username = NoName
      BY DEF Fresh, AccountsInv, AccountPart, RowFits
    <2>3. /\ new \in AccountRow /\ new.status = "active" /\ new.username = NoName
          /\ new.address = e /\ RowFits(new)
      BY <1>t DEF Free, AccountRow, RowFits
    <2>4. old \in Accounts =>
             /\ left \in AccountRow /\ left.status = account[old].status
             /\ left.username = account[old].username /\ left.address = NoAddress /\ RowFits(left)
      <3> SUFFICES ASSUME old \in Accounts
                   PROVE  /\ left \in AccountRow /\ left.status = account[old].status
                          /\ left.username = account[old].username /\ left.address = NoAddress
                          /\ RowFits(left)
        OBVIOUS
      <3>1. account[old] \in AccountRow /\ RowFits(account[old])
        BY DEF AccountsInv, AccountPart
      <3> HIDE DEF old
      <3>2. /\ left \in AccountRow /\ left.status = account[old].status
            /\ left.username = account[old].username /\ left.address = NoAddress
            /\ left.password = account[old].password
        BY <3>1 DEF AccountRow
      <3> QED
        BY <3>1, <3>2 DEF RowFits
    <2> HIDE DEF new, left
    <2>5. account'[a] = new /\ \A b \in Accounts \ {a} : account'[b] = IF b = old THEN left ELSE account[b]
      BY <2>1, <2>2
    <2>6. account' \in [Accounts -> AccountRow]
      BY <1>t, <2>1, <2>3, <2>4
    <2>7. \A b \in Accounts : RowFits(account'[b])
      BY <2>3, <2>4, <2>5 DEF AccountsInv, AccountPart
    <2>8. Grows(account, account')
      BY <2>2, <2>3, <2>4, <2>5 DEF Grows
    <2>9. \A b \in Accounts \ {a} : account'[b].address = NoAddress \/ account'[b].address # e
      BY <1>2, <2>4, <2>5 DEF AddressFree, HolderOf
    <2>10. \A b \in Accounts \ {a} :
              /\ account'[b].username = account[b].username
              /\ account'[b].address \in {account[b].address, NoAddress}
      BY <2>4, <2>5
    <2>11. OneAccount'
      <3> SUFFICES ASSUME NEW b \in Accounts, NEW c \in Accounts,
                          \/ account'[b].address = account'[c].address /\ account'[b].address # NoAddress
                          \/ account'[b].username = account'[c].username /\ account'[b].username # NoName,
                          b # c
                   PROVE  FALSE
        BY DEF OneAccount
      <3>1. CASE b # a /\ c # a
        BY <2>10, <3>1 DEF AccountsInv, AccountPart, OneAccount
      <3>2. CASE b = a
        BY <2>3, <2>5, <2>9, <3>2
      <3>3. CASE c = a
        BY <2>3, <2>5, <2>9, <3>3
      <3> QED
        BY <3>1, <3>2, <3>3
    <2>12. AccountPart'
      BY <2>6, <2>7, <2>11 DEF AccountPart
    <2> DEFINE f == [flow[d] EXCEPT !.step = "opening", !.row = a]
    <2>13. f \in FlowRow /\ f.step = "opening" /\ f.row = a
      BY <1>t, <2>2 DEF FlowRow, Steps
    <2>14. flow' = [flow EXCEPT ![d] = f]
      BY <1>t, <2>1
    <2> HIDE DEF f
    <2>15. FlowFits(f, account')
      BY <2>2, <2>3, <2>5, <2>13 DEF FlowFits
    <2>16. flow' \in [Devices -> FlowRow] /\ \A c \in Devices : flow'[c] = flow[c] \/ flow'[c] = f
      BY <1>t, <2>13, <2>14
    <2>17. CodePart' /\ signupOpen' \in BOOLEAN
      BY <1>t DEF AccountsInv, CodePart
    <2>18. AccountsInv'
      BY <1>t, <2>8, <2>12, <2>15, <2>16, <2>17, Assemble
    <2>19. GuessCounted
      BY <2>13, <2>16 DEF GuessCounted
    <2> QED
      BY <2>18, <2>19
  <1>3. AddressFree(e, old) \/ (Done(d) /\ UNCHANGED account)
    BY DEF SignUp
  <1> QED
    BY <1>1, <1>2, <1>3

LEMMA OpenSessionKeeps ==
    ASSUME AccountsInv, NEW d \in Devices, OpenSession(d)
    PROVE  AccountsInv' /\ GuessCounted
  <1>1. flow[d].row \in Accounts /\ account[flow[d].row].status # "none"
    BY DEF OpenSession, AccountsInv, FlowPart, FlowFits
  <1>2. /\ \A c \in Devices : flow'[c] = flow[c] \/ (flow'[c] = Idle /\ FlowFits(flow'[c], account'))
        /\ flow' \in [Devices -> FlowRow]
    BY IdleFits DEF OpenSession, Done, AccountsInv, FlowPart
  <1>3. /\ AccountPart' /\ CodePart' /\ Grows(account, account') /\ signupOpen' \in BOOLEAN
    BY DEF OpenSession, AccountsInv, AccountPart, OneAccount, CodePart, Grows
  <1>4. \A s \in session' : s \in session \/ (s \in Devices \X Accounts /\ account'[s[2]].status # "none")
    BY <1>1 DEF OpenSession
  <1>5. AccountsInv'
    BY <1>2, <1>3, <1>4, Assemble
  <1>6. GuessCounted
    BY <1>2, IdleFits DEF GuessCounted
  <1> QED
    BY <1>5, <1>6

LEMMA AccountUnwritten ==
    ASSUME AccountsInv, account' = account
    PROVE  AccountPart' /\ Grows(account, account')
  BY DEF AccountsInv, AccountPart, OneAccount, Grows

LEMMA RevokeSessionKeeps ==
    ASSUME AccountsInv, NEW d, NEW a, NEW other, RevokeSession(d, a, other)
    PROVE  AccountsInv' /\ GuessCounted
  <1>1. AccountPart' /\ Grows(account, account')
    BY AccountUnwritten DEF RevokeSession
  <1>2. /\ session' \subseteq session /\ flow' = flow /\ code' = code /\ signupOpen' \in BOOLEAN
    BY DEF RevokeSession, AccountsInv
  <1> QED
    BY <1>1, <1>2, AccountWritten

LEMMA ChangePasswordKeeps ==
    ASSUME AccountsInv, NEW d \in Devices, ChangePassword(d)
    PROVE  AccountsInv' /\ GuessCounted
  <1> DEFINE a == flow[d].row
             r == [account[a] EXCEPT !.password = flow[d].password, !.mustChange = FALSE]
  <1>1. /\ a \in Accounts /\ account[a].status # "none" /\ account[a].username # NoName
        /\ flow[d].password \in Passwords
    BY DEF ChangePassword, AccountsInv, FlowPart, FlowFits
  <1>2. account \in [Accounts -> AccountRow] /\ account[a] \in AccountRow
    BY <1>1 DEF AccountsInv, AccountPart
  <1>3. account' = [account EXCEPT ![a] = r]
    BY <1>1, <1>2 DEF ChangePassword
  <1>4. /\ r \in AccountRow /\ r.status = account[a].status /\ r.username = account[a].username
        /\ r.address = account[a].address /\ r.password = flow[d].password
    BY <1>1, <1>2 DEF AccountRow
  <1>5. (r.username = NoName) = (r.password = "none")
    BY <1>1, <1>4 DEF Passwords
  <1> HIDE DEF r
  <1>6. AccountPart' /\ Grows(account, account')
    <2> HIDE DEF a
    <2> QED
      BY <1>1, <1>3, <1>4, <1>5, OwnRowWritten DEF AccountsInv
  <1>7. /\ session' \subseteq session /\ Done(d) /\ code' = code /\ signupOpen' \in BOOLEAN
    BY DEF ChangePassword, AccountsInv
  <1> QED
    BY <1>6, <1>7, AccountWritten

LEMMA SetCredentialsKeeps ==
    ASSUME AccountsInv, NEW d \in Devices, SetCredentials(d)
    PROVE  AccountsInv' /\ GuessCounted
  <1> DEFINE a == flow[d].row
             n == flow[d].username
             r == [account[a] EXCEPT !.username = n, !.password = "own", !.mustChange = FALSE]
  <1>1. a \in Accounts /\ account[a].status # "none" /\ n \in Usernames
    BY DEF SetCredentials, AccountsInv, FlowPart, FlowFits
  <1>2. account \in [Accounts -> AccountRow] /\ account[a] \in AccountRow
    BY <1>1 DEF AccountsInv, AccountPart
  <1>7. /\ session' = session /\ Done(d) /\ code' = code /\ signupOpen' \in BOOLEAN
    BY DEF SetCredentials, AccountsInv
  <1>8. CASE account' = account
    <2>1. AccountPart' /\ Grows(account, account')
      BY <1>8, AccountUnwritten
    <2> QED
      BY <1>7, <2>1, AccountWritten
  <1>9. CASE NameFree(n, a) /\ account' # account
    <2>1. account' = [account EXCEPT ![a] = r]
      BY <1>1, <1>2, <1>9 DEF SetCredentials
    <2>2. /\ r \in AccountRow /\ r.status = account[a].status /\ r.username = n
          /\ r.address = account[a].address /\ r.password = "own"
      BY <1>1, <1>2 DEF AccountRow, Passwords
    <2>3. RowFits(r)
      BY <1>1, <2>2, NothingAssumption DEF RowFits
    <2>4. \A b \in Accounts \ {a} : r.address = account[b].address => r.address = NoAddress
      BY <1>1, <2>2 DEF AccountsInv, AccountPart, OneAccount
    <2>5. \A b \in Accounts \ {a} : r.username # account[b].username
      BY <1>9, <2>2 DEF NameFree
    <2>6. r.status # "none" /\ r.username # NoName
      BY <1>1, <2>2, NothingAssumption
    <2> HIDE DEF r, n
    <2>7. AccountPart' /\ Grows(account, account')
      <3> HIDE DEF a
      <3> QED
        BY <1>1, <2>1, <2>2, <2>3, <2>4, <2>5, <2>6, OneRowWritten DEF AccountsInv
    <2> QED
      BY <1>7, <2>7, AccountWritten
  <1>10. NameFree(n, a) \/ account' = account
    BY DEF SetCredentials
  <1> QED
    BY <1>8, <1>9, <1>10

LEMMA ResetPasswordKeeps ==
    ASSUME AccountsInv, NEW d \in Devices, NEW p \in Passwords, ResetPassword(d, p)
    PROVE  AccountsInv' /\ GuessCounted
  <1> DEFINE a == flow[d].row
             r == [account[a] EXCEPT !.password = p, !.mustChange = FALSE]
  <1>1. a \in Accounts /\ account[a].status # "none" /\ account[a].username # NoName
    BY DEF ResetPassword, AccountsInv, FlowPart, FlowFits
  <1>2. account \in [Accounts -> AccountRow] /\ account[a] \in AccountRow
    BY <1>1 DEF AccountsInv, AccountPart
  <1>3. account' = [account EXCEPT ![a] = r]
    BY <1>1, <1>2 DEF ResetPassword
  <1>4. /\ r \in AccountRow /\ r.status = account[a].status /\ r.username = account[a].username
        /\ r.address = account[a].address /\ r.password = p
    BY <1>1, <1>2 DEF AccountRow
  <1>5. (r.username = NoName) = (r.password = "none")
    BY <1>1, <1>4 DEF Passwords
  <1> HIDE DEF r
  <1>6. AccountPart' /\ Grows(account, account')
    <2> HIDE DEF a
    <2> QED
      BY <1>1, <1>3, <1>4, <1>5, OwnRowWritten DEF AccountsInv
  <1>7. /\ session' \subseteq session /\ Done(d) /\ code' = code /\ signupOpen' \in BOOLEAN
    BY DEF ResetPassword, SignedOut, AccountsInv
  <1> QED
    BY <1>6, <1>7, AccountWritten

LEMMA ResetAdminPasswordKeeps ==
    ASSUME AccountsInv, NEW a \in Accounts, ResetAdminPassword(a)
    PROVE  AccountsInv' /\ GuessCounted
  <1> DEFINE r == [account[a] EXCEPT !.password = "generated", !.mustChange = TRUE]
  <1>1. /\ account \in [Accounts -> AccountRow] /\ account[a] \in AccountRow
        /\ account[a].username # NoName /\ account[a].status # "none"
    BY DEF ResetAdminPassword, AccountsInv, AccountPart, RowFits
  <1>2. account' = [account EXCEPT ![a] = r]
    BY <1>1 DEF ResetAdminPassword
  <1>3. /\ r \in AccountRow /\ r.status = account[a].status /\ r.username = account[a].username
        /\ r.address = account[a].address /\ r.password = "generated"
    BY <1>1 DEF AccountRow, Passwords
  <1> HIDE DEF r
  <1>4. AccountPart' /\ Grows(account, account')
    BY <1>1, <1>2, <1>3, OwnRowWritten DEF AccountsInv
  <1>5. /\ session' = session /\ flow' = flow /\ code' = code /\ signupOpen' \in BOOLEAN
    BY DEF ResetAdminPassword, AccountsInv
  <1> QED
    BY <1>4, <1>5, AccountWritten

LEMMA CreateAdminKeeps ==
    ASSUME AccountsInv, NEW a \in Accounts, NEW n \in Usernames, NEW e \in Addresses,
           CreateAdmin(a, n, e)
    PROVE  AccountsInv' /\ GuessCounted
  <1> DEFINE r == [Free EXCEPT !.status = "active", !.address = e, !.username = n,
                               !.password = "generated", !.mustChange = TRUE]
  <1>1. account' = [account EXCEPT ![a] = r]
    BY DEF CreateAdmin
  <1>2. /\ r \in AccountRow /\ r.status = "active" /\ r.username = n /\ r.address = e
        /\ r.password = "generated"
    BY DEF Free, AccountRow, Passwords
  <1>3. RowFits(r) /\ r.username # NoName
    BY <1>2, NothingAssumption DEF RowFits
  <1>4. \A b \in Accounts \ {a} : r.address # account[b].address /\ r.username # account[b].username
    BY <1>2, NothingAssumption DEF CreateAdmin, NameFree, AddressFree, HolderOf
  <1> HIDE DEF r
  <1>5. AccountPart' /\ Grows(account, account')
    BY <1>1, <1>2, <1>3, <1>4, OneRowWritten DEF AccountsInv
  <1>6. /\ session' = session /\ flow' = flow /\ code' = code /\ signupOpen' \in BOOLEAN
    BY DEF CreateAdmin, AccountsInv
  <1> QED
    BY <1>5, <1>6, AccountWritten

LEMMA RequestDeletionKeeps ==
    ASSUME AccountsInv, NEW d \in Devices, NEW a \in Accounts, RequestDeletion(d, a)
    PROVE  AccountsInv' /\ GuessCounted
  <1> DEFINE r == [account[a] EXCEPT !.status = "deleted"]
  <1>1. account \in [Accounts -> AccountRow] /\ account[a] \in AccountRow /\ RowFits(account[a])
    BY DEF AccountsInv, AccountPart
  <1>2. account' = [account EXCEPT ![a] = r]
    BY <1>1 DEF RequestDeletion
  <1>3. /\ r \in AccountRow /\ r.status = "deleted" /\ r.username = account[a].username
        /\ r.address = account[a].address /\ r.password = account[a].password
    BY <1>1 DEF AccountRow
  <1> HIDE DEF r
  <1>4. AccountPart' /\ Grows(account, account')
    BY <1>1, <1>2, <1>3, OwnRowWritten DEF AccountsInv, RowFits
  <1>5. /\ session' \subseteq session /\ flow' = flow /\ code' = code /\ signupOpen' \in BOOLEAN
    BY DEF RequestDeletion, SignedOut, AccountsInv
  <1> QED
    BY <1>4, <1>5, AccountWritten

LEMMA EraseAccountKeeps ==
    ASSUME AccountsInv, NEW a \in Accounts, EraseAccount(a)
    PROVE  AccountsInv' /\ GuessCounted
  <1> DEFINE r == [account[a] EXCEPT !.status = "deleted", !.erased = TRUE, !.address = NoAddress]
  <1>1. account \in [Accounts -> AccountRow] /\ account[a] \in AccountRow /\ RowFits(account[a])
    BY DEF AccountsInv, AccountPart
  <1>2. account' = [account EXCEPT ![a] = r]
    BY <1>1 DEF EraseAccount
  <1>3. /\ r \in AccountRow /\ r.status = "deleted" /\ r.username = account[a].username
        /\ r.address = NoAddress /\ r.password = account[a].password
    BY <1>1 DEF AccountRow
  <1> HIDE DEF r
  <1>4. AccountPart' /\ Grows(account, account')
    BY <1>1, <1>2, <1>3, OwnRowWritten DEF AccountsInv, RowFits
  <1>5. /\ session' \subseteq session /\ flow' = flow /\ code' = code /\ signupOpen' \in BOOLEAN
    BY DEF EraseAccount, SignedOut, AccountsInv
  <1> QED
    BY <1>4, <1>5, AccountWritten

LEMMA SetSignupKeeps ==
    ASSUME AccountsInv, NEW on \in BOOLEAN, SetSignup(on)
    PROVE  AccountsInv' /\ GuessCounted
  <1>1. AccountPart' /\ Grows(account, account')
    BY AccountUnwritten DEF SetSignup
  <1>2. /\ session' = session /\ flow' = flow /\ code' = code /\ signupOpen' \in BOOLEAN
    BY DEF SetSignup
  <1> QED
    BY <1>1, <1>2, AccountWritten

LEMMA SignNextKeeps ==
    ASSUME AccountsInv, SignNext
    PROVE  AccountsInv' /\ GuessCounted
  <1>1. ASSUME NEW d \in Devices, OtpStep(d)
        PROVE  AccountsInv' /\ GuessCounted
    BY <1>1, StartOtpKeeps, ReadCodeKeeps, InsertCodeKeeps, GuessKeeps, ConsumeCodeKeeps,
       FindAccountKeeps, SignUpKeeps, OpenSessionKeeps, FindResetKeeps, ResetPasswordKeeps
       DEF OtpStep
  <1>2. ASSUME NEW d \in Devices, NEW a \in Accounts, AccountStep(d, a)
        PROVE  AccountsInv' /\ GuessCounted
    BY <1>2, LoginKeeps, CheckPasswordKeeps, RevokeSessionKeeps, CheckUsernameKeeps,
       RequestDeletionKeeps DEF AccountStep
  <1>3. CASE \E d \in Devices : OtpStep(d) \/ ChangePassword(d) \/ SetCredentials(d)
    BY <1>1, <1>3, ChangePasswordKeeps, SetCredentialsKeeps
  <1>4. CASE \E a \in Accounts :
                \/ ResetAdminPassword(a)
                \/ account[a].status = "deleted" /\ ~account[a].erased /\ EraseAccount(a)
                \/ \E n \in Usernames, e \in Addresses : CreateAdmin(a, n, e)
    BY <1>4, ResetAdminPasswordKeeps, EraseAccountKeeps, CreateAdminKeeps
  <1> QED
    BY <1>2, <1>3, <1>4, CodeExpiresKeeps, SetSignupKeeps DEF SignNext

LEMMA PeopleStart ==
    ASSUME PeopleInit
    PROVE  AccountsInv
  <1>1. /\ session = {} /\ flow = [d \in Devices |-> Idle] /\ signupOpen = TRUE
        /\ code = [c \in Codes |-> [state |-> "unsent", address |-> NoAddress, attempts |-> 0, wrong |-> 0]]
    BY DEF PeopleInit, SignInit
  <1>2. SessionPart /\ FlowPart
    BY <1>1, IdleFits DEF SessionPart, FlowPart
  <1>3. CodePart
    BY <1>1, BoundsAssumption DEF CodePart, CodeRow
  <1>4. (CHOOSE n \in Usernames : TRUE) \in Usernames
    BY KnownAssumption
  <1> DEFINE name == CHOOSE n \in Usernames : TRUE
             plain(a) == [Free EXCEPT !.status = "active", !.address = InitialAddress[a]]
             staff(a) == [Free EXCEPT !.status = "active", !.address = InitialAddress[a],
                                      !.username = name, !.password = "generated", !.mustChange = TRUE]
             row(a) == IF a \notin Known THEN Free ELSE IF a \in Staff THEN staff(a) ELSE plain(a)
  <1>5. account = [a \in Accounts |-> row(a)]
    BY DEF PeopleInit, SignInit
  <1> HIDE DEF name
  <1>6. Free \in AccountRow /\ RowFits(Free) /\ Free.address = NoAddress /\ Free.username = NoName
    BY DEF Free, AccountRow, RowFits
  <1>7. ASSUME NEW a \in Known
        PROVE  /\ plain(a) \in AccountRow /\ RowFits(plain(a))
               /\ plain(a).address = InitialAddress[a] /\ plain(a).username = NoName
               /\ staff(a) \in AccountRow /\ RowFits(staff(a))
               /\ staff(a).address = InitialAddress[a] /\ staff(a).username = name
    <2>1. InitialAddress[a] \in Addresses /\ name \in Usernames /\ name # NoName
      BY <1>4, KnownAssumption, NothingAssumption DEF name
    <2>2. /\ plain(a) \in AccountRow /\ plain(a).address = InitialAddress[a]
          /\ plain(a).username = NoName /\ plain(a).password = "none" /\ plain(a).status = "active"
      BY <2>1 DEF Free, AccountRow
    <2>3. /\ staff(a) \in AccountRow /\ staff(a).address = InitialAddress[a]
          /\ staff(a).username = name /\ staff(a).password = "generated" /\ staff(a).status = "active"
      BY <2>1 DEF Free, AccountRow, Passwords
    <2> HIDE DEF plain, staff
    <2> QED
      BY <2>1, <2>2, <2>3 DEF RowFits
  <1> HIDE DEF plain, staff
  <1>8. \A a \in Accounts : row(a) \in AccountRow /\ RowFits(row(a))
    BY <1>6, <1>7
  <1>9. \A a \in Accounts : row(a).address # NoAddress => a \in Known /\ row(a).address = InitialAddress[a]
    BY <1>6, <1>7
  <1>10. \A a \in Accounts : row(a).username # NoName => a \in Staff
    BY <1>6, <1>7
  <1> HIDE DEF row
  <1>11. OneAccount
    BY <1>5, <1>9, <1>10, KnownAssumption DEF OneAccount
  <1>12. AccountPart
    BY <1>5, <1>8, <1>11 DEF AccountPart
  <1> QED
    BY <1>1, <1>2, <1>3, <1>12 DEF AccountsInv

-----------------------------------------------------------------------------
(* Sanctions *)

\* Moderation writes the status and the clock of accounts only.
LEMMA StatusWritten ==
    ASSUME AccountsInv, account' \in [Accounts -> AccountRow],
           \A a \in Accounts :
              /\ account'[a].username = account[a].username
              /\ account'[a].password = account[a].password
              /\ account'[a].address = account[a].address
              /\ account'[a].status = "none" <=> account[a].status = "none",
           session' \subseteq session, UNCHANGED <<code, flow, signupOpen>>
    PROVE  AccountsInv'
  <1>1. AccountPart' /\ Grows(account, account')
    BY DEF AccountsInv, AccountPart, RowFits, OneAccount, Grows
  <1>2. signupOpen' \in BOOLEAN
    BY DEF AccountsInv
  <1> QED
    BY <1>1, <1>2, AccountWritten

LEMMA SuspendKeepsAccounts ==
    ASSUME AccountsInv, NEW role, NEW a \in Accounts, NEW hours, Suspend(role, a, hours)
    PROVE  AccountsInv'
  <1> DEFINE u == IF hours = "none" THEN "none" ELSE "running"
             r == [account[a] EXCEPT !.status = "suspended", !.until = u]
  <1>1. account \in [Accounts -> AccountRow] /\ account[a] \in AccountRow
    BY DEF AccountsInv, AccountPart
  <1>2. account' = [account EXCEPT ![a] = r]
    BY <1>1 DEF Suspend
  <1>3. u \in {"none", "running"}
    OBVIOUS
  <1>4. /\ r \in AccountRow /\ r.status = "suspended" /\ r.username = account[a].username
        /\ r.address = account[a].address /\ r.password = account[a].password
    <2> HIDE DEF u
    <2> QED
      BY <1>1, <1>3 DEF AccountRow
  <1> HIDE DEF r
  <1>5. account[a].status # "none" /\ session' \subseteq session /\ UNCHANGED <<code, flow, signupOpen>>
    BY DEF Suspend, SignedOut
  <1>6. account' \in [Accounts -> AccountRow]
    BY <1>1, <1>2, <1>4
  <1> QED
    BY <1>1, <1>2, <1>4, <1>5, <1>6, StatusWritten

LEMMA UnsuspendKeepsAccounts ==
    ASSUME AccountsInv, NEW role, NEW a \in Accounts, Unsuspend(role, a)
    PROVE  AccountsInv'
  <1> DEFINE r == [account[a] EXCEPT !.status = "active", !.until = "none"]
  <1>1. account \in [Accounts -> AccountRow] /\ account[a] \in AccountRow
    BY DEF AccountsInv, AccountPart
  <1>2. account' = [account EXCEPT ![a] = r]
    BY <1>1 DEF Unsuspend
  <1>3. /\ r \in AccountRow /\ r.status = "active" /\ r.username = account[a].username
        /\ r.address = account[a].address /\ r.password = account[a].password
    BY <1>1 DEF AccountRow
  <1> HIDE DEF r
  <1>4. account[a].status # "none" /\ session' \subseteq session /\ UNCHANGED <<code, flow, signupOpen>>
    BY DEF Unsuspend
  <1>5. account' \in [Accounts -> AccountRow]
    BY <1>1, <1>2, <1>3
  <1> QED
    BY <1>1, <1>2, <1>3, <1>4, <1>5, StatusWritten

LEMMA SuspensionRunsOutKeepsAccounts ==
    ASSUME AccountsInv, NEW a \in Accounts, SuspensionRunsOut(a)
    PROVE  AccountsInv'
  <1> DEFINE r == [account[a] EXCEPT !.until = "past"]
  <1>1. account \in [Accounts -> AccountRow] /\ account[a] \in AccountRow
    BY DEF AccountsInv, AccountPart
  <1>2. account' = [account EXCEPT ![a] = r]
    BY <1>1 DEF SuspensionRunsOut
  <1>3. /\ r \in AccountRow /\ r.status = account[a].status /\ r.username = account[a].username
        /\ r.address = account[a].address /\ r.password = account[a].password
    BY <1>1 DEF AccountRow
  <1> HIDE DEF r
  <1>4. session' \subseteq session /\ UNCHANGED <<code, flow, signupOpen>>
    BY DEF SuspensionRunsOut
  <1>5. account' \in [Accounts -> AccountRow]
    BY <1>1, <1>2, <1>3
  <1> QED
    BY <1>1, <1>2, <1>3, <1>4, <1>5, StatusWritten

LEMMA LiftSuspensionsKeepsAccounts ==
    ASSUME AccountsInv, LiftSuspensions
    PROVE  AccountsInv'
  <1> DEFINE r(a) == [account[a] EXCEPT !.status = "active", !.until = "none"]
  <1>1. account \in [Accounts -> AccountRow]
    BY DEF AccountsInv, AccountPart
  <1>2. \A a \in Accounts :
           /\ r(a) \in AccountRow /\ r(a).status = "active" /\ r(a).username = account[a].username
           /\ r(a).address = account[a].address /\ r(a).password = account[a].password
    BY <1>1 DEF AccountRow
  <1>3. account' = [a \in Accounts |-> IF a \in LapsedSuspensions THEN r(a) ELSE account[a]]
    BY DEF LiftSuspensions
  <1>4. \A a \in LapsedSuspensions : account[a].status # "none"
    BY DEF LapsedSuspensions
  <1>5. session' \subseteq session /\ UNCHANGED <<code, flow, signupOpen>>
    BY DEF LiftSuspensions
  <1> HIDE DEF r
  <1>6. account' \in [Accounts -> AccountRow]
    BY <1>1, <1>2, <1>3
  <1> QED
    BY <1>2, <1>3, <1>4, <1>5, <1>6, StatusWritten

Kinds == {"warn", "restrict_requests", "restrict_helping", "suspend", "unsuspend",
          "report_resolve", "report_dismiss"}
ActionRow == [kind : Kinds \cup {"none"}, target : Accounts \cup {NoAccount}, lifted : BOOLEAN,
              expiry : {"none", "indefinite", "running", "past"}]

ActionPart ==
    /\ action \in [Rows -> ActionRow]
    /\ \A n \in Rows : action[n].kind # "none" => action[n].target \in Accounts

\* Appeals are about actions that were taken.
AppealPart ==
    /\ appeal \in [Appeals -> [state : {"none", "open", "upheld", "overturned"}, action : Nat]]
    /\ drafting \in [Devices -> Nat]
    /\ \A k \in Appeals : appeal[k].state # "none" =>
          appeal[k].action \in Rows /\ action[appeal[k].action].kind # "none"
    /\ \A d \in Devices : drafting[d] # 0 =>
          drafting[d] \in Rows /\ action[drafting[d]].kind # "none"

AbilityPart == ability \in [Accounts -> [request : BOOLEAN, help : BOOLEAN]]

SanctionsInv == AbilityPart /\ ActionPart /\ AppealPart /\ RestrictionInForceHolds

PeopleInv == AccountsInv /\ SanctionsInv

\* What every later state keeps of the rows there are.
RowsKept ==
    \A n \in Rows : action[n].kind # "none" =>
        /\ action'[n].kind = action[n].kind /\ action'[n].target = action[n].target
        /\ action[n].lifted => action'[n].lifted
        /\ action[n].expiry = "past" => action'[n].expiry = "past"

LEMMA LoggedRow ==
    ASSUME ActionPart, RoomForAction, NEW kind \in Kinds, NEW a \in Accounts, NEW hours,
           NEW lifted, Logged(kind, a, hours, lifted)
    PROVE  /\ ActionPart' /\ RowsKept
           /\ NextRow \in Rows /\ action[NextRow].kind = "none"
           /\ action'[NextRow].kind = kind /\ action'[NextRow].target = a
           /\ \A n \in Rows \ {NextRow} :
                /\ action'[n].kind = action[n].kind /\ action'[n].target = action[n].target
                /\ action'[n].expiry = action[n].expiry
                /\ action'[n].lifted <=> (action[n].lifted \/ n \in lifted)
  <1> DEFINE F == {n \in Rows : action[n].kind = "none"}
             x == IF hours = "none" THEN "indefinite" ELSE "running"
             new == [kind |-> kind, target |-> a, lifted |-> FALSE, expiry |-> x]
             gone(n) == [action[n] EXCEPT !.lifted = TRUE]
  <1>1. F \in SUBSET Nat /\ F # {}
    BY SanctionBounds DEF RoomForAction, Rows
  <1>2. NextRow \in F
    BY <1>1, NatMin DEF NextRow
  <1>3. NextRow \in Rows /\ action[NextRow].kind = "none"
    BY <1>2
  <1>4. action' = [n \in Rows |-> IF n = NextRow THEN new
                                  ELSE IF n \in lifted THEN gone(n) ELSE action[n]]
    BY DEF Logged
  <1>5. new \in ActionRow /\ new.kind = kind /\ new.target = a
    BY DEF ActionRow
  <1>6. \A n \in Rows :
           /\ gone(n) \in ActionRow /\ gone(n).kind = action[n].kind
           /\ gone(n).target = action[n].target /\ gone(n).expiry = action[n].expiry
           /\ gone(n).lifted = TRUE
    BY DEF ActionPart, ActionRow
  <1> HIDE DEF new, gone, F
  <1>7. action'[NextRow] = new
    BY <1>3, <1>4
  <1>8. \A n \in Rows \ {NextRow} : action'[n] = IF n \in lifted THEN gone(n) ELSE action[n]
    BY <1>4
  <1>9. \A n \in Rows \ {NextRow} :
           /\ action'[n].kind = action[n].kind /\ action'[n].target = action[n].target
           /\ action'[n].expiry = action[n].expiry
           /\ action'[n].lifted <=> (action[n].lifted \/ n \in lifted)
    BY <1>6, <1>8
  <1>10. action' \in [Rows -> ActionRow]
    BY <1>4, <1>5, <1>6 DEF ActionPart
  <1>11. \A n \in Rows : action'[n].kind # "none" => action'[n].target \in Accounts
    BY <1>5, <1>7, <1>9 DEF ActionPart
  <1>12. RowsKept
    BY <1>3, <1>9 DEF RowsKept
  <1> QED
    BY <1>3, <1>5, <1>7, <1>9, <1>10, <1>11, <1>12 DEF ActionPart

\* Appeals stay about actions that were taken.
LEMMA AppealsKept ==
    ASSUME AppealPart, RowsKept, UNCHANGED <<appeal, drafting>>
    PROVE  AppealPart'
  BY DEF AppealPart, RowsKept

\* No restriction comes into force and no flag goes up but for those of whom all are lifted.
LEMMA InForceKept ==
    ASSUME ActionPart, RowsKept, RestrictionInForceHolds, NEW S,
           \A n \in Rows : action[n].kind = "none" /\ action'[n].kind \in Restrictions =>
              IF action'[n].kind = "restrict_requests" THEN ~ability'[action'[n].target].request
                                                       ELSE ~ability'[action'[n].target].help,
           \A a \in Accounts \ S :
              /\ ~ability[a].request => ~ability'[a].request
              /\ ~ability[a].help => ~ability'[a].help,
           \A n \in Rows : action[n].kind \in Restrictions /\ action[n].target \in S =>
              action'[n].lifted \/ action'[n].expiry = "past"
    PROVE  RestrictionInForceHolds'
  <1> SUFFICES ASSUME NEW n \in Rows, action'[n].kind \in Restrictions, action'[n].expiry # "past",
                      ~action'[n].lifted
               PROVE  IF action'[n].kind = "restrict_requests"
                        THEN ~ability'[action'[n].target].request
                        ELSE ~ability'[action'[n].target].help
    BY DEF RestrictionInForceHolds
  <1>1. CASE action[n].kind = "none"
    BY <1>1
  <1>2. CASE action[n].kind # "none"
    <2>1. /\ action'[n].kind = action[n].kind /\ action'[n].target = action[n].target
          /\ ~action[n].lifted /\ action[n].expiry # "past" /\ action[n].target \in Accounts
      BY <1>2 DEF RowsKept, ActionPart
    <2>2. action[n].target \notin S
      BY <2>1
    <2>3. IF action[n].kind = "restrict_requests" THEN ~ability[action[n].target].request
                                                  ELSE ~ability[action[n].target].help
      BY <2>1 DEF RestrictionInForceHolds
    <2> QED
      BY <2>1, <2>2, <2>3
  <1> QED
    BY <1>1, <1>2

\* An entry in the log that is no restriction, with the flags as they were.
LEMMA OtherLogged ==
    ASSUME SanctionsInv, RoomForAction, NEW kind \in Kinds \ Restrictions, NEW a \in Accounts,
           NEW hours, Logged(kind, a, hours, {}), UNCHANGED <<ability, appeal, drafting>>
    PROVE  SanctionsInv'
  <1>1. /\ ActionPart' /\ RowsKept /\ action'[NextRow].kind = kind
        /\ \A n \in Rows \ {NextRow} : action'[n].kind = action[n].kind
    BY LoggedRow DEF SanctionsInv
  <1>2. AppealPart' /\ AbilityPart'
    BY <1>1, AppealsKept DEF SanctionsInv, AbilityPart
  <1>3. \A n \in Rows : ~(action[n].kind = "none" /\ action'[n].kind \in Restrictions)
    BY <1>1 DEF Restrictions
  <1>4. RestrictionInForceHolds'
    <2>1. \A b \in Accounts \ {} : /\ ~ability[b].request => ~ability'[b].request
                                   /\ ~ability[b].help => ~ability'[b].help
      OBVIOUS
    <2> QED
      BY <1>1, <1>3, <2>1, InForceKept DEF SanctionsInv
  <1> QED
    BY <1>1, <1>2, <1>4 DEF SanctionsInv

LEMMA RestrictPersonKeeps ==
    ASSUME SanctionsInv, NEW role, NEW kind \in Restrictions, NEW a \in Accounts, NEW hours,
           RestrictPerson(role, kind, a, hours)
    PROVE  SanctionsInv'
  <1>1. /\ ActionPart' /\ RowsKept /\ NextRow \in Rows
        /\ action'[NextRow].kind = kind /\ action'[NextRow].target = a
        /\ \A n \in Rows \ {NextRow} : action'[n].kind = action[n].kind
    <2>1. kind \in Kinds /\ Logged(kind, a, hours, {}) /\ RoomForAction
      BY DEF Kinds, Restrictions, RestrictPerson
    <2> QED
      BY <2>1, LoggedRow DEF SanctionsInv
  <1>2. AppealPart'
    BY <1>1, AppealsKept DEF SanctionsInv, RestrictPerson
  <1>3. /\ AbilityPart'
        /\ \A b \in Accounts : /\ ~ability[b].request => ~ability'[b].request
                               /\ ~ability[b].help => ~ability'[b].help
        /\ IF kind = "restrict_requests" THEN ~ability'[a].request ELSE ~ability'[a].help
    BY DEF RestrictPerson, SanctionsInv, AbilityPart
  <1>4. \A n \in Rows : action[n].kind = "none" /\ action'[n].kind \in Restrictions => n = NextRow
    BY <1>1 DEF Restrictions
  <1>5. RestrictionInForceHolds'
    <2>1. \A n \in Rows : action[n].kind = "none" /\ action'[n].kind \in Restrictions =>
             IF action'[n].kind = "restrict_requests" THEN ~ability'[action'[n].target].request
                                                      ELSE ~ability'[action'[n].target].help
      BY <1>1, <1>3, <1>4
    <2> DEFINE S == {}
    <2>2. \A b \in Accounts \ S : /\ ~ability[b].request => ~ability'[b].request
                                  /\ ~ability[b].help => ~ability'[b].help
      BY <1>3
    <2>3. \A n \in Rows : action[n].kind \in Restrictions /\ action[n].target \in S =>
             action'[n].lifted \/ action'[n].expiry = "past"
      OBVIOUS
    <2>4. ActionPart /\ RestrictionInForceHolds
      BY DEF SanctionsInv
    <2> HIDE DEF Restrictions, S
    <2> QED
      BY <1>1, <2>1, <2>2, <2>3, <2>4, InForceKept
  <1> QED
    BY <1>1, <1>2, <1>3, <1>5 DEF SanctionsInv

LEMMA UnsuspendKeeps ==
    ASSUME SanctionsInv, NEW role, NEW a \in Accounts, Unsuspend(role, a)
    PROVE  SanctionsInv'
  <1>1. /\ ActionPart' /\ RowsKept /\ NextRow \in Rows /\ action[NextRow].kind = "none"
        /\ action'[NextRow].kind = "unsuspend"
        /\ \A n \in Rows \ {NextRow} :
             /\ action'[n].kind = action[n].kind
             /\ action'[n].lifted <=> (action[n].lifted \/ n \in RestrictionRows(a))
    <2>1. "unsuspend" \in Kinds /\ Logged("unsuspend", a, "none", RestrictionRows(a)) /\ RoomForAction
      BY DEF Kinds, Unsuspend
    <2> QED
      BY <2>1, LoggedRow DEF SanctionsInv
  <1>2. AppealPart'
    BY <1>1, AppealsKept DEF SanctionsInv, Unsuspend
  <1>3. AbilityPart' /\ \A b \in Accounts \ {a} : ability'[b] = ability[b]
    BY DEF Unsuspend, SanctionsInv, AbilityPart
  <1>4. RestrictionInForceHolds'
    <2>1. \A n \in Rows : ~(action[n].kind = "none" /\ action'[n].kind \in Restrictions)
      BY <1>1 DEF Restrictions
    <2>2. \A n \in Rows : action[n].kind \in Restrictions /\ action[n].target \in {a} =>
             action'[n].lifted \/ action'[n].expiry = "past"
      BY <1>1 DEF RestrictionRows, Restrictions
    <2> QED
      BY <1>1, <1>3, <2>1, <2>2, InForceKept DEF SanctionsInv
  <1> QED
    BY <1>1, <1>2, <1>3, <1>4 DEF SanctionsInv

LEMMA CheckAppealKeeps ==
    ASSUME SanctionsInv, NEW d \in Devices, NEW a \in Accounts, NEW n \in Rows, CheckAppeal(d, a, n)
    PROVE  SanctionsInv'
  <1>1. UNCHANGED <<ability, action, appeal>> /\ drafting' = [drafting EXCEPT ![d] = n]
        /\ action[n].kind # "none" /\ n \in Nat
    BY DEF CheckAppeal, Rows
  <1>2. AppealPart'
    BY <1>1 DEF SanctionsInv, AppealPart
  <1> QED
    BY <1>1, <1>2 DEF SanctionsInv, AbilityPart, ActionPart, RestrictionInForceHolds

LEMMA InsertAppealKeeps ==
    ASSUME SanctionsInv, NEW d \in Devices, InsertAppeal(d)
    PROVE  SanctionsInv'
  <1> DEFINE F == {k \in Appeals : appeal[k].state = "none"}
             n == drafting[d]
             new == [state |-> "open", action |-> n]
  <1>1. F \in SUBSET Nat /\ F # {}
    BY SanctionBounds DEF InsertAppeal, Appeals
  <1>2. NextAppeal \in Appeals
    BY <1>1, NatMin DEF NextAppeal
  <1>3. n \in Nat /\ n \in Rows /\ action[n].kind # "none"
    BY DEF InsertAppeal, SanctionsInv, AppealPart
  <1>4. /\ appeal' = [appeal EXCEPT ![NextAppeal] = new] /\ drafting' = [drafting EXCEPT ![d] = 0]
        /\ UNCHANGED <<ability, action>>
    BY DEF InsertAppeal
  <1>5. /\ new \in [state : {"none", "open", "upheld", "overturned"}, action : Nat]
        /\ new.action = n
    BY <1>3
  <1> HIDE DEF new, n
  <1>6. AppealPart'
    BY <1>2, <1>3, <1>4, <1>5 DEF SanctionsInv, AppealPart
  <1> QED
    BY <1>4, <1>6 DEF SanctionsInv, AbilityPart, ActionPart, RestrictionInForceHolds

\* Overturning lifts every restriction of the kind whose flag it raises.
LEMMA ResolveAppealKeeps ==
    ASSUME SanctionsInv, NEW k \in Appeals, NEW outcome \in {"upheld", "overturned"},
           ResolveAppeal(k, outcome)
    PROVE  SanctionsInv'
  <1> DEFINE n == appeal[k].action
             a == action[n].target
             over(kind) == outcome = "overturned" /\ action[n].kind = kind
             gone(m) == [action[m] EXCEPT !.lifted = TRUE]
  <1>1. appeal[k].state = "open" /\ n \in Rows /\ action[n].kind # "none" /\ a \in Accounts
    BY DEF ResolveAppeal, SanctionsInv, AppealPart, ActionPart
  <1>2. /\ appeal' = [appeal EXCEPT ![k].state = outcome] /\ drafting' = drafting
        /\ ability' = [ability EXCEPT ![a].request = @ \/ over("restrict_requests"),
                                      ![a].help = @ \/ over("restrict_helping")]
        /\ action' = [m \in Rows |->
              IF action[m].target = a /\ action[m].kind \in Restrictions /\ over(action[m].kind)
              THEN gone(m) ELSE action[m]]
    BY DEF ResolveAppeal
  <1>3. ability \in [Accounts -> [request : BOOLEAN, help : BOOLEAN]]
    BY DEF SanctionsInv, AbilityPart
  <1>4. /\ AbilityPart'
        /\ \A b \in Accounts \ {a} : ability'[b] = ability[b]
        /\ ability'[a].request <=> (ability[a].request \/ over("restrict_requests"))
        /\ ability'[a].help <=> (ability[a].help \/ over("restrict_helping"))
    <2> HIDE DEF over
    <2> DEFINE q == ability[a].request \/ over("restrict_requests")
               h == ability[a].help \/ over("restrict_helping")
               x == [ability[a] EXCEPT !.request = q, !.help = h]
    <2>1. ability' = [ability EXCEPT ![a] = x]
      BY <1>1, <1>2, <1>3
    <2>2. q \in BOOLEAN /\ h \in BOOLEAN
      OBVIOUS
    <2>3. x \in [request : BOOLEAN, help : BOOLEAN] /\ x.request = q /\ x.help = h
      <3> HIDE DEF q, h
      <3> QED
        BY <1>1, <1>3, <2>2
    <2> HIDE DEF x
    <2> QED
      BY <1>1, <1>3, <2>1, <2>3 DEF AbilityPart
  <1>5. \A m \in Rows :
           /\ gone(m) \in ActionRow /\ gone(m).kind = action[m].kind
           /\ gone(m).target = action[m].target /\ gone(m).expiry = action[m].expiry
           /\ gone(m).lifted = TRUE
    BY DEF SanctionsInv, ActionPart, ActionRow
  <1> HIDE DEF gone
  <1>6. \A m \in Rows :
           /\ action'[m] \in ActionRow /\ action'[m].kind = action[m].kind
           /\ action'[m].target = action[m].target /\ action'[m].expiry = action[m].expiry
           /\ action'[m].lifted <=> \/ action[m].lifted
                                    \/ /\ action[m].target = a /\ action[m].kind \in Restrictions
                                       /\ over(action[m].kind)
    BY <1>2, <1>5 DEF SanctionsInv, ActionPart
  <1>7. ActionPart' /\ RowsKept
    <2>1. action' \in [Rows -> ActionRow]
      BY <1>2, <1>6
    <2> QED
      BY <1>6, <2>1 DEF SanctionsInv, ActionPart, RowsKept
  <1>8. AppealPart'
    <2> DEFINE x == [appeal[k] EXCEPT !.state = outcome]
    <2>1. appeal' = [appeal EXCEPT ![k] = x]
      BY <1>2 DEF SanctionsInv, AppealPart
    <2>2. x \in [state : {"none", "open", "upheld", "overturned"}, action : Nat] /\ x.action = n
      BY DEF SanctionsInv, AppealPart
    <2> HIDE DEF x
    <2>3. \A m \in Rows : action[m].kind # "none" => action'[m].kind # "none"
      BY <1>6
    <2> QED
      BY <1>1, <1>2, <2>1, <2>2, <2>3 DEF SanctionsInv, AppealPart
  <1>9. RestrictionInForceHolds'
    <2> SUFFICES ASSUME NEW m \in Rows, action'[m].kind \in Restrictions, action'[m].expiry # "past",
                        ~action'[m].lifted
                 PROVE  IF action'[m].kind = "restrict_requests"
                          THEN ~ability'[action'[m].target].request
                          ELSE ~ability'[action'[m].target].help
      BY DEF RestrictionInForceHolds
    <2>1. /\ action[m].kind \in Restrictions /\ action[m].expiry # "past" /\ ~action[m].lifted
          /\ action[m].target = a => ~over(action[m].kind)
          /\ action'[m].kind = action[m].kind /\ action'[m].target = action[m].target
          /\ action[m].target \in Accounts
      BY <1>6 DEF SanctionsInv, ActionPart, Restrictions
    <2> HIDE DEF over
    <2>2. IF action[m].kind = "restrict_requests" THEN ~ability[action[m].target].request
                                                  ELSE ~ability[action[m].target].help
      BY <2>1 DEF SanctionsInv, RestrictionInForceHolds
    <2>3. CASE action[m].target = a
      BY <1>4, <2>1, <2>2, <2>3 DEF Restrictions
    <2>4. CASE action[m].target # a
      BY <1>4, <2>1, <2>2, <2>4
    <2> QED
      BY <2>3, <2>4
  <1> QED
    BY <1>4, <1>7, <1>8, <1>9 DEF SanctionsInv

LEMMA RestrictionRunsOutKeeps ==
    ASSUME SanctionsInv, NEW n \in Rows, RestrictionRunsOut(n)
    PROVE  SanctionsInv'
  <1> DEFINE x == [action[n] EXCEPT !.expiry = "past"]
  <1>1. /\ action \in [Rows -> ActionRow] /\ UNCHANGED <<ability, appeal, drafting>>
        /\ action' = [action EXCEPT ![n] = x]
    BY DEF RestrictionRunsOut, SanctionsInv, ActionPart
  <1>2. /\ x \in ActionRow /\ x.kind = action[n].kind /\ x.target = action[n].target
        /\ x.lifted = action[n].lifted /\ x.expiry = "past"
    BY <1>1 DEF ActionRow
  <1> HIDE DEF x
  <1>3. ActionPart' /\ RowsKept
    BY <1>1, <1>2 DEF SanctionsInv, ActionPart, RowsKept
  <1>4. RestrictionInForceHolds'
    BY <1>1, <1>2 DEF SanctionsInv, RestrictionInForceHolds
  <1> QED
    BY <1>1, <1>3, <1>4, AppealsKept DEF SanctionsInv, AbilityPart

LEMMA LiftRestrictionsKeeps ==
    ASSUME SanctionsInv, LiftRestrictions
    PROVE  SanctionsInv'
  <1>1. UNCHANGED <<action, appeal, drafting>>
    BY DEF LiftRestrictions
  <1>2. ability' = [a \in Accounts |-> IF a \in LapsedRestrictions
                                         THEN [request |-> TRUE, help |-> TRUE] ELSE ability[a]]
    BY DEF LiftRestrictions
  <1>3. AbilityPart'
    BY <1>2 DEF SanctionsInv, AbilityPart
  <1>4. \A a \in Accounts \ LapsedRestrictions : ability'[a] = ability[a]
    BY <1>2
  <1>5. \A n \in Rows : action[n].kind \in Restrictions /\ action[n].target \in LapsedRestrictions =>
           action[n].expiry = "past"
    BY DEF LapsedRestrictions, RestrictionRows
  <1>6. ActionPart' /\ AppealPart'
    BY <1>1 DEF SanctionsInv, ActionPart, AppealPart
  <1>7. RestrictionInForceHolds'
    <2>1. RowsKept
      BY <1>1 DEF RowsKept
    <2>2. \A n \in Rows : ~(action[n].kind = "none" /\ action'[n].kind \in Restrictions)
      BY <1>1 DEF Restrictions
    <2> QED
      BY <1>1, <1>4, <1>5, <2>1, <2>2, InForceKept DEF SanctionsInv
  <1> QED
    BY <1>3, <1>6, <1>7 DEF SanctionsInv

-----------------------------------------------------------------------------
(* Accounts and sanctions together *)

LEMMA SanctionsStart ==
    ASSUME PeopleInit
    PROVE  SanctionsInv
  <1>1. /\ ability = [a \in Accounts |-> [request |-> TRUE, help |-> TRUE]]
        /\ action = [n \in Rows |-> [kind |-> "none", target |-> NoAccount, expiry |-> "none", lifted |-> FALSE]]
        /\ appeal = [k \in Appeals |-> [state |-> "none", action |-> 0]]
        /\ drafting = [d \in Devices |-> 0]
    BY DEF PeopleInit, SanctionInit
  <1>2. AbilityPart /\ ActionPart
    BY <1>1 DEF AbilityPart, ActionPart, ActionRow
  <1>3. AppealPart
    BY <1>1 DEF AppealPart
  <1>4. RestrictionInForceHolds
    BY <1>1 DEF RestrictionInForceHolds, Restrictions
  <1> QED
    BY <1>2, <1>3, <1>4 DEF SanctionsInv

LEMMA SanctionsUnchanged ==
    ASSUME SanctionsInv, UNCHANGED sanctionVars
    PROVE  SanctionsInv'
  <1>1. UNCHANGED <<ability, action, appeal, drafting>>
    BY DEF sanctionVars
  <1>2. AbilityPart' /\ ActionPart'
    BY <1>1 DEF SanctionsInv, AbilityPart, ActionPart
  <1>3. AppealPart'
    BY <1>1 DEF SanctionsInv, AppealPart
  <1>4. RestrictionInForceHolds'
    BY <1>1 DEF SanctionsInv, RestrictionInForceHolds
  <1> QED
    BY <1>2, <1>3, <1>4 DEF SanctionsInv

LEMMA AccountsUnchanged ==
    ASSUME AccountsInv, UNCHANGED signVars
    PROVE  AccountsInv' /\ GuessCounted
  <1>1. AccountPart' /\ Grows(account, account')
    BY AccountUnwritten DEF signVars
  <1>2. /\ session' \subseteq session /\ flow' = flow /\ code' = code /\ signupOpen' \in BOOLEAN
    BY DEF signVars, AccountsInv
  <1> QED
    BY <1>1, <1>2, AccountWritten

LEMMA ModerateStepKeeps ==
    ASSUME PeopleInv, NEW role \in Roles, NEW a \in Accounts, ModerateStep(role, a)
    PROVE  PeopleInv' /\ flow' = flow
  <1>i. AccountsInv /\ SanctionsInv
    BY DEF PeopleInv
  <1>1. CASE Warn(role, a)
    <2>1. /\ "warn" \in Kinds \ Restrictions /\ RoomForAction /\ Logged("warn", a, "none", {})
          /\ UNCHANGED <<signVars, ability, appeal, drafting>>
      BY <1>1 DEF Warn, Kinds, Restrictions
    <2>2. SanctionsInv'
      BY <1>i, <2>1, OtherLogged
    <2>3. AccountsInv' /\ flow' = flow
      BY <1>i, <2>1, AccountsUnchanged DEF signVars
    <2> QED
      BY <2>2, <2>3 DEF PeopleInv
  <1>2. CASE Unsuspend(role, a)
    <2>1. SanctionsInv'
      BY <1>i, <1>2, UnsuspendKeeps
    <2>2. AccountsInv'
      BY <1>i, <1>2, UnsuspendKeepsAccounts
    <2> QED
      BY <1>2, <2>1, <2>2 DEF PeopleInv, Unsuspend
  <1>3. ASSUME NEW hours \in Durations, Suspend(role, a, hours)
        PROVE  PeopleInv' /\ flow' = flow
    <2>1. /\ "suspend" \in Kinds \ Restrictions /\ RoomForAction /\ Logged("suspend", a, hours, {})
          /\ UNCHANGED <<ability, appeal, drafting>>
      BY <1>3 DEF Suspend, Kinds, Restrictions
    <2>2. SanctionsInv'
      BY <1>i, <2>1, OtherLogged
    <2>3. AccountsInv'
      BY <1>i, <1>3, SuspendKeepsAccounts
    <2> QED
      BY <1>3, <2>2, <2>3 DEF PeopleInv, Suspend
  <1>4. ASSUME NEW hours \in Durations, NEW kind \in Restrictions, RestrictPerson(role, kind, a, hours)
        PROVE  PeopleInv' /\ flow' = flow
    <2>1. SanctionsInv'
      BY <1>i, <1>4, RestrictPersonKeeps
    <2>2. UNCHANGED signVars
      BY <1>4 DEF RestrictPerson
    <2>3. AccountsInv' /\ flow' = flow
      BY <1>i, <2>2, AccountsUnchanged DEF signVars
    <2> QED
      BY <2>1, <2>3 DEF PeopleInv
  <1> QED
    BY <1>1, <1>2, <1>3, <1>4 DEF ModerateStep

LEMMA ReportStepKeeps ==
    ASSUME PeopleInv, NEW a \in Accounts, ReportStep(a)
    PROVE  PeopleInv' /\ flow' = flow
  <1>i. AccountsInv /\ SanctionsInv
    BY DEF PeopleInv
  <1>1. UNCHANGED signVars
    BY DEF ReportStep, FileReport, CloseReport
  <1>2. AccountsInv' /\ flow' = flow
    BY <1>i, <1>1, AccountsUnchanged DEF signVars
  <1>3. SanctionsInv'
    <2>1. PICK r \in Reports :
             \/ \E urgent \in BOOLEAN : FileReport(r, a, urgent)
             \/ \E outcome \in {"resolved", "dismissed"} : CloseReport(r, outcome, a)
      BY DEF ReportStep
    <2>2. CASE \E urgent \in BOOLEAN : FileReport(r, a, urgent)
      <3>1. UNCHANGED <<ability, action, appeal, drafting>>
        BY <2>2 DEF FileReport
      <3>2. AbilityPart' /\ ActionPart' /\ AppealPart'
        BY <1>i, <3>1 DEF SanctionsInv, AbilityPart, ActionPart, AppealPart
      <3> QED
        BY <1>i, <3>1, <3>2 DEF SanctionsInv, RestrictionInForceHolds
    <2>3. ASSUME NEW outcome \in {"resolved", "dismissed"}, CloseReport(r, outcome, a)
          PROVE  SanctionsInv'
      <3> DEFINE kind == IF outcome = "resolved" THEN "report_resolve" ELSE "report_dismiss"
      <3>1. /\ kind \in Kinds \ Restrictions /\ RoomForAction /\ Logged(kind, a, "none", {})
            /\ UNCHANGED <<ability, appeal, drafting>>
        BY <2>3 DEF CloseReport, Kinds, Restrictions
      <3> HIDE DEF kind
      <3> QED
        BY <1>i, <3>1, OtherLogged
    <2> QED
      BY <2>1, <2>2, <2>3
  <1> QED
    BY <1>2, <1>3 DEF PeopleInv

LEMMA AppealStepKeeps ==
    ASSUME PeopleInv, AppealStep
    PROVE  PeopleInv' /\ flow' = flow
  <1>i. AccountsInv /\ SanctionsInv
    BY DEF PeopleInv
  <1>1. SanctionsInv'
    BY <1>i, CheckAppealKeeps, InsertAppealKeeps, ResolveAppealKeeps DEF AppealStep
  <1>2. CASE UNCHANGED signVars
    <2>1. AccountsInv' /\ flow' = flow
      BY <1>i, <1>2, AccountsUnchanged DEF signVars
    <2> QED
      BY <1>1, <2>1 DEF PeopleInv
  <1>3. ASSUME NEW k \in Appeals, NEW outcome \in {"upheld", "overturned"}, ResolveAppeal(k, outcome)
        PROVE  PeopleInv' /\ flow' = flow
    <2> DEFINE a == action[appeal[k].action].target
               r == [account[a] EXCEPT !.status = "active", !.until = "none"]
    <2>1. UNCHANGED <<code, session, flow, signupOpen>>
      BY <1>3 DEF ResolveAppeal
    <2>2. CASE account' = account
      <3>1. AccountsInv'
        BY <1>i, <2>1, <2>2, AccountsUnchanged DEF signVars
      <3> QED
        BY <1>1, <2>1, <3>1 DEF PeopleInv
    <2>3. CASE account' # account
      <3>1. /\ account' = [account EXCEPT ![a].status = "active", ![a].until = "none"]
            /\ account[a].status = "suspended" /\ a \in Accounts
        <4>1. a \in Accounts
          BY <1>i, <1>3 DEF ResolveAppeal, SanctionsInv, AppealPart, ActionPart
        <4> QED
          BY <1>3, <2>3, <4>1 DEF ResolveAppeal
      <3>2. account \in [Accounts -> AccountRow] /\ account[a] \in AccountRow
        BY <1>i, <3>1 DEF AccountsInv, AccountPart
      <3> HIDE DEF a
      <3>3. account' = [account EXCEPT ![a] = r]
        BY <3>1, <3>2
      <3>4. /\ r \in AccountRow /\ r.status = "active" /\ r.username = account[a].username
            /\ r.address = account[a].address /\ r.password = account[a].password
        BY <3>2 DEF AccountRow
      <3> HIDE DEF r
      <3>5. account' \in [Accounts -> AccountRow]
        BY <3>2, <3>3, <3>4
      <3>6. AccountsInv'
        BY <1>i, <2>1, <3>1, <3>2, <3>3, <3>4, <3>5, StatusWritten
      <3> QED
        BY <1>1, <2>1, <3>6 DEF PeopleInv
    <2> QED
      BY <2>2, <2>3
  <1>4. \/ UNCHANGED signVars
        \/ \E k \in Appeals, outcome \in {"upheld", "overturned"} : ResolveAppeal(k, outcome)
    BY DEF AppealStep, CheckAppeal, InsertAppeal
  <1> QED
    BY <1>2, <1>3, <1>4

LEMMA SanctionNextKeeps ==
    ASSUME PeopleInv, SanctionNext
    PROVE  PeopleInv' /\ flow' = flow
  <1>i. AccountsInv /\ SanctionsInv
    BY DEF PeopleInv
  <1>1. ASSUME NEW n \in Rows, RestrictionRunsOut(n)
        PROVE  PeopleInv' /\ flow' = flow
    <2>1. SanctionsInv'
      BY <1>i, <1>1, RestrictionRunsOutKeeps
    <2>2. UNCHANGED signVars
      BY <1>1 DEF RestrictionRunsOut
    <2>3. AccountsInv' /\ flow' = flow
      BY <1>i, <2>2, AccountsUnchanged DEF signVars
    <2> QED
      BY <2>1, <2>3 DEF PeopleInv
  <1>2. ASSUME NEW a \in Accounts, SuspensionRunsOut(a)
        PROVE  PeopleInv' /\ flow' = flow
    <2>1. UNCHANGED sanctionVars /\ flow' = flow
      BY <1>2 DEF SuspensionRunsOut
    <2>2. SanctionsInv'
      BY <1>i, <2>1, SanctionsUnchanged
    <2>3. AccountsInv'
      BY <1>i, <1>2, SuspensionRunsOutKeepsAccounts
    <2> QED
      BY <2>1, <2>2, <2>3 DEF PeopleInv
  <1>3. CASE LiftSuspensions
    <2>1. UNCHANGED sanctionVars /\ flow' = flow
      BY <1>3 DEF LiftSuspensions
    <2>2. SanctionsInv'
      BY <1>i, <2>1, SanctionsUnchanged
    <2>3. AccountsInv'
      BY <1>i, <1>3, LiftSuspensionsKeepsAccounts
    <2> QED
      BY <2>1, <2>2, <2>3 DEF PeopleInv
  <1>4. CASE LiftRestrictions
    <2>1. SanctionsInv'
      BY <1>i, <1>4, LiftRestrictionsKeeps
    <2>2. UNCHANGED signVars
      BY <1>4 DEF LiftRestrictions
    <2>3. AccountsInv' /\ flow' = flow
      BY <1>i, <2>2, AccountsUnchanged DEF signVars
    <2> QED
      BY <2>1, <2>3 DEF PeopleInv
  <1> QED
    BY <1>1, <1>2, <1>3, <1>4, ModerateStepKeeps, ReportStepKeeps, AppealStepKeeps
       DEF SanctionNext, ClockStep

LEMMA PeopleInvKept ==
    ASSUME PeopleInv, [PeopleNext]_peopleVars
    PROVE  PeopleInv' /\ GuessCounted
  <1>1. CASE SignNext /\ UNCHANGED sanctionVars
    <2>1. AccountsInv' /\ GuessCounted
      BY <1>1, SignNextKeeps DEF PeopleInv
    <2>2. SanctionsInv'
      BY <1>1, SanctionsUnchanged DEF PeopleInv
    <2> QED
      BY <2>1, <2>2 DEF PeopleInv
  <1>2. CASE SanctionNext
    BY <1>2, SanctionNextKeeps DEF GuessCounted
  <1>3. CASE UNCHANGED peopleVars
    <2>1. UNCHANGED signVars /\ UNCHANGED sanctionVars
      BY <1>3 DEF peopleVars
    <2>2. AccountsInv' /\ GuessCounted
      BY <2>1, AccountsUnchanged DEF PeopleInv
    <2>3. SanctionsInv'
      BY <2>1, SanctionsUnchanged DEF PeopleInv
    <2> QED
      BY <2>2, <2>3 DEF PeopleInv
  <1> QED
    BY <1>1, <1>2, <1>3 DEF PeopleNext

\* The type invariant of the accounts, with the rows and requests only the handlers produce.
THEOREM PeopleInvariant == PeopleSpec => []PeopleInv
  <1>1. PeopleInit => PeopleInv
    BY PeopleStart, SanctionsStart DEF PeopleInv
  <1>2. PeopleInv /\ [PeopleNext]_peopleVars => PeopleInv'
    BY PeopleInvKept
  <1> QED
    BY <1>1, <1>2, PTL DEF PeopleSpec

\* AccountsTypeOK: every row and every request in progress is one the handlers can produce.
THEOREM AccountTypes == PeopleSpec => []AccountsTypeOK
  <1>1. PeopleInv => AccountsTypeOK
    <2> SUFFICES ASSUME PeopleInv
                 PROVE  AccountsTypeOK
      OBVIOUS
    <2>1. /\ account \in [Accounts -> AccountRow] /\ code \in [Codes -> CodeRow]
          /\ session \subseteq Devices \X Accounts /\ signupOpen \in BOOLEAN
          /\ \A a \in Accounts : (account[a].username = NoName) = (account[a].password = "none")
      BY DEF PeopleInv, AccountsInv, AccountPart, RowFits, CodePart, SessionPart
    <2>2. \A d \in Devices : flow[d].step \in Steps
      BY DEF PeopleInv, AccountsInv, FlowPart, FlowRow
    <2> QED
      BY <2>1, <2>2 DEF AccountsTypeOK, AccountRow, CodeRow, Steps
  <1> QED
    BY <1>1, PeopleInvariant, PTL

\* OneAccount: sign-ups, set-ups and the admin's accounts may race as they like.
THEOREM AddressesAndNamesAreUnique == PeopleSpec => []OneAccount
  <1>1. PeopleInv => OneAccount
    BY DEF PeopleInv, AccountsInv, AccountPart
  <1> QED
    BY <1>1, PeopleInvariant, PTL

\* RestrictionInForceHolds: no sweep, appeal or other decision raises a flag too early.
THEOREM RestrictionsHoldWhileInForce == PeopleSpec => []RestrictionInForceHolds
  <1>1. PeopleInv => RestrictionInForceHolds
    BY DEF PeopleInv, SanctionsInv
  <1> QED
    BY <1>1, PeopleInvariant, PTL

\* LockedOut: of any number of concurrent guesses, none gets in after the attempts are used up.
THEOREM GuessesAreLimited == PeopleSpec => LockedOut
  <1>1. PeopleInv /\ [PeopleNext]_peopleVars =>
           [\A d \in Devices : flow[d].step = "guessing" /\ flow'[d].step = "matched"
               => code[flow[d].code].wrong < OtpMaxAttempts]_signVars
    BY PeopleInvKept DEF GuessCounted
  <1> QED
    BY <1>1, PeopleInvariant, PTL DEF PeopleSpec, LockedOut

-----------------------------------------------------------------------------
(* Membership: the invariant *)

CallRow == [op : {"none", "join", "help", "ping"}, user : Members \cup {NoMember}, until : Nat]

MemberTypes ==
    /\ now \in Nat /\ swept \in Nat
    /\ member \in [Members -> {"never", "in", "left"}]
    /\ since \in [Members -> Nat] /\ position \in [Members -> Nat]
    /\ call \in [Calls -> CallRow]
    /\ \A h \in Calls : call[h].op # "none" => call[h].user \in Members
    /\ listed \subseteq Members \X Days
    /\ \A u \in Members : since[u] <= now

\* How long ago the sweep last had its turn, one whole interval where it has it now.
Phase == IF now % TICK = 0 THEN TICK ELSE now % TICK

\* A position that had expired when the sweep last had its turn is gone.
PositionInv ==
    /\ \A u \in Members : position[u] # 0 => now <= position[u] + Phase
    /\ \A h \in Calls : call[h].op = "ping" => now <= call[h].until

\* When the next sweep is due.
NextSweep == swept * TICK

\* Sweeps on time run at every multiple of TICK, and the event runs until its end.
SweepInv ==
    /\ ~late => now <= NextSweep
    /\ swept # 0 => NextSweep <= now + TICK
    /\ now < EndsAt => Running

\* The reminder of a day u has been a member for is on its way once a sweep has run in its
\* window, the TICK that starts a DAY before.
Due(u, d) ==
    /\ IsMember(u) /\ since[u] + DAY <= StartOf(d)
    /\ StartOf(d) + TICK <= NextSweep + DAY

ReminderInv ==
    /\ RemindedOnce
    /\ ~late => \A u \in Members, d \in Days : Due(u, d) => <<u, d>> \in listed \cup DOMAIN reminders

\* No reminder falls due on the instant of a sweep.
OffBeat == \A d \in Days, k \in Nat : k * TICK + DAY # StartOf(d)

LEMMA Times ==
    /\ TICK \in Nat /\ DAY \in Nat /\ StartsAt \in Nat /\ EndsAt \in Nat /\ LocationTTL \in Nat
    /\ Horizon \in Nat /\ TICK > 0 /\ TICK < DAY /\ DAY <= StartsAt /\ LocationTTL > 0
    /\ Never \in Nat
  BY TimesAssumption DEF Never

\* The starts of the days, a DAY apart.
LEMMA Starts ==
    ASSUME NEW d \in Days
    PROVE  /\ d \in Nat /\ d # 0 /\ StartOf(d) \in Nat /\ StartOf(d) >= DAY /\ StartOf(d) <= EndsAt
           /\ \A c \in Days : c < d => StartOf(c) + DAY <= StartOf(d)
  <1>1. d \in 1 .. Horizon /\ StartOf(d) <= EndsAt
    BY DEF Days, StartOf
  <1>2. \A k \in Nat : k * DAY \in Nat /\ k * DAY >= 0
    BY Times
  <1>3. (d - 1) * DAY \in Nat
    BY <1>1, <1>2, Times
  <1>4. ASSUME NEW c \in Days, c < d
        PROVE  StartOf(c) + DAY <= StartOf(d)
    <2>1. c \in 1 .. Horizon
      BY DEF Days
    <2>2. (d - 1 - c) * DAY \in Nat
      BY <1>1, <1>2, <1>4, <2>1, Times
    <2>3. (d - 1) * DAY = (c - 1) * DAY + DAY + (d - 1 - c) * DAY
      BY <1>1, <2>1, Times
    <2>4. (c - 1) * DAY \in Nat
      BY <1>2, <2>1, Times
    <2> QED
      BY <1>3, <2>2, <2>3, <2>4, Times DEF StartOf
  <1> QED
    BY <1>1, <1>3, <1>4, Times DEF StartOf

LEMMA SweepTimes ==
    ASSUME swept \in Nat
    PROVE  /\ NextSweep \in Nat /\ (swept + 1) * TICK = NextSweep + TICK
           /\ swept = 0 => NextSweep = 0
           /\ swept # 0 => (swept - 1) * TICK = NextSweep - TICK /\ swept - 1 \in Nat
  BY Times DEF NextSweep

LEMMA PhaseBounds ==
    ASSUME now \in Nat
    PROVE  Phase \in 1 .. TICK
  <1>1. now % TICK \in 0 .. TICK - 1
    BY NextMod, Times
  <1> QED
    BY <1>1, Times DEF Phase

MemberInv == MemberTypes /\ PositionInv /\ SweepInv

-----------------------------------------------------------------------------
(* Membership: the handlers *)

\* Reminders owe nothing new to a handler that lets nobody in.
LEMMA NothingNewDue ==
    ASSUME ReminderInv, UNCHANGED <<now, reminderVars, late>>,
           \A u \in Members : since'[u] = since[u] /\ (member'[u] = "in" => member[u] = "in")
    PROVE  ReminderInv'
  <1>1. UNCHANGED <<swept, listed, reminders>>
    BY DEF reminderVars
  <1>2. RemindedOnce'
    BY <1>1 DEF ReminderInv, RemindedOnce
  <1>3. \A u \in Members, d \in Days : Due(u, d)' => Due(u, d)
    BY <1>1 DEF Due, IsMember, NextSweep, StartOf
  <1> QED
    BY <1>1, <1>2, <1>3 DEF ReminderInv

\* What a handler at one instant may change.
LEMMA SameInstant ==
    ASSUME MemberInv, UNCHANGED <<now, status, swept, listed, late>>,
           member' \in [Members -> {"never", "in", "left"}],
           since' \in [Members -> Nat], \A u \in Members : since'[u] <= now,
           position' \in [Members -> Nat],
           \A u \in Members : position'[u] \in {position[u], 0} \/ now <= position'[u],
           call' \in [Calls -> CallRow],
           \A h \in Calls : \/ call'[h] = call[h]
                            \/ /\ call'[h].op # "none" => call'[h].user \in Members
                               /\ call'[h].op = "ping" => now <= call'[h].until
    PROVE  MemberInv'
  <1>1. MemberTypes'
    BY DEF MemberInv, MemberTypes
  <1>2. Phase' = Phase /\ Phase \in 1 .. TICK /\ NextSweep' = NextSweep
    BY PhaseBounds DEF MemberInv, MemberTypes, Phase, NextSweep
  <1>3. SweepInv'
    BY <1>2 DEF MemberInv, SweepInv, Running
  <1>4. PositionInv'
    <2>1. \A u \in Members : position'[u] # 0 => now' <= position'[u] + Phase'
      <3> SUFFICES ASSUME NEW u \in Members, position'[u] # 0
                   PROVE  now <= position'[u] + Phase
        BY <1>2
      <3>1. CASE position'[u] = position[u]
        BY <3>1 DEF MemberInv, PositionInv
      <3>2. CASE now <= position'[u]
        BY <1>2, <3>2, Times DEF MemberInv, MemberTypes
      <3> QED
        BY <3>1, <3>2
    <2>2. \A h \in Calls : call'[h].op = "ping" => now' <= call'[h].until
      BY DEF MemberInv, PositionInv
    <2> QED
      BY <2>1, <2>2 DEF PositionInv
  <1> QED
    BY <1>1, <1>3, <1>4 DEF MemberInv

LEMMA NoCallIs ==
    NoCall \in CallRow /\ NoCall.op = "none"
  BY DEF NoCall, CallRow

\* The start of a call.
LEMMA BeginKeeps ==
    ASSUME MemberInv, NEW h \in Calls, NEW op \in {"none", "join", "help", "ping"},
           NEW u \in Members \cup {NoMember}, NEW until \in Nat, Begin(h, op, u, until),
           op # "none" => u \in Members, op = "ping" => now <= until,
           UNCHANGED <<now, eventVars, reminderVars, late>>
    PROVE  MemberInv'
  <1> DEFINE c == [op |-> op, user |-> u, until |-> until]
  <1>1. c \in CallRow /\ c.op = op /\ c.user = u /\ c.until = until
    BY DEF CallRow
  <1>2. call' = [call EXCEPT ![h] = c]
    BY DEF Begin
  <1>3. /\ UNCHANGED <<now, status, swept, listed, late>>
        /\ UNCHANGED <<member, since, position>>
    BY DEF eventVars, reminderVars
  <1> HIDE DEF c
  <1>4. /\ call' \in [Calls -> CallRow]
        /\ \A g \in Calls : \/ call'[g] = call[g]
                            \/ /\ call'[g].op # "none" => call'[g].user \in Members
                               /\ call'[g].op = "ping" => now <= call'[g].until
    BY <1>1, <1>2 DEF MemberInv, MemberTypes
  <1> QED
    BY <1>3, <1>4, SameInstant DEF MemberInv, MemberTypes

\* The end of a call, or no call at all.
LEMMA CallsLeft ==
    ASSUME MemberInv, call' = call \/ \E h \in Calls : Answered(h)
    PROVE  /\ call' \in [Calls -> CallRow]
           /\ \A h \in Calls : \/ call'[h] = call[h]
                               \/ /\ call'[h].op # "none" => call'[h].user \in Members
                                  /\ call'[h].op = "ping" => now <= call'[h].until
  BY NoCallIs DEF MemberInv, MemberTypes, Answered

\* Whoever leaves is no member, and shares no position.
LEMMA LeavesKeeps ==
    ASSUME MemberInv, NEW u \in Members, Leaves(u)
    PROVE  /\ member' \in [Members -> {"never", "in", "left"}]
           /\ \A v \in Members : member'[v] = "in" => member[v] = "in"
           /\ position' \in [Members -> Nat]
           /\ \A v \in Members : position'[v] \in {position[v], 0}
  BY DEF MemberInv, MemberTypes, Leaves

\* A position that goes away, of one member or of several.
LEMMA PositionGone ==
    ASSUME MemberInv, position' \in [Members -> Nat],
           \A u \in Members : position'[u] \in {position[u], 0},
           UNCHANGED <<now, status, member, since, call, reminderVars, late>>
    PROVE  MemberInv'
  <1>1. UNCHANGED <<swept, listed>>
    BY DEF reminderVars
  <1>2. call' = call
    OBVIOUS
  <1> QED
    BY <1>1, <1>2, CallsLeft, SameInstant DEF MemberInv, MemberTypes

LEMMA JoinKeeps ==
    ASSUME MemberInv, NEW h \in Calls, Join(h)
    PROVE  /\ MemberInv'
           /\ OffBeat /\ ReminderInv => ReminderInv'
  <1> DEFINE u == call[h].user
  <1>1. /\ u \in Members /\ member' = [member EXCEPT ![u] = "in"]
        /\ since' = IF IsMember(u) THEN since ELSE [since EXCEPT ![u] = now]
        /\ UNCHANGED <<now, status, position, reminderVars, late>> /\ Answered(h)
    BY DEF Join, MemberInv, MemberTypes
  <1>2. UNCHANGED <<swept, listed, reminders>>
    BY <1>1 DEF reminderVars
  <1>3. now \in Nat /\ swept \in Nat
    BY DEF MemberInv, MemberTypes
  <1>4. MemberInv'
    <2>1. /\ member' \in [Members -> {"never", "in", "left"}]
          /\ since' \in [Members -> Nat] /\ \A v \in Members : since'[v] <= now
      BY <1>1, <1>3 DEF MemberInv, MemberTypes
    <2> QED
      BY <1>1, <1>2, <2>1, CallsLeft, SameInstant DEF MemberInv, MemberTypes
  <1>5. ASSUME OffBeat, ReminderInv
        PROVE  ReminderInv'
    <2>1. RemindedOnce'
      BY <1>2, <1>5 DEF ReminderInv, RemindedOnce
    <2>2. ASSUME ~late', NEW v \in Members, NEW d \in Days, Due(v, d)'
          PROVE  <<v, d>> \in listed' \cup DOMAIN reminders'
      <3>1. /\ since'[v] + DAY <= StartOf(d) /\ StartOf(d) + TICK <= NextSweep + DAY
        BY <1>2, <2>2 DEF Due, NextSweep, StartOf
      <3>2. CASE since'[v] = since[v] /\ IsMember(v)
        BY <1>1, <1>2, <1>5, <2>2, <3>1, <3>2 DEF Due, ReminderInv
      <3>3. CASE since'[v] = now
        <4>1. now + DAY <= StartOf(d)
          BY <3>1, <3>3
        <4>2. swept # 0
          BY <1>3, <3>1, Starts, SweepTimes, Times
        <4>3. NextSweep <= now + TICK
          BY <4>2 DEF MemberInv, SweepInv
        <4>4. StartOf(d) = (swept - 1) * TICK + DAY /\ swept - 1 \in Nat
          BY <1>3, <3>1, <4>1, <4>2, <4>3, Starts, SweepTimes, Times
        <4> QED
          BY <1>5, <4>4 DEF OffBeat
      <3>4. (since'[v] = since[v] /\ IsMember(v)) \/ since'[v] = now
        BY <1>1, <2>2 DEF Due, IsMember, MemberInv, MemberTypes
      <3> QED
        BY <3>2, <3>3, <3>4
    <2> QED
      BY <2>1, <2>2 DEF ReminderInv
  <1> QED
    BY <1>4, <1>5

\* What a member asks for at once, or the server does at the end of a call.
LEMMA UserStepKeeps ==
    ASSUME MemberInv, NEW u \in Members, UserStep(u)
    PROVE  MemberInv' /\ (ReminderInv => ReminderInv')
  <1>t. /\ now \in Nat /\ member \in [Members -> {"never", "in", "left"}]
        /\ position \in [Members -> Nat]
    BY DEF MemberInv, MemberTypes
  <1>b. ASSUME NEW h \in Calls, NEW op \in {"none", "join", "help", "ping"},
               NEW v \in Members \cup {NoMember}, NEW until \in Nat, Begin(h, op, v, until),
               op # "none" => v \in Members, op = "ping" => now <= until,
               UNCHANGED <<now, eventVars, reminderVars, declined, late>>
        PROVE  MemberInv' /\ (ReminderInv => ReminderInv')
    <2>1. MemberInv'
      BY <1>b, BeginKeeps
    <2>2. ReminderInv => ReminderInv'
      BY <1>b, NothingNewDue DEF eventVars
    <2> QED
      BY <2>1, <2>2
  <1>1. ASSUME NEW h \in Calls, StartJoin(h, u)
        PROVE  MemberInv' /\ (ReminderInv => ReminderInv')
    <2> DEFINE op == IF member[u] = "in" THEN "none" ELSE "join"
               v == IF member[u] = "in" THEN NoMember ELSE u
    <2>1. /\ op \in {"none", "join", "help", "ping"} /\ v \in Members \cup {NoMember}
          /\ op # "none" => v \in Members
          /\ op # "ping"
      OBVIOUS
    <2>2. Begin(h, op, v, 0) /\ UNCHANGED <<now, eventVars, reminderVars, declined, late>>
      BY <1>1 DEF StartJoin
    <2> HIDE DEF op, v
    <2> QED
      BY <1>b, <2>1, <2>2
  <1>2. ASSUME NEW h \in Calls, StartPing(h, u)
        PROVE  MemberInv' /\ (ReminderInv => ReminderInv')
    <2>1. now + LocationTTL \in Nat /\ now <= now + LocationTTL
      BY <1>t, Times
    <2>2. /\ Begin(h, "ping", u, now + LocationTTL)
          /\ UNCHANGED <<now, eventVars, reminderVars, declined, late>>
      BY <1>2 DEF StartPing
    <2> QED
      BY <1>b, <2>1, <2>2
  <1>3. ASSUME NEW h \in Calls, NEW until \in {now + TICK, EndsAt, Never}, StartHelping(h, u, until)
        PROVE  MemberInv' /\ (ReminderInv => ReminderInv')
    <2>1. until \in Nat
      BY <1>t, Times
    <2>2. /\ Begin(h, "help", u, until)
          /\ UNCHANGED <<now, eventVars, reminderVars, declined, late>>
      BY <1>3 DEF StartHelping
    <2> QED
      BY <1>b, <2>1, <2>2
  <1>4. CASE LeaveEvent(u) \/ \E attending \in BOOLEAN : AnswerAttendance(u, attending)
    <2>1. /\ Leaves(u) \/ UNCHANGED <<member, position>>
          /\ UNCHANGED <<now, status, since, call, reminderVars, late>>
      BY <1>4 DEF LeaveEvent, AnswerAttendance
    <2>2. /\ member' \in [Members -> {"never", "in", "left"}]
          /\ \A v \in Members : member'[v] = "in" => member[v] = "in"
          /\ position' \in [Members -> Nat]
          /\ \A v \in Members : position'[v] \in {position[v], 0}
      BY <1>t, <2>1, LeavesKeeps
    <2>3. UNCHANGED <<swept, listed>> /\ call' = call
      BY <2>1 DEF reminderVars
    <2>4. MemberInv'
      BY <2>1, <2>2, <2>3, CallsLeft, SameInstant DEF MemberInv, MemberTypes
    <2>5. ReminderInv => ReminderInv'
      BY <2>1, <2>2, NothingNewDue
    <2> QED
      BY <2>4, <2>5
  <1>5. CASE StopHelping(u) \/ DeleteLocation(u) \/ Ask(u)
    <2>1. /\ UNCHANGED <<now, status, member, since, call, reminderVars, late>>
          /\ position' = position \/ position' = [position EXCEPT ![u] = 0]
      BY <1>5 DEF StopHelping, DeleteLocation, Ask
    <2>2. position' \in [Members -> Nat] /\ \A v \in Members : position'[v] \in {position[v], 0}
      BY <1>t, <2>1
    <2>3. MemberInv'
      BY <2>1, <2>2, PositionGone
    <2>4. ReminderInv => ReminderInv'
      BY <2>1, NothingNewDue
    <2> QED
      BY <2>3, <2>4
  <1> QED
    BY <1>1, <1>2, <1>3, <1>4, <1>5 DEF UserStep

LEMMA CallStepKeeps ==
    ASSUME MemberInv, NEW h \in Calls, CallStep(h)
    PROVE  /\ MemberInv'
           /\ OffBeat /\ ReminderInv => ReminderInv'
  <1>1. CASE Join(h)
    BY <1>1, JoinKeeps
  <1>2. CASE SetHelping(h) \/ PutLocation(h)
    <2> DEFINE u == call[h].user
    <2>1. /\ UNCHANGED <<now, status, member, since, reminderVars, late>> /\ Answered(h)
          /\ \/ position' = position
             \/ call[h].op = "ping" /\ position' = [position EXCEPT ![u] = call[h].until]
      BY <1>2 DEF SetHelping, PutLocation
    <2>2. /\ position' \in [Members -> Nat]
          /\ \A v \in Members : position'[v] \in {position[v], 0} \/ now <= position'[v]
      <3>1. CASE position' = position
        BY <3>1 DEF MemberInv, MemberTypes
      <3>2. CASE call[h].op = "ping" /\ position' = [position EXCEPT ![u] = call[h].until]
        <4>1. u \in Members /\ call[h].until \in Nat /\ now <= call[h].until
          BY <3>2 DEF MemberInv, MemberTypes, PositionInv, CallRow
        <4> HIDE DEF u
        <4> QED
          BY <3>2, <4>1 DEF MemberInv, MemberTypes
      <3> QED
        BY <2>1, <3>1, <3>2
    <2>3. UNCHANGED <<swept, listed>>
      BY <2>1 DEF reminderVars
    <2>4. MemberInv'
      BY <2>1, <2>2, <2>3, CallsLeft, SameInstant DEF MemberInv, MemberTypes
    <2>5. ReminderInv => ReminderInv'
      BY <2>1, NothingNewDue
    <2> QED
      BY <2>4, <2>5
  <1> QED
    BY <1>1, <1>2 DEF CallStep

\* The tasks of the sweep that write positions and help.
LEMMA TaskKeeps ==
    ASSUME MemberInv, PurgeLocations \/ ExpireAvailability
    PROVE  MemberInv' /\ (ReminderInv => ReminderInv')
  <1>1. /\ UNCHANGED <<now, status, member, since, call, reminderVars, late>>
        /\ \/ position' = position
           \/ position' = [u \in Members |-> IF Expired(u) THEN 0 ELSE position[u]]
    BY DEF PurgeLocations, ExpireAvailability
  <1>2. position' \in [Members -> Nat] /\ \A u \in Members : position'[u] \in {position[u], 0}
    BY <1>1 DEF MemberInv, MemberTypes
  <1>3. MemberInv'
    BY <1>1, <1>2, PositionGone
  <1>4. ReminderInv => ReminderInv'
    BY <1>1, NothingNewDue
  <1> QED
    BY <1>3, <1>4

LEMMA LifecycleKeeps ==
    ASSUME MemberInv, EventLifecycle
    PROVE  MemberInv' /\ (ReminderInv => ReminderInv')
  <1>1. UNCHANGED <<now, member, since, position, call, reminderVars, late>>
    BY DEF EventLifecycle
  <1>2. UNCHANGED <<swept, listed>>
    BY <1>1 DEF reminderVars
  <1>3. now < EndsAt => status' \in {"scheduled", "active"}
    BY Times DEF EventLifecycle, LifecycleStatus, Running, MemberInv, MemberTypes, SweepInv
  <1>4. SweepInv'
    BY <1>1, <1>2, <1>3 DEF MemberInv, SweepInv, Running, NextSweep
  <1>5. MemberTypes' /\ PositionInv'
    BY <1>1, <1>2 DEF MemberInv, MemberTypes, PositionInv, Phase
  <1>6. ReminderInv => ReminderInv'
    BY <1>1, NothingNewDue
  <1> QED
    BY <1>4, <1>5, <1>6 DEF MemberInv

LEMMA AddReminderKeeps ==
    ASSUME MemberInv, NEW m \in listed, AddReminder(m[1], m[2])
    PROVE  MemberInv' /\ (ReminderInv => ReminderInv')
  <1>1. /\ m \in Members \X Days /\ m = <<m[1], m[2]>>
    BY DEF MemberInv, MemberTypes
  <1>2. /\ UNCHANGED <<now, status, member, since, position, call, swept, late>>
        /\ listed' = listed \ {m}
        /\ reminders' = IF m \in DOMAIN reminders THEN reminders
                        ELSE [x \in DOMAIN reminders \cup {m} |->
                                IF x = m THEN (IF x \in DOMAIN reminders THEN 2 ELSE 1) ELSE reminders[x]]
    BY <1>1 DEF AddReminder, AlreadySent, eventVars
  <1>3. MemberInv'
    BY <1>2 DEF MemberInv, MemberTypes, PositionInv, Phase, SweepInv, Running, NextSweep
  <1>4. /\ DOMAIN reminders' = DOMAIN reminders \cup {m}
        /\ \A x \in DOMAIN reminders' : reminders'[x] = IF x \in DOMAIN reminders THEN reminders[x] ELSE 1
    <2>1. CASE m \in DOMAIN reminders
      BY <1>2, <2>1
    <2>2. CASE m \notin DOMAIN reminders
      BY <1>2, <2>2
    <2> QED
      BY <2>1, <2>2
  <1>5. ASSUME ReminderInv
        PROVE  ReminderInv'
    <2>1. RemindedOnce'
      BY <1>4, <1>5 DEF ReminderInv, RemindedOnce
    <2>2. listed \cup DOMAIN reminders \subseteq listed' \cup DOMAIN reminders'
      BY <1>2, <1>4
    <2>3. \A u \in Members, d \in Days : Due(u, d)' => Due(u, d)
      BY <1>2 DEF Due, IsMember, NextSweep, StartOf
    <2> QED
      BY <1>2, <1>5, <2>1, <2>2, <2>3 DEF ReminderInv
  <1> QED
    BY <1>3, <1>5

\* In the window of its reminder, a day is the next to start.
LEMMA NextInWindow ==
    ASSUME OffBeat, NEW d \in Days, NEW k \in Nat, now = k * TICK, now \in Nat,
           StartOf(d) <= now + DAY, now + DAY < StartOf(d) + TICK
    PROVE  NextDailyStart(now) = d /\ d # 0 /\ IsReminderDue(d) /\ now < EndsAt
  <1> DEFINE coming == {c \in Days : StartOf(c) >= now}
  <1>1. StartOf(d) \in Nat /\ StartOf(d) <= EndsAt /\ d \in Nat /\ d # 0
    BY Starts
  <1>2. d \in coming
    BY <1>1, Times
  <1>3. StartOf(d) < now + DAY
    BY <1>1, Times DEF OffBeat
  <1>4. \A c \in coming : c \in Nat /\ ~(c < d)
    BY <1>1, <1>3, Starts, Times
  <1>5. \A c \in coming : d <= c
    BY <1>1, <1>4
  <1>6. \A x \in coming : (\A c \in coming : x <= c) => x = d
    BY <1>1, <1>2, <1>4, <1>5
  <1>7. (CHOOSE x \in coming : \A c \in coming : x <= c) = d
    BY <1>2, <1>5, <1>6
  <1>8. NextDailyStart(now) = d
    BY <1>2, <1>7 DEF NextDailyStart
  <1>9. IsReminderDue(d) /\ now < EndsAt
    BY <1>1, <1>3, Times DEF IsReminderDue
  <1> QED
    BY <1>1, <1>8, <1>9

LEMMA NextDayIsDay ==
    ASSUME NEW from, NextDailyStart(from) # 0
    PROVE  NextDailyStart(from) \in Days
  <1> DEFINE coming == {d \in Days : StartOf(d) >= from}
  <1>1. coming \in SUBSET Nat /\ coming # {}
    BY Times DEF NextDailyStart, Days
  <1>2. PICK d \in coming : \A c \in coming : d <= c
    BY <1>1, NatMin
  <1>3. (CHOOSE x \in coming : \A c \in coming : x <= c) \in coming
    BY <1>2
  <1> QED
    BY <1>1, <1>3 DEF NextDailyStart

LEMMA StartRemindersKeeps ==
    ASSUME MemberInv, StartReminders
    PROVE  /\ MemberInv'
           /\ OffBeat /\ ReminderInv => ReminderInv'
  <1> DEFINE n == NextDailyStart(now)
  <1>1. /\ SweepIsDue /\ listed = {} /\ swept' = swept + 1 /\ reminders' = reminders
        /\ listed' = IF Running /\ now < EndsAt /\ n # 0 /\ IsReminderDue(n)
                       THEN {<<u, n>> : u \in {v \in Members : IsMember(v)}} ELSE {}
        /\ UNCHANGED <<now, status, member, since, position, call, late>>
    BY DEF StartReminders, eventVars
  <1>2. /\ swept \in Nat /\ now \in Nat /\ NextSweep \in Nat /\ NextSweep' = NextSweep + TICK
        /\ NextSweep <= now
    BY <1>1, SweepTimes DEF MemberInv, MemberTypes, NextSweep, SweepIsDue
  <1>3. MemberInv'
    <2>1. listed' \subseteq Members \X Days
      BY <1>1, NextDayIsDay
    <2>2. MemberTypes'
      BY <1>1, <1>2, <2>1 DEF MemberInv, MemberTypes
    <2>3. PositionInv'
      BY <1>1 DEF MemberInv, PositionInv, Phase
    <2>4. SweepInv'
      BY <1>1, <1>2, Times DEF MemberInv, SweepInv, Running
    <2> QED
      BY <2>2, <2>3, <2>4 DEF MemberInv
  <1>4. ASSUME OffBeat, ReminderInv
        PROVE  ReminderInv'
    <2>1. RemindedOnce'
      BY <1>1, <1>4 DEF ReminderInv, RemindedOnce
    <2>2. ASSUME ~late', NEW u \in Members, NEW d \in Days, Due(u, d)'
          PROVE  <<u, d>> \in listed' \cup DOMAIN reminders'
      <3>1. /\ IsMember(u) /\ since[u] + DAY <= StartOf(d) /\ StartOf(d) <= NextSweep + DAY
            /\ StartOf(d) \in Nat
        BY <1>1, <1>2, <2>2, Starts, Times DEF Due, IsMember, StartOf
      <3>2. NextSweep = now
        BY <1>1, <1>2, <2>2 DEF MemberInv, SweepInv
      <3>3. CASE StartOf(d) + TICK <= NextSweep + DAY
        BY <1>1, <1>4, <2>2, <3>1, <3>3 DEF Due, ReminderInv
      <3>4. CASE ~(StartOf(d) + TICK <= NextSweep + DAY)
        <4>1. StartOf(d) <= now + DAY /\ now + DAY < StartOf(d) + TICK
          BY <1>2, <3>1, <3>2, <3>4, Times
        <4>2. now = swept * TICK
          BY <3>2 DEF NextSweep
        <4>3. n = d /\ d # 0 /\ IsReminderDue(d) /\ now < EndsAt
          BY <1>2, <1>4, <4>1, <4>2, NextInWindow
        <4>4. Running
          BY <4>3 DEF MemberInv, SweepInv
        <4> HIDE DEF n
        <4> QED
          BY <1>1, <3>1, <4>3, <4>4
      <3> QED
        BY <3>3, <3>4
    <2> QED
      BY <2>1, <2>2 DEF ReminderInv
  <1> QED
    BY <1>3, <1>4

LEMMA PassKeeps ==
    ASSUME MemberInv, Pass
    PROVE  MemberInv' /\ (ReminderInv => ReminderInv')
  <1>1. /\ ~MustSweep /\ now' = now + 1
        /\ now % TICK = 0 => ~TasksLeft
        /\ \A h \in Calls : call[h].op = "ping" => now < call[h].until
        /\ UNCHANGED <<status, member, since, position, call, swept, listed, reminders, late>>
    BY DEF Pass, eventVars, reminderVars
  <1>t. /\ now \in Nat /\ swept \in Nat /\ NextSweep \in Nat /\ NextSweep' = NextSweep
        /\ since \in [Members -> Nat] /\ position \in [Members -> Nat]
        /\ call \in [Calls -> CallRow]
    BY <1>1, SweepTimes DEF MemberInv, MemberTypes, NextSweep
  <1>2. MemberTypes'
    BY <1>1, <1>t DEF MemberInv, MemberTypes
  <1>3. SweepInv'
    <2>1. ~late' => now' <= NextSweep'
      BY <1>1, <1>t DEF MustSweep, NextSweep
    <2>2. swept' # 0 => NextSweep' <= now' + TICK
      BY <1>1, <1>t, Times DEF MemberInv, SweepInv
    <2>3. now' < EndsAt => Running'
      BY <1>1, <1>t, Times DEF MemberInv, SweepInv, Running
    <2> QED
      BY <2>1, <2>2, <2>3 DEF SweepInv
  <1>4. PositionInv'
    <2>1. Phase' \in 1 .. TICK /\ (now % TICK # 0 => Phase' = Phase + 1)
      <3>1. /\ now % TICK \in 0 .. TICK - 1
            /\ (now + 1) % TICK = IF now % TICK = TICK - 1 THEN 0 ELSE (now % TICK) + 1
        BY <1>t, NextMod, Times
      <3>2. Phase' = IF (now + 1) % TICK = 0 THEN TICK ELSE (now + 1) % TICK
        BY <1>1 DEF Phase
      <3>3. Phase = IF now % TICK = 0 THEN TICK ELSE now % TICK
        BY DEF Phase
      <3> DEFINE x == now % TICK
                 y == (now + 1) % TICK
      <3> HIDE DEF x, y
      <3>4. /\ x \in 0 .. TICK - 1 /\ y = IF x = TICK - 1 THEN 0 ELSE x + 1
            /\ Phase' = (IF y = 0 THEN TICK ELSE y) /\ Phase = (IF x = 0 THEN TICK ELSE x)
        BY <3>1, <3>2, <3>3 DEF x, y
      <3>5. Phase' \in 1 .. TICK /\ (x # 0 => Phase' = Phase + 1)
        BY <3>4, Times
      <3> QED
        BY <3>5 DEF x
    <2>2. \A u \in Members : position'[u] # 0 => now' <= position'[u] + Phase'
      <3> SUFFICES ASSUME NEW u \in Members, position[u] # 0
                   PROVE  now + 1 <= position[u] + Phase'
        BY <1>1
      <3>1. position[u] \in Nat /\ now <= position[u] + Phase /\ Phase \in 1 .. TICK /\ Phase' \in 1 .. TICK
        BY <1>t, <2>1, PhaseBounds DEF MemberInv, PositionInv
      <3>2. CASE now % TICK = 0
        <4>1. ~Expired(u)
          BY <1>1, <3>2 DEF TasksLeft
        <4>2. now <= position[u]
          BY <1>t, <3>1, <4>1 DEF Expired
        <4> QED
          BY <1>t, <3>1, <4>2, Times
      <3>3. CASE now % TICK # 0
        <4>1. Phase' = Phase + 1
          BY <2>1, <3>3
        <4> QED
          BY <1>t, <3>1, <4>1, Times
      <3> QED
        BY <3>2, <3>3
    <2>3. \A h \in Calls : call'[h].op = "ping" => now' <= call'[h].until
      BY <1>1, <1>t DEF CallRow
    <2> QED
      BY <2>2, <2>3 DEF PositionInv
  <1>5. ASSUME ReminderInv
        PROVE  ReminderInv'
    <2>1. \A u \in Members, d \in Days : Due(u, d)' => Due(u, d)
      BY <1>1 DEF Due, IsMember, NextSweep, StartOf
    <2> QED
      BY <1>1, <1>5, <2>1 DEF ReminderInv, RemindedOnce
  <1> QED
    BY <1>2, <1>3, <1>4, <1>5 DEF MemberInv

LEMMA MembershipStart ==
    ASSUME Init
    PROVE  MemberInv /\ ReminderInv
  <1>1. MemberTypes
    BY NoCallIs DEF Init, MemberTypes
  <1>2. PositionInv
    BY NoCallIs DEF Init, PositionInv
  <1>3. SweepInv
    BY SweepTimes, Times DEF Init, SweepInv, Running
  <1>4. ReminderInv
    BY DEF Init, ReminderInv, RemindedOnce, Due, IsMember
  <1> QED
    BY <1>1, <1>2, <1>3, <1>4 DEF MemberInv

LEMMA MembershipKept ==
    ASSUME MemberInv, [Next]_vars
    PROVE  /\ MemberInv'
           /\ OffBeat /\ ReminderInv => ReminderInv'
  <1>1. CASE Sweep
    BY <1>1, TaskKeeps, LifecycleKeeps, StartRemindersKeeps, AddReminderKeeps DEF Sweep
  <1>2. CASE \E h \in Calls : CallStep(h)
    BY <1>2, CallStepKeeps
  <1>3. CASE \E u \in Members : UserStep(u)
    BY <1>3, UserStepKeeps
  <1>4. CASE Pass
    BY <1>4, PassKeeps
  <1>5. CASE UNCHANGED vars
    <2>1. UNCHANGED <<now, status, member, since, position, call, swept, listed, reminders, late>>
      BY <1>5 DEF vars, eventVars, reminderVars
    <2>2. MemberInv'
      BY <2>1 DEF MemberInv, MemberTypes, PositionInv, Phase, SweepInv, Running, NextSweep
    <2>3. \A u \in Members, d \in Days : Due(u, d)' => Due(u, d)
      BY <2>1 DEF Due, IsMember, NextSweep, StartOf
    <2>4. ReminderInv => ReminderInv'
      BY <2>1, <2>3 DEF ReminderInv, RemindedOnce
    <2> QED
      BY <2>2, <2>4
  <1> QED
    BY <1>1, <1>2, <1>3, <1>4, <1>5 DEF Next

\* PositionsAreFresh: whatever members do, a stored position outlives its time by one sweep
\* interval at most.
THEOREM PositionsDoNotStay == Spec => []PositionsAreFresh
  <1>1. Init => MemberInv
    BY MembershipStart
  <1>2. MemberInv /\ [Next]_vars => MemberInv'
    BY MembershipKept
  <1>3. MemberInv => PositionsAreFresh
    <2> SUFFICES ASSUME MemberInv, NEW u \in Members, position[u] # 0
                 PROVE  now <= position[u] + TICK
      BY DEF PositionsAreFresh
    <2>1. /\ now \in Nat /\ position[u] \in Nat /\ Phase \in 1 .. TICK /\ now <= position[u] + Phase
      BY PhaseBounds DEF MemberInv, MemberTypes, PositionInv
    <2> QED
      BY <2>1, Times
  <1> QED
    BY <1>1, <1>2, <1>3, PTL DEF Spec

\* RemindedOnceADay: nobody is asked twice about a day, and when sweeps are on time everybody
\* is asked, provided that no reminder falls due on the very instant of a sweep.  (At such
\* an instant the day before is still the next to start, and the sweep passes the day over.)
THEOREM RemindersAreComplete ==
    ASSUME OffBeat
    PROVE  Spec => []RemindedOnceADay
  <1>1. Init => MemberInv /\ ReminderInv
    BY MembershipStart
  <1>2. MemberInv /\ ReminderInv /\ [Next]_vars => MemberInv' /\ ReminderInv'
    BY MembershipKept
  <1>3. MemberInv /\ ReminderInv => RemindedOnceADay
    <2> SUFFICES ASSUME MemberInv, ReminderInv
                 PROVE  RemindedOnceADay
      OBVIOUS
    <2>1. EveryDayReminded
      <3> SUFFICES ASSUME NEW u \in Members, NEW d \in Days, ~late, listed = {}, IsMember(u),
                          since[u] + DAY <= StartOf(d), StartOf(d) + TICK <= now + DAY
                   PROVE  <<u, d>> \in DOMAIN reminders
        BY DEF EveryDayReminded
      <3>1. /\ now \in Nat /\ NextSweep \in Nat /\ now <= NextSweep /\ StartOf(d) \in Nat
        BY SweepTimes, Starts DEF MemberInv, MemberTypes, SweepInv
      <3>2. Due(u, d)
        BY <3>1, Times DEF Due
      <3> QED
        BY <3>2 DEF ReminderInv
    <2> QED
      BY <2>1 DEF RemindedOnceADay, ReminderInv
  <1> QED
    BY <1>1, <1>2, <1>3, PTL DEF Spec

-----------------------------------------------------------------------------
(* Membership: the bounds of times and days *)

\* Help and positions end in time, reminders and refusals are of days of the event.
HelpRow == [on : BOOLEAN, until : 0 .. Never]
MemberBounds ==
    /\ now <= Horizon /\ status \in {"scheduled", "active", "completed"}
    /\ helping \in [Members -> HelpRow]
    /\ position \in [Members -> 0 .. Horizon + LocationTTL]
    /\ asking \in [Members -> BOOLEAN]
    /\ DOMAIN reminders \subseteq Members \X Days
    /\ declined \in [Members -> Days \cup {0}]
    /\ \A h \in Calls : /\ call[h].op = "help" => call[h].until <= Never
                        /\ call[h].op = "ping" => call[h].until <= Horizon + LocationTTL

LEMMA LatestDay ==
    ASSUME NEW S \in SUBSET Days, S # {}
    PROVE  (CHOOSE d \in S : \A c \in S : c <= d) \in S
  <1>1. S \in SUBSET (1 .. Horizon)
    BY DEF Days
  <1>2. Max(S) \in S /\ \A c \in S : Max(S) >= c
    BY <1>1, BoundedMax, Times
  <1>3. PICK d \in S : \A c \in S : c <= d
    BY <1>1, <1>2
  <1> QED
    BY <1>3

LEMMA HelpOff == [on |-> FALSE, until |-> 0] \in HelpRow
  BY Times DEF HelpRow

LEMMA LeavesIsBounded ==
    ASSUME MemberBounds, NEW u \in Members, Leaves(u)
    PROVE  /\ helping' \in [Members -> HelpRow]
           /\ position' \in [Members -> 0 .. Horizon + LocationTTL]
  <1>1. 0 \in 0 .. Horizon + LocationTTL
    BY Times
  <1> QED
    BY <1>1, HelpOff DEF MemberBounds, Leaves

\* A call begins with what it will write.
LEMMA CallIsBounded ==
    ASSUME MemberInv, MemberBounds, NEW h \in Calls, NEW op, NEW u, NEW until, Begin(h, op, u, until),
           op = "help" => until <= Never, op = "ping" => until <= Horizon + LocationTTL,
           UNCHANGED <<now, eventVars, reminderVars, declined, late>>
    PROVE  MemberBounds'
  <1> DEFINE c == [op |-> op, user |-> u, until |-> until]
  <1>1. c.op = op /\ c.until = until /\ call' = [call EXCEPT ![h] = c]
    BY DEF Begin
  <1> HIDE DEF c
  <1>2. /\ UNCHANGED <<now, status, helping, position, asking, reminders, declined>>
        /\ call \in [Calls -> CallRow]
    BY DEF eventVars, reminderVars, MemberInv, MemberTypes
  <1>3. ASSUME NEW g \in Calls
        PROVE  /\ call'[g].op = "help" => call'[g].until <= Never
               /\ call'[g].op = "ping" => call'[g].until <= Horizon + LocationTTL
    BY <1>1, <1>2 DEF MemberBounds
  <1> QED
    BY <1>2, <1>3 DEF MemberBounds

\* What the user's requests and the answers to them leave in bounds.
LEMMA CallStaysBounded ==
    ASSUME MemberInv, MemberBounds, call' = call \/ \E h \in Calls : Answered(h)
    PROVE  \A g \in Calls : /\ call'[g].op = "help" => call'[g].until <= Never
                            /\ call'[g].op = "ping" => call'[g].until <= Horizon + LocationTTL
  <1>1. call \in [Calls -> CallRow]
    BY DEF MemberInv, MemberTypes
  <1> QED
    BY <1>1, NoCallIs DEF MemberBounds, Answered

LEMMA BoundsKept ==
    ASSUME EndsAt <= Never, MemberInv, MemberBounds, [Next]_vars
    PROVE  MemberBounds'
  <1>t. /\ now \in Nat /\ call \in [Calls -> CallRow]
        /\ \A h \in Calls : call[h].op # "none" => call[h].user \in Members
        /\ listed \subseteq Members \X Days
    BY DEF MemberInv, MemberTypes
  <1>1. CASE PurgeLocations \/ ExpireAvailability
    <2>1. UNCHANGED <<now, status, asking, reminders, declined, call>>
      BY <1>1 DEF PurgeLocations, ExpireAvailability, reminderVars
    <2>2. helping' \in [Members -> HelpRow]
      BY <1>1 DEF PurgeLocations, ExpireAvailability, MemberBounds, HelpRow
    <2>3. position' \in [Members -> 0 .. Horizon + LocationTTL]
      BY <1>1, Times DEF PurgeLocations, ExpireAvailability, MemberBounds
    <2> QED
      BY <2>1, <2>2, <2>3 DEF MemberBounds
  <1>2. CASE EventLifecycle
    <2>1. UNCHANGED <<now, asking, position, reminders, declined, call>>
      BY <1>2 DEF EventLifecycle, reminderVars
    <2>2. status' \in {"scheduled", "active", "completed"}
      BY <1>2 DEF EventLifecycle, LifecycleStatus, MemberBounds
    <2>3. helping' \in [Members -> HelpRow]
      BY <1>2 DEF EventLifecycle, MemberBounds, HelpRow
    <2> QED
      BY <2>1, <2>2, <2>3 DEF MemberBounds
  <1>3. CASE StartReminders
    BY <1>3 DEF StartReminders, eventVars, MemberBounds
  <1>4. ASSUME NEW m \in listed, AddReminder(m[1], m[2])
        PROVE  MemberBounds'
    <2>1. UNCHANGED <<now, eventVars, call, declined>> /\ <<m[1], m[2]>> \in Members \X Days
      BY <1>t, <1>4 DEF AddReminder
    <2>2. DOMAIN reminders' \subseteq Members \X Days
      BY <1>4, <2>1 DEF AddReminder, MemberBounds
    <2> QED
      BY <2>1, <2>2 DEF MemberBounds, eventVars
  <1>5. ASSUME NEW h \in Calls, CallStep(h)
        PROVE  MemberBounds'
    <2>1. /\ Answered(h) /\ UNCHANGED <<now, status, asking, reminders>>
          /\ call[h].user \in Members
      BY <1>t, <1>5 DEF CallStep, Join, SetHelping, PutLocation, reminderVars
    <2>2. declined' \in [Members -> Days \cup {0}]
      BY <1>5, <2>1 DEF CallStep, Join, SetHelping, PutLocation, MemberBounds
    <2>3. helping' \in [Members -> HelpRow]
      <3>1. CASE SetHelping(h)
        <4>1. [on |-> TRUE, until |-> call[h].until] \in HelpRow
          BY <1>t, <3>1 DEF SetHelping, MemberBounds, HelpRow, CallRow
        <4> QED
          BY <2>1, <3>1, <4>1 DEF SetHelping, MemberBounds
      <3>2. CASE Join(h) \/ PutLocation(h)
        BY <3>2 DEF Join, PutLocation, MemberBounds
      <3> QED
        BY <1>5, <3>1, <3>2 DEF CallStep
    <2>4. position' \in [Members -> 0 .. Horizon + LocationTTL]
      <3>1. CASE PutLocation(h)
        <4>1. call[h].until \in 0 .. Horizon + LocationTTL
          BY <1>t, <3>1, Times DEF PutLocation, MemberBounds, CallRow
        <4> QED
          BY <2>1, <3>1, <4>1 DEF PutLocation, MemberBounds
      <3>2. CASE Join(h) \/ SetHelping(h)
        BY <3>2 DEF Join, SetHelping, MemberBounds
      <3> QED
        BY <1>5, <3>1, <3>2 DEF CallStep
    <2>5. \A g \in Calls : /\ call'[g].op = "help" => call'[g].until <= Never
                           /\ call'[g].op = "ping" => call'[g].until <= Horizon + LocationTTL
      BY <2>1, CallStaysBounded
    <2> QED
      BY <2>1, <2>2, <2>3, <2>4, <2>5 DEF MemberBounds
  <1>6. ASSUME NEW u \in Members, UserStep(u)
        PROVE  MemberBounds'
    <2>1. ASSUME NEW h \in Calls, StartJoin(h, u)
          PROVE  MemberBounds'
      <3> DEFINE op == IF member[u] = "in" THEN "none" ELSE "join"
                 v == IF member[u] = "in" THEN NoMember ELSE u
      <3>1. op # "help" /\ op # "ping"
        OBVIOUS
      <3>2. Begin(h, op, v, 0) /\ UNCHANGED <<now, eventVars, reminderVars, declined, late>>
        BY <2>1 DEF StartJoin
      <3> HIDE DEF op, v
      <3> QED
        BY <3>1, <3>2, CallIsBounded
    <2>2. ASSUME NEW h \in Calls, StartPing(h, u)
          PROVE  MemberBounds'
      <3>1. now + LocationTTL <= Horizon + LocationTTL
        BY <1>t, Times DEF MemberBounds
      <3>2. /\ Begin(h, "ping", u, now + LocationTTL)
            /\ UNCHANGED <<now, eventVars, reminderVars, declined, late>>
        BY <2>2 DEF StartPing
      <3> QED
        BY <3>1, <3>2, CallIsBounded
    <2>3. ASSUME NEW h \in Calls, NEW until \in {now + TICK, EndsAt, Never}, StartHelping(h, u, until)
          PROVE  MemberBounds'
      <3>1. until <= Never
        BY <1>t, Times DEF MemberBounds, Never
      <3>2. /\ Begin(h, "help", u, until)
            /\ UNCHANGED <<now, eventVars, reminderVars, declined, late>>
        BY <2>3 DEF StartHelping
      <3> QED
        BY <3>1, <3>2, CallIsBounded
    <2>4. CASE LeaveEvent(u) \/ StopHelping(u) \/ DeleteLocation(u) \/ Ask(u)
               \/ \E attending \in BOOLEAN : AnswerAttendance(u, attending)
      <3>1. UNCHANGED <<now, status, reminders, call>>
        BY <2>4 DEF LeaveEvent, StopHelping, DeleteLocation, Ask, AnswerAttendance, reminderVars
      <3>2. asking' \in [Members -> BOOLEAN]
        BY <2>4 DEF LeaveEvent, StopHelping, DeleteLocation, Ask, AnswerAttendance, MemberBounds
      <3>3. declined' \in [Members -> Days \cup {0}]
        <4>1. ASSUME NEW attending \in BOOLEAN, AnswerAttendance(u, attending)
              PROVE  declined' \in [Members -> Days \cup {0}]
          <5> DEFINE asked == {d \in Days : <<u, d>> \in DOMAIN reminders}
                     latest == IF asked = {} THEN 0 ELSE CHOOSE d \in asked : \A c \in asked : c <= d
          <5>1. latest \in Days \cup {0}
            BY LatestDay
          <5>2. declined' = IF attending THEN declined ELSE [declined EXCEPT ![u] = latest]
            BY <4>1 DEF AnswerAttendance
          <5> HIDE DEF latest
          <5> QED
            BY <5>1, <5>2 DEF MemberBounds
        <4>2. CASE LeaveEvent(u) \/ StopHelping(u) \/ DeleteLocation(u) \/ Ask(u)
          BY <4>2 DEF LeaveEvent, StopHelping, DeleteLocation, Ask, MemberBounds
        <4> QED
          BY <2>4, <4>1, <4>2
      <3>4. /\ helping' \in [Members -> HelpRow]
            /\ position' \in [Members -> 0 .. Horizon + LocationTTL]
        <4>1. CASE Leaves(u)
          BY <4>1, LeavesIsBounded
        <4>2. CASE UNCHANGED <<helping, position>>
          BY <4>2 DEF MemberBounds
        <4>3. CASE StopHelping(u) \/ DeleteLocation(u)
          <5>1. /\ helping' = helping \/ helping' = [helping EXCEPT ![u] = [on |-> FALSE, until |-> 0]]
                /\ position' = position \/ position' = [position EXCEPT ![u] = 0]
            BY <4>3 DEF StopHelping, DeleteLocation
          <5>2. 0 \in 0 .. Horizon + LocationTTL
            BY Times
          <5>3. helping' \in [Members -> HelpRow]
            BY <5>1, HelpOff DEF MemberBounds
          <5>4. position' \in [Members -> 0 .. Horizon + LocationTTL]
            BY <5>1, <5>2 DEF MemberBounds
          <5> QED
            BY <5>3, <5>4
        <4> QED
          BY <2>4, <4>1, <4>2, <4>3 DEF LeaveEvent, Ask, AnswerAttendance
      <3> QED
        BY <3>1, <3>2, <3>3, <3>4 DEF MemberBounds
    <2> QED
      BY <1>6, <2>1, <2>2, <2>3, <2>4 DEF UserStep
  <1>7. CASE Pass
    BY <1>t, <1>7, Times DEF Pass, eventVars, reminderVars, MemberBounds
  <1>8. CASE UNCHANGED vars
    BY <1>8 DEF vars, eventVars, reminderVars, MemberBounds
  <1> QED
    BY <1>1, <1>2, <1>3, <1>4, <1>5, <1>6, <1>7, <1>8 DEF Next, Sweep

\* MembershipTypeOK: whatever overlaps, a position row keeps a time to end, and reminders and
\* refusals name days of the event.  An event that ends within the time considered.
THEOREM MembershipIsTyped ==
    ASSUME EndsAt <= Never
    PROVE  Spec => []MembershipTypeOK
  <1>1. Init => MemberInv /\ MemberBounds
    <2> SUFFICES ASSUME Init PROVE MemberInv /\ MemberBounds
      OBVIOUS
    <2>1. MemberInv
      BY MembershipStart
    <2>2. MemberBounds
      BY HelpOff, NoCallIs, Times DEF Init, MemberBounds
    <2> QED
      BY <2>1, <2>2
  <1>2. MemberInv /\ MemberBounds /\ [Next]_vars => MemberInv' /\ MemberBounds'
    BY MembershipKept, BoundsKept
  <1>3. MemberInv /\ MemberBounds => MembershipTypeOK
    <2> SUFFICES ASSUME MemberInv, MemberBounds PROVE MembershipTypeOK
      OBVIOUS
    <2>1. now \in 0 .. Horizon
      BY Times DEF MemberInv, MemberTypes, MemberBounds
    <2>2. since \in [Members -> 0 .. Horizon]
      BY <2>1, Times DEF MemberInv, MemberTypes
    <2>3. \A u \in Members : helping[u].on \in BOOLEAN /\ helping[u].until \in 0 .. Never
      BY DEF MemberBounds, HelpRow
    <2>4. /\ status \in {"scheduled", "active", "completed"} /\ asking \in [Members -> BOOLEAN]
          /\ \A u \in Members : position[u] \in 0 .. Horizon + LocationTTL
          /\ DOMAIN reminders \subseteq Members \X Days /\ declined \in [Members -> Days \cup {0}]
      BY DEF MemberBounds
    <2>5. member \in [Members -> {"never", "in", "left"}] /\ listed \subseteq Members \X Days
      BY DEF MemberInv, MemberTypes
    <2> QED
      BY <2>1, <2>2, <2>3, <2>4, <2>5 DEF MembershipTypeOK
  <1> QED
    BY <1>1, <1>2, <1>3, PTL DEF Spec

\* PeopleTypeOK: accounts, sanctions and taking part in an event, each beside the others.
THEOREM PeopleAreTyped ==
    ASSUME EndsAt <= Never
    PROVE  TakingPartSpec => []PeopleTypeOK
  <1>1. AccountsTypeOK /\ MembershipTypeOK => PeopleTypeOK
    BY DEF PeopleTypeOK
  <1>2. Spec => []MembershipTypeOK
    BY MembershipIsTyped
  <1> QED
    BY <1>1, <1>2, AccountTypes, PTL DEF TakingPartSpec

=============================================================================
