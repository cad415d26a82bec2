--------------------------- MODULE AccountsProofs ---------------------------
(***************************************************************************)
(* Proofs about the rows of people: the users' rows with the suspension    *)
(* cache before them (Accounts), what a game keeps of its players while    *)
(* they are purged (StudioData), the seeds among them (Sandbox), a session *)
(* in a browser (WebSession) and those who administer all (AdminDesk).     *)
(*                                                                         *)
(* For any number of instances, requests, administrators and calls, and    *)
(* whatever the lifetime of an entry and the lag of a request are: a wrong *)
(* answer is never given TTL + Lag or more ticks after the user row        *)
(* changed, with the cache alone and with every other writer of the row    *)
(* beside it; which calls may lift a suspension; and which may bring back  *)
(* what was erased.  For any number of visits, nonces and transactions: a  *)
(* nonce, a player and an event are each of one visit, and a purge that    *)
(* nobody races does not fail.  A clear of the sandbox takes the seeds and *)
(* nothing else; the pieces of a browser's session name one user and one   *)
(* studio; and the last administrator goes only by a race, by an erasure   *)
(* or by a token that outlived the office.                                 *)
(***************************************************************************)
EXTENDS Accounts, StudioData, Sandbox, AdminDesk, FiniteSetTheorems,
        SequenceTheorems, TLAPS

(***************************************************************************)
(* The suspension cache.                                                   *)
(***************************************************************************)
\* A cached entry that contradicts the user row was stored at most Lag ticks
\* after the row changed, so what is left of its life is bounded; what a
\* request still holds is at most as old as its read.
StaleIsBounded ==
    /\ \A i \in Instance :
        ttl[i] > 0 /\ cached[i] # isSuspended => age + ttl[i] <= TTL + Lag
    /\ \A r \in Request :
        pc[r] = "read" /\ copy[r] # isSuspended => age <= lag[r]

IInv == TypeOK /\ StaleIsBounded

USE SuspensionCacheAssumption

LEMMA InitIInv == Init => IInv
<1>. SUFFICES ASSUME Init
              PROVE  IInv
  OBVIOUS
<1>1. age \in 0..(TTL + Lag) /\ ttl \in [Instance -> 0..TTL]
      /\ lag \in [Request -> 0..Lag]
  BY DEF Init
<1>2. call \in [Call -> SUBSET Instance] /\ pc \in [Request -> Step]
  BY DEF Init, Step
<1>3. TypeOK
  BY <1>1, <1>2 DEF Init, TypeOK
<1>4. StaleIsBounded
  BY DEF Init, StaleIsBounded
<1>. QED
  BY <1>3, <1>4 DEF IInv

LEMMA ReceiveIInv ==
    ASSUME IInv, NEW r \in Request, NEW i \in Instance, Receive(r, i)
    PROVE  IInv'
  BY DEF IInv, TypeOK, StaleIsBounded, Receive, Step, userVars, cacheVars

LEMMA HitIInv ==
    ASSUME IInv, NEW r \in Request, Hit(r)
    PROVE  IInv'
  BY DEF IInv, TypeOK, StaleIsBounded, Hit, Step, userVars, cacheVars

LEMMA MissIInv ==
    ASSUME IInv, NEW r \in Request, Miss(r)
    PROVE  IInv'
  BY DEF IInv, TypeOK, StaleIsBounded, Miss, Step, userVars, cacheVars

LEMMA ReadUserIInv ==
    ASSUME IInv, NEW r \in Request, ReadUser(r)
    PROVE  IInv'
  BY DEF IInv, TypeOK, StaleIsBounded, ReadUser, Step, userVars, cacheVars

\* The store turns the age of the copy into the age of an entry.
LEMMA StoreIInv ==
    ASSUME IInv, NEW r \in Request, Store(r)
    PROVE  IInv'
<1>1. copy[r] # isSuspended => age <= Lag
  BY DEF IInv, TypeOK, StaleIsBounded, Store
<1>2. TypeOK'
  BY DEF IInv, TypeOK, Store, Step, userVars
<1>3. ASSUME NEW i \in Instance, ttl'[i] > 0, cached'[i] # isSuspended'
      PROVE  age' + ttl'[i] <= TTL + Lag
  BY <1>1, <1>3 DEF IInv, TypeOK, StaleIsBounded, Store, userVars
<1>4. ASSUME NEW q \in Request, pc'[q] = "read", copy'[q] # isSuspended'
      PROVE  age' <= lag'[q]
  BY <1>4 DEF IInv, TypeOK, StaleIsBounded, Store, userVars
<1>. QED
  BY <1>2, <1>3, <1>4 DEF IInv, StaleIsBounded

\* Whoever changes the flag starts its age anew: no entry lives longer than
\* TTL from now on.
LEMMA ChangeIInv ==
    ASSUME IInv, NEW suspended \in BOOLEAN, Change(suspended),
           call' \in [Call -> SUBSET Instance], UNCHANGED <<cacheVars, reqVars>>
    PROVE  IInv'
  BY DEF IInv, TypeOK, StaleIsBounded, Change, Step, cacheVars, reqVars

LEMMA InvalidateIInv ==
    ASSUME IInv, NEW c \in Call, Invalidate(c)
    PROVE  IInv'
<1>1. PICK i \in call[c] : ttl' = [ttl EXCEPT ![i] = 0]
  BY DEF Invalidate
<1>2. TypeOK'
  BY <1>1 DEF IInv, TypeOK, Invalidate, userVars, reqVars
<1>3. StaleIsBounded'
  BY <1>1 DEF IInv, TypeOK, StaleIsBounded, Invalidate, userVars, reqVars
<1>. QED
  BY <1>2, <1>3 DEF IInv

\* A tick takes from an entry's life what it adds to the row's age.
LEMMA TickIInv ==
    ASSUME IInv, Tick
    PROVE  IInv'
<1>1. TypeOK'
  BY DEF IInv, TypeOK, Tick, Expire
<1>2. age' <= age + 1 /\ age \in Nat /\ age' \in Nat
  BY DEF IInv, TypeOK, Tick
<1>3. ASSUME NEW i \in Instance, ttl'[i] > 0, cached'[i] # isSuspended'
      PROVE  age' + ttl'[i] <= TTL + Lag
  <2>1. ttl[i] \in Nat /\ ttl[i] > 0 /\ ttl'[i] = ttl[i] - 1
    BY <1>3 DEF IInv, TypeOK, Tick, Expire
  <2>2. age + ttl[i] <= TTL + Lag
    BY <1>3, <2>1 DEF IInv, StaleIsBounded, Tick
  <2>. QED
    BY <1>2, <2>1, <2>2
<1>4. ASSUME NEW r \in Request, pc'[r] = "read", copy'[r] # isSuspended'
      PROVE  age' <= lag'[r]
  <2>1. age <= lag[r] /\ lag[r] \in Nat
    BY <1>4 DEF IInv, TypeOK, StaleIsBounded, Tick
  <2>2. lag'[r] = lag[r] + 1
    BY <1>4 DEF Tick
  <2>. QED
    BY <1>2, <2>1, <2>2
<1>. QED
  BY <1>1, <1>3, <1>4 DEF IInv, StaleIsBounded

LEMMA NextIInv == IInv /\ [Next]_vars => IInv'
<1>. SUFFICES ASSUME IInv, [Next]_vars
              PROVE  IInv'
  OBVIOUS
<1>1. ASSUME NEW r \in Request, RequestStep(r)
      PROVE  IInv'
  BY <1>1, ReceiveIInv, HitIInv, MissIInv, ReadUserIInv, StoreIInv DEF RequestStep
<1>2. ASSUME NEW c \in Call, CallStep(c)
      PROVE  IInv'
  <2>1. ASSUME NEW i \in Instance, NEW suspended \in BOOLEAN,
               SetUserSuspended(c, i, suspended)
        PROVE  IInv'
    <3>1. call' \in [Call -> SUBSET Instance]
      BY <2>1 DEF IInv, TypeOK, SetUserSuspended
    <3>. QED
      BY <2>1, <3>1, ChangeIInv DEF SetUserSuspended
  <2>. QED
    BY <1>2, <2>1, InvalidateIInv DEF CallStep
<1>3. ASSUME NEW suspended \in BOOLEAN, Anonymize(suspended)
      PROVE  IInv'
  BY <1>3, ChangeIInv DEF Anonymize, IInv, TypeOK
<1>4. CASE Tick
  BY <1>4, TickIInv
<1>5. CASE UNCHANGED vars
  BY <1>5 DEF IInv, TypeOK, StaleIsBounded, vars, userVars, cacheVars, reqVars
<1>. QED
  BY <1>1, <1>2, <1>3, <1>4, <1>5 DEF Next

LEMMA Invariance == Spec => []IInv
  BY InitIInv, NextIInv, PTL DEF Spec

(***************************************************************************)
(* The flag, its copies in the caches and in the requests, and every       *)
(* program counter stay in their domains.                                  *)
(***************************************************************************)
THEOREM TypeCorrect == Spec => []TypeOK
<1>1. IInv => TypeOK
  BY DEF IInv
<1>. QED
  BY <1>1, Invariance, PTL

\* Only a hit and a store answer a request.
LEMMA AnswersAreRecent ==
    ASSUME IInv, [Next]_vars, NEW r \in Request,
           Answered(r), copy'[r] # isSuspended
    PROVE  age < TTL + Lag
<1>. pc[r] \in Step /\ age \in Nat /\ ttl \in [Instance -> 0..TTL]
     /\ at \in [Request -> Instance] /\ lag \in [Request -> 0..Lag]
     /\ pc \in [Request -> Step] /\ copy \in [Request -> BOOLEAN]
  BY DEF IInv, TypeOK
<1>1. CASE Hit(r)
  BY <1>1 DEF IInv, StaleIsBounded, Hit
<1>2. CASE Store(r)
  BY <1>2 DEF IInv, StaleIsBounded, Store
<1>3. CASE ~Hit(r) /\ ~Store(r)
  <2>1. pc'[r] # "done" \/ pc'[r] = pc[r]
    <3>1. ASSUME NEW q \in Request, RequestStep(q)
          PROVE  pc'[r] # "done" \/ pc'[r] = pc[r]
      BY <1>3, <3>1
         DEF RequestStep, Receive, Hit, Miss, ReadUser, Store
    <3>2. ASSUME NEW c \in Call, CallStep(c)
          PROVE  pc'[r] = pc[r]
      BY <3>2 DEF CallStep, SetUserSuspended, Invalidate, reqVars
    <3>3. (\E suspended \in BOOLEAN : Anonymize(suspended)) => pc'[r] = pc[r]
      BY DEF Anonymize, reqVars
    <3>4. Tick => pc'[r] = pc[r]
      BY DEF Tick
    <3>5. UNCHANGED vars => pc'[r] = pc[r]
      BY DEF vars, reqVars
    <3>. QED
      BY <3>1, <3>2, <3>3, <3>4, <3>5 DEF Next
  <2>. QED
    BY <2>1 DEF Answered
<1>. QED
  BY <1>1, <1>2, <1>3

(***************************************************************************)
(* A request is answered against the user row only less than TTL + Lag     *)
(* ticks after the row changed: copies are only ever made from the row,    *)
(* never from another copy, and none is renewed by being used.             *)
(***************************************************************************)
THEOREM WrongAnswersExpire == Spec => WrongAnswersAreRecent
<1>1. IInv /\ [Next]_vars =>
        [\A r \in Request :
            Answered(r) /\ copy'[r] # isSuspended => age < TTL + Lag]_vars
  BY AnswersAreRecent
<1>. QED
  BY <1>1, Invariance, PTL DEF Spec, WrongAnswersAreRecent

-----------------------------------------------------------------------------
(***************************************************************************)
(* The user row and all its writers.                                       *)
(***************************************************************************)
Row == [email : {"none", "own", "placeholder"}, wallet : {"none", "own", "zero"},
        tin : BOOLEAN, verified : BOOLEAN,
        lastLogin : {"never", "recent", "old"}, created : {"recent", "old"}]

Loaded == {t \in Task : task[t].op \in {"login", "link"}}

\* A login is no older than the account.
Plausible(u) == u.lastLogin = "old" => u.created = "old"

\* A call loaded the row when it was the user's own, and no year has passed
\* since; the job holds an account that is old.
AccountsInv ==
    /\ row \in Row /\ Plausible(row)
    /\ job = "found" => row.email # "none" /\ row.created = "old"
    /\ DOMAIN task = Task
    /\ \A t \in Task : task[t].op \in {"idle", "signup", "login", "link"}
    /\ \A t \in Loaded :
        /\ task[t].row \in Row /\ Plausible(task[t].row)
        /\ task[t].suspended \in BOOLEAN
        /\ task[t].row.created = row.created
        /\ task[t].row.email = "own" /\ row.email # "none"

BothInv == IInv /\ AccountsInv

LEMMA AccountsInitInv == AccountsInit => BothInv
<1>. SUFFICES ASSUME AccountsInit
              PROVE  BothInv
  OBVIOUS
<1>1. IInv
  BY InitIInv DEF AccountsInit
<1>2. AccountsInv
  BY DEF AccountsInit, AccountsInv, NoRow, Row, Plausible, Loaded, Idle
<1>. QED
  BY <1>1, <1>2 DEF BothInv

\* What happens to the flag and the caches is a step of SuspensionCache.
LEMMA StepsOfTheCache ==
    ASSUME BothInv, [AccountsNext]_allVars
    PROVE  [Next]_vars
<1>1. ASSUME NEW t \in Task, TaskStep(t)
      PROVE  [Next]_vars
  <2>1. CASE LinkSave(t)
    <3>1. task[t].suspended \in BOOLEAN
      BY <2>1 DEF LinkSave, BothInv, AccountsInv, Loaded
    <3>. QED
      BY <2>1, <3>1 DEF LinkSave, Next
  <2>. QED
    BY <1>1, <2>1 DEF TaskStep, SignupFind, SignupInsert, LoginRead, LoginFinish, LinkRead
<1>2. ASSUME NEW r \in Request, Receives(r) \/ Looks(r) \/ Answers(r)
      PROVE  [Next]_vars
  BY <1>2 DEF Receives, Looks, Answers, Next, RequestStep
<1>3. ASSUME NEW c \in Call, NEW suspended \in BOOLEAN, Suspends(c, suspended)
      PROVE  [Next]_vars
  BY <1>3 DEF Suspends, Next, CallStep
<1>4. CASE DeleteUser
  BY <1>4 DEF DeleteUser, Next
<1>5. CASE JobDecide
  BY <1>5 DEF JobDecide, Next
<1>6. CASE CacheStep
  BY <1>6 DEF CacheStep, Next, CallStep
<1>7. CASE WalletSignup \/ JobFind \/ TokenEnds \/ TaxEvent \/ YearsPass
  BY <1>7 DEF WalletSignup, JobFind, TokenEnds, TaxEvent, YearsPass
<1>8. CASE \E verified, withTin \in BOOLEAN : KycWebhook(verified, withTin)
  BY <1>8 DEF KycWebhook
<1>9. CASE UNCHANGED allVars
  BY <1>9 DEF allVars
<1>. QED
  BY <1>1, <1>2, <1>3, <1>4, <1>5, <1>6, <1>7, <1>8, <1>9 DEF AccountsNext

LEMMA TaskInv ==
    ASSUME BothInv, NEW t \in Task, TaskStep(t)
    PROVE  AccountsInv'
<1>. AccountsInv /\ isSuspended \in BOOLEAN
  BY DEF BothInv, IInv, TypeOK
<1>1. CASE SignupFind(t)
  BY <1>1 DEF SignupFind, Begin, AccountsInv, Loaded
<1>2. CASE SignupInsert(t)
  <2>1. row' \in Row /\ Plausible(row') /\ (row.email # "none" => row' = row)
        /\ job' = job /\ task' = [task EXCEPT ![t] = Idle]
    BY <1>2 DEF SignupInsert, End, RowOf, NoRow, Row, Plausible, AccountsInv
  <2>. QED
    BY <2>1 DEF AccountsInv, Loaded, Idle
<1>3. CASE LoginRead(t) \/ LinkRead(t)
  <2>1. PICK o \in {"login", "link"} :
          /\ row.email = "own"
          /\ task' = [task EXCEPT ![t] =
                  [op |-> o, row |-> row, suspended |-> isSuspended]]
          /\ UNCHANGED <<row, job>>
    BY <1>3 DEF LoginRead, LinkRead, Begin
  <2>. QED
    BY <2>1 DEF AccountsInv, Loaded
<1>4. CASE LoginFinish(t)
  <2>1. row' \in Row /\ Plausible(row') /\ row'.created = row.created
        /\ row'.email = row.email
        /\ job' = job /\ task' = [task EXCEPT ![t] = Idle]
    BY <1>4 DEF LoginFinish, End, Row, Plausible, AccountsInv
  <2>. QED
    BY <2>1 DEF AccountsInv, Loaded, Idle
<1>5. CASE LinkSave(t)
  <2>1. row' \in Row /\ Plausible(row') /\ row'.created = row.created
        /\ row'.email = "own"
        /\ job' = job /\ task' = [task EXCEPT ![t] = Idle]
    BY <1>5 DEF LinkSave, End, Loaded, AccountsInv
  <2>. QED
    BY <2>1 DEF AccountsInv, Loaded, Idle
<1>. QED
  BY <1>1, <1>2, <1>3, <1>4, <1>5 DEF TaskStep

\* The columns nobody but a signup, a login and the years change.
LEMMA RowChanges ==
    ASSUME AccountsInv, row' \in Row, row'.created = row.created,
           row'.lastLogin \in {row.lastLogin, "never"},
           row.email # "none" => row'.email # "none",
           UNCHANGED <<task, job>>
    PROVE  AccountsInv'
  BY DEF AccountsInv, Loaded, Plausible

LEMMA RequestInv ==
    ASSUME AccountsInv, NEW r \in Request, Receives(r) \/ Looks(r) \/ Answers(r)
    PROVE  AccountsInv'
<1>1. row \in Row
  BY DEF AccountsInv
<1>2. UNCHANGED <<task, job>>
      /\ row' \in {row, [row EXCEPT !.tin = TRUE], [row EXCEPT !.verified = TRUE]}
  BY DEF Receives, Looks, Answers, accountVars, UpdateTin, InitiateKyc, SelectStudio
<1>3. row' \in Row /\ row'.created = row.created /\ row'.lastLogin = row.lastLogin
      /\ row'.email = row.email
  BY <1>1, <1>2 DEF Row
<1>. QED
  BY <1>2, <1>3, RowChanges

LEMMA OthersInv ==
    ASSUME BothInv,
           \/ WalletSignup
           \/ \E verified, withTin \in BOOLEAN : KycWebhook(verified, withTin)
           \/ \E c \in Call, suspended \in BOOLEAN : Suspends(c, suspended)
           \/ DeleteUser
           \/ JobFind \/ JobDecide
           \/ TokenEnds \/ TaxEvent \/ YearsPass \/ CacheStep
    PROVE  AccountsInv'
<1>. AccountsInv
  BY DEF BothInv
<1>. row \in Row
  BY DEF AccountsInv
<1>1. CASE WalletSignup
  <2>1. row' \in Row /\ Plausible(row')
    BY <1>1 DEF WalletSignup, RowOf, NoRow, Row, Plausible
  <2>. QED
    BY <1>1, <2>1 DEF WalletSignup, AccountsInv, Loaded
<1>2. ASSUME NEW verified \in BOOLEAN, NEW withTin \in BOOLEAN, KycWebhook(verified, withTin)
      PROVE  AccountsInv'
  <2>1. row' \in Row /\ row'.created = row.created /\ row'.lastLogin = row.lastLogin
        /\ row'.email = row.email
    BY <1>2 DEF KycWebhook, Row
  <2>. QED
    BY <1>2, <2>1, RowChanges DEF KycWebhook
<1>3. CASE DeleteUser
  <2>1. row' \in Row /\ row'.created = row.created /\ row'.lastLogin = row.lastLogin
        /\ row'.email # "none"
    BY <1>3 DEF DeleteUser, Row
  <2>. QED
    BY <1>3, <2>1, RowChanges DEF DeleteUser, AccountsInv, Loaded
<1>4. CASE JobFind
  BY <1>4 DEF JobFind, IsCandidate, AccountsInv, Loaded, Plausible
<1>5. CASE JobDecide
  <2>1. row' = row \/ (row' \in Row /\ row'.created = row.created
                       /\ row'.lastLogin = "never" /\ row'.email = "placeholder")
    BY <1>5 DEF JobDecide, AnonymizedRow, Row
  <2>2. task' = task /\ job' = "idle"
    BY <1>5 DEF JobDecide
  <2>. QED
    BY <2>1, <2>2 DEF AccountsInv, Loaded, Plausible
<1>6. CASE YearsPass
  <2>1. row' \in Row /\ Plausible(row') /\ row'.email = row.email
    BY <1>6 DEF YearsPass, Row, Plausible
  <2>2. task' = task /\ job' = "idle" /\ Loaded = {}
    BY <1>6 DEF YearsPass, Loaded, Idle
  <2>. QED
    BY <2>1, <2>2 DEF AccountsInv, Loaded
<1>7. CASE \/ \E c \in Call, suspended \in BOOLEAN : Suspends(c, suspended)
           \/ TokenEnds \/ TaxEvent \/ CacheStep
  <2>1. UNCHANGED <<row, task, job>>
    BY <1>7 DEF Suspends, TokenEnds, TaxEvent, CacheStep, accountVars
  <2>. QED
    BY <2>1 DEF AccountsInv, Loaded
<1>. QED
  BY <1>1, <1>2, <1>3, <1>4, <1>5, <1>6, <1>7

LEMMA AccountsNextInv == BothInv /\ [AccountsNext]_allVars => BothInv'
<1>. SUFFICES ASSUME BothInv, [AccountsNext]_allVars
              PROVE  BothInv'
  OBVIOUS
<1>1. IInv'
  BY StepsOfTheCache, NextIInv DEF BothInv
<1>2. AccountsInv'
  <2>1. CASE UNCHANGED allVars
    BY <2>1 DEF allVars, accountVars, BothInv, AccountsInv, Loaded
  <2>. QED
    BY <2>1, TaskInv, RequestInv, OthersInv DEF AccountsNext, BothInv
<1>. QED
  BY <1>1, <1>2 DEF BothInv

LEMMA AccountsInvariance == AccountsSpec => []BothInv
  BY AccountsInitInv, AccountsNextInv, PTL DEF AccountsSpec
-----------------------------------------------------------------------------
(***************************************************************************)
(* WrongAnswersAreRecent of SuspensionCache, with every handler that       *)
(* writes the user row running beside it.                                  *)
(***************************************************************************)
THEOREM AccountsAnswerAsTheCache == AccountsSpec => WrongAnswersAreRecent
<1>1. BothInv /\ [AccountsNext]_allVars =>
        [\A r \in Request :
            Answered(r) /\ copy'[r] # isSuspended => age < TTL + Lag]_vars
  <2>. SUFFICES ASSUME BothInv, [AccountsNext]_allVars, NEW r \in Request,
                       Answered(r), copy'[r] # isSuspended
                PROVE  age < TTL + Lag
    OBVIOUS
  <2>. QED
    BY StepsOfTheCache, AnswersAreRecent DEF BothInv
<1>. QED
  BY <1>1, AccountsInvariance, PTL DEF AccountsSpec, WrongAnswersAreRecent

\* Only three kinds of calls write the flag.
LEMMA FlagWriters ==
    ASSUME BothInv, [AccountsNext]_allVars, isSuspended, ~isSuspended'
    PROVE  \/ \E c \in Call : Suspends(c, FALSE)
           \/ \E t \in Linking : ~task[t].suspended
           \/ row.created = "old"
<1>. AccountsInv
  BY DEF BothInv
<1>1. ASSUME NEW t \in Task, TaskStep(t)
      PROVE  \E u \in Linking : ~task[u].suspended
  <2>1. LinkSave(t)
    BY <1>1 DEF TaskStep, SignupFind, SignupInsert, LoginRead, LoginFinish, LinkRead,
                vars, userVars
  <2>. QED
    BY <2>1 DEF LinkSave, Anonymize, Change, Linking
<1>2. ASSUME NEW r \in Request, Receives(r) \/ Looks(r) \/ Answers(r)
      PROVE  FALSE
  BY <1>2 DEF Receives, Looks, Answers, Receive, Hit, Miss, ReadUser, Store, userVars
<1>3. ASSUME NEW c \in Call, NEW suspended \in BOOLEAN, Suspends(c, suspended)
      PROVE  Suspends(c, FALSE)
  <2>1. suspended = FALSE
    BY <1>3 DEF Suspends, SetUserSuspended, Change
  <2>. QED
    BY <1>3, <2>1
<1>4. CASE JobDecide
  BY <1>4 DEF JobDecide, vars, userVars, AccountsInv
<1>5. ASSUME \/ WalletSignup
             \/ \E verified, withTin \in BOOLEAN : KycWebhook(verified, withTin)
             \/ DeleteUser \/ JobFind
             \/ TokenEnds \/ TaxEvent \/ YearsPass \/ CacheStep \/ UNCHANGED allVars
      PROVE  FALSE
  BY <1>5 DEF WalletSignup, KycWebhook, DeleteUser, JobFind, TokenEnds, TaxEvent,
              YearsPass, CacheStep, Invalidate, Tick, Anonymize, Change, allVars, vars, userVars
<1>. QED
  BY <1>1, <1>2, <1>3, <1>4, <1>5 DEF AccountsNext

(***************************************************************************)
(* A suspension ends by an administrator's call, by a linkWallet that      *)
(* loaded the user before it began, or by the retention job on an account  *)
(* three years old.  Logins, KYC, signups and requests never lift one.     *)
(***************************************************************************)
THEOREM SuspensionsEndInThreeWays == AccountsSpec => SuspensionsHold
  BY AccountsInvariance, FlagWriters, PTL DEF AccountsSpec, SuspensionsHold

\* Which columns of an account the writers of the row fill in again.
Refills(c) == row'[c] /\ ~row[c]
Revived == row'.email = "own" \/ (row'.wallet = "own" /\ row.wallet # "own")
Entered == row'.lastLogin = "recent" /\ row.lastLogin # "recent"

LEMMA RowWriters ==
    ASSUME BothInv, [AccountsNext]_allVars, row.email = "placeholder"
    PROVE  /\ Revived => \E t \in Task : LinkSave(t)
           /\ Entered => \E t \in Task : LinkSave(t) \/ LoginFinish(t)
           /\ \A c \in {"tin", "verified"} : Refills(c) =>
                \/ \E t \in Task : LinkSave(t)
                \/ \E verified, withTin \in BOOLEAN : KycWebhook(verified, withTin)
                \/ \E r \in Request : Answers(r) /\ ~copy'[r]
<1>. AccountsInv /\ row \in Row
  BY DEF BothInv, AccountsInv
<1>. USE DEF Revived, Entered, Refills
<1>1. ASSUME NEW t \in Task, TaskStep(t), ~LinkSave(t)
      PROVE  /\ ~Revived
             /\ Entered => LoginFinish(t)
             /\ \A c \in {"tin", "verified"} : ~Refills(c)
  BY <1>1 DEF TaskStep, SignupFind, SignupInsert, LoginRead, LoginFinish, LinkRead, Row
<1>2. ASSUME NEW r \in Request, Receives(r) \/ Looks(r) \/ Answers(r)
      PROVE  /\ ~Revived /\ ~Entered
             /\ row' = row \/ (Answers(r) /\ ~copy'[r])
  BY <1>2 DEF Receives, Looks, Answers, accountVars, UpdateTin, InitiateKyc, SelectStudio, Row
<1>3. ASSUME NEW verified \in BOOLEAN, NEW withTin \in BOOLEAN, KycWebhook(verified, withTin)
      PROVE  ~Revived /\ ~Entered
  BY <1>3 DEF KycWebhook, Row
<1>4. ASSUME \/ WalletSignup
             \/ \E c \in Call, suspended \in BOOLEAN : Suspends(c, suspended)
             \/ DeleteUser
      PROVE  /\ ~Revived /\ ~Entered
             /\ \A c \in {"tin", "verified"} : ~Refills(c)
  BY <1>4 DEF WalletSignup, Suspends, DeleteUser, accountVars, Row
<1>5. ASSUME \/ JobFind \/ JobDecide
             \/ TokenEnds \/ TaxEvent \/ YearsPass \/ CacheStep \/ UNCHANGED allVars
      PROVE  /\ ~Revived /\ ~Entered
             /\ \A c \in {"tin", "verified"} : ~Refills(c)
  BY <1>5 DEF JobFind, JobDecide, AnonymizedRow, TokenEnds, TaxEvent, YearsPass,
              CacheStep, accountVars, allVars, Row
<1>6. CASE \E t \in Task : TaskStep(t)
  BY <1>1, <1>6
<1>7. CASE \E r \in Request : Receives(r) \/ Looks(r) \/ Answers(r)
  BY <1>2, <1>7
<1>8. CASE \E verified, withTin \in BOOLEAN : KycWebhook(verified, withTin)
  BY <1>3, <1>8
<1>. QED
  BY <1>4, <1>5, <1>6, <1>7, <1>8 DEF AccountsNext

\* A request that passes the check of a suspended account rests on a copy.
LEMMA PassesAreRecent ==
    ASSUME BothInv, [AccountsNext]_allVars, NEW r \in Request, Answers(r), ~copy'[r], isSuspended
    PROVE  age < TTL + Lag
<1>1. [Next]_vars /\ IInv
  BY StepsOfTheCache DEF BothInv
<1>2. pc[r] # "done" /\ pc'[r] = "done"
  BY <1>1 DEF Answers, Hit, Store, IInv, TypeOK
<1>. QED
  BY <1>1, <1>2, AnswersAreRecent DEF Answered

(***************************************************************************)
(* An erasure is undone, as to email and wallet, only by a linkWallet that *)
(* loaded the user before it; a tax number or a verification is written    *)
(* again by it, by the KYC provider, or by a session, and in an account    *)
(* that is suspended only for the life of a cached answer.                 *)
(***************************************************************************)
THEOREM ErasuresLast == AccountsSpec => ErasuresHold
<1>1. ASSUME BothInv, NEW t \in Task, LinkSave(t)
      PROVE  t \in Linking /\ t \in Entering /\ task[t].row.email = "own" /\ row' = task[t].row
  BY <1>1 DEF LinkSave, Linking, Entering, BothInv, AccountsInv, Loaded
<1>2. ASSUME BothInv, NEW t \in Task, LoginFinish(t)
      PROVE  t \in Entering /\ task[t].row.email = "own"
  BY <1>2 DEF LoginFinish, Entering, BothInv, AccountsInv, Loaded
<1>3. ASSUME BothInv, [AccountsNext]_allVars, row.email = "placeholder"
      PROVE  /\ Revived => \E t \in Linking : task[t].row.email = "own"
             /\ Entered => \E t \in Entering : task[t].row.email = "own"
             /\ \A c \in {"tin", "verified"} : Refills(c) =>
                \/ \E t \in Linking : task[t].row[c]
                \/ \E verified, withTin \in BOOLEAN : KycWebhook(verified, withTin)
                \/ /\ \E r \in Request : Answers(r)
                   /\ isSuspended => age < TTL + Lag
  <2>1. Revived => \E t \in Linking : task[t].row.email = "own"
    BY <1>1, <1>3, RowWriters
  <2>2. Entered => \E t \in Entering : task[t].row.email = "own"
    BY <1>1, <1>2, <1>3, RowWriters
  <2>3. ASSUME NEW c \in {"tin", "verified"}, Refills(c), \E t \in Task : LinkSave(t)
        PROVE  \E t \in Linking : task[t].row[c]
    BY <1>1, <1>3, <2>3 DEF Refills
  <2>4. ASSUME NEW r \in Request, Answers(r) /\ ~copy'[r]
        PROVE  isSuspended => age < TTL + Lag
    BY <1>3, <2>4, PassesAreRecent
  <2>. QED
    BY <1>3, <2>1, <2>2, <2>3, <2>4, RowWriters
<1>. QED
  BY <1>3, AccountsInvariance, PTL DEF AccountsSpec, ErasuresHold, Revived, Entered, Refills
-----------------------------------------------------------------------------
(***************************************************************************)
(* The rows of a game.  Types, and what the stage of a visit says about    *)
(* what it asked for.                                                      *)
(***************************************************************************)
ByNonce(r) == op[r].kind \in {"session", "event"}

StageFits ==
    \A r \in Visit :
        /\ stage[r] # "idle" => op[r] \in Operation
        /\ stage[r] \in {"sent", "found"} => ByNonce(r)
        /\ stage[r] = "idle" => before[r] = {}

DataInv == DataTypeOK /\ StageFits

Same(q) == /\ op'[q] = op[q] /\ stage'[q] = stage[q]
           /\ player'[q] = player[q] /\ before'[q] = before[q]

LEMMA DataInitInv == DataInit => DataInv
  <1>1. NoPayment \in [rows : Seq(Visit \cup {"intents"}), held : Nat]
    <2>1. ASSUME NEW S
          PROVE  [rows |-> <<>>, held |-> 0] \in [rows : Seq(S), held : Nat]
      OBVIOUS
    <2>. QED  BY <2>1 DEF NoPayment
  <1>2. DataInit => payments \in [Payment -> [rows : Seq(Visit \cup {"intents"}), held : Nat]]
    <2> DEFINE One == [rows : Seq(Visit \cup {"intents"}), held : Nat]
    <2>1. NoPayment \in One
      BY <1>1
    <2> HIDE DEF One
    <2>2. DataInit => payments \in [Payment -> One]
      BY <2>1 DEF DataInit
    <2>. QED  BY <2>2 DEF One
  <1>. QED
    BY <1>2 DEF DataInit, DataInv, DataTypeOK, StageFits, Stage

\* The types of what a visit holds, and of the tables, are kept apart.
VisitsType ==
    /\ op \in [Visit -> Operation \cup {NoOp}]
    /\ stage \in [Visit -> Stage]
    /\ player \in [Visit -> Visit]
    /\ before \in [Visit -> SUBSET Visit]

TablesType ==
    /\ game \in BOOLEAN /\ identity \in BOOLEAN
    /\ players \subseteq Visit /\ wallets \subseteq Visit
    /\ events \subseteq [by : Visit, tx : Tx]
    /\ nonces \subseteq issued /\ expired \subseteq issued /\ issued \subseteq Nonce
    /\ content \subseteq Content
    /\ payments \in [Payment -> [rows : Seq(Visit \cup {"intents"}), held : Nat]]

LEMMA TwoTypes == DataTypeOK <=> VisitsType /\ TablesType
  BY DEF DataTypeOK, VisitsType, TablesType

\* A visit moves by itself, keeps what it asked for and stays answered.
Moved(r) ==
    /\ \A q \in Visit \ {r} : Same(q)
    /\ stage[r] \notin {"done", "failed"} /\ stage'[r] # "idle"
    /\ stage[r] # "idle" => op'[r] = op[r] /\ before'[r] = before[r]
    /\ VisitsType' /\ StageFits'

LEMMA SendMoves ==
    ASSUME DataInv, NEW r \in Visit, NEW o \in Operation, Send(r, o)
    PROVE  Moved(r)
  <1>1. /\ op' = [op EXCEPT ![r] = o] /\ before' = [before EXCEPT ![r] = Over]
        /\ \E s \in {"sent", "proved"} :
             /\ stage' = [stage EXCEPT ![r] = s]
             /\ s = "sent" => o.kind \in {"session", "event"}
        /\ stage[r] = "idle" /\ player' = player
    BY DEF Send, Goto
  <1>2. Over \in SUBSET Visit
    BY DEF Over
  <1>. QED
    BY <1>1, <1>2
       DEF DataInv, DataTypeOK, StageFits, Moved, Same, VisitsType, Stage, ByNonce

\* Every other step of a visit goes on to one of these stages.
LEMMA GoMoves ==
    ASSUME DataInv, NEW r \in Visit, NEW s \in Stage \ {"idle", "sent"}, Goto(r, s),
           stage[r] \notin {"idle", "done", "failed"}, op' = op, before' = before,
           s = "found" => ByNonce(r),
           player' \in [Visit -> Visit], \A q \in Visit \ {r} : player'[q] = player[q]
    PROVE  Moved(r)
  BY DEF Goto, DataInv, DataTypeOK, StageFits, Moved, Same, VisitsType, ByNonce

LEMMA StepMoves ==
    ASSUME DataInv, NEW r \in Visit, VisitStep(r)
    PROVE  Moved(r)
  <1>0. player \in [Visit -> Visit] /\ players \subseteq Visit
    BY DEF DataInv, DataTypeOK
  <1>1. CASE FindNonce(r) \/ DeleteNonce(r)
    BY <1>0, <1>1, GoMoves DEF FindNonce, DeleteNonce, DataInv, StageFits, Stage
  <1>2. CASE FindGame(r) \/ FindIdentity(r) \/ InsertIdentity(r)
    BY <1>0, <1>2, GoMoves DEF FindGame, FindIdentity, InsertIdentity, Stage
  <1>3. CASE FindPlayer(r)
    BY <1>0, <1>3, GoMoves DEF FindPlayer, SameOwner, Stage
  <1>4. CASE InsertPlayer(r)
    BY <1>0, <1>4, GoMoves DEF InsertPlayer, Stage
  <1>5. CASE SessionDone(r) \/ FindWallet(r) \/ InsertWallet(r)
    BY <1>0, <1>5, GoMoves DEF SessionDone, FindWallet, InsertWallet, Stage
  <1>6. CASE FindEvent(r) \/ InsertEvent(r)
    BY <1>0, <1>6, GoMoves DEF FindEvent, InsertEvent, Stage
  <1>. QED
    BY <1>1, <1>2, <1>3, <1>4, <1>5, <1>6, SendMoves DEF VisitStep

\* The steps of nobody's visit.
Aside ==
    \/ \E n \in Nonce : IssueNonce(n) \/ NonceExpires(n)
    \/ CleanUp
    \/ \E c \in Content : OtherInsert(c)
    \/ \E kind \in {"game", "studio"} : BeginPurge(kind)
    \/ \E t \in Payment : BeginPayment(t) \/ LockRow(t) \/ EndPayment(t)
    \/ FindWallets \/ (\E p \in Visit : DeleteWallet(p)) \/ Delete \/ CommitPurge
    \/ \E x \in Process : Abort(x)
    \/ UNCHANGED dataVars

LEMMA DataSteps ==
    ASSUME [DataNext]_dataVars
    PROVE  Aside \/ \E r \in Visit : VisitStep(r)
  BY DEF DataNext, Aside

LEMMA AsideKeeps ==
    ASSUME Aside
    PROVE  /\ UNCHANGED <<op, stage, player, before, identity>>
           /\ players' \subseteq players /\ wallets' \subseteq wallets
           /\ events' \subseteq events
           /\ game' => game /\ players' = players
           /\ issued \subseteq issued' /\ nonces' \subseteq nonces \cup (issued' \ issued)
  <1>1. ASSUME NEW n \in Nonce, IssueNonce(n) \/ NonceExpires(n)
        PROVE  /\ UNCHANGED <<op, stage, player, before, identity>>
               /\ UNCHANGED <<game, players, wallets, events>>
               /\ issued \subseteq issued' /\ nonces' \subseteq nonces \cup (issued' \ issued)
    BY <1>1 DEF IssueNonce, NonceExpires, playVars, tableVars
  <1>2. CASE CommitPurge
    <2>1. Alive.players \subseteq players /\ Alive.wallets \subseteq wallets
      BY DEF Alive
    <2>. QED  BY <1>2, <2>1 DEF CommitPurge, playVars
  <1>3. CASE UNCHANGED <<game, players, wallets, events, nonces, playVars>>
    BY <1>3 DEF playVars
  <1>4. ASSUME NEW c \in Content, OtherInsert(c)
        PROVE  UNCHANGED <<game, players, wallets, events, nonces, playVars>>
    BY <1>4 DEF OtherInsert
  <1>5. ASSUME NEW kind, NEW p, NEW t, NEW x,
               \/ BeginPurge(kind) \/ FindWallets \/ DeleteWallet(p) \/ Delete
               \/ BeginPayment(t) \/ LockRow(t) \/ EndPayment(t) \/ Abort(x)
        PROVE  UNCHANGED <<game, players, wallets, events, nonces, playVars>>
    BY <1>5 DEF BeginPurge, FindWallets, DeleteWallet, Delete, BeginPayment, LockRow,
                EndPayment, Abort, tableVars
  <1>6. CASE UNCHANGED dataVars
    BY <1>3, <1>6 DEF dataVars, tableVars
  <1>7. CASE CleanUp
    BY <1>7 DEF CleanUp, playVars
  <1>. QED
    BY <1>1, <1>2, <1>3, <1>4, <1>5, <1>6, <1>7 DEF Aside

\* What a transaction that locks rows makes of its own state and of the ledger.
LEMMA PaymentTypes ==
    ASSUME TablesType, NEW t \in Payment
    PROVE  /\ BeginPayment(t) \/ LockRow(t) \/ EndPayment(t) \/ Abort(t) =>
                payments' \in [Payment -> [rows : Seq(Visit \cup {"intents"}), held : Nat]]
           /\ EndPayment(t) => content' \subseteq Content
  <1> DEFINE One == [rows : Seq(Visit \cup {"intents"}), held : Nat]
  <1>0. payments \in [Payment -> One] /\ NoPayment \in One
    BY DEF TablesType, NoPayment
  <1>1. ASSUME BeginPayment(t)
        PROVE  payments' \in [Payment -> One]
    <2>1. PICK p \in wallets, first \in wallets \cup (content \cap {"intents"}) :
             payments' = [payments EXCEPT ![t] = [rows |-> <<first, p>>, held |-> 0]]
      BY <1>1 DEF BeginPayment
    <2>2. first \in Visit \cup {"intents"} /\ p \in Visit \cup {"intents"}
      BY <2>1 DEF TablesType
    <2>3. ASSUME NEW S, NEW x \in S, NEW y \in S
          PROVE  [rows |-> <<x, y>>, held |-> 0] \in [rows : Seq(S), held : Nat]
      OBVIOUS
    <2>4. [rows |-> <<first, p>>, held |-> 0] \in One
      BY <2>2, <2>3
    <2> HIDE DEF One
    <2>. QED  BY <1>0, <2>1, <2>4
  <1>2. ASSUME LockRow(t)
        PROVE  payments' \in [Payment -> One]
    <2>1. ASSUME NEW S, NEW p \in [Payment -> [rows : S, held : Nat]]
          PROVE  [p EXCEPT ![t].held = @ + 1] \in [Payment -> [rows : S, held : Nat]]
      OBVIOUS
    <2>2. [payments EXCEPT ![t].held = @ + 1] \in [Payment -> One]
      BY <1>0, <2>1
    <2>3. [payments EXCEPT ![t] = NoPayment] \in [Payment -> One]
      <3> HIDE DEF One
      <3>. QED  BY <1>0
    <2>. QED  BY <1>2, <2>2, <2>3 DEF LockRow
  <1>3. ASSUME EndPayment(t) \/ Abort(t)
        PROVE  payments' \in [Payment -> One]
    BY <1>0, <1>3 DEF EndPayment, Abort
  <1>4. EndPayment(t) => content' \subseteq Content
    BY DEF EndPayment, InsertContent, TablesType, Content
  <1>. QED  BY <1>1, <1>2, <1>3, <1>4

LEMMA DataStepInv == DataInv /\ [DataNext]_dataVars => DataInv'
  <1> SUFFICES ASSUME DataInv, [DataNext]_dataVars
               PROVE  DataInv'
    OBVIOUS
  <1>0. TablesType
    BY TwoTypes DEF DataInv
  <1>1. CASE Aside
    <2>1. TablesType'
      <3>1. ASSUME NEW t \in Payment, BeginPayment(t) \/ LockRow(t) \/ EndPayment(t)
            PROVE  TablesType'
        BY <1>0, <3>1, PaymentTypes DEF BeginPayment, LockRow, EndPayment, playVars, TablesType
      <3>2. ASSUME NEW x \in Process, Abort(x)
            PROVE  TablesType'
        BY <1>0, <3>2, PaymentTypes DEF Abort, playVars, TablesType
      <3>3. CASE \/ FindWallets \/ (\E p \in Visit : DeleteWallet(p)) \/ Delete
                 \/ \E kind \in {"game", "studio"} : BeginPurge(kind)
        BY <1>0, <3>3 DEF FindWallets, DeleteWallet, Delete, BeginPurge, playVars, tableVars,
                          TablesType
      <3>4. CASE \/ \E n \in Nonce : IssueNonce(n) \/ NonceExpires(n)
                 \/ CleanUp \/ CommitPurge \/ UNCHANGED dataVars
        BY <1>0, <3>4
           DEF IssueNonce, NonceExpires, CleanUp, CommitPurge, Alive, playVars, tableVars,
               dataVars, TablesType
      <3>5. CASE \E c \in Content : OtherInsert(c)
        BY <1>0, <3>5 DEF OtherInsert, InsertContent, playVars, TablesType
      <3>. QED  BY <1>1, <3>1, <3>2, <3>3, <3>4, <3>5 DEF Aside
    <2>2. VisitsType' /\ StageFits'
      BY <1>1, AsideKeeps, TwoTypes DEF DataInv, VisitsType, StageFits, ByNonce
    <2>. QED  BY <2>1, <2>2, TwoTypes DEF DataInv, DataTypeOK, TablesType, VisitsType
  <1>2. ASSUME NEW r \in Visit, VisitStep(r)
        PROVE  DataInv'
    <2>1. VisitsType' /\ StageFits'
      BY <1>2, StepMoves DEF Moved
    <2>2. op[r].tx \in Tx \/ stage[r] = "idle"
      BY StudioDataAssumption DEF DataInv, StageFits, OperationType
    <2>3. TablesType'
      <3>1. CASE InsertIdentity(r) \/ DeleteNonce(r)
        BY <1>0, <3>1 DEF InsertIdentity, DeleteNonce, tableVars, TablesType
      <3>2. CASE InsertPlayer(r) \/ InsertWallet(r)
        BY <1>0, <3>2 DEF InsertPlayer, InsertWallet, TablesType
      <3>3. CASE InsertEvent(r)
        BY <1>0, <2>2, <3>3 DEF InsertEvent, TablesType
      <3>4. CASE UNCHANGED <<game, tableVars, identity, issued, expired>>
        BY <1>0, <3>4 DEF tableVars, TablesType
      <3>. QED
        BY <1>2, <3>1, <3>2, <3>3, <3>4
           DEF VisitStep, Send, FindNonce, FindGame, FindIdentity, FindPlayer, SessionDone,
               FindWallet, FindEvent, tableVars
    <2>. QED  BY <2>1, <2>3 DEF DataInv, DataTypeOK, TablesType, VisitsType
  <1>. QED  BY <1>1, <1>2, DataSteps
-----------------------------------------------------------------------------
(***************************************************************************)
(* Nonces.  A nonce that let a request pass was drawn and is gone for      *)
(* good, so whoever comes after the answer to that request does not find   *)
(* it: only "sent" and "failed" are left to him.                           *)
(***************************************************************************)
NonceDrawn ==
    \A r \in Visit :
        /\ stage[r] = "found" => op[r].nonce \in issued
        /\ Proved(r) => op[r].nonce \in issued \ nonces

AnsweredBefore == \A r, s \in Visit : r \in before[s] => stage[r] \in {"done", "failed"}

LateFails ==
    \A r, s \in Visit :
        /\ r \in before[s] /\ Proved(r)
        /\ ByNonce(s) /\ op[r].nonce = op[s].nonce
        => stage[s] \in {"sent", "failed"}

NonceInv == DataInv /\ NonceDrawn /\ AnsweredBefore /\ LateFails

LEMMA NonceInitInv == DataInit => NonceInv
  BY DataInitInv
     DEF NonceInv, NonceDrawn, AnsweredBefore, LateFails, DataInit, Proved

\* What a step does to the nonces, seen by the visits it does not move.
LEMMA NoncesGo ==
    ASSUME DataInv, [DataNext]_dataVars
    PROVE  issued \subseteq issued' /\ nonces' \subseteq nonces \cup (issued' \ issued)
  <1>1. ASSUME NEW r \in Visit, VisitStep(r)
        PROVE  issued' = issued /\ nonces' \subseteq nonces
    BY <1>1
       DEF VisitStep, Send, FindNonce, DeleteNonce, FindGame, FindIdentity, InsertIdentity,
           FindPlayer, InsertPlayer, SessionDone, FindWallet, InsertWallet, FindEvent,
           InsertEvent, tableVars
  <1>. QED  BY <1>1, AsideKeeps, DataSteps

\* How a visit comes to be found, proved or answered.
LEMMA NonceStages ==
    ASSUME DataInv, NEW r \in Visit, VisitStep(r)
    PROVE  /\ stage'[r] = "found" => op[r].nonce \in nonces /\ stage[r] = "sent"
           /\ Proved(r)' => \/ Proved(r)
                            \/ stage[r] = "found" /\ nonces' = nonces \ {op[r].nonce}
           /\ stage[r] = "idle" =>
                /\ before'[r] = Over /\ stage'[r] \in {"sent", "proved"}
                /\ stage'[r] = "sent" \/ ~ByNonce(r)'
           /\ stage[r] = "sent" =>
                stage'[r] = (IF op[r].nonce \in nonces THEN "found" ELSE "failed")
  <1>0. stage \in [Visit -> Stage] /\ op \in [Visit -> Operation \cup {NoOp}]
        /\ before \in [Visit -> SUBSET Visit]
    BY DEF DataInv, DataTypeOK
  <1>1. CASE \E o \in Operation : Send(r, o)
    BY <1>0, <1>1 DEF Send, Goto, Proved, ByNonce
  <1>2. CASE FindNonce(r) \/ DeleteNonce(r)
    BY <1>0, <1>2 DEF FindNonce, DeleteNonce, Goto, Proved
  <1>3. CASE FindGame(r) \/ FindIdentity(r) \/ InsertIdentity(r)
    BY <1>0, <1>3 DEF FindGame, FindIdentity, InsertIdentity, Goto, Proved
  <1>4. CASE FindPlayer(r) \/ InsertPlayer(r)
    BY <1>0, <1>4 DEF FindPlayer, InsertPlayer, Goto, Proved
  <1>5. CASE SessionDone(r) \/ FindWallet(r) \/ InsertWallet(r)
    BY <1>0, <1>5 DEF SessionDone, FindWallet, InsertWallet, Goto, Proved
  <1>6. CASE FindEvent(r) \/ InsertEvent(r)
    BY <1>0, <1>6 DEF FindEvent, InsertEvent, Goto, Proved
  <1>. QED
    BY <1>1, <1>2, <1>3, <1>4, <1>5, <1>6 DEF VisitStep

LEMMA NonceStepInv == NonceInv /\ [DataNext]_dataVars => NonceInv'
  <1> SUFFICES ASSUME NonceInv, [DataNext]_dataVars
               PROVE  NonceInv'
    OBVIOUS
  <1>0. DataInv /\ DataInv' /\ nonces \subseteq issued
    BY DataStepInv DEF NonceInv, DataInv, DataTypeOK
  <1>1. CASE Aside
    BY <1>0, <1>1, AsideKeeps, NoncesGo
       DEF NonceInv, NonceDrawn, AnsweredBefore, LateFails, Proved, ByNonce
  <1>2. ASSUME NEW r \in Visit, VisitStep(r)
        PROVE  NonceInv'
    <2>1. Moved(r)
      BY <1>0, <1>2, StepMoves
    <2>2. NonceDrawn'
      <3>1. ASSUME NEW q \in Visit \ {r}
            PROVE  /\ stage'[q] = "found" => op'[q].nonce \in issued'
                   /\ Proved(q)' => op'[q].nonce \in issued' \ nonces'
        BY <1>0, <2>1, NoncesGo DEF Moved, Same, Proved, NonceInv, NonceDrawn
      <3>2. /\ stage'[r] = "found" => op'[r].nonce \in issued'
            /\ Proved(r)' => op'[r].nonce \in issued' \ nonces'
        <4>1. stage'[r] = "found" => op'[r].nonce \in issued'
          BY <1>0, <1>2, <2>1, NonceStages, NoncesGo DEF Moved
        <4>2. Proved(r)' => op'[r].nonce \in issued' \ nonces'
          <5> HAVE Proved(r)'
          <5>1. stage[r] # "idle" /\ op'[r] = op[r]
            BY <1>0, <1>2, <2>1, NonceStages DEF Moved, Proved
          <5>. QED
            BY <1>0, <1>2, <5>1, NonceStages, NoncesGo DEF NonceInv, NonceDrawn
        <4>. QED  BY <4>1, <4>2
      <3>. QED  BY <3>1, <3>2 DEF NonceDrawn
    <2>3. AnsweredBefore'
      BY <1>0, <1>2, <2>1, NonceStages DEF Moved, Same, NonceInv, AnsweredBefore, Over
    <2>4. LateFails'
      <3> SUFFICES ASSUME NEW q \in Visit, NEW s \in Visit, q \in before'[s], Proved(q)',
                          ByNonce(s)', op'[q].nonce = op'[s].nonce
                   PROVE  stage'[s] \in {"sent", "failed"}
        BY DEF LateFails
      <3>1. CASE s # r
        <4>1. q \in before[s] /\ ByNonce(s) /\ stage'[s] = stage[s] /\ op'[s] = op[s]
          BY <2>1, <3>1 DEF Moved, Same, ByNonce
        <4>2. q # r
          BY <2>1, <4>1 DEF Moved, NonceInv, AnsweredBefore
        <4>3. Proved(q) /\ op'[q] = op[q]
          BY <2>1, <4>2 DEF Moved, Same, Proved
        <4>. QED  BY <4>1, <4>3 DEF NonceInv, LateFails
      <3>2. CASE s = r /\ stage[r] = "idle"
        BY <1>0, <1>2, <3>2, NonceStages
      <3>3. CASE s = r /\ stage[r] # "idle"
        <4>1. q \in before[r] /\ op'[r] = op[r] /\ ByNonce(r)
          BY <2>1, <3>3 DEF Moved, ByNonce
        <4>2. q # r /\ Proved(q) /\ op'[q] = op[q]
          <5>1. q # r
            BY <2>1, <4>1 DEF Moved, NonceInv, AnsweredBefore
          <5>. QED  BY <2>1, <5>1 DEF Moved, Same, Proved
        <4>3. stage[r] = "sent" /\ op[r].nonce \notin nonces
          BY <2>1, <3>3, <4>1, <4>2 DEF Moved, NonceInv, LateFails, NonceDrawn
        <4>. QED  BY <1>0, <1>2, <3>3, <4>3, NonceStages
      <3>. QED  BY <3>1, <3>2, <3>3
    <2>. QED  BY <1>0, <2>2, <2>3, <2>4 DEF NonceInv
  <1>. QED  BY <1>1, <1>2, DataSteps

(***************************************************************************)
(* NoncesAreOneTime: a nonce lets nobody pass who comes after the answer   *)
(* to whom it let pass, whatever purges, expiries and cleanups run.        *)
(***************************************************************************)
THEOREM NoncesWorkOnce == DataSpec => []NoncesAreOneTime
  <1>1. NonceInv => NoncesAreOneTime
    BY DEF NonceInv, LateFails, NoncesAreOneTime, Overlap, Proved, ByNonce
  <1>. QED
    BY NonceInitInv, NonceStepInv, <1>1, PTL DEF DataSpec
-----------------------------------------------------------------------------
(***************************************************************************)
(* Events.  Whoever has looked for his transaction and found nothing knows *)
(* of every event of a request that was answered before his was sent.      *)
(***************************************************************************)
EventsAreDone ==
    \A e \in events : e.by \in Visit /\ stage[e.by] = "done" /\ e.tx = op[e.by].tx

FreshIsNew ==
    \A e \in events, r \in Visit :
        e.by \in before[r] /\ stage[r] = "fresh" => e.tx # op[r].tx

EventInv == DataInv /\ AnsweredBefore /\ EventsAreDone /\ FreshIsNew /\ RetriesLogOnce

LEMMA EventInitInv == DataInit => EventInv
  BY DataInitInv
     DEF EventInv, AnsweredBefore, EventsAreDone, FreshIsNew, RetriesLogOnce, DataInit

LEMMA EventStages ==
    ASSUME DataInv, NEW r \in Visit, VisitStep(r)
    PROVE  /\ \/ events' = events
              \/ /\ events' = events \cup {[by |-> r, tx |-> op[r].tx]}
                 /\ stage[r] = "fresh" /\ stage'[r] = "done"
           /\ stage'[r] = "fresh" =>
                events' = events /\ \A e \in events : e.tx # op[r].tx
  <1>0. stage \in [Visit -> Stage]
    BY DEF DataInv, DataTypeOK
  <1>1. CASE \E o \in Operation : Send(r, o)
    BY <1>0, <1>1 DEF Send, Goto, tableVars
  <1>2. CASE FindNonce(r) \/ DeleteNonce(r)
    BY <1>0, <1>2 DEF FindNonce, DeleteNonce, Goto, tableVars
  <1>3. CASE FindGame(r) \/ FindIdentity(r) \/ InsertIdentity(r)
    BY <1>0, <1>3 DEF FindGame, FindIdentity, InsertIdentity, Goto, tableVars
  <1>4. CASE FindPlayer(r) \/ InsertPlayer(r)
    BY <1>0, <1>4 DEF FindPlayer, InsertPlayer, Goto, tableVars
  <1>5. CASE SessionDone(r) \/ FindWallet(r) \/ InsertWallet(r)
    BY <1>0, <1>5 DEF SessionDone, FindWallet, InsertWallet, Goto, tableVars
  <1>6. CASE FindEvent(r)
    BY <1>0, <1>6 DEF FindEvent, Goto, tableVars
  <1>7. CASE InsertEvent(r)
    BY <1>0, <1>7 DEF InsertEvent, Goto
  <1>. QED
    BY <1>1, <1>2, <1>3, <1>4, <1>5, <1>6, <1>7 DEF VisitStep

\* Who was answered when a visit was sent is answered still.
LEMMA BeforeStays ==
    ASSUME DataInv, AnsweredBefore, [DataNext]_dataVars
    PROVE  AnsweredBefore'
  <1>1. CASE Aside
    BY <1>1, AsideKeeps DEF AnsweredBefore
  <1>2. ASSUME NEW r \in Visit, VisitStep(r)
        PROVE  AnsweredBefore'
    BY <1>2, StepMoves, NonceStages DEF Moved, Same, AnsweredBefore, Over
  <1>. QED  BY <1>1, <1>2, DataSteps

LEMMA EventStepInv == EventInv /\ [DataNext]_dataVars => EventInv'
  <1> SUFFICES ASSUME EventInv, [DataNext]_dataVars
               PROVE  EventInv'
    OBVIOUS
  <1>0. DataInv /\ DataInv' /\ AnsweredBefore /\ AnsweredBefore'
    BY DataStepInv, BeforeStays DEF EventInv
  <1>1. CASE Aside
    BY <1>0, <1>1, AsideKeeps
       DEF EventInv, EventsAreDone, FreshIsNew, RetriesLogOnce, Overlap
  <1>2. ASSUME NEW r \in Visit, VisitStep(r)
        PROVE  EventInv'
    <2>1. Moved(r)
      BY <1>0, <1>2, StepMoves
    <2>2. \A e \in events : e.by # r /\ Same(e.by)
      BY <2>1 DEF Moved, EventInv, EventsAreDone
    <2>3. CASE events' = events
      <3>1. EventsAreDone'
        BY <2>2, <2>3 DEF EventInv, EventsAreDone, Same
      <3>2. FreshIsNew'
        <4> SUFFICES ASSUME NEW e \in events, NEW q \in Visit,
                            e.by \in before'[q], stage'[q] = "fresh"
                     PROVE  e.tx # op'[q].tx
          BY <2>3 DEF FreshIsNew
        <4>1. CASE q = r
          <5>1. stage[r] # "idle" /\ op'[r] = op[r]
            BY <1>0, <1>2, <2>1, <4>1, NonceStages DEF Moved
          <5>. QED  BY <1>0, <1>2, <4>1, <5>1, EventStages
        <4>2. CASE q # r
          BY <2>1, <4>2 DEF Moved, Same, EventInv, FreshIsNew
        <4>. QED  BY <4>1, <4>2
      <3>3. RetriesLogOnce'
        BY <2>2, <2>3 DEF EventInv, RetriesLogOnce, Overlap, Same
      <3>. QED  BY <1>0, <3>1, <3>2, <3>3 DEF EventInv
    <2>4. CASE /\ events' = events \cup {[by |-> r, tx |-> op[r].tx]}
               /\ stage[r] = "fresh" /\ stage'[r] = "done"
      <3> DEFINE e0 == [by |-> r, tx |-> op[r].tx]
      <3>0. op'[r] = op[r] /\ before'[r] = before[r] /\ e0.by = r /\ e0.tx = op[r].tx
            /\ events' = events \cup {e0}
        BY <2>1, <2>4 DEF Moved
      <3>1. EventsAreDone'
        BY <2>2, <2>4, <3>0 DEF EventInv, EventsAreDone, Same
      <3>2. FreshIsNew'
        BY <1>0, <2>1, <2>4, <3>0 DEF Moved, Same, EventInv, FreshIsNew, AnsweredBefore
      <3>3. \A e \in events : e.tx = op[r].tx => Overlap(e.by, r)' /\ Overlap(r, e.by)'
        BY <1>0, <2>2, <2>4, <3>0 DEF EventInv, FreshIsNew, EventsAreDone, AnsweredBefore,
             Overlap, Same
      <3>4. RetriesLogOnce'
        <4> HIDE DEF e0
        <4>1. \A e, f \in events : e # f /\ e.tx = f.tx => Overlap(e.by, f.by)'
          BY <2>2 DEF EventInv, RetriesLogOnce, Overlap, Same
        <4>. QED  BY <3>0, <3>3, <4>1 DEF RetriesLogOnce
      <3>. QED  BY <1>0, <3>1, <3>2, <3>4 DEF EventInv
    <2>. QED  BY <1>0, <1>2, <2>3, <2>4, EventStages
  <1>. QED  BY <1>1, <1>2, DataSteps

(***************************************************************************)
(* RetriesLogOnce: two rows of one transaction are the work of requests    *)
(* that overlapped; no retry after an answer adds one, whatever is purged. *)
(***************************************************************************)
THEOREM RetriesAddNothing == DataSpec => []RetriesLogOnce
  <1>1. EventInv => RetriesLogOnce
    BY DEF EventInv
  <1>. QED
    BY EventInitInv, EventStepInv, <1>1, PTL DEF DataSpec
-----------------------------------------------------------------------------
(***************************************************************************)
(* Sessions.  While the game's row stands, whoever holds a player of the   *)
(* wallet's owner holds the one in the table; once it is purged nobody     *)
(* inserts another, so what they hold stays the same.                      *)
(***************************************************************************)
Holds(r) == stage[r] \in {"player", "noWallet", "fresh", "done"} /\ ByWallet(r)

PlayersAreSent == \A p \in players : stage[p] # "idle"
OnePlayer == \A p, q \in players : ByWallet(p) /\ ByWallet(q) => p = q
HeldIsThePlayer ==
    \A r \in Visit, p \in players : Holds(r) /\ ByWallet(p) => player[r] = p
HeldIsAlive == \A r \in Visit : game /\ Holds(r) => player[r] \in players /\ ByWallet(player[r])
HoldersAgree == \A r, s \in Visit : Holds(r) /\ Holds(s) => player[r] = player[s]

SessionInv ==
    /\ DataInv
    /\ PlayersAreSent /\ OnePlayer /\ HeldIsThePlayer /\ HeldIsAlive /\ HoldersAgree

LEMMA SessionInitInv == DataInit => SessionInv
  BY DataInitInv
     DEF SessionInv, PlayersAreSent, OnePlayer, HeldIsThePlayer, HeldIsAlive, HoldersAgree,
         Holds, DataInit

\* What a visit does to the players, and how it comes to hold one.
LEMMA PlayerStages ==
    ASSUME DataInv, NEW r \in Visit, VisitStep(r)
    PROVE  /\ game' = game
           /\ \/ players' = players
              \/ /\ players' = players \cup {r} /\ InsertPlayer(r) /\ game /\ Taken(r) = {}
                 /\ player'[r] = r
           /\ stage'[r] \in {"player", "noWallet", "fresh", "done"} =>
                \/ /\ stage[r] \in {"player", "noWallet", "fresh", "done"}
                   /\ player'[r] = player[r]
                \/ FindPlayer(r) /\ player'[r] \in SameOwner(r)
                \/ players' = players \cup {r} /\ InsertPlayer(r)
  <1>0. stage \in [Visit -> Stage] /\ player \in [Visit -> Visit]
    BY DEF DataInv, DataTypeOK
  <1>1. CASE \E o \in Operation : Send(r, o)
    BY <1>0, <1>1 DEF Send, Goto, tableVars
  <1>2. CASE FindNonce(r) \/ DeleteNonce(r)
    BY <1>0, <1>2 DEF FindNonce, DeleteNonce, Goto, tableVars
  <1>3. CASE FindGame(r) \/ FindIdentity(r) \/ InsertIdentity(r)
    BY <1>0, <1>3 DEF FindGame, FindIdentity, InsertIdentity, Goto, tableVars
  <1>4. CASE FindPlayer(r)
    BY <1>0, <1>4 DEF FindPlayer, SameOwner, Goto, tableVars
  <1>5. CASE InsertPlayer(r)
    BY <1>0, <1>5 DEF InsertPlayer, Goto
  <1>6. CASE SessionDone(r) \/ FindWallet(r) \/ InsertWallet(r)
    BY <1>0, <1>6 DEF SessionDone, FindWallet, InsertWallet, Goto, tableVars
  <1>7. CASE FindEvent(r) \/ InsertEvent(r)
    BY <1>0, <1>7 DEF FindEvent, InsertEvent, Goto, tableVars
  <1>. QED
    BY <1>1, <1>2, <1>3, <1>4, <1>5, <1>6, <1>7 DEF VisitStep

LEMMA SessionStepInv == SessionInv /\ [DataNext]_dataVars => SessionInv'
  <1> SUFFICES ASSUME SessionInv, [DataNext]_dataVars
               PROVE  SessionInv'
    OBVIOUS
  <1>0. DataInv /\ DataInv' /\ players \subseteq Visit
    BY DataStepInv DEF SessionInv, DataInv, DataTypeOK
  <1>1. CASE Aside
    BY <1>0, <1>1, AsideKeeps
       DEF SessionInv, PlayersAreSent, OnePlayer, HeldIsThePlayer, HeldIsAlive, HoldersAgree,
           Holds, ByWallet
  <1>2. ASSUME NEW r \in Visit, VisitStep(r)
        PROVE  SessionInv'
    <2>1. Moved(r)
      BY <1>0, <1>2, StepMoves
    <2>2. \A q \in Visit : stage[q] # "idle" => (ByWallet(q)' <=> ByWallet(q))
      BY <2>1 DEF Moved, Same, ByWallet
    <2>3. \A q \in Visit \ {r} : (Holds(q)' <=> Holds(q)) /\ player'[q] = player[q]
      BY <2>1 DEF Moved, Same, Holds, ByWallet
    <2>4. PlayersAreSent'
      BY <1>0, <1>2, <2>1, PlayerStages DEF Moved, Same, SessionInv, PlayersAreSent
    <2>5. CASE players' = players
      <3>1. \A p \in players : ByWallet(p)' <=> ByWallet(p)
        BY <1>0, <2>2 DEF SessionInv, PlayersAreSent
      <3>2. CASE ~Holds(r)'
        BY <1>0, <1>2, <2>3, <2>4, <2>5, <3>1, <3>2, PlayerStages
           DEF SessionInv, OnePlayer, HeldIsThePlayer, HeldIsAlive, HoldersAgree
      <3>3. CASE Holds(r) /\ player'[r] = player[r]
        BY <1>0, <1>2, <2>3, <2>4, <2>5, <3>1, <3>3, PlayerStages
           DEF SessionInv, OnePlayer, HeldIsThePlayer, HeldIsAlive, HoldersAgree
      <3>4. CASE Holds(r)' /\ FindPlayer(r) /\ player'[r] \in SameOwner(r)
        <4>1. player'[r] \in players /\ ByWallet(player'[r]) /\ stage[r] # "idle"
          <5>1. op[r] = op'[r] /\ stage[r] # "idle"
            BY <2>1, <3>4 DEF Moved, FindPlayer
          <5>. QED  BY <3>4, <5>1 DEF SameOwner, Holds, ByWallet
        <4>2. \A q \in Visit : Holds(q)' => player'[q] = player'[r]
          BY <2>3, <4>1 DEF SessionInv, HeldIsThePlayer
        <4>3. \A p \in players : ByWallet(p) => p = player'[r]
          BY <4>1 DEF SessionInv, OnePlayer
        <4>4. OnePlayer' /\ HeldIsThePlayer' /\ HoldersAgree'
          BY <2>5, <3>1, <4>2, <4>3 DEF OnePlayer, HeldIsThePlayer, HoldersAgree
        <4>5. HeldIsAlive'
          <5>1. PICK p \in players : p = player'[r] /\ ByWallet(p)'
            BY <3>1, <4>1
          <5>2. \A q \in Visit : Holds(q)' => player'[q] = p /\ op'[p].kind # "user"
            BY <4>2, <5>1 DEF ByWallet
          <5>. QED  BY <2>5, <5>2 DEF HeldIsAlive, ByWallet
        <4>. QED  BY <1>0, <2>4, <4>4, <4>5 DEF SessionInv
      <3>5. CASE players' = players \cup {r} /\ InsertPlayer(r)
        <4>1. r \in players
          BY <2>5, <3>5
        <4>2. Goto(r, "failed") \/ Taken(r) = {}
          BY <3>5 DEF InsertPlayer
        <4>3. CASE Goto(r, "failed")
          <5>1. ~Holds(r)'
            BY <1>0, <4>3 DEF Goto, Holds, DataInv, DataTypeOK
          <5>. QED  BY <3>2, <5>1
        <4>4. CASE Taken(r) = {} /\ ~Goto(r, "failed")
          <5>1. ~ByWallet(r)
            BY <4>1, <4>4 DEF Taken, SameOwner
          <5>2. ~Holds(r)'
            BY <1>0, <2>2, <4>1, <5>1 DEF Holds, SessionInv, PlayersAreSent
          <5>. QED  BY <3>2, <5>2
        <4>. QED  BY <4>2, <4>3, <4>4
      <3>. QED
        BY <1>0, <1>2, <2>1, <2>2, <3>2, <3>3, <3>4, <3>5, PlayerStages
           DEF Holds, Moved
    <2>6. CASE /\ players' = players \cup {r} /\ InsertPlayer(r) /\ game
               /\ Taken(r) = {} /\ player'[r] = r
      <3>1. stage[r] = "noPlayer" /\ op'[r] = op[r]
        BY <2>1, <2>6 DEF InsertPlayer, Moved
      <3>2. \A p \in players' : ByWallet(p)' <=> ByWallet(p)
        BY <1>0, <2>2, <2>6, <3>1 DEF SessionInv, PlayersAreSent
      <3>3. CASE ByWallet(r)
        <4>1. \A p \in players : ~ByWallet(p)
          BY <2>6, <3>3 DEF Taken, SameOwner
        <4>2. \A q \in Visit \ {r} : ~Holds(q)'
          BY <2>3, <2>6, <4>1 DEF SessionInv, HeldIsAlive
        <4>. QED
          BY <1>0, <2>4, <2>6, <3>2, <3>3, <4>1, <4>2
             DEF SessionInv, OnePlayer, HeldIsThePlayer, HeldIsAlive, HoldersAgree
      <3>4. CASE ~ByWallet(r)
        <4>1. ~Holds(r)'
          BY <3>1, <3>4 DEF Holds, ByWallet
        <4>. QED
          BY <1>0, <1>2, <2>3, <2>4, <2>6, <3>2, <3>4, <4>1, PlayerStages
             DEF SessionInv, OnePlayer, HeldIsThePlayer, HeldIsAlive, HoldersAgree
      <3>. QED  BY <3>3, <3>4
    <2>. QED  BY <1>0, <1>2, <2>5, <2>6, PlayerStages
  <1>. QED  BY <1>1, <1>2, DataSteps

(***************************************************************************)
(* SessionsAgree: all sessions of a wallet in a game are answered with one *)
(* player, the ones before a purge and the ones that race it.              *)
(***************************************************************************)
THEOREM SessionsHaveOnePlayer == DataSpec => []SessionsAgree
  <1>1. SessionInv => SessionsAgree
    BY DEF SessionInv, HoldersAgree, Holds, SessionsAgree
  <1>. QED
    BY SessionInitInv, SessionStepInv, <1>1, PTL DEF DataSpec
-----------------------------------------------------------------------------
(***************************************************************************)
(* The purge of a game.  As long as nobody has inserted a row since it     *)
(* began, it has emptied the tables in the order of GameOrder, and what    *)
(* refers to the next one has been emptied before.                         *)
(***************************************************************************)
Table == {"listings", "events", "nonces", "ledger", "instances", "wallets", "intents",
          "players", "game"}

PurgeType ==
    [kind : {"none", "game", "studio", "done", "failed game", "failed studio"},
     left : Seq(Table), touched : BOOLEAN, deadlock : BOOLEAN,
     started : SUBSET Visit, scanning : BOOLEAN, found : SUBSET Visit,
     players : SUBSET Visit, wallets : SUBSET Visit,
     events : SUBSET [by : Visit, tx : Tx], nonces : SUBSET Nonce,
     cleared : SUBSET Table, late : SUBSET Content]

\* k statements are done and the rest is to come.
InOrder(k) ==
    /\ purge.left = SubSeq(GameOrder, k + 1, 9)
    /\ \A i \in 1..k : GameOrder[i] \in purge.cleared

Untouched ==
    purge.kind = "game" /\ ~purge.touched =>
        /\ purge.late = {}
        /\ \E k \in 0..9 : InOrder(k)
        /\ purge.scanning => wallets \subseteq purge.found
        /\ "wallets" \in purge.cleared => wallets \subseteq purge.wallets
        /\ "players" \in purge.cleared => players \subseteq purge.players

PurgeInv == DataInv /\ purge \in PurgeType /\ Untouched /\ GamePurgesFailByRacesOnly

LEMMA OrderType ==
    /\ GameOrder \in Seq(Table) /\ Len(GameOrder) = 9
    /\ StudioOrder \in Seq(Table)
  <1>1. GameOrder \in Seq(Table)
    BY DEF GameOrder, Table
  <1>2. Len(GameOrder) = 9
    BY DEF GameOrder
  <1>3. StudioOrder \in Seq(Table)
    BY DEF StudioOrder, Table
  <1>. QED  BY <1>1, <1>2, <1>3

LEMMA OrderPlaces ==
    /\ GameOrder[1] = "listings" /\ GameOrder[2] = "events" /\ GameOrder[3] = "nonces"
    /\ GameOrder[4] = "ledger" /\ GameOrder[5] = "instances" /\ GameOrder[6] = "wallets"
    /\ GameOrder[7] = "intents" /\ GameOrder[8] = "players" /\ GameOrder[9] = "game"
  BY DEF GameOrder

\* What is left begins with the next statement.
LEMMA NextStatement ==
    ASSUME NEW s \in Seq(Table), NEW k \in 0..Len(s),
           SubSeq(s, k + 1, Len(s)) # <<>>
    PROVE  /\ k < Len(s)
           /\ Head(SubSeq(s, k + 1, Len(s))) = s[k + 1]
           /\ Tail(SubSeq(s, k + 1, Len(s))) = SubSeq(s, k + 2, Len(s))
  OBVIOUS

LEMMA NoPurgeType == NoPurge \in PurgeType
  BY DEF NoPurge, PurgeType

LEMMA PurgeInitInv == DataInit => PurgeInv
  BY DataInitInv, NoPurgeType
     DEF PurgeInv, Untouched, GamePurgesFailByRacesOnly, DataInit, NoPurge

\* Nothing refers to the table whose turn it is.
LEMMA NothingRefers ==
    ASSUME PurgeInv, purge.kind = "game", ~purge.touched, NEW k \in 0..8, InOrder(k)
    PROVE  ~Refers(GameOrder[k + 1])
  <1>1. purge.late = {} /\ Running /\ content \subseteq Content
    BY DEF PurgeInv, Untouched, Running, DataInv, DataTypeOK
  <1>2. \A c \in purge.cleared : c \notin Alive.content
    BY <1>1 DEF Alive, Cleared
  <1>3. \A i \in 1..k : GameOrder[i] \in purge.cleared
    BY DEF InOrder
  <1>4. CASE k \in {0, 1, 2, 3}
    BY <1>4, OrderPlaces DEF Refers
  <1>5. CASE k = 4
    BY <1>2, <1>3, <1>5, OrderPlaces DEF Refers
  <1>6. CASE k = 5
    BY <1>2, <1>3, <1>6, OrderPlaces DEF Refers
  <1>7. CASE k = 6
    BY <1>7, OrderPlaces DEF Refers
  <1>8. CASE k = 7
    <2>1. /\ "listings" \in purge.cleared /\ "instances" \in purge.cleared
          /\ "wallets" \in purge.cleared
      BY <1>3, <1>8, OrderPlaces
    <2>2. Alive.wallets = {}
      BY <2>1 DEF Alive, PurgeInv, Untouched
    <2>. QED  BY <1>2, <1>8, <2>1, <2>2, OrderPlaces DEF Refers
  <1>9. CASE k = 8
    <2>1. /\ "listings" \in purge.cleared /\ "intents" \in purge.cleared
          /\ "players" \in purge.cleared
      BY <1>3, <1>9, OrderPlaces
    <2>2. Alive.players = {}
      BY <2>1 DEF Alive, PurgeInv, Untouched
    <2>. QED  BY <1>2, <1>9, <2>1, <2>2, OrderPlaces DEF Refers
  <1>. QED  BY <1>4, <1>5, <1>6, <1>7, <1>8, <1>9

\* A row that is inserted while a purge runs touches it.
LEMMA TouchInv ==
    ASSUME PurgeInv, DataInv', Touch
    PROVE  PurgeInv'
  <1>1. /\ purge' \in PurgeType /\ purge'.kind = purge.kind
        /\ purge'.touched = (purge.touched \/ Running)
        /\ purge'.deadlock = purge.deadlock
    BY DEF Touch, PurgeInv, PurgeType, Running
  <1>. QED
    BY <1>1 DEF PurgeInv, Untouched, GamePurgesFailByRacesOnly, Running

LEMMA SamePurgeInv ==
    ASSUME PurgeInv, DataInv', UNCHANGED <<purge, players, wallets>>
    PROVE  PurgeInv'
  BY DEF PurgeInv, Untouched, InOrder, GamePurgesFailByRacesOnly

LEMMA DeleteInv ==
    ASSUME PurgeInv, DataInv', Delete
    PROVE  PurgeInv'
  <1> DEFINE gone == Head(purge.left)
  <1>1. /\ purge.left # <<>> /\ UNCHANGED <<players, wallets, events, nonces>>
        /\ purge.kind \in {"game", "studio"}
    BY DEF Delete, Running, tableVars
  <1>4. gone = "wallets" => purge.scanning /\ purge.found \subseteq purge.wallets
    BY DEF Delete
  <1>2. CASE HasRows(gone) /\ Refers(gone)
    <2>1. purge' = [NoPurge EXCEPT !.kind = Failed(purge.kind), !.touched = purge.touched]
      BY <1>2 DEF Delete
    <2>2. /\ purge' \in PurgeType
          /\ purge'.kind = Failed(purge.kind) /\ purge'.touched = purge.touched
      BY <2>1, NoPurgeType DEF PurgeInv, PurgeType, Failed
    <2>3. purge.kind = "game" => purge.touched
      <3> SUFFICES ASSUME purge.kind = "game", ~purge.touched
                   PROVE  FALSE
        BY DEF PurgeInv, PurgeType
      <3>1. PICK k \in 0..9 : InOrder(k)
        BY DEF PurgeInv, Untouched
      <3>2. k \in 0..8 /\ gone = GameOrder[k + 1]
        BY <1>1, <3>1, OrderType, NextStatement DEF InOrder
      <3>. QED  BY <1>2, <3>1, <3>2, NothingRefers
    <2>. QED
      BY <1>1, <2>2, <2>3 DEF PurgeInv, Untouched, GamePurgesFailByRacesOnly, Failed
  <1>3. CASE ~(HasRows(gone) /\ Refers(gone))
    <2>1. purge' = [purge EXCEPT
                   !.left = Tail(@),
                   !.cleared = @ \cup {gone},
                   !.players = IF gone = "players" THEN players ELSE @,
                   !.events = IF gone = "events" THEN events ELSE @,
                   !.nonces = IF gone = "nonces" THEN nonces ELSE @]
      BY <1>3 DEF Delete
    <2>2. /\ gone \in Table /\ Tail(purge.left) \in Seq(Table)
          /\ players \in SUBSET Visit /\ wallets \in SUBSET Visit
          /\ events \in SUBSET [by : Visit, tx : Tx] /\ nonces \in SUBSET Nonce
      <3>1. purge.left \in Seq(Table) /\ purge.left # <<>>
        BY <1>1 DEF PurgeInv, PurgeType
      <3>2. gone \in Table /\ Tail(purge.left) \in Seq(Table)
        BY <3>1
      <3>. QED  BY <3>2 DEF PurgeInv, DataInv, DataTypeOK
    <2> HIDE DEF gone
    <2>3. purge' \in PurgeType
      BY <2>1, <2>2 DEF PurgeInv, PurgeType
    <2>4. /\ purge'.kind = purge.kind /\ purge'.touched = purge.touched
          /\ purge'.left = Tail(purge.left) /\ purge'.late = purge.late
          /\ purge'.cleared = purge.cleared \cup {gone}
          /\ purge'.players = IF gone = "players" THEN players ELSE purge.players
          /\ purge'.wallets = purge.wallets
          /\ purge'.scanning = purge.scanning /\ purge'.found = purge.found
      BY <2>1 DEF PurgeInv, PurgeType
    <2>5. Untouched'
      <3> SUFFICES ASSUME purge.kind = "game", ~purge.touched
                   PROVE  /\ purge'.late = {}
                          /\ \E k \in 0..9 : InOrder(k)'
                          /\ purge'.scanning => wallets' \subseteq purge'.found
                          /\ "wallets" \in purge'.cleared => wallets' \subseteq purge'.wallets
                          /\ "players" \in purge'.cleared => players' \subseteq purge'.players
        BY <2>4 DEF Untouched
      <3>1. PICK k \in 0..9 : InOrder(k)
        BY DEF PurgeInv, Untouched
      <3>2. /\ k \in 0..8 /\ gone = GameOrder[k + 1]
            /\ Tail(purge.left) = SubSeq(GameOrder, k + 2, 9)
        <4>1. purge.left = SubSeq(GameOrder, k + 1, Len(GameOrder)) /\ k \in 0..Len(GameOrder)
          BY <3>1, OrderType DEF InOrder
        <4>2. k < 9 /\ Head(purge.left) = GameOrder[k + 1]
              /\ Tail(purge.left) = SubSeq(GameOrder, k + 2, 9)
          BY <1>1, <4>1, OrderType, NextStatement
        <4>. QED  BY <4>2 DEF gone
      <3>3. InOrder(k + 1)'
        <4>1. \A i \in 1..(k + 1) : i \in 1..k \/ i = k + 1
          BY <3>2
        <4>. QED  BY <2>4, <3>1, <3>2, <4>1 DEF InOrder
      <3>4. gone = "wallets" => wallets \subseteq purge.wallets
        BY <1>4 DEF PurgeInv, Untouched
      <3>. QED
        BY <1>1, <2>4, <3>2, <3>3, <3>4 DEF PurgeInv, Untouched
    <2>. QED
      BY <1>1, <2>3, <2>4, <2>5 DEF PurgeInv, GamePurgesFailByRacesOnly
  <1>. QED  BY <1>2, <1>3

\* The statement on wallets finds its rows and deletes them.
LEMMA ScanInv ==
    ASSUME PurgeInv, DataInv', FindWallets \/ \E p \in Visit : DeleteWallet(p)
    PROVE  PurgeInv'
  <1>1. UNCHANGED <<players, wallets>> /\ wallets \in SUBSET Visit
    BY DEF FindWallets, DeleteWallet, tableVars, PurgeInv, DataInv, DataTypeOK
  <1>2. PICK scanning \in BOOLEAN, found \in SUBSET Visit, gone \in SUBSET Visit :
           /\ purge' = [purge EXCEPT !.scanning = scanning, !.found = found, !.wallets = gone]
           /\ purge.wallets \subseteq gone
           /\ scanning => (found = wallets \/ (purge.scanning /\ found = purge.found))
    <2>0. /\ purge.scanning \in BOOLEAN /\ purge.found \in SUBSET Visit
          /\ purge.wallets \in SUBSET Visit
          /\ purge = [purge EXCEPT !.scanning = @, !.found = @, !.wallets = @]
      BY DEF PurgeInv, PurgeType
    <2>1. CASE FindWallets
      <3>1. purge' = [purge EXCEPT !.scanning = TRUE, !.found = wallets,
                                   !.wallets = purge.wallets]
        BY <2>1 DEF FindWallets, PurgeInv, PurgeType
      <3>. QED  BY <1>1, <2>0, <3>1
    <2>2. ASSUME NEW p \in Visit, DeleteWallet(p)
          PROVE  /\ purge' = [purge EXCEPT !.scanning = purge.scanning, !.found = purge.found,
                                           !.wallets = purge.wallets \cup {p}]
                 /\ purge.scanning /\ purge.wallets \cup {p} \in SUBSET Visit
      BY <2>0, <2>2 DEF DeleteWallet, PurgeInv, PurgeType
    <2>3. CASE \E p \in Visit : DeleteWallet(p)
      <3>1. PICK gone \in SUBSET Visit :
              /\ purge' = [purge EXCEPT !.scanning = purge.scanning, !.found = purge.found,
                                        !.wallets = gone]
              /\ purge.scanning /\ purge.wallets \subseteq gone
        BY <2>2, <2>3
      <3>. QED  BY <2>0, <3>1
    <2>. QED  BY <2>1, <2>3
  <1>3. /\ purge' \in PurgeType /\ purge'.scanning = scanning /\ purge'.found = found
        /\ purge'.wallets = gone /\ purge'.players = purge.players
        /\ purge'.kind = purge.kind /\ purge'.left = purge.left
        /\ purge'.touched = purge.touched /\ purge'.deadlock = purge.deadlock
        /\ purge'.cleared = purge.cleared /\ purge'.late = purge.late
    BY <1>2 DEF PurgeInv, PurgeType
  <1>4. Untouched'
    BY <1>1, <1>2, <1>3 DEF PurgeInv, Untouched, InOrder
  <1>. QED
    BY <1>3, <1>4 DEF PurgeInv, GamePurgesFailByRacesOnly

\* A row of another module's table is inserted.
LEMMA ContentInv ==
    ASSUME PurgeInv, DataInv', NEW c \in Content, InsertContent(c)
    PROVE  PurgeInv'
  <1>1. purge' = [purge EXCEPT !.touched = @ \/ Running,
                               !.late = IF Cleared(c) THEN @ \cup {c} ELSE @]
    BY DEF InsertContent
  <1>2. /\ purge' \in PurgeType /\ purge'.kind = purge.kind
        /\ purge'.touched = (purge.touched \/ Running)
        /\ purge'.deadlock = purge.deadlock
    BY <1>1 DEF PurgeInv, PurgeType, Running
  <1>. QED
    BY <1>2 DEF PurgeInv, Untouched, GamePurgesFailByRacesOnly, Running

LEMMA AbortInv ==
    ASSUME PurgeInv, DataInv', NEW x \in Process, Abort(x)
    PROVE  PurgeInv'
  <1>1. CASE UNCHANGED purge
    BY <1>1, SamePurgeInv DEF Abort
  <1>2. CASE purge' = [NoPurge EXCEPT !.kind = Failed(purge.kind), !.deadlock = TRUE,
                                      !.touched = purge.touched]
    <2>1. /\ purge' \in PurgeType
          /\ purge'.kind \in {"failed game", "failed studio"} /\ purge'.deadlock
      BY <1>2, NoPurgeType DEF PurgeInv, PurgeType, Failed, NoPurge
    <2>. QED  BY <2>1 DEF PurgeInv, Untouched, GamePurgesFailByRacesOnly
  <1>. QED  BY <1>1, <1>2 DEF Abort

LEMMA PurgeStepInv == PurgeInv /\ [DataNext]_dataVars => PurgeInv'
  <1> SUFFICES ASSUME PurgeInv, [DataNext]_dataVars
               PROVE  PurgeInv'
    OBVIOUS
  <1>0. DataInv'
    BY DataStepInv DEF PurgeInv
  <1>1. ASSUME NEW r \in Visit, VisitStep(r)
        PROVE  PurgeInv'
    <2>1. CASE InsertPlayer(r) \/ InsertWallet(r)
      BY <1>0, <2>1, TouchInv, SamePurgeInv DEF InsertPlayer, InsertWallet
    <2>2. CASE UNCHANGED <<purge, players, wallets>>
      BY <1>0, <2>2, SamePurgeInv
    <2>. QED
      BY <1>1, <2>1, <2>2
         DEF VisitStep, Send, FindNonce, DeleteNonce, FindGame, FindIdentity, InsertIdentity,
             FindPlayer, SessionDone, FindWallet, FindEvent, InsertEvent, tableVars
  <1>2. ASSUME NEW n \in Nonce, IssueNonce(n) \/ NonceExpires(n)
        PROVE  PurgeInv'
    BY <1>0, <1>2, SamePurgeInv DEF IssueNonce, NonceExpires, tableVars
  <1>3. CASE CleanUp \/ UNCHANGED dataVars
    BY <1>0, <1>3, SamePurgeInv DEF CleanUp, dataVars, tableVars
  <1>4. ASSUME NEW c \in Content, OtherInsert(c)
        PROVE  PurgeInv'
    BY <1>0, <1>4, ContentInv DEF OtherInsert
  <1>5. ASSUME NEW kind \in {"game", "studio"}, BeginPurge(kind)
        PROVE  PurgeInv'
    <2>1. purge' = [NoPurge EXCEPT !.kind = kind, !.left = OrderOf(kind), !.started = Over]
      BY <1>5 DEF BeginPurge
    <2>2. OrderOf(kind) \in Seq(Table) /\ Over \in SUBSET Visit
      BY OrderType DEF OrderOf, Over
    <2>3. /\ purge' \in PurgeType /\ purge'.kind = kind /\ purge'.left = OrderOf(kind)
          /\ purge'.late = {} /\ purge'.cleared = {} /\ ~purge'.scanning
      BY <2>1, <2>2, NoPurgeType DEF PurgeType, NoPurge
    <2>4. kind = "game" => InOrder(0)'
      <3>1. GameOrder = SubSeq(GameOrder, 0 + 1, 9)
        BY OrderType
      <3>. QED  BY <2>3, <3>1 DEF InOrder, OrderOf
    <2>5. Untouched'
      BY <2>3, <2>4 DEF Untouched
    <2>. QED
      BY <1>0, <2>3, <2>5 DEF PurgeInv, GamePurgesFailByRacesOnly
  <1>6. CASE Delete
    BY <1>0, <1>6, DeleteInv
  <1>7. CASE CommitPurge
    <2>1. purge' = [NoPurge EXCEPT !.kind = "done", !.started = purge.started]
      BY <1>7 DEF CommitPurge
    <2>2. purge' \in PurgeType /\ purge'.kind = "done"
      BY <2>1, NoPurgeType DEF PurgeInv, PurgeType, NoPurge
    <2>. QED
      BY <1>0, <2>2 DEF PurgeInv, Untouched, GamePurgesFailByRacesOnly
  <1>8. CASE FindWallets \/ \E p \in Visit : DeleteWallet(p)
    BY <1>0, <1>8, ScanInv
  <1>9. ASSUME NEW t \in Payment, BeginPayment(t) \/ LockRow(t) \/ EndPayment(t)
        PROVE  PurgeInv'
    <2>1. "ledger" \in Content
      BY DEF Content
    <2>. QED
      BY <1>0, <1>9, <2>1, SamePurgeInv, ContentInv DEF BeginPayment, LockRow, EndPayment
  <1>10. CASE \E x \in Process : Abort(x)
    BY <1>0, <1>10, AbortInv
  <1>. QED
    BY <1>1, <1>2, <1>3, <1>4, <1>5, <1>6, <1>7, <1>8, <1>9, <1>10 DEF DataNext

(***************************************************************************)
(* GamePurgesFailByRacesOnly: the statements of a game's purge respect the *)
(* references between the tables; without a race none of them fails.       *)
(***************************************************************************)
THEOREM GamePurgesAreInOrder == DataSpec => []GamePurgesFailByRacesOnly
  <1>1. PurgeInv => GamePurgesFailByRacesOnly
    BY DEF PurgeInv
  <1>. QED
    BY PurgeInitInv, PurgeStepInv, <1>1, PTL DEF DataSpec

\* Rows, nonces, visits and what they refer to keep their types.
THEOREM DataTypeCorrect == DataSpec => []DataTypeOK
  <1>1. DataInv => DataTypeOK
    BY DEF DataInv
  <1>. QED
    BY DataInitInv, DataStepInv, <1>1, PTL DEF DataSpec

-----------------------------------------------------------------------------
(***************************************************************************)
(* The developer tools (Sandbox).                                          *)
(***************************************************************************)
Owners == UNION {[I -> Player] : I \in SUBSET NFTInstance}
Events == [game : Game, seeded : BOOLEAN]

Tables == [studio : BOOLEAN, lookalike : BOOLEAN, dotOwner : SUBSET Staff,
           plus : SUBSET Staff, users : SUBSET Account,
           members : SUBSET Account, games : SUBSET Game, players : SUBSET Player,
           wallets : SUBSET Player, templates : SUBSET Template, owner : Owners,
           marked : SUBSET NFTInstance, listings : SUBSET NFTInstance,
           events : SUBSET Events]

LEMMA OwnersAre ==
  ASSUME NEW f
  PROVE  f \in Owners <=> /\ DOMAIN f \subseteq NFTInstance
                          /\ f \in [DOMAIN f -> Player]
<1>1. ASSUME f \in Owners PROVE DOMAIN f \subseteq NFTInstance /\ f \in [DOMAIN f -> Player]
  <2>1. PICK I \in SUBSET NFTInstance : f \in [I -> Player]  BY <1>1 DEF Owners
  <2> QED  BY <2>1
<1>2. ASSUME DOMAIN f \subseteq NFTInstance, f \in [DOMAIN f -> Player] PROVE f \in Owners
  BY <1>2 DEF Owners
<1> QED  BY <1>1, <1>2

(***************************************************************************)
(* The statements a tool of a kind runs, the row a seed makes, and what a  *)
(* clear looks up in d, unless it is one that looks for studios and studio *)
(* or a person is named as if it were to be purged.                        *)
(***************************************************************************)
MadeBy == [seedMembers |-> {"user", "member"}, seedPlayers |-> {"user", "player"},
           seedGames |-> {"game"}, seedEvents |-> {"event"}, seedTemplates |-> {"template"},
           seedInstances |-> {"template", "mint", "count", "mark"}]

RowsToMake == [seedMembers |-> {"seedMember"}, seedPlayers |-> {"seedPlayer"},
               seedGames |-> {"seeded"}, seedEvents |-> Game, seedTemplates |-> Game,
               seedInstances |-> Player]

OnMembers == {"findStudio", "studio", "findMembers", "members", "users", "games",
              "events", "all events"}
StudioClears == {"clearStudios", "clearSandbox"}
RowClears == {"clearMembers", "clearGames", "clearEvents"}
MemberClears == StudioClears \cup RowClears

ClearedBy(kind) ==
  CASE kind \in StudioClears -> OnMembers
    [] kind \in RowClears -> OnMembers \ {"findStudio"}
    [] kind = "clearPlayers" -> {"find", "listings", "wallets", "instances of players",
                                 "players", "users of players"}
    [] kind = "clearTemplates" -> {"find", "instances of templates", "templates"}
    [] kind = "clearInstances" -> {"find", "instances"}
    [] kind = "reset" -> {"everything"}

RowsToFind(kind, d) ==
  CASE kind = "clearPlayers" -> {p \in Player : p[1] \in Plus(d)}
    [] kind = "clearTemplates" -> {x \in Template : x.seeded}
    [] kind = "clearInstances" -> {i \in NFTInstance : i.by = "seeds"}
    [] OTHER -> Plus(d) \ {"owner"}

Alike(kind, d) == kind \in StudioClears /\ (d.lookalike \/ d.dotOwner # {})

SeedOK(t) ==
  t = IdleTool \/
  \E kind \in DOMAIN MadeBy, g \in Game :
     \E x \in RowsToMake[kind], l \in Seq(MadeBy[kind]) :
        t = [kind |-> kind, game |-> g, left |-> l, found |-> {x}]

ClearKinds == MemberClears \cup {"clearPlayers", "clearTemplates", "clearInstances", "reset"}

ClearOK(t, d) ==
  t = [kind |-> "idle", game |-> "real", left |-> <<>>, found |-> t.found] \/
  \E kind \in ClearKinds, g \in Game, found \in {t.found} :
     \E l \in Seq(ClearedBy(kind)) :
        /\ t = [kind |-> kind, game |-> g, left |-> l, found |-> found]
        /\ ~Alike(kind, d) => found \subseteq RowsToFind(kind, d)

ToolInv ==
  /\ db \in Tables
  /\ db.marked \subseteq {i \in Instances(db) : i.by = "seeds"}
  /\ Intact(db)
  /\ tool = [s \in Slot |-> tool[s]]
  /\ SeedOK(tool["seed"])
  /\ ClearOK(tool["clear"], db)

-----------------------------------------------------------------------------
LEMMA InstancesGo ==
  ASSUME NEW d \in Tables, NEW I
  PROVE  LET e == WithoutInstances(d, I)
         IN  /\ e = [d EXCEPT !.owner = e.owner, !.marked = e.marked]
             /\ e \in Tables /\ Instances(e) = Instances(d) \ I
             /\ e.marked = d.marked \ I
<1> DEFINE e == WithoutInstances(d, I)
<1>0. d.owner \in Owners /\ d.marked \in SUBSET NFTInstance  BY DEF Tables
<1>1. e = [d EXCEPT !.owner = Restrict(d.owner, Instances(d) \ I), !.marked = d.marked \ I]
  BY DEF Tables, WithoutInstances
<1>2. /\ e.owner = Restrict(d.owner, Instances(d) \ I) /\ e.marked = d.marked \ I
      /\ e = [d EXCEPT !.owner = e.owner, !.marked = e.marked]
  BY <1>1 DEF Tables
<1>3. DOMAIN e.owner = Instances(d) \ I /\ e.owner \in Owners
  BY <1>0, <1>2, OwnersAre DEF Restrict, Instances
<1>4. e \in Tables
  BY <1>0, <1>2, <1>3 DEF Tables
<1> QED  BY <1>2, <1>3, <1>4 DEF Instances

(***************************************************************************)
(* What a clear leaves alone, between databases d and e.                   *)
(***************************************************************************)
Spares(d, e) ==
  /\ d.studio => e.studio
  /\ d.users \ e.users \subseteq Seedlike(d) \ d.members
  /\ d.members \ e.members \subseteq Plus(d) \ {"owner"}
  /\ d.games \ e.games \subseteq {"seeded"}
  /\ \A p \in (d.players \ e.players) \cup (d.wallets \ e.wallets) : OfSeeds(d, p)
  /\ \A t \in d.templates \ e.templates : SeededTemplate(t)
  /\ \A i \in Instances(d) \ Instances(e) : SeededInstance(d, i)
  /\ \A i \in d.listings \ e.listings : SeededInstance(d, i)
  /\ \A e1 \in d.events \ e.events : e1.seeded \/ e1.game = "seeded"

Fields(d, e) ==
  /\ e.users \subseteq d.users /\ e.members \subseteq d.members
  /\ e.games \subseteq d.games /\ e.players \subseteq d.players
  /\ e.wallets \subseteq d.wallets /\ e.templates \subseteq d.templates
  /\ e.listings \subseteq d.listings /\ e.events \subseteq d.events
  /\ Instances(e) \subseteq Instances(d) /\ e.marked \subseteq d.marked
  /\ d.marked \subseteq Instances(d) => e.marked \subseteq Instances(e)
  /\ e.lookalike = d.lookalike /\ e.dotOwner = d.dotOwner /\ e.plus = d.plus

(* A statement of a clear leaves a database, with fewer rows. *)
LEMMA ClearsAreTyped ==
  ASSUME NEW d \in Tables, NEW t,
         Head(t.left) \in OnMembers \cup {"listings", "wallets",
            "instances of players", "players", "users of players",
            "instances of templates", "templates", "instances", "everything"}
  PROVE  After(t, d) \in Tables /\ Fields(d, After(t, d))
<1> DEFINE step == Head(t.left)
<1>0. d.owner \in Owners  BY DEF Tables
<1>1. CASE step = "studio"
  <2> DEFINE e == WithoutInstances(d, Instances(d))
  <2>1. /\ e = [d EXCEPT !.owner = e.owner, !.marked = e.marked]
        /\ e \in Tables /\ Instances(e) = Instances(d) \ Instances(d)
        /\ e.marked = d.marked \ Instances(d)
    BY InstancesGo
  <2> HIDE DEF e
  <2>2. /\ WithoutStudio(d) \in Tables
        /\ Fields(d, WithoutStudio(d))
    <3>1. WithoutStudio(d) = [e EXCEPT !.wallets = {}, !.players = {}, !.templates = {},
             !.games = {}, !.members = {}, !.studio = FALSE]
      BY DEF WithoutStudio, e
    <3> DEFINE w == WithoutStudio(d)
    <3>2. /\ w.studio = FALSE /\ w.lookalike = e.lookalike /\ w.dotOwner = e.dotOwner
          /\ w.plus = e.plus /\ w.users = e.users
          /\ w.members = {} /\ w.games = {} /\ w.players = {} /\ w.wallets = {}
          /\ w.templates = {} /\ w.owner = e.owner /\ w.marked = e.marked
          /\ w.listings = e.listings /\ w.events = e.events
      BY <2>1, <3>1 DEF Tables
    <3>3. w \in Tables
      BY <2>1, <3>1 DEF Tables
    <3> HIDE DEF w
    <3> QED  BY <2>1, <3>2, <3>3 DEF Tables, Fields, Instances, w
  <2>3. After(t, d) \in {d, WithoutStudio(d)}
    BY <1>1 DEF After
  <2>4. Fields(d, d)  BY DEF Fields
  <2> QED  BY <2>2, <2>3, <2>4
<1>2. CASE step = "games"
  <2> DEFINE e == WithoutInstances(d, OfGame(d, "seeded"))
  <2>1. /\ e = [d EXCEPT !.owner = e.owner, !.marked = e.marked]
        /\ e \in Tables /\ Instances(e) = Instances(d) \ OfGame(d, "seeded")
        /\ e.marked = d.marked \ OfGame(d, "seeded")
    BY InstancesGo
  <2> HIDE DEF e
  <2>2. After(t, d) = [e EXCEPT !.listings = {i \in @ : i.template.game # "seeded"},
        !.events = {x \in @ : x.game # "seeded"},
        !.wallets = {p \in @ : p[2] # "seeded"},
        !.templates = {x \in @ : x.game # "seeded"},
        !.players = {p \in @ : p[2] # "seeded"},
        !.games = @ \ {"seeded"}]
    BY <1>2 DEF After, WithoutGame, e
  <2> DEFINE w == After(t, d)
             L == {i \in e.listings : i.template.game # "seeded"}
             E == {x \in e.events : x.game # "seeded"}
             W == {p \in e.wallets : p[2] # "seeded"}
             T == {x \in e.templates : x.game # "seeded"}
             P == {p \in e.players : p[2] # "seeded"}
  <2>a. w = [e EXCEPT !.listings = L, !.events = E, !.wallets = W,
                !.templates = T, !.players = P, !.games = e.games \ {"seeded"}]
    BY <2>1, <2>2 DEF Tables
  <2>b. /\ L \subseteq e.listings /\ E \subseteq e.events /\ W \subseteq e.wallets
        /\ T \subseteq e.templates /\ P \subseteq e.players
    OBVIOUS
  <2> HIDE DEF w, L, E, W, T, P
  <2>3. /\ w.studio = e.studio /\ w.lookalike = e.lookalike /\ w.dotOwner = e.dotOwner
        /\ w.plus = e.plus /\ w.users = e.users
        /\ w.members = e.members /\ w.owner = e.owner /\ w.marked = e.marked
        /\ w.games = e.games \ {"seeded"} /\ w.players = P
        /\ w.wallets = W /\ w.templates = T /\ w.listings = L /\ w.events = E
    BY <2>1, <2>a DEF Tables
  <2>4. w \in Tables
    BY <2>1, <2>a, <2>b DEF Tables
  <2> QED  BY <2>1, <2>b, <2>3, <2>4 DEF Tables, Fields, Instances, w
<1>3. CASE step = "members"
  <2>1. After(t, d) = [d EXCEPT !.members = @ \ t.found]  BY <1>3 DEF After
  <2> QED  BY <2>1 DEF Tables, Fields, Instances
<1>4. CASE step \in {"users", "users of players"}
  <2>1. PICK U : After(t, d) = WithoutUsers(d, U)  BY <1>4 DEF After
  <2> QED  BY <2>1 DEF Tables, Fields, Instances, WithoutUsers
<1>5. CASE step = "listings"
  <2>1. After(t, d) = [d EXCEPT !.listings =
                {i \in @ : i \in Instances(d) => d.owner[i] \notin t.found}]
    BY <1>5 DEF After
  <2> QED  BY <2>1 DEF Tables, Fields, Instances
<1>6. CASE step = "wallets"
  <2>1. After(t, d) = [d EXCEPT !.wallets = @ \ t.found]  BY <1>6 DEF After
  <2> QED  BY <2>1 DEF Tables, Fields, Instances
<1>7. CASE step \in {"instances of players", "instances of templates", "instances"}
  <2>1. PICK I : After(t, d) = WithoutInstances(d, I)  BY <1>7 DEF After
  <2> DEFINE e == WithoutInstances(d, I)
  <2>2. /\ e = [d EXCEPT !.owner = e.owner, !.marked = e.marked]
        /\ e \in Tables /\ Instances(e) = Instances(d) \ I /\ e.marked = d.marked \ I
    BY InstancesGo
  <2> HIDE DEF e
  <2> QED  BY <2>1, <2>2 DEF Tables, Fields, e
<1>8. CASE step = "players"
  <2>1. After(t, d) = [d EXCEPT !.players = @ \ t.found]  BY <1>8 DEF After
  <2> QED  BY <2>1 DEF Tables, Fields, Instances
<1>9. CASE step = "templates"
  <2>1. After(t, d) = [d EXCEPT !.templates = @ \ t.found]  BY <1>9 DEF After
  <2> QED  BY <2>1 DEF Tables, Fields, Instances
<1>10. CASE step \in {"events", "all events"}
  <2>1. PICK E : After(t, d) = [d EXCEPT !.events = @ \ E]  BY <1>10 DEF After
  <2> QED  BY <2>1 DEF Tables, Fields, Instances
<1>11. CASE step = "everything"
  <2> DEFINE e == WithoutInstances(d, Instances(d))
  <2>1. /\ e = [d EXCEPT !.owner = e.owner, !.marked = e.marked]
        /\ e \in Tables /\ Instances(e) = Instances(d) \ Instances(d)
        /\ e.marked = d.marked \ Instances(d)
    BY InstancesGo
  <2> HIDE DEF e
  <2>2. After(t, d) = [[e EXCEPT !.wallets = {}, !.players = {}, !.templates = {},
             !.games = {}, !.members = {}, !.studio = FALSE]
                EXCEPT !.users = {}, !.listings = {}, !.events = {}]
    BY <1>11 DEF After, Emptied, WithoutStudio, e
  <2> DEFINE w == After(t, d)
  <2>3. /\ w.lookalike = e.lookalike /\ w.dotOwner = e.dotOwner /\ w.plus = e.plus
        /\ w.users = {} /\ w.members = {} /\ w.games = {} /\ w.players = {}
        /\ w.wallets = {} /\ w.templates = {} /\ w.owner = e.owner /\ w.marked = e.marked
        /\ w.listings = {} /\ w.events = {}
    BY <2>1, <2>2 DEF Tables
  <2>4. w \in Tables
    BY <2>1, <2>2 DEF Tables
  <2> HIDE DEF w
  <2> QED  BY <2>1, <2>3, <2>4 DEF Tables, Fields, Instances, w
<1>12. CASE step \in {"findStudio", "findMembers"}
  <2>1. After(t, d) = d  BY <1>12 DEF After
  <2> QED  BY <2>1 DEF Fields
<1> QED
  BY <1>1, <1>2, <1>3, <1>4, <1>5, <1>6, <1>7, <1>8, <1>9, <1>10, <1>11, <1>12 DEF OnMembers

(* A statement of a clear spares what the seeds did not make. *)
LEMMA ClearsSpare ==
  ASSUME NEW d \in Tables, NEW kind \in ClearKinds \ {"reset"}, NEW g \in Game, NEW found,
         NEW l, NEW t, t = [kind |-> kind, game |-> g, left |-> l, found |-> found],
         found \subseteq RowsToFind(kind, d), Head(l) \in ClearedBy(kind)
  PROVE  Spares(d, After(t, d))
<1> DEFINE step == Head(t.left)
           MembersOnly == kind \in MemberClears /\ found \subseteq Plus(d) \ {"owner"}
           Players == kind = "clearPlayers" /\ found \subseteq {p \in Player : p[1] \in Plus(d)}
           Templates == kind = "clearTemplates" /\ found \subseteq {x \in Template : x.seeded}
           Copies == kind = "clearInstances"
                        /\ found \subseteq {i \in NFTInstance : i.by = "seeds"}
<1>0. /\ t.found = found /\ step = Head(l)
      /\ d.players \subseteq Player /\ d.wallets \subseteq Player
      /\ "studio" \notin Plus(d)
  <2>1. /\ d.players \subseteq Player /\ d.wallets \subseteq Player
        /\ d.plus \subseteq Staff
    BY DEF Tables
  <2>2. "studio" \notin Staff /\ "studio" # "seedMember"
    BY DEF Staff
  <2> QED  BY <2>1, <2>2 DEF Plus
<1>a. \/ MembersOnly /\ step \in OnMembers
      \/ Players /\ step \in {"find", "listings", "wallets", "instances of players",
                              "players", "users of players"}
      \/ Templates /\ step \in {"find", "instances of templates", "templates"}
      \/ Copies /\ step \in {"find", "instances"}
  BY <1>0 DEF ClearKinds, MemberClears, StudioClears, RowClears, ClearedBy, RowsToFind
<1>1. CASE step \in {"find", "findStudio", "findMembers", "studio"}
  <2>1. step = "studio" => "studio" \notin found
    <3>1. step = "studio" => MembersOnly
      BY <1>a
    <3>. QED  BY <1>0, <3>1
  <2>2. After(t, d) = d  BY <1>0, <1>1, <2>1 DEF After
  <2> QED  BY <2>2 DEF Spares
<1>2. CASE step = "games"
  <2> DEFINE e == WithoutInstances(d, OfGame(d, "seeded"))
  <2>1. /\ e = [d EXCEPT !.owner = e.owner, !.marked = e.marked]
        /\ e \in Tables /\ Instances(e) = Instances(d) \ OfGame(d, "seeded")
    BY InstancesGo
  <2> HIDE DEF e
  <2>2. After(t, d) = [e EXCEPT !.listings = {i \in @ : i.template.game # "seeded"},
        !.events = {x \in @ : x.game # "seeded"},
        !.wallets = {p \in @ : p[2] # "seeded"},
        !.templates = {x \in @ : x.game # "seeded"},
        !.players = {p \in @ : p[2] # "seeded"},
        !.games = @ \ {"seeded"}]
    BY <1>2 DEF After, WithoutGame, e
  <2> DEFINE w == After(t, d)
             L == {i \in d.listings : i.template.game # "seeded"}
             E == {x \in d.events : x.game # "seeded"}
             W == {p \in d.wallets : p[2] # "seeded"}
             T == {x \in d.templates : x.game # "seeded"}
             P == {p \in d.players : p[2] # "seeded"}
  <2>3. /\ e.listings = d.listings /\ e.events = d.events /\ e.wallets = d.wallets
        /\ e.templates = d.templates /\ e.players = d.players /\ e.games = d.games
        /\ e.users = d.users /\ e.members = d.members /\ e.studio = d.studio
    BY <2>1 DEF Tables
  <2>4. w = [e EXCEPT !.listings = L, !.events = E, !.wallets = W,
                !.templates = T, !.players = P, !.games = d.games \ {"seeded"}]
    BY <2>1, <2>2, <2>3 DEF Tables
  <2> HIDE DEF w, L, E, W, T, P
  <2>5. /\ w.studio = d.studio /\ w.users = d.users /\ w.members = d.members
        /\ w.games = d.games \ {"seeded"} /\ Instances(w) = Instances(e)
        /\ w.players = P /\ w.wallets = W /\ w.templates = T /\ w.listings = L /\ w.events = E
    BY <2>1, <2>3, <2>4 DEF Tables, Instances
  <2>6. Spares(d, w)
    BY <2>1, <2>5 DEF Spares, OfSeeds, SeededTemplate, SeededInstance, OfGame, L, E, W, T, P
  <2> QED  BY <2>6 DEF w
<1>3. CASE step = "members"
  <2>1. After(t, d) = [d EXCEPT !.members = @ \ found]  BY <1>0, <1>3 DEF After
  <2>2. MembersOnly  BY <1>a, <1>3
  <2> QED  BY <2>1, <2>2 DEF Tables, Spares, Instances
<1>4. CASE step \in {"users", "users of players"}
  <2>1. PICK U : After(t, d) = WithoutUsers(d, U) /\ U \subseteq Plus(d) \ d.members
    <3>1. CASE step = "users"
      <4>1. After(t, d) = WithoutUsers(d, found \ d.members)
        BY <1>0, <3>1 DEF After
      <4> QED  BY <1>a, <3>1, <4>1
    <3>2. CASE step = "users of players"
      <4>1. After(t, d) = WithoutUsers(d, {p[1] : p \in found}
                              \ (d.members \cup {p[1] : p \in d.players}))
        BY <1>0, <3>2 DEF After
      <4>2. {p[1] : p \in found} \subseteq Plus(d)
        BY <1>a, <3>2 DEF OnMembers
      <4> QED  BY <4>1, <4>2
    <3> QED  BY <1>4, <3>1, <3>2
  <2> QED  BY <2>1 DEF Tables, Spares, Instances, WithoutUsers, Seedlike
<1>5. CASE step \in {"listings", "wallets", "players"}
  <2>1. Players  BY <1>a, <1>5 DEF OnMembers
  <2>2. \A p \in found : OfSeeds(d, p)  BY <2>1 DEF OfSeeds, Seedlike
  <2>3. CASE step = "listings"
    <3>1. After(t, d) = [d EXCEPT !.listings =
                  {i \in @ : i \in Instances(d) => d.owner[i] \notin found}]
      BY <1>0, <2>3 DEF After
    <3> QED  BY <2>2, <3>1 DEF Tables, Spares, Instances, SeededInstance
  <2>4. CASE step = "wallets"
    <3>1. After(t, d) = [d EXCEPT !.wallets = @ \ found]  BY <1>0, <2>4 DEF After
    <3> QED  BY <2>2, <3>1 DEF Tables, Spares, Instances
  <2>5. CASE step = "players"
    <3>1. After(t, d) = [d EXCEPT !.players = @ \ found]  BY <1>0, <2>5 DEF After
    <3> QED  BY <2>2, <3>1 DEF Tables, Spares, Instances
  <2> QED  BY <1>5, <2>3, <2>4, <2>5
<1>6. CASE step \in {"instances of players", "instances of templates", "instances"}
  <2>1. PICK I : /\ After(t, d) = WithoutInstances(d, I)
                 /\ \A i \in I : SeededInstance(d, i)
    <3>1. CASE step = "instances of players"
      <4>1. After(t, d) = WithoutInstances(d, {i \in Instances(d) : d.owner[i] \in found})
        BY <1>0, <3>1 DEF After
      <4>2. Players  BY <1>a, <3>1 DEF OnMembers
      <4>3. \A i \in {i \in Instances(d) : d.owner[i] \in found} : SeededInstance(d, i)
        BY <4>2 DEF SeededInstance, OfSeeds, Seedlike
      <4> QED  BY <4>1, <4>3
    <3>2. CASE step = "instances of templates"
      <4>1. After(t, d) = WithoutInstances(d, {i \in Instances(d) : i.template \in found})
        BY <1>0, <3>2 DEF After
      <4>2. Templates  BY <1>a, <3>2 DEF OnMembers
      <4>3. \A i \in {i \in Instances(d) : i.template \in found} : SeededInstance(d, i)
        BY <4>2 DEF SeededInstance, SeededTemplate
      <4> QED  BY <4>1, <4>3
    <3>3. CASE step = "instances"
      <4>1. After(t, d) = WithoutInstances(d, found)
        BY <1>0, <3>3 DEF After
      <4>2. Copies  BY <1>a, <3>3 DEF OnMembers
      <4> QED  BY <4>1, <4>2 DEF SeededInstance
    <3> QED  BY <1>6, <3>1, <3>2, <3>3
  <2> DEFINE e == WithoutInstances(d, I)
  <2>2. /\ e = [d EXCEPT !.owner = e.owner, !.marked = e.marked]
        /\ e \in Tables /\ Instances(e) = Instances(d) \ I
    BY InstancesGo
  <2> HIDE DEF e
  <2> QED  BY <2>1, <2>2 DEF Tables, Spares, e
<1>7. CASE step = "templates"
  <2>1. After(t, d) = [d EXCEPT !.templates = @ \ found]  BY <1>0, <1>7 DEF After
  <2>2. Templates  BY <1>a, <1>7 DEF OnMembers
  <2> QED  BY <2>1, <2>2 DEF Tables, Spares, Instances, SeededTemplate
<1>8. CASE step \in {"events", "all events"}
  <2>1. PICK G : After(t, d) = [d EXCEPT !.events = @ \ SeedEvents(d, G)]
    BY <1>8 DEF After
  <2> QED  BY <2>1 DEF Tables, Spares, Instances, SeedEvents
<1> HIDE DEF MembersOnly, Players, Templates, Copies
<1> QED
  BY <1>a, <1>1, <1>2, <1>3, <1>4, <1>5, <1>6, <1>7, <1>8 DEF OnMembers
(***************************************************************************)
(* Seeds and people only add rows.                                         *)
(***************************************************************************)
Adds(d, e) ==
  /\ e.studio = d.studio /\ e.lookalike = d.lookalike
  /\ e.dotOwner = d.dotOwner /\ e.plus = d.plus
  /\ d.users \subseteq e.users /\ d.members \subseteq e.members
  /\ d.games \subseteq e.games /\ d.players \subseteq e.players
  /\ d.wallets \subseteq e.wallets /\ d.templates \subseteq e.templates
  /\ d.listings \subseteq e.listings /\ d.events \subseteq e.events
  /\ Instances(d) \subseteq Instances(e)
  /\ \A i \in e.marked : i \in d.marked \/ (i \in Instances(e) /\ i.by = "seeds")

LEMMA MintsAdd ==
  ASSUME NEW d \in Tables, NEW i \in NFTInstance, NEW p \in Player
  PROVE  /\ Minted(d, i, p) \in Tables /\ Adds(d, Minted(d, i, p))
         /\ i \in Instances(Minted(d, i, p))
<1> DEFINE f == [j \in Instances(d) \cup {i} |-> IF j \in Instances(d) THEN d.owner[j] ELSE p]
<1>0. d.owner \in Owners  BY DEF Tables
<1>1. f \in Owners
  BY <1>0, OwnersAre DEF Instances
<1>2. Minted(d, i, p) = [d EXCEPT !.owner = f]
  BY DEF Tables, Minted
<1>3. DOMAIN f = Instances(d) \cup {i}
  OBVIOUS
<1> HIDE DEF f
<1> QED  BY <1>1, <1>2, <1>3 DEF Tables, Adds, Instances

LEMMA RowsAdd ==
  ASSUME NEW d \in Tables, NEW e,
         \/ \E x \in Account : e = [d EXCEPT !.users = @ \cup {x}]
         \/ \E x \in Account : e = [d EXCEPT !.members = @ \cup {x}]
         \/ \E x \in Player : e = [d EXCEPT !.players = @ \cup {x}]
         \/ \E x \in Game : e = [d EXCEPT !.games = @ \cup {x}]
         \/ \E x \in Events : e = [d EXCEPT !.events = @ \cup {x}]
         \/ \E x \in Template : e = [d EXCEPT !.templates = @ \cup {x}]
         \/ \E x \in Instances(d) : e = [d EXCEPT !.listings = @ \cup {x}]
         \/ \E x \in Player : e = [d EXCEPT !.players = @ \cup {x}, !.wallets = @ \cup {x}]
  PROVE  e \in Tables /\ Adds(d, e)
<1>0. d.owner \in Owners /\ Instances(d) \subseteq NFTInstance
  BY OwnersAre DEF Tables, Instances
<1>1. ASSUME NEW x \in Account, e = [d EXCEPT !.users = @ \cup {x}]
      PROVE  e \in Tables /\ Adds(d, e)
  BY <1>1 DEF Tables, Adds, Instances
<1>2. ASSUME NEW x \in Account, e = [d EXCEPT !.members = @ \cup {x}]
      PROVE  e \in Tables /\ Adds(d, e)
  BY <1>2 DEF Tables, Adds, Instances
<1>3. ASSUME NEW x \in Player, e = [d EXCEPT !.players = @ \cup {x}]
      PROVE  e \in Tables /\ Adds(d, e)
  BY <1>3 DEF Tables, Adds, Instances
<1>4. ASSUME NEW x \in Game, e = [d EXCEPT !.games = @ \cup {x}]
      PROVE  e \in Tables /\ Adds(d, e)
  BY <1>4 DEF Tables, Adds, Instances
<1>5. ASSUME NEW x \in Events, e = [d EXCEPT !.events = @ \cup {x}]
      PROVE  e \in Tables /\ Adds(d, e)
  BY <1>5 DEF Tables, Adds, Instances
<1>6. ASSUME NEW x \in Template, e = [d EXCEPT !.templates = @ \cup {x}]
      PROVE  e \in Tables /\ Adds(d, e)
  BY <1>6 DEF Tables, Adds, Instances
<1>7. ASSUME NEW x \in Instances(d), e = [d EXCEPT !.listings = @ \cup {x}]
      PROVE  e \in Tables /\ Adds(d, e)
  BY <1>0, <1>7 DEF Tables, Adds, Instances
<1>8. ASSUME NEW x \in Player, e = [d EXCEPT !.players = @ \cup {x}, !.wallets = @ \cup {x}]
      PROVE  e \in Tables /\ Adds(d, e)
  BY <1>8 DEF Tables, Adds, Instances
<1> QED  BY <1>1, <1>2, <1>3, <1>4, <1>5, <1>6, <1>7, <1>8

LEMMA SeedsAdd ==
  ASSUME NEW d \in Tables, NEW kind \in DOMAIN MadeBy, NEW g \in Game,
         NEW x \in RowsToMake[kind], NEW l, Head(l) \in MadeBy[kind],
         NEW t, t = [kind |-> kind, game |-> g, left |-> l, found |-> {x}]
  PROVE  Made(t, d) \in Tables /\ Adds(d, Made(t, d))
<1> DEFINE step == Head(t.left)
           made == InstanceOf(g)
<1>0. t.game = g /\ t.found = {x} /\ step = Head(l) /\ (CHOOSE y \in t.found : TRUE) = x
  OBVIOUS
<1>1. CASE step = "user"
  <2>1. x \in Account  BY <1>0, <1>1 DEF MadeBy, RowsToMake, Account
  <2>2. Made(t, d) = [d EXCEPT !.users = @ \cup {x}]  BY <1>0, <1>1 DEF Made
  <2> QED  BY <2>1, <2>2, RowsAdd
<1>2. CASE step = "member"
  <2>1. x \in Account  BY <1>0, <1>2 DEF MadeBy, RowsToMake, Account
  <2>2. Made(t, d) = [d EXCEPT !.members = @ \cup {x}]  BY <1>0, <1>2 DEF Made
  <2> QED  BY <2>1, <2>2, RowsAdd
<1>3. CASE step = "player"
  <2>1. <<x, g>> \in Player  BY <1>0, <1>3 DEF MadeBy, RowsToMake, Account, Player
  <2>2. Made(t, d) = [d EXCEPT !.players = @ \cup {<<x, g>>}]
    BY <1>0, <1>3 DEF Made, PlayerOf
  <2> QED  BY <2>1, <2>2, RowsAdd
<1>4. CASE step = "game"
  <2>1. x \in Game  BY <1>0, <1>4 DEF MadeBy, RowsToMake, Game
  <2>2. Made(t, d) = [d EXCEPT !.games = @ \cup {x}]  BY <1>0, <1>4 DEF Made
  <2> QED  BY <2>1, <2>2, RowsAdd
<1>5. CASE step = "event"
  <2>1. x \in Game  BY <1>0, <1>5 DEF MadeBy, RowsToMake
  <2>2. SeededEvent(x) \in Events  BY <2>1 DEF SeededEvent, Events
  <2>3. Made(t, d) = [d EXCEPT !.events = @ \cup {SeededEvent(x)}]  BY <1>0, <1>5 DEF Made
  <2> QED  BY <2>2, <2>3, RowsAdd
<1>6. CASE step \in {"template", "count"}
  <2>1. TemplateOf(g) \in Template  BY DEF TemplateOf, Template
  <2>2. Made(t, d) = [d EXCEPT !.templates = @ \cup {TemplateOf(g)}]
    BY <1>0, <1>6 DEF Made
  <2> QED  BY <2>1, <2>2, RowsAdd
<1>7. CASE step \in {"mint", "mark"}
  <2>1. x \in Player /\ made \in NFTInstance /\ made.by = "seeds"
    BY <1>0, <1>7 DEF MadeBy, RowsToMake, InstanceOf, TemplateOf, Template, NFTInstance
  <2> DEFINE m == Minted(d, made, x)
  <2>2. m \in Tables /\ Adds(d, m) /\ made \in Instances(m)
    BY <2>1, MintsAdd
  <2>3. Made(t, d) = m \/ Made(t, d) = [m EXCEPT !.marked = @ \cup {made}]
    BY <1>0, <1>7 DEF Made
  <2> HIDE DEF m, made
  <2>4. ASSUME NEW e, e = [m EXCEPT !.marked = @ \cup {made}]
        PROVE  e \in Tables /\ Adds(d, e)
    <3>1. e \in Tables  BY <2>1, <2>2, <2>4 DEF Tables
    <3>2. /\ e.studio = m.studio /\ e.lookalike = m.lookalike /\ e.users = m.users
          /\ e.dotOwner = m.dotOwner /\ e.plus = m.plus
          /\ e.members = m.members /\ e.games = m.games /\ e.players = m.players
          /\ e.wallets = m.wallets /\ e.templates = m.templates
          /\ e.listings = m.listings /\ e.events = m.events
          /\ Instances(e) = Instances(m) /\ e.marked = m.marked \cup {made}
      BY <2>2, <2>4 DEF Tables, Instances
    <3> QED  BY <2>1, <2>2, <3>1, <3>2 DEF Adds
  <2> QED  BY <2>2, <2>3, <2>4
<1> QED
  BY <1>0, <1>1, <1>2, <1>3, <1>4, <1>5, <1>6, <1>7 DEF MadeBy

-----------------------------------------------------------------------------
LEMMA IdleIsOK ==
  ASSUME NEW d
  PROVE  SeedOK(IdleTool) /\ ClearOK(IdleTool, d)
<1>1. IdleTool.found = {}  BY DEF IdleTool
<1>2. IdleTool = [kind |-> "idle", game |-> "real", left |-> <<>>, found |-> IdleTool.found]
  BY <1>1 DEF IdleTool
<1>4. ClearOK(IdleTool, d)  BY <1>2 DEF ClearOK
<1>5. SeedOK(IdleTool)  BY DEF SeedOK
<1> QED  BY <1>4, <1>5

LEMMA ToolInvInit == SandboxInit => ToolInv
<1> SUFFICES ASSUME SandboxInit PROVE ToolInv
  OBVIOUS
<1>1. <<>> \in Owners
  <2>1. DOMAIN <<>> = {} /\ <<>> \in [{} -> Player]  OBVIOUS
  <2> QED  BY <2>1, OwnersAre
<1>2. PICK a \in BOOLEAN, o \in SUBSET Staff, u \in SUBSET Staff :
        db = [studio |-> TRUE, lookalike |-> a, dotOwner |-> o, plus |-> u,
              users |-> Staff, members |-> Staff, games |-> {"real"},
              players |-> {}, wallets |-> {}, templates |-> {}, owner |-> <<>>,
              marked |-> {}, listings |-> {}, events |-> {}]
  BY DEF SandboxInit
<1>3. db \in Tables
  <2>1. {"real"} \in SUBSET Game /\ Staff \in SUBSET Account
    BY DEF Account, Staff, Game
  <2>2. ASSUME NEW f \in Owners, NEW g \in SUBSET Game, NEW p \in SUBSET Account
        PROVE  [studio |-> TRUE, lookalike |-> a, dotOwner |-> o, plus |-> u,
                users |-> p, members |-> p, games |-> g,
                players |-> {}, wallets |-> {}, templates |-> {}, owner |-> f,
                marked |-> {}, listings |-> {}, events |-> {}] \in Tables
    BY DEF Tables
  <2> QED  BY <1>1, <1>2, <2>1, <2>2
<1>4. Instances(db) = {}
  BY <1>2 DEF Instances
<1>5. Intact(db)
  BY <1>2, <1>4 DEF Intact
<1> QED
  BY <1>2, <1>3, <1>4, <1>5, IdleIsOK DEF SandboxInit, ToolInv, Slot

LEMMA Scripts ==
  ASSUME NEW kind \in ClearKinds
  PROVE  kind \in DOMAIN ClearScript /\ ClearScript[kind] \in Seq(ClearedBy(kind))
<1>1. MembersScript \in Seq(OnMembers) /\ StudiosScript \in Seq(OnMembers)
  BY DEF MembersScript, StudiosScript, OnMembers
<1>2. <<"games">> \in Seq(OnMembers) /\ <<"all events">> \in Seq(OnMembers)
      /\ <<"events">> \in Seq(OnMembers)
  BY DEF OnMembers
<1>3. SandboxScript \in Seq(OnMembers)
  <2>1. StudiosScript \o <<"games">> \in Seq(OnMembers)  BY <1>1, <1>2, ConcatProperties
  <2>2. (StudiosScript \o <<"games">>) \o MembersScript \in Seq(OnMembers)
    BY <1>1, <2>1, ConcatProperties
  <2>3. ((StudiosScript \o <<"games">>) \o MembersScript) \o <<"all events">> \in Seq(OnMembers)
    BY <1>2, <2>2, ConcatProperties
  <2> QED  BY <2>3 DEF SandboxScript
<1>4. kind \in DOMAIN ClearScript
  BY DEF ClearScript, ClearKinds, MemberClears, StudioClears, RowClears
<1>5. CASE kind \in MemberClears
  <2>1. /\ ClearScript.clearMembers = MembersScript
        /\ ClearScript.clearStudios = StudiosScript
        /\ ClearScript.clearSandbox = SandboxScript
        /\ ClearScript.clearGames = <<"games">>
        /\ ClearScript.clearEvents = <<"events">>
    BY DEF ClearScript
  <2>2. CASE kind \in StudioClears
    <3>1. ClearedBy(kind) = OnMembers
      BY <2>2 DEF ClearedBy, StudioClears, RowClears
    <3>2. ClearScript[kind] \in Seq(OnMembers)
      BY <1>1, <1>3, <2>1, <2>2 DEF StudioClears
    <3> QED  BY <1>4, <3>1, <3>2
  <2>3. CASE kind \in RowClears
    <3> DEFINE steps == OnMembers \ {"findStudio"}
    <3>1. ClearedBy(kind) = steps
      BY <2>3 DEF ClearedBy, StudioClears, RowClears
    <3>2. MembersScript \in Seq(steps) /\ <<"games">> \in Seq(steps) /\ <<"events">> \in Seq(steps)
      BY DEF MembersScript, OnMembers
    <3> HIDE DEF steps
    <3>3. ClearScript[kind] \in Seq(steps)
      BY <2>1, <2>3, <3>2 DEF RowClears
    <3> QED  BY <1>4, <3>1, <3>3
  <2> QED  BY <1>5, <2>2, <2>3 DEF MemberClears
<1>6. CASE kind = "clearPlayers"
  <2> DEFINE script == <<"find", "listings", "wallets", "instances of players", "players", "users of players">>
             steps == {"find", "listings", "wallets", "instances of players", "players", "users of players"}
  <2>1. ClearScript.clearPlayers = script
    BY DEF ClearScript
  <2>2. ClearedBy("clearPlayers") = steps
    BY DEF ClearedBy, MemberClears, StudioClears, RowClears
  <2>3. script \in Seq(steps)
    OBVIOUS
  <2> HIDE DEF script, steps
  <2> QED  BY <1>4, <1>6, <2>1, <2>2, <2>3
<1>7. CASE kind = "clearTemplates"
  <2> DEFINE script == <<"find", "instances of templates", "templates">>
             steps == {"find", "instances of templates", "templates"}
  <2>1. ClearScript.clearTemplates = script
    BY DEF ClearScript
  <2>2. ClearedBy("clearTemplates") = steps
    BY DEF ClearedBy, MemberClears, StudioClears, RowClears
  <2>3. script \in Seq(steps)
    OBVIOUS
  <2> HIDE DEF script, steps
  <2> QED  BY <1>4, <1>7, <2>1, <2>2, <2>3
<1>8. CASE kind = "clearInstances"
  <2> DEFINE script == <<"find", "instances">>
             steps == {"find", "instances"}
  <2>1. ClearScript.clearInstances = script
    BY DEF ClearScript
  <2>2. ClearedBy("clearInstances") = steps
    BY DEF ClearedBy, MemberClears, StudioClears, RowClears
  <2>3. script \in Seq(steps)
    OBVIOUS
  <2> HIDE DEF script, steps
  <2> QED  BY <1>4, <1>8, <2>1, <2>2, <2>3
<1>9. CASE kind = "reset"
  <2> DEFINE script == <<"everything">>
             steps == {"everything"}
  <2>1. ClearScript.reset = script
    BY DEF ClearScript
  <2>2. ClearedBy("reset") = steps
    BY DEF ClearedBy, MemberClears, StudioClears, RowClears
  <2>3. script \in Seq(steps)
    OBVIOUS
  <2> HIDE DEF script, steps
  <2> QED  BY <1>4, <1>9, <2>1, <2>2, <2>3
<1> QED
  BY <1>5, <1>6, <1>7, <1>8, <1>9 DEF ClearKinds
LEMMA SeedScripts ==
  ASSUME NEW kind \in DOMAIN MadeBy
  PROVE  kind \in DOMAIN SeedScript /\ SeedScript[kind] \in Seq(MadeBy[kind])
<1>1. kind \in DOMAIN SeedScript
  BY DEF SeedScript, MadeBy
<1>2. /\ SeedScript.seedMembers = <<"user", "member">>
      /\ SeedScript.seedPlayers = <<"user", "player">>
      /\ SeedScript.seedGames = <<"game">> /\ SeedScript.seedEvents = <<"event">>
      /\ SeedScript.seedTemplates = <<"template">>
      /\ SeedScript.seedInstances = <<"template", "mint", "count", "mark">>
  BY DEF SeedScript
<1>3. /\ MadeBy.seedMembers = {"user", "member"} /\ MadeBy.seedPlayers = {"user", "player"}
      /\ MadeBy.seedGames = {"game"} /\ MadeBy.seedEvents = {"event"}
      /\ MadeBy.seedTemplates = {"template"}
      /\ MadeBy.seedInstances = {"template", "mint", "count", "mark"}
  BY DEF MadeBy
<1>4. /\ <<"user", "member">> \in Seq({"user", "member"})
      /\ <<"user", "player">> \in Seq({"user", "player"})
      /\ <<"game">> \in Seq({"game"}) /\ <<"event">> \in Seq({"event"})
      /\ <<"template">> \in Seq({"template"})
      /\ <<"template", "mint", "count", "mark">> \in Seq({"template", "mint", "count", "mark"})
  OBVIOUS
<1>5. kind \in {"seedMembers", "seedPlayers", "seedGames", "seedEvents", "seedTemplates",
                "seedInstances"}
  BY DEF MadeBy
<1> QED  BY <1>1, <1>2, <1>3, <1>4, <1>5

LEMMA Advances ==
  ASSUME NEW S, NEW l \in Seq(S), l # <<>>, NEW kind, NEW g, NEW found, NEW t,
         t = [kind |-> kind, game |-> g, left |-> l, found |-> found]
  PROVE  /\ Head(l) \in S
         /\ \/ Advance(t) = IdleTool
            \/ /\ Tail(l) \in Seq(S)
               /\ Advance(t) = [kind |-> kind, game |-> g, left |-> Tail(l), found |-> found]
<1>1. Head(l) \in S /\ Tail(l) \in Seq(S)  OBVIOUS
<1>2. t.left = l  OBVIOUS
<1>3. ASSUME NEW r
      PROVE  [t EXCEPT !.left = r] = [kind |-> kind, game |-> g, left |-> r, found |-> found]
  OBVIOUS
<1> QED  BY <1>1, <1>2, <1>3 DEF Advance

LEMMA PeopleAdd ==
  ASSUME ToolInv, People
  PROVE  db' \in Tables /\ Adds(db, db') /\ Intact(db')
<1>0. /\ db \in Tables /\ Intact(db) /\ db.owner \in Owners
      /\ db.members \subseteq Account /\ db.templates \subseteq Template
      /\ db.games \subseteq Game /\ db.players \subseteq Player
      /\ db.users \subseteq Account
  BY DEF Tables, ToolInv
<1>1. ASSUME NEW u \in Account, NEW g \in Game, Play(u, g)
      PROVE  db' \in Tables /\ Adds(db, db') /\ Intact(db')
  <2>1. /\ db' = [db EXCEPT !.players = @ \cup {<<u, g>>}, !.wallets = @ \cup {<<u, g>>}]
        /\ u \in db.members /\ g \in db.games
    BY <1>1 DEF Play
  <2>2. <<u, g>> \in Player  BY DEF Player
  <2>3. db' \in Tables /\ Adds(db, db')
    <3> HIDE DEF Player
    <3> QED  BY <1>0, <2>1, <2>2, RowsAdd
  <2>4. /\ db'.studio = db.studio /\ db'.users = db.users /\ db'.members = db.members
        /\ db'.games = db.games /\ db'.templates = db.templates /\ db'.owner = db.owner
        /\ db'.listings = db.listings
        /\ db'.players = db.players \cup {<<u, g>>} /\ db'.wallets = db.wallets \cup {<<u, g>>}
    BY <1>0, <2>1 DEF Tables
  <2> QED  BY <1>0, <2>1, <2>3, <2>4 DEF Intact, Instances
<1>2. ASSUME NEW g \in Game, Register(g)
      PROVE  db' \in Tables /\ Adds(db, db') /\ Intact(db')
  <2>1. db' = [db EXCEPT !.players = @ \cup {<<"wallet", g>>}] /\ g \in db.games
    BY <1>2 DEF Register
  <2>2. <<"wallet", g>> \in Player  BY DEF Player
  <2>3. db' \in Tables /\ Adds(db, db')  BY <1>0, <2>1, <2>2, RowsAdd
  <2>4. /\ db'.studio = db.studio /\ db'.users = db.users /\ db'.members = db.members
        /\ db'.games = db.games /\ db'.templates = db.templates /\ db'.owner = db.owner
        /\ db'.listings = db.listings
        /\ db'.players = db.players \cup {<<"wallet", g>>} /\ db'.wallets = db.wallets
    BY <1>0, <2>1 DEF Tables
  <2> QED  BY <1>0, <2>1, <2>3, <2>4 DEF Intact, Instances
<1>3. ASSUME NEW g \in Game, CreateTemplate(g)
      PROVE  db' \in Tables /\ Adds(db, db') /\ Intact(db')
  <2> DEFINE x == [game |-> g, seeded |-> FALSE]
  <2>1. db' = [db EXCEPT !.templates = @ \cup {x}] /\ g \in db.games
    BY <1>3 DEF CreateTemplate
  <2>2. x \in Template /\ x.game = g  BY DEF Template
  <2> HIDE DEF x
  <2>3. db' \in Tables /\ Adds(db, db')  BY <1>0, <2>1, <2>2, RowsAdd
  <2>4. /\ db'.studio = db.studio /\ db'.users = db.users /\ db'.members = db.members
        /\ db'.games = db.games /\ db'.templates = db.templates \cup {x}
        /\ db'.owner = db.owner /\ db'.listings = db.listings
        /\ db'.players = db.players /\ db'.wallets = db.wallets
    BY <1>0, <2>1 DEF Tables
  <2> QED  BY <1>0, <2>1, <2>2, <2>3, <2>4 DEF Intact, Instances
<1>4. ASSUME NEW g \in Game, LogEvent(g)
      PROVE  db' \in Tables /\ Adds(db, db') /\ Intact(db')
  <2> DEFINE x == [game |-> g, seeded |-> FALSE]
  <2>1. db' = [db EXCEPT !.events = @ \cup {x}]
    BY <1>4 DEF LogEvent
  <2>2. x \in Events  BY DEF Events
  <2> HIDE DEF x
  <2>3. db' \in Tables /\ Adds(db, db')  BY <1>0, <2>1, <2>2, RowsAdd
  <2>4. /\ db'.studio = db.studio /\ db'.users = db.users /\ db'.members = db.members
        /\ db'.games = db.games /\ db'.templates = db.templates
        /\ db'.owner = db.owner /\ db'.listings = db.listings
        /\ db'.players = db.players /\ db'.wallets = db.wallets
    BY <1>0, <2>1 DEF Tables
  <2> QED  BY <1>0, <2>3, <2>4 DEF Intact, Instances
<1>5. ASSUME NEW t \in db.templates, NEW p \in db.players, Mint(t, p)
      PROVE  db' \in Tables /\ Adds(db, db') /\ Intact(db')
  <2> DEFINE i == [template |-> t, by |-> "people"]
             f == [j \in Instances(db) \cup {i} |-> IF j = i THEN p ELSE db.owner[j]]
             h == [j \in Instances(db) \cup {i} |-> IF j \in Instances(db) THEN db.owner[j] ELSE p]
  <2>1. i \notin Instances(db) /\ db' = [db EXCEPT !.owner = f]
    BY <1>5, <1>0 DEF Tables, Mint
  <2>2. i \in NFTInstance /\ i.template = t  BY <1>0 DEF NFTInstance
  <2> HIDE DEF i
  <2>3. f = h  BY <2>1
  <2>4. db' = Minted(db, i, p)  BY <1>0, <2>1, <2>3 DEF Tables, Minted
  <2>5. db' \in Tables /\ Adds(db, db')  BY <1>0, <2>2, <2>4, MintsAdd
  <2>6. /\ DOMAIN f = Instances(db) \cup {i} /\ f[i] = p
        /\ \A j \in Instances(db) : f[j] = db.owner[j]
    BY <2>1
  <2> HIDE DEF f
  <2>7. /\ db'.studio = db.studio /\ db'.users = db.users /\ db'.members = db.members
        /\ db'.games = db.games /\ db'.templates = db.templates
        /\ db'.owner = f /\ db'.listings = db.listings
        /\ db'.players = db.players /\ db'.wallets = db.wallets
    BY <1>0, <2>1 DEF Tables
  <2> QED  BY <1>0, <2>2, <2>5, <2>6, <2>7 DEF Intact, Instances
<1>6. ASSUME NEW i \in Instances(db), Offer(i)
      PROVE  db' \in Tables /\ Adds(db, db') /\ Intact(db')
  <2>1. db' = [db EXCEPT !.listings = @ \cup {i}]
    BY <1>6 DEF Offer
  <2>3. db' \in Tables /\ Adds(db, db')  BY <1>0, <2>1, RowsAdd
  <2>4. /\ db'.studio = db.studio /\ db'.users = db.users /\ db'.members = db.members
        /\ db'.games = db.games /\ db'.templates = db.templates
        /\ db'.owner = db.owner /\ db'.listings = db.listings \cup {i}
        /\ db'.players = db.players /\ db'.wallets = db.wallets
    BY <1>0, <2>1 DEF Tables
  <2> QED  BY <1>0, <2>3, <2>4 DEF Intact, Instances
<1> QED
  BY <1>1, <1>2, <1>3, <1>4, <1>5, <1>6 DEF People
-----------------------------------------------------------------------------
(***************************************************************************)
(* A step keeps the invariant and spares what is not the seeds'.           *)
(***************************************************************************)
StepSpares ==
  \/ Alike(tool["clear"].kind, db)
  \/ tool["clear"].kind = "reset"
  \/ Spares(db, db')

LEMMA ToolInvStep ==
  ASSUME ToolInv, [SandboxNext]_sandboxVars
  PROVE  ToolInv' /\ StepSpares
<1>0. /\ db \in Tables /\ Intact(db) /\ tool = [s \in Slot |-> tool[s]]
      /\ db.marked \subseteq {i \in Instances(db) : i.by = "seeds"}
      /\ SeedOK(tool["seed"]) /\ ClearOK(tool["clear"], db)
      /\ "seed" \in Slot /\ "clear" \in Slot
  BY DEF ToolInv, Slot
<1> DEFINE SameNames == /\ db'.lookalike = db.lookalike /\ db'.dotOwner = db.dotOwner
                        /\ db'.plus = db.plus
<1>a. Spares(db, db)  BY DEF Spares
<1>b. ASSUME db' \in Tables, Adds(db, db')
      PROVE  /\ Spares(db, db') /\ SameNames
             /\ db'.marked \subseteq {i \in Instances(db') : i.by = "seeds"}
  BY <1>0, <1>b DEF Spares, Adds
<1>c. ASSUME NEW t, ClearOK(t, db), SameNames
      PROVE  ClearOK(t, db')
  BY <1>c DEF ClearOK, RowsToFind, Plus, Alike
<1>1. CASE UNCHANGED sandboxVars
  BY <1>1, <1>a DEF sandboxVars, ToolInv, StepSpares, Intact, Instances
<1>2. CASE People
  <2>1. db' \in Tables /\ Adds(db, db') /\ Intact(db') /\ tool' = tool
    BY <1>2, PeopleAdd DEF People
  <2>2. ToolInv'
    BY <1>0, <1>b, <1>c, <2>1 DEF ToolInv
  <2> QED  BY <1>b, <2>1, <2>2 DEF StepSpares
<1>3. ASSUME NEW kind \in ClearKinds, NEW g \in Game, BeginClear(kind, g)
      PROVE  ToolInv' /\ StepSpares
  <2> DEFINE l == ClearScript[kind]
             t == [kind |-> kind, game |-> g, left |-> l, found |-> {}]
  <2>1. tool' = [tool EXCEPT !["clear"] = t] /\ db' = db
    <3>1. PICK e : /\ e = [IdleTool EXCEPT !.kind = kind, !.game = g, !.left = l]
                   /\ tool' = [tool EXCEPT !["clear"] = e] /\ db' = db
      BY <1>3 DEF BeginClear
    <3>2. e = [kind |-> kind, game |-> g, left |-> l, found |-> {}]
      BY <3>1 DEF IdleTool
    <3> QED  BY <3>1, <3>2
  <2>2. l \in Seq(ClearedBy(kind))  BY Scripts
  <2>3. ClearOK(t, db)
    <3> HIDE DEF l
    <3>1. t.found = {} /\ {} \subseteq RowsToFind(kind, db)  OBVIOUS
    <3> QED  BY <2>2, <3>1 DEF ClearOK
  <2> HIDE DEF t
  <2>4. /\ tool' = [s \in Slot |-> tool'[s]] /\ tool'["clear"] = t
        /\ tool'["seed"] = tool["seed"]
    BY <1>0, <2>1
  <2>5. ToolInv'
    BY <1>0, <2>1, <2>3, <2>4 DEF ToolInv, Instances, Intact
  <2> QED  BY <1>a, <2>1, <2>5 DEF StepSpares
<1>4. ASSUME NEW kind \in DOMAIN MadeBy, NEW g \in Game, BeginSeed(kind, g)
      PROVE  ToolInv' /\ StepSpares
  <2> DEFINE l == SeedScript[kind]
  <2>1. PICK x \in Seeded(kind, g) :
          tool' = [tool EXCEPT !["seed"] =
                     [kind |-> kind, game |-> g, left |-> l, found |-> {x}]] /\ db' = db
    <3>1. PICK x \in Seeded(kind, g) :
            \E e : /\ e = [IdleTool EXCEPT !.kind = kind, !.game = g, !.found = {x}, !.left = l]
                   /\ tool' = [tool EXCEPT !["seed"] = e] /\ db' = db
      BY <1>4 DEF BeginSeed
    <3>2. PICK e : /\ e = [IdleTool EXCEPT !.kind = kind, !.game = g, !.found = {x}, !.left = l]
                   /\ tool' = [tool EXCEPT !["seed"] = e] /\ db' = db
      BY <3>1
    <3>3. e = [kind |-> kind, game |-> g, left |-> l, found |-> {x}]
      <4>1. DOMAIN IdleTool = {"kind", "game", "left", "found"}
        BY DEF IdleTool
      <4> DEFINE f == {x}
      <4> HIDE DEF l, f
      <4>2. e = [IdleTool EXCEPT !.kind = kind, !.game = g, !.found = f, !.left = l]
        BY <3>2 DEF f
      <4>3. e = [y \in {"kind", "game", "left", "found"} |-> e[y]]
        BY <4>1, <4>2
      <4>4. e.kind = kind /\ e.game = g /\ e.found = f /\ e.left = l
        BY <4>1, <4>2
      <4>5. e = [kind |-> kind, game |-> g, left |-> l, found |-> f]
        BY <4>3, <4>4
      <4> QED  BY <4>5 DEF f
    <3> QED  BY <3>2, <3>3
  <2> DEFINE t == [kind |-> kind, game |-> g, left |-> l, found |-> {x}]
  <2>2. l \in Seq(MadeBy[kind])  BY SeedScripts
  <2>3. x \in RowsToMake[kind]
    <3>1. db.players \subseteq Player /\ db.games \subseteq Game  BY <1>0 DEF Tables
    <3>2. /\ RowsToMake.seedMembers = {"seedMember"} /\ RowsToMake.seedPlayers = {"seedPlayer"}
          /\ RowsToMake.seedGames = {"seeded"} /\ RowsToMake.seedEvents = Game
          /\ RowsToMake.seedTemplates = Game /\ RowsToMake.seedInstances = Player
      BY DEF RowsToMake
    <3>3. kind \in {"seedMembers", "seedPlayers", "seedGames", "seedEvents", "seedTemplates",
                    "seedInstances"}
      BY DEF MadeBy
    <3> QED  BY <2>1, <3>1, <3>2, <3>3 DEF Seeded
  <2>4. SeedOK(t)
    <3> HIDE DEF l
    <3> QED  BY <2>2, <2>3 DEF SeedOK
  <2> HIDE DEF t, l
  <2>5. /\ tool' = [s \in Slot |-> tool'[s]] /\ tool'["seed"] = t
        /\ tool'["clear"] = tool["clear"]
    BY <1>0, <2>1 DEF t
  <2>6. ToolInv'
    BY <1>0, <2>1, <2>4, <2>5 DEF ToolInv, Instances, Intact
  <2> QED  BY <1>a, <2>1, <2>6 DEF StepSpares
<1>5. ASSUME tool["seed"].left # <<>>
      PROVE  \E kind \in DOMAIN MadeBy, g \in Game :
               \E x \in RowsToMake[kind], l \in Seq(MadeBy[kind]) :
                 tool["seed"] = [kind |-> kind, game |-> g, left |-> l, found |-> {x}]
  BY <1>0, <1>5 DEF SeedOK, IdleTool
<1>6. ASSUME tool["clear"].left # <<>>
      PROVE  \E kind \in ClearKinds, g \in Game, found \in {tool["clear"].found} :
               \E l \in Seq(ClearedBy(kind)) :
                 /\ tool["clear"] = [kind |-> kind, game |-> g, left |-> l, found |-> found]
                 /\ ~Alike(kind, db) => found \subseteq RowsToFind(kind, db)
  BY <1>0, <1>6 DEF ClearOK, IdleTool
<1>7. ASSUME NEW s \in Slot, Stop(s)
      PROVE  ToolInv' /\ StepSpares
  <2>1. tool' = [tool EXCEPT ![s] = IdleTool] /\ db' = db  BY <1>7 DEF Stop
  <2>2. SeedOK(IdleTool) /\ ClearOK(IdleTool, db)  BY IdleIsOK
  <2>3. /\ tool' = [q \in Slot |-> tool'[q]]
        /\ tool'["seed"] \in {tool["seed"], IdleTool}
        /\ tool'["clear"] \in {tool["clear"], IdleTool}
    BY <1>0, <2>1 DEF Slot
  <2>4. ToolInv'
    BY <1>0, <2>1, <2>2, <2>3 DEF ToolInv, Instances, Intact
  <2> QED  BY <1>a, <2>1, <2>4 DEF StepSpares
<1>8. CASE Look("seed")
  <2>1. PICK kind \in DOMAIN MadeBy, g \in Game :
          \E x \in RowsToMake[kind], l \in Seq(MadeBy[kind]) :
             tool["seed"] = [kind |-> kind, game |-> g, left |-> l, found |-> {x}]
    BY <1>5, <1>8 DEF Look
  <2>2. Head(tool["seed"].left) \in MadeBy[kind]
    BY <1>8, <2>1, Advances DEF Look
  <2>3. FALSE
    BY <1>8, <2>2 DEF Look, LooksUp, MadeBy
  <2> QED  BY <2>3
<1>9. CASE Look("clear")
  <2>1. PICK kind \in ClearKinds, g \in Game, found \in {tool["clear"].found} :
          \E l \in Seq(ClearedBy(kind)) :
             /\ tool["clear"] = [kind |-> kind, game |-> g, left |-> l, found |-> found]
             /\ ~Alike(kind, db) => found \subseteq RowsToFind(kind, db)
    BY <1>6, <1>9 DEF Look
  <2>2. PICK l \in Seq(ClearedBy(kind)) :
          tool["clear"] = [kind |-> kind, game |-> g, left |-> l, found |-> found]
    BY <2>1
  <2> DEFINE t == tool["clear"]
             rows == Find(t, db)
             next == [Advance(t) EXCEPT !.found = rows]
  <2>3. /\ t.left = l /\ t.kind = kind /\ t.game = g /\ l # <<>>
        /\ Head(l) \in {"find", "findMembers", "findStudio"}
    BY <1>9, <2>2 DEF Look, LooksUp
  <2>4. /\ Head(l) \in ClearedBy(kind)
        /\ \/ Advance(t) = IdleTool
           \/ /\ Tail(l) \in Seq(ClearedBy(kind))
              /\ Advance(t) = [kind |-> kind, game |-> g, left |-> Tail(l), found |-> found]
    BY <2>2, <2>3, Advances
  <2>5. tool' = [tool EXCEPT !["clear"] = next] /\ db' = db
    BY <1>9 DEF Look
  <2>6. ~Alike(kind, db) => rows \subseteq RowsToFind(kind, db)
    <3> SUFFICES ASSUME ~Alike(kind, db) PROVE rows \subseteq RowsToFind(kind, db)
      OBVIOUS
    <3>0. db.players \subseteq Player /\ db.templates \subseteq Template
          /\ db.marked \subseteq NFTInstance
      BY <1>0 DEF Tables
    <3>1. CASE kind = "clearPlayers"
      BY <2>3, <3>0, <3>1 DEF Find, SeedPlayers, RowsToFind
    <3>2. CASE kind = "clearTemplates"
      BY <2>3, <3>0, <3>2 DEF Find, RowsToFind
    <3>3. CASE kind = "clearInstances"
      BY <1>0, <2>3, <3>0, <3>3 DEF Find, RowsToFind
    <3>4. CASE kind \notin {"clearPlayers", "clearTemplates", "clearInstances"}
      <4>1. rows \in {{}, SeedMembers(db)}
        <5>1. Head(l) = "findStudio" => kind \in StudioClears
          BY <2>4, <2>3, <3>4
             DEF ClearKinds, MemberClears, StudioClears, RowClears, ClearedBy
        <5> QED  BY <2>3, <3>4, <5>1 DEF Find, Targeted, Alike
      <4>2. SeedMembers(db) \subseteq Plus(db) \ {"owner"}
        BY DEF SeedMembers
      <4> QED  BY <3>4, <4>1, <4>2 DEF RowsToFind
    <3> QED  BY <3>1, <3>2, <3>3, <3>4
  <2>7. ToolInv'
    <3>1. /\ tool' = [q \in Slot |-> tool'[q]] /\ tool'["seed"] = tool["seed"]
          /\ tool'["clear"] = next
      BY <1>0, <2>5
    <3>2. next = [kind |-> "idle", game |-> "real", left |-> <<>>, found |-> rows]
           \/ next = [kind |-> kind, game |-> g, left |-> Tail(l), found |-> rows]
      <4>1. ASSUME NEW k, NEW h, NEW r, NEW f, NEW q
            PROVE  [[kind |-> k, game |-> h, left |-> r, found |-> f] EXCEPT !.found = q]
                      = [kind |-> k, game |-> h, left |-> r, found |-> q]
        OBVIOUS
      <4> HIDE DEF rows
      <4>2. CASE Advance(t) = IdleTool
        <5>1. [IdleTool EXCEPT !.found = rows]
                = [kind |-> "idle", game |-> "real", left |-> <<>>, found |-> rows]
          BY DEF IdleTool
        <5> QED  BY <4>2, <5>1
      <4>3. CASE Advance(t) = [kind |-> kind, game |-> g, left |-> Tail(l), found |-> found]
        <5> DEFINE rest == Tail(l)
        <5>1. Advance(t) = [kind |-> kind, game |-> g, left |-> rest, found |-> found]
          BY <4>3
        <5> HIDE DEF rest
        <5>2. [Advance(t) EXCEPT !.found = rows]
                = [kind |-> kind, game |-> g, left |-> rest, found |-> rows]
          BY <5>1
        <5> QED  BY <5>2 DEF rest
      <4> QED  BY <2>4, <4>2, <4>3
    <3>3. ClearOK(next, db)
      <4> HIDE DEF next, rows
      <4>1. next.found = rows  BY <3>2
      <4>2. CASE next = [kind |-> "idle", game |-> "real", left |-> <<>>, found |-> rows]
        BY <4>1, <4>2 DEF ClearOK
      <4>3. CASE next = [kind |-> kind, game |-> g, left |-> Tail(l), found |-> rows]
        <5>1. Tail(l) \in Seq(ClearedBy(kind))  BY <2>2, <2>3
        <5> QED  BY <2>6, <4>1, <4>3, <5>1 DEF ClearOK
      <4> QED  BY <3>2, <4>2, <4>3
    <3> HIDE DEF next
    <3> QED
      BY <1>0, <2>5, <3>1, <3>3 DEF ToolInv, Instances, Intact
  <2> QED  BY <1>a, <2>5, <2>7 DEF StepSpares<1>10. CASE Execute("seed")
  <2>1. PICK kind \in DOMAIN MadeBy, g \in Game :
          \E x \in RowsToMake[kind], l \in Seq(MadeBy[kind]) :
             tool["seed"] = [kind |-> kind, game |-> g, left |-> l, found |-> {x}]
    BY <1>5, <1>10 DEF Execute
  <2>2. PICK x \in RowsToMake[kind], l \in Seq(MadeBy[kind]) :
          tool["seed"] = [kind |-> kind, game |-> g, left |-> l, found |-> {x}]
    BY <2>1
  <2> DEFINE t == tool["seed"]
  <2>3. /\ db' = Made(t, db) /\ Intact(db') /\ l # <<>>
        /\ tool' = [tool EXCEPT !["seed"] = Advance(t)]
    BY <1>10, <2>2 DEF Execute, Outcome
  <2>4. /\ Head(l) \in MadeBy[kind]
        /\ \/ Advance(t) = IdleTool
           \/ /\ Tail(l) \in Seq(MadeBy[kind])
              /\ Advance(t) = [kind |-> kind, game |-> g, left |-> Tail(l), found |-> {x}]
    <3> DEFINE f == {x}
    <3>1. t = [kind |-> kind, game |-> g, left |-> l, found |-> f]  BY <2>2
    <3> HIDE DEF f
    <3>2. /\ Head(l) \in MadeBy[kind]
          /\ \/ Advance(t) = IdleTool
             \/ /\ Tail(l) \in Seq(MadeBy[kind])
                /\ Advance(t) = [kind |-> kind, game |-> g, left |-> Tail(l), found |-> f]
      BY <2>3, <3>1, Advances
    <3> QED  BY <3>2 DEF f
  <2>5. db' \in Tables /\ Adds(db, db')
    BY <1>0, <2>2, <2>3, <2>4, SeedsAdd
  <2>6. SeedOK(Advance(t))
    BY <2>4 DEF SeedOK
  <2>7. /\ tool' = [q \in Slot |-> tool'[q]] /\ tool'["seed"] = Advance(t)
        /\ tool'["clear"] = tool["clear"]
    BY <1>0, <2>3
  <2>8. Spares(db, db') /\ SameNames
        /\ db'.marked \subseteq {i \in Instances(db') : i.by = "seeds"}
    BY <1>b, <2>5
  <2>9. ClearOK(tool'["clear"], db')
    BY <1>0, <1>c, <2>7, <2>8
  <2>10. ToolInv'
    BY <2>3, <2>5, <2>6, <2>7, <2>8, <2>9 DEF ToolInv
  <2> QED  BY <2>8, <2>10 DEF StepSpares
<1>11. CASE Execute("clear")
  <2>1. PICK kind \in ClearKinds, g \in Game, found \in {tool["clear"].found} :
          \E l \in Seq(ClearedBy(kind)) :
             /\ tool["clear"] = [kind |-> kind, game |-> g, left |-> l, found |-> found]
             /\ ~Alike(kind, db) => found \subseteq RowsToFind(kind, db)
    BY <1>6, <1>11 DEF Execute
  <2>2. PICK l \in Seq(ClearedBy(kind)) :
          tool["clear"] = [kind |-> kind, game |-> g, left |-> l, found |-> found]
    BY <2>1
  <2> DEFINE t == tool["clear"]
  <2>3. /\ db' = After(t, db) /\ Intact(db') /\ l # <<>> /\ t.left = l /\ t.kind = kind
        /\ tool' = [tool EXCEPT !["clear"] = Advance(t)] /\ ~LooksUp(t)
    BY <1>11, <2>2 DEF Execute, Outcome
  <2>4. /\ Head(l) \in ClearedBy(kind)
        /\ \/ Advance(t) = IdleTool
           \/ /\ Tail(l) \in Seq(ClearedBy(kind))
              /\ Advance(t) = [kind |-> kind, game |-> g, left |-> Tail(l), found |-> found]
    BY <2>2, <2>3, Advances
  <2>5. Head(t.left) \in OnMembers \cup {"listings", "wallets",
            "instances of players", "players", "users of players",
            "instances of templates", "templates", "instances", "everything"}
    BY <2>3, <2>4 DEF ClearKinds, MemberClears, StudioClears, RowClears, ClearedBy, LooksUp
  <2>6. db' \in Tables /\ Fields(db, db')
    BY <1>0, <2>3, <2>5, ClearsAreTyped
  <2>7. ClearOK(Advance(t), db)
    <3>1. Advance(t) = IdleTool => ClearOK(Advance(t), db)
      BY IdleIsOK
    <3>2. ASSUME Tail(l) \in Seq(ClearedBy(kind)),
                 Advance(t) = [kind |-> kind, game |-> g, left |-> Tail(l), found |-> found]
          PROVE  ClearOK(Advance(t), db)
      <4>1. Advance(t).found = found  BY <3>2
      <4> HIDE DEF t
      <4> QED  BY <2>1, <3>2, <4>1 DEF ClearOK
    <3> QED  BY <2>4, <3>1, <3>2
  <2>8. /\ tool' = [q \in Slot |-> tool'[q]] /\ tool'["clear"] = Advance(t)
        /\ tool'["seed"] = tool["seed"]
    BY <1>0, <2>3
  <2>9. ClearOK(tool'["clear"], db')
    BY <1>c, <2>6, <2>7, <2>8 DEF Fields
  <2>10. db'.marked \subseteq {i \in Instances(db') : i.by = "seeds"}
    BY <1>0, <2>6 DEF Fields
  <2>11. ToolInv'
    BY <1>0, <2>3, <2>6, <2>8, <2>9, <2>10 DEF ToolInv
  <2>12. kind # "reset" /\ ~Alike(kind, db) => Spares(db, db')
    BY <1>0, <2>1, <2>2, <2>3, <2>4, ClearsSpare
  <2> QED  BY <2>3, <2>11, <2>12 DEF StepSpares
<1>12. CASE AdminToolsTargeted \/ TriolithAdminPage
  <2>1. \/ \E kind \in ClearKinds, g \in Game : BeginClear(kind, g)
        \/ \E kind \in DOMAIN MadeBy, g \in Game : BeginSeed(kind, g)
    <3>1. {"clearMembers", "clearStudios", "clearSandbox", "clearGames", "clearEvents",
           "clearPlayers", "clearTemplates", "clearInstances", "reset"} \subseteq ClearKinds
      BY DEF ClearKinds, MemberClears, StudioClears, RowClears
    <3>2. {"seedMembers", "seedPlayers", "seedGames", "seedEvents", "seedTemplates",
           "seedInstances"} \subseteq DOMAIN MadeBy
      BY DEF MadeBy
    <3>3. "real" \in Game  BY DEF Game
    <3> QED
      BY <1>12, <3>1, <3>2, <3>3 DEF AdminToolsTargeted, TriolithAdminPage, MembersTools,
         GamesTools, AdminStudiosTools, PlayersTools, DashboardTools, NFTManagementTools
  <2> QED  BY <1>3, <1>4, <2>1
<1> QED
  BY <1>1, <1>2, <1>7, <1>8, <1>9, <1>10, <1>11, <1>12 DEF SandboxNext, Slot

(***************************************************************************)
(* Whatever seeds, clears and people do beside one another, no row refers  *)
(* to one that is gone.                                                    *)
(***************************************************************************)
THEOREM SandboxTypeCorrect == SandboxSpec => []SandboxTypeOK
<1>1. ToolInv /\ [SandboxNext]_sandboxVars => ToolInv'
  BY ToolInvStep
<1>2. ToolInv => SandboxTypeOK
  BY OwnersAre DEF Tables, ToolInv, SandboxTypeOK, Instances
<1> QED  BY <1>1, <1>2, ToolInvInit, PTL DEF SandboxSpec

(***************************************************************************)
(* Whatever runs beside it and wherever it stops, a clear takes away only  *)
(* what seeds made, what belongs to somebody with the address of a seeded  *)
(* member, and what hangs on these.                                        *)
(***************************************************************************)
THEOREM ClearsTakeTheSeedsOnly == SandboxSpec => ClearsSpareOthers
<1>1. ToolInv /\ [SandboxNext]_sandboxVars => ToolInv' /\ StepSpares
  BY ToolInvStep
<1>2. StepSpares =>
       \/ tool["clear"].kind = "reset"
       \/ /\ tool["clear"].kind \in {"clearStudios", "clearSandbox"}
          /\ db.lookalike \/ db.dotOwner # {}
       \/ /\ db.studio => db'.studio
          /\ db.users \ db'.users \subseteq Seedlike(db) \ db.members
          /\ db.members \ db'.members \subseteq Plus(db) \ {"owner"}
          /\ db.games \ db'.games \subseteq {"seeded"}
          /\ \A p \in (db.players \ db'.players) \cup (db.wallets \ db'.wallets) :
                OfSeeds(db, p)
          /\ \A t \in db.templates \ db'.templates : SeededTemplate(t)
          /\ \A i \in Instances(db) \ Instances(db') : SeededInstance(db, i)
          /\ \A i \in db.listings \ db'.listings : SeededInstance(db, i)
          /\ \A e \in db.events \ db'.events : e.seeded \/ e.game = "seeded"
  BY DEF StepSpares, Spares, Alike, StudioClears
<1> QED  BY <1>1, <1>2, ToolInvInit, PTL DEF SandboxSpec, ClearsSpareOthers

(***************************************************************************)
(* The browser tab.  As long as no answer went astray, cookie, React state *)
(* and copy fit, and so does what the calls under way will find: a login   *)
(* is the only one, and while it is there no call for a member is; such a  *)
(* call carries the cookie of the session that is there, or finds a member *)
(* or no session; only a tab that leaves for the login page has a call of  *)
(* a session that is gone, and a sole member is activated as nobody else.  *)
(***************************************************************************)
(* The forms of the React state, of its copy and of a call. *)
Reacts == [studio : Session \cup {None}, member : Member \cup {None},
           game : Studio \cup {None}, count : Nat \cup {None}]
Copies == [studio : Session \cup {None}, member : Member \cup {None},
           game : Studio \cup {None}, back : Token \cup {None}]
Calls == [task : Tasks, user : User \cup {None}, studio : Studio \cup {None},
          as : Token \cup {None}]

CallOK(k) ==
  /\ k \in Calls
  /\ k.task \in {"login", "memberLogin", "switch", "bootstrap"} => k.user \in User
  /\ k.task \notin {"login", "restore", "logout", "bootstrap"} => k.studio \in Studio
  /\ k.task = "select" => k.as # None
  /\ k.task = "bootstrap" => StudiosOf[k.user] # {}
  /\ k.task = "memberLogin" => k.user \in Members(k.studio)

Shaped ==
  /\ cookie \in Token \cup {None}
  /\ react \in Reacts /\ stored \in Copies
  /\ page \in Pages /\ leaving \in {None, "login"}
  /\ list \in Studio \cup {None} /\ (list # None => page = "games")
  /\ \A k \in calls : CallOK(k)
  /\ stale \in BOOLEAN

Counted == deeds \in 0..MaxDeeds /\ faults \in 0..MaxFaults

(* Member and game of a React state or copy x beside a cookie c. *)
MemberFits(x, c) ==
  x.member # None =>
    /\ x.studio # None /\ x.studio.id = x.member.studio
    /\ x.studio.admin = (x.member.user \in Admin)
    /\ c # None => c = TokenOf(x.member.user, x.member.studio)
GameFits(x) == x.game # None => x.member # None /\ x.game = x.member.studio

(* A studio of one member. *)
Sole(s) == Cardinality(Members(s)) = 1

(* The React state r beside its copy s, the cookie c, a document that leaves  *)
(* for lv and the list li.                                                    *)
Agree(r, s, c, lv, li) ==
  /\ r.studio # None /\ c # None =>
       c.studio = r.studio.id /\ r.studio.admin = (c.user \in Admin)
  /\ s.studio # None => s.studio = r.studio /\ s.member = r.member
  /\ lv = None /\ s.studio = None /\ r.studio # None => li = None /\ c = None
  /\ r.studio = None => r.count = None
  /\ r.studio # None /\ r.member = None /\ r.count = 1 => Sole(r.studio.id)

(* Calls whose answer makes a member, a studio session, and what such an      *)
(* answer would find.                                                         *)
Asks(k) == k.task \in {"activate", "member"}
Enters(k) == k.task \in {"login", "select"}
Joins(k) == k.task \in {"memberLogin", "member"}
Right(k, r, c) ==
  k.as # None /\ k.studio = r.studio.id /\ k.as.user \in Members(k.studio) =>
    /\ c \in {None, k.as} /\ k.as.studio = k.studio
    /\ r.studio.admin = (k.as.user \in Admin)

CallsFit(r, c, cs, lv) ==
  /\ \A k, l \in cs : Enters(k) /\ Enters(l) => k = l
  /\ \A k, l \in cs : Joins(k) /\ Joins(l) => k = l
  /\ \A k, l \in cs : ~(Enters(k) /\ Asks(l))
  /\ \A k \in cs : Enters(k) => r.studio = None \/ r.member # None
  /\ \A k \in cs : k.task = "activate" => Sole(k.studio)
  /\ \A k \in cs : Asks(k) =>
       /\ r.studio = None => lv = "login"
       /\ r.studio # None /\ r.member = None => Right(k, r, c)

Sound(r, s, c, cs, lv, li) ==
  /\ MemberFits(r, c) /\ GameFits(r) /\ MemberFits(s, c) /\ GameFits(s)
  /\ Agree(r, s, c, lv, li)
  /\ CallsFit(r, c, cs, lv)

Undisturbed == Sound(react, stored, cookie, calls, leaving, list)

TabInv == Shaped /\ Counted /\ (~stale => Undisturbed)

LEMMA NoneIsApart ==
  /\ None \notin User \cup Studio \cup Nat \cup Pages
  /\ None # "login" /\ None # 1
  /\ \A t \in Token : t # None
  /\ \A u \in User, s \in Studio :
       /\ SessionOf(u, s) \in Session /\ SessionOf(u, s) # None
       /\ SessionOf(u, s).id = s /\ SessionOf(u, s).admin = (u \in Admin)
       /\ [user |-> u, studio |-> s] \in Member /\ [user |-> u, studio |-> s] # None
  /\ \A u \in User, s \in Studio \cup {None} :
       /\ TokenOf(u, s) \in Token /\ TokenOf(u, s) # None
       /\ TokenOf(u, s).user = u /\ TokenOf(u, s).studio = s
<1>1. "login" \in Pages /\ 1 \in Nat
  BY DEF Pages
<1>2. \A t \in Token : t # None
  BY SessionAssumption
<1>3. ASSUME NEW u \in User, NEW s \in Studio
      PROVE  /\ SessionOf(u, s) \in Session /\ SessionOf(u, s) # None
             /\ SessionOf(u, s).id = s /\ SessionOf(u, s).admin = (u \in Admin)
             /\ [user |-> u, studio |-> s] \in Member /\ [user |-> u, studio |-> s] # None
  <2>1. SessionOf(u, s) \in Session /\ [user |-> u, studio |-> s] \in Member
    BY DEF SessionOf, Session, Member
  <2> QED  BY <2>1, SessionAssumption DEF SessionOf
<1>4. ASSUME NEW u \in User, NEW s \in Studio \cup {None}
      PROVE  /\ TokenOf(u, s) \in Token /\ TokenOf(u, s) # None
             /\ TokenOf(u, s).user = u /\ TokenOf(u, s).studio = s
  BY <1>2 DEF TokenOf, Token
<1> QED  BY <1>1, <1>2, <1>3, <1>4, SessionAssumption

(* Its members are of the platform, and of one there is one. *)
LEMMA MembersAre ==
  ASSUME NEW s \in Studio
  PROVE  /\ Members(s) \subseteq User /\ Cardinality(Members(s)) \in Nat
         /\ Sole(s) => \A u, v \in Members(s) : u = v
         /\ \A u \in User : StudiosOf[u] \subseteq Studio
<1>1. Members(s) \subseteq User /\ IsFiniteSet(Members(s))
  BY SessionAssumption, FS_Subset DEF Members
<1>2. Cardinality(Members(s)) \in Nat
  BY <1>1, FS_CardinalityType
<1>3. ASSUME Sole(s) PROVE \A u, v \in Members(s) : u = v
  <2>1. \E x : Members(s) = {x}
    BY <1>1, <1>3, FS_Singleton DEF Sole
  <2> QED  BY <2>1
<1> QED  BY <1>1, <1>2, <1>3, SessionAssumption

LEMMA SoleStudioIs ==
  ASSUME NEW u \in User, StudiosOf[u] # {}
  PROVE  SoleStudio(u) \in StudiosOf[u] /\ SoleStudio(u) \in Studio
  BY SessionAssumption DEF SoleStudio

LEMMA NoStudiosAreNone ==
  ASSUME NEW u \in User, Cardinality(StudiosOf[u]) = 1
  PROVE  StudiosOf[u] # {}
  BY FS_EmptySet

LEMMA TokensAre ==
  ASSUME NEW k, CallOK(k)
  PROVE  TokenFor(k) \in Token \cup {None}
<1>0. k \in Calls
  BY DEF CallOK
<1>1. k.as # None => k.as \in Token /\ k.as.user \in User /\ k.as.studio \in Studio \cup {None}
  BY <1>0 DEF Calls, Token
<1>2. CASE k.task \in {"login", "memberLogin", "switch"}
  BY <1>2, NoneIsApart DEF TokenFor, CallOK
<1>3. CASE k.task = "select"
  BY <1>1, <1>3, NoneIsApart DEF TokenFor, CallOK
<1>4. CASE k.task = "bootstrap"
  BY <1>4, NoneIsApart, SoleStudioIs DEF TokenFor, CallOK, BootstrapStudio
<1>5. CASE k.task = "restore" /\ Restores(k)
  <2>1. HomeOf(k.as) \in Studio
    BY <1>1, <1>5, SoleStudioIs, SessionAssumption DEF Restores, HomeOf
  <2> QED  BY <1>1, <1>5, <2>1, NoneIsApart DEF TokenFor, Restores
<1> QED  BY <1>2, <1>3, <1>4, <1>5 DEF TokenFor

(* What is rendered, and what it sends. *)
LEMMA CommitIs ==
  ASSUME NEW r \in Reacts, NEW s \in Copies, NEW c \in Token \cup {None}, NEW sent,
         Commit(r, s, c, sent)
  PROVE  /\ react' \in Reacts /\ stored' \in Copies
         /\ react'.studio = r.studio /\ react'.member = r.member /\ react'.count = r.count
         /\ react'.game = IF r.studio = None THEN None ELSE r.game
         /\ stored'.studio = s.studio /\ stored'.member = s.member
         /\ stored'.game = IF r.studio = None THEN None ELSE s.game
         /\ \A k \in calls' :
              \/ k \in sent
              \/ k.task = "hydrate" /\ CallOK(k)
              \/ /\ k.task = "activate" /\ CallOK(k)
                 /\ r.studio # None /\ r.member = None /\ r.count = 1
                 /\ k.studio = r.studio.id /\ k.as = c
<1>1. react' \in Reacts /\ react'.studio = r.studio /\ react'.member = r.member
      /\ react'.count = r.count /\ react'.game = IF r.studio = None THEN None ELSE r.game
  BY DEF Commit, Reacts
<1>2. stored' \in Copies /\ stored'.studio = s.studio /\ stored'.member = s.member
      /\ stored'.game = IF r.studio = None THEN None ELSE s.game
  BY DEF Commit, Copies
<1>3. ASSUME NEW t \in {"hydrate", "activate"}, r.studio # None
      PROVE  LET k == Sent(t, None, r.studio.id, c)
             IN  CallOK(k) /\ k.task = t /\ k.studio = r.studio.id /\ k.as = c
  <2>1. r.studio.id \in Studio
    BY <1>3 DEF Reacts, Session
  <2> QED  BY <2>1 DEF Sent, CallOK, Calls, Tasks
<1>4. calls' = sent \cup CountEffect(r, c) \cup ActivateEffect(r, c)
  BY DEF Commit
<1> QED  BY <1>1, <1>2, <1>3, <1>4 DEF CountEffect, ActivateEffect

LEMMA CommitIsSound ==
  ASSUME NEW r \in Reacts, NEW s \in Copies, NEW c \in Token \cup {None}, NEW sent,
         NEW lv, NEW li, Commit(r, s, c, sent),
         MemberFits(r, c), MemberFits(s, c), r.studio # None => GameFits(r) /\ GameFits(s),
         Agree(r, s, c, lv, li), CallsFit(r, c, sent, lv)
  PROVE  Sound(react', stored', c, calls', lv, li)
<1> DEFINE n == react'
           d == stored'
           cs == calls'
<1>1. /\ n.studio = r.studio /\ n.member = r.member /\ n.count = r.count
      /\ n.game = IF r.studio = None THEN None ELSE r.game
      /\ d.studio = s.studio /\ d.member = s.member
      /\ d.game = IF r.studio = None THEN None ELSE s.game
  BY CommitIs
<1>2. \A k \in cs :
        \/ k \in sent
        \/ k.task = "hydrate"
        \/ /\ k.task = "activate" /\ r.studio # None /\ r.member = None /\ r.count = 1
           /\ k.studio = r.studio.id /\ k.as = c
  BY CommitIs
<1> HIDE DEF n, d, cs
<1>3. MemberFits(n, c) /\ MemberFits(d, c)
  BY <1>1 DEF MemberFits
<1>4. GameFits(n) /\ GameFits(d)
  BY <1>1 DEF GameFits
<1>5. Agree(n, d, c, lv, li)
  BY <1>1 DEF Agree
<1>6. CallsFit(n, c, cs, lv)
  <2>1. \A k, l \in cs : Enters(k) /\ Enters(l) => k = l
    BY <1>2 DEF CallsFit, Enters
  <2>2. \A k, l \in cs : Joins(k) /\ Joins(l) => k = l
    BY <1>2 DEF CallsFit, Joins
  <2>3. \A k \in cs : Enters(k) => k \in sent /\ (r.studio = None \/ r.member # None)
    BY <1>2 DEF CallsFit, Enters
  <2>4. \A k, l \in cs : ~(Enters(k) /\ Asks(l))
    BY <1>2, <2>3 DEF CallsFit, Asks
  <2>5. \A k \in cs : k.task = "activate" => Sole(k.studio)
    BY <1>2 DEF CallsFit, Agree
  <2>6. ASSUME NEW k \in cs, Asks(k)
        PROVE  /\ n.studio = None => lv = "login"
               /\ n.studio # None /\ n.member = None => Right(k, n, c)
    <3>1. CASE k \in sent
      BY <1>1, <2>6, <3>1 DEF CallsFit, Right
    <3>2. CASE k \notin sent
      BY <1>1, <1>2, <2>6, <3>2 DEF Agree, Right, Asks
    <3> QED  BY <3>1, <3>2
  <2> QED  BY <1>1, <2>1, <2>2, <2>3, <2>4, <2>5, <2>6 DEF CallsFit
<1>7. Sound(n, d, c, cs, lv, li)
  BY <1>3, <1>4, <1>5, <1>6 DEF Sound
<1> QED  BY <1>7 DEF n, d, cs
(* What is done with a session that comes from one answer. *)
LEMMA BecomeKeeps ==
  ASSUME TabInv, NEW u \in User, NEW s \in Studio, NEW active \in {None, s},
         NEW back \in Token \cup {None}, NEW rest, rest \subseteq calls,
         NEW lv, NEW li, Become(u, s, active, back, rest)
  PROVE  /\ cookie' \in Token \cup {None} /\ react' \in Reacts /\ stored' \in Copies
         /\ \A k \in calls' : CallOK(k)
         /\ ~stale => Sound(react', stored', cookie', calls', lv, li)
<1> DEFINE c == TokenOf(u, s)
           m == [user |-> u, studio |-> s]
           r == [react EXCEPT !.studio = SessionOf(u, s), !.member = m, !.game = active]
           d == [studio |-> SessionOf(u, s), member |-> m, game |-> active, back |-> back]
           sent == rest \cup CountOf(s, c)
<1>1. /\ c \in Token /\ c # None /\ c.studio = s /\ c.user = u
      /\ SessionOf(u, s) \in Session /\ SessionOf(u, s) # None
      /\ SessionOf(u, s).id = s /\ SessionOf(u, s).admin = (u \in Admin)
      /\ m \in Member /\ m # None /\ m.user = u /\ m.studio = s
  BY NoneIsApart
<1>2. /\ r \in Reacts /\ r.studio = SessionOf(u, s) /\ r.member = m /\ r.game = active
      /\ d \in Copies /\ d.studio = SessionOf(u, s) /\ d.member = m /\ d.game = active
  BY <1>1 DEF TabInv, Shaped, Reacts, Copies
<1>3. cookie' = c /\ Commit(r, d, c, sent)
  BY DEF Become
<1>4. \A k \in sent : CallOK(k) /\ (k \in calls \/ k.task = "count")
  <2>1. \A k \in CountOf(s, c) : CallOK(k) /\ k.task = "count"
    BY <1>1 DEF CountOf, Sent, CallOK, Calls, Tasks
  <2> QED  BY <2>1 DEF TabInv, Shaped
<1> HIDE DEF c, m, r, d, sent
<1>5. react' \in Reacts /\ stored' \in Copies /\ \A k \in calls' : CallOK(k)
  BY <1>1, <1>2, <1>3, <1>4, CommitIs
<1>6. ASSUME ~stale PROVE Sound(react', stored', c, calls', lv, li)
  <2>1. MemberFits(r, c) /\ MemberFits(d, c) /\ GameFits(r) /\ GameFits(d)
    BY <1>1, <1>2 DEF MemberFits, GameFits, c
  <2>2. Agree(r, d, c, lv, li)
    BY <1>1, <1>2 DEF Agree
  <2>3. CallsFit(react, cookie, calls, leaving)
    BY <1>6 DEF TabInv, Undisturbed, Sound
  <2>4. CallsFit(r, c, sent, lv)
    BY <1>1, <1>2, <1>4, <2>3 DEF CallsFit, Enters, Asks, Joins
  <2> QED  BY <1>1, <1>2, <1>3, <2>1, <2>2, <2>4, CommitIsSound
<1> QED  BY <1>1, <1>3, <1>5, <1>6

(* Where a page sends the tab. *)
LEMMA RedirectsAre ==
  /\ \A p \in Pages : Redirect(p) \in Pages
  /\ Redirect("memberLogin") = "memberLogin" /\ react.count # None => react.studio # None
  /\ Redirect("games") = "games" => react.studio # None /\ react.member # None
<1>1. \A p \in Pages : Redirect(p) \in Pages
  BY DEF Redirect, LoginRedirect, MemberLoginRedirect, MemberRedirect, AdminRedirect,
         Pages, LayoutPages
<1>2. Redirect("memberLogin") = "memberLogin" /\ react.count # None => react.studio # None
  BY DEF Redirect, MemberLoginRedirect
<1>3. Redirect("games") = "games" => react.studio # None /\ react.member # None
  BY DEF Redirect, MemberRedirect, Active
<1> QED  BY <1>1, <1>2, <1>3

LEMMA GoToIs ==
  ASSUME Shaped, NEW p \in Pages, GoTo(p)
  PROVE  /\ page' \in Pages /\ list' \in Studio \cup {None}
         /\ list' # None => page' = "games" /\ list' = list
  BY DEF Shaped, GoTo

(* Renderings and links, which change the page only. *)
LEMMA PagesKeep ==
  ASSUME TabInv, UNCHANGED <<cookie, react, stored, leaving, calls, stale>>,
         page' \in Pages, list' \in Studio \cup {None},
         list' # None => page' = "games" /\ list' = list
  PROVE  Shaped' /\ (~stale' => Undisturbed')
<1>1. Shaped'
  BY DEF TabInv, Shaped
<1>2. ASSUME ~stale' PROVE Undisturbed'
  <2>1. Sound(react, stored, cookie, calls, leaving, list)
    BY <1>2 DEF TabInv, Undisturbed
  <2>2. Sound(react, stored, cookie, calls, leaving, list')
    BY <2>1 DEF Sound, Agree
  <2> QED  BY <2>2 DEF Undisturbed
<1> QED  BY <1>1, <1>2

(* A request more. *)
LEMMA SubmitKeeps ==
  ASSUME TabInv, NEW k, CallOK(k), Submit(k),
         k.task \in {"login", "memberLogin", "bootstrap", "switch", "restore"},
         Enters(k) => react.studio = None /\ leaving = None /\ \A l \in calls : ~Enters(l),
         Joins(k) => \A l \in calls : ~Joins(l)
  PROVE  Shaped' /\ (~stale' => Undisturbed')
<1>1. calls' = calls \cup {k} /\ UNCHANGED <<cookie, leaving, stale, react, stored, page, list>>
  BY DEF Submit, NoAnswer
<1>2. Shaped'
  BY <1>1 DEF TabInv, Shaped
<1>3. ASSUME ~stale PROVE CallsFit(react, cookie, calls', leaving)
  <2>1. CallsFit(react, cookie, calls, leaving)
    BY <1>3 DEF TabInv, Undisturbed, Sound
  <2>2. Enters(k) => \A l \in calls : ~Asks(l)
    <3>1. ASSUME Enters(k), NEW l \in calls, Asks(l) PROVE FALSE
      <4>1. leaving = "login"  BY <2>1, <3>1 DEF CallsFit
      <4> QED  BY <3>1, <4>1, NoneIsApart
    <3> QED  BY <3>1
  <2>3. ~Asks(k) /\ k.task # "activate" /\ (Enters(k) => react.studio = None)
    BY DEF Asks
  <2> HIDE DEF Enters, Asks, Joins
  <2> QED  BY <1>1, <2>1, <2>2, <2>3 DEF CallsFit
<1>4. ASSUME ~stale' PROVE Undisturbed'
  BY <1>1, <1>3, <1>4 DEF TabInv, Undisturbed, Sound
<1> QED  BY <1>2, <1>4

LEMMA SubmitsKeep ==
  ASSUME TabInv,
         \/ \E u \in User : \/ LoginSubmit(u) \/ MemberLoginSubmit(u)
                            \/ \E s \in StudiosOf[u] : SwitchTo(u, s)
         \/ \E u \in Quick : QuickStart(u)
         \/ Restore
  PROVE  Shaped' /\ (~stale' => Undisturbed')
<1>0. /\ cookie \in Token \cup {None} /\ react \in Reacts /\ stored \in Copies
      /\ stored.back \in Token \cup {None}
  BY DEF TabInv, Shaped, Copies
<1>1. \A t, u, s, c : LET k == Sent(t, u, s, c)
                      IN  k.task = t /\ k.user = u /\ k.studio = s /\ k.as = c
  BY DEF Sent
<1>2. \A t \in Tasks, u \in User \cup {None}, s \in Studio \cup {None}, c \in Token \cup {None} :
        Sent(t, u, s, c) \in Calls
  BY DEF Sent, Calls
<1>3. Actor \in Token \cup {None}
  BY <1>0 DEF Actor
<1>4. ASSUME NEW u \in User, LoginSubmit(u) PROVE Shaped' /\ (~stale' => Undisturbed')
  <2> DEFINE k == Sent("login", u, None, cookie)
  <2>1. k.task = "login" /\ k.user = u /\ k \in Calls
    BY <1>0, <1>1, <1>2 DEF Tasks
  <2>2. Submit(k) /\ react.studio = None /\ leaving = None /\ \A l \in calls : ~Enters(l)
    BY <1>4 DEF LoginSubmit, UserActs, Settled, Pending, Enters
  <2> HIDE DEF k
  <2>3. CallOK(k) /\ ~Joins(k)
    BY <2>1 DEF CallOK, Joins
  <2> QED  BY <2>1, <2>2, <2>3, SubmitKeeps
<1>5. ASSUME NEW u \in User, MemberLoginSubmit(u) PROVE Shaped' /\ (~stale' => Undisturbed')
  <2> DEFINE k == Sent("memberLogin", u, react.studio.id, cookie)
  <2>0. react.studio # None
    BY <1>5, RedirectsAre DEF MemberLoginSubmit, UserActs, Settled
  <2>1. k.task = "memberLogin" /\ k.user = u /\ k \in Calls /\ k.studio = react.studio.id
        /\ react.studio.id \in Studio
    BY <1>0, <1>1, <1>2, <2>0 DEF Tasks, Reacts, Session
  <2>2. Submit(k) /\ u \in Members(react.studio.id) /\ \A l \in calls : ~Joins(l)
    BY <1>5 DEF MemberLoginSubmit, Pending, Joins
  <2> HIDE DEF k
  <2>3. CallOK(k) /\ ~Enters(k)
    BY <2>1, <2>2 DEF CallOK, Enters
  <2> QED  BY <2>1, <2>2, <2>3, SubmitKeeps
<1>6. ASSUME NEW u \in User, NEW s \in StudiosOf[u], SwitchTo(u, s)
      PROVE  Shaped' /\ (~stale' => Undisturbed')
  <2> DEFINE k == Sent("switch", u, s, Actor)
  <2>1. s \in Studio
    BY SessionAssumption
  <2>2. k.task = "switch" /\ k.user = u /\ k \in Calls /\ k.studio = s
    BY <1>1, <1>2, <1>3, <2>1 DEF Tasks
  <2>3. Submit(k)
    BY <1>6 DEF SwitchTo
  <2> HIDE DEF k
  <2>4. CallOK(k) /\ ~Enters(k) /\ ~Joins(k)
    BY <2>1, <2>2 DEF CallOK, Enters, Joins
  <2> QED  BY <2>2, <2>3, <2>4, SubmitKeeps
<1>7. ASSUME NEW u \in Quick, QuickStart(u) PROVE Shaped' /\ (~stale' => Undisturbed')
  <2> DEFINE k == Sent("bootstrap", u, None, cookie)
  <2>1. u \in User /\ StudiosOf[u] # {}
    BY <1>7, SessionAssumption, NoStudiosAreNone DEF QuickStart
  <2>2. k.task = "bootstrap" /\ k.user = u /\ k \in Calls
    BY <1>0, <1>1, <1>2, <2>1 DEF Tasks
  <2>3. Submit(k)
    BY <1>7 DEF QuickStart
  <2> HIDE DEF k
  <2>4. CallOK(k) /\ ~Enters(k) /\ ~Joins(k)
    BY <2>1, <2>2 DEF CallOK, Enters, Joins
  <2> QED  BY <2>2, <2>3, <2>4, SubmitKeeps
<1>8. CASE Restore
  <2> DEFINE k == Sent("restore", None, None, Actor)
  <2>1. k.task = "restore" /\ k \in Calls
    BY <1>1, <1>2, <1>3 DEF Tasks
  <2>2. Submit(k)
    BY <1>8 DEF Restore
  <2> HIDE DEF k
  <2>3. CallOK(k) /\ ~Enters(k) /\ ~Joins(k)
    BY <2>1 DEF CallOK, Enters, Joins
  <2> QED  BY <2>1, <2>2, <2>3, SubmitKeeps
<1> QED  BY <1>4, <1>5, <1>6, <1>7, <1>8

(* A new document starts from what is stored. *)
LEMMA LoadKeeps ==
  ASSUME TabInv, NEW p \in Pages, Load(p)
  PROVE  Shaped' /\ (~stale' => Undisturbed')
<1> DEFINE r == [studio |-> stored.studio, member |-> stored.member,
                 game |-> stored.game, count |-> None]
<1>1. /\ Commit(r, stored, cookie', {}) /\ page' = p /\ list' = None /\ leaving' = None
      /\ stale' \in BOOLEAN /\ (~stale' => ~stale)
      /\ cookie' \in Token \cup {None} /\ (~stale' => cookie' \in {None, cookie})
  <2>1. /\ Commit(r, stored, cookie', {}) /\ page' = p /\ list' = None /\ leaving' = None
    BY DEF Load
  <2>2. stale \in BOOLEAN /\ cookie \in Token \cup {None}
    BY DEF TabInv, Shaped
  <2>3. CASE UNCHANGED <<cookie, stale>>
    BY <2>1, <2>2, <2>3
  <2>4. CASE cookie' = None /\ stale' = (stale \/ ~Fresh)
    BY <2>1, <2>2, <2>4
  <2>5. CASE \E k \in calls : cookie' = TokenFor(k) /\ stale' = TRUE
    BY <2>1, <2>5, TokensAre DEF TabInv, Shaped
  <2> QED  BY <2>3, <2>4, <2>5 DEF Load
<1>2. /\ r \in Reacts /\ stored \in Copies /\ r.studio = stored.studio
      /\ r.member = stored.member /\ r.game = stored.game /\ r.count = None
  BY DEF TabInv, Shaped, Reacts, Copies
<1> HIDE DEF r
<1>3. react' \in Reacts /\ stored' \in Copies /\ \A k \in calls' : CallOK(k)
  BY <1>1, <1>2, CommitIs
<1>4. Shaped'
  BY <1>1, <1>3, NoneIsApart DEF Shaped
<1>5. ASSUME ~stale' PROVE Undisturbed'
  <2>1. /\ MemberFits(stored, cookie) /\ GameFits(stored)
        /\ Agree(react, stored, cookie, leaving, list)
    BY <1>1, <1>5 DEF TabInv, Undisturbed, Sound
  <2>2. MemberFits(stored, cookie') /\ MemberFits(r, cookie') /\ GameFits(r)
    BY <1>1, <1>2, <1>5, <2>1 DEF MemberFits, GameFits
  <2>3. Agree(r, stored, cookie', None, None)
    BY <1>1, <1>2, <1>5, <2>1, NoneIsApart DEF Agree
  <2>4. CallsFit(r, cookie', {}, None)
    BY DEF CallsFit
  <2>5. Sound(react', stored', cookie', calls', None, None)
    BY <1>1, <1>2, <2>1, <2>2, <2>3, <2>4, CommitIsSound
  <2> QED  BY <1>1, <2>5 DEF Undisturbed
<1> QED  BY <1>4, <1>5

LEMMA LogoutKeeps ==
  ASSUME TabInv, Logout
  PROVE  Shaped' /\ (~stale' => Undisturbed')
<1> DEFINE r == [react EXCEPT !.studio = None, !.member = None, !.count = None]
           s == [stored EXCEPT !.studio = None, !.member = None]
           k == Sent("logout", None, None, cookie)
<1>1. Commit(r, s, cookie, calls \cup {k}) /\ leaving' = "login"
      /\ UNCHANGED <<cookie, page, list, stale>>
  BY DEF Logout
<1>2. /\ r \in Reacts /\ r.studio = None /\ r.member = None /\ r.count = None
      /\ s \in Copies /\ s.studio = None /\ s.member = None
      /\ cookie \in Token \cup {None}
  BY DEF TabInv, Shaped, Reacts, Copies
<1>3. k.task = "logout" /\ CallOK(k)
  BY <1>2 DEF Sent, CallOK, Calls, Tasks
<1> HIDE DEF r, s, k
<1>4. react' \in Reacts /\ stored' \in Copies /\ \A l \in calls' : CallOK(l)
  BY <1>1, <1>2, <1>3, CommitIs DEF TabInv, Shaped
<1>5. Shaped'
  BY <1>1, <1>4 DEF TabInv, Shaped
<1>6. ASSUME ~stale PROVE Sound(react', stored', cookie, calls', "login", list)
  <2>1. CallsFit(react, cookie, calls, leaving)
    BY <1>6 DEF TabInv, Undisturbed, Sound
  <2>2. MemberFits(r, cookie) /\ MemberFits(s, cookie)
    BY <1>2 DEF MemberFits
  <2>3. Agree(r, s, cookie, "login", list)
    BY <1>2, NoneIsApart DEF Agree
  <2>4. CallsFit(r, cookie, calls \cup {k}, "login")
    BY <1>2, <1>3, <2>1 DEF CallsFit, Enters, Asks, Joins
  <2> QED  BY <1>1, <1>2, <2>2, <2>3, <2>4, CommitIsSound
<1> QED  BY <1>1, <1>5, <1>6 DEF Undisturbed

LEMMA PickGameKeeps ==
  ASSUME TabInv, PickGame
  PROVE  Shaped' /\ (~stale' => Undisturbed')
<1>1. /\ list # None /\ react' = [react EXCEPT !.game = list]
      /\ stored' = [stored EXCEPT !.game = list]
      /\ stale' = (stale \/ list # react.studio.id)
      /\ GoTo("dashboard") /\ UNCHANGED <<cookie, leaving, calls>>
  BY DEF PickGame
<1>2. leaving = None /\ react.studio # None /\ react.member # None
  BY RedirectsAre DEF PickGame, UserActs, Settled
<1>3. /\ react' \in Reacts /\ react'.studio = react.studio /\ react'.member = react.member
      /\ react'.count = react.count /\ react'.game = list
      /\ stored' \in Copies /\ stored'.studio = stored.studio /\ stored'.member = stored.member
      /\ stored'.game = list
  BY <1>1 DEF TabInv, Shaped, Reacts, Copies
<1>4. /\ page' \in Pages /\ list' \in Studio \cup {None}
      /\ list' # None => page' = "games" /\ list' = list
  BY <1>1, GoToIs DEF TabInv, Pages, LayoutPages
<1>5. Shaped'
  BY <1>1, <1>3, <1>4 DEF TabInv, Shaped
<1>6. ASSUME ~stale' PROVE Undisturbed'
  <2>1. /\ MemberFits(react, cookie) /\ MemberFits(stored, cookie)
        /\ Agree(react, stored, cookie, leaving, list) /\ CallsFit(react, cookie, calls, leaving)
        /\ list = react.studio.id
    BY <1>1, <1>6 DEF TabInv, Undisturbed, Sound
  <2>2. stored.studio = react.studio /\ stored.member = react.member
    BY <1>1, <1>2, <2>1 DEF Agree
  <2>3. MemberFits(react', cookie) /\ MemberFits(stored', cookie)
        /\ GameFits(react') /\ GameFits(stored')
    BY <1>2, <1>3, <2>1, <2>2 DEF MemberFits, GameFits
  <2>4. Agree(react', stored', cookie, leaving, list')
    BY <1>2, <1>3, <2>1, <2>2 DEF Agree
  <2>5. CallsFit(react', cookie, calls, leaving)
    BY <1>3, <2>1 DEF CallsFit, Right
  <2>6. Sound(react', stored', cookie, calls, leaving, list')
    BY <2>3, <2>4, <2>5 DEF Sound
  <2> QED  BY <1>1, <2>6 DEF Undisturbed
<1> QED  BY <1>5, <1>6

(* The copy without its session, in a tab that leaves. *)
LEMMA BlankIs ==
  ASSUME NEW s \in Copies
  PROVE  /\ Blank(s) \in Copies /\ Blank(s).studio = None
         /\ Blank(s).member = None /\ Blank(s).game = None
  BY DEF Blank, Copies

LEMMA LoadPageKeeps ==
  ASSUME TabInv, LoadPage
  PROVE  Shaped' /\ (~stale' => Undisturbed')
<1>0. UNCHANGED <<cookie, page, calls, stale>> /\ leaving = None /\ react \in Reacts
      /\ stored \in Copies /\ react.studio # None
  BY DEF LoadPage, Settled, TabInv, Shaped
<1>1. CASE page \in {"games", "members", "admin"} /\ cookie = None
           /\ Expel /\ UNCHANGED <<react, list>>
  <2>1. stored' = Blank(stored) /\ leaving' = "login" /\ UNCHANGED <<react, list>>
    BY <1>1 DEF Expel
  <2>2. /\ stored' \in Copies /\ stored'.studio = None
        /\ stored'.member = None /\ stored'.game = None
    BY <1>0, <2>1, BlankIs
  <2>3. Shaped'
    BY <1>0, <2>1, <2>2 DEF TabInv, Shaped
  <2>4. ASSUME ~stale PROVE Sound(react, stored', cookie, calls, "login", list)
    <3>1. Sound(react, stored, cookie, calls, leaving, list)
      BY <2>4 DEF TabInv, Undisturbed
    <3>2. MemberFits(stored', cookie) /\ GameFits(stored')
      BY <2>2 DEF MemberFits, GameFits
    <3>3. Agree(react, stored', cookie, "login", list)
      BY <2>2, <3>1, NoneIsApart DEF Sound, Agree
    <3>4. CallsFit(react, cookie, calls, "login")
      BY <1>0, <3>1 DEF Sound, CallsFit
    <3> QED  BY <3>1, <3>2, <3>3, <3>4 DEF Sound
  <2> QED  BY <1>0, <2>1, <2>3, <2>4 DEF Undisturbed
<1>2. CASE /\ page = "games" /\ list = None /\ cookie # None /\ cookie.studio # None
           /\ list' = cookie.studio
           /\ IF react.game \in {None, list'} THEN UNCHANGED <<react, stored>>
              ELSE /\ react' = [react EXCEPT !.game = None]
                   /\ stored' = [stored EXCEPT !.game = None]
           /\ UNCHANGED leaving
  <2>1. /\ react' \in Reacts /\ react'.studio = react.studio /\ react'.member = react.member
        /\ react'.count = react.count /\ react'.game \in {None, react.game}
        /\ stored' \in Copies /\ stored'.studio = stored.studio
        /\ stored'.member = stored.member /\ stored'.game \in {None, stored.game}
    BY <1>0, <1>2 DEF Reacts, Copies
  <2>2. list' \in Studio
    BY <1>2 DEF TabInv, Shaped, Token
  <2>3. Shaped'
    BY <1>0, <1>2, <2>1, <2>2 DEF TabInv, Shaped
  <2>4. ASSUME ~stale PROVE Sound(react', stored', cookie, calls, leaving, list')
    <3>1. /\ Sound(react, stored, cookie, calls, leaving, list)
      BY <2>4 DEF TabInv, Undisturbed
    <3>2. /\ MemberFits(react', cookie) /\ MemberFits(stored', cookie)
          /\ GameFits(react') /\ GameFits(stored')
      BY <2>1, <3>1 DEF Sound, MemberFits, GameFits
    <3>3. Agree(react', stored', cookie, leaving, list')
      BY <1>0, <1>2, <2>1, <3>1 DEF Sound, Agree
    <3>4. CallsFit(react', cookie, calls, leaving)
      BY <2>1, <3>1 DEF Sound, CallsFit, Right
    <3> QED  BY <3>2, <3>3, <3>4 DEF Sound
  <2> QED  BY <1>0, <1>2, <2>3, <2>4 DEF Undisturbed
<1> QED  BY <1>1, <1>2 DEF LoadPage

LEMMA LoadTargetsKeeps ==
  ASSUME TabInv, LoadTargets
  PROVE  Shaped' /\ (~stale' => Undisturbed')
<1>1. UNCHANGED <<cookie, react, page, leaving, list, calls, stale>>
      /\ stored' = [stored EXCEPT !.back = ReturnToken]
  BY DEF LoadTargets
<1>2. ReturnToken \in Token \cup {None}
  BY DEF ReturnToken, Actor, TabInv, Shaped, Copies
<1>3. /\ stored' \in Copies /\ stored'.studio = stored.studio
      /\ stored'.member = stored.member /\ stored'.game = stored.game
  BY <1>1, <1>2 DEF TabInv, Shaped, Copies
<1>4. Shaped'
  BY <1>1, <1>3 DEF TabInv, Shaped
<1>5. ASSUME ~stale PROVE Sound(react, stored', cookie, calls, leaving, list)
  BY <1>3, <1>5 DEF TabInv, Undisturbed, Sound, MemberFits, GameFits, Agree
<1> QED  BY <1>1, <1>4, <1>5 DEF Undisturbed

(* A cookie and a call less, and a link that may be followed. *)
LEMMA LessIsSound ==
  ASSUME NEW r, NEW s, NEW c, NEW cs, NEW lv, NEW li, Sound(r, s, c, cs, lv, li),
         NEW b \in {None, c}, NEW ds, ds \subseteq cs
  PROVE  Sound(r, s, b, ds, lv, li)
<1>1. MemberFits(r, b) /\ MemberFits(s, b)
  BY DEF Sound, MemberFits
<1>2. Agree(r, s, b, lv, li)
  BY DEF Sound, Agree
<1>3. CallsFit(r, b, ds, lv)
  BY DEF Sound, CallsFit, Right
<1> QED  BY <1>1, <1>2, <1>3 DEF Sound

LEMMA LessKeeps ==
  ASSUME TabInv, UNCHANGED <<react, stored, page, leaving, list>>,
         cookie' \in {None, cookie}, calls' \subseteq calls,
         stale' \in BOOLEAN, ~stale' => ~stale
  PROVE  Shaped' /\ (~stale' => Undisturbed')
<1>1. Shaped'
  BY DEF TabInv, Shaped
<1>2. ASSUME ~stale' PROVE Undisturbed'
  <2>1. Sound(react, stored, cookie, calls, leaving, list)
    BY <1>2 DEF TabInv, Undisturbed
  <2>2. Sound(react, stored, cookie', calls', leaving, list)
    BY <2>1, LessIsSound
  <2> QED  BY <2>2 DEF Undisturbed
<1> QED  BY <1>1, <1>2

(* Answers. *)
LEMMA CountAnswerKeeps ==
  ASSUME TabInv, NEW k \in calls, CountAnswer(k)
  PROVE  Shaped' /\ (~stale' => Undisturbed')
<1> DEFINE s == IF k.as = None THEN Blank(stored) ELSE stored
<1>0. /\ CallOK(k) /\ k.studio \in Studio /\ react \in Reacts /\ stored \in Copies
      /\ cookie \in Token \cup {None}
  BY DEF CountAnswer, TabInv, Shaped, CallOK
<1>1. /\ stale' = (stale \/ ~Current(k) \/ (k.as = None /\ cookie # None))
      /\ leaving' = IF k.as = None /\ page # "login" THEN "login" ELSE leaving
      /\ UNCHANGED <<cookie, page, list>>
  BY DEF CountAnswer
<1>2. PICK n \in {0, Cardinality(Members(k.studio))} :
        IF n = react.count
        THEN UNCHANGED react /\ stored' = s /\ calls' = calls \ {k}
        ELSE Commit([react EXCEPT !.count = n], s, cookie, calls \ {k})
  BY DEF CountAnswer
<1> DEFINE r == [react EXCEPT !.count = n]
<1>3. n \in Nat
  BY <1>0, MembersAre
<1>4. /\ r \in Reacts /\ r.studio = react.studio /\ r.member = react.member
      /\ r.game = react.game /\ r.count = n
  BY <1>0, <1>3 DEF Reacts
<1>5. /\ s \in Copies /\ (k.as # None => s = stored)
      /\ k.as = None => s.studio = None /\ s.member = None /\ s.game = None
  BY <1>0, BlankIs
<1>6. CASE n = react.count
  <2>1. react = r
    BY <1>0, <1>6 DEF Reacts
  <2> HIDE DEF s, r
  <2>2. /\ UNCHANGED react /\ stored' = s /\ calls' = calls \ {k}
    BY <1>2, <1>6
  <2>3. Shaped'
    BY <1>1, <1>5, <2>2 DEF TabInv, Shaped
  <2>4. ASSUME ~stale' PROVE Sound(react, s, cookie, calls \ {k}, leaving', list)
    <3>1. /\ Sound(react, stored, cookie, calls, leaving, list) /\ Current(k)
          /\ k.as = None => cookie = None
      BY <1>1, <2>4 DEF TabInv, Undisturbed
    <3>2. /\ react.studio # None /\ stored.studio # None
      BY <3>1 DEF Current
    <3>3. MemberFits(s, cookie) /\ GameFits(s)
      BY <1>5, <3>1 DEF Sound, MemberFits, GameFits
    <3>4. leaving' = None => leaving = None /\ (k.as = None => list = None)
      BY <1>1, NoneIsApart DEF TabInv, Shaped
    <3>5. Agree(react, s, cookie, leaving', list)
      BY <1>5, <3>1, <3>2, <3>4 DEF Sound, Agree
    <3>6. CallsFit(react, cookie, calls \ {k}, leaving')
      BY <3>1, <3>2 DEF Sound, CallsFit
    <3> QED  BY <3>1, <3>3, <3>5, <3>6 DEF Sound
  <2> QED  BY <1>1, <2>2, <2>3, <2>4 DEF Undisturbed
<1>7. CASE n # react.count
  <2> HIDE DEF s, r
  <2>1. Commit(r, s, cookie, calls \ {k})
    BY <1>2, <1>7 DEF r
  <2>2. react' \in Reacts /\ stored' \in Copies /\ \A l \in calls' : CallOK(l)
    BY <1>0, <1>4, <1>5, <2>1, CommitIs DEF TabInv, Shaped
  <2>3. Shaped'
    BY <1>1, <2>2 DEF TabInv, Shaped
  <2>4. ASSUME ~stale' PROVE Sound(react', stored', cookie, calls', leaving', list)
    <3>1. /\ Sound(react, stored, cookie, calls, leaving, list) /\ Current(k)
          /\ k.as = None => cookie = None
      BY <1>1, <2>4 DEF TabInv, Undisturbed
    <3>2. /\ react.studio # None /\ stored.studio # None /\ react.studio.id = k.studio
      BY <3>1 DEF Current
    <3>3. /\ MemberFits(r, cookie) /\ MemberFits(s, cookie) /\ GameFits(r) /\ GameFits(s)
      BY <1>4, <1>5, <3>1 DEF Sound, MemberFits, GameFits
    <3>4. leaving' = None => leaving = None /\ (k.as = None => list = None)
      BY <1>1, NoneIsApart DEF TabInv, Shaped
    <3>5. n = 1 => Sole(r.studio.id)
      BY <1>4, <3>2 DEF Sole
    <3>6. Agree(r, s, cookie, leaving', list)
      BY <1>4, <1>5, <3>1, <3>2, <3>4, <3>5 DEF Sound, Agree
    <3>7. CallsFit(r, cookie, calls \ {k}, leaving')
      BY <1>4, <3>1, <3>2 DEF Sound, CallsFit, Right
    <3> QED  BY <1>0, <1>4, <1>5, <2>1, <3>3, <3>6, <3>7, CommitIsSound
  <2> QED  BY <1>1, <2>3, <2>4 DEF Undisturbed
<1> QED  BY <1>6, <1>7

LEMMA MemberAnswerKeeps ==
  ASSUME TabInv, NEW k \in calls, MemberAnswer(k)
  PROVE  Shaped' /\ (~stale' => Undisturbed')
<1>0. /\ CallOK(k) /\ k \in Calls /\ k.studio \in Studio /\ Asks(k)
      /\ react \in Reacts /\ stored \in Copies /\ cookie \in Token \cup {None}
      /\ UNCHANGED <<cookie, leaving>>
  BY DEF MemberAnswer, TabInv, Shaped, CallOK, Asks
<1>1. CASE calls' = calls \ {k} /\ UNCHANGED <<react, stored, page, list, stale>>
  BY <1>0, <1>1, LessKeeps DEF TabInv, Shaped
<1>2. ASSUME k.as # None, k.as.user \in Members(k.studio),
             LET m == [user |-> k.as.user, studio |-> k.studio]
             IN  Commit([react EXCEPT !.member = m], [stored EXCEPT !.member = m],
                        cookie, calls \ {k}),
             stale' = (stale \/ ~Current(k) \/ react.member # None),
             IF k.task = "member" THEN GoTo(LandingOf(k.as.user)) ELSE UNCHANGED <<page, list>>
      PROVE  Shaped' /\ (~stale' => Undisturbed')
  <2> DEFINE m == [user |-> k.as.user, studio |-> k.studio]
             r == [react EXCEPT !.member = m]
             s == [stored EXCEPT !.member = m]
  <2>1. k.as \in Token /\ k.as = [user |-> k.as.user, studio |-> k.as.studio]
        /\ k.as.user \in User
    BY <1>0, <1>2 DEF Calls, Token
  <2>2. m \in Member /\ m # None /\ m.user = k.as.user /\ m.studio = k.studio
    BY <1>0, <2>1, NoneIsApart
  <2>3. Commit(r, s, cookie, calls \ {k})
    BY <1>2
  <2> HIDE DEF m
  <2>4. /\ r \in Reacts /\ r.studio = react.studio /\ r.member = m
        /\ r.game = react.game /\ r.count = react.count
        /\ s \in Copies /\ s.studio = stored.studio /\ s.member = m /\ s.game = stored.game
    BY <1>0, <2>2 DEF Reacts, Copies
  <2> HIDE DEF r, s
  <2>5. react' \in Reacts /\ stored' \in Copies /\ \A l \in calls' : CallOK(l)
    BY <1>0, <2>3, <2>4, CommitIs DEF TabInv, Shaped
  <2>6. /\ page' \in Pages /\ list' \in Studio \cup {None}
        /\ list' # None => page' = "games" /\ list' = list
    <3>1. LandingOf(k.as.user) \in Pages
      BY DEF LandingOf, Pages, LayoutPages
    <3> QED  BY <1>2, <3>1, GoToIs DEF TabInv, Shaped
  <2>7. Shaped'
    BY <1>0, <1>2, <2>5, <2>6 DEF TabInv, Shaped
  <2>8. ASSUME ~stale' PROVE Sound(react', stored', cookie, calls', leaving, list')
    <3>1. /\ Sound(react, stored, cookie, calls, leaving, list) /\ Current(k)
          /\ react.member = None
      BY <1>2, <2>8 DEF TabInv, Undisturbed
    <3>2. /\ react.studio # None /\ stored.studio # None
          /\ react.studio.id = k.studio /\ stored.studio.id = k.studio
      BY <3>1 DEF Current
    <3>3. stored.studio = react.studio /\ stored.member = None
      BY <3>1, <3>2 DEF Sound, Agree
    <3>4. /\ cookie \in {None, k.as} /\ k.as.studio = k.studio
          /\ react.studio.admin = (k.as.user \in Admin)
      BY <1>0, <1>2, <3>1, <3>2 DEF Sound, CallsFit, Right
    <3>5. cookie # None => cookie = TokenOf(m.user, m.studio)
      BY <2>1, <2>2, <3>4 DEF TokenOf
    <3>6. MemberFits(r, cookie) /\ MemberFits(s, cookie)
      BY <2>2, <2>4, <3>2, <3>3, <3>4, <3>5 DEF MemberFits
    <3>7. GameFits(r) /\ GameFits(s)
      BY <2>4, <3>1, <3>3 DEF Sound, GameFits
    <3>8. Agree(r, s, cookie, leaving, list')
      BY <2>2, <2>4, <3>1, <3>2, <3>3 DEF Sound, Agree
    <3>9. CallsFit(r, cookie, calls \ {k}, leaving)
      BY <1>0, <2>2, <2>4, <3>1, <3>2 DEF Sound, CallsFit
    <3> QED  BY <1>0, <2>3, <2>4, <3>6, <3>7, <3>8, <3>9, CommitIsSound
  <2> QED  BY <1>0, <2>7, <2>8 DEF Undisturbed
<1> QED  BY <1>1, <1>2 DEF MemberAnswer

LEMMA LoginAnswerKeeps ==
  ASSUME TabInv, NEW k \in calls, LoginAnswer(k), UNCHANGED leaving
  PROVE  Shaped' /\ (~stale' => Undisturbed')
<1> DEFINE c == TokenFor(k)
           n == Cardinality(StudiosOf[k.user])
           q == Sent("select", None, SoleStudio(k.user), c)
<1>0. /\ CallOK(k) /\ k.task = "login" /\ k.user \in User /\ cookie' = c
      /\ calls' = (calls \ {k}) \cup IF n = 1 THEN {q} ELSE {}
      /\ IF n > 1 THEN GoTo("studios") ELSE UNCHANGED <<page, list>>
      /\ stale' = (stale \/ ~Fresh) /\ UNCHANGED <<react, stored>>
  BY DEF LoginAnswer, TabInv, Shaped, CallOK
<1>1. c \in Token /\ c # None
  BY <1>0, NoneIsApart DEF TokenFor
<1>2. n = 1 => CallOK(q) /\ q.task = "select"
  <2>1. n = 1 => SoleStudio(k.user) \in Studio
    BY <1>0, NoStudiosAreNone, SoleStudioIs
  <2> HIDE DEF c
  <2> QED  BY <1>1, <2>1 DEF Sent, CallOK, Calls, Tasks
<1> HIDE DEF c, n, q
<1>3. /\ page' \in Pages /\ list' \in Studio \cup {None}
      /\ list' # None => page' = "games" /\ list' = list
  BY <1>0, GoToIs DEF TabInv, Shaped, Pages, LayoutPages
<1>4. Shaped'
  BY <1>0, <1>1, <1>2, <1>3 DEF TabInv, Shaped
<1>5. ASSUME ~stale' PROVE Sound(react, stored, c, calls', leaving, list')
  <2>1. /\ Sound(react, stored, cookie, calls, leaving, list)
        /\ react.studio = None /\ stored.studio = None
    BY <1>0, <1>5 DEF TabInv, Undisturbed, Fresh
  <2>2. MemberFits(react, c) /\ MemberFits(stored, c)
    BY <2>1 DEF Sound, MemberFits
  <2>3. Agree(react, stored, c, leaving, list')
    BY <2>1 DEF Sound, Agree
  <2>4. \A l \in calls' : l \in calls \ {k} \/ l.task = "select"
    BY <1>0, <1>2
  <2>5. \A l, o \in calls' : l \notin calls \ {k} /\ o \notin calls \ {k} => l = o
    BY <1>0
  <2>6. Enters(k) /\ CallsFit(react, cookie, calls, leaving)
    BY <1>0, <2>1 DEF Sound, Enters
  <2>7. \A l \in calls' : (Joins(l) => l \in calls) /\ ~Asks(l)
                          /\ (Enters(l) => l \notin calls \ {k})
    <3>1. ASSUME NEW l \in calls \ {k} PROVE ~Asks(l) /\ ~Enters(l)
      BY <2>6, <3>1 DEF CallsFit
    <3>2. ASSUME NEW l, l.task = "select" PROVE ~Asks(l) /\ ~Joins(l)
      BY <3>2 DEF Asks, Joins
    <3> QED  BY <2>4, <3>1, <3>2
  <2>8. CallsFit(react, c, calls', leaving)
    BY <2>1, <2>4, <2>5, <2>6, <2>7 DEF CallsFit, Asks
  <2> QED  BY <2>1, <2>2, <2>3, <2>8 DEF Sound
<1> QED  BY <1>0, <1>4, <1>5 DEF Undisturbed

(* Sessions that are set by an answer and have no member yet. *)
LEMMA SetStudioIs ==
  ASSUME Shaped, NEW u \in User, NEW s \in Studio, NEW c \in Token \cup {None}, NEW sent,
         \A k \in sent : CallOK(k), SetStudio(u, s, c, sent)
  PROVE  \E r, d, more :
           /\ r \in Reacts /\ d \in Copies /\ Commit(r, d, c, more)
           /\ react' \in Reacts /\ stored' \in Copies /\ \A k \in calls' : CallOK(k)
           /\ r.studio = SessionOf(u, s) /\ r.member = react.member
           /\ r.game = react.game /\ r.count = react.count
           /\ d.studio = SessionOf(u, s) /\ d.member = stored.member /\ d.game = stored.game
           /\ \A k \in more : k \in sent \/ k.task = "count"
<1> DEFINE r == [react EXCEPT !.studio = SessionOf(u, s)]
           d == [stored EXCEPT !.studio = SessionOf(u, s)]
           more == sent \cup CountOf(s, c)
<1>1. /\ r \in Reacts /\ r.studio = SessionOf(u, s) /\ r.member = react.member
      /\ r.game = react.game /\ r.count = react.count
      /\ d \in Copies /\ d.studio = SessionOf(u, s) /\ d.member = stored.member
      /\ d.game = stored.game
  BY NoneIsApart DEF Shaped, Reacts, Copies
<1>2. \A k \in CountOf(s, c) : CallOK(k) /\ k.task = "count"
  BY DEF CountOf, Sent, CallOK, Calls, Tasks
<1>3. Commit(r, d, c, more)
  BY DEF SetStudio
<1> HIDE DEF r, d
<1>4. react' \in Reacts /\ stored' \in Copies /\ \A k \in calls' : CallOK(k)
  BY <1>1, <1>2, <1>3, CommitIs
<1> QED  BY <1>1, <1>2, <1>3, <1>4

LEMMA SelectAnswerKeeps ==
  ASSUME TabInv, NEW k \in calls, SelectAnswer(k), UNCHANGED leaving
  PROVE  Shaped' /\ (~stale' => Undisturbed')
<1> DEFINE u == k.as.user
           c == TokenOf(u, k.studio)
<1>0. /\ CallOK(k) /\ k.task = "select" /\ u \in User /\ k.studio \in Studio
      /\ SetStudio(u, k.studio, cookie', calls \ {k}) /\ GoTo(LandingOf(u))
      /\ stale' = (stale \/ ~Fresh) /\ cookie' = TokenFor(k)
  BY DEF SelectAnswer, TabInv, Shaped, CallOK, Calls, Token
<1>1. cookie' = c
  BY <1>0 DEF TokenFor
<1>2. /\ c \in Token /\ c # None /\ c.user = u /\ c.studio = k.studio
      /\ SessionOf(u, k.studio) # None /\ SessionOf(u, k.studio).id = k.studio
      /\ SessionOf(u, k.studio).admin = (u \in Admin)
  <2> HIDE DEF u
  <2>1. k.studio \in Studio \cup {None}
    BY <1>0
  <2>2. SessionOf(u, k.studio) # None /\ SessionOf(u, k.studio).id = k.studio
        /\ SessionOf(u, k.studio).admin = (u \in Admin)
    BY <1>0, NoneIsApart
  <2>3. c \in Token /\ c # None /\ c.user = u /\ c.studio = k.studio
    BY <1>0, <2>1, NoneIsApart
  <2> QED  BY <2>2, <2>3
<1> HIDE DEF c
<1>3. PICK r, d, more :
           /\ r \in Reacts /\ d \in Copies /\ Commit(r, d, c, more)
           /\ react' \in Reacts /\ stored' \in Copies /\ \A l \in calls' : CallOK(l)
           /\ r.studio = SessionOf(u, k.studio) /\ r.member = react.member
           /\ r.game = react.game /\ r.count = react.count
           /\ d.studio = SessionOf(u, k.studio) /\ d.member = stored.member
           /\ d.game = stored.game
           /\ \A l \in more : l \in calls \ {k} \/ l.task = "count"
  <2>1. \A l \in calls \ {k} : CallOK(l)
    BY DEF TabInv, Shaped
  <2>2. SetStudio(u, k.studio, c, calls \ {k})
    BY <1>0, <1>1
  <2> QED  BY <1>0, <1>2, <2>1, <2>2, SetStudioIs DEF TabInv
<1>4. page' \in Pages /\ list' \in Studio \cup {None} /\ (list' # None => page' = "games")
  <2>1. LandingOf(u) \in Pages
    BY DEF LandingOf, Pages, LayoutPages
  <2> QED  BY <1>0, <2>1, GoToIs DEF TabInv
<1>5. Shaped'
  BY <1>0, <1>1, <1>2, <1>3, <1>4 DEF TabInv, Shaped
<1>6. ASSUME ~stale' PROVE Sound(react', stored', c, calls', leaving, list')
  <2>1. /\ Sound(react, stored, cookie, calls, leaving, list)
        /\ react.studio = None /\ stored.studio = None
    BY <1>0, <1>6 DEF TabInv, Undisturbed, Fresh
  <2>2. /\ react.member = None /\ react.game = None /\ react.count = None
        /\ stored.member = None /\ stored.game = None
    BY <2>1 DEF Sound, MemberFits, GameFits, Agree
  <2>3. MemberFits(r, c) /\ MemberFits(d, c) /\ GameFits(r) /\ GameFits(d)
    BY <1>3, <2>2 DEF MemberFits, GameFits
  <2>4. Agree(r, d, c, leaving, list')
    BY <1>2, <1>3, <2>2, NoneIsApart DEF Agree
  <2>5. Enters(k) /\ CallsFit(react, cookie, calls, leaving)
    BY <1>0, <2>1 DEF Sound, Enters
  <2>6. \A l \in more : ~Enters(l) /\ ~Asks(l) /\ l.task # "activate" /\ (Joins(l) => l \in calls)
    BY <1>3, <2>5 DEF CallsFit, Enters, Asks, Joins
  <2>7. CallsFit(r, c, more, leaving)
    BY <2>5, <2>6 DEF CallsFit
  <2> QED  BY <1>2, <1>3, <2>3, <2>4, <2>7, CommitIsSound
<1> QED  BY <1>0, <1>1, <1>5, <1>6 DEF Undisturbed

LEMMA MemberLoginAnswerKeeps ==
  ASSUME TabInv, NEW k \in calls, MemberLoginAnswer(k), UNCHANGED leaving
  PROVE  Shaped' /\ (~stale' => Undisturbed')
<1> DEFINE u == k.user
           c == TokenOf(u, k.studio)
           q == Sent("member", None, k.studio, c)
<1>0. /\ CallOK(k) /\ k.task = "memberLogin" /\ u \in Members(k.studio)
      /\ u \in User /\ k.studio \in Studio
      /\ stale' = (stale \/ ~Current(k) \/ react.member # None) /\ UNCHANGED <<page, list>>
  BY DEF MemberLoginAnswer, TabInv, Shaped, CallOK
<1>1. cookie' = c /\ SetStudio(u, k.studio, c, (calls \ {k}) \cup {q})
  BY <1>0 DEF MemberLoginAnswer, TokenFor
<1>2. /\ c \in Token /\ c # None /\ c.user = u /\ c.studio = k.studio
      /\ SessionOf(u, k.studio) # None /\ SessionOf(u, k.studio).id = k.studio
      /\ SessionOf(u, k.studio).admin = (u \in Admin)
  BY <1>0, NoneIsApart
<1>3. CallOK(q) /\ q.task = "member" /\ q.as = c /\ q.studio = k.studio
  <2> HIDE DEF c
  <2> QED  BY <1>0, <1>2 DEF Sent, CallOK, Calls, Tasks
<1>4. \A t \in Token : t = TokenOf(t.user, t.studio)
  BY DEF Token, TokenOf
<1> HIDE DEF c, q
<1>5. PICK r, d, more :
           /\ r \in Reacts /\ d \in Copies /\ Commit(r, d, c, more)
           /\ react' \in Reacts /\ stored' \in Copies /\ \A l \in calls' : CallOK(l)
           /\ r.studio = SessionOf(u, k.studio) /\ r.member = react.member
           /\ r.game = react.game /\ r.count = react.count
           /\ d.studio = SessionOf(u, k.studio) /\ d.member = stored.member
           /\ d.game = stored.game
           /\ \A l \in more : l \in (calls \ {k}) \cup {q} \/ l.task = "count"
  <2>1. \A l \in (calls \ {k}) \cup {q} : CallOK(l)
    BY <1>3 DEF TabInv, Shaped
  <2> HIDE DEF u
  <2> QED  BY <1>0, <1>1, <1>2, <2>1, SetStudioIs DEF TabInv
<1>6. Shaped'
  BY <1>0, <1>1, <1>2, <1>5 DEF TabInv, Shaped
<1>7. ASSUME ~stale' PROVE Sound(react', stored', c, calls', leaving, list)
  <2>1. /\ Sound(react, stored, cookie, calls, leaving, list) /\ Current(k)
        /\ react.member = None
    BY <1>0, <1>7 DEF TabInv, Undisturbed
  <2>2. /\ react.studio # None /\ stored.studio # None /\ react.studio.id = k.studio
    BY <2>1 DEF Current
  <2>3. /\ stored.member = None /\ react.game = None /\ stored.game = None
    BY <2>1, <2>2 DEF Sound, Agree, GameFits
  <2>4. MemberFits(r, c) /\ MemberFits(d, c) /\ GameFits(r) /\ GameFits(d)
    BY <1>5, <2>1, <2>3 DEF MemberFits, GameFits
  <2>5. Agree(r, d, c, leaving, list)
    BY <1>2, <1>5, <2>1, <2>2, <2>3 DEF Sound, Agree
  <2>6. CallsFit(react, cookie, calls, leaving) /\ Joins(k)
    BY <1>0, <2>1 DEF Sound, Joins
  <2>7. ASSUME NEW l \in more
        PROVE  \/ l \in calls /\ l # k /\ ~Joins(l) /\ ~Enters(l)
               \/ l = q
               \/ ~Joins(l) /\ ~Enters(l) /\ ~Asks(l)
    <3>1. CASE l \in calls \ {k}
      BY <2>1, <2>2, <2>6, <3>1 DEF CallsFit
    <3>2. CASE l.task = "count"
      BY <3>2 DEF Joins, Enters, Asks
    <3> QED  BY <1>5, <3>1, <3>2
  <2>8. Joins(q) /\ ~Enters(q) /\ q.task # "activate"
    BY <1>3 DEF Joins, Enters
  <2>9. ASSUME NEW l \in more, Asks(l) PROVE Right(l, r, c)
    <3>1. CASE l \in calls /\ ~Joins(l)
      <4>1. l.task = "activate" /\ Sole(l.studio) /\ Right(l, react, cookie)
            /\ l \in Calls /\ l.studio \in Studio
        BY <2>1, <2>2, <2>6, <2>9, <3>1 DEF CallsFit, Asks, Joins, TabInv, Shaped, CallOK
      <4>2. SUFFICES ASSUME l.as # None, l.studio = r.studio.id, l.as.user \in Members(l.studio)
                     PROVE  /\ c \in {None, l.as} /\ l.as.studio = l.studio
                            /\ r.studio.admin = (l.as.user \in Admin)
        BY DEF Right
      <4>3. l.studio = k.studio /\ l.as.studio = l.studio
        BY <1>2, <1>5, <2>2, <4>1, <4>2 DEF Right
      <4>4. l.as.user = u
        BY <1>0, <4>1, <4>2, <4>3, MembersAre
      <4>5. l.as \in Token
        BY <4>1, <4>2 DEF Calls
      <4>6. l.as = c
        BY <1>4, <4>3, <4>4, <4>5 DEF c
      <4> QED  BY <1>2, <1>5, <4>3, <4>4, <4>6
    <3>2. CASE l = q
      BY <1>2, <1>3, <1>5, <3>2 DEF Right
    <3> QED  BY <2>7, <2>9, <3>1, <3>2
  <2>10. /\ \A l \in more : ~Enters(l)
         /\ \A l \in more : Joins(l) => l = q
    BY <2>7, <2>8
  <2>11. \A l \in more : l.task = "activate" => Sole(l.studio)
    BY <2>6, <2>7, <2>8 DEF CallsFit, Asks
  <2>12. CallsFit(r, c, more, leaving)
    BY <1>2, <1>5, <2>9, <2>10, <2>11 DEF CallsFit
  <2> QED  BY <1>2, <1>5, <2>4, <2>5, <2>12, CommitIsSound
<1> QED  BY <1>0, <1>1, <1>6, <1>7 DEF Undisturbed

(* Answers that bring a whole session. *)
LEMMA WholeAnswersKeep ==
  ASSUME TabInv, NEW k \in calls, BootstrapAnswer(k) \/ SwitchAnswer(k) \/ RestoreAnswer(k),
         UNCHANGED leaving
  PROVE  Shaped' /\ (~stale' => Undisturbed')
<1>0. CallOK(k) /\ stored.back \in Token \cup {None} /\ calls \ {k} \subseteq calls /\ Shaped
  BY DEF TabInv, Shaped, Copies
<1>1. PICK u \in User, s \in Studio, active \in Studio \cup {None}, back \in Token \cup {None} :
        active \in {None, s} /\ Become(u, s, active, back, calls \ {k}) /\ UNCHANGED stale
  <2>1. k.as # None => k.as \in Token /\ k.as.user \in User
    BY <1>0 DEF CallOK, Calls, Token
  <2>2. CASE BootstrapAnswer(k)
    <3>1. k.user \in User /\ BootstrapStudio(k.user) \in Studio
      BY <1>0, <2>2, SoleStudioIs DEF BootstrapAnswer, BootstrapStudio, CallOK
    <3> QED  BY <1>0, <2>2, <3>1 DEF BootstrapAnswer
  <2>3. CASE SwitchAnswer(k)
    BY <1>0, <2>1, <2>3 DEF SwitchAnswer, CallOK
  <2>4. CASE RestoreAnswer(k)
    <3>1. HomeOf(k.as) \in Studio
      BY <2>1, <2>4, SoleStudioIs, SessionAssumption DEF RestoreAnswer, Restores, HomeOf
    <3> QED  BY <2>1, <2>4, <3>1 DEF RestoreAnswer, Restores
  <2> QED  BY <2>2, <2>3, <2>4
<1>2. /\ cookie' \in Token \cup {None} /\ react' \in Reacts /\ stored' \in Copies
      /\ \A l \in calls' : CallOK(l)
      /\ ~stale => Sound(react', stored', cookie', calls', leaving, list')
  BY <1>0, <1>1, BecomeKeeps
<1>3. page' \in Pages /\ list' \in Studio \cup {None} /\ (list' # None => page' = "games")
  <2>1. \A p : GoTo(p) /\ p \in Pages =>
          page' \in Pages /\ list' \in Studio \cup {None} /\ (list' # None => page' = "games")
    BY <1>0, GoToIs
  <2>2. {"admin", "dashboard", "player"} \subseteq Pages /\ \A v : LandingOf(v) \in Pages
    BY DEF LandingOf, Pages, LayoutPages
  <2>3. CASE UNCHANGED <<page, list>>
    BY <1>0, <2>3 DEF Shaped
  <2> QED  BY <2>1, <2>2, <2>3 DEF BootstrapAnswer, SwitchAnswer, RestoreAnswer
<1> QED  BY <1>0, <1>1, <1>2, <1>3 DEF Shaped, Undisturbed

LEMMA AnswersKeep ==
  ASSUME TabInv, NEW k \in calls, Answer(k)
  PROVE  Shaped' /\ (~stale' => Undisturbed')
<1>1. CASE CountAnswer(k)
  BY <1>1, CountAnswerKeeps
<1>2. CASE MemberAnswer(k)
  BY <1>2, MemberAnswerKeeps
<1>3. CASE SessionAnswer(k)
  <2>1. UNCHANGED leaving
    BY <1>3 DEF SessionAnswer
  <2>2. CASE LogoutAnswer(k)
    BY <2>1, <2>2, LessKeeps DEF LogoutAnswer, TabInv, Shaped
  <2> QED  BY <1>3, <2>1, <2>2, LoginAnswerKeeps, SelectAnswerKeeps, MemberLoginAnswerKeeps,
              WholeAnswersKeep DEF SessionAnswer
<1>4. CASE Refused(k)
  BY <1>4, LessKeeps DEF Refused, NoAnswer, TabInv, Shaped
<1> QED  BY <1>1, <1>2, <1>3, <1>4 DEF Answer

LEMMA CountsKeep ==
  ASSUME Counted, TabNext
  PROVE  Counted'
<1>1. /\ deeds \in Nat /\ deeds <= MaxDeeds /\ faults \in Nat /\ faults <= MaxFaults
      /\ MaxDeeds \in Nat /\ MaxFaults \in Nat
  BY SessionAssumption DEF Counted
<1>2. ASSUME UserActs PROVE Counted'
  BY <1>1, <1>2 DEF UserActs, Counted
<1>3. ASSUME UNCHANGED deeds, Ok \/ Fails PROVE Counted'
  BY <1>1, <1>3 DEF Ok, Fails, Counted
<1>4. CASE UserStep
  <2>1. UserActs
    BY <1>4 DEF UserStep, Follow, Enter, LoginSubmit, MemberLoginSubmit, SwitchTo, QuickStart,
                Logout, PickGame, Restore
  <2> QED  BY <1>2, <2>1
<1>5. CASE CallAnswers
  <2>1. PICK k \in calls : Answer(k)
    BY <1>5 DEF CallAnswers
  <2>2. Ok \/ Fails
    BY <2>1 DEF Answer, CountAnswer, MemberAnswer, SessionAnswer, Refused
  <2> QED  BY <1>3, <2>1, <2>2 DEF Answer
<1>6. CASE CookieEnds
  BY <1>3, <1>6 DEF CookieEnds
<1>7. CASE Render \/ Unload \/ LoadPage \/ LoadTargets
  BY <1>3, <1>7 DEF Render, Unload, LoadPage, LoadTargets, Ok
<1> QED  BY <1>4, <1>5, <1>6, <1>7 DEF TabNext

LEMMA TabStep ==
  ASSUME TabInv, [TabNext]_tabVars
  PROVE  TabInv'
<1>1. CASE UNCHANGED tabVars
  BY <1>1 DEF tabVars, TabInv, Shaped, Counted, Undisturbed
<1>2. CASE TabNext
  <2> SUFFICES Shaped' /\ (~stale' => Undisturbed')
    BY <1>2, CountsKeep DEF TabInv
  <2>0. page \in Pages /\ Shaped
    BY DEF TabInv, Shaped
  <2>1. CASE Render
    BY <2>0, <2>1, RedirectsAre, GoToIs, PagesKeep DEF Render
  <2>2. CASE Unload
    <3>1. leaving \in Pages
      BY <2>0, <2>2 DEF Unload, Shaped, Pages
    <3> QED  BY <2>2, <3>1, LoadKeeps DEF Unload
  <2>3. CASE UserStep
    <3>1. ASSUME NEW p \in Pages, Follow(p) PROVE Shaped' /\ (~stale' => Undisturbed')
      BY <2>0, <3>1, GoToIs, PagesKeep DEF Follow, NoAnswer
    <3>2. ASSUME NEW p \in Pages, Enter(p) PROVE Shaped' /\ (~stale' => Undisturbed')
      BY <3>2, LoadKeeps DEF Enter
    <3> QED  BY <2>3, <3>1, <3>2, SubmitsKeep, LogoutKeeps, PickGameKeeps DEF UserStep
  <2>4. CASE CallAnswers
    BY <2>4, AnswersKeep DEF CallAnswers
  <2>5. CASE CookieEnds
    BY <2>0, <2>5, LessKeeps DEF CookieEnds, Shaped
  <2> QED  BY <1>2, <2>1, <2>2, <2>3, <2>4, <2>5, LoadPageKeeps, LoadTargetsKeeps DEF TabNext
<1> QED  BY <1>1, <1>2

LEMMA TabInvInit == TabInit => TabInv
<1> SUFFICES ASSUME TabInit PROVE TabInv
  OBVIOUS
<1>1. Shaped /\ Counted
  <2>1. react \in Reacts
    BY DEF TabInit, Reacts
  <2>2. stored \in Copies
    BY DEF TabInit, Copies
  <2>3. Counted
    BY SessionAssumption DEF TabInit, Counted
  <2> QED  BY <2>1, <2>2, <2>3 DEF TabInit, Shaped
<1>2. MemberFits(react, cookie) /\ GameFits(react) /\ MemberFits(stored, cookie)
      /\ GameFits(stored) /\ Agree(react, stored, cookie, leaving, list)
  BY DEF TabInit, MemberFits, GameFits, Agree
<1>3. CallsFit(react, cookie, calls, leaving)
  BY DEF TabInit, CallsFit
<1> QED  BY <1>1, <1>2, <1>3 DEF TabInv, Undisturbed, Sound

LEMMA TabInvHolds == TabSpec => []TabInv
  BY TabInvInit, TabStep, PTL DEF TabSpec

\* The cookie, the React state, its copy, the page and the calls of a tab keep
\* their form whatever is answered and however late.
THEOREM TabTypeCorrect == TabSpec => []TabTypeOK
<1>1. TabInv => TabTypeOK
  BY DEF TabInv, Shaped, Counted, TabTypeOK, Reacts, Copies, CallOK, Calls
<1> QED  BY <1>1, TabInvHolds, PTL

\* The seven handlers that set cookie, React state and copy one after the
\* other leave no piece of another session behind, for any users and studios
\* and any number of calls under way, as long as no answer went astray.
THEOREM SessionsFit == TabSpec => []SessionsFitTogether
<1>1. TabInv => SessionsFitTogether
  BY DEF TabInv, Undisturbed, Sound, MemberFits, GameFits, SessionsFitTogether, Fits
<1> QED  BY <1>1, TabInvHolds, PTL

(***************************************************************************)
(* The activation of an owner.  A token names a studio of its user, and as *)
(* long as no answer went astray and no call failed, who has a studio      *)
(* session has the cookie that goes with it, and so has every call about   *)
(* the members; and nothing ends such a call but an answer that does       *)
(* something.                                                              *)
(***************************************************************************)
TokenFits(t) == t = None \/ t.studio = None \/ t.studio \in StudiosOf[t.user]
Vouched(k) ==
  /\ TokenFits(k.as)
  /\ k.task = "select" => k.studio \in StudiosOf[k.as.user]
  /\ k.task = "switch" => k.studio \in StudiosOf[k.user]
TokensFit == TokenFits(cookie) /\ TokenFits(stored.back) /\ \A k \in calls : Vouched(k)

(* Calls about the members of a studio, and one sent for the state r with c. *)
Enquires(k) == k.task \in {"count", "hydrate", "activate", "member"}
About(k, r, c) == Enquires(k) /\ r.studio # None /\ k.studio = r.studio.id /\ k.as = c

Calm == ~stale /\ faults = 0
LoggedIn ==
  Calm => /\ react.studio # None => cookie # None
          /\ \A k \in calls : Enquires(k) => k.as # None /\ k.as.studio = k.studio

(* The calls a sole member without a member session waits for. *)
CallsDue(r) == IF r.count = 1 THEN {"activate", "member"} ELSE {"count", "hydrate"}
Awaits(r, cs) ==
  r.studio # None /\ r.member = None /\ Sole(r.studio.id)
    => \E k \in cs : k.task \in CallsDue(r) /\ k.studio = r.studio.id
OwnerAwaits == Calm => Awaits(react, calls)

ActInv == TabInv /\ TokensFit /\ LoggedIn /\ OwnerAwaits

LEMMA TokensForFit ==
  ASSUME NEW k, CallOK(k), Vouched(k)
  PROVE  TokenFits(TokenFor(k))
<1>0. /\ k.as # None => k.as.user \in User /\ k.as.studio \in Studio \cup {None}
      /\ k.task \in {"login", "memberLogin", "switch", "bootstrap"} => k.user \in User
  BY DEF CallOK, Calls, Token
<1>1. \A u \in User : \A s : s = None \/ s \in StudiosOf[u] => TokenFits(TokenOf(u, s))
  BY DEF TokenFits, TokenOf
<1>2. CASE k.task = "login" \/ (k.task = "switch" /\ k.as # None)
  BY <1>0, <1>1, <1>2 DEF TokenFor, Vouched
<1>3. CASE k.task = "memberLogin"
  BY <1>0, <1>1, <1>3 DEF TokenFor, CallOK, Members
<1>4. CASE k.task = "select"
  BY <1>0, <1>1, <1>4 DEF TokenFor, CallOK, Vouched
<1>5. CASE k.task = "bootstrap"
  BY <1>0, <1>1, <1>5, SoleStudioIs DEF TokenFor, CallOK, BootstrapStudio
<1>6. CASE k.task = "restore" /\ Restores(k)
  <2>1. HomeOf(k.as) \in StudiosOf[k.as.user]
    BY <1>0, <1>6, SoleStudioIs DEF HomeOf, Restores
  <2> QED  BY <1>0, <1>1, <1>6, <2>1 DEF TokenFor, Restores
<1>7. TokenFits(None)
  BY DEF TokenFits
<1>8. CASE /\ k.task \notin {"login", "memberLogin", "select", "bootstrap"}
           /\ ~(k.task = "switch" /\ k.as # None) /\ ~(k.task = "restore" /\ Restores(k))
  BY <1>7, <1>8 DEF TokenFor
<1> QED  BY <1>2, <1>3, <1>4, <1>5, <1>6, <1>8

(* What rendering a state sends. *)
LEMMA CommitSends ==
  ASSUME NEW r, NEW s \in Copies, NEW c, NEW sent, Commit(r, s, c, sent)
  PROVE  /\ stored'.back = s.back /\ sent \subseteq calls'
         /\ \A k \in calls' : k \in sent \/ About(k, r, c)
         /\ r.studio # None /\ r.count = None =>
              \E k \in calls' : k.task = "hydrate" /\ k.studio = r.studio.id
         /\ r.studio # None /\ r.member = None /\ r.count = 1 =>
              \E k \in calls' : k.task = "activate" /\ k.studio = r.studio.id
<1>1. stored'.back = s.back
  BY DEF Commit, Copies
<1>2. calls' = sent \cup CountEffect(r, c) \cup ActivateEffect(r, c)
  BY DEF Commit
<1>3. \A t : LET k == Sent(t, None, r.studio.id, c)
             IN  k.task = t /\ k.studio = r.studio.id /\ k.as = c
  BY DEF Sent
<1>4. /\ \A k \in CountEffect(r, c) \cup ActivateEffect(r, c) : About(k, r, c)
      /\ r.studio # None /\ r.count = None =>
           \E k \in CountEffect(r, c) : k.task = "hydrate" /\ k.studio = r.studio.id
      /\ r.studio # None /\ r.member = None /\ r.count = 1 =>
           \E k \in ActivateEffect(r, c) : k.task = "activate" /\ k.studio = r.studio.id
  BY <1>3 DEF CountEffect, ActivateEffect, About, Enquires
<1> QED  BY <1>1, <1>2, <1>4

LEMMA CommitFits ==
  ASSUME NEW r, NEW s \in Copies, NEW c, NEW sent, Commit(r, s, c, sent),
         cookie' = c, TokenFits(c), TokenFits(s.back),
         \A k \in sent : Vouched(k) \/ (Enquires(k) /\ k.as = c)
  PROVE  TokensFit'
<1>1. \A k \in calls' : k \in sent \/ About(k, r, c)
  BY CommitSends
<1>2. ASSUME NEW k, Enquires(k), k.as = c PROVE Vouched(k)
  BY <1>2 DEF Enquires, Vouched
<1>3. \A k \in calls' : Vouched(k)
  BY <1>1, <1>2 DEF About
<1> QED  BY <1>3, CommitSends DEF TokensFit

(* A whole session, and a studio session. *)
LEMMA BecomeFits ==
  ASSUME TokensFit, NEW u, NEW s \in StudiosOf[u], NEW active, NEW back, NEW rest,
         u \in User, active \in {None, s}, back \in Token \cup {None},
         rest \subseteq calls, TokenFits(back), Become(u, s, active, back, rest)
  PROVE  TokensFit'
<1> DEFINE c == TokenOf(u, s)
           m == [user |-> u, studio |-> s]
           d == [studio |-> SessionOf(u, s), member |-> m, game |-> active, back |-> back]
<1>0. s \in Studio
  BY SessionAssumption
<1>1. d \in Copies /\ d.back = back
  BY <1>0, NoneIsApart DEF Copies
<1>2. TokenFits(c)
  BY DEF TokenFits, TokenOf
<1>3. cookie' = c /\ \E r : Commit(r, d, c, rest \cup CountOf(s, c))
  BY DEF Become
<1>4. \A k \in CountOf(s, c) : Enquires(k) /\ k.as = c
  BY DEF CountOf, Sent, Enquires
<1>5. \A k \in rest : Vouched(k)
  BY DEF TokensFit
<1> HIDE DEF c, d
<1> QED  BY <1>1, <1>2, <1>3, <1>4, <1>5, CommitFits

LEMMA SetStudioFits ==
  ASSUME Shaped, TokensFit, NEW u \in User, NEW s \in StudiosOf[u], NEW sent,
         cookie' = TokenOf(u, s), SetStudio(u, s, cookie', sent),
         \A k \in sent : k \in calls \/ (Enquires(k) /\ k.as = cookie')
  PROVE  TokensFit'
<1> DEFINE d == [stored EXCEPT !.studio = SessionOf(u, s)]
<1>0. s \in Studio
  BY SessionAssumption
<1>1. d \in Copies /\ d.back = stored.back
  BY <1>0, NoneIsApart DEF Copies, Shaped
<1>2. TokenFits(cookie')
  BY DEF TokenFits, TokenOf
<1>3. \E r : Commit(r, d, cookie', sent \cup CountOf(s, cookie'))
  BY DEF SetStudio
<1>4. \A k \in CountOf(s, cookie') : Enquires(k) /\ k.as = cookie'
  BY DEF CountOf, Sent, Enquires
<1>5. \A k \in calls : Vouched(k)
  BY DEF TokensFit
<1> HIDE DEF d
<1> QED  BY <1>1, <1>2, <1>3, <1>4, <1>5, CommitFits DEF TokensFit

LEMMA SameTokens ==
  ASSUME TokensFit, stored'.back = stored.back, cookie' \in {None, cookie}, calls' \subseteq calls
  PROVE  TokensFit'
  BY DEF TokensFit, TokenFits

LEMMA UserTokens ==
  ASSUME TabInv, TokensFit, UserStep
  PROVE  TokensFit'
<1>0. Shaped /\ TokenFits(cookie) /\ TokenFits(stored.back) /\ TokenFits(Actor)
      /\ stored \in Copies /\ react \in Reacts
  BY DEF TabInv, Shaped, TokensFit, Actor, TokenFits
<1>1. \A t, u, s, c : LET k == Sent(t, u, s, c)
                      IN  k.task = t /\ k.user = u /\ k.studio = s /\ k.as = c
  BY DEF Sent
<1>2. ASSUME NEW k, Submit(k), TokenFits(k.as), k.task # "select",
             k.task = "switch" => k.studio \in StudiosOf[k.user]
      PROVE  TokensFit'
  <2>1. Vouched(k)
    BY <1>2 DEF Vouched
  <2> QED  BY <1>2, <2>1 DEF Submit, NoAnswer, TokensFit
<1>3. ASSUME NEW p \in Pages, Follow(p) PROVE TokensFit'
  BY <1>3, SameTokens DEF Follow, NoAnswer
<1>4. ASSUME NEW p \in Pages, Enter(p) PROVE TokensFit'
  <2>1. TokenFits(cookie')
    <3>1. \A k \in calls : TokenFits(TokenFor(k))
      BY TokensForFit DEF TabInv, Shaped, TokensFit
    <3> QED  BY <1>0, <1>4, <3>1 DEF Enter, Load, TokenFits
  <2>2. \E r : Commit(r, stored, cookie', {})
    BY <1>4 DEF Enter, Load
  <2> QED  BY <1>0, <2>1, <2>2, CommitFits
<1>5. ASSUME NEW u \in User, LoginSubmit(u) PROVE TokensFit'
  BY <1>0, <1>1, <1>2, <1>5 DEF LoginSubmit
<1>6. ASSUME NEW u \in User, MemberLoginSubmit(u) PROVE TokensFit'
  BY <1>0, <1>1, <1>2, <1>6 DEF MemberLoginSubmit
<1>7. ASSUME NEW u \in User, NEW s \in StudiosOf[u], SwitchTo(u, s) PROVE TokensFit'
  BY <1>0, <1>1, <1>2, <1>7 DEF SwitchTo
<1>8. ASSUME NEW u \in Quick, QuickStart(u) PROVE TokensFit'
  BY <1>0, <1>1, <1>2, <1>8 DEF QuickStart
<1>9. ASSUME Restore PROVE TokensFit'
  BY <1>0, <1>1, <1>2, <1>9 DEF Restore
<1>10. ASSUME Logout PROVE TokensFit'
  <2> DEFINE s == [stored EXCEPT !.studio = None, !.member = None]
             k == Sent("logout", None, None, cookie)
  <2>1. s \in Copies /\ s.back = stored.back
    BY <1>0 DEF Copies
  <2>2. cookie' = cookie /\ \E r : Commit(r, s, cookie, calls \cup {k})
    BY <1>10 DEF Logout
  <2>3. Vouched(k)
    BY <1>0, <1>1 DEF Vouched
  <2> HIDE DEF s, k
  <2> QED  BY <1>0, <2>1, <2>2, <2>3, CommitFits DEF TokensFit
<1>11. ASSUME PickGame PROVE TokensFit'
  BY <1>0, <1>11, SameTokens DEF PickGame, Copies
<1> QED  BY <1>3, <1>4, <1>5, <1>6, <1>7, <1>8, <1>9, <1>10, <1>11 DEF UserStep

LEMMA AnswerTokens ==
  ASSUME TabInv, TokensFit, NEW k \in calls, Answer(k)
  PROVE  TokensFit'
<1>0. /\ Shaped /\ TokenFits(cookie) /\ TokenFits(stored.back) /\ Vouched(k) /\ CallOK(k)
      /\ stored \in Copies /\ react \in Reacts /\ TokenFits(TokenFor(k))
      /\ \A l \in calls : Vouched(l)
      /\ k.as # None => k.as \in Token /\ k.as.user \in User
  BY TokensForFit DEF TabInv, Shaped, TokensFit, CallOK, Calls, Token
<1>1. CASE CountAnswer(k)
  <2> DEFINE s == IF k.as = None THEN Blank(stored) ELSE stored
  <2>1. s \in Copies /\ s.back = stored.back
    BY <1>0 DEF Blank, Copies
  <2>2. cookie' = cookie
        /\ \/ stored' = s /\ calls' = calls \ {k}
           \/ \E r : Commit(r, s, cookie, calls \ {k})
    BY <1>1 DEF CountAnswer
  <2> HIDE DEF s
  <2>3. CASE stored' = s /\ calls' = calls \ {k}
    BY <2>1, <2>2, <2>3, SameTokens
  <2>4. CASE \E r : Commit(r, s, cookie, calls \ {k})
    BY <1>0, <2>1, <2>2, <2>4, CommitFits
  <2> QED  BY <2>2, <2>3, <2>4
<1>2. CASE MemberAnswer(k)
  <2> DEFINE m == [user |-> k.as.user, studio |-> k.studio]
             s == [stored EXCEPT !.member = m]
  <2>1. CASE calls' = calls \ {k} /\ UNCHANGED <<react, stored, page, list, stale>>
    BY <1>2, <2>1, SameTokens DEF MemberAnswer
  <2>2. CASE k.as # None /\ \E r : Commit(r, s, cookie, calls \ {k})
    <3>1. s \in Copies /\ s.back = stored.back
      BY <1>0, <1>2, <2>2, NoneIsApart DEF MemberAnswer, CallOK, Copies
    <3> QED  BY <1>0, <1>2, <2>2, <3>1, CommitFits DEF MemberAnswer
  <2> QED  BY <1>2, <2>1, <2>2 DEF MemberAnswer
<1>3. CASE LoginAnswer(k)
  <2> DEFINE q == Sent("select", None, SoleStudio(k.user), TokenFor(k))
  <2>1. k.user \in User /\ TokenFor(k) = TokenOf(k.user, None)
    BY <1>0, <1>3 DEF LoginAnswer, TokenFor, CallOK
  <2>2. Cardinality(StudiosOf[k.user]) = 1 => Vouched(q)
    BY <1>0, <2>1, NoStudiosAreNone, SoleStudioIs DEF Sent, Vouched, TokenOf
  <2>3. \A l \in calls' : l \in calls \/ (Cardinality(StudiosOf[k.user]) = 1 /\ l = q)
    BY <1>3 DEF LoginAnswer
  <2> HIDE DEF q
  <2> QED  BY <1>0, <1>3, <2>2, <2>3 DEF LoginAnswer, TokensFit
<1>4. CASE SelectAnswer(k)
  <2>1. /\ k.as.user \in User /\ k.studio \in StudiosOf[k.as.user]
        /\ cookie' = TokenOf(k.as.user, k.studio)
        /\ SetStudio(k.as.user, k.studio, cookie', calls \ {k})
    BY <1>0, <1>4 DEF SelectAnswer, TokenFor, CallOK, Vouched
  <2> QED  BY <1>0, <2>1, SetStudioFits
<1>5. CASE MemberLoginAnswer(k)
  <2> DEFINE q == Sent("member", None, k.studio, cookie')
  <2>1. /\ k.user \in User /\ k.studio \in StudiosOf[k.user]
        /\ cookie' = TokenOf(k.user, k.studio)
        /\ SetStudio(k.user, k.studio, cookie', (calls \ {k}) \cup {q})
    BY <1>0, <1>5 DEF MemberLoginAnswer, TokenFor, CallOK, Members
  <2>2. Enquires(q) /\ q.as = cookie'
    BY DEF Sent, Enquires
  <2> HIDE DEF q
  <2> QED  BY <1>0, <2>1, <2>2, SetStudioFits
<1>6. CASE LogoutAnswer(k)
  BY <1>6, SameTokens DEF LogoutAnswer
<1>7. CASE BootstrapAnswer(k)
  <2> DEFINE s == BootstrapStudio(k.user)
  <2>1. k.user \in User /\ s \in StudiosOf[k.user] /\ stored.back \in Token \cup {None}
    BY <1>0, <1>7, SoleStudioIs DEF BootstrapAnswer, BootstrapStudio, CallOK, Copies
  <2>2. Become(k.user, s, s, stored.back, calls \ {k})
    BY <1>7 DEF BootstrapAnswer
  <2> HIDE DEF s
  <2> QED  BY <1>0, <2>1, <2>2, BecomeFits
<1>8. CASE SwitchAnswer(k)
  <2>1. k.user \in User /\ k.studio \in StudiosOf[k.user] /\ k.as # None
    BY <1>0, <1>8 DEF SwitchAnswer, CallOK, Vouched
  <2>2. Become(k.user, k.studio, None, k.as, calls \ {k}) /\ TokenFits(k.as)
    BY <1>0, <1>8 DEF SwitchAnswer, Vouched
  <2> QED  BY <1>0, <2>1, <2>2, BecomeFits
<1>9. CASE RestoreAnswer(k)
  <2>1. k.as.user \in User /\ HomeOf(k.as) \in StudiosOf[k.as.user]
    BY <1>0, <1>9, SoleStudioIs DEF RestoreAnswer, Restores, HomeOf
  <2>2. Become(k.as.user, HomeOf(k.as), None, None, calls \ {k})
    BY <1>9 DEF RestoreAnswer
  <2>3. TokenFits(None)
    BY DEF TokenFits
  <2> QED  BY <1>0, <2>1, <2>2, <2>3, BecomeFits
<1>10. CASE Refused(k)
  BY <1>10, SameTokens DEF Refused, NoAnswer
<1> QED  BY <1>1, <1>2, <1>3, <1>4, <1>5, <1>6, <1>7, <1>8, <1>9, <1>10 DEF Answer, SessionAnswer

LEMMA TokensStep ==
  ASSUME TabInv, TokensFit, [TabNext]_tabVars
  PROVE  TokensFit'
<1>0. /\ Shaped /\ TokenFits(cookie) /\ TokenFits(stored.back) /\ stored \in Copies
      /\ TokenFits(None)
  BY DEF TabInv, Shaped, TokensFit, TokenFits
<1>1. CASE UNCHANGED tabVars \/ Render \/ CookieEnds
  BY <1>1, SameTokens DEF tabVars, Render, CookieEnds
<1>2. CASE Unload
  <2>1. TokenFits(cookie')
    <3>1. \A k \in calls : TokenFits(TokenFor(k))
      BY TokensForFit DEF TabInv, Shaped, TokensFit
    <3> QED  BY <1>0, <1>2, <3>1 DEF Unload, Load
  <2>2. \E r : Commit(r, stored, cookie', {})
    BY <1>2 DEF Unload, Load
  <2> QED  BY <1>0, <2>1, <2>2, CommitFits
<1>3. CASE LoadPage
  <2>1. stored'.back = stored.back
    BY <1>0, <1>3 DEF LoadPage, Expel, Blank, Copies
  <2> QED  BY <1>3, <2>1, SameTokens DEF LoadPage
<1>4. CASE LoadTargets
  <2>1. stored'.back = ReturnToken /\ TokenFits(ReturnToken)
    BY <1>0, <1>4 DEF LoadTargets, ReturnToken, Actor, Copies
  <2> QED  BY <1>4, <2>1 DEF LoadTargets, TokensFit
<1> QED  BY <1>1, <1>2, <1>3, <1>4, UserTokens, AnswerTokens DEF TabNext, CallAnswers

(* An answer that went astray, or a failure, is not forgotten. *)
LEMMA FailsIsSeen ==
  ASSUME TabInv
  PROVE  faults \in Nat /\ (Fails => faults' # 0) /\ (Ok => faults' = faults)
  BY SessionAssumption DEF TabInv, Counted, Fails, Ok

LEMMA CalmWas ==
  ASSUME TabInv, TabNext
  PROVE  Calm' => Calm
<1>0. stale \in BOOLEAN
  BY DEF TabInv, Shaped
<1>1. faults' # 0 \/ faults' = faults
  <2>1. CASE UserStep
    BY <2>1 DEF UserStep, UserActs, Follow, Enter, LoginSubmit, MemberLoginSubmit, SwitchTo,
                QuickStart, Logout, PickGame, Restore
  <2>2. CASE CallAnswers
    BY <2>2, FailsIsSeen DEF CallAnswers, Answer, CountAnswer, MemberAnswer, SessionAnswer, Refused
  <2>3. CASE CookieEnds
    BY <2>3, FailsIsSeen DEF CookieEnds
  <2> QED  BY <2>1, <2>2, <2>3 DEF TabNext, Render, Unload, LoadPage, LoadTargets
<1>2. stale => stale'
  <2>1. ASSUME NEW p, Load(p) PROVE stale => stale'
    BY <2>1 DEF Load
  <2>2. CASE UserStep
    BY <2>1, <2>2 DEF UserStep, Follow, Enter, LoginSubmit, MemberLoginSubmit, SwitchTo,
                QuickStart, Logout, PickGame, Restore, NoAnswer, Submit
  <2>3. CASE CallAnswers
    BY <2>3 DEF CallAnswers, Answer, CountAnswer, MemberAnswer, SessionAnswer, Refused, NoAnswer,
                LoginAnswer, SelectAnswer, MemberLoginAnswer, LogoutAnswer, BootstrapAnswer,
                SwitchAnswer, RestoreAnswer
  <2> QED  BY <2>1, <2>2, <2>3 DEF TabNext, Render, Unload, LoadPage, LoadTargets, CookieEnds
<1> QED  BY <1>0, <1>1, <1>2 DEF Calm

(* Steps that leave who is there and what is asked about it. *)
LEMMA NothingAsked ==
  ASSUME LoggedIn, OwnerAwaits, Calm' => Calm,
         react'.studio = react.studio, react'.member = react.member,
         react'.count = react.count,
         \A k \in calls : Enquires(k) => k \in calls',
         \A k \in calls' : k \in calls \/ ~Enquires(k),
         Calm' => cookie' = cookie \/ cookie' # None \/ react.studio = None
  PROVE  LoggedIn' /\ OwnerAwaits'
<1>1. LoggedIn'
  BY DEF LoggedIn
<1>2. ASSUME Calm' PROVE Awaits(react', calls')
  <2>1. Awaits(react, calls)
    BY <1>2 DEF OwnerAwaits
  <2>2. \A k : k.task \in CallsDue(react) => Enquires(k)
    BY DEF CallsDue, Enquires
  <2>3. CallsDue(react') = CallsDue(react)
    BY DEF CallsDue
  <2> QED  BY <2>1, <2>2, <2>3 DEF Awaits
<1> QED  BY <1>1, <1>2 DEF OwnerAwaits

(* Steps that render a session. *)
LEMMA SessionRendered ==
  ASSUME TabInv', LoggedIn, Calm' => Calm,
         NEW r \in Reacts, NEW s \in Copies, NEW sent, Commit(r, s, cookie', sent),
         Calm' => /\ r.studio # None => cookie' # None
                  /\ \A k \in sent : k \in calls \/ ~Enquires(k) \/ About(k, r, cookie'),
         Calm' /\ r.studio # None /\ r.member = None /\ Sole(r.studio.id)
           /\ r.count \notin {None, 1} =>
             \E k \in sent : k.task \in {"count", "hydrate"} /\ k.studio = r.studio.id
  PROVE  LoggedIn' /\ OwnerAwaits'
<1>0. /\ cookie' \in Token \cup {None} /\ react'.studio = r.studio
      /\ react'.member = r.member /\ react'.count = r.count
  <2>1. cookie' \in Token \cup {None}
    BY DEF TabInv, Shaped
  <2> QED  BY <2>1, CommitIs
<1>1. /\ sent \subseteq calls' /\ \A k \in calls' : k \in sent \/ About(k, r, cookie')
      /\ r.studio # None /\ r.count = None =>
           \E k \in calls' : k.task = "hydrate" /\ k.studio = r.studio.id
      /\ r.studio # None /\ r.member = None /\ r.count = 1 =>
           \E k \in calls' : k.task = "activate" /\ k.studio = r.studio.id
  BY CommitSends
<1>2. ASSUME Calm' PROVE /\ react'.studio # None => cookie' # None
                         /\ \A k \in calls' : Enquires(k) => k.as # None /\ k.as.studio = k.studio
  <2>1. react'.studio # None /\ cookie' # None => cookie'.studio = react'.studio.id
    BY <1>2 DEF Calm, TabInv, Undisturbed, Sound, Agree
  <2>2. \A k : About(k, r, cookie') => k.as # None /\ k.as.studio = k.studio
    BY <1>0, <1>2, <2>1 DEF About
  <2>3. \A k \in calls : Enquires(k) => k.as # None /\ k.as.studio = k.studio
    BY <1>2 DEF LoggedIn
  <2> QED  BY <1>0, <1>1, <1>2, <2>2, <2>3
<1>3. ASSUME Calm' PROVE Awaits(react', calls')
  <2> SUFFICES ASSUME r.studio # None, r.member = None, Sole(r.studio.id)
               PROVE  \E k \in calls' : k.task \in CallsDue(r) /\ k.studio = r.studio.id
    BY <1>0 DEF Awaits, CallsDue
  <2>1. CASE r.count = 1
    BY <1>1, <2>1 DEF CallsDue
  <2>2. CASE r.count = None
    BY <1>1, <2>2, NoneIsApart DEF CallsDue
  <2>3. CASE r.count \notin {None, 1}
    BY <1>1, <1>3, <2>3 DEF CallsDue
  <2> QED  BY <2>1, <2>2, <2>3
<1> QED  BY <1>2, <1>3 DEF LoggedIn, OwnerAwaits

LEMMA LoadAwaits ==
  ASSUME ActInv, TabInv', Calm' => Calm, NEW p, Load(p)
  PROVE  LoggedIn' /\ OwnerAwaits'
<1> DEFINE r == [studio |-> stored.studio, member |-> stored.member,
                 game |-> stored.game, count |-> None]
<1>1. /\ r \in Reacts /\ stored \in Copies /\ r.studio = stored.studio /\ r.count = None
  BY DEF ActInv, TabInv, Shaped, Reacts, Copies
<1>2. Commit(r, stored, cookie', {})
  BY DEF Load
<1> HIDE DEF r
<1>3. ASSUME Calm', r.studio # None PROVE cookie' # None
  <2>1. react.studio # None /\ cookie # None
    BY <1>1, <1>3 DEF ActInv, TabInv, Calm, Undisturbed, Sound, Agree, LoggedIn
  <2>2. ~Fresh
    BY <2>1 DEF Fresh
  <2> QED  BY <1>3, <2>1, <2>2 DEF Load, Calm
<1> QED  BY <1>1, <1>2, <1>3, SessionRendered DEF ActInv

LEMMA BecomeAwaits ==
  ASSUME ActInv, TabInv', Calm' => Calm, NEW u \in User, NEW s \in Studio,
         NEW active \in {None, s}, NEW back \in Token \cup {None}, NEW rest,
         rest \subseteq calls, Become(u, s, active, back, rest)
  PROVE  LoggedIn' /\ OwnerAwaits'
<1> DEFINE c == TokenOf(u, s)
           m == [user |-> u, studio |-> s]
           r == [react EXCEPT !.studio = SessionOf(u, s), !.member = m, !.game = active]
           d == [studio |-> SessionOf(u, s), member |-> m, game |-> active, back |-> back]
           sent == rest \cup CountOf(s, c)
<1>1. /\ r \in Reacts /\ r.studio = SessionOf(u, s) /\ r.member = m
      /\ d \in Copies /\ m # None /\ c # None /\ r.studio # None /\ r.studio.id = s
  <2>1. /\ m \in Member /\ m # None /\ c # None
        /\ SessionOf(u, s) \in Session /\ SessionOf(u, s) # None /\ SessionOf(u, s).id = s
    BY NoneIsApart
  <2>2. react \in Reacts
    BY DEF ActInv, TabInv, Shaped
  <2> HIDE DEF m, c
  <2> QED  BY <2>1, <2>2 DEF Reacts, Copies
<1>2. cookie' = c /\ Commit(r, d, c, sent)
  BY DEF Become
<1>3. \A k \in sent : k \in calls \/ About(k, r, c)
  BY <1>1 DEF CountOf, Sent, About, Enquires
<1> HIDE DEF c, m, r, d, sent
<1> QED  BY <1>1, <1>2, <1>3, SessionRendered DEF ActInv

LEMMA SetStudioAwaits ==
  ASSUME ActInv, TabInv', Calm' => Calm, NEW u \in User, NEW s \in Studio, NEW sent,
         cookie' # None, SetStudio(u, s, cookie', sent),
         \A k \in sent : k \in calls \/ (Enquires(k) /\ k.studio = s /\ k.as = cookie')
  PROVE  LoggedIn' /\ OwnerAwaits'
<1> DEFINE r == [react EXCEPT !.studio = SessionOf(u, s)]
           d == [stored EXCEPT !.studio = SessionOf(u, s)]
           q == Sent("count", None, s, cookie')
           more == sent \cup CountOf(s, cookie')
<1>1. /\ r \in Reacts /\ r.studio = SessionOf(u, s) /\ d \in Copies
      /\ r.studio # None /\ r.studio.id = s
  <2>1. SessionOf(u, s) \in Session /\ SessionOf(u, s) # None /\ SessionOf(u, s).id = s
    BY NoneIsApart
  <2>2. react \in Reacts /\ stored \in Copies
    BY DEF ActInv, TabInv, Shaped
  <2> QED  BY <2>1, <2>2 DEF Reacts, Copies
<1>2. Commit(r, d, cookie', more)
  BY DEF SetStudio
<1>3. q \in more /\ q.task = "count" /\ q.studio = s /\ q.as = cookie'
      /\ \A k \in more : k \in sent \/ k = q
  BY DEF CountOf, Sent
<1> HIDE DEF r, d, q, more
<1>4. \A k \in more : k \in calls \/ About(k, r, cookie')
  BY <1>1, <1>3 DEF About, Enquires
<1> QED  BY <1>1, <1>2, <1>3, <1>4, SessionRendered DEF ActInv

LEMMA CountAnswerAwaits ==
  ASSUME ActInv, TabInv', Calm' => Calm, NEW k \in calls, CountAnswer(k)
  PROVE  LoggedIn' /\ OwnerAwaits'
<1> DEFINE s == IF k.as = None THEN Blank(stored) ELSE stored
<1>0. /\ react \in Reacts /\ stored \in Copies /\ s \in Copies /\ k.studio \in Studio
      /\ Enquires(k) /\ k.task \notin {"activate", "member"} /\ UNCHANGED cookie
  <2>1. CallOK(k) /\ react \in Reacts /\ stored \in Copies
    BY DEF ActInv, TabInv, Shaped
  <2> QED  BY <2>1, BlankIs DEF CountAnswer, CallOK, Enquires
<1>1. PICK n \in {0, Cardinality(Members(k.studio))} :
        /\ n = 0 /\ k.as # None /\ k.as.user \in Members(k.studio) => Fails
        /\ IF n = react.count
           THEN UNCHANGED react /\ stored' = s /\ calls' = calls \ {k}
           ELSE Commit([react EXCEPT !.count = n], s, cookie, calls \ {k})
  BY DEF CountAnswer
<1> DEFINE r == [react EXCEPT !.count = n]
<1>2. /\ r \in Reacts /\ r.studio = react.studio /\ r.member = react.member /\ r.count = n
      /\ n \in Nat
  BY <1>0, MembersAre DEF Reacts
<1> HIDE DEF s, r
<1>3. ASSUME Calm' PROVE /\ react.studio # None /\ react.studio.id = k.studio /\ cookie # None
                         /\ n = Cardinality(Members(k.studio))
  <2>1. Calm /\ Current(k)
    BY <1>3 DEF CountAnswer, Calm
  <2>2. react.studio # None /\ react.studio.id = k.studio
    BY <2>1 DEF Current
  <2>3. cookie # None /\ k.as # None /\ k.as.studio = k.studio
    BY <1>0, <2>1, <2>2 DEF ActInv, LoggedIn
  <2>4. k.as.user \in Members(k.studio)
    <3>1. Vouched(k) /\ CallOK(k) /\ k.studio # None
      BY <1>0, NoneIsApart DEF ActInv, TokensFit, TabInv, Shaped
    <3>2. k.as.user \in User /\ k.studio \in StudiosOf[k.as.user]
      BY <2>3, <3>1 DEF Vouched, TokenFits, CallOK, Calls, Token
    <3> QED  BY <3>2 DEF Members
  <2> QED  BY <1>1, <1>3, <2>2, <2>3, <2>4, FailsIsSeen DEF Calm, ActInv
<1>4. CASE n = react.count
  <2>1. UNCHANGED react /\ calls' = calls \ {k}
    BY <1>1, <1>4
  <2>2. LoggedIn'
    BY <1>0, <2>1 DEF ActInv, LoggedIn
  <2>3. ASSUME Calm' PROVE Awaits(react', calls')
    <3> SUFFICES ASSUME react.member = None, Sole(react.studio.id), react.studio # None
                 PROVE  \E l \in calls' : l.task \in CallsDue(react) /\ l.studio = react.studio.id
      BY <2>1 DEF Awaits, CallsDue
    <3>1. n = 1 /\ CallsDue(react) = {"activate", "member"}
      BY <1>3, <1>4, <2>3 DEF Sole, CallsDue
    <3>2. PICK l \in calls : l.task \in CallsDue(react) /\ l.studio = react.studio.id
      BY <2>3 DEF ActInv, OwnerAwaits, Awaits
    <3> QED  BY <1>0, <2>1, <3>1, <3>2
  <2> QED  BY <2>2, <2>3 DEF OwnerAwaits
<1>5. CASE n # react.count
  <2>1. Commit(r, s, cookie', calls \ {k})
    BY <1>0, <1>1, <1>5 DEF r
  <2>2. Calm' /\ Sole(r.studio.id) => r.count = 1
    BY <1>2, <1>3 DEF Sole
  <2> QED  BY <1>0, <1>2, <1>3, <2>1, <2>2, SessionRendered DEF ActInv
<1> QED  BY <1>4, <1>5

LEMMA MemberAnswerAwaits ==
  ASSUME ActInv, TabInv', Calm' => Calm, NEW k \in calls, MemberAnswer(k)
  PROVE  LoggedIn' /\ OwnerAwaits'
<1>0. /\ CallOK(k) /\ k.studio \in Studio /\ Enquires(k) /\ react \in Reacts /\ stored \in Copies
      /\ UNCHANGED cookie /\ k.studio # None
  <2>1. CallOK(k) /\ react \in Reacts /\ stored \in Copies
    BY DEF ActInv, TabInv, Shaped
  <2> QED  BY <2>1, NoneIsApart DEF MemberAnswer, CallOK, Enquires
<1>1. ASSUME Calm' PROVE k.as # None /\ k.as \in Token /\ k.as.user \in Members(k.studio)
  <2>1. k.as # None /\ k.as.studio = k.studio /\ Vouched(k)
    BY <1>0, <1>1 DEF ActInv, LoggedIn, TokensFit
  <2>2. k.as \in Token /\ k.as.user \in User /\ k.studio \in StudiosOf[k.as.user]
    BY <1>0, <2>1 DEF Vouched, TokenFits, CallOK, Calls, Token
  <2> QED  BY <2>1, <2>2 DEF Members
<1>2. CASE IF k.as # None /\ k.as.user \in Members(k.studio) THEN Fails ELSE Ok
  <2>1. ~Calm'
    BY <1>1, <1>2, FailsIsSeen DEF Calm, ActInv
  <2> QED  BY <2>1 DEF LoggedIn, OwnerAwaits
<1>3. ASSUME k.as # None, k.as.user \in Members(k.studio),
             LET m == [user |-> k.as.user, studio |-> k.studio]
             IN  Commit([react EXCEPT !.member = m], [stored EXCEPT !.member = m],
                        cookie, calls \ {k}),
             stale' = (stale \/ ~Current(k) \/ react.member # None)
      PROVE  LoggedIn' /\ OwnerAwaits'
  <2> DEFINE m == [user |-> k.as.user, studio |-> k.studio]
             r == [react EXCEPT !.member = m]
             s == [stored EXCEPT !.member = m]
  <2>1. m \in Member /\ m # None
    BY <1>0, <1>3, NoneIsApart DEF CallOK, Calls, Token
  <2>2. Commit(r, s, cookie', calls \ {k})
    BY <1>0, <1>3
  <2> HIDE DEF m
  <2>3. r \in Reacts /\ r.studio = react.studio /\ r.member = m /\ s \in Copies
    BY <1>0, <2>1 DEF Reacts, Copies
  <2> HIDE DEF r, s
  <2>4. Calm' /\ r.studio # None => cookie' # None
    BY <1>0, <2>3 DEF ActInv, LoggedIn
  <2> QED  BY <2>1, <2>2, <2>3, <2>4, SessionRendered DEF ActInv
<1> QED  BY <1>2, <1>3 DEF MemberAnswer

LEMMA AnswersAwait ==
  ASSUME ActInv, TabInv', Calm' => Calm, NEW k \in calls, Answer(k)
  PROVE  LoggedIn' /\ OwnerAwaits'
<1>0. /\ CallOK(k) /\ stored.back \in Token \cup {None} /\ calls \ {k} \subseteq calls
      /\ k.as # None => k.as \in Token /\ k.as.user \in User
      /\ LoggedIn /\ OwnerAwaits
  BY DEF ActInv, TabInv, Shaped, CallOK, Calls, Token, Copies
<1>1. CASE CountAnswer(k) \/ MemberAnswer(k)
  BY <1>1, CountAnswerAwaits, MemberAnswerAwaits
<1>2. CASE LoginAnswer(k)
  <2>1. TokenFor(k) # None
    BY <1>0, <1>2, NoneIsApart DEF LoginAnswer, TokenFor, CallOK
  <2>2. ~Enquires(k) /\ UNCHANGED react
    BY <1>2 DEF LoginAnswer, Enquires
  <2>3. \A l \in calls' : l \in calls \/ ~Enquires(l)
    BY <1>2 DEF LoginAnswer, Sent, Enquires
  <2>4. \A l \in calls \ {k} : l \in calls'
    BY <1>2 DEF LoginAnswer
  <2> QED  BY <1>0, <1>2, <2>1, <2>2, <2>3, <2>4, NothingAsked DEF LoginAnswer
<1>3. CASE SelectAnswer(k)
  <2>1. /\ k.as.user \in User /\ k.studio \in Studio
        /\ SetStudio(k.as.user, k.studio, cookie', calls \ {k})
        /\ cookie' = TokenOf(k.as.user, k.studio)
    BY <1>0, <1>3 DEF SelectAnswer, CallOK, TokenFor
  <2> QED  BY <2>1, NoneIsApart, SetStudioAwaits
<1>4. CASE MemberLoginAnswer(k)
  <2> DEFINE q == Sent("member", None, k.studio, cookie')
  <2>1. /\ k.user \in User /\ k.studio \in Studio
        /\ SetStudio(k.user, k.studio, cookie', (calls \ {k}) \cup {q})
        /\ cookie' = TokenOf(k.user, k.studio)
    BY <1>0, <1>4 DEF MemberLoginAnswer, CallOK, TokenFor
  <2>2. Enquires(q) /\ q.studio = k.studio /\ q.as = cookie'
    BY DEF Sent, Enquires
  <2> HIDE DEF q
  <2> QED  BY <2>1, <2>2, NoneIsApart, SetStudioAwaits
<1>5. CASE LogoutAnswer(k)
  <2>1. /\ UNCHANGED react /\ calls' = calls \ {k} /\ ~Enquires(k)
        /\ Calm' => react.studio = None
    BY <1>5 DEF LogoutAnswer, Enquires, Fresh, Calm
  <2> QED  BY <1>0, <2>1, NothingAsked
<1>6. CASE BootstrapAnswer(k)
  <2>1. k.user \in User /\ BootstrapStudio(k.user) \in Studio
    BY <1>0, <1>6, SoleStudioIs DEF BootstrapAnswer, BootstrapStudio, CallOK
  <2> QED  BY <1>0, <1>6, <2>1, BecomeAwaits DEF BootstrapAnswer
<1>7. CASE SwitchAnswer(k)
  BY <1>0, <1>7, BecomeAwaits DEF SwitchAnswer, CallOK
<1>8. CASE RestoreAnswer(k)
  <2>1. k.as.user \in User /\ HomeOf(k.as) \in Studio
    BY <1>0, <1>8, SoleStudioIs, SessionAssumption DEF RestoreAnswer, Restores, HomeOf
  <2> QED  BY <1>8, <2>1, BecomeAwaits DEF RestoreAnswer
<1>9. CASE Refused(k)
  <2>1. UNCHANGED <<cookie, react>> /\ calls' = calls \ {k} /\ ~Enquires(k)
    BY <1>9 DEF Refused, NoAnswer, Enquires
  <2> QED  BY <1>0, <2>1, NothingAsked
<1> QED  BY <1>1, <1>2, <1>3, <1>4, <1>5, <1>6, <1>7, <1>8, <1>9 DEF Answer, SessionAnswer

LEMMA UserAwaits ==
  ASSUME ActInv, TabInv', Calm' => Calm, UserStep
  PROVE  LoggedIn' /\ OwnerAwaits'
<1>0. LoggedIn /\ OwnerAwaits /\ react \in Reacts /\ stored \in Copies
  BY DEF ActInv, TabInv, Shaped
<1>1. ASSUME NEW k, Submit(k), ~Enquires(k) PROVE LoggedIn' /\ OwnerAwaits'
  <2>1. UNCHANGED <<cookie, react>> /\ calls' = calls \cup {k}
    BY <1>1 DEF Submit, NoAnswer
  <2> QED  BY <1>0, <1>1, <2>1, NothingAsked
<1>2. \A t, u, s, c : t \notin {"count", "hydrate", "activate", "member"} =>
        ~Enquires(Sent(t, u, s, c))
  BY DEF Sent, Enquires
<1>3. ASSUME NEW p \in Pages, Follow(p) PROVE LoggedIn' /\ OwnerAwaits'
  BY <1>0, <1>3, NothingAsked DEF Follow, NoAnswer
<1>4. ASSUME NEW p \in Pages, Enter(p) PROVE LoggedIn' /\ OwnerAwaits'
  BY <1>4, LoadAwaits DEF Enter
<1>5. ASSUME NEW u \in User,
             LoginSubmit(u) \/ MemberLoginSubmit(u) \/ \E s \in StudiosOf[u] : SwitchTo(u, s)
      PROVE  LoggedIn' /\ OwnerAwaits'
  BY <1>1, <1>2, <1>5 DEF LoginSubmit, MemberLoginSubmit, SwitchTo
<1>6. ASSUME Restore \/ \E u \in Quick : QuickStart(u) PROVE LoggedIn' /\ OwnerAwaits'
  BY <1>1, <1>2, <1>6 DEF QuickStart, Restore
<1>7. ASSUME Logout PROVE LoggedIn' /\ OwnerAwaits'
  <2> DEFINE r == [react EXCEPT !.studio = None, !.member = None, !.count = None]
             s == [stored EXCEPT !.studio = None, !.member = None]
             k == Sent("logout", None, None, cookie)
  <2>1. r \in Reacts /\ r.studio = None /\ s \in Copies
    BY <1>0 DEF Reacts, Copies
  <2>2. Commit(r, s, cookie', calls \cup {k}) /\ ~Enquires(k)
    BY <1>2, <1>7 DEF Logout
  <2> HIDE DEF r, s, k
  <2> QED  BY <1>0, <2>1, <2>2, SessionRendered
<1>8. ASSUME PickGame PROVE LoggedIn' /\ OwnerAwaits'
  <2>1. react'.studio = react.studio /\ react'.member = react.member
        /\ react'.count = react.count /\ UNCHANGED <<cookie, calls>>
    BY <1>0, <1>8 DEF PickGame, Reacts
  <2> QED  BY <1>0, <2>1, NothingAsked
<1> QED  BY <1>3, <1>4, <1>5, <1>6, <1>7, <1>8 DEF UserStep

LEMMA ActStep ==
  ASSUME ActInv, [TabNext]_tabVars
  PROVE  ActInv'
<1>0. LoggedIn /\ OwnerAwaits /\ TabInv /\ TokensFit /\ react \in Reacts
  BY DEF ActInv, TabInv, Shaped
<1>1. TabInv' /\ TokensFit'
  BY <1>0, TabStep, TokensStep
<1>2. CASE UNCHANGED tabVars
  BY <1>1, <1>2 DEF ActInv, LoggedIn, OwnerAwaits, Calm, Awaits, CallsDue, tabVars
<1>3. ASSUME TabNext PROVE LoggedIn' /\ OwnerAwaits'
  <2>0. Calm' => Calm
    BY <1>0, <1>3, CalmWas
  <2>1. CASE Render \/ LoadTargets
    BY <1>0, <2>0, <2>1, NothingAsked DEF Render, LoadTargets
  <2>2. CASE Unload
    BY <1>1, <2>0, <2>2, LoadAwaits DEF Unload
  <2>3. CASE UserStep
    BY <1>1, <2>0, <2>3, UserAwaits
  <2>4. CASE CallAnswers
    BY <1>1, <2>0, <2>4, AnswersAwait DEF CallAnswers
  <2>5. CASE LoadPage
    <3>1. react'.studio = react.studio /\ react'.member = react.member
          /\ react'.count = react.count /\ UNCHANGED <<cookie, calls>>
      BY <1>0, <2>5 DEF LoadPage, Reacts
    <3> QED  BY <1>0, <2>0, <3>1, NothingAsked
  <2>6. CASE CookieEnds
    <3>1. ~Calm'
      BY <1>0, <2>6, FailsIsSeen DEF CookieEnds, Calm
    <3> QED  BY <3>1 DEF LoggedIn, OwnerAwaits
  <2> QED  BY <1>3, <2>1, <2>2, <2>3, <2>4, <2>5, <2>6 DEF TabNext
<1> QED  BY <1>1, <1>2, <1>3 DEF ActInv

LEMMA ActInvInit == TabInit => ActInv
  BY TabInvInit DEF TabInit, ActInv, TokensFit, TokenFits, LoggedIn, OwnerAwaits, Awaits

\* Between login, effects, answers, developer tools and new documents there is
\* no moment at which the sole member of a studio has a studio session, no
\* member session, and nobody asking for it; for any users, studios and calls
\* under way, as long as no call failed and no answer went astray.
THEOREM OwnersAreNotForgotten == TabSpec => []ActivationIsUnderWay
<1>1. ActInv => ActivationIsUnderWay
  <2> SUFFICES ASSUME ActInv, react.studio # None, Sole(react.studio.id), Calm,
                      react.member = None
               PROVE  \E k \in calls :
                        /\ k.task \in CallsDue(react) /\ k.studio = react.studio.id
                        /\ k.as # None /\ k.as.user \in Members(k.studio)
    BY DEF ActivationIsUnderWay, Sole, Calm, CallsDue
  <2>1. PICK k \in calls : k.task \in CallsDue(react) /\ k.studio = react.studio.id
    BY DEF ActInv, OwnerAwaits, Awaits
  <2>2. Enquires(k) /\ k.as # None /\ k.as.studio = k.studio
    BY <2>1 DEF ActInv, LoggedIn, CallsDue, Enquires
  <2>3. CallOK(k) /\ Vouched(k)
    BY DEF ActInv, TabInv, Shaped, TokensFit
  <2>4. k.studio \in Studio /\ k.studio # None
    BY <2>2, <2>3, NoneIsApart DEF CallOK, Enquires
  <2>5. k.as.user \in User /\ k.studio \in StudiosOf[k.as.user]
    BY <2>2, <2>3, <2>4 DEF Vouched, TokenFits, CallOK, Calls, Token
  <2> QED  BY <2>1, <2>2, <2>5 DEF Members
<1> QED  BY <1>1, ActInvInit, ActStep, PTL DEF TabSpec

\* No guard sends back where a guard came from: from whatever page, and whatever
\* became of the session, also where its pieces do not fit together.
THEOREM RedirectsSettle == TabSpec => []SecondRedirectSettles
<1> DEFINE last(p) == Redirect(Redirect(p))
<1>1. SecondRedirectSettles
  <2> SUFFICES ASSUME NEW p \in Pages PROVE Redirect(last(p)) = last(p)
    BY DEF SecondRedirectSettles
  <2> USE DEF Redirect, LoginRedirect, MemberLoginRedirect, MemberRedirect, AdminRedirect,
              Active
  <2>1. CASE p \in {"root", "player"}
    BY <2>1
  <2>2. CASE p = "login"
    BY <2>2
  <2>3. CASE p = "createStudio"
    BY <2>3
  <2>4. CASE p = "memberLogin"
    BY <2>4
  <2>5. CASE p \in {"dashboard", "studios"}
    BY <2>5
  <2>6. CASE p \in {"members", "games"}
    BY <2>6
  <2>7. CASE p = "admin"
    BY <2>7
  <2> QED  BY <2>1, <2>2, <2>3, <2>4, <2>5, <2>6, <2>7 DEF Pages, LayoutPages
<1> QED  BY <1>1, PTL

(***************************************************************************)
(* The administrators.  What a handler has checked of its request stays    *)
(* true of it, the state may change: nobody revokes, suspends or deletes   *)
(* himself, and a revocation counted two.                                  *)
(***************************************************************************)
(* Two administrators or more. *)
Several(A) == A # {} /\ \A u : A # {u}

(* What a request of a page is about, and what its handler has checked. *)
ErrandOK(t) ==
  /\ t \in Errand
  /\ t.op \in {"isAdmin", "isSuspended"} => t.on \in User
  /\ t.op = "status" => t.on \in Things
  /\ t.step # "sent" => ~Own(t)
  /\ t.step # "sent" /\ Revokes(t) => Several(t.saw)

Page(d) ==
  /\ d = [shown |-> d.shown, known |-> d.known, unfolded |-> d.unfolded]
  /\ d.known \subseteq Listed /\ d.unfolded \in Listed \cup {None}

DeskInv ==
  /\ table = [x \in User \cup Things |-> table[x]]
  /\ \A u \in User : table[u] \in Person
  /\ \A x \in Things : table[x] \in Thing
  /\ signed \subseteq User
  /\ \A t \in tasks : ErrandOK(t)
  /\ desk = [u \in User |-> desk[u]]
  /\ \A u \in User : Page(desk[u])
  /\ \A f \in fetches : f.by \in User /\ f.list \in ListsOf

LEMMA DeskInvInit == DeskInit => DeskInv
<1> SUFFICES ASSUME DeskInit PROVE DeskInv
  OBVIOUS
<1>1. \A u \in User : table[u] \in Person
  BY DEF DeskInit, Person
<1>2. \A x \in Things : table[x] \in Thing
  BY DeskAssumption DEF DeskInit, Thing, Things
<1>3. \A u \in User : Page(desk[u])
  <2> SUFFICES ASSUME NEW u \in User PROVE Page(desk[u])
    OBVIOUS
  <2>1. PICK sh : desk[u] = [Closed EXCEPT !.shown = sh] \/ desk[u] = Closed
    BY DEF DeskInit
  <2> QED  BY <2>1 DEF Page, Closed
<1> QED  BY <1>1, <1>2, <1>3, DeskAssumption DEF DeskInit, DeskInv

(* What leaves the rows and the requests alone. *)
LEMMA TasksKeep ==
  ASSUME DeskInv, UNCHANGED <<table, tasks>>, signed' \subseteq User,
         desk' = [u \in User |-> desk'[u]], \A u \in User : Page(desk'[u]),
         \A f \in fetches' : f.by \in User /\ f.list \in ListsOf
  PROVE  DeskInv'
  BY DEF DeskInv, ErrandOK, Own, Revokes, Several, Page

LEMMA FetchesAre ==
  ASSUME NEW a \in User, NEW l \in ListsOf
  PROVE  /\ \A f \in Once(a, l) : f.by \in User /\ f.list \in ListsOf
         /\ \A f \in Twice(a, l) : f.by \in User /\ f.list \in ListsOf
  BY DEF Once, Twice, Fetch

(* The requests that come and go beside one that proceeds. *)
LEMMA TasksChange ==
  ASSUME DeskInv, UNCHANGED <<table, signed, desk, fetches>>,
         \A t \in tasks' : t \in tasks \/ ErrandOK(t)
  PROVE  DeskInv'
<1>1. \A t \in tasks' : ErrandOK(t)
  BY DEF DeskInv
<1>2. \A t : ErrandOK(t)' <=> ErrandOK(t)
  BY DEF ErrandOK, Own, Revokes, Several
<1> QED  BY <1>1, <1>2 DEF DeskInv, Page

LEMMA AskKeeps ==
  ASSUME DeskInv, NEW a \in User, NEW p \in Ops, NEW x \in User \cup Things,
         NEW want \in BOOLEAN, Ask(a, p, x, want),
         p \in {"isAdmin", "isSuspended"} => x \in User, p = "status" => x \in Things
  PROVE  DeskInv' /\ UNCHANGED table
<1> DEFINE t == [op |-> p, by |-> a, on |-> x, want |-> want, heard |-> TRUE,
                 open |-> desk[a].unfolded, step |-> "sent", saw |-> {}]
<1>1. tasks' = tasks \cup {t} /\ UNCHANGED <<table, signed, desk, fetches>>
  BY DEF Ask
<1>2. desk[a].unfolded \in Listed \cup {None}
  BY DEF DeskInv, Page
<1>3. ErrandOK(t)
  BY <1>2 DEF ErrandOK, Errand
<1> HIDE DEF t
<1> QED  BY <1>1, <1>3, TasksChange

(* Answers of lists. *)
LEMMA FetchesKeep ==
  ASSUME DeskInv, NEW f \in fetches, Serve(f) \/ Arrive(f) \/ FetchFails(f)
  PROVE  DeskInv' /\ UNCHANGED table
<1>0. f.by \in User /\ f.list \in ListsOf /\ desk = [u \in User |-> desk[u]]
      /\ \A u \in User : Page(desk[u])
  BY DEF DeskInv
<1>1. Replied(f) => \A g \in fetches' : g.by \in User /\ g.list \in ListsOf
  BY <1>0, FetchesAre DEF Replied, DeskInv
<1>2. CASE Serve(f)
  <2>1. \A g \in fetches' : g.by \in User /\ g.list \in ListsOf
    <3>1. PICK r : fetches' = (fetches \ {f}) \cup {[f EXCEPT !.rows = r]}
      BY <1>2 DEF Serve
    <3>2. [f EXCEPT !.rows = r].by = f.by /\ [f EXCEPT !.rows = r].list = f.list
      OBVIOUS
    <3> QED  BY <1>0, <3>1, <3>2 DEF DeskInv
  <2>2. UNCHANGED <<table, tasks, signed, desk>>
    BY <1>2 DEF Serve
  <2> QED  BY <1>0, <2>1, <2>2, TasksKeep DEF DeskInv
<1>3. CASE Arrive(f)
  <2> DEFINE d == desk[f.by]
             sh == [x \in User \cup Things |->
                      IF x \in DOMAIN f.rows THEN f.rows[x] ELSE d.shown[x]]
             more == {f.list} \cap Listed
  <2>1. desk' = [desk EXCEPT ![f.by] = [d EXCEPT !.shown = sh, !.known = d.known \cup more]]
    BY <1>0, <1>3 DEF Arrive
  <2> HIDE DEF sh
  <2>2. desk' = [u \in User |-> desk'[u]] /\ \A u \in User : u # f.by => desk'[u] = desk[u]
    BY <1>0, <2>1
  <2>3. desk'[f.by] = [d EXCEPT !.shown = sh, !.known = d.known \cup more]
    BY <1>0, <2>1
  <2>4. Page(desk'[f.by])
    <3>1. Page(d)  BY <1>0
    <3>2. desk'[f.by] = [shown |-> sh, known |-> d.known \cup more, unfolded |-> d.unfolded]
      BY <2>3, <3>1 DEF Page
    <3> QED  BY <3>1, <3>2 DEF Page
  <2>5. UNCHANGED <<table, tasks, signed>>
    BY <1>3 DEF Arrive
  <2>6. \A u \in User : Page(desk'[u])
    BY <1>0, <2>2, <2>4
  <2> QED  BY <1>1, <1>3, <2>2, <2>5, <2>6, TasksKeep DEF DeskInv, Arrive
<1>4. CASE FetchFails(f)
  BY <1>0, <1>1, <1>4, TasksKeep DEF DeskInv, FetchFails
<1> QED  BY <1>2, <1>3, <1>4

LEMMA SignOnKeeps ==
  ASSUME DeskInv, NEW u \in User, SignOn(u)
  PROVE  DeskInv' /\ UNCHANGED table
<1>1. /\ fetches' = fetches \cup Once(u, "collections") \cup Once(u, "fee")
      /\ signed' = signed \cup {u} /\ UNCHANGED <<table, desk, tasks>>
  BY DEF SignOn
<1>2. "collections" \in ListsOf /\ "fee" \in ListsOf
  BY DEF ListsOf
<1>3. \A f \in fetches' : f.by \in User /\ f.list \in ListsOf
  BY <1>1, <1>2, FetchesAre DEF DeskInv
<1> QED  BY <1>1, <1>3, TasksKeep DEF DeskInv

LEMMA SignOffKeeps ==
  ASSUME DeskInv, NEW u \in User, SignOff(u)
  PROVE  DeskInv' /\ UNCHANGED table
<1>1. /\ signed' = signed \ {u} /\ desk' = [desk EXCEPT ![u] = Closed]
      /\ fetches' = {f \in fetches : f.by # u} /\ UNCHANGED table
      /\ tasks' = {IF t.by = u THEN [t EXCEPT !.heard = FALSE] ELSE t : t \in tasks}
  BY DEF SignOff
<1>2. Page(Closed)
  BY DEF Page, Closed
<1>3. ASSUME NEW t \in tasks PROVE ErrandOK([t EXCEPT !.heard = FALSE])
  <2> DEFINE s == [t EXCEPT !.heard = FALSE]
  <2>1. ErrandOK(t)
    BY DEF DeskInv
  <2>2. s \in Errand /\ s.op = t.op /\ s.by = t.by /\ s.on = t.on /\ s.want = t.want
        /\ s.step = t.step /\ s.saw = t.saw
    BY <2>1 DEF ErrandOK, Errand
  <2> HIDE DEF s
  <2>3. ErrandOK(s)
    BY <2>1, <2>2 DEF ErrandOK, Own, Revokes
  <2> QED  BY <2>3 DEF s
<1>4. \A t \in tasks' : ErrandOK(t)
  <2> SUFFICES ASSUME NEW t \in tasks' PROVE ErrandOK(t)
    OBVIOUS
  <2>1. PICK s \in tasks : t = IF s.by = u THEN [s EXCEPT !.heard = FALSE] ELSE s
    BY <1>1
  <2> QED  BY <1>3, <2>1 DEF DeskInv
<1>5. \A t : ErrandOK(t)' <=> ErrandOK(t)
  BY DEF ErrandOK, Own, Revokes, Several
<1>6. desk' = [v \in User |-> desk'[v]] /\ \A v \in User : Page(desk'[v])
  BY <1>1, <1>2 DEF DeskInv
<1> QED  BY <1>1, <1>4, <1>5, <1>6 DEF DeskInv, Page

LEMMA UnfoldKeeps ==
  ASSUME DeskInv, NEW a \in User, NEW s \in Listed, Unfold(a, s)
  PROVE  DeskInv' /\ UNCHANGED table
<1>0. desk = [u \in User |-> desk[u]] /\ Page(desk[a]) /\ s \in ListsOf
  BY DEF DeskInv, ListsOf
<1>1. PICK x \in Listed \cup {None} : desk' = [desk EXCEPT ![a].unfolded = x]
  BY DEF Unfold
<1>2. \A f \in fetches' : f \in fetches \/ (f.by \in User /\ f.list \in ListsOf)
  <2>1. \A f \in Details(a, s) : f.by \in User /\ f.list \in ListsOf
    BY <1>0, FetchesAre DEF Details
  <2> QED  BY <2>1 DEF Unfold
<1>3. desk'[a] = [desk[a] EXCEPT !.unfolded = x]
      /\ desk' = [u \in User |-> desk'[u]] /\ \A u \in User : u # a => desk'[u] = desk[u]
  BY <1>0, <1>1
<1>4. Page(desk'[a])
  <2>1. desk'[a] = [shown |-> desk[a].shown, known |-> desk[a].known, unfolded |-> x]
    BY <1>0, <1>3 DEF Page
  <2> QED  BY <1>0, <2>1 DEF Page
<1>5. \A u \in User : Page(desk'[u])
  BY <1>3, <1>4 DEF DeskInv
<1>6. UNCHANGED <<table, signed, tasks>>
  BY DEF Unfold
<1> QED  BY <1>2, <1>3, <1>5, <1>6, TasksKeep DEF DeskInv

LEMMA DoneKeeps ==
  ASSUME DeskInv, NEW t \in tasks, Done(t)
  PROVE  DeskInv' /\ UNCHANGED table
<1>0. ErrandOK(t) /\ t.by \in User /\ t.open \in Listed \cup {None} /\ Page(desk[t.by])
      /\ desk = [u \in User |-> desk[u]]
  BY DEF DeskInv, ErrandOK, Errand
<1>1. tasks' = tasks \ {t} /\ UNCHANGED <<table, signed>>
  BY DEF Done
<1>2. \A f \in fetches' : f \in fetches \/ (f.by \in User /\ f.list \in ListsOf)
  <2>1. "collections" \in ListsOf /\ \A s \in Listed : s \in ListsOf
    BY DEF ListsOf
  <2>2. \A f \in Refreshed(t) : f.by \in User /\ f.list \in ListsOf
    BY <1>0, <2>1, FetchesAre DEF Refreshed, Details
  <2> QED  BY <2>2 DEF Done
<1>3. /\ desk' = [u \in User |-> desk'[u]] /\ \A u \in User : Page(desk'[u])
  <2>1. CASE desk' = desk
    BY <2>1 DEF DeskInv
  <2>2. CASE desk' # desk
    <3>1. PICK sh : desk' = [desk EXCEPT ![t.by] =
            [shown |-> sh,
             known |-> IF Refreshes(t) THEN {} ELSE @.known,
             unfolded |-> IF t.op = "delete" /\ t.on = @.unfolded THEN None ELSE @.unfolded]]
      BY <2>2 DEF Done
    <3>2. Page(desk'[t.by])
      BY <1>0, <3>1 DEF Page
    <3> QED  BY <1>0, <3>1, <3>2 DEF DeskInv
  <2> QED  BY <2>1, <2>2
<1>4. \A q : ErrandOK(q)' <=> ErrandOK(q)
  BY DEF ErrandOK, Own, Revokes, Several
<1> QED  BY <1>1, <1>2, <1>3, <1>4 DEF DeskInv, Page

(* The handlers. *)
LEMMA LookUpKeeps ==
  ASSUME DeskInv, NEW t \in tasks, LookUp(t) \/ Refuse(t) \/ TaskFails(t)
  PROVE  DeskInv' /\ UNCHANGED table
<1>0. ErrandOK(t)
  BY DEF DeskInv
<1>1. CASE LookUp(t)
  <2> DEFINE saw == IF Revokes(t) THEN Admins ELSE t.saw
             s == [t EXCEPT !.step = "found", !.saw = saw]
  <2>1. tasks' = (tasks \ {t}) \cup {s} /\ UNCHANGED <<table, signed, desk, fetches>>
    BY <1>1 DEF LookUp, Proceeds
  <2>2. ~Own(t) /\ ~LastAdmin(t)
    BY <1>1 DEF LookUp, Denied
  <2>3. Revokes(t) => Several(Admins)
    <3>1. ASSUME ~(Cardinality(Admins) <= 1) PROVE Several(Admins)
      <4>1. Admins # {}
        <5>1. Cardinality({}) = 0  BY FS_EmptySet
        <5> QED  BY <3>1, <5>1
      <4>2. ASSUME NEW u, Admins = {u} PROVE FALSE
        <5>1. Cardinality({u}) = 1  BY FS_Singleton
        <5> QED  BY <3>1, <4>2, <5>1
      <4> QED  BY <4>1, <4>2 DEF Several
    <3> QED  BY <2>2, <3>1 DEF LastAdmin
  <2>4. saw \subseteq User
    BY <1>0 DEF ErrandOK, Errand, Admins
  <2>5. /\ s \in Errand /\ s.op = t.op /\ s.by = t.by /\ s.on = t.on /\ s.want = t.want
        /\ s.step = "found" /\ s.saw = saw
    <3> HIDE DEF saw
    <3> QED  BY <1>0, <2>4 DEF ErrandOK, Errand
  <2>6. Revokes(t) => Several(saw)
    BY <2>3
  <2> HIDE DEF s, saw
  <2>7. ErrandOK(s)
    BY <1>0, <2>2, <2>5, <2>6 DEF ErrandOK, Own, Revokes
  <2> QED  BY <2>1, <2>7, TasksChange
<1>2. CASE Refuse(t)
  BY <1>2, TasksChange DEF Refuse
<1>3. CASE TaskFails(t)
  BY <1>3, TasksChange DEF TaskFails
<1> QED  BY <1>1, <1>2, <1>3

(* What a write leaves of the users' rows. *)
LEMMA WriteChanges ==
  ASSUME DeskInv, NEW t \in tasks, Write(t)
  PROVE  /\ table' = [x \in User \cup Things |-> table'[x]]
         /\ \A u \in User : table'[u] \in Person
         /\ \A x \in Things : table'[x] \in Thing
         /\ \A u \in User : u # t.on => table'[u] = table[u]
         /\ t.op # "delete" /\ t.on \in User =>
              /\ ~Revokes(t) /\ table[t.on].admin => table'[t.on].admin
              /\ t.op # "isSuspended" => table'[t.on].suspended = table[t.on].suspended
              /\ t.op = "isSuspended" => table'[t.on].suspended = t.want
              /\ table'[t.on].erased = table[t.on].erased
<1>0. /\ ErrandOK(t) /\ t.on \in User \cup Things /\ t.want \in BOOLEAN /\ t.op \in Ops
      /\ User \cap Things = {}
      /\ table = [x \in User \cup Things |-> table[x]]
      /\ \A u \in User : table[u] \in Person
      /\ \A x \in Things : table[x] \in Thing
  BY DeskAssumption DEF DeskInv, ErrandOK, Errand, Things
<1>1. CASE t.op = "isAdmin"
  <2>1. table' = [table EXCEPT ![t.on].admin = t.want] /\ t.on \in User
    BY <1>0, <1>1 DEF Write, ErrandOK
  <2>2. table'[t.on] = [table[t.on] EXCEPT !.admin = t.want]
    BY <1>0, <2>1
  <2>3. table[t.on] \in Person  BY <1>0, <2>1
  <2>4. /\ table'[t.on] \in Person /\ table'[t.on].admin = t.want
        /\ table'[t.on].suspended = table[t.on].suspended
        /\ table'[t.on].erased = table[t.on].erased
    BY <1>0, <2>2, <2>3 DEF Person
  <2>5. /\ table' = [x \in User \cup Things |-> table'[x]]
        /\ \A x \in User \cup Things : x # t.on => table'[x] = table[x]
    BY <1>0, <2>1
  <2> QED  BY <1>0, <1>1, <2>1, <2>4, <2>5 DEF Revokes
<1>2. CASE t.op = "isSuspended"
  <2>1. table' = [table EXCEPT ![t.on].suspended = t.want] /\ t.on \in User
    BY <1>0, <1>2 DEF Write, ErrandOK
  <2>2. table'[t.on] = [table[t.on] EXCEPT !.suspended = t.want]
    BY <1>0, <2>1
  <2>3. table[t.on] \in Person  BY <1>0, <2>1
  <2>4. /\ table'[t.on] \in Person /\ table'[t.on].admin = table[t.on].admin
        /\ table'[t.on].suspended = t.want
        /\ table'[t.on].erased = table[t.on].erased
    BY <1>0, <2>2, <2>3 DEF Person
  <2>5. /\ table' = [x \in User \cup Things |-> table'[x]]
        /\ \A x \in User \cup Things : x # t.on => table'[x] = table[x]
    BY <1>0, <2>1
  <2> QED  BY <1>0, <1>2, <2>1, <2>4, <2>5 DEF Revokes
<1>3. CASE t.op = "status"
  <2>1. PICK b \in BOOLEAN : table' = [table EXCEPT ![t.on].active = b]
    <3>1. t.on \in Things /\ table[t.on] \in Thing  BY <1>0, <1>3 DEF ErrandOK
    <3>2. table' = [table EXCEPT ![t.on].active =
                       IF table[t.on].there THEN t.want ELSE table[t.on].active]
      BY <1>0, <1>3 DEF Write
    <3> QED  BY <1>0, <3>1, <3>2 DEF Thing
  <2>2. t.on \in Things /\ t.on \notin User /\ table[t.on] \in Thing
    BY <1>0, <1>3 DEF ErrandOK
  <2>3. table'[t.on] = [table[t.on] EXCEPT !.active = b]
    BY <1>0, <2>1
  <2>4. table'[t.on] \in Thing
    BY <2>2, <2>3 DEF Thing
  <2>5. /\ table' = [x \in User \cup Things |-> table'[x]]
        /\ \A x \in User \cup Things : x # t.on => table'[x] = table[x]
    BY <1>0, <2>1
  <2> QED  BY <1>0, <2>2, <2>4, <2>5
<1>4. CASE t.op = "delete" /\ t.on \in User
  <2>1. table' = [table EXCEPT ![t.on] = [admin |-> FALSE, suspended |-> TRUE, erased |-> TRUE]]
    BY <1>4 DEF Write
  <2> QED  BY <1>0, <1>4, <2>1 DEF Person
<1>5. CASE t.op = "delete" /\ t.on \notin User
  <2>1. table' = [x \in User \cup Things |->
               IF x \in Purged(t.on) THEN [table[x] EXCEPT !.there = FALSE] ELSE table[x]]
    BY <1>5 DEF Write
  <2>2. Purged(t.on) \cap User = {}
    BY <1>0, <1>5 DEF Purged, GamesOf, Things
  <2>3. \A x \in Things : [table[x] EXCEPT !.there = FALSE] \in Thing
    BY <1>0 DEF Thing
  <2> QED  BY <1>0, <1>5, <2>1, <2>2, <2>3
<1> QED  BY <1>0, <1>1, <1>2, <1>3, <1>4, <1>5 DEF Ops

LEMMA WriteKeeps ==
  ASSUME DeskInv, NEW t \in tasks, Write(t)
  PROVE  DeskInv'
<1> DEFINE s == [t EXCEPT !.step = "written"]
<1>0. ErrandOK(t) /\ t.step = "found"
  BY DEF DeskInv, Write
<1>1. tasks' = (tasks \ {t}) \cup {s} /\ UNCHANGED <<signed, desk, fetches>>
  <2>1. [t EXCEPT !.step = "written", !.saw = @] = s
    BY <1>0 DEF ErrandOK, Errand
  <2> QED  BY <2>1 DEF Write, Proceeds
<1>2. /\ s \in Errand /\ s.op = t.op /\ s.by = t.by /\ s.on = t.on /\ s.want = t.want
      /\ s.step = "written" /\ s.saw = t.saw
  BY <1>0 DEF ErrandOK, Errand
<1> HIDE DEF s
<1>3. ErrandOK(s)
  BY <1>0, <1>2 DEF ErrandOK, Own, Revokes
<1>4. \A q : ErrandOK(q)' <=> ErrandOK(q)
  BY DEF ErrandOK, Own, Revokes, Several
<1> QED  BY <1>1, <1>3, <1>4, WriteChanges DEF DeskInv, Page

(* The calls of linkWallet hold rows; whoever acts has been in office. *)
BeenInv ==
  /\ links \subseteq Link
  /\ InOffice \subseteq been /\ signed \subseteq been
  /\ \A t \in tasks : t.by \in been

AdminStays ==
  /\ InOffice # {} /\ InOffice' = {} =>
       \/ \E t \in tasks : WrittenNow(t) /\ t.by \in been \ InOffice
       \/ \E l \in links : SavedNow(l) /\ InOffice = {l.on} /\ ~Serves(l.copy)
       \/ \E u \in Due : InOffice = {u} /\ AnonymizeUser(u)
  /\ Admins # {} /\ Admins' = {} =>
       \/ \E t \in tasks :
            /\ WrittenNow(t) /\ t.by \in been \ Admins
            /\ t.op = "delete" \/ (Revokes(t) /\ t.saw \ Admins # {})
       \/ \E l \in links : SavedNow(l) /\ Admins = {l.on} /\ ~l.copy.admin

LEMMA WriteIsBacked ==
  ASSUME DeskInv, BeenInv, NEW t \in tasks, Write(t)
  PROVE  AdminStays
<1>0. ErrandOK(t) /\ t.step = "found"
  BY DEF DeskInv, Write
<1>1. WrittenNow(t)
  <2>1. \A q \in tasks' : q # t
    <3>1. PICK w : tasks' = (tasks \ {t}) \cup {[t EXCEPT !.step = "written", !.saw = w]}
      BY DEF Write, Proceeds
    <3>2. [t EXCEPT !.step = "written", !.saw = w].step = "written"
      BY <1>0 DEF ErrandOK, Errand
    <3> QED  BY <1>0, <3>1, <3>2
  <2> QED  BY <1>0, <2>1 DEF WrittenNow
<1>2. ASSUME t.by \in InOffice PROVE t.by \in InOffice'
  <2>1. CASE t.on # t.by
    BY <1>2, <2>1, WriteChanges DEF InOffice, Serves
  <2>2. CASE t.on = t.by
    <3>1. ~Own(t) /\ t.on \in User
      BY <1>0, <1>2, <2>2 DEF ErrandOK, InOffice
    <3>2. t.op # "delete" /\ ~Revokes(t) /\ (t.op = "isSuspended" => ~t.want)
      BY <2>2, <3>1 DEF Own, Revokes
    <3> QED  BY <1>2, <2>2, <3>1, <3>2, WriteChanges DEF InOffice, Serves
  <2> QED  BY <2>1, <2>2
<1>3. ASSUME Admins # {}, Admins' = {}
      PROVE  /\ t.by \notin Admins
             /\ t.op = "delete" \/ (Revokes(t) /\ t.saw \ Admins # {})
  <2>1. Admins \subseteq {t.on} /\ t.on \in User /\ table[t.on].admin
        /\ ~table'[t.on].admin
    BY <1>3, WriteChanges DEF Admins
  <2>2. t.op = "delete" \/ Revokes(t)
    BY <2>1, WriteChanges
  <2>3. t.by # t.on
    BY <1>0, <2>2 DEF ErrandOK, Own, Revokes
  <2>4. Revokes(t) => Several(t.saw)
    BY <1>0 DEF ErrandOK
  <2> QED  BY <2>1, <2>2, <2>3, <2>4 DEF Several
<1>4. t.by \in been
  BY DEF BeenInv
<1> QED  BY <1>1, <1>2, <1>3, <1>4 DEF AdminStays

LEMMA WorkKeeps ==
  ASSUME DeskInv, Work
  PROVE  DeskInv' /\ (UNCHANGED table \/ \E t \in tasks : Write(t))
<1>1. ASSUME NEW a \in signed, NEW u \in User, ToggleUserAdmin(a, u) \/ ToggleUserSuspended(a, u)
      PROVE  DeskInv' /\ UNCHANGED table
  <2>1. PICK p \in {"isAdmin", "isSuspended"}, want \in BOOLEAN : Ask(a, p, u, want)
    BY <1>1 DEF ToggleUserAdmin, ToggleUserSuspended
  <2> QED  BY <2>1, AskKeeps DEF Ops, DeskInv
<1>2. ASSUME NEW a \in signed, NEW x \in Things, ToggleStatus(a, x)
      PROVE  DeskInv' /\ UNCHANGED table
  <2>1. PICK want \in BOOLEAN : Ask(a, "status", x, want)
    BY <1>2 DEF ToggleStatus
  <2> QED  BY <2>1, AskKeeps DEF Ops, DeskInv
<1>3. ASSUME NEW a \in signed, NEW x \in User \cup Things, DeleteRow(a, x)
      PROVE  DeskInv' /\ UNCHANGED table
  BY <1>3, AskKeeps DEF Ops, DeskInv, DeleteRow
<1>4. ASSUME NEW a \in signed, NEW s \in Listed, Unfold(a, s)
      PROVE  DeskInv' /\ UNCHANGED table
  BY <1>4, UnfoldKeeps DEF DeskInv
<1>5. ASSUME NEW u \in User, SignOn(u) \/ SignOff(u)
      PROVE  DeskInv' /\ UNCHANGED table
  BY <1>5, SignOnKeeps, SignOffKeeps
<1>6. ASSUME NEW f \in fetches, Serve(f) \/ Arrive(f) \/ FetchFails(f)
      PROVE  DeskInv' /\ UNCHANGED table
  BY <1>6, FetchesKeep
<1>7. ASSUME NEW t \in tasks, LookUp(t) \/ Refuse(t) \/ TaskFails(t) \/ Done(t)
      PROVE  DeskInv' /\ UNCHANGED table
  BY <1>7, LookUpKeeps, DoneKeeps
<1>8. ASSUME NEW t \in tasks, Write(t) PROVE DeskInv'
  BY <1>8, WriteKeeps
<1> QED
  BY <1>1, <1>2, <1>3, <1>4, <1>5, <1>6, <1>7, <1>8 DEF Work, Click

(* Who signs on is in office; who asks is signed on. *)
LEMMA WorkAuthors ==
  ASSUME DeskInv, BeenInv, Work
  PROVE  signed' \subseteq been /\ \A s \in tasks' : s.by \in been
<1>1. ASSUME NEW a \in signed, NEW p, NEW x, NEW want, Ask(a, p, x, want)
      PROVE  UNCHANGED signed /\ \A s \in tasks' : s.by \in been
  <2> DEFINE s == [op |-> p, by |-> a, on |-> x, want |-> want, heard |-> TRUE,
                   open |-> desk[a].unfolded, step |-> "sent", saw |-> {}]
  <2>1. tasks' = tasks \cup {s} /\ UNCHANGED signed
    BY <1>1 DEF Ask
  <2>2. s.by = a
    OBVIOUS
  <2> HIDE DEF s
  <2> QED  BY <2>1, <2>2 DEF BeenInv
<1>2. ASSUME Click PROVE UNCHANGED signed /\ \A s \in tasks' : s.by \in been
  <2>1. ASSUME NEW a \in signed, NEW s \in Listed, Unfold(a, s)
        PROVE  UNCHANGED <<signed, tasks>>
    BY <2>1 DEF Unfold
  <2>2. ASSUME NEW a \in signed, NEW u \in User \cup Things,
               \/ ToggleUserAdmin(a, u) \/ ToggleUserSuspended(a, u)
               \/ ToggleStatus(a, u) \/ DeleteRow(a, u)
        PROVE  \E p, x, want : Ask(a, p, x, want)
    BY <2>2 DEF ToggleUserAdmin, ToggleUserSuspended, ToggleStatus, DeleteRow
  <2> QED  BY <1>1, <1>2, <2>1, <2>2 DEF Click, BeenInv
<1>3. ASSUME NEW u \in User, SignOn(u) \/ SignOff(u)
      PROVE  signed' \subseteq been /\ \A s \in tasks' : s.by \in been
  <2>1. CASE SignOn(u)
    BY <2>1 DEF SignOn, BeenInv
  <2>2. CASE SignOff(u)
    <3>1. signed' = signed \ {u}
          /\ tasks' = {IF t.by = u THEN [t EXCEPT !.heard = FALSE] ELSE t : t \in tasks}
      BY <2>2 DEF SignOff
    <3>2. ASSUME NEW t \in tasks PROVE [t EXCEPT !.heard = FALSE].by = t.by
      BY DEF DeskInv, ErrandOK, Errand
    <3> QED  BY <3>1, <3>2 DEF BeenInv
  <2> QED  BY <1>3, <2>1, <2>2
<1>4. ASSUME NEW f \in fetches, Serve(f) \/ Arrive(f) \/ FetchFails(f)
      PROVE  UNCHANGED <<signed, tasks>>
  BY <1>4 DEF Serve, Arrive, FetchFails
<1>5. ASSUME NEW t \in tasks, LookUp(t) \/ Refuse(t) \/ Write(t) \/ TaskFails(t) \/ Done(t)
      PROVE  UNCHANGED signed /\ \A s \in tasks' : s.by \in been
  <2>1. ASSUME NEW step, NEW w PROVE [t EXCEPT !.step = step, !.saw = w].by = t.by
    BY DEF DeskInv, ErrandOK, Errand
  <2>2. ASSUME NEW step, Proceeds(t, step) PROVE \A s \in tasks' : s.by \in been
    <3>1. PICK w : tasks' = (tasks \ {t}) \cup {[t EXCEPT !.step = step, !.saw = w]}
      BY <2>2 DEF Proceeds
    <3> QED  BY <2>1, <3>1 DEF BeenInv
  <2>3. CASE LookUp(t) \/ Write(t)
    BY <2>2, <2>3 DEF LookUp, Write
  <2>4. CASE Refuse(t) \/ TaskFails(t) \/ Done(t)
    BY <2>4 DEF Refuse, TaskFails, Done, BeenInv
  <2> QED  BY <1>5, <2>3, <2>4
<1> QED  BY <1>2, <1>3, <1>4, <1>5 DEF Work, BeenInv

(* Rows of users that change outside the desk. *)
LEMMA RowKeeps ==
  ASSUME DeskInv, NEW u \in User, NEW p \in Person, table' = [table EXCEPT ![u] = p],
         UNCHANGED <<signed, desk, fetches, tasks>>
  PROVE  /\ DeskInv'
         /\ table'[u] = p /\ \A v \in User : v # u => table'[v] = table[v]
<1>1. User \cap Things = {}
  BY DeskAssumption DEF Things
<1>2. /\ table' = [x \in User \cup Things |-> table'[x]]
      /\ table'[u] = p /\ \A x \in User \cup Things : x # u => table'[x] = table[x]
  BY DEF DeskInv
<1>3. \A t : ErrandOK(t)' <=> ErrandOK(t)
  BY DEF ErrandOK, Own, Revokes, Several
<1> QED  BY <1>1, <1>2, <1>3 DEF DeskInv, Page

LEMMA WalletSaveKeeps ==
  ASSUME DeskInv, BeenInv, NEW l \in links, WalletSave(l)
  PROVE  DeskInv' /\ links' \subseteq Link /\ AdminStays
<1>1. /\ l.on \in User /\ l.copy \in Person /\ table' = [table EXCEPT ![l.on] = l.copy]
      /\ UNCHANGED <<signed, desk, fetches, tasks>> /\ links' = links \ {l}
  BY DEF BeenInv, Link, WalletSave
<1>2. /\ DeskInv'
      /\ table'[l.on] = l.copy /\ \A v \in User : v # l.on => table'[v] = table[v]
  BY <1>1, RowKeeps
<1>3. SavedNow(l) /\ links' \subseteq Link
  BY <1>1 DEF SavedNow, BeenInv
<1>4. ASSUME InOffice # {}, InOffice' = {} PROVE InOffice = {l.on} /\ ~Serves(l.copy)
  BY <1>1, <1>2, <1>4 DEF InOffice, Serves
<1>5. ASSUME Admins # {}, Admins' = {} PROVE Admins = {l.on} /\ ~l.copy.admin
  BY <1>1, <1>2, <1>5 DEF Admins
<1> QED  BY <1>2, <1>3, <1>4, <1>5 DEF AdminStays

LEMMA AnonymizeKeeps ==
  ASSUME DeskInv, BeenInv, NEW u \in User, u \in Due, AnonymizeUser(u)
  PROVE  DeskInv' /\ AdminStays
<1> DEFINE p == [admin |-> table[u].admin, suspended |-> FALSE, erased |-> TRUE]
<1>1. table[u] \in Person /\ p \in Person /\ table = [x \in User \cup Things |-> table[x]]
  BY DEF DeskInv, Person
<1>2. table' = [table EXCEPT ![u] = p] /\ UNCHANGED <<signed, desk, fetches, tasks>>
  <2>1. /\ table' = [table EXCEPT ![u].suspended = FALSE, ![u].erased = TRUE]
        /\ UNCHANGED <<signed, desk, fetches, tasks>>
    BY DEF AnonymizeUser
  <2>2. [[table[u] EXCEPT !.suspended = FALSE] EXCEPT !.erased = TRUE] = p
    BY <1>1 DEF Person
  <2> QED  BY <1>1, <2>1, <2>2
<1>3. p.admin = table[u].admin /\ p.erased
  OBVIOUS
<1> HIDE DEF p
<1>4. /\ DeskInv'
      /\ table'[u] = p /\ \A v \in User : v # u => table'[v] = table[v]
  BY <1>1, <1>2, RowKeeps
<1>5. Admins' = Admins
  BY <1>3, <1>4 DEF Admins
<1>6. ASSUME InOffice # {}, InOffice' = {} PROVE InOffice = {u}
  BY <1>4, <1>6 DEF InOffice, Serves
<1> QED  BY <1>4, <1>5, <1>6 DEF AdminStays

LEMMA DeskStep ==
  ASSUME DeskInv, BeenInv, [DeskNext]_deskVars
  PROVE  DeskInv' /\ BeenInv' /\ AdminStays
<1>0. ASSUME UNCHANGED table
      PROVE  AdminStays /\ InOffice' = InOffice
  BY <1>0 DEF AdminStays, InOffice, Admins, Serves
<1>1. CASE UNCHANGED deskVars
  <2>1. UNCHANGED <<table, tasks, signed, desk, fetches, links, been>>
    BY <1>1 DEF deskVars
  <2> QED  BY <1>0, <2>1, TasksKeep DEF DeskInv, BeenInv
<1>2. CASE DeskNext
  <2>0. been' = been \cup InOffice'
    BY <1>2 DEF DeskNext
  <2>1. CASE Work /\ UNCHANGED links
    <3>1. AdminStays
      BY <1>0, <2>1, WorkKeeps, WriteIsBacked
    <3> QED  BY <2>0, <2>1, <3>1, WorkKeeps, WorkAuthors DEF BeenInv
  <2>2. ASSUME NEW u \in User, WalletRead(u) PROVE DeskInv' /\ BeenInv' /\ AdminStays
    <3>1. links' \subseteq Link /\ UNCHANGED <<table, signed, desk, fetches, tasks>>
      BY <2>2 DEF WalletRead, BeenInv, Link, DeskInv
    <3> QED  BY <1>0, <2>0, <3>1, TasksKeep DEF DeskInv, BeenInv
  <2>3. ASSUME NEW l \in links, WalletSave(l) PROVE DeskInv' /\ BeenInv' /\ AdminStays
    BY <2>0, <2>3, WalletSaveKeeps DEF BeenInv, WalletSave
  <2>4. ASSUME NEW u \in Due, AnonymizeUser(u) PROVE DeskInv' /\ BeenInv' /\ AdminStays
    <3>1. u \in User
      BY DeskAssumption
    <3>2. UNCHANGED <<signed, tasks, links>>
      BY <2>4 DEF AnonymizeUser
    <3> QED  BY <2>0, <2>4, <3>1, <3>2, AnonymizeKeeps DEF BeenInv
  <2> QED  BY <1>2, <2>1, <2>2, <2>3, <2>4 DEF DeskNext
<1> QED  BY <1>1, <1>2

LEMMA BeenInvInit == DeskInit => BeenInv
<1> SUFFICES ASSUME DeskInit PROVE BeenInv
  OBVIOUS
<1>1. \A u \in User : Serves(table[u]) => u \in AtFirst
  BY DEF DeskInit, Serves
<1> QED  BY <1>1 DEF DeskInit, BeenInv, InOffice

\* The rows, the copies on the pages, the requests and the loads of
\* TriolithAdminPage, admin.service.ts and linkWallet keep their form in every
\* state.
THEOREM DeskTypeCorrect == DeskSpec => []DeskTypeOK
<1>1. DeskInv /\ BeenInv => DeskTypeOK
  BY DEF DeskInv, BeenInv, DeskTypeOK, ErrandOK, Page
<1>2. DeskInv /\ BeenInv /\ [DeskNext]_deskVars => (DeskInv /\ BeenInv)'
  BY DeskStep
<1> QED  BY <1>1, <1>2, DeskInvInit, BeenInvInit, PTL DEF DeskSpec

\* A platform with an administrator in office comes to be without one in three
\* ways: by a request (setUserAdmin, setUserSuspended, deleteUser) of somebody
\* who has been put out of office himself, by a linkWallet that loaded the row
\* before its user came into office, and by the retention job.  The last flag
\* goes by an erasure or a revocation of somebody who has lost his own, the
\* revocation counted one that has gone since, or by such a linkWallet.
THEOREM LastAdminsGoByRaces == DeskSpec => AnAdminIsLeft
<1>1. DeskInv /\ BeenInv /\ [DeskNext]_deskVars => (DeskInv /\ BeenInv)' /\ AdminStays
  BY DeskStep
<1> QED  BY <1>1, DeskInvInit, BeenInvInit, PTL DEF DeskSpec, AnAdminIsLeft, AdminStays
=============================================================================
