------------------------------ MODULE Accounts ------------------------------
(***************************************************************************)
(* The account of one user: users.service.ts (signup, both logins, wallet  *)
(* linking, tax number), kyc.service.ts, what administrators do to it      *)
(* (admin.service.ts), the nightly retention job, and the check of every   *)
(* request of the user (SuspensionCache).                                  *)
(*                                                                         *)
(* A handler that reads the row and writes it later is split there; one    *)
(* that writes columns it has not read is one step.  Seconds pass as ticks *)
(* of SuspensionCache, years as an action of their own.  Memberships are   *)
(* those of StudioMembers: a login may find no active studio.  The audit   *)
(* log, whose failures are swallowed and which nothing here reads, and the *)
(* administrator's flag are left out.                                      *)
(***************************************************************************)
EXTENDS SuspensionCache

CONSTANT Task       \* calls in progress that do not pass the check

VARIABLES
    row,            \* the user row, without isSuspended
    token,          \* the user holds a JWT
    recentTax,      \* a tax event of the wallet is younger than the cutoff
    task,           \* [Task -> what a call has read]
    job             \* the retention job: "idle" or "found"

accountVars == <<row, token, recentTax, task, job>>
allVars == <<vars, accountVars>>

Idle == [op |-> "idle"]
NoRow == [email |-> "none", wallet |-> "none", tin |-> FALSE, verified |-> FALSE,
          lastLogin |-> "never", created |-> "recent"]
RowOf(login) == [NoRow EXCEPT !.email = "own", !.wallet = "own", !.lastLogin = login]

\* An account nobody logged in to, and no tax event of which, for three years.
IsIdle ==
    /\ row.email = "own" /\ row.created = "old"
    /\ row.lastLogin # "recent" /\ ~recentTax

AccountsInit ==
    /\ Init
    /\ row = NoRow
    /\ token = FALSE
    /\ recentTax = FALSE
    /\ task = [t \in Task |-> Idle]
    /\ job = "idle"

Begin(t, record) == task[t] = Idle /\ task' = [task EXCEPT ![t] = record]
End(t) == task' = [task EXCEPT ![t] = Idle]
-----------------------------------------------------------------------------
(* Signup and login.                                                       *)

\* signup looks for the email, hashes the password and makes an on-chain
\* wallet; the transaction that inserts the user may find it was beaten.
SignupFind(t) ==
    /\ row.email = "none"
    /\ Begin(t, [op |-> "signup"])
    /\ UNCHANGED <<vars, row, token, recentTax, job>>

SignupInsert(t) ==
    /\ task[t].op = "signup"
    /\ IF row.email = "none"
       THEN row' = RowOf("never") /\ token' = TRUE
       ELSE UNCHANGED <<row, token>>
    /\ End(t)
    /\ UNCHANGED <<vars, recentTax, job>>

\* login reads the row, then compares the password.
LoginRead(t) ==
    /\ row.email = "own"
    /\ Begin(t, [op |-> "login", row |-> row, suspended |-> isSuspended])
    /\ UNCHANGED <<vars, row, token, recentTax, job>>

\* Mutant of LoginFinish: the entity is saved, as linkWallet does.
LoginFinishMutant(t) ==
    /\ task[t].op = "login"
    /\ IF task[t].suspended
       THEN UNCHANGED <<row, token>>
       ELSE /\ row' = [task[t].row EXCEPT !.lastLogin = "recent"]
            /\ token' \in {token, TRUE}
    /\ End(t)
    /\ UNCHANGED <<vars, recentTax, job>>

\* The date is written without waiting; no active studio, no token.
LoginFinish(t) ==
    /\ task[t].op = "login"
    /\ IF task[t].suspended
       THEN UNCHANGED <<row, token>>
       ELSE /\ row' = [row EXCEPT !.lastLogin = "recent"]
            /\ token' \in {token, TRUE}
    /\ End(t)
    /\ UNCHANGED <<vars, recentTax, job>>

\* loginByWallet creates the row it does not find.
WalletSignup ==
    /\ row.email = "none"
    /\ row' = RowOf("recent")
    /\ token' = TRUE
    /\ UNCHANGED <<vars, recentTax, task, job>>

LinkRead(t) ==
    /\ row.email = "own"
    /\ Begin(t, [op |-> "link", row |-> row, suspended |-> isSuspended])
    /\ UNCHANGED <<vars, row, token, recentTax, job>>

\* Mutant of LinkSave: a linked account starts afresh.
LinkSaveMutant(t) ==
    /\ task[t].op = "link"
    /\ row' = task[t].row
    /\ Anonymize(FALSE)
    /\ End(t)
    /\ UNCHANGED <<token, recentTax, job>>

\* linkWallet saves the entity it loaded: TypeORM writes every column that
\* differs from the row as it is by then.
LinkSave(t) ==
    /\ task[t].op = "link"
    /\ row' = task[t].row
    /\ Anonymize(task[t].suspended)
    /\ End(t)
    /\ UNCHANGED <<token, recentTax, job>>
-----------------------------------------------------------------------------
(* Requests with the user's token.                                         *)

Receives(r) ==
    /\ token
    /\ \E i \in Instance : Receive(r, i)
    /\ UNCHANGED accountVars

Looks(r) == (Miss(r) \/ ReadUser(r)) /\ UNCHANGED accountVars

UpdateTin == row' = [row EXCEPT !.tin = TRUE] /\ UNCHANGED token

\* Without a provider's key the user is verified at once.
InitiateKyc == row' = [row EXCEPT !.verified = TRUE] /\ UNCHANGED token

\* selectStudio repeats in the new token what the old one says of the user.
SelectStudio == UNCHANGED <<row, token>>

\* The guard's verdict; when it is good, the handler follows.
Answers(r) ==
    /\ Hit(r) \/ Store(r)
    /\ IF copy'[r] THEN UNCHANGED <<row, token>> ELSE UpdateTin \/ InitiateKyc \/ SelectStudio
    /\ UNCHANGED <<recentTax, task, job>>
-----------------------------------------------------------------------------
(* The KYC provider, administrators and the retention job.                 *)

\* handleWebhook updates the row it is told of, whatever became of it.
KycWebhook(verified, withTin) ==
    /\ row.email # "none"
    /\ row' = [row EXCEPT !.verified = verified, !.tin = @ \/ withTin]
    /\ UNCHANGED <<vars, token, recentTax, task, job>>

Suspends(c, suspended) ==
    /\ row.email # "none"
    /\ \E i \in Instance : SetUserSuspended(c, i, suspended)
    /\ UNCHANGED accountVars

\* deleteUser: the tax number, the date of the login and the cache stay.
DeleteUser ==
    /\ row.email # "none"
    /\ row' = [row EXCEPT !.email = "placeholder", !.wallet = "zero", !.verified = FALSE]
    /\ Anonymize(TRUE)
    /\ UNCHANGED <<token, recentTax, task, job>>

\* Mutant of IsCandidate: accounts never logged in to count from their start.
IsCandidateMutant ==
    /\ row.email # "none"
    /\ row.lastLogin = "old"

\* findInactiveUsers: TypeORM leaves the criterion "lastLoginAt: undefined" out
\* of the second alternative, so that an old account is enough.
IsCandidate ==
    /\ row.email # "none"
    /\ \/ row.lastLogin = "old"
       \/ row.created = "old"

JobFind ==
    /\ job = "idle"
    /\ IsCandidate
    /\ job' = "found"
    /\ UNCHANGED <<vars, row, token, recentTax, task>>

AnonymizedRow ==
    [row EXCEPT !.email = "placeholder", !.wallet = "zero", !.tin = FALSE,
                !.lastLogin = "never"]

JobDecide ==
    /\ job = "found"
    /\ job' = "idle"
    /\ IF recentTax
       THEN UNCHANGED <<vars, row>>
       ELSE row' = AnonymizedRow /\ Anonymize(FALSE)
    /\ UNCHANGED <<token, recentTax, task>>
-----------------------------------------------------------------------------
(* Time.                                                                   *)

\* After a day, or by logout, which anybody may call.
TokenEnds ==
    /\ token
    /\ token' = FALSE
    /\ UNCHANGED <<vars, row, recentTax, task, job>>

TaxEvent ==
    /\ row.wallet = "own"
    /\ recentTax' = TRUE
    /\ UNCHANGED <<vars, row, token, task, job>>

\* Nothing that takes seconds is in progress, the cache has expired.  The
\* token may have been renewed by selectStudio all the time.
YearsPass ==
    /\ row.email # "none"
    /\ age = TTL + Lag
    /\ \A i \in Instance : ttl[i] = 0
    /\ \A r \in Request : pc[r] \in {"idle", "done"}
    /\ \A c \in Call : call[c] = {}
    /\ \A t \in Task : task[t] = Idle
    /\ job = "idle"
    /\ row' = [row EXCEPT !.created = "old",
                          !.lastLogin = IF @ = "recent" THEN "old" ELSE @]
    /\ recentTax' = FALSE
    /\ UNCHANGED <<vars, token, task, job>>

CacheStep ==
    /\ \/ \E c \in Call : Invalidate(c)
       \/ Tick
    /\ UNCHANGED accountVars

TaskStep(t) ==
    \/ SignupFind(t) \/ SignupInsert(t)
    \/ LoginRead(t) \/ LoginFinish(t)
    \/ LinkRead(t) \/ LinkSave(t)

AccountsNext ==
    \/ \E t \in Task : TaskStep(t)
    \/ WalletSignup
    \/ \E r \in Request : Receives(r) \/ Looks(r) \/ Answers(r)
    \/ \E verified, withTin \in BOOLEAN : KycWebhook(verified, withTin)
    \/ \E c \in Call, suspended \in BOOLEAN : Suspends(c, suspended)
    \/ DeleteUser
    \/ JobFind \/ JobDecide
    \/ TokenEnds \/ TaxEvent \/ YearsPass \/ CacheStep

AccountsSpec == AccountsInit /\ [][AccountsNext]_allVars

\* The job runs every night and finishes.
AccountsFairSpec == AccountsSpec /\ WF_allVars(JobFind) /\ WF_allVars(JobDecide)
-----------------------------------------------------------------------------
(* Properties, besides WrongAnswersAreRecent.                              *)

Linking == {t \in Task : task[t].op = "link"}
Entering == Linking \cup {t \in Task : task[t].op = "login"}

\* A suspension, and with it the suspension deleteUser ends with, is lifted
\* by an administrator who asks for it.  There are two other ways, and no
\* third: a linkWallet that read the row before the suspension, and the
\* retention job, which clears the flag of any account three years old.
SuspensionsHold ==
    [][isSuspended /\ ~isSuspended' =>
        \/ \E c \in Call : Suspends(c, FALSE)
        \/ \E t \in Linking : ~task[t].suspended
        \/ row.created = "old"]_allVars

\* What an erasure removed, and who may write it again.  The user's email and
\* wallet: a linkWallet that read the row before the erasure, and nobody else.
\* The date of a login: it, and a login that was under way.  The tax number
\* and the verification: it, the KYC provider, who is not told of erasures,
\* and a session of the user, for as long as the check lets it in; an account
\* suspended by the erasure it lets in for the life of a cached answer only.
\* The time a handler takes after its check is not counted.
ErasuresHold ==
    [][row.email = "placeholder" =>
        /\ \/ row'.email = "own"
           \/ row'.wallet = "own" /\ row.wallet # "own"
           => \E t \in Linking : task[t].row.email = "own"
        /\ row'.lastLogin = "recent" /\ row.lastLogin # "recent" =>
              \E t \in Entering : task[t].row.email = "own"
        /\ \A c \in {"tin", "verified"} : row'[c] /\ ~row[c] =>
            \/ \E t \in Linking : task[t].row[c]
            \/ \E verified, withTin \in BOOLEAN : KycWebhook(verified, withTin)
            \/ /\ \E r \in Request : Answers(r)
               /\ isSuspended => age < TTL + Lag]_allVars

\* GDPR article 5(1)(e): an account that is idle does not stay, neither the
\* ones nobody ever logged in to, nor those a linkWallet brought back.
IdleAccountsAreErased == []<>~IsIdle
=============================================================================
