---------------------------- MODULE SuspensionCache ----------------------------
(***************************************************************************)
(* Whether one user is suspended: the flag in the user row, the copy each  *)
(* server instance caches for a few seconds, the requests that ask for it  *)
(* (JwtStrategy.validate) and the handlers that change it.  Users do not   *)
(* influence each other, so one is enough.                                 *)
(*                                                                         *)
(* Only the in-process Map is modelled.  The constructor opens Redis with  *)
(* lazyConnect, every command stands behind status === "ready", and nothing*)
(* calls connect(): a lazy client connects when it is given its first      *)
(* command, so it never connects and the branches behind the test are dead.*)
(*                                                                         *)
(* Time passes in ticks; Lag bounds how many of them a request can spend   *)
(* between reading the user row and storing what it read.                  *)
(***************************************************************************)
EXTENDS Naturals

CONSTANTS
    Instance,   \* server processes
    Request,    \* requests of the user that may be in progress at a time
    Call,       \* administrators' calls that may be in progress at a time
    TTL,        \* LOCAL_TTL_MS in ticks
    Lag         \* ticks a request may take from its read to its store

ASSUME SuspensionCacheAssumption == TTL \in Nat \ {0} /\ Lag \in Nat

VARIABLES
    isSuspended,    \* the column of the user row
    age,            \* ticks since it last changed, at most TTL + Lag
    cached,         \* [Instance -> BOOLEAN], localCache entry: suspended
    ttl,            \* [Instance -> 0..TTL], ticks until it expires; 0: none
    pc,             \* [Request -> Step]
    at,             \* [Request -> Instance]
    copy,           \* [Request -> BOOLEAN], what the request found out
    lag,            \* [Request -> 0..Lag], ticks since it read the row
    call            \* [Call -> SUBSET Instance], where it must invalidate still

userVars == <<isSuspended, age>>
cacheVars == <<cached, ttl>>
reqVars == <<pc, at, copy, lag>>
vars == <<userVars, cacheVars, reqVars, call>>

Step == {"idle", "received", "missed", "read", "done"}

TypeOK ==
    /\ isSuspended \in BOOLEAN
    /\ age \in 0..(TTL + Lag)
    /\ cached \in [Instance -> BOOLEAN]
    /\ ttl \in [Instance -> 0..TTL]
    /\ pc \in [Request -> Step]
    /\ at \in [Request -> Instance]
    /\ copy \in [Request -> BOOLEAN]
    /\ lag \in [Request -> 0..Lag]
    /\ call \in [Call -> SUBSET Instance]

Init ==
    /\ isSuspended = FALSE
    /\ age = TTL + Lag
    /\ cached = [i \in Instance |-> FALSE]
    /\ ttl = [i \in Instance |-> 0]
    /\ pc = [r \in Request |-> "idle"]
    /\ at \in [Request -> Instance]
    /\ copy = [r \in Request |-> FALSE]
    /\ lag = [r \in Request |-> 0]
    /\ call = [c \in Call |-> {}]

-----------------------------------------------------------------------------
(* Requests of the user.                                                   *)

Receive(r, i) ==
    /\ pc[r] \in {"idle", "done"}
    /\ pc' = [pc EXCEPT ![r] = "received"]
    /\ at' = [at EXCEPT ![r] = i]
    /\ UNCHANGED <<userVars, cacheVars, copy, lag, call>>

\* Mutant of Hit: a hit extends the life of the entry.
HitMutant(r) ==
    /\ pc[r] = "received"
    /\ ttl[at[r]] > 0
    /\ copy' = [copy EXCEPT ![r] = cached[at[r]]]
    /\ pc' = [pc EXCEPT ![r] = "done"]
    /\ ttl' = [ttl EXCEPT ![at[r]] = TTL]
    /\ UNCHANGED <<userVars, cached, at, lag, call>>

\* The entry is there and has not expired: the request is answered with it.
Hit(r) ==
    /\ pc[r] = "received"
    /\ ttl[at[r]] > 0
    /\ copy' = [copy EXCEPT ![r] = cached[at[r]]]
    /\ pc' = [pc EXCEPT ![r] = "done"]
    /\ UNCHANGED <<userVars, cacheVars, at, lag, call>>

Miss(r) ==
    /\ pc[r] = "received"
    /\ ttl[at[r]] = 0
    /\ pc' = [pc EXCEPT ![r] = "missed"]
    /\ UNCHANGED <<userVars, cacheVars, at, copy, lag, call>>

ReadUser(r) ==
    /\ pc[r] = "missed"
    /\ copy' = [copy EXCEPT ![r] = isSuspended]
    /\ lag' = [lag EXCEPT ![r] = 0]
    /\ pc' = [pc EXCEPT ![r] = "read"]
    /\ UNCHANGED <<userVars, cacheVars, at, call>>

\* What the request read is cached from now on, however old it is by now.
Store(r) ==
    /\ pc[r] = "read"
    /\ cached' = [cached EXCEPT ![at[r]] = copy[r]]
    /\ ttl' = [ttl EXCEPT ![at[r]] = TTL]
    /\ pc' = [pc EXCEPT ![r] = "done"]
    /\ UNCHANGED <<userVars, at, copy, lag, call>>

-----------------------------------------------------------------------------
(* Whoever changes the flag.                                               *)

\* userRepo.update: nobody is bound by a suspension that has been lifted.
Change(suspended) ==
    /\ isSuspended' = suspended
    /\ age' = IF suspended = isSuspended THEN age ELSE 0

SetUserSuspended(c, i, suspended) ==
    /\ call[c] = {}
    /\ Change(suspended)
    /\ call' = [call EXCEPT ![c] = {i}]
    /\ UNCHANGED <<cacheVars, reqVars>>

\* The entry is deleted on the administrator's instance, who is answered.
Invalidate(c) ==
    /\ \E i \in call[c] : ttl' = [ttl EXCEPT ![i] = 0]
    /\ call' = [call EXCEPT ![c] = {}]
    /\ UNCHANGED <<userVars, cached, reqVars>>

\* AdminService.deleteUser suspends and DataRetentionService.anonymizeUser
\* lifts, both by an update that invalidates nothing.
Anonymize(suspended) ==
    /\ Change(suspended)
    /\ UNCHANGED <<cacheVars, reqVars, call>>

Expire(t) == IF t = 0 THEN 0 ELSE t - 1

Tick ==
    /\ \A r \in Request : pc[r] = "read" => lag[r] < Lag
    /\ age' = IF age = TTL + Lag THEN age ELSE age + 1
    /\ ttl' = [i \in Instance |-> Expire(ttl[i])]
    /\ lag' = [r \in Request |-> IF pc[r] = "read" THEN lag[r] + 1 ELSE lag[r]]
    /\ UNCHANGED <<isSuspended, cached, pc, at, copy, call>>

RequestStep(r) ==
    \/ \E i \in Instance : Receive(r, i)
    \/ Hit(r) \/ Miss(r) \/ ReadUser(r) \/ Store(r)

CallStep(c) ==
    \/ \E i \in Instance, suspended \in BOOLEAN : SetUserSuspended(c, i, suspended)
    \/ Invalidate(c)

Next ==
    \/ \E r \in Request : RequestStep(r)
    \/ \E c \in Call : CallStep(c)
    \/ \E suspended \in BOOLEAN : Anonymize(suspended)
    \/ Tick

Spec == Init /\ [][Next]_vars

-----------------------------------------------------------------------------
(* Properties.                                                             *)

\* The request is answered in this step: copy' says refused or admitted.
Answered(r) == pc[r] # "done" /\ pc'[r] = "done"

\* validate answers against the user row only for a few seconds after the
\* row changed: its lifetime in a cache, and the time the request that put
\* it there took.  Nothing makes an old answer live longer, however requests
\* and administrators interleave, and in both directions: a suspended user
\* is kept out and a reinstated one is let in.
WrongAnswersAreRecent ==
    [][\A r \in Request :
        Answered(r) /\ copy'[r] # isSuspended => age < TTL + Lag]_vars
=============================================================================
