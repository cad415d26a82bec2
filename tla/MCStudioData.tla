---------------------------- MODULE MCStudioData ----------------------------
(***************************************************************************)
(* Small instances of StudioData and of Sandbox for TLC.                   *)
(***************************************************************************)
EXTENDS StudioData, Sandbox, TLC

CONSTANTS n1, t1

\* Sessions and events with one nonce each or the same, a bad proof, the
\* registration by the studio, the wallet of a user.
MCOperation ==
    [kind : {"session"}, nonce : {n1}, tx : {t1}, good : BOOLEAN]
    \cup [kind : {"event"}, nonce : Nonce, tx : {t1}, good : {TRUE}]
    \cup [kind : {"register", "user"}, nonce : {n1}, tx : {t1}, good : {TRUE}]

Symmetry == Permutations(Visit)

\* A production database, where nobody runs the developer tools.  Deposits,
\* the ledger and locks are looked at without nonces and instances, with which
\* they share no row.  The purge of a studio is looked at with a game that has
\* only what the requests have made.
Paying ==
    /\ issued' = {} /\ content' \subseteq {"ledger", "intents"}
    /\ \A r \in Visit : stage'[r] # "sent"

NotPaying ==
    /\ content' \subseteq IF purge'.kind \in {"studio", "failed studio"}
                          THEN {} ELSE {"instances", "listings"}
    /\ \A t \in Payment : payments'[t] = NoPayment

Unused ==
    /\ \A s \in Slot : tool[s] = IdleTool
    /\ db.members = Staff /\ db.games = {"real"} /\ Rows(db) = 3

Production ==
    /\ Unused /\ db.dotOwner = {} /\ db.plus = {} /\ UNCHANGED sandboxVars
    /\ DataNext
    /\ Paying \/ NotPaying

\* A local database, where requests do not race with one another.  The studio
\* with a likely colleague is looked at without seeds.
Local ==
    /\ DataInit /\ SandboxNext /\ UNCHANGED dataVars
    /\ db.plus # {} => tool'["seed"] = IdleTool

\* A studio that looks like nothing of the seeds, and one with a colleague whose
\* address looks like a seeded owner's and like a seeded member's.
BothInit ==
    /\ DataInit /\ SandboxInit /\ ~db.lookalike
    /\ "owner" \notin db.plus /\ db.plus = db.dotOwner

BothSpec == BothInit /\ [][Production \/ Local]_<<dataVars, sandboxVars>>
=============================================================================
