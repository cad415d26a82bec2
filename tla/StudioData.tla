----------------------------- MODULE StudioData -----------------------------
(***************************************************************************)
(* The rows of one game while a wallet's owner and a studio's user come to *)
(* play it and administrators purge it.  Requests prove a wallet with a    *)
(* one-time nonce (player-wallet-auth.service.ts), find or create the      *)
(* wallet identity, the player and the game wallet (player-economics,      *)
(* player-wallet-identity and game-wallet-admin services) and log economic *)
(* events (economics.service.ts).  A purge is one transaction that deletes *)
(* the game's rows table by table (purgeGame and purgeStudio in            *)
(* admin.service.ts), in READ COMMITTED: a statement deletes what was      *)
(* committed when it ran; rows inserted later are late.  Other sessions go *)
(* on seeing what it deleted until it commits; an insert that refers to a  *)
(* row it deleted, or repeats a unique key of one, waits for it to end.    *)
(* Beside it, transactions lock rows the purge is about to delete: the     *)
(* confirmation of a deposit its intent and then a wallet, a transfer two  *)
(* wallets.  The purge waits for them and they for it, and the database    *)
(* aborts somebody when they wait in a circle.                             *)
(*                                                                         *)
(* Rows are named by the request that inserted them.  Of nft_instances,    *)
(* marketplace_listings, wallet_deposit_intents and ledger_entries, which  *)
(* other modules write, only whether they hold rows is kept.  Templates    *)
(* refer to the game as players do, members go with their studio: left     *)
(* out, as are the locks of purchases, which start at a listing as the     *)
(* purge of a game does.                                                   *)
(***************************************************************************)
EXTENDS Naturals, Sequences, FiniteSets

CONSTANTS
    Visit,          \* requests of players, and of the studio for them
    Operation,      \* what they may ask for, see OperationType
    Nonce,          \* nonces the server draws
    Tx,             \* transaction hashes of events
    Payment,        \* transactions that lock rows, at a time
    NoOp

OperationType ==
    [kind : {"session", "event", "register", "user"}, nonce : Nonce, tx : Tx,
     good : BOOLEAN]        \* the signature and the scope are those of the nonce

ASSUME StudioDataAssumption == Operation \subseteq OperationType

VARIABLES
    game,           \* the games row
    identity,       \* the player_wallet_identities row; no purge deletes it
    players,        \* SUBSET Visit, game_players rows
    wallets,        \* SUBSET Visit, players that have a game_wallets row
    events,         \* [by, tx], economic_events rows
    nonces,         \* SUBSET Nonce, player_nonce rows
    issued,         \* SUBSET Nonce, every nonce drawn so far
    expired,        \* SUBSET Nonce
    content,        \* SUBSET Content, tables of other modules with rows
    payments,       \* [Payment -> rows to lock, in order, and how many are]
    op, stage, player, \* [Visit -> ...]: operation, step, player found or made
    before,         \* [Visit -> requests answered before it was sent]
    purge           \* the purge in progress

playVars == <<identity, issued, expired, op, stage, player, before>>
tableVars == <<players, wallets, events, nonces, content, payments>>
dataVars == <<game, purge, tableVars, playVars>>

Content == {"instances", "listings", "ledger", "intents"}
Stage == {"idle", "sent", "found", "proved", "game", "noIdentity", "identity",
         "noPlayer", "player", "noWallet", "fresh", "done", "failed"}
ByWallet(r) == op[r].kind # "user"

\* Mutant of GameOrder: wallets go before the ledger that refers to them.
GameOrderMutant ==
    <<"listings", "events", "nonces", "wallets", "ledger", "instances", "intents",
      "players", "game">>

GameOrder ==
    <<"listings", "events", "nonces", "ledger", "instances", "wallets", "intents",
      "players", "game">>
StudioOrder ==
    <<"instances", "listings", "ledger", "events", "nonces", "wallets", "intents",
      "players", "game">>
Failed(kind) == IF kind = "game" THEN "failed game" ELSE "failed studio"
OrderOf(kind) == IF kind = "game" THEN GameOrder ELSE StudioOrder

NoPurge == [kind |-> "none", left |-> <<>>, touched |-> FALSE, deadlock |-> FALSE,
            started |-> {}, scanning |-> FALSE, found |-> {}, players |-> {},
            wallets |-> {}, events |-> {}, nonces |-> {}, cleared |-> {}, late |-> {}]

NoPayment == [rows |-> <<>>, held |-> 0]

DataInit ==
    /\ game = TRUE /\ identity = FALSE
    /\ players = {} /\ wallets = {} /\ events = {} /\ nonces = {}
    /\ issued = {} /\ expired = {} /\ content = {}
    /\ payments = [t \in Payment |-> NoPayment]
    /\ op = [r \in Visit |-> NoOp]
    /\ stage = [r \in Visit |-> "idle"]
    /\ player = [r \in Visit |-> r]
    /\ before = [r \in Visit |-> {}]
    /\ purge = NoPurge
-----------------------------------------------------------------------------
(* Rows as a running purge leaves them.                                    *)

Running == purge.kind \in {"game", "studio"}
Cleared(table) == Running /\ table \in purge.cleared

\* The rows a running purge has not deleted.
Alive == [
    players |-> players \ purge.players,
    wallets |-> wallets \ purge.wallets,
    content |-> {c \in content : Cleared(c) => c \in purge.late}]

\* A row that refers to another is inserted while a purge runs.
Touch == purge' = [purge EXCEPT !.touched = @ \/ Running]
Goto(r, step) == stage' = [stage EXCEPT ![r] = step]
Over == {r \in Visit : stage[r] \in {"done", "failed"}}
-----------------------------------------------------------------------------
(* Nonces.                                                                 *)

IssueNonce(n) ==
    /\ n \notin issued
    /\ issued' = issued \cup {n}
    /\ nonces' = nonces \cup {n}
    /\ UNCHANGED <<game, purge, identity, players, wallets, events, content, payments,
                   expired, op, stage, player, before>>

NonceExpires(n) ==
    /\ n \in nonces \ expired
    /\ expired' = expired \cup {n}
    /\ UNCHANGED <<game, purge, tableVars, identity, issued, op, stage, player, before>>

\* One issueNonce in ten deletes what has expired, without waiting.
CleanUp ==
    /\ nonces \cap expired # {}
    /\ (Running => purge.nonces \cap expired = {})
    /\ nonces' = nonces \ expired
    /\ UNCHANGED <<game, purge, players, wallets, events, content, payments, playVars>>

Send(r, o) ==
    /\ stage[r] = "idle"
    /\ op' = [op EXCEPT ![r] = o]
    /\ before' = [before EXCEPT ![r] = Over]
    /\ Goto(r, IF o.kind \in {"session", "event"} THEN "sent" ELSE "proved")
    /\ UNCHANGED <<game, purge, tableVars, identity, issued, expired, player>>

FindNonce(r) ==
    /\ stage[r] = "sent"
    /\ Goto(r, IF op[r].nonce \in nonces THEN "found" ELSE "failed")
    /\ UNCHANGED <<game, purge, tableVars, identity, issued, expired, op, player, before>>

\* Mutant of DeleteNonce: only a nonce that is refused is deleted.
DeleteNonceMutant(r) ==
    LET good == op[r].good /\ op[r].nonce \notin expired
    IN /\ stage[r] = "found"
       /\ nonces' = IF good THEN nonces ELSE nonces \ {op[r].nonce}
       /\ Goto(r, IF good THEN "proved" ELSE "failed")
       /\ UNCHANGED <<game, purge, players, wallets, events, content, payments, identity,
                      issued, expired, op, player, before>>

\* The nonce goes, whether the request is good or not; nobody looks whether
\* it was there still.
DeleteNonce(r) ==
    LET good == op[r].good /\ op[r].nonce \notin expired
    IN /\ stage[r] = "found"
       /\ (Running => op[r].nonce \notin purge.nonces)
       /\ nonces' = nonces \ {op[r].nonce}
       /\ Goto(r, IF good THEN "proved" ELSE "failed")
       /\ UNCHANGED <<game, purge, players, wallets, events, content, payments, identity,
                      issued, expired, op, player, before>>
-----------------------------------------------------------------------------
(* Players and wallets.                                                    *)

FindGame(r) ==
    /\ stage[r] = "proved"
    /\ Goto(r, IF ~game THEN "failed" ELSE IF ByWallet(r) THEN "game" ELSE "identity")
    /\ UNCHANGED <<game, purge, tableVars, identity, issued, expired, op, player, before>>

FindIdentity(r) ==
    /\ stage[r] = "game"
    /\ Goto(r, IF identity THEN "identity" ELSE "noIdentity")
    /\ UNCHANGED <<game, purge, tableVars, identity, issued, expired, op, player, before>>

\* walletAddress is unique.
InsertIdentity(r) ==
    /\ stage[r] = "noIdentity"
    /\ identity' = TRUE
    /\ Goto(r, IF identity THEN "failed" ELSE "identity")
    /\ UNCHANGED <<game, purge, tableVars, issued, expired, op, player, before>>

SameOwner(r) == {p \in players : ByWallet(p) = ByWallet(r)}

FindPlayer(r) ==
    /\ stage[r] = "identity"
    /\ IF SameOwner(r) = {}
       THEN Goto(r, "noPlayer") /\ UNCHANGED player
       ELSE /\ \E p \in SameOwner(r) : player' = [player EXCEPT ![r] = p]
            /\ Goto(r, "player")
    /\ UNCHANGED <<game, purge, tableVars, identity, issued, expired, op, before>>

\* Mutant of Taken: the migration's index on identity and game is missing.
TakenMutant(r) == {}

\* Rows the insert of a player would repeat: only players of a wallet identity
\* are unique in a game, those of a user are not.
Taken(r) == IF ByWallet(r) THEN SameOwner(r) ELSE {}

InsertPlayer(r) ==
    /\ stage[r] = "noPlayer"
    /\ ~Cleared("game")
    /\ Taken(r) \cap purge.players = {}
    /\ IF game /\ Taken(r) = {}
       THEN /\ players' = players \cup {r}
            /\ player' = [player EXCEPT ![r] = r]
            /\ Goto(r, "player")
            /\ Touch
       ELSE Goto(r, "failed") /\ UNCHANGED <<players, player, purge>>
    /\ UNCHANGED <<game, wallets, events, nonces, content, payments, identity, issued,
                   expired, op, before>>

\* resolveSession needs no wallet.
SessionDone(r) ==
    /\ stage[r] = "player"
    /\ op[r].kind = "session"
    /\ Goto(r, "done")
    /\ UNCHANGED <<game, purge, tableVars, identity, issued, expired, op, player, before>>

FindWallet(r) ==
    /\ stage[r] = "player"
    /\ op[r].kind \in {"register", "user"}
    /\ Goto(r, IF player[r] \in wallets THEN "done" ELSE "noWallet")
    /\ UNCHANGED <<game, purge, tableVars, identity, issued, expired, op, player, before>>

\* A player has one wallet at most.
InsertWallet(r) ==
    /\ stage[r] = "noWallet"
    /\ player[r] \notin purge.players \cup purge.wallets
    /\ IF player[r] \in players \ wallets
       THEN wallets' = wallets \cup {player[r]} /\ Goto(r, "done") /\ Touch
       ELSE Goto(r, "failed") /\ UNCHANGED <<wallets, purge>>
    /\ UNCHANGED <<game, players, events, nonces, content, payments, identity, issued,
                   expired, op, player, before>>

\* Mutant of FindEvent: the duplicate is looked for among other events.
FindEventMutant(r) ==
    /\ stage[r] = "player"
    /\ op[r].kind = "event"
    /\ Goto(r, IF \E e \in events : e.by = r THEN "done" ELSE "fresh")
    /\ UNCHANGED <<game, purge, tableVars, identity, issued, expired, op, player, before>>

FindEvent(r) ==
    /\ stage[r] = "player"
    /\ op[r].kind = "event"
    /\ Goto(r, IF \E e \in events : e.tx = op[r].tx THEN "done" ELSE "fresh")
    /\ UNCHANGED <<game, purge, tableVars, identity, issued, expired, op, player, before>>

\* economic_events has neither a unique index nor a foreign key.
InsertEvent(r) ==
    /\ stage[r] = "fresh"
    /\ events' = events \cup {[by |-> r, tx |-> op[r].tx]}
    /\ Goto(r, "done")
    /\ UNCHANGED <<game, purge, players, wallets, nonces, content, payments, identity,
                   issued, expired, op, player, before>>

InsertContent(c) ==
    /\ content' = content \cup {c}
    /\ purge' = [purge EXCEPT !.touched = @ \/ Running,
                              !.late = IF Cleared(c) THEN @ \cup {c} ELSE @]

\* Another handler inserts a row: an instance of a player, a listing of an
\* instance, a ledger entry of a wallet, a deposit intent.
OtherInsert(c) ==
    /\ c \notin Alive.content
    /\ game /\ ~Cleared("game")
    /\ CASE c = "instances" -> Alive.players # {}
         [] c = "listings" -> "instances" \in Alive.content /\ Alive.players # {}
         [] c = "ledger" -> Alive.wallets # {}
         [] c = "intents" -> TRUE
    /\ InsertContent(c)
    /\ UNCHANGED <<game, players, wallets, events, nonces, payments, playVars>>
-----------------------------------------------------------------------------
(* Transactions that lock rows: confirmations of deposits and transfers.   *)

Held(t) == {payments[t].rows[i] : i \in 1..payments[t].held}
Waiting(t) == payments[t].held < Len(payments[t].rows)
Wanted(t) == payments[t].rows[payments[t].held + 1]

\* A row the running purge has deleted, for all others still there and locked.
PurgeHolds(row) ==
    \/ row \in purge.wallets
    \/ row = "intents" /\ Cleared(row) /\ row \notin purge.late

BeginPayment(t) ==
    /\ payments[t] = NoPayment
    /\ \E p \in wallets, first \in wallets \cup (content \cap {"intents"}) :
           /\ first # p
           /\ payments' = [payments EXCEPT ![t] = [rows |-> <<first, p>>, held |-> 0]]
    /\ UNCHANGED <<game, purge, players, wallets, events, nonces, content, playVars>>

\* SELECT ... FOR UPDATE: a row that is gone ends the request.
LockRow(t) ==
    /\ Waiting(t)
    /\ ~PurgeHolds(Wanted(t)) /\ \A u \in Payment : Wanted(t) \notin Held(u)
    /\ payments' = IF Wanted(t) \in wallets \cup content
                    THEN [payments EXCEPT ![t].held = @ + 1]
                    ELSE [payments EXCEPT ![t] = NoPayment]
    /\ UNCHANGED <<game, purge, players, wallets, events, nonces, content, playVars>>

\* It commits with an entry in the ledger, or gives up: too low a balance, an
\* intent that is not pending, a deposit that was not paid.
EndPayment(t) ==
    /\ payments[t].held > 0
    /\ payments' = [payments EXCEPT ![t] = NoPayment]
    /\ \/ ~Waiting(t) /\ InsertContent("ledger")
       \/ UNCHANGED <<content, purge>>
    /\ UNCHANGED <<game, players, wallets, events, nonces, playVars>>
-----------------------------------------------------------------------------
(* Purges.                                                                 *)

\* One purge is enough: one that failed left everything as it was.
BeginPurge(kind) ==
    /\ purge.kind = "none"
    /\ purge' = [NoPurge EXCEPT !.kind = kind, !.left = OrderOf(kind),
                                !.started = Over]
    /\ UNCHANGED <<game, tableVars, playVars>>

\* Rows that refer to a row of the table.
Refers(table) ==
    CASE table = "instances" -> "listings" \in Alive.content
      [] table = "wallets" -> "ledger" \in Alive.content
      [] table = "players" -> \/ Alive.wallets # {}
                              \/ Alive.content \cap {"instances", "listings"} # {}
      [] table = "game" -> \/ Alive.players # {}
                           \/ Alive.content \cap {"listings", "intents"} # {}
      [] OTHER -> FALSE

\* A table without rows refers to nothing and is referred to by nothing.
HasRows(table) ==
    CASE table = "players" -> players # {}
      [] table = "wallets" -> wallets # {}
      [] table \in Content -> table \in content
      [] OTHER -> TRUE

Deletes(table) == Running /\ purge.left # <<>> /\ Head(purge.left) = table

\* The statement on game_wallets finds its rows and deletes one after another.
FindWallets ==
    /\ Deletes("wallets") /\ ~purge.scanning
    /\ purge' = [purge EXCEPT !.scanning = TRUE, !.found = wallets]
    /\ UNCHANGED <<game, tableVars, playVars>>

DeleteWallet(p) ==
    /\ Deletes("wallets") /\ purge.scanning /\ p \in purge.found \ purge.wallets
    /\ \A t \in Payment : p \notin Held(t)
    /\ purge' = [purge EXCEPT !.wallets = @ \cup {p}]
    /\ UNCHANGED <<game, tableVars, playVars>>

\* Rows of the statement that are not deleted yet.
RowsToDelete ==
    IF Deletes("wallets") /\ purge.scanning THEN purge.found \ purge.wallets
    ELSE IF Deletes("intents") THEN {"intents"} \cap content ELSE {}

\* A statement ends when nobody locks its rows any more; it fails when a row
\* that is left refers to one of them.
Delete ==
    /\ Running /\ purge.left # <<>>
    /\ \A t \in Payment : RowsToDelete \cap Held(t) = {}
    /\ LET table == Head(purge.left)
       IN /\ table = "wallets" => purge.scanning /\ purge.found \subseteq purge.wallets
          /\ IF HasRows(table) /\ Refers(table)
             THEN purge' = [NoPurge EXCEPT !.kind = Failed(purge.kind),
                                           !.touched = purge.touched]
             ELSE purge' = [purge EXCEPT
                      !.left = Tail(@),
                      !.cleared = @ \cup {table},
                      !.players = IF table = "players" THEN players ELSE @,
                      !.events = IF table = "events" THEN events ELSE @,
                      !.nonces = IF table = "nonces" THEN nonces ELSE @]
    /\ UNCHANGED <<game, tableVars, playVars>>

Process == Payment \cup {"purge"}

\* x waits for a row that y has locked or deleted.
Waits(x, y) ==
    CASE x = "purge" /\ y # "purge" -> RowsToDelete \cap Held(y) # {}
      [] x # "purge" /\ y = "purge" -> Waiting(x) /\ PurgeHolds(Wanted(x))
      [] x # "purge" /\ y # "purge" -> Waiting(x) /\ Wanted(x) \in Held(y)
      [] OTHER -> FALSE

\* Waiting in a circle.
Deadlocked(x) ==
    /\ \E y \in Process : Waits(x, y)
    /\ \E S \in SUBSET Process : \E next \in [S -> S] :
        /\ x \in S
        /\ \A y \in S : Waits(y, next[y]) /\ \E z \in S : next[z] = y

\* The database aborts one of the circle.
Abort(x) ==
    /\ Deadlocked(x)
    /\ IF x = "purge"
       THEN /\ purge' = [NoPurge EXCEPT !.kind = Failed(purge.kind), !.deadlock = TRUE,
                                        !.touched = purge.touched]
            /\ UNCHANGED payments
       ELSE payments' = [payments EXCEPT ![x] = NoPayment] /\ UNCHANGED purge
    /\ UNCHANGED <<game, players, wallets, events, nonces, content, playVars>>

CommitPurge ==
    /\ Running /\ purge.left = <<>>
    /\ game' = FALSE
    /\ players' = Alive.players
    /\ wallets' = Alive.wallets
    /\ events' = events \ purge.events
    /\ nonces' = nonces \ purge.nonces
    /\ content' = Alive.content
    /\ purge' = [NoPurge EXCEPT !.kind = "done", !.started = purge.started]
    /\ UNCHANGED <<payments, playVars>>

VisitStep(r) ==
    \/ \E o \in Operation : Send(r, o)
    \/ FindNonce(r) \/ DeleteNonce(r)
    \/ FindGame(r)
    \/ FindIdentity(r) \/ InsertIdentity(r)
    \/ FindPlayer(r) \/ InsertPlayer(r)
    \/ SessionDone(r)
    \/ FindWallet(r) \/ InsertWallet(r)
    \/ FindEvent(r) \/ InsertEvent(r)

DataNext ==
    \/ \E n \in Nonce : IssueNonce(n) \/ NonceExpires(n)
    \/ CleanUp
    \/ \E r \in Visit : VisitStep(r)
    \/ \E c \in Content : OtherInsert(c)
    \/ \E kind \in {"game", "studio"} : BeginPurge(kind)
    \/ \E t \in Payment : BeginPayment(t) \/ LockRow(t) \/ EndPayment(t)
    \/ FindWallets \/ (\E p \in Visit : DeleteWallet(p)) \/ Delete \/ CommitPurge
    \/ \E x \in Process : Abort(x)

DataSpec == DataInit /\ [][DataNext]_dataVars
-----------------------------------------------------------------------------
(* Properties.                                                             *)

Overlap(r, s) == r \notin before[s] /\ s \notin before[r]

DataTypeOK ==
    /\ game \in BOOLEAN /\ identity \in BOOLEAN
    /\ players \subseteq Visit /\ wallets \subseteq Visit
    /\ events \subseteq [by : Visit, tx : Tx]
    /\ nonces \subseteq issued /\ expired \subseteq issued /\ issued \subseteq Nonce
    /\ content \subseteq Content
    /\ payments \in [Payment -> [rows : Seq(Visit \cup {"intents"}), held : Nat]]
    /\ op \in [Visit -> Operation \cup {NoOp}]
    /\ stage \in [Visit -> Stage]
    /\ player \in [Visit -> Visit]
    /\ before \in [Visit -> SUBSET Visit]

Proved(r) == stage[r] \notin {"idle", "sent", "found", "failed"} /\ op[r].kind \in {"session", "event"}

\* "Consume the nonce - one-time use": two requests that passed with the same
\* nonce were in progress together; a nonce is no good to a request that
\* comes after the answer to another, whatever purges, expiries and cleanups
\* run.
NoncesAreOneTime ==
    \A r, s \in Visit :
        r # s /\ Proved(r) /\ Proved(s) /\ op[r].nonce = op[s].nonce => Overlap(r, s)

\* Every session of a wallet in a game is answered with the same player: the
\* index turns the race of two find-or-creates into an error, never into two
\* players, and no purge in between makes one anew.
SessionsAgree ==
    \A r, s \in Visit :
        /\ stage[r] = "done" /\ stage[s] = "done" /\ ByWallet(r) /\ ByWallet(s)
        => player[r] = player[s]

\* A client that repeats a transaction after it was answered adds nothing:
\* two rows of one transaction are the work of requests that overlapped.
RetriesLogOnce ==
    \A e, f \in events : e # f /\ e.tx = f.tx => Overlap(e.by, f.by)

\* The order of the statements respects the references: deleting a game fails
\* only when somebody inserted a row while it ran, or when a confirmation or a
\* transfer and the purge waited for each other's rows.
GamePurgesFailByRacesOnly ==
    purge.kind = "failed game" => purge.touched \/ purge.deadlock
=============================================================================
