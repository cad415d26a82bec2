----------------------------- MODULE StudioAccess -----------------------------
(***************************************************************************)
(* What members do with their studio's games.  A route of the platform     *)
(* looks neither at studio_members nor at the studio: it takes the studio  *)
(* and the role from the token that login or select-studio signed, as they *)
(* were then, and asks only that the game is the studio's.  So a token goes*)
(* on after its member was demoted or deleted and after its studio was     *)
(* suspended; it ends when its day is over.  The routes of the game wallet *)
(* ask in the WHERE of a query, which leaves out a studio that is          *)
(* undefined: with a token that names none they take every game.           *)
(*                                                                         *)
(* Every route is one step: what the services do concurrently is in their  *)
(* own modules.  Bounds: while a token is out or a studio suspended, and   *)
(* once a game was changed, members are managed by one request at a time,  *)
(* with the routes between the requests; before, the requests overtake     *)
(* each other.  One studio is suspended at a time.                         *)
(***************************************************************************)
EXTENDS StudioMembers

CONSTANTS
    Visitor,    \* the users whose tokens are followed
    Name,       \* slugs that are asked for
    Earlier,    \* studios that have a game of every name at first
    Life        \* parts of a day after which a token has expired

ASSUME StudioAccessAssumption == Visitor \subseteq User /\ Earlier \subseteq Studio /\ Life \in Nat \ {0}

VARIABLES
    suspended,  \* studios with status suspended
    token,      \* [Visitor -> Token \cup {None}], the cookie access_token
    games,      \* SUBSET Game, the rows
    change      \* the last change to a game and to what is in it

accessVars == <<suspended, token, games, change>>
allVars == <<vars, accessVars>>

\* Of no use to the program: how many parts of a day ago the user last was a
\* member, and a manager, of the token's studio while it was not suspended.
Authority == {"member", "manager"}
\* A base token names no studio and has no role.
Token == [studio : Studio \cup {None}, role : {"owner", "admin", "member", "none"},
          age : 0..Life - 1, since : [Authority -> 0..Life]]

\* A slug is taken as it is, made the studio's own, or made unique.  The last
\* change stands for a game's templates, instances, players and wallets.
Slug == [name : Name, of : Studio \cup {None}, random : BOOLEAN]
Game == [studio : Studio, slug : Slug]
Change == [game : Game, what : {"created", "stocked", "played"}, by : Visitor]

AccessTypeOK ==
    /\ suspended \subseteq Studio
    /\ token \in [Visitor -> Token \cup {None}]
    /\ games \subseteq Game
    /\ change \in Change \cup {None}

-----------------------------------------------------------------------------
(* Who is what, by the tables.  Bound: a role changes together with the    *)
(* rights to manage members.                                               *)

RoleOf(m) ==
    IF row[m].isOwner THEN "owner" ELSE IF row[m].rights THEN "admin" ELSE "member"

\* AdminGuard and the checks at the head of the routes.
IsManager(role) == role \in {"owner", "admin"}

Has(u, s, authority) ==
    \E m \in Memberships(s, u) : authority = "manager" => IsManager(RoleOf(m))

\* What u may do where, for a token that was signed now.
Held(u) == {h \in (Studio \ suspended) \X Authority : Has(u, h[1], h[2])}

\* The tokens as time, members and studios change.
Recorded(tokens, tick) ==
    [u \in Visitor |->
        LET t == tokens[u]
            now == Held(u)'
        IN  IF t = None THEN None
            ELSE [t EXCEPT !.since = [a \in Authority |->
                    IF <<t.studio, a>> \in now THEN 0
                    ELSE IF tick /\ @[a] < Life THEN @[a] + 1 ELSE @[a]]]]

NewGame(s, n) ==
    [studio |-> s, slug |-> [name |-> n, of |-> None, random |-> FALSE]]

AccessInit ==
    /\ Init
    /\ suspended = {}
    /\ games = {NewGame(s, n) : s \in Earlier, n \in Name}
    /\ change = None
    /\ token = [u \in Visitor |-> None]

-----------------------------------------------------------------------------
(* Tokens.                                                                 *)

\* Mutant of Older: the token is signed without expiresIn.
OlderMutant(t) == t

\* A part of the token's day is over.
Older(t) ==
    IF t = None \/ t.age + 1 = Life THEN None ELSE [t EXCEPT !.age = @ + 1]

\* The cookie and the token end together, after a day.
TimePasses ==
    /\ UNCHANGED <<vars, suspended, games, change>>
    /\ token' = Recorded([u \in Visitor |-> Older(token[u])], TRUE)

\* login with a studio, or selectStudio.
SelectStudio(u, s) ==
    /\ s \notin suspended
    /\ \E m \in Memberships(s, u) :
        token' = [token EXCEPT ![u] =
            [studio |-> s, role |-> RoleOf(m), age |-> 0,
             since |-> [a \in Authority |-> IF Has(u, s, a) THEN 0 ELSE Life]]]
    /\ UNCHANGED <<vars, suspended, games, change>>

\* login without a studio, and the wallet session of a player, for any account.
BaseLogin(u) ==
    /\ token' = [token EXCEPT ![u] =
            [studio |-> None, role |-> "none", age |-> 0,
             since |-> [a \in Authority |-> Life]]]
    /\ UNCHANGED <<vars, suspended, games, change>>

Logout(u) ==
    /\ token[u] # None
    /\ token' = [token EXCEPT ![u] = None]
    /\ UNCHANGED <<vars, suspended, games, change>>

\* setStudioStatus of the platform's administrators.
SetStudioStatus(s) ==
    /\ suspended \subseteq {s}
    /\ suspended' = IF s \in suspended THEN suspended \ {s} ELSE suspended \cup {s}
    /\ UNCHANGED <<vars, games, change>>
    /\ token' = Recorded(token, FALSE)

-----------------------------------------------------------------------------
(* The routes.                                                             *)

Slugs == {g.slug : g \in games}

\* The slug a game is saved with: another studio's slug is made one's own.
SlugFor(n, s) ==
    LET plain == NewGame(s, n).slug
        scoped == [plain EXCEPT !.of = s]
    IN  IF plain \notin Slugs THEN plain
        ELSE IF scoped \notin Slugs THEN scoped ELSE [scoped EXCEPT !.random = TRUE]

Changes(u, g, what) == change' = [game |-> g, what |-> what, by |-> u]

\* The studio's own game of that very slug is a conflict; a random slug is
\* drawn once (bound).
CreateGame(u, n) ==
    /\ token[u] # None /\ IsManager(token[u].role)
    /\ LET s == token[u].studio
           g == [NewGame(s, n) EXCEPT !.slug = SlugFor(n, s)]
       IN  /\ ~\E h \in games : h.studio = s /\ h.slug = NewGame(s, n).slug
           /\ g.slug \notin Slugs
           /\ games' = games \cup {g}
           /\ Changes(u, g, "created")
    /\ UNCHANGED <<vars, suspended, token>>

\* assertGameBelongsToStudio as the studio's own routes have it: ids compared.
InStudio(g, u) == token[u] # None /\ token[u].studio = g.studio

\* The same as a query has it: no studio in the token, no condition.
Passes(g, u) == token[u] # None /\ token[u].studio \in {None, g.studio}

\* Templates and players registered by their wallet.
StockGame(u, g) ==
    /\ InStudio(g, u)
    /\ IsManager(token[u].role)
    /\ Changes(u, g, "stocked")
    /\ UNCHANGED <<vars, suspended, token, games>>

\* Mints.
MintInGame(u, g) ==
    /\ Passes(g, u)
    /\ IsManager(token[u].role)
    /\ Changes(u, g, "stocked")
    /\ UNCHANGED <<vars, suspended, token, games>>

\* The user's own game wallet and instances, any role or none.  The transfer
\* makes a wallet for its recipient too.
PlayGame(u, g) ==
    /\ Passes(g, u)
    /\ Changes(u, g, "played")
    /\ UNCHANGED <<vars, suspended, token, games>>

-----------------------------------------------------------------------------
Busy == {r \in Request : pc[r] # "idle"}
Free == token = [u \in Visitor |-> None] /\ suspended = {} /\ change = None

MembersStep ==
    /\ Next
    /\ Free \/ \A a, b \in Busy' : a = b
    /\ UNCHANGED <<suspended, games, change>>
    /\ token' = Recorded(token, FALSE)

AccessStep ==
    /\ Busy = {}
    /\ \/ TimePasses
       \/ \E s \in Studio : SetStudioStatus(s) \/ \E u \in Visitor : SelectStudio(u, s)
       \/ \E u \in Visitor :
            \/ Logout(u)
            \/ BaseLogin(u)
            \/ \E n \in Name : CreateGame(u, n)
            \/ \E g \in games : StockGame(u, g) \/ MintInGame(u, g) \/ PlayGame(u, g)

AccessNext == MembersStep \/ AccessStep
AccessSpec == AccessInit /\ [][AccessNext]_allVars

-----------------------------------------------------------------------------
(* Properties.                                                             *)

\* What a change asks of who makes it.
NeedFor(c) == IF c.what = "played" THEN "member" ELSE "manager"

\* Whatever happened to members and studios in between, the games of a studio
\* are made and stocked by who managed it within the last day, and played by
\* who was its member within the last day or holds a token of no studio.  So a
\* token outlives its authority, but not for longer; a token of one studio
\* reaches into no other, but one of no studio into all.
AuthorityWasRecent ==
    [][change' # change =>
        LET t == token[change'.by]
        IN  /\ t # None
            /\ \/ t.studio = change'.game.studio /\ t.since[NeedFor(change')] < Life
               \/ t.studio = None /\ change'.what = "played"]_allVars
=============================================================================
