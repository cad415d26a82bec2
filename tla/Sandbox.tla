------------------------------- MODULE Sandbox -------------------------------
(***************************************************************************)
(* The developer tools that fill a local database with test data and clear *)
(* it again (admin-dev.service.ts), while somebody uses the application.   *)
(* Only the purge of a game or a studio and the full reset are             *)
(* transactions; the other tools run one statement after another, each     *)
(* committed by itself, and stop at the first that fails: every statement  *)
(* is a step, and a seed and a clear may run at a time (bound).            *)
(*                                                                         *)
(* The database is that of one studio.  A row is named by what it is: one  *)
(* user, template and instance of each origin, a colleague of the owner,   *)
(* one wallet's owner, one game besides the seeded one (bounds).  The name *)
(* of the studio and the addresses of its people are arbitrary, and may be *)
(* such as the tools look for.  Listings stay when they are sold or        *)
(* cancelled.  seedStudios is left out: signup refuses it for want of the  *)
(* GDPR consent.                                                           *)
(***************************************************************************)
EXTENDS Naturals, Sequences, FiniteSets, Functions

CONSTANT MaxRows    \* bound on the rows, besides those of Init

ASSUME SandboxAssumption == MaxRows \in Nat

VARIABLES
    db,         \* the tables: studio (BOOLEAN), users, members, games, players,
                \* wallets, templates, owner ([NFTInstance -> Player], partial: the
                \* instances), marked (instances whose customAttributes say seeded),
                \* listings (instances that were ever listed), events; and what is
                \* like the seeds': lookalike, the studio's name (BOOLEAN), dotOwner
                \* and plus, people with ".owner+" in their address, or one like
                \* "%+%@triolith.local"
    tool        \* [Slot -> what the seed and the clear are about]

sandboxVars == <<db, tool>>

Account == {"owner", "colleague", "seedMember", "seedPlayer"}
Staff == {"owner", "colleague"}
Game == {"real", "seeded"}
Player == (Account \cup {"wallet"}) \X Game
Template == [game : Game, seeded : BOOLEAN]
NFTInstance == [template : Template, by : {"people", "seeds"}]

Slot == {"seed", "clear"}

\* found: the rows a tool has looked up.
IdleTool == [kind |-> "idle", game |-> "real", left |-> <<>>, found |-> {}]

SandboxInit ==
    /\ \E l \in BOOLEAN, o \in SUBSET Staff, u \in SUBSET Staff :
        db = [studio |-> TRUE, lookalike |-> l, dotOwner |-> o, plus |-> u,
              users |-> Staff, members |-> Staff, games |-> {"real"},
              players |-> {}, wallets |-> {}, templates |-> {}, owner |-> <<>>,
              marked |-> {}, listings |-> {}, events |-> {}]
    /\ tool = [s \in Slot |-> IdleTool]

-----------------------------------------------------------------------------
(* Foreign keys.  economic_events has none.                                *)

Instances(d) == DOMAIN d.owner

Intact(d) ==
    /\ d.members # {} \/ d.games # {} => d.studio
    /\ d.members \subseteq d.users
    /\ \A p \in d.players : p[1] \in d.users \cup {"wallet"} /\ p[2] \in d.games
    /\ d.wallets \subseteq d.players
    /\ \A t \in d.templates : t.game \in d.games
    /\ \A i \in Instances(d) : i.template \in d.templates /\ d.owner[i] \in d.players
    /\ d.listings \subseteq Instances(d)

Rows(d) ==
    Cardinality(d.users) + Cardinality(d.games) + Cardinality(d.players)
        + Cardinality(d.templates) + Cardinality(Instances(d))
        + Cardinality(d.listings) + Cardinality(d.events)
Room == Rows(db) < MaxRows + 3

WithoutUsers(d, U) ==       \* memberships go with their user
    [d EXCEPT !.users = @ \ U, !.members = @ \ U]
WithoutInstances(d, I) ==
    [d EXCEPT !.owner = Restrict(@, Instances(d) \ I), !.marked = @ \ I]
OfGame(d, g) == {i \in Instances(d) : i.template.game = g \/ d.owner[i][2] = g}

\* purgeGame.
WithoutGame(d, g) ==
    [WithoutInstances(d, OfGame(d, g)) EXCEPT
        !.listings = {i \in @ : i.template.game # g},
        !.events = {e \in @ : e.game # g},
        !.wallets = {p \in @ : p[2] # g},
        !.templates = {t \in @ : t.game # g},
        !.players = {p \in @ : p[2] # g},
        !.games = @ \ {g}]

\* purgeStudio of the developer tools leaves listings and events alone.
WithoutStudio(d) ==
    [WithoutInstances(d, Instances(d)) EXCEPT
        !.wallets = {}, !.players = {}, !.templates = {}, !.games = {},
        !.members = {}, !.studio = FALSE]

\* fullLocalReset: everything but administrators.
Emptied(d) ==
    [WithoutStudio(d) EXCEPT !.users = {}, !.listings = {}, !.events = {}]

-----------------------------------------------------------------------------
(* The statements of the clears.                                           *)

\* The members, or players of the game, whose address is like those of seeded
\* members, whoever made the account.  Those of seeded players have no "+".
Plus(d) == {"seedMember"} \cup d.plus
SeedMembers(d) == (d.members \cap Plus(d)) \ {"owner"}
SeedPlayers(d, g) == {p \in d.players : p[1] \in Plus(d) /\ p[2] = g}

\* A studio with a seeded one's name, or a member with a seeded owner's address.
Targeted(d) == d.lookalike \/ d.members \cap d.dotOwner # {}

\* Mutant of SeedEvents: metadata is not looked at.
SeedEventsMutant(d, G) == {e \in d.events : e.game \in G}
SeedEvents(d, G) == {e \in d.events : e.seeded /\ e.game \in G}

Find(t, d) ==
    CASE t.kind = "clearPlayers" -> SeedPlayers(d, t.game)
      [] t.kind = "clearTemplates" -> {x \in d.templates : x.game = t.game /\ x.seeded}
      [] t.kind = "clearInstances" -> {i \in d.marked : i.template.game = t.game}
      [] OTHER -> IF Head(t.left) = "findStudio"
                  THEN IF Targeted(d) THEN d.members \cup {"studio"} ELSE {}
                  ELSE SeedMembers(d)

\* What a statement of tool t makes of the database d.
After(t, d) ==
    LET step == Head(t.left)
    IN  CASE step = "studio" -> IF "studio" \in t.found THEN WithoutStudio(d) ELSE d
          [] step = "games" -> WithoutGame(d, "seeded")
          [] step = "members" -> [d EXCEPT !.members = @ \ t.found]
          [] step = "users" -> WithoutUsers(d, t.found \ d.members)
          [] step = "listings" -> [d EXCEPT !.listings =
                {i \in @ : i \in Instances(d) => d.owner[i] \notin t.found}]
          [] step = "wallets" -> [d EXCEPT !.wallets = @ \ t.found]
          [] step = "instances of players" ->
                WithoutInstances(d, {i \in Instances(d) : d.owner[i] \in t.found})
          [] step = "players" -> [d EXCEPT !.players = @ \ t.found]
          [] step = "users of players" ->
                WithoutUsers(d, {p[1] : p \in t.found} \ (d.members \cup {p[1] : p \in d.players}))
          [] step = "instances of templates" ->
                WithoutInstances(d, {i \in Instances(d) : i.template \in t.found})
          [] step = "templates" -> [d EXCEPT !.templates = @ \ t.found]
          [] step = "instances" -> WithoutInstances(d, t.found)
          [] step = "events" -> [d EXCEPT !.events = @ \ SeedEvents(d, {t.game})]
          [] step = "all events" -> [d EXCEPT !.events = @ \ SeedEvents(d, Game)]
          [] step = "everything" -> Emptied(d)
          [] OTHER -> d

MembersScript == <<"findMembers", "members", "users">>
StudiosScript == <<"findStudio", "studio", "users">>

SandboxScript == StudiosScript \o <<"games">> \o MembersScript \o <<"all events">>

ClearScript == [
    clearMembers |-> MembersScript,
    clearPlayers |-> <<"find", "listings", "wallets", "instances of players", "players",
                       "users of players">>,
    clearGames |-> <<"games">>,
    clearEvents |-> <<"events">>,
    clearTemplates |-> <<"find", "instances of templates", "templates">>,
    clearInstances |-> <<"find", "instances">>,
    clearStudios |-> StudiosScript,
    clearSandbox |-> SandboxScript,
    reset |-> <<"everything">>]

-----------------------------------------------------------------------------
(* The statements of the seeds.  found is the row to make.                 *)

SeedScript == [
    seedMembers |-> <<"user", "member">>,
    seedPlayers |-> <<"user", "player">>,
    seedGames |-> <<"game">>,
    seedEvents |-> <<"event">>,
    seedTemplates |-> <<"template">>,
    seedInstances |-> <<"template", "mint", "count", "mark">>]

SeededEvent(g) == [game |-> g, seeded |-> TRUE]
TemplateOf(g) == [game |-> g, seeded |-> TRUE]
InstanceOf(g) == [template |-> TemplateOf(g), by |-> "seeds"]
PlayerOf(u, g) == <<u, g>>

\* save() of a row that is gone inserts it again.
Minted(d, i, p) ==
    [d EXCEPT !.owner = [j \in Instances(d) \cup {i} |->
                            IF j \in Instances(d) THEN @[j] ELSE p]]

\* mintNFTToPlayer counts the mint in the template, then the instance is marked.
Made(t, d) ==
    LET step == Head(t.left)
        x == CHOOSE y \in t.found : TRUE
        i == InstanceOf(t.game)
    IN  CASE step = "user" -> [d EXCEPT !.users = @ \cup {x}]
          [] step = "member" -> [d EXCEPT !.members = @ \cup {x}]
          [] step = "player" -> [d EXCEPT !.players = @ \cup {PlayerOf(x, t.game)}]
          [] step = "game" -> [d EXCEPT !.games = @ \cup {x}]
          [] step = "event" -> [d EXCEPT !.events = @ \cup {SeededEvent(x)}]
          [] step \in {"template", "count"} ->
                [d EXCEPT !.templates = @ \cup {TemplateOf(t.game)}]
          [] step = "mint" -> Minted(d, i, x)
          [] step = "mark" -> [Minted(d, i, x) EXCEPT !.marked = @ \cup {i}]

\* What a seed is about to make, once the checks at its head have passed.
Seeded(kind, g) ==
    CASE kind = "seedMembers" -> IF db.studio THEN {"seedMember"} \ db.users ELSE {}
      [] kind = "seedPlayers" -> IF g \in db.games THEN {"seedPlayer"} \ db.users ELSE {}
      [] kind = "seedGames" -> IF "owner" \in db.members THEN {"seeded"} \ db.games ELSE {}
      [] kind = "seedEvents" -> db.games \cap {g}
      [] kind = "seedTemplates" -> db.games \cap {g}
      [] kind = "seedInstances" ->
            IF g \in db.games /\ InstanceOf(g) \notin Instances(db)
            THEN {p \in db.players : p[2] = g} ELSE {}

-----------------------------------------------------------------------------
(* The tools.                                                              *)

BeginClear(kind, g) ==
    /\ tool["clear"] = IdleTool
    /\ g \in db.games \/ kind \notin {"clearPlayers", "clearTemplates", "clearInstances"}
    /\ tool' = [tool EXCEPT !["clear"] =
                    [IdleTool EXCEPT !.kind = kind, !.game = g, !.left = ClearScript[kind]]]
    /\ UNCHANGED db

BeginSeed(kind, g) ==
    /\ tool["seed"] = IdleTool /\ Room
    /\ \E x \in Seeded(kind, g) :
        tool' = [tool EXCEPT !["seed"] =
                    [IdleTool EXCEPT !.kind = kind, !.game = g, !.found = {x},
                                 !.left = SeedScript[kind]]]
    /\ UNCHANGED db

Outcome(s) == IF s = "seed" THEN Made(tool[s], db) ELSE After(tool[s], db)
LooksUp(t) == Head(t.left) \in {"find", "findMembers", "findStudio"}
Advance(t) == IF Len(t.left) = 1 THEN IdleTool ELSE [t EXCEPT !.left = Tail(@)]

Look(s) ==
    /\ tool[s].left # <<>> /\ LooksUp(tool[s])
    /\ tool' = [tool EXCEPT ![s] = [Advance(@) EXCEPT !.found = Find(tool[s], db)]]
    /\ UNCHANGED db

Execute(s) ==
    /\ tool[s].left # <<>> /\ ~LooksUp(tool[s]) /\ Intact(Outcome(s))
    /\ db' = Outcome(s)
    /\ tool' = [tool EXCEPT ![s] = Advance(@)]

\* A foreign key refuses the statement; what the tool did before stays done.
Stop(s) ==
    /\ tool[s].left # <<>> /\ ~LooksUp(tool[s]) /\ ~Intact(Outcome(s))
    /\ tool' = [tool EXCEPT ![s] = IdleTool]
    /\ UNCHANGED db

-----------------------------------------------------------------------------
(* People who use the application.                                         *)

\* A member, or the developer in the member's session, opens the game wallet.
Play(u, g) ==
    /\ u \in db.members /\ g \in db.games /\ <<u, g>> \notin db.wallets
    /\ db' = [db EXCEPT !.players = @ \cup {<<u, g>>}, !.wallets = @ \cup {<<u, g>>}]

Register(g) ==
    /\ g \in db.games
    /\ db' = [db EXCEPT !.players = @ \cup {<<"wallet", g>>}]

CreateTemplate(g) ==
    /\ g \in db.games
    /\ db' = [db EXCEPT !.templates = @ \cup {[game |-> g, seeded |-> FALSE]}]

Mint(t, p) ==
    LET i == [template |-> t, by |-> "people"]
    IN  /\ p[2] = t.game /\ i \notin Instances(db)
        /\ db' = [db EXCEPT !.owner =
                    [j \in Instances(db) \cup {i} |-> IF j = i THEN p ELSE @[j]]]

\* Only the owner of a wallet can offer an NFT.
Offer(i) ==
    /\ db.owner[i][1] = "wallet"
    /\ db' = [db EXCEPT !.listings = @ \cup {i}]

LogEvent(g) ==
    /\ g \in db.games
    /\ db' = [db EXCEPT !.events = @ \cup {[game |-> g, seeded |-> FALSE]}]

People ==
    /\ Room
    /\ \/ \E u \in Account, g \in Game : Play(u, g)
       \/ \E g \in Game : Register(g) \/ CreateTemplate(g) \/ LogEvent(g)
       \/ \E t \in db.templates, p \in db.players : Mint(t, p)
       \/ \E i \in Instances(db) : Offer(i)
    /\ UNCHANGED tool

(* The panels that offer the tools.  A button is blocked only while its own*)
(* request is under way, so a panel may run a seed beside a clear.         *)

MembersTools == BeginSeed("seedMembers", "real") \/ BeginClear("clearMembers", "real")
GamesTools == BeginSeed("seedGames", "real") \/ BeginClear("clearGames", "real")
AdminStudiosTools == BeginClear("clearStudios", "real")
PlayersTools(g) == BeginSeed("seedPlayers", g) \/ BeginClear("clearPlayers", g)

\* For the active game, or for the other games of the studio.
DashboardTools(g) == BeginSeed("seedEvents", g) \/ BeginClear("clearEvents", g)

NFTManagementTools(g) ==
    \/ BeginSeed("seedTemplates", g) \/ BeginClear("clearTemplates", g)
    \/ BeginSeed("seedInstances", g) \/ BeginClear("clearInstances", g)

\* The page of an administrator; other pages show one of the panels.
AdminToolsTargeted ==
    \/ MembersTools \/ GamesTools \/ AdminStudiosTools
    \/ \E g \in Game : PlayersTools(g) \/ DashboardTools(g) \/ NFTManagementTools(g)
TriolithAdminPage == BeginClear("clearSandbox", "real") \/ BeginClear("reset", "real")

SandboxNext ==
    \/ People
    \/ \E s \in Slot : Look(s) \/ Execute(s) \/ Stop(s)
    \/ AdminToolsTargeted
    \/ TriolithAdminPage

SandboxSpec == SandboxInit /\ [][SandboxNext]_sandboxVars

-----------------------------------------------------------------------------
(* Properties.                                                             *)

SandboxTypeOK ==
    /\ db.users \subseteq Account /\ db.members \subseteq Account
    /\ db.games \subseteq Game /\ db.players \subseteq Player
    /\ db.templates \subseteq Template /\ Instances(db) \subseteq NFTInstance
    /\ db.marked \subseteq Instances(db)
    /\ Intact(db)

\* What the seeds made or what has the address of a seeded member, and what
\* hangs on it.
Seedlike(d) == Plus(d) \cup {"seedPlayer"}
OfSeeds(d, p) == p[1] \in Seedlike(d) \/ p[2] = "seeded"
SeededTemplate(t) == t.seeded \/ t.game = "seeded"
SeededInstance(d, i) ==
    i.by = "seeds" \/ SeededTemplate(i.template) \/ OfSeeds(d, d.owner[i])

\* Whatever tools and people do at the same time, and wherever a tool stops, a
\* clear takes away only what seeds made, what belongs to somebody with the
\* address of a seeded member, and what hangs on these; the owner stays a
\* member, and nobody's account goes who is one.  (The full reset is for
\* everything; the clears of studios and of the sandbox are so for a studio that
\* is named like a seeded one or where somebody has the address of a seeded
\* owner.)
ClearsSpareOthers ==
    [][\/ tool["clear"].kind = "reset"
       \/ /\ tool["clear"].kind \in {"clearStudios", "clearSandbox"}
          /\ db.lookalike \/ db.dotOwner # {}
       \/ /\ db.studio => db'.studio
          /\ db.users \ db'.users \subseteq Seedlike(db) \ db.members
          /\ db.members \ db'.members \subseteq Plus(db) \ {"owner"}
          /\ db.games \ db'.games \subseteq {"seeded"}
          /\ \A p \in (db.players \ db'.players) \cup (db.wallets \ db'.wallets) :
                OfSeeds(db, p)
          /\ \A t \in db.templates \ db'.templates : SeededTemplate(t)
          /\ \A i \in Instances(db) \ Instances(db') : SeededInstance(db, i)
          /\ \A i \in db.listings \ db'.listings : SeededInstance(db, i)
          /\ \A e \in db.events \ db'.events : e.seeded \/ e.game = "seeded"]_sandboxVars
=============================================================================
