# Verification of wallet-with-taxes

TLA+ modules of the platform's backend, its contracts and the stateful parts
of its two frontends, the TLC configurations that check them, and TLAPS
proofs about them. Paths are relative to the repository; `PROJECT.json` maps
every definition to the lines it models.

Contents: [the system](#the-system), [modules](#modules),
[runs](#runs), [disagreements](#where-code-and-documentation-disagree),
[proofs](#proofs), [not modelled](#what-is-not-modelled), [plan](#plan).

## The system

A NestJS backend (`src/backend`) keeps custodial game wallets, NFTs and a tax
history in PostgreSQL, serves players, studio members and administrators over
HTTP, and follows the chain the contracts (`src/contracts`) run on. A studio
frontend and a player portal (`src/frontend`) run in browsers. One or more
server processes share the database. Inside a process handlers interleave at
every `await`; between processes they interleave at every statement. Only some
handlers use a transaction, and of these only some lock what they read.

### Inventory

| Component | State | Operations | What is hard | What makes it correct |
|---|---|---|---|---|
| Game wallets (`game-wallet-admin.service.ts`, `player-wallet-operations.service.ts`, `safe-math.ts`) | `game_wallets`, `ledger_entries`, `aml_flags`, row locks | deposit, withdraw, player withdraw, transfer, player transfer | unlocked read-modify-write beside locked transfers, retries under one idempotency key, key suffixes that collide, rounding | no negative row, a key applied once, a success means money moved, transfers exact |
| Deposit intents (same services) | `wallet_deposit_intents`, wallets, ledger | create, confirm | a slow RPC call between the check and the credit, expiry, one transaction that fits two intents, a hash in other letters | a credit of what the intent asked and the chain paid, a second only for an intent's twin; final statuses |
| NFT marketplace (`marketplace.service.ts`) | `marketplace_listings`, `nft_instances`, wallets, ledger | list, cancel, purchase | locks in purchase only, mutual purchases, retries | paid exactly, by whoever is told so, when the seller has the NFT |
| NFT inventory (`nft-inventory.service.ts`) | `nft_instances`, `nft_templates` | templates, mint, update, gift | whole-row saves of old copies | an NFT leaves only an owner who parts with it |
| NFT shop (`nft-shop.service.ts`) | templates, instances, wallets, ledger | purchase | unlocked mint count, partial failure, retry after the NFT moved on | charge and delivery together, an answer backed by a purchase, the count is backed |
| Token shop listener (`tokenshop-listener.service.ts`) | `tokenshop_events`, `tax_event`, sync cursor, in-memory flags | poll, WebSocket handler, reindex, reset, shutdown | crash in mid-range, lagging replica, two writers of one cursor | rows once, nothing skipped, every trade taxed |
| Suspension cache (`suspension-cache.service.ts`, `jwt.strategy.ts`) | user flag, a Map per process, Redis that is never connected | validate, suspend, reinstate, anonymise | a fill that races an invalidation, other processes | wrong answers are short-lived |
| Users, KYC, retention (`users.service.ts`, `kyc.service.ts`, `data-retention.service.ts`) | `users`, tokens | signup, two logins, link a wallet, KYC and its webhook, suspend, delete, nightly job | a saved entity undoes what changed in between, a criterion TypeORM leaves out | a suspension holds, who may write erased data again, idle accounts go |
| Studio members (`studio-member.service.ts`, `studios.service.ts`) | `studio_members` | invite, update, delete, promote | checks and writes far apart, `save()` of a deleted row | an owner per studio, one membership per user, studios separate |
| Studio routes (`platform.controller.ts`, `platform.service.ts`) | games and what is in them, tokens | create a game, stock it, play | rights are those of a token signed up to a day ago | a studio's games are changed on recent authority |
| Player wallet proofs (`player-wallet-auth.service.ts`) | `player_nonces` | issue, verify | find, check and delete are separate | a signed nonce passes once |
| Provisioning and economic events (`player-wallet-identity.service.ts`, `economics.service.ts`) | identities, players, wallets, event log | find or create, log | check-then-insert, purges in between | one player per wallet and game, no event twice |
| Administration (`admin.service.ts`) | users, studios, configuration, audit log; the page of each administrator | suspend, grant or revoke admin, delete, purge | a purge beside people who play, administrators who revoke each other, buttons that ask for the opposite of an old copy, two other writers of their rows | a purge fails only for a race or a deadlock and then changes nothing; the last in office goes in known ways only |
| Developer tools (`admin-dev.service.ts`) | every table | seed, clear, reset, switch session | statements without a transaction, rows found by their names | a clear spares what is not seeded |
| Tax events and cost basis (`tax.service.ts`, `exchange-rate.service.ts`) | `tax_event`, `tax_cost_basis`, projection state | log, project, report, export | unlocked projection, order of storing against order of time | the basis is what its events add up to, reports agree |
| Chain indexer (`chain-indexer.service.ts`) | a provider, a timer | connect, reconnect, store legs | one timer that six handlers set and clear | a lost connection is opened again |
| Contracts: TRI, TokenShop, Marketplace, FeeDistributor, SAFU, GenesisWallet | on-chain balances | buy, sell, list, distribute, upgrade | rounding in two units, partial sales, replaced proposals | escrow covers listings, no profit by trading in a circle, upgrades were announced |
| Studio frontend (`SessionContext.tsx`, `RouteGuards.tsx`, login pages, switcher) | cookie, React state, `sessionStorage`, page | log in, select, restore, log out, switch | four copies that change in separate steps, guards that redirect to each other, late answers | the copies are of one session, redirects end, owners get activated |
| Player portal (`WalletContext.jsx`, `Trade.jsx`, `Portfolio.jsx`, `useApi.js`) | account, signer, trades under way, shown history | connect, trade, refresh | the account changes under a handler, answers overtake each other | a trade is its sender's, pages catch up |
| AML, reconciliation, key management, queries | flags, reports | flag, compare, encrypt, read | little | gates before payouts |

### How components interact

Wallet, intent, marketplace and shop handlers share the rows of
`game_wallets` and `ledger_entries`, their row locks and the unique indexes;
that is `GameWalletRows`. Marketplace, shop and inventory share
`nft_instances`. The listener and the chain indexer both write the tax table
through `TaxService.logEvent`, and with it the cost basis. Administration,
logins, KYC and the retention job write one user row and only one of them tells
the suspension cache, of its own process. Studio routes trust the token that a
login signed from the members table earlier. Purges and developer tools delete
what all the others write. The browser keeps a copy of the session it was
answered with; the portal trades with the contract itself and learns of it from
the listener's table.

## Modules

| Module | What it is | Extends | Checked in |
|---|---|---|---|
| `GameWalletRows` | wallet rows, ledger rows, row locks, unique keys, the arithmetic of `safe-math.ts` | | through the next four |
| `WalletLedger` | deposit, withdrawals, both transfers | `GameWalletRows` | `MCWalletLedger` |
| `DepositIntents` | intents and their confirmation | `GameWalletRows` | `MCDepositIntents` |
| `NftMarket` | listing, cancelling, buying, updating, giving | `GameWalletRows` | `MCNftMarket` |
| `NftShop` | buying from the shop, minting | `GameWalletRows` | `MCNftShop` |
| `LedgerBook` | abstract: atomic earn, spend and pay, never beyond the balance, each id and each key once, posted as moved | | instantiated by wallets, intents, shop |
| `TokenShopListener` | polling sync, WebSocket handlers, reindex, reset, crash | | `MCTokenShopListener` |
| `PlayerPortal` | a tab of the portal: wallet connection, trades, histories | | `MCTokenShopListener` |
| `SuspensionCache` | user flag, per-process cache, requests and administrators' calls | | `MCAccounts` |
| `Accounts` | the user row and everybody who writes it | `SuspensionCache` | `MCAccounts` |
| `StudioMembers` | members table and its four handlers | | `MCStudioMembers` |
| `StudioAccess` | tokens, studios, games and the routes that change them | `StudioMembers` | `MCStudioMembers` |
| `StudioData` | nonces, identities, players, wallets, events; purges; the locks of confirmations and transfers | | `MCStudioData` |
| `Sandbox` | the developer tools beside people who use the database | | `MCStudioData` |
| `TaxReports` | cost basis, summary, K4 rows and the export's gate as operators | | `MCTaxHistory` |
| `ChainIndexer` | the indexer's connection and its timer | | `MCTaxHistory` |
| `TaxHistory` | how logs become tax events and a cost basis | both of these | `MCTaxHistory` |
| `TriToken`, `TokenShopContract`, `MarketplaceContract`, `GenesisWallets` | one contract each, with the items and the fee receivers of the marketplace | `TriToken` | `MCContracts` |
| `Contracts` | their composition over one token | all four | `MCContracts` |
| `WebSession` | a tab of the studio frontend and the endpoints of its session | | `MCWebSession` |
| `AdminDesk` | the pages of several administrators, the handlers of `admin.service.ts` they call, and the two others that write administrators' rows | `WebSession` (its constants) | `MCWebSession` |
| `GameWalletRowsProofs`, `WalletLedgerProofs`, `DepositIntentsProofs`, `NftMarketProofs`, `NftShopProofs`, `StudioMembersProofs` | theorems and lemmas | their modules | TLAPS |
| `AccountsProofs` | the same for everything about accounts | `Accounts`, `StudioData`, `Sandbox`, `AdminDesk` | TLAPS |
| `ChainProofs` | the same for the chain and who follows it | `Contracts`, `TokenShopListener`, `PlayerPortal`, `TaxHistory` | TLAPS |

Where two modules share a run without sharing variables (`StudioData` and
`Sandbox`; `TokenShopListener` and `PlayerPortal`; `WebSession` and `AdminDesk`) the
`MC` module composes them as two worlds and a behaviour belongs to one of them: a
production database has no developer tools; of the listener the portal needs only that
trades are stored in the end, which is `EveryTradeStored` of the other world; and of an
administrator's session his page needs only whether there is one.

### How handlers become actions

A request is an element of `Request` with a program counter `pc[r]`, an operation
`op[r]`, what it has in memory (`snap`, `seen`, `copy`, `task`) and its `reply`. It
is cut at every await that reads or writes the database, so anybody may run in
between. The cuts that matter:

- `ReadWallet`, `DiffWallet`, `CommitSingle`: a deposit or withdrawal reads
  the wallet, and `save()` selects it again and writes only the columns that
  differ from what it selected. `stale[r]` remembers whether the third column
  will be written too.
- `LockFrom`, `LockTo`, `CommitTransfer`: `SELECT ... FOR UPDATE` waits until
  the row is free and reads it; the locks last until the answer.
- A write and its COMMIT are one step. Until the COMMIT nobody sees the
  write, and whoever needs its row waits for the COMMIT in any case. A lock that
  is waited for is a guard, so a deadlock is a cycle of guards, broken by
  `DeadlockVictim`, PostgreSQL's detector (external).
- A unique index is a guard on the insert and an alternative action
  (`DuplicateKey`, `TxDuplicate`, `KeyDuplicate`, `PurchaseDuplicate`,
  `DuplicateMember`) that does what the code's `catch` does.
- A purge is one transaction of many statements: `purge` records what it has deleted,
  others go on seeing it (READ COMMITTED), and an insert that refers to it waits.
  The developer tools have no transaction: every statement is a step that lasts.
- A lost connection or a crash (`ConnectionLost`, `Fail`, `Crash`) may stop a
  handler at any await; its transaction is rolled back.
- In the browser a call and its answer are two steps, and what React renders at once
  is part of the step; a redirect is a step (`Render`), so that loops show.
- A contract's transaction either does all its steps or reverts: one action.

Correspondence per module (code symbol: actions).

`WalletLedger` - `playerWithdrawFromGameWallet`: `PlayerGate`,
`PlayerRefused`, then as the next; `depositToGameWallet`,
`withdrawFromGameWallet`: `ReplayFound`, `ReadWallet`, `ReadInsufficient`,
`DiffWallet`, `CommitSingle`; `transferBetweenPlayersInGame`,
`playerTransferBetweenPlayers`: `SelfTransfer`, `ReplayFound`,
`ReplayInconsistent`, `BeginTransfer`, `BeginInsufficient`, `LockFrom`, `LockTo`,
`CommitTransfer`, `TransferInsufficient`, `DuplicateKey`.

`DepositIntents` - `createWalletDepositIntent`: `CreateIntent`;
`confirmWalletDepositIntent`: `NotFound`, `Replayed`, `NotPending`, `Expire`,
`LockIntent`, `Verify`, `Reject`, `LockWallet`, `CommitDeposit`,
`TxDuplicate`, `KeyDuplicate`; `verifyNativeDepositTransaction`: `PaidOnChain`.
The clock is one event per intent, `TimePasses`, and the chain is `Mine`.

`NftMarket` - `createNFTListing`: `FindAsset`, `AlreadyListed`,
`FindNoListing`, `InsertListing`; `cancelNFTListing`: `FindListing`,
`CancelRefused`, `SaveCancelled`; `purchaseNFTListing`: `LockListing`,
`PurchaseRefused`, `LockBuyer`, `BuyerInsufficient`, `CommitPurchase`,
`ListingInvalid`; `updateNFTInstance`: `FindAsset`, `SaveUpdate`;
`playerTransferNFT`: `FindAsset`, `GiveToSelf`, `SaveGift`.

`NftShop` - `purchaseNFTFromShop`: `ReadTemplate`, `ReadSoldOut`,
`LookUpPurchase`, `PurchaseReplayed`, `PurchaseInsufficient`, `LockWallet`,
`CommitPurchase`, `PurchaseDuplicate`; `mintNFTToPlayer`: `ReadTemplate`,
`MintNft`, `MintCounted`; `playerTransferNFT`: `GiveAway`.

`TokenShopListener` - `syncOnce`: `StartSync` to `SaveSyncCursor` and `EndSync`;
`persistParsedEvent`: `LookUp`, `InsertShop`, `LogTax`, `Duplicate`;
`handleWebSocketEvent`: `Deliver` and the same, then `ReadCursor`,
`SaveCursor`; `reindexFromGenesis`: `Reindex`; `onModuleDestroy` and
`onModuleInit`: `Crash`.

`PlayerPortal` - `connect` and the reconnection: `Connect`, `GetAccounts`, `GetSigner`,
`SetWallet`, `ConnectFails`; `handleAccountsChanged`, `disconnect`: `SwitchAccount`,
`Disconnect`; `handleTrade`: `Press`, `Send`, `Confirmed`, `LogEvent`, `TradeFails`;
`useApiData`: `PathChanges`, `Refresh`, `Serve`, `Arrive`, `RequestFails`. The chain and the
listener are `Confirm` and `Store`.

`SuspensionCache` - `validate`: `Receive`, `Hit`, `Miss`, `ReadUser`,
`Store`; `setUserSuspended` and the two erasures: `SetUserSuspended`,
`Invalidate`, `Anonymize`; expiry: `Tick`.

`Accounts` - `signup`: `SignupFind`, `SignupInsert`; `login`: `LoginRead`,
`LoginFinish`; `loginByWallet`: `WalletSignup`; `linkWallet`: `LinkRead`, `LinkSave`;
`updateTin`, `initiateKyc`, `selectStudio`: what follows `Answers`; `handleWebhook`:
`KycWebhook`; `setUserSuspended`, `deleteUser`: `Suspends`, `DeleteUser`;
`runRetentionJob`: `JobFind`, `JobDecide`.

`StudioMembers` - `createMember`: `FindActor`, `NoActor`, `CheckExisting`, `InsertMember`,
`DuplicateMember`; `updateMember`, `deleteMember`: `FindActor`, `FindTarget`,
`LoadActor`, `LoadTarget`, `CountOwners`, `SelectRow`, `UpdateRow`,
`InsertAgain`, `Remove`; `promoteToOwner`: `LoadOwner`, `LoadTarget`,
`SelectRow`, `UpdateRow`. `StudioAccess` adds the login and the select of a studio, the
suspension of a studio, the creation of games and the routes on a game, one step each. `InStudio`
is the comparison of the game's studio with the token's as the routes for templates and players
make it; the mints and the game wallet make it in a query, which leaves a studio that is undefined
out, so `Passes` lets a token without a studio (`BaseLogin`) through to every game.

`StudioData` - `issueNonce` and `verifyWalletProof`: `IssueNonce`, `NonceExpires`, `CleanUp`,
`FindNonce`, `DeleteNonce`; find-or-create: `FindGame` to `InsertWallet`; `logEvent`:
`FindEvent`, `InsertEvent`; `purgeGame`, `purgeStudio`: `BeginPurge`, `FindWallets`,
`DeleteWallet`, `Delete`, `CommitPurge`; `confirmWalletDepositIntent` and the transfers, as far as
they lock rows: `BeginPayment`, `LockRow`, `EndPayment`; PostgreSQL's detector: `Abort`. `Sandbox` - each seed and clear is a list of statements that `tool` works off.

`TaxHistory` - `logEvent`: the price, the look-up, the insert and the projection of a
leg (`Value` to `MarkProjectionHealthy`); `TaxReports` - `getSummary`, the K4 rows, the export gate, over the set of a
user's events, each with its place in time; `ChainIndexer` -
`connect`, `scheduleReconnect`, the handlers of errors and closes, `onModuleDestroy`.

`WebSession` - login pages, `selectStudio`, `bootstrapSession`, `logout`, `handleSwitch`,
`handleRestore`: a call and an answer each (`CallAnswers`); guards: `Render`; `CountEffect`
and the activation of the owner are effects of a rendering.

`AdminDesk` - `TriolithAdminPage`: `ToggleUserAdmin`, `ToggleUserSuspended`, `ToggleStatus`,
`DeleteRow`, `Unfold`, whose request is an `Errand`; loads: `Serve`, `Arrive`, `FetchFails`;
`setUserAdmin`, `setUserSuspended`, the statuses, the fee and the deletions: `LookUp`,
`Refuse`, `Write`, `TaskFails`, `Done`; sessions: `SignOn`, `SignOff`; `linkWallet`:
`WalletRead`, `WalletSave`; `anonymizeUser` of the nightly job: `AnonymizeUser`.

### Abstractions to know about

- Money is an integer in units of 10^-8 (the column's scale); `safe-math.ts`
  computes in 10^-6, so a balance moves by the rounded amount while the ledger
  row keeps the amount itself. Both are modelled.
- `by` and `side` of a ledger row are history; the table has no such columns. So are
  `since` in a token of `StudioAccess`, `before` in `StudioData`, `pendingSince` in
  `GenesisWallets`, `unsettled` in `TaxHistory`, `stale` in `WebSession`, and `saw`
  and `been` in `AdminDesk`: they only say what a property is about.
- One request is one handler run; a retry by the client is another request with
  the same operation. In `SuspensionCache` and `StudioMembers` requests are slots
  that are used again.
- The Redis branches of the suspension cache are dead code: `lazyConnect` with
  every command behind `status === "ready"` never connects
  (`suspension-cache.service.ts:33`). Only the in-process Map has actions. Users
  do not influence each other, so there is one.
- In `StudioMembers`, `rights` stands for role, permission mask and game access;
  what matters is whether the member may manage others. A studio and its
  founder are created in one transaction at signup, and are the initial state.
- In `StudioAccess` a route is one step, because what the services do concurrently is in
  their own modules; a token ages in parts of a day.
- In `Accounts` an account is followed through years: `YearsPass` is a step of its own, taken
  when nothing that lasts seconds is under way. The administrator's flag is in `AdminDesk`,
  where `Due` are the accounts the job takes for idle.
- In `AdminDesk` a purge, statement by statement in `StudioData`, is one step, and of the two
  copies a page loads a moment apart the second is asked for when the first is there.
- In `MarketplaceContract` a sum is the number of elements of a set of units (`Units`), which
  says the same as adding up and can be reasoned about without induction.
- In `StudioData` and `Sandbox` a row is named by what made it. Of tables that other
  modules write, only whether they hold rows is kept; the rows that a payment locks are a
  player's wallets one by one and the intents together. In `DepositIntents` a hash is a spelling, and
  `TxOf` says which transaction it is of.
- In `Sandbox` whether the studio's name or somebody's address is like the seeds' is chosen at first,
  for the tools look for nothing else.
- In `TaxHistory` amounts and prices are small integers chosen so that averages divide;
  the code's decimals would round.
- In `WebSession` the members and games of a studio are fixed, and what a page shows is
  left out, but for the list of games that decides whether the active game is given up.
- In `PlayerPortal` a quote, a balance and the player's token are left out: none of the
  requests that the properties are about needs them.

## Runs

| Run | Module | Shows |
|---|---|---|
| `wallet_mixed` | `MCWalletLedger` | Three requests of every kind on two wallets, retries under one key and colliding keys included: no negative row (`NonNegative`), no false success (`SuccessIsApplied`), transfers move exactly their amount whatever unlocked saves run beside them (`TransferMovesItsAmount`). |
| `wallet_transfers` | `MCWalletLedger` | Locking operations only, in a ring: every interleaving implements `LedgerBook` (`TransfersImplementBook`) and every request is answered (`EveryRequestAnswered`). |
| `deposit_confirm` | `MCDepositIntents` | Three confirmations of two intents one transaction fits, its hash in two spellings: `RecreditsNeedTwins`, `SuccessIsConfirmed`, `ConfirmationsImplementBook`. |
| `market_mixed` | `MCNftMarket` | Three requests of every kind: `BuyersHavePaid`, `SalesAreExact`, `EveryRequestAnswered`. |
| `shop_mixed` | `MCNftShop` | Purchases, mints and gifts: `ChargedIffDelivered`, `CountIsBacked`, `PurchasesImplementBook`. |
| `tokenshop_sync` | `MCTokenShopListener` | Polling alone, in and outside production, and handlers beside the sync, with two failures: `NothingSkipped`, `EveryTradeStored` (both for polling). In a tab of the portal: `EventsNameTheSender`, `PagesCatchUp`. |
| `members_mixed` | `MCStudioMembers` | Members managed by two requests at a time, and the routes a token opens: `AtLeastOneOwner`, `StudiosAreSeparate`, `AuthorityWasRecent`. |
| `accounts` | `MCAccounts` | One account over its life: `WrongAnswersAreRecent`, `SuspensionsHold`, `ErasuresHold`, `IdleAccountsAreErased`. |
| `studio_data` | `MCStudioData` | Two requests against a purge, statement by statement, and two transactions that lock rows against it: `NoncesAreOneTime`, `SessionsAgree`, `RetriesLogOnce`, `GamePurgesFailByRacesOnly`. Every developer tool beside people, some with the seeds' names and addresses: `ClearsSpareOthers`. |
| `tax_history` | `MCTaxHistory` | Four logs over the listener and the indexer: `SettledBasisIsExact`, `ReportsAgree`, `Reconnects`. |
| `contracts` | `MCContracts` | Four transactions in any order: `EscrowCoversListings`, `TradesDoNotProfit`, `UpgradesWereAnnounced`. |
| `browser` | `MCWebSession` | A tab with late answers, a fault and an expiring cookie: `SessionsFitTogether`, `RedirectsEnd`, `OwnersGetActivated`. Administrators who act on one another and on studios from old pages, and `linkWallet` and the retention job on the same rows: `AnAdminIsLeft`. |

Every property has a mutant in `PROJECT.json`: a change of one mapped
definition, of the kind a bug in that code would make, under which TLC finds the
property violated. The type invariants are stated in the modules and, where listed
below, proved.

Several properties say exactly how far the code goes, because it does not go all the way.
`SettledBasisIsExact` and `ReportsAgree` hold where updates of one basis do not meet, and the
second where events were stored in the order of their times, disposals are covered and nothing was
sold at the price 0; the
gate of the export counts in twentieths, so with twenty events it lets one row without a value
through, and `ReportsAgree` says so;
`SuspensionsHold` names the two ways beside an administrator in which a suspension ends;
`NoncesAreOneTime` and `RetriesLogOnce` allow what overlapping requests do;
`RecreditsNeedTwins` lets a transaction be credited again under another spelling;
`ErasuresHold` names who may write erased data again;
`AuthorityWasRecent` gives a token its day, and a token without a studio every game to play;
`GamePurgesFailByRacesOnly` allows a deadlock;
`ClearsSpareOthers` counts as seeds' what has their addresses, and exempts the clears of
studios from sparing one that is taken for a seeded one; `SessionsFitTogether` stops where an answer
for a session that was gone is applied; `AnAdminIsLeft` names the ways in which the last
administrator goes. What lies beyond is under
[disagreements](#where-code-and-documentation-disagree).

### Bounds

- **Three requests** in the wallet, intent, market and shop runs. Each lost
  update, stale copy and replay needs two; the third is a retry, or the one
  that reads what the other two left. Every handler occurs, and the client's
  choices (wallet, amount, key) are listed in the `MC` module.
- **Amounts** 100, 149, 150 and 200 units against opening balances of 200: two of
  them never fit together, and 149 and 150 are the two sides of a rounding to
  100. `AmlFlagged` is {200} and `KycBlocked` {w2}, so both gates open and close.
- **Wallets**: two where any two suffice; three in a ring in `wallet_transfers`,
  so that deadlock cycles of length two and three occur.
- **Intents** `a` and `b` share address and amount, `t1` fits both and has two spellings, and
  `t3` is reverted. The 32-bit address makes the shared address possible.
- **Market**: two NFTs, two offers to start with, two more listing ids. **Shop**:
  template `t` has a cap of 2 and `u` none, and a player can pay for one of each
  but not for both.
- **Token shop**: a sale and a purchase in two blocks, which the sync finds in one range or
  in two, and `MaxFailures` = 2: stale answers, errors or crashes. **Portal**: two accounts,
  two trades, two disturbances (`MaxSwitches`), two requests under way at a time
  (`MaxAsked`, which is enough for one to overtake the other).
- **Members**: two studios, three users, four ids, two request slots used again and again.
  While a token is out or a studio suspended, and once a game was changed, members are
  managed by one request at a time, with the routes between the requests. `Life` = 2: a token that was signed before and one signed after a change.
- **Accounts**: one server instance and one call of each kind at a time, any number of
  times; TTL 2 and Lag 1. More instances, calls and any lifetimes are covered by the proofs.
- **Studio data**: two requests, two nonces, one transaction hash; two transactions with two
  locks each, so that circles of two and of three with the purge occur, in behaviours without
  nonces and instances, with which they share no row. **Sandbox**: one user,
  template and instance of each origin and a colleague of the owner, one seed and one clear at a
  time, `MaxRows` = 3 rows beside those of `Init`, which lets a listing of a minted instance exist.
  The studio is like nothing of the seeds, or has, with clears only, a colleague whose address is
  like a seeded owner's and a seeded member's; any combination, a name and the owner's own
  address included, is in the proof. The purge of a studio is run against the rows the
  requests make, that of a game also against instances and listings.
- **Tax**: a minting, a purchase, a transfer between players and a sale, with all
  interleavings of their legs, and one lost connection or crash. Prices are positive or
  unknown; the price 0, and any number of logs, is in the proof.
- **Contracts**: two players, one item, two prices (one whose fee reaches the cap), two
  pairs of rates, fees of 0 and 3 %, four transactions: list, buy a part, cancel, buy again;
  and for a wallet create, propose, propose again, upgrade, with a delay of two ticks.
- **Browser**: an administrator with a studio of his own, an owner of a studio shared with a
  member who has one of his own; four acts of the user, each while at most two calls are
  under way, and one fault. `RedirectsEnd` starts from every page, so that no loop is out of reach. **Administrators**: two of three users, one
  studio with one game, three clicks, logins or failures (`MaxActs`), two requests at a
  time: two revoke each other, or one is revoked, or erased, with a request of his own under way.
  `linkWallet` and the job run in behaviours of their own (`world` of `MCWebSession`), one call of
  `linkWallet` at a time beside one button for a user, with one account that is `Due`. `AnAdminIsLeft` is also
  proved, for any number of all of them and all at once.

Symmetry is used only in runs without liveness properties, over requests and players,
which no definition tells apart. `CHECK_DEADLOCK` is off where the system really may stop:
`accounts` and `browser` (all bounded events are spent), `contracts` (the last transaction),
`studio_data` (the game is purged and every request answered) and `tax_history` (every log
handled and the service shut down). Elsewhere it is on; where each request runs once, an
explicit `AllAnswered` step stutters when all have been answered, so that a handler that is
stuck for good is still reported as a deadlock.

### Fairness

- `WF_vars(Handle(r))` for each request of `WalletLedger` and `NftMarket`: once a handler can
  go on it eventually does, because the event loop resumes ready callbacks, PostgreSQL
  answers, grants free locks and runs its deadlock detector. A client need not send
  anything, and failures are never forced to happen.
- `TokenShopListener`: the polling timer is fair (`setInterval` fires again and again while
  the service is up) and so is a sync that can go on; new blocks, WebSocket deliveries,
  reindexing and failures are not. `EveryTradeStored` therefore rests on polling alone.
- `PlayerPortal`: the interval fires, requests that are served and answers that
  are out arrive, and a confirmed trade is stored (`EveryTradeStored`). Nothing the player
  does is fair, nor is the failure of a request, which is bounded.
- `Accounts`: the job of the night runs and finishes (`JobFind`, `JobDecide`).
- `ChainIndexer`: timers fire, awaited calls return, and a node that is up answers.
- `WebSession`: React renders, a document that is left is left, and some answer arrives.

## Where code and documentation disagree

Met while modelling. The models follow the code; what follows is what the properties above
therefore do not claim.

**Wallets, NFTs, token shop**

1. `depositToGameWallet` and both withdrawals compute the new balance from a copy read before
   the transaction, without a lock (`game-wallet-admin.service.ts:341`), and two of them lose
   an update; `save()` may even write the balance of one request and the total of another.
   `docs/archive/legacy/IMPLEMENTATION_SUMMARY.md:162` says "No risk of race conditions or
   partial writes". The refinement of `LedgerBook` is therefore stated for transfers.
2. `updateNFTInstance` and `playerTransferNFT` save a whole NFT row read earlier, owner
   included (`nft-inventory.service.ts:264`), which may take an NFT back from its buyer.
   `docs/DEMO_CHECKLIST.md:185-186` calls the purchase flow "transactional and lock-based".
   A cancellation decided on an old copy overwrites the status of a sold listing
   (`marketplace.service.ts:138`); one NFT can be listed twice (`:107`). Neither lets
   anybody buy without the seller having the NFT, which is `SalesAreExact`.
3. The mint cap can be exceeded by two purchases or mints that read the count at once
   (`nft-shop.service.ts:197`). A retry is answered with whatever instance of the template the
   player owns under the key, which may be one that somebody else bought under the same
   key and gave to him: he is told of a purchase and pays nothing (`:150-157`).
4. The shop row and the tax row of a trade are two writes without a transaction
   (`tokenshop-listener.service.ts:413`, `:440`), and the shop row decides whether the event
   counts as stored: a failure between them leaves the trade untaxed.
   `tokenshop-listener.service.spec.ts:117` says "stores both shop event and tax event
   atomically".
5. A WebSocket handler moves the cursor past events that are not stored
   (`tokenshop-listener.service.ts:204`); `TOKENSHOP_INTEGRATION_SPEC.md:197` asks for the
   opposite. A crash between clearing the tables and resetting the cursor, outside
   production, skips the cleared trades. `NothingSkipped` is checked for polling and for
   resets that are not interrupted.
6. The replay branches read through another connection while a transaction is open
   (`game-wallet-admin.service.ts:676`), so a full pool can block them.
7. A transaction hash is trimmed (`game-wallet-admin.service.ts:436`) and not brought into one
   letter case, which `isValidTxHash` (`:111-114`) and the chain do not care about and the unique
   index does: one transaction, spelled twice, confirms two intents that share its address
   and amount. `RecreditsNeedTwins` says that it takes both.

**Accounts, members, studios**

8. A fill of the suspension cache that races an invalidation caches the old answer
   (`jwt.strategy.ts:65`), and other processes are never told; the comments at
   `admin.service.ts:334-335` and `suspension-cache.service.ts:9-10` promise more. What holds
   is `WrongAnswersAreRecent`.
9. `linkWallet` saves the entity it loaded (`users.service.ts:411`) and undoes a suspension or
   an erasure that came in between. `data-retention.service.ts:145` erases the tax number, and
   `updateTin` (`users.service.ts:513-518`) and the KYC provider's webhook (`kyc.service.ts:133-138`)
   write it, and the verification, again without a look at the erasure: `ErasuresHold` says who may.
10. `data-retention.service.ts:110` has `lastLoginAt: undefined`, which TypeORM leaves out:
   every account created three years ago without recent tax events is anonymised, also one in
   daily use; the comment at `:106-107` says "never logged in". `selectStudio` renews a token
   without touching the date. `anonymizeUser` lifts a suspension and runs again every night.
11. `admin.service.ts:303` announces "always keep at least one": two administrators can revoke
    each other at once (`:303-315`), `deleteUser` does not look whether the last one goes, and
    a token outlives its owner's office by up to a day. The count includes administrators who
    are suspended or erased. `linkWallet` saves the flag as it was (`users.service.ts:402-411`), and
    the retention job anonymises administrators like anybody (`data-retention.service.ts:105-149`).
    The last administrator in office goes in no other way than these, which is `AnAdminIsLeft`.
    `deleteUser` keeps the tax number.
12. An update in flight can undo a promotion to owner (`studio-member.service.ts:296`); the
    founder is never written, which keeps `AtLeastOneOwner`. The same `save()` can insert a
    deleted member again, without a user, after which listing the members fails.
13. Role and studio of a request are those of its token for a day (`platform.controller.ts:42`),
    whatever became of the member; `createGameForUser` looks for a conflict with the literal
    slug only.
14. `assertGameBelongsToStudio` (`game-wallet-admin.service.ts:250-253`) asks for a game with the
    token's studio; a token signed without one (`users.service.ts:316-321`, a player's session)
    has `studioId` undefined, which TypeORM leaves out, so every user plays in every
    studio's games. `AuthorityWasRecent` says so.
15. `purgeStudio` deletes instances before listings (`admin.service.ts:639-655`), so the
    deletion of a studio with a listing always fails; the comment at `:639` claims the
    order is right. `GamePurgesFailByRacesOnly` is about games, whose purge has it right.
    Events and nonces have no foreign key and may outlive their game. A purge deletes wallets
    (`:804`) before intents (`:811`), and wallets in the order the table gives them, while a
    confirmation locks the intent first and transfers lock two wallets: they can deadlock, and
    PostgreSQL may abort either.
16. `ensureGamePlayer` for a user has no unique index: two first calls make two players.
    `economic_events` has none either.

**Developer tools**

17. The emails of `seedPlayers` have no "+", which is what `clearSeedPlayers` and
    `clearSandboxData` look for: seeded players are never cleared. `clearSeedStudios` takes
    any studio whose name begins like a seeded one (`lookalike` in `Sandbox`), and, whatever its
    name, one with a member whose address contains ".owner+" (`admin-dev.service.ts:849-851`,
    `dotOwner`). `clearSeedPlayers` and `clearSandboxData` take whoever has an address like
    "%+%@triolith.local" (`:764-766`, `plus`). `ClearsSpareOthers` is about the others.
    `clearSeedNftTemplates` and `-Instances` ignore listings and fail when there is one; so
    does the developer's `purgeStudio` (`admin-dev.service.ts:400` says "Delete all rows that
    depend on a studio").
18. `bootstrapSession` (`admin-dev.service.ts:505`) and `seedStudios` (`:815`) call `signup` without
    the GDPR consent it demands (`users.service.ts:148-150`) and fail for a new user.

**Tax**

19. Sales on the marketplace are announced as indexed, as `Sold` events
    (`chain-indexer.service.ts:11-13`, `:27`); `Marketplace.sol:73` declares `Purchased` instead, so
    none is. ethers v6 hands a listener the log under `.log`, so `transactionHash` is undefined and
    the unique index does not apply to the indexer's legs.
20. `updateCostBasis` reads, computes and saves without a lock (`tax.service.ts:390`) and skips an
    event that was overtaken (`:407`). A batch is stored as purchases and then sales, not by
    time; the reset clears tax events and not `tax_cost_basis`. A success after a
    failure marks the projection healthy although the failed event stays uncounted.
21. The check before the export and the export are two queries. The K4 rows of one year
    ignore earlier years, and fall back to USD when a rate is missing.
22. A sale can be so small that rounding and fee leave nothing (`TokenShop.sol:243-260` asks only
    for something before the fee). Its price is 0, which `logEvent` does not convert
    (`tax.service.ts:63`) and `updateCostBasis` skips (`:417`), while the summary of the events counts
    it as a sale (`:275`): the lifetime summary and that of the events differ from then on.

**Frontends**

23. `Login.tsx:69-70` sends a user of several studios to `/studios`, which is guarded by a
    session he has not got: he is sent back and cannot log in. `CreateStudio.tsx:68` passes
    the studio's name where the consent is expected.
24. Answers are applied to whatever session there is by then: a late activation after a
    logout, a late 401 of an earlier cookie, a dev switch interrupted by a reload, two
    logins at once. `stale` in `WebSession` marks them. A failed count of members hides the
    logout button and the activation.
25. After `accountsChanged` the portal shows the new account and signs with the old signer
    (`WalletContext.jsx:114`); a failed authentication leaves another account's token. The
    game wallet's balance is not asked for again. A withdrawal from the portfolio carries no
    idempotency key, so a retry withdraws twice. `useApi.js:49` applies answers in
    any order; the interval makes up for it (`PagesCatchUp`).


## Proofs

TLAPS proves the following for every value of the constants that satisfies the
modules' assumptions: any number of wallets, requests, amounts, keys, intents,
instances, lifetimes, studios, members, accounts, administrators, blocks and trades.
"Types" is the module's type invariant.

| Module | Theorem | States |
|---|---|---|
| `WalletLedgerProofs` | `TypeCorrect` | types |
| | `NeverNegative` | `[]NonNegative`, unlocked saves included |
| | `LocksProtectCopies` | copies under locks equal the rows |
| | `TransfersAreExact` | the action property `TransferMovesItsAmount` |
| | `KeysApplyOnce` | one ledger row per wallet and key |
| | `AnswersAreTrue` | `[]SuccessIsApplied` |
| | `TransfersRefineBook` | with `Operation \subseteq TransferOp`, the refinement of `LedgerBook` |
| | `NeverAtAStandstill` | `[]SomebodyCanGoOn`: whatever waits for rows, somebody can go on |
| `DepositIntentsProofs` | `IntentsMatchLedger`, `CreditsWerePaid` | a credit is of what its intent asked, and was paid on chain |
| | `SecondCreditsHaveTwins` | `[]RecreditsNeedTwins`: a second credit of one transaction is another intent's, under another spelling |
| | `StatusNeverChangesBack` | final statuses stay |
| | `SuccessesAreConfirmed` | `[]SuccessIsConfirmed` |
| | `ConfirmationsRefineBook` | the refinement of `LedgerBook` |
| | `ConfirmationsWaitInOrder` | `[]WaitsAreShort`: nobody waits for a lock at more than one remove |
| `NftMarketProofs` | `TypeCorrect` | types |
| | `BuyersPaid` | `[]BuyersHavePaid`: the buyer who is named paid, and no other charge was made for the listing |
| | `SalesMoveThePrice` | the action property `SalesAreExact` |
| | `NeverAtAStandstill` | `[]SomebodyCanGoOn`, with listings and wallets to wait for |
| `NftShopProofs` | `TypeCorrect` | types |
| | `ChargesAreDelivered`, `CountsAreBacked` | `[]ChargedIffDelivered`, `[]CountIsBacked` (a count is never above the copies there are; the cap is not claimed, item 3) |
| | `PurchasesRefineBook` | the refinement of `LedgerBook` |
| `ChainProofs` | `TypeCorrect`, `PollingSkipsNothing` | types of the listener, `[]NothingSkipped` |
| | `EventsAreTheSenders` | `[]EventsNameTheSender` of the portal |
| | `HistoriesAreTheAccounts` | `[]HistoriesOnlyLack`: under an account's name there are confirmed trades of that account only |
| | `CodeChangesWereAnnounced` | `UpgradesWereAnnounced`, whatever is traded beside the wallet |
| | `TradesNeverPay` | `TradesDoNotProfit`, for all fees and decimals, and of the rates those with selling not below buying, which `setRates` does not demand |
| | `EscrowsCover` | `[]EscrowCoversListings` |
| | `TaxTypeCorrect`, `SettledBasesAreExact` | types of the tax history, `[]SettledBasisIsExact` |
| | `ReportsTellOneStory` | `[]ReportsAgree`: tally, summaries and K4 rows, for any number of events, where updates did not meet, the orders of storing and of time agree, disposals are covered and no price is 0 |
| | `NoTimerIsLost` | `[]TimerFits`: the indexer's timer is set exactly while a closed connection waits to be opened |
| `AccountsProofs` | `TypeCorrect`, `WrongAnswersExpire` | types of the suspension cache, and the bound on wrong answers |
| | `AccountsAnswerAsTheCache` | the same bound, with everybody who writes the user row |
| | `SuspensionsEndInThreeWays`, `ErasuresLast` | `SuspensionsHold`, `ErasuresHold` |
| | `DataTypeCorrect` | types of the studio's data |
| | `NoncesWorkOnce`, `RetriesAddNothing` | `[]NoncesAreOneTime`, `[]RetriesLogOnce` |
| | `SessionsHaveOnePlayer` | `[]SessionsAgree` |
| | `GamePurgesAreInOrder` | `[]GamePurgesFailByRacesOnly` |
| | `SandboxTypeCorrect`, `ClearsTakeTheSeedsOnly` | no row refers to one that is gone; `ClearsSpareOthers` |
| | `TabTypeCorrect`, `SessionsFit` | types of a browser tab, `[]SessionsFitTogether` |
| | `RedirectsSettle` | `[]SecondRedirectSettles`: no guard sends back where a guard came from |
| | `OwnersAreNotForgotten` | `[]ActivationIsUnderWay`: a sole member who is to be activated always has a call under way that leads there |
| | `DeskTypeCorrect`, `LastAdminsGoByRaces` | types of the administrators' pages, `AnAdminIsLeft` |
| `StudioMembersProofs` | `TypeCorrect`, `StudiosKeepAnOwner`, `MembershipsAreUnique` | types, an owner per studio, one membership per user |
| | `MembersStayInTheirStudio` | `StudiosAreSeparate` |
| | `AccessIsMembers`, `AuthorityLastsALife` | with tokens and routes beside it every step is one of `StudioMembers`; `AuthorityWasRecent` |

`GameWalletRowsProofs` holds the lemmas that wallets, intents, market and shop share: what
rounding does to an amount that a balance covers, and what locking and unlocking a row
leaves, and that finitely many who all wait for one another have a circle among them.
`LockedCopiesAreFresh`, `KeyAppliedOnce`, `CreditMatchesIntent`, `CreditWasPaid`,
`StatusIsFinal` and `OneMembershipPerUser` are proved and in no run: the runs check
what follows from them. In no run are also `SomebodyCanGoOn`, `WaitsAreShort`, `TimerFits`,
`SecondRedirectSettles`, `ActivationIsUnderWay` and `HistoriesOnlyLack`: the runs check the
liveness that needs them (`EveryRequestAnswered`, `Reconnects`, `RedirectsEnd`,
`OwnersGetActivated`, `PagesCatchUp`).

### Inductive invariants

**Wallets and NFTs**

- **Wallets.** `TypeInv` adds to `TypeOK` that a request stands only where its kind of
  operation can stand. `SafeInv` adds that rows are non-negative with balances that are
  multiples of 100 units (`RowsSound`), that so is every copy (`CopiesSound`), and that a
  withdrawal past its check holds a copy that covered it (`CoveredCopies`). `NonNegative`
  alone is not inductive: a save writes a number computed from a copy, so the copy's
  soundness has to be carried along. Opening balances are multiples of 100 units because
  `safe-math.ts` produces no others; this is what makes a rounded amount fit whenever the
  amount did. `LockInv` says who holds which lock at which step, and that copies under
  locks equal the rows - although unlocked handlers write those rows' table, for
  PostgreSQL makes an UPDATE wait for the lock. `KeyAppliedOnce` needs that a running
  request has no ledger row yet (`Unposted`). `AnswersBacked` relates answers and ledger in
  both directions: a row carries a key of the operation it was written for, so a replay that
  finds a key finds its own operation.
- **Refinement of the book.** `balance` is the balance column, `posted` the ledger rows with
  the change each made, `paid` the client keys that have rows. A commit is one `Pay` (or
  `Earn`), everything else stutters. It needs fresh copies under the locks (the balance of
  that moment), `Unposted` (each id once) and the unique index (each key once). For
  `WalletLedger` it is proved for transfers only: with unlocked operations it is false
  (item 1 above).
- **Waiting.** Who holds a row is past its lock (`HoldersTransfer`, `LockedForPurchase`,
  `HoldersAreBusy`), so one who waits does so for a request under way. Requests are sent one by
  one, so only finitely many are under way (`FewSent`), and a chain of waits ends in one that
  waits for nobody or in a circle (`CircleOfWaits`); the detector breaks circles. A
  cancellation may stand before a circle without being part of it, which is why `CanGoOn` is
  claimed of somebody and not of everybody. A confirmation locks its intent before the wallet,
  and who holds a wallet waits for nothing more, so no circle arises and the claim is of everybody.
- **Intents.** `PosInv`: from `LockIntent` on the request holds the intent's lock, the intent
  is PENDING, and it is the requester's. `PayInv` adds that what was verified stays paid,
  that only a CONFIRMED intent has a transaction and that a hash, as it is spelled, names one intent,
  next to the invariants themselves. `AnswerInv` says what each answer leaves behind, and
  `HeldInv` does for the wallet's lock what `LockInv` does above.
- **NFT market.** `PosInv`: a purchase past `LockListing` holds the listing's lock and the
  listing is still for sale, and past `LockBuyer` its copy of the buyer is the row and covers
  the price; a cancellation looks at a listing that exists, whatever it says by now. `PayInv`
  adds that a name in the buyer's column belongs to an answered purchase with all its rows.
  A late cancellation overwrites the status of a sold listing but not its buyer, so the
  argument rests on that column and not on the status. That nobody else was charged for a listing
  needs `Uncharged`: while a listing has no buyer no row in the ledger is for it.
- **NFT shop.** `DeliveryInv` ties an NFT to the request that made it and a ledger row to an
  answered purchase. `CountInv` counts the makers of a template's NFTs: a request that has
  read the count has read no more than there are makers, and one that has minted has made one
  more, so the count it writes, lost updates and all, stays below the NFTs.

**Accounts and studios**

- **Suspension cache.** `StaleIsBounded`: a live entry that contradicts the row has remaining
  life + age of the change at most TTL + Lag; a request whose copy contradicts the row has
  held it at least as long as the change is old.
- **Accounts.** `StepsOfTheCache`: every step of `Accounts` is, for the flag and the caches, a
  step of `SuspensionCache` or a stutter, so the bound carries over. `AccountsInv`: a call
  that loaded the row loaded the user's own, and no year has passed since; the nightly job
  holds an account that is old; a login is no older than the account. Without the
  first, a late `save()` could name an erased user again for all the induction knows. Of what came
  before a suspension by erasure a session knows for as long as the cache's bound lets it.
- **Studio members.** `Holding` says what a request past a check knows of its target, and
  `FoundersStay` that no such request is about a founder, and that founders' rows stay as
  they were. That each studio has an owner then follows although the owner count
  (`CountOwners`) alone does not protect it. `SepInv`: whatever becomes of a row between check
  and write, an update of it, or an insert of the deleted row again, is of the studio the actor
  was seen in. `TokenInv`: the time since a user held an authority is at most the token's age, for tokens that
  name a studio.
- **Studio data.** `NonceInv`: a nonce in the table or in a handler was issued, and a handler
  that finds one after another passed with it overlaps that one. `EventInv`: an event is the
  work of a request that is answered, and a request that has found none is still to answer.
  `SessionInv`: there is one player of the wallet, whoever holds a player holds that one, and
  holders agree also after a purge. `PurgeInv`: what is left to delete is a tail of the order of
  statements, and a purge nobody touched finds no row that refers to what it deletes; the wallets
  its statement has found are all there are, so that none is left when it has deleted these. A
  payment that adds an entry to the ledger touches the purge, and one that only holds a row makes it
  wait, or is in a circle with it.
- **Developer tools.** `ToolInv`: the rows a tool has looked up are seeds', the instances it
  marked are theirs, and no row refers to a missing one. Between the look and the delete people
  may make more rows, but what they are named like is settled (`lookalike`, `dotOwner`, `plus`).
- **Browser.** `TabInv`: as long as no answer went astray, cookie, state and stored copy agree;
  a call for a member carries the cookie of the session there or will find a member or no
  session; a login under way is the only one, with no such call beside it; only a page that is
  being left has calls of a session that is gone. `SessionsFitTogether` speaks of the copies
  only, but each answer writes them from what its call took along. `SecondRedirectSettles` needs no
  invariant: it is proved for every state, also one in which the pieces do not fit. `ActInv` goes
  on from `TabInv`: a token names a studio of its user (`TokensFit`), as long as nothing failed a
  studio session has its cookie and so has every call about members (`LoggedIn`), and such a call
  ends only by an answer that does something (`OwnerAwaits`). The effects of a rendering ask again
  after each new document, but not where the count is known and is not one: there the login or
  selection that set the session has asked.
- **Administrators.** `DeskInv`: what a handler has checked stays true of its request: nobody
  revokes himself, and a revocation counted several. So the last flag goes by a revocation only
  if all but one of the counted lost theirs since. `BeenInv`: whoever has a token, or asked for
  something, was in office once, so an administrator who acts is himself in office or was put
  out of it. A `linkWallet` takes the last one away only with a copy in which its user was not
  yet in office, and the job only somebody who is `Due`.

**Chain**

- **Listener.** `PollInv`, for the time no other writer of the cursor exists: every trade up to
  the saved cursor is stored, a trade with a tax row has a shop row, and during a sync every
  trade of the range is stored or still in `todo`; a reset in mid-way has no tax rows.
- **Indexer.** `TimerFits` is inductive: of the handlers that close, probe, open and destroy,
  each leaves the timer as the state of the connection it leaves behind demands
  (`HandlersLeaveConnection`, `TimerNext`).
- **Portal.** `SenderInv`: the signer of a trade that runs is the sender of its transaction
  once it is sent; a transaction is sent once, and the event follows its confirmation.
  `EventsNameTheSender` alone is not inductive: the event is written several steps after
  the signature, from a copy, with changes of account in between. `AnswersInv`: what is stored
  is confirmed and what is confirmed was sent, so the rows an answer has read stay rows of
  its account; an answer for an earlier account is shown under that account's name.
- **Wallet contract.** `AnnouncedInv`: an upgrade that is pending becomes ready no earlier than
  the delay after it was proposed, also when it replaced another. The other contracts' calls
  leave the wallet as it is, and no call by itself changes its code but the upgrade.
- **Token shop.** `BalanceInv` keeps balances whole and the settings within what their setters
  check. The rest is arithmetic (`DivisionLoses`, `FeeLowers`): each of up to three divisions of
  a trade rounds to the shop.
- **Marketplace.** `EscrowInv`: every listing has an id that was given out and offers units of
  one item; per item, balances are whole, their units are as many as `totalSupply`, and the
  marketplace has at least as many as are offered. Sums are sizes of sets of units, so that a
  step adds a set to them or takes one away (`SumAdded`), and listing, buying and cancelling
  do it to the offers and to the escrow at once.
- **Tax history.** `TaxInv`: a basis that no update has spoiled (`Exact`) has one updater at
  most; without one it is the tally of the stored events, and with one the tally is its
  successor: what the updater has computed, or will compute, from the row as it is
  (`Counting`). To the induction belong also that the row's last id is below the updater's own,
  so that the event is not skipped as processed, and that whoever is to create the row finds
  none, so that a failure to create it means a key in `unsettled`. `SettledBasisIsExact` alone
  says nothing of the states between insert and save. The tally is a function of the event's
  id (`Tally`); that there is such a function, and that tallies of rows that agree up to an id
  agree there (`StepsRepeat`, `SameUpTo`), follow from the least number at which they would not.
- **Tax reports.** The tally runs by ids, the reports by the events' times, and what each step
  does is not the same: the tally keeps a holding in USD, the summary shares its quantity
  between the currencies, K4 keeps a holding for each. The summary and the K4 rows are therefore functions of an event's place in time
  (`SummaryUpTo`, `K4UpTo`), and one lemma, `TwoClocks`, compares any two such functions: what
  relates them at the start, and is kept by the step of each row, relates them when both
  clocks have passed every row, provided the clocks put the rows in the same order and nothing
  changes in between (`HoldsStill`). It gives that the basis is the summary in USD
  (`BasisIsSummary`) and that the K4 rows add up to the summary in SEK (`K4IsSummary`); of the
  average cost it uses only that it is a function of quantity and cost. Totals over the assets
  are then equal because the figures of each asset are (`TotalsSame`). `PricesOK` is the one
  more invariant that this needs: a row without a price in USD has none in SEK, from the fetch
  to the insert. With it the rows that lack a value are events without a price, of which the
  gate lets through one in twenty.

### Assumptions

Each module with constants names its assumption (`GameWalletAssumption`,
`WalletLedgerAssumption`, `DepositIntentsAssumption`, `NftMarketAssumption`,
`NftShopAssumption`, `SuspensionCacheAssumption`, `StudioMembersAssumption`,
`StudioAccessAssumption`, `StudioDataAssumption`, `SandboxAssumption`, `SessionAssumption`,
`DeskAssumption`, `TokenShopAssumption`, `PortalAssumption`, `TriTokenAssumption`,
`TokenShopContractAssumption`, `MarketplaceContractAssumption`, `GenesisWalletsAssumption`,
`ContractsAssumption`, `ChainIndexerAssumption`, `TaxHistoryAssumption`). They state
the types of the constants, that null values (`NoKey`, `Free`, `NoTx`, `NoOp`, `None`, ...) are
no values and that users are no studios, games or fees, and besides:

- opening balances are multiples of 100 units; prices and amounts are positive;
- the first listings of the marketplace are active and have no buyer;
- logs are in the order of their blocks;
- the tax service hears of four kinds of logs, and the price of a trade is not negative or unknown, and
  its amount is positive, as `TokenShop.sol` requires of what it sells and buys;
- users of the studio frontend and players of the contracts are finitely many, and no player
  has the address of the token shop or the marketplace;
- fees are at most 10 %, rates and decimals positive, and a split adds up to the whole, as the
  setters of the contracts demand.

TLC evaluates each on every run of its module. `TransfersRefineBook` assumes in
addition that clients ask for transfers only; `AnswersAreTrue` and `PollingSkipsNothing` have
their preconditions - one operation per key, polling alone - in the properties themselves.

### Only model-checked

- Liveness, because ENABLED and fairness are out of the prover's reach:
  `EveryRequestAnswered`, `EveryTradeStored`, `PagesCatchUp`, `IdleAccountsAreErased`,
  `Reconnects`, `RedirectsEnd`, `OwnersGetActivated`. What is proved of five of them is their
  safety part: somebody can always go on (`NeverAtAStandstill`, `ConfirmationsWaitInOrder`), a
  timer that would reconnect is never lost (`NoTimerIsLost`), redirects lead nowhere but to a
  page that stays (`RedirectsSettle`), what an owner waits for is under way
  (`OwnersAreNotForgotten`), and a history that is not yet complete has nothing too much
  (`HistoriesAreTheAccounts`). That who can go on does so, and is not overtaken for ever,
  is TLC's.

Every other property of a run is stated by a theorem. That the functions of `TaxReports` and
`Tally` exist and unfold is proved for these functions (the library's induction theorems take
an operator as a parameter, which the installed provers cannot instantiate); no module
declares a RECURSIVE operator.

## What is not modelled

- **Connection pool** (item 6): which request waits for which connection.
- **Lengths** of idempotency keys against their columns; formatting, messages, logging.
- Whether PostgreSQL accepts a `LEFT JOIN ... FOR UPDATE` is left open; the marketplace
  and intent queries are modelled as accepted.
- Creating an invited user: inserts of one row that nobody else names yet.
  `autoMigrateOrphanUser` (`users.service.ts:420`), which makes a user without a membership owner of a
  studio of his own or, if there is one that bears his address as its name, of that one.
- **Key management, reconciliation, read-only queries**: byte-level cryptography, and reads
  that change no state.
- **Template edits and the AML review**: a single row overwritten by the last caller.
- **Contents of pages**: forms, tables and their layout; quotes, balances and the list of
  transactions of the portal, beyond which account they belong to.
- A Redis that is connected: the code never connects it.
- The deep parts of library contracts (ERC-20, ERC-1155, access control): used as their
  documentation says, and marked external.

`PROJECT.json` gives the reason for each component that is not, or only partly, modelled.

## Plan

1. **Wallets, intents, NFTs** - modelled and proved.
2. **Token shop listener, portal, contracts** - modelled and proved.
3. **Accounts, members, studios, purges, developer tools, browser** - modelled and proved.
4. **Tax history** - modelled and proved, the reports included.
5. **Compositions**: `WalletLedger`, `DepositIntents` and `NftMarket` over one set of rows, with
   the connection pool between them.
