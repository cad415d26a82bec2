SPECIFICATION ChainSpec
CONSTANTS
    p = p
    q = q
    Player = {p, q}
    MaxMint = 2999
    One = 1000
    Amount = {3, 400}
    Rates <- MCRates
    Fee = {0, 300}
    Limit = {0, 3}
    CoinScale = 10
    Item = {1}
    Price = {39, 2100}
    Shares <- MCShares
    MaxListings = 2
    Implementation = {"v1", "v2"}
    Original = "v1"
    UpgradeDelay = 2
    MaxTime = 3
    MaxTransactions = 4
    Funds = 500
SYMMETRY Players
INVARIANTS
    EscrowCoversListings
PROPERTIES
    TradesDoNotProfit
    UpgradesWereAnnounced
CHECK_DEADLOCK FALSE
