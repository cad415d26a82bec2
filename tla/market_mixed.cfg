\* Three concurrent requests of every kind.
SPECIFICATION FairSpec
CONSTANTS
    p = p
    q = q
    s = s
    r1 = r1
    r2 = r2
    r3 = r3
    a = a
    b = b
    l1 = l1
    l2 = l2
    l3 = l3
    l4 = l4
    Wallet = {p, q, s}
    Request = {r1, r2, r3}
    Key = {}
    NoKey = NoKey
    Free = Free
    NoOp = NoOp
    NotListed = NotListed
    NoBuyer = NoBuyer
    Asset = {a, b}
    Listing = {l1, l2, l3, l4}
    Price = {150, 200}
    Opening <- MCOpening
    FirstOwner <- MCOwner
    FirstListing <- MCTwoOffers
    Operation <- MCMixed
INVARIANTS
    BuyersHavePaid
PROPERTIES
    SalesAreExact
    EveryRequestAnswered
