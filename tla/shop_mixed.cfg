\* Three concurrent purchases and mints.
SPECIFICATION Spec
CONSTANTS
    p = p
    q = q
    r1 = r1
    r2 = r2
    r3 = r3
    t = t
    u = u
    k1 = k1
    k2 = k2
    Wallet = {p, q}
    Request = {r1, r2, r3}
    Key = {k1, k2}
    NoKey = NoKey
    Free = Free
    NoOp = NoOp
    Template = {t, u}
    Opening <- MCOpening
    Cost <- MCCost
    Cap <- MCCap
    Operation <- MCMixed
SYMMETRY RequestSymmetry
INVARIANTS
    ChargedIffDelivered
    CountIsBacked
PROPERTIES
    PurchasesImplementBook
