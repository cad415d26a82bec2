\* Three concurrent requests of every kind on two wallets.
SPECIFICATION Spec
CONSTANTS
    w1 = w1
    w2 = w2
    w3 = w3
    r1 = r1
    r2 = r2
    r3 = r3
    k1 = k1
    Wallet = {w1, w2}
    Request = {r1, r2, r3}
    Key = {k1}
    NoKey = NoKey
    Free = Free
    NoOp = NoOp
    Amount = {100, 149, 150, 200}
    KycBlocked = {w2}
    AmlFlagged = {200}
    Opening <- MCOpening
    Operation <- MCMixed
SYMMETRY RequestSymmetry
INVARIANTS
    NonNegative
    SuccessIsApplied
PROPERTIES
    TransferMovesItsAmount
