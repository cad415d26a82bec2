\* Three concurrent confirmations of two intents that one transaction fits.
SPECIFICATION Spec
CONSTANTS
    w1 = w1
    w2 = w2
    r1 = r1
    r2 = r2
    r3 = r3
    a = a
    b = b
    t1 = t1
    t2 = t2
    t3 = t3
    h1 = h1
    H1 = H1
    h2 = h2
    h3 = h3
    k1 = k1
    Wallet = {w1, w2}
    Request = {r1, r2, r3}
    Key = {k1}
    NoKey = NoKey
    Free = Free
    NoOp = NoOp
    Intent = {a, b}
    Tx = {t1, t2, t3}
    Hash = {h1, H1, h2, h3}
    TxOf <- MCTxOf
    NoHash = NoHash
    Reverted = {t3}
    Opening <- MCOpening
    Owner <- MCOwner
    IntentAmount <- MCAmount
    Pays <- MCPays
    Confirmation <- MCConfirmations
SYMMETRY RequestSymmetry
INVARIANTS
    RecreditsNeedTwins
    SuccessIsConfirmed
PROPERTIES
    ConfirmationsImplementBook
