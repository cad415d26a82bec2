\* Two requests, two nonces, one transaction, two transactions with locks, every
\* kind of purge; and the developer tools on a local database.
SPECIFICATION BothSpec
CONSTANTS
    n1 = n1
    t1 = t1
    Visit = {r1, r2}
    Nonce = {n1, n2}
    Tx = {t1}
    Payment = {p1, p2}
    NoOp = NoOp
    MaxRows = 3
    Operation <- MCOperation
SYMMETRY Symmetry
INVARIANTS
    NoncesAreOneTime
    SessionsAgree
    RetriesLogOnce
    GamePurgesFailByRacesOnly

    
CHECK_DEADLOCK FALSE
