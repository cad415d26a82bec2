\* One user, one server instance, one call of each kind at a time.
SPECIFICATION AccountsFairSpec
CONSTANTS
    Instance = {i1}
    Request = {r1}
    Call = {c1}
    TTL = 2
    Lag = 1
    Task = {t1}
PROPERTIES
    WrongAnswersAreRecent
    SuspensionsHold
    
    IdleAccountsAreErased
CHECK_DEADLOCK FALSE
