\* Polling in development and production, and handlers beside the sync;
\* two stale answers, failures or crashes.  A tab of the portal with two
\* accounts, two trades and two disturbances.
SPECIFICATION MCSpec
CONSTANTS
    N = 2
    LastBlock = 2
    MaxFailures = 2
    BlockOf <- MCBlockOf
    IsBought <- MCIsBought
    Environment <- MCEnvironment
    Account = {a1, a2}
    None = None
    Everyone = Everyone
    MaxTrades = 2
    MaxSwitches = 2
    MaxAsked = 2
INVARIANTS
    NothingSkipped
    EventsNameTheSender
PROPERTIES
    EveryTradeStored
    PagesCatchUp
