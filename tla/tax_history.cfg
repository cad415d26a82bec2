SPECIFICATION FairTaxSpec
CONSTANTS
    MaxFaults = 1
    Emitted <- MCEmitted
    DayOf <- MCDayOf
    RateOn <- MCRateOn
INVARIANTS
    SettledBasisIsExact
    ReportsAgree
PROPERTIES
    Reconnects
CHECK_DEADLOCK FALSE
