SPECIFICATION SettlementSpec
CONSTANTS
    Payloads <- MCPayloads
    Updates <- MCUpdates
    Handlers = {e1, e2}
    MaxSaves = 3
    Whole = 100
    Unit = 10
    Grain = 10
    Cent = 20
    Precision = 100000
    Scales = {1, 10, 100, 1000}
INVARIANTS  FairShares 
CHECK_DEADLOCK FALSE
