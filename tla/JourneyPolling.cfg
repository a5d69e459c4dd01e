\* A sampler and a sync process that may die at every step, and a token that is rotated.
SPECIFICATION FairSpec
CONSTANTS
    Users = {u1}
    Owner = u1
    Callers = {c1}
    Samplers = {p1}
    None = None
    MaxRequests = 1
    MaxGrants = 1
    MaxTurns = 1
    MaxSeals = 1
INVARIANTS TypeOK
PROPERTIES PolledAgain ImplementsRotation
CHECK_DEADLOCK FALSE
