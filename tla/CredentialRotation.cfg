\* Two sync processes and a Journey sampler over one credential of two accounts.
SPECIFICATION Spec
CONSTANTS
    Users = {u1, u2}
    Callers = {c1, c2}
    Samplers = {p1}
    MaxGrants = 2
    MaxTurns = 1
    MaxSeals = 1
INVARIANTS CredentialsOK OnlyLossesLose
PROPERTIES CredentialMovesForward
CHECK_DEADLOCK FALSE
