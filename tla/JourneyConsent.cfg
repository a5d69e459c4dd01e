\* Two samplers of one pilot with two consents; a pause and an erasure at every step of a
\* poll.  EVE SSO answers without a refresh token.
SPECIFICATION Spec
CONSTANTS
    Users = {u1}
    Owner = u1
    Callers = {}
    Samplers = {p1, p2}
    None = None
    MaxRequests = 2
    MaxGrants = 2
    MaxTurns = 0
    MaxSeals = 0
SYMMETRY Interchangeable
PROPERTIES StoredUnderConsent GapsAreMarked
CHECK_DEADLOCK FALSE
