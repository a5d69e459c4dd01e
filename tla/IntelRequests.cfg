SPECIFICATION Spec
CONSTANTS
    s1 = s1
    s2 = s2
    Subjects = {s1}
    Alliances = {}
    Workers = {w1}
    Requests = {r1, r2}
    Tokens = {t1}
    NoToken = NoToken
    MaxJobs = 2
    MaxPages = 1
    PageSize = 1
    MaxKills = 1
    KillFeed <- Feed
    Cutoffs = {1}
    MaxRetries = 1
    QueueLimit = 2
SYMMETRY Interchangeable
INVARIANTS OneActivePerSubject CountedOnce
