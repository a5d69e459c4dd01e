SPECIFICATION Spec
CONSTANTS
    s1 = s1
    s2 = s2
    Subjects = {s1}
    Alliances = {}
    Workers = {w1, w2}
    Requests = {r1}
    Tokens = {t1, t2, t3}
    NoToken = NoToken
    MaxJobs = 1
    MaxPages = 2
    PageSize = 1
    MaxKills = 2
    KillFeed <- Feed
    Cutoffs = {1, 2}
    MaxRetries = 1
    QueueLimit = 1
SYMMETRY Interchangeable
INVARIANTS StepMatchesCheckpoint CoverageIsComplete
PROPERTIES NoLateWrites ImplementsDurableJob
