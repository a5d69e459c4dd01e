SPECIFICATION FairSpec
CONSTANTS
    s1 = s1
    s2 = s2
    Subjects = {s1}
    Alliances = {s1}
    Workers = {w1}
    Requests = {r1}
    Tokens = {t1, t2}
    NoToken = NoToken
    MaxJobs = 1
    MaxPages = 1
    PageSize = 1
    MaxKills = 2
    KillFeed <- Feed
    Cutoffs = {2}
    MaxRetries = 3
    QueueLimit = 1
INVARIANTS CompletedIsCovered
PROPERTIES Settles
