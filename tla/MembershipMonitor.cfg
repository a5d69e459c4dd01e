\* Two processes, one request at a time of either analyst.
SPECIFICATION FairSpec
CONSTANTS
    Processes = {p1, p2}
    Requests = {r1}
    Users = {a1, a2}
    None = None
INVARIANTS TypeOK
PROPERTIES PausesFence StaysScheduled CountsAgain
CHECK_DEADLOCK FALSE
