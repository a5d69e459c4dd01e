\* An account's run with two tasks, and a battle collection with two processes.
SPECIFICATION Spec
CONSTANTS
    Battles = {TRUE, FALSE}
    Tasks = {k1, k2}
    Strays = {}
    Collectors = {c1, c2}
    None = None
    Targets = 1
    Pages = 2
    Lengths = {0, 1, 3}
SYMMETRY Interchangeable
INVARIANTS
    TypeOK
    Covered
    OneTask
PROPERTIES
    FinishedStays
CHECK_DEADLOCK FALSE
