SPECIFICATION Spec
CONSTANTS
    Kinds = {"fixed", "auction"}
    Bids = {b1, b2}
    Editors = {e1}
    MaxUnits = 2
    MinAmount = 1
    MaxAmount = 2
    Exact = 2
    MaxSold = 3
    MaxVersion = 1
SYMMETRY Interchangeable
INVARIANTS SoldOnce 
PROPERTIES CommitmentsKept
