SPECIFICATION Spec
CONSTANTS
    p = p
    q = q
    r = r
    header = header
    source = source
    other = other
    skeleton = skeleton
    Runs = {p, q, r}
    Work <- MCWork
    Skeletons = {skeleton}
    Parts = 2
    Fragile = {r}
    MaxKills = 1
INVARIANTS
    TypeOK
    NeverHalfWritten
    KeepsUserCode
    SuccessMeansComplete
PROPERTIES
    AllGenerated
\* Runs end.
CHECK_DEADLOCK FALSE
