SPECIFICATION Spec
CONSTANTS
    Threads = {t1, t2}
    Keys = {cid, pid}
    Containers = {cid}
    Names = {n1}
    NoName = NoName
    TTL = 2
    MaxTime = 3
SYMMETRY Symmetry
INVARIANTS
    TypeOK
    BoundedStaleness
    FailuresAreFresh
