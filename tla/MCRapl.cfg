SPECIFICATION Spec
CONSTANTS
    Threads = {t1, t2}
    Domains = {d1, d2}
    MaxRange = 3
    None = None
    MaxStart = 2
    MaxEnergy = 4
    MaxTotal = 4
    MaxClock = 1
    MaxResets = 1
SYMMETRY Symmetry
INVARIANTS
    TypeOK
    NeverInvents
    WrapsCorrected
