SPECIFICATION FairStreamSpec
CONSTANTS
    Interval = 3
    Room = 2
    Behind = 9
INVARIANTS
    TypeOK
    NoBurst
PROPERTIES
    GoneClientDropped
    TicksKeepComing
