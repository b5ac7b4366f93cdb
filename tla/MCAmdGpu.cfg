SPECIFICATION FairSpec
CONSTANTS
    Threads = {t1, t2}
    Main = main
    Cards = {1, 2}
    MaxChanges = 3
INVARIANTS
    TypeOK
    SampleCurrent
    OneChangeCurrent
    RestConsistent
PROPERTIES
    PicksUpCards
