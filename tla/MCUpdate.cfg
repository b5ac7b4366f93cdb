SPECIFICATION FairSpec
CONSTANTS
    good1 = good1
    bad = bad
    good2 = good2
    Updaters = {timer, person}
    Versions = {good1, bad, good2}
    Good = {good1, good2}
    Compatible <- SameRequirements
    First = good1
    Down = Down
    Failures = {"fetch", "reset", "pip", "render"}
    MaxTries = 2
    MaxEvents = 2
INVARIANTS
    TypeOK
    OkNamesTheAnswer
    FailureUndone
    
PROPERTIES
    Converges
