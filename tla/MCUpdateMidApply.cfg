SPECIFICATION Spec
CONSTANTS
    good1 = good1
    bad = bad
    good2 = good2
    Updaters = {timer}
    Versions = {good1, bad, good2}
    Good = {good1, good2}
    Compatible <- SameRequirements
    First = good1
    Down = Down
    Failures = {"pip"}
    MaxTries = 2
    MaxEvents = 1
INVARIANTS
    FailuresRollBack
