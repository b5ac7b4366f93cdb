SPECIFICATION FairSpec
CONSTANTS
    comfy = comfy
    other = other
    m1 = m1
    m2 = m2
    Requests = {r1, r2}
    Services <- TwoServices
    Restarted = {comfy}
    Accepts <- OnlyM1
    Models = {m1, m2}
    NoModel = NoModel
    All = All
    Unknown = Unknown
    NeedsToken = TRUE
    Prompts = {p1}
INVARIANTS
    TypeOK
    ResultsTruthful
    OldPromptsSurvive
PROPERTIES
    EveryRequestAnswered
    ImplementsService
