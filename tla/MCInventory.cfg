SPECIFICATION Spec
CONSTANTS
    g1 = g1
    comfy = comfy
    fourfold = fourfold
    cComfy = cComfy
    cStray = cStray
    comfyName = comfyName
    strayName = strayName
    Pids = {p1, p2}
    Gpus <- OneGpu
    Processes <- Four
    Containers = {cComfy, cStray}
    Names = {comfyName, strayName}
    Called <- TheirNames
    NoContainer = NoContainer
    Services <- TwoServices
    Container <- TheirContainers
    Plugin = {comfy}
    Free = Free
    Gone = Gone
    Null = Null
SYMMETRY Symmetry
INVARIANTS
    TypeOK
    VramConserved
    NothingHides
    AttributionHonest
