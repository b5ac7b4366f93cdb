SPECIFICATION FairStartupSpec
CONSTANTS
    Registry <- MCRegistry
    Names = {a, star}
    Star = star
    Numbers = {five}
    Absent = absent
    Array = array
    MaxServices = 2
    Null = null
INVARIANTS
    StartupTypeOK
    ServicesSound
    OffHasReason
    ProbesIsolated
PROPERTIES
    ComesUp
