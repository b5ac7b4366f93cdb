SPECIFICATION FairSpec
CONSTANTS
    Unplugged = Unplugged
    Hosts <- AllHosts
    Sysfs <- AllSysfs
    Devices <- AllDevices
    MaxPlugs = 2
    MaxFails = 2
INVARIANTS
    FailuresIsolated
    EveryWattOnce
    ReadingsTogether
    PayloadConforms
    ZonesKept
PROPERTIES
    SamplerKeepsReading
