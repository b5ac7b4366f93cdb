SPECIFICATION Spec
CONSTANTS
    Unplugged = Unplugged
    Hosts <- DualHosts
    Sysfs <- OneSysfs
    Devices <- NoDevices
    MaxPlugs = 0
    MaxFails = 0
INVARIANTS
    EverySensorListed
