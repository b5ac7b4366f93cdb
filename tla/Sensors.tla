------------------------------- MODULE Sensors -------------------------------
(***************************************************************************)
(* What the collectors' sample() and static_info() make of the readings of *)
(* a host, as JSON values.  A reading that the host does not give is None: *)
(* when absent is TRUE, that is every reading the code lets be missing.    *)
(*                                                                         *)
(* A host is a record: nvml and amd, the power of each GPU; chip, the      *)
(* labels psutil lists for the CPU's sensors, and zones, the CPU's thermal *)
(* zones with their type and number, and whether their temp can be read.   *)
(* A hwmon device is a record of its name, its files, the labels and the   *)
(* watts of its rails, and whether its vendor is one of GPU_VENDORS.  A    *)
(* file is a pair of its stem and its kind; labels has only the stems that *)
(* the driver names.  sysfs is a sequence of such devices; Unplugged       *)
(* stands where a number is free.                                          *)
(***************************************************************************)
EXTENDS JsonValues, Integers, SequencesExt, FiniteSetsExt, Functions

CONSTANT Unplugged

Opt(absent, value) == IF absent THEN None ELSE value
Int1 == Value("int", 1)

-----------------------------------------------------------------------------
(* GPUs: nvml._Device and amdgpu._Gpu.  Watts of "None" are not told.      *)

ClocksOf(absent) == Dict([graphics |-> Opt(absent, Int1), memory |-> Opt(absent, Int1)])
Memory(absent) == Opt(absent, Dict([total |-> Int1, used |-> Int1, free |-> Int1,
                                    used_pct |-> Value("num", 1)]))

NvmlStatic(absent) ==
    Dict([index |-> Int1, vendor |-> Str, name |-> Str, uuid |-> Opt(absent, Str),
          memory_kind |-> Str, vram_total |-> Opt(absent, Int1),
          power_limit_w |-> Opt(absent, Int1), max_clocks_mhz |-> ClocksOf(absent),
          temp_slowdown_c |-> Opt(absent, Int1), driver_version |-> Opt(absent, Str)])

NvmlSample(absent, watts) ==
    Dict([index |-> Int1, vendor |-> Str, util_gpu_pct |-> Opt(absent, Int1),
          util_memory_pct |-> Opt(absent, Int1), memory |-> Memory(absent),
          temperature_c |-> Opt(absent, Int1),
          temperatures_c |-> Dict(IF absent THEN Nothing ELSE [gpu |-> Int1]),
          power_w |-> Opt(absent, watts),
          fans |-> List(IF absent THEN <<>> ELSE <<Dict([pct |-> Int1, rpm |-> None])>>),
          clocks_mhz |-> ClocksOf(absent), perf_state |-> Opt(absent, Str),
          throttle_reasons |-> List(IF absent THEN <<>> ELSE <<Str>>),
          processes |-> List(<<Dict([pid |-> Int1, kind |-> Str,
                                     mem_bytes |-> Opt(absent, Int1),
                                     name |-> Opt(absent, Str)])>>)])

AmdStatic(absent) ==
    Dict([index |-> Int1, vendor |-> Str, name |-> Str, uuid |-> Opt(absent, Str),
          memory_kind |-> Str, vram_total |-> Opt(absent, Int1),
          power_limit_w |-> Opt(absent, Int1), max_clocks_mhz |-> ClocksOf(TRUE),
          temp_slowdown_c |-> None, vbios |-> Opt(absent, Str)])

\* Mutant: the memory is left out when the driver does not tell it.
AmdSampleSparse(absent, watts) ==
    Dict(Update([index |-> Int1, vendor |-> Str, power_w |-> Opt(absent, watts)],
                IF absent THEN Nothing ELSE [memory |-> Memory(FALSE)]))

AmdSample(absent, watts) ==
    Dict([index |-> Int1, vendor |-> Str, util_gpu_pct |-> Opt(absent, Int1),
          util_memory_pct |-> Opt(absent, Int1), memory |-> Memory(absent),
          temperature_c |-> Opt(absent, Value("num", 1)),
          temperatures_c |-> Dict(IF absent THEN Nothing ELSE [edge |-> Value("num", 1)]),
          power_w |-> Opt(absent, watts),
          fans |-> List(IF absent THEN <<>> ELSE <<Dict([rpm |-> Int1, pct |-> None])>>),
          clocks_mhz |-> ClocksOf(absent), perf_state |-> None,
          throttle_reasons |-> List(<<>>), processes |-> List(<<>>)])

-----------------------------------------------------------------------------
(* CPU temperatures: those of the chip psutil names, or the thermal zones. *)

Set(temps, label, reading) == Update(temps, [l \in {label} |-> reading])

ChipTemps(labels) ==
    FoldLeft(LAMBDA temps, label : Set(temps, label, Value("num", 1)), Nothing, labels)

\* Mutant: a zone is known by its type alone.
ZoneLabelPlain(temps, zone) == zone.type

Suffixed(zone) == zone.type \o ":" \o ToString(zone.n)

ZoneLabel(temps, zone) ==
    IF zone.type \in DOMAIN temps THEN Suffixed(zone) ELSE zone.type

\* A zone that cannot be read is left out, and takes no label.
WithZone(temps, zone) ==
    IF zone.gives THEN Set(temps, ZoneLabel(temps, zone), Value("num", 1)) ELSE temps

ZoneTemps(zones) ==
    LET temps[i \in 0 .. Len(zones)] ==
            IF i = 0 THEN Nothing ELSE WithZone(temps[i - 1], zones[i])
    IN  temps[Len(zones)]

Temps(host) == IF host.chip # <<>> THEN ChipTemps(host.chip) ELSE ZoneTemps(host.zones)

CpuSampled(host, usage, perCore, absent) ==
    LET temps == Temps(host)
    IN  Dict([usage_pct |-> usage, per_core_pct |-> List(perCore), count |-> Opt(absent, Int1),
              load_avg |-> List([i \in 1 .. 3 |-> Value("num", 1)]),
              freq_mhz |-> Opt(absent, Int1),
              temperature_c |-> Opt(DOMAIN temps = {}, Value("num", 1)),
              temperatures_c |-> Dict(temps)])

CpuStaticInfo(absent) ==
    Dict([count |-> Opt(absent, Int1), count_physical |-> Opt(absent, Int1),
          model |-> Opt(absent, Str)])

-----------------------------------------------------------------------------
(* hwmon: what probe() keeps of a number, and what it reads there later.   *)

\* Mutant: GPUs' chips are kept, too.
OwnedByNobody(device) == FALSE

_is_gpu_owned(device) == device.gpu

\* The files it looks for, in the order in which it lists them.
Paths == <<<<"fan1", "input">>, <<"power1", "average">>, <<"power2", "average">>,
           <<"power1", "input">>, <<"power2", "input">>>>

\* A rail's average is preferred to its input.
Picked(device, path) ==
    /\ path \in device.files
    /\ <<path[1], "average">> \in device.files => path[2] = "average"

\* What is listed of a device, unless a GPU's collector owns it: nothing, if
\* it has neither a fan nor a rail.
Kept(number, device) ==
    FlattenSeq([i \in DOMAIN Paths |->
        IF device # Unplugged /\ ~_is_gpu_owned(device) /\ Picked(device, Paths[i])
        THEN <<[number |-> number, name |-> device.name, path |-> Paths[i]]>> ELSE <<>>])

\* The chips, in order of their numbers: each is the files kept of it.
ProbeHwmon(sysfs) == FlattenSeq([n \in DOMAIN sysfs |-> Kept(n, sysfs[n])])

IsFan(chip) == chip.path[1] = "fan1"

Readable(sysfs, chip) ==
    sysfs[chip.number] # Unplugged /\ chip.path \in sysfs[chip.number].files

Label(device, chipName, stem) ==
    IF stem \in DOMAIN device.labels THEN device.labels[stem] ELSE chipName \o "_" \o stem

\* The places of the fans, and of the rails, that can be read.
FansAnswering(sysfs, chips, absent) ==
    {i \in DOMAIN chips : ~absent /\ Readable(sysfs, chips[i]) /\ IsFan(chips[i])}
RailsAnswering(sysfs, chips, absent) ==
    {i \in DOMAIN chips : ~absent /\ Readable(sysfs, chips[i]) /\ ~IsFan(chips[i])}

Fans(chips, read) ==
    FlattenSeq([i \in DOMAIN chips |->
        IF i \in read THEN <<Dict([label |-> Str, rpm |-> Int1])>> ELSE <<>>])

\* A rail takes the place of an earlier one of its label.
RailWatts(sysfs, chips, read) ==
    LET stem(i) == chips[i].path[1]
        device(i) == sysfs[chips[i].number]
        label(i) == Label(device(i), chips[i].name, stem(i))
        last(l) == Max({i \in read : label(i) = l})
    IN  [l \in {label(i) : i \in read} |-> device(last(l)).watts[stem(last(l))]]

HwmonSample(sysfs, chips, absent) ==
    LET rails == RailsAnswering(sysfs, chips, absent)
    IN  Update([fans |-> List(Fans(chips, FansAnswering(sysfs, chips, absent)))],
               IF rails = {} THEN Nothing
               ELSE [power |-> Dict([sources |-> Dict(RailWatts(sysfs, chips, rails))])])
=============================================================================
