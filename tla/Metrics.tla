------------------------------- MODULE Metrics -------------------------------
(***************************************************************************)
(* The GET routes.  /metrics and /info are one payload out of what every   *)
(* collector says.  The collectors are asked in order; each partial        *)
(* payload is deep-merged into the whole (dicts merge, lists concatenate,  *)
(* anything else is replaced), and a collector that raises leaves its name *)
(* under "errors".  The end of a tick adds the GPUs' power to the sources  *)
(* and sums them.  /models and /health are here for their shape only.      *)
(*                                                                         *)
(* Around the request move the host, whose hwmon devices come and go and   *)
(* whose numbers are used again, and the CPU collector's sampler thread.   *)
(***************************************************************************)
EXTENDS Sensors

CONSTANTS
    Hosts,          \* the hosts the daemon may run on (see Sensors)
    Sysfs,          \* the hwmon devices it may find there: a set of sequences
    Devices,        \* the hwmon devices that may be plugged in later
    MaxPlugs,       \* bound on the devices plugged in or out
    MaxFails        \* bound on the collectors that raise in one request

IsSeq(s) == s \in Seq(Range(s))

IsWatts(v) == IsNumber(v) /\ v.of \in Int

\* What a host lists it lists in order, and power is a number unless a GPU
\* does not tell it; no thermal zone's type reads like another one's type and
\* number.
ASSUME MetricsAssumption ==
    /\ \A h \in Hosts : IsSeq(h.nvml) /\ IsSeq(h.amd) /\ IsSeq(h.zones)
    /\ \A h \in Hosts : \A w \in Range(h.nvml \o h.amd) : w = None \/ IsWatts(w)
    /\ \A h \in Hosts : h.rapl = <<>> \/ (h.rapl = <<h.rapl[1]>> /\ IsWatts(h.rapl[1]))
    /\ \A h \in Hosts : \A i, j \in DOMAIN h.zones :
           i # j => Suffixed(h.zones[i]) \notin {h.zones[j].type, Suffixed(h.zones[j])}
    /\ \A devices \in Sysfs : IsSeq(devices)
    /\ \A d \in Devices \cup UNION {Range(devices) : devices \in Sysfs} :
           d = Unplugged \/ \A path \in d.files : path[1] # "fan1" => IsWatts(d.watts[path[1]])

VARIABLES
    host, sysfs, plugs,
    reused,         \* history: a number of a probed chip was given to a device
    chips,          \* HwmonCollector.chips
    route,          \* what is asked for while a request is served, or "none"
    absent,         \* whether the host withholds what it may from the request
    next,           \* the index of the next collector
    payload,        \* the payload so far: a function from keys to values
    returned,       \* history: what each collector returned, None if it raised
    rails,          \* history: the rails it read, by number and stem
    pc, read, shown \* the sampler: its place, its locals, what it published

hostVars == <<host, sysfs, plugs, reused, chips>>
requestVars == <<route, absent, next, payload, returned, rails>>
samplerVars == <<pc, read, shown>>
vars == <<hostVars, requestVars, samplerVars>>

-----------------------------------------------------------------------------
(* merge(dst, src).  Its recursion is written level by level: dicts that   *)
(* two payloads share are the payload itself, its "power" or "errors", and *)
(* power's "sources", which hold no dicts or lists.                        *)

\* Mutant: a list is replaced like any other value.
Replaced(old, new) == new

Extended(old, new) == List(old.of \o new.of)

\* One level: Deeper merges the dicts that both have under a key.
MergeLevel(Deeper(_, _), dst, src) ==
    [k \in DOMAIN dst \cup DOMAIN src |->
        CASE k \notin DOMAIN src -> dst[k]
          [] k \notin DOMAIN dst -> src[k]
          [] OTHER ->
             CASE dst[k].kind = "dict" /\ src[k].kind = "dict" ->
                      Dict(Deeper(dst[k].of, src[k].of))
               [] dst[k].kind = "list" /\ src[k].kind = "list" ->
                      Extended(dst[k], src[k])
               [] OTHER -> src[k]]

MergeSources(dst, src) == MergeLevel(Update, dst, src)
Merge(dst, src) == MergeLevel(MergeSources, dst, src)

-----------------------------------------------------------------------------
(* The collectors, in the order of the registry, that probe() found.       *)

IfFound(name, found) == IF found THEN <<name>> ELSE <<>>

collectors ==
    IfFound("gpu.nvml", host.nvml # <<>>) \o IfFound("gpu.amdgpu", host.amd # <<>>)
    \o <<"cpu", "memory">>
    \o IfFound("hwmon", chips # <<>>) \o IfFound("power.rapl", host.rapl # <<>>)

Gpus(devices) == [gpus |-> List(devices)]
Number1 == Value("num", 1)

MemoryInfo == [memory |-> Dict([total |-> Int1, used |-> Int1, available |-> Int1,
                                used_pct |-> Number1]),
               swap |-> Dict([total |-> Int1, used |-> Int1, used_pct |-> Number1])]

\* With no earlier reading, RAPL has nothing to say.
RaplSample == IF absent THEN Nothing
              ELSE [power |-> Dict([sources |-> Dict([cpu_package |-> host.rapl[1]])])]

Sample(name) ==
    CASE name = "gpu.nvml" -> Gpus([i \in DOMAIN host.nvml |-> NvmlSample(absent, host.nvml[i])])
      [] name = "gpu.amdgpu" -> Gpus([i \in DOMAIN host.amd |-> AmdSample(absent, host.amd[i])])
      [] name = "cpu" -> [cpu |-> CpuSampled(host, shown.pct, <<shown.perCore>>, absent)]
      [] name = "memory" -> MemoryInfo
      [] name = "hwmon" -> HwmonSample(sysfs, chips, absent)
      [] name = "power.rapl" -> RaplSample

StaticInfo(name) ==
    CASE name = "gpu.nvml" -> Gpus([i \in DOMAIN host.nvml |-> NvmlStatic(absent)])
      [] name = "gpu.amdgpu" -> Gpus([i \in DOMAIN host.amd |-> AmdStatic(absent)])
      [] name = "cpu" -> [cpu |-> CpuStaticInfo(absent)]
      [] name = "memory" -> [memory_total |-> Int1]
      [] OTHER -> Nothing

-----------------------------------------------------------------------------
(* The request.                                                            *)

Init ==
    /\ host \in Hosts
    /\ sysfs \in Sysfs
    /\ chips = ProbeHwmon(sysfs)
    /\ plugs = 0 /\ reused = FALSE
    /\ route = "none" /\ absent = FALSE /\ next = 1
    /\ payload = Nothing /\ returned = <<>> /\ rails = Nothing
    /\ pc = "waits"
    /\ LET primed == [pct |-> Value("num", 0), perCore |-> Value("num", 0)]
       IN  read = primed /\ shown = primed

Error(name) == [errors |-> Dict([n \in {name} |-> Str])]

TickHeader == [schema |-> Int1, ts |-> Number1, host |-> Str]

InfoHeader ==
    Update([schema |-> Int1, host |-> Str, started_at |-> Number1, version |-> Str,
            platform |-> Dict([machine |-> Str, kernel |-> Str, os |-> Str]),
            capabilities |-> List([i \in DOMAIN collectors |-> Value("str", collectors[i])] \o
                IF host.models = "on" THEN <<Value("str", "models")>> ELSE <<>>)],
           IF host.models = "broken" THEN Error("models") ELSE Nothing)

\* /health is one read, and so is what Inventory tells of /models step by
\* step: each service answers or fails, is charged with memory or not, and
\* processes without an owner are in the list of the others.
ModelOf(kind, withheld) ==
    Dict(Update([id |-> Str, name |-> Str, state |-> Str,
                 vram_bytes |-> IF kind = "comfyui" THEN Opt(withheld, Int1) ELSE None],
                IF kind = "comfyui"
                THEN [size_bytes |-> Opt(withheld, Int1), type |-> Opt(withheld, Str)]
                ELSE Nothing))

ServiceOf(kind, ok, withheld) ==
    Dict([id |-> Str, kind |-> Str, container |-> Opt(withheld /\ kind # "comfyui", Str),
          granularity |-> Str, ok |-> Value("bool", ok), error |-> Opt(ok, Str),
          vram_bytes |-> Opt(withheld, Int1),
          models |-> List(IF ok THEN <<ModelOf(kind, withheld)>> ELSE <<>>)])

OtherOf(withheld) ==
    Dict([pid |-> Int1, name |-> Opt(withheld, Str), container |-> Opt(withheld, Str),
          mem_bytes |-> Opt(withheld, Int1)])

Read ==
    /\ route = "none"
    /\ absent' \in BOOLEAN
    /\ \/ /\ route' = "health"
          /\ payload' = [ok |-> Value("bool", TRUE), uptime_s |-> Number1]
       \/ /\ route' = "models" /\ host.models = "on"
          /\ \E kind \in {"llamaswap", "comfyui", "fourfold"}, ok \in BOOLEAN :
                payload' = Update(TickHeader, [services |-> List(<<ServiceOf(kind, ok, absent')>>),
                                               other |-> List(<<OtherOf(absent')>>)])
    /\ next' = Len(collectors) + 2
    /\ UNCHANGED <<returned, rails, hostVars, samplerVars>>

Begin ==
    /\ route = "none"
    /\ route' \in {"tick", "info"}
    /\ absent' \in BOOLEAN
    /\ payload' = IF route' = "tick" THEN TickHeader ELSE InfoHeader
    /\ UNCHANGED <<next, returned, rails, hostVars, samplerVars>>

\* What a correct reading of the rails adds up: those that probe() found and
\* that are still there and readable, each once.
RailOf(device, stem) ==
    [label |-> Label(device, device.name, stem), watts |-> device.watts[stem],
     gpu |-> device.gpu]
Rails == [n \in {<<chips[i].number, chips[i].path[1]>> :
                    i \in RailsAnswering(sysfs, chips, absent)} |-> RailOf(sysfs[n[1]], n[2])]

\* Mutant: sample() of the CPU does not take the sampler's lock.
LockFreeAlways == TRUE

LockFree == pc # "writes"

Collect ==
    /\ route # "none"
    /\ next \in DOMAIN collectors
    /\ (route = "tick" /\ collectors[next] = "cpu") => LockFree
    /\ LET partial == IF route = "tick" THEN Sample(collectors[next])
                                        ELSE StaticInfo(collectors[next])
       IN  /\ payload' = Merge(payload, partial)
           /\ returned' = Append(returned, Dict(partial))
    /\ rails' = IF route = "tick" /\ collectors[next] = "hwmon" THEN Rails ELSE rails
    /\ next' = next + 1
    /\ UNCHANGED <<route, absent, hostVars, samplerVars>>

\* "a collector must never kill the daemon"
Fail ==
    /\ route # "none"
    /\ next \in DOMAIN collectors
    /\ Cardinality({i \in DOMAIN returned : returned[i] = None}) < MaxFails
    /\ payload' = Merge(payload, Error(collectors[next]))
    /\ returned' = Append(returned, None)
    /\ next' = next + 1
    /\ UNCHANGED <<route, absent, rails, hostVars, samplerVars>>

\* The values that are numbers, by place or key.
Numbers(values) == [k \in {j \in DOMAIN values : IsNumber(values[j])} |-> values[k].of]

PowersOf(gpus) == [i \in DOMAIN gpus |-> gpus[i].of.power_w]
GpuPower(p) == Numbers(PowersOf(IF "gpus" \in DOMAIN p THEN p.gpus.of ELSE <<>>))

\* The "gpu" source, and payload.setdefault("power", {"sources": {}}).
WithGpu(p) ==
    Merge(p, [power |-> Dict([sources |-> Dict(
                 IF DOMAIN GpuPower(p) = {} THEN Nothing
                 ELSE [gpu |-> Value("num", SumFunction(GpuPower(p)))])])])

WithMeasured(p) ==
    LET watts == Numbers(p.power.of.sources.of)
    IN  Merge(p, [power |-> Dict([measured_w |->
            IF DOMAIN watts = {} THEN None ELSE Value("num", SumFunction(watts))])])

\* The tick's last part; /info has none.
Finish ==
    /\ route # "none"
    /\ next = Len(collectors) + 1
    /\ payload' = IF route = "tick"
                  THEN Update(WithMeasured(WithGpu(payload)), [tick_us |-> Int1]) ELSE payload
    /\ next' = next + 1
    /\ UNCHANGED <<route, absent, returned, rails, hostVars, samplerVars>>

Sent == next = Len(collectors) + 2

Send ==
    /\ Sent
    /\ route' = "none" /\ absent' = FALSE /\ next' = 1
    /\ payload' = Nothing /\ returned' = <<>> /\ rails' = Nothing
    /\ UNCHANGED <<hostVars, samplerVars>>

-----------------------------------------------------------------------------
(* CpuCollector._run: one round is two readings, published under the lock. *)

\* A round is told from the one before by the numbers it reads.
Round == Value("num", 1 - shown.pct.of)

Wake ==
    /\ pc = "waits" /\ pc' = "awake"
    /\ UNCHANGED <<read, shown, hostVars, requestVars>>

ReadTotal ==
    /\ pc = "awake" /\ pc' = "between"
    /\ read' = [read EXCEPT !.pct = Round]
    /\ UNCHANGED <<shown, hostVars, requestVars>>

ReadCores ==
    /\ pc = "between" /\ pc' = "both"
    /\ read' = [read EXCEPT !.perCore = Round]
    /\ UNCHANGED <<shown, hostVars, requestVars>>

\* Mutant: the exception ends the thread.
HiccupEnds ==
    /\ pc \in {"awake", "between"} /\ pc' = "ended"
    /\ UNCHANGED <<read, shown, hostVars, requestVars>>

\* psutil raises: "keep the sampler alive".
Hiccup ==
    /\ pc \in {"awake", "between"} /\ pc' = "waits"
    /\ UNCHANGED <<read, shown, hostVars, requestVars>>

WriteTotal ==
    /\ pc = "both" /\ pc' = "writes"
    /\ shown' = [shown EXCEPT !.pct = read.pct]
    /\ UNCHANGED <<read, hostVars, requestVars>>

WriteCores ==
    /\ pc = "writes" /\ pc' = "waits"
    /\ shown' = [shown EXCEPT !.perCore = read.perCore]
    /\ UNCHANGED <<read, hostVars, requestVars>>

-----------------------------------------------------------------------------
(* The host: hwmon devices leave, and others take their numbers.           *)

Unplug ==
    /\ plugs < MaxPlugs /\ plugs' = plugs + 1
    /\ \E n \in DOMAIN sysfs :
        /\ sysfs[n] # Unplugged
        /\ sysfs' = [sysfs EXCEPT ![n] = Unplugged]
    /\ UNCHANGED <<host, reused, chips, requestVars, samplerVars>>

Plug ==
    /\ plugs < MaxPlugs /\ plugs' = plugs + 1
    /\ \E n \in DOMAIN sysfs, d \in Devices \ Range(sysfs) :
        /\ sysfs[n] = Unplugged
        /\ sysfs' = [sysfs EXCEPT ![n] = d]
        /\ reused' = (reused \/ \E c \in ToSet(chips) : c.number = n)
    /\ UNCHANGED <<host, chips, requestVars, samplerVars>>

Request == Read \/ Begin \/ Collect \/ Fail \/ Finish \/ Send
Sampler == Wake \/ ReadTotal \/ ReadCores \/ Hiccup \/ WriteTotal \/ WriteCores

Next == Request \/ Sampler \/ Unplug \/ Plug

Spec == Init /\ [][Next]_vars

\* The sampler's thread is scheduled, and psutil does not fail for ever.
FairSpec ==
    /\ Spec
    /\ WF_vars(Sampler)
    /\ SF_vars(ReadTotal) /\ SF_vars(ReadCores)

-----------------------------------------------------------------------------
\* What a payload, or what a collector returned, says in a list.
Items(r, key) == IF r # None /\ key \in DOMAIN r.of THEN r.of[key].of ELSE <<>>

Named == IF "errors" \in DOMAIN payload THEN DOMAIN payload.errors.of ELSE {}
Failed == {collectors[i] : i \in {j \in DOMAIN returned : returned[j] = None}}

(* A failure costs its own part only: "errors" names the collectors that   *)
(* failed (and the models' config, in /info) and no others, and every list *)
(* of the payload is the concatenation, in collector order, of what the    *)
(* other collectors returned for it.  About _collect and merge.            *)
FailuresIsolated ==
    (Sent /\ route \in {"tick", "info"}) =>
        /\ Named = Failed \cup
               (IF route = "info" /\ host.models = "broken" THEN {"models"} ELSE {})
        /\ \A key \in {"gpus", "fans"} :
            Items(Dict(payload), key) =
                FlattenSeq([i \in DOMAIN collectors |-> Items(returned[i], key)])

\* Rails that the payload cannot tell apart, from one another or from the
\* sources of the other collectors.
Clash == \E n \in DOMAIN rails :
            \/ rails[n].label \in {"gpu", "cpu_package"}
            \/ \E m \in DOMAIN rails \ {n} : rails[m].label = rails[n].label

\* What a collector has told, by now, of the watts there are.
Answered(name) == \E i \in DOMAIN returned : collectors[i] = name /\ returned[i] # None
Given(name, watts) == IF ~absent /\ Answered(name) THEN watts ELSE <<>>

(* Every watt is measured once: measured_w is the power of the GPUs that   *)
(* answered, of the rails that are no GPU's and of the CPU packages, each  *)
(* added once, whatever fails, appears or disappears; null without any.    *)
(* Rails of one label are one source (hwmon.py:66), and so are one that is *)
(* labelled "gpu" and the sum of the GPUs (state.py:17); a number that is  *)
(* used again is read like the chip that had it (hwmon.py:41-56).          *)
EveryWattOnce ==
    (Sent /\ route = "tick" /\ ~reused) =>
        LET readings == Numbers(Given("gpu.nvml", host.nvml) \o Given("gpu.amdgpu", host.amd)
                                \o Given("power.rapl", host.rapl))
            others == Numbers([n \in {m \in DOMAIN rails : ~rails[m].gpu} |-> rails[n].watts])
            measured == payload.power.of.measured_w
        IN  IF DOMAIN readings = {} /\ DOMAIN others = {} THEN measured = None
            ELSE Clash \/ measured.of = SumFunction(readings) + SumFunction(others)

(* usage_pct and per_core_pct of one payload come from the same round of   *)
(* the sampler: no request sees the one published without the other.       *)
ReadingsTogether ==
    (route = "tick" /\ "cpu" \in DOMAIN payload) =>
        payload.cpu.of.usage_pct = payload.cpu.of.per_core_pct.of[1]

(* "Several zones can share one type; suffix the zone number so readings   *)
(* don't collapse": without a chip, each readable zone has its reading.   *)
ZonesKept ==
    (route = "tick" /\ "cpu" \in DOMAIN payload /\ host.chip = <<>>) =>
        Cardinality(DOMAIN payload.cpu.of.temperatures_c.of) =
            Cardinality({i \in DOMAIN host.zones : host.zones[i].gives})

(* "Every labeled temperature sensor, degrees C." (openapi.py:20)          *)
EverySensorListed ==
    (route = "tick" /\ "cpu" \in DOMAIN payload /\ host.chip # <<>>) =>
        Cardinality(DOMAIN payload.cpu.of.temperatures_c.of) = Len(host.chip)

(* The sampler publishes again and again, whatever psutil raises in        *)
(* between and however many requests take the lock.                        *)
SamplerKeepsReading == \A b \in {0, 1} : []<>(shown.perCore.of = b)

-----------------------------------------------------------------------------
(* The inductive invariant behind FailuresIsolated, ReadingsTogether and   *)
(* ZonesKept.                                                              *)

HostInv == host \in Hosts /\ IsSeq(chips)

\* What the sampler read is of one round once both readings are there, and
\* only while it holds the lock are the published ones of two rounds.
SamplerInv ==
    /\ read = [pct |-> read.pct, perCore |-> read.perCore]
    /\ shown = [pct |-> shown.pct, perCore |-> shown.perCore]
    /\ pc = "between" => read.pct = Round
    /\ pc \in {"both", "writes"} => read.pct = read.perCore
    /\ IF pc = "writes" THEN shown.pct = read.pct ELSE shown.pct = shown.perCore

\* The collectors before next have returned or raised.
RequestInv ==
    /\ next \in 1 .. Len(collectors) + 2
    /\ IsSeq(returned)
    /\ route = "none" => next = 1 /\ returned = <<>> /\ payload = Nothing
    /\ route \in {"tick", "info"} =>
           DOMAIN returned = {i \in DOMAIN collectors : i < next}

ErrorsInv ==
    route \in {"tick", "info"} =>
        /\ "errors" \in DOMAIN payload => payload.errors.kind = "dict"
        /\ Named = Failed \cup
               (IF route = "info" /\ host.models = "broken" THEN {"models"} ELSE {})

\* What the collectors so far returned for a list.
Told(key) == FlattenSeq([i \in DOMAIN returned |-> Items(returned[i], key)])

ListsInv ==
    route \in {"tick", "info"} =>
        \A key \in {"gpus", "fans"} :
            /\ key \in DOMAIN payload => payload[key].kind = "list"
            /\ IsSeq(Items(Dict(payload), key))
            /\ Items(Dict(payload), key) = Told(key)

\* Only the CPU collector adds what it reads, once.
CpuInv ==
    (route = "tick" /\ "cpu" \in DOMAIN payload) =>
        /\ payload.cpu.of.usage_pct = payload.cpu.of.per_core_pct.of[1]
        /\ payload.cpu.of.temperatures_c.of = Temps(host)
        /\ \E i \in DOMAIN returned : collectors[i] = "cpu"

MetricsInv ==
    HostInv /\ SamplerInv /\ RequestInv /\ ErrorsInv /\ ListsInv /\ CpuInv

-----------------------------------------------------------------------------
(* What EveryWattOnce needs besides.                                       *)

\* A chip is the device that probe() found, until its number is used again.
DevicesInv ==
    /\ IsFiniteSet(DOMAIN sysfs)
    /\ \A n \in DOMAIN sysfs :
        sysfs[n] = Unplugged \/ \A path \in sysfs[n].files :
                                    path[1] # "fan1" => IsWatts(sysfs[n].watts[path[1]])
    /\ \A c \in Range(chips) :
        /\ c.number \in DOMAIN sysfs
        /\ reused \/ LET d == sysfs[c.number]
                      IN  d = Unplugged \/ (d.name = c.name /\ ~d.gpu)

Collecting == route = "tick" /\ ~Sent

Summable(numbers) ==
    IsFiniteSet(DOMAIN numbers) /\ \A k \in DOMAIN numbers : numbers[k] \in Int

\* The GPUs in the payload so far have the power of those that answered.
GpusInv ==
    Collecting =>
        LET nvml == Numbers(Given("gpu.nvml", host.nvml))
            amd == Numbers(Given("gpu.amdgpu", host.amd))
        IN  /\ Summable(GpuPower(payload))
            /\ SumFunction(GpuPower(payload)) = SumFunction(nvml) + SumFunction(amd)
            /\ DOMAIN GpuPower(payload) = {} <=> DOMAIN nvml = {} /\ DOMAIN amd = {}

\* The sources so far are those of the rails and the CPU packages.
RailLabels == {rails[n].label : n \in DOMAIN rails}
Package == Given("power.rapl", host.rapl)
SourcesOf(p) == IF "power" \in DOMAIN p THEN p.power.of.sources.of ELSE Nothing
Sources == SourcesOf(payload)

\* Until it is summed up, "power" has its sources only.
Unsummed(p) ==
    "power" \in DOMAIN p =>
        /\ p.power.kind = "dict" /\ DOMAIN p.power.of = {"sources"}
        /\ p.power.of.sources.kind = "dict"

SourcesInv ==
    Collecting =>
        /\ Unsummed(payload)
        /\ \A k \in DOMAIN Sources : IsWatts(Sources[k])
        /\ ~reused => DOMAIN Sources = RailLabels \cup (IF Package = <<>> THEN {}
                                                        ELSE {"cpu_package"})
        /\ ~reused /\ ~Clash =>
               /\ \A n \in DOMAIN rails : Sources[rails[n].label] = rails[n].watts
               /\ Package # <<>> => Sources["cpu_package"] = Package[1]

RailsInv ==
    /\ IsFiniteSet(DOMAIN rails)
    /\ \A n \in DOMAIN rails : IsWatts(rails[n].watts) /\ (reused \/ ~rails[n].gpu)
    /\ DOMAIN rails # {} => route = "tick" /\ Answered("hwmon")

PowerInv == DevicesInv /\ GpusInv /\ SourcesInv /\ RailsInv /\ EveryWattOnce
=============================================================================
