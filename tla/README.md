# vitalsd in TLA+

A verification project for vitalsd (`src/vitalsd`, `src/deploy`): a Python
daemon that serves the vitals of a Linux host over HTTP and SSE, tells which
model server holds which GPU memory, can make those servers unload, and updates
itself from git. Every module is written from the code; `PROJECT.json` maps each
definition to the lines it stands for.

## The system

| Component | State | Operations | Talks to |
|---|---|---|---|
| HTTP layer (`server.py`, `openapi.py`) | a thread per request (`ThreadingMixIn`), no locks | GET routes, `POST /models/unload`, SSE `/stream` | State, Models |
| Models and adapters (`models.py`) | the services of the config | `snapshot`, `unload`, `load` | llama-swap, ComfyUI, Fourfold over HTTP; Docker |
| Docker client (`docker.py`) | `Names._cache` under a lock | `restart`, `container_id_of`, `Names.get` | the Docker socket, `/proc` |
| State (`state.py`) | the collector list | `tick`, `info_payload`, `gpu_processes` | collectors |
| NVML collector (`nvml.py`) | devices, `_ProcNames._cache` under a lock | `probe`, `sample` | NVML, `/proc` |
| AMD collector (`amdgpu.py`) | `gpus`, `_cards`, no lock | `probe`, `_rescan`, `sample` | sysfs |
| RAPL collector (`rapl.py`) | `_last`, no lock | `sample` | powercap |
| CPU collector (`cpu.py`) | a sampler thread and its last reading, locked | `_run`, `sample` | psutil, sysfs |
| hwmon collector (`hwmon.py`) | the chips that `probe` found, by path | `probe`, `sample` | sysfs |
| Memory collector (`memory.py`) | none | `sample` | psutil |
| Startup (`__main__.py`, `load`, `probe_all`) | none | config, probes, bind | `models.toml`, systemd |
| Self-update (`deploy/update.sh`) | checkout, `.venv`, units, daemon | fetch, apply, health, roll back | git, pip, systemd |

Collectors are shared by all handler threads: every `/metrics`, every tick of
every `/stream` and every `/models` request calls `sample()` on the same
objects. The only locks are those of the two name caches and of the CPU
sampler. Everything hard about the code follows from this and from the calls it
makes to the outside:

* interleavings: rescans of the AMD collector, samples of the RAPL counters,
  lookups of a name, unload requests, the CPU sampler, two updaters;
* checks that are stale when they are used: ComfyUI's queue before the restart,
  a sampled pid before its cgroup is read, a cached name, the path of a chip;
* keys that collide: sensor labels, rails, thermal zones, service ids;
* failures half way: a collector, a probe, one service of several, one command
  of `apply`, a reply that is lost after the work was done, a crash of the host;
* time: TTLs, the pacing of a stream, the socket timeout, retries of `/health`.

`PROJECT.json` lists them one by one under "hazards", each at its line, with
the properties that cover it.

What makes each component correct, in one line:

* unload: complete and truthful answers; no prompt lost that could be spared;
* `/models`: every byte of GPU memory once, to the right owner, nothing hidden;
* name caches: bounded staleness, whatever the order of lookups;
* AMD: payloads as fresh as their request, cards picked up eventually;
* RAPL: no energy invented, wraps corrected;
* stream: paced without bursts, and ended when the client is gone;
* GET routes: a failure costs its own part only, every watt is measured once,
  and what is sent is what the document at `/openapi.json` says;
* CPU sampler: it never stops, and its readings are taken together;
* startup: a bad config or probe never stops the daemon or passes in silence;
* update: "ok" means it, a failure is undone, the host follows a good main.

## Modules

An action stands for what one thread does between two points at which others
can interfere: a lock operation, an access to shared state, a call to the
outside. Locals of a thread are functions from threads. Variables marked
"history" in a module are not in the code; only properties read them.

**NameCache** (`docker.Names.get`, `nvml._ProcNames.get`). `cache` is the dict,
one entry per key; `Call`, `Hit`/`Miss`, `Find`/`FailToFind`, `Remember`/`Forget`
are the stretches between the lock operations. The two classes differ in what
they do with a failed lookup: keys in `Containers` belong to `docker.Names`,
which stores None, the others to `_ProcNames`, which pops the entry. `lastHeld`
is history: when an answer was last justified.

**UnloadService** is what `POST /models/unload` promises, without any of the calls
it makes: the services of a plan are dealt with in order, each is affected in its
turn or not at all, one result tells how it went, and the reply has the status
of the first failure.

**Unload** (`Handler.do_POST`, `Models.unload`, the adapters' `unload`,
`docker.restart`) implements it. One request per thread. A service in `Restarted`
is a ComfyUI; `Accepts` says what may be named in an unload of a service: any
model for llama-swap, its own for Fourfold, none for ComfyUI, and `NoModel` (the
whole service) for each. The refinement mapping is in `Service`: a request is
"open" from `Accept` to `Answer` (`Phase`), what was affected is `took`, and the
status is not seen before it is sent (`Sent`); the queue of prompts and the steps
of a restart are hidden. `Record` is the loop body's
bookkeeping; `FindQueueEmpty` and `Work` are the two calls of `ComfyUI.unload`;
`Work` followed by `LoseReply` is a call that was carried out and not confirmed.
`SeeNoQueue` is a reply to `GET /queue` that is empty or null: the code takes it for
an empty queue and restarts. `unseen` is history, and tells that it happened. The
prompt queue is external: prompts are submitted, start and finish at any moment. A call that timed out and takes effect only after the request has ended
is not modelled: `Work` is the last moment at which it can.

**AmdGpu** (`_ready_cards`, `_discover`, `_rescan`, `probe`, `sample`). One action
per access to `self.gpus` and `self._cards`, and a list of cards is made card by
card: a glob (`Glob`), then one card after the other in the order of their names
(`ReadCard`), in both scans of a rescan and in `probe` (by the thread `Main`, before
there are requests). So a list need not be that of any one moment. The vendor and
the `gpu_busy_percent` of one card are read in one step: a card that goes in
between is one that went before. `always` and `ever` are history: the cards that
were ready all the time, and at some time, since the call began; `overlapped` tells
whether two calls were ever under way at once. `found` is whether `probe` found a
card: without one the daemon has no AMD collector until `Restart`, which may
happen between any two steps and drops the calls under way.

**Rapl** (`RaplCollector.sample`). Reading the clock, reading the counters and
exchanging `self._last` are three actions. The counters of all packages are read
at once; the exchange is atomic (one tuple assignment: a switch between its load
and its store is left out). `max` is fixed per domain, as `probe` found it. The
counters wrap at that range. Watts are kept as energy and time, before rounding.

**Inventory** (`State.gpu_processes`, `_Device.sample`'s process lists,
`Models.snapshot`, `container_id_of`). The machine's process table changes
between any two steps. `Called` gives the names a lookup may answer for a
container: its own, and those it had while the cache may still have them; a lookup
may also find none. `steady`, `blind`, `reused` and `claimed` are history. All answers
of the services arrive in one step, since `snapshot` waits for all of them.

**Startup** (`main`, `models.load`, `probe_all`, the systemd unit). A config is a
sequence of tables. What is looked up in a dict or put into a set, `kind` and `id`,
raises if it does not hash (`Array`) and passes otherwise: a kind that is a number
is an unknown kind, and an id that is a number (`Numbers`) is accepted. An edit of the file is possible while the daemon is down: `load` reads it once. A
Python without `tomllib` gives an error text like a file that cannot be read.

**Update** (`update.sh` with its units). One action per command: `Fetch` (or
`FetchFails`, which ends the script), `ReadOld`, the comparison, and those of `apply`.
In the if-condition `set -e` is off, so `StepFails` goes on with the next command.
`Failures` are the commands that may fail. `daemon-reload` belongs to the rendering
of the units. `calm`, `harmed`, `alone`, `failed` and `answered` are history: whether
anything disturbed the runs so far (another run, a crash, a failing step), or only a
crash or a failing step did; the same of this one run; and who answered.

**Stream** (`Handler._stream`, `_sse`). One client's thread. Time is relative:
`slack` is `next_t - now`, so that the stream can run forever in finitely many
states. The socket buffer has `Room` for a number of events.

**JsonValues**. A JSON value carries its kind; what a dict holds is a function from
its keys, what a list holds is a sequence. `Update` is `dict.update`.

**OpenApi** (`openapi.py`). The schemas of what the GET routes answer, and
`Conforms`. Unlike JSON Schema in general, a key that is not declared does not
conform: the document is meant to name all of them.

**Sensors** (`nvml.py`, `amdgpu.py`, `cpu.py`, `hwmon.py`). What each collector
reads off a host, as a function of the host: the shape of a GPU's entry, the
chip or the thermal zones that give the CPU's temperatures and their labels, and
the files that `probe` keeps of the hwmon devices: their fans, and of each rail the
file it takes the power from. A chip in the model is one such file with its device's
number and name. `absent` withholds every reading that the code allows to be
missing; a thermal zone that does not answer is left out on its own (`gives`).

**Metrics** (`State.tick`, `State.info_payload`, `merge`, `_collect`, the CPU
sampler, the GET routes). One request at a time asks the collectors in order
(`Collect`, or `Fail` for one that raises) and `Finish` adds the power sums.
Around it move the sampler thread (`Wake` to `WriteCores`; the lock is `LockFree`)
and the hwmon devices (`Plug`, `Unplug`). A power reading is the device's own
number of watts. `Read` stands for `/health` and `/models`, which are here for
their shape only. The recursion of `merge` is written level by level (`MergeLevel`):
the dicts that two collectors can both have are the payload, its "power" or
"errors", and "sources".

**Conformance** holds what is sent against the document (`PayloadConforms`), and the
levels of `Merge` against the recursion of the code: `LevelsSuffice` is evaluated
for every two payloads out of `Shared`.

`MC*` modules give the constants their values; `*Proofs` hold the proofs.

How they compose: Metrics puts Sensors on one side and the sampler on the other,
and Conformance adds OpenApi. Startup promises the services (`ServicesSound`) that Unload and
Inventory take for granted (distinct ids, no "*", a container for ComfyUI).
Inventory takes any name that the cache may still have; NameCache bounds for how
long that is. What `_Gpu` reads of the cards that AmdGpu lists is in Sensors.

## Runs

| Run | Bounds | What it shows |
|---|---|---|
| `names` | 2 threads, a container id and a pid, 1 name, TTL 2, time to 3 | TTL expiry, renaming and the reuse of a pid between any two steps of two lookups. Two threads are enough to overwrite each other's entry; time 3 goes past the TTL. |
| `unload` | 2 requests, a ComfyUI and a service with one of 2 models, 1 prompt | Every outcome of every call, one request that restarts while the other has checked the queue, a queue reply without a queue, and a prompt that comes and goes. Two services are needed for an order and a first failure; the properties speak of one prompt and of pairs of requests at most. |
| `unload_unforced` | as `unload` | the docstring's promise fails (below) |
| `amdgpu` | 2 threads and the main thread, 2 cards listed one by one, 3 changes, restarts | Two changes are enough for a list of no single moment and for the lost update, the third shows recovery from it. 143,888 states. |
| `rapl` | 2 threads, 2 packages, range 3, starting anywhere in it, 4 units consumed by one or both, 1 reset | a counter wraps once or twice between two samples; either package may have no known range. 3.2 million states. |
| `update` | timer and person, 2 good commits and a bad one, 2 events (a push or a crash), 2 tries, any command may fail | Overlap, failing commands, a crash in any step, a push during a run. A push and a crash in the roll back are enough to meet a checkout that is mixed. 616,935 states. |
| `update_mid_apply` | 1 updater, 1 push, only pip fails | the comment's promise fails (below) |
| `inventory` | 2 pids, 1 device, 4 kinds of process, 2 services, a stray container that had a service's name | exits and reuse between listing and lookup, old names, NVML and services that fail, unknown memory, a process on both lists. 2.2 million states. |
| `startup` | 3 collectors, configs of 0 to 2 tables, ids that are a name, "*", a number, an array or absent | each defect of a config alone and in pairs (duplicate ids need two). 1.5 million states. |
| `stream` | interval 3, room for 2 events, delays told apart up to 9 | three intervals of delay |
| `metrics` | 3 hosts (NVIDIA, AMD and RAPL with a CPU chip; two GPUs, one without power, and zones of one type, of which one cannot be read; a board with nothing), 3 layouts of up to 3 hwmon numbers (power supplies; a regulator with a fan and 2 rails; a hub with a fan only; a GPU's own device), 2 plugs, 2 failures per request | The host withholds all or nothing: conformance is decided key by key, so mixed cases add none. Two plugs put another device under a number that was probed; two failures leave every collector alone with every other. Each device has watts of its own power of two, so a sum tells its parts. |
| `temps` | a host with two CPU packages | the document's promise fails (below) |

Some properties carry the condition under which the code keeps them. What
happens outside it is a hazard, not a slip of the model:

* `PicksUpCards`: a daemon that found no card at its start (`~found`) has no AMD
  collector, and nothing looks again (`amdgpu.py:168`, `vitalsd.service:3-5`).
* `PicksUpCards`, `OneChangeCurrent`: when calls overlap while the hardware changes
  more than once, `self._cards` can equal the hardware while `self.gpus` does not.
  No later rescan sees a difference. A lock around `_rescan` would remove the
  exception: while calls do not overlap, `RestConsistent` holds.
* `SampleCurrent`, `RestConsistent` are about calls that do not overlap.
* `NeverInvents`: samples that overtake each other, and resets of a counter with
  a known range, look like a wrap. What is left then is a bound: one full range for
  each package.
* `OldPromptsSurvive`: a reply to `GET /queue` with no queue in it counts as an
  empty queue (`models.py:123`).
* `ServicesSound` does not say that every service can be named: a number is accepted
  for an id (`models.py:243`), and `do_POST` takes texts (`server.py:79`).
* `NothingHides`: a process is not in the reply when an NVML call raised
  (`state.py:67`, `nvml.py:182`), or when its service owns it and NVML does not
  tell its memory.
* `AttributionHonest`: a pid that is reused before its cgroup is read, and names
  that are at most one TTL old.
* `EveryWattOnce`: two rails of one label, whatever the chips' names, and a rail
  that is labelled "gpu" or "cpu_package" like the sum over the GPUs or the reading
  of RAPL (`Clash`; labels are the keys of "sources", and the later one overwrites
  the earlier, `hwmon.py:66`, `state.py:17`); and a hwmon number that is given to
  another device (`reused`; `probe` keeps paths, so a GPU's rail is then read as
  the old chip's and counted beside the GPU).
* `ComesUp`: a config that makes `load` raise (not UTF-8, or a value of an
  unexpected type) stops the daemon at every start.
* `OkNamesTheAnswer`, `FailureUndone`: runs that are alone and whose steps succeed;
  the machine may have gone down in the middle of earlier ones.
* `EndsHealthy`, `Converges`: that a daemon answers, and is main's, needs runs that
  were alone, with no crash and no failing command. After a crash behind `git reset`
  the next run says "up to date" and checks nothing. Runs that overlap may end with a
  bad commit; `EndsHealthy` says that they leave no mixture of two.

Three runs find a disagreement between the documentation and the code
(`findings`):

* `update_mid_apply`: `update.sh:37-38` says that a mid-apply failure (pip,
  systemctl) reaches the roll back. In an if-context bash ignores `set -e` inside the
  function too: pip fails, the new commit runs with the old requirements, and the
  script prints "update ok".
* `unload_unforced`: `models.py:94-97` says that ComfyUI's unload is refused
  while a prompt is running or queued. The check and the restart are two calls.
  What remains true is `OldPromptsSurvive`.
* `temps`: `openapi.py:20` says that every labeled temperature sensor is listed.
  The labels are keys of a dict, and a host with two CPU packages has two sensors
  "Core 0" (`cpu.py:69`). Thermal zones are told apart (`cpu.py:79-84`), which is
  `ZonesKept`.

Deadlock is checked in every run. No run needs an exemption.

### Fairness

* Unload: a handler thread moves on, because every call has a timeout
  (`HTTP_TIMEOUT`, `stop_timeout + 30`). Clients and prompts are not fair.
* AmdGpu: the probe and every thread's rescan go on, because they only read files,
  and clients keep polling. The hardware is not fair; its changes are bounded.
* Stream: time passes and the thread is scheduled. A blocked write is fair
  because `Handler.timeout` ends it. The client is not fair.
* Startup: systemd restarts a failed unit (`Restart=on-failure`, every 3 s, below
  the start limit). Strong fairness of `Bind`: the port is not taken at every
  attempt.
* Update: the timer fires daily, commands end. Strong fairness of `Fetch` and
  `Answers`: the origin is not out of reach, and a daemon that is up not too slow for
  `/health`, on every single day.
* Metrics: the sampler's thread is scheduled. Strong fairness of its two readings:
  psutil does not raise at every single attempt. Requests, devices and collectors
  are not fair.
* The other specifications have no fairness and no liveness property.

## Proofs

`NameCacheProofs`: `TypeCorrect`, `StalenessBounded` and `NoRememberedFailure`,
for all sets of threads, keys and names and every TTL (`NameCacheAssumption`). The
invariant is `IInv`. Bounded staleness is not inductive by itself: a hit returns
what another thread stored, so `EntriesWitnessed` says of every entry that its
name was justified at its stamp or later, `LookupsWitnessed` says the same of an
answer on its way into the cache, and `HistoryCurrent` ties both to the clock.
The stamp is taken before the lookup, which is why a slow lookup cannot prolong
the life of an old name.

`AmdGpuProofs`: `SerialSampleCurrent`, `SerialRestConsistent`, `AmdTypeCorrect` and
`OneChangeIsHarmless`, for any number of threads, cards and restarts. The first
two are about the time before calls overlap, and the invariant is `SerialInv`: only
one thread is inside (`OneAtATime`), its locals describe what it has written
(`RescanProgress`), the present is in every window (`WindowCurrent`), and a list that
is being made has, with what is still to be looked at, all that was up all along, and
nothing that never was (`ListProgress`): the glob finds every ready card, and later a
card is added only in a moment in which it is ready. The last
is about overlapping calls and the time before the second change, and the
invariant is `OneChangeInv`: nobody leaves the old list but for the new one, the new
card set is remembered only after the new list is published, and a list that is made
after the one change is exact (`OneChangeProgress`). The conditions are in the
properties. An earlier form of `SampleCurrent` asked for the set of one moment, which
a list that is made card by card does not give.

`Sums`: what the proofs about energy and power need of sums. The library says
nothing of them (`SumFunction` is a recursive function), and its induction
theorem cannot be used, so each lemma is proved by a smallest set for which it
fails (`MinimalSubset`: the strict subsets of a finite set are well-founded): that
the sum over a finite set exists (`SumExists`), grows by one summand with one
element (`SumStep`), is monotone (`SumMonotone`), adds up over disjoint sets
(`SumUnion`), and does not depend on what the summands are called (`SumRenamed`). `Least` is the
same argument for numbers, and serves RouteProofs and InventoryProofs.

`RaplProofs`: `RaplTypeCorrect`, `EnergyIsNotInvented` and `WrapsAreCorrected`, for
any finite set of packages, any number of threads, any range and any bounds. The
payload's energy is the sum over the packages that `sample()` builds in a loop,
compared to the sum of what they consumed (`SumMonotone`). The
invariant is `WrapInv`, which says of any two readings that are still in use, in
either order, and of any of them and the counters as they are, that they differ
by what was consumed or by that less one range, and that a counter shows no more
than what was consumed since it was reset (`Tells`). That a payload never exceeds one
full range per package, whatever readings it is made of, follows from one exchange
alone (`PowerIsSound`). `Exact` and `Bounded` alone
are not inductive, because a payload is made of two readings that different
threads took.

`RouteProofs` has three parts. First, `FailuresAreIsolated`, `ReadingsAreOfOneRound`
and `ZonesAreKept`, for any hosts with any number of GPUs and zones, any hwmon devices
and any number of failures. The invariant is `MetricsInv`, which follows a request
from collector to collector. `RequestInv`: those before `next` have returned or
raised. `ErrorsInv` and `ListsInv`: the errors are those that raised, and each list is
what the others returned, so far; both need to know of which kind a shared key of
the payload is, because `merge` replaces what is not a dict or list on both sides.
`SamplerInv`: the two published readings differ only while the sampler holds the
lock, and a total that was read is of the round that the cores will be of; `CpuInv`
says what a request has taken of them. The concatenations are folds
(`FlattenSeq`), which the library knows nothing of; the section on it derives what is
needed, that the fold exists and grows by its last item, by a smallest index at
which that fails. `ZonesAreKept` needs that every zone adds a key
(`EveryZoneCounts`): the code appends the zone's number only if the type is taken,
so it relies on no type that reads like another zone's type and number, which is
part of `MetricsAssumption`.

Second, `EveryWattIsMeasuredOnce`: `measured_w` is the sum of what the devices gave,
each once, on any host, with any hwmon devices that come and go. The invariant is
`PowerInv` on top of `MetricsInv`. `GpusInv`: the powers in the list of GPUs so far
add up to those of the GPU collectors that answered, where `None` is no summand,
so the sum over a list of concatenated parts is that of its parts
(`SumUnion`). `DevicesInv`: a chip is the device that `probe` found until its number
is used again, so a GPU's rail is never read twice. `RailsInv` and `SourcesInv`: the
keys of "sources" so far are the labels of the rails that were read, and
"cpu_package" once RAPL has answered, and each has its own device's power; without a
`Clash` labels and rails correspond one to one, so the sum over the keys is the
sum over the devices (`SumRenamed`). The proof failed for an earlier form of the
property that excepted only two rails of one chip name and label: two chips of
different names may have rails of one label, and a rail may be labelled "gpu". The
condition is wider since.

Third, `StreamTypeCorrect` and `NeverABurst`, for every interval and buffer. The
invariant is `PaceInv`: when a thread is due, its last tick began before `next_t` and
the one before that a whole interval earlier (`BeganBy`). A resync breaks the
distance between two ticks, which is why the property is about three.

`InventoryProofs`: `InventoryTypeCorrect`, `NothingIsHidden`, `ChargedToTheOwner`
and `NoByteIsLost`, for any processes, devices and services
(`InventoryAssumption`). The invariant is `ReplyInv`. It follows a process through
the pipeline: it is on a list still to be read or in the sample (`SteadySampled`);
what was sampled is what its pid says, unless that was used again (`SampleKnown`);
what the loop has passed is in the reply (`PassedReplied`). A name that a service is
known by always finds an owner, also of a service that failed to list, because of
the services with one container the last is entered (`OwnedIfKnown`). `VramConserved` is
inductive on top of it. Its three totals are cardinalities of sets of bytes
(`Bytes`: a block of size n is n pairs of its key and a place), so that a sum
needs no recursion: `TotalGrows` adds the bytes by which one block grows, or a new
block, as a disjoint union. One turn of the loop grows one block on each side.

`DeployProofs` has two parts. `StartupTypeCorrect`, `ServicesAreSound`,
`OffIsExplained` and `EveryProbeCounts`, for every registry that is not empty and
any number of tables. The invariant is `LoadInv`: what `main()` holds is what `load()` makes of the file
that is still there, and what the probes so far have found is a subsequence of the
registry, at the places of the probes that ended well (`FoundInOrder`). What `load()`
accepts is a lemma about one file (`AcceptedIsSound`, `OffIsMissing`), where an id may
be of any type that hashes; a probe adds
one place (`ProbedKeepsOrder`).

And `UpdateTypeCorrect`, `OkIsForTheAnswer`, `RollBackRestores` and
`UpdatesEndHealthy`, for any number of updaters, commits, tries and events, any
commit that is bad and any requirements that do or do not fit. The invariant is
`UpdateInv`. Nothing locks the script, so a run knows what the machine holds only
while it is alone and none of its steps failed (`Whole`). `AloneInv` says that a
run that is marked alone is the only one; `TargetInv` that `apply` is on the way
forward with `$new` or back with `$old`, and that `/health` is asked only on the
way forward; `WholeInv` what a whole run has done of its work, step by step
(`Applied`), and what that came to (`Accounted`); `CalmInv` that the commit a calm
run goes back to is a good one. `SettledInv` is about runs that overlap: whoever
changed the commit, the requirements or the units is still to do what comes after
it, so when all are through nothing is left undone.

`UnloadProofs` has two parts. `OldPromptsAreSafe`, for any number of requests,
services, models and prompts, with the invariant `PromptInv`: of the prompts older
than an unforced request, none is outside the queue, so an empty queue means there
are none left, whatever is submitted later (`OldPromptsKnown`); it needs that
ComfyUI executes one prompt at a time (`QueueTyped`), since `Finish` clears all of
`running`, and that a thread between requests has no victims. And
`UnloadTypeCorrect`, `ResultsAreTruthful` and `UnloadImplementsService`:
`Unload!Spec` implements `UnloadService!Spec` under the mapping above. The
invariant is `AnswerInv`: the services still to be visited are distinct, have no
result yet and are untouched, but for the head of the list while its reply is on
the way (`Ahead`); the status is that of the first failure so far
(`StatusOfAppend`); and every result is truthful about `took` (`Told`). Each action
then is a step of the service or a stutter.

The assumptions are those on the constants, each named in its module; TLC
evaluates them in every run. The ones that the theorems lean on: the packages, the
services and the devices are finite, cards are numbered, no service is listed twice, NVML's "not told" is no number, the first
commit is good, a collector's name is a string, a power reading is a number or, of
a GPU, None.

Only model-checked: all liveness (`EveryRequestAnswered`, `PicksUpCards`,
`Converges`, `ComesUp`, `GoneClientDropped`, `TicksKeepComing`,
`SamplerKeepsReading`), which needs ENABLED; and `PayloadConforms`, because
`Conforms` is recursive over the schema, and what a recursive definition makes of
every payload cannot be proved here. Every other invariant and the refinement are
theorems.

## Not modelled

* `setup.sh`: a linear script that is run once. Its result is the initial state of
  Update.
* The syntax of JSON, HTTP and the Docker API, and logging. Of `docker.request`
  only whether it answers, fails or loses its reply.
* Of `openapi.py` the schemas of the unload request and its response, and the
  list of paths. The response is Unload's `results`, checked there for what it
  says and not for its shape.
* The numbers themselves: scaling of sysfs and NVML values, rounding.
* In Sensors, of a hwmon device more than one fan and two rails; `Paths` lists the
  files that are looked for. Thermal zones of other types than the CPU's.
* In AmdGpu, the two files of one card apart from each other.

Some hazards have no property. Most of them are what the code does, so that there
is nothing to keep: a process on two lists counts twice (`nvml.py:174`), rails of
one label (`hwmon.py:66`) and a number used again (`hwmon.py:56`) spoil a sum, and the
run after a crash says "up to date" (`update.sh:16`). That the name caches never drop
an entry (`docker.py:73`) is no step that goes wrong; and how long a snapshot waits for
the slowest service (`models.py:170`) is no state of Inventory.

## Plan

Done, in this order: NameCache, Unload and AmdGpu with their proofs, Rapl, Update,
Inventory, Startup, Stream; then UnloadService with the refinement, OpenApi,
Sensors and Metrics, restarts in AmdGpu, and the proofs about Rapl, Stream,
Inventory and Startup; then the proofs about Update, the sums of Rapl and
Inventory, and the probes; then those about Metrics: failures, the sampler, zones
and watts; then the scan of cards one by one, several rails and fans, ids of any
type, cached names, and updaters that overlap.

Next:

1. Abstract specifications: a name service that answers within one TTL
   (implemented by NameCache); a rescan in one step whose list is within its window
   (implemented by AmdGpu while calls do not overlap).
2. Compositions: several streams over one RAPL collector; Inventory with
   NameCache in the place of its lookups.
