----------------------------- MODULE Inventory -----------------------------
(***************************************************************************)
(* GET /models: which service holds which VRAM.  The request is a pipeline *)
(* over a machine that does not stand still: State.gpu_processes reads the *)
(* process lists of the GPUs one after the other, Models.snapshot waits    *)
(* for every service to list its models, and only then each sampled pid is *)
(* looked up in /proc for its container, and the container for its name.   *)
(* Processes start and exit meanwhile, and their pids are used again.      *)
(* A sampled process is added to the service that owns its container, or   *)
(* listed under "other".                                                   *)
(***************************************************************************)
EXTENDS Integers, Sequences, SequencesExt, FiniteSetsExt, Functions

CONSTANTS
    Pids,
    Gpus,           \* the devices of the NVML collector: a sequence
    Processes,      \* what a process can be: [container, gpu, kinds, mem]
    Containers,
    Names,          \* of containers, as docker and the config know them
    Called,         \* Called[c]: the names of a container that a lookup may
                    \* answer: its own, and those that the cache still has
    NoContainer,    \* the cgroup of a host process; a name that is not found
    Services,       \* self.services, a sequence of service ids
    Container,      \* Container[s]: svc.container, NoContainer for None
    Plugin,         \* the comfyui services: a 404 means no plugin, no models
    Free, Gone,     \* a pid that was never used; one whose process exited
    Null            \* None: memory that NVML does not tell, no vram_bytes

ServiceIds == ToSet(Services)

ASSUME InventoryAssumption ==
    /\ IsFiniteSet(Pids)
    /\ Gpus \in Seq(ToSet(Gpus)) /\ Services \in Seq(ToSet(Services))
    /\ \A i, j \in DOMAIN Services : Services[i] = Services[j] => i = j
    /\ Null \notin Nat
    /\ NoContainer \notin Containers \cup Names
    /\ Called \in [Containers -> SUBSET Names]
    /\ Container \in [ServiceIds -> Names \cup {NoContainer}]
    /\ Plugin \subseteq ServiceIds
    /\ Free \notin Processes /\ Gone \notin Processes
    /\ \A x \in Processes :
        /\ x.container \in Containers \cup {NoContainer}
        /\ x.gpu \in ToSet(Gpus)
        /\ x.kinds \in (SUBSET {"compute", "graphics"}) \ {{}}
        /\ x.mem \in Nat \cup {Null}

VARIABLES
    table,      \* the machine's process table
    pc,         \* where the handler thread is
    lists,      \* the (gpu, kind) lists still to read
    procs,      \* the sampled processes, in order
    ok,         \* entry["ok"] of each service
    next,       \* the index of the next process to attribute
    vram,       \* entry["vram_bytes"] of each service
    other,      \* "other": pids, their memory and their container's name
    steady,     \* history: pids that ran since the request began
    reused,     \* history: pids that exited before and run again
    blind,      \* history: an NVML call of this request raised
    claimed     \* history: the processes attributed to each service

history == <<steady, reused, blind>>
vars == <<table, pc, lists, procs, ok, next, vram, other, claimed, history>>

\* p["pid"], p["mem_bytes"], and (history) the process that was sampled.
Sampled == [pid : Pids, mem : Nat \cup {Null}, process : Processes]

Unowned == [pid : Pids, mem : Nat \cup {Null}, container : Names \cup {NoContainer}]

TypeOK ==
    /\ table \in [Pids -> Processes \cup {Free, Gone}]
    /\ pc \in {"idle", "sample", "list", "attribute", "done"}
    /\ lists \in Seq(ToSet(Gpus) \X {"compute", "graphics"})
    /\ procs \in Seq(Sampled)
    /\ ok \in [ServiceIds -> BOOLEAN]
    /\ next \in 1 .. Len(procs) + 1
    /\ vram \in [ServiceIds -> Nat \cup {Null}]
    /\ other \in Seq(Unowned)
    /\ steady \in SUBSET Pids /\ reused \in SUBSET Pids /\ blind \in BOOLEAN
    /\ claimed \in [ServiceIds -> SUBSET Sampled]

running == {p \in Pids : table[p] \in Processes}

Init ==
    /\ table = [p \in Pids |-> Free]
    /\ pc = "idle"
    /\ lists = <<>> /\ procs = <<>> /\ other = <<>>
    /\ ok = [s \in ServiceIds |-> TRUE]
    /\ next = 1
    /\ vram = [s \in ServiceIds |-> Null]
    /\ steady = {} /\ reused = {} /\ blind = FALSE
    /\ claimed = [s \in ServiceIds |-> {}]

-----------------------------------------------------------------------------

request == <<pc, lists, procs, ok, next, vram, other, claimed>>

\* The pid of a process that exited may be used again.
Start(p, x) ==
    /\ p \notin running
    /\ table' = [table EXCEPT ![p] = x]
    /\ reused' = IF table[p] = Gone /\ pc # "idle" THEN reused \cup {p} ELSE reused
    /\ UNCHANGED <<steady, blind, request>>

ExitProcess(p) ==
    /\ p \in running
    /\ table' = [table EXCEPT ![p] = Gone]
    /\ steady' = steady \ {p}
    /\ UNCHANGED <<reused, blind, request>>

-----------------------------------------------------------------------------
(* State.gpu_processes: the NVML collector's sample, one list at a time.   *)

\* Per device, the compute list, then the graphics list.
AllLists ==
    [k \in 1 .. 2 * Len(Gpus) |->
        <<Gpus[(k + 1) \div 2], IF k % 2 = 1 THEN "compute" ELSE "graphics">>]

Begin ==
    /\ pc = "idle"
    /\ pc' = "sample"
    /\ lists' = AllLists
    /\ steady' = running
    /\ UNCHANGED <<table, procs, ok, next, vram, other, claimed, reused, blind>>

Listed(list) == {p \in running : table[p].gpu = list[1] /\ list[2] \in table[p].kinds}

ReadList ==
    /\ pc = "sample" /\ lists # <<>>
    /\ lists' = Tail(lists)
    /\ \E order \in SetToSeqs(Listed(Head(lists))) :
        procs' = procs \o [i \in DOMAIN order |->
            [pid |-> order[i], mem |-> table[order[i]].mem, process |-> table[order[i]]]]
    /\ UNCHANGED <<table, pc, ok, next, vram, other, claimed, history>>

\* NVMLError: this list is left out.
FailToReadList ==
    /\ pc = "sample" /\ lists # <<>>
    /\ lists' = Tail(lists)
    /\ blind' = TRUE
    /\ UNCHANGED <<table, pc, procs, ok, next, vram, other, claimed, steady, reused>>

\* Any other exception: gpu_processes passes over the whole collector.
FailToSample ==
    /\ pc = "sample" /\ lists # <<>>
    /\ lists' = <<>> /\ procs' = <<>>
    /\ blind' = TRUE
    /\ UNCHANGED <<table, pc, ok, next, vram, other, claimed, steady, reused>>

-----------------------------------------------------------------------------
(* Models.snapshot.                                                        *)

EndSample ==
    /\ pc = "sample" /\ lists = <<>>
    /\ pc' = "list"
    /\ UNCHANGED <<table, lists, procs, ok, next, vram, other, claimed, history>>

\* A ComfyUI without the plugin (404) lists no models, and has not failed.
Lists(s, answer) == answer = "models" \/ (answer = "notfound" /\ s \in Plugin)

\* Every service is asked at once, and the slowest one is waited for.
ListServices ==
    /\ pc = "list"
    /\ pc' = "attribute"
    /\ \E answer \in [ServiceIds -> {"models", "notfound", "failure"}] :
        ok' = [s \in ServiceIds |-> Lists(s, answer[s])]
    /\ UNCHANGED <<table, lists, procs, next, vram, other, claimed, history>>

\* Mutant: by_container has no entry for a service that failed to list.
OwnersThatAnswered(cname) ==
    {s \in ServiceIds : ok[s] /\ cname # NoContainer /\ Container[s] = cname
        /\ \A i, j \in DOMAIN Services :
              Services[i] = s /\ Container[Services[j]] = cname => j <= i}

\* Mutant: by_container has an entry for None, and a process without a
\* container name is looked up in it.
OwnersOfAnything(cname) == {s \in ServiceIds : Container[s] = cname}

\* by_container.get(cname): the last service configured with this container.
Owners(cname) ==
    {s \in ServiceIds : cname # NoContainer /\ Container[s] = cname
        /\ \A i, j \in DOMAIN Services :
              Services[i] = s /\ Container[Services[j]] = cname => j <= i}

\* container_id_of the pid as it is now.  The name may not be found, or be
\* one that the container had up to 60 s ago (see NameCache).
NameOf(p) ==
    IF p \in running /\ table[p].container \in Containers
    THEN Called[table[p].container] \cup {NoContainer} ELSE {NoContainer}

\* Mutant: the sum starts anew with each process.
AddLast(v, mem) == IF mem = Null THEN v ELSE mem

Add(v, mem) == IF mem = Null THEN v ELSE (IF v = Null THEN 0 ELSE v) + mem

\* Mutant: a process in a container that no service owns is not reported.
AttributeKnown ==
    /\ pc = "attribute" /\ next <= Len(procs)
    /\ next' = next + 1
    /\ LET x == procs[next] IN
        \E cname \in NameOf(x.pid) :
            \/ \E s \in Owners(cname) :
                /\ vram' = [vram EXCEPT ![s] = Add(@, x.mem)]
                /\ claimed' = [claimed EXCEPT ![s] = @ \cup {x}]
                /\ UNCHANGED other
            \/ /\ Owners(cname) = {}
               /\ other' = IF cname = NoContainer
                              THEN Append(other, [pid |-> x.pid, mem |-> x.mem,
                                                  container |-> cname]) ELSE other
               /\ UNCHANGED <<vram, claimed>>
    /\ UNCHANGED <<table, pc, lists, procs, ok, history>>

Attribute ==
    /\ pc = "attribute" /\ next <= Len(procs)
    /\ next' = next + 1
    /\ LET x == procs[next] IN
        \E cname \in NameOf(x.pid) :
            \/ \E s \in Owners(cname) :
                /\ vram' = [vram EXCEPT ![s] = Add(@, x.mem)]
                /\ claimed' = [claimed EXCEPT ![s] = @ \cup {x}]
                /\ UNCHANGED other
            \/ /\ Owners(cname) = {}
               /\ other' = Append(other, [pid |-> x.pid, mem |-> x.mem, container |-> cname])
               /\ UNCHANGED <<vram, claimed>>
    /\ UNCHANGED <<table, pc, lists, procs, ok, history>>

Reply ==
    /\ pc = "attribute" /\ next > Len(procs)
    /\ pc' = "done"
    /\ UNCHANGED <<table, lists, procs, ok, next, vram, other, claimed, history>>

\* Mutant: the loop goes on where the request before it ended.
CloseStale ==
    /\ pc = "done"
    /\ pc' = "idle"
    /\ procs' = <<>> /\ other' = <<>>
    /\ ok' = [s \in ServiceIds |-> TRUE]
    /\ vram' = [s \in ServiceIds |-> Null]
    /\ steady' = {} /\ reused' = {} /\ blind' = FALSE
    /\ claimed' = [s \in ServiceIds |-> {}]
    /\ UNCHANGED <<table, lists, next>>

\* The response is sent and forgotten.
Close ==
    /\ pc = "done"
    /\ pc' = "idle"
    /\ procs' = <<>> /\ other' = <<>>
    /\ ok' = [s \in ServiceIds |-> TRUE]
    /\ next' = 1
    /\ vram' = [s \in ServiceIds |-> Null]
    /\ steady' = {} /\ reused' = {} /\ blind' = FALSE
    /\ claimed' = [s \in ServiceIds |-> {}]
    /\ UNCHANGED <<table, lists>>

Snapshot ==
    \/ Begin \/ ReadList \/ FailToReadList \/ FailToSample \/ EndSample
    \/ ListServices \/ Attribute \/ Reply \/ Close

Next ==
    \/ \E p \in Pids : ExitProcess(p) \/ \E x \in Processes : Start(p, x)
    \/ Snapshot

Spec == Init /\ [][Next]_vars

-----------------------------------------------------------------------------
Known(mem) == IF mem = Null THEN 0 ELSE mem

\* The bytes of several blocks, each told apart by its block and place.
Bytes(size) == UNION {{k} \X (1 .. size[k]) : k \in DOMAIN size}
Total(size) == Cardinality(Bytes(size))

\* What the services were given, what is listed, what NVML told so far.
Given == [s \in ServiceIds |-> Known(vram[s])]
Listing == [j \in DOMAIN other |-> Known(other[j].mem)]
Told == [i \in 1 .. next - 1 |-> Known(procs[i].mem)]

(* No byte is lost and none is counted twice between the sample and the    *)
(* reply: what the services were given and what is under "other" add up to *)
(* what NVML told, whatever became of the processes after they were listed.*)
VramConserved == Total(Given) + Total(Listing) = Total(Told)

(* "Nothing holding VRAM hides": a process that ran on a GPU all the while *)
(* the request was served is in the reply, under "other" or in the         *)
(* vram_bytes of a service.  (If no NVML call raised and NVML tells what   *)
(* the process uses: otherwise the reply has no trace of it.)              *)
NothingHides ==
    (pc = "done" /\ ~blind) => \A p \in steady :
        \/ table[p].mem = Null
        \/ \E i \in DOMAIN other : other[i].pid = p
        \/ \E s \in ServiceIds : vram[s] # Null /\ \E x \in claimed[s] : x.pid = p

(* VRAM is charged to a service only for a process in a container of the   *)
(* service's name (or that had it, while the cache remembers): never for a *)
(* host process, nor for one that exited before its lookup.  (As long as   *)
(* its pid is not used again in the meantime.)  And nothing is "other" in  *)
(* a container that is known by a service's name, even if the service is   *)
(* dead and has failed to list its models.                                 *)
AttributionHonest ==
    /\ \A s \in ServiceIds : \A x \in claimed[s] :
        x.pid \in reused
            \/ (x.process.container \in Containers
                    /\ Container[s] \in Called[x.process.container])
    /\ \A j \in DOMAIN other : \A s \in ServiceIds :
        other[j].container \in {NoContainer} \cup (Names \ {Container[s]})

-----------------------------------------------------------------------------
(* The inductive invariant behind the last two: each byte of the sample is *)
(* tied to the process that holds it.                                      *)

Phases ==
    /\ pc = "idle" => procs = <<>> /\ reused = {} /\ steady = {}
    /\ pc \in {"idle", "sample", "list"} => next = 1
    /\ pc # "sample" => lists = <<>>
    /\ pc = "done" => next = Len(procs) + 1

\* What was sampled still runs, or is gone, or its pid is used again.
SampleKnown ==
    \A i \in DOMAIN procs :
        /\ procs[i].mem = procs[i].process.mem
        /\ procs[i].pid \in reused \/ table[procs[i].pid] \in {procs[i].process, Gone}

SteadyKept == steady \subseteq running \ reused

\* A steady process is in the sample once its lists were read.
SteadySampled ==
    (pc # "idle" /\ ~blind) => \A p \in steady : \A kind \in table[p].kinds :
        \/ <<table[p].gpu, kind>> \in ToSet(lists)
        \/ \E i \in DOMAIN procs : procs[i].pid = p

\* What the loop has passed is in the reply.
Replied(x) ==
    \/ \E j \in DOMAIN other : other[j].pid = x.pid
    \/ \E s \in ServiceIds : x \in claimed[s] /\ (x.mem = Null \/ vram[s] # Null)

PassedReplied == \A i \in DOMAIN procs : i < next => Replied(procs[i])

ReplyInv ==
    /\ TypeOK /\ Phases
    /\ SampleKnown /\ SteadyKept /\ SteadySampled /\ PassedReplied
    /\ AttributionHonest
=============================================================================
