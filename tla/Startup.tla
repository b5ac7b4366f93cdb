------------------------------ MODULE Startup ------------------------------
(***************************************************************************)
(* How the daemon comes up: main() loads the models config, probes every   *)
(* collector of the registry and binds the port.  load() turns a config it *)
(* does not accept into an error text, and the daemon serves without       *)
(* /models; a collector whose probe raises is left out.  What neither of   *)
(* the two catches ends the process, and systemd starts it again.          *)
(***************************************************************************)
EXTENDS Integers, Sequences, SequencesExt

CONSTANTS
    Registry,   \* _REGISTRY: the collectors, in order
    Names,      \* texts that a [[service]] may have for its id
    Star,       \* the text "*", one of them
    Numbers,    \* ids that are no text but hash, as texts do: 5, true, a date
    Absent,     \* the key is not in the table
    Array,      \* a value that does not hash: an array or a table
    MaxServices,\* bound: [[service]] tables in the config
    Null        \* None

ASSUME StartupAssumption ==
    /\ Registry \in Seq(STRING) /\ Registry # <<>>
    /\ Star \in Names
    /\ MaxServices \in Nat

KINDS == {"llamaswap", "comfyui", "fourfold"}

\* What a table may say under a key.  A kind that is a number is unknown just
\* as a wrong text is, and a url that is a number is handled as an array is.
Field(values) == values \cup {Absent, Array}

Tables == [kind : Field(KINDS \cup {"unknown"}), id : Field(Names \cup Numbers),
           url : Field({"url"}), container : BOOLEAN]

\* models.toml: what tomllib.load makes of it, and the list under "service".
\* "undecodable" is a file that is not UTF-8, "mistyped" one whose "service"
\* is not an array of tables.
Files ==
    [is : {"missing", "unreadable", "malformed", "undecodable", "mistyped"},
     service : {<<>>}]
    \cup [is : {"loaded"}, service : SeqOf(Tables, MaxServices)]

Missing == [is |-> "missing", service |-> <<>>]

VARIABLES
    file,       \* models.toml on the disk
    stage,      \* where main() is; "failed" until systemd starts it again
    models,     \* State.models: the tables it was built from, or Null
    error,      \* State.models_error: its kind, or Null
    probes,     \* history: how each probe ended, in registry order
    found       \* State.collectors

startupVars == <<file, stage, models, error, probes, found>>

StartupTypeOK ==
    /\ file \in Files
    /\ stage \in {"down", "probing", "binding", "serving", "failed"}
    /\ models \in {Null, file.service} /\ (models = Null \/ error = Null)
    /\ Len(probes) <= Len(Registry)
    /\ Len(found) <= Len(probes)

StartupInit ==
    /\ file \in Files
    /\ stage = "down"
    /\ models = Null /\ error = Null
    /\ probes = <<>> /\ found = <<>>

-----------------------------------------------------------------------------
(* models.load                                                             *)

\* What becomes of one table: an adapter, an error that load() reports, or
\* an exception that it does not catch (TypeError, AttributeError).
Built(t) ==
    CASE t.kind = Array -> "uncaught"
      [] t.kind \notin KINDS \cup {Array} -> "unknown kind"
      [] t.kind \in KINDS /\ Absent \in {t.id, t.url} -> "missing key"
      [] t.kind \in KINDS /\ Absent \notin {t.id, t.url} /\ t.url = Array -> "uncaught"
      [] OTHER -> IF t.kind = "comfyui" /\ ~t.container THEN "no container" ELSE "adapter"

\* The tables that give no adapter; the first of them decides.
Failing(tables) == {i \in DOMAIN tables : Built(tables[i]) # "adapter"}

\* Mutant: "*" is not looked for.
IdsSoundIfUnique(ids) == IsInjective(ids)

IdsSound(ids) == IsInjective(ids) /\ Star \notin ToSet(ids)

\* An id that does not hash raises in set(ids); a number passes.
TablesResult(tables) ==
    LET ids == [i \in DOMAIN tables |-> tables[i].id]
    IN  CASE Failing(tables) # {} -> Built(tables[Min(Failing(tables))])
          [] Failing(tables) = {} /\ Array \in ToSet(ids) -> "uncaught"
          [] OTHER -> IF IdsSound(ids) THEN "models" ELSE "ids"

\* Mutant: a file that cannot be read counts as one that is not there.
ResultQuiet(f) ==
    CASE f.is \in {"missing", "unreadable"} -> "off"
      [] f.is = "malformed" -> f.is
      [] f.is \in {"undecodable", "mistyped"} -> "uncaught"
      [] f.is = "loaded" -> TablesResult(f.service)

Result(f) ==
    CASE f.is = "missing" -> "off"
      [] f.is \in {"unreadable", "malformed"} -> f.is
      [] f.is \in {"undecodable", "mistyped"} -> "uncaught"
      [] f.is = "loaded" -> TablesResult(f.service)

\* None is neither a list of services nor an error text.
ASSUME NullAssumption == \A f \in Files : Null \notin {f.service, Result(f)}

-----------------------------------------------------------------------------
(* main()                                                                  *)

\* Mutant: the tables are kept beside the error that one of them has.
LoadPartly ==
    /\ stage = "down"
    /\ Result(file) # "uncaught"
    /\ stage' = "probing"
    /\ models' = IF Result(file) \in {"off", "unreadable", "malformed"} THEN Null ELSE file.service
    /\ error' = IF Result(file) \in {"models", "off"} THEN Null ELSE Result(file)
    /\ UNCHANGED <<file, probes, found>>

Load ==
    /\ stage = "down"
    /\ Result(file) # "uncaught"
    /\ stage' = "probing"
    /\ models' = IF Result(file) = "models" THEN file.service ELSE Null
    /\ error' = IF Result(file) \in {"models", "off"} THEN Null ELSE Result(file)
    /\ UNCHANGED <<file, probes, found>>

\* The process is gone, and what it held with it.
Gone(next) ==
    /\ stage' = next
    /\ models' = Null /\ error' = Null
    /\ probes' = <<>> /\ found' = <<>>
    /\ UNCHANGED file

Probed(how) ==
    /\ stage = "probing" /\ Len(probes) < Len(Registry)
    /\ probes' = Append(probes, how)
    /\ found' = IF how = "found" THEN Append(found, Registry[Len(probes) + 1]) ELSE found
    /\ stage' = IF Len(probes') = Len(Registry) THEN "binding" ELSE "probing"
    /\ UNCHANGED <<file, models, error>>

Probe == Probed("found") \/ Probed("none")

\* Mutant: the try is around the loop.
ProbeRaisesStopping ==
    /\ stage = "probing" /\ Len(probes) < Len(Registry)
    /\ probes' = Append(probes, "raised")
    /\ stage' = "binding"
    /\ UNCHANGED <<file, models, error, found>>

\* Mutant: the exception of a probe is not caught.
ProbeKills == stage = "probing" /\ Gone("failed")

ProbeRaises == Probed("raised")

\* The port may still be another process's (a daemon started by hand).
Bind ==
    /\ stage = "binding"
    /\ stage' = "serving"
    /\ UNCHANGED <<file, models, error, probes, found>>

BindFails == stage = "binding" /\ Gone("failed")

\* systemctl restart, by update.sh or as models.example.toml asks.
Stop == stage = "serving" /\ Gone("down")

\* load() itself raises.
LoadRaises == stage = "down" /\ Result(file) = "uncaught" /\ Gone("failed")

\* Restart=on-failure, after RestartSec.
StartAgain == stage = "failed" /\ Gone("down")

\* The config is edited: the old file goes, another comes.  load() reads it
\* once, so an edit matters only while the daemon is down.
RemoveFile ==
    /\ stage \in {"down", "failed"} /\ file # Missing
    /\ file' = Missing
    /\ UNCHANGED <<stage, models, error, probes, found>>

PutFile ==
    /\ stage \in {"down", "failed"} /\ file = Missing
    /\ file' \in Files
    /\ UNCHANGED <<stage, models, error, probes, found>>

StartupNext ==
    \/ Load \/ LoadRaises \/ StartAgain
    \/ Probe \/ ProbeRaises \/ Bind \/ BindFails \/ Stop
    \/ RemoveFile \/ PutFile

StartupSpec == StartupInit /\ [][StartupNext]_startupVars

\* Restart=on-failure: the unit never stays down, RestartSec=3 keeps it
\* under systemd's start limit.  The code before the port is bound does not
\* block, and nobody holds the port at every attempt.
FairStartupSpec ==
    /\ StartupSpec
    /\ WF_startupVars(Load \/ LoadRaises) /\ WF_startupVars(StartAgain)
    /\ WF_startupVars(Probe \/ ProbeRaises)
    /\ SF_startupVars(Bind)

-----------------------------------------------------------------------------
(* What Unload and Inventory take for granted of the services they are     *)
(* given: no two have the same id, so what a request names has at most one *)
(* target, none takes the "*" that stands for all, and a ComfyUI has the   *)
(* container that its unload restarts.  (That every service can be named   *)
(* is not so: a number is accepted for an id, and do_POST takes texts.)    *)
ServicesSound ==
    models # Null =>
        /\ \A i, j \in DOMAIN models : models[i].id = models[j].id => i = j
        /\ \A i \in DOMAIN models :
            /\ models[i].id # Star
            /\ models[i].kind = "comfyui" => models[i].container

(* A config that is there is never switched off in silence: if /models is  *)
(* off and /info tells no reason, load() found no file ("A missing file    *)
(* means the feature is off, not an error").                               *)
OffHasReason ==
    stage \notin {"down", "failed"} /\ models = Null /\ error = Null => file = Missing

(* One probe that raises costs its own collector only: all collectors were *)
(* asked, and the daemon has those that were found, in registry order.     *)
Answered == {i \in DOMAIN probes : probes[i] = "found"}

\* present[k] is the place of the k-th collector in the registry.
Lists(present) ==
    /\ \A j, k \in DOMAIN found : j < k => present[j] < present[k]
    /\ {present[k] : k \in DOMAIN found} = Answered
    /\ \A k \in DOMAIN found : found[k] = Registry[present[k]]

FoundInOrder == \E present \in [DOMAIN found -> DOMAIN Registry] : Lists(present)

ProbesIsolated == stage = "serving" => Len(probes) = Len(Registry) /\ FoundInOrder

(* Whatever the config says and whichever probes raise, the daemon comes   *)
(* up again and again: the models feature is optional and never decides    *)
(* whether /metrics is served.  (Unless a value of the config has a type   *)
(* that load() does not expect: then it raises at every start.)            *)
ComesUp == []<>(stage = "serving" \/ Result(file) = "uncaught")

-----------------------------------------------------------------------------
(* The inductive invariant behind the first three: what main() holds is    *)
(* what load() made of the file that is still on the disk, and what the    *)
(* probes so far have found.                                               *)
LoadInv ==
    /\ StartupTypeOK
    /\ probes \in Seq({"found", "none", "raised"}) /\ found \in Seq(STRING)
    /\ stage \in {"down", "failed"} => models = Null /\ error = Null
    /\ models # Null => Result(file) = "models"
    /\ (stage \notin {"down", "failed"} /\ models = Null /\ error = Null) => Result(file) = "off"
    /\ stage \in {"binding", "serving"} => Len(probes) = Len(Registry)
    /\ FoundInOrder
=============================================================================
