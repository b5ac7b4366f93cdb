---------------------------- MODULE DeployProofs ----------------------------
(***************************************************************************)
(* How the daemon comes up.  What it has for services is sound, and it is  *)
(* never without them in silence, for every config of any number of tables *)
(* and any registry.  The file that load() read stays what it is until the *)
(* daemon is down, so both follow from what load() makes of one file.  And *)
(* a daemon has the collectors whose probe found something: that is shown  *)
(* one probe at a time, by adding its place to the list of places.         *)
(*                                                                         *)
(* How it is updated.  What update.sh promises of a run that no other run  *)
(* overlaps and whose steps succeed, for any number of updaters and        *)
(* commits, good or bad: "update ok" is printed for the version that       *)
(* answered, an update that is given up leaves the commit it found, and    *)
(* undisturbed runs leave a healthy daemon.  The argument: a run knows     *)
(* whether it is alone, because whoever starts meanwhile makes it known;   *)
(* and a run that is alone is the only one that writes to the machine.     *)
(***************************************************************************)
EXTENDS Startup, Update, TLAPS

-----------------------------------------------------------------------------
(* Startup: load() and the probes.                                         *)


\* No table's own result is taken for that of all of them.
LEMMA BuiltIsNotModels ==
    ASSUME NEW t
    PROVE  Built(t) \in {"uncaught", "unknown kind", "missing key", "no container", "adapter"}
<1>1. CASE t.kind = Array
    BY <1>1 DEF Built
<1>2. CASE t.kind # Array /\ t.kind \notin KINDS
    BY <1>2 DEF Built
<1>3. CASE t.kind # Array /\ t.kind \in KINDS /\ Absent \in {t.id, t.url}
    BY <1>3 DEF Built
<1>4. CASE t.kind # Array /\ t.kind \in KINDS /\ Absent \notin {t.id, t.url}
    BY <1>4 DEF Built
<1>5. QED
    BY <1>1, <1>2, <1>3, <1>4

\* What load() accepts.
LEMMA AcceptedIsSound ==
    ASSUME NEW f \in Files, Result(f) = "models"
    PROVE  /\ \A i, j \in DOMAIN f.service : f.service[i].id = f.service[j].id => i = j
           /\ \A i \in DOMAIN f.service :
               /\ f.service[i].id # Star
               /\ f.service[i].kind = "comfyui" => f.service[i].container
<1> DEFINE tables == f.service
           ids == [i \in DOMAIN tables |-> tables[i].id]
<1>1. TablesResult(tables) = "models"
    BY DEF Result, Files
<1>2. Failing(tables) = {} /\ IdsSound(ids)
    BY <1>1, BuiltIsNotModels DEF TablesResult
<1>3. IsInjective(ids) /\ Star \notin ToSet(ids)
    BY <1>2 DEF IdsSound
<1>4. ASSUME NEW i \in DOMAIN tables
      PROVE  tables[i].id # Star /\ (tables[i].kind = "comfyui" => tables[i].container)
    <2>1. Built(tables[i]) = "adapter"
        BY <1>2 DEF Failing
    <2>2. tables[i].kind = "comfyui" => tables[i].container
        BY <2>1 DEF Built
    <2>3. tables[i].id # Star
        BY <1>3 DEF ToSet
    <2>4. QED
        BY <2>2, <2>3
<1>5. \A i, j \in DOMAIN tables : tables[i].id = tables[j].id => i = j
    BY <1>3 DEF IsInjective
<1>6. QED
    BY <1>4, <1>5

\* load() is "off" for a file that is not there, and for no other.
LEMMA OffIsMissing ==
    ASSUME NEW f \in Files, Result(f) = "off"
    PROVE  f = Missing
<1>1. \A tables : TablesResult(tables) # "off"
    BY BuiltIsNotModels DEF TablesResult
<1>2. QED
    BY <1>1 DEF Result, Files, Missing

-----------------------------------------------------------------------------

LEMMA EmptyFacts ==
    /\ \A S : <<>> \in Seq(S)
    /\ Len(<<>>) = 0 /\ Len(<<>>) <= Len(Registry)
BY StartupAssumption

LEMMA AppendFacts ==
    ASSUME NEW S, NEW s \in Seq(S), NEW e \in S
    PROVE  Append(s, e) \in Seq(S) /\ Len(Append(s, e)) = Len(s) + 1
OBVIOUS

\* Before the first probe, the empty list of places.
LEMMA NothingFound ==
    ASSUME probes = <<>>, found = <<>>
    PROVE  FoundInOrder
<1> DEFINE present == [k \in DOMAIN found |-> 1]
<1>1. DOMAIN found = {} /\ DOMAIN probes = {}
    BY EmptyFacts
<1>2. Lists(present)
    BY <1>1 DEF Lists, Answered
<1>3. present \in [DOMAIN found -> DOMAIN Registry]
    BY <1>1
<1>4. QED
    BY <1>2, <1>3 DEF FoundInOrder

\* The place of the next collector comes after all others.
LEMMA ProbedKeepsOrder ==
    ASSUME LoadInv, NEW how \in {"found", "none", "raised"}, Probed(how)
    PROVE  FoundInOrder'
<1>1. PICK n \in Nat : n = Len(probes) + 1
    BY DEF LoadInv
<1>2. /\ n \in DOMAIN Registry /\ DOMAIN probes = 1 .. n - 1 /\ DOMAIN probes' = 1 .. n
      /\ probes'[n] = how /\ \A i \in 1 .. n - 1 : probes'[i] = probes[i]
    BY <1>1, StartupAssumption DEF Probed, LoadInv
<1>3. PICK present \in [DOMAIN found -> DOMAIN Registry] : Lists(present)
    BY DEF LoadInv, FoundInOrder
<1>4. \A k \in DOMAIN found : present[k] \in 1 .. n - 1
    BY <1>2, <1>3 DEF Lists, Answered
<1>5. CASE how = "found"
    <2>1. PICK m \in Nat : m = Len(found) + 1
        BY DEF LoadInv
    <2>2. /\ DOMAIN found = 1 .. m - 1 /\ DOMAIN found' = 1 .. m
          /\ found'[m] = Registry[n] /\ \A k \in 1 .. m - 1 : found'[k] = found[k]
        BY <1>1, <1>2, <1>5, <2>1, StartupAssumption DEF Probed, LoadInv
    <2> DEFINE more == [k \in 1 .. m |-> IF k = m THEN n ELSE present[k]]
    <2>3. /\ more[m] = n /\ \A k \in 1 .. m - 1 : more[k] = present[k]
          /\ 1 .. m = (1 .. m - 1) \cup {m}
        BY <2>1
    <2>4. more \in [DOMAIN found' -> DOMAIN Registry]
        BY <1>2, <1>3, <2>2
    <2> HIDE DEF more
    <2>5. \A j, k \in DOMAIN found' : j < k => more[j] < more[k]
        BY <1>3, <1>4, <2>1, <2>2, <2>3 DEF Lists
    <2>6. \A k \in DOMAIN found' : found'[k] = Registry[more[k]]
        BY <1>3, <2>2, <2>3 DEF Lists
    <2>7. {more[k] : k \in DOMAIN found'} = Answered'
        <3>1. {more[k] : k \in DOMAIN found'} = {present[k] : k \in DOMAIN found} \cup {n}
            BY <2>2, <2>3
        <3>2. Answered' = Answered \cup {n}
            BY <1>1, <1>2, <1>5 DEF Answered
        <3>3. QED
            BY <1>3, <3>1, <3>2 DEF Lists
    <2>8. QED
        BY <2>4, <2>5, <2>6, <2>7 DEF FoundInOrder, Lists
<1>6. CASE how # "found"
    <2>1. found' = found
        BY <1>6 DEF Probed
    <2>2. Answered' = Answered
        BY <1>1, <1>2, <1>6 DEF Answered
    <2>3. QED
        BY <1>3, <2>1, <2>2 DEF FoundInOrder, Lists
<1>7. QED
    BY <1>5, <1>6

\* A process that has just started holds nothing.
LEMMA GoneKeepsLoadInv ==
    ASSUME LoadInv, Gone("down") \/ Gone("failed")
    PROVE  LoadInv'
<1>1. /\ stage' \in {"down", "failed"} /\ models' = Null /\ error' = Null
      /\ probes' = <<>> /\ found' = <<>> /\ UNCHANGED file
    BY DEF Gone
<1>2. StartupTypeOK'
    BY <1>1, EmptyFacts DEF LoadInv, StartupTypeOK
<1>3. FoundInOrder'
    <2>1. (probes = <<>> /\ found = <<>>)'
        BY <1>1
    <2>2. QED
        BY <2>1, NothingFound, PTL
<1>4. QED
    BY <1>1, <1>2, <1>3, EmptyFacts DEF LoadInv

LEMMA ProbedKeepsLoadInv ==
    ASSUME LoadInv, NEW how \in {"found", "none", "raised"}, Probed(how)
    PROVE  LoadInv'
<1> USE DEF LoadInv, StartupTypeOK
<1>1. /\ stage = "probing" /\ Len(probes) < Len(Registry)
      /\ stage' = (IF Len(probes') = Len(Registry) THEN "binding" ELSE "probing")
      /\ probes' = Append(probes, how)
      /\ found' \in {found, Append(found, Registry[Len(probes) + 1])}
      /\ UNCHANGED <<file, models, error>>
    BY DEF Probed
<1>2. Registry[Len(probes) + 1] \in STRING
    BY <1>1, StartupAssumption
<1>3. probes' \in Seq({"found", "none", "raised"}) /\ Len(probes') = Len(probes) + 1
    BY <1>1, AppendFacts
<1>4. found' \in Seq(STRING) /\ Len(found') \in {Len(found), Len(found) + 1}
    <2>1. found \in Seq(STRING)
        OBVIOUS
    <2>2. /\ Append(found, Registry[Len(probes) + 1]) \in Seq(STRING)
          /\ Len(Append(found, Registry[Len(probes) + 1])) = Len(found) + 1
        BY ONLY <1>2, <2>1, AppendFacts
    <2>3. QED
        BY <1>1, <2>1, <2>2
<1>5. Len(probes) \in Nat /\ Len(found) \in Nat /\ Len(Registry) \in Nat
    BY StartupAssumption
<1>6. FoundInOrder'
    BY ProbedKeepsOrder
<1>7. QED
    BY <1>1, <1>3, <1>4, <1>5, <1>6

\* LoadInv is inductive.
LEMMA LoadInvariantHolds == StartupSpec => []LoadInv
<1>1. ASSUME StartupInit
      PROVE  LoadInv
    <2>1. StartupTypeOK
        BY <1>1, EmptyFacts DEF StartupInit, StartupTypeOK
    <2>2. QED
        BY <1>1, <2>1, EmptyFacts, NothingFound DEF StartupInit, LoadInv
<1>2. ASSUME LoadInv, [StartupNext]_startupVars
      PROVE  LoadInv'
    <2> USE <1>2
    <2>1. CASE Load
        <3>1. Result(file) # Null /\ file.service # Null
            BY NullAssumption DEF LoadInv, StartupTypeOK
        <3>2. QED
            BY <2>1, <3>1 DEF Load, LoadInv, StartupTypeOK, FoundInOrder, Lists, Answered
    <2>2. CASE LoadRaises \/ StartAgain \/ BindFails \/ Stop
        BY <2>2, GoneKeepsLoadInv DEF LoadRaises, StartAgain, BindFails, Stop
    <2>3. CASE Probe \/ ProbeRaises
        BY <2>3, ProbedKeepsLoadInv DEF Probe, ProbeRaises
    <2>4. CASE Bind
        BY <2>4 DEF Bind, LoadInv, StartupTypeOK, FoundInOrder, Lists, Answered
    <2>5. CASE RemoveFile \/ PutFile
        <3>1. /\ stage \in {"down", "failed"} /\ file' \in Files
              /\ UNCHANGED <<stage, models, error, probes, found>>
            BY <2>5 DEF RemoveFile, PutFile, Missing, Files
        <3>2. QED
            BY <3>1 DEF LoadInv, StartupTypeOK, FoundInOrder, Lists, Answered
    <2>6. CASE UNCHANGED startupVars
        BY <2>6 DEF startupVars, LoadInv, StartupTypeOK, FoundInOrder, Lists, Answered
    <2>7. QED
        BY <2>1, <2>2, <2>3, <2>4, <2>5, <2>6 DEF StartupNext
<1>3. QED
    BY <1>1, <1>2, PTL DEF StartupSpec

-----------------------------------------------------------------------------

(* main()'s state keeps its types.                                         *)
THEOREM StartupTypeCorrect == StartupSpec => []StartupTypeOK
<1>1. LoadInv => StartupTypeOK
    BY DEF LoadInv
<1>2. QED
    BY <1>1, LoadInvariantHolds, PTL

(* Whatever the config says, no two services of a daemon have the same id, *)
(* none is called "*", and a ComfyUI has a container.                      *)
THEOREM ServicesAreSound == StartupSpec => []ServicesSound
<1>1. LoadInv => ServicesSound
    BY AcceptedIsSound DEF LoadInv, StartupTypeOK, ServicesSound
<1>2. QED
    BY <1>1, LoadInvariantHolds, PTL

(* A daemon without /models and without a reason for it found no config.   *)
THEOREM OffIsExplained == StartupSpec => []OffHasReason
<1>1. LoadInv => OffHasReason
    BY OffIsMissing DEF LoadInv, StartupTypeOK, OffHasReason
<1>2. QED
    BY <1>1, LoadInvariantHolds, PTL

(* A probe that raises costs no other collector, whatever the registry: a  *)
(* daemon that serves has exactly those that were found, in its order.     *)
THEOREM EveryProbeCounts == StartupSpec => []ProbesIsolated
<1>1. LoadInv => ProbesIsolated
    BY DEF LoadInv, ProbesIsolated
<1>2. QED
    BY <1>1, LoadInvariantHolds, PTL


-----------------------------------------------------------------------------
(* Types.                                                                  *)

LEMMA InitEstablishesUpdateInv == Init => UpdateInv
<1> SUFFICES ASSUME Init PROVE UpdateInv
    OBVIOUS
<1> USE UpdateAssumption
<1>1. TypeOK
    <2>1. Unset \in Locals
        BY DEF Unset, Locals
    <2>2. calm \in BOOLEAN /\ harmed \in BOOLEAN
        BY Zenon DEF Init
    <2>3. First \in Versions /\ 0 \in 0 .. MaxEvents
        OBVIOUS
    <2>4. QED
        BY <2>1, <2>2, <2>3 DEF Init, TypeOK, Steps
<1>2. AloneInv /\ TargetInv
    BY DEF Init, AloneInv, TargetInv, OnTarget, Steps, Quiet
<1>3. WholeInv
    BY DEF Init, WholeInv, Accounted, Applied, Ended
<1>4. CalmInv
    BY DEF Init, CalmInv, AllQuiet, Healthy
<1>5. SettledInv
    BY DEF Init, SettledInv, Started
<1>6. QED
    BY <1>1, <1>2, <1>3, <1>4, <1>5 DEF UpdateInv

LEMMA StartedTyped == TypeOK => Started \in {head, Down} /\ Started \in Versions \cup {Down}
BY DEF TypeOK, Started

LEMMA MachineKeepsTypes ==
    ASSUME TypeOK, Crash \/ \E v \in Versions : Push(v)
    PROVE  TypeOK'
<1> USE UpdateAssumption
<1>1. CASE Crash
    <2>1. Unset \in Locals
        BY DEF Unset, Locals
    <2>2. running' \in Versions \cup {Down}
        BY <1>1, StartedTyped DEF Crash
    <2>3. events' \in 0 .. MaxEvents
        BY <1>1 DEF Crash, TypeOK
    <2>4. QED
        BY <1>1, <2>1, <2>2, <2>3 DEF Crash, TypeOK, Steps
<1>2. ASSUME NEW v \in Versions, Push(v) PROVE TypeOK'
    BY <1>2 DEF Push, TypeOK, machine, history
<1>3. QED
    BY <1>1, <1>2

LEMMA RunKeepsTypes ==
    ASSUME TypeOK, NEW u \in Updaters, Run(u)
    PROVE  TypeOK'
<1> USE UpdateAssumption DEF TypeOK, world, machine, history, Go
<1>0. 0 \in 0 .. MaxTries - 1
    OBVIOUS
<1>1. local[u] \in Locals
    OBVIOUS
<1>2. CASE Fetch(u) \/ FetchFails(u)
    <2>1. ASSUME NEW x \in {"aborted", "none"}, NEW b \in BOOLEAN
          PROVE  [Unset EXCEPT !.exit = x, !.alone = b] \in Locals
        <3>1. Unset \in Locals
            BY <1>0 DEF Unset, Locals
        <3>2. QED
            BY <3>1 DEF Locals
    <2>2. \A v \in Updaters : [local[v] EXCEPT !.alone = FALSE] \in Locals
        BY DEF Locals
    <2>3. PICK to \in {"old", "done"}, x \in {"aborted", "none"} : Begin(u, to, x)
        BY <1>2 DEF Fetch, FetchFails
    <2>4. local' \in [Updaters -> Locals]
        <3>1. PICK b \in BOOLEAN : b = (Others(u) = {})
            OBVIOUS
        <3>2. PICK l \in Locals : l = [Unset EXCEPT !.exit = x, !.alone = b]
            BY <2>1
        <3>3. \A v \in Updaters :
                local'[v] \in {l, local[v], [local[v] EXCEPT !.alone = FALSE]}
            BY <2>3, <3>1, <3>2 DEF Begin
        <3>4. local' = [v \in Updaters |-> local'[v]]
            BY <2>3 DEF Begin
        <3>5. QED
            BY <2>2, <3>3, <3>4
    <2>5. calm' \in BOOLEAN /\ harmed' \in BOOLEAN
        BY <2>3 DEF Begin
    <2>6. pc' \in [Updaters -> Steps]
        BY <2>3 DEF Begin, Steps
    <2>7. fetched' \in Versions
        BY <1>2 DEF Fetch, FetchFails
    <2>8. QED
        BY <2>3, <2>4, <2>5, <2>6, <2>7 DEF Begin
<1>13. CASE ReadOld(u) \/ UpToDate(u) \/ Outdated(u)
    <2>1. /\ [local[u] EXCEPT !.old = head] \in Locals
          /\ [local[u] EXCEPT !.new = fetched, !.exit = "current"] \in Locals
          /\ [local[u] EXCEPT !.new = fetched, !.target = fetched] \in Locals
        BY <1>1 DEF Locals
    <2>2. local' \in [Updaters -> Locals]
        BY <1>13, <2>1 DEF ReadOld, UpToDate, Outdated
    <2>3. pc' \in [Updaters -> Steps]
        BY <1>13 DEF ReadOld, UpToDate, Outdated, Steps
    <2>4. QED
        BY <1>13, <2>2, <2>3 DEF ReadOld, UpToDate, Outdated
<1>3. CASE GitReset(u)
    <2>1. local[u].target \in Versions
        BY <1>1 DEF Locals
    <2>2. QED
        BY <1>3, <2>1 DEF GitReset, Steps
<1>4. CASE PipInstall(u)
    BY <1>4 DEF PipInstall, Steps
<1>5. CASE Render(u)
    BY <1>5 DEF Render, Steps
<1>6. CASE StepFails(u)
    <2>1. [local[u] EXCEPT !.failed = TRUE] \in Locals
        BY <1>1 DEF Locals
    <2>2. local' \in [Updaters -> Locals]
        BY <1>6, <2>1 DEF StepFails
    <2>3. QED
        BY <1>6, <2>2 DEF StepFails, Steps
<1>7. CASE Restart(u)
    BY <1>7, StartedTyped DEF Restart, Then, Steps
<1>8. CASE RestartFails(u) \/ StaysSilent(u)
    <2>1. PICK l \in Locals : \/ local' = [local EXCEPT ![u] = l]
                              \/ local' = [local EXCEPT ![u] = GivenUp(l)]
        <3>1. [local[u] EXCEPT !.failed = TRUE] \in Locals
            BY <1>1 DEF Locals
        <3>2. QED
            BY <1>1, <1>8, <3>1 DEF RestartFails, StaysSilent, RollBack
    <2>2. GivenUp(l) \in Locals
        BY <1>0 DEF GivenUp, Locals
    <2>3. local' \in [Updaters -> Locals]
        BY <2>1, <2>2
    <2>4. pc' \in [Updaters -> Steps]
        BY <1>8 DEF RestartFails, StaysSilent, RollBack, Steps
    <2>5. calm' \in BOOLEAN /\ harmed' \in BOOLEAN
        BY <1>8 DEF RestartFails, StaysSilent
    <2>6. QED
        BY <1>8, <2>3, <2>4, <2>5 DEF RestartFails, StaysSilent
<1>9. CASE Answers(u)
    <2>1. [local[u] EXCEPT !.exit = "ok", !.answered = running] \in Locals
        BY <1>1 DEF Locals
    <2>2. local' \in [Updaters -> Locals]
        BY <1>9, <2>1 DEF Answers
    <2>3. QED
        BY <1>9, <2>2 DEF Answers, Steps
<1>10. CASE AsksAgain(u)
    <2>1. [local[u] EXCEPT !.tries = local[u].tries + 1] \in Locals
        <3>1. local[u].tries + 1 \in 0 .. MaxTries - 1
            <4>1. local[u].tries \in 0 .. MaxTries - 1
                BY <1>1 DEF Locals
            <4>2. local[u].tries + 1 < MaxTries
                BY <1>10 DEF AsksAgain
            <4>3. QED
                BY <4>1, <4>2
        <3>2. QED
            BY <1>1, <3>1 DEF Locals
    <2>2. QED
        BY <1>10, <2>1 DEF AsksAgain
<1>11. CASE Exit(u)
    <2>1. Unset \in Locals
        BY DEF Unset, Locals
    <2>2. QED
        BY <1>11, <2>1 DEF Exit, Steps
<1>12. QED
    BY <1>2, <1>3, <1>4, <1>5, <1>6, <1>7, <1>8, <1>9, <1>10, <1>11, <1>13 DEF Run

-----------------------------------------------------------------------------
(* One step of a run.                                                      *)

\* A step of u, which is under way, keeps the invariant if it does for u.
LEMMA StepConcernsOne ==
    ASSUME UpdateInv, NEW u \in Updaters, pc[u] # "idle",
           pc' = [pc EXCEPT ![u] = pc'[u]], local' = [local EXCEPT ![u] = local'[u]],
           pc'[u] # "idle" => local'[u].alone = local[u].alone,
           OnTarget(u)', (Whole(u) => Accounted(u))',
           calm' => /\ calm
                    /\ pc'[u] # "idle" => /\ local'[u].failed = local[u].failed
                                         /\ local'[u].old \in Good
                    /\ pc'[u] \in Quiet => Healthy'
    PROVE  AloneInv' /\ TargetInv' /\ WholeInv' /\ CalmInv'
<1> USE DEF UpdateInv, TypeOK
<1>1. \A v \in Updaters : v # u => pc'[v] = pc[v] /\ local'[v] = local[v]
    OBVIOUS
<1>2. \A v \in Updaters : v # u /\ pc[v] # "idle" => ~local[v].alone /\ ~local[u].alone
    BY DEF AloneInv
<1>3. AloneInv'
    BY <1>1, <1>2 DEF AloneInv
<1>4. TargetInv'
    BY <1>1 DEF TargetInv, OnTarget, Quiet
<1>5. WholeInv'
    <2> SUFFICES ASSUME NEW v \in Updaters, Whole(v)', v # u PROVE Accounted(v)'
        BY DEF WholeInv
    <2>1. pc'[v] = "idle"
        BY <1>1, <1>2 DEF Whole
    <2>2. QED
        BY <2>1 DEF Accounted, Applied, Ended
<1>6. CalmInv'
    <2> SUFFICES ASSUME calm' PROVE (\A v \in Updaters :
                    pc[v] # "idle" => Whole(v) /\ local[v].old \in Good)'
                 /\ (AllQuiet => Healthy)'
        BY DEF CalmInv
    <2>1. calm /\ \A v \in Updaters : pc[v] # "idle" => Whole(v) /\ local[v].old \in Good
        BY DEF CalmInv
    <2>2. (\A v \in Updaters : pc[v] # "idle" => Whole(v) /\ local[v].old \in Good)'
        BY <1>1, <2>1 DEF Whole
    <2>3. (AllQuiet => Healthy)'
        BY DEF AllQuiet
    <2>4. QED
        BY <2>2, <2>3
<1>7. QED
    BY <1>3, <1>4, <1>5, <1>6

\* Facts about a run that is under way in calm weather.
LEMMA CalmRun ==
    ASSUME UpdateInv, NEW u \in Updaters, pc[u] # "idle", calm
    PROVE  Whole(u) /\ local[u].old \in Good /\ Accounted(u)
BY DEF UpdateInv, CalmInv, WholeInv

\* In calm weather, a run that has not written to the machine, or is through,
\* finds it healthy.
LEMMA CalmQuiet ==
    ASSUME UpdateInv, NEW u \in Updaters, pc[u] \in Quiet \ {"idle"}, calm
    PROVE  Healthy
<1> USE DEF UpdateInv, TypeOK
<1>1. \A v \in Updaters : v # u => pc[v] = "idle"
    BY CalmRun DEF AloneInv, Whole
<1>2. AllQuiet
    BY <1>1 DEF AllQuiet, Quiet
<1>3. QED
    BY <1>2 DEF CalmInv

\* Reading the two commits, and comparing them.
LEMMA ReadingKeepsUpdateInv ==
    ASSUME UpdateInv, NEW u \in Updaters, ReadOld(u) \/ UpToDate(u) \/ Outdated(u)
    PROVE  AloneInv' /\ TargetInv' /\ WholeInv' /\ CalmInv'
<1> USE DEF UpdateInv, TypeOK, Go, machine, history
<1>1. /\ pc[u] \in {"old", "new"} /\ UNCHANGED <<machine, history>>
      /\ pc' = [pc EXCEPT ![u] = pc'[u]]
      /\ local' = [local EXCEPT ![u] = local'[u]]
    BY DEF ReadOld, UpToDate, Outdated
<1>2. /\ local'[u].alone = local[u].alone /\ local'[u].failed = local[u].failed
      /\ local'[u].old \in {local[u].old, head}
    BY DEF ReadOld, UpToDate, Outdated, Locals
<1>3. \/ pc'[u] = "new" /\ local'[u].exit = local[u].exit
      \/ pc'[u] = "done" /\ local'[u].exit = "current"
      \/ /\ pc'[u] = "reset" /\ local'[u].exit = local[u].exit
         /\ local'[u].target = local'[u].new
    BY DEF ReadOld, UpToDate, Outdated, Locals
<1>4. local[u].exit = "none"
    BY <1>1 DEF TargetInv, OnTarget
<1>5. OnTarget(u)'
    BY <1>3, <1>4 DEF OnTarget, Steps, Quiet
<1>6. Accounted(u)'
    BY <1>3, <1>4 DEF Accounted, Applied, Ended
<1>7. calm => Healthy /\ local[u].old \in Good
    BY <1>1, CalmQuiet, CalmRun DEF Quiet
<1>8. calm' => calm /\ Healthy' /\ local'[u].old \in Good
    BY <1>1, <1>2, <1>7 DEF Healthy
<1>9. QED
    BY <1>1, <1>2, <1>5, <1>6, <1>8, StepConcernsOne

LEMMA ApplyKeepsUpdateInv ==
    ASSUME UpdateInv, NEW u \in Updaters, GitReset(u) \/ PipInstall(u) \/ Render(u)
    PROVE  AloneInv' /\ TargetInv' /\ WholeInv' /\ CalmInv'
<1> USE DEF UpdateInv, TypeOK, Go, history
<1>1. pc[u] \in {"reset", "pip", "render"} /\ local' = local /\ calm' = calm
    BY DEF GitReset, PipInstall, Render
<1>2. /\ pc' = [pc EXCEPT ![u] = pc'[u]]
      /\ pc'[u] \in {"pip", "render", "restart"}
    BY DEF GitReset, PipInstall, Render
<1>3. OnTarget(u)'
    BY <1>1, <1>2 DEF TargetInv, OnTarget, Steps, Quiet
<1>4. (Whole(u) => Accounted(u))'
    <2>1. Whole(u)' => Whole(u) /\ Applied(u, local[u].target)
        BY <1>1 DEF Whole, WholeInv, Accounted
    <2>2. Whole(u)' => Applied(u, local[u].target)'
        BY <1>1, <1>2, <2>1 DEF Applied, GitReset, PipInstall, Render
    <2>3. QED
        BY <1>1, <1>2, <2>2 DEF Accounted, Ended
<1>5. QED
    <2>1. pc'[u] \notin Quiet /\ local'[u] = local[u]
        BY <1>1, <1>2 DEF Quiet
    <2>2. calm => local[u].old \in Good
        BY <1>1, CalmRun
    <2>3. QED
        BY <1>1, <1>2, <1>3, <1>4, <2>1, <2>2, StepConcernsOne

LEMMA FailingKeepsUpdateInv ==
    ASSUME UpdateInv, NEW u \in Updaters, StepFails(u) \/ RestartFails(u)
    PROVE  AloneInv' /\ TargetInv' /\ WholeInv' /\ CalmInv'
<1> USE DEF UpdateInv, TypeOK, Go
<1>1. /\ pc[u] \in {"reset", "pip", "render", "restart"} /\ calm' = FALSE
      /\ pc' = [pc EXCEPT ![u] = pc'[u]]
    BY DEF StepFails, RestartFails, RollBack
<1>2. PICK l : /\ local' = [local EXCEPT ![u] = l]
               /\ l.alone = local[u].alone /\ l.failed = TRUE
               /\ OnTarget(u)'
    <2>1. CASE StepFails(u)
        <3> DEFINE l == [local[u] EXCEPT !.failed = TRUE]
        <3>1. local' = [local EXCEPT ![u] = l] /\ l.alone = local[u].alone /\ l.failed = TRUE
            BY <2>1 DEF StepFails, Locals
        <3>2. l.exit = local[u].exit /\ l.target = local[u].target
                /\ l.new = local[u].new /\ l.old = local[u].old
            BY DEF Locals
        <3>3. pc'[u] \in {"pip", "render", "restart"}
            BY <2>1 DEF StepFails
        <3>4. local'[u] = l
            BY <3>1
        <3> HIDE DEF l
        <3>5. OnTarget(u)'
            BY <1>1, <3>2, <3>3, <3>4 DEF TargetInv, OnTarget, Steps, Quiet
        <3>6. QED
            BY <3>1, <3>5
    <2>2. CASE RestartFails(u)
        <3> DEFINE l == [local[u] EXCEPT !.failed = TRUE]
        <3>1. l \in Locals /\ l.failed = TRUE /\ l.alone = local[u].alone /\ l.exit = local[u].exit
            BY DEF Locals
        <3>2. CASE l.exit = "failed" /\ pc' = [pc EXCEPT ![u] = "done"]
                   /\ local' = [local EXCEPT ![u] = l]
            <4>1. local'[u] = l /\ pc'[u] = "done"
                BY <3>2
            <4>2. OnTarget(u)'
                BY <3>2, <4>1 DEF OnTarget, Steps, Quiet
            <4>3. QED
                BY <3>1, <3>2, <4>2
        <3>3. CASE RollBack(u, l)
            <4> DEFINE g == GivenUp(l)
            <4>1. /\ g.alone = local[u].alone /\ g.failed = TRUE
                  /\ g.exit = "failed" /\ g.target = g.old
                BY <3>1 DEF GivenUp, Locals
            <4>2. local' = [local EXCEPT ![u] = g] /\ pc'[u] = "reset"
                BY <3>3 DEF RollBack
            <4>3. local'[u] = g
                BY <4>2
            <4> HIDE DEF g
            <4>4. OnTarget(u)'
                BY <4>1, <4>2, <4>3 DEF OnTarget, Steps, Quiet
            <4>5. QED
                BY <4>1, <4>2, <4>4
        <3>4. QED
            BY <2>2, <3>2, <3>3 DEF RestartFails
    <2>3. QED
        BY <2>1, <2>2
<1>3. local'[u] = l
    BY <1>2
<1>4. ~Whole(u)'
    BY <1>2, <1>3 DEF Whole
<1>5. QED
    BY <1>1, <1>2, <1>3, <1>4, StepConcernsOne

\* What a run on target finds once its daemon was started.
LEMMA StartedOnTarget ==
    ASSUME UpdateInv, NEW v \in Versions, head = v, deps = v
    PROVE  /\ Started # Down => Started = v /\ v \in Good
           /\ v \in Good => Started = v
BY UpdateAssumption DEF UpdateInv, TypeOK, Started

LEMMA RestartKeepsUpdateInv ==
    ASSUME UpdateInv, NEW u \in Updaters, Restart(u)
    PROVE  AloneInv' /\ TargetInv' /\ WholeInv' /\ CalmInv'
<1> USE DEF UpdateInv, TypeOK, Go, history
<1>1. /\ pc[u] = "restart" /\ pc' = [pc EXCEPT ![u] = Then(u)] /\ running' = Started
      /\ UNCHANGED <<head, deps, unit, local, calm>>
    BY DEF Restart
<1>2. pc'[u] = Then(u) /\ local'[u] = local[u] /\ Started' = Started
    BY <1>1 DEF Started
<1>3. OnTarget(u)'
    BY <1>1, <1>2 DEF TargetInv, OnTarget, Then, Steps, Quiet
<1>4. Whole(u) => head = local[u].target /\ deps = local[u].target /\ unit = local[u].target
    BY <1>1 DEF WholeInv, Accounted, Applied
<1>5. local[u].exit = "failed" => local[u].target = local[u].old
    BY <1>1 DEF TargetInv, OnTarget, Steps, Quiet
<1>6. (Whole(u) => Accounted(u))'
    BY <1>1, <1>2, <1>4, <1>5 DEF Whole, Accounted, Applied, Ended, Then
<1>7. calm' /\ pc'[u] \in Quiet => Healthy'
    <2> SUFFICES ASSUME calm, Then(u) = "done" PROVE Healthy'
        BY <1>1, <1>2 DEF Then, Quiet
    <2>1. local[u].target = local[u].old /\ local[u].old \in Good /\ Whole(u)
        BY <1>1, <1>5, CalmRun DEF Then
    <2>2. local[u].target \in Good /\ local[u].target \in Versions
        BY <2>1, UpdateAssumption
    <2>3. Started = local[u].target
        BY <1>4, <2>1, <2>2, StartedOnTarget
    <2>4. QED
        BY <1>1, <1>4, <2>1, <2>2, <2>3 DEF Healthy
<1>8. calm => local[u].old \in Good
    BY <1>1, CalmRun
<1>9. QED
    BY <1>1, <1>2, <1>3, <1>6, <1>7, <1>8, StepConcernsOne

LEMMA AnswersKeepsUpdateInv ==
    ASSUME UpdateInv, NEW u \in Updaters, Answers(u)
    PROVE  AloneInv' /\ TargetInv' /\ WholeInv' /\ CalmInv'
<1> USE DEF UpdateInv, TypeOK, Go, machine, history
<1> DEFINE l == [local[u] EXCEPT !.exit = "ok", !.answered = running]
<1>1. /\ pc[u] = "health" /\ pc' = [pc EXCEPT ![u] = "done"] /\ running # Down
      /\ local' = [local EXCEPT ![u] = l] /\ UNCHANGED <<machine, calm>>
    BY DEF Answers
<1>2. /\ l.exit = "ok" /\ l.answered = running /\ l.new = local[u].new
      /\ l.old = local[u].old /\ l.alone = local[u].alone /\ l.failed = local[u].failed
    BY DEF Locals
<1>3. local'[u] = l /\ pc'[u] = "done"
    BY <1>1
<1> HIDE DEF l
<1>4. OnTarget(u)'
    BY <1>2, <1>3 DEF OnTarget, Steps, Quiet
<1>5. Whole(u) => /\ head = local[u].target /\ deps = head /\ unit = head
                  /\ running = head /\ head \in Good /\ local[u].target = local[u].new
    <2> SUFFICES ASSUME Whole(u)
                 PROVE  /\ head = local[u].target /\ deps = head /\ unit = head
                        /\ running = head /\ head \in Good /\ local[u].target = local[u].new
        OBVIOUS
    <2>1. head = local[u].target /\ deps = head /\ unit = head /\ running = Started
        BY <1>1 DEF WholeInv, Accounted, Applied
    <2>2. Started = head /\ head \in Good
        BY <1>1, <2>1, StartedOnTarget
    <2>3. local[u].target = local[u].new
        BY <1>1 DEF TargetInv, OnTarget, Steps, Quiet
    <2>4. QED
        BY <2>1, <2>2, <2>3
<1>6. (Whole(u) => Accounted(u))'
    BY <1>1, <1>2, <1>3, <1>5 DEF Whole, Accounted, Applied, Ended
<1>7. calm' => Healthy' /\ local[u].old \in Good
    BY <1>1, <1>5, CalmRun DEF Healthy
<1>8. QED
    BY <1>1, <1>2, <1>3, <1>4, <1>6, <1>7, StepConcernsOne

LEMMA AskingKeepsUpdateInv ==
    ASSUME UpdateInv, NEW u \in Updaters, AsksAgain(u) \/ StaysSilent(u)
    PROVE  AloneInv' /\ TargetInv' /\ WholeInv' /\ CalmInv'
<1> USE DEF UpdateInv, TypeOK, Go, machine, history
<1>0. pc[u] # "idle" /\ calm => local[u].old \in Good
    BY CalmRun
<1>1. CASE AsksAgain(u)
    <2> DEFINE l == [local[u] EXCEPT !.tries = local[u].tries + 1]
    <2>1. /\ pc[u] = "health" /\ pc' = pc /\ UNCHANGED <<machine, calm>>
          /\ local' = [local EXCEPT ![u] = l]
        BY <1>1 DEF AsksAgain
    <2>2. /\ l.exit = local[u].exit /\ l.answered = local[u].answered
          /\ l.new = local[u].new /\ l.old = local[u].old /\ l.target = local[u].target
          /\ l.alone = local[u].alone /\ l.failed = local[u].failed
        BY DEF Locals
    <2>3. local'[u] = l /\ Started' = Started
        BY <2>1 DEF Started
    <2> HIDE DEF l
    <2>4. OnTarget(u)'
        BY <2>1, <2>2, <2>3 DEF TargetInv, OnTarget, Quiet
    <2>5. (Whole(u) => Accounted(u))'
        BY <2>1, <2>2, <2>3 DEF WholeInv, Whole, Accounted, Applied, Ended
    <2>6. pc'[u] \notin Quiet
        BY <2>1 DEF Quiet
    <2>7. QED
        BY <1>0, <2>1, <2>2, <2>3, <2>4, <2>5, <2>6, StepConcernsOne
<1>2. CASE StaysSilent(u)
    <2> DEFINE l == GivenUp(local[u])
    <2>1. /\ pc[u] = "health" /\ pc' = [pc EXCEPT ![u] = "reset"] /\ UNCHANGED <<machine, calm>>
          /\ local' = [local EXCEPT ![u] = l]
        BY <1>2 DEF StaysSilent, RollBack
    <2>2. /\ l.exit = "failed" /\ l.target = l.old /\ l.old = local[u].old
          /\ l.alone = local[u].alone /\ l.failed = local[u].failed
        BY DEF Locals, GivenUp
    <2>3. local'[u] = l /\ pc'[u] = "reset"
        BY <2>1
    <2> HIDE DEF l
    <2>4. OnTarget(u)'
        BY <2>2, <2>3 DEF OnTarget, Quiet
    <2>5. (Whole(u) => Accounted(u))'
        BY <2>3 DEF Accounted, Applied, Ended
    <2>6. pc'[u] \notin Quiet
        BY <2>3 DEF Quiet
    <2>7. QED
        BY <1>0, <2>1, <2>2, <2>3, <2>4, <2>5, <2>6, StepConcernsOne
<1>3. QED
    BY <1>1, <1>2

LEMMA ExitKeepsUpdateInv ==
    ASSUME UpdateInv, NEW u \in Updaters, Exit(u)
    PROVE  AloneInv' /\ TargetInv' /\ WholeInv' /\ CalmInv'
<1> USE DEF UpdateInv, TypeOK, Go, machine, history
<1>1. /\ pc[u] = "done" /\ pc' = [pc EXCEPT ![u] = "idle"] /\ UNCHANGED <<machine, calm>>
      /\ local' = [local EXCEPT ![u] = Unset]
    BY DEF Exit
<1>2. pc'[u] = "idle" /\ local'[u] = Unset
    BY <1>1
<1>3. OnTarget(u)' /\ Accounted(u)'
    BY <1>2 DEF OnTarget, Accounted, Applied, Ended, Steps, Quiet
<1>4. calm' => Healthy'
    BY <1>1, CalmQuiet DEF Healthy, Quiet
<1>5. QED
    BY <1>1, <1>2, <1>3, <1>4, StepConcernsOne

-----------------------------------------------------------------------------
(* A new run, and the world.                                               *)

LEMMA BeginKeepsUpdateInv ==
    ASSUME UpdateInv, NEW u \in Updaters, Fetch(u) \/ FetchFails(u)
    PROVE  AloneInv' /\ TargetInv' /\ WholeInv' /\ CalmInv'
<1> USE DEF UpdateInv, TypeOK, Go, machine
<1>1. PICK to, result :
        /\ Begin(u, to, result)
        /\ \/ to = "done" /\ result = "aborted"
           \/ to = "old" /\ result = "none"
    BY DEF Fetch, FetchFails
<1>2. PICK b \in BOOLEAN : b = (Others(u) = {})
    OBVIOUS
<1> DEFINE l == [Unset EXCEPT !.exit = result, !.alone = Others(u) = {}]
<1>3. /\ pc[u] = "idle" /\ pc' = [pc EXCEPT ![u] = to] /\ UNCHANGED machine
      /\ local'[u] = l
      /\ \A v \in Updaters : v # u =>
            local'[v] = IF v \in Others(u) THEN [local[v] EXCEPT !.alone = FALSE] ELSE local[v]
    BY <1>1 DEF Begin
<1>4. l.old = First /\ l.exit = result /\ l.alone = b /\ l.failed = FALSE
    BY <1>2 DEF Unset
<1> HIDE DEF l
<1>5. calm' = (calm /\ b)
    BY <1>1, <1>2 DEF Begin
<1>6. \A v \in Updaters : v # u /\ pc[v] # "idle" =>
            /\ ~b /\ local'[v].alone = FALSE /\ pc'[v] = pc[v]
            /\ local'[v].exit = local[v].exit /\ local'[v].target = local[v].target
            /\ local'[v].new = local[v].new /\ local'[v].old = local[v].old
    <2> SUFFICES ASSUME NEW v \in Updaters, v # u, pc[v] # "idle"
                 PROVE  /\ ~b /\ local'[v].alone = FALSE /\ pc'[v] = pc[v]
                        /\ local'[v].exit = local[v].exit /\ local'[v].target = local[v].target
                        /\ local'[v].new = local[v].new /\ local'[v].old = local[v].old
        OBVIOUS
    <2>1. v \in Others(u)
        BY DEF Others
    <2>2. local'[v] = [local[v] EXCEPT !.alone = FALSE]
        BY <1>3, <2>1
    <2>3. ~b
        BY <1>2, <2>1
    <2>4. pc'[v] = pc[v]
        BY <1>3
    <2>5. local[v] \in Locals
        OBVIOUS
    <2>6. QED
        BY <2>2, <2>3, <2>4, <2>5 DEF Locals
<1>7. \A v \in Updaters : v # u /\ pc[v] = "idle" => pc'[v] = "idle"
    BY <1>3
<1>8. AloneInv'
    <2>1. b => \A v \in Updaters : v # u => pc[v] = "idle"
        BY <1>6
    <2>2. QED
        BY <1>3, <1>4, <1>6, <1>7, <2>1 DEF AloneInv
<1>9. TargetInv'
    BY <1>1, <1>3, <1>4, <1>6, <1>7 DEF TargetInv, OnTarget, Steps, Quiet
<1>10. WholeInv'
    <2>1. Accounted(u)'
        BY <1>1, <1>3, <1>4 DEF Accounted, Applied, Ended
    <2>2. \A v \in Updaters : v # u => (pc'[v] = "idle" \/ ~Whole(v)')
        BY <1>6, <1>7 DEF Whole
    <2>3. \A v \in Updaters : pc'[v] = "idle" => Accounted(v)'
        BY DEF Accounted, Applied, Ended
    <2>4. QED
        BY <2>1, <2>2, <2>3 DEF WholeInv
<1>11. CalmInv'
    <2> SUFFICES ASSUME calm, b
                 PROVE  /\ (\A v \in Updaters :
                                pc[v] # "idle" => Whole(v) /\ local[v].old \in Good)'
                        /\ Healthy'
        BY <1>1, <1>5 DEF CalmInv
    <2>1. \A v \in Updaters : pc[v] = "idle"
        BY <1>3, <1>6
    <2>2. Healthy /\ Healthy'
        BY <1>3, <2>1 DEF CalmInv, AllQuiet, Quiet, Healthy
    <2>3. \A v \in Updaters : pc'[v] # "idle" => v = u
        BY <1>7, <2>1
    <2>4. QED
        BY <1>3, <1>4, <2>2, <2>3, UpdateAssumption DEF Whole, Healthy
<1>12. QED
    BY <1>8, <1>9, <1>10, <1>11

LEMMA WorldKeepsUpdateInv ==
    ASSUME UpdateInv, Crash \/ \E v \in Versions : Push(v)
    PROVE  AloneInv' /\ TargetInv' /\ WholeInv' /\ CalmInv'
<1>1. CASE Crash
    <2>1. calm' = FALSE /\ \A v \in Updaters : pc'[v] = "idle"
        BY <1>1 DEF Crash
    <2>2. QED
        BY <2>1 DEF AloneInv, TargetInv, OnTarget, WholeInv, Accounted, Applied, Ended,
                    CalmInv, Steps, Quiet
<1>2. CASE \E v \in Versions : Push(v)
    <2>1. UNCHANGED <<head, deps, unit, running, pc, local, calm>>
        BY <1>2 DEF Push, machine, history
    <2>2. QED
        BY <2>1 DEF UpdateInv, AloneInv, TargetInv, OnTarget, WholeInv, Whole, Accounted,
                    Applied, Ended, CalmInv, AllQuiet, Healthy, Started
<1>3. QED
    BY <1>1, <1>2

-----------------------------------------------------------------------------

\* Who writes leaves its successor to do, and who ends has none left.
LEMMA NextKeepsSettled ==
    ASSUME UpdateInv, [Next]_vars
    PROVE  SettledInv'
<1> USE DEF UpdateInv, TypeOK, SettledInv, Go
<1>1. CASE Crash
    BY <1>1 DEF Crash
<1>2. ASSUME UNCHANGED <<machine, harmed>>,
             \A v \in Updaters : pc[v] \in {"pip", "render", "restart"} => pc'[v] = pc[v]
      PROVE  SettledInv'
    <2>1. Started' = Started
        BY <1>2 DEF Started, machine
    <2>2. QED
        BY <1>2, <2>1 DEF machine
<1>3. ASSUME NEW v \in Versions, Push(v) PROVE SettledInv'
    BY <1>2, <1>3 DEF Push, history
<1>4. ASSUME NEW u \in Updaters, Run(u) PROVE SettledInv'
    <2>1. CASE Fetch(u) \/ FetchFails(u)
        BY <1>2, <2>1 DEF Fetch, FetchFails, Begin
    <2>2. CASE \/ ReadOld(u) \/ UpToDate(u) \/ Outdated(u)
               \/ Answers(u) \/ AsksAgain(u) \/ StaysSilent(u) \/ Exit(u)
        BY <1>2, <2>2 DEF ReadOld, UpToDate, Outdated, Answers, AsksAgain, StaysSilent,
                          RollBack, Exit, history
    <2>3. CASE StepFails(u) \/ RestartFails(u)
        BY <2>3 DEF StepFails, RestartFails
    <2>4. CASE GitReset(u)
        BY <2>4 DEF GitReset, history
    <2>5. CASE PipInstall(u)
        <3>1. deps' = head' /\ unit' = unit /\ head' = head /\ harmed' = harmed
              /\ pc' = [pc EXCEPT ![u] = "render"]
            BY <2>5 DEF PipInstall, history
        <3>2. pc'[u] = "render"
            BY <3>1
        <3>3. QED
            BY <3>1, <3>2
    <2>6. CASE Render(u)
        <3>1. deps' = deps /\ unit' = head' /\ head' = head /\ harmed' = harmed
              /\ pc' = [pc EXCEPT ![u] = "restart"] /\ pc[u] = "render"
            BY <2>6 DEF Render, history
        <3>2. pc'[u] = "restart" /\ \A v \in Updaters : pc[v] = "pip" => pc'[v] = "pip"
            BY <3>1
        <3>3. QED
            BY <3>1, <3>2
    <2>7. CASE Restart(u)
        <3>1. /\ UNCHANGED <<head, deps, unit, harmed>> /\ running' = Started
              /\ pc' = [pc EXCEPT ![u] = Then(u)] /\ pc[u] = "restart"
            BY <2>7 DEF Restart, history
        <3>2. Started' = Started
            BY <3>1 DEF Started
        <3>3. \A v \in Updaters : pc[v] \in {"pip", "render"} => pc'[v] = pc[v]
            BY <3>1
        <3>4. QED
            BY <3>1, <3>2, <3>3
    <2>8. QED
        BY <1>4, <2>1, <2>2, <2>3, <2>4, <2>5, <2>6, <2>7 DEF Run
<1>5. CASE UNCHANGED vars
    BY <1>2, <1>5 DEF vars, history
<1>6. QED
    BY <1>1, <1>3, <1>4, <1>5 DEF Next

LEMMA NextKeepsUpdateInv == UpdateInv /\ [Next]_vars => UpdateInv'
<1> SUFFICES ASSUME UpdateInv, [Next]_vars PROVE UpdateInv'
    OBVIOUS
<1>0. SettledInv'
    BY NextKeepsSettled
<1>1. CASE Crash \/ \E v \in Versions : Push(v)
    BY <1>0, <1>1, MachineKeepsTypes, WorldKeepsUpdateInv DEF UpdateInv
<1>2. ASSUME NEW u \in Updaters, Run(u) PROVE UpdateInv'
    <2>1. TypeOK'
        BY <1>2, RunKeepsTypes DEF UpdateInv
    <2>2. AloneInv' /\ TargetInv' /\ WholeInv' /\ CalmInv'
        BY <1>2, BeginKeepsUpdateInv, ReadingKeepsUpdateInv, ApplyKeepsUpdateInv, FailingKeepsUpdateInv,
           RestartKeepsUpdateInv, AnswersKeepsUpdateInv, AskingKeepsUpdateInv,
           ExitKeepsUpdateInv
        DEF Run
    <2>3. QED
        BY <1>0, <2>1, <2>2 DEF UpdateInv
<1>3. CASE UNCHANGED vars
    BY <1>0, <1>3 DEF vars, world, machine, history, UpdateInv, TypeOK, AloneInv, TargetInv, OnTarget,
                WholeInv, Whole, Accounted, Applied, Ended, CalmInv, AllQuiet, Healthy, Started
<1>4. QED
    BY <1>1, <1>2, <1>3 DEF Next

LEMMA UpdateInvariantHolds == Spec => []UpdateInv
BY InitEstablishesUpdateInv, NextKeepsUpdateInv, PTL DEF Spec

(* The locals of every run, the machine and main keep their types, for any *)
(* number of updaters and commits.                                         *)
THEOREM UpdateTypeCorrect == Spec => []TypeOK
<1>1. UpdateInv => TypeOK
    BY DEF UpdateInv
<1>2. QED
    BY <1>1, UpdateInvariantHolds, PTL

(* "update ok ($new)" is not printed for a version that did not answer: a  *)
(* run of update.sh that is alone and whole asks the daemon it started     *)
(* itself, from the commit it names.                                       *)
THEOREM OkIsForTheAnswer == Spec => []OkNamesTheAnswer
<1>1. UpdateInv => OkNamesTheAnswer
    BY DEF UpdateInv, OkNamesTheAnswer, WholeInv, Whole, Accounted
<1>2. QED
    BY <1>1, UpdateInvariantHolds, PTL

(* The roll back of update.sh restores the commit, the requirements and    *)
(* the units, wherever a crash or another run had left them before.        *)
THEOREM RollBackRestores == Spec => []FailureUndone
<1>1. UpdateInv => FailureUndone
    BY DEF UpdateInv, FailureUndone, WholeInv, Whole, Accounted
<1>2. QED
    BY <1>1, UpdateInvariantHolds, PTL

(* Undisturbed updates cost an outage and never the service, whichever     *)
(* commits of main were bad: after each of them a daemon answers, and it   *)
(* is the one that is checked out.  And however runs overlap, requirements,*)
(* units and daemon are in the end those of the commit that is checked out.*)
THEOREM UpdatesEndHealthy == Spec => []EndsHealthy
<1>1. UpdateInv => EndsHealthy
    <2> SUFFICES ASSUME UpdateInv, AllQuiet
                 PROVE  /\ calm => running # Down /\ running = head /\ deps = head /\ unit = head
                        /\ ~harmed => deps = head /\ unit = head /\ running = Started
        BY DEF EndsHealthy
    <2>1. calm => running # Down /\ running = head /\ deps = head /\ unit = head
        BY UpdateAssumption DEF UpdateInv, CalmInv, Healthy
    <2>2. ~harmed => deps = head /\ unit = head /\ running = Started
        BY DEF UpdateInv, SettledInv, AllQuiet, Quiet
    <2>3. QED
        BY <2>1, <2>2
<1>2. QED
    BY <1>1, UpdateInvariantHolds, PTL
=============================================================================
