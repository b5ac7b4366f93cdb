------------------------------- MODULE Update -------------------------------
(***************************************************************************)
(* deploy/update.sh: fetch origin/main, and when it moved, check it out,   *)
(* install its requirements, render its units and restart vitalsd; then    *)
(* ask /health, and go back to the commit it came from if there is no      *)
(* answer.  systemd runs it daily, a person can run it at the same time,   *)
(* nothing locks it, and the machine can go down between any two steps.    *)
(* apply() runs in an if-condition, where bash ignores "set -e": a step    *)
(* that fails is followed by the next one, and the status of apply is that *)
(* of its last command, systemctl restart.                                 *)
(***************************************************************************)
EXTENDS Integers

CONSTANTS
    Updaters,   \* runs of update.sh that can overlap: the timer, a person
    Versions,   \* commits of main
    Good,       \* those whose daemon starts and answers /health
    Compatible, \* pairs <<v, d>>: v also runs with the requirements of d
    First,      \* the version setup.sh installed
    Down,       \* no daemon answers; no unit file systemd accepts
    Failures,   \* the commands that may fail
    MaxTries,   \* health() asks this often
    MaxEvents   \* bound: how often main moves or the machine goes down

ASSUME UpdateAssumption ==
    /\ Good \subseteq Versions /\ First \in Good
    /\ Compatible \subseteq Versions \X Versions
    /\ Down \notin Versions
    /\ Failures \subseteq {"fetch", "reset", "pip", "render"}
    /\ MaxTries \in Nat \ {0} /\ MaxEvents \in Nat

VARIABLES
    remote,     \* main at the origin
    fetched,    \* origin/main: what the latest git fetch brought
    head,       \* the commit that is checked out
    deps,       \* the version whose requirements .venv holds
    unit,       \* the version whose units systemd has loaded, Down if none
    running,    \* the version of the running daemon
    events,     \* how often main moved or the machine went down
    pc,         \* where each updater is
    local,      \* the locals of each updater
    calm,       \* history: every run so far was alone, whole and unharmed
    harmed      \* history: the machine went down, or a step of apply() failed

machine == <<head, deps, unit, running>>
world == <<remote, fetched, events>>
history == <<calm, harmed>>
vars == <<world, machine, pc, local, history>>

Steps == {"idle", "old", "new", "reset", "pip", "render", "restart", "health", "done"}

(* $old, $new, the argument of apply, the loop of health(), how the run    *)
(* ended; and history: the version whose daemon answered health(), whether *)
(* a step of apply failed, whether no other run was under way meanwhile.   *)
Locals ==
    [old : Versions, new : Versions, target : Versions, tries : 0 .. MaxTries - 1,
     exit : {"none", "aborted", "current", "ok", "failed"},
     answered : Versions \cup {Down}, failed : BOOLEAN, alone : BOOLEAN]

Unset ==
    [old |-> First, new |-> First, target |-> First, tries |-> 0,
     exit |-> "none", answered |-> Down, failed |-> FALSE, alone |-> TRUE]

TypeOK ==
    /\ remote \in Versions /\ fetched \in Versions
    /\ head \in Versions /\ deps \in Versions
    /\ unit \in Versions \cup {Down} /\ running \in Versions \cup {Down}
    /\ events \in 0 .. MaxEvents
    /\ pc \in [Updaters -> Steps]
    /\ local \in [Updaters -> Locals]
    /\ calm \in BOOLEAN /\ harmed \in BOOLEAN

Init ==
    /\ remote = First /\ fetched = First
    /\ head = First /\ deps = First /\ unit = First /\ running = First
    /\ events = 0
    /\ pc = [u \in Updaters |-> "idle"]
    /\ local = [u \in Updaters |-> Unset]
    /\ calm = TRUE /\ harmed = FALSE

-----------------------------------------------------------------------------

\* The daemon that systemd starts from the checkout, if it comes up at all.
Started ==
    IF head \in Good /\ (deps = head \/ <<head, deps>> \in Compatible)
    THEN head ELSE Down

Push(v) ==
    /\ events < MaxEvents /\ v # remote
    /\ events' = events + 1
    /\ remote' = v
    /\ UNCHANGED <<fetched, machine, pc, local, history>>

\* Power loss or reboot: every updater is gone, the daemon starts again.
Crash ==
    /\ events < MaxEvents
    /\ events' = events + 1
    /\ running' = IF unit = Down THEN Down ELSE Started
    /\ pc' = [u \in Updaters |-> "idle"]
    /\ local' = [u \in Updaters |-> Unset]
    /\ calm' = FALSE /\ harmed' = TRUE
    /\ UNCHANGED <<remote, fetched, head, deps, unit>>

-----------------------------------------------------------------------------
(* The script, from git fetch to the comparison.                           *)

Go(u, from, to) == pc[u] = from /\ pc' = [pc EXCEPT ![u] = to]

Others(u) == {v \in Updaters \ {u} : pc[v] # "idle"}

\* A new run, and whoever is under way is no longer alone.
Begin(u, to, result) ==
    /\ Go(u, "idle", to)
    /\ local' = [v \in Updaters |->
           IF v = u THEN [Unset EXCEPT !.exit = result, !.alone = Others(u) = {}]
                    ELSE IF v \in Others(u) THEN [local[v] EXCEPT !.alone = FALSE]
                                            ELSE local[v]]
    /\ calm' = (calm /\ Others(u) = {})
    /\ UNCHANGED <<remote, events, machine, harmed>>

\* git fetch origin main
Fetch(u) ==
    /\ Begin(u, "old", "none")
    /\ fetched' = remote

\* No network: "set -e" ends the script.
FetchFails(u) ==
    /\ "fetch" \in Failures
    /\ Begin(u, "done", "aborted")
    /\ UNCHANGED fetched

\* old=$(git rev-parse HEAD)
ReadOld(u) ==
    /\ Go(u, "old", "new")
    /\ local' = [local EXCEPT ![u].old = head]
    /\ UNCHANGED <<world, machine, history>>

\* new=$(git rev-parse origin/main), and the comparison.
UpToDate(u) ==
    /\ fetched = local[u].old
    /\ Go(u, "new", "done")
    /\ local' = [local EXCEPT ![u].new = fetched, ![u].exit = "current"]
    /\ UNCHANGED <<world, machine, history>>

Outdated(u) ==
    /\ fetched # local[u].old
    /\ Go(u, "new", "reset")
    /\ local' = [local EXCEPT ![u].new = fetched, ![u].target = fetched]
    /\ UNCHANGED <<world, machine, history>>

-----------------------------------------------------------------------------
(* apply "$target", one action per command.                                *)

\* Mutant: the roll back checks out $new again.
GitResetForward(u) ==
    /\ Go(u, "reset", "pip")
    /\ head' = local[u].new
    /\ UNCHANGED <<world, deps, unit, running, local, history>>

\* git reset --hard "$1"
GitReset(u) ==
    /\ Go(u, "reset", "pip")
    /\ head' = local[u].target
    /\ UNCHANGED <<world, deps, unit, running, local, history>>

\* pip install -r requirements.txt, of whatever is checked out by now.
PipInstall(u) ==
    /\ Go(u, "pip", "render")
    /\ deps' = head
    /\ UNCHANGED <<world, head, unit, running, local, history>>

\* sed over the unit templates, daemon-reload.
Render(u) ==
    /\ Go(u, "render", "restart")
    /\ unit' = head
    /\ UNCHANGED <<world, head, deps, running, local, history>>

\* The command fails and apply goes on; a failing sed leaves an empty unit.
StepFails(u) ==
    /\ \/ "reset" \in Failures /\ Go(u, "reset", "pip") /\ UNCHANGED unit
       \/ "pip" \in Failures /\ Go(u, "pip", "render") /\ UNCHANGED unit
       \/ "render" \in Failures /\ Go(u, "render", "restart") /\ unit' \in {unit, Down}
    /\ local' = [local EXCEPT ![u].failed = TRUE]
    /\ calm' = FALSE /\ harmed' = TRUE
    /\ UNCHANGED <<world, head, deps, running>>

\* What the script goes on with after apply: apply "$old" ends it anyway.
Then(u) == IF local[u].exit = "failed" THEN "done" ELSE "health"

\* Mutant: systemctl start, which leaves a running daemon alone.
RestartIfDown(u) ==
    /\ unit # Down
    /\ Go(u, "restart", Then(u))
    /\ running' = IF running = Down THEN Started ELSE running
    /\ UNCHANGED <<world, head, deps, unit, local, history>>

\* systemctl restart vitalsd succeeds once the process is started.
Restart(u) ==
    /\ unit # Down
    /\ Go(u, "restart", Then(u))
    /\ running' = Started
    /\ UNCHANGED <<world, head, deps, unit, local, history>>

\* The locals of "update failed, rolling back": apply "$old" is next.
GivenUp(l) == [l EXCEPT !.target = l.old, !.exit = "failed", !.tries = 0]

\* Mutant: exit 1 without the roll back.
RollBackNever(u, l) ==
    /\ Go(u, pc[u], "done")
    /\ local' = [local EXCEPT ![u] = GivenUp(l)]

RollBack(u, l) ==
    /\ Go(u, pc[u], "reset")
    /\ local' = [local EXCEPT ![u] = GivenUp(l)]

\* systemd refuses the unit; the daemon that runs is left alone.
RestartFails(u) ==
    /\ pc[u] = "restart" /\ unit = Down
    /\ LET l == [local[u] EXCEPT !.failed = TRUE]
       IN  \/ /\ l.exit = "failed"
              /\ Go(u, "restart", "done")
              /\ local' = [local EXCEPT ![u] = l]
           \/ l.exit # "failed" /\ RollBack(u, l)
    /\ calm' = FALSE /\ harmed' = TRUE
    /\ UNCHANGED <<world, machine>>

-----------------------------------------------------------------------------
(* health: up to MaxTries requests, three seconds apart.                   *)

Answers(u) ==
    /\ running # Down
    /\ Go(u, "health", "done")
    /\ local' = [local EXCEPT ![u].exit = "ok", ![u].answered = running]
    /\ UNCHANGED <<world, machine, history>>

\* Mutant: one request too many.
AsksOnceMore(u) ==
    /\ pc[u] = "health" /\ local[u].tries + 1 <= MaxTries
    /\ local' = [local EXCEPT ![u].tries = @ + 1]
    /\ UNCHANGED <<world, machine, pc, history>>

\* The loop goes on; a daemon that is still starting may be silent, too.
AsksAgain(u) ==
    /\ pc[u] = "health" /\ local[u].tries + 1 < MaxTries
    /\ local' = [local EXCEPT ![u].tries = @ + 1]
    /\ UNCHANGED <<world, machine, pc, history>>

StaysSilent(u) ==
    /\ pc[u] = "health" /\ local[u].tries + 1 = MaxTries
    /\ RollBack(u, local[u])
    /\ UNCHANGED <<world, machine, history>>

\* The script ends, its locals with it.
Exit(u) ==
    /\ Go(u, "done", "idle")
    /\ local' = [local EXCEPT ![u] = Unset]
    /\ UNCHANGED <<world, machine, history>>

Run(u) ==
    \/ Fetch(u) \/ FetchFails(u) \/ ReadOld(u) \/ UpToDate(u) \/ Outdated(u)
    \/ GitReset(u) \/ PipInstall(u) \/ Render(u) \/ StepFails(u)
    \/ Restart(u) \/ RestartFails(u)
    \/ Answers(u) \/ AsksAgain(u) \/ StaysSilent(u)
    \/ Exit(u)

Next ==
    \/ \E v \in Versions : Push(v)
    \/ Crash
    \/ \E u \in Updaters : Run(u)

Spec == Init /\ [][Next]_vars

(* The timer starts an updater every day (Persistent=true: also after the  *)
(* machine was off), and no command of the script runs forever.  The       *)
(* origin is not out of reach day after day, and a daemon that is up is    *)
(* not too slow for health() day after day.                                *)
FairSpec ==
    /\ Spec
    /\ \A u \in Updaters : WF_vars(Run(u)) /\ SF_vars(Fetch(u)) /\ SF_vars(Answers(u))

-----------------------------------------------------------------------------
Ended(u, how) == pc[u] = "done" /\ local[u].exit = how

\* Where a run has not yet written to the machine, or will not do so again.
Quiet == {"idle", "old", "new", "done"}
AllQuiet == \A u \in Updaters : pc[u] \in Quiet

(* "update ok ($new)" is printed for the version it names: a daemon of     *)
(* that version answered /health after its restart.  (A run that no other  *)
(* run overlaps, and whose steps succeed.)                                 *)
OkNamesTheAnswer ==
    \A u \in Updaters :
        (Ended(u, "ok") /\ local[u].alone /\ ~local[u].failed)
            => local[u].answered = local[u].new

(* An update that is given up is undone, also in a checkout that a crash   *)
(* left half updated: exit 1 leaves the commit checked out that the run    *)
(* found, and its requirements and units with it.                          *)
FailureUndone ==
    \A u \in Updaters :
        (Ended(u, "failed") /\ local[u].alone /\ ~local[u].failed)
            => LET v == local[u].old IN head = v /\ deps = v /\ unit = v

(* However good or bad the commits were, once no updater is at work a      *)
(* daemon answers, and it is the one of the commit that is checked out,    *)
(* with its own requirements and units: a bad commit costs an outage and   *)
(* never the service.  (As long as no run was disturbed.)  Runs that       *)
(* overlap may end with a bad commit, yet not with a mixture: requirements,*)
(* units and daemon are those of the commit that is checked out, unless a  *)
(* crash or a failed step left something undone.                           *)
EndsHealthy ==
    AllQuiet =>
        /\ calm => running # Down /\ running = head /\ deps = head /\ unit = head
        /\ ~harmed => deps = head /\ unit = head /\ running = Started

(* Once main stops moving the daemon is the one of main, if main is good.  *)
Converges == <>[]((calm /\ remote \in Good) => running = remote)

-----------------------------------------------------------------------------
(* The inductive invariant.  Only a run that is alone and whole knows what *)
(* the machine holds: nobody else has written to it since its reset.       *)

Whole(u) == local[u].alone /\ ~local[u].failed

\* A run that thinks it is alone is.
AloneInv ==
    \A u, v \in Updaters :
        (u # v /\ pc[u] # "idle" /\ local[u].alone) => pc[v] = "idle"

\* apply() is on the way forward with $new, or on the way back with $old.
OnTarget(u) ==
    /\ pc[u] \in {"old", "new"} => local[u].exit = "none"
    /\ pc[u] \in Steps \ Quiet =>
          \/ local[u].exit = "none" /\ local[u].target = local[u].new
          \/ local[u].exit = "failed" /\ local[u].target = local[u].old
    /\ pc[u] = "health" => local[u].exit = "none"
    /\ pc[u] = "done" => local[u].exit # "none"
TargetInv == \A u \in Updaters : OnTarget(u)

\* What apply() has done of its work on the machine, and what came of it.
Applied(u, v) ==
    /\ pc[u] \in {"pip", "render", "restart", "health"} => head = v
    /\ pc[u] \in {"render", "restart", "health"} => deps = v
    /\ pc[u] \in {"restart", "health"} => unit = v
    /\ pc[u] = "health" => running = Started

Accounted(u) ==
    /\ Applied(u, local[u].target)
    /\ Ended(u, "ok") => local[u].answered = local[u].new
    /\ Ended(u, "failed") =>
          /\ head = local[u].old /\ deps = local[u].old /\ unit = local[u].old
          /\ running = Started
WholeInv == \A u \in Updaters : Whole(u) => Accounted(u)

Healthy == head \in Good /\ running = head /\ deps = head /\ unit = head

\* As long as nothing was disturbed, there is a good commit to go back to.
CalmInv ==
    calm =>
        /\ \A u \in Updaters : pc[u] # "idle" => Whole(u) /\ local[u].old \in Good
        /\ AllQuiet => Healthy

\* Whoever changed the commit, its requirements or its units is still to do
\* what comes after it, whatever others do meanwhile.
SettledInv ==
    ~harmed =>
        /\ deps = head \/ \E u \in Updaters : pc[u] = "pip"
        /\ unit = head \/ \E u \in Updaters : pc[u] \in {"pip", "render"}
        /\ running = Started \/ \E u \in Updaters : pc[u] \in {"pip", "render", "restart"}

UpdateInv == TypeOK /\ AloneInv /\ TargetInv /\ WholeInv /\ CalmInv /\ SettledInv

(* The comment on the if-context: a step of apply that fails reaches the   *)
(* roll back, so the run does not end with "update ok".  False: bash       *)
(* ignores "set -e" in a function that an if-condition calls.              *)
FailuresRollBack ==
    \A u \in Updaters : Ended(u, "ok") => ~local[u].failed
=============================================================================
