---------------------------- MODULE UnloadService ----------------------------
(***************************************************************************)
(* What POST /models/unload promises its caller, without any of the calls  *)
(* that Models.unload makes: the services of the request's plan are dealt  *)
(* with in order, each is affected in its turn or not at all, exactly one  *)
(* result tells how it went, and the reply carries the status of the first *)
(* failure.                                                                *)
(***************************************************************************)
EXTENDS Integers, Sequences

CONSTANTS
    Requests,
    Plans           \* the target lists that a request may be about

VARIABLES
    phase,      \* "none", "open" or "answered"
    todo,       \* the services of the plan that have no result yet
    affected,   \* the services that were unloaded for this request
    results,    \* what the caller will be told: service and code
    status      \* the status of the reply

vars == <<phase, todo, affected, results, status>>

\* The status that a list of results calls for: that of the first failure.
StatusOf(list, code) ==
    \/ code = 200 /\ \A i \in DOMAIN list : list[i].code = 200
    \/ \E i \in DOMAIN list :
        /\ list[i].code = code /\ code # 200
        /\ \A j \in DOMAIN list : j < i => list[j].code = 200

\* How a result may read: 502 says nothing about whether the service unloaded.
Truthful(code, done) ==
    /\ code = 200 => done
    /\ code \in {400, 409} => ~done

Init ==
    /\ phase = [r \in Requests |-> "none"]
    /\ todo = [r \in Requests |-> <<>>]
    /\ affected = [r \in Requests |-> {}]
    /\ results = [r \in Requests |-> <<>>]
    /\ status = [r \in Requests |-> 200]

Open(r) ==
    /\ phase[r] = "none"
    /\ phase' = [phase EXCEPT ![r] = "open"]
    /\ \E plan \in Plans : todo' = [todo EXCEPT ![r] = plan]
    /\ UNCHANGED <<affected, results, status>>

TurnAway(r, code) ==
    /\ phase[r] = "none"
    /\ phase' = [phase EXCEPT ![r] = "answered"]
    /\ status' = [status EXCEPT ![r] = code]
    /\ UNCHANGED <<todo, affected, results>>

Affect(r) ==
    /\ phase[r] = "open" /\ todo[r] # <<>>
    /\ Head(todo[r]) \notin affected[r]
    /\ affected' = [affected EXCEPT ![r] = @ \cup {Head(todo[r])}]
    /\ UNCHANGED <<phase, todo, results, status>>

Settle(r, code) ==
    /\ phase[r] = "open" /\ todo[r] # <<>>
    /\ Truthful(code, Head(todo[r]) \in affected[r])
    /\ results' = [results EXCEPT ![r] =
                       Append(@, [service |-> Head(todo[r]), code |-> code])]
    /\ todo' = [todo EXCEPT ![r] = Tail(@)]
    /\ UNCHANGED <<phase, affected, status>>

Answer(r, code) ==
    /\ phase[r] = "open" /\ todo[r] = <<>>
    /\ StatusOf(results[r], code)
    /\ phase' = [phase EXCEPT ![r] = "answered"]
    /\ status' = [status EXCEPT ![r] = code]
    /\ UNCHANGED <<todo, affected, results>>

Forget(r) ==
    /\ phase[r] = "answered"
    /\ phase' = [phase EXCEPT ![r] = "none"]
    /\ todo' = [todo EXCEPT ![r] = <<>>]
    /\ affected' = [affected EXCEPT ![r] = {}]
    /\ results' = [results EXCEPT ![r] = <<>>]
    /\ status' = [status EXCEPT ![r] = 200]

Next ==
    \E r \in Requests :
        \/ Open(r) \/ Affect(r) \/ Forget(r)
        \/ \E code \in {400, 401, 404, 415} : TurnAway(r, code)
        \/ \E code \in {200, 400, 409, 502} : Settle(r, code) \/ Answer(r, code)

Spec == Init /\ [][Next]_vars
=============================================================================
