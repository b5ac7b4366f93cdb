-------------------------- MODULE NameCacheProofs --------------------------
(***************************************************************************)
(* Bounded staleness of the name caches, for every number of threads and   *)
(* keys and every TTL.  The cache does not hold its lock while it looks a  *)
(* name up, so an entry may be stored long after the lookup and over a     *)
(* newer one; what saves the bound is that an entry is stamped with the    *)
(* clock value read BEFORE the lookup, so that the name in it was true at  *)
(* its stamp or later.  That fact (EntriesWitnessed), with its counterpart *)
(* for an answer still in a thread's hands (LookupsWitnessed), is what the *)
(* invariant adds to the property.                                         *)
(***************************************************************************)
EXTENDS NameCache, TLAPS

\* The initial states satisfy the invariant: nothing is cached yet.
LEMMA InitEstablishesIInv == Init => IInv
<1> SUFFICES ASSUME Init PROVE IInv
    OBVIOUS
<1>1. TypeOK
    BY NameCacheAssumption DEF Init, TypeOK, Answers, Never
<1>2. HistoryCurrent
    BY NameCacheAssumption DEF Init, HistoryCurrent, Answers, Never
<1>3. EntriesWitnessed /\ LookupsWitnessed
    BY DEF Init, EntriesWitnessed, LookupsWitnessed
<1>4. BoundedStaleness /\ FailuresAreFresh
    BY DEF Init, BoundedStaleness, FailuresAreFresh
<1>5. QED
    BY <1>1, <1>2, <1>3, <1>4 DEF IInv

\* A step in which the history only grows keeps every witness, as long as
\* threads, cache and answers stay as they are.
LEMMA HistoryGrows ==
    ASSUME IInv,
           UNCHANGED <<cache, pc, key, now, answer>>,
           lastHeld' \in [Keys -> [Answers -> Int]],
           \A k \in Keys, a \in Answers : lastHeld'[k][a] >= lastHeld[k][a]
    PROVE  EntriesWitnessed' /\ LookupsWitnessed' /\ BoundedStaleness' /\ FailuresAreFresh'
<1> USE NameCacheAssumption DEF IInv, TypeOK
<1>1. NoName \in Answers
    BY DEF Answers
<1>2. EntriesWitnessed'
    <2> SUFFICES ASSUME NEW e \in cache
                 PROVE  /\ lastHeld'[e.key][e.name] >= e.at
                        /\ e.key \notin Containers => e.name # NoName
        BY DEF EntriesWitnessed
    <2>1. e.key \in Keys /\ e.name \in Answers /\ e.at \in Nat
        BY DEF Entry
    <2>2. lastHeld[e.key][e.name] >= e.at /\ (e.key \notin Containers => e.name # NoName)
        BY DEF EntriesWitnessed
    <2>3. QED
        BY <2>1, <2>2
<1>3. LookupsWitnessed'
    BY DEF LookupsWitnessed
<1>4. BoundedStaleness'
    BY DEF BoundedStaleness
<1>5. FailuresAreFresh'
    BY <1>1 DEF FailuresAreFresh
<1>6. QED
    BY <1>2, <1>3, <1>4, <1>5

\* The passing of time and the renaming of containers and processes.
LEMMA EnvironmentKeepsIInv ==
    ASSUME IInv, Tick \/ \E k \in Keys : Rename(k)
    PROVE  IInv'
<1> USE NameCacheAssumption
<1>1. CASE Tick
    <2>1. TypeOK'
        BY <1>1 DEF Tick, IInv, TypeOK
    <2>2. \A k \in Keys, a \in Answers : lastHeld'[k][a] >= lastHeld[k][a]
        BY <1>1 DEF Tick, IInv, TypeOK, HistoryCurrent
    <2>3. EntriesWitnessed' /\ LookupsWitnessed' /\ BoundedStaleness' /\ FailuresAreFresh'
        BY <1>1, <2>1, <2>2, HistoryGrows DEF Tick, TypeOK
    <2>4. HistoryCurrent'
        BY <1>1 DEF Tick, IInv, TypeOK, HistoryCurrent
    <2>5. QED
        BY <2>1, <2>3, <2>4 DEF IInv
<1>2. ASSUME NEW k \in Keys, Rename(k)
      PROVE  IInv'
    <2> PICK a \in Answers \ {truth[k]} :
            /\ truth' = [truth EXCEPT ![k] = a]
            /\ lastHeld' = [lastHeld EXCEPT ![k][a] = clock]
            /\ UNCHANGED <<clock, cache, pc, key, now, answer>>
        BY <1>2 DEF Rename
    <2>1. TypeOK' /\ HistoryCurrent'
        BY DEF IInv, TypeOK, HistoryCurrent
    <2>2. \A j \in Keys, b \in Answers : lastHeld'[j][b] >= lastHeld[j][b]
        BY DEF IInv, TypeOK, HistoryCurrent
    <2>3. EntriesWitnessed' /\ LookupsWitnessed' /\ BoundedStaleness' /\ FailuresAreFresh'
        BY <2>1, <2>2, HistoryGrows DEF TypeOK
    <2>4. QED
        BY <2>1, <2>3 DEF IInv
<1>3. QED
    BY <1>1, <1>2

\* Starting a call, and the two outcomes of the locked look into the dict.
\* A hit is fresh by less than TTL and its name was true at its stamp.
LEMMA ReadingKeepsIInv ==
    ASSUME IInv, NEW t \in Threads,
           (\E k \in Keys : Call(t, k)) \/ Hit(t) \/ Miss(t) \/ Return(t)
    PROVE  IInv'
<1> USE NameCacheAssumption DEF environment
<1>1. CASE \E k \in Keys : Call(t, k)
    BY <1>1 DEF Call, IInv, TypeOK, HistoryCurrent, EntriesWitnessed,
                LookupsWitnessed, BoundedStaleness, FailuresAreFresh
<1>2. CASE Hit(t)
    <2> PICK e \in cache : /\ Fresh(t, e)
                           /\ answer' = [answer EXCEPT ![t] = e.name]
        BY <1>2 DEF Hit
    <2>1. e.key = key[t] /\ e.name \in Answers /\ e.at \in Nat
        BY DEF IInv, TypeOK, Entry, Fresh
    <2>2. lastHeld[key[t]][e.name] > now[t] - TTL
        BY <2>1 DEF IInv, TypeOK, EntriesWitnessed, Fresh
    <2>3. e.key \notin Containers => e.name # NoName
        BY DEF IInv, EntriesWitnessed
    <2>4. TypeOK' /\ HistoryCurrent' /\ EntriesWitnessed'
        BY <1>2, <2>1 DEF Hit, IInv, TypeOK, HistoryCurrent, EntriesWitnessed
    <2>5. LookupsWitnessed'
        BY <1>2 DEF Hit, IInv, TypeOK, LookupsWitnessed
    <2>6. BoundedStaleness'
        BY <1>2, <2>2 DEF Hit, IInv, TypeOK, BoundedStaleness
    <2>7. FailuresAreFresh'
        BY <1>2, <2>1, <2>3 DEF Hit, IInv, TypeOK, FailuresAreFresh
    <2>8. QED
        BY <2>4, <2>5, <2>6, <2>7 DEF IInv
<1>3. CASE Miss(t)
    BY <1>3 DEF Miss, IInv, TypeOK, HistoryCurrent, EntriesWitnessed,
                LookupsWitnessed, BoundedStaleness, FailuresAreFresh
<1>4. CASE Return(t)
    BY <1>4 DEF Return, IInv, TypeOK, HistoryCurrent, EntriesWitnessed,
                LookupsWitnessed, BoundedStaleness, FailuresAreFresh
<1>5. QED
    BY <1>1, <1>2, <1>3, <1>4

\* The lookup itself: its answer is witnessed at the current instant, which
\* is not before the call began.
LEMMA LookingUpKeepsIInv ==
    ASSUME IInv, NEW t \in Threads, Find(t) \/ FailToFind(t)
    PROVE  IInv'
<1> USE NameCacheAssumption
<1>0. NoName \in Answers
    BY DEF Answers
<1>1. CASE Find(t)
    <2>1. truth[key[t]] \in Answers /\ lastHeld[key[t]][truth[key[t]]] >= now[t]
        BY DEF IInv, TypeOK, HistoryCurrent
    <2>2. QED
        BY <1>1, <2>1 DEF Find, environment, IInv, TypeOK, HistoryCurrent,
            EntriesWitnessed, LookupsWitnessed, BoundedStaleness, FailuresAreFresh
<1>2. CASE FailToFind(t)
    <2>1. \A k \in Keys, a \in Answers : lastHeld'[k][a] >= lastHeld[k][a]
        BY <1>0, <1>2 DEF FailToFind, IInv, TypeOK, HistoryCurrent
    <2>2. TypeOK' /\ HistoryCurrent'
        BY <1>0, <1>2 DEF FailToFind, IInv, TypeOK, HistoryCurrent
    <2>3. EntriesWitnessed'
        <3> SUFFICES ASSUME NEW e \in cache
                     PROVE  /\ lastHeld'[e.key][e.name] >= e.at
                            /\ e.key \notin Containers => e.name # NoName
            BY <1>2 DEF FailToFind, EntriesWitnessed
        <3>1. e.key \in Keys /\ e.name \in Answers /\ e.at \in Nat
            BY DEF IInv, TypeOK, Entry
        <3>2. lastHeld[e.key][e.name] >= e.at /\ (e.key \notin Containers => e.name # NoName)
            BY DEF IInv, EntriesWitnessed
        <3>3. QED
            BY <2>1, <2>2, <3>1, <3>2 DEF IInv, TypeOK
    <2>4. LookupsWitnessed'
        BY <1>0, <1>2, <2>1, <2>2 DEF FailToFind, IInv, TypeOK, HistoryCurrent, LookupsWitnessed
    <2>5. BoundedStaleness' /\ FailuresAreFresh'
        BY <1>0, <1>2, <2>1, <2>2 DEF FailToFind, IInv, TypeOK, BoundedStaleness, FailuresAreFresh
    <2>6. QED
        BY <2>2, <2>3, <2>4, <2>5 DEF IInv
<1>3. QED
    BY <1>1, <1>2

\* Storing: the entry carries the stamp its name is witnessed for.
LEMMA StoringKeepsIInv ==
    ASSUME IInv, NEW t \in Threads, Remember(t) \/ Forget(t)
    PROVE  IInv'
<1> USE NameCacheAssumption DEF environment
<1>1. lastHeld[key[t]][answer[t]] >= now[t]
    BY DEF IInv, LookupsWitnessed, Remember, Forget
<1>2. LookupsWitnessed' /\ HistoryCurrent'
    BY DEF Remember, Forget, IInv, TypeOK, LookupsWitnessed, HistoryCurrent
<1>3. BoundedStaleness' /\ FailuresAreFresh'
    BY <1>1 DEF Remember, Forget, IInv, TypeOK, BoundedStaleness, FailuresAreFresh
<1>4. CASE Remember(t)
    <2> DEFINE new == [key |-> key[t], name |-> answer[t], at |-> now[t]]
    <2>1. new \in Entry /\ cache' = Others(t) \cup {new}
        BY <1>4 DEF Remember, Entry, IInv, TypeOK
    <2>2. TypeOK'
        BY <1>4, <2>1 DEF Remember, Others, IInv, TypeOK
    <2>3. EntriesWitnessed'
        BY <1>1, <1>4, <2>1 DEF Remember, Others, IInv, TypeOK, EntriesWitnessed
    <2>4. QED
        BY <1>2, <1>3, <2>2, <2>3 DEF IInv
<1>5. CASE Forget(t)
    BY <1>2, <1>3, <1>5 DEF Forget, Others, IInv, TypeOK, EntriesWitnessed
<1>6. QED
    BY <1>4, <1>5

\* The invariant is inductive.
LEMMA NextKeepsIInv == IInv /\ [Next]_vars => IInv'
<1> SUFFICES ASSUME IInv, [Next]_vars PROVE IInv'
    OBVIOUS
<1>1. CASE Tick \/ \E k \in Keys : Rename(k)
    BY <1>1, EnvironmentKeepsIInv
<1>2. ASSUME NEW t \in Threads, Step(t) PROVE IInv'
    BY <1>2, ReadingKeepsIInv, LookingUpKeepsIInv, StoringKeepsIInv DEF Step
<1>3. CASE UNCHANGED vars
    BY <1>3 DEF vars, IInv, TypeOK, HistoryCurrent, EntriesWitnessed,
                LookupsWitnessed, BoundedStaleness, FailuresAreFresh
<1>4. QED
    BY <1>1, <1>2, <1>3 DEF Next

\* The invariant holds in every behaviour.
LEMMA InvariantHolds == Spec => []IInv
    BY InitEstablishesIInv, NextKeepsIInv, PTL DEF Spec

\* The variables of the cache and of its callers always have their types.
THEOREM TypeCorrect == Spec => []TypeOK
    BY InvariantHolds, PTL DEF IInv

\* docker.Names.get and _ProcNames.get never return a name that stopped
\* being true a whole TTL before they were called.
THEOREM StalenessBounded == Spec => []BoundedStaleness
    BY InvariantHolds, PTL DEF IInv

\* _ProcNames.get never answers None from memory.
THEOREM NoRememberedFailure == Spec => []FailuresAreFresh
    BY InvariantHolds, PTL DEF IInv
=============================================================================
