----------------------------- MODULE NameCache -----------------------------
(***************************************************************************)
(* The two time-to-live caches of vitalsd, shared by every handler thread: *)
(* docker.Names (container id -> container name) and nvml._ProcNames       *)
(* (pid -> command name).  get() reads the clock, looks into the dict      *)
(* under the lock, RELEASES the lock for the slow lookup (a Docker request *)
(* of up to 2 s, or a read of /proc) and takes it again to store what it   *)
(* found, stamped with the clock value it read first.  The two caches      *)
(* differ in one thing: docker.Names also remembers a failed lookup, while *)
(* _ProcNames forgets the key.  Both are modelled at once: a key is either *)
(* a container id or a pid, and nothing is shared between the two.         *)
(***************************************************************************)
EXTENDS Integers

CONSTANTS
    Threads,        \* handler threads that call get()
    Keys,           \* container ids and pids
    Containers,     \* the container ids among them: keys of docker.Names
    Names,          \* the names a key can have
    NoName,         \* None: the lookup failed, or the key has no name
    TTL,            \* Names.TTL, _ProcNames.TTL
    MaxTime         \* bound: the last instant of the model

ASSUME NameCacheAssumption ==
    /\ NoName \notin Names
    /\ TTL \in Nat \ {0}
    /\ Containers \subseteq Keys
    /\ MaxTime \in Nat

Answers == Names \cup {NoName}
Entry == [key : Keys, name : Answers, at : Nat]

VARIABLES
    clock,      \* time.monotonic()
    truth,      \* the name each key really has
    lastHeld,   \* lastHeld[k][a]: the last instant at which a lookup of k
                \* had reason to answer a (history, for the properties)
    cache,      \* self._cache, as a set of entries, one per key
    pc,         \* where each thread is inside get()
    key,        \* the argument of the call
    now,        \* its local now
    answer      \* its local name, then the value it returns

vars == <<clock, truth, lastHeld, cache, pc, key, now, answer>>
environment == <<clock, truth, lastHeld>>

\* No hit can justify an answer that was never true: below every now - TTL.
Never == 0 - TTL - 1

TypeOK ==
    /\ clock \in Nat
    /\ truth \in [Keys -> Answers]
    /\ lastHeld \in [Keys -> [Answers -> Int]]
    /\ cache \in SUBSET Entry
    /\ pc \in [Threads -> {"idle", "check", "lookup", "store", "done"}]
    /\ key \in [Threads -> Keys]
    /\ now \in [Threads -> Nat]
    /\ answer \in [Threads -> Answers]

Init ==
    /\ clock = 0
    /\ truth \in [Keys -> Answers]
    /\ lastHeld = [k \in Keys |-> [a \in Answers |->
                      IF a = truth[k] THEN 0 ELSE Never]]
    /\ cache = {}
    /\ pc = [t \in Threads |-> "idle"]
    /\ key \in [Threads -> Keys]
    /\ now = [t \in Threads |-> 0]
    /\ answer = [t \in Threads |-> NoName]

-----------------------------------------------------------------------------
(* The world outside: time passes, containers and processes come and go.   *)

Tick ==
    /\ clock < MaxTime
    /\ clock' = clock + 1
    /\ lastHeld' = [k \in Keys |-> [lastHeld[k] EXCEPT ![truth[k]] = clock + 1]]
    /\ UNCHANGED <<truth, cache, pc, key, now, answer>>

\* A container is renamed or removed, a pid is freed or reused.
Rename(k) ==
    \E a \in Answers \ {truth[k]} :
        /\ truth' = [truth EXCEPT ![k] = a]
        /\ lastHeld' = [lastHeld EXCEPT ![k][a] = clock]
        /\ UNCHANGED <<clock, cache, pc, key, now, answer>>

-----------------------------------------------------------------------------
(* get(key), one action per stretch between lock operations.               *)

Call(t, k) ==
    /\ pc[t] = "idle"
    /\ pc' = [pc EXCEPT ![t] = "check"]
    /\ key' = [key EXCEPT ![t] = k]
    /\ now' = [now EXCEPT ![t] = clock]
    /\ UNCHANGED <<environment, cache, answer>>

\* Mutant: an entry exactly TTL old still counts as fresh.
FreshInclusive(t, e) == e.key = key[t] /\ now[t] - e.at <= TTL

Fresh(t, e) == e.key = key[t] /\ now[t] - e.at < TTL

Hit(t) ==
    /\ pc[t] = "check"
    /\ \E e \in cache :
        /\ Fresh(t, e)
        /\ answer' = [answer EXCEPT ![t] = e.name]
    /\ pc' = [pc EXCEPT ![t] = "done"]
    /\ UNCHANGED <<environment, cache, key, now>>

Miss(t) ==
    /\ pc[t] = "check"
    /\ ~ \E e \in cache : Fresh(t, e)
    /\ pc' = [pc EXCEPT ![t] = "lookup"]
    /\ UNCHANGED <<environment, cache, key, now, answer>>

\* The lookup outside the lock: the name the key has at this instant.
Find(t) ==
    /\ pc[t] = "lookup"
    /\ answer' = [answer EXCEPT ![t] = truth[key[t]]]
    /\ pc' = [pc EXCEPT ![t] = "store"]
    /\ UNCHANGED <<environment, cache, key, now>>

\* The lookup fails (socket error, odd status, OSError): NoName.
FailToFind(t) ==
    /\ pc[t] = "lookup"
    /\ answer' = [answer EXCEPT ![t] = NoName]
    /\ lastHeld' = [lastHeld EXCEPT ![key[t]][NoName] = clock]
    /\ pc' = [pc EXCEPT ![t] = "store"]
    /\ UNCHANGED <<clock, truth, cache, key, now>>

Others(t) == {e \in cache : e.key # key[t]}

\* Mutant: the stamp is the horizon now - TTL instead of now.
RememberBackdated(t) ==
    /\ pc[t] = "store"
    /\ key[t] \in Containers \/ answer[t] # NoName
    /\ cache' = Others(t) \cup {[key |-> key[t], name |-> answer[t], at |-> now[t] - TTL]}
    /\ pc' = [pc EXCEPT ![t] = "done"]
    /\ UNCHANGED <<environment, key, now, answer>>

\* Mutant: "if name is not None" is dropped, a failure is remembered too.
RememberAnything(t) ==
    /\ pc[t] = "store"
    /\ cache' = Others(t) \cup {[key |-> key[t], name |-> answer[t], at |-> now[t]]}
    /\ pc' = [pc EXCEPT ![t] = "done"]
    /\ UNCHANGED <<environment, key, now, answer>>

Remember(t) ==
    /\ pc[t] = "store"
    /\ key[t] \in Containers \/ answer[t] # NoName
    /\ cache' = Others(t) \cup {[key |-> key[t], name |-> answer[t], at |-> now[t]]}
    /\ pc' = [pc EXCEPT ![t] = "done"]
    /\ UNCHANGED <<environment, key, now, answer>>

\* _ProcNames only: a pid without a readable comm is popped from the dict.
Forget(t) ==
    /\ pc[t] = "store"
    /\ key[t] \notin Containers /\ answer[t] = NoName
    /\ cache' = Others(t)
    /\ pc' = [pc EXCEPT ![t] = "done"]
    /\ UNCHANGED <<environment, key, now, answer>>

Return(t) ==
    /\ pc[t] = "done"
    /\ pc' = [pc EXCEPT ![t] = "idle"]
    /\ UNCHANGED <<environment, cache, key, now, answer>>

Step(t) ==
    \/ \E k \in Keys : Call(t, k)
    \/ Hit(t) \/ Miss(t)
    \/ Find(t) \/ FailToFind(t)
    \/ Remember(t) \/ Forget(t)
    \/ Return(t)

Next ==
    \/ Tick
    \/ \E k \in Keys : Rename(k)
    \/ \E t \in Threads : Step(t)

Spec == Init /\ [][Next]_vars

-----------------------------------------------------------------------------
(* Bounded staleness.  Whatever the other threads store meanwhile, what    *)
(* get() returns was true of the key, or was what a lookup of the key      *)
(* really produced, less than one TTL before the call began or later: a    *)
(* renamed container or a reused pid is never reported under its old name  *)
(* for longer than the TTL, however slow the lookup that cached it was.    *)
BoundedStaleness ==
    \A t \in Threads :
        pc[t] = "done" => lastHeld[key[t]][answer[t]] > now[t] - TTL

(* In _ProcNames a None is never served from the cache: it always means    *)
(* that a lookup of this key failed, or found no process, after the call   *)
(* began.  (docker.Names gives this up: a transient Docker error is        *)
(* answered to every caller for up to a minute.)                           *)
FailuresAreFresh ==
    \A t \in Threads :
        (key[t] \notin Containers /\ pc[t] = "done" /\ answer[t] = NoName)
            => lastHeld[key[t]][NoName] >= now[t]

-----------------------------------------------------------------------------
(* The inductive invariant behind both (NameCacheProofs).                  *)

\* The history variable is up to date, and no thread is ahead of the clock.
HistoryCurrent ==
    /\ \A k \in Keys : lastHeld[k][truth[k]] = clock
    /\ \A k \in Keys, a \in Answers : lastHeld[k][a] <= clock
    /\ \A t \in Threads : now[t] <= clock

\* An entry's name was true, or really looked up, at its stamp or later.
EntriesWitnessed ==
    \A e \in cache :
        /\ lastHeld[e.key][e.name] >= e.at
        /\ e.key \notin Containers => e.name # NoName

\* So is the answer a thread is about to store.
LookupsWitnessed ==
    \A t \in Threads :
        pc[t] = "store" => lastHeld[key[t]][answer[t]] >= now[t]

IInv ==
    /\ TypeOK
    /\ HistoryCurrent
    /\ EntriesWitnessed
    /\ LookupsWitnessed
    /\ BoundedStaleness
    /\ FailuresAreFresh
=============================================================================
