-------------------------------- MODULE Rapl --------------------------------
(***************************************************************************)
(* CPU package power from the RAPL energy counters.  sample() reads the    *)
(* clock, then the counters, then exchanges self._last for what it read    *)
(* and reports the difference of the two readings.  Every /metrics and     *)
(* /stream client samples the one collector from a thread of its own, so   *)
(* the three steps of two samples interleave.  The counters wrap around at *)
(* max_energy_range_uj and fall to zero when the machine resumes from a    *)
(* sleep; a sample cannot tell the two apart, or from a reading that is    *)
(* older than the one it is compared with.                                 *)
(***************************************************************************)
EXTENDS Integers, FiniteSets, Functions

CONSTANTS
    Threads,    \* handler threads that sample the collector
    Domains,    \* the package-* domains that probe() found readable
    MaxRange,   \* the counters wrap around at this value
    None,       \* no reading yet; the empty payload; no "max"
    MaxStart,   \* bound: what the counters show when the daemon starts
    MaxEnergy,  \* bound: the energy a domain consumes
    MaxTotal,   \* bound: the energy all of them consume
    MaxClock,   \* bound: the last instant
    MaxResets   \* bound: how often the counters are reset

\* What a read of every energy_uj returns, and (history) what it is of.
Reading == [count : [Domains -> 0 .. MaxRange - 1],
            spent : [Domains -> 0 .. MaxEnergy], resets : 0 .. MaxResets]

ASSUME RaplAssumption ==
    /\ IsFiniteSet(Domains)
    /\ MaxRange \in Nat \ {0}
    /\ MaxStart \in 0 .. MaxRange - 1
    /\ MaxEnergy \in Nat /\ MaxTotal \in Nat /\ MaxClock \in Nat /\ MaxResets \in Nat
    /\ None \notin Reading

VARIABLES
    clock,      \* self._clock()
    count,      \* energy_uj of each domain
    spent,      \* the energy each domain really consumed
    resets,     \* how often the counters were reset
    max,        \* dom["max"] of each domain: MaxRange, or None if unreadable
    last,       \* self._last
    pc,         \* where each thread is inside sample()
    now,        \* its local now
    got,        \* its local readings
    report      \* its payload, with what the properties compare it to

vars == <<clock, count, spent, resets, max, last, pc, now, got, report>>

ReadingsTyped ==
    /\ clock \in 0 .. MaxClock
    /\ count \in [Domains -> 0 .. MaxRange - 1]
    /\ spent \in [Domains -> 0 .. MaxEnergy]
    /\ resets \in 0 .. MaxResets
    /\ max \in [Domains -> {MaxRange, None}]
    /\ last = None \/ (last.at \in 0 .. MaxClock /\ last.reading \in Reading)
    /\ pc \in [Threads -> {"idle", "read", "swap"}]
    /\ now \in [Threads -> 0 .. MaxClock]
    /\ got \in [Threads -> Reading \cup {None}]
    /\ \A t \in Threads : pc[t] = "swap" => got[t] \in Reading
    /\ DOMAIN report = Threads

TypeOK == ReadingsTyped /\ \A t \in Threads : report[t] = None \/ report[t].energy \in Nat

Init ==
    /\ clock = 0
    /\ count \in [Domains -> 0 .. MaxStart]
    /\ spent = [d \in Domains |-> 0]
    /\ resets = 0
    /\ max \in [Domains -> {MaxRange, None}]
    /\ last = None
    /\ pc = [t \in Threads |-> "idle"]
    /\ now = [t \in Threads |-> 0]
    /\ got = [t \in Threads |-> None]
    /\ report = [t \in Threads |-> None]

-----------------------------------------------------------------------------
(* The machine.                                                            *)

Tick ==
    /\ clock < MaxClock
    /\ clock' = clock + 1
    /\ UNCHANGED <<count, spent, resets, max, last, pc, now, got, report>>

Consume(d) ==
    /\ spent[d] < MaxEnergy /\ SumFunction(spent) < MaxTotal
    /\ spent' = [spent EXCEPT ![d] = @ + 1]
    /\ count' = [count EXCEPT ![d] = IF @ = MaxRange - 1 THEN 0 ELSE @ + 1]
    /\ UNCHANGED <<clock, resets, max, last, pc, now, got, report>>

Reset ==
    /\ resets < MaxResets
    /\ resets' = resets + 1
    /\ count' = [d \in Domains |-> 0]
    /\ UNCHANGED <<clock, spent, max, last, pc, now, got, report>>

-----------------------------------------------------------------------------
(* sample()                                                                *)

ReadClock(t) ==
    /\ pc[t] = "idle"
    /\ pc' = [pc EXCEPT ![t] = "read"]
    /\ now' = [now EXCEPT ![t] = clock]
    /\ report' = [report EXCEPT ![t] = None]
    /\ UNCHANGED <<clock, count, spent, resets, max, last, got>>

ReadEnergy(t) ==
    /\ pc[t] = "read"
    /\ pc' = [pc EXCEPT ![t] = "swap"]
    /\ got' = [got EXCEPT ![t] = [count |-> count, spent |-> spent, resets |-> resets]]
    /\ UNCHANGED <<clock, count, spent, resets, max, last, now, report>>

\* One energy_uj cannot be read: {} is returned, and self._last stays.
FailToRead(t) ==
    /\ pc[t] = "read"
    /\ pc' = [pc EXCEPT ![t] = "idle"]
    /\ UNCHANGED <<clock, count, spent, resets, max, last, now, got, report>>

\* Mutant: the correction is applied when the counter stands still, too.
DeltaAtRest(d, a, b) ==
    IF b - a <= 0 /\ max[d] # None THEN b - a + max[d] ELSE b - a

\* Mutant: the sign of the difference is dropped ("abs").
DeltaUnsigned(d, a, b) == IF b >= a THEN b - a ELSE a - b

\* The energy between two counter values of d, a wrap-around corrected.
Delta(d, a, b) ==
    IF b - a < 0 /\ max[d] # None THEN b - a + max[d] ELSE b - a

\* What a payload says, and (history) the two readings it is made of.
Payload(dt, delta, a, b) == [energy |-> SumFunction(delta), dt |-> dt, from |-> a, to |-> b]

\* Mutant: a negative total is not left out of the payload.
PowerSigned(dt, a, b) ==
    LET delta == [d \in Domains |-> Delta(d, a.count[d], b.count[d])]
    IN  IF dt <= 0 THEN None ELSE Payload(dt, delta, a, b)

\* The payload for two readings: None for {}.
Power(dt, a, b) ==
    LET delta == [d \in Domains |-> Delta(d, a.count[d], b.count[d])]
    IN  IF dt <= 0 \/ \E d \in Domains : delta[d] < 0
        THEN None ELSE Payload(dt, delta, a, b)

\* last, self._last = self._last, (now, readings), and the difference.
Swap(t) ==
    /\ pc[t] = "swap"
    /\ pc' = [pc EXCEPT ![t] = "idle"]
    /\ last' = [at |-> now[t], reading |-> got[t]]
    /\ report' = [report EXCEPT ![t] =
           IF last = None THEN None ELSE Power(now[t] - last.at, last.reading, got[t])]
    /\ got' = [got EXCEPT ![t] = None]
    /\ UNCHANGED <<clock, count, spent, resets, max, now>>

Next ==
    \/ Tick \/ Reset \/ \E d \in Domains : Consume(d)
    \/ \E t \in Threads : ReadClock(t) \/ ReadEnergy(t) \/ FailToRead(t) \/ Swap(t)

Spec == Init /\ [][Next]_vars

-----------------------------------------------------------------------------
Reports == {report[t] : t \in Threads} \ {None}

\* What a domain consumed between the two readings of a payload.
Consumed(p, d) == p.to.spent[d] - p.from.spent[d]
Spent(p) == SumFunction([d \in Domains |-> Consumed(p, d)])

\* The readings were taken in the order in which they were exchanged.
InOrder(p) ==
    p.from.resets <= p.to.resets /\ \A d \in Domains : Consumed(p, d) >= 0
IsReset(p) == p.from.resets # p.to.resets
Fell(p, d) == p.to.count[d] < p.from.count[d]

\* The most that every domain can be charged with in one payload.
FullRanges == SumFunction([d \in Domains |-> MaxRange - 1])

(* "Watts are the counter delta between ticks": a payload never reports    *)
(* more energy than the packages consumed between its two readings, and    *)
(* always divides by a positive time.  Where a counter with a known range  *)
(* fell and did not wrap (a reset, and two samples that overtake each      *)
(* other between reading the counters and exchanging them) it may report   *)
(* more than was consumed, but never more than one full range per domain.  *)
Bounded(p) ==
    /\ p.dt > 0
    /\ p.energy <= FullRanges
    /\ (InOrder(p) /\ ~(IsReset(p) /\ \E d \in Domains : Fell(p, d) /\ max[d] # None))
            => p.energy <= Spent(p)
NeverInvents == \A p \in Reports : Bounded(p)

(* With the range known and less than one full range consumed between two  *)
(* readings, a payload reports exactly what was consumed, also when a      *)
(* counter wrapped in between and other threads sampled meanwhile.         *)
Exact(p) ==
    (/\ InOrder(p) /\ ~IsReset(p)
     /\ \A d \in Domains : max[d] # None /\ Consumed(p, d) < MaxRange)
        => p.energy = Spent(p)
WrapsCorrected == \A p \in Reports : Exact(p)

-----------------------------------------------------------------------------
(* The inductive invariant: any two readings that are still in use, and    *)
(* any of them and the counters as they are, differ by what was consumed   *)
(* in between, or by that less one full range; and after a reset a counter *)
(* shows no more than what was consumed.                                   *)

Now == [count |-> count, spent |-> spent, resets |-> resets]
Known == ({got[t] : t \in Threads} \cup IF last = None THEN {} ELSE {last.reading}) \ {None}

Tells(x, y) ==
    \A d \in Domains :
        LET consumed == y.spent[d] - x.spent[d]
        IN  /\ x.resets < y.resets => y.count[d] <= consumed
            /\ (x.resets = y.resets /\ consumed \in 0 .. MaxRange - 1) =>
                  y.count[d] - x.count[d] \in {consumed, consumed - MaxRange}

IsPast(x) == x.resets <= resets /\ \A d \in Domains : x.spent[d] <= spent[d]

WrapInv ==
    /\ TypeOK
    /\ \A x \in Known : IsPast(x) /\ Tells(x, Now)
    /\ \A x, y \in Known : Tells(x, y)
    /\ NeverInvents /\ WrapsCorrected
=============================================================================
