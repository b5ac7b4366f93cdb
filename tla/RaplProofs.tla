----------------------------- MODULE RaplProofs -----------------------------
(***************************************************************************)
(* sample() invents no energy and corrects a wrapped counter exactly, for  *)
(* any number of packages and of threads that sample at once, and any      *)
(* counter range.  The proof is an induction over WrapInv: whatever two    *)
(* readings meet in an exchange, each difference is bounded by what its    *)
(* domain consumed, and a sum of smaller terms is smaller.                 *)
(***************************************************************************)
EXTENDS Rapl, Sums

-----------------------------------------------------------------------------
(* Sums of what the domains consumed.                                      *)

\* Both facts, for functions on the domains.
LEMMA SumOfDomains ==
    ASSUME NEW f \in [Domains -> Nat]
    PROVE  /\ SumFunction(f) \in Nat
           /\ \A g \in [Domains -> Nat] :
                 (\A d \in Domains : f[d] <= g[d]) => SumFunction(f) <= SumFunction(g)
<1>1. \A h \in [Domains -> Nat] : SumFunction(h) = SumFunctionOnSet(h, Domains)
    BY DEF SumFunction
<1>2. IsFiniteSet(Domains)
    BY RaplAssumption
<1>3. SumFunctionOnSet(f, Domains) \in Nat
    BY <1>2, SumTyped
<1>4. ASSUME NEW g \in [Domains -> Nat], \A d \in Domains : f[d] <= g[d]
      PROVE  SumFunctionOnSet(f, Domains) <= SumFunctionOnSet(g, Domains)
    <2>1. \A d \in Domains : f[d] \in Nat /\ g[d] \in Nat /\ f[d] <= g[d]
        BY <1>4
    <2>2. QED
        BY <1>2, <2>1, SumMonotone
<1>5. QED
    BY <1>1, <1>3, <1>4

-----------------------------------------------------------------------------
\* Two readings of one moment tell each other, and so do a past reading and
\* the present one in whichever order.

LEMMA PresentTellsPast ==
    ASSUME ReadingsTyped, NEW x \in Reading, IsPast(x), Tells(x, Now)
    PROVE  Tells(Now, x) /\ Tells(Now, Now)
<1>1. /\ Now.count = count /\ Now.spent = spent /\ Now.resets = resets
      /\ MaxRange \in Nat /\ resets \in Nat /\ x.resets \in Nat /\ x.resets <= resets
    BY RaplAssumption DEF ReadingsTyped, Reading, IsPast, Now
<1>2. \A d \in Domains : /\ x.spent[d] \in Nat /\ spent[d] \in Nat /\ x.spent[d] <= spent[d]
                         /\ x.count[d] \in 0 .. MaxRange - 1 /\ count[d] \in 0 .. MaxRange - 1
    BY RaplAssumption DEF ReadingsTyped, Reading, IsPast
<1>3. Tells(Now, Now)
    BY <1>1, <1>2 DEF Tells
<1>4. Tells(Now, x)
    <2> SUFFICES ASSUME NEW d \in Domains
                 PROVE  /\ ~(resets < x.resets)
                        /\ (resets = x.resets /\ x.spent[d] - spent[d] \in 0 .. MaxRange - 1) =>
                              x.count[d] - count[d] \in
                                  {x.spent[d] - spent[d], x.spent[d] - spent[d] - MaxRange}
        BY <1>1 DEF Tells
    <2>1. (x.resets = resets /\ spent[d] - x.spent[d] \in 0 .. MaxRange - 1) =>
             count[d] - x.count[d] \in {spent[d] - x.spent[d], spent[d] - x.spent[d] - MaxRange}
        BY <1>1 DEF Tells
    <2>2. x.spent[d] - spent[d] >= 0 => spent[d] = x.spent[d]
        BY <1>2
    <2>3. spent[d] = x.spent[d] /\ x.resets = resets => x.count[d] = count[d]
        BY <1>1, <1>2, <2>1
    <2>4. QED
        BY <1>1, <1>2, <2>2, <2>3
<1>5. QED
    BY <1>3, <1>4

LEMMA KnownAreReadings == ReadingsTyped => Known \subseteq Reading
BY DEF ReadingsTyped, Known

LEMMA InitEstablishesWrapInv == Init => WrapInv
<1> SUFFICES ASSUME Init PROVE WrapInv
    OBVIOUS
<1>1. TypeOK
    BY RaplAssumption DEF Init, TypeOK, ReadingsTyped
<1>2. Known = {}
    BY DEF Init, Known
<1>3. NeverInvents /\ WrapsCorrected
    BY DEF Init, NeverInvents, WrapsCorrected, Reports
<1>4. QED
    BY <1>1, <1>2, <1>3 DEF WrapInv

-----------------------------------------------------------------------------
\* What the machine does: the readings stay, the counters move on.

LEMMA ConsumeKeepsPast ==
    ASSUME ReadingsTyped, NEW e \in Domains, Consume(e),
           NEW x \in Reading, IsPast(x), Tells(x, Now)
    PROVE  IsPast(x)' /\ Tells(x, Now)'
<1>1. IsPast(x)'
    BY DEF ReadingsTyped, Reading, Consume, IsPast
<1>2. SUFFICES ASSUME NEW d \in Domains
               PROVE  LET consumed == spent'[d] - x.spent[d]
                      IN  /\ x.resets < resets => count'[d] <= consumed
                          /\ (x.resets = resets /\ consumed \in 0 .. MaxRange - 1) =>
                                count'[d] - x.count[d] \in {consumed, consumed - MaxRange}
    <2>1. Now'.spent = spent' /\ Now'.count = count' /\ Now'.resets = resets
        BY DEF Now, Consume
    <2>2. QED
        BY <1>1, <2>1 DEF Tells
<1>3. /\ x.spent[d] \in Nat /\ spent[d] \in Nat /\ x.spent[d] <= spent[d]
      /\ x.count[d] \in 0 .. MaxRange - 1 /\ count[d] \in 0 .. MaxRange - 1
    BY DEF ReadingsTyped, Reading, IsPast
<1>4. LET consumed == spent[d] - x.spent[d]
      IN  /\ x.resets < resets => count[d] <= consumed
          /\ (x.resets = resets /\ consumed \in 0 .. MaxRange - 1) =>
                count[d] - x.count[d] \in {consumed, consumed - MaxRange}
    BY DEF Tells, Now
<1>5. CASE d = e
    <2>1. /\ spent'[d] = spent[d] + 1
          /\ count'[d] = IF count[d] = MaxRange - 1 THEN 0 ELSE count[d] + 1
        BY <1>5 DEF ReadingsTyped, Consume
    <2>2. QED
        BY <1>3, <1>4, <2>1, RaplAssumption
<1>6. CASE d # e
    BY <1>4, <1>6 DEF ReadingsTyped, Consume
<1>7. QED
    BY <1>5, <1>6

LEMMA ResetKeepsPast ==
    ASSUME ReadingsTyped, Reset, NEW x \in Reading, IsPast(x)
    PROVE  IsPast(x)' /\ Tells(x, Now)'
<1>1. /\ resets' = resets + 1 /\ spent' = spent /\ x.resets <= resets
      /\ resets \in Nat /\ x.resets \in Nat
    BY RaplAssumption DEF Reset, ReadingsTyped, Reading, IsPast
<1>2. \A d \in Domains : /\ count'[d] = 0 /\ x.spent[d] <= spent[d]
                         /\ x.spent[d] \in Nat /\ spent[d] \in Nat
    BY DEF Reset, ReadingsTyped, Reading, IsPast
<1>3. Now'.spent = spent' /\ Now'.count = count' /\ Now'.resets = resets'
    BY DEF Now
<1>4. QED
    BY <1>1, <1>2, <1>3 DEF IsPast, Tells

\* What payloads say does not change with the machine.
LEMMA PayloadsStay ==
    ASSUME Reports' \subseteq Reports, max' = max, NeverInvents, WrapsCorrected
    PROVE  NeverInvents' /\ WrapsCorrected'
BY DEF NeverInvents, WrapsCorrected, Bounded, Exact, InOrder, IsReset, Fell, Consumed, Spent

LEMMA MachineKeepsWrapInv ==
    ASSUME WrapInv, Tick \/ Reset \/ \E d \in Domains : Consume(d)
    PROVE  WrapInv'
<1> USE DEF WrapInv
<1>1. TypeOK'
    BY RaplAssumption DEF TypeOK, ReadingsTyped, Tick, Reset, Consume
<1>2. Known' = Known /\ Known \subseteq Reading /\ ReadingsTyped
    BY KnownAreReadings DEF TypeOK, Known, Tick, Reset, Consume
<1>3. \A x \in Known' : IsPast(x)' /\ Tells(x, Now)'
    <2>1. CASE Tick
        BY <1>2, <2>1 DEF Tick, IsPast, Tells, Now
    <2>2. CASE Reset
        BY <1>2, <2>2, ResetKeepsPast
    <2>3. ASSUME NEW d \in Domains, Consume(d)
          PROVE  \A x \in Known' : IsPast(x)' /\ Tells(x, Now)'
        BY <1>2, <2>3, ConsumeKeepsPast
    <2>4. QED
        BY <2>1, <2>2, <2>3
<1>4. \A x, y \in Known' : Tells(x, y)'
    BY <1>2 DEF Tells
<1>5. NeverInvents' /\ WrapsCorrected'
    <2>1. Reports' = Reports /\ max' = max
        BY DEF Reports, Tick, Reset, Consume
    <2>2. QED
        BY <2>1, PayloadsStay
<1>6. QED
    BY <1>1, <1>3, <1>4, <1>5

-----------------------------------------------------------------------------
\* What sample() does: it may add the present reading to the known ones.

LEMMA SamplingKeepsTelling ==
    ASSUME WrapInv, UNCHANGED <<count, spent, resets>>, Known' \subseteq Known \cup {Now}
    PROVE  /\ \A x \in Known' : IsPast(x)' /\ Tells(x, Now)'
           /\ \A x, y \in Known' : Tells(x, y)'
<1>1. Now' = Now
    BY DEF Now
<1>2. \A x : IsPast(x)' <=> IsPast(x)
    BY DEF IsPast
<1>3. IsPast(Now) /\ Tells(Now, Now)
    BY RaplAssumption DEF WrapInv, TypeOK, ReadingsTyped, IsPast, Tells, Now
<1>4. \A x \in Known : Tells(Now, x) /\ Tells(x, Now) /\ IsPast(x)
    BY KnownAreReadings, PresentTellsPast DEF WrapInv, TypeOK
<1>5. \A x \in Known \cup {Now} : IsPast(x) /\ Tells(x, Now)
    BY <1>3, <1>4
<1>6. \A x, y \in Known \cup {Now} : Tells(x, y)
    BY <1>3, <1>4 DEF WrapInv
<1>7. \A x \in Known' : IsPast(x)' /\ Tells(x, Now)'
    BY <1>1, <1>2, <1>5 DEF Tells
<1>8. \A x, y \in Known' : Tells(x, y)'
    BY <1>6 DEF Tells
<1>9. QED
    BY <1>7, <1>8

\* What a payload reports for one domain is never negative.
LEMMA DeltasAreNatural ==
    ASSUME ReadingsTyped, NEW x \in Reading, NEW y \in Reading,
           \A d \in Domains : ~(Delta(d, x.count[d], y.count[d]) < 0)
    PROVE  [d \in Domains |-> Delta(d, x.count[d], y.count[d])] \in [Domains -> Nat]
<1>1. ASSUME NEW d \in Domains
      PROVE  Delta(d, x.count[d], y.count[d]) \in Int
    <2>1. x.count[d] \in Int /\ y.count[d] \in Int /\ max[d] \in {MaxRange, None} /\ MaxRange \in Int
        BY RaplAssumption DEF Reading, ReadingsTyped
    <2>2. QED
        BY <2>1 DEF Delta
<1>2. QED
    BY <1>1

\* Two readings that tell each other give a payload that is no more than what
\* was consumed, and exact if no range was used up.
LEMMA PowerIsSound ==
    ASSUME ReadingsTyped, NEW dt \in Int, NEW x \in Reading, NEW y \in Reading, Tells(x, y),
           Power(dt, x, y) # None
    PROVE  /\ Power(dt, x, y).energy \in Nat
           /\ Bounded(Power(dt, x, y)) /\ Exact(Power(dt, x, y))
<1> DEFINE delta == [d \in Domains |-> Delta(d, x.count[d], y.count[d])]
           p == Payload(dt, delta, x, y)
           consumed == [d \in Domains |-> Consumed(p, d)]
<1>1. Power(dt, x, y) = p /\ dt > 0 /\ \A d \in Domains : ~(delta[d] < 0)
    BY DEF Power
<1>2. p.from = x /\ p.to = y /\ p.energy = SumFunction(delta) /\ p.dt = dt
    BY DEF Payload
<1>3. delta \in [Domains -> Nat]
    BY <1>1, DeltasAreNatural
<1>4. Spent(p) = SumFunction(consumed)
    BY DEF Spent
<1>5. \A d \in Domains : /\ Consumed(p, d) = y.spent[d] - x.spent[d]
                         /\ x.spent[d] \in Int /\ y.spent[d] \in Int
                         /\ x.count[d] \in 0 .. MaxRange - 1 /\ y.count[d] \in 0 .. MaxRange - 1
                         /\ max[d] \in {MaxRange, None} /\ MaxRange \in Nat
    BY <1>2, RaplAssumption DEF Consumed, Reading, ReadingsTyped
<1>6. InOrder(p) => consumed \in [Domains -> Nat]
    BY <1>5 DEF InOrder
<1>7. x.resets \in Nat /\ y.resets \in Nat
    BY RaplAssumption DEF Reading
<1> HIDE DEF p
<1>8. ASSUME InOrder(p), ~(IsReset(p) /\ \E d \in Domains : Fell(p, d) /\ max[d] # None),
             NEW d \in Domains
      PROVE  delta[d] <= consumed[d]
    <2>1. /\ delta[d] = Delta(d, x.count[d], y.count[d]) /\ ~(delta[d] < 0)
          /\ consumed[d] = y.spent[d] - x.spent[d] /\ consumed[d] >= 0
        BY <1>1, <1>5, <1>8 DEF InOrder
    <2>2. CASE IsReset(p)
        <3>1. y.count[d] <= consumed[d]
            BY <1>2, <1>7, <1>8, <2>1, <2>2 DEF InOrder, IsReset, Tells
        <3>2. ~Fell(p, d) \/ max[d] = None
            BY <1>8, <2>2
        <3>3. delta[d] = y.count[d] - x.count[d]
            BY <1>2, <1>5, <2>1, <3>2 DEF Fell, Delta
        <3>4. QED
            BY <1>5, <2>1, <3>1, <3>3
    <2>3. CASE ~IsReset(p)
        <3>1. consumed[d] \in 0 .. MaxRange - 1 =>
                y.count[d] - x.count[d] \in {consumed[d], consumed[d] - MaxRange}
            BY <1>2, <2>1, <2>3 DEF IsReset, Tells
        <3>2. QED
            BY <1>5, <2>1, <3>1 DEF Delta
    <2>4. QED
        BY <2>2, <2>3
<1>9. Bounded(p)
    <2> DEFINE full == [d \in Domains |-> MaxRange - 1]
    <2>1. full \in [Domains -> Nat]
        BY RaplAssumption
    <2>2. ASSUME NEW d \in Domains
          PROVE  delta[d] <= full[d]
        <3>1. delta[d] = Delta(d, x.count[d], y.count[d]) /\ ~(delta[d] < 0)
            BY <1>1
        <3>2. QED
            BY <1>5, <3>1, RaplAssumption DEF Delta
    <2>3. p.energy <= FullRanges
        BY <1>2, <1>3, <2>1, <2>2, SumOfDomains DEF FullRanges
    <2>4. QED
        BY <1>1, <1>2, <1>3, <1>4, <1>6, <1>8, <2>3, SumOfDomains DEF Bounded
<1>10. ASSUME InOrder(p), ~IsReset(p), \A d \in Domains : max[d] # None /\ Consumed(p, d) < MaxRange,
              NEW d \in Domains
       PROVE  delta[d] = consumed[d]
    <2>1. /\ delta[d] = Delta(d, x.count[d], y.count[d])
          /\ consumed[d] = y.spent[d] - x.spent[d] /\ consumed[d] \in 0 .. MaxRange - 1
        BY <1>5, <1>10 DEF InOrder
    <2>2. y.count[d] - x.count[d] \in {consumed[d], consumed[d] - MaxRange}
        BY <1>2, <1>10, <2>1 DEF IsReset, Tells
    <2>3. max[d] # None /\ max[d] = MaxRange
        BY <1>5, <1>10
    <2>4. QED
        BY <1>5, <2>1, <2>2, <2>3 DEF Delta
<1>11. Exact(p)
    <2> SUFFICES ASSUME InOrder(p), ~IsReset(p),
                        \A d \in Domains : max[d] # None /\ Consumed(p, d) < MaxRange
                 PROVE  p.energy = Spent(p)
        BY DEF Exact
    <2>1. delta = consumed
        BY <1>10
    <2>2. QED
        BY <1>2, <1>4, <2>1
<1>12. p.energy \in Nat
    BY <1>2, <1>3, SumOfDomains
<1>13. QED
    BY <1>1, <1>9, <1>11, <1>12

LEMMA ReadingKeepsWrapInv ==
    ASSUME WrapInv, NEW t \in Threads, ReadClock(t) \/ ReadEnergy(t) \/ FailToRead(t)
    PROVE  WrapInv'
<1>0. ReadingsTyped /\ \A s \in Threads : report[s] = None \/ report[s].energy \in Nat
    BY DEF WrapInv, TypeOK
<1>1. ReadingsTyped'
    <2>1. CASE ReadEnergy(t)
        <3>1. [count |-> count, spent |-> spent, resets |-> resets] \in Reading
            BY <1>0 DEF ReadingsTyped, Reading
        <3>2. QED
            BY <1>0, <2>1, <3>1 DEF ReadingsTyped, ReadEnergy
    <2>2. CASE ReadClock(t) \/ FailToRead(t)
        BY <1>0, <2>2 DEF ReadingsTyped, ReadClock, FailToRead
    <2>3. QED
        BY <2>1, <2>2
<1>2. \A s \in Threads : report'[s] \in {None, report[s]}
    BY <1>0 DEF ReadingsTyped, ReadClock, ReadEnergy, FailToRead
<1>3. Known' \subseteq Known \cup {Now} /\ UNCHANGED <<count, spent, resets, max>>
    BY <1>0 DEF ReadingsTyped, Known, Now, ReadClock, ReadEnergy, FailToRead
<1>4. TypeOK'
    BY <1>0, <1>1, <1>2 DEF TypeOK
<1>5. NeverInvents' /\ WrapsCorrected'
    <2>1. Reports' \subseteq Reports
        BY <1>2 DEF Reports
    <2>2. QED
        BY <1>3, <2>1, PayloadsStay DEF WrapInv
<1>6. QED
    BY <1>3, <1>4, <1>5, SamplingKeepsTelling DEF WrapInv

LEMMA SwapKeepsWrapInv ==
    ASSUME WrapInv, NEW t \in Threads, Swap(t)
    PROVE  WrapInv'
<1> DEFINE p == IF last = None THEN None ELSE Power(now[t] - last.at, last.reading, got[t])
<1>0. ReadingsTyped
    BY DEF WrapInv, TypeOK
<1>1. ReadingsTyped'
    BY <1>0 DEF ReadingsTyped, Swap
<1>2. got[t] \in Known /\ (last # None => last.reading \in Known)
    BY <1>0, RaplAssumption DEF ReadingsTyped, Known, Swap
<1>3. Known' \subseteq Known /\ UNCHANGED <<count, spent, resets, max>>
    BY <1>0, <1>2 DEF ReadingsTyped, Known, Swap
<1>4. report' = [report EXCEPT ![t] = p]
    BY DEF Swap
<1>5. p # None => p.energy \in Nat /\ Bounded(p) /\ Exact(p)
    <2> SUFFICES ASSUME last # None, p # None
                 PROVE  p.energy \in Nat /\ Bounded(p) /\ Exact(p)
        OBVIOUS
    <2>1. now[t] - last.at \in Int
        BY <1>0, RaplAssumption DEF ReadingsTyped
    <2>2. last.reading \in Reading /\ got[t] \in Reading /\ Tells(last.reading, got[t])
        BY <1>0, <1>2, KnownAreReadings DEF WrapInv
    <2>3. QED
        BY <1>0, <2>1, <2>2, PowerIsSound
<1> HIDE DEF p
<1>6. TypeOK'
    BY <1>0, <1>1, <1>4, <1>5 DEF WrapInv, TypeOK, ReadingsTyped
<1>7. NeverInvents' /\ WrapsCorrected'
    <2>1. Reports' \subseteq Reports \cup ({p} \ {None})
        BY <1>0, <1>4 DEF ReadingsTyped, Reports
    <2>2. \A q \in Reports' : Bounded(q) /\ Exact(q)
        BY <1>5, <2>1 DEF WrapInv, NeverInvents, WrapsCorrected
    <2>3. QED
        BY <1>3, <2>2 DEF NeverInvents, WrapsCorrected, Bounded, Exact, InOrder, IsReset, Fell,
                          Consumed, Spent
<1>8. QED
    BY <1>3, <1>6, <1>7, SamplingKeepsTelling DEF WrapInv

\* WrapInv is inductive.
LEMMA WrapInvariantHolds == Spec => []WrapInv
<1>1. ASSUME WrapInv, [Next]_vars
      PROVE  WrapInv'
    <2>1. CASE UNCHANGED vars
        <3>1. TypeOK'
            BY <1>1, <2>1 DEF vars, WrapInv, TypeOK, ReadingsTyped
        <3>2. Known' = Known /\ Reports' = Reports /\ UNCHANGED <<count, spent, resets, max>>
            BY <2>1 DEF vars, Known, Reports
        <3>3. NeverInvents' /\ WrapsCorrected'
            BY <1>1, <3>2, PayloadsStay DEF WrapInv
        <3>4. QED
            BY <1>1, <3>1, <3>2, <3>3, SamplingKeepsTelling DEF WrapInv
    <2>2. CASE Next
        BY <1>1, <2>2, MachineKeepsWrapInv, ReadingKeepsWrapInv, SwapKeepsWrapInv DEF Next
    <2>3. QED
        BY <1>1, <2>1, <2>2
<1>2. QED
    BY <1>1, InitEstablishesWrapInv, PTL DEF Spec

-----------------------------------------------------------------------------

(* The readings, what threads hold of them and what they report keep their *)
(* types: in particular no payload has a negative energy.                  *)
THEOREM RaplTypeCorrect == Spec => []TypeOK
BY WrapInvariantHolds, PTL DEF WrapInv

(* sample() never reports more energy than the packages consumed between   *)
(* its two readings, however the samples of any number of threads          *)
(* interleave, but for the two cases where a counter with a known range    *)
(* fell and did not wrap; in these, too, never more than one full range of *)
(* each package.                                                           *)
THEOREM EnergyIsNotInvented == Spec => []NeverInvents
BY WrapInvariantHolds, PTL DEF WrapInv

(* A counter that wrapped between two readings is corrected exactly, in    *)
(* whichever packages it wrapped, however many threads sample, provided    *)
(* that less than one full range was consumed and the readings were not    *)
(* exchanged out of order.                                                 *)
THEOREM WrapsAreCorrected == Spec => []WrapsCorrected
BY WrapInvariantHolds, PTL DEF WrapInv
=============================================================================
