---------------------------- MODULE RouteProofs ----------------------------
(***************************************************************************)
(* What the GET routes promise on any host.  /metrics and /info: a failure *)
(* costs its own part only, and the CPU's readings are of one round of the *)
(* sampler.  The proof follows a request from collector to collector:      *)
(* MetricsInv says what the payload has after the collectors before next,  *)
(* and the only facts it needs about lists are those of one more item at   *)
(* the end, and of merge: the keys of both, and lists joined in order.     *)
(* Thermal zones: each adds a key, because the suffixed label of one zone  *)
(* is no other zone's.                                                     *)
(*                                                                         *)
(* Power: measured_w adds every watt once.  The same walk, with what the   *)
(* payload so far has of the GPUs' power and of the sources (PowerInv),    *)
(* and with the sums of module Sums: over joined lists, over sources under *)
(* the labels of the rails, and over the three kinds of sources.           *)
(*                                                                         *)
(* /stream: no burst, however long ticks and writes take and however late  *)
(* the thread wakes up.  Each tick begins at or after its place in the     *)
(* schedule, and the schedule advances by at least one interval per tick;  *)
(* a tick begins no later than the next place in the schedule is set.  So  *)
(* two ticks later, one interval has passed.                               *)
(***************************************************************************)
EXTENDS Metrics, Stream, Sums

-----------------------------------------------------------------------------
(* Sequences.                                                              *)

\* What the provers know of sequences, one fact at a time.
LEMMA ItemFacts ==
    ASSUME NEW S, NEW s \in Seq(S)
    PROVE  /\ Len(s) \in Nat /\ DOMAIN s = 1 .. Len(s)
           /\ \A i \in DOMAIN s : s[i] \in S
OBVIOUS

LEMMA AppendFacts ==
    ASSUME NEW S, NEW s \in Seq(S), NEW x \in S
    PROVE  /\ Append(s, x) \in Seq(S) /\ Len(Append(s, x)) = Len(s) + 1
           /\ \A i \in 1 .. Len(s) : Append(s, x)[i] = s[i]
           /\ Append(s, x)[Len(s) + 1] = x
OBVIOUS

LEMMA ConcatFacts ==
    ASSUME NEW S, NEW s \in Seq(S), NEW t \in Seq(S)
    PROVE  /\ s \o t \in Seq(S) /\ Len(s \o t) = Len(s) + Len(t)
           /\ \A i \in 1 .. Len(s) : (s \o t)[i] = s[i]
           /\ \A i \in 1 .. Len(t) : (s \o t)[Len(s) + i] = t[i]
OBVIOUS

LEMMA EmptyFacts ==
    ASSUME NEW S
    PROVE  <<>> \in Seq(S) /\ Len(<<>>) = 0 /\ DOMAIN <<>> = {}
           /\ \A s \in Seq(S) : s \o <<>> = s /\ <<>> \o s = s
OBVIOUS

\* A function on 1 .. n is a sequence.
LEMMA FunctionIsSequence ==
    ASSUME NEW S, NEW n \in Nat, NEW f \in [1 .. n -> S]
    PROVE  f \in Seq(S) /\ Len(f) = n
OBVIOUS

LEMMA MoreItems ==
    ASSUME NEW S, NEW T, S \subseteq T, NEW s \in Seq(S)
    PROVE  s \in Seq(T)
OBVIOUS

\* A sequence of anything is one of its own items.
LEMMA SequenceOfItsItems ==
    ASSUME NEW S, NEW s \in Seq(S)
    PROVE  IsSeq(s)
<1>1. Len(s) \in Nat /\ s \in [1 .. Len(s) -> S]
    OBVIOUS
<1>2. s \in [1 .. Len(s) -> Range(s)]
    BY <1>1 DEF Range
<1>3. QED
    BY <1>1, <1>2, FunctionIsSequence DEF IsSeq

\* Sequences of their own items, joined and made longer by one.
LEMMA ConcatIsSeq ==
    ASSUME NEW s, NEW t, IsSeq(s), IsSeq(t)
    PROVE  IsSeq(s \o t)
<1>1. PICK S : S = Range(s) \cup Range(t)
    OBVIOUS
<1>2. s \in Seq(S) /\ t \in Seq(S)
    BY <1>1, MoreItems DEF IsSeq
<1>3. QED
    BY <1>2, ConcatFacts, SequenceOfItsItems

LEMMA AppendIsSeq ==
    ASSUME NEW s, NEW x, IsSeq(s)
    PROVE  /\ IsSeq(Append(s, x))
           /\ DOMAIN Append(s, x) = DOMAIN s \cup {Len(s) + 1}
           /\ DOMAIN s = 1 .. Len(s) /\ Len(s) \in Nat
           /\ \A i \in DOMAIN s : Append(s, x)[i] = s[i]
           /\ Append(s, x)[Len(s) + 1] = x
<1>1. PICK S : S = Range(s) \cup {x}
    OBVIOUS
<1>2. s \in Seq(S) /\ x \in S
    BY <1>1, MoreItems DEF IsSeq
<1>3. Append(s, x) \in Seq(S) /\ Len(Append(s, x)) = Len(s) + 1
    BY <1>2, AppendFacts
<1>4. DOMAIN s = 1 .. Len(s) /\ Len(s) \in Nat
    BY <1>2, ItemFacts
<1>5. DOMAIN Append(s, x) = 1 .. Len(s) + 1
    BY <1>3, ItemFacts
<1>6. IsSeq(Append(s, x))
    BY <1>3, SequenceOfItsItems
<1>7. (\A i \in 1 .. Len(s) : Append(s, x)[i] = s[i]) /\ Append(s, x)[Len(s) + 1] = x
    BY <1>2, AppendFacts
<1>8. 1 .. Len(s) + 1 = 1 .. Len(s) \cup {Len(s) + 1}
    BY <1>4
<1>9. QED
    BY <1>4, <1>5, <1>6, <1>7, <1>8

LEMMA EmptyIsSeq == IsSeq(<<>>)
BY EmptyFacts DEF IsSeq

\* One list item per number.
LEMMA EnumerationIsSeq ==
    ASSUME NEW n \in Nat, NEW f, DOMAIN f = 1 .. n, f = [i \in 1 .. n |-> f[i]]
    PROVE  IsSeq(f) /\ Len(f) = n
<1>1. f \in [1 .. n -> Range(f)]
    BY DEF Range
<1>2. QED
    BY <1>1, FunctionIsSequence DEF IsSeq

-----------------------------------------------------------------------------
(* FlattenSeq                                                              *)

\* What FlattenSeq computes of the first n items.
Flattened(F, s, n) ==
    F = [i \in 1 .. n |-> IF i = 1 THEN s[i] ELSE F[i - 1] \o s[i]]

\* There is such a function: no number is the least one without it.
LEMMA FlattenedExists ==
    ASSUME NEW s, NEW m \in Nat
    PROVE  \E F : Flattened(F, s, m)
<1>1. PICK bad : bad = {n \in Nat : ~ \E F : Flattened(F, s, n)}
    OBVIOUS
<1>2. SUFFICES ASSUME bad # {} PROVE FALSE
    BY <1>1
<1>3. PICK n \in bad : \A k \in bad : n <= k
    BY <1>1, <1>2, Least
<1>4. n \in Nat /\ ~ \E F : Flattened(F, s, n)
    BY <1>1, <1>3
<1>5. CASE n = 0
    <2>1. Flattened([i \in 1 .. 0 |-> i], s, 0)
        BY DEF Flattened
    <2>2. QED
        BY <1>4, <1>5, <2>1
<1>6. CASE n # 0
    <2>1. PICK k \in Nat : n = k + 1
        BY <1>4, <1>6
    <2>2. PICK F : Flattened(F, s, k)
        BY <1>1, <1>3, <2>1
    <2>3. PICK G : G = [i \in 1 .. n |->
                  IF i = n THEN IF i = 1 THEN s[i] ELSE F[k] \o s[i] ELSE F[i]]
        OBVIOUS
    <2>4. \A i \in 1 .. n : G[i] = IF i = 1 THEN s[i] ELSE G[i - 1] \o s[i]
        <3>1. \A i \in 1 .. k : F[i] = IF i = 1 THEN s[i] ELSE F[i - 1] \o s[i]
            BY <2>2 DEF Flattened
        <3>2. \A i \in 1 .. k : G[i] = F[i]
            BY <2>1, <2>3
        <3>3. G[n] = IF n = 1 THEN s[n] ELSE F[k] \o s[n]
            BY <1>6, <2>1, <2>3
        <3>4. \A i \in 1 .. n : i = n \/ i \in 1 .. k
            BY <2>1
        <3>5. \A i \in 1 .. k : i # 1 => i - 1 \in 1 .. k
            OBVIOUS
        <3>6. n # 1 => k \in 1 .. k /\ n - 1 = k
            BY <2>1
        <3>7. QED
            BY <3>1, <3>2, <3>3, <3>4, <3>5, <3>6
    <2>5. G = [i \in 1 .. n |-> G[i]]
        BY <2>3
    <2>6. Flattened(G, s, n)
        BY <2>4, <2>5 DEF Flattened
    <2>7. QED
        BY <1>4, <2>6
<1>7. QED
    BY <1>5, <1>6

\* Two sequences are flattened alike as far as they are alike.
LEMMA FlattenedAlike ==
    ASSUME NEW s, NEW t, NEW m \in Nat, NEW n \in Nat, m <= n,
           NEW F, Flattened(F, s, m), NEW G, Flattened(G, t, n),
           \A i \in 1 .. m : s[i] = t[i]
    PROVE  \A i \in 1 .. m : F[i] = G[i]
<1>1. PICK bad : bad = {i \in 1 .. m : F[i] # G[i]}
    OBVIOUS
<1>2. SUFFICES ASSUME bad # {} PROVE FALSE
    BY <1>1
<1>3. PICK i \in bad : \A k \in bad : i <= k
    BY <1>1, <1>2, Least
<1>4. i \in 1 .. m /\ i \in 1 .. n /\ F[i] # G[i]
    BY <1>1, <1>3
<1>5. F[i] = (IF i = 1 THEN s[i] ELSE F[i - 1] \o s[i])
    BY <1>4 DEF Flattened
<1>6. G[i] = (IF i = 1 THEN t[i] ELSE G[i - 1] \o t[i])
    BY <1>4 DEF Flattened
<1>7. i # 1 => F[i - 1] = G[i - 1]
    BY <1>1, <1>3, <1>4
<1>8. QED
    BY <1>4, <1>5, <1>6, <1>7

\* FlattenSeq takes the last value of any such function.
LEMMA FlattenSeqUnfolds ==
    ASSUME NEW s, NEW n \in Nat \ {0}, Len(s) = n, NEW F, Flattened(F, s, n)
    PROVE  FlattenSeq(s) = F[n]
<1>1. PICK G : G = CHOOSE H : Flattened(H, s, n)
    OBVIOUS
<1>2. Flattened(G, s, n)
    BY <1>1
<1>3. FlattenSeq(s) = G[n]
    BY <1>1 DEF FlattenSeq, Flattened
<1>4. QED
    BY <1>2, <1>3, FlattenedAlike

\* One more item is one more sequence at the end.
LEMMA FlattenOneMore ==
    ASSUME NEW n \in Nat, NEW s, NEW t, IsSeq(s), IsSeq(t), Len(s) = n, Len(t) = n + 1,
           \A i \in 1 .. n : t[i] = s[i], IsSeq(t[n + 1])
    PROVE  FlattenSeq(t) = FlattenSeq(s) \o t[n + 1]
<1>1. PICK G : Flattened(G, t, n + 1)
    BY FlattenedExists
<1>2. FlattenSeq(t) = G[n + 1]
    BY <1>1, FlattenSeqUnfolds
<1>3. G[n + 1] = IF n = 0 THEN t[n + 1] ELSE G[n] \o t[n + 1]
    <2>1. PICK k \in Nat : k = n + 1
        OBVIOUS
    <2>2. k \in 1 .. k /\ (k = 1 <=> n = 0) /\ k - 1 = n
        BY <2>1
    <2>3. G[k] = IF k = 1 THEN t[k] ELSE G[k - 1] \o t[k]
        BY <1>1, <2>1, <2>2 DEF Flattened
    <2>4. QED
        BY <2>1, <2>2, <2>3
<1>4. CASE n = 0
    <2>1. FlattenSeq(s) = s /\ s = <<>>
        BY <1>4 DEF FlattenSeq, IsSeq
    <2>2. <<>> \o t[n + 1] = t[n + 1]
        BY EmptyFacts DEF IsSeq
    <2>3. QED
        BY <1>2, <1>3, <1>4, <2>1, <2>2
<1>5. CASE n # 0
    <2>1. PICK F : Flattened(F, s, n)
        BY FlattenedExists
    <2>2. FlattenSeq(s) = F[n]
        BY <1>5, <2>1, FlattenSeqUnfolds
    <2>3. F[n] = G[n]
        BY <1>1, <1>5, <2>1, FlattenedAlike
    <2>4. QED
        BY <1>2, <1>3, <1>5, <2>2, <2>3
<1>6. QED
    BY <1>4, <1>5

\* What is flattened is a sequence.
LEMMA FlattenIsSeq ==
    ASSUME NEW s, IsSeq(s), \A i \in DOMAIN s : IsSeq(s[i])
    PROVE  IsSeq(FlattenSeq(s))
<1>1. PICK n \in Nat : n = Len(s) /\ DOMAIN s = 1 .. n
    BY ItemFacts DEF IsSeq
<1>2. PICK F : Flattened(F, s, n)
    BY FlattenedExists
<1>3. \A i \in 1 .. n : IsSeq(F[i])
    <2>1. PICK bad : bad = {i \in 1 .. n : ~IsSeq(F[i])}
        OBVIOUS
    <2>2. SUFFICES ASSUME bad # {} PROVE FALSE
        BY <2>1
    <2>3. PICK i \in bad : \A k \in bad : i <= k
        BY <2>1, <2>2, Least
    <2>4. i \in 1 .. n /\ ~IsSeq(F[i])
        BY <2>1, <2>3
    <2>5. F[i] = IF i = 1 THEN s[i] ELSE F[i - 1] \o s[i]
        BY <1>2, <2>4 DEF Flattened
    <2>6. i # 1 => IsSeq(F[i - 1])
        BY <2>1, <2>3, <2>4
    <2>7. IsSeq(s[i])
        BY <1>1, <2>4
    <2>8. QED
        BY <2>4, <2>5, <2>6, <2>7, ConcatIsSeq
<1>4. CASE n = 0
    BY <1>1, <1>4 DEF FlattenSeq
<1>5. CASE n # 0
    BY <1>1, <1>2, <1>3, <1>5, FlattenSeqUnfolds
<1>6. QED
    BY <1>4, <1>5

-----------------------------------------------------------------------------
(* The thermal zones.                                                      *)

\* What ZoneTemps computes of the first n zones.
Labeled(F, zones, n) ==
    F = [i \in 0 .. n |->
            IF i = 0 THEN Nothing ELSE WithZone(F[i - 1], zones[i])]

LEMMA LabeledExists ==
    ASSUME NEW zones, NEW m \in Nat
    PROVE  \E F : Labeled(F, zones, m)
<1>1. PICK bad : bad = {n \in Nat : ~ \E F : Labeled(F, zones, n)}
    OBVIOUS
<1>2. SUFFICES ASSUME bad # {} PROVE FALSE
    BY <1>1
<1>3. PICK n \in bad : \A k \in bad : n <= k
    BY <1>1, <1>2, Least
<1>4. n \in Nat /\ ~ \E F : Labeled(F, zones, n)
    BY <1>1, <1>3
<1>5. CASE n = 0
    <2>1. Labeled([i \in 0 .. 0 |-> Nothing], zones, 0)
        BY DEF Labeled
    <2>2. QED
        BY <1>4, <1>5, <2>1
<1>6. CASE n # 0
    <2>1. PICK k \in Nat : n = k + 1
        BY <1>4, <1>6
    <2>2. PICK F : Labeled(F, zones, k)
        BY <1>1, <1>3, <2>1
    <2>3. PICK last : last = WithZone(F[k], zones[n])
        OBVIOUS
    <2>4. PICK G : G = [i \in 0 .. n |-> IF i = n THEN last ELSE F[i]]
        OBVIOUS
    <2>5. \A i \in 0 .. n :
              G[i] = IF i = 0 THEN Nothing ELSE WithZone(G[i - 1], zones[i])
        <3>1. \A i \in 0 .. k :
                  F[i] = IF i = 0 THEN Nothing ELSE WithZone(F[i - 1], zones[i])
            BY <2>2 DEF Labeled
        <3>2. (\A i \in 0 .. k : G[i] = F[i]) /\ G[n] = last
            BY <2>1, <2>4
        <3>3. \A i \in 0 .. n : i = n \/ i \in 0 .. k
            BY <2>1
        <3>4. \A i \in 0 .. k : i # 0 => i - 1 \in 0 .. k
            OBVIOUS
        <3>5. k \in 0 .. k /\ n - 1 = k
            BY <2>1
        <3>6. QED
            BY <1>6, <2>3, <3>1, <3>2, <3>3, <3>4, <3>5
    <2>6. G = [i \in 0 .. n |-> G[i]]
        BY <2>4
    <2>7. Labeled(G, zones, n)
        BY <2>5, <2>6 DEF Labeled
    <2>8. QED
        BY <1>4, <2>7
<1>7. QED
    BY <1>5, <1>6

LEMMA SetFacts ==
    ASSUME NEW temps, NEW label, NEW reading
    PROVE  DOMAIN Set(temps, label, reading) = DOMAIN temps \cup {label}
BY DEF Set, Update

\* The zones among the first n that give a reading.
Giving(zones, n) == {j \in 1 .. n : zones[j].gives}

\* A zone's label is new: its type, or its type and number if the type is
\* there already.
LEMMA EveryZoneCounts ==
    ASSUME NEW zones, NEW n \in Nat, IsSeq(zones), Len(zones) = n,
           \A i, j \in DOMAIN zones :
               i # j => Suffixed(zones[i]) \notin {zones[j].type, Suffixed(zones[j])},
           NEW F, Labeled(F, zones, n), NEW m \in 0 .. n
    PROVE  /\ IsFiniteSet(DOMAIN F[m])
           /\ Cardinality(DOMAIN F[m]) = Cardinality(Giving(zones, m))
<1>1. PICK labels : labels = [j \in 1 .. n |-> {zones[j].type, Suffixed(zones[j])}]
    OBVIOUS
<1>2. PICK bad : bad = {i \in 0 .. n :
          ~ (/\ IsFiniteSet(DOMAIN F[i]) /\ Cardinality(DOMAIN F[i]) = Cardinality(Giving(zones, i))
             /\ \A l \in DOMAIN F[i] : \E j \in 1 .. i : l \in labels[j])}
    OBVIOUS
<1>3. SUFFICES ASSUME bad # {} PROVE FALSE
    BY <1>2
<1>4. PICK i \in bad : \A k \in bad : i <= k
    <2>1. bad \in SUBSET Nat
        BY <1>2
    <2>2. QED
        BY <1>3, <2>1, Least
<1>5. /\ i \in 0 .. n
      /\ ~ (/\ IsFiniteSet(DOMAIN F[i]) /\ Cardinality(DOMAIN F[i]) = Cardinality(Giving(zones, i))
            /\ \A l \in DOMAIN F[i] : \E j \in 1 .. i : l \in labels[j])
    BY <1>2, <1>4
<1>6. F[i] = IF i = 0 THEN Nothing ELSE WithZone(F[i - 1], zones[i])
    BY <1>5 DEF Labeled
<1>7. i # 0
    <2>1. SUFFICES ASSUME i = 0 PROVE FALSE
        OBVIOUS
    <2>2. DOMAIN F[i] = {}
        BY <1>6, <2>1, EmptyFacts DEF Nothing
    <2>3. Giving(zones, i) = {}
        BY <2>1 DEF Giving
    <2>4. QED
        BY <1>5, <2>2, <2>3, FS_EmptySet
<1>8. PICK k \in 0 .. n : i = k + 1 /\ k = i - 1 /\ i \in 1 .. n
    BY <1>5, <1>7
<1>9. /\ IsFiniteSet(DOMAIN F[k]) /\ Cardinality(DOMAIN F[k]) = Cardinality(Giving(zones, k))
      /\ \A l \in DOMAIN F[k] : \E j \in 1 .. k : l \in labels[j]
    BY <1>2, <1>4, <1>8
<1>10. F[i] = WithZone(F[k], zones[i]) /\ 1 .. i = 1 .. k \cup {i} /\ i \notin 1 .. k
    BY <1>6, <1>7, <1>8
<1>11. Giving(zones, i) = IF zones[i].gives THEN Giving(zones, k) \cup {i} ELSE Giving(zones, k)
    BY <1>8, <1>10 DEF Giving
<1>12. CASE ~zones[i].gives
    <2>1. F[i] = F[k] /\ Giving(zones, i) = Giving(zones, k)
        BY <1>10, <1>11, <1>12 DEF WithZone
    <2>2. \A l \in DOMAIN F[i] : \E j \in 1 .. i : l \in labels[j]
        BY <1>9, <1>10, <2>1
    <2>3. QED
        BY <1>5, <1>9, <2>1, <2>2
<1>13. CASE zones[i].gives
    <2>1. PICK label : label = ZoneLabel(F[k], zones[i])
        OBVIOUS
    <2>2. DOMAIN F[i] = DOMAIN F[k] \cup {label}
        <3>1. F[i] = Set(F[k], label, Value("num", 1))
            BY <1>10, <1>13, <2>1 DEF WithZone
        <3>2. DOMAIN Set(F[k], label, Value("num", 1)) = DOMAIN F[k] \cup {label}
            BY SetFacts
        <3>3. QED
            BY <3>1, <3>2
    <2>3. label \in labels[i]
        BY <1>1, <1>8, <2>1 DEF ZoneLabel
    <2>4. label \notin DOMAIN F[k]
        <3>1. CASE zones[i].type \notin DOMAIN F[k]
            BY <2>1, <3>1 DEF ZoneLabel
        <3>2. CASE zones[i].type \in DOMAIN F[k]
            <4>1. label = Suffixed(zones[i])
                BY <2>1, <3>2 DEF ZoneLabel
            <4>2. DOMAIN zones = 1 .. n
                BY ItemFacts DEF IsSeq
            <4>3. \A j \in 1 .. k : j \in 1 .. n /\ j # i
                BY <1>8
            <4>4. \A j \in 1 .. k : label \notin labels[j]
                BY <1>1, <1>8, <4>1, <4>2, <4>3
            <4>5. QED
                BY <1>9, <4>4
        <3>3. QED
            BY <3>1, <3>2
    <2>5. PICK known : known = DOMAIN F[k]
        OBVIOUS
    <2>6. /\ IsFiniteSet(known \cup {label})
          /\ Cardinality(known \cup {label}) = Cardinality(known) + 1
        BY <1>9, <2>4, <2>5, FS_AddElement
    <2>7. PICK counted : counted = Giving(zones, k) /\ counted \in SUBSET (1 .. k)
        BY <1>8 DEF Giving
    <2>8. IsFiniteSet(counted)
        <3>1. IsFiniteSet(1 .. k)
            BY <1>8, FS_Interval
        <3>2. QED
            BY <2>7, <3>1, FS_Subset
    <2>9. Cardinality(counted \cup {i}) = Cardinality(counted) + 1
        BY <1>10, <2>7, <2>8, FS_AddElement
    <2>10. IsFiniteSet(DOMAIN F[i]) /\ Cardinality(DOMAIN F[i]) = Cardinality(Giving(zones, i))
        BY <1>9, <1>11, <1>13, <2>2, <2>5, <2>6, <2>7, <2>9
    <2>11. \A l \in DOMAIN F[i] : \E j \in 1 .. i : l \in labels[j]
        BY <1>9, <1>10, <2>2, <2>3
    <2>12. QED
        BY <1>5, <2>10, <2>11
<1>14. QED
    BY <1>12, <1>13

LEMMA ZoneTempsCounted ==
    ASSUME NEW h \in Hosts
    PROVE  Cardinality(DOMAIN ZoneTemps(h.zones)) =
               Cardinality({i \in DOMAIN h.zones : h.zones[i].gives})
<1>1. PICK n \in Nat : n = Len(h.zones) /\ DOMAIN h.zones = 1 .. n
    BY MetricsAssumption, ItemFacts DEF IsSeq
<1>2. PICK F : F = CHOOSE G : Labeled(G, h.zones, n)
    OBVIOUS
<1>3. Labeled(F, h.zones, n)
    BY <1>2, LabeledExists
<1>4. ZoneTemps(h.zones) = F[n]
    BY <1>1, <1>2 DEF ZoneTemps, Labeled
<1>5. PICK zones : zones = h.zones
    OBVIOUS
<1>6. /\ IsSeq(zones)
      /\ \A i, j \in DOMAIN zones :
             i # j => Suffixed(zones[i]) \notin {zones[j].type, Suffixed(zones[j])}
    BY <1>5, MetricsAssumption
<1>7. Cardinality(DOMAIN F[n]) = Cardinality(Giving(zones, n))
    BY <1>1, <1>3, <1>5, <1>6, EveryZoneCounts
<1>8. Giving(zones, n) = {i \in DOMAIN h.zones : h.zones[i].gives}
    BY <1>1, <1>5 DEF Giving
<1>9. QED
    BY <1>4, <1>7, <1>8

-----------------------------------------------------------------------------
(* merge, and what it is given.                                            *)

LEMMA UpdateFacts ==
    ASSUME NEW d, NEW s
    PROVE  /\ DOMAIN Update(d, s) = DOMAIN d \cup DOMAIN s
           /\ \A k \in DOMAIN s : Update(d, s)[k] = s[k]
           /\ \A k \in DOMAIN d \ DOMAIN s : Update(d, s)[k] = d[k]
BY DEF Update

\* A key that only one of the two has keeps its value.
LEMMA MergeFacts ==
    ASSUME NEW d, NEW s
    PROVE  /\ DOMAIN Merge(d, s) = DOMAIN d \cup DOMAIN s
           /\ \A k \in DOMAIN d \ DOMAIN s : Merge(d, s)[k] = d[k]
           /\ \A k \in DOMAIN s \ DOMAIN d : Merge(d, s)[k] = s[k]
BY DEF Merge, MergeLevel

\* Lists that both have are joined, the payload's first.
LEMMA MergedLists ==
    ASSUME NEW d, NEW s, NEW k \in DOMAIN d \cap DOMAIN s,
           d[k].kind = "list", s[k].kind = "list"
    PROVE  Merge(d, s)[k] = Extended(d[k], s[k])
BY DEF Merge, MergeLevel

LEMMA ExtendedFacts ==
    ASSUME NEW old, NEW new
    PROVE  Extended(old, new).kind = "list" /\ Extended(old, new).of = old.of \o new.of
<1>1. PICK items : items = old.of \o new.of
    OBVIOUS
<1>2. List(items).kind = "list" /\ List(items).of = items
    BY DEF List, Value
<1>3. QED
    BY <1>1, <1>2 DEF Extended

\* Dicts that both have are one with the keys of both.
LEMMA MergedDicts ==
    ASSUME NEW d, NEW s, NEW k \in DOMAIN d \cap DOMAIN s,
           d[k].kind = "dict", s[k].kind = "dict"
    PROVE  /\ Merge(d, s)[k].kind = "dict"
           /\ DOMAIN Merge(d, s)[k].of = DOMAIN d[k].of \cup DOMAIN s[k].of
<1>1. Merge(d, s)[k] = Dict(MergeSources(d[k].of, s[k].of))
    BY DEF Merge, MergeLevel
<1>2. DOMAIN MergeSources(d[k].of, s[k].of) = DOMAIN d[k].of \cup DOMAIN s[k].of
    BY DEF MergeSources, MergeLevel
<1>3. QED
    BY <1>1, <1>2 DEF Dict, Value

Names == {"gpu.nvml", "gpu.amdgpu", "cpu", "memory", "hwmon", "power.rapl"}

\* An item of two joined sequences is one of the first or of the second.
LEMMA PlacesOfConcat ==
    ASSUME NEW S, NEW s \in Seq(S), NEW t \in Seq(S), NEW i \in DOMAIN (s \o t)
    PROVE  \/ i \in 1 .. Len(s) /\ (s \o t)[i] = s[i]
           \/ i - Len(s) \in 1 .. Len(t) /\ (s \o t)[i] = t[i - Len(s)]
<1>1. /\ s \o t \in Seq(S) /\ Len(s \o t) = Len(s) + Len(t)
      /\ Len(s) \in Nat /\ Len(t) \in Nat
    BY ConcatFacts, ItemFacts
<1>2. i \in 1 .. Len(s) + Len(t)
    BY <1>1, ItemFacts
<1>3. CASE i \in 1 .. Len(s)
    BY <1>3, ConcatFacts
<1>4. CASE i \notin 1 .. Len(s)
    <2>1. PICK m \in Nat, n \in Nat : m = Len(s) /\ n = Len(t)
        BY <1>1
    <2>2. i - m \in 1 .. n /\ m + (i - m) = i
        BY <1>2, <1>4, <2>1
    <2>3. PICK j : j = i - m
        OBVIOUS
    <2>4. (s \o t)[m + j] = t[j]
        BY <2>1, <2>2, <2>3, ConcatFacts
    <2>5. QED
        BY <2>1, <2>2, <2>3, <2>4
<1>5. QED
    BY <1>3, <1>4

\* Each item of s is in N, and is there once.
Distinct(s, N) ==
    s \in Seq(N) /\ \A i, j \in DOMAIN s : s[i] = s[j] => i = j

LEMMA DistinctConcat ==
    ASSUME NEW M, NEW N, M \cap N = {}, NEW s, NEW t, Distinct(s, M), Distinct(t, N)
    PROVE  Distinct(s \o t, M \cup N)
<1>1. PICK c : c = s \o t
    OBVIOUS
<1>2. s \in Seq(M \cup N) /\ t \in Seq(M \cup N)
    BY MoreItems DEF Distinct
<1>3. c \in Seq(M \cup N)
    BY <1>1, <1>2, ConcatFacts
<1>4. PICK m \in Nat, n \in Nat : DOMAIN s = 1 .. m /\ DOMAIN t = 1 .. n /\ m = Len(s) /\ n = Len(t)
    BY <1>2, ItemFacts
<1>5. \A i \in DOMAIN c :
          (i \in 1 .. m /\ c[i] = s[i]) \/ (i - m \in 1 .. n /\ c[i] = t[i - m])
    BY <1>1, <1>2, <1>4, PlacesOfConcat
<1>6. (\A i \in 1 .. m : s[i] \in M) /\ \A i \in 1 .. n : t[i] \in N
    BY <1>4, ItemFacts DEF Distinct
<1>7. DOMAIN c \in SUBSET Int
    BY <1>3, ItemFacts
<1>8. ASSUME NEW i \in DOMAIN c, NEW j \in DOMAIN c, c[i] = c[j]
      PROVE  i = j
    <2>1. CASE i \in 1 .. m /\ c[i] = s[i]
        <3>1. j \in 1 .. m /\ c[j] = s[j]
            BY <1>5, <1>6, <1>8, <2>1
        <3>2. QED
            BY <1>4, <1>8, <2>1, <3>1 DEF Distinct
    <2>2. CASE i - m \in 1 .. n /\ c[i] = t[i - m]
        <3>1. j - m \in 1 .. n /\ c[j] = t[j - m]
            BY <1>5, <1>6, <1>8, <2>2
        <3>2. i - m = j - m
            BY <1>4, <1>8, <2>2, <3>1 DEF Distinct
        <3>3. i \in Int /\ j \in Int
            BY <1>7
        <3>4. QED
            BY <3>2, <3>3
    <2>3. QED
        BY <1>5, <2>1, <2>2
<1>9. QED
    BY <1>1, <1>3, <1>8 DEF Distinct

LEMMA IfFoundFacts ==
    ASSUME NEW name, NEW found
    PROVE  Distinct(IfFound(name, found), {name})
<1>1. CASE found
    BY <1>1 DEF IfFound, Distinct
<1>2. CASE ~found
    BY <1>2, EmptyFacts DEF IfFound, Distinct
<1>3. QED
    BY <1>1, <1>2

\* A collector is one of six, and is asked once.
LEMMA CollectorFacts ==
    /\ collectors \in Seq(Names)
    /\ \A i, j \in DOMAIN collectors : collectors[i] = collectors[j] => i = j
<1>1. PICK a, b, c, d, e :
          /\ a = IfFound("gpu.nvml", host.nvml # <<>>)
          /\ b = IfFound("gpu.amdgpu", host.amd # <<>>)
          /\ c = <<"cpu", "memory">>
          /\ d = IfFound("hwmon", chips # <<>>)
          /\ e = IfFound("power.rapl", host.rapl # <<>>)
    OBVIOUS
<1>2. /\ Distinct(a, {"gpu.nvml"}) /\ Distinct(b, {"gpu.amdgpu"})
      /\ Distinct(d, {"hwmon"}) /\ Distinct(e, {"power.rapl"})
    BY <1>1, IfFoundFacts
<1>3. Distinct(c, {"cpu", "memory"})
    BY <1>1 DEF Distinct
<1>4. Distinct(a \o b, {"gpu.nvml"} \cup {"gpu.amdgpu"})
    BY <1>2, DistinctConcat
<1>5. Distinct((a \o b) \o c, {"gpu.nvml", "gpu.amdgpu"} \cup {"cpu", "memory"})
    <2>1. Distinct(a \o b, {"gpu.nvml", "gpu.amdgpu"})
        BY <1>4 DEF Distinct
    <2>2. QED
        BY <1>3, <2>1, DistinctConcat
<1>6. Distinct(((a \o b) \o c) \o d, {"gpu.nvml", "gpu.amdgpu", "cpu", "memory"} \cup {"hwmon"})
    <2>1. {"gpu.nvml", "gpu.amdgpu"} \cup {"cpu", "memory"} =
              {"gpu.nvml", "gpu.amdgpu", "cpu", "memory"}
        OBVIOUS
    <2>2. Distinct((a \o b) \o c, {"gpu.nvml", "gpu.amdgpu", "cpu", "memory"})
        BY <1>5, <2>1
    <2>3. QED
        BY <1>2, <2>2, DistinctConcat
<1>7. Distinct(collectors, Names)
    <2>1. PICK abcd, N :
              /\ abcd = ((a \o b) \o c) \o d
              /\ N = {"gpu.nvml", "gpu.amdgpu", "cpu", "memory", "hwmon"}
        OBVIOUS
    <2>2. {"gpu.nvml", "gpu.amdgpu", "cpu", "memory"} \cup {"hwmon"} = N
        BY <2>1
    <2>3. Distinct(abcd, N)
        BY <1>6, <2>1, <2>2
    <2>4. N \cap {"power.rapl"} = {} /\ N \cup {"power.rapl"} = Names
        BY <2>1 DEF Names
    <2>5. Distinct(abcd \o e, N \cup {"power.rapl"})
        BY <1>2, <2>3, <2>4, DistinctConcat
    <2>6. QED
        BY <1>1, <2>1, <2>4, <2>5 DEF collectors
<1>8. QED
    BY <1>7 DEF Distinct

\* What a collector may return, as far as the invariant goes.
SoundPartial(p, name) ==
    /\ "errors" \notin DOMAIN p
    /\ "cpu" \in DOMAIN p => name = "cpu"
    /\ \A key \in {"gpus", "fans"} :
           key \in DOMAIN p => p[key].kind = "list" /\ IsSeq(p[key].of)

LEMMA SingletonIsSeq == ASSUME NEW x PROVE IsSeq(<<x>>)
<1>1. <<x>> \in Seq({x})
    OBVIOUS
<1>2. QED
    BY <1>1, SequenceOfItsItems

\* The GPU collectors return one item per GPU, in a list.
LEMMA GpusSound ==
    ASSUME NEW devices, NEW name, \E n \in Nat : DOMAIN devices = 1 .. n,
           devices = [i \in DOMAIN devices |-> devices[i]]
    PROVE  SoundPartial(Gpus(devices), name)
<1>1. IsSeq(devices)
    BY EnumerationIsSeq
<1>2. DOMAIN Gpus(devices) = {"gpus"} /\ Gpus(devices)["gpus"] = List(devices)
    BY DEF Gpus
<1>3. QED
    BY <1>1, <1>2 DEF SoundPartial, List, Value

LEMMA FansListed ==
    ASSUME NEW c, IsSeq(c), NEW seen
    PROVE  IsSeq(Fans(c, seen))
<1>1. PICK some : some = [i \in DOMAIN c |->
          IF i \in seen THEN <<Dict([label |-> Str, rpm |-> Int1])>> ELSE <<>>]
    OBVIOUS
<1>2. IsSeq(some)
    BY <1>1, ItemFacts, EnumerationIsSeq DEF IsSeq
<1>3. \A i \in DOMAIN some : IsSeq(some[i])
    BY <1>1, SingletonIsSeq, EmptyIsSeq
<1>4. QED
    BY <1>1, <1>2, <1>3, FlattenIsSeq DEF Fans

\* The hwmon collector returns one item per readable fan, in a list, and the
\* watts of the readable rails by label.
LEMMA HwmonFacts ==
    ASSUME NEW s, NEW c, IsSeq(c), NEW withheld
    PROVE  LET h == HwmonSample(s, c, withheld)
               seen == RailsAnswering(s, c, withheld)
           IN  /\ DOMAIN h = {"fans"} \cup (IF seen = {} THEN {} ELSE {"power"})
               /\ h["fans"].kind = "list" /\ IsSeq(h["fans"].of)
               /\ seen # {} => h["power"] = Dict([sources |-> Dict(RailWatts(s, c, seen))])
<1>1. PICK seen : seen = RailsAnswering(s, c, withheld)
    OBVIOUS
<1>2. PICK fans, watts : /\ fans = Fans(c, FansAnswering(s, c, withheld))
                         /\ watts = RailWatts(s, c, seen)
    OBVIOUS
<1>3. PICK own, later :
          /\ own = [fans |-> List(fans)]
          /\ later = IF seen = {} THEN Nothing ELSE [power |-> Dict([sources |-> Dict(watts)])]
    OBVIOUS
<1>4. PICK h : h = Update(own, later)
    OBVIOUS
<1>5. h = HwmonSample(s, c, withheld)
    BY <1>1, <1>2, <1>3, <1>4 DEF HwmonSample
<1>6. DOMAIN own = {"fans"} /\ own["fans"] = List(fans)
    BY <1>3
<1>7. /\ DOMAIN later = IF seen = {} THEN {} ELSE {"power"}
      /\ seen # {} => later["power"] = Dict([sources |-> Dict(watts)])
    BY <1>3, EmptyFacts DEF Nothing
<1>8. /\ DOMAIN h = DOMAIN own \cup DOMAIN later
      /\ \A k \in DOMAIN later : h[k] = later[k]
      /\ \A k \in DOMAIN own \ DOMAIN later : h[k] = own[k]
    <2>1. /\ DOMAIN Update(own, later) = DOMAIN own \cup DOMAIN later
          /\ \A k \in DOMAIN later : Update(own, later)[k] = later[k]
          /\ \A k \in DOMAIN own \ DOMAIN later : Update(own, later)[k] = own[k]
        BY UpdateFacts
    <2>2. QED
        BY <1>4, <2>1
<1>9. DOMAIN h = {"fans"} \cup (IF seen = {} THEN {} ELSE {"power"})
    BY <1>6, <1>7, <1>8
<1>10. "fans" \notin DOMAIN later /\ h["fans"] = List(fans)
    BY <1>6, <1>7, <1>8
<1>11. seen # {} => h["power"] = Dict([sources |-> Dict(watts)])
    BY <1>7, <1>8
<1>12. h["fans"].kind = "list" /\ h["fans"].of = fans
    BY <1>10 DEF List, Value
<1>13. IsSeq(fans)
    BY <1>2, FansListed
<1>14. QED
    BY <1>1, <1>2, <1>5, <1>9, <1>11, <1>12, <1>13

LEMMA FansSound ==
    ASSUME NEW s, NEW c, IsSeq(c), NEW withheld
    PROVE  /\ DOMAIN HwmonSample(s, c, withheld) \subseteq {"fans", "power"}
           /\ SoundPartial(HwmonSample(s, c, withheld), "hwmon")
<1>1. PICK h : h = HwmonSample(s, c, withheld)
    OBVIOUS
<1>2. DOMAIN h \subseteq {"fans", "power"} /\ h["fans"].kind = "list" /\ IsSeq(h["fans"].of)
    <2>1. PICK seen : seen = RailsAnswering(s, c, withheld)
        OBVIOUS
    <2>2. /\ DOMAIN h = {"fans"} \cup (IF seen = {} THEN {} ELSE {"power"})
          /\ h["fans"].kind = "list" /\ IsSeq(h["fans"].of)
        BY <1>1, <2>1, HwmonFacts
    <2>3. QED
        BY <2>2
<1>3. QED
    BY <1>1, <1>2 DEF SoundPartial

\* No collector returns errors, and only the CPU collector returns "cpu".
LEMMA SampleSound ==
    ASSUME HostInv, NEW name \in Names
    PROVE  SoundPartial(Sample(name), name)
<1>1. IsSeq(host.nvml) /\ IsSeq(host.amd) /\ IsSeq(chips)
    BY MetricsAssumption DEF HostInv
<1>2. (\E n \in Nat : DOMAIN host.nvml = 1 .. n) /\ \E n \in Nat : DOMAIN host.amd = 1 .. n
    BY <1>1, ItemFacts DEF IsSeq
<1>3. CASE name = "gpu.nvml"
    BY <1>2, <1>3, GpusSound DEF Sample
<1>4. CASE name = "gpu.amdgpu"
    BY <1>2, <1>4, GpusSound DEF Sample
<1>5. CASE name = "cpu"
    BY <1>5 DEF Sample, SoundPartial
<1>6. CASE name = "memory"
    BY <1>6 DEF Sample, SoundPartial, MemoryInfo
<1>7. CASE name = "hwmon"
    BY <1>1, <1>7, FansSound DEF Sample
<1>8. CASE name = "power.rapl"
    BY <1>8, EmptyFacts DEF Sample, SoundPartial, RaplSample, Nothing
<1>9. QED
    BY <1>3, <1>4, <1>5, <1>6, <1>7, <1>8 DEF Names

LEMMA StaticInfoSound ==
    ASSUME HostInv, NEW name \in Names
    PROVE  SoundPartial(StaticInfo(name), name)
<1>1. IsSeq(host.nvml) /\ IsSeq(host.amd)
    BY MetricsAssumption DEF HostInv
<1>2. (\E n \in Nat : DOMAIN host.nvml = 1 .. n) /\ \E n \in Nat : DOMAIN host.amd = 1 .. n
    BY <1>1, ItemFacts DEF IsSeq
<1>3. CASE name = "gpu.nvml"
    BY <1>2, <1>3, GpusSound DEF StaticInfo
<1>4. CASE name = "gpu.amdgpu"
    BY <1>2, <1>4, GpusSound DEF StaticInfo
<1>5. CASE name \in {"cpu", "memory"}
    BY <1>5 DEF StaticInfo, SoundPartial
<1>6. CASE name \in {"hwmon", "power.rapl"}
    BY <1>6, EmptyFacts DEF StaticInfo, SoundPartial, Nothing
<1>7. QED
    BY <1>3, <1>4, <1>5, <1>6 DEF Names

\* Under the lock, the CPU's sample has both readings of one round, and the
\* host's temperatures.
LEMMA CpuSampleTogether ==
    ASSUME SamplerInv, LockFree
    PROVE  /\ DOMAIN Sample("cpu") = {"cpu"}
           /\ Sample("cpu").cpu.of.usage_pct = Sample("cpu").cpu.of.per_core_pct.of[1]
           /\ Sample("cpu").cpu.of.temperatures_c.of = Temps(host)
BY DEF Sample, CpuSampled, SamplerInv, LockFree, Dict, List, Value

-----------------------------------------------------------------------------
(* The lists of the payload, of what was returned, and of both one step    *)
(* later.                                                                  *)

LEMMA ItemsOfDict ==
    ASSUME NEW d, NEW key
    PROVE  Items(Dict(d), key) = IF key \in DOMAIN d THEN d[key].of ELSE <<>>
<1>1. Dict(d) # None /\ Dict(d).of = d
    BY DEF Dict, Value, None
<1>2. QED
    BY <1>1 DEF Items

\* merge appends the partial payload's list to the payload's.
LEMMA ItemsMerged ==
    ASSUME NEW d, NEW s, NEW key,
           key \in DOMAIN d => d[key].kind = "list",
           key \in DOMAIN s => s[key].kind = "list",
           IsSeq(Items(Dict(d), key)), IsSeq(Items(Dict(s), key))
    PROVE  /\ Items(Dict(Merge(d, s)), key) = Items(Dict(d), key) \o Items(Dict(s), key)
           /\ key \in DOMAIN Merge(d, s) => Merge(d, s)[key].kind = "list"
<1>1. PICK m : m = Merge(d, s)
    OBVIOUS
<1>2. /\ DOMAIN m = DOMAIN d \cup DOMAIN s
      /\ key \in DOMAIN d \ DOMAIN s => m[key] = d[key]
      /\ key \in DOMAIN s \ DOMAIN d => m[key] = s[key]
      /\ key \in DOMAIN d \cap DOMAIN s => m[key] = Extended(d[key], s[key])
    <2>1. DOMAIN m = DOMAIN d \cup DOMAIN s
        BY <1>1, MergeFacts
    <2>2. key \in DOMAIN d \ DOMAIN s => m[key] = d[key]
        BY <1>1, MergeFacts
    <2>3. key \in DOMAIN s \ DOMAIN d => m[key] = s[key]
        BY <1>1, MergeFacts
    <2>4. key \in DOMAIN d \cap DOMAIN s => m[key] = Extended(d[key], s[key])
        BY <1>1, MergedLists
    <2>5. QED
        BY <2>1, <2>2, <2>3, <2>4
<1>3. PICK a, b : a = Items(Dict(d), key) /\ b = Items(Dict(s), key)
    OBVIOUS
<1>4. a \o <<>> = a /\ <<>> \o b = b /\ <<>> \o <<>> = <<>>
    BY <1>3, EmptyFacts DEF IsSeq
<1>5. /\ a = IF key \in DOMAIN d THEN d[key].of ELSE <<>>
      /\ b = IF key \in DOMAIN s THEN s[key].of ELSE <<>>
      /\ Items(Dict(m), key) = IF key \in DOMAIN m THEN m[key].of ELSE <<>>
    BY <1>3, ItemsOfDict
<1>6. Items(Dict(m), key) = a \o b
    <2>1. CASE key \in DOMAIN d /\ key \in DOMAIN s
        <3>1. a = d[key].of /\ b = s[key].of /\ Items(Dict(m), key) = m[key].of
            BY <1>2, <1>5, <2>1
        <3>2. m[key] = Extended(d[key], s[key])
            BY <1>2, <2>1
        <3>3. m[key].of = d[key].of \o s[key].of
            BY <3>2, ExtendedFacts
        <3>4. QED
            BY <3>1, <3>3
    <2>2. CASE key \in DOMAIN d /\ key \notin DOMAIN s
        BY <1>2, <1>4, <1>5, <2>2
    <2>3. CASE key \notin DOMAIN d /\ key \in DOMAIN s
        BY <1>2, <1>4, <1>5, <2>3
    <2>4. CASE key \notin DOMAIN d /\ key \notin DOMAIN s
        BY <1>2, <1>4, <1>5, <2>4
    <2>5. QED
        BY <2>1, <2>2, <2>3, <2>4
<1>7. key \in DOMAIN m => m[key].kind = "list"
    <2>1. CASE key \in DOMAIN d \cap DOMAIN s
        <3>1. m[key] = Extended(d[key], s[key])
            BY <1>2, <2>1
        <3>2. Extended(d[key], s[key]).kind = "list"
            BY ExtendedFacts
        <3>3. QED
            BY <3>1, <3>2
    <2>2. CASE key \notin DOMAIN d \cap DOMAIN s
        BY <1>2, <2>2
    <2>3. QED
        BY <2>1, <2>2
<1>8. QED
    BY <1>1, <1>3, <1>6, <1>7

\* One more collector's list is at the end of all they returned.
LEMMA ToldMore ==
    ASSUME IsSeq(returned), NEW x, NEW key, IsSeq(Items(x, key)),
           returned' = Append(returned, x)
    PROVE  Told(key)' = Told(key) \o Items(x, key)
<1>1. PICK n \in Nat : n = Len(returned) /\ DOMAIN returned = 1 .. n
    BY AppendIsSeq
<1>2. /\ DOMAIN returned' = 1 .. n + 1
      /\ \A i \in 1 .. n : returned'[i] = returned[i]
      /\ returned'[n + 1] = x
    <2>1. 1 .. n + 1 = 1 .. n \cup {n + 1}
        BY <1>1
    <2>2. QED
        BY <1>1, <2>1, AppendIsSeq
<1>3. PICK f, g : /\ f = [i \in DOMAIN returned |-> Items(returned[i], key)]
                  /\ g = [i \in DOMAIN returned' |-> Items(returned'[i], key)]
    OBVIOUS
<1>4. /\ DOMAIN f = 1 .. n /\ f = [i \in 1 .. n |-> f[i]]
      /\ DOMAIN g = 1 .. n + 1 /\ g = [i \in 1 .. n + 1 |-> g[i]]
    BY <1>1, <1>2, <1>3
<1>5. IsSeq(f) /\ Len(f) = n /\ IsSeq(g) /\ Len(g) = n + 1
    <2>1. PICK m \in Nat : m = n + 1
        OBVIOUS
    <2>2. IsSeq(g) /\ Len(g) = m
        BY <1>4, <2>1, EnumerationIsSeq
    <2>3. IsSeq(f) /\ Len(f) = n
        BY <1>4, EnumerationIsSeq
    <2>4. QED
        BY <2>1, <2>2, <2>3
<1>6. (\A i \in 1 .. n : g[i] = f[i]) /\ g[n + 1] = Items(x, key)
    <2>1. \A i \in 1 .. n : i \in 1 .. n + 1
        OBVIOUS
    <2>2. n + 1 \in 1 .. n + 1
        OBVIOUS
    <2>3. QED
        BY <1>1, <1>2, <1>3, <2>1, <2>2
<1>7. FlattenSeq(g) = FlattenSeq(f) \o Items(x, key)
    <2>1. IsSeq(g[n + 1])
        BY <1>6
    <2>2. FlattenSeq(g) = FlattenSeq(f) \o g[n + 1]
        BY <1>5, <1>6, <2>1, FlattenOneMore
    <2>3. QED
        BY <1>6, <2>2
<1>8. QED
    BY <1>3, <1>7 DEF Told

LEMMA NothingTold ==
    ASSUME NEW r, r = <<>>, NEW key
    PROVE  FlattenSeq([i \in DOMAIN r |-> Items(r[i], key)]) = <<>>
<1>1. PICK f : f = [i \in DOMAIN r |-> Items(r[i], key)]
    OBVIOUS
<1>2. DOMAIN f = {} /\ DOMAIN f = 1 .. 0
    BY <1>1, EmptyFacts
<1>3. f = [i \in 1 .. 0 |-> f[i]]
    BY <1>1, <1>2
<1>4. IsSeq(f) /\ Len(f) = 0
    BY <1>2, <1>3, EnumerationIsSeq
<1>5. FlattenSeq(f) = f /\ f = <<>>
    BY <1>4 DEF FlattenSeq, IsSeq
<1>6. QED
    BY <1>1, <1>5

-----------------------------------------------------------------------------
(* The request: one more collector returns, or raises.                     *)

\* The numbers before k are as many as k tells.
LEMMA PrefixLength ==
    ASSUME NEW n \in Nat, NEW m \in Nat, NEW k \in 1 .. m, 1 .. n = {i \in 1 .. m : i < k}
    PROVE  n + 1 = k
<1>1. CASE n >= k
    <2>1. k \in 1 .. n
        BY <1>1
    <2>2. QED
        BY <2>1
<1>2. CASE n < k - 1
    <2>1. k - 1 \in {i \in 1 .. m : i < k}
        BY <1>2
    <2>2. k - 1 \in 1 .. n
        BY <2>1
    <2>3. QED
        BY <1>2, <2>2
<1>3. QED
    BY <1>1, <1>2

\* What Collect and Fail have in common: x is returned and part is merged.
LEMMA OneMoreReturned ==
    ASSUME MetricsInv, route # "none", next \in DOMAIN collectors, NEW x, NEW part,
           returned' = Append(returned, x), payload' = Merge(payload, part),
           next' = next + 1, UNCHANGED <<route, host, chips>>,
           \A key \in {"gpus", "fans"} :
               /\ key \in DOMAIN part => part[key].kind = "list"
               /\ IsSeq(Items(Dict(part), key)) /\ Items(x, key) = Items(Dict(part), key)
    PROVE  /\ RequestInv' /\ ListsInv'
           /\ DOMAIN returned' = DOMAIN returned \cup {Len(returned) + 1}
           /\ \A i \in DOMAIN returned : returned'[i] = returned[i]
           /\ returned'[Len(returned) + 1] = x
           /\ route \in {"tick", "info"} =>
                  Len(returned) + 1 = next /\ next \notin DOMAIN returned
<1>1. collectors' = collectors
    BY DEF collectors
<1>2. PICK m \in Nat : m = Len(collectors) /\ DOMAIN collectors = 1 .. m
    BY CollectorFacts, ItemFacts
<1>3. /\ IsSeq(returned) /\ IsSeq(returned')
      /\ DOMAIN returned' = DOMAIN returned \cup {Len(returned) + 1}
      /\ Len(returned) \in Nat /\ DOMAIN returned = 1 .. Len(returned)
      /\ \A i \in DOMAIN returned : returned'[i] = returned[i]
      /\ returned'[Len(returned) + 1] = x
    BY AppendIsSeq DEF MetricsInv, RequestInv
<1>4. CASE route \in {"tick", "info"}
    <2>1. 1 .. Len(returned) = {i \in 1 .. m : i < next}
        BY <1>2, <1>3, <1>4 DEF MetricsInv, RequestInv
    <2>2. Len(returned) + 1 = next
        BY <1>2, <1>3, <2>1, PrefixLength
    <2>3. DOMAIN returned' = {i \in DOMAIN collectors' : i < next'}
        BY <1>1, <1>2, <1>3, <2>1, <2>2
    <2>4. next' \in 1 .. Len(collectors') + 2
        BY <1>1, <1>2
    <2>5. RequestInv'
        BY <1>3, <1>4, <2>3, <2>4 DEF RequestInv
    <2>6. ASSUME NEW key \in {"gpus", "fans"}
          PROVE  /\ key \in DOMAIN payload' => payload'[key].kind = "list"
                 /\ IsSeq(Items(Dict(payload'), key))
                 /\ Items(Dict(payload'), key) = Told(key)'
        <3>1. /\ key \in DOMAIN payload => payload[key].kind = "list"
              /\ IsSeq(Items(Dict(payload), key))
              /\ Items(Dict(payload), key) = Told(key)
            BY <1>4 DEF MetricsInv, ListsInv
        <3>2. /\ Items(Dict(payload'), key) =
                     Items(Dict(payload), key) \o Items(Dict(part), key)
              /\ key \in DOMAIN payload' => payload'[key].kind = "list"
            BY <3>1, ItemsMerged
        <3>3. Told(key)' = Told(key) \o Items(x, key)
            BY <1>3, ToldMore
        <3>4. IsSeq(Items(Dict(payload), key) \o Items(Dict(part), key))
            BY <3>1, ConcatIsSeq
        <3>5. QED
            BY <3>1, <3>2, <3>3, <3>4
    <2>7. ListsInv'
        BY <2>6 DEF ListsInv
    <2>8. QED
        BY <1>2, <1>3, <2>2, <2>5, <2>7
<1>5. CASE route \notin {"tick", "info"}
    BY <1>1, <1>2, <1>3, <1>5 DEF RequestInv, ListsInv
<1>6. QED
    BY <1>4, <1>5

\* What the collectors list with a sound partial payload.
LEMMA SoundItems ==
    ASSUME NEW p, NEW name, SoundPartial(p, name), NEW key \in {"gpus", "fans"}
    PROVE  /\ key \in DOMAIN p => p[key].kind = "list"
           /\ IsSeq(Items(Dict(p), key))
<1>1. Items(Dict(p), key) = IF key \in DOMAIN p THEN p[key].of ELSE <<>>
    BY ItemsOfDict
<1>2. QED
    BY <1>1, EmptyIsSeq DEF SoundPartial

\* A collector raised iff its place in returned is None.
LEMMA FailedMore ==
    ASSUME NEW x, UNCHANGED collectors, next \notin DOMAIN returned,
           DOMAIN returned' = DOMAIN returned \cup {next},
           \A i \in DOMAIN returned : returned'[i] = returned[i], returned'[next] = x
    PROVE  Failed' = Failed \cup (IF x = None THEN {collectors[next]} ELSE {})
<1>1. PICK now : now = {j \in DOMAIN returned : returned[j] = None}
    OBVIOUS
<1>2. {j \in DOMAIN returned' : returned'[j] = None} =
          now \cup (IF x = None THEN {next} ELSE {})
    BY <1>1
<1>3. Failed = {collectors[i] : i \in now}
    BY <1>1 DEF Failed
<1>4. Failed' = {collectors[i] : i \in now \cup (IF x = None THEN {next} ELSE {})}
    BY <1>2 DEF Failed
<1>5. QED
    BY <1>3, <1>4

\* A collector that answers adds its lists and nothing to the errors; the CPU
\* collector adds readings of one round, for the only time.
LEMMA CollectKeepsMetricsInv ==
    ASSUME MetricsInv, Collect
    PROVE  RequestInv' /\ ErrorsInv' /\ ListsInv' /\ CpuInv'
<1>1. PICK name : name = collectors[next]
    OBVIOUS
<1>2. PICK p : p = IF route = "tick" THEN Sample(name) ELSE StaticInfo(name)
    OBVIOUS
<1>3. /\ route # "none" /\ next \in DOMAIN collectors
      /\ payload' = Merge(payload, p) /\ returned' = Append(returned, Dict(p))
      /\ next' = next + 1 /\ UNCHANGED <<route, host, chips>>
      /\ route = "tick" /\ name = "cpu" => LockFree
    BY <1>1, <1>2 DEF Collect, hostVars
<1>4. name \in Names
    BY <1>1, <1>3, CollectorFacts, ItemFacts
<1>5. SoundPartial(p, name)
    BY <1>2, <1>4, SampleSound, StaticInfoSound DEF MetricsInv
<1>6. collectors' = collectors
    BY <1>3 DEF collectors
<1>7. /\ RequestInv' /\ ListsInv'
      /\ DOMAIN returned' = DOMAIN returned \cup {Len(returned) + 1}
      /\ \A i \in DOMAIN returned : returned'[i] = returned[i]
      /\ returned'[Len(returned) + 1] = Dict(p)
      /\ route \in {"tick", "info"} =>
             Len(returned) + 1 = next /\ next \notin DOMAIN returned
    <2>1. \A key \in {"gpus", "fans"} :
              /\ key \in DOMAIN p => p[key].kind = "list"
              /\ IsSeq(Items(Dict(p), key))
        BY <1>5, SoundItems
    <2>2. QED
        BY <1>3, <2>1, OneMoreReturned
<1>8. /\ DOMAIN payload' = DOMAIN payload \cup DOMAIN p
      /\ \A k \in DOMAIN payload \ DOMAIN p : payload'[k] = payload[k]
      /\ \A k \in DOMAIN p \ DOMAIN payload : payload'[k] = p[k]
    <2>1. /\ DOMAIN Merge(payload, p) = DOMAIN payload \cup DOMAIN p
          /\ \A k \in DOMAIN payload \ DOMAIN p : Merge(payload, p)[k] = payload[k]
          /\ \A k \in DOMAIN p \ DOMAIN payload : Merge(payload, p)[k] = p[k]
        BY MergeFacts
    <2>2. QED
        BY <1>3, <2>1
<1>9. ErrorsInv'
    <2>1. SUFFICES ASSUME route \in {"tick", "info"}
                   PROVE  /\ "errors" \in DOMAIN payload' => payload'["errors"].kind = "dict"
                          /\ Named' = Failed' \cup
                                (IF route = "info" /\ host.models = "broken"
                                 THEN {"models"} ELSE {})
        BY <1>3 DEF ErrorsInv
    <2>2. /\ "errors" \in DOMAIN payload' <=> "errors" \in DOMAIN payload
          /\ "errors" \in DOMAIN payload => payload'["errors"] = payload["errors"]
        BY <1>5, <1>8 DEF SoundPartial
    <2>3. Named' = Named
        BY <2>2 DEF Named
    <2>4. Dict(p) # None
        BY DEF Dict, Value, None
    <2>5. Failed' = Failed
        BY <1>6, <1>7, <2>1, <2>4, FailedMore
    <2>6. QED
        BY <2>1, <2>2, <2>3, <2>5 DEF MetricsInv, ErrorsInv
<1>10. CpuInv'
    <2>1. SUFFICES ASSUME route = "tick", "cpu" \in DOMAIN payload'
                   PROVE  /\ payload'["cpu"].of.usage_pct = payload'["cpu"].of.per_core_pct.of[1]
                          /\ payload'["cpu"].of.temperatures_c.of = Temps(host)
                          /\ \E i \in DOMAIN returned' : collectors[i] = "cpu"
        BY <1>3, <1>6 DEF CpuInv
    <2>2. CASE name = "cpu"
        <3>1. /\ DOMAIN p = {"cpu"}
              /\ p["cpu"].of.usage_pct = p["cpu"].of.per_core_pct.of[1]
              /\ p["cpu"].of.temperatures_c.of = Temps(host)
            BY <1>2, <1>3, <2>1, <2>2, CpuSampleTogether DEF MetricsInv
        <3>2. "cpu" \notin DOMAIN payload
            <4>1. SUFFICES ASSUME "cpu" \in DOMAIN payload PROVE FALSE
                OBVIOUS
            <4>2. PICK i \in DOMAIN returned : collectors[i] = "cpu"
                BY <2>1, <4>1 DEF MetricsInv, CpuInv
            <4>3. i \in DOMAIN collectors
                BY <2>1, <4>2 DEF MetricsInv, RequestInv
            <4>4. i = next
                BY <1>1, <1>3, <2>2, <4>2, <4>3, CollectorFacts
            <4>5. QED
                BY <1>7, <2>1, <4>2, <4>4
        <3>3. payload'["cpu"] = p["cpu"]
            BY <1>8, <3>1, <3>2
        <3>4. next \in DOMAIN returned' /\ collectors[next] = "cpu"
            BY <1>1, <1>7, <2>1, <2>2
        <3>5. QED
            BY <3>1, <3>3, <3>4
    <2>3. CASE name # "cpu"
        <3>1. "cpu" \in DOMAIN payload /\ payload'["cpu"] = payload["cpu"]
            BY <1>5, <1>8, <2>1, <2>3 DEF SoundPartial
        <3>2. QED
            BY <1>7, <2>1, <3>1 DEF MetricsInv, CpuInv
    <2>4. QED
        BY <2>2, <2>3
<1>11. QED
    BY <1>7, <1>9, <1>10

\* A collector that raises adds its name to the errors and nothing else.
LEMMA FailKeepsMetricsInv ==
    ASSUME MetricsInv, Fail
    PROVE  RequestInv' /\ ErrorsInv' /\ ListsInv' /\ CpuInv'
<1>1. PICK name : name = collectors[next]
    OBVIOUS
<1>2. PICK p : p = Error(name)
    OBVIOUS
<1>3. /\ DOMAIN p = {"errors"} /\ p["errors"].kind = "dict"
      /\ DOMAIN p["errors"].of = {name}
    BY <1>2 DEF Error, Dict, Value
<1>4. /\ route # "none" /\ next \in DOMAIN collectors
      /\ payload' = Merge(payload, p) /\ returned' = Append(returned, None)
      /\ next' = next + 1 /\ UNCHANGED <<route, host, chips>>
    BY <1>1, <1>2 DEF Fail, hostVars
<1>5. collectors' = collectors
    BY <1>4 DEF collectors
<1>6. /\ RequestInv' /\ ListsInv'
      /\ DOMAIN returned' = DOMAIN returned \cup {Len(returned) + 1}
      /\ \A i \in DOMAIN returned : returned'[i] = returned[i]
      /\ returned'[Len(returned) + 1] = None
      /\ route \in {"tick", "info"} =>
             Len(returned) + 1 = next /\ next \notin DOMAIN returned
    <2>1. ASSUME NEW key \in {"gpus", "fans"}
          PROVE  /\ key \notin DOMAIN p
                 /\ Items(Dict(p), key) = <<>> /\ Items(None, key) = <<>>
        <3>1. key \notin DOMAIN p
            BY <1>3
        <3>2. QED
            BY <3>1, ItemsOfDict DEF Items
    <2>2. QED
        BY <1>4, <2>1, EmptyIsSeq, OneMoreReturned
<1>7. /\ DOMAIN payload' = DOMAIN payload \cup {"errors"}
      /\ \A k \in DOMAIN payload \ {"errors"} : payload'[k] = payload[k]
      /\ "errors" \notin DOMAIN payload => payload'["errors"] = p["errors"]
    <2>1. /\ DOMAIN Merge(payload, p) = DOMAIN payload \cup DOMAIN p
          /\ \A k \in DOMAIN payload \ DOMAIN p : Merge(payload, p)[k] = payload[k]
          /\ \A k \in DOMAIN p \ DOMAIN payload : Merge(payload, p)[k] = p[k]
        BY MergeFacts
    <2>2. QED
        BY <1>3, <1>4, <2>1
<1>8. ErrorsInv'
    <2>1. SUFFICES ASSUME route \in {"tick", "info"}
                   PROVE  /\ "errors" \in DOMAIN payload' => payload'["errors"].kind = "dict"
                          /\ Named' = Failed' \cup
                                (IF route = "info" /\ host.models = "broken"
                                 THEN {"models"} ELSE {})
        BY <1>4 DEF ErrorsInv
    <2>2. Failed' = Failed \cup {name}
        BY <1>1, <1>5, <1>6, <2>1, FailedMore
    <2>3. payload'["errors"].kind = "dict" /\ Named' = Named \cup {name}
        <3>1. CASE "errors" \in DOMAIN payload
            <4>1. payload["errors"].kind = "dict"
                BY <2>1, <3>1 DEF MetricsInv, ErrorsInv
            <4>2. /\ payload'["errors"].kind = "dict"
                  /\ DOMAIN payload'["errors"].of = DOMAIN payload["errors"].of \cup {name}
                BY <1>3, <1>4, <3>1, <4>1, MergedDicts
            <4>3. QED
                BY <1>7, <3>1, <4>2 DEF Named
        <3>2. CASE "errors" \notin DOMAIN payload
            BY <1>3, <1>7, <3>2 DEF Named
        <3>3. QED
            BY <3>1, <3>2
    <2>4. QED
        BY <2>1, <2>2, <2>3 DEF MetricsInv, ErrorsInv
<1>9. CpuInv'
    <2>1. "cpu" \in DOMAIN payload' =>
              "cpu" \in DOMAIN payload /\ payload'["cpu"] = payload["cpu"]
        BY <1>7
    <2>2. DOMAIN returned \subseteq DOMAIN returned'
        BY <1>6
    <2>3. QED
        BY <1>4, <1>5, <2>1, <2>2 DEF MetricsInv, CpuInv
<1>10. QED
    BY <1>6, <1>8, <1>9

-----------------------------------------------------------------------------
(* The other steps of the request.                                         *)

LEMMA ReadKeepsMetricsInv ==
    ASSUME MetricsInv, Read
    PROVE  RequestInv' /\ ErrorsInv' /\ ListsInv' /\ CpuInv'
<1>1. /\ route' \in {"health", "models"} /\ next' = Len(collectors) + 2
      /\ UNCHANGED <<returned, host, chips>>
    BY DEF Read, hostVars
<1>2. collectors' = collectors
    BY <1>1 DEF collectors
<1>3. Len(collectors) \in Nat
    BY CollectorFacts, ItemFacts
<1>4. RequestInv'
    BY <1>1, <1>2, <1>3 DEF MetricsInv, RequestInv
<1>5. QED
    BY <1>1, <1>4 DEF ErrorsInv, ListsInv, CpuInv

\* The headers have no lists, no readings of the CPU, and one error at most.
LEMMA BeginKeepsMetricsInv ==
    ASSUME MetricsInv, Begin
    PROVE  RequestInv' /\ ErrorsInv' /\ ListsInv' /\ CpuInv'
<1>1. /\ route = "none" /\ route' \in {"tick", "info"}
      /\ payload' = IF route' = "tick" THEN TickHeader ELSE InfoHeader
      /\ UNCHANGED <<next, returned, host, chips>>
    BY DEF Begin, hostVars
<1>2. collectors' = collectors
    BY <1>1 DEF collectors
<1>3. next = 1 /\ returned = <<>> /\ DOMAIN returned = {} /\ IsSeq(returned)
    BY <1>1, EmptyFacts DEF MetricsInv, RequestInv
<1>4. PICK m \in Nat : m = Len(collectors) /\ DOMAIN collectors = 1 .. m
    BY CollectorFacts, ItemFacts
<1>5. RequestInv'
    BY <1>1, <1>2, <1>3, <1>4 DEF RequestInv
<1>6. PICK told : told = IF host.models = "broken" THEN Error("models") ELSE Nothing
    OBVIOUS
<1>7. /\ DOMAIN told = (IF host.models = "broken" THEN {"errors"} ELSE {})
      /\ host.models = "broken" =>
             told["errors"].kind = "dict" /\ DOMAIN told["errors"].of = {"models"}
    BY <1>6, EmptyFacts DEF Error, Dict, Value, Nothing
<1>8. /\ DOMAIN InfoHeader = {"schema", "host", "started_at", "version", "platform",
                              "capabilities"} \cup DOMAIN told
      /\ host.models = "broken" => InfoHeader["errors"] = told["errors"]
    <2>1. PICK platform, names :
              InfoHeader = Update([schema |-> Int1, host |-> Str, started_at |-> Number1,
                                   version |-> Str, platform |-> platform,
                                   capabilities |-> names], told)
        BY <1>6, Zenon DEF InfoHeader
    <2>2. PICK own : own = [schema |-> Int1, host |-> Str, started_at |-> Number1,
                            version |-> Str, platform |-> platform, capabilities |-> names]
        OBVIOUS
    <2>3. DOMAIN own = {"schema", "host", "started_at", "version", "platform", "capabilities"}
        BY <2>2
    <2>4. /\ DOMAIN Update(own, told) = DOMAIN own \cup DOMAIN told
          /\ \A k \in DOMAIN told : Update(own, told)[k] = told[k]
        BY UpdateFacts
    <2>5. QED
        BY <1>7, <2>1, <2>2, <2>3, <2>4
<1>9. DOMAIN TickHeader = {"schema", "ts", "host"}
    BY DEF TickHeader
<1>10. \A key \in {"gpus", "fans", "cpu"} : key \notin DOMAIN payload'
    BY <1>1, <1>7, <1>8, <1>9
<1>11. ErrorsInv'
    <2>1. Failed' = {}
        BY <1>1, <1>3 DEF Failed
    <2>2. CASE route' = "info" /\ host.models = "broken"
        <3>1. /\ "errors" \in DOMAIN payload' /\ payload'["errors"].kind = "dict"
              /\ DOMAIN payload'["errors"].of = {"models"}
            BY <1>1, <1>7, <1>8, <2>2
        <3>2. QED
            BY <1>1, <2>1, <2>2, <3>1 DEF ErrorsInv, Named
    <2>3. CASE ~(route' = "info" /\ host.models = "broken")
        <3>1. "errors" \notin DOMAIN payload'
            BY <1>1, <1>7, <1>8, <1>9, <2>3
        <3>2. QED
            BY <1>1, <2>1, <2>3, <3>1 DEF ErrorsInv, Named
    <2>4. QED
        BY <2>2, <2>3
<1>12. ListsInv'
    <2>1. ASSUME NEW key \in {"gpus", "fans"}
          PROVE  /\ key \notin DOMAIN payload'
                 /\ Items(Dict(payload'), key) = <<>> /\ Told(key)' = <<>>
        <3>1. returned' = <<>>
            BY <1>1, <1>3
        <3>2. Told(key)' = <<>>
            BY <3>1, NothingTold DEF Told
        <3>3. QED
            BY <1>10, <3>2, ItemsOfDict
    <2>2. QED
        BY <2>1, EmptyIsSeq DEF ListsInv
<1>13. QED
    BY <1>5, <1>10, <1>11, <1>12 DEF CpuInv

\* The end of a tick touches "power" and "tick_us" only.
LEMMA FinishedKeeps ==
    ASSUME NEW p, NEW k, k \notin {"power", "tick_us"}
    PROVE  LET q == Update(WithMeasured(WithGpu(p)), [tick_us |-> Int1])
           IN  (k \in DOMAIN q <=> k \in DOMAIN p) /\ (k \in DOMAIN p => q[k] = p[k])
<1>1. ASSUME NEW d, NEW x
      PROVE  /\ k \in DOMAIN Merge(d, [power |-> x]) <=> k \in DOMAIN d
             /\ k \in DOMAIN d => Merge(d, [power |-> x])[k] = d[k]
    <2>1. PICK s : s = [power |-> x]
        OBVIOUS
    <2>2. k \notin DOMAIN s
        BY <2>1
    <2>3. /\ DOMAIN Merge(d, s) = DOMAIN d \cup DOMAIN s
          /\ \A j \in DOMAIN d \ DOMAIN s : Merge(d, s)[j] = d[j]
        BY MergeFacts
    <2>4. (k \in DOMAIN Merge(d, s) <=> k \in DOMAIN d)
          /\ (k \in DOMAIN d => Merge(d, s)[k] = d[k])
        BY <2>2, <2>3
    <2>5. QED
        BY <2>1, <2>4
<1>2. PICK x : WithGpu(p) = Merge(p, [power |-> x])
    BY Zenon DEF WithGpu
<1>3. PICK y : WithMeasured(WithGpu(p)) = Merge(WithGpu(p), [power |-> y])
    BY Zenon DEF WithMeasured
<1>4. PICK q : q = WithMeasured(WithGpu(p))
    OBVIOUS
<1>5. (k \in DOMAIN q <=> k \in DOMAIN p) /\ (k \in DOMAIN p => q[k] = p[k])
    BY <1>1, <1>2, <1>3, <1>4
<1>6. PICK s : s = [tick_us |-> Int1]
    OBVIOUS
<1>7. k \notin DOMAIN s
    BY <1>6
<1>8. /\ DOMAIN Update(q, s) = DOMAIN q \cup DOMAIN s
      /\ \A j \in DOMAIN q \ DOMAIN s : Update(q, s)[j] = q[j]
    BY UpdateFacts
<1>9. (k \in DOMAIN Update(q, s) <=> k \in DOMAIN q) /\ (k \in DOMAIN q => Update(q, s)[k] = q[k])
    BY <1>7, <1>8
<1>10. QED
    BY <1>4, <1>5, <1>6, <1>9

LEMMA FinishKeepsMetricsInv ==
    ASSUME MetricsInv, Finish
    PROVE  RequestInv' /\ ErrorsInv' /\ ListsInv' /\ CpuInv'
<1>1. /\ route # "none" /\ next = Len(collectors) + 1 /\ next' = next + 1
      /\ payload' = IF route = "tick"
                    THEN Update(WithMeasured(WithGpu(payload)), [tick_us |-> Int1])
                    ELSE payload
      /\ UNCHANGED <<route, returned, host, chips>>
    BY DEF Finish, hostVars
<1>2. collectors' = collectors
    BY <1>1 DEF collectors
<1>3. PICK m \in Nat : m = Len(collectors) /\ DOMAIN collectors = 1 .. m
    BY CollectorFacts, ItemFacts
<1>4. RequestInv'
    <2>1. \A i \in DOMAIN collectors : i < next /\ i < next'
        BY <1>1, <1>3
    <2>2. {i \in DOMAIN collectors : i < next} = {i \in DOMAIN collectors : i < next'}
        BY <2>1
    <2>3. next' \in 1 .. Len(collectors) + 2
        BY <1>1, <1>3
    <2>4. IsSeq(returned)
              /\ (route \in {"tick", "info"} =>
                      DOMAIN returned = {i \in DOMAIN collectors : i < next'})
        BY <2>2 DEF MetricsInv, RequestInv
    <2>5. QED
        BY <1>1, <1>2, <2>3, <2>4 DEF RequestInv
<1>5. \A k \in {"errors", "gpus", "fans", "cpu"} :
          /\ k \in DOMAIN payload' <=> k \in DOMAIN payload
          /\ k \in DOMAIN payload => payload'[k] = payload[k]
    BY <1>1, FinishedKeeps
<1>6. Named' = Named /\ Failed' = Failed
    BY <1>1, <1>2, <1>5 DEF Named, Failed
<1>7. ErrorsInv'
    BY <1>1, <1>5, <1>6 DEF MetricsInv, ErrorsInv
<1>8. ListsInv'
    <2>1. ASSUME NEW key \in {"gpus", "fans"}
          PROVE  Items(Dict(payload'), key) = Items(Dict(payload), key) /\ Told(key)' = Told(key)
        BY <1>1, <1>5, ItemsOfDict DEF Told
    <2>2. QED
        BY <1>1, <1>5, <2>1 DEF MetricsInv, ListsInv
<1>9. CpuInv'
    BY <1>1, <1>2, <1>5 DEF MetricsInv, CpuInv
<1>10. QED
    BY <1>4, <1>7, <1>8, <1>9

LEMMA SendKeepsMetricsInv ==
    ASSUME Send
    PROVE  RequestInv' /\ ErrorsInv' /\ ListsInv' /\ CpuInv'
<1>1. /\ route' = "none" /\ next' = 1 /\ returned' = <<>> /\ payload' = Nothing
      /\ UNCHANGED <<host, chips>>
    BY DEF Send, hostVars
<1>2. collectors' = collectors
    BY <1>1 DEF collectors
<1>3. Len(collectors) \in Nat
    BY CollectorFacts, ItemFacts
<1>4. RequestInv'
    BY <1>1, <1>2, <1>3, EmptyIsSeq DEF RequestInv
<1>5. QED
    BY <1>1, <1>4 DEF ErrorsInv, ListsInv, CpuInv

-----------------------------------------------------------------------------
(* The sampler, the host, and the invariant.                               *)

\* A request that does not move keeps what the invariant says of it.
LEMMA RequestWaits ==
    ASSUME MetricsInv, UNCHANGED <<host, chips, requestVars>>
    PROVE  HostInv' /\ RequestInv' /\ ErrorsInv' /\ ListsInv' /\ CpuInv'
<1>1. UNCHANGED <<host, chips, route, next, payload, returned>>
    BY DEF requestVars
<1>2. UNCHANGED collectors
    BY <1>1 DEF collectors
<1>3. Named' = Named /\ Failed' = Failed
    BY <1>1, <1>2 DEF Named, Failed
<1>4. \A key \in {"gpus", "fans"} : Told(key)' = Told(key)
    BY <1>1 DEF Told
<1>5. HostInv' /\ RequestInv'
    BY <1>1, <1>2 DEF MetricsInv, HostInv, RequestInv
<1>6. ErrorsInv' /\ ListsInv' /\ CpuInv'
    BY <1>1, <1>2, <1>3, <1>4 DEF MetricsInv, ErrorsInv, ListsInv, CpuInv
<1>7. QED
    BY <1>5, <1>6

\* The sampler publishes a round under the lock, whatever it meets before.
LEMMA SamplerKeepsSamplerInv ==
    ASSUME SamplerInv, Sampler
    PROVE  SamplerInv'
<1>1. CASE Wake
    BY <1>1 DEF Wake, SamplerInv
<1>2. CASE ReadTotal
    BY <1>2 DEF ReadTotal, SamplerInv, Round
<1>3. CASE ReadCores
    BY <1>3 DEF ReadCores, SamplerInv, Round
<1>4. CASE Hiccup
    BY <1>4 DEF Hiccup, SamplerInv
<1>5. CASE WriteTotal
    BY <1>5 DEF WriteTotal, SamplerInv
<1>6. CASE WriteCores
    BY <1>6 DEF WriteCores, SamplerInv
<1>7. QED
    BY <1>1, <1>2, <1>3, <1>4, <1>5, <1>6 DEF Sampler

LEMMA SamplerWaits ==
    ASSUME SamplerInv, UNCHANGED samplerVars
    PROVE  SamplerInv'
BY DEF SamplerInv, samplerVars, Round

\* probe() lists its chips.
LEMMA KeptIsListed ==
    ASSUME NEW n, NEW d
    PROVE  IsSeq(Kept(n, d))
<1>1. PICK some : some = [i \in DOMAIN Paths |->
          IF d # Unplugged /\ ~_is_gpu_owned(d) /\ Picked(d, Paths[i])
          THEN <<[number |-> n, name |-> d.name, path |-> Paths[i]]>> ELSE <<>>]
    OBVIOUS
<1>2. DOMAIN Paths = 1 .. 5
    BY DEF Paths
<1>3. IsSeq(some)
    BY <1>1, <1>2, EnumerationIsSeq
<1>4. \A i \in DOMAIN some : IsSeq(some[i])
    BY <1>1, SingletonIsSeq, EmptyIsSeq
<1>5. QED
    BY <1>1, <1>3, <1>4, FlattenIsSeq DEF Kept

LEMMA ChipsAreListed ==
    ASSUME NEW devices \in Sysfs
    PROVE  IsSeq(ProbeHwmon(devices))
<1>1. PICK some : some = [n \in DOMAIN devices |-> Kept(n, devices[n])]
    OBVIOUS
<1>2. IsSeq(some)
    BY <1>1, MetricsAssumption, ItemFacts, EnumerationIsSeq DEF IsSeq
<1>3. \A n \in DOMAIN some : IsSeq(some[n])
    BY <1>1, KeptIsListed
<1>4. QED
    BY <1>1, <1>2, <1>3, FlattenIsSeq DEF ProbeHwmon

LEMMA InitEstablishesMetricsInv == Init => MetricsInv
<1> SUFFICES ASSUME Init PROVE MetricsInv
    OBVIOUS
<1>1. HostInv
    BY ChipsAreListed DEF Init, HostInv
<1>2. SamplerInv
    BY DEF Init, SamplerInv
<1>3. RequestInv
    <2>1. Len(collectors) \in Nat
        BY CollectorFacts, ItemFacts
    <2>2. QED
        BY <2>1, EmptyIsSeq DEF Init, RequestInv
<1>4. ErrorsInv /\ ListsInv /\ CpuInv
    BY DEF Init, ErrorsInv, ListsInv, CpuInv
<1>5. QED
    BY <1>1, <1>2, <1>3, <1>4 DEF MetricsInv

LEMMA RequestKeepsMetricsInv ==
    ASSUME MetricsInv, Request
    PROVE  MetricsInv'
<1>1. RequestInv' /\ ErrorsInv' /\ ListsInv' /\ CpuInv'
    BY ReadKeepsMetricsInv, BeginKeepsMetricsInv, CollectKeepsMetricsInv,
       FailKeepsMetricsInv, FinishKeepsMetricsInv, SendKeepsMetricsInv DEF Request
<1>2. UNCHANGED <<hostVars, samplerVars>>
    BY DEF Request, Read, Begin, Collect, Fail, Finish, Send
<1>3. HostInv'
    BY <1>2 DEF MetricsInv, HostInv, hostVars
<1>4. SamplerInv'
    BY <1>2, SamplerWaits DEF MetricsInv
<1>5. QED
    BY <1>1, <1>3, <1>4 DEF MetricsInv

\* MetricsInv is inductive.
LEMMA MetricsInvariantHolds == Spec => []MetricsInv
<1>1. ASSUME MetricsInv, [Next]_vars
      PROVE  MetricsInv'
    <2>1. CASE Request
        BY <1>1, <2>1, RequestKeepsMetricsInv
    <2>2. CASE Sampler
        <3>1. UNCHANGED <<host, chips, requestVars>>
            BY <2>2 DEF Sampler, Wake, ReadTotal, ReadCores, Hiccup, WriteTotal, WriteCores,
                        hostVars
        <3>2. SamplerInv'
            BY <1>1, <2>2, SamplerKeepsSamplerInv DEF MetricsInv
        <3>3. QED
            BY <1>1, <3>1, <3>2, RequestWaits DEF MetricsInv
    <2>3. CASE Unplug \/ Plug \/ UNCHANGED vars
        <3>1. UNCHANGED <<host, chips, requestVars, samplerVars>>
            BY <2>3 DEF Unplug, Plug, vars, hostVars
        <3>2. SamplerInv'
            BY <1>1, <3>1, SamplerWaits DEF MetricsInv
        <3>3. QED
            BY <1>1, <3>1, <3>2, RequestWaits DEF MetricsInv
    <2>4. QED
        BY <1>1, <2>1, <2>2, <2>3 DEF Next
<1>2. QED
    BY <1>1, InitEstablishesMetricsInv, PTL DEF Spec

-----------------------------------------------------------------------------

(* Whatever collectors raise, on any host: "errors" names those and no     *)
(* others, and each list of the payload is what the others returned.       *)
THEOREM FailuresAreIsolated == Spec => []FailuresIsolated
<1>1. ASSUME MetricsInv PROVE FailuresIsolated
    <2>1. SUFFICES ASSUME Sent, route \in {"tick", "info"}
                   PROVE  /\ Named = Failed \cup (IF route = "info" /\ host.models = "broken"
                                                  THEN {"models"} ELSE {})
                          /\ \A key \in {"gpus", "fans"} :
                                 Items(Dict(payload), key) = FlattenSeq(
                                     [i \in DOMAIN collectors |-> Items(returned[i], key)])
        BY DEF FailuresIsolated
    <2>2. PICK m \in Nat : m = Len(collectors) /\ DOMAIN collectors = 1 .. m
        BY CollectorFacts, ItemFacts
    <2>3. \A i \in DOMAIN collectors : i < next
        BY <2>1, <2>2 DEF Sent
    <2>4. DOMAIN returned = DOMAIN collectors
        BY <1>1, <2>1, <2>3 DEF MetricsInv, RequestInv
    <2>5. ASSUME NEW key \in {"gpus", "fans"}
          PROVE  Items(Dict(payload), key) =
                     FlattenSeq([i \in DOMAIN collectors |-> Items(returned[i], key)])
        BY <1>1, <2>1, <2>4 DEF MetricsInv, ListsInv, Told
    <2>6. QED
        BY <1>1, <2>1, <2>5 DEF MetricsInv, ErrorsInv
<1>2. QED
    BY <1>1, MetricsInvariantHolds, PTL

(* However requests and the sampler's thread interleave, and whatever      *)
(* psutil raises, the two CPU readings of a payload are of one round.      *)
THEOREM ReadingsAreOfOneRound == Spec => []ReadingsTogether
<1>1. MetricsInv => ReadingsTogether
    BY DEF MetricsInv, CpuInv, ReadingsTogether
<1>2. QED
    BY <1>1, MetricsInvariantHolds, PTL

(* "Several zones can share one type": on a host whose zones' types do not *)
(* read like one another's suffixed labels, each zone has its reading.     *)
THEOREM ZonesAreKept == Spec => []ZonesKept
<1>1. ASSUME MetricsInv PROVE ZonesKept
    <2>1. SUFFICES ASSUME route = "tick", "cpu" \in DOMAIN payload, host.chip = <<>>
                   PROVE  Cardinality(DOMAIN payload.cpu.of.temperatures_c.of) =
                              Cardinality({i \in DOMAIN host.zones : host.zones[i].gives})
        BY DEF ZonesKept
    <2>2. payload.cpu.of.temperatures_c.of = Temps(host) /\ host \in Hosts
        BY <1>1, <2>1 DEF MetricsInv, CpuInv, HostInv
    <2>3. Temps(host) = ZoneTemps(host.zones)
        BY <2>1 DEF Temps
    <2>4. QED
        BY <2>2, <2>3, ZoneTempsCounted
<1>2. QED
    BY <1>1, MetricsInvariantHolds, PTL

-----------------------------------------------------------------------------
(* Power: sums of the values that are numbers.                             *)

LEMMA SumSame ==
    ASSUME NEW S, IsFiniteSet(S), NEW f, NEW g, \A x \in S : f[x] \in Int /\ g[x] = f[x]
    PROVE  SumFunctionOnSet(g, S) = SumFunctionOnSet(f, S)
<1>1. PICK name : name = [x \in S |-> x]
    OBVIOUS
<1>2. /\ \A x, y \in S : name[x] = name[y] => x = y
      /\ \A x \in S : g[name[x]] = f[x]
      /\ {name[x] : x \in S} = S
    BY <1>1
<1>3. SumFunctionOnSet(g, {name[x] : x \in S}) = SumFunctionOnSet(f, S)
    BY <1>2, SumRenamed
<1>4. QED
    BY <1>2, <1>3

LEMMA NumbersFacts ==
    ASSUME NEW s
    PROVE  /\ DOMAIN Numbers(s) = {k \in DOMAIN s : IsNumber(s[k])}
           /\ \A k \in DOMAIN Numbers(s) : Numbers(s)[k] = s[k].of
BY DEF Numbers

\* Numbers sees the places and the values only.
LEMMA NumbersAlike ==
    ASSUME NEW s, NEW t, DOMAIN s = DOMAIN t, \A k \in DOMAIN s : s[k] = t[k]
    PROVE  Numbers(s) = Numbers(t)
<1>1. {k \in DOMAIN s : IsNumber(s[k])} = {k \in DOMAIN t : IsNumber(t[k])}
    OBVIOUS
<1>2. QED
    BY <1>1 DEF Numbers

\* The items of two sequences, joined.
LEMMA JoinedItems ==
    ASSUME NEW s, NEW t, IsSeq(s), IsSeq(t)
    PROVE  /\ IsSeq(s \o t) /\ Len(s) \in Nat /\ Len(t) \in Nat
           /\ DOMAIN s = 1 .. Len(s) /\ DOMAIN t = 1 .. Len(t)
           /\ DOMAIN (s \o t) = 1 .. Len(s) + Len(t)
           /\ \A i \in 1 .. Len(s) : (s \o t)[i] = s[i]
           /\ \A i \in 1 .. Len(t) : (s \o t)[Len(s) + i] = t[i]
<1>1. PICK S : S = Range(s) \cup Range(t)
    OBVIOUS
<1>2. s \in Seq(S) /\ t \in Seq(S)
    BY <1>1, MoreItems DEF IsSeq
<1>3. s \o t \in Seq(S) /\ Len(s \o t) = Len(s) + Len(t)
    BY <1>2, ConcatFacts
<1>4. /\ \A i \in 1 .. Len(s) : (s \o t)[i] = s[i]
      /\ \A i \in 1 .. Len(t) : (s \o t)[Len(s) + i] = t[i]
    BY <1>2, ConcatFacts
<1>5. DOMAIN (s \o t) = 1 .. Len(s) + Len(t)
    BY <1>3, ItemFacts
<1>6. Len(s) \in Nat /\ Len(t) \in Nat /\ DOMAIN s = 1 .. Len(s) /\ DOMAIN t = 1 .. Len(t)
    BY <1>2, ItemFacts
<1>7. QED
    BY <1>4, <1>5, <1>6, ConcatIsSeq

\* c has the items of a, followed by those of b.
Joined(a, b, c) ==
    \E m, n \in Nat :
        /\ DOMAIN a = 1 .. m /\ DOMAIN b = 1 .. n /\ DOMAIN c = 1 .. m + n
        /\ \A i \in 1 .. m : c[i] = a[i]
        /\ \A i \in 1 .. n : c[m + i] = b[i]

LEMMA NumbersJoined ==
    ASSUME NEW a, NEW b, NEW c, Joined(a, b, c),
           Summable(Numbers(a)), Summable(Numbers(b))
    PROVE  /\ Summable(Numbers(c))
           /\ SumFunction(Numbers(c)) = SumFunction(Numbers(a)) + SumFunction(Numbers(b))
           /\ DOMAIN Numbers(c) = {} <=> DOMAIN Numbers(a) = {} /\ DOMAIN Numbers(b) = {}
<1>1. PICK f, g, h : f = Numbers(a) /\ g = Numbers(b) /\ h = Numbers(c)
    OBVIOUS
<1>0. PICK m \in Nat, n \in Nat :
          /\ DOMAIN a = 1 .. m /\ DOMAIN b = 1 .. n /\ DOMAIN c = 1 .. m + n
          /\ \A i \in 1 .. m : c[i] = a[i]
          /\ \A i \in 1 .. n : c[m + i] = b[i]
    BY DEF Joined
<1>2. PICK A, B : A = DOMAIN f /\ B = DOMAIN g
    OBVIOUS
<1>3. PICK place : place = [i \in B |-> m + i]
    OBVIOUS
<1>4. PICK C : C = {place[x] : x \in B}
    OBVIOUS
<1>5. /\ A \subseteq 1 .. m /\ \A i \in A : IsNumber(a[i]) /\ f[i] = a[i].of
      /\ B \subseteq 1 .. n /\ \A i \in B : IsNumber(b[i]) /\ g[i] = b[i].of
    BY <1>0, <1>1, <1>2, NumbersFacts
<1>6. \A i \in 1 .. m : IsNumber(c[i]) <=> i \in A
    BY <1>0, <1>1, <1>2, NumbersFacts
<1>7. \A i \in 1 .. n : IsNumber(c[m + i]) <=> i \in B
    <2>1. B = {i \in 1 .. n : IsNumber(b[i])}
        BY <1>0, <1>1, <1>2, NumbersFacts
    <2>2. QED
        BY <1>0, <2>1
<1>8. DOMAIN h = {k \in 1 .. m + n : IsNumber(c[k])} /\ \A k \in DOMAIN h : h[k] = c[k].of
    BY <1>0, <1>1, NumbersFacts
<1>9. \A k \in 1 .. m + n : k \in 1 .. m \/ (k - m \in 1 .. n /\ m + (k - m) = k)
    OBVIOUS
<1>10. \A i \in 1 .. n : m + i \in 1 .. m + n /\ m + i \notin 1 .. m
    OBVIOUS
<1>11. C = {m + i : i \in B}
    BY <1>3, <1>4
<1>12. DOMAIN h = A \cup C /\ A \cap C = {}
    <2>1. DOMAIN h \subseteq A \cup C
        <3>1. SUFFICES ASSUME NEW k \in DOMAIN h, k \notin A PROVE k \in C
            OBVIOUS
        <3>2. k \in 1 .. m + n /\ IsNumber(c[k])
            BY <1>8, <3>1
        <3>3. k \notin 1 .. m
            BY <1>6, <3>1, <3>2
        <3>4. PICK i : i = k - m
            OBVIOUS
        <3>5. i \in 1 .. n /\ m + i = k
            BY <1>9, <3>2, <3>3, <3>4
        <3>6. i \in B
            BY <1>7, <3>2, <3>5
        <3>7. QED
            BY <1>11, <3>5, <3>6
    <2>2. A \subseteq DOMAIN h
        <3>1. 1 .. m \subseteq 1 .. m + n
            OBVIOUS
        <3>2. QED
            BY <1>5, <1>6, <1>8, <3>1
    <2>3. C \subseteq DOMAIN h
        BY <1>5, <1>7, <1>8, <1>10, <1>11
    <2>4. A \cap C = {}
        BY <1>5, <1>10, <1>11
    <2>5. QED
        BY <2>1, <2>2, <2>3, <2>4
<1>13. \A i \in A : h[i] = f[i]
    BY <1>0, <1>5, <1>8, <1>12
<1>14. \A i \in B : h[place[i]] = g[i]
    <2>1. SUFFICES ASSUME NEW i \in B PROVE h[place[i]] = g[i]
        OBVIOUS
    <2>2. place[i] = m + i /\ m + i \in DOMAIN h
        BY <1>3, <1>11, <1>12
    <2>3. h[m + i] = c[m + i].of /\ c[m + i] = b[i] /\ g[i] = b[i].of
        BY <1>0, <1>5, <1>8, <2>2
    <2>4. QED
        BY <2>2, <2>3
<1>15. /\ IsFiniteSet(A) /\ IsFiniteSet(B)
       /\ (\A i \in A : f[i] \in Int) /\ (\A i \in B : g[i] \in Int)
    BY <1>1, <1>2 DEF Summable
<1>16. \A i, j \in B : place[i] = place[j] => i = j
    BY <1>3, <1>5
<1>17. IsFiniteSet(C) /\ SumFunctionOnSet(h, C) = SumFunctionOnSet(g, B)
    <2>1. /\ IsFiniteSet(B) /\ \A x \in B : g[x] \in Int
          /\ \A x, y \in B : place[x] = place[y] => x = y
          /\ \A x \in B : h[place[x]] = g[x]
        BY <1>14, <1>15, <1>16
    <2>2. /\ IsFiniteSet({place[x] : x \in B})
          /\ SumFunctionOnSet(h, {place[x] : x \in B}) = SumFunctionOnSet(g, B)
        BY <2>1, SumRenamed
    <2>3. QED
        BY <1>4, <2>2
<1>18. SumFunctionOnSet(h, A) = SumFunctionOnSet(f, A)
    BY <1>13, <1>15, SumSame
<1>19. Summable(h)
    <2>1. IsFiniteSet(A \cup C)
        BY <1>15, <1>17, FS_Union
    <2>2. \A k \in C : h[k] \in Int
        BY <1>4, <1>14, <1>15
    <2>3. QED
        BY <1>12, <1>13, <1>15, <2>1, <2>2 DEF Summable
<1>20. SumFunctionOnSet(h, A \cup C) = SumFunctionOnSet(h, A) + SumFunctionOnSet(h, C)
    <2>1. PICK S : S = DOMAIN h
        OBVIOUS
    <2>2. IsFiniteSet(S) /\ (\A k \in S : h[k] \in Int) /\ A \in SUBSET S /\ C \in SUBSET S
        BY <1>12, <1>19, <2>1 DEF Summable
    <2>3. QED
        BY <1>12, <2>2, SumUnion
<1>21. SumFunction(h) = SumFunction(f) + SumFunction(g)
    BY <1>2, <1>12, <1>17, <1>18, <1>20 DEF SumFunction
<1>22. DOMAIN h = {} <=> A = {} /\ B = {}
    BY <1>11, <1>12
<1>23. QED
    BY <1>1, <1>2, <1>19, <1>21, <1>22

LEMMA ConcatJoined ==
    ASSUME NEW s, NEW t, IsSeq(s), IsSeq(t)
    PROVE  Joined(s, t, s \o t)
<1>1. PICK u : u = s \o t
    OBVIOUS
<1>2. /\ Len(s) \in Nat /\ Len(t) \in Nat
      /\ DOMAIN s = 1 .. Len(s) /\ DOMAIN t = 1 .. Len(t)
      /\ DOMAIN u = 1 .. Len(s) + Len(t)
      /\ \A i \in 1 .. Len(s) : u[i] = s[i]
      /\ \A i \in 1 .. Len(t) : u[Len(s) + i] = t[i]
    BY <1>1, JoinedItems
<1>3. Joined(s, t, u)
    BY <1>2 DEF Joined
<1>4. QED
    BY <1>1, <1>3

LEMMA NoNumbers ==
    ASSUME NEW s, \A k \in DOMAIN s : ~IsNumber(s[k])
    PROVE  Summable(Numbers(s)) /\ DOMAIN Numbers(s) = {} /\ SumFunction(Numbers(s)) = 0
<1>1. PICK n : n = Numbers(s)
    OBVIOUS
<1>2. DOMAIN n = {}
    BY <1>1, NumbersFacts
<1>3. SumFunction(n) = 0
    BY <1>2, SumOfNone DEF SumFunction
<1>4. Summable(n)
    BY <1>2, FS_EmptySet DEF Summable
<1>5. QED
    BY <1>1, <1>2, <1>3, <1>4

LEMMA NoneIsNoNumber == ~IsNumber(None)
BY DEF IsNumber, None

-----------------------------------------------------------------------------
(* The GPUs' power.                                                        *)

LEMMA GpuPowerOf ==
    ASSUME NEW p
    PROVE  GpuPower(p) = Numbers(PowersOf(Items(Dict(p), "gpus")))
BY ItemsOfDict DEF GpuPower

\* merge lists the GPUs of both.
LEMMA GpuPowerMerged ==
    ASSUME NEW d, NEW p, Summable(GpuPower(d)), Summable(GpuPower(p)),
           "gpus" \in DOMAIN d => d["gpus"].kind = "list",
           "gpus" \in DOMAIN p => p["gpus"].kind = "list",
           IsSeq(Items(Dict(d), "gpus")), IsSeq(Items(Dict(p), "gpus"))
    PROVE  LET q == Merge(d, p)
           IN  /\ Summable(GpuPower(q))
               /\ SumFunction(GpuPower(q)) = SumFunction(GpuPower(d)) + SumFunction(GpuPower(p))
               /\ DOMAIN GpuPower(q) = {} <=> DOMAIN GpuPower(d) = {} /\ DOMAIN GpuPower(p) = {}
<1>1. PICK s, t : s = Items(Dict(d), "gpus") /\ t = Items(Dict(p), "gpus")
    OBVIOUS
<1>2. PICK q : q = Merge(d, p)
    OBVIOUS
<1>3. Items(Dict(q), "gpus") = s \o t
    BY <1>1, <1>2, ItemsMerged
<1>4. IsSeq(s) /\ IsSeq(t)
    BY <1>1
<1>5. PICK u : u = s \o t
    OBVIOUS
<1>6. Joined(s, t, u)
    BY <1>4, <1>5, ConcatJoined
<1>7. PICK a, b, c : a = PowersOf(s) /\ b = PowersOf(t) /\ c = PowersOf(u)
    OBVIOUS
<1>8. Joined(a, b, c)
    <2>1. PICK m \in Nat, n \in Nat :
              /\ DOMAIN s = 1 .. m /\ DOMAIN t = 1 .. n /\ DOMAIN u = 1 .. m + n
              /\ \A i \in 1 .. m : u[i] = s[i]
              /\ \A i \in 1 .. n : u[m + i] = t[i]
        BY <1>6 DEF Joined
    <2>2. /\ DOMAIN a = 1 .. m /\ DOMAIN b = 1 .. n /\ DOMAIN c = 1 .. m + n
          /\ \A i \in 1 .. m : a[i] = s[i].of.power_w
          /\ \A i \in 1 .. n : b[i] = t[i].of.power_w
          /\ \A i \in 1 .. m + n : c[i] = u[i].of.power_w
        BY <1>7, <2>1 DEF PowersOf
    <2>3. \A i \in 1 .. m : i \in 1 .. m + n
        OBVIOUS
    <2>4. \A i \in 1 .. n : m + i \in 1 .. m + n
        OBVIOUS
    <2>5. (\A i \in 1 .. m : c[i] = a[i]) /\ \A i \in 1 .. n : c[m + i] = b[i]
        BY <2>1, <2>2, <2>3, <2>4
    <2>6. QED
        BY <2>2, <2>5 DEF Joined
<1>10. GpuPower(d) = Numbers(a) /\ GpuPower(p) = Numbers(b) /\ GpuPower(q) = Numbers(c)
    BY <1>1, <1>3, <1>5, <1>7, GpuPowerOf
<1>11. Summable(Numbers(a)) /\ Summable(Numbers(b))
    BY <1>10
<1>12. /\ Summable(Numbers(c))
       /\ SumFunction(Numbers(c)) = SumFunction(Numbers(a)) + SumFunction(Numbers(b))
       /\ DOMAIN Numbers(c) = {} <=> DOMAIN Numbers(a) = {} /\ DOMAIN Numbers(b) = {}
    BY <1>8, <1>11, NumbersJoined
<1>13. QED
    BY <1>2, <1>10, <1>12

\* What a host lists of its GPUs' power can be added up.
LEMMA HostNumbers ==
    ASSUME HostInv
    PROVE  /\ IsSeq(host.nvml) /\ Summable(Numbers(host.nvml))
           /\ IsSeq(host.amd) /\ Summable(Numbers(host.amd))
<1>1. PICK s, t : s = host.nvml /\ t = host.amd
    OBVIOUS
<1>2. IsSeq(s) /\ IsSeq(t) /\ \A w \in Range(s \o t) : w = None \/ IsWatts(w)
    BY <1>1, MetricsAssumption DEF HostInv
<1>3. PICK u : u = s \o t
    OBVIOUS
<1>4. PICK m \in Nat, n \in Nat :
          /\ DOMAIN s = 1 .. m /\ DOMAIN t = 1 .. n /\ DOMAIN u = 1 .. m + n
          /\ \A i \in 1 .. m : u[i] = s[i]
          /\ \A i \in 1 .. n : u[m + i] = t[i]
    <2>1. Joined(s, t, u)
        BY <1>2, <1>3, ConcatJoined
    <2>2. QED
        BY <2>1 DEF Joined
<1>5. \A i \in 1 .. m + n : u[i] = None \/ IsWatts(u[i])
    BY <1>2, <1>3, <1>4 DEF Range
<1>6. \A i \in 1 .. m : i \in 1 .. m + n
    OBVIOUS
<1>7. \A i \in 1 .. n : m + i \in 1 .. m + n
    OBVIOUS
<1>8. \A i \in 1 .. m : IsNumber(s[i]) => s[i].of \in Int
    BY <1>4, <1>5, <1>6, NoneIsNoNumber DEF IsWatts
<1>9. \A i \in 1 .. n : IsNumber(t[i]) => t[i].of \in Int
    BY <1>4, <1>5, <1>7, NoneIsNoNumber DEF IsWatts
<1>10. ASSUME NEW k \in Nat, NEW r, DOMAIN r = 1 .. k,
              \A i \in 1 .. k : IsNumber(r[i]) => r[i].of \in Int
       PROVE  Summable(Numbers(r))
    <2>1. PICK f : f = Numbers(r)
        OBVIOUS
    <2>2. DOMAIN f \subseteq 1 .. k /\ \A i \in DOMAIN f : f[i] \in Int
        BY <1>10, <2>1, NumbersFacts
    <2>3. IsFiniteSet(1 .. k)
        BY FS_Interval
    <2>4. IsFiniteSet(DOMAIN f)
        BY <2>2, <2>3, FS_Subset
    <2>5. QED
        BY <2>1, <2>2, <2>4 DEF Summable
<1>11. QED
    BY <1>1, <1>2, <1>4, <1>8, <1>9, <1>10

\* The devices whose power a collector tells.
Measured(name) ==
    IF absent THEN <<>>
    ELSE IF name = "gpu.nvml" THEN host.nvml
    ELSE IF name = "gpu.amdgpu" THEN host.amd ELSE <<>>

LEMMA SampleGpus ==
    ASSUME HostInv, NEW name \in Names
    PROVE  /\ Summable(GpuPower(Sample(name))) /\ Summable(Numbers(Measured(name)))
           /\ SumFunction(GpuPower(Sample(name))) = SumFunction(Numbers(Measured(name)))
           /\ DOMAIN GpuPower(Sample(name)) = {} <=> DOMAIN Numbers(Measured(name)) = {}
<1>1. PICK p, g : p = Sample(name) /\ g = PowersOf(Items(Dict(p), "gpus"))
    OBVIOUS
<1>2. GpuPower(p) = Numbers(g)
    BY <1>1, GpuPowerOf
<1>3. Items(Dict(p), "gpus") = IF "gpus" \in DOMAIN p THEN p["gpus"].of ELSE <<>>
    BY ItemsOfDict
<1>4. DOMAIN <<>> = {}
    BY EmptyFacts
<1>5. CASE name = "gpu.nvml"
    <2>1. PICK items : items = [i \in DOMAIN host.nvml |-> NvmlSample(absent, host.nvml[i])]
        OBVIOUS
    <2>2. p = Gpus(items)
        BY <1>1, <1>5, <2>1 DEF Sample
    <2>3. "gpus" \in DOMAIN p /\ p["gpus"].of = items
        BY <2>2 DEF Gpus, List, Value
    <2>4. g = PowersOf(items)
        BY <1>1, <1>3, <2>3
    <2>5. \A i \in DOMAIN host.nvml : items[i].of.power_w = Opt(absent, host.nvml[i])
        BY <2>1 DEF NvmlSample, Dict, Value
    <2>6. /\ DOMAIN g = DOMAIN host.nvml
          /\ \A i \in DOMAIN g : g[i] = IF absent THEN None ELSE host.nvml[i]
        BY <2>1, <2>4, <2>5 DEF PowersOf, Opt
    <2>7. CASE absent
        BY <1>1, <1>2, <1>4, <2>6, <2>7, NoNumbers, NoneIsNoNumber DEF Measured
    <2>8. CASE ~absent
        <3>1. Numbers(g) = Numbers(host.nvml)
            BY <2>6, <2>8, NumbersAlike
        <3>2. QED
            BY <1>1, <1>2, <1>5, <2>8, <3>1, HostNumbers DEF Measured
    <2>9. QED
        BY <2>7, <2>8
<1>6. CASE name = "gpu.amdgpu"
    <2>1. PICK items : items = [i \in DOMAIN host.amd |-> AmdSample(absent, host.amd[i])]
        OBVIOUS
    <2>2. p = Gpus(items)
        BY <1>1, <1>6, <2>1 DEF Sample
    <2>3. "gpus" \in DOMAIN p /\ p["gpus"].of = items
        BY <2>2 DEF Gpus, List, Value
    <2>4. g = PowersOf(items)
        BY <1>1, <1>3, <2>3
    <2>5. \A i \in DOMAIN host.amd : items[i].of.power_w = Opt(absent, host.amd[i])
        BY <2>1 DEF AmdSample, Dict, Value
    <2>6. /\ DOMAIN g = DOMAIN host.amd
          /\ \A i \in DOMAIN g : g[i] = IF absent THEN None ELSE host.amd[i]
        BY <2>1, <2>4, <2>5 DEF PowersOf, Opt
    <2>7. CASE absent
        BY <1>1, <1>2, <1>4, <2>6, <2>7, NoNumbers, NoneIsNoNumber DEF Measured
    <2>8. CASE ~absent
        <3>1. Numbers(g) = Numbers(host.amd)
            BY <2>6, <2>8, NumbersAlike
        <3>2. QED
            BY <1>1, <1>2, <1>6, <2>8, <3>1, HostNumbers DEF Measured
    <2>9. QED
        BY <2>7, <2>8
<1>7. CASE name \notin {"gpu.nvml", "gpu.amdgpu"}
    <2>1. "gpus" \notin DOMAIN p
        <3>1. CASE name = "cpu"
            BY <1>1, <3>1 DEF Sample
        <3>2. CASE name = "memory"
            BY <1>1, <3>2 DEF Sample, MemoryInfo
        <3>3. CASE name = "hwmon"
            BY <1>1, <3>3, FansSound DEF Sample, HostInv
        <3>4. CASE name = "power.rapl"
            BY <1>1, <1>4, <3>4 DEF Sample, RaplSample, Nothing
        <3>5. QED
            BY <1>7, <3>1, <3>2, <3>3, <3>4 DEF Names
    <2>2. g = PowersOf(<<>>)
        BY <1>1, <1>3, <2>1
    <2>3. DOMAIN g = {}
        BY <1>4, <2>2 DEF PowersOf
    <2>4. Summable(Numbers(g)) /\ DOMAIN Numbers(g) = {} /\ SumFunction(Numbers(g)) = 0
        BY <2>3, NoNumbers
    <2>5. Measured(name) = <<>>
        BY <1>7 DEF Measured
    <2>6. Summable(Numbers(<<>>)) /\ DOMAIN Numbers(<<>>) = {} /\ SumFunction(Numbers(<<>>)) = 0
        BY <1>4, NoNumbers
    <2>7. QED
        BY <1>1, <1>2, <2>4, <2>5, <2>6
<1>8. QED
    BY <1>5, <1>6, <1>7

-----------------------------------------------------------------------------
(* The sources.                                                            *)

\* What merge makes of the sources of two payloads.
SourcesMerged(d, p, q) ==
    /\ Unsummed(q)
    /\ "power" \in DOMAIN q <=> "power" \in DOMAIN d \cup DOMAIN p
    /\ DOMAIN SourcesOf(q) = DOMAIN SourcesOf(d) \cup DOMAIN SourcesOf(p)
    /\ \A k \in DOMAIN SourcesOf(p) : SourcesOf(q)[k] = SourcesOf(p)[k]
    /\ \A k \in DOMAIN SourcesOf(d) \ DOMAIN SourcesOf(p) :
           SourcesOf(q)[k] = SourcesOf(d)[k]

LEMMA MergedSources ==
    ASSUME NEW d, NEW p, Unsummed(d), Unsummed(p)
    PROVE  SourcesMerged(d, p, Merge(d, p))
<1>1. PICK q : q = Merge(d, p)
    OBVIOUS
<1>0. SUFFICES SourcesMerged(d, p, q)
    BY <1>1
<1>2. "power" \in DOMAIN q <=> "power" \in DOMAIN d \cup DOMAIN p
    BY <1>1, MergeFacts
<1>3. DOMAIN Nothing = {}
    BY EmptyFacts DEF Nothing
<1>4. CASE "power" \in DOMAIN d /\ "power" \in DOMAIN p
    <2>1. PICK dp, pp : dp = d["power"].of /\ pp = p["power"].of
        OBVIOUS
    <2>2. /\ DOMAIN dp = {"sources"} /\ dp["sources"].kind = "dict"
          /\ DOMAIN pp = {"sources"} /\ pp["sources"].kind = "dict"
          /\ d["power"].kind = "dict" /\ p["power"].kind = "dict"
        BY <1>4, <2>1 DEF Unsummed
    <2>3. q["power"] = Dict(MergeSources(dp, pp))
        BY <1>1, <1>4, <2>1, <2>2 DEF Merge, MergeLevel
    <2>4. PICK both : both = MergeSources(dp, pp)
        OBVIOUS
    <2>5. /\ DOMAIN both = {"sources"}
          /\ both["sources"] = Dict(Update(dp["sources"].of, pp["sources"].of))
        BY <2>2, <2>4 DEF MergeSources, MergeLevel
    <2>6. q["power"].kind = "dict" /\ q["power"].of = both
        BY <2>3, <2>4 DEF Dict, Value
    <2>7. PICK sd, sp : sd = dp["sources"].of /\ sp = pp["sources"].of
        OBVIOUS
    <2>8. both["sources"].kind = "dict" /\ both["sources"].of = Update(sd, sp)
        BY <2>5, <2>7 DEF Dict, Value
    <2>9. SourcesOf(d) = sd /\ SourcesOf(p) = sp
        BY <1>4, <2>1, <2>7 DEF SourcesOf
    <2>10. SourcesOf(q) = Update(sd, sp)
        BY <1>2, <1>4, <2>6, <2>8 DEF SourcesOf
    <2>11. /\ DOMAIN Update(sd, sp) = DOMAIN sd \cup DOMAIN sp
           /\ \A k \in DOMAIN sp : Update(sd, sp)[k] = sp[k]
           /\ \A k \in DOMAIN sd \ DOMAIN sp : Update(sd, sp)[k] = sd[k]
        BY UpdateFacts
    <2>12. Unsummed(q)
        BY <2>5, <2>6, <2>8 DEF Unsummed
    <2>13. QED
        BY <1>2, <2>9, <2>10, <2>11, <2>12 DEF SourcesMerged
<1>5. CASE "power" \in DOMAIN d /\ "power" \notin DOMAIN p
    <2>1. q["power"] = d["power"]
        BY <1>1, <1>5, MergeFacts
    <2>2. SourcesOf(q) = SourcesOf(d) /\ SourcesOf(p) = Nothing
        BY <1>2, <1>5, <2>1 DEF SourcesOf
    <2>3. Unsummed(q)
        BY <1>5, <2>1 DEF Unsummed
    <2>4. QED
        BY <1>2, <1>3, <2>2, <2>3 DEF SourcesMerged
<1>6. CASE "power" \notin DOMAIN d /\ "power" \in DOMAIN p
    <2>1. q["power"] = p["power"]
        <3>1. \A k \in DOMAIN p \ DOMAIN d : Merge(d, p)[k] = p[k]
            BY MergeFacts
        <3>2. QED
            BY <1>1, <1>6, <3>1
    <2>2. SourcesOf(q) = SourcesOf(p) /\ SourcesOf(d) = Nothing
        BY <1>2, <1>6, <2>1 DEF SourcesOf
    <2>3. Unsummed(q)
        BY <1>6, <2>1 DEF Unsummed
    <2>4. QED
        BY <1>2, <1>3, <2>2, <2>3 DEF SourcesMerged
<1>7. CASE "power" \notin DOMAIN d /\ "power" \notin DOMAIN p
    <2>1. SourcesOf(q) = Nothing /\ SourcesOf(d) = Nothing /\ SourcesOf(p) = Nothing
        BY <1>2, <1>7 DEF SourcesOf
    <2>2. Unsummed(q)
        BY <1>2, <1>7 DEF Unsummed
    <2>3. QED
        BY <1>2, <1>3, <2>1, <2>2 DEF SourcesMerged
<1>8. QED
    BY <1>4, <1>5, <1>6, <1>7

LEMMA OnlySources ==
    ASSUME NEW p, NEW watts, "power" \in DOMAIN p, p["power"] = Dict([sources |-> Dict(watts)])
    PROVE  Unsummed(p) /\ SourcesOf(p) = watts
<1>1. PICK s : s = [sources |-> Dict(watts)]
    OBVIOUS
<1>2. DOMAIN s = {"sources"} /\ s["sources"].kind = "dict" /\ s["sources"].of = watts
    BY <1>1 DEF Dict, Value
<1>3. p["power"].kind = "dict" /\ p["power"].of = s
    BY <1>1 DEF Dict, Value
<1>4. QED
    BY <1>2, <1>3 DEF Unsummed, SourcesOf

\* The greatest of some numbers is one of them.
LEMMA MaxIsOne ==
    ASSUME NEW n \in Nat, NEW S \in SUBSET (1 .. n), S # {}
    PROVE  Max(S) \in S
<1>1. PICK B : B = {n - i : i \in S}
    OBVIOUS
<1>2. B \in SUBSET Nat /\ B # {}
    <2>1. \A i \in S : i \in 1 .. n
        OBVIOUS
    <2>2. \A i \in S : n - i \in Nat
        BY <2>1
    <2>3. QED
        BY <1>1, <2>2
<1>3. PICK b \in B : \A k \in B : b <= k
    BY <1>2, Least
<1>4. PICK x \in S : b = n - x
    BY <1>1, <1>3
<1>5. \A y \in S : x >= y
    <2>1. ASSUME NEW y \in S PROVE x >= y
        <3>1. n - x <= n - y
            BY <1>1, <1>3, <1>4
        <3>2. x \in Nat /\ y \in Nat
            OBVIOUS
        <3>3. QED
            BY <3>1, <3>2
    <2>2. QED
        BY <2>1
<1>6. QED
    BY <1>5 DEF Max

\* What the rails R give by label: with one rail per label, that rail's watts.
RailsRead(R, w, seen) ==
    /\ IsFiniteSet(DOMAIN R)
    /\ \A n \in DOMAIN R : IsWatts(R[n].watts) /\ (reused \/ ~R[n].gpu)
    /\ \A k \in DOMAIN w : IsWatts(w[k])
    /\ ~reused => DOMAIN w = {R[n].label : n \in DOMAIN R}
    /\ (~reused /\ \A m, n \in DOMAIN R : R[m].label = R[n].label => m = n) =>
           \A n \in DOMAIN R : w[R[n].label] = R[n].watts
    /\ seen = {} => DOMAIN w = {} /\ DOMAIN R = {}

LEMMA RailFacts ==
    ASSUME HostInv, DevicesInv
    PROVE  RailsRead(Rails, RailWatts(sysfs, chips, RailsAnswering(sysfs, chips, absent)),
                     RailsAnswering(sysfs, chips, absent))
<1>0. PICK seen : seen = RailsAnswering(sysfs, chips, absent)
    OBVIOUS
<1>1. PICK w, R : w = RailWatts(sysfs, chips, seen) /\ R = Rails
    OBVIOUS
<1>2. PICK number, stem, label, place :
          /\ number = [i \in DOMAIN chips |-> chips[i].number]
          /\ stem = [i \in DOMAIN chips |-> chips[i].path[1]]
          /\ label = [i \in DOMAIN chips |->
                         Label(sysfs[number[i]], chips[i].name, stem[i])]
          /\ place = [i \in DOMAIN chips |-> <<number[i], stem[i]>>]
    OBVIOUS
<1>3. seen = {i \in DOMAIN chips : ~absent /\ Readable(sysfs, chips[i]) /\ ~IsFan(chips[i])}
    BY <1>0 DEF RailsAnswering
<1>4. \A i \in DOMAIN chips :
          /\ number[i] \in DOMAIN sysfs
          /\ chips[i] \in Range(chips)
          /\ reused \/ sysfs[number[i]] = Unplugged
             \/ (sysfs[number[i]].name = chips[i].name /\ ~sysfs[number[i]].gpu)
    BY <1>2 DEF DevicesInv, Range
<1>5. \A i \in seen :
          sysfs[number[i]] # Unplugged /\ IsWatts(sysfs[number[i]].watts[stem[i]])
    BY <1>2, <1>3, <1>4 DEF DevicesInv, Readable, IsFan
<1>6. /\ DOMAIN R = {place[i] : i \in seen}
      /\ \A i \in seen : R[place[i]] = RailOf(sysfs[number[i]], stem[i])
    <2>1. PICK D : D = {<<chips[i].number, chips[i].path[1]>> :
                          i \in RailsAnswering(sysfs, chips, absent)}
        OBVIOUS
    <2>2. R = [n \in D |-> RailOf(sysfs[n[1]], n[2])]
        BY <1>1, <2>1 DEF Rails
    <2>3. D = {place[i] : i \in seen}
        BY <1>0, <1>2, <1>3, <2>1
    <2>4. \A i \in seen : place[i] = <<number[i], stem[i]>> /\ place[i] \in D
        BY <1>2, <1>3, <2>3
    <2>5. \A i \in seen : R[place[i]] = RailOf(sysfs[number[i]], stem[i])
        BY <2>2, <2>4
    <2>6. QED
        BY <2>2, <2>3, <2>5
<1>7. /\ \A i \in seen : R[place[i]].watts = sysfs[number[i]].watts[stem[i]]
      /\ \A i \in seen : R[place[i]].gpu = sysfs[number[i]].gpu
      /\ \A i \in seen : ~reused => label[i] = R[place[i]].label
    <2>1. ASSUME NEW i \in seen
          PROVE  /\ R[place[i]].watts = sysfs[number[i]].watts[stem[i]]
                 /\ R[place[i]].gpu = sysfs[number[i]].gpu
                 /\ ~reused => label[i] = R[place[i]].label
        <3>1. PICK d : d = sysfs[number[i]]
            OBVIOUS
        <3>2. R[place[i]] = [label |-> Label(d, d.name, stem[i]), watts |-> d.watts[stem[i]],
                             gpu |-> d.gpu]
            BY <1>6, <3>1 DEF RailOf
        <3>3. label[i] = Label(d, chips[i].name, stem[i])
            BY <1>2, <1>3, <3>1
        <3>4. reused \/ d.name = chips[i].name
            BY <1>3, <1>4, <1>5, <3>1
        <3>5. QED
            BY <3>1, <3>2, <3>3, <3>4
    <2>2. QED
        BY <2>1
<1>8. PICK last : last = [l \in {label[i] : i \in seen} |-> Max({i \in seen : label[i] = l})]
    OBVIOUS
<1>9. \A l \in {label[i] : i \in seen} : last[l] \in seen /\ label[last[l]] = l
    <2>1. ASSUME NEW l \in {label[i] : i \in seen} PROVE last[l] \in seen /\ label[last[l]] = l
        <3>1. PICK S : S = {i \in seen : label[i] = l}
            OBVIOUS
        <3>2. PICK n \in Nat : DOMAIN chips = 1 .. n
            BY ItemFacts DEF HostInv, IsSeq
        <3>3. S \in SUBSET (1 .. n) /\ S # {}
            BY <1>3, <2>1, <3>1, <3>2
        <3>4. Max(S) \in S
            BY <3>2, <3>3, MaxIsOne
        <3>5. last[l] = Max(S)
            BY <1>8, <3>1
        <3>6. QED
            BY <3>1, <3>4, <3>5
    <2>2. QED
        BY <2>1
<1>10. /\ DOMAIN w = {label[i] : i \in seen}
       /\ \A l \in DOMAIN w : w[l] = sysfs[number[last[l]]].watts[stem[last[l]]]
    <2>1. \A i \in seen :
              Label(sysfs[chips[i].number], chips[i].name, chips[i].path[1]) = label[i]
        BY <1>2, <1>3
    <2>2. ASSUME NEW l \in {label[i] : i \in seen}
          PROVE  last[l] = Max({i \in seen :
                     Label(sysfs[chips[i].number], chips[i].name, chips[i].path[1]) = l})
        <3>1. {i \in seen :
                   Label(sysfs[chips[i].number], chips[i].name, chips[i].path[1]) = l} =
                  {i \in seen : label[i] = l}
            BY <2>1
        <3>2. QED
            BY <1>8, <3>1
    <2>3. \A l \in {label[i] : i \in seen} :
              /\ number[last[l]] = chips[last[l]].number
              /\ stem[last[l]] = chips[last[l]].path[1]
        BY <1>2, <1>3, <1>9
    <2>4. {Label(sysfs[chips[i].number], chips[i].name, chips[i].path[1]) : i \in seen} =
              {label[i] : i \in seen}
        BY <2>1
    <2>5. PICK top : top = [l \in {label[i] : i \in seen} |-> Max({i \in seen :
              Label(sysfs[chips[i].number], chips[i].name, chips[i].path[1]) = l})]
        OBVIOUS
    <2>6. /\ DOMAIN w = {label[i] : i \in seen}
          /\ \A l \in DOMAIN w : w[l] = sysfs[chips[top[l]].number].watts[chips[top[l]].path[1]]
        BY <1>1, <2>4, <2>5 DEF RailWatts
    <2>7. \A l \in DOMAIN w : top[l] = last[l]
        BY <2>2, <2>5, <2>6
    <2>8. QED
        BY <2>3, <2>6, <2>7
<1>11. IsFiniteSet(DOMAIN R)
    <2>1. PICK n \in Nat : DOMAIN chips = 1 .. n
        BY ItemFacts DEF HostInv, IsSeq
    <2>2. IsFiniteSet(1 .. n) /\ seen \in SUBSET (1 .. n)
        BY <1>3, <2>1, FS_Interval
    <2>3. IsFiniteSet(seen)
        BY <2>2, FS_Subset
    <2>4. PICK told : told = [i \in seen |-> place[i]]
        OBVIOUS
    <2>5. told \in Surjection(seen, DOMAIN R)
        BY <1>6, <2>4 DEF Surjection
    <2>6. QED
        BY <2>3, <2>5, FS_Surjection
<1>12. \A n \in DOMAIN R : IsWatts(R[n].watts) /\ (reused \/ ~R[n].gpu)
    BY <1>3, <1>4, <1>5, <1>6, <1>7
<1>13. \A k \in DOMAIN w : IsWatts(w[k])
    BY <1>5, <1>9, <1>10
<1>14. ~reused => DOMAIN w = {R[n].label : n \in DOMAIN R}
    BY <1>6, <1>7, <1>10
<1>15. ASSUME ~reused, \A m, n \in DOMAIN R : R[m].label = R[n].label => m = n,
              NEW n \in DOMAIN R
       PROVE  w[R[n].label] = R[n].watts
    <2>1. PICK l : l = R[n].label
        OBVIOUS
    <2>2. PICK i \in seen : n = place[i]
        BY <1>6
    <2>3. l = label[i]
        BY <1>7, <1>15, <2>1, <2>2
    <2>4. PICK j \in seen : j = last[l] /\ label[j] = l
        BY <1>9, <2>2, <2>3
    <2>5. place[j] \in DOMAIN R /\ R[place[j]].label = l
        BY <1>6, <1>7, <1>15, <2>4
    <2>6. place[j] = n
        BY <1>15, <2>1, <2>5
    <2>7. w[l] = sysfs[number[j]].watts[stem[j]]
        BY <1>10, <2>2, <2>3, <2>4
    <2>8. QED
        BY <1>7, <2>1, <2>6, <2>7
<1>16. seen = {} => DOMAIN w = {} /\ DOMAIN R = {}
    BY <1>6, <1>10
<1>17. QED
    <2>1. RailsRead(R, w, seen)
        BY <1>11, <1>12, <1>13, <1>14, <1>15, <1>16 DEF RailsRead
    <2>2. QED
        BY <1>0, <1>1, <2>1

LEMMA SampleSources ==
    ASSUME HostInv, NEW name \in Names
    PROVE  LET p == Sample(name)
           IN  /\ Unsummed(p)
               /\ name \notin {"hwmon", "power.rapl"} => SourcesOf(p) = Nothing
               /\ (name = "hwmon" /\ RailsAnswering(sysfs, chips, absent) = {}) =>
                      SourcesOf(p) = Nothing
               /\ (name = "hwmon" /\ RailsAnswering(sysfs, chips, absent) # {}) =>
                      SourcesOf(p) = RailWatts(sysfs, chips, RailsAnswering(sysfs, chips, absent))
               /\ name = "power.rapl" =>
                      SourcesOf(p) = IF absent THEN Nothing ELSE [cpu_package |-> host.rapl[1]]
<1>1. PICK p : p = Sample(name)
    OBVIOUS
<1>2. ASSUME "power" \notin DOMAIN p PROVE Unsummed(p) /\ SourcesOf(p) = Nothing
    BY <1>2 DEF Unsummed, SourcesOf
<1>3. CASE name \in {"gpu.nvml", "gpu.amdgpu", "cpu", "memory"}
    <2>1. "power" \notin DOMAIN p
        BY <1>1, <1>3 DEF Sample, Gpus, MemoryInfo
    <2>2. QED
        BY <1>1, <1>2, <1>3, <2>1
<1>4. CASE name = "hwmon"
    <2>1. p = HwmonSample(sysfs, chips, absent)
        BY <1>1, <1>4 DEF Sample
    <2>2. PICK seen, watts : /\ seen = RailsAnswering(sysfs, chips, absent)
                             /\ watts = RailWatts(sysfs, chips, seen)
        OBVIOUS
    <2>3. /\ DOMAIN p = {"fans"} \cup (IF seen = {} THEN {} ELSE {"power"})
          /\ seen # {} => p["power"] = Dict([sources |-> Dict(watts)])
        BY <2>1, <2>2, HwmonFacts DEF HostInv
    <2>4. CASE seen = {}
        BY <1>1, <1>2, <1>4, <2>2, <2>3, <2>4
    <2>5. CASE seen # {}
        <3>1. Unsummed(p) /\ SourcesOf(p) = watts
            BY <2>3, <2>5, OnlySources
        <3>2. QED
            BY <1>1, <1>4, <2>2, <2>5, <3>1
    <2>6. QED
        BY <2>4, <2>5
<1>5. CASE name = "power.rapl"
    <2>1. PICK watts : watts = [cpu_package |-> host.rapl[1]]
        OBVIOUS
    <2>2. p = IF absent THEN Nothing ELSE [power |-> Dict([sources |-> Dict(watts)])]
        BY <1>1, <1>5, <2>1 DEF Sample, RaplSample
    <2>3. CASE absent
        <3>1. DOMAIN p = {}
            BY <2>2, <2>3, EmptyFacts DEF Nothing
        <3>2. QED
            BY <1>1, <1>2, <1>5, <2>3, <3>1
    <2>4. CASE ~absent
        <3>1. "power" \in DOMAIN p /\ p["power"] = Dict([sources |-> Dict(watts)])
            BY <2>2, <2>4
        <3>2. Unsummed(p) /\ SourcesOf(p) = watts
            BY <3>1, OnlySources
        <3>3. QED
            BY <1>1, <1>5, <2>1, <2>4, <3>2
    <2>5. QED
        BY <2>3, <2>4
<1>6. QED
    BY <1>3, <1>4, <1>5 DEF Names

-----------------------------------------------------------------------------
(* The power part of the invariant: one more collector answers.            *)

LEMMA SumIsInt ==
    ASSUME NEW n, Summable(n)
    PROVE  SumFunction(n) \in Int
BY SumTyped DEF Summable, SumFunction

\* One more collector has answered, or none.
LEMMA AnsweredMore ==
    ASSUME MetricsInv, route \in {"tick", "info"}, next \in DOMAIN collectors, NEW x,
           returned' = Append(returned, x), UNCHANGED <<host, chips>>
    PROVE  /\ ~Answered(collectors[next])
           /\ \A name \in Names :
                  Answered(name)' <=> Answered(name) \/ (name = collectors[next] /\ x # None)
<1>1. collectors' = collectors
    BY DEF collectors
<1>2. PICK m \in Nat : m = Len(collectors) /\ DOMAIN collectors = 1 .. m
    BY CollectorFacts, ItemFacts
<1>3. /\ IsSeq(returned)
      /\ DOMAIN returned' = DOMAIN returned \cup {Len(returned) + 1}
      /\ Len(returned) \in Nat /\ DOMAIN returned = 1 .. Len(returned)
      /\ \A i \in DOMAIN returned : returned'[i] = returned[i]
      /\ returned'[Len(returned) + 1] = x
    BY AppendIsSeq DEF MetricsInv, RequestInv
<1>4. DOMAIN returned = {i \in DOMAIN collectors : i < next}
    BY DEF MetricsInv, RequestInv
<1>5. Len(returned) + 1 = next
    BY <1>2, <1>3, <1>4, PrefixLength
<1>6. next \notin DOMAIN returned
    BY <1>3, <1>5
<1>7. ~Answered(collectors[next])
    BY <1>4, <1>6, CollectorFacts DEF Answered
<1>8. ASSUME NEW name \in Names
      PROVE  Answered(name)' <=> Answered(name) \/ (name = collectors[next] /\ x # None)
    BY <1>1, <1>3, <1>5, <1>6 DEF Answered
<1>9. QED
    BY <1>7, <1>8

LEMMA EmptyNumbers ==
    Summable(Numbers(<<>>)) /\ DOMAIN Numbers(<<>>) = {} /\ SumFunction(Numbers(<<>>)) = 0
BY NoNumbers, EmptyFacts

\* What a collector has told can be added up.
LEMMA GivenSummable ==
    ASSUME HostInv
    PROVE  /\ IsSeq(Given("gpu.nvml", host.nvml)) /\ IsSeq(Given("gpu.amdgpu", host.amd))
           /\ Summable(Numbers(Given("gpu.nvml", host.nvml)))
           /\ Summable(Numbers(Given("gpu.amdgpu", host.amd)))
BY HostNumbers, EmptyNumbers, EmptyIsSeq DEF Given

\* A GPU collector that answers adds its GPUs' power, and no other one adds any.
LEMMA CollectKeepsGpusInv ==
    ASSUME MetricsInv, GpusInv, Collect, route = "tick"
    PROVE  GpusInv'
<1>1. PICK name, p : name = collectors[next] /\ p = Sample(name)
    OBVIOUS
<1>2. /\ next \in DOMAIN collectors /\ payload' = Merge(payload, p)
      /\ returned' = Append(returned, Dict(p)) /\ UNCHANGED <<host, chips, absent, route>>
    BY <1>1 DEF Collect, hostVars
<1>3. name \in Names
    BY <1>1, <1>2, CollectorFacts, ItemFacts
<1>4. Collecting
    <2>1. PICK m \in Nat : m = Len(collectors) /\ DOMAIN collectors = 1 .. m
        BY CollectorFacts, ItemFacts
    <2>2. QED
        BY <1>2, <2>1 DEF Collecting, Sent
<1>5. Dict(p) # None
    BY DEF Dict, Value, None
<1>6. /\ ~Answered(name)
      /\ \A n \in Names : Answered(n)' <=> Answered(n) \/ n = name
    BY <1>1, <1>2, <1>5, AnsweredMore
<1>7. PICK gn, ga, gn1, ga1 :
          /\ gn = Numbers(Given("gpu.nvml", host.nvml))
          /\ ga = Numbers(Given("gpu.amdgpu", host.amd))
          /\ gn1 = Numbers(Given("gpu.nvml", host.nvml)')
          /\ ga1 = Numbers(Given("gpu.amdgpu", host.amd)')
    OBVIOUS
<1>8. PICK more : more = Numbers(Measured(name))
    OBVIOUS
<1>9. PICK old, new, mine :
          old = GpuPower(payload) /\ new = GpuPower(payload') /\ mine = GpuPower(p)
    OBVIOUS
<1>10. /\ Summable(old) /\ SumFunction(old) = SumFunction(gn) + SumFunction(ga)
       /\ DOMAIN old = {} <=> DOMAIN gn = {} /\ DOMAIN ga = {}
    BY <1>4, <1>7, <1>9 DEF GpusInv
<1>11. /\ Summable(mine) /\ SumFunction(mine) = SumFunction(more)
       /\ DOMAIN mine = {} <=> DOMAIN more = {}
       /\ Summable(more)
    BY <1>1, <1>3, <1>8, <1>9, SampleGpus DEF MetricsInv
<1>12. /\ Summable(new) /\ SumFunction(new) = SumFunction(old) + SumFunction(mine)
       /\ DOMAIN new = {} <=> DOMAIN old = {} /\ DOMAIN mine = {}
    <2>1. /\ "gpus" \in DOMAIN payload => payload["gpus"].kind = "list"
          /\ IsSeq(Items(Dict(payload), "gpus"))
        BY DEF MetricsInv, ListsInv
    <2>2. SoundPartial(p, name)
        BY <1>1, <1>3, SampleSound DEF MetricsInv
    <2>3. /\ "gpus" \in DOMAIN p => p["gpus"].kind = "list"
          /\ IsSeq(Items(Dict(p), "gpus"))
        BY <2>2, SoundItems
    <2>4. Summable(GpuPower(payload)) /\ Summable(GpuPower(p))
        BY <1>9, <1>10, <1>11
    <2>5. PICK q : q = Merge(payload, p)
        OBVIOUS
    <2>6. /\ Summable(GpuPower(q))
          /\ SumFunction(GpuPower(q)) = SumFunction(GpuPower(payload)) + SumFunction(GpuPower(p))
          /\ DOMAIN GpuPower(q) = {} <=>
                 DOMAIN GpuPower(payload) = {} /\ DOMAIN GpuPower(p) = {}
        BY <2>1, <2>3, <2>4, <2>5, GpuPowerMerged
    <2>7. QED
        BY <1>2, <1>9, <2>5, <2>6
<1>13. /\ SumFunction(gn) \in Int /\ SumFunction(ga) \in Int /\ SumFunction(more) \in Int
    BY <1>7, <1>11, GivenSummable, SumIsInt DEF MetricsInv
<1>14. PICK none : /\ none = Numbers(<<>>)
                   /\ DOMAIN none = {} /\ SumFunction(none) = 0
    BY EmptyNumbers
<1>15. /\ SumFunction(gn1) + SumFunction(ga1) =
              SumFunction(gn) + SumFunction(ga) + SumFunction(more)
       /\ DOMAIN gn1 = {} /\ DOMAIN ga1 = {} <=>
              DOMAIN gn = {} /\ DOMAIN ga = {} /\ DOMAIN more = {}
    <2>1. /\ Given("gpu.nvml", host.nvml)' =
                 IF ~absent /\ Answered("gpu.nvml")' THEN host.nvml ELSE <<>>
          /\ Given("gpu.amdgpu", host.amd)' =
                 IF ~absent /\ Answered("gpu.amdgpu")' THEN host.amd ELSE <<>>
        BY <1>2 DEF Given
    <2>2. "gpu.nvml" \in Names /\ "gpu.amdgpu" \in Names
        BY DEF Names
    <2>3. CASE name = "gpu.nvml"
        <3>1. gn = none /\ ga1 = ga
            BY <1>6, <1>7, <1>14, <2>1, <2>2, <2>3 DEF Given
        <3>2. gn1 = more
            BY <1>6, <1>7, <1>8, <2>1, <2>2, <2>3 DEF Measured
        <3>3. QED
            BY <1>13, <1>14, <3>1, <3>2
    <2>4. CASE name = "gpu.amdgpu"
        <3>1. ga = none /\ gn1 = gn
            BY <1>6, <1>7, <1>14, <2>1, <2>2, <2>4 DEF Given
        <3>2. ga1 = more
            BY <1>6, <1>7, <1>8, <2>1, <2>2, <2>4 DEF Measured
        <3>3. QED
            BY <1>13, <1>14, <3>1, <3>2
    <2>5. CASE name \notin {"gpu.nvml", "gpu.amdgpu"}
        <3>1. gn1 = gn /\ ga1 = ga
            BY <1>6, <1>7, <2>1, <2>2, <2>5 DEF Given
        <3>2. more = none
            BY <1>8, <1>14, <2>5 DEF Measured
        <3>3. QED
            BY <1>13, <1>14, <3>1, <3>2
    <2>6. QED
        BY <2>3, <2>4, <2>5
<1>16. /\ SumFunction(new) = SumFunction(gn1) + SumFunction(ga1)
       /\ DOMAIN new = {} <=> DOMAIN gn1 = {} /\ DOMAIN ga1 = {}
    BY <1>10, <1>11, <1>12, <1>13, <1>15
<1>17. QED
    BY <1>7, <1>9, <1>12, <1>16 DEF GpusInv

\* The RAPL collector is one of the collectors on a host that has packages.
LEMMA PackagesFound ==
    ASSUME NEW i \in DOMAIN collectors, collectors[i] = "power.rapl"
    PROVE  host.rapl # <<>>
<1>1. SUFFICES ASSUME host.rapl = <<>> PROVE FALSE
    OBVIOUS
<1>2. PICK a, b, c, d :
          /\ a = IfFound("gpu.nvml", host.nvml # <<>>)
          /\ b = IfFound("gpu.amdgpu", host.amd # <<>>)
          /\ c = <<"cpu", "memory">>
          /\ d = IfFound("hwmon", chips # <<>>)
    OBVIOUS
<1>3. PICK N : N = Names \ {"power.rapl"}
    OBVIOUS
<1>4. a \in Seq(N) /\ b \in Seq(N) /\ c \in Seq(N) /\ d \in Seq(N)
    <2>1. /\ a \in Seq({"gpu.nvml"}) /\ b \in Seq({"gpu.amdgpu"}) /\ d \in Seq({"hwmon"})
        BY <1>2, IfFoundFacts DEF Distinct
    <2>2. /\ {"gpu.nvml"} \subseteq N /\ {"gpu.amdgpu"} \subseteq N /\ {"hwmon"} \subseteq N
          /\ "cpu" \in N /\ "memory" \in N
        BY <1>3 DEF Names
    <2>3. c \in Seq(N)
        <3>1. "cpu" \in N /\ "memory" \in N
            BY <2>2
        <3>2. PICK x, y : x = "cpu" /\ y = "memory"
            OBVIOUS
        <3>3. x \in N /\ y \in N
            BY <3>1, <3>2
        <3>4. <<x, y>> \in Seq(N)
            BY <3>3
        <3>5. QED
            BY <1>2, <3>2, <3>4
    <2>4. a \in Seq(N) /\ b \in Seq(N) /\ d \in Seq(N)
        BY <2>1, <2>2, MoreItems
    <2>5. QED
        BY <2>3, <2>4
<1>5. ((a \o b) \o c) \o d \in Seq(N)
    BY <1>4, ConcatFacts
<1>6. collectors = (((a \o b) \o c) \o d) \o <<>>
    BY <1>1, <1>2 DEF collectors, IfFound
<1>7. collectors \in Seq(N)
    BY <1>5, <1>6, EmptyFacts
<1>8. collectors[i] \in N
    BY <1>7, ItemFacts
<1>9. QED
    BY <1>3, <1>8

\* The hwmon collector adds the rails it reads, the RAPL collector the CPU
\* packages, and no other one adds sources.
LEMMA CollectKeepsSourcesInv ==
    ASSUME MetricsInv, DevicesInv, SourcesInv, RailsInv, Collect, route = "tick"
    PROVE  SourcesInv' /\ RailsInv'
<1>1. PICK name, p : name = collectors[next] /\ p = Sample(name)
    OBVIOUS
<1>2. /\ next \in DOMAIN collectors /\ payload' = Merge(payload, p)
      /\ returned' = Append(returned, Dict(p))
      /\ rails' = IF name = "hwmon" THEN Rails ELSE rails
      /\ UNCHANGED <<host, sysfs, reused, chips, absent, route>>
    BY <1>1 DEF Collect, hostVars
<1>3. name \in Names
    BY <1>1, <1>2, CollectorFacts, ItemFacts
<1>4. Collecting
    <2>1. PICK m \in Nat : m = Len(collectors) /\ DOMAIN collectors = 1 .. m
        BY CollectorFacts, ItemFacts
    <2>2. QED
        BY <1>2, <2>1 DEF Collecting, Sent
<1>5. Dict(p) # None
    BY DEF Dict, Value, None
<1>6. /\ ~Answered(name)
      /\ \A n \in Names : Answered(n)' <=> Answered(n) \/ n = name
    BY <1>1, <1>2, <1>5, AnsweredMore
<1>7. PICK S, S1, new : S = Sources /\ S1 = Sources' /\ new = SourcesOf(p)
    OBVIOUS
<1>8. PICK R, R1, P, P1 : R = rails /\ R1 = rails' /\ P = Package /\ P1 = Package'
    OBVIOUS
<1>9. PICK seen, watts : /\ seen = RailsAnswering(sysfs, chips, absent)
                         /\ watts = RailWatts(sysfs, chips, seen)
    OBVIOUS
<1>10. DOMAIN Nothing = {}
    BY EmptyFacts DEF Nothing
<1>11. /\ Unsummed(p)
       /\ name \notin {"hwmon", "power.rapl"} => new = Nothing
       /\ (name = "hwmon" /\ seen = {}) => new = Nothing
       /\ (name = "hwmon" /\ seen # {}) => new = watts
       /\ name = "power.rapl" => new = IF absent THEN Nothing ELSE [cpu_package |-> host.rapl[1]]
    BY <1>1, <1>3, <1>7, <1>9, SampleSources DEF MetricsInv
<1>12. /\ Unsummed(payload)'
       /\ DOMAIN S1 = DOMAIN S \cup DOMAIN new
       /\ \A k \in DOMAIN new : S1[k] = new[k]
       /\ \A k \in DOMAIN S \ DOMAIN new : S1[k] = S[k]
    <2>1. Unsummed(payload)
        BY <1>4 DEF SourcesInv
    <2>2. PICK q : q = Merge(payload, p)
        OBVIOUS
    <2>3. /\ Unsummed(q)
          /\ DOMAIN SourcesOf(q) = DOMAIN SourcesOf(payload) \cup DOMAIN SourcesOf(p)
          /\ \A k \in DOMAIN SourcesOf(p) : SourcesOf(q)[k] = SourcesOf(p)[k]
          /\ \A k \in DOMAIN SourcesOf(payload) \ DOMAIN SourcesOf(p) :
                 SourcesOf(q)[k] = SourcesOf(payload)[k]
        <3>1. SourcesMerged(payload, p, q)
            BY <1>11, <2>1, <2>2, MergedSources
        <3>2. QED
            BY <3>1 DEF SourcesMerged
    <2>4. payload' = q /\ S1 = SourcesOf(q) /\ S = SourcesOf(payload) /\ new = SourcesOf(p)
        BY <1>2, <1>7, <2>2 DEF Sources
    <2>5. QED
        BY <2>3, <2>4
<1>13. /\ \A k \in DOMAIN S : IsWatts(S[k])
       /\ ~reused => DOMAIN S = {R[n].label : n \in DOMAIN R} \cup
                                    (IF P = <<>> THEN {} ELSE {"cpu_package"})
       /\ ~reused /\ ~Clash =>
              /\ \A n \in DOMAIN R : S[R[n].label] = R[n].watts
              /\ P # <<>> => S["cpu_package"] = P[1]
    BY <1>4, <1>7, <1>8 DEF SourcesInv, RailLabels
<1>14. /\ ~Clash <=> \A n \in DOMAIN R :
              /\ R[n].label \notin {"gpu", "cpu_package"}
              /\ \A m \in DOMAIN R : R[m].label = R[n].label => m = n
       /\ (~Clash)' <=> \A n \in DOMAIN R1 :
              /\ R1[n].label \notin {"gpu", "cpu_package"}
              /\ \A m \in DOMAIN R1 : R1[m].label = R1[n].label => m = n
    BY <1>8 DEF Clash
<1>15. /\ P = IF ~absent /\ Answered("power.rapl") THEN host.rapl ELSE <<>>
       /\ P1 = IF ~absent /\ Answered("power.rapl")' THEN host.rapl ELSE <<>>
    BY <1>2, <1>8 DEF Package, Given
<1>16. "hwmon" \in Names /\ "power.rapl" \in Names
    BY DEF Names
<1>17. SUFFICES /\ \A k \in DOMAIN S1 : IsWatts(S1[k])
                /\ ~reused => DOMAIN S1 = {R1[n].label : n \in DOMAIN R1} \cup
                                              (IF P1 = <<>> THEN {} ELSE {"cpu_package"})
                /\ (~reused /\ (~Clash)') =>
                       /\ \A n \in DOMAIN R1 : S1[R1[n].label] = R1[n].watts
                       /\ P1 # <<>> => S1["cpu_package"] = P1[1]
                /\ RailsInv'
    BY <1>2, <1>7, <1>8, <1>12 DEF SourcesInv, RailLabels
<1>18. CASE name = "hwmon"
    <2>1. R1 = Rails /\ DOMAIN R = {} /\ P1 = P
        BY <1>2, <1>6, <1>8, <1>15, <1>16, <1>18 DEF RailsInv
    <2>2. /\ IsFiniteSet(DOMAIN R1)
          /\ \A n \in DOMAIN R1 : IsWatts(R1[n].watts) /\ (reused \/ ~R1[n].gpu)
          /\ \A k \in DOMAIN watts : IsWatts(watts[k])
          /\ ~reused => DOMAIN watts = {R1[n].label : n \in DOMAIN R1}
          /\ (~reused /\ \A m, n \in DOMAIN R1 : R1[m].label = R1[n].label => m = n) =>
                 \A n \in DOMAIN R1 : watts[R1[n].label] = R1[n].watts
          /\ seen = {} => DOMAIN watts = {} /\ DOMAIN R1 = {}
        <3>1. RailsRead(R1, watts, seen)
            BY <1>9, <2>1, RailFacts DEF MetricsInv
        <3>2. QED
            BY <3>1 DEF RailsRead
    <2>3. DOMAIN new = DOMAIN watts /\ \A k \in DOMAIN watts : new[k] = watts[k]
        BY <1>10, <1>11, <1>18, <2>2
    <2>4. \A k \in DOMAIN S1 : IsWatts(S1[k])
        BY <1>12, <1>13, <2>2, <2>3
    <2>5. ~reused => DOMAIN S1 = {R1[n].label : n \in DOMAIN R1} \cup
                                     (IF P1 = <<>> THEN {} ELSE {"cpu_package"})
        BY <1>12, <1>13, <2>1, <2>2, <2>3
    <2>6. ASSUME ~reused, (~Clash)'
          PROVE  /\ \A n \in DOMAIN R1 : S1[R1[n].label] = R1[n].watts
                 /\ P1 # <<>> => S1["cpu_package"] = P1[1]
        <3>1. \A n \in DOMAIN R1 :
                  /\ R1[n].label \notin {"gpu", "cpu_package"}
                  /\ watts[R1[n].label] = R1[n].watts /\ R1[n].label \in DOMAIN new
            BY <1>14, <2>2, <2>3, <2>6
        <3>2. \A n \in DOMAIN R1 : S1[R1[n].label] = R1[n].watts
            BY <1>12, <2>3, <3>1
        <3>3. "cpu_package" \notin DOMAIN new
            BY <2>2, <2>3, <2>6, <3>1
        <3>4. ~Clash
            BY <1>14, <2>1
        <3>5. P # <<>> => "cpu_package" \in DOMAIN S /\ S["cpu_package"] = P[1]
            BY <1>13, <2>6, <3>4
        <3>6. QED
            BY <1>12, <2>1, <3>2, <3>3, <3>5
    <2>7. RailsInv'
        <3>1. Answered("hwmon")'
            BY <1>6, <1>16, <1>18
        <3>2. QED
            BY <1>2, <1>8, <2>2, <3>1 DEF RailsInv
    <2>8. QED
        BY <2>4, <2>5, <2>6, <2>7
<1>19. CASE name = "power.rapl"
    <2>1. R1 = R /\ P = <<>> /\ P1 = IF absent THEN <<>> ELSE host.rapl
        BY <1>2, <1>6, <1>8, <1>15, <1>16, <1>19
    <2>2. host.rapl = <<host.rapl[1]>> /\ IsWatts(host.rapl[1]) /\ host.rapl # <<>>
        <3>1. host.rapl = <<>> \/ (host.rapl = <<host.rapl[1]>> /\ IsWatts(host.rapl[1]))
            BY MetricsAssumption DEF MetricsInv, HostInv
        <3>2. host.rapl # <<>>
            BY <1>1, <1>2, <1>19, PackagesFound
        <3>3. QED
            BY <3>1, <3>2
    <2>3. IF absent THEN DOMAIN new = {} /\ P1 = <<>>
          ELSE /\ DOMAIN new = {"cpu_package"} /\ new["cpu_package"] = P1[1]
               /\ P1 # <<>> /\ IsWatts(P1[1])
        BY <1>10, <1>11, <1>19, <2>1, <2>2
    <2>4. \A k \in DOMAIN S1 : IsWatts(S1[k])
        BY <1>12, <1>13, <2>3
    <2>5. ~reused => DOMAIN S1 = {R1[n].label : n \in DOMAIN R1} \cup
                                     (IF P1 = <<>> THEN {} ELSE {"cpu_package"})
        BY <1>12, <1>13, <2>1, <2>3
    <2>6. ASSUME ~reused, (~Clash)'
          PROVE  /\ \A n \in DOMAIN R1 : S1[R1[n].label] = R1[n].watts
                 /\ P1 # <<>> => S1["cpu_package"] = P1[1]
        <3>1. \A n \in DOMAIN R : R[n].label # "cpu_package" /\ S[R[n].label] = R[n].watts
            BY <1>13, <1>14, <2>1, <2>6
        <3>2. \A n \in DOMAIN R : R[n].label \in DOMAIN S \ DOMAIN new
            BY <1>13, <2>3, <2>6, <3>1
        <3>3. \A n \in DOMAIN R : S1[R[n].label] = R[n].watts
            BY <1>12, <3>1, <3>2
        <3>4. QED
            BY <1>12, <2>1, <2>3, <3>3
    <2>7. RailsInv'
        BY <1>2, <1>6, <1>16, <1>19 DEF RailsInv
    <2>8. QED
        BY <2>4, <2>5, <2>6, <2>7
<1>20. CASE name \notin {"hwmon", "power.rapl"}
    <2>1. R1 = R /\ P1 = P /\ DOMAIN new = {}
        BY <1>2, <1>6, <1>8, <1>10, <1>11, <1>15, <1>16, <1>20
    <2>2. DOMAIN S1 = DOMAIN S /\ \A k \in DOMAIN S : S1[k] = S[k]
        BY <1>12, <2>1
    <2>3. \A k \in DOMAIN S1 : IsWatts(S1[k])
        BY <1>13, <2>2
    <2>4. ~reused => DOMAIN S1 = {R1[n].label : n \in DOMAIN R1} \cup
                                     (IF P1 = <<>> THEN {} ELSE {"cpu_package"})
        BY <1>13, <2>1, <2>2
    <2>5. ASSUME ~reused, (~Clash)'
          PROVE  /\ \A n \in DOMAIN R1 : S1[R1[n].label] = R1[n].watts
                 /\ P1 # <<>> => S1["cpu_package"] = P1[1]
        <3>1. ~Clash
            BY <1>14, <2>1, <2>5
        <3>2. /\ \A n \in DOMAIN R : R[n].label \in DOMAIN S
              /\ P # <<>> => "cpu_package" \in DOMAIN S
            BY <1>13, <2>5
        <3>3. QED
            BY <1>13, <2>1, <2>2, <2>5, <3>1, <3>2
    <2>6. RailsInv'
        BY <1>2, <1>6, <1>16, <1>20 DEF RailsInv
    <2>7. QED
        BY <2>3, <2>4, <2>5, <2>6
<1>21. QED
    BY <1>18, <1>19, <1>20

-----------------------------------------------------------------------------
(* Steps that add no power.                                                *)

\* A step of the others, and a failure, change nothing that counts.
LEMMA PowerWaits ==
    ASSUME GpusInv, SourcesInv, RailsInv, UNCHANGED <<host, absent, route, rails>>,
           reused => reused', Collecting' => Collecting,
           \A name \in Names : Answered(name)' <=> Answered(name),
           \A k \in {"gpus", "power"} :
               /\ k \in DOMAIN payload' <=> k \in DOMAIN payload
               /\ k \in DOMAIN payload => payload'[k] = payload[k]
    PROVE  GpusInv' /\ SourcesInv' /\ RailsInv'
<1>1. "gpu.nvml" \in Names /\ "gpu.amdgpu" \in Names /\ "power.rapl" \in Names
      /\ "hwmon" \in Names
    BY DEF Names
<1>2. /\ Given("gpu.nvml", host.nvml)' = Given("gpu.nvml", host.nvml)
      /\ Given("gpu.amdgpu", host.amd)' = Given("gpu.amdgpu", host.amd)
      /\ Package' = Package
    BY <1>1 DEF Given, Package
<1>3. GpuPower(payload') = GpuPower(payload)
    <2>1. (IF "gpus" \in DOMAIN payload' THEN payload'["gpus"].of ELSE <<>>) =
              IF "gpus" \in DOMAIN payload THEN payload["gpus"].of ELSE <<>>
        OBVIOUS
    <2>2. QED
        BY <2>1 DEF GpuPower
<1>4. GpusInv'
    BY <1>2, <1>3 DEF GpusInv
<1>5. Unsummed(payload') = Unsummed(payload) /\ Sources' = Sources
    BY DEF Unsummed, Sources, SourcesOf
<1>6. Clash' = Clash /\ RailLabels' = RailLabels
    BY DEF Clash, RailLabels
<1>7. SourcesInv'
    BY <1>2, <1>5, <1>6 DEF SourcesInv
<1>8. RailsInv'
    BY <1>1 DEF RailsInv
<1>9. QED
    BY <1>4, <1>7, <1>8

LEMMA FailKeepsPower ==
    ASSUME MetricsInv, GpusInv, SourcesInv, RailsInv, Fail
    PROVE  GpusInv' /\ SourcesInv' /\ RailsInv'
<1>1. PICK p : p = Error(collectors[next])
    OBVIOUS
<1>2. /\ route # "none" /\ next \in DOMAIN collectors
      /\ payload' = Merge(payload, p) /\ returned' = Append(returned, None)
      /\ UNCHANGED <<route, absent, rails, host, chips, reused>>
    BY <1>1 DEF Fail, hostVars
<1>3. Collecting' => Collecting
    <2>1. PICK m \in Nat : m = Len(collectors) /\ DOMAIN collectors = 1 .. m
        BY CollectorFacts, ItemFacts
    <2>2. QED
        BY <1>2, <2>1 DEF Collecting, Sent
<1>4. \A k \in {"gpus", "power"} :
          /\ k \in DOMAIN payload' <=> k \in DOMAIN payload
          /\ k \in DOMAIN payload => payload'[k] = payload[k]
    <2>1. DOMAIN p = {"errors"}
        BY <1>1 DEF Error
    <2>2. /\ DOMAIN Merge(payload, p) = DOMAIN payload \cup DOMAIN p
          /\ \A k \in DOMAIN payload \ DOMAIN p : Merge(payload, p)[k] = payload[k]
        BY MergeFacts
    <2>3. QED
        BY <1>2, <2>1, <2>2
<1>5. CASE route \in {"tick", "info"}
    <2>1. \A name \in Names : Answered(name)' <=> Answered(name)
        BY <1>2, <1>5, AnsweredMore
    <2>2. QED
        BY <1>2, <1>3, <1>4, <2>1, PowerWaits
<1>6. CASE route \notin {"tick", "info"}
    <2>1. ~Collecting'
        BY <1>2, <1>6 DEF Collecting
    <2>2. RailsInv'
        BY <1>2, <1>6 DEF RailsInv
    <2>3. QED
        BY <2>1, <2>2 DEF GpusInv, SourcesInv
<1>7. QED
    BY <1>5, <1>6

\* The power starts with a tick and ends with its sending; a tick alone has rails.
LEMMA OtherRequestsKeepPower ==
    ASSUME MetricsInv, RailsInv, Read \/ Begin \/ Send \/ Finish \/ (Collect /\ route = "info")
    PROVE  GpusInv' /\ SourcesInv' /\ RailsInv'
<1>0. Len(collectors) \in Nat
    BY CollectorFacts, ItemFacts
<1>1. ASSUME ~Collecting' PROVE GpusInv' /\ SourcesInv'
    BY <1>1 DEF GpusInv, SourcesInv
<1>2. CASE Read
    <2>1. route' # "tick" /\ route = "none" /\ rails' = rails
        BY <1>2 DEF Read
    <2>2. RailsInv'
        BY <2>1 DEF RailsInv
    <2>3. QED
        BY <1>1, <2>1, <2>2 DEF Collecting
<1>3. CASE Begin
    <2>1. /\ route = "none" /\ returned' = returned /\ rails' = rails
          /\ payload' = IF route' = "tick" THEN TickHeader ELSE InfoHeader
        BY <1>3 DEF Begin
    <2>2. returned' = <<>> /\ DOMAIN rails' = {} /\ RailsInv'
        BY <2>1 DEF MetricsInv, RequestInv, RailsInv
    <2>3. ~Answered("gpu.nvml")' /\ ~Answered("gpu.amdgpu")' /\ ~Answered("power.rapl")'
        BY <2>2, EmptyFacts DEF Answered
    <2>4. /\ Given("gpu.nvml", host.nvml)' = <<>> /\ Given("gpu.amdgpu", host.amd)' = <<>>
          /\ Package' = <<>>
        BY <2>3 DEF Given, Package
    <2>5. CASE route' = "tick"
        <3>1. payload' = TickHeader /\ "gpus" \notin DOMAIN TickHeader
              /\ "power" \notin DOMAIN TickHeader
            BY <2>1, <2>5 DEF TickHeader
        <3>2. PICK none : none = Numbers(<<>>)
            OBVIOUS
        <3>3. PowersOf(<<>>) = <<>>
            <4>1. [i \in {} |-> <<>>[i].of.power_w] = <<>>
                <5>1. PICK f : f = [i \in {} |-> <<>>[i].of.power_w]
                    OBVIOUS
                <5>2. f \in [1 .. 0 -> {}]
                    BY <5>1
                <5>3. f \in Seq({}) /\ Len(f) = 0
                    BY <5>2, FunctionIsSequence
                <5>4. QED
                    BY <5>1, <5>3
            <4>2. QED
                BY <4>1, EmptyFacts DEF PowersOf
        <3>4. GpuPower(payload') = none
            BY <3>1, <3>2, <3>3 DEF GpuPower
        <3>5. Summable(none) /\ DOMAIN none = {} /\ SumFunction(none) = 0
            BY <3>2, EmptyNumbers
        <3>6. GpusInv'
            BY <2>4, <3>2, <3>4, <3>5 DEF GpusInv
        <3>7. Unsummed(payload') /\ Sources' = Nothing
            BY <3>1 DEF Unsummed, Sources, SourcesOf
        <3>8. RailLabels' = {} /\ DOMAIN Nothing = {}
            BY <2>2, EmptyFacts DEF RailLabels, Nothing
        <3>9. SourcesInv'
            BY <2>2, <2>4, <3>7, <3>8 DEF SourcesInv
        <3>10. QED
            BY <2>2, <3>6, <3>9
    <2>6. CASE route' # "tick"
        BY <1>1, <2>2, <2>6 DEF Collecting
    <2>7. QED
        BY <2>5, <2>6
<1>4. CASE Send
    <2>1. route' = "none" /\ rails' = Nothing
        BY <1>4 DEF Send
    <2>2. DOMAIN rails' = {} /\ IsFiniteSet({})
        BY <2>1, EmptyFacts, FS_EmptySet DEF Nothing
    <2>3. RailsInv'
        BY <2>2 DEF RailsInv
    <2>4. QED
        BY <1>1, <2>1, <2>3 DEF Collecting
<1>5. CASE Finish
    <2>1. /\ next = Len(collectors) + 1 /\ next' = next + 1
          /\ UNCHANGED <<host, chips, route, rails, returned, reused>>
        BY <1>5 DEF Finish, hostVars
    <2>2. collectors' = collectors
        BY <2>1 DEF collectors
    <2>3. Sent'
        BY <1>0, <2>1, <2>2 DEF Sent
    <2>4. Answered("hwmon")' = Answered("hwmon")
        BY <2>1, <2>2 DEF Answered
    <2>5. RailsInv'
        BY <2>1, <2>4 DEF RailsInv
    <2>6. QED
        BY <1>1, <2>3, <2>5 DEF Collecting
<1>6. CASE Collect /\ route = "info"
    <2>1. route' = "info" /\ rails' = rails
        BY <1>6 DEF Collect
    <2>2. RailsInv'
        BY <1>6, <2>1 DEF RailsInv
    <2>3. QED
        BY <1>1, <2>1, <2>2 DEF Collecting
<1>7. QED
    BY <1>2, <1>3, <1>4, <1>5, <1>6

-----------------------------------------------------------------------------
(* The devices.                                                            *)

\* What is in a flattened sequence was in one of its sequences.
LEMMA FlattenItems ==
    ASSUME NEW s, IsSeq(s), NEW T, \A i \in DOMAIN s : s[i] \in Seq(T)
    PROVE  FlattenSeq(s) \in Seq(T)
<1>1. PICK n \in Nat : n = Len(s) /\ DOMAIN s = 1 .. n
    BY ItemFacts DEF IsSeq
<1>2. PICK F : Flattened(F, s, n)
    BY FlattenedExists
<1>3. \A i \in 1 .. n : F[i] \in Seq(T)
    <2>1. PICK bad : bad = {i \in 1 .. n : F[i] \notin Seq(T)}
        OBVIOUS
    <2>2. SUFFICES ASSUME bad # {} PROVE FALSE
        BY <2>1
    <2>3. PICK i \in bad : \A k \in bad : i <= k
        <3>1. bad \in SUBSET Nat
            BY <2>1
        <3>2. QED
            BY <2>2, <3>1, Least
    <2>4. i \in 1 .. n /\ F[i] \notin Seq(T)
        BY <2>1, <2>3
    <2>5. F[i] = IF i = 1 THEN s[i] ELSE F[i - 1] \o s[i]
        BY <1>2, <2>4 DEF Flattened
    <2>6. i # 1 => F[i - 1] \in Seq(T)
        BY <2>1, <2>3, <2>4
    <2>7. s[i] \in Seq(T)
        BY <1>1, <2>4
    <2>8. QED
        BY <2>4, <2>5, <2>6, <2>7, ConcatFacts
<1>4. CASE n = 0
    <2>1. FlattenSeq(s) = s /\ s = <<>>
        BY <1>1, <1>4 DEF FlattenSeq, IsSeq
    <2>2. QED
        BY <2>1, EmptyFacts
<1>5. CASE n # 0
    BY <1>1, <1>2, <1>3, <1>5, FlattenSeqUnfolds
<1>6. QED
    BY <1>4, <1>5

\* Every file kept of a device is that device's, and no GPU's.
LEMMA KeptFacts ==
    ASSUME NEW n, NEW d, NEW T,
           d # Unplugged /\ ~d.gpu =>
               \A i \in DOMAIN Paths :
                   [number |-> n, name |-> d.name, path |-> Paths[i]] \in T
    PROVE  Kept(n, d) \in Seq(T)
<1>1. PICK some : some = [i \in DOMAIN Paths |->
          IF d # Unplugged /\ ~_is_gpu_owned(d) /\ Picked(d, Paths[i])
          THEN <<[number |-> n, name |-> d.name, path |-> Paths[i]]>> ELSE <<>>]
    OBVIOUS
<1>2. DOMAIN Paths = 1 .. 5
    BY DEF Paths
<1>3. IsSeq(some)
    BY <1>1, <1>2, EnumerationIsSeq
<1>4. ASSUME NEW i \in DOMAIN Paths PROVE some[i] \in Seq(T)
    <2>1. PICK chip : chip = [number |-> n, name |-> d.name, path |-> Paths[i]]
        OBVIOUS
    <2>2. CASE d # Unplugged /\ ~_is_gpu_owned(d) /\ Picked(d, Paths[i])
        <3>1. chip \in T
            BY <2>1, <2>2 DEF _is_gpu_owned
        <3>2. <<chip>> \in Seq(T)
            BY <3>1
        <3>3. QED
            BY <1>1, <2>1, <2>2, <3>2
    <2>3. CASE ~(d # Unplugged /\ ~_is_gpu_owned(d) /\ Picked(d, Paths[i]))
        BY <1>1, <2>3, EmptyFacts
    <2>4. QED
        BY <2>2, <2>3
<1>5. QED
    BY <1>1, <1>3, <1>4, FlattenItems DEF Kept

\* What DevicesInv says of a device.
WattsAreNumbers(d) ==
    d = Unplugged \/ \A path \in d.files : path[1] # "fan1" => IsWatts(d.watts[path[1]])

LEMMA InitEstablishesDevicesInv == Init => DevicesInv
<1> SUFFICES ASSUME Init PROVE DevicesInv
    OBVIOUS
<1>1. sysfs \in Sysfs /\ chips = ProbeHwmon(sysfs)
    BY DEF Init
<1>2. IsSeq(sysfs) /\ \A d \in Range(sysfs) : WattsAreNumbers(d)
    BY <1>1, MetricsAssumption DEF WattsAreNumbers
<1>3. PICK m \in Nat : DOMAIN sysfs = 1 .. m
    BY <1>2, ItemFacts DEF IsSeq
<1>4. IsFiniteSet(DOMAIN sysfs)
    BY <1>3, FS_Interval
<1>5. \A n \in DOMAIN sysfs : WattsAreNumbers(sysfs[n])
    BY <1>2 DEF Range
<1>6. PICK Own : Own = {k \in DOMAIN sysfs : sysfs[k] # Unplugged /\ ~sysfs[k].gpu}
    OBVIOUS
<1>7. PICK T : T = {c \in [number : Own, name : {sysfs[n].name : n \in Own},
                            path : Range(Paths)] : c.name = sysfs[c.number].name}
    OBVIOUS
<1>8. PICK some : some = [n \in DOMAIN sysfs |-> Kept(n, sysfs[n])]
    OBVIOUS
<1>9. IsSeq(some)
    BY <1>3, <1>8, EnumerationIsSeq
<1>10. ASSUME NEW n \in DOMAIN some PROVE some[n] \in Seq(T)
    <2>1. PICK d : d = sysfs[n]
        OBVIOUS
    <2>2. d # Unplugged /\ ~d.gpu =>
              \A i \in DOMAIN Paths : [number |-> n, name |-> d.name, path |-> Paths[i]] \in T
        <3>1. \A i \in DOMAIN Paths : Paths[i] \in Range(Paths)
            BY DEF Range
        <3>2. QED
            BY <1>6, <1>7, <1>8, <2>1, <3>1
    <2>3. Kept(n, d) \in Seq(T)
        BY <2>2, KeptFacts
    <2>4. QED
        BY <1>8, <2>1, <2>3
<1>11. chips \in Seq(T)
    BY <1>1, <1>8, <1>9, <1>10, FlattenItems DEF ProbeHwmon
<1>12. ASSUME NEW c \in Range(chips)
       PROVE  /\ c.number \in DOMAIN sysfs
              /\ sysfs[c.number].name = c.name /\ ~sysfs[c.number].gpu
    <2>1. c \in T
        BY <1>11, ItemFacts DEF Range
    <2>2. c.number \in Own /\ c.name = sysfs[c.number].name
        BY <1>7, <2>1
    <2>3. QED
        BY <1>6, <2>2
<1>13. QED
    BY <1>4, <1>5, <1>12 DEF DevicesInv, WattsAreNumbers

LEMMA PlugKeepsDevicesInv ==
    ASSUME DevicesInv, Plug
    PROVE  DevicesInv' /\ (reused => reused')
<1>1. PICK n \in DOMAIN sysfs, d \in Devices :
          /\ sysfs' = [sysfs EXCEPT ![n] = d]
          /\ reused' = (reused \/ \E c \in ToSet(chips) : c.number = n)
    BY DEF Plug
<1>2. chips' = chips
    BY DEF Plug
<1>3. ToSet(chips) = Range(chips)
    BY DEF ToSet, Range
<1>4. DOMAIN sysfs' = DOMAIN sysfs
    BY <1>1
<1>5. WattsAreNumbers(d)
    BY MetricsAssumption DEF WattsAreNumbers
<1>6. \A k \in DOMAIN sysfs : sysfs'[k] = IF k = n THEN d ELSE sysfs[k]
    BY <1>1
<1>7. \A k \in DOMAIN sysfs : WattsAreNumbers(sysfs'[k])
    BY <1>5, <1>6 DEF DevicesInv, WattsAreNumbers
<1>8. ASSUME NEW c \in Range(chips), ~reused'
      PROVE  sysfs'[c.number] = sysfs[c.number]
    BY <1>1, <1>3, <1>6, <1>8 DEF DevicesInv
<1>9. reused => reused'
    BY <1>1
<1>10. QED
    BY <1>2, <1>4, <1>7, <1>8, <1>9 DEF DevicesInv, WattsAreNumbers

LEMMA UnplugKeepsDevicesInv ==
    ASSUME DevicesInv, Unplug
    PROVE  DevicesInv'
<1>1. PICK n \in DOMAIN sysfs : sysfs' = [sysfs EXCEPT ![n] = Unplugged]
    BY DEF Unplug
<1>2. UNCHANGED <<chips, reused>>
    BY DEF Unplug
<1>3. DOMAIN sysfs' = DOMAIN sysfs
      /\ \A k \in DOMAIN sysfs : sysfs'[k] = IF k = n THEN Unplugged ELSE sysfs[k]
    BY <1>1
<1>4. QED
    BY <1>2, <1>3 DEF DevicesInv

-----------------------------------------------------------------------------
(* The end of a tick.                                                      *)

LEMMA SumOfOne ==
    ASSUME NEW f, NEW x, f[x] \in Int
    PROVE  SumFunctionOnSet(f, {x}) = f[x]
<1>1. PICK S, T : S = {x} /\ T = {}
    OBVIOUS
<1>2. IsFiniteSet(S)
    BY <1>1, FS_Singleton
<1>3. /\ \A y \in S : f[y] \in Int
      /\ T \in SUBSET S /\ x \in S \ T /\ T \cup {x} = S
    BY <1>1
<1>4. SumFunctionOnSet(f, T \cup {x}) = SumFunctionOnSet(f, T) + f[x]
    BY <1>2, <1>3, SumAdd
<1>5. SumFunctionOnSet(f, T) = 0
    BY <1>1, SumOfNone
<1>6. QED
    BY <1>1, <1>3, <1>4, <1>5

LEMMA ThreeParts ==
    ASSUME NEW f, Summable(f), NEW A, NEW B, NEW C, DOMAIN f = A \cup B \cup C,
           A \cap B = {}, A \cap C = {}, B \cap C = {}
    PROVE  SumFunction(f) = SumFunctionOnSet(f, A) + SumFunctionOnSet(f, B)
                                + SumFunctionOnSet(f, C)
<1>1. PICK S, D : S = DOMAIN f /\ D = A \cup B
    OBVIOUS
<1>2. /\ IsFiniteSet(S) /\ \A x \in S : f[x] \in Int
      /\ A \in SUBSET S /\ B \in SUBSET S /\ C \in SUBSET S /\ D \in SUBSET S
      /\ D \cap C = {} /\ D \cup C = S
    BY <1>1 DEF Summable
<1>3. SumFunctionOnSet(f, D \cup C) = SumFunctionOnSet(f, D) + SumFunctionOnSet(f, C)
    BY <1>2, SumUnion
<1>4. SumFunctionOnSet(f, A \cup B) = SumFunctionOnSet(f, A) + SumFunctionOnSet(f, B)
    BY <1>2, SumUnion
<1>5. QED
    BY <1>1, <1>2, <1>3, <1>4 DEF SumFunction

\* What the packages add.
LEMMA PackageNumbers ==
    ASSUME HostInv
    PROVE  /\ IsSeq(Package) /\ Summable(Numbers(Package))
           /\ IF Package = <<>>
              THEN DOMAIN Numbers(Package) = {} /\ SumFunction(Numbers(Package)) = 0
              ELSE /\ DOMAIN Numbers(Package) # {} /\ IsWatts(Package[1])
                   /\ SumFunction(Numbers(Package)) = Package[1].of
<1>1. PICK P : P = Package
    OBVIOUS
<1>0. SUFFICES /\ IsSeq(P) /\ Summable(Numbers(P))
               /\ P = <<>> => DOMAIN Numbers(P) = {} /\ SumFunction(Numbers(P)) = 0
               /\ P # <<>> => /\ DOMAIN Numbers(P) # {} /\ IsWatts(P[1])
                              /\ SumFunction(Numbers(P)) = P[1].of
    BY <1>1
<1>2. P = <<>> \/ (P = <<P[1]>> /\ IsWatts(P[1]))
    <2>1. P = <<>> \/ P = host.rapl
        BY <1>1 DEF Package, Given
    <2>2. host.rapl = <<>> \/ (host.rapl = <<host.rapl[1]>> /\ IsWatts(host.rapl[1]))
        BY MetricsAssumption DEF HostInv
    <2>3. QED
        BY <2>1, <2>2
<1>3. CASE P = <<>>
    <2>1. /\ Summable(Numbers(P)) /\ DOMAIN Numbers(P) = {}
          /\ SumFunction(Numbers(P)) = 0 /\ IsSeq(P)
        BY <1>3, EmptyNumbers, EmptyIsSeq
    <2>2. QED
        BY <1>3, <2>1
<1>4. CASE P # <<>>
    <2>1. PICK w : w = P[1] /\ P = <<w>> /\ IsWatts(w)
        BY <1>2, <1>4
    <2>2. DOMAIN P = {1} /\ P[1] = w /\ IsSeq(P)
        BY <2>1, SingletonIsSeq
    <2>3. PICK f : f = Numbers(P)
        OBVIOUS
    <2>4. DOMAIN f = {k \in DOMAIN P : IsNumber(P[k])} /\ \A k \in DOMAIN f : f[k] = P[k].of
        BY <2>3, NumbersFacts
    <2>5. DOMAIN f = {1} /\ f[1] = w.of /\ w.of \in Int
        BY <2>1, <2>2, <2>4 DEF IsWatts
    <2>6. SumFunction(f) = f[1]
        BY <2>5, SumOfOne DEF SumFunction
    <2>7. Summable(f)
        BY <2>5, FS_Singleton DEF Summable
    <2>8. QED
        BY <1>4, <2>1, <2>2, <2>3, <2>5, <2>6, <2>7
<1>5. QED
    BY <1>3, <1>4

\* The watts that the collectors gave, and those of the rails.
Readings == Numbers(Given("gpu.nvml", host.nvml) \o Given("gpu.amdgpu", host.amd) \o Package)
Others == Numbers([n \in {m \in DOMAIN rails : ~rails[m].gpu} |-> rails[n].watts])

LEMMA ReadingsAddUp ==
    ASSUME HostInv, NEW gn, gn = Numbers(Given("gpu.nvml", host.nvml)),
           NEW ga, ga = Numbers(Given("gpu.amdgpu", host.amd)),
           NEW gp, gp = Numbers(Package)
    PROVE  /\ SumFunction(Readings) = SumFunction(gn) + SumFunction(ga) + SumFunction(gp)
           /\ DOMAIN Readings = {} <=> DOMAIN gn = {} /\ DOMAIN ga = {} /\ DOMAIN gp = {}
<1>1. PICK s, t, u : /\ s = Given("gpu.nvml", host.nvml) /\ t = Given("gpu.amdgpu", host.amd)
                     /\ u = Package
    OBVIOUS
<1>2. /\ IsSeq(s) /\ IsSeq(t) /\ IsSeq(u)
      /\ Summable(Numbers(s)) /\ Summable(Numbers(t)) /\ Summable(Numbers(u))
    BY <1>1, GivenSummable, PackageNumbers
<1>3. PICK st, stu : st = s \o t /\ stu = st \o u
    OBVIOUS
<1>4. IsSeq(st) /\ Joined(s, t, st)
    BY <1>2, <1>3, ConcatIsSeq, ConcatJoined
<1>5. Joined(st, u, stu)
    BY <1>2, <1>3, <1>4, ConcatJoined
<1>6. /\ Summable(Numbers(st))
      /\ SumFunction(Numbers(st)) = SumFunction(Numbers(s)) + SumFunction(Numbers(t))
      /\ DOMAIN Numbers(st) = {} <=> DOMAIN Numbers(s) = {} /\ DOMAIN Numbers(t) = {}
    BY <1>2, <1>4, NumbersJoined
<1>7. /\ SumFunction(Numbers(stu)) = SumFunction(Numbers(st)) + SumFunction(Numbers(u))
      /\ DOMAIN Numbers(stu) = {} <=> DOMAIN Numbers(st) = {} /\ DOMAIN Numbers(u) = {}
    BY <1>2, <1>5, <1>6, NumbersJoined
<1>8. Readings = Numbers(stu)
    BY <1>1, <1>3 DEF Readings
<1>9. QED
    BY <1>1, <1>6, <1>7, <1>8

LEMMA RailsAddUp ==
    ASSUME RailsInv, ~reused
    PROVE  /\ DOMAIN Others = DOMAIN rails /\ Summable(Others)
           /\ \A n \in DOMAIN rails : Others[n] = rails[n].watts.of
<1>1. PICK w : w = [n \in {m \in DOMAIN rails : ~rails[m].gpu} |-> rails[n].watts]
    OBVIOUS
<1>2. DOMAIN w = DOMAIN rails /\ \A n \in DOMAIN rails : w[n] = rails[n].watts
    BY <1>1 DEF RailsInv
<1>3. PICK f : f = Numbers(w)
    OBVIOUS
<1>4. DOMAIN f = {k \in DOMAIN w : IsNumber(w[k])} /\ \A k \in DOMAIN f : f[k] = w[k].of
    BY <1>3, NumbersFacts
<1>5. \A n \in DOMAIN rails : IsNumber(w[n]) /\ w[n].of \in Int
    BY <1>2 DEF RailsInv, IsWatts
<1>6. DOMAIN f = DOMAIN rails /\ \A n \in DOMAIN rails : f[n] = rails[n].watts.of
    BY <1>2, <1>4, <1>5
<1>7. Summable(f)
    BY <1>2, <1>5, <1>6 DEF Summable, RailsInv
<1>8. f = Others
    BY <1>1, <1>3 DEF Others
<1>9. QED
    BY <1>6, <1>7, <1>8

\* The source of the GPUs, if any has a power.
GpuSource(p) ==
    IF DOMAIN GpuPower(p) = {} THEN Nothing
    ELSE [gpu |-> Value("num", SumFunction(GpuPower(p)))]

LEMMA GpuAdded ==
    ASSUME NEW p, Unsummed(p)
    PROVE  LET q == WithGpu(p)
           IN  /\ Unsummed(q) /\ "power" \in DOMAIN q
               /\ DOMAIN SourcesOf(q) = DOMAIN SourcesOf(p) \cup DOMAIN GpuSource(p)
               /\ \A k \in DOMAIN GpuSource(p) : SourcesOf(q)[k] = GpuSource(p)[k]
               /\ \A k \in DOMAIN SourcesOf(p) \ DOMAIN GpuSource(p) :
                      SourcesOf(q)[k] = SourcesOf(p)[k]
<1>1. PICK own, part, q : /\ own = GpuSource(p)
                          /\ part = [power |-> Dict([sources |-> Dict(own)])]
                          /\ q = Merge(p, part)
    OBVIOUS
<1>2. q = WithGpu(p)
    BY <1>1, Zenon DEF WithGpu, GpuSource
<1>3. "power" \in DOMAIN part /\ part["power"] = Dict([sources |-> Dict(own)])
    BY <1>1
<1>4. Unsummed(part) /\ SourcesOf(part) = own
    BY <1>3, OnlySources
<1>5. SourcesMerged(p, part, q)
    BY <1>1, <1>4, MergedSources
<1>6. /\ Unsummed(q) /\ "power" \in DOMAIN q
      /\ DOMAIN SourcesOf(q) = DOMAIN SourcesOf(p) \cup DOMAIN own
      /\ \A k \in DOMAIN own : SourcesOf(q)[k] = own[k]
      /\ \A k \in DOMAIN SourcesOf(p) \ DOMAIN own : SourcesOf(q)[k] = SourcesOf(p)[k]
    BY <1>3, <1>4, <1>5 DEF SourcesMerged
<1>7. QED
    BY <1>1, <1>2, <1>6

\* measured_w is the sum of the sources that are numbers.
LEMMA MeasuredIsTheSum ==
    ASSUME NEW q, Unsummed(q), "power" \in DOMAIN q, NEW w, w = Numbers(SourcesOf(q)),
           NEW r, r = Update(WithMeasured(q), [tick_us |-> Int1])
    PROVE  r.power.of.measured_w =
               IF DOMAIN w = {} THEN None ELSE Value("num", SumFunction(w))
<1>1. PICK sum : sum = IF DOMAIN w = {} THEN None ELSE Value("num", SumFunction(w))
    OBVIOUS
<1>2. PICK own, part, m : /\ own = [measured_w |-> sum] /\ part = [power |-> Dict(own)]
                          /\ m = Merge(q, part)
    OBVIOUS
<1>3. SourcesOf(q) = q.power.of.sources.of
    BY DEF SourcesOf
<1>4. m = WithMeasured(q)
    BY <1>1, <1>2, <1>3, Zenon DEF WithMeasured
<1>5. PICK old : old = q["power"].of
    OBVIOUS
<1>6. q["power"].kind = "dict" /\ DOMAIN old = {"sources"}
    BY <1>5 DEF Unsummed
<1>7. /\ "power" \in DOMAIN part /\ part["power"].kind = "dict" /\ part["power"].of = own
      /\ DOMAIN own = {"measured_w"} /\ own["measured_w"] = sum
    BY <1>2 DEF Dict, Value
<1>8. m["power"] = Dict(MergeSources(old, own))
    BY <1>2, <1>5, <1>6, <1>7 DEF Merge, MergeLevel
<1>9. MergeSources(old, own)["measured_w"] = sum
    <2>1. "measured_w" \in DOMAIN old \cup DOMAIN own /\ "measured_w" \notin DOMAIN old
        BY <1>6, <1>7
    <2>2. QED
        BY <1>7, <2>1 DEF MergeSources, MergeLevel
<1>10. m["power"].of["measured_w"] = sum /\ "power" \in DOMAIN m
    <2>1. m["power"].of = MergeSources(old, own)
        BY <1>8 DEF Dict, Value
    <2>2. DOMAIN m = DOMAIN q \cup DOMAIN part
        BY <1>2, MergeFacts
    <2>3. QED
        BY <1>9, <2>1, <2>2
<1>11. PICK s : s = [tick_us |-> Int1]
    OBVIOUS
<1>12. r = Update(m, s)
    BY <1>4, <1>11
<1>13. r["power"] = m["power"]
    <2>1. /\ DOMAIN Update(m, s) = DOMAIN m \cup DOMAIN s
          /\ \A k \in DOMAIN m \ DOMAIN s : Update(m, s)[k] = m[k]
        BY UpdateFacts
    <2>2. "power" \notin DOMAIN s
        BY <1>11
    <2>3. QED
        BY <1>10, <1>12, <2>1, <2>2
<1>14. QED
    BY <1>1, <1>10, <1>13

\* The sources have each of the readings and of the rails once.
LEMMA WattsAddUp ==
    ASSUME MetricsInv, GpusInv, SourcesInv, RailsInv, Collecting, ~reused
    PROVE  LET q == WithGpu(payload)
               w == Numbers(SourcesOf(q))
           IN  /\ Unsummed(q) /\ "power" \in DOMAIN q
               /\ DOMAIN w = {} <=> DOMAIN Readings \cup DOMAIN Others = {}
               /\ ~Clash => SumFunction(w) = SumFunction(Readings) + SumFunction(Others)
<1>1. PICK q : q = WithGpu(payload)
    OBVIOUS
<1>2. PICK S, T, own, g : /\ S = Sources /\ T = SourcesOf(q)
                          /\ own = GpuSource(payload) /\ g = GpuPower(payload)
    OBVIOUS
<1>3. PICK w : w = Numbers(T)
    OBVIOUS
<1>4. PICK gn, ga, gp : /\ gn = Numbers(Given("gpu.nvml", host.nvml))
                        /\ ga = Numbers(Given("gpu.amdgpu", host.amd))
                        /\ gp = Numbers(Package)
    OBVIOUS
<1>5. HostInv
    BY DEF MetricsInv
<1>6. /\ Unsummed(q) /\ "power" \in DOMAIN q
      /\ DOMAIN T = DOMAIN S \cup DOMAIN own
      /\ \A k \in DOMAIN own : T[k] = own[k]
      /\ \A k \in DOMAIN S \ DOMAIN own : T[k] = S[k]
    <2>1. Unsummed(payload)
        BY DEF SourcesInv
    <2>2. /\ Unsummed(q) /\ "power" \in DOMAIN q
          /\ DOMAIN SourcesOf(q) = DOMAIN SourcesOf(payload) \cup DOMAIN GpuSource(payload)
          /\ \A k \in DOMAIN GpuSource(payload) : SourcesOf(q)[k] = GpuSource(payload)[k]
          /\ \A k \in DOMAIN SourcesOf(payload) \ DOMAIN GpuSource(payload) :
                 SourcesOf(q)[k] = SourcesOf(payload)[k]
        BY <1>1, <2>1, GpuAdded
    <2>3. QED
        BY <1>2, <2>2 DEF Sources
<1>7. /\ Summable(g) /\ SumFunction(g) = SumFunction(gn) + SumFunction(ga)
      /\ DOMAIN g = {} <=> DOMAIN gn = {} /\ DOMAIN ga = {}
    BY <1>2, <1>4 DEF GpusInv
<1>8. /\ DOMAIN g = {} => DOMAIN own = {}
      /\ DOMAIN g # {} => /\ DOMAIN own = {"gpu"}
                          /\ own["gpu"].kind = "num" /\ own["gpu"].of = SumFunction(g)
    BY <1>2, EmptyFacts DEF GpuSource, Nothing, Value
<1>9. SumFunction(g) \in Int /\ SumFunction(gp) \in Int
    BY <1>4, <1>5, <1>7, SumIsInt, PackageNumbers
<1>10. /\ SumFunction(Readings) = SumFunction(gn) + SumFunction(ga) + SumFunction(gp)
       /\ DOMAIN Readings = {} <=> DOMAIN gn = {} /\ DOMAIN ga = {} /\ DOMAIN gp = {}
    BY <1>4, <1>5, ReadingsAddUp
<1>11. /\ DOMAIN Others = DOMAIN rails /\ Summable(Others)
       /\ \A n \in DOMAIN rails : Others[n] = rails[n].watts.of
    BY RailsAddUp
<1>12. PICK L, P : L = RailLabels /\ P = IF Package = <<>> THEN {} ELSE {"cpu_package"}
    OBVIOUS
<1>13. DOMAIN S = L \cup P /\ \A k \in DOMAIN S : IsWatts(S[k])
    BY <1>2, <1>12 DEF SourcesInv
<1>14. /\ Package = <<>> => DOMAIN gp = {} /\ SumFunction(gp) = 0
       /\ Package # <<>> => /\ DOMAIN gp # {} /\ IsWatts(Package[1])
                            /\ SumFunction(gp) = Package[1].of
    BY <1>4, <1>5, PackageNumbers
<1>15. \A k \in DOMAIN T : IsNumber(T[k]) /\ T[k].of \in Int
    <2>1. ASSUME NEW k \in DOMAIN own PROVE IsNumber(T[k]) /\ T[k].of \in Int
        <3>1. k = "gpu" /\ T[k] = own["gpu"] /\ own["gpu"].kind = "num"
              /\ own["gpu"].of = SumFunction(g)
            BY <1>6, <1>8, <2>1
        <3>2. QED
            BY <1>9, <3>1 DEF IsNumber
    <2>2. ASSUME NEW k \in DOMAIN S \ DOMAIN own PROVE IsNumber(T[k]) /\ T[k].of \in Int
        BY <1>6, <1>13, <2>2 DEF IsWatts
    <2>3. QED
        BY <1>6, <2>1, <2>2
<1>16. DOMAIN w = DOMAIN T /\ \A k \in DOMAIN T : w[k] = T[k].of
    <2>1. DOMAIN w = {k \in DOMAIN T : IsNumber(T[k])} /\ \A k \in DOMAIN w : w[k] = T[k].of
        BY <1>3, NumbersFacts
    <2>2. QED
        BY <1>15, <2>1
<1>17. L = {} <=> DOMAIN rails = {}
    BY <1>12 DEF RailLabels
<1>18. DOMAIN w = {} <=> DOMAIN Readings \cup DOMAIN Others = {}
    <2>1. P = {} <=> DOMAIN gp = {}
        BY <1>12, <1>14
    <2>2. DOMAIN own = {} <=> DOMAIN g = {}
        BY <1>8
    <2>3. QED
        BY <1>6, <1>7, <1>10, <1>11, <1>13, <1>16, <1>17, <2>1, <2>2
<1>19. ASSUME ~Clash
       PROVE  SumFunction(w) = SumFunction(Readings) + SumFunction(Others)
    <2>1. /\ \A n \in DOMAIN rails : S[rails[n].label] = rails[n].watts
          /\ Package # <<>> => S["cpu_package"] = Package[1]
        BY <1>2, <1>19 DEF SourcesInv
    <2>2. \A n \in DOMAIN rails :
              /\ rails[n].label \notin {"gpu", "cpu_package"}
              /\ \A m \in DOMAIN rails : rails[m].label = rails[n].label => m = n
        BY <1>19 DEF Clash
    <2>3. "gpu" \notin L /\ "cpu_package" \notin L
        BY <1>12, <2>2 DEF RailLabels
    <2>4. PICK G : G = DOMAIN own
        OBVIOUS
    <2>5. "gpu" # "cpu_package"
        OBVIOUS
    <2>6. /\ DOMAIN w = L \cup P \cup G
          /\ L \cap P = {} /\ L \cap G = {} /\ P \cap G = {}
        <3>1. P \subseteq {"cpu_package"}
            BY <1>12
        <3>2. G \subseteq {"gpu"}
            BY <1>8, <2>4
        <3>3. DOMAIN w = L \cup P \cup G
            BY <1>6, <1>13, <1>16, <2>4
        <3>4. QED
            BY <2>3, <2>5, <3>1, <3>2, <3>3
    <2>7. PICK name : name = [n \in DOMAIN rails |-> rails[n].label]
        OBVIOUS
    <2>8. L = {name[n] : n \in DOMAIN rails}
        BY <1>12, <2>7 DEF RailLabels
    <2>9. \A n \in DOMAIN rails : w[name[n]] = Others[n]
        <3>1. ASSUME NEW n \in DOMAIN rails PROVE w[name[n]] = Others[n]
            <4>1. PICK l : l = name[n] /\ l = rails[n].label /\ l \in L
                BY <2>7, <2>8
            <4>2. l \in DOMAIN S \ DOMAIN own /\ S[l] = rails[n].watts
                BY <1>13, <2>1, <2>4, <2>6, <4>1
            <4>3. l \in DOMAIN T /\ T[l] = rails[n].watts
                BY <1>6, <4>2
            <4>4. w[l] = rails[n].watts.of
                BY <1>16, <4>3
            <4>5. QED
                BY <1>11, <4>1, <4>4
        <3>2. QED
            BY <3>1
    <2>10. SumFunctionOnSet(w, L) = SumFunction(Others)
        <3>1. PICK D, o : D = DOMAIN rails /\ o = Others
            OBVIOUS
        <3>2. /\ IsFiniteSet(D) /\ \A n \in D : o[n] \in Int
              /\ \A m, n \in D : name[m] = name[n] => m = n
              /\ \A n \in D : w[name[n]] = o[n]
            BY <1>11, <2>2, <2>7, <2>9, <3>1 DEF Summable
        <3>3. SumFunctionOnSet(w, {name[n] : n \in D}) = SumFunctionOnSet(o, D)
            BY <3>2, SumRenamed
        <3>4. DOMAIN o = D
            BY <1>11, <3>1
        <3>5. SumFunction(o) = SumFunctionOnSet(o, D)
            BY <3>4 DEF SumFunction
        <3>6. QED
            BY <2>8, <3>1, <3>3, <3>5
    <2>11. SumFunctionOnSet(w, P) = SumFunction(gp)
        <3>1. CASE Package = <<>>
            BY <1>12, <1>14, <3>1, SumOfNone
        <3>2. CASE Package # <<>>
            <4>1. P = {"cpu_package"} /\ "cpu_package" \in DOMAIN S \ DOMAIN own
                BY <1>12, <1>13, <2>4, <2>6, <3>2
            <4>2. T["cpu_package"] = Package[1] /\ "cpu_package" \in DOMAIN T
                BY <1>6, <2>1, <3>2, <4>1
            <4>3. w["cpu_package"] = SumFunction(gp)
                BY <1>14, <1>16, <3>2, <4>2
            <4>4. SumFunctionOnSet(w, {"cpu_package"}) = w["cpu_package"]
                BY <1>9, <4>3, SumOfOne
            <4>5. QED
                BY <4>1, <4>3, <4>4
        <3>3. QED
            BY <3>1, <3>2
    <2>12. SumFunctionOnSet(w, G) = SumFunction(g)
        <3>1. CASE DOMAIN g = {}
            <4>1. SumFunction(g) = 0
                BY <3>1, SumOfNone DEF SumFunction
            <4>2. QED
                BY <1>8, <2>4, <3>1, <4>1, SumOfNone
        <3>2. CASE DOMAIN g # {}
            <4>1. G = {"gpu"} /\ "gpu" \in DOMAIN T /\ T["gpu"].of = SumFunction(g)
                BY <1>6, <1>8, <2>4, <3>2
            <4>2. w["gpu"] = SumFunction(g)
                BY <1>16, <4>1
            <4>3. SumFunctionOnSet(w, {"gpu"}) = w["gpu"]
                BY <1>9, <4>2, SumOfOne
            <4>4. QED
                BY <4>1, <4>2, <4>3
        <3>3. QED
            BY <3>1, <3>2
    <2>13. Summable(w)
        <3>1. IsFiniteSet(L)
            <4>1. L \subseteq DOMAIN w
                BY <2>6
            <4>2. PICK D, o : D = DOMAIN rails /\ o = Others
                OBVIOUS
            <4>3. /\ IsFiniteSet(D) /\ \A n \in D : o[n] \in Int
                  /\ \A m, n \in D : name[m] = name[n] => m = n
                  /\ \A n \in D : w[name[n]] = o[n]
                BY <1>11, <2>2, <2>7, <2>9, <4>2 DEF Summable
            <4>4. /\ IsFiniteSet({name[n] : n \in D})
                  /\ SumFunctionOnSet(w, {name[n] : n \in D}) = SumFunctionOnSet(o, D)
                BY <4>3, SumRenamed
            <4>5. QED
                BY <2>8, <4>2, <4>4
        <3>2. IsFiniteSet(P) /\ IsFiniteSet(G)
            <4>1. \A x : IsFiniteSet({x})
                BY FS_Singleton
            <4>2. (P = {} \/ P = {"cpu_package"}) /\ (G = {} \/ G = {"gpu"})
                BY <1>8, <1>12, <2>4
            <4>3. QED
                BY <4>1, <4>2, FS_EmptySet
        <3>3. IsFiniteSet(L \cup P \cup G)
            BY <3>1, <3>2, FS_Union
        <3>4. \A k \in DOMAIN w : w[k] \in Int
            BY <1>15, <1>16
        <3>5. QED
            BY <2>6, <3>3, <3>4 DEF Summable
    <2>14. SumFunction(w) = SumFunctionOnSet(w, L) + SumFunctionOnSet(w, P)
                                + SumFunctionOnSet(w, G)
        BY <2>6, <2>13, ThreeParts
    <2>15. SumFunction(gn) \in Int /\ SumFunction(ga) \in Int /\ SumFunction(Others) \in Int
        BY <1>4, <1>5, <1>11, GivenSummable, SumIsInt
    <2>16. QED
        BY <1>7, <1>9, <1>10, <2>10, <2>11, <2>12, <2>14, <2>15
<1>20. QED
    BY <1>1, <1>2, <1>3, <1>6, <1>18, <1>19

\* The tick's end: what it sums is what was read.
LEMMA FinishKeepsEveryWattOnce ==
    ASSUME MetricsInv, GpusInv, SourcesInv, RailsInv, Finish
    PROVE  EveryWattOnce'
<1>1. /\ next = Len(collectors) + 1
      /\ payload' = IF route = "tick"
                    THEN Update(WithMeasured(WithGpu(payload)), [tick_us |-> Int1]) ELSE payload
      /\ UNCHANGED <<host, reused, chips, route, absent, returned, rails>>
    BY DEF Finish, hostVars
<1>2. collectors' = collectors
    BY <1>1 DEF collectors
<1>3. \A name \in Names : Answered(name)' <=> Answered(name)
    BY <1>1, <1>2 DEF Answered
<1>4. /\ Given("gpu.nvml", host.nvml)' = Given("gpu.nvml", host.nvml)
      /\ Given("gpu.amdgpu", host.amd)' = Given("gpu.amdgpu", host.amd)
      /\ Package' = Package
    BY <1>1, <1>3 DEF Given, Package, Names
<1>5. Readings' = Readings /\ Others' = Others /\ Clash' = Clash
    BY <1>1, <1>4 DEF Readings, Others, Clash
<1>6. ASSUME route = "tick", ~reused
      PROVE  IF DOMAIN Readings \cup DOMAIN Others = {}
             THEN payload'.power.of.measured_w = None
             ELSE Clash \/ payload'.power.of.measured_w.of =
                               SumFunction(Readings) + SumFunction(Others)
    <2>1. Collecting
        <3>1. Len(collectors) \in Nat
            BY CollectorFacts, ItemFacts
        <3>2. QED
            BY <1>1, <1>6, <3>1 DEF Collecting, Sent
    <2>2. PICK q, w : q = WithGpu(payload) /\ w = Numbers(SourcesOf(q))
        OBVIOUS
    <2>3. /\ Unsummed(q) /\ "power" \in DOMAIN q
          /\ DOMAIN w = {} <=> DOMAIN Readings \cup DOMAIN Others = {}
          /\ ~Clash => SumFunction(w) = SumFunction(Readings) + SumFunction(Others)
        BY <1>6, <2>1, <2>2, WattsAddUp
    <2>4. PICK r : r = Update(WithMeasured(q), [tick_us |-> Int1])
        OBVIOUS
    <2>5. r.power.of.measured_w =
              IF DOMAIN w = {} THEN None ELSE Value("num", SumFunction(w))
        BY <2>2, <2>3, <2>4, MeasuredIsTheSum
    <2>6. payload' = r
        BY <1>1, <1>6, <2>2, <2>4
    <2>7. Value("num", SumFunction(w)).of = SumFunction(w)
        BY DEF Value
    <2>8. QED
        BY <2>3, <2>5, <2>6, <2>7
<1>7. EveryWattOnce' <=>
          ((Sent' /\ route' = "tick" /\ ~reused') =>
              IF DOMAIN Readings' \cup DOMAIN Others' = {}
              THEN payload'.power.of.measured_w = None
              ELSE Clash' \/ payload'.power.of.measured_w.of =
                                 SumFunction(Readings') + SumFunction(Others'))
    BY Zenon DEF EveryWattOnce, Readings, Others, Package
<1>8. QED
    BY <1>1, <1>5, <1>6, <1>7

\* What has been sent stays as it is, and nothing else is sent.
LEMMA OtherStepsKeepEveryWattOnce ==
    ASSUME MetricsInv, EveryWattOnce, [Next]_vars, ~Finish, reused => reused'
    PROVE  EveryWattOnce'
<1>0. PICK m \in Nat : m = Len(collectors) /\ DOMAIN collectors = 1 .. m
    BY CollectorFacts, ItemFacts
<1>1. UNCHANGED <<host, chips>>
    BY DEF Next, Request, Read, Begin, Collect, Fail, Finish, Send, Sampler, Wake, ReadTotal,
           ReadCores, Hiccup, WriteTotal, WriteCores, Unplug, Plug, vars, hostVars
<1>2. collectors' = collectors
    BY <1>1 DEF collectors
<1>3. CASE Request
    <2>1. ~(Sent' /\ route' = "tick")
        <3>1. CASE Read
            BY <3>1 DEF Read
        <3>2. CASE Begin
            BY <1>0, <1>2, <3>2 DEF Begin, Sent, MetricsInv, RequestInv
        <3>3. CASE Collect \/ Fail
            BY <1>0, <1>2, <3>3 DEF Collect, Fail, Sent
        <3>4. CASE Send
            BY <3>4 DEF Send
        <3>5. QED
            BY <1>3, <3>1, <3>2, <3>3, <3>4 DEF Request
    <2>2. QED
        BY <2>1 DEF EveryWattOnce
<1>4. CASE Sampler \/ Unplug \/ Plug \/ UNCHANGED vars
    <2>1. UNCHANGED requestVars
        BY <1>4 DEF Sampler, Wake, ReadTotal, ReadCores, Hiccup, WriteTotal, WriteCores,
                    Unplug, Plug, vars
    <2>2. UNCHANGED <<route, absent, next, payload, returned, rails>>
        BY <2>1 DEF requestVars
    <2>3. Sent' = Sent
        BY <1>2, <2>2 DEF Sent
    <2>4. \A name \in Names : Answered(name)' <=> Answered(name)
        BY <1>2, <2>2 DEF Answered
    <2>5. /\ Given("gpu.nvml", host.nvml)' = Given("gpu.nvml", host.nvml)
          /\ Given("gpu.amdgpu", host.amd)' = Given("gpu.amdgpu", host.amd)
          /\ Given("power.rapl", host.rapl)' = Given("power.rapl", host.rapl)
        BY <1>1, <2>2, <2>4 DEF Given, Names
    <2>6. Clash' = Clash
        BY <2>2 DEF Clash
    <2>7. QED
        BY <2>2, <2>3, <2>5, <2>6 DEF EveryWattOnce
<1>5. QED
    BY <1>3, <1>4 DEF Next

\* The whole of it is inductive.
LEMMA PowerInvariantHolds == Spec => []PowerInv
<1>1. Init => PowerInv
    <2> SUFFICES ASSUME Init PROVE PowerInv
        OBVIOUS
    <2>1. ~Collecting
        BY DEF Init, Collecting
    <2>2. GpusInv /\ SourcesInv
        BY <2>1 DEF GpusInv, SourcesInv
    <2>3. RailsInv
        <3>1. DOMAIN rails = {}
            BY EmptyFacts DEF Init, Nothing
        <3>2. QED
            BY <3>1, FS_EmptySet DEF RailsInv
    <2>4. EveryWattOnce
        BY DEF Init, EveryWattOnce
    <2>5. QED
        BY <2>2, <2>3, <2>4, InitEstablishesDevicesInv DEF PowerInv
<1>2. ASSUME MetricsInv, PowerInv, [Next]_vars
      PROVE  PowerInv'
    <2>0. DevicesInv /\ GpusInv /\ SourcesInv /\ RailsInv /\ EveryWattOnce
        BY <1>2 DEF PowerInv
    <2>1. CASE Request
        <3>1. UNCHANGED hostVars
            BY <2>1 DEF Request, Read, Begin, Collect, Fail, Finish, Send
        <3>2. DevicesInv' /\ (reused => reused')
            BY <2>0, <3>1 DEF DevicesInv, hostVars
        <3>3. GpusInv' /\ SourcesInv' /\ RailsInv'
            <4>1. CASE Read \/ Begin \/ Send \/ Finish \/ (Collect /\ route = "info")
                BY <1>2, <2>0, <4>1, OtherRequestsKeepPower
            <4>2. CASE Collect /\ route = "tick"
                BY <1>2, <2>0, <4>2, CollectKeepsGpusInv, CollectKeepsSourcesInv
            <4>3. CASE Collect /\ route \notin {"tick", "info"}
                <5>1. UNCHANGED <<route, rails>>
                    BY <4>3 DEF Collect
                <5>2. RailsInv' /\ ~Collecting'
                    BY <2>0, <4>3, <5>1 DEF RailsInv, Collecting
                <5>3. QED
                    BY <5>2 DEF GpusInv, SourcesInv
            <4>4. CASE Fail
                BY <1>2, <2>0, <4>4, FailKeepsPower
            <4>5. QED
                BY <2>1, <4>1, <4>2, <4>3, <4>4 DEF Request
        <3>4. EveryWattOnce'
            BY <1>2, <2>0, <3>2, FinishKeepsEveryWattOnce, OtherStepsKeepEveryWattOnce
        <3>5. QED
            BY <3>2, <3>3, <3>4 DEF PowerInv
    <2>2. CASE Sampler \/ Unplug \/ Plug \/ UNCHANGED vars
        <3>1. UNCHANGED <<host, chips, requestVars>>
            BY <2>2 DEF Sampler, Wake, ReadTotal, ReadCores, Hiccup, WriteTotal, WriteCores,
                        Unplug, Plug, vars, hostVars
        <3>2. UNCHANGED <<route, absent, next, payload, returned, rails>>
            BY <3>1 DEF requestVars
        <3>3. DevicesInv' /\ (reused => reused')
            <4>1. CASE Plug
                BY <2>0, <4>1, PlugKeepsDevicesInv
            <4>2. CASE Unplug
                <5>1. reused' = reused
                    BY <4>2 DEF Unplug
                <5>2. QED
                    BY <2>0, <4>2, <5>1, UnplugKeepsDevicesInv
            <4>3. CASE Sampler \/ UNCHANGED vars
                <5>1. UNCHANGED hostVars
                    BY <4>3 DEF Sampler, Wake, ReadTotal, ReadCores, Hiccup, WriteTotal,
                                WriteCores, vars
                <5>2. QED
                    BY <2>0, <5>1 DEF DevicesInv, hostVars
            <4>4. QED
                BY <2>2, <4>1, <4>2, <4>3
        <3>4. collectors' = collectors
            BY <3>1 DEF collectors
        <3>5. \A name \in Names : Answered(name)' <=> Answered(name)
            BY <3>2, <3>4 DEF Answered
        <3>6. Collecting' => Collecting
            BY <3>2, <3>4 DEF Collecting, Sent
        <3>7. GpusInv' /\ SourcesInv' /\ RailsInv'
            BY <2>0, <3>1, <3>2, <3>3, <3>5, <3>6, PowerWaits
        <3>8. ~Finish
            <4>1. next' = next
                BY <3>2
            <4>2. Len(collectors) \in Nat
                BY CollectorFacts, ItemFacts
            <4>3. QED
                BY <4>1, <4>2 DEF Finish
        <3>9. EveryWattOnce'
            BY <1>2, <2>0, <3>3, <3>8, OtherStepsKeepEveryWattOnce
        <3>10. QED
            BY <3>3, <3>7, <3>9 DEF PowerInv
    <2>3. QED
        BY <1>2, <2>1, <2>2 DEF Next
<1>3. QED
    BY <1>1, <1>2, MetricsInvariantHolds, PTL DEF Spec

(* Whatever collectors raise, and whatever devices come and go, measured_w *)
(* has the watts of every GPU that answered, of every other rail that was  *)
(* read and of the CPU packages, each once.                                *)
THEOREM EveryWattIsMeasuredOnce == Spec => []EveryWattOnce
<1>1. PowerInv => EveryWattOnce
    BY DEF PowerInv
<1>2. QED
    BY <1>1, PowerInvariantHolds, PTL

-----------------------------------------------------------------------------
(* /stream: the schedule of one client's thread.                           *)

\* What FiniteSetsExt's Max and Min are on two numbers.
LEMMA MaxOfTwo ==
    ASSUME NEW a \in Int, NEW b \in Int
    PROVE  Max({a, b}) = IF a >= b THEN a ELSE b
BY DEF Max

LEMMA MinOfTwo ==
    ASSUME NEW a \in Int, NEW b \in Int
    PROVE  Min({a, b}) = IF a <= b THEN a ELSE b
BY DEF Min

LEMMA InitEstablishesPaceInv == StreamInit => PaceInv
BY StreamAssumption DEF StreamInit, PaceInv, TypeOK

\* Time passes alike for the schedule and for the ticks that began.
LEMMA ElapseKeepsPaceInv ==
    ASSUME PaceInv, Elapse
    PROVE  PaceInv'
<1> USE StreamAssumption
<1>1. slack' = IF slack - 1 >= 0 - Behind THEN slack - 1 ELSE 0 - Behind
    BY MaxOfTwo DEF Elapse, PaceInv, TypeOK
<1>2. \A i \in 1 .. 3 : ago'[i] = IF ago[i] + 1 <= Interval THEN ago[i] + 1 ELSE Interval
    BY MinOfTwo DEF Elapse, PaceInv, TypeOK
<1>3. TypeOK'
    BY <1>1, <1>2 DEF Elapse, PaceInv, TypeOK
<1>4. UNCHANGED <<at, buffer>>
    BY DEF Elapse
<1>5. \A i \in 1 .. 3 : \A n \in Int : n <= Interval /\ BeganBy(i, n) => BeganBy(i, n)'
    BY <1>1, <1>2 DEF PaceInv, TypeOK, BeganBy
<1>6. QED
    BY <1>1, <1>2, <1>3, <1>4, <1>5 DEF PaceInv, TypeOK

LEMMA ServeKeepsPaceInv ==
    ASSUME PaceInv, Serve
    PROVE  PaceInv'
<1> USE StreamAssumption DEF PaceInv, TypeOK, Go, BeganBy
<1>1. CASE SendInfo
    BY <1>1 DEF SendInfo
<1>2. CASE BeginTick
    BY <1>2 DEF BeginTick
<1>3. CASE EndTick \/ SendTick \/ TimeOut \/ Break
    BY <1>3 DEF EndTick, SendTick, TimeOut, Break
<1>4. CASE Ahead
    BY <1>4 DEF Ahead
<1>5. CASE Resync
    BY <1>5 DEF Resync
<1>6. CASE WakeUp
    BY <1>6 DEF WakeUp
<1>7. QED
    BY <1>1, <1>2, <1>3, <1>4, <1>5, <1>6 DEF Serve

\* PaceInv is inductive.
LEMMA PaceInvariantHolds == StreamSpec => []PaceInv
<1>1. ASSUME PaceInv, [StreamNext]_streamVars
      PROVE  PaceInv'
    <2>1. CASE Elapse
        BY <1>1, <2>1, ElapseKeepsPaceInv
    <2>2. CASE Serve
        BY <1>1, <2>2, ServeKeepsPaceInv
    <2>3. CASE ReadEvent \/ Leave \/ Connect
        BY <1>1, <2>3, StreamAssumption DEF ReadEvent, Leave, Connect, Go, PaceInv, TypeOK, BeganBy
    <2>4. CASE UNCHANGED streamVars
        BY <1>1, <2>4 DEF streamVars, PaceInv, TypeOK, BeganBy
    <2>5. QED
        BY <1>1, <2>1, <2>2, <2>3, <2>4 DEF StreamNext
<1>2. QED
    BY <1>1, InitEstablishesPaceInv, PTL DEF StreamSpec

-----------------------------------------------------------------------------

(* The schedule, the buffer and the histories stay in their bounds.        *)
THEOREM StreamTypeCorrect == StreamSpec => []TypeOK
<1>1. PaceInv => TypeOK
    BY DEF PaceInv
<1>2. QED
    BY <1>1, PaceInvariantHolds, PTL

(* After any delay, of a tick, of a write or of the thread itself, three   *)
(* ticks in a row take at least one interval.                              *)
THEOREM NeverABurst == StreamSpec => []NoBurst
<1>1. PaceInv => NoBurst
    BY DEF PaceInv, NoBurst
<1>2. QED
    BY <1>1, PaceInvariantHolds, PTL
=============================================================================
