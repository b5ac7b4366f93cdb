-------------------------------- MODULE Sums --------------------------------
(***************************************************************************)
(* Facts about SumFunctionOnSet of the community modules, which takes one  *)
(* element of the set after the other: that the sum exists, is one more    *)
(* summand with one more element, whichever it is, and is therefore the    *)
(* same for the same summands under other names.  Each is shown by a       *)
(* smallest set for which it fails.                                        *)
(***************************************************************************)
EXTENDS Integers, Functions, FiniteSetTheorems, WellFoundedInduction, TLAPS

\* The element that the fold of the community modules takes next.
Pick(s) == CHOOSE x \in s : TRUE

\* The equation of the recursive function that SumFunctionOnSet is made of.
Adds(g, f, T) ==
    g = [s \in SUBSET T |-> IF s = {} THEN 0 ELSE f[Pick(s)] + g[s \ {Pick(s)}]]

LEMMA SumUnfolds ==
    ASSUME NEW f, NEW T
    PROVE  SumFunctionOnSet(f, T) = (CHOOSE g : Adds(g, f, T))[T]
BY DEF SumFunctionOnSet, FoldFunctionOnSet, MapThenFoldSet, Adds, Pick

\* Induction over the subsets of a finite set, as a minimal counterexample.
LEMMA MinimalSubset ==
    ASSUME NEW S, IsFiniteSet(S), NEW B \in SUBSET SUBSET S, B # {}
    PROVE  \E s \in B : \A t \in B : t \subseteq s => t = s
<1>1. B \subseteq FiniteSubsetsOf(S)
    BY FS_Subset DEF FiniteSubsetsOf
<1>2. \E s \in B : \A t \in B : ~(<<t, s>> \in StrictSubsetOrdering(S))
    BY <1>1, FS_StrictSubsetOrderingWellFounded, WFMin
<1>3. QED
    BY <1>2 DEF StrictSubsetOrdering

\* The least of some numbers.
LEMMA Least ==
    ASSUME NEW B \in SUBSET Nat, B # {}
    PROVE  \E n \in B : \A k \in B : n <= k
<1>1. IsWellFoundedOn({ss \in Nat \X Nat : ss[1] < ss[2]}, Nat)
    BY NatLessThanWellFounded DEF OpToRel
<1>2. \E n \in B : \A k \in B : ~(<<k, n>> \in {ss \in Nat \X Nat : ss[1] < ss[2]})
    BY <1>1, WFMin
<1>3. PICK n \in B : \A k \in B : ~(<<k, n>> \in {ss \in Nat \X Nat : ss[1] < ss[2]})
    BY <1>2
<1>4. \A k \in B : n <= k
    <2>1. ASSUME NEW k \in B, k < n PROVE FALSE
        <3>1. <<k, n>> \in {ss \in Nat \X Nat : ss[1] < ss[2]}
            BY <2>1
        <3>2. QED
            BY <3>1, <1>3
    <2>2. QED
        BY <2>1
<1>5. QED
    BY <1>4

LEMMA PickTakes == ASSUME NEW s, s # {} PROVE Pick(s) \in s /\ s \ {Pick(s)} # s
BY DEF Pick

\* It has one value for each set, over whichever larger set it is defined.
LEMMA AddsAlike ==
    ASSUME NEW S, IsFiniteSet(S), NEW f, NEW g, NEW h,
           NEW T \in SUBSET S, NEW U \in SUBSET S, Adds(g, f, T), Adds(h, f, U),
           NEW s \in SUBSET T, s \in SUBSET U
    PROVE  g[s] = h[s]
<1> DEFINE B == {t \in SUBSET (T \cap U) : g[t] # h[t]}
<1> SUFFICES ASSUME B # {} PROVE FALSE
    BY Zenon
<1>0. B \in SUBSET SUBSET S
    OBVIOUS
<1> HIDE DEF B
<1>1. PICK t \in B : \A u \in B : u \subseteq t => u = t
    BY <1>0, MinimalSubset
<1> USE DEF B
<1>2. t # {}
    BY DEF Adds
<1> DEFINE u == t \ {Pick(t)}
<1>3. u \in SUBSET (T \cap U) /\ u \subseteq t /\ u # t
    BY <1>2, PickTakes
<1>4. g[u] = h[u]
    BY <1>1, <1>3
<1>5. g[t] = f[Pick(t)] + g[u] /\ h[t] = f[Pick(t)] + h[u]
    BY <1>2 DEF Adds
<1>6. QED
    BY <1>4, <1>5

\* And there is one: a smallest set without it would get it from its subsets.
LEMMA SumExists ==
    ASSUME NEW S, IsFiniteSet(S), NEW f, NEW T \in SUBSET S
    PROVE  \E g : Adds(g, f, T)
<1> DEFINE B == {U \in SUBSET S : ~\E g : Adds(g, f, U)}
<1> SUFFICES ASSUME B # {} PROVE FALSE
    BY Zenon
<1>1. B \in SUBSET SUBSET S
    OBVIOUS
<1> HIDE DEF B
<1>2. PICK U \in B : \A V \in B : V \subseteq U => V = U
    BY <1>1, MinimalSubset
<1> USE DEF B
<1> DEFINE Part(V) == CHOOSE g : Adds(g, f, V)
           G == [s \in SUBSET U |-> IF s = {} THEN 0
                    ELSE f[Pick(s)] + Part(s \ {Pick(s)})[s \ {Pick(s)}]]
<1>3. \A V \in SUBSET U : V # U => Adds(Part(V), f, V)
    <2> SUFFICES ASSUME NEW V \in SUBSET U, V # U PROVE Adds(Part(V), f, V)
        OBVIOUS
    <2>1. V \in SUBSET S /\ V \notin B
        BY <1>2
    <2>2. \E g : Adds(g, f, V)
        BY <2>1
    <2>3. QED
        BY <2>2
<1> HIDE DEF Part
<1>4. ASSUME NEW s \in SUBSET U, s # {}
      PROVE  G[s] = f[Pick(s)] + G[s \ {Pick(s)}]
    <2> DEFINE u == s \ {Pick(s)}
    <2>1. u \in SUBSET U /\ u # U
        BY <1>4, PickTakes
    <2>2. G[s] = f[Pick(s)] + Part(u)[u]
        BY <1>4
    <2>3. Adds(Part(u), f, u)
        BY <1>3, <2>1
    <2>4. CASE u = {}
        <3>1. Part(u)[u] = 0 /\ G[u] = 0
            BY <2>3, <2>4 DEF Adds
        <3>2. QED
            BY <2>2, <3>1
    <2>5. CASE u # {}
        <3> DEFINE v == u \ {Pick(u)}
        <3>1. v \in SUBSET u /\ v # u /\ v # U
            BY <2>1, <2>5, PickTakes
        <3>2. Part(u)[u] = f[Pick(u)] + Part(u)[v]
            BY <2>3, <2>5 DEF Adds
        <3>3. G[u] = f[Pick(u)] + Part(v)[v]
            BY <2>1, <2>5
        <3>4. Adds(Part(v), f, v)
            BY <1>3, <2>1, <3>1
        <3>5. u \in SUBSET S /\ v \in SUBSET S
            BY <1>2, <2>1, <3>1
        <3> HIDE DEF v
        <3>6. Part(u)[v] = Part(v)[v]
            BY <2>3, <3>1, <3>4, <3>5, AddsAlike
        <3>7. QED
            BY <2>2, <3>2, <3>3, <3>6
    <2>6. QED
        BY <2>4, <2>5
<1>5. Adds(G, f, U)
    BY <1>4 DEF Adds
<1>6. QED
    BY <1>2, <1>5

\* What the recursion computes, one step of it.
LEMMA SumStep ==
    ASSUME NEW T, IsFiniteSet(T), NEW f
    PROVE  SumFunctionOnSet(f, T) =
              IF T = {} THEN 0 ELSE f[Pick(T)] + SumFunctionOnSet(f, T \ {Pick(T)})
<1> DEFINE g == CHOOSE h : Adds(h, f, T)
           U == T \ {Pick(T)}
           h == CHOOSE h : Adds(h, f, U)
<1>1. Adds(g, f, T)
    BY SumExists
<1>2. Adds(h, f, U)
    BY SumExists
<1>3. SumFunctionOnSet(f, T) = g[T] /\ SumFunctionOnSet(f, U) = h[U]
    BY SumUnfolds
<1> HIDE DEF g, h
<1>4. g[T] = IF T = {} THEN 0 ELSE f[Pick(T)] + g[U]
    BY <1>1 DEF Adds
<1>5. g[U] = h[U]
    BY <1>1, <1>2, AddsAlike
<1>6. QED
    BY <1>3, <1>4, <1>5

LEMMA SumOfNone == ASSUME NEW f PROVE SumFunctionOnSet(f, {}) = 0
BY SumStep, FS_EmptySet

LEMMA SumTyped ==
    ASSUME NEW T, IsFiniteSet(T), NEW f, NEW N \in {Nat, Int}, \A x \in T : f[x] \in N
    PROVE  SumFunctionOnSet(f, T) \in N
<1> DEFINE B == {U \in SUBSET T : SumFunctionOnSet(f, U) \notin N}
<1> SUFFICES ASSUME B # {} PROVE FALSE
    BY Zenon
<1>1. B \in SUBSET SUBSET T
    OBVIOUS
<1> HIDE DEF B
<1>2. PICK U \in B : \A V \in B : V \subseteq U => V = U
    BY <1>1, MinimalSubset
<1> USE DEF B
<1>3. U # {}
    BY SumOfNone
<1>4. U \ {Pick(U)} \notin B /\ Pick(U) \in T
    BY <1>2, <1>3, PickTakes
<1>5. SumFunctionOnSet(f, U \ {Pick(U)}) \in N /\ f[Pick(U)] \in N
    BY <1>4
<1>6. IsFiniteSet(U)
    BY FS_Subset
<1>7. SumFunctionOnSet(f, U) = f[Pick(U)] + SumFunctionOnSet(f, U \ {Pick(U)})
    BY <1>3, <1>6, SumStep
<1>8. QED
    BY <1>5, <1>7

LEMMA SumMonotone ==
    ASSUME NEW T, IsFiniteSet(T), NEW f, NEW g,
           \A x \in T : f[x] \in Nat /\ g[x] \in Nat /\ f[x] <= g[x]
    PROVE  SumFunctionOnSet(f, T) <= SumFunctionOnSet(g, T)
<1> DEFINE B == {U \in SUBSET T : ~(SumFunctionOnSet(f, U) <= SumFunctionOnSet(g, U))}
<1> SUFFICES ASSUME B # {} PROVE FALSE
    BY Zenon
<1>1. B \in SUBSET SUBSET T
    OBVIOUS
<1> HIDE DEF B
<1>2. PICK U \in B : \A V \in B : V \subseteq U => V = U
    BY <1>1, MinimalSubset
<1> USE DEF B
<1> DEFINE y == Pick(U)
           V == U \ {y}
<1>3. IsFiniteSet(U) /\ IsFiniteSet(V) /\ U \in SUBSET T
    BY FS_Subset
<1>4. U # {}
    BY SumOfNone
<1>5. y \in T /\ V \notin B /\ V \in SUBSET T
    BY <1>2, <1>4, PickTakes
<1>6. SumFunctionOnSet(f, V) \in Nat /\ SumFunctionOnSet(g, V) \in Nat
    BY <1>3, <1>5, SumTyped
<1>7. /\ SumFunctionOnSet(f, U) = f[y] + SumFunctionOnSet(f, V)
      /\ SumFunctionOnSet(g, U) = g[y] + SumFunctionOnSet(g, V)
    BY <1>3, <1>4, SumStep
<1>8. SumFunctionOnSet(f, V) <= SumFunctionOnSet(g, V)
    BY <1>5
<1>9. f[y] \in Nat /\ g[y] \in Nat /\ f[y] <= g[y]
    BY <1>5
<1> HIDE DEF y, V
<1>10. ~(SumFunctionOnSet(f, U) <= SumFunctionOnSet(g, U))
    OBVIOUS
<1>11. QED
    BY <1>6, <1>7, <1>8, <1>9, <1>10

\* One more element is one more summand, whichever the fold takes first.
LEMMA SumAdd ==
    ASSUME NEW S, IsFiniteSet(S), NEW f, \A x \in S : f[x] \in Int,
           NEW T \in SUBSET S, NEW x \in S \ T
    PROVE  SumFunctionOnSet(f, T \cup {x}) = SumFunctionOnSet(f, T) + f[x]
<1> DEFINE Adds1(U) == \A y \in S \ U :
               SumFunctionOnSet(f, U \cup {y}) = SumFunctionOnSet(f, U) + f[y]
           B == {U \in SUBSET S : ~Adds1(U)}
<1> SUFFICES ASSUME B # {} PROVE FALSE
    BY Zenon
<1>1. B \in SUBSET SUBSET S
    OBVIOUS
<1> HIDE DEF B
<1>2. PICK U \in B : \A V \in B : V \subseteq U => V = U
    BY <1>1, MinimalSubset
<1>3. U \in SUBSET S /\ ~Adds1(U)
    BY <1>2 DEF B
<1>4. PICK y \in S \ U :
          SumFunctionOnSet(f, U \cup {y}) # SumFunctionOnSet(f, U) + f[y]
    BY <1>3
<1> HIDE DEF Adds1
<1>5. PICK W : W = U \cup {y}
    OBVIOUS
<1>6. PICK p : p = Pick(W) /\ p \in W
    BY <1>5, PickTakes
<1>7. W \in SUBSET S /\ IsFiniteSet(W) /\ W # {}
    BY <1>3, <1>4, <1>5, FS_Subset
<1>8. SumFunctionOnSet(f, W) = f[p] + SumFunctionOnSet(f, W \ {p})
    BY <1>6, <1>7, SumStep
<1>9. \A V \in SUBSET S : SumFunctionOnSet(f, V) \in Int
    BY FS_Subset, SumTyped
<1>10. CASE p = y
    <2>1. W \ {p} = U
        BY <1>4, <1>5, <1>10
    <2>2. f[y] \in Int /\ SumFunctionOnSet(f, U) \in Int
        BY <1>3, <1>4, <1>9
    <2>3. SumFunctionOnSet(f, W) = f[y] + SumFunctionOnSet(f, U)
        BY <1>8, <1>10, <2>1
    <2>4. SumFunctionOnSet(f, W) # SumFunctionOnSet(f, U) + f[y]
        BY <1>4, <1>5
    <2>5. QED
        BY <2>2, <2>3, <2>4
<1>11. CASE p # y
    <2>1. PICK V : V = U \ {p}
        OBVIOUS
    <2>2. /\ V \in SUBSET S /\ p \in S \ V /\ y \in S \ V
          /\ V \cup {p} = U /\ W \ {p} = V \cup {y} /\ V # U
        BY <1>3, <1>4, <1>5, <1>6, <1>11, <2>1
    <2>3. V \notin B
        BY <1>2, <2>1, <2>2
    <2>4. Adds1(V)
        BY <2>2, <2>3 DEF B
    <2>5. /\ SumFunctionOnSet(f, U) = SumFunctionOnSet(f, V) + f[p]
          /\ SumFunctionOnSet(f, W \ {p}) = SumFunctionOnSet(f, V) + f[y]
        BY <2>2, <2>4 DEF Adds1
    <2>6. SumFunctionOnSet(f, V) \in Int /\ f[p] \in Int /\ f[y] \in Int
        BY <1>9, <2>2
    <2>7. SumFunctionOnSet(f, W) # SumFunctionOnSet(f, U) + f[y]
        BY <1>4, <1>5
    <2>8. QED
        BY <1>8, <2>5, <2>6, <2>7
<1>12. QED
    BY <1>10, <1>11

\* The sum over two sets that share no element.
LEMMA SumUnion ==
    ASSUME NEW S, IsFiniteSet(S), NEW f, \A x \in S : f[x] \in Int,
           NEW T \in SUBSET S, NEW U \in SUBSET S, T \cap U = {}
    PROVE  SumFunctionOnSet(f, T \cup U) = SumFunctionOnSet(f, T) + SumFunctionOnSet(f, U)
<1> DEFINE B == {V \in SUBSET U : SumFunctionOnSet(f, T \cup V)
                                   # SumFunctionOnSet(f, T) + SumFunctionOnSet(f, V)}
<1> SUFFICES ASSUME B # {} PROVE FALSE
    BY Zenon
<1>1. B \in SUBSET SUBSET U /\ IsFiniteSet(U)
    BY FS_Subset
<1> HIDE DEF B
<1>2. PICK V \in B : \A W \in B : W \subseteq V => W = V
    BY <1>1, MinimalSubset
<1>3. /\ V \in SUBSET U
      /\ SumFunctionOnSet(f, T \cup V) # SumFunctionOnSet(f, T) + SumFunctionOnSet(f, V)
    BY <1>2 DEF B
<1>4. \A W \in SUBSET S : SumFunctionOnSet(f, W) \in Int
    BY FS_Subset, SumTyped
<1>5. CASE V = {}
    <2>1. SumFunctionOnSet(f, V) = 0 /\ SumFunctionOnSet(f, T) \in Int
        BY <1>4, <1>5, SumOfNone
    <2>2. PICK W : W = T \cup V
        OBVIOUS
    <2>3. W = T
        BY <1>5, <2>2
    <2>4. SumFunctionOnSet(f, W) # SumFunctionOnSet(f, T) + SumFunctionOnSet(f, V)
        BY <1>3, <2>2
    <2>5. QED
        BY <2>1, <2>3, <2>4
<1>6. CASE V # {}
    <2>1. PICK x : x \in V
        BY <1>6
    <2>2. PICK W : W = V \ {x}
        OBVIOUS
    <2>3. /\ W \in SUBSET U /\ W # V /\ W \subseteq V
          /\ W \in SUBSET S /\ T \cup W \in SUBSET S
          /\ x \in S \ W /\ x \in S \ (T \cup W)
          /\ W \cup {x} = V /\ (T \cup W) \cup {x} = T \cup V
        BY <1>3, <2>1, <2>2
    <2>4. SumFunctionOnSet(f, T \cup W) = SumFunctionOnSet(f, T) + SumFunctionOnSet(f, W)
        BY <1>2, <2>3 DEF B
    <2>5. SumFunctionOnSet(f, V) = SumFunctionOnSet(f, W) + f[x]
        <3>1. SumFunctionOnSet(f, W \cup {x}) = SumFunctionOnSet(f, W) + f[x]
            BY <2>3, SumAdd
        <3>2. QED
            BY <2>3, <3>1
    <2>6. SumFunctionOnSet(f, T \cup V) = SumFunctionOnSet(f, T \cup W) + f[x]
        <3>1. PICK A : A = T \cup W
            OBVIOUS
        <3>2. A \in SUBSET S /\ x \in S \ A
            BY <2>3, <3>1
        <3>3. SumFunctionOnSet(f, A \cup {x}) = SumFunctionOnSet(f, A) + f[x]
            BY <3>2, SumAdd
        <3>4. QED
            BY <2>3, <3>1, <3>3
    <2>7. /\ SumFunctionOnSet(f, T) \in Int /\ SumFunctionOnSet(f, W) \in Int
          /\ f[x] \in Int
        BY <1>4, <2>3
    <2>8. QED
        BY <1>3, <2>4, <2>5, <2>6, <2>7
<1>7. QED
    BY <1>5, <1>6

\* The same summands under other names have the same sum.
LEMMA SumRenamed ==
    ASSUME NEW S, IsFiniteSet(S), NEW f, \A x \in S : f[x] \in Int,
           NEW name, \A x, y \in S : name[x] = name[y] => x = y,
           NEW g, \A x \in S : g[name[x]] = f[x]
    PROVE  /\ IsFiniteSet({name[x] : x \in S})
           /\ SumFunctionOnSet(g, {name[x] : x \in S}) = SumFunctionOnSet(f, S)
<1> DEFINE Named(U) == {name[x] : x \in U}
<1>1. \A U \in SUBSET S : IsFiniteSet(Named(U))
    <2>1. ASSUME NEW U \in SUBSET S PROVE IsFiniteSet(Named(U))
        <3>1. PICK h : h = [x \in U |-> name[x]]
            OBVIOUS
        <3>2. h \in Surjection(U, Named(U))
            BY <3>1 DEF Surjection
        <3>3. QED
            BY <3>2, FS_Subset, FS_Surjection
    <2>2. QED
        BY <2>1
<1>2. \A z \in Named(S) : g[z] \in Int
    OBVIOUS
<1>3. PICK B : B = {U \in SUBSET S : SumFunctionOnSet(g, Named(U)) # SumFunctionOnSet(f, U)}
    OBVIOUS
<1>4. B = {}
    <2>1. SUFFICES ASSUME B # {} PROVE FALSE
        OBVIOUS
    <2>2. B \in SUBSET SUBSET S
        BY <1>3
    <2> HIDE DEF Named
    <2>2a. PICK U \in B : \A V \in B : V \subseteq U => V = U
        BY <2>1, <2>2, MinimalSubset
    <2>3. U \in SUBSET S /\ SumFunctionOnSet(g, Named(U)) # SumFunctionOnSet(f, U)
        BY <1>3, <2>2a
    <2>4. CASE U = {}
        <3>1. Named(U) = {}
            BY <2>4 DEF Named
        <3>2. SumFunctionOnSet(g, Named(U)) = 0 /\ SumFunctionOnSet(f, U) = 0
            BY <2>4, <3>1, SumOfNone
        <3>3. QED
            BY <2>3, <3>2
    <2>5. CASE U # {}
        <3>1. PICK x : x \in U
            BY <2>5
        <3>2. PICK V : V = U \ {x}
            OBVIOUS
        <3>3. /\ V \in SUBSET S /\ V # U /\ V \subseteq U
              /\ x \in S \ V /\ V \cup {x} = U
            BY <2>3, <3>1, <3>2
        <3>4. SumFunctionOnSet(g, Named(V)) = SumFunctionOnSet(f, V)
            BY <1>3, <2>2a, <3>3
        <3>5. SumFunctionOnSet(f, U) = SumFunctionOnSet(f, V) + f[x]
            <4>1. SumFunctionOnSet(f, V \cup {x}) = SumFunctionOnSet(f, V) + f[x]
                BY <3>3, SumAdd
            <4>2. QED
                BY <3>3, <4>1
        <3>6. /\ Named(V) \in SUBSET Named(S) /\ name[x] \in Named(S) \ Named(V)
              /\ Named(V) \cup {name[x]} = Named(U)
            BY <3>3 DEF Named
        <3>7. SumFunctionOnSet(g, Named(U)) = SumFunctionOnSet(g, Named(V)) + g[name[x]]
            <4>1. PICK M, N, y : M = Named(S) /\ N = Named(V) /\ y = name[x]
                OBVIOUS
            <4>2. /\ IsFiniteSet(M) /\ (\A z \in M : g[z] \in Int)
                  /\ N \in SUBSET M /\ y \in M \ N
                BY <1>1, <1>2, <3>6, <4>1
            <4>3. SumFunctionOnSet(g, N \cup {y}) = SumFunctionOnSet(g, N) + g[y]
                BY <4>2, SumAdd
            <4>4. QED
                BY <3>6, <4>1, <4>3
        <3>8. g[name[x]] = f[x]
            BY <3>3
        <3>9. QED
            BY <2>3, <3>4, <3>5, <3>7, <3>8
    <2>6. QED
        BY <2>4, <2>5
<1>5. QED
    BY <1>1, <1>3, <1>4
=============================================================================
