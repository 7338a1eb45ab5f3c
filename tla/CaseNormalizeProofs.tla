------------------------- MODULE CaseNormalizeProofs -------------------------
(***************************************************************************)
(* Proofs about CaseNormalize, for inputs of any size and shape, shared,   *)
(* cyclic or neither, and any limits: the walk with its stack, its set of  *)
(* active containers and its two counters accepts exactly the values that  *)
(* unfold to a finite tree within the limits, and returns that tree.       *)
(*                                                                         *)
(* The two recursions of the model, the levels of the tree and the sum of  *)
(* string sizes, are handled by least counterexamples: a set of numbers    *)
(* for which a statement fails has a least element, if it has any.         *)
(***************************************************************************)
EXTENDS CaseNormalize, SequenceTheorems, FiniteSetTheorems, WellFoundedInduction, TLAPS

-----------------------------------------------------------------------------
(***************************************************************************)
(* Least counterexamples and sums                                          *)
(***************************************************************************)
\* A set of numbers has a least element.
LEMMA LeastNumber ==
  ASSUME NEW T \in SUBSET Nat, T # {}
  PROVE  \E least \in T : \A n \in T : least <= n
  <1>1. PICK least \in T : \A n \in T : ~(<<n, least>> \in OpToRel(<, Nat))
    BY NatLessThanWellFounded, WFMin
  <1>2. \A n \in T : ~(n < least)
    BY <1>1 DEF OpToRel
  <1>3. QED BY <1>2

\* What SumFunctionOnSet sums over, in the order of CHOOSE.
Picked(s) == CHOOSE x \in s : TRUE

Small(S, n) == {t \in SUBSET S : Cardinality(t) <= n}

\* A function that sums w over each set in D.
Sums(g, w, D) ==
    /\ g = [s \in D |-> g[s]]
    /\ \A s \in D : g[s] = IF s = {} THEN 0 ELSE w[Picked(s)] + g[s \ {Picked(s)}]

\* A function that sums w over each subset of S.
SumsWithin(g, w, S) == Sums(g, w, SUBSET S)

Agree(f, g, S) == \A s \in SUBSET S : f[s] = g[s]

\* SumFunctionOnSet takes such a function for the subsets.
LEMMA SumIsChosen ==
  ASSUME NEW w, NEW S
  PROVE  SumFunctionOnSet(w, S) = (CHOOSE g : SumsWithin(g, w, S))[S]
  <1>1. SumFunctionOnSet(w, S) =
           (CHOOSE g : g = [s \in SUBSET S |->
               IF s = {} THEN 0 ELSE w[Picked(s)] + g[s \ {Picked(s)}]])[S]
    BY DEF SumFunctionOnSet, FoldFunctionOnSet, MapThenFoldSet, Picked
  <1>2. \A g : g = [s \in SUBSET S |->
                     IF s = {} THEN 0 ELSE w[Picked(s)] + g[s \ {Picked(s)}]]
                <=> SumsWithin(g, w, S)
    BY DEF Sums, SumsWithin
  <1>3. QED BY <1>1, <1>2

\* What is left of a set without its picked element is smaller.
LEMMA WithoutPicked ==
  ASSUME NEW s, IsFiniteSet(s), s # {}
  PROVE  /\ Picked(s) \in s /\ IsFiniteSet(s \ {Picked(s)})
         /\ Cardinality(s) \in Nat /\ Cardinality(s \ {Picked(s)}) \in Nat
         /\ Cardinality(s \ {Picked(s)}) = Cardinality(s) - 1
  <1>1. Picked(s) \in s
    BY DEF Picked
  <1>2. QED BY <1>1, FS_RemoveElement, FS_CardinalityType

\* There is such a function for the subsets of a finite set.
LEMMA SumsExist ==
  ASSUME NEW S, IsFiniteSet(S), NEW w
  PROVE  \E g : SumsWithin(g, w, S)
  <1> DEFINE Lacking == {n \in Nat : ~\E g : Sums(g, w, Small(S, n))}
  <1>1. \A s \in SUBSET S : IsFiniteSet(s) /\ Cardinality(s) \in Nat
    BY FS_Subset, FS_CardinalityType
  <1>2. ASSUME Lacking # {} PROVE FALSE
    <2>1. PICK n \in Lacking : \A m \in Lacking : n <= m
      BY <1>2, LeastNumber
    <2>2. CASE n = 0
      <3>1. \A s \in Small(S, 0) : s = {}
        BY <1>1, FS_EmptySet DEF Small
      <3>2. Sums([s \in Small(S, 0) |-> 0], w, Small(S, 0))
        BY <3>1 DEF Sums
      <3>3. QED BY <2>2, <3>2
    <2>3. CASE n # 0
      <3>1. n - 1 \in Nat /\ n - 1 \notin Lacking
        BY <2>1, <2>3
      <3>2. PICK f : Sums(f, w, Small(S, n - 1))
        BY <3>1
      <3> DEFINE g == [s \in Small(S, n) |->
                         IF s \in Small(S, n - 1) THEN f[s]
                         ELSE w[Picked(s)] + f[s \ {Picked(s)}]]
      <3>3. ASSUME NEW s \in Small(S, n), s # {}
            PROVE  s \ {Picked(s)} \in Small(S, n - 1) /\ s \ {Picked(s)} \in Small(S, n)
        <4>1. s \in SUBSET S /\ Cardinality(s) <= n /\ IsFiniteSet(s)
          BY <1>1 DEF Small
        <4>2. /\ Cardinality(s) \in Nat
              /\ Cardinality(s \ {Picked(s)}) = Cardinality(s) - 1
          BY <3>3, <4>1, WithoutPicked
        <4>3. Cardinality(s) - 1 <= n - 1 /\ Cardinality(s) - 1 <= n
          BY <3>1, <4>1, <4>2
        <4>4. QED BY <4>1, <4>2, <4>3 DEF Small
      <3>4. {} \in Small(S, n - 1)
        BY <3>1, FS_EmptySet DEF Small
      <3>5. ASSUME NEW s \in Small(S, n)
            PROVE  g[s] = IF s = {} THEN 0 ELSE w[Picked(s)] + g[s \ {Picked(s)}]
        <4>1. CASE s = {}
          <5>1. f[s] = 0
            BY <3>2, <3>4, <4>1 DEF Sums
          <5>2. QED BY <3>4, <4>1, <5>1
        <4>2. CASE s # {} /\ s \in Small(S, n - 1)
          <5>1. g[s \ {Picked(s)}] = f[s \ {Picked(s)}]
            BY <3>3, <4>2
          <5>2. f[s] = w[Picked(s)] + f[s \ {Picked(s)}]
            BY <3>2, <4>2 DEF Sums
          <5>3. QED BY <4>2, <5>1, <5>2
        <4>3. CASE s # {} /\ s \notin Small(S, n - 1)
          <5>1. g[s \ {Picked(s)}] = f[s \ {Picked(s)}]
            BY <3>3, <4>3
          <5>2. QED BY <4>3, <5>1
        <4>4. QED BY <4>1, <4>2, <4>3
      <3>6. g = [s \in Small(S, n) |-> g[s]]
        OBVIOUS
      <3> HIDE DEF g
      <3>7. Sums(g, w, Small(S, n))
        BY <3>5, <3>6 DEF Sums
      <3>8. QED BY <3>7
    <2>4. QED BY <2>2, <2>3
  <1>3. Cardinality(S) \in Nat /\ Small(S, Cardinality(S)) = SUBSET S
    <2>1. \A s \in SUBSET S : Cardinality(s) <= Cardinality(S)
      BY FS_Subset
    <2>2. QED BY <2>1, FS_CardinalityType DEF Small
  <1>4. QED BY <1>2, <1>3 DEF SumsWithin

\* Two such functions agree on what both sum.
LEMMA SumsAgree ==
  ASSUME NEW S, IsFiniteSet(S), NEW T, T \subseteq S, NEW w,
         NEW f, SumsWithin(f, w, S), NEW g, SumsWithin(g, w, T)
  PROVE  Agree(f, g, T)
  <1> DEFINE Differing == {s \in SUBSET T : f[s] # g[s]}
             Counts == {n \in Nat : \E s \in Differing : Cardinality(s) = n}
  <1>1. \A s \in SUBSET T : s \in SUBSET S /\ IsFiniteSet(s) /\ Cardinality(s) \in Nat
    BY FS_Subset, FS_CardinalityType
  <1>2. ASSUME NEW u \in Differing PROVE FALSE
    <2>1. Counts # {}
      BY <1>1
    <2>2. PICK n \in Counts : \A m \in Counts : n <= m
      BY <2>1, LeastNumber
    <2>3. PICK s \in Differing : Cardinality(s) = n
      OBVIOUS
    <2>4. s # {}
      BY <1>1 DEF Sums, SumsWithin
    <2> DEFINE t == s \ {Picked(s)}
    <2>5. t \in SUBSET T /\ Cardinality(t) \in Nat /\ Cardinality(t) = n - 1
      BY <1>1, <2>3, <2>4, WithoutPicked
    <2>6. f[t] = g[t]
      <3>1. n \in Nat /\ ~(n <= n - 1)
        OBVIOUS
      <3>2. Cardinality(t) \notin Counts
        BY <2>2, <2>5, <3>1
      <3>3. QED BY <2>5, <3>2
    <2>7. f[s] = w[Picked(s)] + f[t] /\ g[s] = w[Picked(s)] + g[t]
      BY <1>1, <2>4 DEF Sums, SumsWithin
    <2>8. QED BY <2>6, <2>7
  <1>3. QED BY <1>2 DEF Agree

\* The equation of the sum over a finite set.
LEMMA SumEquation ==
  ASSUME NEW S, IsFiniteSet(S), NEW w
  PROVE  SumFunctionOnSet(w, S) =
            IF S = {} THEN 0
            ELSE w[Picked(S)] + SumFunctionOnSet(w, S \ {Picked(S)})
  <1>1. PICK f : f = CHOOSE g : SumsWithin(g, w, S)
    OBVIOUS
  <1>2. SumsWithin(f, w, S) /\ SumFunctionOnSet(w, S) = f[S]
    BY <1>1, SumsExist, SumIsChosen
  <1>3. CASE S = {}
    BY <1>2, <1>3 DEF Sums, SumsWithin
  <1>4. CASE S # {}
    <2>1. PICK T : T = S \ {Picked(S)}
      OBVIOUS
    <2>2. T \subseteq S /\ IsFiniteSet(T)
      BY <2>1, FS_Subset
    <2>3. PICK g : g = CHOOSE h : SumsWithin(h, w, T)
      OBVIOUS
    <2>4. SumsWithin(g, w, T) /\ SumFunctionOnSet(w, T) = g[T]
      BY <2>2, <2>3, SumsExist, SumIsChosen
    <2>5. f[T] = g[T]
      <3>1. Agree(f, g, T)
        BY <1>2, <2>2, <2>4, SumsAgree
      <3>2. QED BY <3>1 DEF Agree
    <2>6. f[S] = w[Picked(S)] + f[T]
      BY <1>2, <1>4, <2>1 DEF Sums, SumsWithin
    <2>7. QED BY <1>2, <1>4, <2>1, <2>4, <2>5, <2>6
  <1>5. QED BY <1>3, <1>4

\* Among subsets of a finite set there is one of least size.
LEMMA LeastSubset ==
  ASSUME NEW S, IsFiniteSet(S), NEW B \in SUBSET (SUBSET S), B # {}
  PROVE  \E s \in B : \A t \in B : ~(Cardinality(t) < Cardinality(s))
  <1> DEFINE Counts == {n \in Nat : \E s \in B : Cardinality(s) = n}
  <1>1. \A s \in B : Cardinality(s) \in Nat
    BY FS_Subset, FS_CardinalityType
  <1>2. Counts \in SUBSET Nat /\ Counts # {}
    BY <1>1
  <1>3. PICK n \in Counts : \A m \in Counts : n <= m
    BY <1>2, LeastNumber
  <1>4. PICK s \in B : Cardinality(s) = n
    OBVIOUS
  <1>5. \A t \in B : n <= Cardinality(t)
    BY <1>1, <1>3
  <1>6. \A t \in B : ~(Cardinality(t) < Cardinality(s))
    BY <1>1, <1>4, <1>5
  <1>7. QED BY <1>6

\* A subset without one of its elements is a smaller subset.
LEMMA Without ==
  ASSUME NEW S, IsFiniteSet(S), NEW s \in SUBSET S, NEW x \in s
  PROVE  s \ {x} \in SUBSET S /\ Cardinality(s \ {x}) < Cardinality(s)
  <1>1. IsFiniteSet(s) /\ Cardinality(s) \in Nat
    BY FS_Subset, FS_CardinalityType
  <1>2. Cardinality(s \ {x}) = Cardinality(s) - 1
    BY <1>1, FS_RemoveElement
  <1>3. QED BY <1>1, <1>2

\* A sum of natural numbers is a natural number.
LEMMA SumNatural ==
  ASSUME NEW S, IsFiniteSet(S), NEW w, \A x \in S : w[x] \in Nat, NEW T, T \subseteq S
  PROVE  SumFunctionOnSet(w, T) \in Nat
  <1> DEFINE B == {s \in SUBSET S : SumFunctionOnSet(w, s) \notin Nat}
  <1>1. ASSUME B # {} PROVE FALSE
    <2>1. B \in SUBSET (SUBSET S)
      OBVIOUS
    <2>2. PICK s \in B : \A t \in B : ~(Cardinality(t) < Cardinality(s))
      BY <1>1, <2>1, LeastSubset
    <2>3. IsFiniteSet(s) /\ s \in SUBSET S
      BY FS_Subset
    <2>4. s # {} /\ SumFunctionOnSet(w, s) = w[Picked(s)] + SumFunctionOnSet(w, s \ {Picked(s)})
      <3>1. SumFunctionOnSet(w, s) = IF s = {} THEN 0
                                     ELSE w[Picked(s)] + SumFunctionOnSet(w, s \ {Picked(s)})
        BY <2>3, SumEquation
      <3>2. QED BY <3>1
    <2>5. Picked(s) \in s
      BY <2>3, <2>4, WithoutPicked
    <2>6. s \ {Picked(s)} \in SUBSET S /\ s \ {Picked(s)} \notin B
      BY <2>2, <2>3, <2>5, Without
    <2>7. QED BY <2>4, <2>5, <2>6
  <1>2. QED BY <1>1

\* Each element adds what it weighs, whichever is picked first.
LEMMA SumWithout ==
  ASSUME NEW S, IsFiniteSet(S), NEW w, \A x \in S : w[x] \in Nat, NEW T, T \subseteq S, NEW x \in T
  PROVE  SumFunctionOnSet(w, T) = w[x] + SumFunctionOnSet(w, T \ {x})
  <1> DEFINE total(s) == SumFunctionOnSet(w, s)
             B == {s \in SUBSET S : \E y \in s : total(s) # w[y] + total(s \ {y})}
  <1>1. \A s \in SUBSET S : total(s) \in Nat
    BY SumNatural
  <1>2. \A s \in SUBSET S : s # {} =>
           Picked(s) \in s /\ total(s) = w[Picked(s)] + total(s \ {Picked(s)})
    <2> SUFFICES ASSUME NEW s \in SUBSET S, s # {}
                 PROVE  Picked(s) \in s /\ total(s) = w[Picked(s)] + total(s \ {Picked(s)})
      OBVIOUS
    <2>1. IsFiniteSet(s)
      BY FS_Subset
    <2>2. total(s) = IF s = {} THEN 0 ELSE w[Picked(s)] + total(s \ {Picked(s)})
      BY <2>1, SumEquation
    <2>3. QED BY <2>1, <2>2, WithoutPicked
  <1> HIDE DEF total
  <1>3. ASSUME B # {} PROVE FALSE
    <2>1. B \in SUBSET (SUBSET S)
      OBVIOUS
    <2>2. PICK s \in B : \A t \in B : ~(Cardinality(t) < Cardinality(s))
      BY <1>3, <2>1, LeastSubset
    <2>3. PICK y \in s : total(s) # w[y] + total(s \ {y})
      OBVIOUS
    <2>4. PICK c : c = Picked(s)
      OBVIOUS
    <2>5. s \in SUBSET S /\ c \in s /\ total(s) = w[c] + total(s \ {c})
      BY <1>2, <2>4
    <2>6. y # c
      BY <2>3, <2>5
    <2>7. /\ s \ {c} \in SUBSET S /\ s \ {c} \notin B
          /\ s \ {y} \in SUBSET S /\ s \ {y} \notin B
      BY <2>2, <2>5, Without
    <2>8. total(s \ {c}) = w[y] + total((s \ {c}) \ {y})
      BY <2>6, <2>7
    <2>9. total(s \ {y}) = w[c] + total((s \ {y}) \ {c})
      BY <2>5, <2>6, <2>7
    <2>10. PICK rest \in SUBSET S : rest = (s \ {c}) \ {y} /\ rest = (s \ {y}) \ {c}
      <3>1. (s \ {c}) \ {y} = (s \ {y}) \ {c} /\ (s \ {c}) \ {y} \in SUBSET S
        BY <2>5
      <3>2. QED BY <3>1
    <2>11. total(rest) \in Nat /\ w[c] \in Nat /\ w[y] \in Nat
      BY <1>1, <2>5
    <2>12. /\ total(s) = w[c] + (w[y] + total(rest))
           /\ w[y] + total(s \ {y}) = w[y] + (w[c] + total(rest))
      BY <2>5, <2>8, <2>9, <2>10
    <2>13. QED BY <2>3, <2>11, <2>12
  <1>4. T \in SUBSET S /\ T \notin B
    BY <1>3
  <1>5. total(T) = w[x] + total(T \ {x})
    BY <1>4
  <1>6. QED BY <1>5 DEF total

\* More elements weigh no less.
LEMMA SumMonotonic ==
  ASSUME NEW S, IsFiniteSet(S), NEW w, \A x \in S : w[x] \in Nat, NEW T, T \subseteq S
  PROVE  SumFunctionOnSet(w, T) <= SumFunctionOnSet(w, S)
  <1> DEFINE total(s) == SumFunctionOnSet(w, s)
             B == {s \in SUBSET S : T \subseteq s /\ ~(total(T) <= total(s))}
  <1>1. \A s \in SUBSET S : total(s) \in Nat
    BY SumNatural
  <1>2. \A s \in SUBSET S : \A x \in s : total(s) = w[x] + total(s \ {x})
    <2> SUFFICES ASSUME NEW s \in SUBSET S, NEW x \in s
                 PROVE  total(s) = w[x] + total(s \ {x})
      OBVIOUS
    <2>1. s \subseteq S
      OBVIOUS
    <2>2. QED BY <2>1, SumWithout
  <1> HIDE DEF total
  <1>3. ASSUME B # {} PROVE FALSE
    <2>1. B \in SUBSET (SUBSET S)
      OBVIOUS
    <2> HIDE DEF B
    <2>2. PICK s \in B : \A t \in B : ~(Cardinality(t) < Cardinality(s))
      BY <1>3, <2>1, LeastSubset
    <2> USE DEF B
    <2>3. s # T /\ T \subseteq s
      BY <1>1
    <2>4. PICK x \in s : x \notin T
      BY <2>3
    <2>5. s \in SUBSET S /\ s \ {x} \in SUBSET S /\ s \ {x} \notin B
      BY <2>2, Without
    <2>6. total(T) <= total(s \ {x})
      BY <2>3, <2>4, <2>5
    <2>7. total(s) = w[x] + total(s \ {x}) /\ w[x] \in Nat
      BY <1>2, <2>5
    <2>8. total(T) \in Nat /\ total(s \ {x}) \in Nat
      BY <1>1, <2>5
    <2>9. total(T) <= total(s)
      BY <2>6, <2>7, <2>8
    <2>10. QED BY <2>9
  <1>4. S \in SUBSET S /\ S \notin B
    BY <1>3
  <1>5. total(T) <= total(S)
    BY <1>4
  <1>6. QED BY <1>5 DEF total

-----------------------------------------------------------------------------
(***************************************************************************)
(* The tree                                                                *)
(***************************************************************************)
\* f lists the first levels of the tree, down to k.
Unfolds(f, k) ==
    /\ f = [n \in 0..k |-> f[n]]
    /\ \A n \in 0..k : f[n] = IF n = 0 THEN {<<<<>>, root>>} ELSE Below(f[n - 1])

\* The levels are what their recursive definition says.
LEMMA LevelsUnfold ==
  Unfolds(Level, MaxNestingDepth + 1)
  <1> DEFINE Lacking == {k \in Nat : ~\E f : Unfolds(f, k)}
  <1>1. ASSUME Lacking # {} PROVE FALSE
    <2>1. PICK k \in Lacking : \A m \in Lacking : k <= m
      BY <1>1, LeastNumber
    <2>2. CASE k = 0
      <3>1. Unfolds([n \in 0..0 |-> {<<<<>>, root>>}], 0)
        BY DEF Unfolds
      <3>2. QED BY <2>2, <3>1
    <2>3. CASE k # 0
      <3>1. k - 1 \in Nat /\ k - 1 \notin Lacking
        BY <2>1, <2>3
      <3>2. PICK f : Unfolds(f, k - 1)
        BY <3>1
      <3> DEFINE g == [n \in 0..k |-> IF n = k THEN Below(f[k - 1]) ELSE f[n]]
      <3>3. ASSUME NEW n \in 0..k
            PROVE  g[n] = IF n = 0 THEN {<<<<>>, root>>} ELSE Below(g[n - 1])
        <4>1. CASE n = k
          <5>1. k - 1 \in 0..k /\ k - 1 # k /\ n # 0
            BY <2>3, <4>1
          <5>2. g[k - 1] = f[k - 1]
            BY <5>1
          <5>3. QED BY <4>1, <5>1, <5>2
        <4>2. CASE n # k /\ n = 0
          <5>1. g[n] = f[n] /\ n \in 0..k - 1
            BY <3>1, <4>2
          <5>2. f[n] = {<<<<>>, root>>}
            BY <3>2, <4>2, <5>1 DEF Unfolds
          <5>3. QED BY <4>2, <5>1, <5>2
        <4>3. CASE n # k /\ n # 0
          <5>1. n \in 0..k - 1 /\ n - 1 \in 0..k /\ n - 1 # k
            BY <4>3
          <5>2. g[n] = f[n] /\ g[n - 1] = f[n - 1]
            BY <4>3, <5>1
          <5>3. f[n] = Below(f[n - 1])
            BY <3>2, <4>3, <5>1 DEF Unfolds
          <5>4. QED BY <4>3, <5>2, <5>3
        <4>4. QED BY <4>1, <4>2, <4>3
      <3>4. g = [n \in 0..k |-> g[n]]
        OBVIOUS
      <3> HIDE DEF g
      <3>5. Unfolds(g, k)
        BY <3>3, <3>4 DEF Unfolds
      <3>6. QED BY <3>5
    <2>4. QED BY <2>2, <2>3
  <1>2. MaxNestingDepth + 1 \in Nat
    BY LimitsAssumption
  <1>3. \E f : Unfolds(f, MaxNestingDepth + 1)
    BY <1>1, <1>2
  <1>4. \A f : Unfolds(f, MaxNestingDepth + 1) <=>
             f = [n \in 0..MaxNestingDepth + 1 |->
                    IF n = 0 THEN {<<<<>>, root>>} ELSE Below(f[n - 1])]
    BY DEF Unfolds
  <1>5. QED BY <1>3, <1>4 DEF Level

\* The levels one by one.
LEMMA LevelEquation ==
  /\ Level[0] = {<<<<>>, root>>}
  /\ \A n \in 0..MaxNestingDepth : Level[n + 1] = Below(Level[n])
  <1>1. \A n \in 0..MaxNestingDepth :
           n + 1 \in 0..MaxNestingDepth + 1 /\ n + 1 # 0 /\ (n + 1) - 1 = n
    BY LimitsAssumption
  <1>2. 0 \in 0..MaxNestingDepth + 1
    BY LimitsAssumption
  <1>3. QED BY <1>1, <1>2, LevelsUnfold DEF Unfolds

\* The shape every input has.
Value == DOMAIN heap \cup Scalar

Key == UNION {{heap[c].keys[i] : i \in Entries(c)} : c \in DOMAIN heap}

WellShaped ==
    /\ caller \in Caller
    /\ root \in DOMAIN heap /\ DOMAIN heap \subseteq Container
    /\ \A c \in DOMAIN heap : WellFormed(heap[c], DOMAIN heap)

\* A value is a container the heap describes or a scalar, and not both.
LEMMA Values ==
  ASSUME WellShaped, NEW v \in Value
  PROVE  /\ v \in Container <=> v \in DOMAIN heap
         /\ v \in Scalar <=> v \notin Container
  BY InputsAssumption DEF WellShaped, Value

\* The entries of a container.
LEMMA EntriesAre ==
  ASSUME WellShaped, NEW c \in DOMAIN heap
  PROVE  /\ Len(Items(c)) \in Nat /\ Entries(c) = 1..Len(Items(c))
         /\ DOMAIN Items(c) = Entries(c)
         /\ \A i \in Entries(c) : heap[c].values[i] \in Value /\ heap[c].keys[i] \in Key
         /\ \A i, j \in Entries(c) : heap[c].keys[i] = heap[c].keys[j] => i = j
  <1>1. WellFormed(heap[c], DOMAIN heap)
    BY DEF WellShaped
  <1>2. heap[c].values \in Seq(Value)
    BY <1>1 DEF WellFormed, Value
  <1>3. /\ Len(heap[c].values) \in Nat /\ DOMAIN heap[c].values = 1..Len(heap[c].values)
        /\ \A i \in 1..Len(heap[c].values) : heap[c].values[i] \in Value
    BY <1>2, ElementOfSeq, LenProperties
  <1>4. \A i \in Entries(c) : heap[c].keys[i] \in Key
    BY DEF Key
  <1>5. QED BY <1>1, <1>3, <1>4 DEF WellFormed, Entries, Items

\* What stands n levels below the root: a path of n keys, and a value.
IsNode(m, n) ==
    /\ m = <<m[1], m[2]>>
    /\ m[1] \in Seq(Key) /\ Len(m[1]) = n
    /\ m[2] \in Value

ChildOf(m, node) ==
    \E i \in Entries(node[2]) :
        m = <<Append(node[1], heap[node[2]].keys[i]), heap[node[2]].values[i]>>

LEMMA MembersAre ==
  ASSUME WellShaped, NEW n \in Nat, NEW node, IsNode(node, n), node[2] \in Container
  PROVE  /\ node[2] \in DOMAIN heap
         /\ \A m : m \in Members(node) <=> ChildOf(m, node)
         /\ \A m \in Members(node) :
               IsNode(m, n + 1) /\ \E k \in Key : m[1] = Append(node[1], k)
  <1>1. node[2] \in DOMAIN heap
    BY Values DEF IsNode
  <1>2. \A m : m \in Members(node) <=> ChildOf(m, node)
    BY DEF Members, ChildOf
  <1>3. SUFFICES ASSUME NEW m, ChildOf(m, node)
                 PROVE  IsNode(m, n + 1) /\ \E k \in Key : m[1] = Append(node[1], k)
    BY <1>1, <1>2
  <1>4. PICK i \in Entries(node[2]) :
           m = <<Append(node[1], heap[node[2]].keys[i]), heap[node[2]].values[i]>>
    BY <1>3 DEF ChildOf
  <1>5. PICK k : k = heap[node[2]].keys[i]
    OBVIOUS
  <1>6. PICK v : v = heap[node[2]].values[i]
    OBVIOUS
  <1>7. k \in Key /\ v \in Value
    BY <1>1, <1>4, <1>5, <1>6, EntriesAre
  <1>8. m = <<Append(node[1], k), v>> /\ m[1] = Append(node[1], k) /\ m[2] = v
    BY <1>4, <1>5, <1>6
  <1>9. Append(node[1], k) \in Seq(Key) /\ Len(Append(node[1], k)) = n + 1
    BY <1>7, AppendProperties DEF IsNode
  <1>10. QED BY <1>7, <1>8, <1>9 DEF IsNode

\* Appending a key to a path loses nothing.
LEMMA AppendedApart ==
  ASSUME NEW p \in Seq(Key), NEW q \in Seq(Key), NEW k \in Key, NEW l \in Key,
         Append(p, k) = Append(q, l)
  PROVE  p = q /\ k = l
  <1>1. /\ Len(Append(p, k)) = Len(p) + 1 /\ Append(p, k)[Len(p) + 1] = k
        /\ Len(Append(q, l)) = Len(q) + 1 /\ Append(q, l)[Len(q) + 1] = l
        /\ \A i \in 1..Len(p) : Append(p, k)[i] = p[i]
        /\ \A i \in 1..Len(q) : Append(q, l)[i] = q[i]
        /\ Len(p) \in Nat /\ Len(q) \in Nat
    BY AppendProperties, LenProperties
  <1>2. Len(p) = Len(q)
    BY <1>1
  <1>3. \A i \in 1..Len(p) : p[i] = q[i]
    BY <1>1, <1>2
  <1>4. p = q
    BY <1>2, <1>3, SeqEqual
  <1>5. QED BY <1>1, <1>2, <1>4

\* Members have different paths, and there are as many as there are entries.
LEMMA MembersApart ==
  ASSUME WellShaped, NEW n \in Nat, NEW node, IsNode(node, n), node[2] \in Container
  PROVE  /\ \A m, o \in Members(node) : m[1] = o[1] => m = o
         /\ IsFiniteSet(Members(node))
         /\ Cardinality(Members(node)) = Len(Items(node[2]))
  <1> DEFINE c == node[2]
             entry(i) == <<Append(node[1], heap[c].keys[i]), heap[c].values[i]>>
             f == [i \in Entries(c) |-> entry(i)]
  <1>1. /\ c \in DOMAIN heap
        /\ Len(Items(c)) \in Nat /\ Entries(c) = 1..Len(Items(c))
        /\ \A i \in Entries(c) : heap[c].keys[i] \in Key
        /\ \A i, j \in Entries(c) : heap[c].keys[i] = heap[c].keys[j] => i = j
    BY EntriesAre, MembersAre
  <1>2. \A m : m \in Members(node) <=> \E i \in Entries(c) : m = entry(i)
    BY MembersAre DEF ChildOf
  <1>3. ASSUME NEW i \in Entries(c), NEW j \in Entries(c), entry(i)[1] = entry(j)[1]
        PROVE  i = j
    <2>1. Append(node[1], heap[c].keys[i]) = Append(node[1], heap[c].keys[j])
      BY <1>3
    <2>2. heap[c].keys[i] = heap[c].keys[j]
      BY <1>1, <2>1, AppendedApart DEF IsNode
    <2>3. QED BY <1>1, <2>2
  <1>4. \A m, o \in Members(node) : m[1] = o[1] => m = o
    BY <1>2, <1>3
  <1>5. f \in Surjection(Entries(c), Members(node)) /\ f \in Injection(Entries(c), Members(node))
    <2>1. \A i, j \in Entries(c) : entry(i) = entry(j) => i = j
      BY <1>3
    <2> HIDE DEF entry
    <2>2. f \in [Entries(c) -> Members(node)]
      BY <1>2
    <2>3. \A i \in Entries(c) : f[i] = entry(i)
      OBVIOUS
    <2> HIDE DEF f, c
    <2>4. f \in Surjection(Entries(c), Members(node))
      BY <1>2, <2>2, <2>3 DEF Surjection
    <2>5. f \in Injection(Entries(c), Members(node))
      BY <2>1, <2>2, <2>3 DEF Injection, IsInjective
    <2>6. QED BY <2>4, <2>5
  <1>6. IsFiniteSet(Entries(c)) /\ Cardinality(Entries(c)) = Len(Items(c))
    <2> DEFINE k == Len(Items(c))
    <2>1. k \in Nat /\ Entries(c) = 1..k
      BY <1>1
    <2> HIDE DEF k
    <2>2. 1 \in Int /\ k \in Int
      BY <2>1
    <2>3. IsFiniteSet(1..k) /\ Cardinality(1..k) = IF 1 > k THEN 0 ELSE k - 1 + 1
      BY <2>2, FS_Interval, Zenon
    <2>4. Cardinality(1..k) = k
      BY <2>1, <2>3
    <2>5. QED BY <2>1, <2>3, <2>4 DEF k
  <1> HIDE DEF f
  <1>7. IsFiniteSet(Members(node)) /\ Cardinality(Members(node)) = Cardinality(Entries(c))
    BY <1>5, <1>6, FS_Surjection
  <1>8. QED BY <1>4, <1>6, <1>7

\* A level has finitely many nodes of its depth, each with its own path.
Proper(n) ==
    /\ \A m \in Level[n] : IsNode(m, n)
    /\ \A m, o \in Level[n] : m[1] = o[1] => m = o
    /\ IsFiniteSet(Level[n])

Inner(n) == {m \in Level[n] : m[2] \in Container}

\* Level by level: a node is a member of one above it.
LEMMA NextLevel ==
  ASSUME NEW n \in 0..MaxNestingDepth
  PROVE  \A m : m \in Level[n + 1] <=> \E node \in Inner(n) : m \in Members(node)
  <1>1. Level[n + 1] = UNION {Members(node) : node \in Inner(n)}
    BY LevelEquation DEF Below, Inner
  <1>2. QED BY <1>1

LEMMA LevelsAreProper ==
  ASSUME WellShaped
  PROVE  \A n \in 0..MaxNestingDepth + 1 : Proper(n)
  <1> DEFINE Bad == {n \in Nat : n <= MaxNestingDepth + 1 /\ ~Proper(n)}
  <1>1. MaxNestingDepth \in Nat
    BY LimitsAssumption
  <1>2. Proper(0)
    <2>1. Level[0] = {<<<<>>, root>>}
      BY LevelEquation
    <2>2. IsNode(<<<<>>, root>>, 0)
      BY EmptySeq DEF IsNode, WellShaped, Value
    <2>3. IsFiniteSet({<<<<>>, root>>})
      BY FS_Singleton
    <2>4. QED BY <2>1, <2>2, <2>3 DEF Proper
  <1>3. ASSUME NEW n \in 0..MaxNestingDepth, Proper(n)
        PROVE  Proper(n + 1)
    <2>1. n \in Nat /\ \A node \in Inner(n) : IsNode(node, n) /\ node[2] \in Container
      BY <1>1, <1>3 DEF Proper, Inner
    <2>2. \A m : m \in Level[n + 1] <=> \E node \in Inner(n) : m \in Members(node)
      BY NextLevel
    <2>3. \A m \in Level[n + 1] : IsNode(m, n + 1)
      BY <2>1, <2>2, MembersAre
    <2>4. ASSUME NEW m \in Level[n + 1], NEW o \in Level[n + 1], m[1] = o[1]
          PROVE  m = o
      <3>1. PICK a \in Inner(n) : m \in Members(a)
        BY <2>2
      <3>2. PICK b \in Inner(n) : o \in Members(b)
        BY <2>2
      <3>3. /\ \E k \in Key : m[1] = Append(a[1], k)
            /\ \E l \in Key : o[1] = Append(b[1], l)
        BY <2>1, <3>1, <3>2, MembersAre
      <3> PICK k \in Key : m[1] = Append(a[1], k)
        BY <3>3
      <3> PICK l \in Key : o[1] = Append(b[1], l)
        BY <3>3
      <3>4. a[1] \in Seq(Key) /\ b[1] \in Seq(Key)
        BY <2>1 DEF IsNode
      <3>5. a[1] = b[1]
        <4>1. Append(a[1], k) = Append(b[1], l)
          BY <2>4
        <4>2. QED BY <3>4, <4>1, AppendedApart
      <3>6. a = b
        BY <1>3, <3>5 DEF Proper, Inner
      <3>7. QED BY <2>1, <2>4, <3>1, <3>2, <3>6, MembersApart
    <2>5. IsFiniteSet(Level[n + 1])
      <3> DEFINE MembersOf == {Members(node) : node \in Inner(n)}
                 f == [node \in Inner(n) |-> Members(node)]
      <3>1. IsFiniteSet(Inner(n))
        BY <1>3, FS_Subset DEF Proper, Inner
      <3>2. f \in Surjection(Inner(n), MembersOf)
        BY DEF Surjection
      <3> HIDE DEF f
      <3>3. \A T \in MembersOf : IsFiniteSet(T)
        BY <2>1, MembersApart
      <3>4. Level[n + 1] = UNION MembersOf
        BY LevelEquation DEF Below, Inner
      <3> HIDE DEF MembersOf
      <3>5. IsFiniteSet(MembersOf)
        BY <3>1, <3>2, FS_Surjection
      <3>6. QED BY <3>3, <3>4, <3>5, FS_UNION
    <2>6. QED BY <2>3, <2>4, <2>5 DEF Proper
  <1>4. ASSUME Bad # {} PROVE FALSE
    <2>1. PICK n \in Bad : \A m \in Bad : n <= m
      BY <1>4, LeastNumber
    <2>2. n # 0
      BY <1>2
    <2>3. n - 1 \in 0..MaxNestingDepth /\ n - 1 \notin Bad /\ (n - 1) + 1 = n
      BY <1>1, <2>1, <2>2
    <2>4. Proper(n - 1)
      BY <1>1, <2>3
    <2>5. Proper((n - 1) + 1)
      BY <1>3, <2>3, <2>4
    <2>6. QED BY <2>3, <2>5
  <1>5. QED BY <1>1, <1>4

-----------------------------------------------------------------------------
(***************************************************************************)
(* The inductive invariant.                                                *)
(*                                                                         *)
(* The tasks on the stack are nodes of the tree.  The returns among them,  *)
(* from the top down, lead up to the root, and what stands above a return  *)
(* is below it in the tree.  What has been visited is part of the tree,    *)
(* no node of it twice, and its members have been visited or are waiting   *)
(* on the stack.                                                           *)
(***************************************************************************)
Task == [op : {"visit", "leave"}, value : Value, path : Seq(Key), trim : BOOLEAN]

NodeOf(task) == <<task.path, task.value>>

Leaves == {i \in DOMAIN stack : stack[i].op = "leave"}

Pending == {i \in DOMAIN stack : stack[i].op = "visit"}

TaskIsRight(task) ==
    /\ Len(task.path) <= MaxNestingDepth + 1
    /\ NodeOf(task) \in Level[Len(task.path)]
    /\ task.trim = Trimmed(task.path)
    /\ task.op = "leave" => task.value \in Container /\ Len(task.path) <= MaxNestingDepth

TasksAreRight ==
    /\ stack \in Seq(Task)
    /\ \A i \in DOMAIN stack : TaskIsRight(stack[i])

StackIsNested ==
    /\ \A i \in DOMAIN stack, j \in Leaves :
          i < j => Len(stack[j].path) < Len(stack[i].path)
    /\ \A i, j \in Leaves : stack[i].value = stack[j].value => i = j
    /\ \A i \in DOMAIN stack : stack[i].path # <<>> =>
          \E j \in Leaves : i < j /\ NodeOf(stack[i]) \in Members(NodeOf(stack[j]))
    /\ active = {stack[i].value : i \in Leaves}

Visited == {node \in Unfolding : node[1] \in Paths}

PendingIsNew ==
    /\ \A i \in Pending : stack[i].path \notin Paths
    /\ \A i, j \in Pending : stack[i].path = stack[j].path => i = j
    /\ \A i \in Leaves : stack[i].path \in Paths

\* What each node of the tree costs of the string budget.
Cost == [node \in Unfolding |-> StringBytes(node[2])]

VisitedIsCounted ==
    /\ output = {FormOf(node) : node \in Visited}
    /\ nodeCount = Cardinality(Visited) /\ nodeCount <= MaxCanonicalNodes
    /\ stringByteCount = SumFunctionOnSet(Cost, Visited)
    /\ stringByteCount <= MaxTotalStringBytes
    /\ \A node \in Visited : ~Unsupported(node[2]) /\ ~BadStrings(node[2])
    /\ \A node \in Visited : node[1] # <<>> =>
          \E above \in Visited : above[2] \in Container /\ node \in Members(above)

Reached(path) == path \in Paths \/ \E i \in Pending : stack[i].path = path

NothingIsLost ==
    phase = "walk" =>
        /\ Valid
        /\ Reached(<<>>)
        /\ \A node \in Visited : node[2] \in Container =>
              \A m \in Members(node) : Reached(m[1])

VerdictIsRight ==
    /\ phase \in {"validate", "walk", "accepted", "rejected"}
    /\ phase # "walk" => stack = <<>>
    /\ phase = "validate" => output = {}
    /\ phase = "accepted" => Valid /\ Bounded /\ output = CanonicalForm
    /\ phase = "rejected" => ~(Valid /\ Bounded)

CInv ==
    /\ WellShaped
    /\ TasksAreRight
    /\ StackIsNested
    /\ PendingIsNew
    /\ VisitedIsCounted
    /\ NothingIsLost
    /\ VerdictIsRight

-----------------------------------------------------------------------------
(***************************************************************************)
(* Facts about the tree                                                    *)
(***************************************************************************)
\* The tree is finite, and a path leads to one node of it.
LEMMA TreeIsApart ==
  ASSUME WellShaped
  PROVE  /\ IsFiniteSet(Unfolding)
         /\ \A node \in Unfolding :
               /\ Len(node[1]) \in 0..MaxNestingDepth
               /\ node \in Level[Len(node[1])]
               /\ IsNode(node, Len(node[1]))
         /\ \A n \in 0..MaxNestingDepth : Level[n] \subseteq Unfolding
         /\ \A m, o \in Unfolding : m[1] = o[1] => m = o
  <1>1. MaxNestingDepth \in Nat
    BY LimitsAssumption
  <1>2. \A n \in 0..MaxNestingDepth : Proper(n)
    BY <1>1, LevelsAreProper
  <1>3. \A m : m \in Unfolding <=> \E n \in 0..MaxNestingDepth : m \in Level[n]
    BY DEF Unfolding
  <1>4. ASSUME NEW node \in Unfolding
        PROVE  /\ Len(node[1]) \in 0..MaxNestingDepth
               /\ node \in Level[Len(node[1])] /\ IsNode(node, Len(node[1]))
    <2>1. PICK n \in 0..MaxNestingDepth : node \in Level[n]
      BY <1>3
    <2>2. IsNode(node, n) /\ Len(node[1]) = n
      BY <1>2, <2>1 DEF Proper, IsNode
    <2>3. QED BY <2>1, <2>2
  <1>5. \A m, o \in Unfolding : m[1] = o[1] => m = o
    BY <1>2, <1>4 DEF Proper
  <1>6. IsFiniteSet(Unfolding)
    <2> DEFINE Levels == {Level[n] : n \in 0..MaxNestingDepth}
               f == [n \in 0..MaxNestingDepth |-> Level[n]]
    <2>1. IsFiniteSet(0..MaxNestingDepth)
      <3>1. 0 \in Int /\ MaxNestingDepth \in Int
        BY <1>1
      <3>2. QED BY <3>1, FS_Interval, Zenon
    <2>2. f \in Surjection(0..MaxNestingDepth, Levels)
      BY DEF Surjection
    <2> HIDE DEF f
    <2>3. \A T \in Levels : IsFiniteSet(T)
      BY <1>2 DEF Proper
    <2>4. Unfolding = UNION Levels
      BY DEF Unfolding
    <2> HIDE DEF Levels
    <2>5. IsFiniteSet(Levels)
      BY <2>1, <2>2, FS_Surjection
    <2>6. QED BY <2>3, <2>4, <2>5, FS_UNION
  <1>7. \A n \in 0..MaxNestingDepth : Level[n] \subseteq Unfolding
    BY <1>3
  <1>8. QED BY <1>4, <1>5, <1>6, <1>7

\* A node below a path is trimmed if the path is and the key does not end it.
LEMMA TrimmedBelow ==
  /\ Trimmed(<<>>) <=> caller = "case"
  /\ \A p \in Seq(Key), k \in Key :
        Trimmed(Append(p, k)) <=> Trimmed(p) /\ k # "allowed_parameters"
  <1>1. Trimmed(<<>>) <=> caller = "case"
    BY DEF Trimmed
  <1>2. ASSUME NEW p \in Seq(Key), NEW k \in Key
        PROVE  Trimmed(Append(p, k)) <=> Trimmed(p) /\ k # "allowed_parameters"
    <2>1. /\ Len(p) \in Nat /\ DOMAIN p = 1..Len(p)
          /\ DOMAIN Append(p, k) = 1..Len(p) + 1
          /\ Append(p, k)[Len(p) + 1] = k
          /\ \A i \in 1..Len(p) : Append(p, k)[i] = p[i]
      BY AppendProperties, LenProperties
    <2>2. \A i : i \in 1..Len(p) + 1 <=> i \in 1..Len(p) \/ i = Len(p) + 1
      BY <2>1
    <2>3. QED BY <2>1, <2>2 DEF Trimmed
  <1>3. QED BY <1>1, <1>2

\* The sum of a function over its domain.
LEMMA SumOverDomain ==
  ASSUME NEW f
  PROVE  SumFunction(f) = SumFunctionOnSet(f, DOMAIN f)
  BY DEF SumFunction, SumFunctionOnSet, FoldFunction

\* Each node costs a natural number of bytes.
LEMMA CostsAreNatural ==
  ASSUME WellShaped
  PROVE  \A node \in Unfolding : Cost[node] = StringBytes(node[2]) /\ Cost[node] \in Nat
  <1> SUFFICES ASSUME NEW node \in Unfolding
               PROVE  StringBytes(node[2]) \in Nat
    BY DEF Cost
  <1>1. PICK v \in Value : v = node[2]
    BY TreeIsApart DEF IsNode
  <1>2. CASE v \in Scalar
    BY <1>1, <1>2, LimitsAssumption DEF StringBytes
  <1>3. CASE v \notin Scalar /\ heap[v].kind # "map"
    BY <1>1, <1>3 DEF StringBytes
  <1>4. CASE v \notin Scalar /\ heap[v].kind = "map"
    <2>1. v \in DOMAIN heap
      BY <1>1, <1>4 DEF Value
    <2> DEFINE w == [i \in StringKeys(v) |-> KeyBytes[heap[v].keys[i]]]
    <2>2. IsFiniteSet(StringKeys(v))
      <3>1. Len(Items(v)) \in Nat /\ Entries(v) = 1..Len(Items(v))
        BY <2>1, EntriesAre
      <3>2. IsFiniteSet(1..Len(Items(v)))
        <4> DEFINE k == Len(Items(v))
        <4>1. k \in Nat
          BY <3>1
        <4> HIDE DEF k
        <4>2. 1 \in Int /\ k \in Int
          BY <4>1
        <4>3. IsFiniteSet(1..k)
          BY <4>2, FS_Interval, Zenon
        <4>4. QED BY <4>3 DEF k
      <3>3. StringKeys(v) \in SUBSET (1..Len(Items(v)))
        BY <3>1 DEF StringKeys
      <3>4. QED BY <3>2, <3>3, FS_Subset
    <2>3. \A i \in StringKeys(v) : w[i] \in Nat
      BY LimitsAssumption DEF StringKeys
    <2>4. SumFunction(w) = SumFunctionOnSet(w, StringKeys(v))
      BY SumOverDomain
    <2>5. StringBytes(v) = SumFunction(w)
      BY <1>4 DEF StringBytes
    <2> HIDE DEF w
    <2>6. StringKeys(v) \subseteq StringKeys(v)
      OBVIOUS
    <2>7. SumFunctionOnSet(w, StringKeys(v)) \in Nat
      BY <2>2, <2>3, <2>6, SumNatural
    <2>8. QED BY <1>1, <2>4, <2>5, <2>7
  <1>5. QED BY <1>2, <1>3, <1>4

\* One more node is one more node, and costs what it costs.
LEMMA OneMore ==
  ASSUME WellShaped, NEW V, V \subseteq Unfolding, NEW node \in Unfolding, node \notin V
  PROVE  /\ Cardinality(V) \in Nat /\ Cardinality(V \cup {node}) = Cardinality(V) + 1
         /\ SumFunctionOnSet(Cost, V) \in Nat
         /\ SumFunctionOnSet(Cost, V \cup {node}) =
               SumFunctionOnSet(Cost, V) + StringBytes(node[2])
  <1>1. IsFiniteSet(Unfolding) /\ \A x \in Unfolding : Cost[x] \in Nat
    BY TreeIsApart, CostsAreNatural
  <1>2. IsFiniteSet(V) /\ Cardinality(V) \in Nat
    BY <1>1, FS_Subset, FS_CardinalityType
  <1>3. Cardinality(V \cup {node}) = Cardinality(V) + 1
    BY <1>2, FS_AddElement
  <1>4. SumFunctionOnSet(Cost, V) \in Nat
    BY <1>1, SumNatural
  <1> DEFINE W == V \cup {node}
  <1>5. W \subseteq Unfolding /\ node \in W /\ W \ {node} = V
    OBVIOUS
  <1> HIDE DEF W
  <1>6. SumFunctionOnSet(Cost, W) = Cost[node] + SumFunctionOnSet(Cost, W \ {node})
    BY <1>1, <1>5, SumWithout
  <1>7. Cost[node] = StringBytes(node[2]) /\ Cost[node] \in Nat
    BY CostsAreNatural
  <1>8. SumFunctionOnSet(Cost, W) = SumFunctionOnSet(Cost, V) + StringBytes(node[2])
    BY <1>4, <1>5, <1>6, <1>7
  <1>9. QED BY <1>2, <1>3, <1>4, <1>8 DEF W

\* A part of the tree has no more nodes than the tree, and costs no more.
LEMMA PartsAreSmaller ==
  ASSUME WellShaped, NEW V, V \subseteq Unfolding
  PROVE  /\ Cardinality(V) \in Nat /\ Cardinality(Unfolding) \in Nat
         /\ Cardinality(V) <= Cardinality(Unfolding)
         /\ SumFunctionOnSet(Cost, V) \in Nat
         /\ SumFunction([node \in Unfolding |-> StringBytes(node[2])]) =
               SumFunctionOnSet(Cost, Unfolding)
         /\ SumFunctionOnSet(Cost, Unfolding) \in Nat
         /\ SumFunctionOnSet(Cost, V) <= SumFunctionOnSet(Cost, Unfolding)
  <1>1. IsFiniteSet(Unfolding) /\ \A x \in Unfolding : Cost[x] \in Nat
    BY TreeIsApart, CostsAreNatural
  <1>2. /\ Cardinality(V) \in Nat /\ Cardinality(Unfolding) \in Nat
        /\ Cardinality(V) <= Cardinality(Unfolding)
    BY <1>1, FS_Subset, FS_CardinalityType
  <1>3. Unfolding \subseteq Unfolding
    OBVIOUS
  <1>4. SumFunctionOnSet(Cost, V) \in Nat /\ SumFunctionOnSet(Cost, Unfolding) \in Nat
    BY <1>1, <1>3, SumNatural
  <1>5. SumFunctionOnSet(Cost, V) <= SumFunctionOnSet(Cost, Unfolding)
    BY <1>1, SumMonotonic
  <1>6. Cost = [node \in Unfolding |-> StringBytes(node[2])] /\ DOMAIN Cost = Unfolding
    BY DEF Cost
  <1>7. SumFunction(Cost) = SumFunctionOnSet(Cost, Unfolding)
    BY <1>6, SumOverDomain
  <1>8. QED BY <1>2, <1>4, <1>5, <1>6, <1>7

-----------------------------------------------------------------------------
(***************************************************************************)
(* The task on top of the stack                                            *)
(***************************************************************************)
LEMMA TopIsRight ==
  ASSUME TasksAreRight, stack # <<>>
  PROVE  /\ Len(stack) \in Nat /\ Len(stack) >= 1 /\ DOMAIN stack = 1..Len(stack)
         /\ 1 \in DOMAIN stack /\ Head(stack) = stack[1]
         /\ Head(stack) \in Task /\ TaskIsRight(Head(stack))
         /\ Len(Head(stack).path) \in Nat
         /\ Tail(stack) \in Seq(Task)
         /\ Len(Tail(stack)) = Len(stack) - 1
         /\ \A i \in 1..Len(Tail(stack)) : Tail(stack)[i] = stack[i + 1]
  <1>1. stack \in Seq(Task)
    BY DEF TasksAreRight
  <1>2. Len(stack) \in Nat /\ DOMAIN stack = 1..Len(stack) /\ Len(stack) # 0
    BY <1>1, EmptySeq, LenProperties
  <1>3. Head(stack) = stack[1] /\ 1 \in DOMAIN stack
    BY <1>1, <1>2
  <1>4. /\ Head(stack) \in Task /\ Tail(stack) \in Seq(Task)
        /\ Len(Tail(stack)) = Len(stack) - 1
        /\ \A i \in 1..Len(Tail(stack)) : Tail(stack)[i] = stack[i + 1]
    BY <1>1, HeadTailProperties
  <1>5. TaskIsRight(Head(stack))
    BY <1>3 DEF TasksAreRight
  <1>6. Len(Head(stack).path) \in Nat
    BY <1>4, LenProperties DEF Task
  <1>7. QED BY <1>2, <1>3, <1>4, <1>5, <1>6

\* A visit that is not too deep is to a node of the tree that is still missing.
LEMMA VisitIsNew ==
  ASSUME CInv, stack # <<>>, Head(stack).op = "visit", ~TooDeep(Head(stack))
  PROVE  /\ NodeOf(Head(stack)) \in Unfolding /\ NodeOf(Head(stack)) \notin Visited
         /\ Head(stack).path \notin Paths
  <1>1. MaxNestingDepth \in Nat
    BY LimitsAssumption
  <1>2. /\ Len(Head(stack).path) \in 0..MaxNestingDepth
        /\ NodeOf(Head(stack)) \in Level[Len(Head(stack).path)]
    BY <1>1, TopIsRight DEF CInv, TaskIsRight, TooDeep
  <1>3. NodeOf(Head(stack)) \in Unfolding
    BY <1>2, TreeIsApart DEF CInv
  <1>4. Head(stack).path \notin Paths
    BY TopIsRight DEF CInv, PendingIsNew, Pending
  <1>5. QED BY <1>3, <1>4 DEF Visited, NodeOf

\* The returns on the stack lead from the top up to the root, without a gap.
LEMMA ReturnsLeadUp ==
  ASSUME CInv, stack # <<>>, NEW d \in Nat, d < Len(Head(stack).path)
  PROVE  \E j \in Leaves : Len(stack[j].path) = d
  <1> DEFINE Top == Len(Head(stack).path)
             Gaps == {e \in Nat : /\ e < Top
                                  /\ ~\E j \in Leaves : Len(stack[j].path) = Top - 1 - e}
  <1>1. Top \in Nat /\ Head(stack) = stack[1] /\ 1 \in DOMAIN stack
    BY TopIsRight DEF CInv
  <1>2. ASSUME NEW i \in DOMAIN stack, Len(stack[i].path) # 0
        PROVE  \E j \in Leaves : Len(stack[i].path) = Len(stack[j].path) + 1
    <2>1. \A k \in DOMAIN stack :
             /\ stack[k] \in Task /\ TaskIsRight(stack[k])
             /\ stack[k].path \in Seq(Key) /\ Len(stack[k].path) \in Nat
      <3>1. \A k \in DOMAIN stack : stack[k] \in Task
        BY ElementOfSeq, LenProperties DEF CInv, TasksAreRight
      <3>2. QED BY <3>1, LenProperties DEF CInv, TasksAreRight, Task
    <2>2. stack[i].path # <<>>
      BY <1>2, EmptySeq
    <2>3. PICK j \in Leaves : NodeOf(stack[i]) \in Members(NodeOf(stack[j]))
      BY <2>2 DEF CInv, StackIsNested
    <2>4. j \in DOMAIN stack /\ stack[j].op = "leave"
      BY DEF Leaves
    <2>5. IsNode(NodeOf(stack[j]), Len(stack[j].path)) /\ NodeOf(stack[j])[2] \in Container
      BY <2>1, <2>4 DEF IsNode, NodeOf, Task, TaskIsRight
    <2>6. IsNode(NodeOf(stack[i]), Len(stack[j].path) + 1)
      BY <2>1, <2>3, <2>4, <2>5, MembersAre DEF CInv
    <2>7. QED BY <2>6 DEF IsNode, NodeOf
  <1>3. ASSUME Gaps # {} PROVE FALSE
    <2>1. PICK e \in Gaps : \A o \in Gaps : e <= o
      BY <1>3, LeastNumber
    <2>2. CASE e = 0
      <3>1. Len(stack[1].path) # 0
        BY <1>1, <2>1
      <3>2. PICK j \in Leaves : Len(stack[1].path) = Len(stack[j].path) + 1
        BY <1>1, <1>2, <3>1
      <3>3. j \in DOMAIN stack /\ Len(stack[j].path) \in Nat
        BY ElementOfSeq, LenProperties DEF CInv, TasksAreRight, Task, Leaves
      <3>4. Len(stack[j].path) = Top - 1 - e
        BY <1>1, <2>2, <3>2, <3>3
      <3>5. QED BY <3>4
    <2>3. CASE e # 0
      <3>1. e - 1 \in Nat /\ e - 1 \notin Gaps /\ e - 1 < Top
        BY <1>1, <2>1, <2>3
      <3>2. PICK i \in Leaves : Len(stack[i].path) = Top - 1 - (e - 1)
        BY <3>1
      <3>3. Len(stack[i].path) # 0 /\ i \in DOMAIN stack
        BY <1>1, <3>2 DEF Leaves
      <3>4. PICK j \in Leaves : Len(stack[i].path) = Len(stack[j].path) + 1
        BY <1>2, <3>3
      <3>5. j \in DOMAIN stack /\ Len(stack[j].path) \in Nat
        BY ElementOfSeq, LenProperties DEF CInv, TasksAreRight, Task, Leaves
      <3>6. Len(stack[j].path) = Top - 1 - e
        <4> DEFINE a == Len(stack[i].path)
                   b == Len(stack[j].path)
        <4>1. a = Top - 1 - (e - 1) /\ a = b + 1 /\ b \in Nat /\ Top \in Nat /\ e \in Nat
          BY <1>1, <3>2, <3>4, <3>5
        <4> HIDE DEF a, b, Top
        <4>2. b = Top - 1 - e
          BY <4>1
        <4>3. QED BY <4>2 DEF b
      <3>7. QED BY <3>6
    <2>4. QED BY <2>2, <2>3
  <1>4. Top - 1 - d \in Nat /\ Top - 1 - d < Top /\ Top - 1 - (Top - 1 - d) = d
    BY <1>1
  <1>5. QED BY <1>3, <1>4

\* If a container holds itself, however deep, the tree has no last level.
LEMMA CyclesHaveNoEnd ==
  ASSUME CInv, stack # <<>>, Head(stack).op = "visit", Head(stack).value \in active
  PROVE  Level[MaxNestingDepth + 1] # {}
  <1>1. MaxNestingDepth \in Nat
    BY LimitsAssumption
  <1>2. PICK j \in Leaves : stack[j].value = Head(stack).value
    BY DEF CInv, StackIsNested
  <1> DEFINE Top == Len(Head(stack).path)
             Start == Len(stack[j].path)
             Ring == {i \in Leaves : Len(stack[i].path) >= Start}
             OnRing(v) == \E i \in Ring : stack[i].value = v
  <1>3. /\ Top \in Nat /\ Head(stack) = stack[1] /\ 1 \in DOMAIN stack
        /\ DOMAIN stack = 1..Len(stack) /\ Len(stack) \in Nat
    BY TopIsRight DEF CInv
  <1>4. \A k \in DOMAIN stack :
           /\ stack[k] \in Task /\ TaskIsRight(stack[k])
           /\ Len(stack[k].path) \in Nat
    <2>1. \A k \in DOMAIN stack : stack[k] \in Task
      BY ElementOfSeq, LenProperties DEF CInv, TasksAreRight
    <2>2. QED BY <2>1, LenProperties DEF CInv, TasksAreRight, Task
  <1>5. \A i \in Leaves : /\ i \in DOMAIN stack /\ stack[i].op = "leave"
                          /\ Len(stack[i].path) \in Nat /\ Len(stack[i].path) < Top
    <2> SUFFICES ASSUME NEW i \in Leaves
                 PROVE  Len(stack[i].path) < Top
      BY <1>4 DEF Leaves
    <2>1. i \in DOMAIN stack /\ i # 1 /\ 1 < i
      BY <1>3 DEF Leaves
    <2>2. QED BY <1>3, <2>1 DEF CInv, StackIsNested
  <1>6. \A i \in Leaves : /\ IsNode(NodeOf(stack[i]), Len(stack[i].path))
                          /\ NodeOf(stack[i])[2] = stack[i].value
                          /\ stack[i].value \in Container
    BY <1>4, <1>5 DEF IsNode, NodeOf, Task, TaskIsRight
  <1>7. \A i, k \in Leaves : Len(stack[i].path) = Len(stack[k].path) => i = k
    <2>1. \A i, k \in Leaves : i < k => Len(stack[k].path) < Len(stack[i].path)
      BY DEF CInv, StackIsNested, Leaves
    <2>2. \A i, k \in Leaves : i \in Nat /\ k \in Nat
      BY <1>3 DEF Leaves
    <2>3. QED BY <1>5, <2>1, <2>2
  <1>8. ASSUME NEW i \in Ring, NEW node, IsNode(node, Len(node[1])), node[2] = stack[i].value
        PROVE  \E m \in Members(node) : OnRing(m[2])
    <2> DEFINE e == Len(stack[i].path)
    <2>1. i \in Leaves /\ e \in Nat /\ e < Top /\ Start <= e /\ Start \in Nat
      BY <1>2, <1>5
    <2>2. \E k \in DOMAIN stack : /\ Len(stack[k].path) = e + 1
                                  /\ OnRing(stack[k].value)
      <3>1. CASE e + 1 = Top
        BY <1>2, <1>3, <1>5, <3>1
      <3>2. CASE e + 1 # Top
        <4>1. e + 1 \in Nat /\ e + 1 < Top
          BY <1>3, <2>1, <3>2
        <4>2. PICK k \in Leaves : Len(stack[k].path) = e + 1
          BY <4>1, ReturnsLeadUp
        <4>3. k \in Ring /\ k \in DOMAIN stack
          BY <1>5, <2>1, <4>2
        <4>4. QED BY <4>2, <4>3
      <3>3. QED BY <3>1, <3>2
    <2>3. PICK k \in DOMAIN stack : Len(stack[k].path) = e + 1 /\ OnRing(stack[k].value)
      BY <2>2
    <2>4. stack[k].path # <<>>
      BY <2>1, <2>3, EmptySeq
    <2>5. PICK up \in Leaves : NodeOf(stack[k]) \in Members(NodeOf(stack[up]))
      BY <2>4 DEF CInv, StackIsNested
    <2>6. IsNode(NodeOf(stack[k]), Len(stack[up].path) + 1)
      BY <1>5, <1>6, <2>5, MembersAre DEF CInv
    <2>7. Len(stack[up].path) = e
      <3> DEFINE b == Len(stack[up].path)
      <3>1. b + 1 = e + 1 /\ b \in Nat
        BY <1>5, <2>3, <2>6 DEF IsNode, NodeOf
      <3> HIDE DEF b, e
      <3>2. b = e
        BY <2>1, <3>1
      <3>3. QED BY <3>2 DEF b
    <2>8. up = i
      BY <1>7, <2>1, <2>7
    <2>9. PICK x \in Entries(stack[i].value) :
             NodeOf(stack[k]) = <<Append(stack[i].path, heap[stack[i].value].keys[x]),
                                  heap[stack[i].value].values[x]>>
      BY <2>5, <2>8 DEF Members, NodeOf
    <2>10. stack[k].value = heap[stack[i].value].values[x]
      BY <2>9 DEF NodeOf
    <2>11. <<Append(node[1], heap[node[2]].keys[x]), heap[node[2]].values[x]>> \in Members(node)
      BY <1>8, <2>9 DEF Members
    <2>12. QED BY <1>8, <2>3, <2>10, <2>11
  <1> DEFINE Free == {e \in Nat : /\ e <= MaxNestingDepth + 1 /\ Start <= e
                                  /\ ~\E node \in Level[e] : OnRing(node[2])}
  <1>9. ASSUME Free # {} PROVE FALSE
    <2>1. PICK e \in Free : \A o \in Free : e <= o
      BY <1>9, LeastNumber
    <2>2. Start \in Nat /\ Start <= MaxNestingDepth
      BY <1>4, <1>5 DEF TaskIsRight
    <2>3. CASE e = Start
      <3>1. NodeOf(stack[j]) \in Level[Start]
        BY <1>4, <1>5 DEF TaskIsRight
      <3>2. j \in Ring
        BY <1>5
      <3>3. NodeOf(stack[j])[2] = stack[j].value
        BY <1>6
      <3>4. OnRing(NodeOf(stack[j])[2])
        BY <3>2, <3>3
      <3>5. QED BY <2>3, <3>1, <3>4
    <2>4. CASE e # Start
      <3>1. e - 1 \in 0..MaxNestingDepth /\ e - 1 \notin Free /\ Start <= e - 1
            /\ (e - 1) + 1 = e
        BY <1>1, <2>1, <2>2, <2>4
      <3>2. PICK node \in Level[e - 1] : OnRing(node[2])
        BY <1>1, <3>1
      <3>3. IsNode(node, Len(node[1]))
        BY <1>1, <3>1, LevelsAreProper DEF CInv, Proper, IsNode
      <3>4. PICK i \in Ring : stack[i].value = node[2]
        BY <3>2
      <3>5. PICK m \in Members(node) : OnRing(m[2])
        BY <1>8, <3>3, <3>4
      <3>6. node \in Inner(e - 1)
        BY <1>6, <3>4 DEF Inner
      <3>7. m \in Level[(e - 1) + 1]
        BY <3>1, <3>5, <3>6, NextLevel
      <3>8. m \in Level[e]
        BY <3>1, <3>7
      <3>9. QED BY <3>5, <3>8
    <2>5. QED BY <2>3, <2>4
  <1>10. MaxNestingDepth + 1 \in Nat /\ Start <= MaxNestingDepth + 1
    <2>1. Start \in Nat /\ Start <= MaxNestingDepth
      BY <1>4, <1>5 DEF TaskIsRight
    <2>2. QED BY <1>1, <2>1
  <1>11. QED BY <1>9, <1>10

-----------------------------------------------------------------------------
(***************************************************************************)
(* The two verdicts                                                        *)
(***************************************************************************)
\* What _canonicalize raises at is outside the limits, and in no other tree.
LEMMA RefusedIsUnbounded ==
  ASSUME CInv, phase = "walk", stack # <<>>, Head(stack).op = "visit", Refused(Head(stack))
  PROVE  ~Bounded
  <1> DEFINE task == Head(stack)
             node == NodeOf(task)
             depth == Len(task.path)
  <1>1. /\ MaxNestingDepth \in Nat /\ MaxCanonicalNodes \in Nat
        /\ MaxTotalStringBytes \in Nat
    BY LimitsAssumption
  <1>2. WellShaped /\ task \in Task /\ TaskIsRight(task) /\ depth \in Nat
    BY TopIsRight DEF CInv
  <1>3. CASE TooDeep(task)
    <2>1. depth = MaxNestingDepth + 1 /\ node \in Level[depth]
      BY <1>1, <1>2, <1>3 DEF TooDeep, TaskIsRight
    <2>2. QED BY <2>1 DEF Bounded
  <1>4. CASE ~TooDeep(task)
    <2>1. node \in Unfolding /\ node \notin Visited /\ node[2] = task.value /\ node[1] = task.path
      BY <1>4, VisitIsNew DEF NodeOf
    <2> DEFINE more == Visited \cup {node}
    <2>2. Visited \subseteq Unfolding /\ more \subseteq Unfolding
      BY <2>1 DEF Visited
    <2>3. /\ nodeCount \in Nat /\ Cardinality(more) = nodeCount + 1
          /\ stringByteCount \in Nat
          /\ SumFunctionOnSet(Cost, more) = stringByteCount + StringBytes(task.value)
      BY <1>2, <2>1, <2>2, OneMore DEF CInv, VisitedIsCounted
    <2> HIDE DEF more
    <2>4. /\ Cardinality(more) \in Nat /\ Cardinality(Unfolding) \in Nat
          /\ Cardinality(more) <= Cardinality(Unfolding)
          /\ SumFunctionOnSet(Cost, more) \in Nat
          /\ SumFunction([n \in Unfolding |-> StringBytes(n[2])]) =
                SumFunctionOnSet(Cost, Unfolding)
          /\ SumFunctionOnSet(Cost, Unfolding) \in Nat
          /\ SumFunctionOnSet(Cost, more) <= SumFunctionOnSet(Cost, Unfolding)
      BY <1>2, <2>2, PartsAreSmaller
    <2>5. CASE nodeCount + 1 > MaxCanonicalNodes
      <3>1. ~(Cardinality(Unfolding) <= MaxCanonicalNodes)
        BY <1>1, <2>3, <2>4, <2>5
      <3>2. QED BY <3>1 DEF Bounded
    <2>6. CASE Unsupported(task.value) \/ BadStrings(task.value)
      BY <2>1, <2>6 DEF Bounded
    <2>7. CASE task.value \in Container /\ Len(Items(task.value)) > MaxCanonicalNodes
      <3>1. IsNode(node, depth) /\ node[2] \in Container /\ depth <= MaxNestingDepth
        BY <1>1, <1>2, <1>4, <2>1, <2>7, TreeIsApart DEF TooDeep
      <3>2. /\ Cardinality(Members(node)) = Len(Items(task.value))
            /\ IsFiniteSet(Members(node))
        BY <1>2, <2>1, <3>1, MembersApart
      <3>3. task.value \in DOMAIN heap /\ Len(Items(task.value)) \in Nat
        BY <1>2, <2>1, <3>1, MembersAre, EntriesAre
      <3>4. node \in Inner(depth)
        BY <1>2, <2>1, <3>1 DEF Inner, TaskIsRight
      <3>5. \A m \in Members(node) : m \in Level[depth + 1]
        BY <1>1, <1>2, <3>1, <3>4, NextLevel
      <3>6. CASE depth = MaxNestingDepth
        <4>1. Members(node) # {}
          BY <1>1, <2>7, <3>2, <3>3, FS_EmptySet
        <4>2. QED BY <3>5, <3>6, <4>1 DEF Bounded
      <3>7. CASE depth # MaxNestingDepth
        <4>1. depth + 1 \in 0..MaxNestingDepth
          BY <1>1, <1>2, <3>1, <3>7
        <4>2. Members(node) \subseteq Unfolding
          BY <1>2, <3>5, <4>1, TreeIsApart
        <4>3. Cardinality(Members(node)) <= Cardinality(Unfolding)
          BY <1>2, <4>2, PartsAreSmaller
        <4>4. ~(Cardinality(Unfolding) <= MaxCanonicalNodes)
          BY <1>1, <2>4, <2>7, <3>2, <3>3, <4>3
        <4>5. QED BY <4>4 DEF Bounded
      <3>8. QED BY <3>6, <3>7
    <2>8. CASE task.value \in active
      <3>1. Level[MaxNestingDepth + 1] # {}
        BY <2>8, CyclesHaveNoEnd
      <3>2. QED BY <3>1 DEF Bounded
    <2>9. CASE stringByteCount + StringBytes(task.value) > MaxTotalStringBytes
      <3>1. ~(SumFunctionOnSet(Cost, Unfolding) <= MaxTotalStringBytes)
        BY <1>1, <2>3, <2>4, <2>9
      <3>2. QED BY <2>4, <3>1 DEF Bounded
    <2>10. QED BY <1>4, <2>5, <2>6, <2>7, <2>8, <2>9 DEF Refused
  <1>5. QED BY <1>3, <1>4

\* What is in the output is the form of what was visited.
LEMMA PathsAreVisited ==
  ASSUME VisitedIsCounted
  PROVE  \A p : p \in Paths <=> \E node \in Visited : node[1] = p
  <1>1. \A node : FormOf(node)[1] = node[1]
    BY DEF FormOf
  <1>2. \A p : p \in Paths <=> \E pair \in output : pair[1] = p
    BY DEF Paths
  <1>3. \A pair : pair \in output <=> \E node \in Visited : pair = FormOf(node)
    BY DEF VisitedIsCounted
  <1> HIDE DEF FormOf
  <1>4. QED BY <1>1, <1>2, <1>3

\* When nothing is left on the stack the tree has been visited, and ends.
LEMMA TheWalkIsComplete ==
  ASSUME CInv, phase = "walk", stack = <<>>
  PROVE  Visited = Unfolding /\ Level[MaxNestingDepth + 1] = {}
  <1>1. MaxNestingDepth \in Nat /\ WellShaped
    BY LimitsAssumption DEF CInv
  <1>2. \A p : Reached(p) => p \in Paths
    BY DEF Reached, Pending
  <1> DEFINE Missed == {n \in Nat : /\ n <= MaxNestingDepth + 1
                                    /\ \E node \in Level[n] : node[1] \notin Paths}
  <1>3. ASSUME Missed # {} PROVE FALSE
    <2>1. PICK n \in Missed : \A m \in Missed : n <= m
      BY <1>3, LeastNumber
    <2>2. PICK node \in Level[n] : node[1] \notin Paths
      OBVIOUS
    <2>3. n # 0
      BY <1>2, <2>2, LevelEquation DEF CInv, NothingIsLost
    <2>4. n - 1 \in 0..MaxNestingDepth /\ (n - 1) + 1 = n /\ n - 1 \notin Missed
      BY <1>1, <2>1, <2>3
    <2>5. node \in Level[(n - 1) + 1]
      BY <2>2, <2>4
    <2>6. PICK above \in Inner(n - 1) : node \in Members(above)
      BY <2>4, <2>5, NextLevel
    <2>7. above \in Level[n - 1] /\ above[2] \in Container
      BY DEF Inner
    <2>8. above[1] \in Paths
      BY <1>1, <2>4, <2>7
    <2>9. above \in Visited
      BY <1>1, <2>4, <2>7, <2>8, TreeIsApart DEF Visited
    <2>10. Reached(node[1])
      BY <2>6, <2>7, <2>9 DEF CInv, NothingIsLost
    <2>11. QED BY <1>2, <2>2, <2>10
  <1>4. Visited = Unfolding
    <2>1. \A node \in Unfolding : node[1] \in Paths
      BY <1>1, <1>3, TreeIsApart
    <2>2. QED BY <2>1 DEF Visited
  <1>5. ASSUME NEW node \in Level[MaxNestingDepth + 1] PROVE FALSE
    <2>1. IsNode(node, MaxNestingDepth + 1)
      BY <1>1, LevelsAreProper DEF Proper
    <2>2. node[1] \in Paths
      BY <1>1, <1>3
    <2>3. PICK o \in Visited : o[1] = node[1]
      BY <2>2, PathsAreVisited DEF CInv
    <2>4. Len(o[1]) \in 0..MaxNestingDepth
      BY <1>1, TreeIsApart DEF Visited
    <2>5. QED BY <1>1, <2>1, <2>3, <2>4 DEF IsNode
  <1>6. QED BY <1>4, <1>5

\* What is returned at the end is within the limits, and is the whole tree.
LEMMA ReturnedIsBounded ==
  ASSUME CInv, phase = "walk", stack = <<>>
  PROVE  Valid /\ Bounded /\ output = CanonicalForm
  <1>1. Visited = Unfolding /\ Level[MaxNestingDepth + 1] = {} /\ WellShaped
    BY TheWalkIsComplete DEF CInv
  <1>2. Unfolding \subseteq Unfolding
    OBVIOUS
  <1>3. SumFunction([n \in Unfolding |-> StringBytes(n[2])]) = SumFunctionOnSet(Cost, Unfolding)
    BY <1>1, <1>2, PartsAreSmaller
  <1>4. /\ Cardinality(Unfolding) <= MaxCanonicalNodes
        /\ SumFunctionOnSet(Cost, Unfolding) <= MaxTotalStringBytes
        /\ \A node \in Unfolding : ~Unsupported(node[2]) /\ ~BadStrings(node[2])
        /\ output = {FormOf(node) : node \in Unfolding}
    BY <1>1 DEF CInv, VisitedIsCounted
  <1>5. Bounded
    BY <1>1, <1>3, <1>4 DEF Bounded
  <1>6. Valid
    BY DEF CInv, NothingIsLost
  <1>7. QED BY <1>4, <1>5, <1>6 DEF CanonicalForm

-----------------------------------------------------------------------------
(***************************************************************************)
(* The invariant is inductive                                              *)
(***************************************************************************)
\* No step changes the input, nor what is said of the input alone.
LEMMA InputsStand ==
  ASSUME UNCHANGED input
  PROVE  /\ WellShaped <=> WellShaped'
         /\ Value' = Value /\ Key' = Key /\ Task' = Task
         /\ Level' = Level /\ Unfolding' = Unfolding /\ Cost' = Cost
         /\ Valid <=> Valid'
         /\ Bounded <=> Bounded'
         /\ CanonicalForm' = CanonicalForm
         /\ \A p : Trimmed(p) <=> Trimmed(p)'
         /\ \A node : Members(node)' = Members(node) /\ FormOf(node)' = FormOf(node)
         /\ \A v : (Unsupported(v) <=> Unsupported(v)') /\ (BadStrings(v) <=> BadStrings(v)')
         /\ \A task : TaskIsRight(task) <=> TaskIsRight(task)'
  <1>1. caller' = caller /\ root' = root /\ heap' = heap
    BY DEF input
  <1>2. WellShaped <=> WellShaped'
    BY <1>1 DEF WellShaped
  <1>3. Value' = Value /\ Key' = Key /\ Task' = Task
    BY <1>1 DEF Value, Key, Task, Entries
  <1>4. Level' = Level
    BY <1>1 DEF Level, Below, Members, Entries
  <1>5. Unfolding' = Unfolding
    BY <1>4 DEF Unfolding
  <1>6. \A v : StringBytes(v)' = StringBytes(v)
    BY <1>1 DEF StringBytes, StringKeys, Entries
  <1>7. Cost' = Cost
    BY <1>5, <1>6 DEF Cost
  <1>8. Valid <=> Valid'
    BY <1>1 DEF Valid, ValidCandidate, ValidCase, ValidObjective, ValidActions, ValidAction,
                HasStrings, StringList, HasString, HasMapping, NonemptyString, Distinct,
                IsMapping, IsList, Items, Get, Has, Entries
  <1>9. \A v : (Unsupported(v) <=> Unsupported(v)') /\ (BadStrings(v) <=> BadStrings(v)')
    BY <1>1 DEF Unsupported, BadStrings, IsContainer, StringKeys, Entries
  <1>10. [node \in Unfolding |-> StringBytes(node[2])]'
            = [node \in Unfolding |-> StringBytes(node[2])]
    BY <1>5, <1>6
  <1>11. Bounded <=> Bounded'
    BY <1>4, <1>5, <1>9, <1>10 DEF Bounded
  <1>12. \A p : Trimmed(p) <=> Trimmed(p)'
    BY <1>1 DEF Trimmed
  <1>13. \A node : Members(node)' = Members(node) /\ FormOf(node)' = FormOf(node)
    BY <1>1, <1>12 DEF Members, FormOf, Entries
  <1>14. CanonicalForm' = CanonicalForm
    BY <1>5, <1>13 DEF CanonicalForm
  <1>15. \A task : TaskIsRight(task) <=> TaskIsRight(task)'
    BY <1>4, <1>12 DEF TaskIsRight
  <1>16. QED BY <1>2, <1>3, <1>4, <1>5, <1>7, <1>8, <1>9, <1>11, <1>12, <1>13, <1>14, <1>15

\* Where nothing is output, what is counted stays.
LEMMA CountsStand ==
  ASSUME VisitedIsCounted, UNCHANGED <<input, counters, output>>
  PROVE  VisitedIsCounted' /\ Visited' = Visited /\ Paths' = Paths
  <1>1. UNCHANGED input /\ UNCHANGED <<nodeCount, stringByteCount, output>>
    BY DEF counters
  <1>2. Paths' = Paths
    BY <1>1 DEF Paths
  <1>3. Visited' = Visited
    BY <1>1, <1>2, InputsStand DEF Visited
  <1>4. /\ Cost' = Cost
        /\ \A node : Members(node)' = Members(node) /\ FormOf(node)' = FormOf(node)
        /\ \A v : (Unsupported(v) <=> Unsupported(v)') /\ (BadStrings(v) <=> BadStrings(v)')
    BY <1>1, InputsStand
  <1>5. output' = {FormOf(node)' : node \in Visited'}
    BY <1>1, <1>3, <1>4 DEF VisitedIsCounted
  <1>6. QED BY <1>1, <1>2, <1>3, <1>4, <1>5 DEF VisitedIsCounted

\* An empty stack says nothing.
LEMMA EmptyStackIsRight ==
  ASSUME stack' = <<>>, active' = {}
  PROVE  TasksAreRight' /\ StackIsNested' /\ PendingIsNew'
  <1>1. DOMAIN stack' = {} /\ stack' \in Seq(Task')
    BY EmptySeq
  <1>2. Leaves' = {} /\ Pending' = {}
    BY <1>1 DEF Leaves, Pending
  <1>3. QED BY <1>1, <1>2 DEF TasksAreRight, StackIsNested, PendingIsNew

\* The initial states.
LEMMA InitIsRight ==
  ASSUME Init
  PROVE  CInv
  <1>1. WellShaped
    BY InputsAssumption DEF Init, WellShaped
  <1>2. DOMAIN stack = {} /\ stack \in Seq(Task)
    BY EmptySeq DEF Init
  <1>3. Leaves = {} /\ Pending = {}
    BY <1>2 DEF Leaves, Pending
  <1>4. TasksAreRight /\ StackIsNested /\ PendingIsNew
    BY <1>2, <1>3 DEF TasksAreRight, StackIsNested, PendingIsNew, Init
  <1>5. Paths = {} /\ Visited = {}
    BY DEF Init, Paths, Visited
  <1>6. VisitedIsCounted
    <2>1. Cardinality({}) = 0 /\ IsFiniteSet({})
      BY FS_EmptySet
    <2>2. SumFunctionOnSet(Cost, {}) = 0
      BY <2>1, SumEquation
    <2>3. output = {FormOf(node) : node \in Visited}
      BY <1>5 DEF Init
    <2>4. QED BY <1>5, <2>1, <2>2, <2>3, LimitsAssumption DEF VisitedIsCounted, Init
  <1>7. NothingIsLost /\ VerdictIsRight
    BY DEF Init, NothingIsLost, VerdictIsRight
  <1>8. QED BY <1>1, <1>4, <1>6, <1>7 DEF CInv

\* The validation puts the root on the stack, or rejects.
LEMMA ValidateStep ==
  ASSUME CInv, Validate
  PROVE  CInv'
  <1>1. UNCHANGED input /\ UNCHANGED <<input, counters, output>> /\ active' = active
    BY DEF Validate
  <1>2. VisitedIsCounted' /\ Visited' = Visited /\ Paths' = Paths
    BY <1>1, CountsStand DEF CInv
  <1>3. phase = "validate" /\ stack = <<>> /\ output = {}
    BY DEF Validate, CInv, VerdictIsRight
  <1>4. active = {}
    <2>1. Leaves = {}
      BY <1>3 DEF Leaves
    <2>2. QED BY <2>1 DEF CInv, StackIsNested
  <1>5. Paths = {} /\ Visited = {}
    BY <1>3 DEF Paths, Visited
  <1>6. WellShaped /\ WellShaped' /\ (Valid <=> Valid') /\ (Bounded <=> Bounded')
    BY <1>1, InputsStand DEF CInv
  <1>7. CASE ~Valid
    <2>1. stack' = <<>> /\ phase' = "rejected" /\ active' = {}
      BY <1>1, <1>4, <1>7 DEF Validate
    <2>2. TasksAreRight' /\ StackIsNested' /\ PendingIsNew'
      BY <2>1, EmptyStackIsRight
    <2>3. NothingIsLost' /\ VerdictIsRight'
      BY <1>6, <1>7, <2>1 DEF NothingIsLost, VerdictIsRight
    <2>4. QED BY <1>2, <1>6, <2>2, <2>3 DEF CInv
  <1>8. CASE Valid
    <2> DEFINE b == caller = "case"
               task == [op |-> "visit", value |-> root, path |-> <<>>, trim |-> b]
    <2>1. stack' = <<task>> /\ phase' = "walk" /\ active' = {} /\ b \in BOOLEAN
      BY <1>1, <1>4, <1>8 DEF Validate
    <2>2. /\ task.op = "visit" /\ task.path = <<>> /\ task.value = root /\ task.trim = b
          /\ task \in Task
      BY <1>6, <2>1, EmptySeq DEF WellShaped, Value, Task
    <2>3. TaskIsRight(task)
      <3>1. Len(task.path) = 0 /\ 0 <= MaxNestingDepth + 1
        BY <2>2, EmptySeq, LimitsAssumption
      <3>2. NodeOf(task) \in Level[Len(task.path)]
        BY <2>2, <3>1, LevelEquation DEF NodeOf
      <3>3. task.trim = Trimmed(task.path)
        <4>1. Trimmed(<<>>) <=> b
          BY TrimmedBelow
        <4>2. Trimmed(<<>>) \in BOOLEAN
          BY DEF Trimmed
        <4> HIDE DEF b, task
        <4>3. b = Trimmed(<<>>)
          BY <2>1, <4>1, <4>2
        <4>4. QED BY <2>2, <4>3
      <3> HIDE DEF task
      <3>4. QED BY <2>2, <3>1, <3>2, <3>3 DEF TaskIsRight
    <2> HIDE DEF task, b
    <2>4. DOMAIN stack' = {1} /\ stack'[1] = task /\ stack' \in Seq(Task)
      BY <2>1, <2>2
    <2>5. TasksAreRight'
      BY <1>1, <2>3, <2>4, InputsStand DEF TasksAreRight
    <2>6. Leaves' = {} /\ Pending' = {1}
      BY <2>2, <2>4 DEF Leaves, Pending
    <2>7. StackIsNested'
      BY <2>1, <2>2, <2>4, <2>6 DEF StackIsNested
    <2>8. PendingIsNew'
      BY <1>2, <1>5, <2>4, <2>6 DEF PendingIsNew
    <2>9. NothingIsLost'
      BY <1>2, <1>5, <1>6, <1>8, <2>2, <2>4, <2>6 DEF NothingIsLost, Reached
    <2>10. VerdictIsRight'
      BY <2>1 DEF VerdictIsRight
    <2>11. QED BY <1>2, <1>6, <2>5, <2>7, <2>8, <2>9, <2>10 DEF CInv
  <1>9. QED BY <1>7, <1>8

\* A refusal empties the stack and is right.
LEMMA RefuseStep ==
  ASSUME CInv, Refuse
  PROVE  CInv'
  <1>1. /\ UNCHANGED input /\ UNCHANGED <<input, counters, output>>
        /\ stack' = <<>> /\ active' = {} /\ phase' = "rejected"
    BY DEF Refuse
  <1>2. VisitedIsCounted'
    BY <1>1, CountsStand DEF CInv
  <1>3. TasksAreRight' /\ StackIsNested' /\ PendingIsNew'
    BY <1>1, EmptyStackIsRight
  <1>4. ~Bounded
    BY RefusedIsUnbounded DEF Refuse
  <1>5. WellShaped' /\ ~Bounded'
    BY <1>1, <1>4, InputsStand DEF CInv
  <1>6. NothingIsLost' /\ VerdictIsRight'
    BY <1>1, <1>5 DEF NothingIsLost, VerdictIsRight
  <1>7. QED BY <1>2, <1>3, <1>5, <1>6 DEF CInv

\* The value is returned when the stack is empty.
LEMMA ReturnStep ==
  ASSUME CInv, Return
  PROVE  CInv'
  <1>1. /\ UNCHANGED input /\ UNCHANGED <<input, counters, output>>
        /\ stack' = <<>> /\ stack = <<>> /\ active' = active /\ phase' = "accepted"
        /\ phase = "walk"
    BY DEF Return
  <1>2. active = {}
    <2>1. Leaves = {}
      BY <1>1 DEF Leaves
    <2>2. QED BY <2>1 DEF CInv, StackIsNested
  <1>3. VisitedIsCounted'
    BY <1>1, CountsStand DEF CInv
  <1>4. TasksAreRight' /\ StackIsNested' /\ PendingIsNew'
    BY <1>1, <1>2, EmptyStackIsRight
  <1>5. Valid /\ Bounded /\ output = CanonicalForm
    BY <1>1, ReturnedIsBounded
  <1>6. WellShaped' /\ Valid' /\ Bounded' /\ output' = CanonicalForm'
    BY <1>1, <1>5, InputsStand DEF CInv
  <1>7. NothingIsLost' /\ VerdictIsRight'
    BY <1>1, <1>6 DEF NothingIsLost, VerdictIsRight
  <1>8. QED BY <1>3, <1>4, <1>6, <1>7 DEF CInv

\* What is left of the stack without its top is still right.
LEMMA PoppedStack ==
  ASSUME CInv, stack # <<>>, stack' = Tail(stack), UNCHANGED input,
         \A v : v \in active' <=> \E i \in Leaves : i # 1 /\ stack[i].value = v
  PROVE  /\ TasksAreRight' /\ StackIsNested'
         /\ \A i : i \in Pending' <=> i \in Nat \ {0} /\ i + 1 \in Pending
         /\ \A i : i \in Leaves' <=> i \in Nat \ {0} /\ i + 1 \in Leaves
         /\ \A i \in DOMAIN stack' : stack'[i] = stack[i + 1]
         /\ \A i \in DOMAIN stack : i # 1 => i - 1 \in DOMAIN stack'
  <1> DEFINE n == Len(stack)
  <1>1. /\ n \in Nat /\ n >= 1 /\ DOMAIN stack = 1..n
        /\ stack' \in Seq(Task) /\ Len(stack') = n - 1
        /\ \A i \in 1..Len(stack') : stack'[i] = stack[i + 1]
    BY TopIsRight DEF CInv
  <1>2. DOMAIN stack' = 1..Len(stack')
    BY <1>1, LenProperties
  <1> HIDE DEF n
  <1>3. DOMAIN stack' = 1..n - 1 /\ \A i \in DOMAIN stack' : stack'[i] = stack[i + 1]
    BY <1>1, <1>2
  <1>4. /\ \A i : i \in DOMAIN stack' <=> i \in Nat \ {0} /\ i + 1 \in DOMAIN stack
        /\ \A i \in DOMAIN stack : i # 1 => i - 1 \in DOMAIN stack' /\ (i - 1) + 1 = i
    BY <1>1, <1>3
  <1>5. \A i : i \in Pending' <=> i \in Nat \ {0} /\ i + 1 \in Pending
    BY <1>3, <1>4 DEF Pending
  <1>6. \A i : i \in Leaves' <=> i \in Nat \ {0} /\ i + 1 \in Leaves
    BY <1>3, <1>4 DEF Leaves
  <1>7. TasksAreRight'
    <2>1. Task' = Task /\ \A task : TaskIsRight(task) <=> TaskIsRight(task)'
      BY InputsStand
    <2>2. \A i \in DOMAIN stack' : TaskIsRight(stack'[i])
      BY <1>3, <1>4 DEF CInv, TasksAreRight
    <2>3. QED BY <1>1, <2>1, <2>2 DEF TasksAreRight
  <1>8. StackIsNested'
    <2>1. \A i \in DOMAIN stack', j \in Leaves' :
             i < j => Len(stack'[j].path) < Len(stack'[i].path)
      <3> SUFFICES ASSUME NEW i \in DOMAIN stack', NEW j \in Leaves', i < j
                   PROVE  Len(stack'[j].path) < Len(stack'[i].path)
        OBVIOUS
      <3>1. /\ i + 1 \in DOMAIN stack /\ j + 1 \in Leaves /\ i + 1 < j + 1
            /\ j \in DOMAIN stack'
        BY <1>4, <1>6 DEF Leaves
      <3>2. Len(stack[j + 1].path) < Len(stack[i + 1].path)
        BY <3>1 DEF CInv, StackIsNested
      <3>3. QED BY <1>3, <3>1, <3>2
    <2>2. \A i, j \in Leaves' : stack'[i].value = stack'[j].value => i = j
      <3> SUFFICES ASSUME NEW i \in Leaves', NEW j \in Leaves',
                          stack'[i].value = stack'[j].value
                   PROVE  i = j
        OBVIOUS
      <3>1. /\ i + 1 \in Leaves /\ j + 1 \in Leaves /\ i \in Nat /\ j \in Nat
            /\ i \in DOMAIN stack' /\ j \in DOMAIN stack'
        BY <1>6 DEF Leaves
      <3>2. i + 1 = j + 1
        BY <1>3, <3>1 DEF CInv, StackIsNested
      <3>3. QED BY <3>1, <3>2
    <2>3. \A i \in DOMAIN stack' : stack'[i].path # <<>> =>
             \E j \in Leaves' : i < j /\ NodeOf(stack'[i]) \in Members(NodeOf(stack'[j]))
      <3> SUFFICES ASSUME NEW i \in DOMAIN stack', stack'[i].path # <<>>
                   PROVE  \E j \in Leaves' :
                             i < j /\ NodeOf(stack'[i]) \in Members(NodeOf(stack'[j]))
        OBVIOUS
      <3>1. i \in Nat \ {0} /\ i + 1 \in DOMAIN stack /\ stack'[i] = stack[i + 1]
        BY <1>3, <1>4
      <3>2. PICK j \in Leaves : /\ i + 1 < j
                                /\ NodeOf(stack[i + 1]) \in Members(NodeOf(stack[j]))
        BY <3>1 DEF CInv, StackIsNested
      <3>3. j \in DOMAIN stack /\ j # 1 /\ j \in Nat
        BY <1>1, <3>1, <3>2 DEF Leaves
      <3>4. j - 1 \in DOMAIN stack' /\ (j - 1) + 1 = j /\ j - 1 \in Nat \ {0} /\ i < j - 1
        BY <1>4, <3>1, <3>2, <3>3
      <3>5. j - 1 \in Leaves' /\ stack'[j - 1] = stack[j]
        BY <1>3, <1>6, <3>4
      <3>6. QED BY <3>1, <3>2, <3>4, <3>5
    <2>4. active' = {stack'[i].value : i \in Leaves'}
      <3>1. ASSUME NEW v \in active' PROVE \E i \in Leaves' : stack'[i].value = v
        <4>1. PICK j \in Leaves : j # 1 /\ stack[j].value = v
          OBVIOUS
        <4>2. j \in DOMAIN stack
          BY DEF Leaves
        <4>3. j - 1 \in DOMAIN stack' /\ (j - 1) + 1 = j
          BY <1>4, <4>1, <4>2
        <4>4. j - 1 \in Leaves' /\ stack'[j - 1] = stack[j]
          BY <1>3, <1>4, <1>6, <4>3
        <4>5. QED BY <4>1, <4>4
      <3>2. ASSUME NEW i \in Leaves' PROVE stack'[i].value \in active'
        <4>1. i + 1 \in Leaves /\ i \in Nat \ {0} /\ i \in DOMAIN stack'
          BY <1>6 DEF Leaves
        <4>2. i + 1 # 1
          BY <4>1
        <4>3. QED BY <1>3, <4>1, <4>2
      <3> DEFINE returns == {stack'[i].value : i \in Leaves'}
      <3>3. \A v : v \in returns <=> \E i \in Leaves' : stack'[i].value = v
        OBVIOUS
      <3> HIDE DEF returns
      <3>4. \A v : v \in active' <=> v \in returns
        BY <3>1, <3>2, <3>3
      <3>5. active' = returns
        BY <3>4
      <3>6. QED BY <3>5 DEF returns
    <2>5. \A node : Members(node)' = Members(node)
      BY InputsStand
    <2>6. QED BY <2>1, <2>2, <2>3, <2>4, <2>5 DEF StackIsNested
  <1>9. QED BY <1>3, <1>4, <1>5, <1>6, <1>7, <1>8

\* Returning from a container.
LEMMA LeaveStep ==
  ASSUME CInv, Leave
  PROVE  CInv'
  <1>1. /\ UNCHANGED input /\ UNCHANGED <<input, counters, output>>
        /\ phase = "walk" /\ phase' = "walk"
        /\ stack # <<>> /\ stack' = Tail(stack) /\ Head(stack).op = "leave"
        /\ active' = active \ {Head(stack).value}
    BY DEF Leave
  <1>2. VisitedIsCounted' /\ Visited' = Visited /\ Paths' = Paths
    BY <1>1, CountsStand DEF CInv
  <1>3. Head(stack) = stack[1] /\ 1 \in DOMAIN stack /\ DOMAIN stack = 1..Len(stack)
    BY <1>1, TopIsRight DEF CInv
  <1>4. 1 \in Leaves
    BY <1>1, <1>3 DEF Leaves
  <1>5. \A v : v \in active' <=> \E i \in Leaves : i # 1 /\ stack[i].value = v
    <2>1. \A v : v \in active <=> \E i \in Leaves : stack[i].value = v
      BY DEF CInv, StackIsNested
    <2>2. \A i \in Leaves : stack[i].value = stack[1].value => i = 1
      BY <1>4 DEF CInv, StackIsNested
    <2>3. QED BY <1>1, <1>3, <2>1, <2>2
  <1>6. /\ TasksAreRight' /\ StackIsNested'
        /\ \A i : i \in Pending' <=> i \in Nat \ {0} /\ i + 1 \in Pending
        /\ \A i : i \in Leaves' <=> i \in Nat \ {0} /\ i + 1 \in Leaves
        /\ \A i \in DOMAIN stack' : stack'[i] = stack[i + 1]
        /\ \A i \in DOMAIN stack : i # 1 => i - 1 \in DOMAIN stack'
    BY <1>1, <1>5, PoppedStack
  <1>7. PendingIsNew'
    <2>1. \A i \in Pending' : /\ i \in Nat /\ i + 1 \in Pending
                              /\ stack'[i] = stack[i + 1]
      BY <1>6 DEF Pending
    <2>2. \A i \in Leaves' : i + 1 \in Leaves /\ stack'[i] = stack[i + 1]
      BY <1>6 DEF Leaves
    <2>3. ASSUME NEW i \in Pending', NEW j \in Pending', stack'[i].path = stack'[j].path
          PROVE  i = j
      <3>1. i + 1 = j + 1 /\ i \in Nat /\ j \in Nat
        BY <2>1, <2>3 DEF CInv, PendingIsNew
      <3>2. QED BY <3>1
    <2>4. \A i \in Pending' : stack'[i].path \notin Paths'
      BY <1>2, <2>1 DEF CInv, PendingIsNew
    <2>5. \A i \in Leaves' : stack'[i].path \in Paths'
      BY <1>2, <2>2 DEF CInv, PendingIsNew
    <2>6. QED BY <2>3, <2>4, <2>5 DEF PendingIsNew
  <1>8. ASSUME NEW p, Reached(p) PROVE Reached(p)'
    <2>1. CASE p \in Paths
      BY <1>2, <2>1 DEF Reached
    <2>2. CASE \E i \in Pending : stack[i].path = p
      <3>1. PICK i \in Pending : stack[i].path = p
        BY <2>2
      <3>2. i \in DOMAIN stack /\ i # 1 /\ i \in Nat /\ i >= 1
        BY <1>1, <1>3 DEF Pending
      <3>3. i - 1 \in Nat \ {0} /\ (i - 1) + 1 = i
        BY <3>2
      <3>4. i - 1 \in Pending' /\ i - 1 \in DOMAIN stack' /\ stack'[i - 1] = stack[i]
        BY <1>6, <3>2, <3>3
      <3>5. QED BY <3>1, <3>4 DEF Reached
    <2>3. QED BY <1>8, <2>1, <2>2 DEF Reached
  <1>9. /\ WellShaped' /\ (Valid <=> Valid')
        /\ \A node : Members(node)' = Members(node)
    BY <1>1, InputsStand DEF CInv
  <1>10. NothingIsLost'
    <2>1. Valid /\ Reached(<<>>)
      BY <1>1 DEF CInv, NothingIsLost
    <2>2. \A node \in Visited : node[2] \in Container => \A m \in Members(node) : Reached(m[1])
      BY <1>1 DEF CInv, NothingIsLost
    <2>3. Valid' /\ Reached(<<>>)'
      BY <1>8, <1>9, <2>1
    <2>4. \A node \in Visited' : node[2] \in Container =>
             \A m \in Members(node)' : Reached(m[1])'
      BY <1>2, <1>8, <1>9, <2>2
    <2>5. QED BY <2>3, <2>4 DEF NothingIsLost
  <1>11. VerdictIsRight'
    BY <1>1 DEF VerdictIsRight
  <1>12. QED BY <1>2, <1>6, <1>7, <1>9, <1>10, <1>11 DEF CInv

\* A visit adds a node to what has been visited, and counts it.
LEMMA VisitCounts ==
  ASSUME CInv, Visit
  PROVE  /\ NodeOf(Head(stack)) \in Unfolding
         /\ Head(stack).path \notin Paths
         /\ Paths' = Paths \cup {Head(stack).path}
         /\ Visited' = Visited \cup {NodeOf(Head(stack))}
         /\ VisitedIsCounted'
  <1> DEFINE task == Head(stack)
             node == NodeOf(task)
  <1>1. /\ UNCHANGED input /\ stack # <<>> /\ task.op = "visit" /\ ~Refused(task)
        /\ nodeCount' = nodeCount + 1
        /\ stringByteCount' = stringByteCount + StringBytes(task.value)
        /\ output' = output \cup {<<task.path, Normalized(task)>>}
    BY DEF Visit, Count
  <1>2. /\ ~TooDeep(task)
        /\ ~(nodeCount + 1 > MaxCanonicalNodes)
        /\ ~Unsupported(task.value) /\ ~BadStrings(task.value)
        /\ ~(stringByteCount + StringBytes(task.value) > MaxTotalStringBytes)
    BY <1>1 DEF Refused
  <1>3. /\ node \in Unfolding /\ node \notin Visited /\ task.path \notin Paths
        /\ node[1] = task.path /\ node[2] = task.value
    BY <1>1, <1>2, VisitIsNew DEF NodeOf
  <1>4. /\ Head(stack) = stack[1] /\ 1 \in DOMAIN stack /\ task \in Task /\ TaskIsRight(task)
        /\ WellShaped
    BY <1>1, TopIsRight DEF CInv
  <1>5. <<task.path, Normalized(task)>> = FormOf(node)
    <2>1. task.trim = Trimmed(task.path)
      BY <1>4 DEF TaskIsRight
    <2>2. QED BY <1>3, <2>1 DEF Normalized, FormOf, CanonicalKind
  <1>6. Paths' = Paths \cup {task.path}
    <2> DEFINE form == <<task.path, Normalized(task)>>
    <2>1. form[1] = task.path /\ output' = output \cup {form}
      BY <1>1
    <2> HIDE DEF form, task
    <2>2. QED BY <2>1 DEF Paths
  <1> HIDE DEF node, task
  <1>7. Visited' = Visited \cup {node}
    <2>1. Unfolding' = Unfolding
      BY <1>1, InputsStand
    <2>2. \A m \in Unfolding : m[1] = task.path => m = node
      BY <1>3, <1>4, TreeIsApart
    <2>3. QED BY <1>3, <1>6, <2>1, <2>2 DEF Visited
  <1>8. /\ Cost' = Cost
        /\ \A m : Members(m)' = Members(m) /\ FormOf(m)' = FormOf(m)
        /\ \A v : (Unsupported(v) <=> Unsupported(v)') /\ (BadStrings(v) <=> BadStrings(v)')
    BY <1>1, InputsStand
  <1>9. Visited \subseteq Unfolding
    BY DEF Visited
  <1>10. /\ nodeCount = Cardinality(Visited) /\ stringByteCount = SumFunctionOnSet(Cost, Visited)
         /\ output = {FormOf(m) : m \in Visited}
         /\ \A m \in Visited : ~Unsupported(m[2]) /\ ~BadStrings(m[2])
         /\ \A m \in Visited : m[1] # <<>> =>
               \E above \in Visited : above[2] \in Container /\ m \in Members(above)
    BY DEF CInv, VisitedIsCounted
  <1>11. /\ nodeCount \in Nat /\ Cardinality(Visited \cup {node}) = nodeCount + 1
         /\ stringByteCount \in Nat
         /\ SumFunctionOnSet(Cost, Visited \cup {node}) =
               stringByteCount + StringBytes(task.value)
    BY <1>3, <1>4, <1>9, <1>10, OneMore
  <1>12. StringBytes(task.value) \in Nat
    BY <1>3, <1>4, CostsAreNatural
  <1>13. /\ nodeCount' = Cardinality(Visited') /\ nodeCount' <= MaxCanonicalNodes
         /\ stringByteCount' = SumFunctionOnSet(Cost', Visited')
         /\ stringByteCount' <= MaxTotalStringBytes
    <2>1. nodeCount + 1 <= MaxCanonicalNodes
      BY <1>2, <1>11, LimitsAssumption
    <2>2. stringByteCount + StringBytes(task.value) <= MaxTotalStringBytes
      BY <1>2, <1>11, <1>12, LimitsAssumption
    <2>3. QED BY <1>1, <1>7, <1>8, <1>11, <2>1, <2>2
  <1>14. output' = {FormOf(m)' : m \in Visited'}
    <2>1. output' = {FormOf(m) : m \in Visited} \cup {FormOf(node)}
      BY <1>1, <1>5, <1>10
    <2>2. {FormOf(m) : m \in Visited} \cup {FormOf(node)}
             = {FormOf(m) : m \in Visited \cup {node}}
      OBVIOUS
    <2>3. QED BY <1>7, <1>8, <2>1, <2>2
  <1>15. \A m \in Visited' : ~Unsupported(m[2])' /\ ~BadStrings(m[2])'
    BY <1>2, <1>3, <1>7, <1>8, <1>10
  <1>16. \A m \in Visited' : m[1] # <<>> =>
            \E above \in Visited' : above[2] \in Container /\ m \in Members(above)'
    <2>1. ASSUME node[1] # <<>>
          PROVE  \E above \in Visited : above[2] \in Container /\ node \in Members(above)
      <3>1. PICK j \in Leaves : NodeOf(stack[1]) \in Members(NodeOf(stack[j]))
        BY <1>3, <1>4, <2>1 DEF CInv, StackIsNested, task
      <3>2. /\ TaskIsRight(stack[j]) /\ stack[j].op = "leave" /\ stack[j] \in Task
            /\ stack[j].path \in Paths
        BY ElementOfSeq, LenProperties DEF CInv, TasksAreRight, PendingIsNew, Leaves
      <3>3. Len(stack[j].path) \in 0..MaxNestingDepth
        BY <3>2, LenProperties, LimitsAssumption DEF TaskIsRight, Task
      <3>4. NodeOf(stack[j]) \in Unfolding /\ NodeOf(stack[j])[1] = stack[j].path
            /\ NodeOf(stack[j])[2] \in Container
        BY <1>4, <3>2, <3>3, TreeIsApart DEF TaskIsRight, NodeOf
      <3>5. NodeOf(stack[j]) \in Visited
        BY <3>2, <3>4 DEF Visited
      <3>6. node = NodeOf(stack[1])
        BY <1>4 DEF node, task
      <3>7. QED BY <3>1, <3>4, <3>5, <3>6
    <2>2. QED BY <1>7, <1>8, <1>10, <2>1
  <1>17. VisitedIsCounted'
    BY <1>13, <1>14, <1>15, <1>16 DEF VisitedIsCounted
  <1>18. QED BY <1>3, <1>6, <1>7, <1>17 DEF node, task

\* A visit to a scalar.
LEMMA VisitScalarStep ==
  ASSUME CInv, Visit, Head(stack).value \notin Container
  PROVE  CInv'
  <1>1. /\ UNCHANGED input /\ phase = "walk" /\ phase' = "walk"
        /\ stack # <<>> /\ Head(stack).op = "visit"
        /\ stack' = Tail(stack) /\ active' = active
    BY DEF Visit
  <1>2. /\ Head(stack) = stack[1] /\ 1 \in DOMAIN stack /\ DOMAIN stack = 1..Len(stack)
    BY <1>1, TopIsRight DEF CInv
  <1>3. 1 \in Pending /\ 1 \notin Leaves
    BY <1>1, <1>2 DEF Pending, Leaves
  <1>4. \A v : v \in active' <=> \E i \in Leaves : i # 1 /\ stack[i].value = v
    BY <1>1, <1>3 DEF CInv, StackIsNested
  <1>5. /\ TasksAreRight' /\ StackIsNested'
        /\ \A i : i \in Pending' <=> i \in Nat \ {0} /\ i + 1 \in Pending
        /\ \A i : i \in Leaves' <=> i \in Nat \ {0} /\ i + 1 \in Leaves
        /\ \A i \in DOMAIN stack' : stack'[i] = stack[i + 1]
        /\ \A i \in DOMAIN stack : i # 1 => i - 1 \in DOMAIN stack'
    BY <1>1, <1>4, PoppedStack
  <1>6. /\ Paths' = Paths \cup {stack[1].path}
        /\ Visited' = Visited \cup {NodeOf(stack[1])}
        /\ VisitedIsCounted'
    BY <1>2, VisitCounts
  <1>7. PendingIsNew'
    <2>1. \A i \in Pending' : /\ i \in Nat \ {0} /\ i + 1 \in Pending
                              /\ stack'[i] = stack[i + 1]
      BY <1>5 DEF Pending
    <2>2. \A i \in Leaves' : i + 1 \in Leaves /\ stack'[i] = stack[i + 1]
      BY <1>5 DEF Leaves
    <2>3. ASSUME NEW i \in Pending', NEW j \in Pending', stack'[i].path = stack'[j].path
          PROVE  i = j
      <3>1. i + 1 = j + 1 /\ i \in Nat /\ j \in Nat
        BY <2>1, <2>3 DEF CInv, PendingIsNew
      <3>2. QED BY <3>1
    <2>4. ASSUME NEW i \in Pending' PROVE stack'[i].path \notin Paths'
      <3>1. i + 1 \in Pending /\ i + 1 # 1 /\ stack'[i] = stack[i + 1]
        BY <2>1
      <3>2. stack[i + 1].path # stack[1].path /\ stack[i + 1].path \notin Paths
        BY <1>3, <3>1 DEF CInv, PendingIsNew
      <3>3. QED BY <1>6, <3>1, <3>2
    <2>5. \A i \in Leaves' : stack'[i].path \in Paths'
      BY <1>6, <2>2 DEF CInv, PendingIsNew
    <2>6. QED BY <2>3, <2>4, <2>5 DEF PendingIsNew
  <1>8. ASSUME NEW p, Reached(p) PROVE Reached(p)'
    <2>1. CASE p \in Paths
      BY <1>6, <2>1 DEF Reached
    <2>2. CASE \E i \in Pending : stack[i].path = p
      <3>1. PICK i \in Pending : stack[i].path = p
        BY <2>2
      <3>2. CASE i = 1
        BY <1>6, <3>1, <3>2 DEF Reached
      <3>3. CASE i # 1
        <4>1. i \in DOMAIN stack /\ i \in Nat /\ i >= 1
          BY <1>2 DEF Pending
        <4>2. i - 1 \in Nat \ {0} /\ (i - 1) + 1 = i
          BY <3>3, <4>1
        <4>3. i - 1 \in Pending' /\ i - 1 \in DOMAIN stack' /\ stack'[i - 1] = stack[i]
          BY <1>5, <3>3, <4>1, <4>2
        <4>4. QED BY <3>1, <4>3 DEF Reached
      <3>4. QED BY <3>2, <3>3
    <2>3. QED BY <1>8, <2>1, <2>2 DEF Reached
  <1>9. /\ WellShaped' /\ (Valid <=> Valid')
        /\ \A node : Members(node)' = Members(node)
    BY <1>1, InputsStand DEF CInv
  <1>10. NothingIsLost'
    <2>1. Valid /\ Reached(<<>>)
      BY <1>1 DEF CInv, NothingIsLost
    <2>2. \A node \in Visited : node[2] \in Container => \A m \in Members(node) : Reached(m[1])
      BY <1>1 DEF CInv, NothingIsLost
    <2>3. Valid' /\ Reached(<<>>)'
      BY <1>8, <1>9, <2>1
    <2>4. NodeOf(stack[1])[2] \notin Container
      BY <1>2 DEF NodeOf
    <2>5. \A node \in Visited' : node[2] \in Container =>
             \A m \in Members(node)' : Reached(m[1])'
      BY <1>6, <1>8, <1>9, <2>2, <2>4
    <2>6. QED BY <2>3, <2>5 DEF NothingIsLost
  <1>11. VerdictIsRight'
    BY <1>1 DEF VerdictIsRight
  <1>12. QED BY <1>5, <1>6, <1>7, <1>9, <1>10, <1>11 DEF CInv

\* The visits to the members of a container.
LEMMA ChildrenAre ==
  ASSUME WellShaped, NEW task \in Task, TaskIsRight(task), task.value \in Container,
         Len(task.path) <= MaxNestingDepth
  PROVE  /\ Len(Items(task.value)) \in Nat
         /\ Entries(task.value) = 1..Len(Items(task.value))
         /\ Visits(task) \in Seq(Task) /\ Len(Visits(task)) = Len(Items(task.value))
         /\ \A i \in Entries(task.value) :
               /\ Visits(task)[i] \in Task /\ Visits(task)[i].op = "visit"
               /\ Len(Visits(task)[i].path) = Len(task.path) + 1
               /\ NodeOf(Visits(task)[i]) \in Members(NodeOf(task))
               /\ TaskIsRight(Visits(task)[i])
         /\ \A m \in Members(NodeOf(task)) :
               \E i \in Entries(task.value) : m = NodeOf(Visits(task)[i])
         /\ \A i, j \in Entries(task.value) :
               Visits(task)[i].path = Visits(task)[j].path => i = j
  <1> DEFINE c == task.value
             key(i) == heap[c].keys[i]
             val(i) == heap[c].values[i]
             vs == Visits(task)
             depth == Len(task.path)
  <1>1. /\ MaxNestingDepth \in Nat /\ c \in DOMAIN heap /\ task.path \in Seq(Key)
        /\ depth \in 0..MaxNestingDepth /\ depth \in Nat
    BY Values, LenProperties, LimitsAssumption DEF Task
  <1>2. /\ Len(Items(c)) \in Nat /\ Entries(c) = 1..Len(Items(c))
        /\ \A i \in Entries(c) : val(i) \in Value /\ key(i) \in Key
        /\ \A i, j \in Entries(c) : key(i) = key(j) => i = j
    BY <1>1, EntriesAre
  <1>3. ASSUME NEW i \in Entries(c), NEW b, b = TrimChild(task, key(i))
        PROVE  /\ vs[i] = [op |-> "visit", value |-> val(i),
                           path |-> Append(task.path, key(i)), trim |-> b]
               /\ vs[i].op = "visit" /\ vs[i].value = val(i)
               /\ vs[i].path = Append(task.path, key(i)) /\ vs[i].trim = b
    <2>1. vs[i] = [op |-> "visit", value |-> val(i),
                   path |-> Append(task.path, key(i)), trim |-> b]
      BY <1>3 DEF Visits
    <2> HIDE DEF vs
    <2>2. QED BY <2>1
  <1>4. IsNode(NodeOf(task), depth) /\ NodeOf(task)[1] = task.path /\ NodeOf(task)[2] = c
    <2>1. task.value \in Value
      BY DEF Task
    <2>2. QED BY <1>1, <2>1 DEF IsNode, NodeOf
  <1> HIDE DEF key, val, vs
  <1>5. ASSUME NEW i \in Entries(c)
        PROVE  /\ vs[i] \in Task /\ vs[i].op = "visit" /\ Len(vs[i].path) = depth + 1
               /\ NodeOf(vs[i]) \in Members(NodeOf(task))
               /\ TaskIsRight(vs[i])
    <2> DEFINE b == TrimChild(task, key(i))
    <2>1. /\ vs[i].op = "visit" /\ vs[i].value = val(i)
          /\ vs[i].path = Append(task.path, key(i)) /\ vs[i].trim = b
      BY <1>3, Zenon
    <2>2. b \in BOOLEAN
      BY DEF TrimChild
    <2>3. Append(task.path, key(i)) \in Seq(Key) /\ Len(Append(task.path, key(i))) = depth + 1
      BY <1>1, <1>2, AppendProperties
    <2>4. vs[i] \in Task
      <3>1. vs[i] = [op |-> "visit", value |-> val(i), path |-> Append(task.path, key(i)),
                     trim |-> b]
        BY <1>3, Zenon
      <3> HIDE DEF b
      <3>2. val(i) \in Value
        BY <1>2
      <3>3. QED BY <2>2, <2>3, <3>1, <3>2 DEF Task
    <2>5. NodeOf(vs[i]) \in Members(NodeOf(task))
      BY <1>4, <2>1 DEF Members, NodeOf, key, val
    <2>6. NodeOf(task) \in Inner(depth)
      BY <1>4 DEF TaskIsRight, Inner
    <2>7. NodeOf(vs[i]) \in Level[depth + 1]
      BY <1>1, <2>5, <2>6, NextLevel
    <2>8. b = Trimmed(vs[i].path)
      <3>1. heap[c].kind # "map" => key(i) # "allowed_parameters"
        BY <1>1, <1>2 DEF WellShaped, WellFormed, key, Entries
      <3>2. Trimmed(Append(task.path, key(i))) <=>
               Trimmed(task.path) /\ key(i) # "allowed_parameters"
        BY <1>1, <1>2, TrimmedBelow
      <3> DEFINE t == task.trim
                 u == Trimmed(task.path)
                 w == Trimmed(Append(task.path, key(i)))
      <3>3. t \in BOOLEAN /\ u \in BOOLEAN /\ w \in BOOLEAN
        BY DEF Task, Trimmed
      <3>4. t = u
        BY DEF TaskIsRight
      <3>5. b <=> t /\ (heap[c].kind = "map" => key(i) # "allowed_parameters")
        BY DEF TrimChild
      <3>6. w <=> u /\ key(i) # "allowed_parameters"
        BY <3>2
      <3> HIDE DEF t, u, w, b
      <3>7. b = w
        BY <2>2, <3>1, <3>3, <3>4, <3>5, <3>6
      <3>8. QED BY <2>1, <3>7 DEF w
    <2>9. depth + 1 <= MaxNestingDepth + 1
      BY <1>1
    <2>10. TaskIsRight(vs[i])
      BY <2>1, <2>3, <2>7, <2>8, <2>9 DEF TaskIsRight
    <2>11. QED BY <2>1, <2>3, <2>4, <2>5, <2>10
  <1>6. vs \in Seq(Task) /\ Len(vs) = Len(Items(c))
    <2>1. vs = [i \in Entries(c) |-> vs[i]]
      BY DEF Visits, vs
    <2>2. vs \in [1..Len(Items(c)) -> Task]
      BY <1>2, <1>5, <2>1
    <2>3. QED BY <1>2, <2>2, SeqDef, LenProperties
  <1>7. \A m \in Members(NodeOf(task)) : \E i \in Entries(c) : m = NodeOf(vs[i])
    <2>1. \A m \in Members(NodeOf(task)) : \E i \in Entries(c) :
             m = <<Append(task.path, key(i)), val(i)>>
      BY <1>4 DEF Members, key, val
    <2>2. \A i \in Entries(c) : vs[i].value = val(i) /\ vs[i].path = Append(task.path, key(i))
      BY <1>3, Zenon
    <2>3. QED BY <2>1, <2>2 DEF NodeOf
  <1>8. ASSUME NEW i \in Entries(c), NEW j \in Entries(c), vs[i].path = vs[j].path
        PROVE  i = j
    <2>1. Append(task.path, key(i)) = Append(task.path, key(j))
      <3>1. /\ vs[i].path = Append(task.path, key(i))
            /\ vs[j].path = Append(task.path, key(j))
        BY <1>3, Zenon
      <3>2. QED BY <1>8, <3>1
    <2>2. key(i) = key(j)
      BY <1>1, <1>2, <2>1, AppendedApart
    <2>3. QED BY <1>2, <2>2
  <1>9. QED BY <1>2, <1>5, <1>6, <1>7, <1>8 DEF vs

Width(task) == Len(Items(task.value))

\* A visit to a container puts its members and the return on the stack.
LEMMA PushedStack ==
  ASSUME CInv, Visit, Head(stack).value \in Container
  PROVE  /\ Width(stack[1]) \in Nat /\ Len(stack) \in Nat /\ Len(stack) >= 1
         /\ DOMAIN stack = 1..Len(stack) /\ Head(stack) = stack[1]
         /\ stack[1] \in Task /\ TaskIsRight(stack[1]) /\ stack[1].op = "visit"
         /\ Len(stack[1].path) <= MaxNestingDepth
         /\ stack' \in Seq(Task)
         /\ DOMAIN stack' = 1..Width(stack[1]) + Len(stack)
         /\ \A i \in 1..Width(stack[1]) : stack'[i] = Visits(stack[1])[i]
         /\ stack'[Width(stack[1]) + 1] = [stack[1] EXCEPT !.op = "leave"]
         /\ \A i \in 2..Len(stack) : stack'[Width(stack[1]) + i] = stack[i]
  <1> DEFINE task == stack[1]
             leave == [task EXCEPT !.op = "leave"]
             vs == Visits(task)
             rest == Tail(stack)
             k == Width(task)
             n == Len(stack)
  <1>1. /\ stack # <<>> /\ Head(stack).op = "visit" /\ ~Refused(Head(stack))
        /\ stack' = Visits(Head(stack)) \o <<[Head(stack) EXCEPT !.op = "leave"]>> \o Tail(stack)
    BY DEF Visit
  <1>2. /\ n \in Nat /\ n >= 1 /\ DOMAIN stack = 1..n /\ Head(stack) = task
        /\ task \in Task /\ TaskIsRight(task) /\ Len(task.path) \in Nat
        /\ rest \in Seq(Task) /\ Len(rest) = n - 1
        /\ \A i \in 1..Len(rest) : rest[i] = stack[i + 1]
    BY <1>1, TopIsRight DEF CInv
  <1>3. Len(task.path) <= MaxNestingDepth
    BY <1>1, <1>2, LimitsAssumption DEF Refused, TooDeep
  <1>4. k \in Nat /\ vs \in Seq(Task) /\ Len(vs) = k
    BY <1>2, <1>3, ChildrenAre DEF CInv, Width
  <1>5. leave \in Task
    BY <1>2 DEF Task
  <1>6. <<leave>> \in Seq(Task) /\ Len(<<leave>>) = 1 /\ <<leave>>[1] = leave
    BY <1>5
  <1>7. stack' = (vs \o <<leave>>) \o rest
    BY <1>1, <1>2
  <1> DEFINE one == <<leave>>
             front == vs \o one
  <1> HIDE DEF task, leave, vs, rest, k, n, one, front
  <1>8. one \in Seq(Task) /\ Len(one) = 1 /\ one[1] = leave
    BY <1>6 DEF one
  <1>9. /\ front \in Seq(Task) /\ Len(front) = k + 1
        /\ \A i \in 1..k : front[i] = vs[i]
        /\ front[k + 1] = leave
    <2>1. /\ front \in Seq(Task) /\ Len(front) = k + 1
          /\ \A i \in 1..k + 1 : front[i] = IF i <= k THEN vs[i] ELSE one[i - k]
      <3>1. /\ vs \o one \in Seq(Task) /\ Len(vs \o one) = Len(vs) + Len(one)
            /\ \A i \in 1..Len(vs) + Len(one) :
                  (vs \o one)[i] = IF i <= Len(vs) THEN vs[i] ELSE one[i - Len(vs)]
        BY <1>4, <1>8, ConcatProperties
      <3>2. QED BY <1>4, <1>8, <3>1 DEF front
    <2>2. k + 1 \in 1..k + 1 /\ ~(k + 1 <= k) /\ (k + 1) - k = 1
      BY <1>4
    <2>3. front[k + 1] = one[1]
      BY <2>1, <2>2
    <2>4. \A i \in 1..k : i \in 1..k + 1 /\ i <= k
      BY <1>4
    <2>5. QED BY <1>8, <2>1, <2>3, <2>4
  <1>10. /\ stack' \in Seq(Task) /\ Len(stack') = k + n
         /\ \A i \in 1..k + n : stack'[i] = IF i <= k + 1 THEN front[i] ELSE rest[i - (k + 1)]
    <2>1. stack' = front \o rest
      BY <1>7 DEF front, one
    <2>2. (k + 1) + (n - 1) = k + n
      BY <1>2, <1>4
    <2>3. /\ front \o rest \in Seq(Task) /\ Len(front \o rest) = (k + 1) + (n - 1)
          /\ \A i \in 1..(k + 1) + (n - 1) :
                (front \o rest)[i] = IF i <= k + 1 THEN front[i] ELSE rest[i - (k + 1)]
      BY <1>2, <1>9, ConcatProperties
    <2>4. QED BY <2>1, <2>2, <2>3
  <1>11. \A i \in 1..k : stack'[i] = vs[i]
    <2>1. \A i \in 1..k : i \in 1..k + n /\ i <= k + 1
      BY <1>2, <1>4
    <2>2. QED BY <1>9, <1>10, <2>1
  <1>12. stack'[k + 1] = leave
    <2>1. k + 1 \in 1..k + n /\ k + 1 <= k + 1
      BY <1>2, <1>4
    <2>2. QED BY <1>9, <1>10, <2>1
  <1>13. \A i \in 2..n : stack'[k + i] = stack[i]
    <2> SUFFICES ASSUME NEW i \in 2..n PROVE stack'[k + i] = stack[i]
      OBVIOUS
    <2>1. /\ k + i \in 1..k + n /\ ~(k + i <= k + 1) /\ (k + i) - (k + 1) = i - 1
          /\ i - 1 \in 1..n - 1 /\ (i - 1) + 1 = i
      BY <1>2, <1>4
    <2>2. stack'[k + i] = rest[i - 1]
      BY <1>10, <2>1
    <2>3. rest[i - 1] = stack[i]
      BY <1>2, <2>1
    <2>4. QED BY <2>2, <2>3
  <1>14. DOMAIN stack' = 1..k + n
    BY <1>10, LenProperties
  <1>15. task.op = "visit"
    BY <1>1, <1>2
  <1>16. QED
    BY <1>2, <1>3, <1>4, <1>10, <1>11, <1>12, <1>13, <1>14, <1>15 DEF task, leave, vs, k, n

\* Where the tasks of the new stack come from.
LEMMA PushedPlaces ==
  ASSUME CInv, Visit, Head(stack).value \in Container,
         NEW k \in Nat, k = Width(stack[1]), NEW n \in Nat, n = Len(stack)
  PROVE  /\ n >= 1 /\ 1 \in Pending /\ 1 \notin Leaves
         /\ \A i : i \in Pending' <=>
               i \in 1..k \/ \E o \in 2..n : i = k + o /\ o \in Pending
         /\ \A i : i \in Leaves' <=>
               i = k + 1 \/ \E o \in 2..n : i = k + o /\ o \in Leaves
         /\ \A i : i \in DOMAIN stack' <=>
               i \in 1..k \/ i = k + 1 \/ \E o \in 2..n : i = k + o
         /\ \A i \in 1..k : stack'[i] = Visits(stack[1])[i] /\ stack'[i].op = "visit"
         /\ stack'[k + 1] = [stack[1] EXCEPT !.op = "leave"]
         /\ \A o \in 2..n : stack'[k + o] = stack[o] /\ o \in DOMAIN stack
  <1>1. /\ n >= 1 /\ DOMAIN stack = 1..n
        /\ stack[1] \in Task /\ TaskIsRight(stack[1]) /\ stack[1].op = "visit"
        /\ Head(stack) = stack[1] /\ Len(stack[1].path) <= MaxNestingDepth
        /\ DOMAIN stack' = 1..k + n
        /\ \A i \in 1..k : stack'[i] = Visits(stack[1])[i]
        /\ stack'[k + 1] = [stack[1] EXCEPT !.op = "leave"]
        /\ \A i \in 2..n : stack'[k + i] = stack[i]
    BY PushedStack
  <1>2. \A i : i \in DOMAIN stack' <=>
           i \in 1..k \/ i = k + 1 \/ \E o \in 2..n : i = k + o
    <2>1. ASSUME NEW i \in 1..k + n, i \notin 1..k, i # k + 1
          PROVE  \E o \in 2..n : i = k + o
      <3>1. i - k \in 2..n /\ i = k + (i - k)
        BY <2>1
      <3>2. QED BY <3>1
    <2>2. \A i \in 1..k : i \in 1..k + n
      BY <1>1
    <2>3. k + 1 \in 1..k + n /\ \A o \in 2..n : k + o \in 1..k + n
      BY <1>1
    <2>4. QED BY <1>1, <2>1, <2>2, <2>3
  <1>3. \A i \in 1..k : stack'[i].op = "visit"
    <2>1. /\ Entries(stack[1].value) = 1..k
          /\ \A i \in Entries(stack[1].value) : Visits(stack[1])[i].op = "visit"
      BY <1>1, ChildrenAre DEF CInv, Width
    <2>2. QED BY <1>1, <2>1
  <1>4. stack'[k + 1].op = "leave"
    BY <1>1 DEF Task
  <1>5. \A o \in 2..n : o \in DOMAIN stack /\ stack'[k + o] = stack[o]
    BY <1>1
  <1>6. ASSUME NEW i PROVE i \in Pending' <=>
           i \in 1..k \/ \E o \in 2..n : i = k + o /\ o \in Pending
    <2>1. i \in Pending' <=> i \in DOMAIN stack' /\ stack'[i].op = "visit"
      BY DEF Pending
    <2>2. \A o : o \in Pending <=> o \in DOMAIN stack /\ stack[o].op = "visit"
      BY DEF Pending
    <2>3. QED BY <1>2, <1>3, <1>4, <1>5, <2>1, <2>2
  <1>7. ASSUME NEW i PROVE i \in Leaves' <=>
           i = k + 1 \/ \E o \in 2..n : i = k + o /\ o \in Leaves
    <2>1. i \in Leaves' <=> i \in DOMAIN stack' /\ stack'[i].op = "leave"
      BY DEF Leaves
    <2>2. \A o : o \in Leaves <=> o \in DOMAIN stack /\ stack[o].op = "leave"
      BY DEF Leaves
    <2>3. ASSUME i \in Leaves'
          PROVE  i = k + 1 \/ \E o \in 2..n : i = k + o /\ o \in Leaves
      <3>1. i \in DOMAIN stack' /\ stack'[i].op = "leave" /\ i \notin 1..k
        BY <1>3, <2>1, <2>3
      <3>2. QED BY <1>2, <1>5, <2>2, <3>1
    <2>4. ASSUME NEW o \in 2..n, i = k + o, o \in Leaves
          PROVE  i \in Leaves'
      BY <1>2, <1>5, <2>1, <2>2, <2>4
    <2>5. ASSUME i = k + 1 PROVE i \in Leaves'
      BY <1>2, <1>4, <2>1, <2>5
    <2>6. QED BY <2>3, <2>4, <2>5
  <1>8. 1 \in Pending /\ 1 \notin Leaves
    BY <1>1 DEF Pending, Leaves
  <1>9. QED BY <1>1, <1>2, <1>3, <1>5, <1>6, <1>7, <1>8

\* The stack stays nested.
LEMMA PushedIsNested ==
  ASSUME CInv, Visit, Head(stack).value \in Container
  PROVE  TasksAreRight' /\ StackIsNested'
  <1>1. PICK k \in Nat : k = Width(stack[1])
    BY PushedStack
  <1>2. PICK n \in Nat : n = Len(stack)
    BY PushedStack
  <1>3. PICK task \in Task : task = stack[1]
    BY PushedStack
  <1>4. PICK leave : leave = [task EXCEPT !.op = "leave"]
    OBVIOUS
  <1>5. /\ TaskIsRight(task) /\ task.op = "visit" /\ Head(stack) = task
        /\ task.value \in Container /\ Len(task.path) <= MaxNestingDepth
        /\ WellShaped /\ stack' \in Seq(Task) /\ UNCHANGED input
        /\ task.value \notin active /\ active' = active \cup {task.value}
    BY <1>3, PushedStack DEF CInv, Visit, Refused
  <1>6. leave \in Task /\ leave.op = "leave" /\ leave.path = task.path /\ leave.value = task.value
        /\ leave.trim = task.trim /\ NodeOf(leave) = NodeOf(task)
    BY <1>4 DEF Task, NodeOf
  <1>7. /\ n >= 1 /\ 1 \in Pending /\ 1 \notin Leaves
        /\ \A i : i \in Leaves' <=>
              i = k + 1 \/ \E o \in 2..n : i = k + o /\ o \in Leaves
        /\ \A i : i \in DOMAIN stack' <=>
              i \in 1..k \/ i = k + 1 \/ \E o \in 2..n : i = k + o
        /\ \A i \in 1..k : stack'[i] = Visits(task)[i]
        /\ stack'[k + 1] = leave
        /\ \A o \in 2..n : stack'[k + o] = stack[o] /\ o \in DOMAIN stack
    BY <1>1, <1>2, <1>3, <1>4, PushedPlaces
  <1>8. \A i \in 1..k : /\ Len(Visits(task)[i].path) = Len(task.path) + 1
                        /\ NodeOf(Visits(task)[i]) \in Members(NodeOf(task))
                        /\ TaskIsRight(Visits(task)[i])
    BY <1>1, <1>3, <1>5, ChildrenAre DEF Width
  <1>9. Len(task.path) \in Nat
    BY LenProperties DEF Task
  <1>10. /\ Task' = Task /\ \A t : TaskIsRight(t) <=> TaskIsRight(t)'
         /\ \A node : Members(node)' = Members(node)
    BY <1>5, InputsStand
  <1>11. TasksAreRight'
    <2>1. TaskIsRight(leave)
      BY <1>5, <1>6 DEF TaskIsRight
    <2>2. \A o \in 2..n : TaskIsRight(stack[o])
      BY <1>7 DEF CInv, TasksAreRight
    <2>3. ASSUME NEW i \in DOMAIN stack' PROVE TaskIsRight(stack'[i])
      <3>1. CASE i \in 1..k
        BY <1>7, <1>8, <3>1
      <3>2. CASE i = k + 1
        BY <1>7, <2>1, <3>2
      <3>3. CASE \E o \in 2..n : i = k + o
        BY <1>7, <2>2, <3>3
      <3>4. QED BY <1>7, <3>1, <3>2, <3>3
    <2>4. QED BY <1>5, <1>10, <2>3 DEF TasksAreRight
  <1>12. \A o \in 2..n : stack[o] \in Task /\ Len(stack[o].path) \in Nat
    <2>1. \A i \in DOMAIN stack : stack[i] \in Task
      BY ElementOfSeq, LenProperties DEF CInv, TasksAreRight
    <2>2. \A t \in Task : Len(t.path) \in Nat
      BY LenProperties DEF Task
    <2>3. QED BY <1>7, <2>1, <2>2
  <1>13. \A o \in Leaves : /\ o \in 2..n
                           /\ Len(stack[o].path) < Len(task.path)
                           /\ stack[o].value # task.value
    <2>1. DOMAIN stack = 1..n
      BY <1>2, PushedStack
    <2>2. \A o \in Leaves : o \in 2..n
      BY <1>7, <2>1 DEF Leaves
    <2>3. ASSUME NEW o \in Leaves PROVE Len(stack[o].path) < Len(task.path)
      <3>1. 1 \in DOMAIN stack /\ 1 < o
        BY <1>7, <2>1, <2>2
      <3>2. QED BY <1>3, <3>1 DEF CInv, StackIsNested
    <2>4. \A o \in Leaves : stack[o].value \in active
      BY DEF CInv, StackIsNested
    <2>5. QED BY <1>5, <2>2, <2>3, <2>4
  <1>14. \A i \in DOMAIN stack', j \in Leaves' :
            i < j => Len(stack'[j].path) < Len(stack'[i].path)
    <2> SUFFICES ASSUME NEW i \in DOMAIN stack', NEW j \in Leaves', i < j
                 PROVE  Len(stack'[j].path) < Len(stack'[i].path)
      OBVIOUS
    <2>1. CASE j = k + 1
      <3>1. i \in 1..k
        <4>1. \A o \in 2..n : ~(k + o < k + 1)
          OBVIOUS
        <4>2. QED BY <1>7, <2>1, <4>1
      <3>2. Len(stack'[i].path) = Len(task.path) + 1 /\ stack'[j].path = task.path
        BY <1>6, <1>7, <1>8, <2>1, <3>1
      <3>3. QED BY <1>9, <3>2
    <2>2. CASE j # k + 1
      <3>1. PICK o \in 2..n : j = k + o /\ o \in Leaves
        BY <1>7, <2>2
      <3>2. /\ stack'[j] = stack[o] /\ Len(stack[o].path) < Len(task.path)
            /\ Len(stack[o].path) \in Nat
        BY <1>7, <1>12, <1>13, <3>1
      <3>3. CASE i \in 1..k
        <4>1. Len(stack'[i].path) = Len(task.path) + 1
          BY <1>7, <1>8, <3>3
        <4>2. QED BY <1>9, <3>2, <4>1
      <3>4. CASE i = k + 1
        BY <1>6, <1>7, <3>2, <3>4
      <3>5. CASE i \notin 1..k /\ i # k + 1
        <4>1. PICK q \in 2..n : i = k + q
          BY <1>7, <3>5
        <4>2. q < o /\ stack'[i] = stack[q] /\ q \in DOMAIN stack
          BY <1>7, <3>1, <4>1
        <4>3. Len(stack[o].path) < Len(stack[q].path)
          BY <3>1, <4>2 DEF CInv, StackIsNested
        <4>4. QED BY <3>2, <4>2, <4>3
      <3>6. QED BY <3>3, <3>4, <3>5
    <2>3. QED BY <2>1, <2>2
  <1>15. \A i, j \in Leaves' : stack'[i].value = stack'[j].value => i = j
    <2>1. \A i \in Leaves' :
             \/ i = k + 1 /\ stack'[i].value = task.value
             \/ \E o \in Leaves : i = k + o /\ stack'[i].value = stack[o].value
      BY <1>6, <1>7
    <2>2. \A o, q \in Leaves : stack[o].value = stack[q].value => o = q
      BY DEF CInv, StackIsNested
    <2>3. QED BY <1>13, <2>1, <2>2
  <1>16. \A i \in DOMAIN stack' : stack'[i].path # <<>> =>
            \E j \in Leaves' : i < j /\ NodeOf(stack'[i]) \in Members(NodeOf(stack'[j]))
    <2> SUFFICES ASSUME NEW i \in DOMAIN stack', stack'[i].path # <<>>
                 PROVE  \E j \in Leaves' :
                           i < j /\ NodeOf(stack'[i]) \in Members(NodeOf(stack'[j]))
      OBVIOUS
    <2>1. CASE i \in 1..k
      <3>1. k + 1 \in Leaves' /\ i < k + 1
        BY <1>7, <2>1
      <3>2. NodeOf(stack'[i]) \in Members(NodeOf(stack'[k + 1]))
        BY <1>6, <1>7, <1>8, <2>1
      <3>3. QED BY <3>1, <3>2
    <2>2. CASE i = k + 1
      <3>1. stack[1].path # <<>> /\ NodeOf(stack'[i]) = NodeOf(stack[1]) /\ 1 \in DOMAIN stack
        BY <1>3, <1>6, <1>7, <2>2 DEF Pending
      <3>2. PICK j \in Leaves : NodeOf(stack[1]) \in Members(NodeOf(stack[j]))
        BY <3>1 DEF CInv, StackIsNested
      <3>3. j \in 2..n /\ i < k + j
        BY <1>13, <2>2
      <3>4. k + j \in Leaves' /\ stack'[k + j] = stack[j]
        BY <1>7, <3>3
      <3>5. QED BY <3>1, <3>2, <3>3, <3>4
    <2>3. CASE i \notin 1..k /\ i # k + 1
      <3>1. PICK o \in 2..n : i = k + o
        BY <1>7, <2>3
      <3>2. o \in DOMAIN stack /\ stack'[i] = stack[o]
        BY <1>7, <3>1
      <3>3. PICK j \in Leaves : o < j /\ NodeOf(stack[o]) \in Members(NodeOf(stack[j]))
        BY <3>2 DEF CInv, StackIsNested
      <3>4. j \in 2..n /\ i < k + j
        BY <1>13, <3>1, <3>3
      <3>5. k + j \in Leaves' /\ stack'[k + j] = stack[j]
        BY <1>7, <3>4
      <3>6. QED BY <3>2, <3>3, <3>4, <3>5
    <2>4. QED BY <2>1, <2>2, <2>3
  <1>17. active' = {stack'[i].value : i \in Leaves'}
    <2>1. \A v : v \in active <=> \E o \in Leaves : stack[o].value = v
      BY DEF CInv, StackIsNested
    <2>2. ASSUME NEW v \in active' PROVE \E i \in Leaves' : stack'[i].value = v
      <3>1. CASE v = task.value
        BY <1>6, <1>7, <3>1
      <3>2. CASE v # task.value
        <4>1. PICK o \in Leaves : stack[o].value = v
          BY <1>5, <2>1, <3>2
        <4>2. o \in 2..n
          BY <1>13
        <4>3. k + o \in Leaves' /\ stack'[k + o] = stack[o]
          BY <1>7, <4>2
        <4>4. QED BY <4>1, <4>3
      <3>3. QED BY <3>1, <3>2
    <2>3. ASSUME NEW i \in Leaves' PROVE stack'[i].value \in active'
      BY <1>5, <1>6, <1>7, <2>1
    <2> DEFINE returns == {stack'[i].value : i \in Leaves'}
    <2>4. \A v : v \in returns <=> \E i \in Leaves' : stack'[i].value = v
      OBVIOUS
    <2> HIDE DEF returns
    <2>5. \A v : v \in active' <=> v \in returns
      BY <2>2, <2>3, <2>4
    <2>6. active' = returns
      BY <2>5
    <2>7. QED BY <2>6 DEF returns
  <1>18. QED BY <1>10, <1>11, <1>14, <1>15, <1>16, <1>17 DEF StackIsNested

\* A path leads through one node on each level.
LEMMA OneWayUp ==
  ASSUME WellShaped, NEW a, IsNode(a, Len(a[1])), a[2] \in Container,
         NEW b, IsNode(b, Len(b[1])), b[2] \in Container,
         NEW m \in Members(a), NEW o \in Members(b), m[1] = o[1]
  PROVE  a[1] = b[1] /\ m[1] # <<>> /\ m[1] # a[1]
  <1>1. a[1] \in Seq(Key) /\ b[1] \in Seq(Key) /\ Len(a[1]) \in Nat /\ Len(b[1]) \in Nat
    BY LenProperties DEF IsNode
  <1>2. PICK k \in Key : m[1] = Append(a[1], k)
    BY <1>1, MembersAre
  <1>3. PICK l \in Key : o[1] = Append(b[1], l)
    BY <1>1, MembersAre
  <1>4. Append(a[1], k) = Append(b[1], l)
    BY <1>2, <1>3
  <1>5. a[1] = b[1]
    BY <1>1, <1>4, AppendedApart
  <1>6. Len(m[1]) = Len(a[1]) + 1
    BY <1>1, <1>2, AppendProperties
  <1>7. QED BY <1>1, <1>5, <1>6, EmptySeq

\* A visit to a container.
LEMMA VisitContainerStep ==
  ASSUME CInv, Visit, Head(stack).value \in Container
  PROVE  CInv'
  <1>1. PICK k \in Nat : k = Width(stack[1])
    BY PushedStack
  <1>2. PICK n \in Nat : n = Len(stack)
    BY PushedStack
  <1>3. PICK task \in Task : task = stack[1]
    BY PushedStack
  <1>4. /\ TaskIsRight(task) /\ Head(stack) = task /\ task.value \in Container
        /\ Len(task.path) <= MaxNestingDepth
        /\ WellShaped /\ UNCHANGED input /\ phase = "walk" /\ phase' = "walk"
    BY <1>3, PushedStack DEF CInv, Visit
  <1>5. /\ n >= 1 /\ 1 \in Pending /\ 1 \notin Leaves
        /\ \A i : i \in Pending' <=>
              i \in 1..k \/ \E o \in 2..n : i = k + o /\ o \in Pending
        /\ \A i : i \in Leaves' <=>
              i = k + 1 \/ \E o \in 2..n : i = k + o /\ o \in Leaves
        /\ \A i \in 1..k : stack'[i] = Visits(task)[i]
        /\ stack'[k + 1] = [task EXCEPT !.op = "leave"]
        /\ \A o \in 2..n : stack'[k + o] = stack[o] /\ o \in DOMAIN stack
    BY <1>1, <1>2, <1>3, PushedPlaces
  <1>6. TasksAreRight' /\ StackIsNested'
    BY PushedIsNested
  <1>7. /\ task.path \notin Paths
        /\ Paths' = Paths \cup {task.path}
        /\ Visited' = Visited \cup {NodeOf(task)}
        /\ VisitedIsCounted'
    BY <1>4, VisitCounts
  <1>8. DOMAIN stack = 1..n
    BY <1>2, PushedStack
  <1>9. \A t \in Task : /\ IsNode(NodeOf(t), Len(NodeOf(t)[1])) /\ NodeOf(t)[1] = t.path
                        /\ NodeOf(t)[2] = t.value
    BY DEF IsNode, NodeOf, Task
  <1>10. /\ Entries(task.value) = 1..k
         /\ \A i \in 1..k : NodeOf(Visits(task)[i]) \in Members(NodeOf(task))
         /\ \A m \in Members(NodeOf(task)) : \E i \in 1..k : m = NodeOf(Visits(task)[i])
         /\ \A i, j \in 1..k : Visits(task)[i].path = Visits(task)[j].path => i = j
    <2>1. Entries(task.value) = 1..k
      BY <1>1, <1>3, <1>4, ChildrenAre DEF Width
    <2>2. QED BY <1>4, <2>1, ChildrenAre
  <1>11. [task EXCEPT !.op = "leave"].path = task.path
    BY DEF Task
  \* A new visit is to a node with a parent that had not been visited before.
  <1>12. ASSUME NEW i \in 1..k, NEW above, IsNode(above, Len(above[1])), above[2] \in Container,
                above[1] \in Paths, NEW m \in Members(above)
         PROVE  m[1] # Visits(task)[i].path
    <2> SUFFICES ASSUME m[1] = Visits(task)[i].path PROVE FALSE
      OBVIOUS
    <2>1. NodeOf(Visits(task)[i]) \in Members(NodeOf(task))
      BY <1>10
    <2>2. NodeOf(Visits(task)[i])[1] = m[1]
      BY DEF NodeOf
    <2>3. IsNode(NodeOf(task), Len(NodeOf(task)[1])) /\ NodeOf(task)[2] \in Container
      BY <1>4, <1>9
    <2>4. NodeOf(task)[1] = above[1]
      BY <1>4, <1>12, <2>1, <2>2, <2>3, OneWayUp
    <2>5. QED BY <1>7, <1>9, <1>12, <2>4
  <1>13. \A i \in 1..k : Visits(task)[i].path # <<>> /\ Visits(task)[i].path # task.path
    <2> SUFFICES ASSUME NEW i \in 1..k
                 PROVE  Visits(task)[i].path # <<>> /\ Visits(task)[i].path # task.path
      OBVIOUS
    <2>1. NodeOf(Visits(task)[i]) \in Members(NodeOf(task))
      BY <1>10
    <2>2. IsNode(NodeOf(task), Len(NodeOf(task)[1])) /\ NodeOf(task)[2] \in Container
          /\ NodeOf(task)[1] = task.path
      BY <1>4, <1>9
    <2>3. /\ NodeOf(Visits(task)[i])[1] # <<>>
          /\ NodeOf(Visits(task)[i])[1] # NodeOf(task)[1]
      BY <1>4, <2>1, <2>2, OneWayUp
    <2>4. QED BY <2>2, <2>3 DEF NodeOf
  <1>14. \A i \in 1..k : Visits(task)[i].path \notin Paths
    <2> SUFFICES ASSUME NEW i \in 1..k, Visits(task)[i].path \in Paths PROVE FALSE
      OBVIOUS
    <2>1. PICK node \in Visited : node[1] = Visits(task)[i].path
      BY PathsAreVisited DEF CInv
    <2>2. PICK above \in Visited : above[2] \in Container /\ node \in Members(above)
      BY <1>13, <2>1 DEF CInv, VisitedIsCounted
    <2>3. IsNode(above, Len(above[1])) /\ above[1] \in Paths
      BY <1>4, TreeIsApart DEF Visited
    <2>4. QED BY <1>12, <2>1, <2>2, <2>3
  <1>15. \A o \in DOMAIN stack, i \in 1..k : stack[o].path # Visits(task)[i].path
    <2> SUFFICES ASSUME NEW o \in DOMAIN stack, NEW i \in 1..k,
                        stack[o].path = Visits(task)[i].path
                 PROVE  FALSE
      OBVIOUS
    <2>1. stack[o].path # <<>>
      BY <1>13
    <2>2. PICK q \in Leaves : NodeOf(stack[o]) \in Members(NodeOf(stack[q]))
      BY <2>1 DEF CInv, StackIsNested
    <2>3. /\ q \in DOMAIN stack /\ stack[q].op = "leave" /\ stack[q].path \in Paths
          /\ TaskIsRight(stack[q])
      BY DEF CInv, TasksAreRight, PendingIsNew, Leaves
    <2>4. stack[q] \in Task /\ stack[q].value \in Container
      BY <2>3, ElementOfSeq, LenProperties DEF CInv, TasksAreRight, TaskIsRight
    <2>5. PICK above : above = NodeOf(stack[q])
      OBVIOUS
    <2>6. PICK m : m = NodeOf(stack[o])
      OBVIOUS
    <2>7. /\ IsNode(above, Len(above[1])) /\ above[2] \in Container /\ above[1] \in Paths
          /\ m \in Members(above)
      BY <1>9, <2>2, <2>3, <2>4, <2>5, <2>6
    <2>8. m[1] = stack[o].path
      BY <2>6 DEF NodeOf
    <2>9. QED BY <1>12, <2>7, <2>8
  <1>16. PendingIsNew'
    <2>1. ASSUME NEW i \in Pending' PROVE stack'[i].path \notin Paths'
      <3>1. CASE i \in 1..k
        BY <1>5, <1>7, <1>13, <1>14, <3>1
      <3>2. CASE i \notin 1..k
        <4>1. PICK o \in 2..n : i = k + o /\ o \in Pending
          BY <1>5, <3>2
        <4>2. stack[o].path \notin Paths /\ stack[o].path # stack[1].path
          BY <1>5, <4>1 DEF CInv, PendingIsNew
        <4>3. QED BY <1>3, <1>5, <1>7, <4>1, <4>2
      <3>3. QED BY <3>1, <3>2
    <2>2. ASSUME NEW i \in Pending', NEW j \in Pending', stack'[i].path = stack'[j].path
          PROVE  i = j
      <3>1. CASE i \in 1..k /\ j \in 1..k
        BY <1>5, <1>10, <2>2, <3>1
      <3>2. CASE i \in 1..k /\ j \notin 1..k
        <4>1. PICK o \in 2..n : j = k + o /\ o \in Pending
          BY <1>5, <3>2
        <4>2. QED BY <1>5, <1>15, <2>2, <3>2, <4>1
      <3>3. CASE i \notin 1..k /\ j \in 1..k
        <4>1. PICK o \in 2..n : i = k + o /\ o \in Pending
          BY <1>5, <3>3
        <4>2. QED BY <1>5, <1>15, <2>2, <3>3, <4>1
      <3>4. CASE i \notin 1..k /\ j \notin 1..k
        <4>1. PICK o \in 2..n : i = k + o /\ o \in Pending
          BY <1>5, <3>4
        <4>2. PICK q \in 2..n : j = k + q /\ q \in Pending
          BY <1>5, <3>4
        <4>3. o = q
          BY <1>5, <2>2, <4>1, <4>2 DEF CInv, PendingIsNew
        <4>4. QED BY <4>1, <4>2, <4>3
      <3>5. QED BY <3>1, <3>2, <3>3, <3>4
    <2>3. ASSUME NEW i \in Leaves' PROVE stack'[i].path \in Paths'
      <3>1. CASE i = k + 1
        BY <1>5, <1>7, <1>11, <3>1
      <3>2. CASE i # k + 1
        <4>1. PICK o \in 2..n : i = k + o /\ o \in Leaves
          BY <1>5, <3>2
        <4>2. QED BY <1>5, <1>7, <4>1 DEF CInv, PendingIsNew
      <3>3. QED BY <3>1, <3>2
    <2>4. QED BY <2>1, <2>2, <2>3 DEF PendingIsNew
  <1>17. ASSUME NEW p, Reached(p) PROVE Reached(p)'
    <2>1. CASE p \in Paths
      BY <1>7, <2>1 DEF Reached
    <2>2. CASE \E i \in Pending : stack[i].path = p
      <3>1. PICK i \in Pending : stack[i].path = p
        BY <2>2
      <3>2. CASE i = 1
        BY <1>3, <1>7, <3>1, <3>2 DEF Reached
      <3>3. CASE i # 1
        <4>1. i \in 2..n
          BY <1>8, <3>3 DEF Pending
        <4>2. k + i \in Pending' /\ stack'[k + i] = stack[i]
          BY <1>5, <4>1
        <4>3. QED BY <3>1, <4>2 DEF Reached
      <3>4. QED BY <3>2, <3>3
    <2>3. QED BY <1>17, <2>1, <2>2 DEF Reached
  <1>18. \A m \in Members(NodeOf(task)) : Reached(m[1])'
    <2> SUFFICES ASSUME NEW m \in Members(NodeOf(task)) PROVE Reached(m[1])'
      OBVIOUS
    <2>1. PICK i \in 1..k : m = NodeOf(Visits(task)[i])
      BY <1>10
    <2>2. i \in Pending' /\ stack'[i].path = m[1]
      BY <1>5, <2>1 DEF NodeOf
    <2>3. QED BY <2>2 DEF Reached
  <1>19. /\ WellShaped' /\ (Valid <=> Valid')
         /\ \A node : Members(node)' = Members(node)
    BY <1>4, InputsStand
  <1>20. NothingIsLost'
    <2>1. Valid /\ Reached(<<>>)
      BY <1>4 DEF CInv, NothingIsLost
    <2>2. \A node \in Visited : node[2] \in Container => \A m \in Members(node) : Reached(m[1])
      BY <1>4 DEF CInv, NothingIsLost
    <2>3. Valid' /\ Reached(<<>>)'
      BY <1>17, <1>19, <2>1
    <2>4. \A node \in Visited' : node[2] \in Container =>
             \A m \in Members(node)' : Reached(m[1])'
      BY <1>7, <1>17, <1>18, <1>19, <2>2
    <2>5. QED BY <2>3, <2>4 DEF NothingIsLost
  <1>21. VerdictIsRight'
    BY <1>4 DEF VerdictIsRight
  <1>22. QED BY <1>6, <1>7, <1>16, <1>19, <1>20, <1>21 DEF CInv

-----------------------------------------------------------------------------
(***************************************************************************)
(* Theorems                                                                *)
(***************************************************************************)
\* The tasks on the stack, the active containers, the counters and the output
\* stand for one walk over the tree, whose verdict is right (_canonicalize).
THEOREM TheWalkIsTracked ==
  Spec => []CInv
  <1>1. Init => CInv
    BY InitIsRight
  <1>2. CInv /\ [Next]_vars => CInv'
    <2> SUFFICES ASSUME CInv, [Next]_vars PROVE CInv'
      OBVIOUS
    <2>1. CASE Validate
      BY <2>1, ValidateStep
    <2>2. CASE Refuse
      BY <2>2, RefuseStep
    <2>3. CASE Visit
      BY <2>3, VisitScalarStep, VisitContainerStep
    <2>4. CASE Leave
      BY <2>4, LeaveStep
    <2>5. CASE Return
      BY <2>5, ReturnStep
    <2>6. CASE UNCHANGED vars
      <3>1. /\ UNCHANGED input /\ UNCHANGED <<input, counters, output>>
            /\ stack' = stack /\ active' = active /\ phase' = phase
        BY <2>6 DEF vars
      <3>2. VisitedIsCounted' /\ Visited' = Visited /\ Paths' = Paths
        BY <3>1, CountsStand DEF CInv
      <3>3. /\ WellShaped' /\ (Valid <=> Valid') /\ (Bounded <=> Bounded')
            /\ CanonicalForm' = CanonicalForm /\ Task' = Task
            /\ \A t : TaskIsRight(t) <=> TaskIsRight(t)'
            /\ \A node : Members(node)' = Members(node)
        BY <3>1, InputsStand DEF CInv
      <3>4. Leaves' = Leaves /\ Pending' = Pending
        BY <3>1 DEF Leaves, Pending
      <3>5. TasksAreRight'
        BY <3>1, <3>3 DEF CInv, TasksAreRight
      <3>6. StackIsNested'
        BY <3>1, <3>3, <3>4 DEF CInv, StackIsNested
      <3>7. PendingIsNew'
        BY <3>1, <3>2, <3>4 DEF CInv, PendingIsNew
      <3>8. \A p : Reached(p) <=> Reached(p)'
        BY <3>1, <3>2, <3>4 DEF Reached
      <3>9. NothingIsLost'
        BY <3>1, <3>2, <3>3, <3>8 DEF CInv, NothingIsLost
      <3>10. VerdictIsRight'
        BY <3>1, <3>3 DEF CInv, VerdictIsRight
      <3>11. QED BY <3>2, <3>3, <3>5, <3>6, <3>7, <3>9, <3>10 DEF CInv
    <2>7. QED BY <2>1, <2>2, <2>3, <2>4, <2>5, <2>6 DEF Next
  <1>3. QED BY <1>1, <1>2, PTL DEF Spec

\* The counters count, what is active is what still has to be left, and only
\* scalars and kinds of containers are output.
THEOREM NormalizeTypeCorrect ==
  Spec => []TypeOK
  <1>1. CInv => TypeOK
    <2> SUFFICES ASSUME CInv PROVE TypeOK
      OBVIOUS
    <2>1. phase \in {"validate", "walk", "accepted", "rejected"}
      BY DEF CInv, VerdictIsRight
    <2>2. \A i \in DOMAIN stack : stack[i].op \in {"visit", "leave"}
      <3>1. \A i \in DOMAIN stack : stack[i] \in Task
        BY ElementOfSeq, LenProperties DEF CInv, TasksAreRight
      <3>2. QED BY <3>1 DEF Task
    <2>3. active = {stack[i].value : i \in {j \in DOMAIN stack : stack[j].op = "leave"}}
      BY DEF CInv, StackIsNested, Leaves
    <2>4. Visited \subseteq Unfolding
      BY DEF Visited
    <2>5. nodeCount \in Nat /\ stringByteCount \in Nat
      BY <2>4, PartsAreSmaller DEF CInv, VisitedIsCounted
    <2>6. ASSUME NEW pair \in output PROVE pair[2] \in Scalar \cup {"map", "list"}
      <3>1. PICK node \in Visited : pair = FormOf(node)
        BY DEF CInv, VisitedIsCounted
      <3>2. node[2] \in Value
        BY <2>4, TreeIsApart DEF CInv, IsNode
      <3>3. CASE node[2] \in Container
        BY <3>1, <3>3 DEF FormOf
      <3>4. CASE node[2] \notin Container
        <4>1. node[2] \in Scalar /\ Strip(node[2]) \in Scalar
          BY <3>2, <3>4, Values, LimitsAssumption DEF CInv, Strip
        <4>2. pair[2] = node[2] \/ pair[2] = Strip(node[2])
          BY <3>1, <3>4 DEF FormOf
        <4>3. QED BY <4>1, <4>2
      <3>5. QED BY <3>3, <3>4
    <2>7. QED BY <2>1, <2>2, <2>3, <2>5, <2>6 DEF TypeOK
  <1>2. QED BY <1>1, TheWalkIsTracked, PTL

\* However objects share or contain each other, a value is accepted exactly if it
\* is valid and unfolds to a finite tree within every limit (_canonicalize).
THEOREM OnlyTheBoundedIsAccepted ==
  Spec => []AcceptsExactlyTheBounded
  <1>1. CInv => AcceptsExactlyTheBounded
    BY DEF CInv, VerdictIsRight, AcceptsExactlyTheBounded
  <1>2. QED BY <1>1, TheWalkIsTracked, PTL

\* What is accepted is the whole tree in its canonical form: no field is lost,
\* merged or respelled (_canonicalize).
THEOREM NothingIsLostOrAdded ==
  Spec => []ResultIsCanonical
  <1>1. CInv => ResultIsCanonical
    BY DEF CInv, VerdictIsRight, ResultIsCanonical
  <1>2. QED BY <1>1, TheWalkIsTracked, PTL

\* No more nodes are visited than the limit, and the recursion is no deeper than
\* the limit on nesting, for a value with cycles too (_canonicalize).
THEOREM TheWalkIsBounded ==
  Spec => []WorkIsBounded
  <1>1. CInv => WorkIsBounded
    <2> SUFFICES ASSUME CInv PROVE WorkIsBounded
      OBVIOUS
    <2>1. Cardinality(output) <= MaxCanonicalNodes
      <3> DEFINE f == [node \in Visited |-> FormOf(node)]
      <3>1. IsFiniteSet(Visited)
        BY TreeIsApart, FS_Subset DEF CInv, Visited
      <3>2. output = {FormOf(node) : node \in Visited}
        BY DEF CInv, VisitedIsCounted
      <3> HIDE DEF FormOf
      <3>3. f \in Surjection(Visited, output)
        BY <3>2 DEF Surjection
      <3> HIDE DEF f
      <3>4. IsFiniteSet(output) /\ Cardinality(output) <= Cardinality(Visited)
        BY <3>1, <3>3, FS_Surjection
      <3>5. Cardinality(output) \in Nat /\ Cardinality(Visited) \in Nat
        BY <3>1, <3>4, FS_CardinalityType
      <3>6. Cardinality(Visited) <= MaxCanonicalNodes
        BY DEF CInv, VisitedIsCounted
      <3> DEFINE a == Cardinality(output)
                 b == Cardinality(Visited)
      <3> HIDE DEF a, b
      <3>7. a <= b /\ b <= MaxCanonicalNodes /\ a \in Nat /\ b \in Nat /\ MaxCanonicalNodes \in Nat
        BY <3>4, <3>5, <3>6, LimitsAssumption DEF a, b
      <3>8. a <= MaxCanonicalNodes
        BY <3>7
      <3>9. QED BY <3>8 DEF a
    <2>2. Cardinality(active) <= MaxNestingDepth + 1
      <3> DEFINE place(v) == CHOOSE i \in Leaves : stack[i].value = v
                 f == [v \in active |-> Len(stack[place(v)].path)]
      <3>1. \A v \in active : place(v) \in Leaves /\ stack[place(v)].value = v
        BY DEF CInv, StackIsNested
      <3>2. ASSUME NEW i \in Leaves
            PROVE  i \in Nat /\ Len(stack[i].path) \in 0..MaxNestingDepth
        <4>1. stack[i] \in Task /\ TaskIsRight(stack[i]) /\ i \in Nat
          BY ElementOfSeq, LenProperties DEF CInv, TasksAreRight, Leaves
        <4>2. Len(stack[i].path) \in Nat
          BY <4>1, LenProperties DEF Task
        <4>3. QED BY <4>1, <4>2, LimitsAssumption DEF TaskIsRight, Leaves
      <3>3. \A i, j \in Leaves : Len(stack[i].path) = Len(stack[j].path) => i = j
        <4>1. \A i, j \in Leaves : i < j => Len(stack[j].path) < Len(stack[i].path)
          BY DEF CInv, StackIsNested, Leaves
        <4>2. QED BY <3>2, <4>1
      <3> HIDE DEF place
      <3>4. f \in [active -> 0..MaxNestingDepth]
        BY <3>1, <3>2
      <3>5. \A v, u \in active : f[v] = f[u] => v = u
        BY <3>1, <3>3
      <3> HIDE DEF f
      <3>6. f \in Injection(active, 0..MaxNestingDepth)
        BY <3>4, <3>5 DEF Injection, IsInjective
      <3>7. 0 \in Int /\ MaxNestingDepth \in Int /\ MaxNestingDepth \in Nat
        BY LimitsAssumption
      <3>8. /\ IsFiniteSet(0..MaxNestingDepth)
            /\ Cardinality(0..MaxNestingDepth) =
                  IF 0 > MaxNestingDepth THEN 0 ELSE MaxNestingDepth - 0 + 1
        BY <3>7, FS_Interval, Zenon
      <3>9. IsFiniteSet(active) /\ Cardinality(active) <= Cardinality(0..MaxNestingDepth)
        BY <3>6, <3>8, FS_Injection
      <3>10. Cardinality(0..MaxNestingDepth) = MaxNestingDepth + 1
        BY <3>7, <3>8
      <3>11. QED BY <3>9, <3>10
    <2>3. QED BY <2>1, <2>2 DEF WorkIsBounded
  <1>2. QED BY <1>1, TheWalkIsTracked, PTL

\* Each node but the root is an entry of one on the level above.
LEMMA OneLevelUp ==
  ASSUME WellShaped, NEW n \in 0..MaxNestingDepth, NEW node \in Level[n + 1]
  PROVE  \E above \in Level[n] :
            /\ IsNode(above, n) /\ above[2] \in DOMAIN heap
            /\ Len(node[1]) = n + 1
            /\ \A j \in 1..n : node[1][j] = above[1][j]
            /\ \E i \in Entries(above[2]) :
                  /\ node[1][n + 1] = heap[above[2]].keys[i]
                  /\ node[2] = heap[above[2]].values[i]
  <1>1. n \in Nat /\ MaxNestingDepth \in Nat
    BY LimitsAssumption
  <1>2. PICK above \in Inner(n) : node \in Members(above)
    BY NextLevel
  <1>3. above \in Level[n] /\ above[2] \in Container /\ IsNode(above, n)
    BY <1>1, LevelsAreProper DEF Inner, Proper
  <1>4. above[2] \in DOMAIN heap
    BY <1>1, <1>3, MembersAre
  <1>5. PICK i \in Entries(above[2]) :
           node = <<Append(above[1], heap[above[2]].keys[i]), heap[above[2]].values[i]>>
    BY <1>2 DEF Members
  <1>6. PICK k : k = heap[above[2]].keys[i]
    OBVIOUS
  <1>7. k \in Key
    BY <1>4, <1>6, EntriesAre
  <1>8. node[1] = Append(above[1], k) /\ node[2] = heap[above[2]].values[i]
    BY <1>5, <1>6
  <1>9. /\ Len(Append(above[1], k)) = n + 1 /\ Append(above[1], k)[n + 1] = k
        /\ \A j \in 1..n : Append(above[1], k)[j] = above[1][j]
    BY <1>3, <1>7, AppendProperties DEF IsNode
  <1>10. QED BY <1>3, <1>4, <1>6, <1>8, <1>9

\* The entry with a key is the one Get gets.
LEMMA EntryIsGot ==
  ASSUME WellShaped, NEW c \in DOMAIN heap, NEW i \in Entries(c)
  PROVE  Get(c, heap[c].keys[i]) = heap[c].values[i]
  <1>1. \A x, y \in Entries(c) : heap[c].keys[x] = heap[c].keys[y] => x = y
    BY EntriesAre
  <1>2. (CHOOSE x \in Entries(c) : heap[c].keys[x] = heap[c].keys[i]) = i
    BY <1>1
  <1>3. QED BY <1>2 DEF Get

\* What stands below a field of the root that is a list.
LEMMA BelowRoot ==
  ASSUME WellShaped, 1 <= MaxNestingDepth, NEW node \in Level[2], IsList(Get(root, node[1][1]))
  PROVE  \E i \in Entries(Get(root, node[1][1])) :
            /\ node[2] = Items(Get(root, node[1][1]))[i]
            /\ node[1][2] = heap[Get(root, node[1][1])].keys[i]
            /\ node[1][2] # "allowed_parameters"
  <1>1. 0 \in 0..MaxNestingDepth /\ 1 \in 0..MaxNestingDepth /\ 0 + 1 = 1 /\ 1 + 1 = 2
    BY LimitsAssumption
  <1>2. PICK above \in Level[1] :
           /\ above[2] \in DOMAIN heap
           /\ node[1][1] = above[1][1]
           /\ \E i \in Entries(above[2]) : /\ node[1][2] = heap[above[2]].keys[i]
                                           /\ node[2] = heap[above[2]].values[i]
    <2>1. node \in Level[1 + 1]
      BY <1>1
    <2>2. \E above \in Level[1] :
             /\ above[2] \in DOMAIN heap
             /\ \A j \in 1..1 : node[1][j] = above[1][j]
             /\ \E i \in Entries(above[2]) : /\ node[1][1 + 1] = heap[above[2]].keys[i]
                                             /\ node[2] = heap[above[2]].values[i]
      BY <1>1, <2>1, OneLevelUp
    <2>3. QED BY <1>1, <2>2
  <1>3. PICK i \in Entries(above[2]) : /\ node[1][2] = heap[above[2]].keys[i]
                                       /\ node[2] = heap[above[2]].values[i]
    BY <1>2
  <1>4. above[2] = Get(root, above[1][1])
    <2>1. above \in Level[0 + 1]
      BY <1>1
    <2>2. PICK top \in Level[0] :
             /\ top[2] \in DOMAIN heap
             /\ \E x \in Entries(top[2]) : /\ above[1][0 + 1] = heap[top[2]].keys[x]
                                           /\ above[2] = heap[top[2]].values[x]
      BY <1>1, <2>1, OneLevelUp
    <2>3. top[2] = root
      BY LevelEquation
    <2>4. PICK x \in Entries(root) : /\ above[1][1] = heap[root].keys[x]
                                     /\ above[2] = heap[root].values[x]
      BY <1>1, <2>2, <2>3
    <2>5. QED BY <2>2, <2>3, <2>4, EntryIsGot
  <1>5. heap[above[2]].kind = "list"
    BY <1>2, <1>4 DEF IsList
  <1>6. heap[above[2]].keys[i] # "allowed_parameters"
    BY <1>2, <1>5 DEF WellShaped, WellFormed, Entries
  <1>7. QED BY <1>2, <1>3, <1>4, <1>6 DEF Items

\* What stands in a field of a mapping on a list that is a field of the root.
LEMMA BelowItems ==
  ASSUME WellShaped, 2 <= MaxNestingDepth, NEW node \in Level[3], IsList(Get(root, node[1][1])),
         \A i \in Entries(Get(root, node[1][1])) : IsMapping(Items(Get(root, node[1][1]))[i])
  PROVE  \E i \in Entries(Get(root, node[1][1])) :
            /\ node[2] = Get(Items(Get(root, node[1][1]))[i], node[1][3])
            /\ node[1][2] = heap[Get(root, node[1][1])].keys[i]
            /\ node[1][2] # "allowed_parameters"
  <1>1. 2 \in 0..MaxNestingDepth /\ 2 + 1 = 3 /\ 1 <= MaxNestingDepth
    BY LimitsAssumption
  <1>2. PICK above \in Level[2] :
           /\ above[2] \in DOMAIN heap
           /\ node[1][1] = above[1][1] /\ node[1][2] = above[1][2]
           /\ \E x \in Entries(above[2]) : /\ node[1][3] = heap[above[2]].keys[x]
                                           /\ node[2] = heap[above[2]].values[x]
    <2>1. node \in Level[2 + 1]
      BY <1>1
    <2>2. \E above \in Level[2] :
             /\ above[2] \in DOMAIN heap
             /\ \A j \in 1..2 : node[1][j] = above[1][j]
             /\ \E x \in Entries(above[2]) : /\ node[1][2 + 1] = heap[above[2]].keys[x]
                                             /\ node[2] = heap[above[2]].values[x]
      BY <1>1, <2>1, OneLevelUp
    <2>3. 1 \in 1..2 /\ 2 \in 1..2
      OBVIOUS
    <2>4. QED BY <1>1, <2>2, <2>3
  <1>3. PICK x \in Entries(above[2]) : /\ node[1][3] = heap[above[2]].keys[x]
                                       /\ node[2] = heap[above[2]].values[x]
    BY <1>2
  <1>4. node[2] = Get(above[2], node[1][3])
    BY <1>2, <1>3, EntryIsGot
  <1>5. PICK i \in Entries(Get(root, above[1][1])) :
           /\ above[2] = Items(Get(root, above[1][1]))[i]
           /\ above[1][2] = heap[Get(root, above[1][1])].keys[i]
           /\ above[1][2] # "allowed_parameters"
    BY <1>1, <1>2, BelowRoot
  <1>6. QED BY <1>2, <1>4, <1>5

\* A list in a field holds distinct stripped strings: then no two strings below
\* that field are equal in the normal form.
LEMMA UniqueBelow ==
  ASSUME CInv, phase = "accepted", caller = "case",
         NEW key, key # "allowed_parameters", HasStrings(root, key, TRUE),
         Distinct(Items(Get(root, key)))
  PROVE  Unique(Under(key))
  <1>1. /\ WellShaped /\ output = {FormOf(node) : node \in Unfolding}
        /\ MaxNestingDepth \in Nat
    BY LimitsAssumption DEF CInv, VerdictIsRight, CanonicalForm
  <1>2. PICK list : list = Get(root, key)
    OBVIOUS
  <1>3. IsList(list) /\ \A i \in DOMAIN Items(list) : NonemptyString(Items(list)[i])
    BY <1>2 DEF HasStrings, StringList
  <1>4. ASSUME NEW pair \in Under(key)
        PROVE  \E node \in Unfolding, i \in DOMAIN Items(list) :
                  /\ pair = FormOf(node) /\ Len(node[1]) = 2 /\ node[1] \in Seq(Key)
                  /\ node[1][1] = key /\ node[1][2] = heap[list].keys[i]
                  /\ pair[2] = Strip(Items(list)[i])
    <2>1. PICK node \in Unfolding : pair = FormOf(node)
      BY <1>1 DEF Under
    <2>2. Len(node[1]) = 2 /\ node[1][1] = key
      BY <2>1 DEF Under, FormOf
    <2>3. /\ node \in Level[2] /\ 1 <= MaxNestingDepth /\ node[1] \in Seq(Key)
          /\ IsNode(node, 2)
      <3>1. /\ Len(node[1]) \in 0..MaxNestingDepth
            /\ node \in Level[Len(node[1])] /\ IsNode(node, Len(node[1]))
        BY <1>1, TreeIsApart
      <3>2. 2 \in 0..MaxNestingDepth /\ node \in Level[2] /\ IsNode(node, 2)
        BY <2>2, <3>1
      <3>3. QED BY <1>1, <3>2 DEF IsNode
    <2>4. PICK i \in Entries(list) : /\ node[2] = Items(list)[i]
                                     /\ node[1][2] = heap[list].keys[i]
                                     /\ node[1][2] # "allowed_parameters"
      BY <1>1, <1>2, <1>3, <2>2, <2>3, BelowRoot
    <2>5. list \in DOMAIN heap
      <3>1. root \in DOMAIN heap
        BY <1>1 DEF WellShaped
      <3>2. PICK x \in Entries(root) : heap[root].keys[x] = key
        BY DEF HasStrings, Has
      <3>3. list = heap[root].values[x]
        BY <1>1, <1>2, <3>1, <3>2, EntryIsGot
      <3>4. list \in Value
        BY <1>1, <3>1, <3>3, EntriesAre
      <3>5. QED BY <1>1, <1>3, <3>4, Values DEF IsList
    <2>6. i \in DOMAIN Items(list)
      BY <1>1, <2>5, EntriesAre
    <2>7. node[2] \in Scalar /\ node[2] \notin Container
      BY <1>3, <2>4, <2>6, InputsAssumption DEF NonemptyString
    <2>8. Trimmed(node[1])
      <3>1. DOMAIN node[1] = 1..2
        BY <2>2, <2>3, LenProperties
      <3>2. \A j \in 1..2 : j = 1 \/ j = 2
        OBVIOUS
      <3>3. QED BY <2>2, <2>4, <3>1, <3>2 DEF Trimmed
    <2>9. pair[2] = Strip(Items(list)[i])
      BY <2>1, <2>4, <2>7, <2>8 DEF FormOf
    <2>10. QED BY <2>1, <2>2, <2>3, <2>4, <2>6, <2>9
  <1>5. ASSUME NEW p \in Under(key), NEW q \in Under(key), p[2] = q[2]
        PROVE  p = q
    <2>1. PICK a \in Unfolding, i \in DOMAIN Items(list) :
             /\ p = FormOf(a) /\ Len(a[1]) = 2 /\ a[1] \in Seq(Key)
             /\ a[1][1] = key /\ a[1][2] = heap[list].keys[i]
             /\ p[2] = Strip(Items(list)[i])
      BY <1>4
    <2>2. PICK b \in Unfolding, j \in DOMAIN Items(list) :
             /\ q = FormOf(b) /\ Len(b[1]) = 2 /\ b[1] \in Seq(Key)
             /\ b[1][1] = key /\ b[1][2] = heap[list].keys[j]
             /\ q[2] = Strip(Items(list)[j])
      BY <1>4
    <2>3. i = j
      BY <1>2, <1>5, <2>1, <2>2 DEF Distinct
    <2>4. \A x \in 1..2 : a[1][x] = b[1][x]
      <3>1. \A x \in 1..2 : x = 1 \/ x = 2
        OBVIOUS
      <3>2. QED BY <2>1, <2>2, <2>3, <3>1
    <2>5. a[1] = b[1]
      BY <2>1, <2>2, <2>4, SeqEqual
    <2>6. a = b
      BY <1>1, <2>5, TreeIsApart
    <2>7. QED BY <2>1, <2>2, <2>6
  <1>6. QED BY <1>5 DEF Unique

\* A field of the actions of an accepted case, in the normal form.
LEMMA FieldsOfActions ==
  ASSUME CInv, phase = "accepted", caller = "case",
         NEW field, field # "allowed_parameters", NEW pair \in ActionFields(field),
         \A i \in DOMAIN Items(Get(root, "actions")) :
            HasString(Items(Get(root, "actions"))[i], field)
  PROVE  \E node \in Unfolding, i \in DOMAIN Items(Get(root, "actions")) :
            /\ pair = FormOf(node) /\ Len(node[1]) = 3 /\ node[1] \in Seq(Key)
            /\ node[1][1] = "actions" /\ node[1][3] = field
            /\ node[1][2] = heap[Get(root, "actions")].keys[i]
            /\ pair[2] = Strip(Get(Items(Get(root, "actions"))[i], field))
  <1>1. /\ WellShaped /\ output = {FormOf(node) : node \in Unfolding}
        /\ MaxNestingDepth \in Nat /\ ValidCase(root)
    BY LimitsAssumption DEF CInv, VerdictIsRight, CanonicalForm, Valid
  <1>2. PICK list : list = Get(root, "actions")
    OBVIOUS
  <1>3. IsList(list) /\ \A i \in DOMAIN Items(list) : IsMapping(Items(list)[i])
    BY <1>1, <1>2 DEF ValidCase, ValidActions, ValidAction
  <1>4. list \in DOMAIN heap /\ DOMAIN Items(list) = Entries(list)
    <2>1. root \in DOMAIN heap
      BY <1>1 DEF WellShaped
    <2>2. PICK x \in Entries(root) : heap[root].keys[x] = "actions"
      BY <1>1 DEF ValidCase, Has
    <2>3. list = heap[root].values[x]
      BY <1>1, <1>2, <2>1, <2>2, EntryIsGot
    <2>4. list \in Value
      BY <1>1, <2>1, <2>3, EntriesAre
    <2>5. list \in DOMAIN heap
      BY <1>1, <1>3, <2>4, Values DEF IsList
    <2>6. QED BY <1>1, <2>5, EntriesAre
  <1>5. PICK node \in Unfolding : pair = FormOf(node)
    BY <1>1 DEF ActionFields
  <1>6. Len(node[1]) = 3 /\ node[1][1] = "actions" /\ node[1][3] = field
    BY <1>5 DEF ActionFields, FormOf
  <1>7. node \in Level[3] /\ 2 <= MaxNestingDepth /\ node[1] \in Seq(Key)
    <2>1. /\ Len(node[1]) \in 0..MaxNestingDepth
          /\ node \in Level[Len(node[1])] /\ IsNode(node, Len(node[1]))
      BY <1>1, TreeIsApart
    <2>2. 3 \in 0..MaxNestingDepth /\ node \in Level[3] /\ IsNode(node, 3)
      BY <1>6, <2>1
    <2>3. QED BY <1>1, <2>2 DEF IsNode
  <1>8. PICK i \in Entries(list) : /\ node[2] = Get(Items(list)[i], field)
                                   /\ node[1][2] = heap[list].keys[i]
                                   /\ node[1][2] # "allowed_parameters"
    BY <1>1, <1>2, <1>3, <1>4, <1>6, <1>7, BelowItems
  <1>9. node[2] \in Scalar /\ node[2] \notin Container
    BY <1>2, <1>4, <1>8, InputsAssumption DEF HasString, NonemptyString
  <1>10. Trimmed(node[1])
    <2>1. DOMAIN node[1] = 1..3
      BY <1>6, <1>7, LenProperties
    <2>2. \A j \in 1..3 : j = 1 \/ j = 2 \/ j = 3
      OBVIOUS
    <2>3. QED BY <1>6, <1>8, <2>1, <2>2 DEF Trimmed
  <1>11. pair[2] = Strip(Get(Items(list)[i], field))
    BY <1>5, <1>8, <1>9, <1>10 DEF FormOf
  <1>12. QED BY <1>2, <1>4, <1>5, <1>6, <1>7, <1>8, <1>11

\* What was validated on the raw case is true of the normal form, however its
\* objects are shared: constraint and action IDs are unique when stripped, and
\* consequence classes are ones the kernel knows (normalize_case).
THEOREM ValidityIsKept ==
  Spec => []NormalFormsAreValid
  <1>1. CInv => NormalFormsAreValid
    <2> SUFFICES ASSUME CInv, phase = "accepted", caller = "case"
                 PROVE  /\ Unique(Under("constraints"))
                        /\ Unique(ActionFields("id"))
                        /\ \A pair \in ActionFields("consequence") :
                              pair[2] \in ConsequenceClasses
      BY DEF NormalFormsAreValid
    <2>1. ValidCase(root) /\ WellShaped
      BY DEF CInv, VerdictIsRight, Valid
    <2>2. Unique(Under("constraints"))
      BY <2>1, UniqueBelow DEF ValidCase
    <2>3. PICK list : list = Get(root, "actions")
      OBVIOUS
    <2>4. /\ \A i \in DOMAIN Items(list) :
                /\ HasString(Items(list)[i], "id")
                /\ HasString(Items(list)[i], "consequence")
                /\ Strip(Get(Items(list)[i], "consequence")) \in ConsequenceClasses
          /\ \A i, j \in DOMAIN Items(list) :
                Strip(Get(Items(list)[i], "id")) = Strip(Get(Items(list)[j], "id")) => i = j
      BY <2>1, <2>3 DEF ValidCase, ValidActions, ValidAction, Distinct
    <2>5. ASSUME NEW p \in ActionFields("id"), NEW q \in ActionFields("id"), p[2] = q[2]
          PROVE  p = q
      <3>1. PICK a \in Unfolding, i \in DOMAIN Items(list) :
               /\ p = FormOf(a) /\ Len(a[1]) = 3 /\ a[1] \in Seq(Key)
               /\ a[1][1] = "actions" /\ a[1][3] = "id"
               /\ a[1][2] = heap[list].keys[i]
               /\ p[2] = Strip(Get(Items(list)[i], "id"))
        BY <2>3, <2>4, FieldsOfActions
      <3>2. PICK b \in Unfolding, j \in DOMAIN Items(list) :
               /\ q = FormOf(b) /\ Len(b[1]) = 3 /\ b[1] \in Seq(Key)
               /\ b[1][1] = "actions" /\ b[1][3] = "id"
               /\ b[1][2] = heap[list].keys[j]
               /\ q[2] = Strip(Get(Items(list)[j], "id"))
        BY <2>3, <2>4, FieldsOfActions
      <3>3. i = j
        BY <2>4, <2>5, <3>1, <3>2
      <3>4. \A x \in 1..3 : a[1][x] = b[1][x]
        <4>1. \A x \in 1..3 : x = 1 \/ x = 2 \/ x = 3
          OBVIOUS
        <4>2. QED BY <3>1, <3>2, <3>3, <4>1
      <3>5. a[1] = b[1]
        BY <3>1, <3>2, <3>4, SeqEqual
      <3>6. a = b
        BY <2>1, <3>5, TreeIsApart
      <3>7. QED BY <3>1, <3>2, <3>6
    <2>6. \A pair \in ActionFields("consequence") : pair[2] \in ConsequenceClasses
      BY <2>3, <2>4, FieldsOfActions
    <2>7. QED BY <2>2, <2>5, <2>6 DEF Unique
  <1>2. QED BY <1>1, TheWalkIsTracked, PTL
=============================================================================
