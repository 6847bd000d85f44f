---------------------------- MODULE FiniteFolds ----------------------------
(***************************************************************************)
(* Facts about folds and sums over finite sets that the proofs about the   *)
(* simulators need: the counter of shadow clones is a sum over the         *)
(* portals of sums over the entities, and CProp_Portal::Activate goes      *)
(* through the list of what the portal touches.                            *)
(***************************************************************************)
EXTENDS Integers, FiniteSets, Functions, FiniteSetsExt, FiniteSetTheorems,
        WellFoundedInduction, TLAPS

-----------------------------------------------------------------------------
(* Smallest elements, which take the place of induction *)

\* A set of numbers that is not empty has a least one.
LEMMA LeastNumber ==
    ASSUME NEW N \in SUBSET Nat, N # {}
    PROVE  \E n \in N : \A m \in N : n <= m
<1>1. IsWellFoundedOn(OpToRel(<, Nat), Nat)
  BY NatLessThanWellFounded
<1>2. PICK n \in N : \A m \in N : <<m, n>> \notin OpToRel(<, Nat)
  BY <1>1, WFMin
<1>3. \A m \in N : ~(m < n)
  BY <1>2 DEF OpToRel
<1> QED BY <1>3

\* A family of subsets of a finite set that is not empty has a member that no
\* longer belongs to it when any one element is taken away.
LEMMA MinimalMember ==
    ASSUME NEW S, IsFiniteSet(S), NEW C \in SUBSET (SUBSET S), C # {}
    PROVE  \E m \in C : \A x \in m : m \ {x} \notin C
<1> DEFINE N == {Cardinality(m) : m \in C}
<1>1. \A m \in C : IsFiniteSet(m) /\ Cardinality(m) \in Nat
  BY FS_Subset, FS_CardinalityType
<1>2. PICK n \in N : \A k \in N : n <= k
  <2>1. N \in SUBSET Nat /\ N # {}
    BY <1>1
  <2> HIDE DEF N
  <2> QED BY <2>1, LeastNumber
<1>3. PICK m \in C : n = Cardinality(m)
  BY <1>2
<1>4. ASSUME NEW x \in m PROVE m \ {x} \notin C
  <2>1. Cardinality(m \ {x}) = Cardinality(m) - 1
    BY <1>1, <1>3, <1>4, FS_RemoveElement
  <2> QED BY <1>1, <1>2, <1>3, <2>1
<1> QED BY <1>4

\* A finite set has a subset of each smaller size.
LEMMA SubsetOfSize ==
    ASSUME NEW S, IsFiniteSet(S), NEW n \in Nat, n <= Cardinality(S)
    PROVE  \E T \in SUBSET S : Cardinality(T) = n
<1> DEFINE C == {m \in SUBSET S : n <= Cardinality(m)}
<1>1. PICK m \in C : \A x \in m : m \ {x} \notin C
  <2>1. C \in SUBSET (SUBSET S) /\ C # {}
    OBVIOUS
  <2> HIDE DEF C
  <2> QED BY <2>1, MinimalMember
<1>2. IsFiniteSet(m) /\ Cardinality(m) \in Nat
  BY FS_Subset, FS_CardinalityType
<1>3. CASE m = {}
  BY <1>3, <1>2, FS_EmptySet
<1>4. CASE m # {}
  <2>1. PICK x \in m : TRUE
    BY <1>4
  <2>2. Cardinality(m \ {x}) = Cardinality(m) - 1
    BY <1>2, FS_RemoveElement
  <2>3. ~(n <= Cardinality(m) - 1)
    BY <1>1, <2>2
  <2> QED BY <1>1, <1>2, <2>3
<1> QED BY <1>3, <1>4

-----------------------------------------------------------------------------
(* The function that a fold computes *)

\* The element a fold takes next, if it may be any.
Next1(s) == CHOOSE x \in s : TRUE

\* The equation that the fold's function has to satisfy, for a step that maps
\* an element and a value of F to a value of F; take[s] is the element of s
\* that is taken next.
Folding(it, S, take, base, step) ==
    it = [s \in SUBSET S |-> IF s = {} THEN base
                             ELSE step[<<take[s], it[s \ {take[s]}]>>]]

\* There is such a function.
LEMMA FoldingExists ==
    ASSUME NEW S, IsFiniteSet(S), NEW F, NEW base \in F, NEW step \in [S \X F -> F],
           NEW take, \A s \in SUBSET S : s # {} => take[s] \in s
    PROVE  \E it \in [SUBSET S -> F] : Folding(it, S, take, base, step)
<1> DEFINE Image(g, s) == IF s = {} THEN base ELSE step[<<take[s], g[s \ {take[s]}]>>]
           UpTo(g, n) == \A s \in SUBSET S : Cardinality(s) <= n => g[s] = Image(g, s)
           Bad == {n \in Nat : ~ \E g \in [SUBSET S -> F] : UpTo(g, n)}
<1>1. \A s \in SUBSET S : IsFiniteSet(s) /\ Cardinality(s) \in Nat
  BY FS_Subset, FS_CardinalityType
<1>2. \A s \in SUBSET S : s # {} => take[s] \in s /\ s \ {take[s]} \in SUBSET S
  OBVIOUS
<1>3. ASSUME NEW g \in [SUBSET S -> F]
      PROVE  [s \in SUBSET S |-> Image(g, s)] \in [SUBSET S -> F]
  BY <1>2, <1>3
<1>4. Bad = {}
  <2> SUFFICES ASSUME Bad # {} PROVE FALSE
    OBVIOUS
  <2>1. PICK n \in Bad : \A m \in Bad : n <= m
    <3>1. Bad \in SUBSET Nat
      OBVIOUS
    <3> HIDE DEF Bad
    <3> QED BY <3>1, LeastNumber
  <2>2. CASE n = 0
    <3> DEFINE g == [s \in SUBSET S |-> base]
    <3>1. UpTo(g, 0)
      <4>1. \A s \in SUBSET S : Cardinality(s) <= 0 => s = {}
        BY <1>1, FS_EmptySet
      <4> QED BY <4>1
    <3>2. g \in [SUBSET S -> F]
      OBVIOUS
    <3> HIDE DEF g, UpTo
    <3> QED BY <2>1, <2>2, <3>1, <3>2
  <2>3. CASE n # 0
    <3>1. n - 1 \in Nat /\ n - 1 \notin Bad
      <4>1. n \in Nat
        BY <2>1
      <4> HIDE DEF Bad
      <4> QED BY <2>1, <2>3, <4>1
    <3>2. PICK g \in [SUBSET S -> F] : UpTo(g, n - 1)
      BY <3>1
    <3> DEFINE h == [s \in SUBSET S |-> Image(g, s)]
    <3>3. h \in [SUBSET S -> F]
      BY <1>3
    <3>4. \A s \in SUBSET S : Cardinality(s) <= n - 1 => h[s] = g[s]
      BY <3>2
    <3>5. ASSUME NEW s \in SUBSET S, Cardinality(s) <= n
          PROVE  h[s] = Image(h, s)
      <4>1. CASE s = {}
        BY <4>1
      <4>2. CASE s # {}
        <5>1. Cardinality(s \ {take[s]}) = Cardinality(s) - 1
          BY <1>1, <1>2, <4>2, FS_RemoveElement
        <5>2. Cardinality(s \ {take[s]}) <= n - 1
          BY <1>1, <3>1, <3>5, <5>1
        <5>3. h[s \ {take[s]}] = g[s \ {take[s]}]
          <6> HIDE DEF h
          <6> QED BY <1>2, <3>4, <4>2, <5>2
        <5> QED BY <4>2, <5>3
      <4> QED BY <4>1, <4>2
    <3>6. UpTo(h, n)
      BY <3>5
    <3> HIDE DEF h, UpTo
    <3> QED BY <2>1, <3>3, <3>6
  <2> HIDE DEF Bad
  <2> QED BY <2>2, <2>3
<1>5. Cardinality(S) \in Nat
  BY FS_CardinalityType
<1>6. PICK g \in [SUBSET S -> F] : UpTo(g, Cardinality(S))
  BY <1>4, <1>5
<1>7. \A s \in SUBSET S : Cardinality(s) <= Cardinality(S)
  BY FS_Subset
<1>8. \A s \in SUBSET S : g[s] = Image(g, s)
  BY <1>6, <1>7
<1>9. g = [s \in SUBSET S |-> Image(g, s)]
  <2> DEFINE h == [s \in SUBSET S |-> Image(g, s)]
  <2>1. h \in [SUBSET S -> F]
    BY <1>3
  <2>2. \A s \in SUBSET S : h[s] = g[s]
    BY <1>8
  <2> HIDE DEF h
  <2>3. h = g
    BY <2>1, <2>2
  <2> QED BY <2>3 DEF h
<1> QED BY <1>9 DEF Folding

-----------------------------------------------------------------------------
(* Sums of functions *)

\* The function that SumFunction computes.
SumIter(f) ==
    CHOOSE it : it = [s \in SUBSET DOMAIN f |->
                        IF s = {} THEN 0 ELSE f[Next1(s)] + it[s \ {Next1(s)}]]

\* It is 0 for no element, and one element is added at a time.
Summing(I, S, f) ==
    /\ I[{}] = 0
    /\ \A s \in SUBSET S : s # {} => I[s] = f[Next1(s)] + I[s \ {Next1(s)}]

LEMMA SumIterWorks ==
    ASSUME NEW S, IsFiniteSet(S), NEW f \in [S -> Int]
    PROVE  \E I \in [SUBSET S -> Int] : Summing(I, S, f) /\ SumFunction(f) = I[S]
<1> DEFINE step == [q \in S \X Int |-> f[q[1]] + q[2]]
           take == [s \in SUBSET S |-> Next1(s)]
           Eq(it) == it = [s \in SUBSET DOMAIN f |->
                             IF s = {} THEN 0 ELSE f[Next1(s)] + it[s \ {Next1(s)}]]
<1>1. step \in [S \X Int -> Int]
  OBVIOUS
<1>0. \A s \in SUBSET S : take[s] = Next1(s) /\ (s # {} => take[s] \in s)
  BY DEF Next1
<1>2. PICK g \in [SUBSET S -> Int] : Folding(g, S, take, 0, step)
  <2> HIDE DEF step, take
  <2>1. 0 \in Int
    OBVIOUS
  <2> QED BY <1>0, <1>1, <2>1, FoldingExists
<1>3. \A s \in SUBSET S : s # {} => Next1(s) \in s /\ s \ {Next1(s)} \in SUBSET S
  BY DEF Next1
<1>4. \A s \in SUBSET S : g[s] = IF s = {} THEN 0 ELSE f[Next1(s)] + g[s \ {Next1(s)}]
  <2>1. \A s \in SUBSET S : s # {} =>
          step[<<Next1(s), g[s \ {Next1(s)}]>>] = f[Next1(s)] + g[s \ {Next1(s)}]
    BY <1>3
  <2> HIDE DEF step
  <2>2. \A s \in SUBSET S :
           g[s] = IF s = {} THEN 0 ELSE step[<<take[s], g[s \ {take[s]}]>>]
    <3> HIDE DEF take
    <3> QED BY <1>2 DEF Folding
  <2>3. \A s \in SUBSET S : take[s] = Next1(s)
    BY <1>0
  <2> HIDE DEF take
  <2> QED BY <2>1, <2>2, <2>3
<1>5. Eq(g)
  <2>1. DOMAIN f = S
    OBVIOUS
  <2>2. g = [s \in SUBSET S |-> IF s = {} THEN 0 ELSE f[Next1(s)] + g[s \ {Next1(s)}]]
    BY <1>4
  <2> QED BY <2>1, <2>2
<1>6. Eq(SumIter(f))
  BY <1>5 DEF SumIter
<1>7. \A s \in SUBSET S :
         SumIter(f)[s] = IF s = {} THEN 0 ELSE f[Next1(s)] + SumIter(f)[s \ {Next1(s)}]
  <2> HIDE DEF SumIter
  <2> QED BY <1>6
<1>a. SumIter(f)[{}] = 0
  <2>1. {} \in SUBSET S
    OBVIOUS
  <2> HIDE DEF SumIter
  <2> QED BY <1>7, <2>1
<1>b. \A s \in SUBSET S : s # {} => SumIter(f)[s] = f[Next1(s)] + SumIter(f)[s \ {Next1(s)}]
  <2> HIDE DEF SumIter
  <2> QED BY <1>7
<1>8. \A s \in SUBSET S : SumIter(f)[s] = g[s]
  <2> DEFINE C == {s \in SUBSET S : SumIter(f)[s] # g[s]}
  <2> SUFFICES ASSUME C # {} PROVE FALSE
    OBVIOUS
  <2>1. PICK m \in C : \A x \in m : m \ {x} \notin C
    <3>1. C \in SUBSET (SUBSET S)
      OBVIOUS
    <3> HIDE DEF C
    <3> QED BY <3>1, MinimalMember
  <2> HIDE DEF Eq, step, SumIter
  <2>2. m # {}
    BY <1>4, <1>a, <2>1
  <2>3. SumIter(f)[m \ {Next1(m)}] = g[m \ {Next1(m)}]
    BY <1>3, <2>1, <2>2
  <2> QED BY <1>4, <1>b, <2>1, <2>2, <2>3
<1>9. SumFunction(f) = SumIter(f)[S]
  BY DEF SumFunction, SumFunctionOnSet, FoldFunctionOnSet, MapThenFoldSet, SumIter, Next1
<1>c. Summing(g, S, f)
  BY <1>4 DEF Summing
<1>d. SumFunction(f) = g[S]
  <2> HIDE DEF SumIter
  <2> QED BY <1>8, <1>9
<1> QED BY <1>c, <1>d

\* A sum of integers is one.
LEMMA SumType ==
    ASSUME NEW S, IsFiniteSet(S), NEW f \in [S -> Int]
    PROVE  SumFunction(f) \in Int
<1>1. PICK I \in [SUBSET S -> Int] : SumFunction(f) = I[S]
  BY SumIterWorks
<1>2. S \in SUBSET S
  OBVIOUS
<1> QED BY <1>1, <1>2

\* The sum of zeros.
LEMMA SumZero ==
    ASSUME NEW S, IsFiniteSet(S), NEW f \in [S -> Int], \A x \in S : f[x] = 0
    PROVE  SumFunction(f) = 0
<1> PICK I \in [SUBSET S -> Int] : Summing(I, S, f) /\ SumFunction(f) = I[S]
  BY SumIterWorks
<1> DEFINE C == {s \in SUBSET S : I[s] # 0}
<1>0. /\ I[{}] = 0
      /\ \A s \in SUBSET S : s # {} => I[s] = f[Next1(s)] + I[s \ {Next1(s)}]
  BY DEF Summing
<1>1. C = {}
  <2> SUFFICES ASSUME C # {} PROVE FALSE
    OBVIOUS
  <2>1. PICK m \in C : \A x \in m : m \ {x} \notin C
    <3>1. C \in SUBSET (SUBSET S)
      OBVIOUS
    <3> HIDE DEF C
    <3> QED BY <3>1, MinimalMember
  <2>2. m \in SUBSET S /\ m # {}
    BY <1>0, <2>1
  <2>3. Next1(m) \in m
    BY <2>2 DEF Next1
  <2>4. I[m \ {Next1(m)}] = 0 /\ f[Next1(m)] = 0
    BY <2>1, <2>2, <2>3
  <2> QED BY <1>0, <2>1, <2>2, <2>4
<1> QED BY <1>0, <1>1

\* A sum changes by what one of its terms changes by.
Follows(f, g, x) == SumFunction(g) = SumFunction(f) - f[x] + g[x]

LEMMA SumUpdate ==
    ASSUME NEW S, IsFiniteSet(S)
    PROVE  \A f, g \in [S -> Int], x \in S :
              (\A y \in S : y # x => g[y] = f[y]) => Follows(f, g, x)
<1> SUFFICES ASSUME NEW f \in [S -> Int], NEW g \in [S -> Int], NEW x \in S,
                    \A y \in S : y # x => g[y] = f[y]
             PROVE  SumFunction(g) = SumFunction(f) - f[x] + g[x]
  BY DEF Follows
<1> PICK I \in [SUBSET S -> Int] : Summing(I, S, f) /\ SumFunction(f) = I[S]
  BY SumIterWorks
<1> PICK J \in [SUBSET S -> Int] : Summing(J, S, g) /\ SumFunction(g) = J[S]
  BY SumIterWorks
<1> DEFINE v == g[x]
           C == {s \in SUBSET S : J[s] # IF x \in s THEN I[s] - f[x] + v ELSE I[s]}
<1>0. /\ I[{}] = 0
      /\ \A s \in SUBSET S : s # {} => I[s] = f[Next1(s)] + I[s \ {Next1(s)}]
  BY DEF Summing
<1>b. /\ J[{}] = 0
      /\ \A s \in SUBSET S : s # {} => J[s] = g[Next1(s)] + J[s \ {Next1(s)}]
  BY DEF Summing
<1>c. f[x] \in Int /\ v \in Int
  OBVIOUS
<1> HIDE DEF v
<1>1. C = {}
  <2> SUFFICES ASSUME C # {} PROVE FALSE
    OBVIOUS
  <2>1. PICK m \in C : \A y \in m : m \ {y} \notin C
    <3>1. C \in SUBSET (SUBSET S)
      OBVIOUS
    <3> HIDE DEF C
    <3> QED BY <3>1, MinimalMember
  <2>2. m \in SUBSET S /\ m # {}
    BY <1>0, <1>b, <2>1
  <2> DEFINE c == Next1(m)
  <2>3. c \in m
    BY <2>2 DEF Next1
  <2> HIDE DEF c
  <2>4. m \ {c} \in SUBSET S /\ m \ {c} \notin C
    BY <2>1, <2>2, <2>3
  <2>5. /\ I[m] = f[c] + I[m \ {c}] /\ J[m] = g[c] + J[m \ {c}]
        /\ f[c] \in Int /\ g[c] \in Int /\ I[m \ {c}] \in Int /\ J[m \ {c}] \in Int
    BY <1>0, <1>b, <2>2, <2>3, <2>4 DEF c
  <2>6. J[m \ {c}] = IF x \in m \ {c} THEN I[m \ {c}] - f[x] + v ELSE I[m \ {c}]
    BY <2>4
  <2>7. J[m] # IF x \in m THEN I[m] - f[x] + v ELSE I[m]
    BY <2>1
  <2> HIDE DEF C
  <2>8. CASE x = c
    BY <1>c, <2>3, <2>5, <2>6, <2>7, <2>8 DEF v
  <2>9. CASE x # c
    <3>1. g[c] = f[c]
      BY <2>2, <2>3, <2>9
    <3>2. CASE x \in m
      BY <1>c, <2>5, <2>6, <2>7, <2>9, <3>1, <3>2
    <3>3. CASE x \notin m
      BY <1>c, <2>5, <2>6, <2>7, <2>9, <3>1, <3>3
    <3> QED BY <3>2, <3>3
  <2> QED BY <2>8, <2>9
<1>2. S \notin C
  BY <1>1
<1>3. J[S] = I[S] - f[x] + v
  BY <1>2
<1> QED BY <1>3 DEF v

\* A sum of naturals is one, and none of its terms is greater.
LEMMA SumNat ==
    ASSUME NEW S, IsFiniteSet(S), NEW f \in [S -> Int], \A x \in S : f[x] >= 0
    PROVE  SumFunction(f) \in Nat /\ \A x \in S : f[x] <= SumFunction(f)
<1> PICK I \in [SUBSET S -> Int] : Summing(I, S, f) /\ SumFunction(f) = I[S]
  BY SumIterWorks
<1> DEFINE C == {s \in SUBSET S : ~(I[s] >= 0 /\ \A x \in s : f[x] <= I[s])}
<1>0. /\ I[{}] = 0
      /\ \A s \in SUBSET S : s # {} => I[s] = f[Next1(s)] + I[s \ {Next1(s)}]
  BY DEF Summing
<1>1. C = {}
  <2> SUFFICES ASSUME C # {} PROVE FALSE
    OBVIOUS
  <2>1. PICK m \in C : \A x \in m : m \ {x} \notin C
    <3>1. C \in SUBSET (SUBSET S)
      OBVIOUS
    <3> HIDE DEF C
    <3> QED BY <3>1, MinimalMember
  <2>2. m \in SUBSET S
    BY <2>1
  <2>3. ~(I[m] >= 0 /\ \A x \in m : f[x] <= I[m])
    BY <2>1
  <2>4. m # {}
    <3> SUFFICES ASSUME m = {} PROVE FALSE
      OBVIOUS
    <3>1. I[m] = 0 /\ \A x \in m : f[x] <= I[m]
      BY <1>0
    <3> HIDE DEF C
    <3> QED BY <2>3, <3>1
  <2> DEFINE c == Next1(m)
  <2>5. c \in m
    BY <2>4 DEF Next1
  <2>6. /\ m \ {c} \in SUBSET S /\ I[m] = f[c] + I[m \ {c}] /\ I[m \ {c}] \in Int
        /\ f[c] \in Int /\ f[c] >= 0
    BY <1>0, <2>2, <2>4, <2>5
  <2> HIDE DEF c
  <2>7. I[m \ {c}] >= 0 /\ \A x \in m \ {c} : f[x] <= I[m \ {c}]
    BY <2>1, <2>5, <2>6
  <2> HIDE DEF C
  <2>8. I[m] \in Int /\ I[m] >= 0 /\ f[c] <= I[m] /\ I[m \ {c}] <= I[m]
    BY <2>6, <2>7
  <2>9. ASSUME NEW x \in m, x # c PROVE f[x] <= I[m]
    <3>1. f[x] \in Int /\ f[x] <= I[m \ {c}]
      BY <2>2, <2>7, <2>9
    <3> QED BY <2>6, <2>8, <3>1
  <2> QED BY <2>3, <2>8, <2>9
<1>2. S \in SUBSET S /\ S \notin C
  BY <1>1
<1>3. I[S] \in Int /\ I[S] >= 0 /\ \A x \in S : f[x] <= I[S]
  BY <1>2
<1> HIDE DEF C
<1> QED BY <1>3

\* One more at each of the elements of M.
LEMMA SumAddOne ==
    ASSUME NEW S, IsFiniteSet(S), NEW f \in [S -> Int], NEW M \in SUBSET S
    PROVE  SumFunction([x \in S |-> IF x \in M THEN f[x] + 1 ELSE f[x]])
              = SumFunction(f) + Cardinality(M)
<1> DEFINE g(T) == [x \in S |-> IF x \in T THEN f[x] + 1 ELSE f[x]]
           C == {T \in SUBSET S : SumFunction(g(T)) # SumFunction(f) + Cardinality(T)}
<1>1. C = {}
  <2> SUFFICES ASSUME C # {} PROVE FALSE
    OBVIOUS
  <2>1. PICK T \in C : \A x \in T : T \ {x} \notin C
    <3>1. C \in SUBSET (SUBSET S)
      OBVIOUS
    <3> HIDE DEF C
    <3> QED BY <3>1, MinimalMember
  <2>2. /\ T \in SUBSET S /\ IsFiniteSet(T) /\ Cardinality(T) \in Nat
        /\ SumFunction(g(T)) # SumFunction(f) + Cardinality(T)
    BY <2>1, FS_Subset, FS_CardinalityType
  <2>3. SumFunction(f) \in Int
    BY SumType
  <2>4. CASE T = {}
    <3>1. g(T) = f
      BY <2>4
    <3>2. Cardinality(T) = 0
      BY <2>4, FS_EmptySet
    <3> QED BY <2>2, <2>3, <3>1, <3>2
  <2>5. CASE T # {}
    <3>1. PICK x \in T : TRUE
      BY <2>5
    <3>2. SumFunction(g(T \ {x})) = SumFunction(f) + Cardinality(T \ {x})
      BY <2>1, <2>2, <3>1
    <3>3. Cardinality(T \ {x}) = Cardinality(T) - 1
      BY <2>2, <3>1, FS_RemoveElement
    <3>4. /\ g(T \ {x}) \in [S -> Int] /\ g(T) \in [S -> Int] /\ x \in S
          /\ \A y \in S : y # x => g(T)[y] = g(T \ {x})[y]
          /\ g(T \ {x})[x] = f[x] /\ g(T)[x] = f[x] + 1 /\ f[x] \in Int
      BY <2>2, <3>1
    <3> HIDE DEF g, C
    <3>5. SumFunction(g(T)) = SumFunction(g(T \ {x})) - g(T \ {x})[x] + g(T)[x]
      <4>1. Follows(g(T \ {x}), g(T), x)
        BY <3>4, SumUpdate
      <4> QED BY <4>1 DEF Follows
    <3>6. SumFunction(g(T \ {x})) \in Int /\ SumFunction(g(T)) \in Int
      BY <3>4, SumType
    <3> QED BY <2>2, <2>3, <3>2, <3>3, <3>4, <3>5, <3>6
  <2> QED BY <2>4, <2>5
<1>2. M \notin C
  BY <1>1
<1> QED BY <1>2

\* One less at each of the elements of M.
LEMMA SumTakeOne ==
    ASSUME NEW S, IsFiniteSet(S), NEW f \in [S -> Int], NEW M \in SUBSET S
    PROVE  SumFunction([x \in S |-> IF x \in M THEN f[x] - 1 ELSE f[x]])
              = SumFunction(f) - Cardinality(M)
<1> DEFINE g == [x \in S |-> IF x \in M THEN f[x] - 1 ELSE f[x]]
<1>1. g \in [S -> Int] /\ IsFiniteSet(M) /\ Cardinality(M) \in Int
  BY FS_Subset, FS_CardinalityType
<1>2. f = [x \in S |-> IF x \in M THEN g[x] + 1 ELSE g[x]]
  OBVIOUS
<1> HIDE DEF g
<1>3. SumFunction(f) = SumFunction(g) + Cardinality(M)
  BY <1>1, <1>2, SumAddOne
<1>4. SumFunction(g) \in Int
  BY <1>1, SumType
<1> QED BY <1>1, <1>3, <1>4 DEF g
=============================================================================
