-------------------------- MODULE EnergyBallProofs --------------------------
(* Proofs about EnergyBall, for any number of balls and any times.             *)
(*                                                                             *)
(* The balls are counted by the places at which the list has a flying one.      *)
(* BallsConserved follows step by step, but for SUB_Remove: that the ball it     *)
(* takes away was lost before is the invariant SpentAreRemoved. CleanupDelete-  *)
(* List moves balls to other places of the list, so it needs that the places    *)
(* kept and the places taken correspond one to one (PickedFacts).              *)
EXTENDS EnergyBall, FiniteFolds, SequenceTheorems

\* The removal of a ball is scheduled by its explosion only.
SpentAreRemoved == \A i \in DOMAIN balls : balls[i].remove # Never => balls[i].spent

BallInv == BallTypeOK /\ SpentAreRemoved

-----------------------------------------------------------------------------
(* Lists *)

\* The number of elements of K up to i.
Rank(K, i) == Cardinality({j \in K : j <= i})

\* Ranks number the elements of a finite set of numbers, one to one.
LEMMA Ranks ==
    ASSUME NEW m \in Nat, NEW K \in SUBSET (1..m)
    PROVE  /\ Cardinality(K) \in Nat
           /\ [i \in K |-> Rank(K, i)] \in Bijection(K, 1..Cardinality(K))
<1> DEFINE n == Cardinality(K)
           r == [i \in K |-> Rank(K, i)]
<1>1. IsFiniteSet(K) /\ n \in Nat
  <2>1. 1 \in Int /\ m \in Int
    OBVIOUS
  <2>2. IsFiniteSet(K)
    BY <2>1, FS_Interval, FS_Subset
  <2> QED BY <2>2, FS_CardinalityType
<1>2. ASSUME NEW i \in K
      PROVE  /\ IsFiniteSet({j \in K : j <= i}) /\ Rank(K, i) \in 1..n
  <2> DEFINE U == {j \in K : j <= i}
  <2>1. U \in SUBSET K /\ i \in U
    OBVIOUS
  <2>2. IsFiniteSet(U) /\ Cardinality(U) \in Nat /\ Cardinality(U) <= n
    BY <1>1, <2>1, FS_Subset, FS_CardinalityType
  <2>3. Cardinality(U) # 0
    BY <2>1, <2>2, FS_EmptySet
  <2> QED BY <1>1, <2>2, <2>3 DEF Rank
<1>3. ASSUME NEW i \in K, NEW k \in K, i < k
      PROVE  Rank(K, i) # Rank(K, k)
  <2> DEFINE U == {j \in K : j <= i}
             V == {j \in K : j <= k}
  <2>1. U \in SUBSET V /\ k \in V /\ k \notin U
    <3>1. \A j \in K : j <= i => j <= k
      BY <1>3
    <3>2. k <= k /\ ~(k <= i)
      BY <1>3
    <3> QED BY <3>1, <3>2
  <2>2. Cardinality(V) = Cardinality(U) => U = V
    BY <1>2, <2>1, FS_Subset
  <2> QED BY <2>1, <2>2 DEF Rank
<1>4. \A i, k \in K : r[i] = r[k] => i = k
  BY <1>3
<1>5. r \in [K -> 1..n]
  BY <1>2
<1> HIDE DEF r, n
<1>6. r \in Injection(K, 1..n)
  BY <1>4, <1>5 DEF Injection, IsInjective
<1>7. IsFiniteSet(1..n) /\ Cardinality(1..n) = n
  BY <1>1, FS_Interval
<1>8. r \in Surjection(K, 1..n)
  BY <1>6, <1>7, FS_Injection DEF n
<1> QED BY <1>1, <1>6, <1>8 DEF Bijection, r, n

\* A list of which the places of K are kept: its length, and where they go.
LEMMA PickedFacts ==
    ASSUME NEW T, NEW s \in Seq(T), NEW K \in SUBSET (1..Len(s))
    PROVE  /\ Picked(s, K) \in Seq(T)
           /\ Len(Picked(s, K)) = Cardinality(K) /\ Cardinality(K) \in Nat
           /\ \E r \in Bijection(K, 1..Cardinality(K)) :
                 \A i \in K : Picked(s, K)[r[i]] = s[i]
<1> DEFINE n == Cardinality(K)
           r == [i \in K |-> Rank(K, i)]
           p == Picked(s, K)
<1>1. /\ Len(s) \in Nat /\ n \in Nat /\ r \in Bijection(K, 1..n)
      /\ \A i \in 1..Len(s) : s[i] \in T
  BY LenProperties, ElementOfSeq, Ranks
<1>2. /\ r \in [K -> 1..n] /\ \A i, k \in K : r[i] = r[k] => i = k
      /\ \A k \in 1..n : \E i \in K : r[i] = k
  BY <1>1 DEF Bijection, Injection, IsInjective, Surjection
<1>3. p = [k \in 1..n |-> s[CHOOSE i \in K : Rank(K, i) = k]]
  BY DEF Picked, Rank
<1>4. \A i \in K : Rank(K, i) = r[i]
  OBVIOUS
<1> HIDE DEF n, r, p
<1>5. ASSUME NEW k \in 1..n
      PROVE  \E i \in K : r[i] = k /\ p[k] = s[i]
  <2>1. (CHOOSE i \in K : Rank(K, i) = k) \in K
        /\ Rank(K, CHOOSE i \in K : Rank(K, i) = k) = k
    BY <1>2, <1>4
  <2> QED BY <1>3, <1>4, <2>1
<1>6. p \in [1..n -> T]
  <2>1. \A k \in 1..n : p[k] \in T
    BY <1>1, <1>5
  <2> QED BY <1>3, <2>1
<1>7. p \in Seq(T) /\ Len(p) = n
  BY <1>1, <1>6, SeqDef, LenProperties
<1>8. \A i \in K : p[r[i]] = s[i]
  BY <1>2, <1>5
<1> QED BY <1>1, <1>7, <1>8 DEF n, p

-----------------------------------------------------------------------------
(* How many balls fly *)

\* The places of s with a flying ball.
Flights(s) == {i \in DOMAIN s : Flying(s[i])}

\* They are finitely many.
LEMMA FlightsFinite ==
    ASSUME NEW s \in Seq(BallType)
    PROVE  /\ Flights(s) \in SUBSET (1..Len(s)) /\ Len(s) \in Nat /\ DOMAIN s = 1..Len(s)
           /\ IsFiniteSet(Flights(s)) /\ Cardinality(Flights(s)) \in Nat
           /\ \A i \in DOMAIN s : s[i] \in BallType
<1>1. Len(s) \in Nat /\ DOMAIN s = 1..Len(s) /\ \A i \in 1..Len(s) : s[i] \in BallType
  BY LenProperties, ElementOfSeq
<1>2. Flights(s) \in SUBSET (1..Len(s))
  BY <1>1 DEF Flights
<1>3. IsFiniteSet(1..Len(s))
  <2>1. 1 \in Int /\ Len(s) \in Int
    BY <1>1
  <2> QED BY <2>1, FS_Interval
<1>4. IsFiniteSet(Flights(s)) /\ Cardinality(Flights(s)) \in Nat
  <2>1. IsFiniteSet(Flights(s))
    BY <1>2, <1>3, FS_Subset
  <2> QED BY <2>1, FS_CardinalityType
<1> QED BY <1>1, <1>2, <1>4

\* Lists s and t are the same but for the ball at i, which is b in t.
Differ(s, t, i, b) ==
    /\ t \in Seq(BallType) /\ DOMAIN t = DOMAIN s
    /\ (Flying(s[i]) <=> Flying(b)) => Cardinality(Flights(t)) = Cardinality(Flights(s))
    /\ Flying(s[i]) /\ ~Flying(b) => Cardinality(Flights(t)) = Cardinality(Flights(s)) - 1

\* One ball changes.
LEMMA OneBall ==
    ASSUME NEW s \in Seq(BallType), NEW i \in DOMAIN s, NEW b \in BallType
    PROVE  Differ(s, [s EXCEPT ![i] = b], i, b)
<1> DEFINE t == [s EXCEPT ![i] = b]
<1>1. i \in 1..Len(s) /\ DOMAIN s = 1..Len(s) /\ s \in [1..Len(s) -> BallType]
      /\ IsFiniteSet(Flights(s))
  BY LenProperties, FlightsFinite
<1>2. t \in Seq(BallType)
  BY <1>1, ExceptSeq
<1>3. /\ DOMAIN t = DOMAIN s /\ t[i] = b
      /\ \A k \in DOMAIN s : k # i => t[k] = s[k]
  BY <1>1
<1>4. (Flying(s[i]) <=> Flying(b)) => Flights(t) = Flights(s)
  BY <1>3 DEF Flights
<1>5. Flying(s[i]) /\ ~Flying(b) => Flights(t) = Flights(s) \ {i} /\ i \in Flights(s)
  BY <1>3 DEF Flights
<1>6. i \in Flights(s) => Cardinality(Flights(s) \ {i}) = Cardinality(Flights(s)) - 1
  BY <1>1, FS_RemoveElement
<1> HIDE DEF t
<1>7. Differ(s, t, i, b)
  BY <1>2, <1>3, <1>4, <1>5, <1>6 DEF Differ
<1> QED BY <1>7 DEF t

\* A ball as it leaves the launcher.
LEMMA NewBallFlies == NewBall \in BallType /\ Flying(NewBall) /\ NewBall.remove = Never
BY BallAssumption DEF NewBall, BallType, Flying, Never

\* k numbers after n.
LEMMA IntervalSize ==
    ASSUME NEW n \in Nat, NEW k \in Nat
    PROVE  IsFiniteSet((n + 1)..(n + k)) /\ Cardinality((n + 1)..(n + k)) = k
<1> DEFINE a == n + 1
           b == n + k
<1>1. a \in Int /\ b \in Int /\ (IF a > b THEN 0 ELSE b - a + 1) = k
  OBVIOUS
<1> HIDE DEF a, b
<1>2. IsFiniteSet(a..b) /\ Cardinality(a..b) = IF a > b THEN 0 ELSE b - a + 1
  BY <1>1, FS_Interval
<1> QED BY <1>1, <1>2 DEF a, b

\* The launcher launches k balls.
LEMMA MoreBalls ==
    ASSUME NEW s \in Seq(BallType), NEW k \in Nat,
           NEW t, t = s \o [i \in 1..k |-> NewBall]
    PROVE  /\ t \in Seq(BallType)
           /\ Cardinality(Flights(t)) = Cardinality(Flights(s)) + k
           /\ \A i \in DOMAIN t : (i \in DOMAIN s /\ t[i] = s[i]) \/ t[i] = NewBall
<1> DEFINE e == [i \in 1..k |-> NewBall]
           n == Len(s)
           N == (n + 1)..(n + k)
<1>1. e \in Seq(BallType) /\ Len(e) = k /\ \A i \in 1..k : e[i] = NewBall
  <2>1. e \in [1..k -> BallType]
    BY NewBallFlies
  <2>2. e \in Seq(BallType)
    BY <2>1, SeqDef
  <2>3. DOMAIN e = 1..k
    OBVIOUS
  <2> HIDE DEF e
  <2>4. Len(e) = k
    BY <2>1, <2>2, <2>3, LenProperties
  <2> QED BY <2>2, <2>4 DEF e
<1> HIDE DEF e
<1>2. /\ t \in Seq(BallType) /\ Len(t) = n + k
      /\ \A i \in 1..(n + k) : t[i] = IF i <= n THEN s[i] ELSE e[i - n]
  BY <1>1, ConcatProperties DEF e
<1>3. n \in Nat /\ DOMAIN s = 1..n /\ IsFiniteSet(Flights(s)) /\ Cardinality(Flights(s)) \in Nat
      /\ Flights(s) \in SUBSET (1..n)
  BY FlightsFinite
<1>4. DOMAIN t = 1..(n + k)
  BY <1>2, LenProperties
<1> HIDE DEF n
<1>5. \A i \in 1..n : t[i] = s[i] /\ i \in 1..(n + k)
  BY <1>2, <1>3
<1>6. \A i \in N : t[i] = NewBall /\ i \in 1..(n + k)
  <2> SUFFICES ASSUME NEW i \in N PROVE t[i] = NewBall /\ i \in 1..(n + k)
    OBVIOUS
  <2>1. i \in 1..(n + k) /\ ~(i <= n) /\ i - n \in 1..k
    BY <1>3
  <2> QED BY <1>1, <1>2, <2>1
<1>7. \A i \in 1..(n + k) : i \in 1..n \/ i \in N
  BY <1>3
<1>8. IsFiniteSet(N) /\ Cardinality(N) = k
  BY <1>3, IntervalSize
<1>9. Flights(s) \cap N = {}
  BY <1>3
<1> HIDE DEF N
<1>10. Flights(t) = Flights(s) \cup N
  BY <1>3, <1>4, <1>5, <1>6, <1>7, NewBallFlies DEF Flights
<1>11. Cardinality(Flights(s) \cup N) = Cardinality(Flights(s)) + Cardinality(N) - 0
  BY <1>3, <1>8, <1>9, FS_Union, FS_EmptySet
<1>12. Cardinality(Flights(t)) = Cardinality(Flights(s)) + k
  <2> DEFINE c == Cardinality(Flights(s))
  <2>1. c \in Nat
    BY <1>3
  <2> HIDE DEF c
  <2>2. Cardinality(Flights(t)) = c + k - 0
    BY <1>8, <1>10, <1>11 DEF c
  <2> QED BY <2>1, <2>2 DEF c
<1>13. \A i \in DOMAIN t : (i \in DOMAIN s /\ t[i] = s[i]) \/ t[i] = NewBall
  BY <1>3, <1>4, <1>5, <1>6, <1>7
<1> QED BY <1>2, <1>12, <1>13

\* What the delete list leaves of s.
Swept(s) == Picked(s, {i \in DOMAIN s : ~s[i].gone})

\* It takes away only what does not fly.
LEMMA FewerBalls ==
    ASSUME NEW s \in Seq(BallType)
    PROVE  /\ Swept(s) \in Seq(BallType)
           /\ Cardinality(Flights(Swept(s))) = Cardinality(Flights(s))
           /\ \A k \in DOMAIN Swept(s) : \E i \in DOMAIN s : Swept(s)[k] = s[i]
<1> DEFINE t == Swept(s)
           K == {i \in DOMAIN s : ~s[i].gone}
           n == Cardinality(K)
<1>1. /\ Flights(s) \in SUBSET K /\ K \in SUBSET (1..Len(s))
      /\ DOMAIN s = 1..Len(s) /\ IsFiniteSet(Flights(s))
  BY FlightsFinite DEF Flights, Flying
<1>2. t \in Seq(BallType) /\ Len(t) = n /\ n \in Nat
  <2>1. t = Picked(s, K)
    BY DEF Swept
  <2> HIDE DEF K, t
  <2> QED BY <1>1, <2>1, PickedFacts
<1>3. PICK r \in Bijection(K, 1..n) : \A i \in K : t[r[i]] = s[i]
  <2>1. t = Picked(s, K)
    BY DEF Swept
  <2> HIDE DEF K, t
  <2> QED BY <1>1, <2>1, PickedFacts
<1>4. DOMAIN t = 1..n
  BY <1>2, LenProperties
<1> HIDE DEF K, n, t
<1>5. /\ r \in [K -> 1..n] /\ \A i, k \in K : r[i] = r[k] => i = k
      /\ \A k \in 1..n : \E i \in K : r[i] = k
  BY <1>3 DEF Bijection, Injection, IsInjective, Surjection
<1>6. \A k \in DOMAIN t : \E i \in K : k = r[i] /\ t[k] = s[i] /\ i \in DOMAIN s
  <2> SUFFICES ASSUME NEW k \in 1..n PROVE \E i \in K : k = r[i] /\ t[k] = s[i] /\ i \in DOMAIN s
    BY <1>4
  <2>1. PICK i \in K : r[i] = k
    BY <1>5
  <2> QED BY <1>1, <1>3, <2>1
<1> DEFINE f == [i \in Flights(s) |-> r[i]]
<1>7. f \in [Flights(s) -> Flights(t)]
  <2> SUFFICES ASSUME NEW i \in Flights(s) PROVE r[i] \in Flights(t)
    OBVIOUS
  <2> QED BY <1>1, <1>3, <1>4, <1>5 DEF Flights
<1>8. \A i, k \in Flights(s) : f[i] = f[k] => i = k
  BY <1>1, <1>5
<1>9. \A k \in Flights(t) : \E i \in Flights(s) : f[i] = k
  <2> SUFFICES ASSUME NEW k \in Flights(t) PROVE \E i \in Flights(s) : r[i] = k
    OBVIOUS
  <2>1. PICK i \in K : k = r[i] /\ t[k] = s[i] /\ i \in DOMAIN s
    BY <1>6 DEF Flights
  <2> QED BY <2>1 DEF Flights
<1> HIDE DEF f
<1>10. f \in Bijection(Flights(s), Flights(t))
  BY <1>7, <1>8, <1>9 DEF Bijection, Injection, IsInjective, Surjection
<1>11. Cardinality(Flights(t)) = Cardinality(Flights(s))
  BY <1>1, <1>10, FS_Bijection DEF ExistsBijection
<1>12. \A k \in DOMAIN t : \E i \in DOMAIN s : t[k] = s[i]
  BY <1>6
<1> QED BY <1>2, <1>11, <1>12 DEF t

-----------------------------------------------------------------------------
(* The steps *)

WaitType == Never..(IF RespawnTime < 0 THEN 0 ELSE RespawnDelay + MaxOff)

\* What a step of a launcher that respawns does to the number of balls.
Conserves ==
    RespawnTime >= 0 =>
        \/ InPlay' = InPlay
        \/ InPlay' = InPlay + 1 /\ (InputLaunchBall \/ LostAgain)

\* The numbers that InPlay adds up.
LEMMA InPlayParts ==
    ASSUME balls \in Seq(BallType), NEW T, waits \in Seq(T)
    PROVE  /\ InPlay = Len(waits) + Cardinality(Flights(balls))
           /\ Len(waits) \in Nat /\ Cardinality(Flights(balls)) \in Nat
           /\ \A i \in DOMAIN balls : balls[i] \in BallType
           /\ DOMAIN balls = 1..Len(balls) /\ DOMAIN waits = 1..Len(waits)
           /\ \A i \in DOMAIN waits : waits[i] \in T
BY FlightsFinite, LenProperties DEF InPlay, FlyingBalls, Flights

\* The launcher is told of a ball it has lost.
LEMMA Told ==
    ASSUME BallTypeOK
    PROVE  /\ RespawnBallPostExplosion \in Seq(WaitType)
           /\ RespawnTime >= 0 => Len(RespawnBallPostExplosion) = Len(waits) + 1
<1>1. RespawnTime \in Int /\ MaxOff \in Nat /\ DefaultRespawn \in Nat /\ off \in 0..MaxOff
      /\ waits \in Seq(WaitType)
  BY BallAssumption DEF BallTypeOK, WaitType
<1>2. CASE RespawnTime < 0
  BY <1>1, <1>2 DEF RespawnBallPostExplosion
<1>3. CASE ~(RespawnTime < 0)
  <2>1. RespawnDelay + off \in WaitType
    BY <1>1, <1>3 DEF RespawnDelay, WaitType, Never
  <2>2. RespawnBallPostExplosion = Append(waits, RespawnDelay + off)
    BY <1>3 DEF RespawnBallPostExplosion
  <2> HIDE DEF WaitType
  <2> QED BY <1>1, <2>1, <2>2, AppendProperties
<1> QED BY <1>2, <1>3

\* A call that changes one ball, and one that tells the launcher as well: the
\* numbers agree if the ball flies before and after, or not after and is told.
LEMMA BallChanges ==
    ASSUME BallInv, NEW i \in DOMAIN balls, NEW b \in BallType,
           b.remove # Never => b.spent,
           balls' = [balls EXCEPT ![i] = b],
           \/ waits' = waits /\ (Flying(balls[i]) <=> Flying(b))
           \/ waits' = RespawnBallPostExplosion /\ ~Flying(b)
              /\ (Flying(balls[i]) \/ LostAgain),
           enabled' = enabled, off' = off, think' = think, inputs' \in 0..MaxInputs
    PROVE  BallInv' /\ Conserves
<1>1. balls \in Seq(BallType) /\ waits \in Seq(WaitType)
  BY DEF BallInv, BallTypeOK, WaitType
<1>2. /\ RespawnBallPostExplosion \in Seq(WaitType)
      /\ RespawnTime >= 0 => Len(RespawnBallPostExplosion) = Len(waits) + 1
  BY Told DEF BallInv
<1>3. /\ balls' \in Seq(BallType) /\ DOMAIN balls' = DOMAIN balls
      /\ (Flying(balls[i]) <=> Flying(b)) =>
            Cardinality(Flights(balls')) = Cardinality(Flights(balls))
      /\ Flying(balls[i]) /\ ~Flying(b) =>
            Cardinality(Flights(balls')) = Cardinality(Flights(balls)) - 1
  <2>1. Differ(balls, balls', i, b)
    BY <1>1, OneBall
  <2> QED BY <2>1 DEF Differ
<1>4. waits' \in Seq(WaitType)
  BY <1>1, <1>2
<1>5. BallTypeOK'
  BY <1>3, <1>4 DEF BallInv, BallTypeOK, WaitType
<1>6. SpentAreRemoved'
  BY <1>3 DEF BallInv, SpentAreRemoved
<1>7. /\ InPlay = Len(waits) + Cardinality(Flights(balls))
      /\ InPlay' = Len(waits') + Cardinality(Flights(balls'))
      /\ Len(waits) \in Nat /\ Cardinality(Flights(balls)) \in Nat
  BY <1>1, InPlayParts DEF InPlay, FlyingBalls, Flights
<1>8. Conserves
  <2> DEFINE c == Cardinality(Flights(balls))
             d == Cardinality(Flights(balls'))
             w == Len(waits)
             v == Len(waits')
  <2>1. c \in Nat /\ w \in Nat /\ InPlay = w + c /\ InPlay' = v + d
    BY <1>7
  <2>2. ASSUME RespawnTime >= 0
        PROVE  \/ v = w /\ d = c
               \/ v = w + 1 /\ d = c - 1
               \/ v = w + 1 /\ d = c /\ LostAgain
    BY <1>2, <1>3, <2>2
  <2> HIDE DEF c, d, w, v
  <2> QED BY <2>1, <2>2 DEF Conserves
<1> QED BY <1>5, <1>6, <1>8 DEF BallInv

\* What the calls make of a ball is a ball.
LEMMA BallForms ==
    ASSUME NEW a \in BallType
    PROVE  /\ a.spent \in BOOLEAN /\ a.gone \in BOOLEAN /\ a.life \in Int /\ a.remove \in Int
           /\ Exploded(a) \in BallType /\ Exploded(a).spent /\ ~Flying(Exploded(a))
           /\ LET b == [a EXCEPT !.life = Never]
              IN  b \in BallType /\ b.spent = a.spent
           /\ LET b == [a EXCEPT !.remove = Never, !.gone = TRUE]
              IN  b \in BallType /\ b.remove = Never /\ ~Flying(b)
           /\ LET b == [a EXCEPT !.gone = TRUE]
              IN  b \in BallType /\ b.remove = a.remove /\ b.spent = a.spent /\ ~Flying(b)
           /\ LET b == [a EXCEPT !.solid = FALSE, !.faded = TRUE]
              IN  b \in BallType /\ b.remove = a.remove /\ b.spent = a.spent /\ b.gone = a.gone
           /\ a.life # 0 /\ a.remove # 0 =>
                 LET b == [a EXCEPT !.life = Sooner(@), !.remove = Sooner(@)]
                 IN  /\ b \in BallType /\ b.spent = a.spent /\ b.gone = a.gone
                     /\ b.remove # Never => a.remove # Never
<1> DEFINE L == Never..(IF BallLifetime > MinLifeAfterPortal THEN BallLifetime
                                                             ELSE MinLifeAfterPortal)
           R == Never..RemoveDelay
<1>1. BallType = [life : L, remove : R, spent : BOOLEAN, solid : BOOLEAN,
                  faded : BOOLEAN, gone : BOOLEAN]
  BY DEF BallType
<1>2. /\ Never \in L /\ 0 \in L /\ MinLifeAfterPortal \in L
      /\ Never \in R /\ RemoveDelay \in R /\ L \subseteq Int /\ R \subseteq Int
  BY BallAssumption DEF Never
<1>3. /\ \A t \in L : t # 0 => Sooner(t) \in L
      /\ \A t \in R : t # 0 => Sooner(t) \in R
      /\ Sooner(Never) = Never
  BY BallAssumption DEF Never, Sooner
<1> HIDE DEF L, R
<1>4. a.life \in L /\ a.remove \in R /\ a.spent \in BOOLEAN /\ a.solid \in BOOLEAN
      /\ a.faded \in BOOLEAN /\ a.gone \in BOOLEAN
      /\ a = [life |-> a.life, remove |-> a.remove, spent |-> a.spent, solid |-> a.solid,
              faded |-> a.faded, gone |-> a.gone]
  BY <1>1
<1>5. Exploded(a) \in BallType /\ Exploded(a).spent /\ ~Flying(Exploded(a))
  BY <1>1, <1>2, <1>4 DEF Exploded, Flying
<1>6. LET b == [a EXCEPT !.life = Never]
      IN  b \in BallType /\ b.spent = a.spent
  BY <1>1, <1>2, <1>4
<1>7. LET b == [a EXCEPT !.remove = Never, !.gone = TRUE]
      IN  b \in BallType /\ b.remove = Never /\ ~Flying(b)
  BY <1>1, <1>2, <1>4 DEF Flying
<1>8. LET b == [a EXCEPT !.gone = TRUE]
      IN  b \in BallType /\ b.remove = a.remove /\ b.spent = a.spent /\ ~Flying(b)
  BY <1>1, <1>4 DEF Flying
<1>9. LET b == [a EXCEPT !.solid = FALSE, !.faded = TRUE]
      IN  b \in BallType /\ b.remove = a.remove /\ b.spent = a.spent /\ b.gone = a.gone
  BY <1>1, <1>4
<1>10. ASSUME a.life # 0, a.remove # 0
       PROVE  LET b == [a EXCEPT !.life = Sooner(@), !.remove = Sooner(@)]
              IN  /\ b \in BallType /\ b.spent = a.spent /\ b.gone = a.gone
                  /\ b.remove # Never => a.remove # Never
  <2>1. Sooner(a.life) \in L /\ Sooner(a.remove) \in R
    BY <1>3, <1>4, <1>10
  <2> QED BY <1>1, <1>3, <1>4, <2>1
<1>11. a.life \in Int /\ a.remove \in Int
  BY <1>2, <1>4
<1> QED BY <1>4, <1>5, <1>6, <1>7, <1>8, <1>9, <1>10, <1>11

\* So it is with another time to live.
LEMMA LifeForm ==
    ASSUME NEW a \in BallType, NEW t \in {0, MinLifeAfterPortal, a.life}
    PROVE  /\ [a EXCEPT !.life = t] \in BallType
           /\ [a EXCEPT !.life = t].remove = a.remove
           /\ [a EXCEPT !.life = t].spent = a.spent
           /\ [a EXCEPT !.life = t].gone = a.gone
<1> DEFINE L == Never..(IF BallLifetime > MinLifeAfterPortal THEN BallLifetime
                                                             ELSE MinLifeAfterPortal)
<1>1. BallType = [life : L, remove : Never..RemoveDelay, spent : BOOLEAN, solid : BOOLEAN,
                  faded : BOOLEAN, gone : BOOLEAN]
  BY DEF BallType
<1>2. 0 \in L /\ MinLifeAfterPortal \in L
  BY BallAssumption DEF Never
<1> HIDE DEF L
<1>3. t \in L
  BY <1>1, <1>2
<1> QED BY <1>1, <1>3

\* Every step of one ball.
LEMMA BallSteps ==
    ASSUME BallInv, NEW i \in DOMAIN balls, BallStep(i)
    PROVE  BallInv' /\ Conserves
<1> DEFINE a == balls[i]
<1>1. /\ a \in BallType /\ (a.remove # Never => a.spent)
      /\ inputs \in 0..MaxInputs /\ MaxInputs \in Nat
  <2>1. balls \in Seq(BallType)
    BY DEF BallInv, BallTypeOK
  <2>2. a \in BallType
    BY <2>1, FlightsFinite
  <2> QED BY <2>2, BallAssumption DEF BallInv, BallTypeOK, SpentAreRemoved
<1>2. CASE ExplodeThink(i)
  <2> DEFINE e == Exploded(a)
             b == [e EXCEPT !.life = Never]
  <2>1. e \in BallType /\ e.spent
    BY <1>1, BallForms
  <2>2. balls' = [balls EXCEPT ![i] = b] /\ waits' = RespawnBallPostExplosion
        /\ enabled' = enabled /\ off' = off /\ think' = think /\ inputs' = inputs
    BY <1>2 DEF ExplodeThink
  <2>3. Flying(a) \/ LostAgain
    BY <1>2 DEF LostAgain
  <2> HIDE DEF e
  <2>4. b \in BallType /\ b.spent = e.spent
    BY <2>1, BallForms
  <2> HIDE DEF b
  <2>5. ~Flying(b)
    BY <2>1, <2>4 DEF Flying
  <2> QED BY <1>1, <2>1, <2>2, <2>3, <2>4, <2>5, BallChanges
<1>3. CASE SUB_Remove(i)
  <2> DEFINE b == [a EXCEPT !.remove = Never, !.gone = TRUE]
  <2>1. b \in BallType /\ b.remove = Never /\ ~Flying(b)
    BY <1>1, BallForms
  <2>2. balls' = [balls EXCEPT ![i] = b] /\ waits' = waits
        /\ enabled' = enabled /\ off' = off /\ think' = think /\ inputs' = inputs
    BY <1>3 DEF SUB_Remove
  <2>3. ~Flying(a)
    BY <1>1, <1>3 DEF SUB_Remove, Flying, Never
  <2> HIDE DEF b
  <2> QED BY <1>1, <2>1, <2>2, <2>3, BallChanges
<1>4. ASSUME NEW t \in {0, MinLifeAfterPortal, a.life},
             balls' = [balls EXCEPT ![i].life = t],
             UNCHANGED <<waits, enabled, off, think, inputs>>
      PROVE  BallInv' /\ Conserves
  <2> DEFINE b == [a EXCEPT !.life = t]
  <2>1. b \in BallType /\ b.remove = a.remove /\ b.spent = a.spent /\ b.gone = a.gone
    BY <1>1, LifeForm
  <2>2. balls' = [balls EXCEPT ![i] = b]
    BY <1>4
  <2> HIDE DEF b
  <2>3. Flying(a) <=> Flying(b)
    BY <2>1 DEF Flying
  <2> QED BY <1>1, <1>4, <2>1, <2>2, <2>3, BallChanges
<1>5. CASE Teleport(i) \/ HitPlayer(i)
  BY <1>4, <1>5 DEF Teleport, HitPlayer
<1>6. CASE InputKill(i)
  <2> DEFINE b == [a EXCEPT !.gone = TRUE]
  <2>1. b \in BallType /\ b.remove = a.remove /\ b.spent = a.spent /\ ~Flying(b)
    BY <1>1, BallForms
  <2>2. balls' = [balls EXCEPT ![i] = b] /\ waits' = RespawnBallPostExplosion
        /\ enabled' = enabled /\ off' = off /\ think' = think
    BY <1>6 DEF InputKill
  <2>3. Flying(a) \/ LostAgain
    BY <1>6 DEF LostAgain
  <2>4. inputs' \in 0..MaxInputs
    BY <1>1, <1>6 DEF InputKill, SendInput
  <2> HIDE DEF b
  <2> QED BY <1>1, <2>1, <2>2, <2>3, <2>4, BallChanges
<1>7. CASE InputExplode(i)
  <2> DEFINE b == Exploded(a)
  <2>1. b \in BallType /\ b.spent /\ ~Flying(b)
    BY <1>1, BallForms
  <2>2. balls' = [balls EXCEPT ![i] = b] /\ waits' = RespawnBallPostExplosion
        /\ enabled' = enabled /\ off' = off /\ think' = think
    BY <1>7 DEF InputExplode
  <2>3. Flying(a) \/ LostAgain
    BY <1>7 DEF LostAgain, InputExplode, Flying
  <2>4. inputs' \in 0..MaxInputs
    BY <1>1, <1>7 DEF InputExplode, SendInput
  <2> HIDE DEF b
  <2> QED BY <1>1, <2>1, <2>2, <2>3, <2>4, BallChanges
<1>8. CASE InputFadeAndRespawn(i)
  <2> DEFINE b == [a EXCEPT !.solid = FALSE, !.faded = TRUE]
  <2>1. b \in BallType /\ b.remove = a.remove /\ b.spent = a.spent /\ b.gone = a.gone
    BY <1>1, BallForms
  <2>2. balls' = [balls EXCEPT ![i] = b] /\ waits' = waits
        /\ enabled' = enabled /\ off' = off /\ think' = think
    BY <1>8 DEF InputFadeAndRespawn
  <2>3. inputs' \in 0..MaxInputs
    BY <1>1, <1>8 DEF InputFadeAndRespawn, SendInput
  <2> HIDE DEF b
  <2>4. Flying(a) <=> Flying(b)
    BY <2>1 DEF Flying
  <2> QED BY <1>1, <2>1, <2>2, <2>3, <2>4, BallChanges
<1> QED BY <1>2, <1>3, <1>5, <1>6, <1>7, <1>8 DEF BallStep

\* The input LaunchBall adds one ball.
LEMMA LaunchStep ==
    ASSUME BallInv, InputLaunchBall
    PROVE  BallInv' /\ Conserves
<1> DEFINE t == balls'
<1>1. /\ balls \in Seq(BallType) /\ waits \in Seq(WaitType)
      /\ inputs \in 0..MaxInputs /\ MaxInputs \in Nat
  BY BallAssumption DEF BallInv, BallTypeOK, WaitType
<1>2. t = balls \o [i \in 1..1 |-> NewBall]
  <2>1. [i \in 1..1 |-> NewBall] = <<NewBall>>
    OBVIOUS
  <2> QED BY <1>1, <2>1, NewBallFlies, AppendIsConcat DEF InputLaunchBall
<1> HIDE DEF t
<1>3. /\ t \in Seq(BallType)
      /\ Cardinality(Flights(t)) = Cardinality(Flights(balls)) + 1
      /\ \A i \in DOMAIN t : (i \in DOMAIN balls /\ t[i] = balls[i]) \/ t[i] = NewBall
  BY <1>1, <1>2, MoreBalls
<1>4. BallTypeOK'
  BY <1>1, <1>3 DEF InputLaunchBall, SendInput, BallInv, BallTypeOK, t
<1>5. SpentAreRemoved'
  BY <1>3, NewBallFlies DEF BallInv, SpentAreRemoved, t
<1>6. InPlay' = InPlay + 1
  <2> DEFINE c == Cardinality(Flights(balls))
             n == Len(waits)
  <2>1. InPlay = n + c /\ c \in Nat /\ n \in Nat
    BY <1>1, InPlayParts
  <2>2. InPlay' = Len(waits') + Cardinality(Flights(t)) /\ waits' = waits
    BY DEF InPlay, FlyingBalls, Flights, InputLaunchBall, t
  <2>3. InPlay' = n + (c + 1)
    BY <1>3, <2>2
  <2> HIDE DEF c, n
  <2> QED BY <2>1, <2>3
<1> QED BY <1>4, <1>5, <1>6 DEF BallInv, Conserves

\* The launcher's think turns times into as many balls.
LEMMA ThinkStep ==
    ASSUME BallInv, BallThink
    PROVE  BallInv' /\ Conserves
<1> DEFINE passed == {i \in DOMAIN waits : waits[i] < 0}
           k == Cardinality(passed)
           D == DOMAIN waits
           t == balls'
           w == waits'
<1>1. /\ balls \in Seq(BallType) /\ waits \in Seq(WaitType)
      /\ Len(waits) \in Nat /\ D = 1..Len(waits)
  BY LenProperties DEF BallInv, BallTypeOK, WaitType
<1>2. /\ t = balls \o [i \in 1..k |-> NewBall] /\ w = Picked(waits, D \ passed)
      /\ think' = "set" /\ enabled' = enabled /\ off' = off /\ inputs' = inputs
  BY DEF BallThink
<1>3. passed \in SUBSET D /\ D \ passed \in SUBSET (1..Len(waits))
  BY <1>1
<1>4. IsFiniteSet(D) /\ Cardinality(D) = Len(waits)
  <2>1. IsFiniteSet((0 + 1)..(0 + Len(waits))) /\ Cardinality((0 + 1)..(0 + Len(waits))) = Len(waits)
    BY <1>1, IntervalSize
  <2>2. (0 + 1)..(0 + Len(waits)) = D
    BY <1>1
  <2> QED BY <2>1, <2>2
<1> HIDE DEF passed, D, t, w
<1>5. k \in Nat /\ Cardinality(D \ passed) = Len(waits) - k
  <2>1. IsFiniteSet(passed) /\ D \cap passed = passed
    BY <1>3, <1>4, FS_Subset
  <2>2. k \in Nat
    BY <2>1, FS_CardinalityType
  <2>3. Cardinality(D \ passed) = Cardinality(D) - Cardinality(D \cap passed)
    BY <1>4, FS_Difference
  <2> QED BY <1>4, <2>1, <2>2, <2>3
<1>6. w \in Seq(WaitType) /\ Len(w) = Len(waits) - k
  BY <1>1, <1>2, <1>3, <1>5, PickedFacts
<1> HIDE DEF k
<1>7. /\ t \in Seq(BallType)
      /\ Cardinality(Flights(t)) = Cardinality(Flights(balls)) + k
      /\ \A i \in DOMAIN t : (i \in DOMAIN balls /\ t[i] = balls[i]) \/ t[i] = NewBall
  BY <1>1, <1>2, <1>5, MoreBalls
<1>8. BallTypeOK'
  BY <1>2, <1>6, <1>7 DEF BallInv, BallTypeOK, WaitType, t, w
<1>9. SpentAreRemoved'
  BY <1>7, NewBallFlies DEF BallInv, SpentAreRemoved, t
<1>10. InPlay' = InPlay
  <2> DEFINE c == Cardinality(Flights(balls))
  <2>1. InPlay = Len(waits) + c /\ c \in Nat
    BY <1>1, InPlayParts
  <2>2. InPlay' = Len(w) + Cardinality(Flights(t))
    BY DEF InPlay, FlyingBalls, Flights, w, t
  <2> HIDE DEF c
  <2>3. InPlay' = Len(waits) - k + (c + k)
    BY <1>6, <1>7, <2>2 DEF c
  <2> QED BY <1>1, <1>5, <2>1, <2>3
<1> QED BY <1>8, <1>9, <1>10 DEF BallInv, Conserves

\* The delete list changes the places of the balls, not the number that fly.
LEMMA CleanupStep ==
    ASSUME BallInv, CleanupDeleteList
    PROVE  BallInv' /\ Conserves
<1> DEFINE t == balls'
<1>1. /\ balls \in Seq(BallType) /\ waits \in Seq(WaitType)
      /\ t = Swept(balls)
      /\ UNCHANGED <<waits, enabled, off, think, inputs>>
  BY DEF BallInv, BallTypeOK, WaitType, CleanupDeleteList, Swept
<1> HIDE DEF t
<1>2. /\ t \in Seq(BallType)
      /\ Cardinality(Flights(t)) = Cardinality(Flights(balls))
      /\ \A k \in DOMAIN t : \E i \in DOMAIN balls : t[k] = balls[i]
  BY <1>1, FewerBalls
<1>3. BallTypeOK'
  BY <1>1, <1>2 DEF BallInv, BallTypeOK, t
<1>4. SpentAreRemoved'
  BY <1>2 DEF BallInv, SpentAreRemoved, t
<1>5. InPlay' = InPlay
  BY <1>1, <1>2 DEF InPlay, FlyingBalls, Flights, t
<1> QED BY <1>3, <1>4, <1>5 DEF BallInv, Conserves

\* Time passes for every ball and every wait.
LEMMA TickStep ==
    ASSUME BallInv, Tick
    PROVE  BallInv' /\ Conserves
<1> DEFINE t == balls'
           w == waits'
           n == Len(balls)
           m == Len(waits)
<1>1. /\ balls \in Seq(BallType) /\ waits \in Seq(WaitType)
      /\ n \in Nat /\ DOMAIN balls = 1..n /\ \A i \in 1..n : balls[i] \in BallType
      /\ m \in Nat /\ DOMAIN waits = 1..m /\ \A i \in 1..m : waits[i] \in WaitType
  BY LenProperties, ElementOfSeq DEF BallInv, BallTypeOK, WaitType
<1>2. /\ t = [i \in 1..n |-> [balls[i] EXCEPT !.life = Sooner(@), !.remove = Sooner(@)]]
      /\ \A i \in 1..n : balls[i].life # 0 /\ balls[i].remove # 0
      /\ w = IF enabled THEN [i \in 1..m |-> Sooner(waits[i])] ELSE waits
      /\ off' \in {off, off + 1} /\ (off = MaxOff => off' = off)
      /\ think' \in {"none", "set", "due"} /\ enabled' = enabled /\ inputs' = inputs
  BY <1>1 DEF Tick
<1> HIDE DEF t, w, n, m
<1>3. ASSUME NEW i \in 1..n
      PROVE  /\ t[i] \in BallType /\ t[i].spent = balls[i].spent /\ t[i].gone = balls[i].gone
             /\ t[i].remove # Never => balls[i].remove # Never
  <2> DEFINE a == balls[i]
             b == [a EXCEPT !.life = Sooner(@), !.remove = Sooner(@)]
  <2>1. t[i] = b /\ a \in BallType /\ a.life # 0 /\ a.remove # 0
    BY <1>1, <1>2
  <2> HIDE DEF a
  <2>2. b \in BallType /\ b.spent = a.spent /\ b.gone = a.gone
        /\ (b.remove # Never => a.remove # Never)
    BY <2>1, BallForms
  <2> QED BY <2>1, <2>2 DEF a
<1>4. t \in Seq(BallType) /\ DOMAIN t = 1..n
  <2>1. DOMAIN t = 1..n /\ t \in [1..n -> BallType]
    BY <1>2, <1>3
  <2> QED BY <1>1, <2>1, SeqDef
<1>5. w \in Seq(WaitType) /\ Len(w) = m
  <2>1. CASE enabled
    <3>1. \A i \in 1..m : Sooner(waits[i]) \in WaitType
      <4>1. RespawnTime \in Int /\ MaxOff \in Nat /\ DefaultRespawn \in Nat
        BY BallAssumption
      <4>2. \A x \in WaitType : Sooner(x) \in WaitType
        BY <4>1 DEF WaitType, Sooner, Never, RespawnDelay
      <4> QED BY <1>1, <4>2
    <3>2. w \in [1..m -> WaitType] /\ DOMAIN w = 1..m
      BY <1>2, <2>1, <3>1
    <3>3. w \in Seq(WaitType)
      BY <1>1, <3>2, SeqDef
    <3> QED BY <1>1, <3>2, <3>3, LenProperties
  <2>2. CASE ~enabled
    BY <1>1, <1>2, <2>2 DEF m
  <2> QED BY <2>1, <2>2
<1>6. BallTypeOK'
  <2>1. off \in 0..MaxOff /\ MaxOff \in Nat /\ enabled \in BOOLEAN /\ inputs \in 0..MaxInputs
    BY BallAssumption DEF BallInv, BallTypeOK
  <2>2. off' \in 0..MaxOff
    <3>1. off' = off \/ (off # MaxOff /\ off' = off + 1)
      BY <1>2
    <3> QED BY <2>1, <3>1
  <2> QED BY <1>2, <1>4, <1>5, <2>1, <2>2 DEF BallTypeOK, WaitType, t, w
<1>7. SpentAreRemoved'
  BY <1>1, <1>3, <1>4 DEF BallInv, SpentAreRemoved, t
<1>8. Flights(t) = Flights(balls)
  BY <1>1, <1>3, <1>4 DEF Flights, Flying
<1>9. InPlay' = InPlay
  BY <1>5, <1>8 DEF InPlay, FlyingBalls, Flights, t, w, m
<1> QED BY <1>6, <1>7, <1>9 DEF BallInv, Conserves

\* Every step.
LEMMA StepBalls ==
    ASSUME BallInv, Next
    PROVE  BallInv' /\ Conserves
<1>1. CASE InputEnable \/ InputDisable
  <2>1. balls' = balls /\ waits' = waits /\ inputs' = inputs /\ off' = 0
        /\ enabled' \in BOOLEAN /\ think' \in {"set", "none"}
    BY <1>1 DEF InputEnable, InputDisable
  <2>2. MaxOff \in Nat
    BY BallAssumption
  <2>3. BallTypeOK'
    BY <2>1, <2>2 DEF BallInv, BallTypeOK
  <2>4. SpentAreRemoved' /\ InPlay' = InPlay
    BY <2>1 DEF BallInv, SpentAreRemoved, InPlay, FlyingBalls
  <2> QED BY <2>3, <2>4 DEF BallInv, Conserves
<1> QED BY <1>1, BallSteps, LaunchStep, ThinkStep, CleanupStep, TickStep DEF Next

\* The launcher starts with no balls and with what it waits for.
LEMMA InitBalls == Init => BallInv
<1> SUFFICES ASSUME Init PROVE BallInv
  OBVIOUS
<1>1. BallCount \in Nat /\ MaxOff \in Nat /\ MaxInputs \in Nat /\ RespawnTime \in Int
      /\ DefaultRespawn \in Nat
  BY BallAssumption
<1>2. waits \in Seq(WaitType)
  <2>1. 0 \in WaitType
    BY <1>1 DEF WaitType, RespawnDelay, Never
  <2>2. waits \in [1..BallCount -> WaitType]
    BY <2>1 DEF Init
  <2> QED BY <1>1, <2>2, SeqDef
<1>3. balls = <<>> /\ balls \in Seq(BallType) /\ DOMAIN balls = {}
  <2>1. <<>> \in Seq(BallType) /\ DOMAIN <<>> = {}
    BY EmptySeq
  <2> QED BY <2>1 DEF Init
<1> QED BY <1>1, <1>2, <1>3 DEF Init, BallInv, BallTypeOK, WaitType, SpentAreRemoved

-----------------------------------------------------------------------------
(* The theorems *)

\* The inductive invariant holds in every reachable state: types, and only a
\* ball that has exploded is scheduled for SUB_Remove.
THEOREM SpecBallInv == BallSpec => []BallInv
<1>1. BallInv /\ [Next]_vars => BallInv'
  <2>1. ASSUME BallInv, UNCHANGED vars PROVE BallInv'
    BY <2>1 DEF vars, BallInv, BallTypeOK, SpentAreRemoved
  <2> QED BY <2>1, StepBalls
<1> QED BY <1>1, InitBalls, PTL DEF BallSpec

\* Types and ranges of CEnergyBallLauncher's and CPropEnergyBall's fields: no
\* life exceeds the longer of the two keyvalues, no time in m_BallRespawnTime
\* the respawn time and the time off.
THEOREM BallSpecTypeOK == BallSpec => []BallTypeOK
<1>1. BallInv => BallTypeOK
  BY DEF BallInv
<1> QED BY <1>1, SpecBallInv, PTL

\* A launcher that respawns never loses a ball, and gets one more only by the
\* input LaunchBall or when RespawnBallPostExplosion hears of a ball again.
THEOREM BallSpecConserved ==
    ASSUME RespawnTime >= 0
    PROVE  BallSpec => BallsConserved
<1> DEFINE C == InPlay' = InPlay
                \/ (InPlay' = InPlay + 1 /\ (InputLaunchBall \/ LostAgain))
<1>1. BallInv /\ [Next]_vars => [C]_vars
  <2> SUFFICES ASSUME BallInv, Next PROVE C
    BY DEF vars
  <2> QED BY StepBalls DEF Conserves
<1> QED BY <1>1, SpecBallInv, PTL DEF BallSpec, BallsConserved

=============================================================================
