----------------------- MODULE PortalSimulatorProofs -----------------------
(***************************************************************************)
(* What the operators of PortalSimulator do to a record of simulators, one *)
(* lemma per operator: which fields they leave alone, and that the record  *)
(* keeps its type and its count of clones.                                 *)
(***************************************************************************)
EXTENDS PortalPassage, FiniteFolds

CloneSum(c) == SumFunction([p \in Portals |-> SumFunction(c[p])])

\* A record of simulators whose counter is right.
SimOK(s) == s \in Simulators /\ s.count = CloneSum(s.clones)

-----------------------------------------------------------------------------
(* Shadow clones *)

\* r differs from s in the clones only.
OnlyClones(r, s) ==
    /\ r.link = s.link /\ r.ready = s.ready /\ r.place = s.place
    /\ r.env = s.env /\ r.local = s.local /\ r.remote = s.remote
    /\ r.owns = s.owns /\ r.physics = s.physics
    /\ r.owner = s.owner /\ r.holder = s.holder

\* The sum over all clones follows that of one simulator.
LEMMA CloneSumUpdate ==
    ASSUME NEW c \in [Portals -> [Entities -> Int]],
           NEW d \in [Portals -> [Entities -> Int]], NEW p \in Portals,
           \A q \in Portals : q # p => d[q] = c[q]
    PROVE  CloneSum(d) = CloneSum(c) - SumFunction(c[p]) + SumFunction(d[p])
<1>0. IsFiniteSet(Portals) /\ IsFiniteSet(Entities)
  BY EntitiesAssumption
<1> DEFINE f == [q \in Portals |-> SumFunction(c[q])]
           g == [q \in Portals |-> SumFunction(d[q])]
<1>1. \A q \in Portals : SumFunction(c[q]) \in Int /\ SumFunction(d[q]) \in Int
  BY <1>0, SumType
<1>2. f \in [Portals -> Int] /\ g \in [Portals -> Int]
  BY <1>1
<1>3. \A q \in Portals : q # p => g[q] = f[q]
  OBVIOUS
<1>4. f[p] = SumFunction(c[p]) /\ g[p] = SumFunction(d[p])
  OBVIOUS
<1>5. CloneSum(c) = SumFunction(f) /\ CloneSum(d) = SumFunction(g)
  BY DEF CloneSum
<1> HIDE DEF f, g
<1>6. SumFunction(g) = SumFunction(f) - f[p] + g[p]
  <2>1. SumFunction(f) \in Int /\ SumFunction(g) \in Int /\ f[p] \in Int /\ g[p] \in Int
    BY <1>0, <1>2, SumType
  <2>2. Follows(f, g, p)
    BY <1>0, <1>2, <1>3, SumUpdate
  <2> QED BY <2>1, <2>2 DEF Follows
<1> QED BY <1>4, <1>5, <1>6

\* No clone of an entity is counted that the counter does not hold.
LEMMA CloneSumBounds ==
    ASSUME NEW c \in [Portals -> [Entities -> Int]],
           \A q \in Portals, e \in Entities : c[q][e] >= 0
    PROVE  /\ CloneSum(c) \in Nat
           /\ \A q \in Portals : SumFunction(c[q]) \in Nat /\ SumFunction(c[q]) <= CloneSum(c)
           /\ \A q \in Portals, e \in Entities : c[q][e] <= SumFunction(c[q]) /\ c[q][e] <= CloneSum(c)
<1> USE EntitiesAssumption
<1> DEFINE f == [q \in Portals |-> SumFunction(c[q])]
<1>1. \A q \in Portals : /\ c[q] \in [Entities -> Int]
                         /\ SumFunction(c[q]) \in Nat
                         /\ \A e \in Entities : c[q][e] <= SumFunction(c[q])
  BY SumNat
<1>2. f \in [Portals -> Int] /\ \A q \in Portals : f[q] >= 0 /\ f[q] = SumFunction(c[q])
  BY <1>1
<1>3. CloneSum(c) = SumFunction(f)
  BY DEF CloneSum
<1> HIDE DEF f
<1>4. SumFunction(f) \in Nat /\ \A q \in Portals : f[q] <= SumFunction(f)
  BY <1>2, SumNat
<1>5. \A q \in Portals : SumFunction(c[q]) <= CloneSum(c)
  BY <1>2, <1>3, <1>4
<1>6. ASSUME NEW q \in Portals, NEW e \in Entities PROVE c[q][e] <= CloneSum(c)
  <2>1. c[q][e] \in Int /\ c[q][e] <= SumFunction(c[q]) /\ SumFunction(c[q]) <= CloneSum(c)
    BY <1>1, <1>5
  <2>2. SumFunction(c[q]) \in Int /\ CloneSum(c) \in Int
    BY <1>1, <1>3, <1>4
  <2> QED BY <2>1, <2>2
<1> QED BY <1>1, <1>3, <1>4, <1>5, <1>6

\* r is s with the clones c in p, n counted, and n is the right number.
Recounted(r, s, p, c, n) ==
    /\ c \in [Entities -> Int] /\ \A e \in Entities : c[e] >= 0
    /\ n \in Int /\ n <= MaxClones
    /\ n = s.count - SumFunction(s.clones[p]) + SumFunction(c)
    /\ r = [s EXCEPT !.clones[p] = c, !.count = n]

\* Clones of p are made or freed, and the counter with them.
LEMMA Recount ==
    ASSUME NEW s, SimOK(s), NEW p \in Portals, NEW r, NEW c, NEW n, Recounted(r, s, p, c, n)
    PROVE  /\ SimOK(r) /\ OnlyClones(r, s)
           /\ r.clones[p] = c /\ \A q \in Portals : q # p => r.clones[q] = s.clones[q]
<1>0. MaxClones \in Nat
  BY EntitiesAssumption
<1>a. /\ c \in [Entities -> Int] /\ \A e \in Entities : c[e] >= 0
      /\ n \in Int /\ n <= MaxClones
      /\ n = s.count - SumFunction(s.clones[p]) + SumFunction(c)
      /\ r = [s EXCEPT !.clones[p] = c, !.count = n]
  BY DEF Recounted
<1> DEFINE d == [s.clones EXCEPT ![p] = c]
<1>1. s \in Simulators /\ s.count = CloneSum(s.clones)
  BY DEF SimOK
<1>2. s.clones \in [Portals -> [Entities -> 0..MaxClones]] /\ s.count \in 0..MaxClones
  BY <1>1 DEF Simulators
<1>3. /\ s.clones \in [Portals -> [Entities -> Int]]
      /\ \A q \in Portals, e \in Entities : s.clones[q][e] >= 0
  BY <1>2
<1>4. /\ d \in [Portals -> [Entities -> Int]] /\ d[p] = c
      /\ \A q \in Portals : q # p => d[q] = s.clones[q]
      /\ \A q \in Portals, e \in Entities : d[q][e] >= 0
  BY <1>3, <1>a
<1>5. r.clones = d /\ r.count = n /\ OnlyClones(r, s)
  BY <1>1, <1>a DEF Simulators, OnlyClones
<1> HIDE DEF d
<1>6. CloneSum(d) = CloneSum(s.clones) - SumFunction(s.clones[p]) + SumFunction(c)
  <2> DEFINE b == s.clones
  <2>1. b \in [Portals -> [Entities -> Int]] /\ \A q \in Portals : q # p => d[q] = b[q]
    BY <1>3, <1>4
  <2> HIDE DEF b
  <2>2. CloneSum(d) = CloneSum(b) - SumFunction(b[p]) + SumFunction(d[p])
    BY <1>4, <2>1, CloneSumUpdate
  <2> QED BY <1>4, <2>2 DEF b
<1>7. CloneSum(d) = n
  BY <1>1, <1>6, <1>a
<1>8. CloneSum(d) \in Nat /\ \A q \in Portals, e \in Entities : d[q][e] <= n
  BY <1>0, <1>4, <1>7, CloneSumBounds
<1>9. d \in [Portals -> [Entities -> 0..MaxClones]] /\ n \in 0..MaxClones
  <2>1. \A q \in Portals, e \in Entities : d[q][e] \in 0..MaxClones
    BY <1>0, <1>4, <1>8, <1>a
  <2> QED BY <1>0, <1>4, <1>7, <1>8, <1>a, <2>1
<1>10. r \in Simulators
  <2>1. \A q \in Portals : c \in [Entities -> 0..MaxClones]
    BY <1>4, <1>9
  <2> QED BY <1>1, <1>2, <1>9, <1>a, <2>1 DEF Simulators
<1> QED BY <1>4, <1>5, <1>7, <1>10 DEF SimOK

\* What a record of simulators with the right count looks like.
LEMMA SimOKTypes ==
    ASSUME NEW s, SimOK(s)
    PROVE  /\ s \in Simulators
           /\ s.clones \in [Portals -> [Entities -> 0..MaxClones]]
           /\ s.count \in 0..MaxClones
           /\ \A p \in Portals :
                 /\ s.clones[p] \in [Entities -> Int]
                 /\ \A e \in Entities : s.clones[p][e] >= 0
                 /\ SumFunction(s.clones[p]) \in Nat
                 /\ SumFunction(s.clones[p]) <= s.count
<1>0. IsFiniteSet(Entities) /\ MaxClones \in Nat
  BY EntitiesAssumption
<1>1. /\ s \in Simulators
      /\ s.clones \in [Portals -> [Entities -> 0..MaxClones]]
      /\ s.count \in 0..MaxClones
  BY DEF SimOK, Simulators
<1>2. /\ s.clones \in [Portals -> [Entities -> Int]]
      /\ \A p \in Portals, e \in Entities : s.clones[p][e] >= 0
  BY <1>0, <1>1
<1>3. \A p \in Portals : /\ s.clones[p] \in [Entities -> Int]
                          /\ \A e \in Entities : s.clones[p][e] >= 0
  BY <1>2
<1>4. \A q \in Portals : SumFunction(s.clones[q]) \in Nat /\ SumFunction(s.clones[q]) <= CloneSum(s.clones)
  <2> DEFINE c == s.clones
  <2>1. c \in [Portals -> [Entities -> Int]] /\ \A q \in Portals, e \in Entities : c[q][e] >= 0
    BY <1>2
  <2> HIDE DEF c
  <2>2. \A q \in Portals : SumFunction(c[q]) \in Nat /\ SumFunction(c[q]) <= CloneSum(c)
    BY <2>1, CloneSumBounds
  <2> QED BY <2>2 DEF c
<1> QED BY <1>1, <1>3, <1>4 DEF SimOK

\* CreateShadowClone makes at most one clone of each entity it is asked for, and
\* where there is room for all it makes one of each that it never refuses.
LEMMA AddClonesKeeps ==
    ASSUME NEW s, SimOK(s), NEW p \in Portals, NEW es \in SUBSET Entities
    PROVE  LET r == AddClones(s, p, es)
           IN  /\ SimOK(r) /\ OnlyClones(r, s)
               /\ \A q \in Portals : q # p => r.clones[q] = s.clones[q]
               /\ \A e \in Entities :
                     r.clones[p][e] # s.clones[p][e] =>
                        e \in es /\ r.clones[p][e] = s.clones[p][e] + 1
               /\ s.count + Cardinality(es) <= MaxClones =>
                     \A e \in es \cap Props : r.clones[p][e] = s.clones[p][e] + 1
<1>0. IsFiniteSet(Entities) /\ MaxClones \in Nat
  BY EntitiesAssumption
<1> DEFINE able == es \cap s.cloneable
<1>1. /\ able \in SUBSET es /\ es \cap Props \subseteq able
      /\ IsFiniteSet(able) /\ Cardinality(able) \in Nat /\ Cardinality(able) <= Cardinality(es)
      /\ IsFiniteSet(es) /\ Cardinality(es) \in Nat
  <2>1. Props \subseteq s.cloneable
    BY DEF SimOK, Simulators, Accepted
  <2>2. able \in SUBSET es /\ es \cap Props \subseteq able
    BY <2>1
  <2> HIDE DEF able
  <2> QED BY <1>0, <2>2, FS_Subset, FS_CardinalityType
<1>2. s.count \in 0..MaxClones
  BY SimOKTypes
<1> DEFINE made == IF s.count + Cardinality(able) <= MaxClones THEN able
                   ELSE CHOOSE some \in SUBSET able : s.count + Cardinality(some) = MaxClones
           c == [e \in Entities |-> IF e \in made THEN s.clones[p][e] + 1 ELSE s.clones[p][e]]
           n == s.count + Cardinality(made)
           r == [s EXCEPT !.clones[p] = c, !.count = n]
<1>3. made \in SUBSET able /\ s.count + Cardinality(made) <= MaxClones
  <2>1. CASE s.count + Cardinality(able) <= MaxClones
    BY <2>1
  <2>2. CASE ~(s.count + Cardinality(able) <= MaxClones)
    <3>1. MaxClones - s.count \in Nat /\ MaxClones - s.count <= Cardinality(able)
      BY <1>0, <1>1, <1>2, <2>2
    <3>2. PICK some \in SUBSET able : Cardinality(some) = MaxClones - s.count
      BY <1>1, <3>1, SubsetOfSize
    <3>3. s.count + Cardinality(some) = MaxClones
      BY <1>0, <1>2, <3>2
    <3>4. made \in SUBSET able /\ s.count + Cardinality(made) = MaxClones
      BY <2>2, <3>3
    <3> QED BY <1>0, <3>4
  <2> QED BY <2>1, <2>2
<1>4. AddClones(s, p, es) = r
  BY DEF AddClones, SimOK, Simulators
<1>3a. s.count + Cardinality(es) <= MaxClones => made = able
  <2> HIDE DEF able
  <2> QED BY <1>0, <1>1, <1>2
<1> HIDE DEF made, able
<1>5. Cardinality(made) \in Nat
  BY <1>1, <1>3, FS_Subset, FS_CardinalityType
<1>6. s.clones[p] \in [Entities -> Int] /\ \A e \in Entities : s.clones[p][e] >= 0
  BY SimOKTypes
<1>7. SumFunction(s.clones[p]) \in Int
  BY SimOKTypes
<1>8. SumFunction(c) = SumFunction(s.clones[p]) + Cardinality(made)
  <2> DEFINE b == s.clones[p]
  <2>1. made \in SUBSET Entities
    BY <1>1, <1>3
  <2> HIDE DEF b
  <2>2. SumFunction([e \in Entities |-> IF e \in made THEN b[e] + 1 ELSE b[e]])
           = SumFunction(b) + Cardinality(made)
    BY <1>0, <1>6, <2>1, SumAddOne DEF b
  <2> QED BY <2>2 DEF b
<1>9. c \in [Entities -> Int] /\ \A e \in Entities : c[e] >= 0
  BY <1>6
<1>10. n \in Int /\ n <= MaxClones /\ n = s.count - SumFunction(s.clones[p]) + SumFunction(c)
  BY <1>2, <1>3, <1>5, <1>7, <1>8
<1>11. \A e \in Entities :
          c[e] # s.clones[p][e] => e \in es /\ c[e] = s.clones[p][e] + 1
  BY <1>1, <1>3
<1>11a. s.count + Cardinality(es) <= MaxClones =>
          \A e \in es \cap Props : c[e] = s.clones[p][e] + 1
  BY <1>1, <1>3a
<1>12. Recounted(r, s, p, c, n)
  <2> HIDE DEF c, n
  <2> QED BY <1>9, <1>10 DEF Recounted
<1> HIDE DEF c, n, r
<1>13. /\ SimOK(r) /\ OnlyClones(r, s)
       /\ r.clones[p] = c /\ \A q \in Portals : q # p => r.clones[q] = s.clones[q]
  BY <1>12, Recount
<1> QED BY <1>4, <1>11, <1>11a, <1>13

\* FreeClonesOf frees one clone of each entity that has one.
LEMMA FreeClonesKeeps ==
    ASSUME NEW s, SimOK(s), NEW p \in Portals, NEW es \in SUBSET Entities
    PROVE  LET r == FreeClonesOf(s, p, es)
           IN  /\ SimOK(r) /\ OnlyClones(r, s)
               /\ \A q \in Portals : q # p => r.clones[q] = s.clones[q]
               /\ \A e \in Entities :
                     r.clones[p][e] = IF e \in es /\ s.clones[p][e] > 0
                                      THEN s.clones[p][e] - 1 ELSE s.clones[p][e]
<1>0. IsFiniteSet(Entities) /\ MaxClones \in Nat
  BY EntitiesAssumption
<1> DEFINE gone == {e \in es : s.clones[p][e] > 0}
           c == [e \in Entities |-> IF e \in gone THEN s.clones[p][e] - 1 ELSE s.clones[p][e]]
           n == s.count - Cardinality(gone)
           r == [s EXCEPT !.clones[p] = c, !.count = n]
<1>1. gone \in SUBSET Entities
  OBVIOUS
<1>2. s.count \in 0..MaxClones
  BY SimOKTypes
<1>3. FreeClonesOf(s, p, es) = r
  BY DEF FreeClonesOf, SimOK, Simulators
<1>4. s.clones[p] \in [Entities -> Int] /\ \A e \in Entities : s.clones[p][e] >= 0
  BY SimOKTypes
<1>5. SumFunction(s.clones[p]) \in Int
  BY SimOKTypes
<1>6. c \in [Entities -> Int] /\ \A e \in Entities : c[e] >= 0
  <2>1. \A e \in Entities : c[e] \in Int /\ c[e] >= 0
    <3> SUFFICES ASSUME NEW e \in Entities PROVE c[e] \in Int /\ c[e] >= 0
      OBVIOUS
    <3>1. s.clones[p][e] \in Int /\ s.clones[p][e] >= 0
      BY <1>4
    <3> QED BY <3>1
  <2> QED BY <2>1
<1>7. \A e \in Entities : c[e] = IF e \in es /\ s.clones[p][e] > 0
                                 THEN s.clones[p][e] - 1 ELSE s.clones[p][e]
  OBVIOUS
<1> HIDE DEF gone
<1>8. Cardinality(gone) \in Nat
  BY <1>0, <1>1, FS_Subset, FS_CardinalityType
<1>9. SumFunction(c) = SumFunction(s.clones[p]) - Cardinality(gone)
  <2> DEFINE b == s.clones[p]
  <2> HIDE DEF b
  <2>1. SumFunction([e \in Entities |-> IF e \in gone THEN b[e] - 1 ELSE b[e]])
           = SumFunction(b) - Cardinality(gone)
    BY <1>0, <1>1, <1>4, SumTakeOne DEF b
  <2> QED BY <2>1 DEF b
<1>10. n \in Int /\ n <= MaxClones /\ n = s.count - SumFunction(s.clones[p]) + SumFunction(c)
  BY <1>0, <1>2, <1>5, <1>8, <1>9
<1>11. Recounted(r, s, p, c, n)
  <2> HIDE DEF c, n
  <2> QED BY <1>6, <1>10 DEF Recounted
<1> HIDE DEF c, n, r
<1>12. /\ SimOK(r) /\ OnlyClones(r, s)
       /\ r.clones[p] = c /\ \A q \in Portals : q # p => r.clones[q] = s.clones[q]
  BY <1>11, Recount
<1> QED BY <1>3, <1>7, <1>12

\* ClearLinkedEntities leaves p without clones.
LEMMA ClearLinkedKeeps ==
    ASSUME NEW s, SimOK(s), NEW p \in Portals
    PROVE  LET r == ClearLinkedEntities(s, p)
           IN  /\ SimOK(r) /\ OnlyClones(r, s)
               /\ r.clones[p] = NoClones
               /\ \A q \in Portals : q # p => r.clones[q] = s.clones[q]
<1>0. IsFiniteSet(Entities) /\ MaxClones \in Nat
  BY EntitiesAssumption
<1> DEFINE n == s.count - SumFunction(s.clones[p])
           r == [s EXCEPT !.clones[p] = NoClones, !.count = n]
<1>1. s.count \in 0..MaxClones
  BY SimOKTypes
<1>2. SumFunction(s.clones[p]) \in Nat
  BY SimOKTypes
<1>3. ClearLinkedEntities(s, p) = r
  BY DEF ClearLinkedEntities, SimOK, Simulators
<1>4. NoClones \in [Entities -> Int] /\ \A e \in Entities : NoClones[e] = 0
  BY DEF NoClones
<1>5. SumFunction(NoClones) = 0
  BY <1>0, <1>4, SumZero
<1>6. n \in Int /\ n <= MaxClones /\ n = s.count - SumFunction(s.clones[p]) + SumFunction(NoClones)
  BY <1>0, <1>1, <1>2, <1>5
<1>7. \A e \in Entities : NoClones[e] >= 0
  BY <1>4
<1>8. Recounted(r, s, p, NoClones, n)
  <2> HIDE DEF n
  <2> QED BY <1>4, <1>6, <1>7 DEF Recounted
<1> HIDE DEF n, r
<1> QED BY <1>3, <1>8, Recount

-----------------------------------------------------------------------------
(* Operators that change the physics alone *)

\* r is s but for environments, what is simulated in them, and clones.
PhysicsOnly(r, s) ==
    /\ SimOK(r)
    /\ r.link = s.link /\ r.ready = s.ready /\ r.place = s.place
    /\ r.owns = s.owns /\ r.owner = s.owner /\ r.holder = s.holder

\* One operator after the other.
LEMMA PhysicsThenPhysics ==
    ASSUME NEW r, NEW s, NEW t, PhysicsOnly(r, s), PhysicsOnly(s, t)
    PROVE  PhysicsOnly(r, t)
BY DEF PhysicsOnly

LEMMA TakePhysicsKeeps ==
    ASSUME NEW s, SimOK(s), NEW p \in Portals, NEW es \in SUBSET Entities
    PROVE  PhysicsOnly(TakePhysicsOwnership(s, p, es), s)
<1> DEFINE new == IF s.env[p] THEN es \ s.physics[p] ELSE {}
           taken == [s EXCEPT !.physics[p] = @ \cup new]
           q == s.link[p]
<1>1. SimOK(taken) /\ PhysicsOnly(taken, s) /\ new \in SUBSET Entities
  BY DEF SimOK, PhysicsOnly, Simulators
<1>2. q # NoPortal => q \in Portals
  BY DEF SimOK, Simulators
<1>3. TakePhysicsOwnership(s, p, es) = IF q # NoPortal /\ s.env[q] THEN AddClones(taken, q, new) ELSE taken
  BY DEF TakePhysicsOwnership
<1> HIDE DEF new, taken, q
<1>4. q # NoPortal => SimOK(AddClones(taken, q, new)) /\ OnlyClones(AddClones(taken, q, new), taken)
  BY <1>1, <1>2, AddClonesKeeps
<1> QED BY <1>1, <1>3, <1>4 DEF PhysicsOnly, OnlyClones

LEMMA ReleasePhysicsKeeps ==
    ASSUME NEW s, SimOK(s), NEW p \in Portals, NEW es \in SUBSET Entities
    PROVE  PhysicsOnly(ReleasePhysicsOwnership(s, p, es), s)
<1> DEFINE lost == IF s.env[p] THEN es \cap s.physics[p] ELSE {}
           released == [s EXCEPT !.physics[p] = @ \ lost]
           q == s.link[p]
<1>1. SimOK(released) /\ PhysicsOnly(released, s) /\ lost \in SUBSET Entities
  BY DEF SimOK, PhysicsOnly, Simulators
<1>2. q # NoPortal => q \in Portals
  BY DEF SimOK, Simulators
<1>3. ReleasePhysicsOwnership(s, p, es) = IF q # NoPortal THEN FreeClonesOf(released, q, lost) ELSE released
  BY DEF ReleasePhysicsOwnership
<1> HIDE DEF lost, released, q
<1>4. q # NoPortal => SimOK(FreeClonesOf(released, q, lost)) /\ OnlyClones(FreeClonesOf(released, q, lost), released)
  BY <1>1, <1>2, FreeClonesKeeps
<1> QED BY <1>1, <1>3, <1>4 DEF PhysicsOnly, OnlyClones

\* The flags of the physics.
LEMMA FlagsKeep ==
    ASSUME NEW s, SimOK(s), NEW p \in Portals, NEW b \in BOOLEAN
    PROVE  /\ PhysicsOnly([s EXCEPT !.env[p] = b], s)
           /\ PhysicsOnly([s EXCEPT !.local[p] = b], s)
           /\ PhysicsOnly([s EXCEPT !.remote[p] = b], s)
BY DEF SimOK, PhysicsOnly, Simulators

LEMMA ClearLinkedEntitiesKeeps ==
    ASSUME NEW s, SimOK(s), NEW p \in Portals
    PROVE  PhysicsOnly(ClearLinkedEntities(s, p), s)
BY ClearLinkedKeeps DEF PhysicsOnly, OnlyClones

LEMMA ClearLinkedPhysicsKeeps ==
    ASSUME NEW s, SimOK(s), NEW p \in Portals
    PROVE  PhysicsOnly(ClearLinkedPhysics(s, p), s)
<1>0. PhysicsOnly(s, s)
  BY DEF PhysicsOnly
<1>1. \A r, q : SimOK(r) /\ q \in Portals => PhysicsOnly(ClearLinkedPhysicsHalf(r, q), r)
  <2> SUFFICES ASSUME NEW r, NEW q \in Portals, SimOK(r)
               PROVE  PhysicsOnly(ClearLinkedPhysicsHalf(r, q), r)
    OBVIOUS
  <2> DEFINE c == ClearLinkedEntities(r, q)
  <2>1. PhysicsOnly(c, r) /\ SimOK(c)
    BY ClearLinkedEntitiesKeeps DEF PhysicsOnly
  <2>2. ClearLinkedPhysicsHalf(r, q) \in {[c EXCEPT !.remote[q] = FALSE], r}
    BY DEF ClearLinkedPhysicsHalf
  <2> HIDE DEF c
  <2>3. PhysicsOnly([c EXCEPT !.remote[q] = FALSE], c)
    BY <2>1, FlagsKeep
  <2>4. PhysicsOnly(r, r)
    BY DEF PhysicsOnly
  <2> QED BY <2>1, <2>2, <2>3, <2>4, PhysicsThenPhysics
<1>2. s.link[p] # NoPortal => s.link[p] \in Portals
  BY DEF SimOK, Simulators
<1> DEFINE h == ClearLinkedPhysicsHalf(s, p)
           g == ClearLinkedPhysicsHalf(h, s.link[p])
<1>3. PhysicsOnly(h, s) /\ SimOK(h)
  BY <1>1 DEF PhysicsOnly
<1>4. s.link[p] # NoPortal => PhysicsOnly(g, h)
  BY <1>1, <1>2, <1>3
<1>5. ClearLinkedPhysics(s, p) = h \/ (s.link[p] # NoPortal /\ ClearLinkedPhysics(s, p) = g)
  BY DEF ClearLinkedPhysics
<1> HIDE DEF h, g
<1> QED BY <1>3, <1>4, <1>5, PhysicsThenPhysics

LEMMA ClearLocalPhysicsKeeps ==
    ASSUME NEW s, SimOK(s), NEW p \in Portals
    PROVE  PhysicsOnly(ClearLocalPhysics(s, p), s)
<1> DEFINE c == ClearLinkedEntities(s, p)
           d == ReleasePhysicsOwnership(c, p, s.owns[p])
<1>1. PhysicsOnly(c, s) /\ SimOK(c)
  BY ClearLinkedEntitiesKeeps DEF PhysicsOnly
<1>2. s.owns[p] \in SUBSET Entities
  BY DEF SimOK, Simulators
<1>3. ClearLocalPhysics(s, p) \in {[d EXCEPT !.local[p] = FALSE], s}
  BY DEF ClearLocalPhysics
<1> HIDE DEF c
<1>4. PhysicsOnly(d, c) /\ SimOK(d)
  BY <1>1, <1>2, ReleasePhysicsKeeps DEF PhysicsOnly
<1> HIDE DEF d
<1>5. PhysicsOnly([d EXCEPT !.local[p] = FALSE], d) /\ PhysicsOnly(s, s)
  BY <1>4, FlagsKeep DEF PhysicsOnly
<1> QED BY <1>1, <1>3, <1>4, <1>5, PhysicsThenPhysics

LEMMA CreateLocalPhysicsKeeps ==
    ASSUME NEW s, SimOK(s), NEW p \in Portals
    PROVE  PhysicsOnly(CreateLocalPhysics(s, p), s)
<1> DEFINE d == TakePhysicsOwnership(s, p, s.owns[p])
<1>1. s.owns[p] \in SUBSET Entities
  BY DEF SimOK, Simulators
<1>2. CreateLocalPhysics(s, p) \in {[d EXCEPT !.local[p] = TRUE], s}
  BY DEF CreateLocalPhysics
<1>3. PhysicsOnly(d, s) /\ SimOK(d)
  BY <1>1, TakePhysicsKeeps DEF PhysicsOnly
<1> HIDE DEF d
<1>4. PhysicsOnly([d EXCEPT !.local[p] = TRUE], d) /\ PhysicsOnly(s, s)
  BY <1>3, FlagsKeep DEF PhysicsOnly
<1> QED BY <1>2, <1>3, <1>4, PhysicsThenPhysics

LEMMA CreateLinkedPhysicsKeeps ==
    ASSUME NEW s, SimOK(s), NEW p \in Portals
    PROVE  PhysicsOnly(CreateLinkedPhysics(s, p), s)
<1>1. \A r, q : SimOK(r) /\ q \in Portals => PhysicsOnly(CreateLinkedPhysicsHalf(r, q), r)
  <2> SUFFICES ASSUME NEW r, NEW q \in Portals, SimOK(r)
               PROVE  PhysicsOnly(CreateLinkedPhysicsHalf(r, q), r)
    OBVIOUS
  <2> DEFINE b == [r EXCEPT !.env[q] = TRUE, !.remote[q] = TRUE]
             es == {e \in r.owns[r.link[q]] : r.clones[q][e] = 0}
  <2>0. PhysicsOnly(r, r)
    BY DEF PhysicsOnly
  <2>1. CreateLinkedPhysicsHalf(r, q) = r
          \/ (r.link[q] # NoPortal /\ CreateLinkedPhysicsHalf(r, q) = AddClones(b, q, es))
    BY DEF CreateLinkedPhysicsHalf
  <2>2. PhysicsOnly(b, r) /\ SimOK(b)
    BY DEF SimOK, PhysicsOnly, Simulators
  <2>3. r.link[q] # NoPortal => es \in SUBSET Entities
    BY DEF SimOK, Simulators
  <2> HIDE DEF b, es
  <2>4. r.link[q] # NoPortal => PhysicsOnly(AddClones(b, q, es), b)
    BY <2>2, <2>3, AddClonesKeeps DEF PhysicsOnly, OnlyClones
  <2> QED BY <2>0, <2>1, <2>2, <2>4, PhysicsThenPhysics
<1>2. s.link[p] # NoPortal => s.link[p] \in Portals
  BY DEF SimOK, Simulators
<1> DEFINE h == CreateLinkedPhysicsHalf(s, p)
           g == CreateLinkedPhysicsHalf(h, s.link[p])
<1>3. PhysicsOnly(h, s) /\ SimOK(h)
  BY <1>1 DEF PhysicsOnly
<1>4. s.link[p] # NoPortal => PhysicsOnly(g, h)
  BY <1>1, <1>2, <1>3
<1>5. h # s => s.link[p] # NoPortal
  BY DEF CreateLinkedPhysicsHalf
<1>6. CreateLinkedPhysics(s, p) = IF h = s THEN s ELSE g
  BY DEF CreateLinkedPhysics
<1> HIDE DEF h, g
<1> QED BY <1>3, <1>4, <1>5, <1>6, PhysicsThenPhysics DEF PhysicsOnly

LEMMA CreateAllPhysicsKeeps ==
    ASSUME NEW s, SimOK(s), NEW p \in Portals
    PROVE  PhysicsOnly(CreateAllPhysics(s, p), s)
<1> DEFINE a == [s EXCEPT !.env[p] = TRUE]
           b == CreateLocalPhysics(a, p)
<1>0. CreateAllPhysics(s, p) = CreateLinkedPhysics(b, p)
  BY DEF CreateAllPhysics
<1>1. PhysicsOnly(a, s) /\ SimOK(a)
  BY FlagsKeep DEF PhysicsOnly
<1> HIDE DEF a
<1>2. PhysicsOnly(b, a) /\ SimOK(b)
  BY <1>1, CreateLocalPhysicsKeeps DEF PhysicsOnly
<1> HIDE DEF b
<1>3. PhysicsOnly(CreateLinkedPhysics(b, p), b)
  BY <1>2, CreateLinkedPhysicsKeeps
<1> QED BY <1>0, <1>1, <1>2, <1>3, PhysicsThenPhysics

-----------------------------------------------------------------------------
(* Ownership *)

\* The flags of the simulators, the table of owners and the players' handles
\* tell the same.
Owned(s) ==
    /\ \A p \in Portals, e \in Entities : e \in s.owns[p] <=> s.owner[e] = p
    /\ \A e \in Players : s.holder[e] = s.owner[e]

Sound(s) == SimOK(s) /\ Owned(s)

SamePlaces(r, s) == r.link = s.link /\ r.ready = s.ready /\ r.place = s.place

\* r comes from s by handing entities on, which only p may be given.
OnlyGains(r, s, p) ==
    /\ Sound(r) /\ SamePlaces(r, s)
    /\ \A q \in Portals : q # p => r.owns[q] \subseteq s.owns[q]

\* r comes from s by releasing entities.
OnlyLoses(r, s) ==
    /\ Sound(r) /\ SamePlaces(r, s)
    /\ \A q \in Portals : r.owns[q] \subseteq s.owns[q]

LEMMA GainsThenGains ==
    ASSUME NEW r, NEW s, NEW t, NEW p, OnlyGains(r, s, p), OnlyGains(s, t, p)
    PROVE  OnlyGains(r, t, p)
BY DEF OnlyGains, SamePlaces

\* Physics does not concern ownership.
LEMMA PhysicsSound ==
    ASSUME NEW r, NEW s, PhysicsOnly(r, s), Owned(s)
    PROVE  OnlyLoses(r, s) /\ r.owns = s.owns /\ r.owner = s.owner
BY DEF PhysicsOnly, OnlyLoses, Sound, SamePlaces, Owned

LEMMA MarkAsOwnedKeeps ==
    ASSUME NEW s, Sound(s), NEW p \in Portals, NEW e \in Entities,
           s.owner[e] \in {NoPortal, p}
    PROVE  LET r == MarkAsOwned(s, p, e)
           IN  OnlyGains(r, s, p) /\ r.owner = [s.owner EXCEPT ![e] = p]
<1> DEFINE r == MarkAsOwned(s, p, e)
<1>0. NoPortal \notin Portals /\ Players \subseteq Entities
  BY NoPortalAssumption, EntitiesAssumption
<1>1. s \in Simulators /\ SimOK(s) /\ Owned(s)
  BY DEF Sound, SimOK
<1>2. SimOK(r) /\ SamePlaces(r, s)
  BY <1>1 DEF MarkAsOwned, SimOK, Simulators, SamePlaces
<1>3. r.owns = [s.owns EXCEPT ![p] = @ \cup {e}] /\ r.owner = [s.owner EXCEPT ![e] = p]
  BY <1>1 DEF MarkAsOwned, Simulators
<1>4. r.holder = [s.holder EXCEPT ![e] = IF e \in Players THEN p ELSE @]
  BY <1>1 DEF MarkAsOwned, Simulators
<1>5. /\ s.owns \in [Portals -> SUBSET Entities]
      /\ s.owner \in [Entities -> Portals \cup {NoPortal}]
      /\ s.holder \in [Entities -> Portals \cup {NoPortal}]
  BY <1>1 DEF Simulators
<1>6. Owned(r)
  <2>1. \A q \in Portals, x \in Entities : x \in r.owns[q] <=> r.owner[x] = q
    BY <1>0, <1>1, <1>3, <1>5 DEF Owned
  <2>2. \A x \in Players : r.holder[x] = r.owner[x]
    BY <1>0, <1>1, <1>3, <1>4, <1>5 DEF Owned
  <2> HIDE DEF r
  <2> QED BY <2>1, <2>2 DEF Owned
<1>7. \A q \in Portals : q # p => r.owns[q] \subseteq s.owns[q]
  BY <1>3, <1>5
<1> QED BY <1>2, <1>3, <1>6, <1>7 DEF OnlyGains, Sound

LEMMA MarkAsReleasedKeeps ==
    ASSUME NEW s, Sound(s), NEW p \in Portals, NEW es \in SUBSET s.owns[p]
    PROVE  LET r == MarkAsReleased(s, p, es)
           IN  /\ OnlyLoses(r, s)
               /\ r.owns = [s.owns EXCEPT ![p] = @ \ es]
               /\ \A e \in Entities : r.owner[e] = IF e \in es THEN NoPortal ELSE s.owner[e]
<1> DEFINE r == MarkAsReleased(s, p, es)
<1>0. NoPortal \notin Portals /\ Players \subseteq Entities
  BY NoPortalAssumption, EntitiesAssumption
<1>1. s \in Simulators /\ SimOK(s) /\ Owned(s)
  BY DEF Sound, SimOK
<1>2. SimOK(r) /\ SamePlaces(r, s)
  BY <1>1 DEF MarkAsReleased, SimOK, Simulators, SamePlaces
<1>3. /\ r.owns = [s.owns EXCEPT ![p] = @ \ es]
      /\ r.owner = [e \in Entities |-> IF e \in es THEN NoPortal ELSE s.owner[e]]
      /\ r.holder = [e \in Entities |-> IF e \in es /\ s.holder[e] = p THEN NoPortal ELSE s.holder[e]]
  BY <1>1 DEF MarkAsReleased, Simulators
<1>5. /\ s.owns \in [Portals -> SUBSET Entities]
      /\ s.owner \in [Entities -> Portals \cup {NoPortal}]
      /\ s.holder \in [Entities -> Portals \cup {NoPortal}]
  BY <1>1 DEF Simulators
<1>6. Owned(r)
  <2>1. \A q \in Portals, x \in Entities : x \in r.owns[q] <=> r.owner[x] = q
    BY <1>0, <1>1, <1>3, <1>5 DEF Owned
  <2>2. \A x \in Players : r.holder[x] = r.owner[x]
    BY <1>0, <1>1, <1>3, <1>5 DEF Owned
  <2> HIDE DEF r
  <2> QED BY <2>1, <2>2 DEF Owned
<1>7. \A q \in Portals : r.owns[q] \subseteq s.owns[q]
  BY <1>3, <1>5
<1> QED BY <1>2, <1>3, <1>6, <1>7 DEF OnlyLoses, Sound

\* Released entities have no owner; nobody else loses any.
LEMMA ReleaseOwnershipKeeps ==
    ASSUME NEW s, Sound(s), NEW p \in Portals, NEW es \in SUBSET Entities
    PROVE  LET r == ReleaseOwnershipOfEntity(s, p, es)
           IN  /\ OnlyLoses(r, s)
               /\ \A q \in Portals : q # p => r.owns[q] = s.owns[q]
               /\ \A e \in Entities : r.owner[e] \in {s.owner[e], NoPortal}
               /\ \A e \in es : s.owner[e] = p => r.owner[e] = NoPortal
<1> DEFINE lost == Family(es \cap s.owns[p]) \cap s.owns[p]
           d == ReleasePhysicsOwnership(s, p, lost)
           r == MarkAsReleased(d, p, lost)
<1>1. /\ SimOK(s) /\ Owned(s) /\ s.owns[p] \in SUBSET Entities
      /\ s.owns \in [Portals -> SUBSET Entities]
  BY DEF Sound, SimOK, Simulators
<1>2. lost \in SUBSET s.owns[p] /\ es \cap s.owns[p] \subseteq lost
  BY DEF Family
<1>3. ReleaseOwnershipOfEntity(s, p, es) = r
  BY DEF ReleaseOwnershipOfEntity
<1> HIDE DEF lost
<1>4. PhysicsOnly(d, s) /\ Sound(d) /\ SamePlaces(d, s) /\ d.owns = s.owns /\ d.owner = s.owner
  BY <1>1, <1>2, ReleasePhysicsKeeps, PhysicsSound DEF OnlyLoses
<1> HIDE DEF d
<1>5. /\ OnlyLoses(r, d)
      /\ r.owns = [d.owns EXCEPT ![p] = @ \ lost]
      /\ \A e \in Entities : r.owner[e] = IF e \in lost THEN NoPortal ELSE d.owner[e]
  BY <1>2, <1>4, MarkAsReleasedKeeps
<1> HIDE DEF r
<1>6. OnlyLoses(r, s)
  BY <1>4, <1>5 DEF OnlyLoses, SamePlaces
<1>7. \A e \in es : s.owner[e] = p => e \in lost
  BY <1>1, <1>2 DEF Owned
<1>8. \A q \in Portals : q # p => r.owns[q] = s.owns[q]
  BY <1>1, <1>4, <1>5
<1> QED BY <1>3, <1>4, <1>5, <1>6, <1>7, <1>8

\* ReleaseAllEntityOwnership leaves p with nothing.
LEMMA ReleaseAllKeeps ==
    ASSUME NEW s, Sound(s), NEW p \in Portals
    PROVE  LET r == ReleaseAllEntityOwnership(s, p)
           IN  OnlyLoses(r, s) /\ r.owns[p] = {}
<1> DEFINE r == ReleaseOwnershipOfEntity(s, p, s.owns[p])
<1>0. NoPortal \notin Portals
  BY NoPortalAssumption
<1>1. Owned(s) /\ s.owns[p] \in SUBSET Entities
  BY DEF Sound, SimOK, Simulators
<1>2. /\ OnlyLoses(r, s)
      /\ \A e \in s.owns[p] : s.owner[e] = p => r.owner[e] = NoPortal
  BY <1>1, ReleaseOwnershipKeeps
<1>3. ReleaseAllEntityOwnership(s, p) = r
  BY DEF ReleaseAllEntityOwnership
<1> HIDE DEF r
<1>4. r.owns[p] \subseteq s.owns[p]
  BY <1>2 DEF OnlyLoses
<1>5. \A e \in s.owns[p] : r.owner[e] # p
  BY <1>0, <1>1, <1>2 DEF Owned
<1>6. Owned(r)
  BY <1>2 DEF OnlyLoses, Sound
<1> QED BY <1>1, <1>2, <1>3, <1>4, <1>5, <1>6 DEF Owned

\* One entity that nobody else owns is marked and simulated.
LEMMA TakeOneKeeps ==
    ASSUME NEW s, Sound(s), NEW p \in Portals, NEW e \in Entities,
           s.owner[e] \in {NoPortal, p}
    PROVE  LET r == TakePhysicsOwnership(MarkAsOwned(s, p, e), p, {e})
           IN  OnlyGains(r, s, p) /\ r.owner = [s.owner EXCEPT ![e] = p]
<1> DEFINE m == MarkAsOwned(s, p, e)
           r == TakePhysicsOwnership(m, p, {e})
<1>1. OnlyGains(m, s, p) /\ m.owner = [s.owner EXCEPT ![e] = p]
  BY MarkAsOwnedKeeps
<1> HIDE DEF m
<1>2. SimOK(m) /\ Owned(m)
  BY <1>1 DEF OnlyGains, Sound
<1>3. PhysicsOnly(r, m)
  BY <1>2, TakePhysicsKeeps
<1> HIDE DEF r
<1>4. OnlyLoses(r, m) /\ r.owner = m.owner
  BY <1>2, <1>3, PhysicsSound
<1>5. OnlyGains(r, m, p)
  BY <1>4 DEF OnlyGains, OnlyLoses
<1>6. OnlyGains(r, s, p)
  BY <1>1, <1>5, GainsThenGains
<1> QED BY <1>1, <1>4, <1>6 DEF m, r

\* TakeOwnershipOfEntity: a child may come from another simulator, which loses
\* it first.
LEMMA TakeOwnershipKeeps ==
    ASSUME NEW s, Sound(s), NEW p \in Portals, NEW e \in Entities,
           s.owner[e] \in {NoPortal, p}
    PROVE  OnlyGains(TakeOwnershipOfEntity(s, p, e), s, p)
<1> DEFINE take(r, x) == TakePhysicsOwnership(MarkAsOwned(r, p, x), p, {x})
           mine == take(s, e)
           c == Child[e]
           lost == ReleaseOwnershipOfEntity(mine, mine.owner[c], {c})
<1>1. c \in Entities \cup {NoEntity} /\ NoEntity \notin Entities
  BY EntitiesAssumption
<1>2. OnlyGains(mine, s, p)
  BY TakeOneKeeps
<1>3. Sound(mine) /\ mine.owner \in [Entities -> Portals \cup {NoPortal}]
  <2> HIDE DEF mine
  <2> QED BY <1>2 DEF OnlyGains, Sound, SimOK, Simulators
<1>4. OnlyGains(s, s, p)
  BY DEF OnlyGains, SamePlaces
<1>5. TakeOwnershipOfEntity(s, p, e) =
        IF e \in s.owns[p] THEN s
        ELSE IF c = NoEntity \/ mine.owner[c] = p THEN mine
        ELSE IF mine.owner[c] = NoPortal THEN take(mine, c)
        ELSE take(lost, c)
  BY DEF TakeOwnershipOfEntity
<1> HIDE DEF mine
<1>6. ASSUME c \in Entities, mine.owner[c] = NoPortal
      PROVE  OnlyGains(take(mine, c), s, p)
  BY <1>2, <1>3, <1>6, TakeOneKeeps, GainsThenGains
<1>7. ASSUME c \in Entities, mine.owner[c] # NoPortal
      PROVE  OnlyGains(take(lost, c), s, p)
  <2>1. mine.owner[c] \in Portals
    BY <1>3, <1>7
  <2>2. OnlyLoses(lost, mine) /\ lost.owner[c] = NoPortal
    <3> DEFINE o == mine.owner[c]
    <3>1. o \in Portals /\ {c} \in SUBSET Entities /\ c \in {c} /\ mine.owner[c] = o
      BY <1>7, <2>1
    <3> HIDE DEF o, c
    <3> QED BY <1>3, <3>1, ReleaseOwnershipKeeps
  <2> HIDE DEF lost
  <2>3. OnlyGains(lost, mine, p) /\ Sound(lost)
    BY <2>2 DEF OnlyLoses, OnlyGains
  <2>4. OnlyGains(take(lost, c), lost, p)
    BY <1>7, <2>2, <2>3, TakeOneKeeps
  <2> HIDE DEF take
  <2> QED BY <1>2, <2>3, <2>4, GainsThenGains
<1> HIDE DEF take, lost, c
<1> QED BY <1>1, <1>2, <1>4, <1>5, <1>6, <1>7

\* Pre_UTIL_Remove leaves the entity without an owner.
LEMMA PreUtilRemoveKeeps ==
    ASSUME NEW s, Sound(s), NEW e \in Entities
    PROVE  OnlyLoses(PreUtilRemove(s, e), s)
<1> DEFINE p == s.owner[e]
           d == ReleasePhysicsOwnership(s, p, {e})
           left == IF p = NoPortal THEN s ELSE ReleaseOwnershipOfEntity(d, p, {e})
           r == [left EXCEPT !.owns = [q \in Portals |-> @[q] \ {e}],
                             !.physics = [q \in Portals |-> @[q] \ {e}]]
<1>0. NoPortal \notin Portals /\ SimOK(s) /\ Owned(s)
  BY NoPortalAssumption DEF Sound
<1>1. p \in Portals \cup {NoPortal}
  BY <1>0 DEF SimOK, Simulators
<1>2. PreUtilRemove(s, e) = r
  BY DEF PreUtilRemove
<1>3. OnlyLoses(left, s) /\ left.owner[e] = NoPortal
  <2>1. CASE p = NoPortal
    BY <2>1 DEF OnlyLoses, SamePlaces
  <2>2. CASE p # NoPortal
    <3>1. PhysicsOnly(d, s)
      BY <1>0, <1>1, <2>2, ReleasePhysicsKeeps
    <3> HIDE DEF d
    <3>2. OnlyLoses(d, s) /\ d.owner = s.owner
      BY <1>0, <3>1, PhysicsSound
    <3>3. Sound(d)
      BY <3>2 DEF OnlyLoses
    <3>4. OnlyLoses(left, d) /\ left.owner[e] = NoPortal
      BY <1>1, <2>2, <3>2, <3>3, ReleaseOwnershipKeeps
    <3> HIDE DEF left
    <3> QED BY <3>2, <3>4 DEF OnlyLoses, SamePlaces
  <2> QED BY <2>1, <2>2
<1> HIDE DEF left
<1>4. /\ SimOK(left) /\ Owned(left) /\ left \in Simulators
      /\ left.owns \in [Portals -> SUBSET Entities]
  BY <1>3 DEF OnlyLoses, Sound, SimOK, Simulators
<1>5. SimOK(r) /\ SamePlaces(r, left) /\ r.owner = left.owner /\ r.holder = left.holder
  BY <1>4 DEF SimOK, Simulators, SamePlaces
<1>6. r.owns = [q \in Portals |-> left.owns[q] \ {e}]
  BY <1>4 DEF Simulators
<1> HIDE DEF r
<1>7. Owned(r)
  BY <1>0, <1>3, <1>4, <1>5, <1>6 DEF Owned
<1>8. OnlyLoses(r, left)
  BY <1>5, <1>6, <1>7 DEF OnlyLoses, Sound
<1> QED BY <1>2, <1>3, <1>8 DEF OnlyLoses, SamePlaces

-----------------------------------------------------------------------------
(* Placement and attachment *)

\* A simulator that has a place has its local data.
Told(s) == \A p \in Portals : s.place[p] # Nowhere => s.ready[p]

\* r comes from s without gains, and the places in it are those of s, or where
\* their portals stand.
Resettled(r, s, origin) ==
    /\ Sound(r) /\ Told(r)
    /\ \A q \in Portals : r.owns[q] \subseteq s.owns[q]
    /\ \A q \in Portals : r.place[q] \in {s.place[q], origin[q]}

LEMMA ResettledTwice ==
    ASSUME NEW r, NEW s, NEW t, NEW origin,
           Resettled(r, s, origin), Resettled(s, t, origin)
    PROVE  Resettled(r, t, origin)
BY DEF Resettled

LEMMA LosesResettled ==
    ASSUME NEW r, NEW s, NEW origin, OnlyLoses(r, s), Told(s)
    PROVE  Resettled(r, s, origin)
BY DEF OnlyLoses, Resettled, SamePlaces, Told

LEMMA MoveToKeeps ==
    ASSUME NEW s, Sound(s), Told(s), NEW p \in Portals,
           NEW origin \in [Portals -> Spots \cup {Nowhere}]
    PROVE  LET r == MoveTo(s, p, origin[p])
           IN  /\ Resettled(r, s, origin) /\ r.link = s.link
               /\ r.owns = s.owns /\ r.place = [s.place EXCEPT ![p] = origin[p]]
<1> DEFINE at == origin[p]
           a == ClearLinkedPhysics(s, p)
           b == ClearLocalPhysics(a, p)
           c == [b EXCEPT !.place[p] = at, !.ready[p] = TRUE]
           d == CreateAllPhysics(c, p)
<1>0. SimOK(s) /\ Owned(s) /\ at \in Spots \cup {Nowhere}
  BY DEF Sound
<1>1. MoveTo(s, p, at) = IF s.place[p] = at THEN s ELSE d
  BY DEF MoveTo
<1>2. s.place \in [Portals -> Spots \cup {Nowhere}]
  BY <1>0 DEF SimOK, Simulators
<1>3. CASE s.place[p] = at
  <2>1. s.place = [s.place EXCEPT ![p] = at]
    BY <1>2, <1>3
  <2>2. OnlyLoses(s, s)
    BY DEF OnlyLoses, SamePlaces
  <2>3. Resettled(s, s, origin)
    BY <2>2, LosesResettled
  <2> QED BY <1>1, <1>3, <2>1, <2>3
<1>4. CASE s.place[p] # at
  <2>1. PhysicsOnly(a, s) /\ SimOK(a)
    BY <1>0, ClearLinkedPhysicsKeeps DEF PhysicsOnly
  <2> HIDE DEF a
  <2>2. PhysicsOnly(b, a) /\ SimOK(b)
    BY <2>1, ClearLocalPhysicsKeeps DEF PhysicsOnly
  <2> HIDE DEF b
  <2>3. /\ b.link = s.link /\ b.ready = s.ready /\ b.place = s.place
        /\ b.owns = s.owns /\ b.owner = s.owner /\ b.holder = s.holder
    BY <2>1, <2>2 DEF PhysicsOnly
  <2>4. SimOK(c)
    BY <1>0, <2>2 DEF SimOK, Simulators
  <2>5. /\ c.link = b.link /\ c.owns = b.owns /\ c.owner = b.owner /\ c.holder = b.holder
        /\ c.place = [b.place EXCEPT ![p] = at] /\ c.ready = [b.ready EXCEPT ![p] = TRUE]
    BY <2>2 DEF SimOK, Simulators
  <2> HIDE DEF c
  <2>6. PhysicsOnly(d, c)
    BY <2>4, CreateAllPhysicsKeeps
  <2> HIDE DEF d
  <2>7. /\ d.link = s.link /\ d.ready = [s.ready EXCEPT ![p] = TRUE]
        /\ d.place = [s.place EXCEPT ![p] = at]
        /\ d.owns = s.owns /\ d.owner = s.owner /\ d.holder = s.holder /\ SimOK(d)
    BY <2>3, <2>5, <2>6 DEF PhysicsOnly
  <2>8. s.ready \in [Portals -> BOOLEAN]
    BY <1>0 DEF SimOK, Simulators
  <2> HIDE DEF at
  <2>9. Told(d)
    BY <1>2, <2>7, <2>8 DEF Told
  <2>10. Owned(d)
    BY <1>0, <2>7 DEF Owned
  <2>11. \A q \in Portals : d.place[q] \in {s.place[q], origin[q]}
    BY <1>2, <2>7 DEF at
  <2> QED BY <1>1, <1>4, <2>7, <2>9, <2>10, <2>11 DEF Resettled, Sound, at
<1> QED BY <1>3, <1>4

LEMMA DetachKeeps ==
    ASSUME NEW s, Sound(s), Told(s), NEW p \in Portals, NEW origin
    PROVE  LET r == DetachFromLinked(s, p)
           IN  /\ Resettled(r, s, origin) /\ r.link = Detached(s.link, p)
               /\ r.owns = s.owns /\ r.place = s.place /\ r.ready = s.ready
<1> DEFINE half(r, x) == ClearLinkedPhysics(ClearLinkedEntities(r, x), x)
           q == s.link[p]
           a == half(s, p)
           b == half(a, q)
           c == [b EXCEPT !.link[p] = NoPortal, !.link[q] = NoPortal]
<1>0. SimOK(s) /\ Owned(s)
  BY DEF Sound
<1>1. DetachFromLinked(s, p) = IF q = NoPortal THEN s ELSE c
  BY DEF DetachFromLinked
<1>2. s.link \in [Portals -> Portals \cup {NoPortal}] /\ q \in Portals \cup {NoPortal}
  BY <1>0 DEF SimOK, Simulators
<1>3. \A r, x : SimOK(r) /\ x \in Portals => PhysicsOnly(half(r, x), r)
  <2> SUFFICES ASSUME NEW r, NEW x \in Portals, SimOK(r)
               PROVE  PhysicsOnly(half(r, x), r)
    OBVIOUS
  <2> DEFINE d == ClearLinkedEntities(r, x)
  <2>1. PhysicsOnly(d, r) /\ SimOK(d)
    BY ClearLinkedEntitiesKeeps DEF PhysicsOnly
  <2> HIDE DEF d
  <2>2. PhysicsOnly(ClearLinkedPhysics(d, x), d)
    BY <2>1, ClearLinkedPhysicsKeeps
  <2> QED BY <2>1, <2>2, PhysicsThenPhysics DEF d
<1>4. CASE q = NoPortal
  <2>1. OnlyLoses(s, s)
    BY DEF OnlyLoses, SamePlaces
  <2>2. Resettled(s, s, origin)
    BY <2>1, LosesResettled
  <2> QED BY <1>1, <1>4, <2>2 DEF Detached
<1>5. CASE q # NoPortal
  <2> HIDE DEF half
  <2>1. PhysicsOnly(a, s) /\ SimOK(a)
    BY <1>0, <1>3 DEF PhysicsOnly
  <2> HIDE DEF a
  <2>2. PhysicsOnly(b, a) /\ SimOK(b)
    BY <1>2, <1>3, <1>5, <2>1 DEF PhysicsOnly
  <2> HIDE DEF b
  <2>3. /\ b.link = s.link /\ b.ready = s.ready /\ b.place = s.place
        /\ b.owns = s.owns /\ b.owner = s.owner /\ b.holder = s.holder
    BY <2>1, <2>2 DEF PhysicsOnly
  <2>4. SimOK(c)
    BY <1>2, <1>5, <2>2 DEF SimOK, Simulators
  <2>5. /\ c.link = [b.link EXCEPT ![p] = NoPortal, ![q] = NoPortal]
        /\ c.owns = b.owns /\ c.owner = b.owner /\ c.holder = b.holder
        /\ c.place = b.place /\ c.ready = b.ready
    BY <2>2 DEF SimOK, Simulators
  <2> HIDE DEF c
  <2>6. Detached(s.link, p) = [s.link EXCEPT ![q] = NoPortal, ![p] = NoPortal]
    BY <1>5 DEF Detached
  <2>7. c.link = Detached(s.link, p)
    <3> HIDE DEF q
    <3> QED BY <1>2, <1>5, <2>3, <2>5, <2>6
  <2>8. Owned(c) /\ Told(c)
    BY <1>0, <2>3, <2>5 DEF Owned, Told
  <2> QED BY <1>1, <1>5, <2>3, <2>4, <2>5, <2>7, <2>8 DEF Resettled, Sound
<1> QED BY <1>4, <1>5

LEMMA AttachKeeps ==
    ASSUME NEW s, Sound(s), Told(s), NEW p \in Portals, NEW q \in Portals, NEW origin
    PROVE  LET r == AttachTo(s, p, q)
           IN  /\ Resettled(r, s, origin) /\ r.link = Attached(s.link, p, q)
               /\ r.owns = s.owns /\ r.place = s.place /\ r.ready = s.ready
<1> DEFINE d == DetachFromLinked(s, p)
           tied == [d EXCEPT !.link[p] = q, !.link[q] = p]
           r == CreateLinkedPhysics(tied, p)
<1>1. AttachTo(s, p, q) = IF s.link[p] = q THEN s
                          ELSE IF s.ready[p] /\ s.ready[q] THEN r ELSE tied
  BY DEF AttachTo
<1>2. CASE s.link[p] = q
  <2>1. OnlyLoses(s, s)
    BY DEF OnlyLoses, SamePlaces
  <2>2. Resettled(s, s, origin)
    BY <2>1, LosesResettled
  <2> QED BY <1>1, <1>2, <2>2 DEF Attached
<1>3. CASE s.link[p] # q
  <2>1. /\ Resettled(d, s, origin) /\ d.link = Detached(s.link, p)
        /\ d.owns = s.owns /\ d.place = s.place /\ d.ready = s.ready
    BY DetachKeeps
  <2> HIDE DEF d
  <2>2. SimOK(d) /\ Owned(d) /\ Told(d)
    BY <2>1 DEF Resettled, Sound
  <2>3. SimOK(tied)
    BY <2>2 DEF SimOK, Simulators
  <2>4. /\ tied.link = [d.link EXCEPT ![p] = q, ![q] = p]
        /\ tied.owns = d.owns /\ tied.owner = d.owner /\ tied.holder = d.holder
        /\ tied.place = d.place /\ tied.ready = d.ready
    BY <2>2 DEF SimOK, Simulators
  <2> HIDE DEF tied
  <2>5. PhysicsOnly(r, tied)
    BY <2>3, CreateLinkedPhysicsKeeps
  <2>6. PhysicsOnly(tied, tied)
    BY <2>3 DEF PhysicsOnly
  <2> HIDE DEF r
  <2>7. PICK x : x = AttachTo(s, p, q) /\ PhysicsOnly(x, tied)
    BY <1>1, <1>3, <2>5, <2>6
  <2>8. /\ x.link = Attached(s.link, p, q)
        /\ x.owns = s.owns /\ x.owner = d.owner /\ x.holder = d.holder
        /\ x.place = s.place /\ x.ready = s.ready /\ SimOK(x)
    BY <1>3, <2>1, <2>4, <2>7 DEF PhysicsOnly, Attached
  <2>9. Owned(x) /\ Told(x)
    BY <2>1, <2>2, <2>8 DEF Owned, Told
  <2> QED BY <2>7, <2>8, <2>9 DEF Resettled, Sound
<1> QED BY <1>2, <1>3

LEMMA ClearEverythingKeeps ==
    ASSUME NEW s, Sound(s), NEW p \in Portals
    PROVE  LET r == ClearEverything(s, p)
           IN  OnlyLoses(r, s) /\ r.owns[p] = {}
<1> DEFINE a == ClearLinkedPhysics(s, p)
           b == ClearLocalPhysics(a, p)
           c == [b EXCEPT !.env[p] = FALSE]
           r == ReleaseAllEntityOwnership(c, p)
<1>0. SimOK(s) /\ Owned(s)
  BY DEF Sound
<1>1. ClearEverything(s, p) = r
  BY DEF ClearEverything
<1>2. PhysicsOnly(a, s) /\ SimOK(a)
  BY <1>0, ClearLinkedPhysicsKeeps DEF PhysicsOnly
<1> HIDE DEF a
<1>3. PhysicsOnly(b, a) /\ SimOK(b)
  BY <1>2, ClearLocalPhysicsKeeps DEF PhysicsOnly
<1> HIDE DEF b
<1>4. PhysicsOnly(c, b)
  BY <1>3, FlagsKeep
<1> HIDE DEF c
<1>5. PhysicsOnly(c, s)
  BY <1>2, <1>3, <1>4, PhysicsThenPhysics
<1>6. OnlyLoses(c, s) /\ Sound(c)
  BY <1>0, <1>5, PhysicsSound DEF OnlyLoses
<1>7. OnlyLoses(r, c) /\ r.owns[p] = {}
  BY <1>6, ReleaseAllKeeps
<1> HIDE DEF r
<1> QED BY <1>1, <1>6, <1>7 DEF OnlyLoses, SamePlaces

\* The destruction leaves p's slot as a new simulator.
LEMMA DestroyedKeeps ==
    ASSUME NEW s, Sound(s), Told(s), NEW p \in Portals
    PROVE  LET r == Destroyed(s, p)
           IN  /\ Sound(r) /\ Told(r) /\ r.link = Detached(s.link, p)
               /\ \A q \in Portals : r.owns[q] \subseteq s.owns[q]
               /\ r.owns[p] = {}
               /\ r.place = [s.place EXCEPT ![p] = Nowhere]
<1> DEFINE a == DetachFromLinked(s, p)
           b == ClearEverything(a, p)
           r == [b EXCEPT !.place[p] = Nowhere, !.ready[p] = FALSE, !.local[p] = FALSE,
                          !.remote[p] = FALSE, !.physics[p] = {},
                          !.holder = [e \in Entities |-> IF @[e] = p THEN NoPortal ELSE @[e]]]
<1>0. NoPortal \notin Portals /\ Players \subseteq Entities
  BY NoPortalAssumption, EntitiesAssumption
<1>1. Destroyed(s, p) = r
  BY DEF Destroyed
<1>2. /\ Sound(a) /\ Told(a) /\ a.link = Detached(s.link, p)
      /\ a.owns = s.owns /\ a.place = s.place
  BY DetachKeeps DEF Resettled
<1> HIDE DEF a
<1>3. OnlyLoses(b, a) /\ b.owns[p] = {}
  BY <1>2, ClearEverythingKeeps
<1> HIDE DEF b
<1>4. SimOK(b) /\ Owned(b) /\ b \in Simulators /\ Told(b)
  BY <1>2, <1>3 DEF OnlyLoses, Sound, SimOK, SamePlaces, Told
<1>5. SimOK(r)
  BY <1>4 DEF SimOK, Simulators
<1>6. /\ r.link = b.link /\ r.owns = b.owns /\ r.owner = b.owner
      /\ r.place = [b.place EXCEPT ![p] = Nowhere]
      /\ r.ready = [b.ready EXCEPT ![p] = FALSE]
      /\ r.holder = [e \in Entities |-> IF b.holder[e] = p THEN NoPortal ELSE b.holder[e]]
  BY <1>4 DEF Simulators
<1>7. /\ b.place \in [Portals -> Spots \cup {Nowhere}]
      /\ b.ready \in [Portals -> BOOLEAN]
  BY <1>4 DEF Simulators
<1> HIDE DEF r
<1>8. Told(r)
  BY <1>4, <1>6, <1>7 DEF Told
<1>9. Owned(r)
  BY <1>0, <1>3, <1>4, <1>6 DEF Owned
<1> QED BY <1>1, <1>2, <1>3, <1>5, <1>6, <1>8, <1>9 DEF OnlyLoses, Sound, SamePlaces

-----------------------------------------------------------------------------
(* Which clones there are                                                  *)
(*                                                                         *)
(* A clone stands for an entity that is simulated on the other side, and   *)
(* where there may be one of every entity, a simulator that is linked to   *)
(* the other side has a clone of each that is never refused one. What      *)
(* follows shows that every operator keeps it so, provided that a          *)
(* simulator which is handed an entity has an environment to simulate it.  *)

\* Attachment is mutual.
Paired(link) ==
    \A p \in Portals : link[p] # NoPortal => link[p] # p /\ link[link[p]] = p

\* No clone but one of what the attached simulator simulates.
NoStray(s) ==
    \A p \in Portals, e \in Entities : s.clones[p][e] > 0 =>
        /\ s.clones[p][e] = 1
        /\ s.link[p] # NoPortal
        /\ e \in s.physics[s.link[p]]

\* No more clones can be asked for than there are entities.
Ample == Cardinality(Entities) <= MaxClones

\* Clones are in simulators that were told where they are, and where there is
\* room for all, none of a prop is missing in one that is linked to the other
\* side.
Mirrored(s) ==
    \A p \in Portals, e \in Entities :
        /\ s.clones[p][e] > 0 => s.ready[p]
        /\ /\ Ample /\ e \in Props
           /\ s.remote[p] /\ s.link[p] # NoPortal /\ e \in s.physics[s.link[p]]
           => s.clones[p][e] > 0

Tidy(s) ==
    /\ Paired(s.link)
    /\ \A p \in Portals :
          /\ s.remote[p] => s.link[p] # NoPortal /\ s.env[p]
          /\ s.env[p] => s.ready[p]
          /\ s.physics[p] \subseteq s.owns[p]
          /\ s.physics[p] # {} => s.env[p]
    /\ NoStray(s) /\ Mirrored(s)

SameFlags(r, s) == r.env = s.env /\ r.local = s.local /\ r.remote = s.remote

\* r is s with the entities es more, or less, in the physics of p.
PhysicsPlus(r, s, p, es) ==
    /\ PhysicsOnly(r, s) /\ SameFlags(r, s)
    /\ r.physics = [s.physics EXCEPT ![p] = @ \cup es]
PhysicsMinus(r, s, p, es) ==
    /\ PhysicsOnly(r, s) /\ SameFlags(r, s)
    /\ r.physics = [s.physics EXCEPT ![p] = @ \ es]

\* The fields of a record of simulators.
LEMMA SimTypes ==
    ASSUME NEW s, SimOK(s)
    PROVE  /\ s.link \in [Portals -> Portals \cup {NoPortal}]
           /\ s.ready \in [Portals -> BOOLEAN]
           /\ s.place \in [Portals -> Spots \cup {Nowhere}]
           /\ s.env \in [Portals -> BOOLEAN]
           /\ s.local \in [Portals -> BOOLEAN]
           /\ s.remote \in [Portals -> BOOLEAN]
           /\ s.owns \in [Portals -> SUBSET Entities]
           /\ s.physics \in [Portals -> SUBSET Entities]
           /\ s.clones \in [Portals -> [Entities -> 0..MaxClones]]
           /\ s.owner \in [Entities -> Portals \cup {NoPortal}]
           /\ \A p \in Portals, e \in Entities : s.clones[p][e] \in Nat
BY EntitiesAssumption DEF SimOK, Simulators

\* The clones that c has of the entities in T.
Only(c, T) == [p \in Portals |-> [e \in Entities |-> IF e \in T THEN c[p][e] ELSE 0]]
Cloned(c, T) == {e \in T : \E p \in Portals : c[p][e] = 1}

\* Where an entity has a clone at most, the sum over all clones is the number of
\* entities that have one.
LEMMA CloneSumCounts ==
    ASSUME NEW c \in [Portals -> [Entities -> 0..1]],
           \A p \in Portals, q \in Portals, e \in Entities :
              c[p][e] = 1 /\ c[q][e] = 1 => p = q
    PROVE  CloneSum(c) = Cardinality(Cloned(c, Entities))
<1>0. IsFiniteSet(Portals) /\ IsFiniteSet(Entities)
  BY EntitiesAssumption
<1> DEFINE C == {T \in SUBSET Entities : CloneSum(Only(c, T)) # Cardinality(Cloned(c, T))}
<1>1. \A T \in SUBSET Entities : Only(c, T) \in [Portals -> [Entities -> Int]]
  BY DEF Only
<1>2. C = {}
  <2> SUFFICES ASSUME C # {} PROVE FALSE
    OBVIOUS
  <2>1. PICK T \in C : \A x \in T : T \ {x} \notin C
    <3>1. C \in SUBSET (SUBSET Entities)
      OBVIOUS
    <3> HIDE DEF C
    <3> QED BY <1>0, <3>1, MinimalMember
  <2>2. T \in SUBSET Entities /\ CloneSum(Only(c, T)) # Cardinality(Cloned(c, T))
    BY <2>1
  <2>3. CASE T = {}
    <3> DEFINE f == [p \in Portals |-> SumFunction(Only(c, T)[p])]
    <3>1. \A p \in Portals : SumFunction(Only(c, T)[p]) = 0
      <4> SUFFICES ASSUME NEW p \in Portals PROVE SumFunction(Only(c, T)[p]) = 0
        OBVIOUS
      <4>1. Only(c, T)[p] \in [Entities -> Int] /\ \A e \in Entities : Only(c, T)[p][e] = 0
        BY <2>3 DEF Only
      <4> QED BY <1>0, <4>1, SumZero
    <3>2. f \in [Portals -> Int] /\ \A p \in Portals : f[p] = 0
      BY <3>1
    <3>3. CloneSum(Only(c, T)) = SumFunction(f)
      BY DEF CloneSum
    <3> HIDE DEF f
    <3>4. CloneSum(Only(c, T)) = 0
      BY <1>0, <3>2, <3>3, SumZero
    <3>5. Cloned(c, T) = {}
      BY <2>3 DEF Cloned
    <3> QED BY <2>2, <3>4, <3>5, FS_EmptySet
  <2>4. CASE T # {}
    <3>1. PICK x \in T : TRUE
      BY <2>4
    <3> DEFINE U == T \ {x}
    <3>2. U \in SUBSET Entities /\ x \in Entities /\ CloneSum(Only(c, U)) = Cardinality(Cloned(c, U))
      BY <2>1, <2>2, <3>1
    <3>3. \A p \in Portals, e \in Entities :
             Only(c, T)[p][e] = IF e = x THEN c[p][x] ELSE Only(c, U)[p][e]
      BY <2>2, <3>1 DEF Only
    <3>4. \A p \in Portals : Only(c, U)[p][x] = 0
      BY <3>2 DEF Only
    <3>5. IsFiniteSet(Cloned(c, U)) /\ Cardinality(Cloned(c, U)) \in Nat /\ x \notin Cloned(c, U)
      <4>1. Cloned(c, U) \in SUBSET Entities /\ x \notin Cloned(c, U)
        BY <3>2 DEF Cloned
      <4> QED BY <1>0, <4>1, FS_Subset, FS_CardinalityType
    <3>6. CASE \E p \in Portals : c[p][x] = 1
      <4>1. PICK p \in Portals : c[p][x] = 1
        BY <3>6
      <4>2. \A q \in Portals : q # p => c[q][x] = 0
        BY <3>2, <4>1
      <4>3. Cloned(c, T) = Cloned(c, U) \cup {x}
        BY <3>1, <4>1 DEF Cloned
      <4>4. Cardinality(Cloned(c, T)) = Cardinality(Cloned(c, U)) + 1
        BY <3>5, <4>3, FS_AddElement
      <4> DEFINE a == Only(c, U)
                 b == Only(c, T)
      <4>5. a \in [Portals -> [Entities -> Int]] /\ b \in [Portals -> [Entities -> Int]]
        BY <1>1, <2>2, <3>2
      <4>6. /\ \A q \in Portals, e \in Entities : q # p => b[q][e] = a[q][e]
            /\ \A e \in Entities : e # x => b[p][e] = a[p][e]
            /\ b[p][x] = 1 /\ a[p][x] = 0
        BY <3>2, <3>3, <3>4, <4>1, <4>2
      <4> HIDE DEF a, b, U
      <4>7. \A q \in Portals : q # p => b[q] = a[q]
        BY <4>5, <4>6
      <4>8. CloneSum(b) = CloneSum(a) - SumFunction(a[p]) + SumFunction(b[p])
        BY <4>5, <4>7, CloneSumUpdate
      <4>9. /\ a[p] \in [Entities -> Int] /\ b[p] \in [Entities -> Int]
            /\ SumFunction(a[p]) \in Int /\ SumFunction(b[p]) \in Int
        BY <1>0, <4>5, SumType
      <4>10. Follows(a[p], b[p], x)
        BY <1>0, <3>2, <4>6, <4>9, SumUpdate
      <4>11. SumFunction(b[p]) = SumFunction(a[p]) + 1
        BY <4>6, <4>9, <4>10 DEF Follows
      <4>12. CloneSum(b) = CloneSum(a) + 1
        <5>1. CloneSum(a) \in Int
          BY <3>2, <3>5 DEF a
        <5> QED BY <4>8, <4>9, <4>11, <5>1
      <4> QED BY <2>2, <3>2, <4>4, <4>12 DEF a, b
    <3>7. CASE ~\E p \in Portals : c[p][x] = 1
      <4>1. \A p \in Portals : c[p][x] = 0
        BY <3>2, <3>7
      <4>2. Cloned(c, T) = Cloned(c, U)
        BY <3>1, <3>7 DEF Cloned
      <4>3. \A p \in Portals, e \in Entities : Only(c, T)[p][e] = Only(c, U)[p][e]
        BY <3>3, <3>4, <4>1
      <4> HIDE DEF U
      <4>4. Only(c, T) = Only(c, U)
        BY <4>3 DEF Only
      <4> QED BY <2>2, <3>2, <4>2, <4>4
    <3> QED BY <3>6, <3>7
  <2> QED BY <2>3, <2>4
<1>3. CloneSum(Only(c, Entities)) = Cardinality(Cloned(c, Entities))
  BY <1>2
<1>4. Only(c, Entities) = c
  BY DEF Only
<1> QED BY <1>3, <1>4

\* While each clone stands for what the attached simulator owns, there is room
\* for one of each entity that has none.
LEMMA RoomForMore ==
    ASSUME NEW s, SimOK(s), Owned(s), Paired(s.link), NoStray(s),
           \A x \in Portals : s.physics[x] \subseteq s.owns[x],
           Ample, NEW es \in SUBSET Entities,
           \A x \in Portals, e \in es : s.clones[x][e] = 0
    PROVE  s.count + Cardinality(es) <= MaxClones
<1> DEFINE c == s.clones
           K == Cloned(c, Entities)
<1>0. IsFiniteSet(Entities) /\ MaxClones \in Nat
  BY EntitiesAssumption
<1>1. /\ s.link \in [Portals -> Portals \cup {NoPortal}] /\ s.count = CloneSum(c)
      /\ c \in [Portals -> [Entities -> 0..MaxClones]]
  BY SimTypes DEF SimOK
<1>2. \A x \in Portals, e \in Entities : c[x][e] \in 0..MaxClones
  BY <1>1
<1>3. \A x \in Portals, e \in Entities : c[x][e] > 0 =>
         /\ c[x][e] = 1 /\ s.link[x] \in Portals /\ s.link[s.link[x]] = x
         /\ s.owner[e] = s.link[x]
  <2> SUFFICES ASSUME NEW x \in Portals, NEW e \in Entities, c[x][e] > 0
               PROVE  /\ c[x][e] = 1 /\ s.link[x] \in Portals /\ s.link[s.link[x]] = x
                      /\ s.owner[e] = s.link[x]
    OBVIOUS
  <2>1. c[x][e] = 1 /\ s.link[x] # NoPortal /\ e \in s.physics[s.link[x]]
    BY DEF NoStray
  <2> QED BY <1>1, <2>1 DEF Paired, Owned
<1>4. \A x \in Portals, e \in Entities : c[x][e] \in 0..1
  BY <1>0, <1>2, <1>3
<1>5. c \in [Portals -> [Entities -> 0..1]]
  BY <1>1, <1>4
<1>6. \A x \in Portals, y \in Portals, e \in Entities : c[x][e] = 1 /\ c[y][e] = 1 => x = y
  BY <1>3
<1>7. \A e \in es : e \notin K
  BY DEF Cloned
<1>8. K \in SUBSET Entities
  BY DEF Cloned
<1> HIDE DEF c
<1>9. CloneSum(c) = Cardinality(K)
  BY <1>5, <1>6, CloneSumCounts
<1> HIDE DEF K
<1>10. /\ IsFiniteSet(K) /\ IsFiniteSet(es) /\ Cardinality(K) \in Nat /\ Cardinality(es) \in Nat
       /\ Cardinality(Entities) \in Nat
  BY <1>0, <1>8, FS_Subset, FS_CardinalityType
<1>11. K \cap es = {} /\ K \cup es \in SUBSET Entities
  BY <1>7, <1>8
<1>12. Cardinality(K \cup es) = Cardinality(K) + Cardinality(es)
  <2>1. Cardinality(K \cup es) = Cardinality(K) + Cardinality(es) - Cardinality(K \cap es)
    BY <1>10, FS_Union
  <2>2. Cardinality(K \cap es) = 0
    BY <1>11, FS_EmptySet
  <2> QED BY <1>10, <2>1, <2>2
<1>13. Cardinality(K \cup es) <= Cardinality(Entities)
  BY <1>0, <1>11, FS_Subset
<1> QED BY <1>0, <1>1, <1>9, <1>10, <1>12, <1>13 DEF Ample

LEMMA TakePhysicsTidy ==
    ASSUME NEW s, SimOK(s), Owned(s), Tidy(s),
           NEW p \in Portals, NEW es \in SUBSET s.owns[p], s.env[p]
    PROVE  LET r == TakePhysicsOwnership(s, p, es)
           IN  Tidy(r) /\ PhysicsPlus(r, s, p, es)
<1> DEFINE new == es \ s.physics[p]
           taken == [s EXCEPT !.physics[p] = @ \cup new]
           q == s.link[p]
           r == TakePhysicsOwnership(s, p, es)
<1>0. NoPortal \notin Portals
  BY NoPortalAssumption
<1>a. /\ s.link \in [Portals -> Portals \cup {NoPortal}]
      /\ s.owns \in [Portals -> SUBSET Entities]
      /\ s.physics \in [Portals -> SUBSET Entities]
      /\ \A x \in Portals, e \in Entities : s.clones[x][e] \in Nat
  BY SimTypes
<1>1. SimOK(taken) /\ new \in SUBSET Entities /\ es \in SUBSET Entities
  BY <1>a DEF SimOK, Simulators
<1>2. /\ taken.link = s.link /\ taken.env = s.env /\ taken.local = s.local
      /\ taken.remote = s.remote /\ taken.ready = s.ready /\ taken.owns = s.owns
      /\ taken.physics = [s.physics EXCEPT ![p] = @ \cup es]
      /\ taken.clones = s.clones /\ taken.count = s.count
  BY <1>a DEF SimOK, Simulators
<1>3. r = IF q # NoPortal /\ s.env[q] THEN AddClones(taken, q, new) ELSE taken
  BY DEF TakePhysicsOwnership
<1>4. PhysicsOnly(r, s)
  BY <1>1, TakePhysicsKeeps
<1>5. q # NoPortal => q \in Portals /\ q # p /\ s.link[q] = p
  BY <1>a DEF Tidy, Paired
<1>6. \A x \in Portals : s.link[x] = p => x = q
  BY <1>0 DEF Tidy, Paired
<1>6a. ASSUME Ample PROVE s.count + Cardinality(new) <= MaxClones
  <2>1. \A x \in Portals, e \in new : s.clones[x][e] = 0
    <3> SUFFICES ASSUME NEW x \in Portals, NEW e \in new, s.clones[x][e] > 0 PROVE FALSE
      BY <1>1, <1>a
    <3>1. s.link[x] # NoPortal /\ e \in s.physics[s.link[x]]
      BY <1>1 DEF Tidy, NoStray
    <3>2. e \in s.owns[s.link[x]] /\ s.link[x] \in Portals
      BY <1>a, <3>1 DEF Tidy
    <3>3. s.link[x] = p
      BY <1>1, <3>2 DEF Owned
    <3> QED BY <3>1, <3>3
  <2> HIDE DEF new
  <2> QED BY <1>1, <1>6a, <2>1, RoomForMore DEF Tidy
<1> HIDE DEF taken
<1>7. /\ r.link = s.link /\ r.env = s.env /\ r.local = s.local /\ r.remote = s.remote
      /\ r.ready = s.ready /\ r.owns = s.owns
      /\ r.physics = [s.physics EXCEPT ![p] = @ \cup es]
      /\ \A x \in Portals, e \in Entities : r.clones[x][e] # s.clones[x][e] =>
            q # NoPortal /\ s.env[q] /\ x = q /\ e \in new /\ r.clones[x][e] = s.clones[x][e] + 1
      /\ Ample /\ q # NoPortal /\ s.env[q] =>
            \A e \in new \cap Props : r.clones[q][e] = s.clones[q][e] + 1
  <2>1. CASE q # NoPortal /\ s.env[q]
    <3> HIDE DEF new, q
    <3>1. LET a == AddClones(taken, q, new)
          IN  /\ OnlyClones(a, taken)
              /\ \A x \in Portals : x # q => a.clones[x] = taken.clones[x]
              /\ \A e \in Entities : a.clones[q][e] # taken.clones[q][e] =>
                    e \in new /\ a.clones[q][e] = taken.clones[q][e] + 1
              /\ taken.count + Cardinality(new) <= MaxClones =>
                    \A e \in new \cap Props : a.clones[q][e] = taken.clones[q][e] + 1
      BY <1>1, <1>5, <2>1, AddClonesKeeps
    <3> HIDE DEF r
    <3> QED BY <1>2, <1>3, <1>6a, <2>1, <3>1 DEF OnlyClones
  <2>2. CASE ~(q # NoPortal /\ s.env[q])
    BY <1>2, <1>3, <2>2
  <2> QED BY <2>1, <2>2
<1> HIDE DEF r
<1>8. \A x \in Portals, e \in Entities : s.clones[x][e] > 0 =>
         s.clones[x][e] = 1 /\ s.link[x] # NoPortal /\ e \in s.physics[s.link[x]]
  BY DEF Tidy, NoStray
<1>9. NoStray(r)
  <2> SUFFICES ASSUME NEW x \in Portals, NEW e \in Entities, r.clones[x][e] > 0
               PROVE  r.clones[x][e] = 1 /\ r.link[x] # NoPortal /\ e \in r.physics[r.link[x]]
    BY DEF NoStray
  <2>1. CASE r.clones[x][e] = s.clones[x][e]
    BY <1>7, <1>8, <1>a, <2>1
  <2>2. CASE r.clones[x][e] # s.clones[x][e]
    <3>1. /\ q # NoPortal /\ x = q /\ e \in es /\ e \notin s.physics[p]
          /\ r.clones[x][e] = s.clones[x][e] + 1
      BY <1>7, <2>2
    <3>2. s.link[x] = p
      BY <1>5, <3>1
    <3>3. s.clones[x][e] = 0
      BY <1>8, <1>a, <3>1, <3>2
    <3> QED BY <1>0, <1>7, <1>a, <3>1, <3>2, <3>3
  <2> QED BY <2>1, <2>2
<1>9a. Mirrored(r)
  <2> SUFFICES ASSUME NEW x \in Portals, NEW e \in Entities
               PROVE  /\ r.clones[x][e] > 0 => r.ready[x]
                      /\ Ample /\ e \in Props /\ r.remote[x] /\ r.link[x] # NoPortal
                         /\ e \in r.physics[r.link[x]] => r.clones[x][e] > 0
    BY DEF Mirrored
  <2>1. /\ s.clones[x][e] > 0 => s.ready[x]
        /\ Ample /\ e \in Props /\ s.remote[x] /\ s.link[x] # NoPortal /\ e \in s.physics[s.link[x]] =>
              s.clones[x][e] > 0
        /\ s.remote[x] => s.env[x]
        /\ s.env[x] => s.ready[x]
    BY DEF Tidy, Mirrored
  <2>2. r.clones[x][e] > 0 => r.ready[x]
    BY <1>7, <2>1
  <2>3. ASSUME Ample, e \in Props, r.remote[x], r.link[x] # NoPortal, e \in r.physics[r.link[x]]
        PROVE  r.clones[x][e] > 0
    <3>1. CASE e \in s.physics[s.link[x]]
      <4>1. s.clones[x][e] > 0 /\ s.clones[x][e] \in Nat
        BY <1>7, <1>a, <2>1, <2>3, <3>1
      <4>2. r.clones[x][e] = s.clones[x][e] \/ r.clones[x][e] = s.clones[x][e] + 1
        BY <1>7
      <4> QED BY <4>1, <4>2
    <3>2. CASE e \notin s.physics[s.link[x]]
      <4>1. s.link[x] = p /\ e \in es
        BY <1>7, <1>a, <2>3, <3>2
      <4>2. x = q /\ e \in new /\ q # NoPortal /\ s.env[q]
        BY <1>0, <1>6, <1>7, <2>1, <2>3, <3>2, <4>1
      <4>3. r.clones[x][e] = s.clones[x][e] + 1
        BY <1>7, <2>3, <4>2
      <4> QED BY <1>a, <4>3
    <3> QED BY <3>1, <3>2
  <2> QED BY <2>2, <2>3
<1>10. Tidy(r)
  BY <1>7, <1>9, <1>9a, <1>a DEF Tidy
<1> QED BY <1>4, <1>7, <1>10 DEF PhysicsPlus, SameFlags, r

LEMMA ReleasePhysicsTidy ==
    ASSUME NEW s, SimOK(s), Tidy(s), NEW p \in Portals, NEW es \in SUBSET Entities
    PROVE  LET r == ReleasePhysicsOwnership(s, p, es)
           IN  Tidy(r) /\ PhysicsMinus(r, s, p, es)
<1> DEFINE lost == IF s.env[p] THEN es \cap s.physics[p] ELSE {}
           released == [s EXCEPT !.physics[p] = @ \ lost]
           q == s.link[p]
           r == ReleasePhysicsOwnership(s, p, es)
<1>0. NoPortal \notin Portals
  BY NoPortalAssumption
<1>a. /\ s.link \in [Portals -> Portals \cup {NoPortal}]
      /\ s.owns \in [Portals -> SUBSET Entities]
      /\ s.physics \in [Portals -> SUBSET Entities]
      /\ \A x \in Portals, e \in Entities : s.clones[x][e] \in Nat
  BY SimTypes
<1>1. SimOK(released) /\ lost = es \cap s.physics[p] /\ lost \in SUBSET Entities
  <2>1. lost = es \cap s.physics[p]
    BY DEF Tidy
  <2> HIDE DEF lost
  <2> QED BY <1>a, <2>1 DEF SimOK, Simulators
<1>2. /\ released.link = s.link /\ released.env = s.env /\ released.local = s.local
      /\ released.remote = s.remote /\ released.ready = s.ready /\ released.owns = s.owns
      /\ released.physics = [s.physics EXCEPT ![p] = @ \ es]
      /\ released.clones = s.clones
  <2> HIDE DEF lost
  <2> QED BY <1>1, <1>a DEF SimOK, Simulators
<1>3. r = IF q # NoPortal THEN FreeClonesOf(released, q, lost) ELSE released
  BY DEF ReleasePhysicsOwnership
<1>4. PhysicsOnly(r, s)
  BY ReleasePhysicsKeeps
<1>5. q # NoPortal => q \in Portals /\ q # p /\ s.link[q] = p
  BY <1>a DEF Tidy, Paired
<1>6. \A x \in Portals : s.link[x] = p => q # NoPortal /\ x = q
  BY <1>0 DEF Tidy, Paired
<1> HIDE DEF released, lost
<1>7. /\ r.link = s.link /\ r.env = s.env /\ r.local = s.local /\ r.remote = s.remote
      /\ r.ready = s.ready /\ r.owns = s.owns
      /\ r.physics = [s.physics EXCEPT ![p] = @ \ es]
      /\ \A x \in Portals, e \in Entities :
            r.clones[x][e] = IF q # NoPortal /\ x = q /\ e \in lost /\ s.clones[x][e] > 0
                             THEN s.clones[x][e] - 1 ELSE s.clones[x][e]
  <2>1. CASE q # NoPortal
    <3> HIDE DEF q
    <3>1. LET a == FreeClonesOf(released, q, lost)
          IN  /\ OnlyClones(a, released)
              /\ \A x \in Portals : x # q => a.clones[x] = released.clones[x]
              /\ \A e \in Entities :
                    a.clones[q][e] = IF e \in lost /\ released.clones[q][e] > 0
                                     THEN released.clones[q][e] - 1 ELSE released.clones[q][e]
      BY <1>1, <1>5, <2>1, FreeClonesKeeps
    <3> HIDE DEF r
    <3> QED BY <1>2, <1>3, <2>1, <3>1 DEF OnlyClones
  <2>2. CASE q = NoPortal
    BY <1>2, <1>3, <2>2
  <2> QED BY <2>1, <2>2
<1> HIDE DEF r
<1>8. \A x \in Portals, e \in Entities : s.clones[x][e] > 0 =>
         s.clones[x][e] = 1 /\ s.link[x] # NoPortal /\ e \in s.physics[s.link[x]]
  BY DEF Tidy, NoStray
<1>9. NoStray(r)
  <2> SUFFICES ASSUME NEW x \in Portals, NEW e \in Entities, r.clones[x][e] > 0
               PROVE  r.clones[x][e] = 1 /\ r.link[x] # NoPortal /\ e \in r.physics[r.link[x]]
    BY DEF NoStray
  <2>1. s.clones[x][e] \in Nat /\ s.clones[x][e] > 0
    BY <1>7, <1>a
  <2>2. s.clones[x][e] = 1 /\ s.link[x] # NoPortal /\ e \in s.physics[s.link[x]]
    BY <1>8, <2>1
  <2>3. r.clones[x][e] = 1 /\ ~(q # NoPortal /\ x = q /\ e \in lost)
    BY <1>7, <2>2
  <2>4. CASE s.link[x] = p
    <3>1. e \notin es
      BY <1>1, <1>6, <2>2, <2>3, <2>4
    <3> QED BY <1>7, <1>a, <2>2, <2>3, <2>4, <3>1
  <2>5. CASE s.link[x] # p
    BY <1>7, <1>a, <2>2, <2>3, <2>5
  <2> QED BY <2>4, <2>5
<1>9a. Mirrored(r)
  <2> SUFFICES ASSUME NEW x \in Portals, NEW e \in Entities
               PROVE  /\ r.clones[x][e] > 0 => r.ready[x]
                      /\ Ample /\ e \in Props /\ r.remote[x] /\ r.link[x] # NoPortal
                         /\ e \in r.physics[r.link[x]] => r.clones[x][e] > 0
    BY DEF Mirrored
  <2>1. /\ s.clones[x][e] > 0 => s.ready[x]
        /\ Ample /\ e \in Props /\ s.remote[x] /\ s.link[x] # NoPortal /\ e \in s.physics[s.link[x]] =>
              s.clones[x][e] > 0
    BY DEF Tidy, Mirrored
  <2>2. r.clones[x][e] > 0 => r.ready[x]
    BY <1>7, <1>a, <2>1
  <2>3. ASSUME Ample, e \in Props, r.remote[x], r.link[x] # NoPortal, e \in r.physics[r.link[x]]
        PROVE  r.clones[x][e] > 0
    <3>1. e \in s.physics[s.link[x]] /\ (s.link[x] = p => e \notin es)
      BY <1>7, <1>a, <2>3
    <3>2. ~(q # NoPortal /\ x = q /\ e \in lost)
      BY <1>1, <1>5, <3>1
    <3> QED BY <1>7, <2>1, <2>3, <3>1, <3>2
  <2> QED BY <2>2, <2>3
<1>10. Tidy(r)
  BY <1>7, <1>9, <1>9a, <1>a DEF Tidy
<1> QED BY <1>4, <1>7, <1>10 DEF PhysicsMinus, SameFlags, r


\* r and s have their simulators in the same places and in the same condition.
SameShape(r, s) == SamePlaces(r, s) /\ SameFlags(r, s)

\* Everything owned is simulated.
Firm(s) == Sound(s) /\ Tidy(s) /\ s.physics = s.owns

\* What ReleaseOwnershipOfEntity makes p lose.
Lost(s, p, es) == Family(es \cap s.owns[p]) \cap s.owns[p]

\* Released entities are no longer simulated, and their clones are gone.
LEMMA ReleaseOwnershipTidy ==
    ASSUME NEW s, Sound(s), Tidy(s), NEW p \in Portals, NEW es \in SUBSET Entities
    PROVE  LET r == ReleaseOwnershipOfEntity(s, p, es)
           IN  /\ Sound(r) /\ Tidy(r) /\ SameShape(r, s)
               /\ r.owns = [s.owns EXCEPT ![p] = @ \ Lost(s, p, es)]
               /\ r.physics = [s.physics EXCEPT ![p] = @ \ Lost(s, p, es)]
<1> DEFINE lost == Lost(s, p, es)
           d == ReleasePhysicsOwnership(s, p, lost)
           r == MarkAsReleased(d, p, lost)
<1>1. /\ SimOK(s) /\ Owned(s) /\ s.owns[p] \in SUBSET Entities
      /\ s.owns \in [Portals -> SUBSET Entities]
  BY DEF Sound, SimOK, Simulators
<1>2. lost \in SUBSET s.owns[p] /\ lost \in SUBSET Entities
  BY <1>1 DEF Lost
<1>3. ReleaseOwnershipOfEntity(s, p, es) = r
  BY DEF ReleaseOwnershipOfEntity, Lost
<1> HIDE DEF lost
<1>4. Tidy(d) /\ PhysicsMinus(d, s, p, lost)
  BY <1>1, <1>2, ReleasePhysicsTidy
<1> HIDE DEF d
<1>5. /\ PhysicsOnly(d, s) /\ SameFlags(d, s) /\ SimOK(d)
      /\ d.physics = [s.physics EXCEPT ![p] = @ \ lost] /\ d.owns = s.owns
  BY <1>4 DEF PhysicsMinus, PhysicsOnly
<1>6. Sound(d) /\ SamePlaces(d, s)
  BY <1>1, <1>5, PhysicsSound DEF OnlyLoses
<1>7. /\ OnlyLoses(r, d)
      /\ r.owns = [d.owns EXCEPT ![p] = @ \ lost]
  BY <1>2, <1>5, <1>6, MarkAsReleasedKeeps
<1>8. /\ r.link = d.link /\ r.ready = d.ready /\ r.place = d.place
      /\ r.env = d.env /\ r.local = d.local /\ r.remote = d.remote
      /\ r.physics = d.physics /\ r.clones = d.clones
  BY <1>5 DEF MarkAsReleased, SimOK, Simulators
<1> HIDE DEF r
<1>9. \A x \in Portals : r.physics[x] \subseteq r.owns[x]
  <2>1. \A x \in Portals : d.physics[x] \subseteq d.owns[x]
    BY <1>4 DEF Tidy
  <2>2. /\ d.physics \in [Portals -> SUBSET Entities]
        /\ s.physics \in [Portals -> SUBSET Entities]
        /\ d.owns \in [Portals -> SUBSET Entities]
    BY <1>1, <1>5, SimTypes
  <2>3. d.physics[p] \cap lost = {}
    BY <1>5, <2>2
  <2> QED BY <1>7, <1>8, <2>1, <2>2, <2>3
<1>10. Tidy(r)
  BY <1>4, <1>8, <1>9 DEF Tidy, NoStray, Mirrored
<1>11. SameShape(r, s)
  BY <1>5, <1>6, <1>8 DEF SameShape, SamePlaces, SameFlags
<1> QED BY <1>3, <1>5, <1>7, <1>8, <1>10, <1>11 DEF OnlyLoses, lost

LEMMA ReleaseOwnershipFirm ==
    ASSUME NEW s, Firm(s), NEW p \in Portals, NEW es \in SUBSET Entities
    PROVE  LET r == ReleaseOwnershipOfEntity(s, p, es)
           IN  Firm(r) /\ SameShape(r, s)
<1> DEFINE r == ReleaseOwnershipOfEntity(s, p, es)
<1>1. /\ Sound(r) /\ Tidy(r) /\ SameShape(r, s)
      /\ r.owns = [s.owns EXCEPT ![p] = @ \ Lost(s, p, es)]
      /\ r.physics = [s.physics EXCEPT ![p] = @ \ Lost(s, p, es)]
  BY ReleaseOwnershipTidy DEF Firm
<1> HIDE DEF r
<1>2. r.physics = r.owns
  BY <1>1 DEF Firm
<1> QED BY <1>1, <1>2 DEF Firm, r

LEMMA ReleaseAllFirm ==
    ASSUME NEW s, Firm(s), NEW p \in Portals
    PROVE  LET r == ReleaseAllEntityOwnership(s, p)
           IN  Firm(r) /\ SameShape(r, s)
<1>1. s.owns[p] \in SUBSET Entities
  BY DEF Firm, Sound, SimOK, Simulators
<1> QED BY <1>1, ReleaseOwnershipFirm DEF ReleaseAllEntityOwnership

\* A simulator with an environment simulates what it takes.
LEMMA TakeOneFirm ==
    ASSUME NEW s, Firm(s), NEW p \in Portals, NEW e \in Entities,
           s.owner[e] \in {NoPortal, p}, s.env[p]
    PROVE  LET r == TakePhysicsOwnership(MarkAsOwned(s, p, e), p, {e})
           IN  Firm(r) /\ SameShape(r, s)
<1> DEFINE m == MarkAsOwned(s, p, e)
           r == TakePhysicsOwnership(m, p, {e})
<1>0. Sound(s) /\ SimOK(s) /\ Tidy(s) /\ s.physics = s.owns
  BY DEF Firm, Sound
<1>1. OnlyGains(m, s, p) /\ Sound(m) /\ SimOK(m)
  BY <1>0, MarkAsOwnedKeeps DEF OnlyGains, Sound
<1>2. /\ m.link = s.link /\ m.ready = s.ready /\ m.place = s.place
      /\ m.env = s.env /\ m.local = s.local /\ m.remote = s.remote
      /\ m.physics = s.physics /\ m.clones = s.clones
      /\ m.owns = [s.owns EXCEPT ![p] = @ \cup {e}]
  BY <1>0 DEF MarkAsOwned, SimOK, Simulators
<1>a. s.owns \in [Portals -> SUBSET Entities]
  BY <1>0, SimTypes
<1> HIDE DEF m
<1>3. \A x \in Portals : m.physics[x] \subseteq m.owns[x]
  BY <1>0, <1>2, <1>a
<1>4. Tidy(m)
  BY <1>0, <1>2, <1>3 DEF Tidy, NoStray, Mirrored
<1>5. {e} \in SUBSET m.owns[p] /\ m.env[p]
  BY <1>2, <1>a
<1>6. Tidy(r) /\ PhysicsPlus(r, m, p, {e})
  BY <1>1, <1>4, <1>5, TakePhysicsTidy DEF Sound
<1> HIDE DEF r
<1>7. /\ PhysicsOnly(r, m) /\ SameFlags(r, m)
      /\ r.physics = [m.physics EXCEPT ![p] = @ \cup {e}]
  BY <1>6 DEF PhysicsPlus
<1>8. Sound(r) /\ r.owns = m.owns
  BY <1>1, <1>7, PhysicsSound DEF OnlyLoses, Sound
<1>9. SameShape(r, s)
  BY <1>2, <1>7 DEF SameShape, SamePlaces, SameFlags, PhysicsOnly
<1> QED BY <1>0, <1>2, <1>6, <1>7, <1>8, <1>9 DEF Firm, m, r

LEMMA SameShapeTwice ==
    ASSUME NEW r, NEW s, NEW t, SameShape(r, s), SameShape(s, t)
    PROVE  SameShape(r, t)
BY DEF SameShape, SamePlaces, SameFlags

LEMMA TakeOwnershipFirm ==
    ASSUME NEW s, Firm(s), NEW p \in Portals, NEW e \in Entities,
           s.owner[e] \in {NoPortal, p}, s.env[p]
    PROVE  LET r == TakeOwnershipOfEntity(s, p, e)
           IN  Firm(r) /\ SameShape(r, s)
<1> DEFINE take(r, x) == TakePhysicsOwnership(MarkAsOwned(r, p, x), p, {x})
           mine == take(s, e)
           c == Child[e]
           lost == ReleaseOwnershipOfEntity(mine, mine.owner[c], {c})
<1>0. SameShape(s, s)
  BY DEF SameShape, SamePlaces, SameFlags
<1>1. c \in Entities \cup {NoEntity} /\ NoEntity \notin Entities
  BY EntitiesAssumption
<1>2. Firm(mine) /\ SameShape(mine, s)
  BY TakeOneFirm
<1>3. TakeOwnershipOfEntity(s, p, e) =
        IF e \in s.owns[p] THEN s
        ELSE IF c = NoEntity \/ mine.owner[c] = p THEN mine
        ELSE IF mine.owner[c] = NoPortal THEN take(mine, c)
        ELSE take(lost, c)
  BY DEF TakeOwnershipOfEntity
<1> HIDE DEF mine
<1>4. mine.owner \in [Entities -> Portals \cup {NoPortal}] /\ mine.env[p] /\ Sound(mine)
  BY <1>2 DEF Firm, Sound, SimOK, Simulators, SameShape, SameFlags
<1>5. ASSUME c \in Entities, mine.owner[c] = NoPortal
      PROVE  Firm(take(mine, c)) /\ SameShape(take(mine, c), s)
  BY <1>2, <1>4, <1>5, TakeOneFirm, SameShapeTwice
<1>6. ASSUME c \in Entities, mine.owner[c] # NoPortal
      PROVE  Firm(take(lost, c)) /\ SameShape(take(lost, c), s)
  <2> DEFINE o == mine.owner[c]
  <2>1. o \in Portals /\ {c} \in SUBSET Entities /\ c \in {c} /\ mine.owner[c] = o
    BY <1>4, <1>6
  <2> HIDE DEF o, c
  <2>2. Firm(ReleaseOwnershipOfEntity(mine, o, {c})) /\ SameShape(ReleaseOwnershipOfEntity(mine, o, {c}), mine)
    BY <1>2, <2>1, ReleaseOwnershipFirm
  <2>3. ReleaseOwnershipOfEntity(mine, o, {c}).owner[c] = NoPortal
    BY <1>4, <2>1, ReleaseOwnershipKeeps
  <2>4. Firm(lost) /\ SameShape(lost, mine) /\ lost.owner[c] = NoPortal
    BY <2>2, <2>3 DEF o
  <2> HIDE DEF lost
  <2>5. lost.env[p]
    BY <1>4, <2>4 DEF SameShape, SameFlags
  <2>6. Firm(take(lost, c)) /\ SameShape(take(lost, c), lost)
    BY <1>6, <2>4, <2>5, TakeOneFirm
  <2> HIDE DEF take
  <2> QED BY <1>2, <2>4, <2>6, SameShapeTwice
<1> HIDE DEF take, lost, c
<1> QED BY <1>0, <1>1, <1>2, <1>3, <1>5, <1>6

LEMMA PreUtilRemoveFirm ==
    ASSUME NEW s, Firm(s), NEW e \in Entities
    PROVE  LET r == PreUtilRemove(s, e)
           IN  Firm(r) /\ SameShape(r, s)
<1> DEFINE p == s.owner[e]
           d == ReleasePhysicsOwnership(s, p, {e})
           f == ReleaseOwnershipOfEntity(d, p, {e})
           left == IF p = NoPortal THEN s ELSE f
           r == [left EXCEPT !.owns = [q \in Portals |-> @[q] \ {e}],
                             !.physics = [q \in Portals |-> @[q] \ {e}]]
<1>0. /\ NoPortal \notin Portals /\ SimOK(s) /\ Owned(s) /\ Sound(s) /\ Tidy(s)
      /\ s.physics = s.owns /\ s.owns \in [Portals -> SUBSET Entities]
  BY NoPortalAssumption DEF Firm, Sound, SimOK, Simulators
<1>1. p \in Portals \cup {NoPortal}
  BY <1>0 DEF SimOK, Simulators
<1>2. PreUtilRemove(s, e) = r
  BY DEF PreUtilRemove
<1>3. Firm(left) /\ SameShape(left, s) /\ \A q \in Portals : e \notin left.owns[q]
  <2>1. CASE p = NoPortal
    BY <1>0, <2>1 DEF SameShape, SamePlaces, SameFlags, Owned
  <2>2. CASE p # NoPortal
    <3> DEFINE lost == Lost(d, p, {e})
    <3>0. {e} \in SUBSET Entities /\ p \in Portals /\ e \in s.owns[p]
      BY <1>0, <1>1, <2>2 DEF Owned
    <3>1. Tidy(d) /\ PhysicsMinus(d, s, p, {e})
      BY <1>0, <3>0, ReleasePhysicsTidy
    <3> HIDE DEF d
    <3>2. /\ PhysicsOnly(d, s) /\ SameFlags(d, s) /\ d.owns = s.owns /\ SamePlaces(d, s)
          /\ d.physics = [s.physics EXCEPT ![p] = @ \ {e}]
      BY <3>1 DEF PhysicsMinus, PhysicsOnly, SamePlaces
    <3>3. Sound(d)
      BY <1>0, <3>2, PhysicsSound DEF OnlyLoses
    <3>4. /\ Sound(f) /\ Tidy(f) /\ SameShape(f, d)
          /\ f.owns = [d.owns EXCEPT ![p] = @ \ lost]
          /\ f.physics = [d.physics EXCEPT ![p] = @ \ lost]
      <4> HIDE DEF f, p
      <4> QED BY <3>0, <3>1, <3>3, ReleaseOwnershipTidy DEF f
    <3>5. e \in lost
      BY <3>0, <3>2 DEF Lost, Family
    <3> HIDE DEF lost, f, p
    <3>6. f.physics = f.owns
      <4>1. d.physics = [s.owns EXCEPT ![p] = @ \ {e}]
        BY <1>0, <3>2
      <4>2. (s.owns[p] \ {e}) \ lost = s.owns[p] \ lost
        BY <3>5
      <4>3. f.physics = [s.owns EXCEPT ![p] = (@ \ {e}) \ lost]
        BY <1>0, <3>0, <3>4, <4>1
      <4> QED BY <1>0, <3>2, <3>4, <4>2, <4>3
    <3>7. \A q \in Portals : e \notin f.owns[q]
      BY <1>0, <3>0, <3>2, <3>4, <3>5 DEF Owned, p
    <3> QED BY <2>2, <3>2, <3>4, <3>6, <3>7 DEF Firm, SameShape, SamePlaces, SameFlags
  <2> QED BY <2>1, <2>2
<1> HIDE DEF left
<1>4. left \in Simulators /\ left.owns \in [Portals -> SUBSET Entities] /\ left.physics = left.owns
  BY <1>3 DEF Firm, Sound, SimOK, Simulators
<1>5. [q \in Portals |-> left.owns[q] \ {e}] = left.owns
  <2>1. \A q \in Portals : left.owns[q] \ {e} = left.owns[q]
    BY <1>3, <1>4
  <2> QED BY <1>4, <2>1
<1>6. r = left
  BY <1>4, <1>5 DEF Simulators
<1> QED BY <1>2, <1>3, <1>6

-----------------------------------------------------------------------------
(* Clearing and creating the physics *)

\* r is s with some simulators' clones gone and their links to the other side
\* not generated.
Thinned(r, s) ==
    /\ PhysicsOnly(r, s)
    /\ r.env = s.env /\ r.local = s.local /\ r.physics = s.physics
    /\ \A x \in Portals : /\ r.clones[x] \in {s.clones[x], NoClones}
                          /\ r.remote[x] => s.remote[x]

\* Those that are still linked to the other side have all their clones.
Cleared(r, s) ==
    /\ Thinned(r, s)
    /\ \A x \in Portals : r.remote[x] => r.clones[x] = s.clones[x]

LEMMA ClearedTwice ==
    ASSUME NEW r, NEW s, NEW t, Cleared(r, s), Cleared(s, t)
    PROVE  Cleared(r, t)
BY DEF Cleared, Thinned, PhysicsOnly

LEMMA ClearedTidy ==
    ASSUME NEW r, NEW s, Cleared(r, s), Tidy(s)
    PROVE  Tidy(r)
<1>1. /\ r.link = s.link /\ r.ready = s.ready /\ r.owns = s.owns /\ r.env = s.env
      /\ r.physics = s.physics
      /\ \A x \in Portals : r.clones[x] \in {s.clones[x], NoClones}
      /\ \A x \in Portals : r.remote[x] => s.remote[x] /\ r.clones[x] = s.clones[x]
  BY DEF Cleared, Thinned, PhysicsOnly
<1>2. \A e \in Entities : ~(NoClones[e] > 0)
  BY DEF NoClones
<1>3. NoStray(r)
  BY <1>1, <1>2 DEF Tidy, NoStray
<1>4. Mirrored(r)
  BY <1>1, <1>2 DEF Tidy, Mirrored
<1> QED BY <1>1, <1>3, <1>4 DEF Tidy

LEMMA ClearLinkedEntitiesThins ==
    ASSUME NEW s, SimOK(s), NEW p \in Portals
    PROVE  LET r == ClearLinkedEntities(s, p)
           IN  /\ Thinned(r, s) /\ r.remote = s.remote /\ r.clones[p] = NoClones
               /\ \A x \in Portals : x # p => r.clones[x] = s.clones[x]
BY ClearLinkedKeeps DEF Thinned, PhysicsOnly, OnlyClones

\* A simulator that is linked to the other side has an environment.
Backed(s) == \A x \in Portals : s.remote[x] => s.env[x]

LEMMA ClearHalfClears ==
    ASSUME NEW s, SimOK(s), Backed(s), NEW p \in Portals
    PROVE  LET r == ClearLinkedPhysicsHalf(s, p)
           IN  Cleared(r, s) /\ r.remote = [s.remote EXCEPT ![p] = FALSE]
<1> DEFINE c == ClearLinkedEntities(s, p)
           d == [c EXCEPT !.remote[p] = FALSE]
           r == ClearLinkedPhysicsHalf(s, p)
<1>1. /\ Thinned(c, s) /\ c.remote = s.remote /\ SimOK(c)
      /\ \A x \in Portals : x # p => c.clones[x] = s.clones[x]
  BY ClearLinkedEntitiesThins DEF Thinned, PhysicsOnly
<1>2. s.remote \in [Portals -> BOOLEAN]
  BY SimTypes
<1>3. r = IF s.remote[p] THEN d ELSE s
  BY DEF ClearLinkedPhysicsHalf, Backed
<1> HIDE DEF c
<1>4. /\ PhysicsOnly(d, c) /\ d.env = c.env /\ d.local = c.local /\ d.physics = c.physics
      /\ d.clones = c.clones /\ d.remote = [c.remote EXCEPT ![p] = FALSE]
  BY <1>1, FlagsKeep DEF SimOK, Simulators
<1> HIDE DEF d
<1>5. Cleared(d, s) /\ d.remote = [s.remote EXCEPT ![p] = FALSE]
  <2>1. PhysicsOnly(d, s) /\ d.env = s.env /\ d.local = s.local /\ d.physics = s.physics
    BY <1>1, <1>4 DEF Thinned, PhysicsOnly
  <2>2. /\ d.remote = [s.remote EXCEPT ![p] = FALSE]
        /\ \A x \in Portals : /\ d.clones[x] \in {s.clones[x], NoClones}
                              /\ d.remote[x] => x # p /\ s.remote[x]
                              /\ x # p => d.clones[x] = s.clones[x]
    BY <1>1, <1>2, <1>4 DEF Thinned
  <2> QED BY <2>1, <2>2 DEF Cleared, Thinned
<1>6. Cleared(s, s)
  BY DEF Cleared, Thinned, PhysicsOnly
<1>7. ~s.remote[p] => s.remote = [s.remote EXCEPT ![p] = FALSE]
  BY <1>2
<1> HIDE DEF r
<1> QED BY <1>3, <1>5, <1>6, <1>7 DEF r

LEMMA ClearLinkedPhysicsClears ==
    ASSUME NEW s, SimOK(s), Backed(s), NEW p \in Portals
    PROVE  LET r == ClearLinkedPhysics(s, p)
           IN  /\ Cleared(r, s) /\ ~r.remote[p]
               /\ \A x \in Portals : x # p /\ x # s.link[p] => r.remote[x] = s.remote[x]
<1> DEFINE h == ClearLinkedPhysicsHalf(s, p)
           q == s.link[p]
           g == ClearLinkedPhysicsHalf(h, q)
           r == ClearLinkedPhysics(s, p)
<1>0. s.remote \in [Portals -> BOOLEAN] /\ q \in Portals \cup {NoPortal}
  BY SimTypes
<1>1. Cleared(h, s) /\ h.remote = [s.remote EXCEPT ![p] = FALSE]
  BY ClearHalfClears
<1>2. r = h \/ (q # NoPortal /\ r = g)
  BY DEF ClearLinkedPhysics
<1> HIDE DEF h, r
<1>3. SimOK(h) /\ Backed(h)
  BY <1>1 DEF Cleared, Thinned, PhysicsOnly, Backed
<1>4. q # NoPortal => Cleared(g, h) /\ g.remote = [h.remote EXCEPT ![q] = FALSE]
  <2> HIDE DEF q
  <2> QED BY <1>0, <1>3, ClearHalfClears
<1> HIDE DEF g
<1>5. Cleared(r, s)
  BY <1>1, <1>2, <1>4, ClearedTwice
<1>6. ~r.remote[p]
  BY <1>0, <1>1, <1>2, <1>4
<1>7. \A x \in Portals : x # p /\ x # q => r.remote[x] = s.remote[x]
  BY <1>0, <1>1, <1>2, <1>4
<1> QED BY <1>5, <1>6, <1>7 DEF r

\* What DetachFromLinked does on one side, before the attachment goes.
LEMMA DetachHalfClears ==
    ASSUME NEW s, SimOK(s), Backed(s), NEW p \in Portals
    PROVE  LET r == ClearLinkedPhysics(ClearLinkedEntities(s, p), p)
           IN  /\ Cleared(r, s) /\ ~r.remote[p] /\ r.clones[p] = NoClones
               /\ \A x \in Portals : x # p /\ x # s.link[p] => r.remote[x] = s.remote[x]
<1> DEFINE a == ClearLinkedEntities(s, p)
           r == ClearLinkedPhysics(a, p)
<1>1. /\ Thinned(a, s) /\ a.remote = s.remote /\ a.clones[p] = NoClones
      /\ \A x \in Portals : x # p => a.clones[x] = s.clones[x]
  BY ClearLinkedEntitiesThins
<1> HIDE DEF a
<1>2. SimOK(a) /\ Backed(a) /\ a.link = s.link
  BY <1>1 DEF Thinned, PhysicsOnly, Backed
<1>3. /\ Cleared(r, a) /\ ~r.remote[p]
      /\ \A x \in Portals : x # p /\ x # s.link[p] => r.remote[x] = a.remote[x]
  BY <1>2, ClearLinkedPhysicsClears
<1> HIDE DEF r
<1>4. Cleared(r, s)
  <2>1. Thinned(r, s)
    BY <1>1, <1>3 DEF Cleared, Thinned, PhysicsOnly
  <2>2. \A x \in Portals : r.remote[x] => r.clones[x] = s.clones[x]
    BY <1>1, <1>3 DEF Cleared
  <2> QED BY <2>1, <2>2 DEF Cleared
<1>5. r.clones[p] = NoClones
  BY <1>1, <1>3 DEF Cleared, Thinned
<1> QED BY <1>1, <1>3, <1>4, <1>5 DEF r, a

\* What p owns is simulated nowhere while its local physics is not generated.
LEMMA ClearLocalPhysicsTidy ==
    ASSUME NEW s, SimOK(s), Tidy(s), NEW p \in Portals, ~s.remote[p]
    PROVE  LET r == ClearLocalPhysics(s, p)
           IN  /\ Tidy(r) /\ PhysicsOnly(r, s) /\ r.env = s.env /\ r.remote = s.remote
               /\ \A x \in Portals : x # p => /\ r.local[x] = s.local[x]
                                              /\ r.physics[x] = s.physics[x]
               /\ r.physics[p] = IF s.local[p] /\ s.env[p] THEN {} ELSE s.physics[p]
               /\ r.local[p] = IF s.local[p] /\ s.env[p] THEN FALSE ELSE s.local[p]
<1> DEFINE c == ClearLinkedEntities(s, p)
           d == ReleasePhysicsOwnership(c, p, s.owns[p])
           f == [d EXCEPT !.local[p] = FALSE]
           r == ClearLocalPhysics(s, p)
<1>0. /\ s.owns[p] \in SUBSET Entities /\ s.physics \in [Portals -> SUBSET Entities]
      /\ s.local \in [Portals -> BOOLEAN] /\ s.physics[p] \subseteq s.owns[p]
  BY SimTypes DEF Tidy
<1>1. Cleared(c, s) /\ c.remote = s.remote
  <2>1. /\ Thinned(c, s) /\ c.remote = s.remote
        /\ \A x \in Portals : x # p => c.clones[x] = s.clones[x]
    BY ClearLinkedEntitiesThins
  <2> HIDE DEF c
  <2> QED BY <2>1 DEF Cleared
<1>2. r = IF s.local[p] /\ s.env[p] THEN f ELSE s
  BY DEF ClearLocalPhysics
<1> HIDE DEF c, r
<1>3. SimOK(c) /\ Tidy(c)
  BY <1>1, ClearedTidy DEF Cleared, Thinned, PhysicsOnly
<1>4. Tidy(d) /\ PhysicsMinus(d, c, p, s.owns[p])
  BY <1>0, <1>3, ReleasePhysicsTidy
<1> HIDE DEF d
<1>5. /\ PhysicsOnly(d, c) /\ SimOK(d) /\ d.env = c.env /\ d.local = c.local
      /\ d.remote = c.remote /\ d.physics = [c.physics EXCEPT ![p] = @ \ s.owns[p]]
  BY <1>4 DEF PhysicsMinus, PhysicsOnly, SameFlags
<1>6. /\ PhysicsOnly(f, d) /\ f.env = d.env /\ f.remote = d.remote /\ f.physics = d.physics
      /\ f.local = [d.local EXCEPT ![p] = FALSE] /\ f.clones = d.clones
      /\ f.link = d.link /\ f.ready = d.ready /\ f.owns = d.owns
  BY <1>5, FlagsKeep DEF SimOK, Simulators
<1> HIDE DEF f
<1>7. Tidy(f)
  BY <1>4, <1>6 DEF Tidy, NoStray, Mirrored
<1>8. PhysicsOnly(f, s) /\ f.env = s.env /\ f.remote = s.remote
  BY <1>1, <1>5, <1>6, PhysicsThenPhysics DEF Cleared, Thinned
<1>9. f.physics = [s.physics EXCEPT ![p] = {}] /\ f.local = [s.local EXCEPT ![p] = FALSE]
  <2>1. f.physics = [s.physics EXCEPT ![p] = @ \ s.owns[p]]
    BY <1>1, <1>5, <1>6 DEF Cleared, Thinned
  <2>2. s.physics[p] \ s.owns[p] = {}
    BY <1>0
  <2> QED BY <1>0, <1>1, <1>5, <1>6, <2>1, <2>2 DEF Cleared, Thinned
<1>10. PhysicsOnly(s, s)
  BY DEF PhysicsOnly
<1> QED BY <1>0, <1>2, <1>7, <1>8, <1>9, <1>10 DEF r

\* r is s with more of the physics in place.
Grows(r, s) ==
    /\ PhysicsOnly(r, s)
    /\ \A x \in Portals : /\ s.env[x] => r.env[x]
                          /\ s.local[x] => r.local[x]
                          /\ s.remote[x] => r.remote[x]

LEMMA GrowsTwice ==
    ASSUME NEW r, NEW s, NEW t, Grows(r, s), Grows(s, t)
    PROVE  Grows(r, t)
BY PhysicsThenPhysics DEF Grows

\* CreateLocalPhysics puts back what ClearLocalPhysics took.
LEMMA CreateLocalPhysicsTidy ==
    ASSUME NEW s, SimOK(s), Owned(s), Tidy(s), NEW p \in Portals, s.env[p],
           \A x \in Portals : s.physics[x] = s.owns[x] \/ (x = p /\ ~s.local[p])
    PROVE  LET r == CreateLocalPhysics(s, p)
           IN  /\ Tidy(r) /\ Grows(r, s) /\ r.local[p]
               /\ r.physics = r.owns /\ r.remote = s.remote
<1> DEFINE d == TakePhysicsOwnership(s, p, s.owns[p])
           f == [d EXCEPT !.local[p] = TRUE]
           r == CreateLocalPhysics(s, p)
<1>0. /\ s.owns \in [Portals -> SUBSET Entities] /\ s.physics \in [Portals -> SUBSET Entities]
      /\ s.local \in [Portals -> BOOLEAN] /\ s.physics[p] \subseteq s.owns[p]
  BY SimTypes DEF Tidy
<1>1. r = IF s.local[p] THEN s ELSE f
  BY DEF CreateLocalPhysics
<1>2. CASE s.local[p]
  BY <1>0, <1>1, <1>2 DEF Grows, PhysicsOnly
<1>3. CASE ~s.local[p]
  <2>1. Tidy(d) /\ PhysicsPlus(d, s, p, s.owns[p])
    <3>1. s.owns[p] \in SUBSET s.owns[p]
      OBVIOUS
    <3> QED BY <3>1, TakePhysicsTidy
  <2> HIDE DEF d
  <2>2. /\ PhysicsOnly(d, s) /\ SimOK(d) /\ d.env = s.env /\ d.local = s.local
        /\ d.remote = s.remote /\ d.physics = [s.physics EXCEPT ![p] = @ \cup s.owns[p]]
        /\ d.owns = s.owns
    BY <2>1 DEF PhysicsPlus, PhysicsOnly, SameFlags
  <2>3. /\ PhysicsOnly(f, d) /\ f.env = d.env /\ f.remote = d.remote /\ f.physics = d.physics
        /\ f.local = [d.local EXCEPT ![p] = TRUE] /\ f.clones = d.clones
        /\ f.link = d.link /\ f.ready = d.ready /\ f.owns = d.owns
    BY <2>2, FlagsKeep DEF SimOK, Simulators
  <2> HIDE DEF f
  <2>4. Tidy(f)
    BY <2>1, <2>3 DEF Tidy, NoStray, Mirrored
  <2>5. PhysicsOnly(f, s)
    BY <2>2, <2>3, PhysicsThenPhysics
  <2>6. f.physics = f.owns
    <3>1. \A x \in Portals : x # p => s.physics[x] = s.owns[x]
      OBVIOUS
    <3>2. s.physics[p] \cup s.owns[p] = s.owns[p]
      BY <1>0
    <3>3. f.physics = [s.physics EXCEPT ![p] = s.owns[p]]
      BY <2>2, <2>3, <3>2
    <3>4. f.owns = s.owns
      BY <2>2, <2>3
    <3>5. [s.physics EXCEPT ![p] = s.owns[p]] = s.owns
      <4> DEFINE c == s.physics
                 o == s.owns
      <4>1. \A x \in Portals : x # p => c[x] = o[x]
        BY <3>1
      <4>2. c \in [Portals -> SUBSET Entities] /\ o \in [Portals -> SUBSET Entities]
        BY <1>0
      <4> HIDE DEF c, o
      <4>3. [c EXCEPT ![p] = o[p]] = o
        BY <4>1, <4>2
      <4> QED BY <4>3 DEF c, o
    <3> QED BY <3>3, <3>4, <3>5
  <2>7. Grows(f, s) /\ f.local[p]
    BY <1>0, <2>2, <2>3, <2>5 DEF Grows
  <2> QED BY <1>1, <1>3, <2>2, <2>3, <2>4, <2>6, <2>7
<1> QED BY <1>2, <1>3

\* One side of CreateLinkedPhysics makes the clones that are missing there.
LEMMA CreateHalfTidy ==
    ASSUME NEW s, SimOK(s), Owned(s), Tidy(s), s.physics = s.owns,
           NEW p \in Portals, s.ready[p]
    PROVE  LET r == CreateLinkedPhysicsHalf(s, p)
           IN  /\ Tidy(r) /\ Grows(r, s) /\ r.physics = s.physics
               /\ s.link[p] # NoPortal /\ s.ready[s.link[p]] => r.remote[p]
               /\ r # s => s.link[p] # NoPortal /\ s.ready[s.link[p]]
<1> DEFINE q == s.link[p]
           b == [s EXCEPT !.env[p] = TRUE, !.remote[p] = TRUE]
           es == {e \in s.owns[q] : s.clones[p][e] = 0}
           f == AddClones(b, p, es)
           r == CreateLinkedPhysicsHalf(s, p)
<1>0. /\ s.link \in [Portals -> Portals \cup {NoPortal}]
      /\ s.env \in [Portals -> BOOLEAN] /\ s.remote \in [Portals -> BOOLEAN]
      /\ s.owns \in [Portals -> SUBSET Entities]
      /\ \A x \in Portals, e \in Entities : s.clones[x][e] \in Nat
  BY SimTypes
<1>1. r = IF q = NoPortal \/ s.remote[p] \/ ~s.ready[q] THEN s ELSE f
  BY DEF CreateLinkedPhysicsHalf
<1>2. CASE q = NoPortal \/ s.remote[p] \/ ~s.ready[q]
  BY <1>1, <1>2 DEF Grows, PhysicsOnly
<1>3. CASE ~(q = NoPortal \/ s.remote[p] \/ ~s.ready[q])
  <2>1. q \in Portals /\ es \in SUBSET Entities
    BY <1>0, <1>3
  <2>2. SimOK(b) /\ PhysicsOnly(b, s)
    BY DEF SimOK, PhysicsOnly, Simulators
  <2>3. /\ b.env = [s.env EXCEPT ![p] = TRUE] /\ b.remote = [s.remote EXCEPT ![p] = TRUE]
        /\ b.local = s.local /\ b.physics = s.physics /\ b.clones = s.clones
    BY DEF SimOK, Simulators
  <2>4. \A e \in es : e \in s.physics[q] /\ s.clones[p][e] = 0
    OBVIOUS
  <2>4a. \A e \in s.physics[q] : e \in es \/ s.clones[p][e] > 0
    BY <1>0, <2>1
  <2>4b. ASSUME Ample PROVE b.count + Cardinality(es) <= MaxClones
    <3>1. \A x \in Portals, e \in es : s.clones[x][e] = 0
      <4> SUFFICES ASSUME NEW x \in Portals, NEW e \in es, s.clones[x][e] > 0 PROVE FALSE
        BY <1>0, <2>1
      <4>1. s.link[x] # NoPortal /\ e \in s.owns[s.link[x]]
        BY <2>1 DEF Tidy, NoStray
      <4>2. s.link[x] = q /\ s.link[s.link[x]] = x
        BY <1>0, <2>1, <4>1 DEF Owned, Tidy, Paired
      <4>3. s.link[q] = p
        BY <1>3 DEF Tidy, Paired
      <4> QED BY <2>4, <4>2, <4>3
    <3>2. b.count = s.count
      BY DEF SimOK, Simulators
    <3> HIDE DEF es
    <3> QED BY <2>1, <2>4b, <3>1, <3>2, RoomForMore DEF Tidy
  <2> HIDE DEF b, es
  <2>5. /\ SimOK(f) /\ OnlyClones(f, b)
        /\ \A x \in Portals : x # p => f.clones[x] = b.clones[x]
        /\ \A e \in Entities : f.clones[p][e] # b.clones[p][e] =>
              e \in es /\ f.clones[p][e] = b.clones[p][e] + 1
        /\ b.count + Cardinality(es) <= MaxClones =>
              \A e \in es \cap Props : f.clones[p][e] = b.clones[p][e] + 1
    BY <2>1, <2>2, AddClonesKeeps
  <2> HIDE DEF f, q
  <2>6. /\ f.link = s.link /\ f.ready = s.ready /\ f.owns = s.owns
        /\ f.env = [s.env EXCEPT ![p] = TRUE] /\ f.remote = [s.remote EXCEPT ![p] = TRUE]
        /\ f.local = s.local /\ f.physics = s.physics /\ PhysicsOnly(f, s)
    BY <2>2, <2>3, <2>5 DEF OnlyClones, PhysicsOnly
  <2>7. \A x \in Portals, e \in Entities : f.clones[x][e] # s.clones[x][e] =>
           x = p /\ e \in s.physics[q] /\ f.clones[x][e] = 1
    <3> SUFFICES ASSUME NEW x \in Portals, NEW e \in Entities, f.clones[x][e] # s.clones[x][e]
                 PROVE  x = p /\ e \in s.physics[q] /\ f.clones[x][e] = 1
      OBVIOUS
    <3>1. x = p /\ e \in es /\ f.clones[p][e] = s.clones[p][e] + 1
      BY <2>3, <2>5
    <3> QED BY <2>4, <3>1
  <2>8. NoStray(f)
    <3> SUFFICES ASSUME NEW x \in Portals, NEW e \in Entities, f.clones[x][e] > 0
                 PROVE  f.clones[x][e] = 1 /\ f.link[x] # NoPortal /\ e \in f.physics[f.link[x]]
      BY DEF NoStray
    <3>1. CASE f.clones[x][e] = s.clones[x][e]
      BY <2>6, <3>1 DEF Tidy, NoStray
    <3>2. CASE f.clones[x][e] # s.clones[x][e]
      BY <1>3, <2>6, <2>7, <3>2 DEF q
    <3> QED BY <3>1, <3>2
  <2>8a. Mirrored(f)
    <3> SUFFICES ASSUME NEW x \in Portals, NEW e \in Entities
                 PROVE  /\ f.clones[x][e] > 0 => f.ready[x]
                        /\ Ample /\ e \in Props /\ f.remote[x] /\ f.link[x] # NoPortal
                           /\ e \in f.physics[f.link[x]] => f.clones[x][e] > 0
      BY DEF Mirrored
    <3>1. /\ s.clones[x][e] > 0 => s.ready[x]
          /\ Ample /\ e \in Props /\ s.remote[x] /\ s.link[x] # NoPortal /\ e \in s.physics[s.link[x]] =>
                s.clones[x][e] > 0
      BY DEF Tidy, Mirrored
    <3>2. f.clones[x][e] > 0 => f.ready[x]
      BY <2>6, <2>7, <3>1
    <3>3. ASSUME Ample, e \in Props, f.remote[x], f.link[x] # NoPortal, e \in f.physics[f.link[x]]
          PROVE  f.clones[x][e] > 0
      <4>1. CASE x # p
        <5>1. s.remote[x] /\ f.clones[x][e] = s.clones[x][e]
          BY <1>0, <2>6, <2>7, <3>3, <4>1
        <5> QED BY <2>6, <3>1, <3>3, <5>1
      <4>2. CASE x = p /\ e \in es
        BY <2>3, <2>4, <2>4b, <2>5, <3>3, <4>2
      <4>3. CASE x = p /\ e \notin es
        <5>1. s.clones[p][e] > 0
          BY <2>4a, <2>6, <3>3, <4>3 DEF q
        <5>2. f.clones[p][e] = s.clones[p][e]
          BY <2>3, <2>5, <4>3
        <5> QED BY <4>3, <5>1, <5>2
      <4> QED BY <4>1, <4>2, <4>3
    <3> QED BY <3>2, <3>3
  <2>9. Tidy(f)
    BY <1>0, <1>3, <2>6, <2>8, <2>8a DEF Tidy, q
  <2>10. Grows(f, s) /\ f.remote[p]
    BY <1>0, <2>6 DEF Grows
  <2> QED BY <1>1, <1>3, <2>6, <2>9, <2>10 DEF q
<1> QED BY <1>2, <1>3

\* Two simulators with their local data are linked both ways.
LEMMA CreateLinkedPhysicsTidy ==
    ASSUME NEW s, SimOK(s), Owned(s), Tidy(s), s.physics = s.owns,
           NEW p \in Portals, s.ready[p]
    PROVE  LET r == CreateLinkedPhysics(s, p)
           IN  /\ Tidy(r) /\ Grows(r, s) /\ r.physics = s.physics
               /\ ~s.remote[p] /\ s.link[p] # NoPortal /\ s.ready[s.link[p]] =>
                     r.remote[p] /\ r.remote[s.link[p]]
<1> DEFINE q == s.link[p]
           h == CreateLinkedPhysicsHalf(s, p)
           g == CreateLinkedPhysicsHalf(h, q)
           r == CreateLinkedPhysics(s, p)
<1>0. q \in Portals \cup {NoPortal} /\ (q # NoPortal => s.link[q] = p)
  BY SimTypes DEF Tidy, Paired
<1>1. /\ Tidy(h) /\ Grows(h, s) /\ h.physics = s.physics
      /\ s.link[p] # NoPortal /\ s.ready[s.link[p]] => h.remote[p]
      /\ h # s => s.link[p] # NoPortal /\ s.ready[s.link[p]]
  BY CreateHalfTidy
<1>2. r = IF h = s THEN s ELSE g
  BY DEF CreateLinkedPhysics
<1> HIDE DEF h, r
<1>3. SimOK(h) /\ Owned(h) /\ h.owns = s.owns /\ h.link = s.link /\ h.ready = s.ready
  BY <1>1 DEF Grows, PhysicsOnly, Owned
<1>4. CASE h = s
  BY <1>1, <1>2, <1>4 DEF r
<1>5. CASE h # s
  <2>1. q \in Portals /\ h.ready[q] /\ h.link[q] = p /\ p # NoPortal
    BY <1>0, <1>1, <1>3, <1>5, NoPortalAssumption
  <2> HIDE DEF q
  <2>2. /\ Tidy(g) /\ Grows(g, h) /\ g.physics = h.physics
        /\ h.link[q] # NoPortal /\ h.ready[h.link[q]] => g.remote[q]
    BY <1>1, <1>3, <2>1, CreateHalfTidy
  <2> HIDE DEF g
  <2>3. Grows(g, s)
    BY <1>1, <2>2, GrowsTwice
  <2>4. g.remote[q]
    BY <1>3, <2>1, <2>2
  <2>5. s.link[p] # NoPortal /\ s.ready[s.link[p]] => g.remote[p]
    BY <1>1, <2>2 DEF Grows
  <2> QED BY <1>1, <1>2, <1>5, <2>2, <2>3, <2>4, <2>5 DEF q, r
<1> QED BY <1>4, <1>5

-----------------------------------------------------------------------------
(* The condition of each simulator *)

\* A simulator that was told where it is has its physics.
Grounded(s, p) == s.ready[p] => s.local[p] /\ s.env[p]

\* The two sides of an attachment of which both have their local data know of
\* each other.
TwoSided(s, p) == s.link[p] # NoPortal /\ s.ready[p] /\ s.ready[s.link[p]] => s.remote[p]
Connected(s) == \A p \in Portals : TwoSided(s, p)

\* The same of all attachments but p's.
TwoSidedElsewhere(s, p) == \A x \in Portals : x # p /\ x # s.link[p] => TwoSided(s, x)

LEMMA SameShapeKeeps ==
    ASSUME NEW r, NEW s, SameShape(r, s)
    PROVE  /\ Connected(s) => Connected(r)
           /\ \A p \in Portals : Grounded(s, p) => Grounded(r, p)
BY DEF SameShape, SamePlaces, SameFlags, Connected, TwoSided, Grounded

\* MoveTo takes the physics down, joined or not, and builds it up again.
LEMMA MoveToFirm ==
    ASSUME NEW s, Firm(s), NEW p \in Portals, NEW at \in Spots \cup {Nowhere}
    PROVE  LET r == MoveTo(s, p, at)
           IN  /\ Firm(r)
               /\ Connected(s) => Connected(r)
               /\ \A x \in Portals : Grounded(s, x) => Grounded(r, x)
<1> DEFINE a == ClearLinkedPhysics(s, p)
           b == ClearLocalPhysics(a, p)
           c == [b EXCEPT !.place[p] = at, !.ready[p] = TRUE]
           e == [c EXCEPT !.env[p] = TRUE]
           f == CreateLocalPhysics(e, p)
           g == CreateLinkedPhysics(f, p)
           q == s.link[p]
<1>0. /\ SimOK(s) /\ Owned(s) /\ Tidy(s) /\ s.physics = s.owns
      /\ s.link \in [Portals -> Portals \cup {NoPortal}]
      /\ s.env \in [Portals -> BOOLEAN] /\ s.ready \in [Portals -> BOOLEAN]
      /\ s.local \in [Portals -> BOOLEAN]
      /\ NoPortal \notin Portals
  BY SimTypes, NoPortalAssumption DEF Firm, Sound
<1>1. MoveTo(s, p, at) = IF s.place[p] = at THEN s ELSE g
  BY DEF MoveTo, CreateAllPhysics
<1>2. CASE s.place[p] = at
  BY <1>1, <1>2
<1>3. CASE s.place[p] # at
  <2>1. /\ Cleared(a, s) /\ ~a.remote[p]
        /\ \A x \in Portals : x # p /\ x # q => a.remote[x] = s.remote[x]
    BY <1>0, ClearLinkedPhysicsClears DEF Tidy, Backed
  <2> HIDE DEF a
  <2>2. SimOK(a) /\ Tidy(a)
    BY <1>0, <2>1, ClearedTidy DEF Cleared, Thinned, PhysicsOnly
  <2>3. /\ Tidy(b) /\ PhysicsOnly(b, a) /\ b.env = a.env /\ b.remote = a.remote
        /\ \A x \in Portals : x # p => /\ b.local[x] = a.local[x]
                                       /\ b.physics[x] = a.physics[x]
        /\ b.physics[p] = IF a.local[p] /\ a.env[p] THEN {} ELSE a.physics[p]
        /\ b.local[p] = IF a.local[p] /\ a.env[p] THEN FALSE ELSE a.local[p]
    BY <2>1, <2>2, ClearLocalPhysicsTidy
  <2> HIDE DEF b
  <2>4. /\ SimOK(b) /\ b.owns = s.owns /\ b.link = s.link /\ b.ready = s.ready
        /\ b.owner = s.owner /\ b.holder = s.holder
        /\ b.env = s.env /\ b.remote = a.remote /\ ~b.remote[p]
        /\ \A x \in Portals : x # p => /\ b.local[x] = s.local[x]
                                       /\ b.physics[x] = s.owns[x]
        /\ b.physics[p] = IF s.local[p] /\ s.env[p] THEN {} ELSE s.owns[p]
        /\ b.local[p] = IF s.local[p] /\ s.env[p] THEN FALSE ELSE s.local[p]
    BY <1>0, <2>1, <2>3 DEF Cleared, Thinned, PhysicsOnly
  <2>5. b.local[p] => s.owns[p] = {} /\ b.physics[p] = {}
    <3>1. s.physics[p] # {} => s.env[p]
      BY <1>0 DEF Tidy
    <3> QED BY <1>0, <2>4, <3>1
  <2>6. SimOK(c) /\ SimOK(e)
    BY <2>4 DEF SimOK, Simulators
  <2>7. /\ e.link = b.link /\ e.owns = b.owns /\ e.physics = b.physics /\ e.clones = b.clones
        /\ e.local = b.local /\ e.remote = b.remote /\ e.owner = b.owner /\ e.holder = b.holder
        /\ e.ready = [b.ready EXCEPT ![p] = TRUE] /\ e.env = [b.env EXCEPT ![p] = TRUE]
    BY <2>4 DEF SimOK, Simulators
  <2> HIDE DEF c, e
  <2>8. Tidy(e) /\ e.env[p] /\ e.ready[p] /\ Owned(e)
    BY <1>0, <2>3, <2>4, <2>7 DEF Tidy, NoStray, Mirrored, Owned
  <2>9. \A x \in Portals : e.physics[x] = e.owns[x] \/ (x = p /\ ~e.local[p])
    <3>1. \A x \in Portals : x # p => e.physics[x] = e.owns[x]
      BY <2>4, <2>7
    <3>2. CASE e.local[p]
      <4>1. e.local = b.local /\ e.physics = b.physics /\ e.owns = b.owns
        BY <2>7
      <4>2. b.owns = s.owns
        BY <2>4
      <4>3. s.owns[p] = {} /\ b.physics[p] = {}
        BY <2>5, <3>2, <4>1
      <4>4. e.physics[p] = e.owns[p]
        BY <4>1, <4>2, <4>3
      <4> QED BY <3>1, <4>4
    <3>3. CASE ~e.local[p]
      BY <3>1, <3>3
    <3> QED BY <3>2, <3>3
  <2>10. Tidy(f) /\ Grows(f, e) /\ f.local[p] /\ f.physics = f.owns /\ f.remote = e.remote
    BY <2>6, <2>8, <2>9, CreateLocalPhysicsTidy
  <2> HIDE DEF f
  <2>11. /\ SimOK(f) /\ Owned(f) /\ f.ready = e.ready /\ f.link = s.link
         /\ f.env[p] /\ ~f.remote[p]
    BY <2>4, <2>7, <2>8, <2>10 DEF Grows, PhysicsOnly, Owned
  <2>12. /\ Tidy(g) /\ Grows(g, f) /\ g.physics = f.physics
         /\ ~f.remote[p] /\ f.link[p] # NoPortal /\ f.ready[f.link[p]] =>
               g.remote[p] /\ g.remote[f.link[p]]
    BY <2>8, <2>10, <2>11, CreateLinkedPhysicsTidy
  <2> HIDE DEF g
  <2>13. /\ SimOK(g) /\ g.link = s.link /\ g.owns = s.owns /\ g.owner = s.owner
         /\ g.holder = s.holder /\ g.physics = g.owns
         /\ g.ready = [s.ready EXCEPT ![p] = TRUE]
    BY <2>4, <2>7, <2>10, <2>12 DEF Grows, PhysicsOnly
  <2>14. Firm(g)
    BY <1>0, <2>12, <2>13 DEF Firm, Sound, Owned
  <2>15. /\ g.local[p] /\ g.env[p]
         /\ \A x \in Portals : x # p => (s.local[x] => g.local[x]) /\ (s.env[x] => g.env[x])
         /\ \A x \in Portals : x # p /\ x # q /\ s.remote[x] => g.remote[x]
    BY <1>0, <2>1, <2>4, <2>7, <2>8, <2>10, <2>11, <2>12 DEF Grows
  <2>16. \A x \in Portals : Grounded(s, x) => Grounded(g, x)
    BY <1>0, <2>13, <2>15 DEF Grounded
  <2>17. ASSUME Connected(s), NEW x \in Portals PROVE TwoSided(g, x)
    <3>1. \A y \in Portals : s.link[y] # NoPortal => s.link[y] # y /\ s.link[s.link[y]] = y
      BY <1>0 DEF Tidy, Paired
    <3>a. f.link = s.link /\ f.ready = [s.ready EXCEPT ![p] = TRUE]
      BY <2>4, <2>7, <2>11
    <3>2. CASE x = p
      BY <2>11, <2>12, <2>13, <3>2, <3>a DEF TwoSided
    <3>3. CASE x = q /\ x # p
      <4>1. s.link[p] = x /\ s.link[x] = p
        BY <1>0, <3>1, <3>3
      <4>2. x # NoPortal
        BY <1>0
      <4> QED BY <1>0, <2>11, <2>12, <2>13, <3>3, <3>a, <4>1, <4>2 DEF TwoSided
    <3>4. CASE x # p /\ x # q
      <4>1. s.link[x] # p
        BY <1>0, <3>1, <3>4
      <4>2. TwoSided(s, x)
        BY <2>17 DEF Connected
      <4>3. s.link[x] \in Portals \cup {NoPortal}
        BY <1>0
      <4> QED BY <1>0, <2>13, <2>15, <3>4, <4>1, <4>2, <4>3 DEF TwoSided
    <3> QED BY <3>2, <3>3, <3>4
  <2> QED BY <1>1, <1>3, <2>14, <2>16, <2>17 DEF Connected
<1> QED BY <1>2, <1>3

\* DetachFromLinked leaves both sides without clones and without knowledge of
\* each other.
LEMMA DetachFirm ==
    ASSUME NEW s, Firm(s), Told(s), NEW p \in Portals
    PROVE  LET r == DetachFromLinked(s, p)
           IN  /\ Firm(r) /\ r.env = s.env
               /\ TwoSidedElsewhere(s, p) => Connected(r)
               /\ \A x \in Portals : Grounded(s, x) => Grounded(r, x)
<1> DEFINE q == s.link[p]
           b == ClearLinkedPhysics(ClearLinkedEntities(s, p), p)
           d == ClearLinkedPhysics(ClearLinkedEntities(b, q), q)
           f == [d EXCEPT !.link[p] = NoPortal, !.link[q] = NoPortal]
           r == DetachFromLinked(s, p)
<1>0. /\ SimOK(s) /\ Sound(s) /\ Tidy(s) /\ s.physics = s.owns
      /\ s.link \in [Portals -> Portals \cup {NoPortal}] /\ s.remote \in [Portals -> BOOLEAN]
      /\ NoPortal \notin Portals
      /\ \A y \in Portals : s.link[y] # NoPortal => s.link[y] # y /\ s.link[s.link[y]] = y
  BY SimTypes, NoPortalAssumption DEF Firm, Sound, Tidy, Paired
<1>1. r = IF q = NoPortal THEN s ELSE f
  BY DEF DetachFromLinked
<1>2. Sound(r) /\ r.owns = s.owns /\ r.ready = s.ready /\ r.link = Detached(s.link, p)
  <2>1. Resettled(r, s, s.place) /\ r.owns = s.owns /\ r.ready = s.ready /\ r.link = Detached(s.link, p)
    BY <1>0, DetachKeeps
  <2> HIDE DEF r
  <2> QED BY <2>1 DEF Resettled
<1>3. CASE q = NoPortal
  <2>1. r = s
    BY <1>1, <1>3
  <2>2. TwoSidedElsewhere(s, p) => Connected(s)
    BY <1>0, <1>3 DEF Connected, TwoSided, TwoSidedElsewhere
  <2> HIDE DEF r
  <2> QED BY <2>1, <2>2 DEF r
<1>4. CASE q # NoPortal
  <2> HIDE DEF r
  <2>0. q \in Portals /\ q # p /\ s.link[q] = p
    BY <1>0, <1>4
  <2>1. /\ Cleared(b, s) /\ ~b.remote[p] /\ b.clones[p] = NoClones
        /\ \A x \in Portals : x # p /\ x # q => b.remote[x] = s.remote[x]
    BY <1>0, DetachHalfClears DEF Tidy, Backed
  <2> HIDE DEF b
  <2>2. SimOK(b) /\ Backed(b) /\ b.link = s.link
    BY <1>0, <2>1 DEF Cleared, Thinned, PhysicsOnly, Tidy, Backed
  <2> HIDE DEF q
  <2>3. /\ Cleared(d, b) /\ ~d.remote[q] /\ d.clones[q] = NoClones
        /\ \A x \in Portals : x # p /\ x # q => d.remote[x] = b.remote[x]
    BY <2>0, <2>2, DetachHalfClears
  <2> HIDE DEF d
  <2>8. Cleared(d, s)
    BY <2>1, <2>3, ClearedTwice
  <2>9. /\ SimOK(d) /\ Tidy(d) /\ d.env = s.env /\ d.local = s.local /\ d.ready = s.ready
        /\ d.physics = s.physics /\ d.owns = s.owns /\ d.link = s.link
    BY <1>0, <2>8, ClearedTidy DEF Cleared, Thinned, PhysicsOnly
  <2>10. /\ ~d.remote[p] /\ ~d.remote[q]
         /\ \A x \in Portals : x # p /\ x # q => d.remote[x] = s.remote[x]
    BY <2>1, <2>3 DEF Cleared, Thinned
  <2>11. d.clones[p] = NoClones /\ d.clones[q] = NoClones
    BY <2>0, <2>1, <2>3 DEF Cleared, Thinned
  <2>12. /\ f.env = d.env /\ f.local = d.local /\ f.remote = d.remote /\ f.ready = d.ready
         /\ f.physics = d.physics /\ f.owns = d.owns /\ f.clones = d.clones
    BY <2>9 DEF SimOK, Simulators
  <2> HIDE DEF f
  <2>13. r = f
    BY <1>1, <1>4
  <2>14. r.link = [s.link EXCEPT ![q] = NoPortal, ![p] = NoPortal]
    BY <1>2, <1>4 DEF Detached, q
  <2>15. /\ r.link[p] = NoPortal /\ r.link[q] = NoPortal
         /\ \A x \in Portals : x # p /\ x # q => r.link[x] = s.link[x]
    BY <1>0, <2>0, <2>14
  <2>16. \A x \in Portals : s.link[x] \in {p, q} => x \in {p, q}
    BY <1>0, <2>0
  <2>17. Paired(r.link)
    <3> SUFFICES ASSUME NEW x \in Portals, r.link[x] # NoPortal
                 PROVE  r.link[x] # x /\ r.link[r.link[x]] = x
      BY DEF Paired
    <3>1. x \notin {p, q} /\ r.link[x] = s.link[x]
      BY <2>15
    <3>2. s.link[x] \in Portals /\ s.link[x] # x /\ s.link[s.link[x]] = x /\ s.link[x] \notin {p, q}
      BY <1>0, <2>16, <3>1
    <3> QED BY <2>15, <3>1, <3>2
  <2>18. NoStray(r)
    <3> SUFFICES ASSUME NEW x \in Portals, NEW e \in Entities, r.clones[x][e] > 0
                 PROVE  r.clones[x][e] = 1 /\ r.link[x] # NoPortal /\ e \in r.physics[r.link[x]]
      BY DEF NoStray
    <3>1. x # p /\ x # q
      BY <2>11, <2>12, <2>13 DEF NoClones
    <3> QED BY <2>9, <2>12, <2>13, <2>15, <3>1 DEF Tidy, NoStray
  <2>18a. Mirrored(r)
    <3> SUFFICES ASSUME NEW x \in Portals, NEW e \in Entities
                 PROVE  /\ r.clones[x][e] > 0 => r.ready[x]
                        /\ Ample /\ e \in Props /\ r.remote[x] /\ r.link[x] # NoPortal
                           /\ e \in r.physics[r.link[x]] => r.clones[x][e] > 0
      BY DEF Mirrored
    <3>1. /\ d.clones[x][e] > 0 => d.ready[x]
          /\ Ample /\ e \in Props /\ d.remote[x] /\ d.link[x] # NoPortal /\ e \in d.physics[d.link[x]] =>
                d.clones[x][e] > 0
      BY <2>9 DEF Tidy, Mirrored
    <3>2. r.remote[x] => x # p /\ x # q
      BY <2>10, <2>12, <2>13
    <3> QED BY <2>9, <2>12, <2>13, <2>15, <3>1, <3>2
  <2>19. Tidy(r)
    BY <2>9, <2>10, <2>12, <2>13, <2>15, <2>17, <2>18, <2>18a DEF Tidy
  <2>20. Firm(r) /\ r.env = s.env
    BY <1>0, <1>2, <2>9, <2>12, <2>13, <2>19 DEF Firm
  <2>21. \A x \in Portals : Grounded(s, x) => Grounded(r, x)
    BY <2>9, <2>12, <2>13 DEF Grounded
  <2>22. ASSUME TwoSidedElsewhere(s, p), NEW x \in Portals
         PROVE  TwoSided(r, x)
    BY <1>2, <2>10, <2>12, <2>13, <2>15, <2>22 DEF TwoSided, TwoSidedElsewhere, q
  <2>23. TwoSidedElsewhere(s, p) => Connected(r)
    BY <2>22 DEF Connected
  <2> QED BY <2>20, <2>21, <2>23 DEF r
<1> QED BY <1>3, <1>4

\* AttachTo joins two simulators of which neither is attached elsewhere
\* afterwards.
LEMMA AttachFirm ==
    ASSUME NEW s, Firm(s), Told(s), NEW p \in Portals, NEW q \in Portals,
           Paired(Attached(s.link, p, q))
    PROVE  LET r == AttachTo(s, p, q)
           IN  /\ Firm(r)
               /\ Connected(s) => Connected(r)
               /\ \A x \in Portals : Grounded(s, x) => Grounded(r, x)
<1> DEFINE d == DetachFromLinked(s, p)
           tied == [d EXCEPT !.link[p] = q, !.link[q] = p]
           g == CreateLinkedPhysics(tied, p)
           r == AttachTo(s, p, q)
<1>0. /\ Sound(s) /\ NoPortal \notin Portals
      /\ \A y \in Portals : s.link[y] # NoPortal => s.link[y] # y /\ s.link[s.link[y]] = y
  BY NoPortalAssumption DEF Firm, Tidy, Paired
<1>1. r = IF s.link[p] = q THEN s ELSE IF s.ready[p] /\ s.ready[q] THEN g ELSE tied
  BY DEF AttachTo
<1> HIDE DEF r
<1>2. CASE s.link[p] = q
  <2>1. r = s
    BY <1>1, <1>2
  <2> QED BY <2>1 DEF r
<1>3. CASE s.link[p] # q
  <2>1. /\ Firm(d) /\ d.env = s.env
        /\ Connected(s) => Connected(d)
        /\ \A x \in Portals : Grounded(s, x) => Grounded(d, x)
    BY DetachFirm DEF Connected, TwoSidedElsewhere
  <2>2. d.link = Detached(s.link, p) /\ d.ready = s.ready
    BY <1>0, DetachKeeps
  <2> HIDE DEF d
  <2>3. /\ SimOK(d) /\ Owned(d) /\ Tidy(d) /\ d.physics = d.owns
        /\ d.link \in [Portals -> Portals \cup {NoPortal}] /\ d.remote \in [Portals -> BOOLEAN]
    BY <2>1, SimTypes DEF Firm, Sound
  <2>4. SimOK(tied)
    BY <2>3 DEF SimOK, Simulators
  <2>5. /\ tied.link = [d.link EXCEPT ![p] = q, ![q] = p]
        /\ tied.owns = d.owns /\ tied.owner = d.owner /\ tied.holder = d.holder
        /\ tied.ready = d.ready /\ tied.env = d.env /\ tied.local = d.local
        /\ tied.remote = d.remote /\ tied.physics = d.physics /\ tied.clones = d.clones
    BY <2>3 DEF SimOK, Simulators
  <2> HIDE DEF tied
  <2>6. Paired(tied.link)
    BY <1>3, <2>2, <2>5 DEF Attached
  <2>7. d.link[p] = NoPortal
    <3>1. s.link[p] = NoPortal \/ s.link[p] # p
      BY <1>0
    <3>2. s.link \in [Portals -> Portals \cup {NoPortal}]
      BY <1>0, SimTypes DEF Sound
    <3> QED BY <2>2, <3>1, <3>2 DEF Detached
  <2>8. /\ tied.link[q] = p /\ tied.link[p] = q /\ p # q
        /\ \A x \in Portals : x # p /\ x # q => tied.link[x] = d.link[x]
    <3>1. tied.link[q] = p
      BY <2>3, <2>5
    <3>2. p # q
      BY <1>0, <2>6, <3>1 DEF Paired
    <3> QED BY <2>3, <2>5, <3>1, <3>2
  <2>9. d.link[q] = NoPortal
    <3> SUFFICES ASSUME d.link[q] # NoPortal PROVE FALSE
      OBVIOUS
    <3> DEFINE z == d.link[q]
    <3>1. z \in Portals /\ z # q /\ d.link[z] = q
      BY <2>3 DEF Tidy, Paired
    <3>2. z # p
      BY <1>0, <2>7, <3>1
    <3>3. tied.link[z] = q
      BY <2>8, <3>1, <3>2
    <3>4. tied.link[q] = z
      BY <1>0, <2>6, <3>1, <3>3 DEF Paired
    <3> QED BY <2>8, <3>2, <3>4
  <2>10. ~d.remote[p] /\ ~d.remote[q]
    BY <2>3, <2>7, <2>9 DEF Tidy
  <2>11. NoStray(tied)
    <3> SUFFICES ASSUME NEW x \in Portals, NEW e \in Entities, tied.clones[x][e] > 0
                 PROVE  /\ tied.clones[x][e] = 1 /\ tied.link[x] # NoPortal
                        /\ e \in tied.physics[tied.link[x]]
      BY DEF NoStray
    <3>1. /\ d.clones[x][e] = 1 /\ d.link[x] # NoPortal /\ e \in d.physics[d.link[x]]
      BY <2>3, <2>5 DEF Tidy, NoStray
    <3>2. x # p /\ x # q
      BY <2>7, <2>9, <3>1
    <3> QED BY <2>5, <2>8, <3>1, <3>2
  <2>11a. Mirrored(tied)
    <3> SUFFICES ASSUME NEW x \in Portals, NEW e \in Entities
                 PROVE  /\ tied.clones[x][e] > 0 => tied.ready[x]
                        /\ Ample /\ e \in Props /\ tied.remote[x] /\ tied.link[x] # NoPortal
                           /\ e \in tied.physics[tied.link[x]] => tied.clones[x][e] > 0
      BY DEF Mirrored
    <3>1. /\ d.clones[x][e] > 0 => d.ready[x]
          /\ Ample /\ e \in Props /\ d.remote[x] /\ d.link[x] # NoPortal /\ e \in d.physics[d.link[x]] =>
                d.clones[x][e] > 0
      BY <2>3 DEF Tidy, Mirrored
    <3>2. tied.remote[x] => x # p /\ x # q
      BY <2>5, <2>10
    <3> QED BY <2>5, <2>8, <3>1, <3>2
  <2>12. Tidy(tied)
    <3>1. \A x \in Portals : tied.remote[x] => tied.link[x] # NoPortal /\ tied.env[x]
      BY <2>3, <2>5, <2>8, <2>10 DEF Tidy
    <3> QED BY <2>3, <2>5, <2>6, <2>11, <2>11a, <3>1 DEF Tidy
  <2>13. Firm(tied)
    BY <2>3, <2>4, <2>5, <2>12 DEF Firm, Sound, Owned
  <2>14. \A x \in Portals : Grounded(d, x) => Grounded(tied, x)
    BY <2>5 DEF Grounded
  <2>15. ASSUME Connected(s), NEW x \in Portals, x # p, x # q PROVE TwoSided(tied, x)
    <3>1. TwoSided(d, x)
      BY <2>1, <2>15 DEF Connected
    <3> QED BY <2>5, <2>8, <2>15, <3>1 DEF TwoSided
  <2>16. CASE s.ready[p] /\ s.ready[q]
    <3>1. tied.ready[p] /\ tied.ready[q] /\ ~tied.remote[p] /\ q # NoPortal
      BY <1>0, <2>2, <2>5, <2>10, <2>16
    <3>2. /\ Tidy(g) /\ Grows(g, tied) /\ g.physics = tied.physics
          /\ g.remote[p] /\ g.remote[q]
      BY <2>4, <2>5, <2>3, <2>8, <2>12, <2>13, <3>1, CreateLinkedPhysicsTidy DEF Firm, Sound
    <3> HIDE DEF g
    <3>3. Firm(g)
      BY <2>3, <2>5, <2>13, <3>2 DEF Firm, Sound, Grows, PhysicsOnly, Owned
    <3>4. \A x \in Portals : Grounded(tied, x) => Grounded(g, x)
      BY <3>2 DEF Grounded, Grows, PhysicsOnly
    <3>5. Connected(s) => Connected(g)
      BY <2>15, <3>2 DEF Connected, TwoSided, Grows, PhysicsOnly
    <3>6. r = g
      BY <1>1, <1>3, <2>16
    <3> QED BY <2>1, <2>14, <3>3, <3>4, <3>5, <3>6 DEF r
  <2>17. CASE ~(s.ready[p] /\ s.ready[q])
    <3>1. r = tied
      BY <1>1, <1>3, <2>17
    <3>2. TwoSided(tied, p) /\ TwoSided(tied, q)
      BY <2>2, <2>5, <2>8, <2>17 DEF TwoSided
    <3>3. Connected(s) => Connected(tied)
      BY <2>15, <3>2 DEF Connected
    <3> QED BY <2>1, <2>13, <2>14, <3>1, <3>3 DEF r
  <2> QED BY <2>16, <2>17
<1> QED BY <1>2, <1>3

\* ClearEverything of a simulator that has all its physics, or none.
LEMMA ClearEverythingFirm ==
    ASSUME NEW s, Firm(s), NEW p \in Portals, Grounded(s, p)
    PROVE  LET r == ClearEverything(s, p)
           IN  /\ Firm(r) /\ SamePlaces(r, s)
               /\ \A x \in Portals : x # p /\ x # s.link[p] /\ TwoSided(s, x) => TwoSided(r, x)
               /\ \A x \in Portals : x # p /\ Grounded(s, x) => Grounded(r, x)
<1> DEFINE a == ClearLinkedPhysics(s, p)
           b == ClearLocalPhysics(a, p)
           c == [b EXCEPT !.env[p] = FALSE]
           q == s.link[p]
<1>0. /\ SimOK(s) /\ Owned(s) /\ Tidy(s) /\ s.physics = s.owns
      /\ s.env \in [Portals -> BOOLEAN] /\ s.owns \in [Portals -> SUBSET Entities]
  BY SimTypes DEF Firm, Sound
<1>1. ClearEverything(s, p) = ReleaseAllEntityOwnership(c, p)
  BY DEF ClearEverything
<1>2. /\ Cleared(a, s) /\ ~a.remote[p]
      /\ \A x \in Portals : x # p /\ x # q => a.remote[x] = s.remote[x]
  BY <1>0, ClearLinkedPhysicsClears DEF Tidy, Backed
<1> HIDE DEF a
<1>3. SimOK(a) /\ Tidy(a)
  BY <1>0, <1>2, ClearedTidy DEF Cleared, Thinned, PhysicsOnly
<1>4. /\ Tidy(b) /\ PhysicsOnly(b, a) /\ b.env = a.env /\ b.remote = a.remote
      /\ \A x \in Portals : x # p => b.local[x] = a.local[x] /\ b.physics[x] = a.physics[x]
      /\ b.physics[p] = IF a.local[p] /\ a.env[p] THEN {} ELSE a.physics[p]
  BY <1>2, <1>3, ClearLocalPhysicsTidy
<1> HIDE DEF b
<1>5. /\ SimOK(b) /\ b.owns = s.owns /\ b.link = s.link /\ b.ready = s.ready /\ b.place = s.place
      /\ b.owner = s.owner /\ b.holder = s.holder /\ b.env = s.env /\ b.remote = a.remote
      /\ \A x \in Portals : x # p => b.local[x] = s.local[x] /\ b.physics[x] = s.physics[x]
      /\ b.physics[p] = IF s.local[p] /\ s.env[p] THEN {} ELSE s.physics[p]
  BY <1>2, <1>4 DEF Cleared, Thinned, PhysicsOnly
<1>6. b.physics[p] = {}
  <2>1. s.physics[p] # {} => s.env[p] /\ s.ready[p]
    BY <1>0 DEF Tidy
  <2> QED BY <1>5, <2>1 DEF Grounded
<1>7. SimOK(c)
  BY <1>5 DEF SimOK, Simulators
<1>8. /\ c.owns = b.owns /\ c.link = b.link /\ c.ready = b.ready /\ c.place = b.place
      /\ c.owner = b.owner /\ c.holder = b.holder /\ c.remote = b.remote /\ c.clones = b.clones
      /\ c.local = b.local /\ c.physics = b.physics /\ c.env = [b.env EXCEPT ![p] = FALSE]
  BY <1>5 DEF SimOK, Simulators
<1> HIDE DEF c
<1>9. Sound(c) /\ Tidy(c)
  <2>1. \A x \in Portals : c.env[x] <=> x # p /\ b.env[x]
    <3>1. b.env \in [Portals -> BOOLEAN]
      BY <1>0, <1>5
    <3>2. ~c.env[p] /\ \A x \in Portals : x # p => c.env[x] = b.env[x]
      BY <1>8, <3>1
    <3> QED BY <3>2
  <2>2. ~c.remote[p] /\ c.physics[p] = {}
    BY <1>2, <1>5, <1>6, <1>8
  <2> QED BY <1>0, <1>4, <1>5, <1>7, <1>8, <2>1, <2>2 DEF Sound, Owned, Tidy, NoStray, Mirrored
<1> DEFINE r == ReleaseOwnershipOfEntity(c, p, c.owns[p])
<1>10. /\ Sound(r) /\ Tidy(r) /\ SameShape(r, c)
       /\ r.owns = [c.owns EXCEPT ![p] = @ \ Lost(c, p, c.owns[p])]
       /\ r.physics = [c.physics EXCEPT ![p] = @ \ Lost(c, p, c.owns[p])]
  <2>1. c.owns[p] \in SUBSET Entities
    BY <1>0, <1>5, <1>8
  <2> QED BY <1>9, <2>1, ReleaseOwnershipTidy
<1>11. ClearEverything(s, p) = r
  BY <1>1 DEF ReleaseAllEntityOwnership
<1> HIDE DEF r
<1>12. r.physics = r.owns
  <2>1. r.owns[p] = {} /\ \A x \in Portals : x # p => r.owns[x] = s.owns[x]
    BY <1>0, <1>5, <1>8, <1>10 DEF Lost, Family
  <2>2. c.physics \in [Portals -> SUBSET Entities]
    BY <1>7, SimTypes
  <2>3. \A x \in Portals : r.physics[x] = r.owns[x]
    BY <1>0, <1>5, <1>6, <1>8, <1>10, <2>1, <2>2
  <2>4. r.physics \in [Portals -> SUBSET Entities] /\ r.owns \in [Portals -> SUBSET Entities]
    BY <1>10, SimTypes DEF Sound
  <2> QED BY <2>3, <2>4
<1>13. Firm(r) /\ SamePlaces(r, s)
  BY <1>5, <1>8, <1>10, <1>12 DEF Firm, SameShape, SamePlaces
<1>14. /\ \A x \in Portals : x # p /\ x # q => r.remote[x] = s.remote[x]
       /\ \A x \in Portals : x # p => r.env[x] = s.env[x] /\ r.local[x] = s.local[x]
  BY <1>0, <1>2, <1>5, <1>8, <1>10 DEF SameShape, SameFlags
<1> QED BY <1>11, <1>13, <1>14 DEF SamePlaces, TwoSided, Grounded

\* The destructor, in whatever condition the simulator is.
LEMMA DestroyedFirm ==
    ASSUME NEW s, Firm(s), Told(s), NEW p \in Portals
    PROVE  LET r == Destroyed(s, p)
           IN  /\ Firm(r) /\ Grounded(r, p)
               /\ Connected(s) => Connected(r)
               /\ \A x \in Portals : Grounded(s, x) => Grounded(r, x)
<1> DEFINE d == DetachFromLinked(s, p)
           a == ClearLinkedPhysics(d, p)
           b == ClearLocalPhysics(a, p)
           c == [b EXCEPT !.env[p] = FALSE]
           f == ReleaseAllEntityOwnership(c, p)
           holder == [e \in Entities |-> IF f.holder[e] = p THEN NoPortal ELSE f.holder[e]]
           r == [f EXCEPT !.place[p] = Nowhere, !.ready[p] = FALSE, !.local[p] = FALSE,
                          !.remote[p] = FALSE, !.physics[p] = {}, !.holder = holder]
<1>0. Sound(s) /\ NoPortal \notin Portals
  BY NoPortalAssumption DEF Firm
<1>1. Destroyed(s, p) = r
  BY DEF Destroyed, ClearEverything
<1>2. /\ Firm(d)
      /\ Connected(s) => Connected(d)
      /\ \A x \in Portals : Grounded(s, x) => Grounded(d, x)
  BY DetachFirm DEF Connected, TwoSidedElsewhere
<1>3. d.link[p] = NoPortal
  <2>1. d.link = Detached(s.link, p)
    BY <1>0, DetachKeeps
  <2>2. s.link \in [Portals -> Portals \cup {NoPortal}]
    BY <1>0, SimTypes DEF Sound
  <2> QED BY <2>1, <2>2 DEF Detached
<1>4. Sound(r) /\ r.owns[p] = {}
  <2>1. Sound(Destroyed(s, p)) /\ Destroyed(s, p).owns[p] = {}
    BY <1>0, DestroyedKeeps
  <2> HIDE DEF r
  <2> QED BY <1>1, <2>1
<1> HIDE DEF d
<1>5. /\ SimOK(d) /\ Owned(d) /\ Tidy(d) /\ d.physics = d.owns
      /\ d.env \in [Portals -> BOOLEAN] /\ d.owns \in [Portals -> SUBSET Entities]
      /\ \A x \in Portals : d.link[x] # p
  <2>1. Tidy(d) /\ SimOK(d)
    BY <1>2 DEF Firm, Sound
  <2>2. \A x \in Portals : d.link[x] # p
    BY <1>0, <1>3, <2>1 DEF Tidy, Paired
  <2> QED BY <1>2, <2>1, <2>2, SimTypes DEF Firm, Sound
<1>6. /\ Cleared(a, d) /\ ~a.remote[p]
      /\ \A x \in Portals : x # p /\ x # NoPortal => a.remote[x] = d.remote[x]
  BY <1>3, <1>5, ClearLinkedPhysicsClears DEF Tidy, Backed
<1> HIDE DEF a
<1>7. SimOK(a) /\ Tidy(a)
  BY <1>5, <1>6, ClearedTidy DEF Cleared, Thinned, PhysicsOnly
<1>8. /\ Tidy(b) /\ PhysicsOnly(b, a) /\ b.env = a.env /\ b.remote = a.remote
      /\ \A x \in Portals : x # p => b.local[x] = a.local[x] /\ b.physics[x] = a.physics[x]
  BY <1>6, <1>7, ClearLocalPhysicsTidy
<1> HIDE DEF b
<1>9. /\ SimOK(b) /\ Owned(b) /\ b.owner = d.owner /\ b.holder = d.holder /\ b.owns = d.owns /\ b.link = d.link /\ b.ready = d.ready
      /\ b.env = d.env
      /\ \A x \in Portals : x # p => /\ b.local[x] = d.local[x] /\ b.physics[x] = d.physics[x]
                                     /\ b.remote[x] = d.remote[x]
  BY <1>0, <1>5, <1>6, <1>8 DEF Cleared, Thinned, PhysicsOnly, Owned
<1>10. SimOK(c)
  BY <1>9 DEF SimOK, Simulators
<1>11. /\ c.owns = b.owns /\ c.link = b.link /\ c.ready = b.ready
       /\ c.remote = b.remote /\ c.clones = b.clones
       /\ c.local = b.local /\ c.physics = b.physics /\ c.env = [b.env EXCEPT ![p] = FALSE]
  BY <1>9 DEF SimOK, Simulators
<1> HIDE DEF c
<1>a. ~c.env[p] /\ c.link[p] = NoPortal
  BY <1>3, <1>5, <1>9, <1>11
<1> DEFINE lost == Lost(c, p, c.owns[p])
<1>12. f = MarkAsReleased([c EXCEPT !.physics[p] = @ \ {}], p, lost)
  <2>1. ReleasePhysicsOwnership(c, p, lost) = [c EXCEPT !.physics[p] = @ \ {}]
    BY <1>a DEF ReleasePhysicsOwnership
  <2>2. f = MarkAsReleased(ReleasePhysicsOwnership(c, p, lost), p, lost)
    BY DEF ReleaseAllEntityOwnership, ReleaseOwnershipOfEntity, Lost
  <2> HIDE DEF f, lost
  <2> QED BY <2>1, <2>2
<1>13. /\ f.link = c.link /\ f.ready = c.ready /\ f.env = c.env /\ f.remote = c.remote
       /\ f.local = c.local /\ f.clones = c.clones
       /\ f.owns = [c.owns EXCEPT ![p] = @ \ lost]
       /\ f.physics = [c.physics EXCEPT ![p] = @ \ {}]
  <2> HIDE DEF f, lost
  <2> QED BY <1>10, <1>12 DEF MarkAsReleased, SimOK, Simulators
<1>14. f \in Simulators
  <2>1. Sound(c)
    BY <1>8, <1>9, <1>10 DEF Sound, Owned, c
  <2>2. OnlyLoses(f, c)
    BY <2>1, ReleaseAllKeeps
  <2> HIDE DEF f
  <2> QED BY <2>2 DEF OnlyLoses, Sound, SimOK
<1> HIDE DEF f, holder, lost
<1>15. /\ r.link = f.link /\ r.env = f.env /\ r.clones = f.clones /\ r.owns = f.owns
       /\ r.ready = [f.ready EXCEPT ![p] = FALSE] /\ r.local = [f.local EXCEPT ![p] = FALSE]
       /\ r.remote = [f.remote EXCEPT ![p] = FALSE] /\ r.physics = [f.physics EXCEPT ![p] = {}]
  BY <1>14 DEF Simulators
<1> HIDE DEF r
<1>16. /\ ~r.ready[p] /\ ~r.remote[p] /\ r.physics[p] = {} /\ ~r.env[p]
       /\ r.link = d.link /\ r.clones = b.clones
       /\ \A x \in Portals : x # p =>
             /\ r.ready[x] = d.ready[x] /\ r.local[x] = d.local[x] /\ r.env[x] = d.env[x]
             /\ r.remote[x] = d.remote[x]
             /\ r.physics[x] = d.physics[x] /\ r.owns[x] = d.owns[x]
  <2>1. /\ f.ready \in [Portals -> BOOLEAN] /\ f.local \in [Portals -> BOOLEAN]
        /\ f.remote \in [Portals -> BOOLEAN] /\ f.physics \in [Portals -> SUBSET Entities]
        /\ f.env \in [Portals -> BOOLEAN]
    BY <1>14 DEF Simulators
  <2>2. c.physics \in [Portals -> SUBSET Entities] /\ c.owns \in [Portals -> SUBSET Entities]
    BY <1>10, SimTypes
  <2>3. \A x \in Portals : x # p => f.physics[x] = c.physics[x] /\ f.owns[x] = c.owns[x]
    BY <1>13, <2>2
  <2> QED BY <1>5, <1>9, <1>11, <1>13, <1>15, <1>a, <2>1, <2>3
<1>17. r.physics = r.owns
  <2>1. r.physics[p] = r.owns[p] /\ \A x \in Portals : x # p => r.physics[x] = r.owns[x]
    BY <1>4, <1>5, <1>16
  <2>2. r.physics \in [Portals -> SUBSET Entities] /\ r.owns \in [Portals -> SUBSET Entities]
    BY <1>4, SimTypes DEF Sound
  <2> QED BY <2>1, <2>2
<1>18. NoStray(r)
  <2> SUFFICES ASSUME NEW x \in Portals, NEW e \in Entities, r.clones[x][e] > 0
               PROVE  r.clones[x][e] = 1 /\ r.link[x] # NoPortal /\ e \in r.physics[r.link[x]]
    BY DEF NoStray
  <2>1. b.clones[x][e] = 1 /\ b.link[x] # NoPortal /\ e \in b.physics[b.link[x]]
    BY <1>8, <1>16 DEF Tidy, NoStray
  <2>2. d.link[x] \in Portals /\ d.link[x] # p
    BY <1>5, <1>9, <2>1, SimTypes
  <2> QED BY <1>9, <1>16, <2>1, <2>2
<1>18a. Mirrored(r)
  <2> SUFFICES ASSUME NEW x \in Portals, NEW e \in Entities
               PROVE  /\ r.clones[x][e] > 0 => r.ready[x]
                      /\ Ample /\ e \in Props /\ r.remote[x] /\ r.link[x] # NoPortal
                         /\ e \in r.physics[r.link[x]] => r.clones[x][e] > 0
    BY DEF Mirrored
  <2>1. /\ b.clones[x][e] > 0 => b.ready[x] /\ b.link[x] # NoPortal
        /\ Ample /\ e \in Props /\ b.remote[x] /\ b.link[x] # NoPortal /\ e \in b.physics[b.link[x]] =>
              b.clones[x][e] > 0
    BY <1>8 DEF Tidy, NoStray, Mirrored
  <2>2. /\ b.link[x] # NoPortal => x # p /\ d.link[x] \in Portals /\ d.link[x] # p
        /\ r.remote[x] => x # p
    BY <1>3, <1>5, <1>9, <1>16, SimTypes
  <2>3. r.clones[x][e] > 0 => r.ready[x]
    BY <1>9, <1>16, <2>1, <2>2
  <2>4. ASSUME Ample, e \in Props, r.remote[x], r.link[x] # NoPortal, e \in r.physics[r.link[x]]
        PROVE  r.clones[x][e] > 0
    <3>1. x # p /\ b.link[x] = d.link[x] /\ d.link[x] \in Portals /\ d.link[x] # p /\ b.remote[x]
      BY <1>9, <1>16, <2>2, <2>4
    <3>2. e \in b.physics[b.link[x]]
      BY <1>9, <1>16, <2>4, <3>1
    <3> QED BY <1>16, <2>1, <2>4, <3>1, <3>2, NoPortalAssumption
  <2> QED BY <2>3, <2>4
<1>19. Tidy(r)
  BY <1>5, <1>16, <1>17, <1>18, <1>18a DEF Tidy
<1>20. ASSUME Connected(s), NEW x \in Portals PROVE TwoSided(r, x)
  <2>1. CASE x = p
    BY <1>16, <2>1 DEF TwoSided
  <2>2. CASE x # p
    <3>1. TwoSided(d, x) /\ d.link[x] # p
      BY <1>2, <1>5, <1>20 DEF Connected
    <3>2. d.link[x] \in Portals \cup {NoPortal}
      BY <1>5, SimTypes
    <3> QED BY <1>16, <2>2, <3>1, <3>2 DEF TwoSided
  <2> QED BY <2>1, <2>2
<1>21. \A x \in Portals : Grounded(s, x) => Grounded(r, x)
  BY <1>2, <1>16 DEF Grounded
<1> QED BY <1>1, <1>4, <1>16, <1>17, <1>19, <1>20, <1>21 DEF Firm, Connected, Grounded
=============================================================================
