-------------------------- MODULE PortalGunProofs --------------------------
(***************************************************************************)
(* Proofs about PortalGun, for any portals, guns, groups, spots, volumes   *)
(* and resolution of the bump distance.                                    *)
(***************************************************************************)
EXTENDS PortalGun, TLAPS

\* A square is no smaller than the square of a smaller natural number.
LEMMA SquareGrows ==
    ASSUME NEW x \in Nat, NEW y \in Nat, x >= y
    PROVE  x * x >= y * y
<1>1. x * x >= x * y
  OBVIOUS
<1>2. x * y >= y * y
  OBVIOUS
<1> QED
  BY <1>1, <1>2

\* No bump that the placement test lets pass brings the score below 0.5: the
\* failure of a shot that fits is always written, never left over.
THEOREM BumpedIsSuccess == \A d \in 0..BumpSteps : ScoreIsSuccess(d)
<1> SUFFICES ASSUME NEW d \in 0..BumpSteps PROVE ScoreIsSuccess(d)
  OBVIOUS
<1> USE GunAssumption
<1> DEFINE b == BumpSteps
           x == 4 * b - d
<1>1. b \in Nat /\ x \in Nat /\ x >= 3 * b
  OBVIOUS
<1> HIDE DEF b, x
<1>2. x * x >= 9 * (b * b)
  <2>1. x * x >= (3 * b) * (3 * b)
    BY <1>1, SquareGrows
  <2> QED
    BY <2>1, <1>1
<1>3. (x * x) * (x * x) >= (9 * (b * b)) * (9 * (b * b))
  <2>1. x * x \in Nat /\ 9 * (b * b) \in Nat
    BY <1>1
  <2> QED
    BY <2>1, <1>2, SquareGrows
<1>4. (9 * (b * b)) * (9 * (b * b)) = 81 * ((b * b) * (b * b))
  BY <1>1
<1>5. ((4 * b) * (4 * b)) * ((4 * b) * (4 * b)) = 256 * ((b * b) * (b * b))
  BY <1>1
<1>6. (b * b) * (b * b) \in Nat /\ (x * x) * (x * x) \in Nat
  BY <1>1
<1>7. 7 * ((x * x) * (x * x)) >= 2 * (((4 * b) * (4 * b)) * ((4 * b) * (4 * b)))
  <2> DEFINE f == (b * b) * (b * b)
             y == (x * x) * (x * x)
  <2>1. f \in Nat /\ y \in Nat /\ y >= 81 * f
    BY <1>3, <1>4, <1>6
  <2> HIDE DEF f, y
  <2>2. 7 * y >= 2 * (256 * f)
    BY <2>1
  <2> QED
    BY <2>2, <1>5 DEF f, y
<1> QED
  BY <1>7 DEF ScoreIsSuccess, Fourth, b, x

-----------------------------------------------------------------------------
(* The inductive invariant *)

\* A pending placement that is to succeed is aimed at a spot that was accepted.
PendingFits ==
    \A p \in Portals : shot[p] # "none" /\ delayedFailure[p] = "success" =>
        delayedPosition[p] \in Fits

GunIInv == GunTypeOK /\ NoneInVolume /\ StandsOnSurface /\ PendingFits

\* All portals are closed and nothing is in flight at first.
LEMMA InitGunIInv == GunInit => GunIInv
  BY GunAssumption
     DEF GunInit, GunIInv, GunTypeOK, NoneInVolume, StandsOnSurface, PendingFits,
         Open, Failures, ShotStates

\* Where a portal is kept or closed, and no volume is switched on around it,
\* what is said of the open portals still holds.
LEMMA OnlyCloses ==
    ASSUME GunTypeOK, NoneInVolume, StandsOnSurface,
           \A p \in Portals : place'[p] \in {place[p], Closed},
           \A p \in Portals : place'[p] # Closed =>
               \A v \in Volumes : volumeOn'[v] /\ ~volumeOn[v] => place[p] \notin Core[v]
    PROVE  NoneInVolume' /\ StandsOnSurface'
  BY DEF GunTypeOK, NoneInVolume, StandsOnSurface, Open, InVolume

\* A scheduled placement keeps the invariant if a success is aimed at a fit spot.
LEMMA ScheduleGunIInv ==
    ASSUME GunIInv,
           NEW g \in Guns, NEW p \in Portals,
           NEW failure \in Failures, NEW position \in Spots,
           failure = "success" => position \in Fits,
           Schedule(g, p, failure, position),
           UNCHANGED <<place, gunGroup, volumeOn>>
    PROVE  GunIInv'
<1>1. GunTypeOK'
  BY DEF GunIInv, GunTypeOK, Schedule, ShotStates
<1>2. NoneInVolume' /\ StandsOnSurface'
  BY DEF GunIInv, NoneInVolume, StandsOnSurface, Open, InVolume
<1>3. PendingFits'
  BY DEF GunIInv, GunTypeOK, PendingFits, Schedule
<1> QED
  BY <1>1, <1>2, <1>3 DEF GunIInv

\* Whatever a shot meets, what it leaves pending keeps the invariant.
LEMMA FirePortalGunIInv ==
    ASSUME GunIInv, NEW g \in Guns, NEW p \in Portals, FirePortal(g, p)
    PROVE  GunIInv'
<1>1. UNCHANGED <<place, gunGroup, volumeOn>>
  BY DEF FirePortal
<1>2. CASE FireFit(g, p)
  <2>1. PICK aim \in Spots, fit \in Spots, d \in 0..BumpSteps :
            /\ fit \in Fits
            /\ IF ScoreIsSuccess(d) THEN Schedule(g, p, "success", fit)
                                    ELSE Schedule(g, p, delayedFailure[p], aim)
    BY <1>2 DEF FireFit
  <2>2. Schedule(g, p, "success", fit)
    BY <2>1, BumpedIsSuccess
  <2> QED
    BY <1>1, <2>1, <2>2, ScheduleGunIInv DEF Failures
<1>3. CASE FireFailed(g, p)
  <2>1. PICK aim \in Spots, failure \in {"failed", "priority"} :
            Schedule(g, p, failure, aim)
    BY <1>3 DEF FireFailed
  <2> QED
    BY <1>1, <2>1, ScheduleGunIInv DEF Failures
<1>4. CASE FireNear(g, p)
  <2>1. PICK near \in Portals :
            /\ place[near] # Closed
            /\ delayedPosition' = [delayedPosition EXCEPT ![p] = place[near]]
    BY <1>4 DEF FireNear, Open
  <2>2. delayedFailure' = [delayedFailure EXCEPT ![p] = "priority"]
        /\ UNCHANGED <<shot, placedBy>>
    BY <1>4 DEF FireNear
  <2>3. GunTypeOK'
    BY <1>1, <2>1, <2>2 DEF GunIInv, GunTypeOK, Failures
  <2>4. NoneInVolume' /\ StandsOnSurface'
    BY <1>1 DEF GunIInv, NoneInVolume, StandsOnSurface, Open, InVolume
  <2>5. PendingFits'
    BY <2>1, <2>2 DEF GunIInv, GunTypeOK, PendingFits
  <2> QED
    BY <2>3, <2>4, <2>5 DEF GunIInv
<1>5. CASE FireSteal(g, p)
  <2>1. PICK hit \in Portals : Open(hit) /\ Schedule(g, p, "success", place[hit])
    BY <1>5 DEF FireSteal
  <2>2. place[hit] \in Fits /\ place[hit] \in Spots
    BY <2>1, GunAssumption DEF GunIInv, StandsOnSurface
  <2> QED
    BY <1>1, <2>1, <2>2, ScheduleGunIInv DEF Failures
<1> QED
  BY <1>2, <1>3, <1>4, <1>5 DEF FirePortal

\* A shot that lands opens its portal only where one stands that it steals
\* from, or where it was accepted and no volume has come since.
LEMMA LandGunIInv ==
    ASSUME GunIInv, NEW p \in Portals, Land(p)
    PROVE  GunIInv'
<1>1. /\ shot[p] = "due"
      /\ shot' = [shot EXCEPT ![p] = "none"]
      /\ UNCHANGED <<placedBy, gunGroup, volumeOn>>
  BY DEF Land
<1>2. CASE Steal(p)
  <2>1. PICK q \in Partners(p) :
            /\ delayedPosition' = [delayedPosition EXCEPT ![p] = place[q]]
            /\ delayedFailure' = [delayedFailure EXCEPT ![p] = "success"]
            /\ place' = [ClosedOnes(IF GroupOf[q] # ThiefGroup(p) THEN {q} ELSE {})
                            EXCEPT ![p] = place[q]]
    BY <1>2 DEF Steal
  <2>2. q \in Portals /\ place[q] # Closed /\ place[q] \in Spots
    BY <2>1 DEF Partners, Open, GunIInv, GunTypeOK
  <2>3. /\ place'[p] = place[q]
        /\ \A r \in Portals : r # p => place'[r] \in {place[r], Closed}
        /\ place' \in [Portals -> Spots \cup {Closed}]
    BY <2>1, <2>2 DEF ClosedOnes, GunIInv, GunTypeOK
  <2>4. GunTypeOK'
    BY <1>1, <2>1, <2>2, <2>3 DEF GunIInv, GunTypeOK, Failures, ShotStates
  <2>5. NoneInVolume' /\ StandsOnSurface'
    BY <1>1, <2>2, <2>3 DEF GunIInv, NoneInVolume, StandsOnSurface, Open, InVolume
  <2>6. PendingFits'
    BY <1>1, <2>1 DEF GunIInv, GunTypeOK, PendingFits
  <2> QED
    BY <2>4, <2>5, <2>6 DEF GunIInv
<1>3. CASE PlaceOrFail(p)
  <2> DEFINE fails == delayedFailure[p] # "priority" /\ ~SpotIsFree(p)
             failure == IF fails THEN "failed" ELSE delayedFailure[p]
  <2>1. /\ delayedFailure' = [delayedFailure EXCEPT ![p] = failure]
        /\ place' = IF failure = "success"
                    THEN [place EXCEPT ![p] = delayedPosition[p]] ELSE place
        /\ delayedPosition' = delayedPosition
    BY <1>3 DEF PlaceOrFail
  <2>2. failure \in Failures
    BY DEF GunIInv, GunTypeOK, Failures
  <2>3. failure = "success" => /\ delayedFailure[p] = "success"
                               /\ ~InVolume(delayedPosition[p])
    BY DEF SpotIsFree
  <2>4. failure = "success" => delayedPosition[p] \in Fits
    BY <1>1, <2>3 DEF GunIInv, PendingFits
  <2> HIDE DEF failure
  <2>5. GunTypeOK'
    BY <1>1, <2>1, <2>2 DEF GunIInv, GunTypeOK, ShotStates
  <2>6. NoneInVolume' /\ StandsOnSurface'
    BY <1>1, <2>1, <2>3, <2>4
       DEF GunIInv, GunTypeOK, NoneInVolume, StandsOnSurface, Open, InVolume
  <2>7. PendingFits'
    BY <1>1, <2>1 DEF GunIInv, GunTypeOK, PendingFits
  <2> QED
    BY <2>5, <2>6, <2>7 DEF GunIInv
<1> QED
  BY <1>2, <1>3 DEF Land

\* Fizzling what a gun owns opens nothing and schedules nothing.
LEMMA FizzleOwnedGunIInv ==
    ASSUME GunIInv, NEW g \in Guns, FizzleOwned(g),
           placedBy' \in [Portals -> Guns \cup {NoGun}],
           gunGroup' \in [Guns -> Groups \cup {NoGroup}]
    PROVE  GunIInv'
<1>1. GunTypeOK'
  BY DEF GunIInv, GunTypeOK, FizzleOwned, ClosedOnes, ShotStates
<1>2. NoneInVolume' /\ StandsOnSurface'
  BY OnlyCloses DEF GunIInv, FizzleOwned, ClosedOnes
<1>3. PendingFits'
  BY DEF GunIInv, PendingFits, FizzleOwned
<1> QED
  BY <1>1, <1>2, <1>3 DEF GunIInv

\* Every step keeps the invariant.
LEMMA NextGunIInv == GunIInv /\ [GunNext]_gunVars => GunIInv'
<1> SUFFICES ASSUME GunIInv, [GunNext]_gunVars PROVE GunIInv'
  OBVIOUS
<1>1. ASSUME NEW g \in Guns, NEW p \in Portals, FirePortal(g, p) PROVE GunIInv'
  BY <1>1, FirePortalGunIInv
<1>2. ASSUME NEW p \in Portals, Land(p) PROVE GunIInv'
  BY <1>2, LandGunIInv
<1>3. ASSUME NEW p \in Portals, Fizzle(p) PROVE GunIInv'
  <2>1. GunTypeOK'
    BY <1>3 DEF GunIInv, GunTypeOK, Fizzle, ClosedOnes, delayVars
  <2>2. NoneInVolume' /\ StandsOnSurface'
    BY <1>3, OnlyCloses DEF GunIInv, Fizzle, ClosedOnes
  <2>3. PendingFits'
    BY <1>3 DEF GunIInv, PendingFits, Fizzle, delayVars
  <2> QED
    BY <2>1, <2>2, <2>3 DEF GunIInv
<1>4. CASE Tick
  <2>1. GunTypeOK'
    BY <1>4 DEF GunIInv, GunTypeOK, Tick, ShotStates
  <2>2. NoneInVolume' /\ StandsOnSurface'
    BY <1>4 DEF GunIInv, NoneInVolume, StandsOnSurface, Open, InVolume, Tick
  <2>3. PendingFits'
    BY <1>4 DEF GunIInv, PendingFits, Tick
  <2> QED
    BY <2>1, <2>2, <2>3 DEF GunIInv
<1>5. ASSUME NEW g \in Guns, Cleanse(g) PROVE GunIInv'
  BY <1>5, FizzleOwnedGunIInv DEF Cleanse, GunIInv, GunTypeOK
<1>6. ASSUME NEW g \in Guns, RemoveGun(g) PROVE GunIInv'
  <2>1. /\ placedBy' \in [Portals -> Guns \cup {NoGun}]
        /\ gunGroup' \in [Guns -> Groups \cup {NoGroup}]
    BY <1>6 DEF RemoveGun, GunIInv, GunTypeOK
  <2> QED
    BY <1>6, <2>1, FizzleOwnedGunIInv DEF RemoveGun
<1>7. ASSUME NEW g \in Guns, NEW group \in Groups, PickUp(g, group) PROVE GunIInv'
  BY <1>7 DEF PickUp, delayVars, GunIInv, GunTypeOK, NoneInVolume, StandsOnSurface,
              PendingFits, Open, InVolume
<1>8. ASSUME NEW v \in Volumes, ActivateVolume(v) PROVE GunIInv'
  <2>1. GunTypeOK'
    BY <1>8 DEF GunIInv, GunTypeOK, ActivateVolume, ClosedOnes, delayVars
  <2>2. \A p \in Portals : place'[p] # Closed =>
            \A u \in Volumes : volumeOn'[u] /\ ~volumeOn[u] => place[p] \notin Core[u]
    BY <1>8, GunAssumption DEF GunIInv, GunTypeOK, ActivateVolume, ClosedOnes
  <2>3. \A p \in Portals : place'[p] \in {place[p], Closed}
    BY <1>8 DEF ActivateVolume, ClosedOnes
  <2>4. NoneInVolume' /\ StandsOnSurface'
    BY <2>2, <2>3, OnlyCloses DEF GunIInv
  <2>5. PendingFits'
    BY <1>8 DEF GunIInv, PendingFits, ActivateVolume, delayVars
  <2> QED
    BY <2>1, <2>4, <2>5 DEF GunIInv
<1>9. ASSUME NEW v \in Volumes, DeactivateVolume(v) PROVE GunIInv'
  <2>1. GunTypeOK' /\ PendingFits'
    BY <1>9 DEF GunIInv, GunTypeOK, PendingFits, DeactivateVolume, delayVars
  <2>2. NoneInVolume' /\ StandsOnSurface'
    BY <1>9, OnlyCloses DEF GunIInv, GunTypeOK, DeactivateVolume
  <2> QED
    BY <2>1, <2>2 DEF GunIInv
<1>10. CASE UNCHANGED gunVars
  BY <1>10 DEF gunVars, GunIInv, GunTypeOK, NoneInVolume, StandsOnSurface, PendingFits,
               Open, InVolume
<1> QED
  BY <1>1, <1>2, <1>3, <1>4, <1>5, <1>6, <1>7, <1>8, <1>9, <1>10 DEF GunNext

\* The strengthening that the theorems below follow from.
THEOREM GunSpecIInv == GunSpec => []GunIInv
  BY InitGunIInv, NextGunIInv, PTL DEF GunSpec

\* The state of the guns, the shots and the portals is of its type.
THEOREM GunSpecTypeOK == GunSpec => []GunTypeOK
<1>1. GunIInv => GunTypeOK
  BY DEF GunIInv
<1> QED
  BY <1>1, GunSpecIInv, PTL

\* No portal is ever open inside a volume that forbids portals.
THEOREM GunSpecNoneInVolume == GunSpec => []NoneInVolume
<1>1. GunIInv => NoneInVolume
  BY DEF GunIInv
<1> QED
  BY <1>1, GunSpecIInv, PTL

\* A portal stands only where a placement test has accepted one.
THEOREM GunSpecStandsOnSurface == GunSpec => []StandsOnSurface
<1>1. GunIInv => StandsOnSurface
  BY DEF GunIInv
<1> QED
  BY <1>1, GunSpecIInv, PTL

-----------------------------------------------------------------------------
(* Portals that overlap *)

\* Closing portals, or leaving them as they are, makes no two of them overlap.
LEMMA ClosingKeepsApart ==
    ASSUME NoOverlap, \A p \in Portals : place'[p] \in {place[p], Closed}
    PROVE  NoOverlap'
  BY DEF NoOverlap, Open

\* A shot that lands as its gun's group leaves the portals apart: it closes the
\* one it steals from, or has found the spot free.
LEMMA LandKeepsApart ==
    ASSUME GunTypeOK, NoOverlap, NEW p \in Portals, Land(p),
           ThiefGroup(p) = GroupOf[p]
    PROVE  NoOverlap'
<1> USE GunAssumption
<1>1. CASE Steal(p)
  <2>1. PICK q \in Partners(p) :
            place' = [ClosedOnes(IF GroupOf[q] # ThiefGroup(p) THEN {q} ELSE {})
                        EXCEPT ![p] = place[q]]
    BY <1>1 DEF Steal
  <2>2. q \in Portals /\ Open(q) /\ GroupOf[q] # ThiefGroup(p) /\ q # p
    BY <2>1 DEF Partners
  <2>3. /\ place'[p] = place[q] /\ place'[q] = Closed
        /\ \A r \in Portals \ {p} : place'[r] \in {place[r], Closed}
    BY <2>1, <2>2 DEF ClosedOnes
  <2>4. \A r \in Portals \ {p} : Open(r)' => ~Overlap(place'[r], place'[p])
    BY <2>2, <2>3 DEF NoOverlap, Open
  <2>5. \A r \in Portals \ {p} : Open(r)' => ~Overlap(place'[p], place'[r])
    BY <2>2, <2>3, <2>4 DEF GunTypeOK, Open
  <2>6. \A r, t \in Portals \ {p} : r # t /\ Open(r)' /\ Open(t)'
            => ~Overlap(place'[r], place'[t])
    BY <2>3 DEF NoOverlap, Open
  <2> QED
    BY <2>4, <2>5, <2>6 DEF NoOverlap
<1>2. CASE PlaceOrFail(p)
  <2>1. CASE place' = place
    BY <2>1, ClosingKeepsApart
  <2>2. CASE place' = [place EXCEPT ![p] = delayedPosition[p]] /\ SpotIsFree(p)
    <3>1. \A r \in Portals \ {p} : place'[r] = place[r]
      BY <2>2 DEF GunTypeOK
    <3>2. place'[p] = delayedPosition[p] /\ delayedPosition[p] \in Spots
      BY <2>2 DEF GunTypeOK
    <3>3. \A r \in Portals \ {p} : Open(r)' => ~Overlap(place'[r], place'[p])
      BY <2>2, <3>1, <3>2 DEF SpotIsFree, Open
    <3>4. \A r \in Portals \ {p} : Open(r)' => ~Overlap(place'[p], place'[r])
      BY <3>1, <3>2, <3>3 DEF GunTypeOK, Open
    <3>5. \A r, t \in Portals \ {p} : r # t /\ Open(r)' /\ Open(t)'
              => ~Overlap(place'[r], place'[t])
      BY <3>1 DEF NoOverlap, Open
    <3> QED
      BY <3>3, <3>4, <3>5 DEF NoOverlap
  <2> QED
    BY <1>2, <2>1, <2>2 DEF PlaceOrFail
<1> QED
  BY <1>1, <1>2 DEF Land

\* Every other step leaves the portals apart.
LEMMA StepKeepsApart ==
    ASSUME GunTypeOK, NoOverlap, [GunNext]_gunVars,
           \A p \in Portals : Land(p) => ThiefGroup(p) = GroupOf[p]
    PROVE  NoOverlap'
<1>1. ASSUME NEW g \in Guns, NEW p \in Portals, FirePortal(g, p) PROVE NoOverlap'
  BY <1>1, ClosingKeepsApart DEF FirePortal
<1>2. ASSUME NEW p \in Portals, Land(p) PROVE NoOverlap'
  BY <1>2, LandKeepsApart
<1>3. ASSUME NEW p \in Portals, Fizzle(p) PROVE NoOverlap'
  BY <1>3, ClosingKeepsApart DEF Fizzle, ClosedOnes
<1>4. CASE Tick
  BY <1>4, ClosingKeepsApart DEF Tick
<1>5. ASSUME NEW g \in Guns, FizzleOwned(g) PROVE NoOverlap'
  BY <1>5, ClosingKeepsApart DEF FizzleOwned, ClosedOnes
<1>6. ASSUME NEW g \in Guns, NEW group \in Groups, PickUp(g, group) PROVE NoOverlap'
  BY <1>6, ClosingKeepsApart DEF PickUp
<1>7. ASSUME NEW v \in Volumes, ActivateVolume(v) PROVE NoOverlap'
  BY <1>7, ClosingKeepsApart DEF ActivateVolume, ClosedOnes
<1>8. ASSUME NEW v \in Volumes, DeactivateVolume(v) PROVE NoOverlap'
  BY <1>8, ClosingKeepsApart DEF DeactivateVolume
<1>9. CASE UNCHANGED gunVars
  BY <1>9, ClosingKeepsApart DEF gunVars
<1> QED
  BY <1>1, <1>2, <1>3, <1>4, <1>5, <1>6, <1>7, <1>8, <1>9
     DEF GunNext, Cleanse, RemoveGun

\* Portals come to overlap only when the gun of a shot in flight has changed
\* its group or is gone.
THEOREM GunSpecOnlyForeignShotsOverlap == GunSpec => OnlyForeignShotsOverlap
<1>1. GunTypeOK /\ [GunNext]_gunVars =>
        [NoOverlap /\ ~NoOverlap' =>
            \E p \in Portals : Land(p) /\ ThiefGroup(p) # GroupOf[p]]_gunVars
  BY StepKeepsApart
<1> QED
  BY <1>1, GunSpecTypeOK, PTL DEF GunSpec, OnlyForeignShotsOverlap

\* What is in flight was fired by a gun that still has the portal's group.
FiredByOwnGroup ==
    \A p \in Portals :
        shot[p] # "none" => placedBy[p] \in Guns /\ gunGroup[placedBy[p]] = GroupOf[p]

\* So it is as long as guns keep their groups.
LEMMA StepFiredByOwnGroup ==
    ASSUME GunsChange = FALSE, GunTypeOK, FiredByOwnGroup, [GunNext]_gunVars
    PROVE  FiredByOwnGroup'
<1> USE DEF FiredByOwnGroup
<1>1. ASSUME NEW g \in Guns, NEW p \in Portals, FirePortal(g, p) PROVE FiredByOwnGroup'
  <2>1. p \in PortalsOf(g) /\ gunGroup' = gunGroup
    BY <1>1 DEF FirePortal
  <2>2. CASE shot' = shot /\ placedBy' = placedBy
    BY <2>1, <2>2
  <2>3. CASE /\ placedBy' = [placedBy EXCEPT ![p] = g]
             /\ \E when \in {"flying", "due"} : shot' = [shot EXCEPT ![p] = when]
    <3>1. placedBy'[p] = g /\ GroupOf[p] = gunGroup[g]
      BY <2>1, <2>3 DEF GunTypeOK, PortalsOf
    <3>2. \A q \in Portals \ {p} : placedBy'[q] = placedBy[q] /\ shot'[q] = shot[q]
      BY <2>3 DEF GunTypeOK
    <3> QED
      BY <2>1, <3>1, <3>2
  <2> QED
    BY <1>1, <2>2, <2>3
       DEF FirePortal, FireFit, FireFailed, FireNear, FireSteal, Schedule
<1>2. ASSUME NEW p \in Portals, Land(p) PROVE FiredByOwnGroup'
  BY <1>2 DEF Land, GunTypeOK
<1>3. ASSUME NEW p \in Portals, Fizzle(p) PROVE FiredByOwnGroup'
  BY <1>3 DEF Fizzle, delayVars
<1>4. CASE Tick
  BY <1>4 DEF Tick
<1>5. ASSUME NEW g \in Guns, Cleanse(g) PROVE FiredByOwnGroup'
  BY <1>5 DEF Cleanse, FizzleOwned
<1>6. ASSUME NEW v \in Volumes, ActivateVolume(v) \/ DeactivateVolume(v)
      PROVE  FiredByOwnGroup'
  BY <1>6 DEF ActivateVolume, DeactivateVolume, delayVars
<1>7. CASE UNCHANGED gunVars
  BY <1>7 DEF gunVars
<1> QED
  BY <1>1, <1>2, <1>3, <1>4, <1>5, <1>6, <1>7 DEF GunNext, RemoveGun, PickUp

\* Where guns keep their groups no two open portals overlap (NoOverlap),
\* whoever fires, steals, misses or is bumped.
THEOREM GunSpecNoOverlap ==
    ASSUME GunsChange = FALSE
    PROVE  GunSpec => []NoOverlap
<1>1. GunInit => FiredByOwnGroup /\ NoOverlap
  BY DEF GunInit, FiredByOwnGroup, NoOverlap, Open
<1>2. GunTypeOK /\ FiredByOwnGroup /\ NoOverlap /\ [GunNext]_gunVars
        => FiredByOwnGroup' /\ NoOverlap'
  <2>1. GunTypeOK /\ FiredByOwnGroup =>
            \A p \in Portals : Land(p) => ThiefGroup(p) = GroupOf[p]
    BY GunAssumption DEF FiredByOwnGroup, Land, ThiefGroup
  <2> QED
    BY <2>1, StepFiredByOwnGroup, StepKeepsApart
<1> QED
  BY <1>1, <1>2, GunSpecTypeOK, PTL DEF GunSpec
=============================================================================
