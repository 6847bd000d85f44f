----------------------------- MODULE PortalGun -----------------------------
(***************************************************************************)
(* Shots of the portal gun: CWeaponPortalgun::FirePortal                   *)
(* (game/shared/portal/weapon_portalgun_shared.cpp), the placement it asks *)
(* for (portal_placement.cpp) and the think function that carries it out   *)
(* when the blast reaches the wall (prop_portal_shared.cpp).  Between the  *)
(* two other shots land, volumes are switched on, cleansers are walked     *)
(* into and guns change hands.  A portal has one pending placement: the    *)
(* next shot writes over it.                                               *)
(*                                                                         *)
(* The links between the portals are the subject of PortalLinkage.  The    *)
(* map's inputs NewLocation and SetActivatedState, which place a portal    *)
(* without a gun, are not part of this module.                             *)
(***************************************************************************)
EXTENDS Naturals

CONSTANTS Portals, Guns, Groups, Spots, Volumes,
          NoGun, NoGroup, Closed,
          GroupOf,        \* m_iLinkageGroupID of each portal
          DefaultGroup,   \* group 0, which StealPortal takes a missing gun to have
          Fits,           \* spots where a portal is on a valid surface
          Adjacent,       \* pairs of spots whose portals overlap (same face, boxes meet)
          Core,           \* per volume, the spots the placement test rejects
          Reach,          \* per volume, the spots whose portals its activation fizzles
          BumpSteps,      \* resolution of the bump distance
          GunsChange      \* whether guns are picked up and removed

Overlap(s, t) == s = t \/ <<s, t>> \in Adjacent

ASSUME GunAssumption ==
    /\ GroupOf \in [Portals -> Groups]
    /\ DefaultGroup \in Groups
    /\ NoGun \notin Guns /\ NoGroup \notin Groups /\ Closed \notin Spots
    /\ Fits \subseteq Spots
    /\ \A s, t \in Spots : Overlap(s, t) => Overlap(t, s)
    /\ Core \in [Volumes -> SUBSET Spots]
    /\ Reach \in [Volumes -> SUBSET Spots]
    /\ \A v \in Volumes : Core[v] \subseteq Reach[v]    \* the test shrinks the box
    /\ BumpSteps \in Nat \ {0}
    /\ GunsChange \in BOOLEAN

VARIABLES
    place,             \* GetAbsOrigin of an active portal, Closed if it is not active
    delayedFailure,    \* m_iDelayedFailure
    delayedPosition,   \* m_vDelayedPosition, m_qDelayedAngles
    shot,              \* the context think DelayedPlacementThink
    placedBy,          \* m_hPlacedBy
    gunGroup,          \* m_iPortalLinkageGroupID of the gun, NoGroup if there is no gun
    volumeOn           \* m_bActive of the no-portal volumes

gunVars == <<place, delayedFailure, delayedPosition, shot, placedBy, gunGroup, volumeOn>>
delayVars == <<delayedFailure, delayedPosition, shot, placedBy>>

\* "priority" stands for BAD_SURFACE and NEAR, "failed" for the other failures.
Failures == {"success", "failed", "priority"}

\* "due": its tick has come, and the portal has not run it yet.
ShotStates == {"none", "flying", "due"}

GunTypeOK ==
    /\ place \in [Portals -> Spots \cup {Closed}]
    /\ delayedFailure \in [Portals -> Failures]
    /\ delayedPosition \in [Portals -> Spots]
    /\ shot \in [Portals -> ShotStates]
    /\ placedBy \in [Portals -> Guns \cup {NoGun}]
    /\ gunGroup \in [Guns -> Groups \cup {NoGroup}]
    /\ volumeOn \in [Volumes -> BOOLEAN]

GunInit ==
    /\ place = [p \in Portals |-> Closed]
    /\ delayedFailure = [p \in Portals |-> "success"]
    /\ \E s \in Spots : delayedPosition = [p \in Portals |-> s]
    /\ shot = [p \in Portals |-> "none"]
    /\ placedBy = [p \in Portals |-> NoGun]
    /\ gunGroup \in [Guns -> Groups]
    /\ volumeOn = [v \in Volumes |-> FALSE]

Open(p) == place[p] # Closed

\* The portals a gun fires, one of each colour (m_hPrimaryPortal, m_hSecondaryPortal).
PortalsOf(g) == {p \in Portals : GroupOf[p] = gunGroup[g]}

ClosedOnes(ps) == [p \in Portals |-> IF p \in ps THEN Closed ELSE place[p]]

-----------------------------------------------------------------------------
(* Firing *)

Fourth(x) == (x * x) * (x * x)

\* Mutant: the ratio is to the largest bump distance, as the macro reads.
ScoreOfLargestBump(d) == 7 * Fourth(BumpSteps - d) >= 2 * Fourth(BumpSteps)

\* Whether the score of a portal that was bumped by d, squared and in
\* BumpSteps-ths of the largest value allowed, is at least 0.5.  The macro
\* MAXIMUM_BUMP_DISTANCE has no parentheses around its quotient by 2: the
\* score's division by it comes to a fourth of the ratio.
ScoreIsSuccess(d) == 7 * Fourth(4 * BumpSteps - d) >= 2 * Fourth(4 * BumpSteps)

\* The placement of p is scheduled, in place of one that is pending; a wall
\* that is near is reached within the tick.
Schedule(g, p, failure, position) ==
    /\ delayedFailure' = [delayedFailure EXCEPT ![p] = failure]
    /\ delayedPosition' = [delayedPosition EXCEPT ![p] = position]
    /\ \E when \in {"flying", "due"} : shot' = [shot EXCEPT ![p] = when]
    /\ placedBy' = [placedBy EXCEPT ![p] = g]

InVolume(s) == \E v \in Volumes : volumeOn[v] /\ s \in Core[v]

\* A shot at aim for which VerifyPortalPlacement finds the spot fit.  Below a
\* score of 0.5 PlacePortal knows no failure for it and leaves the last one.
FireFit(g, p) ==
    \E aim, fit \in Spots, d \in 0..BumpSteps :
        /\ fit \in Fits /\ ~InVolume(fit)
        /\ d = 0 => aim = fit
        /\ IF ScoreIsSuccess(d) THEN Schedule(g, p, "success", fit)
                                ELSE Schedule(g, p, delayedFailure[p], aim)

\* It hits nothing, a cleanser, a bad surface, a volume, or does not fit; or it
\* leaves the world through the open portal in front of the gun.
FireFailed(g, p) ==
    \E aim \in Spots, failure \in {"failed", "priority"} : Schedule(g, p, failure, aim)

\* Mutant: a closed portal is in the way too.
FireNearAny(g, p) ==
    /\ \E near \in Portals :
          delayedPosition' = [delayedPosition EXCEPT ![p] = place[near]]
    /\ delayedFailure' = [delayedFailure EXCEPT ![p] = "priority"]
    /\ UNCHANGED <<shot, placedBy>>

\* The same with an open portal on the shot's way: the effect is shown there,
\* and nothing is scheduled.
FireNear(g, p) ==
    /\ \E near \in Portals :
          /\ Open(near)
          /\ delayedPosition' = [delayedPosition EXCEPT ![p] = place[near]]
    /\ delayedFailure' = [delayedFailure EXCEPT ![p] = "priority"]
    /\ UNCHANGED <<shot, placedBy>>

\* An open portal of another group is on its way: its spot is the target.
FireSteal(g, p) ==
    \E hit \in Portals :
        /\ Open(hit) /\ GroupOf[hit] # gunGroup[g]
        /\ Schedule(g, p, "success", place[hit])

FirePortal(g, p) ==
    /\ p \in PortalsOf(g)
    /\ FireFit(g, p) \/ FireFailed(g, p) \/ FireNear(g, p) \/ FireSteal(g, p)
    /\ UNCHANGED <<place, gunGroup, volumeOn>>

-----------------------------------------------------------------------------
(* Landing: DelayedPlacementThink *)

\* The open portals of other groups where the shot comes down
\* (GetOverlappedPartnerPortal); bad surface and near take priority.
Partners(p) ==
    {q \in Portals :
        /\ delayedFailure[p] # "priority"
        /\ Open(q) /\ GroupOf[q] # GroupOf[p]
        /\ Overlap(place[q], delayedPosition[p])}

\* The group of the gun that has fired, in StealPortal.
ThiefGroup(p) == IF placedBy[p] = NoGun THEN DefaultGroup ELSE gunGroup[placedBy[p]]

\* Mutant: the portal whose spot is taken stays open.
StealQuietly(p) ==
    \E q \in Partners(p) :
        /\ delayedPosition' = [delayedPosition EXCEPT ![p] = place[q]]
        /\ delayedFailure' = [delayedFailure EXCEPT ![p] = "success"]
        /\ place' = [place EXCEPT ![p] = place[q]]

\* p takes the spot of the first of them, whatever its own failure was; that
\* one is fizzled unless it is of the group of the gun that has fired.
Steal(p) ==
    \E q \in Partners(p) :
        /\ delayedPosition' = [delayedPosition EXCEPT ![p] = place[q]]
        /\ delayedFailure' = [delayedFailure EXCEPT ![p] = "success"]
        /\ place' = [ClosedOnes(IF GroupOf[q] # ThiefGroup(p) THEN {q} ELSE {})
                        EXCEPT ![p] = place[q]]

\* Mutant: what happened since the shot was fired is not looked at.
StillFree(p) == TRUE

\* Nothing has made the spot invalid in mid-flight.
SpotIsFree(p) ==
    /\ \A q \in Portals \ {p} : Open(q) => ~Overlap(place[q], delayedPosition[p])
    /\ ~InVolume(delayedPosition[p])

PlaceOrFail(p) ==
    /\ Partners(p) = {}
    /\ LET fails == delayedFailure[p] # "priority" /\ ~SpotIsFree(p)
           failure == IF fails THEN "failed" ELSE delayedFailure[p]
       IN  /\ delayedFailure' = [delayedFailure EXCEPT ![p] = failure]
           /\ place' = IF failure = "success"
                       THEN [place EXCEPT ![p] = delayedPosition[p]] ELSE place
    /\ UNCHANGED delayedPosition

Land(p) ==
    /\ shot[p] = "due"
    /\ Steal(p) \/ PlaceOrFail(p)
    /\ shot' = [shot EXCEPT ![p] = "none"]
    /\ UNCHANGED <<placedBy, gunGroup, volumeOn>>

\* The next tick comes when the placements of this one have been carried out.
Tick ==
    /\ \A p \in Portals : shot[p] # "due"
    /\ \E ps \in SUBSET {p \in Portals : shot[p] = "flying"} :
          /\ ps # {}
          /\ shot' = [p \in Portals |-> IF p \in ps THEN "due" ELSE shot[p]]
    /\ UNCHANGED <<place, delayedFailure, delayedPosition, placedBy, gunGroup, volumeOn>>

-----------------------------------------------------------------------------
(* What closes portals, and what becomes of the guns *)

\* The surface behind it is gone, a moving brush meets it, an input of the map.
Fizzle(p) ==
    /\ Open(p)
    /\ place' = ClosedOnes({p})
    /\ UNCHANGED <<delayVars, gunGroup, volumeOn>>

\* FizzleOwnedPortals: both portals are closed and what is still in flight is
\* cancelled, by a comparison of its time with the time now.
FizzleOwned(g) ==
    /\ place' = ClosedOnes(PortalsOf(g))
    /\ shot' = [p \in Portals |-> IF p \in PortalsOf(g) /\ shot[p] = "flying"
                                  THEN "none" ELSE shot[p]]
    /\ UNCHANGED <<delayedFailure, delayedPosition, volumeOn>>

\* The player walks into a cleanser, or dies, or respawns.
Cleanse(g) ==
    /\ gunGroup[g] # NoGroup
    /\ FizzleOwned(g)
    /\ UNCHANGED <<placedBy, gunGroup>>

\* UpdateOnRemove of the gun; the handles to it become NULL.
RemoveGun(g) ==
    /\ GunsChange /\ gunGroup[g] # NoGroup
    /\ FizzleOwned(g)
    /\ placedBy' = [p \in Portals |-> IF placedBy[p] = g THEN NoGun ELSE placedBy[p]]
    /\ gunGroup' = [gunGroup EXCEPT ![g] = NoGroup]

\* OnPickedUp: the gun becomes that of its new owner's group; nothing is fizzled.
\* A new gun is given its group the same way (Spawn).
PickUp(g, group) ==
    /\ GunsChange
    /\ gunGroup' = [gunGroup EXCEPT ![g] = group]
    /\ UNCHANGED <<place, delayVars, volumeOn>>

\* InputActivate of a func_noportal_volume, and InputToggle of one that is off.
ActivateVolume(v) ==
    /\ volumeOn' = [volumeOn EXCEPT ![v] = TRUE]
    /\ place' = ClosedOnes({p \in Portals : place[p] \in Reach[v]})
    /\ UNCHANGED <<delayVars, gunGroup>>

DeactivateVolume(v) ==
    /\ volumeOn' = [volumeOn EXCEPT ![v] = FALSE]
    /\ UNCHANGED <<place, delayVars, gunGroup>>

-----------------------------------------------------------------------------

GunNext ==
    \/ \E g \in Guns, p \in Portals : FirePortal(g, p)
    \/ \E p \in Portals : Land(p) \/ Fizzle(p)
    \/ Tick
    \/ \E g \in Guns : Cleanse(g) \/ RemoveGun(g) \/ \E group \in Groups : PickUp(g, group)
    \/ \E v \in Volumes : ActivateVolume(v) \/ DeactivateVolume(v)

GunSpec == GunInit /\ [][GunNext]_gunVars

-----------------------------------------------------------------------------
(* Properties *)

\* No two open portals overlap: not the two of a gun, and not those of two
\* players either, since one steals the spot from the other.
NoOverlap ==
    \A p, q \in Portals : p # q /\ Open(p) /\ Open(q) => ~Overlap(place[p], place[q])

\* No portal is open inside a volume that forbids portals, whether it was
\* switched on before the shot, in mid-flight or afterwards.
NoneInVolume == \A p \in Portals : Open(p) => ~InVolume(place[p])

\* A portal stands only where a placement test has accepted one; a shot that
\* was refused never opens a portal where it came down, although the failure
\* a landing goes by may be that of an earlier shot.
StandsOnSurface == \A p \in Portals : Open(p) => place[p] \in Fits

\* Two portals come to overlap only when the gun of a shot in flight has got
\* another group, or is gone, before the shot lands on a portal of that group
\* (or of group 0).
OnlyForeignShotsOverlap ==
    [][ NoOverlap /\ ~NoOverlap' =>
            \E p \in Portals : Land(p) /\ ThiefGroup(p) # GroupOf[p] ]_gunVars

\* "Cancel portals that are still mid flight": once the player has walked into
\* a cleanser, no shot fired before opens a portal.
CleansedShotsAreCancelled ==
    [][ \A g \in Guns : Cleanse(g) => \A p \in PortalsOf(g) : shot'[p] = "none" ]_gunVars
=============================================================================
