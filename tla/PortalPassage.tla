--------------------------- MODULE PortalPassage ---------------------------
(***************************************************************************)
(* The portals with their simulators and the entities that go through      *)
(* them: the calls of PortalLinkage, each with what it does to the         *)
(* simulators, and the touch functions of CProp_Portal, which hand         *)
(* entities from one simulator to another.  Players are handled by the     *)
(* touch functions too (sv_portal_with_gamemovement is off by default).    *)
(***************************************************************************)
EXTENDS PortalLinkage, FiniteSetsExt

CONSTANTS Nowhere, Entities, Players, Props, Child, NoEntity, MaxClones,
          OpenUnplaced    \* whether a portal may be open that NewLocation has
                          \* never placed: by its keyvalue Activated, or by an
                          \* input SetActivatedState whose placement is refused

ASSUME EntitiesAssumption ==
    /\ Nowhere \notin Spots
    /\ Players \subseteq Entities
    /\ Props \subseteq Entities
    /\ NoEntity \notin Entities
    /\ Child \in [Entities -> Entities \cup {NoEntity}]
    /\ \A e \in Entities : Child[e] # NoEntity => Child[Child[e]] = NoEntity
    /\ MaxClones \in Nat
    /\ IsFiniteSet(Portals) /\ IsFiniteSet(Entities)
    /\ OpenUnplaced \in BOOLEAN

VARIABLES
    ptOrigin,   \* m_ptOrigin, m_qAbsAngle: set by NewLocation, not by Spawn
    sim         \* the simulators

INSTANCE PortalSimulator

passageVars == <<vars, ptOrigin, sim>>

PassageTypeOK ==
    /\ ptOrigin \in [Portals -> Spots \cup {Nowhere}]
    /\ sim \in Simulators

PassageInit ==
    /\ Init
    /\ ptOrigin = [p \in Portals |-> Nowhere]
    /\ sim = InitialSimulators

-----------------------------------------------------------------------------
(* What the calls of PortalLinkage do to the simulators *)

\* Mutant: a portal left alone keeps what it owns.
RelinkedKeeping(s, p, on, lk, after, origin) ==
    IF KeepsLink(p, on, lk)
    THEN AttachTo(MoveTo(s, p, origin[p]), p, lk[p])
    ELSE IF after[p] # NoPortal
    THEN LET q == after[p]
             theirs == AttachTo(MoveTo(s, q, origin[q]), q, p)
         IN  AttachTo(MoveTo(theirs, p, origin[p]), p, q)
    ELSE MoveTo(DetachFromLinked(s, p), p, origin[p])

\* UpdatePortalLinkage on the open portal p, given who was open and linked to
\* whom before it, and the links after it.  A new partner is moved and
\* attached by its own call, before p.
Relinked(s, p, on, lk, after, origin) ==
    IF KeepsLink(p, on, lk)
    THEN AttachTo(MoveTo(s, p, origin[p]), p, lk[p])
    ELSE IF after[p] # NoPortal
    THEN LET q == after[p]
             theirs == AttachTo(MoveTo(s, q, origin[q]), q, p)
         IN  AttachTo(MoveTo(theirs, p, origin[p]), p, q)
    ELSE MoveTo(ReleaseAllEntityOwnership(DetachFromLinked(s, p), p), p, origin[p])

\* Mutant: the entities in front of the closed portal are not released.
AbandonedKeeping(s, p, on, after) ==
    LET left == DetachFromLinked(s, p)
    IN  IF linked[p] = NoPortal THEN left
        ELSE Relinked(left, linked[p], on, [linked EXCEPT ![p] = NoPortal], after, ptOrigin)

\* The closed portal p lets go of everything, then its partner is called.
Abandoned(s, p, on, after) ==
    LET left == ReleaseAllEntityOwnership(DetachFromLinked(s, p), p)
    IN  IF linked[p] = NoPortal THEN left
        ELSE Relinked(left, linked[p], on, [linked EXCEPT ![p] = NoPortal], after, ptOrigin)

\* Mutant: the previous owner is not told.
AcquiredOutright(s, p, e) == TakeOwnershipOfEntity(s, p, e)

\* An entity that passed SharedEnvironmentCheck, which also lets p take over
\* what a simulator further away owns, becomes p's.
Acquired(s, p, e) ==
    TakeOwnershipOfEntity(
        IF s.owner[e] \in {NoPortal, p} THEN s
        ELSE ReleaseOwnershipOfEntity(s, s.owner[e], {e}),
        p, e)

-----------------------------------------------------------------------------
(* The calls of PortalLinkage *)

PassageSpawnFromMap(p, g, two, on, at) ==
    /\ on => OpenUnplaced
    /\ SpawnFromMap(p, g, two, on, at)
    /\ UNCHANGED <<ptOrigin, sim>>

PassageFindPortal(p, g, two) ==
    /\ FindPortal(p, g, two)
    /\ UNCHANGED <<ptOrigin, sim>>

\* A portal that is linked by now goes where it stands, and takes entities it
\* already touches.
PassageActivate(p) ==
    /\ Activate(p)
    /\ LET now == IF active[p] THEN Relinked(sim, p, active, linked, linked', ptOrigin)
                  ELSE Abandoned(sim, p, active, linked')
       IN  IF active[p] /\ linked'[p] # NoPortal
           THEN \E touched \in SUBSET Entities :
                   sim' = FoldSet(LAMBDA e, s : Acquired(s, p, e),
                                  MoveTo(now, p, spot[p]), touched)
           ELSE sim' = now
    /\ UNCHANGED ptOrigin

PassageFizzle(p) ==
    /\ Fizzle(p)
    /\ sim' = Abandoned(sim, p, active', linked')
    /\ UNCHANGED ptOrigin

\* Mutant: the linkage is brought up to date before the place is recorded.
RelocateLate(p, at) ==
    /\ ptOrigin' = [ptOrigin EXCEPT ![p] = at]
    /\ sim' = Relinked(ReleaseAllEntityOwnership(sim, p), p, active', linked, linked',
                       ptOrigin)

\* NewLocation releases everything before the portal moves.
Relocate(p, at) ==
    /\ ptOrigin' = [ptOrigin EXCEPT ![p] = at]
    /\ sim' = Relinked(ReleaseAllEntityOwnership(sim, p), p, active', linked, linked',
                       ptOrigin')

PassageNewLocation(p, at) == NewLocation(p, at) /\ Relocate(p, at)

PassageDeactivate(p) ==
    /\ Deactivate(p)
    /\ sim' = Abandoned(sim, p, active', linked')
    /\ UNCHANGED ptOrigin

PassageSetActivatedState(p) ==
    /\ SetActivatedState(p)
    /\ UNCHANGED <<ptOrigin, sim>>

PassageFizzleBlocking(p) ==
    /\ FizzleBlocking(p)
    /\ sim' = Abandoned(sim, p, active', linked')
    /\ UNCHANGED ptOrigin

PassagePlaceFixed ==
    /\ PlaceFixed
    /\ \/ /\ MovePortal(input.who, spot[input.who])
          /\ input'.left = Overlapping(input.who)
          /\ Relocate(input.who, spot[input.who])
       \/ /\ ptOrigin[input.who] = Nowhere => OpenUnplaced
          /\ UNCHANGED <<active, linkVars, matrix, ptOrigin, sim>>

PassageFinishActivation ==
    /\ FinishActivation
    /\ sim' = Relinked(sim, input.who, active, linked, linked', ptOrigin)
    /\ UNCHANGED ptOrigin

PassageUpdateOnRemove(p) ==
    /\ UpdateOnRemove(p)
    /\ sim' = IF linked[p] = NoPortal THEN ClearEverything(sim, p)
              ELSE Abandoned(ClearEverything(sim, p), p, active', linked')
    /\ UNCHANGED ptOrigin

PassageDestroy(p) ==
    /\ Destroy(p)
    /\ sim' = Destroyed(sim, p)
    /\ ptOrigin' = [ptOrigin EXCEPT ![p] = Nowhere]

-----------------------------------------------------------------------------
(* Entities.  They are of the classes that go through portals; a child that  *)
(* touches a portal is handled like any other entity.                        *)

\* Mutant: the destination takes the entity before this side has let it go.
TeleportedTakenFirst(s, p, e) ==
    ReleaseOwnershipOfEntity(TakeOwnershipOfEntity(s, linked[p], e), p, {e})

\* TeleportTouchingEntity: what is on the other side may at once touch the
\* other portal, which already owns it.
Teleported(s, p, e) ==
    TakeOwnershipOfEntity(ReleaseOwnershipOfEntity(s, p, {e}), linked[p], e)

\* The two outcomes of ShouldTeleportTouchingEntity, as far as p may teleport e.
PerhapsTeleported(s, p, e) ==
    {s} \cup (IF linked[p] # NoPortal /\ e \in s.owns[p]
              THEN {Teleported(s, p, e)} ELSE {})

StartTouch(p, e) ==
    /\ Settled
    /\ status[p] = "live" /\ IsActivedAndLinked(p)
    /\ sim' = Acquired(sim, p, e)
    /\ UNCHANGED <<vars, ptOrigin>>

\* An entity in front of an open passage is acquired, unless another portal
\* is nearer; one that p owns and that is past its plane is teleported.
Touch(p, e) ==
    /\ Settled
    /\ status[p] = "live" /\ IsActivedAndLinked(p)
    /\ \E now \in {sim, Acquired(sim, p, e)} : sim' \in PerhapsTeleported(now, p, e)
    /\ UNCHANGED <<vars, ptOrigin>>

\* Touch on a portal that leads nowhere ("I'd really like to fix the root
\* cause, but this will keep the game going").
TouchUnlinked(p, e) ==
    /\ Settled
    /\ status[p] = "live" /\ ~IsActivedAndLinked(p)
    /\ sim' = ReleaseOwnershipOfEntity(sim, p, {e})
    /\ UNCHANGED <<vars, ptOrigin>>

\* A player who ducks while falling out of a portal stays owned.
EndTouch(p, e) ==
    /\ Settled
    /\ Exists(p) /\ active[p]
    /\ sim' \in (PerhapsTeleported(sim, p, e) \ {sim})
                  \cup {ReleaseOwnershipOfEntity(sim, p, {e})}
                  \cup (IF e \in Players THEN {sim} ELSE {})
    /\ UNCHANGED <<vars, ptOrigin>>

\* What CreateShadowClone looks at in an entity changes: a player flies through
\* walls, a prop is made non-solid, a physics object is destroyed or made.  No
\* simulator is told.
ChangeSolidity ==
    /\ Settled
    /\ \E es \in Accepted : sim' = [sim EXCEPT !.cloneable = es]
    /\ UNCHANGED <<vars, ptOrigin>>

\* UTIL_Remove of an entity, whose index becomes free for another one once the
\* delete list is run.  An entity on that list touches nothing, so that no
\* simulator acquires it again and the listener OnEntityDeleted finds nothing
\* left to release: the two are one step.
RemoveEntity(e) ==
    /\ Settled
    /\ sim' = PreUtilRemove(sim, e)
    /\ UNCHANGED <<vars, ptOrigin>>

-----------------------------------------------------------------------------

PassageNext ==
    \/ \E p \in Portals, g \in Groups, two \in BOOLEAN :
          \/ PassageFindPortal(p, g, two)
          \/ \E on \in BOOLEAN, at \in Spots : PassageSpawnFromMap(p, g, two, on, at)
    \/ \E p \in Portals :
          \/ PassageActivate(p)
          \/ PassageFizzle(p)
          \/ \E at \in Spots : PassageNewLocation(p, at)
          \/ PassageDeactivate(p)
          \/ PassageSetActivatedState(p)
          \/ PassageFizzleBlocking(p)
          \/ PassageUpdateOnRemove(p)
          \/ PassageDestroy(p)
    \/ PassagePlaceFixed
    \/ PassageFinishActivation
    \/ \E p \in Portals, e \in Entities :
          \/ StartTouch(p, e)
          \/ Touch(p, e)
          \/ TouchUnlinked(p, e)
          \/ EndTouch(p, e)
    \/ \E e \in Entities : RemoveEntity(e)
    \/ ChangeSolidity

PassageSpec == PassageInit /\ [][PassageNext]_passageVars

-----------------------------------------------------------------------------
(* Properties *)

\* An entity is owned by at most one simulator, and the table of owners knows
\* which ("More than one portal simulator found owning the same entity",
\* "Owned entity mapping out of sync with individual simulator ownership flags").
OneOwner ==
    \A p \in Portals, e \in Entities : e \in sim.owns[p] <=> sim.owner[e] = p

\* The simulators' own attachment, built up by detaching and attaching one
\* side after the other, is the one the linkage works with.
AttachmentAgrees == sim.link = attached

\* A simulator holds exactly one clone of each prop its partner owns, one or
\* none of any other entity it owns, according to what the entity was like when
\* it was asked for, and no other clone; whatever order the two were placed,
\* attached and handed entities in.
ClonesMirror ==
    \A p \in Portals, e \in Entities :
        LET q == sim.link[p]
        IN  sim.clones[p][e] \in
                IF ~(q # NoPortal /\ sim.remote[p] /\ e \in sim.owns[q]) THEN {0}
                ELSE IF e \in Props THEN {1}
                ELSE {0, 1}

\* At the limit of clones, and for what is not cloned, some are missing; but
\* none is there for an entity the partner does not own, and none twice.
NoStrayClone ==
    \A p \in Portals, e \in Entities :
        sim.clones[p][e] > 0 =>
            /\ sim.clones[p][e] = 1
            /\ sim.link[p] # NoPortal
            /\ e \in sim.owns[sim.link[p]]

\* The counter behind the limit counts the clones there are.
CountAgrees ==
    sim.count = SumFunction([p \in Portals |-> SumFunction(sim.clones[p])])

\* A player's portal environment is the portal whose simulator owns them;
\* PostPhysFrame warns and releases the player when the two differ.
EnvironmentIsOwner ==
    \A e \in Players : sim.holder[e] = sim.owner[e]

\* Only an open portal owns anything.
OwnersAreOpen == \A p \in Portals : sim.owns[p] # {} => active[p]

\* The simulator of an open passage is where the portal is, provided the
\* portal was ever told where it is: Spawn leaves m_ptOrigin unset.
SimulatorInPlace ==
    \A p \in Portals : IsActivedAndLinked(p) /\ ptOrigin[p] # Nowhere =>
        sim.ready[p] /\ sim.place[p] = spot[p]

\* A portal that has lost its passage owns nothing: the assertion in Touch.
UnlinkedOwnsNothing == \A p \in Portals : linked[p] = NoPortal => sim.owns[p] = {}

\* What Touch's workaround is there for is only ever left behind by the
\* destruction of the partner.
OnlyDestructionLeavesOwned ==
    [][ UnlinkedOwnsNothing /\ ~UnlinkedOwnsNothing' =>
            \E p \in Portals : Destroy(p) /\ linked[p] # NoPortal ]_passageVars

\* A simulator is told where it is before it owns anything (the assertion in
\* TakeOwnershipOfEntity).
PlacedBeforeUse == \A p \in Portals : sim.owns[p] # {} => sim.ready[p]
=============================================================================
