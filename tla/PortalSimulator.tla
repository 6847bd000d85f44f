-------------------------- MODULE PortalSimulator --------------------------
(***************************************************************************)
(* The physics side of the portals: CPortalSimulator                       *)
(* (game/shared/portal/PortalSimulation.cpp).  A simulator owns the        *)
(* entities that are in front of its portal, and while it is attached to   *)
(* another simulator it keeps a physics clone of each entity that one      *)
(* owns, as far as there is room and the entity is one that can be cloned. *)
(*                                                                         *)
(* The simulators of all portals, with the static tables they share, are   *)
(* one record s; each function of the class is an operator from the record *)
(* before the call to the record after it.  A function that calls itself   *)
(* on the attached simulator (m_bInCrossLinkedFunction stops the echo) is  *)
(* written as its half, done on one side and then on the other.            *)
(***************************************************************************)
EXTENDS Naturals, FiniteSets, Functions

CONSTANTS Portals, NoPortal,
          Spots,          \* places a portal can be at
          Nowhere,        \* the zeroed placement of a new simulator
          Entities,       \* entities a simulator may own
          Players,        \* those that are players
          Props,          \* those that CreateShadowClone never refuses for
                          \* what they are; {} is also a server that has
                          \* switched sv_use_shadow_clones off
          Child, NoEntity,\* Child[e]: the entity parented to e, or NoEntity
          MaxClones       \* MAX_SHADOW_CLONE_COUNT

NoClones == [e \in Entities |-> 0]

\* The sets of entities that pass CreateShadowClone's tests of the entity at
\* some moment: it has a physics object that is not static, and is solid, no
\* brush, no trigger and no static prop.
Accepted == {es \in SUBSET Entities : Props \subseteq es}

Simulators ==
    [link : [Portals -> Portals \cup {NoPortal}],     \* m_pLinkedPortal
     ready : [Portals -> BOOLEAN],                    \* m_bLocalDataIsReady
     place : [Portals -> Spots \cup {Nowhere}],       \* Placement.ptCenter, qAngles
     env : [Portals -> BOOLEAN],                      \* pPhysicsEnvironment # NULL
     local : [Portals -> BOOLEAN],                    \* bLocalPhysicsGenerated
     remote : [Portals -> BOOLEAN],                   \* bLinkedPhysicsGenerated
     owns : [Portals -> SUBSET Entities],             \* PSEF_OWNS_ENTITY, OwnedEntities
     physics : [Portals -> SUBSET Entities],          \* PSEF_OWNS_PHYSICS
     clones : [Portals -> [Entities -> 0..MaxClones]],\* FromLinkedPortal, by original
     count : 0..MaxClones,                            \* g_iShadowCloneCount
     cloneable : Accepted,                            \* those that pass now
     owner : [Entities -> Portals \cup {NoPortal}],   \* s_OwnedEntityMap
     holder : [Entities -> Portals \cup {NoPortal}]]  \* a player's m_hPortalEnvironment

InitialSimulators ==
    [link |-> [p \in Portals |-> NoPortal],
     ready |-> [p \in Portals |-> FALSE],
     place |-> [p \in Portals |-> Nowhere],
     env |-> [p \in Portals |-> FALSE],
     local |-> [p \in Portals |-> FALSE],
     remote |-> [p \in Portals |-> FALSE],
     owns |-> [p \in Portals |-> {}],
     physics |-> [p \in Portals |-> {}],
     clones |-> [p \in Portals |-> NoClones],
     count |-> 0,
     cloneable |-> Entities,
     owner |-> [e \in Entities |-> NoPortal],
     holder |-> [e \in Entities |-> NoPortal]]

-----------------------------------------------------------------------------
(* Shadow clones *)

\* Mutant: nobody asks how many clones there are.
AddClonesUnlimited(s, p, es) ==
    LET able == es \cap s.cloneable
    IN  [s EXCEPT !.clones[p] = [e \in Entities |-> IF e \in able THEN @[e] + 1 ELSE @[e]],
                  !.count = @ + Cardinality(able)]

\* CreateShadowClone of each of es.  It returns NULL for an entity that is not
\* to be cloned, and then, without looking at the entity, at the limit; which
\* of the entities are left without a clone by the limit is not told apart.
\* Nobody is told of a NULL, and nobody asks again until all is built anew.
AddClones(s, p, es) ==
    LET able == es \cap s.cloneable
        made == IF s.count + Cardinality(able) <= MaxClones THEN able
                ELSE CHOOSE some \in SUBSET able : s.count + Cardinality(some) = MaxClones
    IN  [s EXCEPT !.clones[p] = [e \in Entities |-> IF e \in made THEN @[e] + 1 ELSE @[e]],
                  !.count = @ + Cardinality(made)]

\* One clone of each of es that has one in p is freed.
FreeClonesOf(s, p, es) ==
    LET gone == {e \in es : s.clones[p][e] > 0}
    IN  [s EXCEPT !.clones[p] = [e \in Entities |-> IF e \in gone THEN @[e] - 1 ELSE @[e]],
                  !.count = @ - Cardinality(gone)]

\* Mutant: the clones go, the counter stays.
ClearWithoutCounting(s, p) == [s EXCEPT !.clones[p] = NoClones]

\* All clones p has from the simulator it is attached to are freed.
ClearLinkedEntities(s, p) ==
    [s EXCEPT !.clones[p] = NoClones, !.count = @ - SumFunction(s.clones[p])]

\* TakePhysicsOwnership of each of es: p simulates it, and it is cloned into
\* the simulator p is attached to.
TakePhysicsOwnership(s, p, es) ==
    LET new == IF s.env[p] THEN es \ s.physics[p] ELSE {}
        taken == [s EXCEPT !.physics[p] = @ \cup new]
    IN  IF s.link[p] # NoPortal /\ s.env[s.link[p]]
        THEN AddClones(taken, s.link[p], new)
        ELSE taken

\* Mutant: the exported clone is forgotten.
ReleasePhysicsKeepingClones(s, p, es) ==
    [s EXCEPT !.physics[p] = IF s.env[p] THEN @ \ es ELSE @]

ReleasePhysicsOwnership(s, p, es) ==
    LET lost == IF s.env[p] THEN es \cap s.physics[p] ELSE {}
        released == [s EXCEPT !.physics[p] = @ \ lost]
    IN  IF s.link[p] # NoPortal THEN FreeClonesOf(released, s.link[p], lost) ELSE released

-----------------------------------------------------------------------------
(* Ownership of entities *)

Family(es) == es \cup {Child[e] : e \in {x \in es : Child[x] # NoEntity}}

\* MarkAsOwned and the callback TookOwnershipOfEntity, for one entity.
MarkAsOwned(s, p, e) ==
    [s EXCEPT !.owns[p] = @ \cup {e}, !.owner[e] = p,
              !.holder[e] = IF e \in Players THEN p ELSE @]

\* MarkAsReleased and the callback ReleasedOwnershipOfEntity: a player's
\* handle is cleared only if it is to p.
MarkAsReleased(s, p, es) ==
    [s EXCEPT !.owns[p] = @ \ es,
              !.owner = [e \in Entities |-> IF e \in es THEN NoPortal ELSE @[e]],
              !.holder = [e \in Entities |-> IF e \in es /\ @[e] = p THEN NoPortal ELSE @[e]]]

\* ReleaseOwnershipOfEntity of each of es: those p owns, with their children
\* as far as p owns them.
ReleaseOwnershipOfEntity(s, p, es) ==
    LET lost == Family(es \cap s.owns[p]) \cap s.owns[p]
    IN  MarkAsReleased(ReleasePhysicsOwnership(s, p, lost), p, lost)

ReleaseAllEntityOwnership(s, p) == ReleaseOwnershipOfEntity(s, p, s.owns[p])

\* TakeOwnershipOfEntity: the caller has made sure that no other simulator
\* owns e; a child of e is taken from whoever owns it.
TakeOwnershipOfEntity(s, p, e) ==
    LET take(r, x) == TakePhysicsOwnership(MarkAsOwned(r, p, x), p, {x})
        mine == take(s, e)
        c == Child[e]
    IN  IF e \in s.owns[p] THEN s
        ELSE IF c = NoEntity \/ mine.owner[c] = p THEN mine
        ELSE IF mine.owner[c] = NoPortal THEN take(mine, c)
        ELSE take(ReleaseOwnershipOfEntity(mine, mine.owner[c], {c}), c)

\* Pre_UTIL_Remove: the entity leaves its owner, and its flags are cleared in
\* every simulator, since its index will be used again.
PreUtilRemove(s, e) ==
    LET p == s.owner[e]
        left == IF p = NoPortal THEN s
                ELSE ReleaseOwnershipOfEntity(ReleasePhysicsOwnership(s, p, {e}), p, {e})
    IN  [left EXCEPT !.owns = [r \in Portals |-> @[r] \ {e}],
                     !.physics = [r \in Portals |-> @[r] \ {e}]]

-----------------------------------------------------------------------------
(* Placement and attachment *)

ClearLinkedPhysicsHalf(s, p) ==
    IF s.remote[p] /\ s.env[p]
    THEN [ClearLinkedEntities(s, p) EXCEPT !.remote[p] = FALSE]
    ELSE s

ClearLinkedPhysics(s, p) ==
    IF s.remote[p] /\ s.env[p] /\ s.link[p] # NoPortal
    THEN ClearLinkedPhysicsHalf(ClearLinkedPhysicsHalf(s, p), s.link[p])
    ELSE ClearLinkedPhysicsHalf(s, p)

\* What p owns goes back to the main environment, and its clones with it.
ClearLocalPhysics(s, p) ==
    IF s.local[p] /\ s.env[p]
    THEN [ReleasePhysicsOwnership(ClearLinkedEntities(s, p), p, s.owns[p])
            EXCEPT !.local[p] = FALSE]
    ELSE s

CreateLocalPhysics(s, p) ==
    IF s.local[p] THEN s
    ELSE [TakePhysicsOwnership(s, p, s.owns[p]) EXCEPT !.local[p] = TRUE]

CreateLinkedPhysicsHalf(s, p) ==
    LET q == s.link[p]
    IN  IF q = NoPortal \/ s.remote[p] THEN s
        ELSE IF ~s.ready[q] THEN s
        ELSE AddClones([s EXCEPT !.env[p] = TRUE, !.remote[p] = TRUE], p,
                       {e \in s.owns[q] : s.clones[p][e] = 0})

CreateLinkedPhysics(s, p) ==
    LET here == CreateLinkedPhysicsHalf(s, p)
    IN  IF here = s THEN s ELSE CreateLinkedPhysicsHalf(here, s.link[p])

CreateAllPhysics(s, p) ==
    CreateLinkedPhysics(CreateLocalPhysics([s EXCEPT !.env[p] = TRUE], p), p)

\* MoveTo: nothing happens when the simulator is there already.
MoveTo(s, p, at) ==
    IF s.place[p] = at THEN s
    ELSE CreateAllPhysics([ClearLocalPhysics(ClearLinkedPhysics(s, p), p)
                             EXCEPT !.place[p] = at, !.ready[p] = TRUE], p)

\* Mutant: the other simulator keeps its clones.
DetachKeepingClones(s, p) ==
    IF s.link[p] = NoPortal THEN s
    ELSE [ClearLinkedEntities(s, p) EXCEPT !.link[p] = NoPortal, !.link[s.link[p]] = NoPortal,
                                           !.remote[p] = FALSE, !.remote[s.link[p]] = FALSE]

DetachFromLinked(s, p) ==
    LET half(r, x) == ClearLinkedPhysics(ClearLinkedEntities(r, x), x)
        q == s.link[p]
    IN  IF q = NoPortal THEN s
        ELSE [half(half(s, p), q) EXCEPT !.link[p] = NoPortal, !.link[q] = NoPortal]

AttachTo(s, p, q) ==
    LET tied == [DetachFromLinked(s, p) EXCEPT !.link[p] = q, !.link[q] = p]
    IN  IF s.link[p] = q THEN s
        ELSE IF s.ready[p] /\ s.ready[q] THEN CreateLinkedPhysics(tied, p) ELSE tied

ClearEverything(s, p) ==
    ReleaseAllEntityOwnership(
        [ClearLocalPhysics(ClearLinkedPhysics(s, p), p) EXCEPT !.env[p] = FALSE], p)

\* Mutant: the simulator is destroyed without detaching it.
DestroyedAttached(s, p) == ClearEverything(s, p)

\* The destructor, and the simulator the next portal in the slot will have.
Destroyed(s, p) ==
    [ClearEverything(DetachFromLinked(s, p), p) EXCEPT
        !.place[p] = Nowhere, !.ready[p] = FALSE, !.local[p] = FALSE,
        !.remote[p] = FALSE, !.physics[p] = {},
        !.holder = [e \in Entities |-> IF @[e] = p THEN NoPortal ELSE @[e]]]
=============================================================================
