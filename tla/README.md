# Formal models of the portals of Portal Cooperative

The repository is a modification of the Source SDK: a cooperative Portal. Its
own core is the *portals*: pairs of openings, one pair per player, which find
their partner, carry entities through, and are placed by the shots of the
players' portal guns. This directory models that core of the server in TLA+,
checks it with TLC and proves its main properties with TLAPS. Paths below are
relative to `src/src/game`.

## The system

The server is single-threaded. A tick runs the players, the thinks of the other
entities, the physics simulation with its touches, and the queued inputs of the
map. What makes the code hard is reentrancy (a portal's call calls its partner,
whose call may join it to a third portal), entities that are removed now and
destroyed later, two classes (`CProp_Portal` and `CPortalSimulator`) that keep
the same relation twice, and shots whose effect comes after the state they were
decided on has changed.

| component | state | operations | interacts with | status |
|---|---|---|---|---|
| Portal linkage, `server/portal/prop_portal.cpp` | open or closed, partner, colour, group list, teleport matrix | Spawn, Activate, NewLocation, Fizzle, SetActivatedState, UpdateOnRemove, destructor, restore | simulators; guns and the map call it | modelled: `PortalLinkage` |
| Portal simulators, `shared/portal/PortalSimulation.cpp`, `physicsshadowclone.cpp` | placement, attachment, owned entities, shadow clones | MoveTo, AttachTo, DetachFromLinked, Take/ReleaseOwnershipOfEntity, Pre_UTIL_Remove | called by portals; call back on ownership | modelled: `PortalSimulator`, `PortalPassage` |
| Touching and teleporting, `prop_portal.cpp`, `shared/portal/prop_portal_shared.cpp` | who owns what; a player's portal environment | StartTouch, Touch, EndTouch, TeleportTouchingEntity | simulators of both ends | modelled: `PortalPassage` |
| Portal gun and placement, `weapon_portalgun*.cpp`, `portal_placement.cpp`, `trigger_portal_cleanser.cpp`, `func_noportal_volume.cpp` | pending placement of each portal, the gun's group, active volumes | FirePortal, DelayedPlacementThink, StealPortal, FizzleOwnedPortals, OnPickedUp, volume inputs | portals | modelled: `PortalGun` |
| Energy balls and launchers, `server/portal/prop_energy_ball.cpp`, `server/hl2/prop_combine_ball.cpp` | timers of each ball, the launcher's list of respawn times | launch, teleport, hit, explode, fade, kill, respawn, enable, disable | portals (teleports), the map's inputs | modelled: `EnergyBall` |
| Liquid portals, `server/portal/func_liquidportal.cpp` | link, matrix, fill, list of entities, those left to teleport | Spawn, Activate, all inputs, Think, Save, Restore | players, the map's triggers | modelled: `LiquidPortal` |
| Floor turret, `server/portal/npc_portal_turret_floor.cpp`, `server/hl2/npc_turret_floor.cpp` | the think function, whether a think is due, enabled, active, alive, blowing up, carried, tipped | the think functions, PreThink, all inputs, pickup, drop, damage | players, the map's inputs | modelled in part: `FloorTurret` |
| Portal detector, `func_portal_detector.cpp` | open portals in a box | notifications | portals | planned |
| Other turrets, camera, cooperative rules, players, GLaDOS, radio, rendering, gravity gun, engine | | | | not modelled, see the end |

What makes each modelled component correct:

* **Linkage.** Links are a symmetric matching of open portals within a group,
  in two colours; each simulator is attached as its portal is linked; the matrix
  of a linked portal is current; a passage whose ends stay open is never broken;
  no call, and no Activate of a load, leaves two portals of a group waiting for
  each other.
* **Simulators and touching.** An entity has at most one owner, the table of
  owners agrees, each owned entity has one clone across the passage, unless it
  was refused one, and there are no other clones, a closed portal owns nothing.
* **Gun.** A portal stands only where a placement test accepted one, never in an
  active no-portal volume, never on top of another one.
* **Energy balls.** A lost ball is launched again, exactly once, whichever way it
  was lost; a launcher that stays on always has a ball again.
* **Liquid portals.** Links are mutual and the matrix is that of the link; a fill
  sends every listed entity, once, and none that was taken off the list; it ends.
* **Floor turret.** One that is off, dead or about to blow up stays so; one that
  is on has a think; one that is left alone comes to rest.

## The modules

### `PortalPairing`, the abstract specification

Some portals are open, and open portals are joined two by two. A step opens or
closes at most one portal and makes at most one pair, and never breaks a pair
whose two ends stay open. Nothing is said of groups, colours, lists or handles.

### `PortalLinkage`

`CProp_Portal` as far as it finds, keeps and loses its partner. The variables
are the members of the class, named after them (`linked` is `m_hLinkedPortal`,
`active` is `m_bActivated`, `members` the lists `s_PortalLinkageGroups`,
`attached` the simulator's `m_pLinkedPortal`, `matrix` the pair of places
`m_matrixThisToLinked` leads from and to). `UpdatePortalLinkage(p, on, lk, att)`
is the function of that name, given the state in which its caller has left
`m_bActivated`, the links and the attachments; its disjuncts are its ways out:
the link is renewed, the first waiting portal of the group is taken, or `p`
stays alone. Its recursive call on the partner is part of the same operator,
which is why it takes the intermediate state as arguments.

One action is one call from the game loop. The exception is the input
`SetActivatedState`, which fizzles an open number of portals on its way: it is
cut into `SetActivatedState`, `FizzleBlocking`, `PlaceFixed`, `FinishActivation`,
and while `input # Idle` no other action is enabled. Removal is in two steps as
in the engine: `UpdateOnRemove`, then `Destroy` when the delete list is run. In
between the portal is still in its group's list and may be chosen as a partner.
`FindPortal` and the guns can hold portals that are removed but not destroyed;
`Fizzle` is therefore allowed on any portal that exists.

`Restore` saves the game between two frames and loads the save. The data
description of `CProp_Portal` keeps the link, the matrix, the colour, the group
and whether the portal is open; `s_PortalLinkageGroups` and `m_PortalSimulator`
are not in it. The portals are then `Unloaded` until each has run `Activate`,
which enters it in its list and attaches its simulator. No call of the game loop
comes in between but `FindPortal`: a gun calls it from its own `Activate`
(`weapon_portalgun.cpp:130`), and if the gun comes first in the entity list it
finds no portals of its group, makes two closed ones and keeps handles to those.
The links are not harmed, but the group has two portals of a colour, and until
the gun is deployed again, when `FindPortal` prefers the open ones, it fires the
new ones. A save is loaded at once; the steps between a save and a later load
would be undone by it.

### `PortalSimulator` and `PortalPassage`

`PortalSimulator` has no variables: the simulators of all portals with the
tables they share are one record, and each function of `CPortalSimulator` is an
operator from record to record. `PortalPassage` extends `PortalLinkage`: each
action conjoins that of the linkage with what the same call does to the
simulators, in the order of the code (`Relinked` for an open portal, `Abandoned`
for a closed one), and adds the touch functions. Whether an entity is in front
of the plane, nearer to another portal or past the plane is geometry, so both
outcomes are possible wherever the code asks. Players take the same path as
other entities, which is the case while `sv_portal_with_gamemovement` is off,
its default. `PostPhysFrame`, which releases a player whose environment is not
the owner, never acts where `EnvironmentIsOwner` holds.

`CreateShadowClone` refuses an entity for what it is at that moment: without a
physics object or with a static one, a brush, a trigger, not solid, marked for
deletion. `cloneable` is who would pass now; `ChangeSolidity` changes it at any time
between two calls (a player starts to fly through walls, a prop is made
non-solid) and tells no simulator, as in the code: a clone that is there stays
until it is released, one that was refused is asked for again only when the
physics of the passage are built anew. `Props` are the entities that always pass,
so that the models can say that *their* clones are never missing; `Props = {}` is
also a server with `sv_use_shadow_clones` off. An entity marked for deletion is
not in the way: `UTIL_Remove` takes it from its owner, and from then on it touches
nothing, so `RemoveEntity` is one step and stands for its destruction too.

In the code `TeleportTouchingEntity` is queued while touches are being called,
and run when the outermost scope ends. A scope spans the touches of one entity
or of one portal, so the model carries the teleport out in the touch.

### `PortalGun`

A shot decides the place of its portal when it is fired, and schedules the think
that carries it out. In between other shots land, volumes are switched on,
cleansers are walked into and guns change hands. `place`, `delayedFailure`,
`delayedPosition` and `placedBy` are the members of `CProp_Portal`, `gunGroup`
the gun's `m_iPortalLinkageGroupID`; `shot` is the context think, `due` from the
start of the tick in which it runs.

The geometry is in constants: spots where a portal fits, spots that overlap,
spots a volume's placement test rejects (`Core`) and spots its activation
fizzles (`Reach`, larger: the test shrinks the box). The bump distance is an
integer number of `BumpSteps`-ths of the largest one, and `ScoreIsSuccess`
computes the score of `VerifyPortalPlacement` in integers, with the macro
`MAXIMUM_BUMP_DISTANCE` as it expands: it has no parentheses around its
quotient, so the score of a bumped portal never falls below the threshold.

Simplifications: one portal of each colour per group (creation is in
`PortalLinkage`), both colours can be fired, a gun can be picked up at any time
by an owner of any group, `sv_portal_placement_never_fail` is off, the failures
are `success`, `priority` (bad surface and near, which are not looked at again
on landing) and `failed`.

### `EnergyBall`

A launcher and its balls. Each ball is a record of its two context thinks
(`life` is `ExplodeTimerContext`, `remove` is `RemoveContext`) and the states
that guards ask for; `waits` is `m_BallRespawnTime`. Times are relative: `life`
and `remove` are what is left, and so are the entries of `waits`, which stand
still while the launcher is off; that is what the code's subtraction of `curtime`
when it is switched off, and addition when it is switched on, amount to. `off`
is what the code takes off a time that is entered in between. `Tick` is the only
action that lets time pass, and waits until no think is due and the delete list
is empty. Where a ball flies, whether it meets a portal or a player, and what the
map sends to it are left open. `CPropEnergyBall::Think` changes nothing here, and
since it replaces the base class's it is also why the model has no `DieThink`.

### `LiquidPortal`

The variables are the members of the class. `SetLinkedLiquidPortal` calls itself on
the former partner and on the new one, which call back. `Relinked` is its body with
the call as an operator argument, and the calls are written out to the depth they
have: the second within the first, the third within that, and a fourth that must
find nothing to do (`FourthCall`; if it had something to do, what the model goes on
with would have no value, and TLC would stop). A fill is counted in the thinks it has left
(`remaining`); the surface rises by time, and what it covers at a think is any
set of entities. `FastRemove` and the downward loop of `Think` are modelled on
sequences, since the order in which the loop and the removal go decides whether
an entry is passed over. `sent` is a history variable: what a fill has sent since
it started, less what has been listed anew. A save followed by a restore is one
step, `SaveAndRestore`: the lists and handles are kept, and `Activate` measures
the links again and tells players that are left to teleport where they are.

The portals are those of the map, made before any is spawned. A portal that is
spawned after its partner and has no keyvalue `InitialLinkedPortal` undoes the
link that its partner has made (`Spawn` with `NoLiquid`): the map has to give the
keyvalue to both or to the later one. Entries of the lists whose entity is gone
stay there and are passed over, and a second `StartFilling` only fails an
assertion and starts anew; the properties hold through both.

### `FloorTurret`

A turret is a state machine whose state is the function it gave to `SetThink`
(`think`). A think is called once when it is due and has to ask for the next, so
`scheduled` says whether one is; inputs, players and physics change the function
and the flags between two calls. `Tips` and `TipOver` are `PreThink`; the thinks
that begin with it have `Runs` as their guard, and `Interrupted` is what becomes of
them when it returns true. What the turret sees (`seen`), how it lies (`onSide`)
and whether a barrel or an animation has come to its end (`settled`; `TippedThink`
asks for ground, barrel and animation each on its own) are open, and
so is when a time limit passes, except that it passes after at most `Wait` thinks
(`patience`, `thrash`, `countdown`). `held` stands for `m_bCarriedByPlayer` and
the physics flag of carried objects, which pickup and drop set together.

What the model shows besides its properties: `ReturnToLife` enables a turret that
was switched off while it thrashed; `Disable` given twice skips the retiring and
leaves the turret noted as active; `SuppressThink` goes on when its enemy is there
and to the active think when it is not, the inverse of its comment;
`DepleteAmmo`, dry shots apart, only changes what happens when the turret tips over, where an
`InactiveThink` without a next think is the result; a turret that starts off
keeps its autostart; a self-destruction that was interrupted leaves
`m_bSelfDestructing` set, so the turret can never be enabled or disabled again.
None of these contradicts a statement of the repository, so they are no findings.

## The runs

Players and maps drive the models and need never do anything, so the safety runs
assume no fairness. `Deadlock` is not checked for the same reason: a server where
nothing happens is fine. Fairness is stated where something must happen:

* `EnergyBall`: due thinks are run and the delete list is emptied (weak fairness),
  and time passes (strong fairness, because a ball can become due again and again;
  each frame still ends). The engine's loop does this in every frame. Teleports,
  hits and inputs are not fair.
* `LiquidPortal`: a scheduled think is run (weak fairness). Inputs are not fair;
  `FillEnds` is about fills that are not started again and again.
* `FloorTurret`: for each activity, if the turret thinks again and again in it, some
  such think finds the barrel at its goal and the animation at its end (strong
  fairness: an interrupted animation is none that ends). The barrel turns at a
  fixed rate to a goal that a retiring or thrashed turret does not move, and
  sequences have a fixed length. Inputs, players and physics are not fair;
  `ComesToRest` is about turrets that are left alone and see nobody.

| run | instance | shows |
|---|---|---|
| `linkage` | 3 portals, 2 groups, 2 places | all invariants of the linkage, through saves and loads too, `PassageKept`, `OnlyDestructionStrands`, and that it implements `PortalPairing` |
| `passage` | 3 portals, 1 place, a player, a box with a lid, `MaxClones = 1`, nobody else refused | one owner, attachments agree, closed portals own nothing, the counter of clones is exact and no clone is stray when some are refused |
| `passage_moves` | 2 portals, 2 places, player, box, lid parented to the box; player and lid can become ones that are not cloned, and back | moving rebuilds both sides; clones mirror the owners, once each, whatever was refused meanwhile; families split and joined |
| `gun` | 2 portals of different groups, 1 gun, 3 spots, 1 volume | where portals stand; overlaps only by foreign shots |
| `energy` | a launcher with one ball that expires, 2 inputs | balls are neither lost nor doubled; the launcher's ball comes back; a ball that fades is gone at last |
| `liquid` | 2 liquid portals, a player and a box, `MaxFill = 1` | links mutual, everybody sent once, through the link there is; fills end |
| `turret` | one turret, `Wait = 1` | what rouses, interrupts and hangs a turret; left alone it comes to rest |
| `passage_assert`, `passage_unplaced`, `gun_foreign`, `gun_cleanser`, `energy_fade` | | the five findings below |

Why the bounds are enough: a call of the linkage involves the portal, its old
partner and one new partner, so three portals exercise every branch, two groups
the scan's filter, two places a stale matrix or placement. The proofs lift this
to any number. Two liquid portals can be linked to each other and each
to itself; that links with further portals are undone right is proved. Ownership is per entity, and entities interact only by the clone
counter and parentage: two entities and one family suffice. A wall of three
spots in a row is the smallest where a shot overlaps two portals at once. The
bounds are the sets of the configurations, `MaxClones`, `BumpSteps` and, for the
launcher, `MaxInputs` (two inputs are enough to lose a ball twice, or to lose one
and launch another) and `MaxOff` (longer times off are not told apart; only the
length of a wait depends on it). Its durations are in thinks of the launcher and
in the order of the real ones where the order matters: a ball can be removed
before or after the rest of its life, and be launched while another still
waits for its removal. A fill of one think before its last has a covering and an
ending; two entities in a list are the fewest that a removal can exchange, and
longer lists only repeat it. A turret's limits are upper bounds, so `Wait = 1`
already has the two cases of every comparison, and a second think would only
repeat the first. The one gun of `gun` fires portals of both groups, as it changes
hands; what several guns do to each other is proved, for any number. Nothing else
is capped, all state spaces are finite. Symmetry is used only over portals, groups
and places that no action or property tells apart.

### Findings

1. `passage_assert`: the assertion at the top of `Touch`, with the comment "I'd
   really like to fix the root cause". A portal that is removed while open and
   waiting stays open and listed until it is destroyed; one that opens in
   between takes it as partner and acquires entities; the destructor tells
   nobody. `OnlyDestructionLeavesOwned` (and `OnlyDestructionStrands` for the
   linkage) show that this is the *only* way.
2. `passage_unplaced`: a portal that is open by its keyvalue, or by an input
   whose placement is refused, uses a simulator that was never told where it is.
   The other passage runs exclude such portals (`OpenUnplaced = FALSE`).
3. `gun_foreign`: a shot whose gun has changed group, or is gone, opens its
   portal on top of another one. `OnlyForeignShotsOverlap` shows that this is
   the only way, and the theorem `GunSpecNoOverlap` that without it there is none.
4. `gun_cleanser`: a shot due in the same tick is not cancelled.
5. `energy_fade`: the input FadeAndRespawn sets a think that the energy ball's own
   `Think` keeps from being called. A ball that expires still ends by its timer,
   as `FadedBallDies` of the run `energy` shows; one that does not never does.

`BallsConserved` also shows in which ways the launcher is told of the same ball
twice, and so launches two: the timer of a ball runs out within the half second
after the input Explode, or a ball is killed, or exploded, once more after it was
killed, or killed after it exploded.

## What is proved

The theorems hold for every value of the constants that satisfies the named
assumptions. Their modules are beside the models; each proof has one step per
action, and under it one per conjunct that the action can disturb.

### Linkage

`PortalLinkageProofs` (for all sets of portals, groups and places, with
`NoPortal` no portal as the only assumption): type correctness, `LinkSymmetric`,
`LinkedAreActive`, `SimulatorAgrees`, `OppositeColours`, `MatrixFresh`,
`PassageKept`, `OnlyDestructionStrands` and the refinement `PairingSpec`. The
inductive invariant `IInv` is the conjunction of the state properties with two more:
a portal that does not exist is not active, and while the input `SetActivatedState`
is in progress no game is being loaded and its portal is live, active and not among
those it still has to fizzle. Without the second, the last steps of the input could
link a portal that is being removed.

The point of the argument is a set of lemmas about `UpdatePortalLinkage` and
`Abandon` on an intermediate state: given links that are symmetric except that
the caller has cleared one side, they end in links that are symmetric and join
open portals, and leave unattached only the passages between portals still to be
activated after a load. Every action is then an instance. `PassageKept` and the refinement
follow from the same lemmas: an action changes `active` at one portal, and links
only at that portal, its former partner and one that waited.

`OnlyDestructionStrands` says which step may leave two open portals of a group
waiting for each other (`Stranded`). It speaks of every step: a portal that an input
has marked open but whose linkage is still to come, and one that has not run
`Activate` on a new map or after a load, is `Unfinished`, and the step that ends
this, `FinishActivation` or `Activate`, counts like any other. So a
`FinishActivation` without its scan violates it (that is its mutant). The proof
needs one more fact of the lists, `ListsComplete`: a portal is in the list of its
group unless it is not to be found there (not made, not activated since a load, or
being made). A call that leaves its portal waiting has found nobody in that list
(`CallWaits`), so that it strands no one (`CallStrands`).

### Simulators and passages

`FiniteFolds` has what the other proofs need of the community modules' folds: the
definition of a fold over a finite set by one of its elements has, for each finite
set, a function that satisfies it (`Folding`, `FoldingExists`), and what follows for sums
(a sum changes by what one summand changes, it is zero only if all are).
Portals and entities are therefore finite sets in these theorems, which they are in
the engine: its entity list has a fixed size.

`PortalSimulatorProofs` has one lemma for each operator of `PortalSimulator` and each
property of the record it keeps. `Sound` is the type of the record with the two
facts that its functions keep at every step, even inside a call: the counter of clones is the sum
over all simulators, and the table of owners says the same as the simulators.
`Tidy` and `Firm` are about clones.

`PortalPassageProofs` puts them together. `PassageInv` is `IInv` of the linkage with
`SimInv`, what holds of the simulators between two calls: `Sound`; a simulator that
has a place was told it; attachments are those of the linkage; owners are open; a
simulator of an open passage is where its portal is. From it come `PassageTypeOK`,
`OneOwner`, `CountAgrees`, `EnvironmentIsOwner`, `AttachmentAgrees`, `OwnersAreOpen`,
`SimulatorInPlace`, and the action property `OnlyDestructionLeavesOwned`: any call
that leaves a portal without a passage empties its simulator, the destructor of the
partner excepted.

The composed system also implements the linkage (`PassageSpecLinkage`: every call is a
step of `Spec`, every touch leaves the linkage alone), so what is proved of the linkage
holds of it without a second proof; `PassageSpecPairing` is that for the abstract pairing.

What is said of clones needs more, `CloneInv`: `Firm` simulators (`Sound` and `Tidy`,
and they simulate all they own), attached simulators that have both been placed know
of each other, and a portal that is not removed has its physics. `Tidy` says that a
clone stands for what the attached simulator simulates, one for each (`NoStray`), and
that none of a prop is missing in a simulator that is linked to the other side
(`Mirrored`). The
parts depend on each other: that there is room for a new clone follows from there
being no stray ones, because owners are single and attachments mutual, so that each
entity has one clone at most and the counter is the number of entities that have
one (`CloneSumCounts`, `RoomForMore`). Inside a call the invariant is broken and
mended: `Cleared` is what the functions that take physics down leave,
`Grows` what those that build it up add.

`NoStrayClone`, `ClonesMirror` and `PlacedBeforeUse` are proved for
`OpenUnplaced = FALSE`. That hypothesis is not a convenience: a portal that is open
without a place violates them in the model with `TRUE` and in the code, it is the subject of
finding 2, and the runs that check them exclude it in the same way; `PlacedBeforeUse`
proves that it is the only cause. `ClonesMirror` moreover
assumes that no more entities can be owned than there may be clones
(`Cardinality(Entities) <= MaxClones`), for at the limit the code goes without. It
claims exactly one clone only of `Props`, which the code never refuses for what they
are; of any other entity the other side owns there is one or none, and of one it
does not own there is none.

### Gun

`PortalGunProofs` (for all sets of portals, guns, groups, spots, volumes and any
resolution of the distance, under `GunAssumption`): type correctness,
`NoneInVolume`, `StandsOnSurface`, `OnlyForeignShotsOverlap`, and `BumpedIsSuccess`,
the fact about the macro. `StandsOnSurface` is not inductive by itself: the
failure and position a shot leaves must be known to be those of an accepted
placement whenever the failure is `success`, including when a refused shot
overwrites them. Two more theorems join these: while shots in flight belong to guns
that still have their portal's group, a landing leaves the portals apart
(`LandKeepsApart`), and where guns keep their groups every shot in flight is such a
one, so `NoOverlap` is an invariant (`GunSpecNoOverlap`).

### Energy balls

`EnergyBallProofs`: type correctness and `BallsConserved`, for any number of
balls, any limit on the inputs and any durations; the second for launchers with
`RespawnTime >= 0`, since with a negative time the code replaces no ball. The
invariant adds
to the types that a ball waiting for its removal has been reported lost
(`SpentAreRemoved`). The property counts: the balls in play are the entries of
`waits` and the balls in flight, and each step is shown to change one of the two
numbers by what it gives back on the other. The launcher's think drops the entries
that are due, the input that switches the launcher on those it clears; both
are `Picked`, the sequence of the places kept, and its length is the number of
those places because the ranks of the places are one-to-one onto their number
(`Ranks`, `PickedFacts`). `SelectSeq` would say the same, but is defined by a
recursion whose value for an arbitrary sequence cannot be reached in a proof.

### Liquid portals

`LiquidPortalProofs` (for all sets of liquid portals and entities): type correctness,
`LinksAreMutual`, `OnlyDestructionLeavesMatrix`, `SentOnce`, `CoveredGoAtOnce`,
`OnlyTeleportForgets`. `LinkInv` adds to the mutual links that every link ends at a
portal. The calls of `SetLinkedLiquidPortal` are followed from the inside: a call that
finds its link there already changes nothing (`CallsInVain`), so a portal that has
lost its partner comes back from the portal that left it (`PartnerLetsGo`), hence the
former partner of each end of a new link from its call (`FormerIsLeft`), hence the
new partner (`PartnerJoins`); the fourth call is only ever one in vain. What the first
call leaves (`SetLinkedLeaves`) is a matching again, whichever handles the two
portals had, for any number of portals.
For the lists, `FillInv` says that the list of each portal repeats nobody and that
those sent are not in it. The think's loop runs from the last place down
while it removes (`Loops`): the proof follows it by the first step at which its claim
(`LeavesPast`) would fail, because the theorems of induction cannot be
used with the provers here.

### Floor turret

`FloorTurretProofs` (for any bound on the waits): type correctness, `TurretTypeOK`, in
four parts (the activity, the flags, the clocks, what is still open), each kept by every think and event; and
`OnlyFireBulletRouses`, `OnlyPickupOrBulletInterrupts`, `OnlyLateEnableHangs`, which say of every step which
of them can end a condition, and hold from every state of the model without an invariant.

### Model-checked only

Liveness: `BallComesBack`, `FadedBallDies`, `FillEnds`, `ComesToRest`. The provers here
do not reason about fairness. Every invariant and every action property of a passing
run is a theorem.

## The plan

1. `PortalLinkage`, `PortalPairing`, proofs: done.
2. `PortalSimulator`, `PortalPassage`, proofs: done.
3. `PortalGun`, proofs: done.
4. `EnergyBall`, proofs: done. Next: the launcher's other kinds (cone, bullseye) and
   spawners with a volume, which capture balls.
5. `LiquidPortal`, proofs: done.
6. `FloorTurret`, proofs: done. Next: NPCs that knock a turret over.
7. `PortalDetector` over the abstract pairing.
8. The cooperative rules' restart and ready checks.

## What is not modelled, and why

* Geometry: fitting a portal, portal holes, collision polyhedra, velocities. It is
  replaced by constants or by nondeterministic choices where the control asks.
* Saving and restoring, except in `PortalLinkage` and `LiquidPortal`: a player's
  `m_hPortalEnvironment` is saved and the simulators' ownership is not, but is
  taken anew from the touch links of the portal, a data object of the engine.
* Effects, sounds, statistics.
* The client: prediction, ghost entities, rendering.
* `portal_gamemovement.cpp`: player movement through portals behind a console
  variable that is off by default.
* Turret aiming, talking, ropes and lasers; ceiling and ground turrets, the camera, GLaDOS, neurotoxin, radio, the telescopic arm:
  scripted sequences or tracking with little shared state.
* `weapon_physcannon.cpp` and the other weapons: inherited from Half-Life 2.
* The engine below (`physics_main.cpp`, `util.cpp`): its contracts are assumed.
