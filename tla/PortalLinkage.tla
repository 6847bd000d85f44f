--------------------------- MODULE PortalLinkage ---------------------------
(***************************************************************************)
(* How the prop_portal entities of the server find, keep and lose their    *)
(* partner: CProp_Portal (game/server/portal/prop_portal.cpp), with the    *)
(* partner pointer of each portal's CPortalSimulator                       *)
(* (game/shared/portal/PortalSimulation.cpp).                              *)
(*                                                                         *)
(* The server is single-threaded: one action is one call from the game     *)
(* loop.  The exception is the input SetActivatedState, which fizzles any  *)
(* number of other portals on its way and is cut at each of them; while it *)
(* runs (`input' # Idle) no other action is possible.                      *)
(***************************************************************************)
EXTENDS Naturals, Sequences, FiniteSets

CONSTANTS Portals,    \* entities that may be a prop_portal
          Groups,     \* linkage group ids: portals link within their group
          Spots,      \* places a portal can be at
          NoPortal    \* the NULL handle

ASSUME NoPortalAssumption == NoPortal \notin Portals

VARIABLES
    status,     \* life of the entity
    active,     \* m_bActivated
    linked,     \* m_hLinkedPortal
    isPortal2,  \* m_bIsPortal2: which of the two colours
    group,      \* m_iLinkageGroupID
    members,    \* s_PortalLinkageGroups: per group, the portals in order of arrival
    attached,   \* m_PortalSimulator.m_pLinkedPortal, as the portal that owns it
    spot,       \* GetAbsOrigin, GetAbsAngles
    matrix,     \* m_matrixThisToLinked: <<from, to>>, or Identity
    input       \* the SetActivatedState(true) in progress, or Idle

vars == <<status, active, linked, isPortal2, group, members, attached, spot,
          matrix, input>>

\* What UpdatePortalLinkage writes.
linkVars == <<linked, isPortal2, attached>>
\* What never changes between the creation and the destruction of a portal.
lifeVars == <<status, group, members>>

(***************************************************************************)
(* "spawned" has run Spawn but not yet Activate; "restored" has its fields *)
(* from a saved game but has not run Activate in this one; "removed" has   *)
(* run UpdateOnRemove and waits for the delete list, still in memory and   *)
(* still in the list of its group.                                         *)
(***************************************************************************)
Status == {"none", "spawned", "restored", "live", "removed"}
Identity == <<>>
Idle == <<>>

Exists(p) == status[p] # "none"
IsActivedAndLinked(p) == active[p] /\ linked[p] # NoPortal

InputInProgress ==
    [who : Portals, left : SUBSET Portals, next : {"place", "finish"}]

TypeOK ==
    /\ status \in [Portals -> Status]
    /\ active \in [Portals -> BOOLEAN]
    /\ linked \in [Portals -> Portals \cup {NoPortal}]
    /\ isPortal2 \in [Portals -> BOOLEAN]
    /\ group \in [Portals -> Groups]
    /\ members \in [Groups -> Seq(Portals)]
    /\ attached \in [Portals -> Portals \cup {NoPortal}]
    /\ spot \in [Portals -> Spots]
    /\ matrix \in [Portals -> {Identity} \cup (Spots \X Spots)]
    /\ input \in {Idle} \cup InputInProgress

\* The portals of a loaded game that are still to be activated.
Unloaded == {p \in Portals : status[p] = "restored"}

\* The map's portals have all been activated (a batch of Spawn calls is
\* followed by Activate on each of it).
NoneSpawned == \A p \in Portals : status[p] # "spawned"

\* The game loop is between two calls, and no map and no game is being loaded.
Settled == input = Idle /\ NoneSpawned /\ Unloaded = {}

-----------------------------------------------------------------------------
(* The simulators *)

\* CPortalSimulator::DetachFromLinked: both ends forget each other.
Detached(att, p) ==
    IF att[p] = NoPortal THEN att
    ELSE [att EXCEPT ![att[p]] = NoPortal, ![p] = NoPortal]

\* Mutant: only p's side learns of the new attachment.
AttachedOneSided(att, p, q) ==
    IF att[p] = q THEN att ELSE [Detached(att, p) EXCEPT ![p] = q]

\* CPortalSimulator::AttachTo, called on p's simulator.
Attached(att, p, q) ==
    IF att[p] = q THEN att ELSE [Detached(att, p) EXCEPT ![p] = q, ![q] = p]

-----------------------------------------------------------------------------
(* UpdatePortalLinkage and UpdatePortalTeleportMatrix *)

Before(s, p, q) == \E i, j \in DOMAIN s : i < j /\ s[i] = p /\ s[j] = q

\* Mutant: the scan does not ask whether the candidate has a partner.
WaitingOrTaken(p, on, lk) ==
    {q \in Portals \ {p} :
        /\ \E i \in DOMAIN members[group[p]] : members[group[p]][i] = q
        /\ on[q]}

\* The portals of p's group that are active and have no partner, given who is
\* active (on) and who is linked to whom (lk).
Waiting(p, on, lk) ==
    {q \in Portals \ {p} :
        /\ \E i \in DOMAIN members[group[p]] : members[group[p]][i] = q
        /\ on[q]
        /\ lk[q] = NoPortal}

\* The first of them in the list, where the scan stops.
FirstWaiting(p, on, lk) ==
    {q \in Waiting(p, on, lk) :
        ~ \E r \in Waiting(p, on, lk) : Before(members[group[p]], r, q)}

\* Mutant: every call scans the group again.
NeverKeeps(p, on, lk) == FALSE

KeepsLink(p, on, lk) == lk[p] # NoPortal /\ on[lk[p]]

\* The link p already has is to an active portal: renewed on both sides.
RenewLink(p, on, lk, att) ==
    /\ KeepsLink(p, on, lk)
    /\ linked' = [lk EXCEPT ![lk[p]] = p]
    /\ isPortal2' = [isPortal2 EXCEPT ![p] = ~isPortal2[lk[p]]]
    /\ attached' = Attached(att, p, lk[p])

\* Mutant: the partner is taken without its own call of UpdatePortalLinkage,
\* so it keeps its colour.
TakeWithoutRecolour(p, on, lk, att) ==
    /\ ~KeepsLink(p, on, lk)
    /\ \E q \in FirstWaiting(p, on, lk) :
          /\ linked' = [lk EXCEPT ![p] = q, ![q] = p]
          /\ attached' = Attached(att, q, p)
          /\ UNCHANGED isPortal2

\* p scans its group and takes the first waiting portal q; q's own call of
\* UpdatePortalLinkage (it finds p linked to it and active) gives q the other
\* colour and attaches the simulators.
TakePartner(p, on, lk, att) ==
    /\ ~KeepsLink(p, on, lk)
    /\ \E q \in FirstWaiting(p, on, lk) :
          /\ linked' = [lk EXCEPT ![p] = q, ![q] = p]
          /\ isPortal2' = [isPortal2 EXCEPT ![q] = ~isPortal2[p]]
          /\ attached' = Attached(att, q, p)

StayAlone(p, on, lk, att) ==
    /\ ~KeepsLink(p, on, lk)
    /\ Waiting(p, on, lk) = {}
    /\ linked' = [lk EXCEPT ![p] = NoPortal]
    /\ attached' = Detached(att, p)
    /\ UNCHANGED isPortal2

(***************************************************************************)
(* The branch of an active portal.  The code first calls the old partner   *)
(* when that one is inactive but still linked: every caller below has      *)
(* cleared the old partner's link (in lk) before it gets here, which       *)
(* LinkSymmetric and LinkedAreActive of the state before make sure of.     *)
(***************************************************************************)
UpdatePortalLinkage(p, on, lk, att) ==
    \/ RenewLink(p, on, lk, att)
    \/ TakePartner(p, on, lk, att)
    \/ StayAlone(p, on, lk, att)

\* Mutant: the call to the partner comes before p's own handle is cleared.
AbandonUncleared(p, on) ==
    IF linked[p] = NoPortal
    THEN /\ attached' = Detached(attached, p)
         /\ UNCHANGED <<linked, isPortal2>>
    ELSE UpdatePortalLinkage(linked[p], on, linked, Detached(attached, p))

\* Mutant: closing a portal only detaches its simulator.
AbandonSimulatorOnly(p, on) ==
    /\ attached' = Detached(attached, p)
    /\ UNCHANGED <<linked, isPortal2>>

\* p, now inactive, lets go of its partner, which then looks for another one
\* (Fizzle, UpdateOnRemove and the inactive branch of UpdatePortalLinkage).
Abandon(p, on) ==
    IF linked[p] = NoPortal
    THEN /\ attached' = Detached(attached, p)
         /\ UNCHANGED <<linked, isPortal2>>
    ELSE UpdatePortalLinkage(linked[p], on, [linked EXCEPT ![p] = NoPortal],
                             Detached(attached, p))

\* Mutant: the matrix of an unlinked portal keeps its first half ("don't
\* accidentally teleport objects to zero space").
RemeasuredHalf(m, lk, at, p) ==
    IF lk[p] = NoPortal THEN [m EXCEPT ![p] = <<at[p]>>]
    ELSE [m EXCEPT ![lk[p]] = <<at[lk[p]], at[p]>>, ![p] = <<at[p], at[lk[p]]>>]

\* Mutant: the remote portal is not updated.
RemeasuredOneSided(m, lk, at, p) ==
    [m EXCEPT ![p] = IF lk[p] = NoPortal THEN Identity ELSE <<at[p], at[lk[p]]>>]

\* UpdatePortalTeleportMatrix on p: both matrices of a pair, given the
\* links and the places.
Remeasured(m, lk, at, p) ==
    IF lk[p] = NoPortal THEN [m EXCEPT ![p] = Identity]
    ELSE [m EXCEPT ![lk[p]] = <<at[lk[p]], at[p]>>, ![p] = <<at[p], at[lk[p]]>>]

\* The call inside UpdatePortalLinkage, made only when p ends up linked.
MeasuredIfLinked(m, lk, at, p) ==
    IF lk[p] = NoPortal THEN m ELSE Remeasured(m, lk, at, p)

\* The same after Abandon(p): it is p's former partner that is measured.
MeasuredAfterLoss(m, lk, at, p) ==
    IF linked[p] = NoPortal THEN m ELSE MeasuredIfLinked(m, lk, at, linked[p])

-----------------------------------------------------------------------------
(* Creation *)

Init ==
    /\ status = [p \in Portals |-> "none"]
    /\ active = [p \in Portals |-> FALSE]
    /\ linked = [p \in Portals |-> NoPortal]
    /\ isPortal2 = [p \in Portals |-> FALSE]
    /\ \E g \in Groups : group = [p \in Portals |-> g]
    /\ members = [g \in Groups |-> <<>>]
    /\ attached = [p \in Portals |-> NoPortal]
    /\ \E s \in Spots : spot = [p \in Portals |-> s]
    /\ matrix = [p \in Portals |-> Identity]
    /\ input = Idle

\* Spawn, with the keyvalues Activated, PortalTwo and LinkageGroupID.
Arrive(p, g, two, on, st) ==
    /\ status[p] = "none"
    /\ status' = [status EXCEPT ![p] = st]
    /\ group' = [group EXCEPT ![p] = g]
    /\ members' = [members EXCEPT ![g] = Append(@, p)]
    /\ isPortal2' = [isPortal2 EXCEPT ![p] = two]
    /\ active' = [active EXCEPT ![p] = on]
    /\ UNCHANGED <<linked, attached, matrix, input>>

\* A portal of the map (or of a template), possibly active from the start.
SpawnFromMap(p, g, two, on, at) ==
    /\ input = Idle /\ Unloaded = {}
    /\ Arrive(p, g, two, on, "spawned")
    /\ spot' = [spot EXCEPT ![p] = at]

\* FindPortal with bCreateIfNothingFound, when the list of the group has no
\* portal of that colour: a closed portal, which is not sent Activate.  A gun
\* also calls it from its own Activate, in the middle of a load.
FindPortal(p, g, two) ==
    /\ input = Idle /\ NoneSpawned
    /\ \A i \in DOMAIN members[g] : isPortal2[members[g][i]] # two
    /\ Arrive(p, g, two, FALSE, "live")
    /\ UNCHANGED spot

\* s with x at its end, if it is not in it.
Listed(s, x) == IF \E i \in DOMAIN s : s[i] = x THEN s ELSE Append(s, x)

\* CProp_Portal::Activate, sent once the entities of the map are all spawned,
\* or those of a saved game all restored.
Activate(p) ==
    /\ input = Idle
    /\ status[p] \in {"spawned", "restored"}
    /\ status' = [status EXCEPT ![p] = "live"]
    /\ members' = [members EXCEPT ![group[p]] = Listed(@, p)]
    /\ IF active[p] THEN UpdatePortalLinkage(p, active, linked, attached)
                    ELSE Abandon(p, active)
    /\ LET m == Remeasured(matrix, linked, spot, p)
       IN  matrix' = IF active[p] THEN MeasuredIfLinked(m, linked', spot, p)
                                  ELSE MeasuredAfterLoss(m, linked', spot, p)
    /\ UNCHANGED <<active, group, spot, input>>

(***************************************************************************)
(* The game is saved, between two frames, and the save is loaded: every    *)
(* portal is made again from its saved fields.  The lists and the          *)
(* simulators are not saved; each portal's own Activate rebuilds them.     *)
(***************************************************************************)
Restore ==
    /\ Settled
    /\ \E p \in Portals : Exists(p)    \* otherwise nothing would change
    /\ \A p \in Portals : status[p] # "removed"
    /\ status' = [p \in Portals |-> IF Exists(p) THEN "restored" ELSE "none"]
    /\ members' = [g \in Groups |-> <<>>]
    /\ attached' = [p \in Portals |-> NoPortal]
    /\ UNCHANGED <<active, linked, isPortal2, group, spot, matrix, input>>

-----------------------------------------------------------------------------
(* Opening, moving and closing *)

\* What Fizzle does, whoever calls it.
FizzlePortal(p) ==
    /\ active' = [active EXCEPT ![p] = FALSE]
    /\ Abandon(p, active')
    /\ matrix' = MeasuredAfterLoss(matrix, linked', spot, p)

\* What NewLocation does.
MovePortal(p, at) ==
    /\ spot' = [spot EXCEPT ![p] = at]
    /\ active' = [active EXCEPT ![p] = TRUE]
    /\ UpdatePortalLinkage(p, active', linked, attached)
    /\ matrix' = Remeasured(matrix, linked', spot', p)

\* A fizzle of any origin: a cleanser, a lost surface, a no-portal volume, a
\* breaking brush, the gun's loss, the map's input, a stolen spot.
Fizzle(p) ==
    /\ Settled
    /\ Exists(p)
    /\ FizzlePortal(p)
    /\ UNCHANGED <<lifeVars, spot, input>>

\* DelayedPlacementThink of a successful shot, or the input NewLocation.
NewLocation(p, at) ==
    /\ Settled
    /\ status[p] = "live"
    /\ MovePortal(p, at)
    /\ UNCHANGED <<lifeVars, input>>

\* The input SetActivatedState(false).
Deactivate(p) ==
    /\ Settled
    /\ status[p] = "live"
    /\ active' = [active EXCEPT ![p] = FALSE]
    /\ Abandon(p, active')
    /\ matrix' = MeasuredAfterLoss(Remeasured(matrix, linked, spot, p), linked', spot, p)
    /\ UNCHANGED <<lifeVars, spot, input>>

\* The other active portals where p is (IsPortalOverlappingOtherPortals).
Overlapping(p) ==
    {q \in Portals \ {p} : Exists(q) /\ active[q] /\ spot[q] = spot[p]}

(***************************************************************************)
(* The input SetActivatedState(true) on a fixed portal: it is marked       *)
(* active, the portals found to block it are fizzled one by one            *)
(* (VerifyPortalPlacementAndFizzleBlockingPortals), it is placed where it  *)
(* stands unless the surface refuses it, the portals that still overlap    *)
(* are fizzled, and the linkage is brought up to date.  The order in which *)
(* the victims are found is left open.                                     *)
(***************************************************************************)
SetActivatedState(p) ==
    /\ Settled
    /\ status[p] = "live"
    /\ active' = [active EXCEPT ![p] = TRUE]
    /\ \E blocking \in {{}, Overlapping(p)} :
          input' = [who |-> p, left |-> blocking, next |-> "place"]
    /\ UNCHANGED <<lifeVars, linkVars, spot, matrix>>

FizzleBlocking(q) ==
    /\ input # Idle
    /\ q \in input.left
    /\ FizzlePortal(q)
    /\ input' = [input EXCEPT !.left = @ \ {q}]
    /\ UNCHANGED <<lifeVars, spot>>

\* PlacePortal, and the victims of the overlap test that follows it: none
\* when the placement's score is exactly zero (a pass-through surface).
PlaceFixed ==
    /\ input # Idle /\ input.left = {} /\ input.next = "place"
    /\ \/ /\ MovePortal(input.who, spot[input.who])
          /\ input' = [input EXCEPT !.left = Overlapping(input.who), !.next = "finish"]
       \/ /\ \E victims \in {{}, Overlapping(input.who)} :
                input' = [input EXCEPT !.left = victims, !.next = "finish"]
          /\ UNCHANGED <<active, linkVars, matrix, spot>>
    /\ UNCHANGED lifeVars

\* Mutant: PlacePortal is trusted to have brought the linkage up to date.
FinishWithoutScan ==
    /\ input # Idle /\ input.left = {} /\ input.next = "finish"
    /\ input' = Idle
    /\ UNCHANGED <<lifeVars, active, linkVars, matrix, spot>>

FinishActivation ==
    /\ input # Idle /\ input.left = {} /\ input.next = "finish"
    /\ LET p == input.who
       IN  /\ UpdatePortalLinkage(p, active, linked, attached)
           /\ matrix' = MeasuredIfLinked(Remeasured(matrix, linked, spot, p),
                                         linked', spot, p)
    /\ input' = Idle
    /\ UNCHANGED <<lifeVars, active, spot>>

-----------------------------------------------------------------------------
(* Removal *)

\* UTIL_Remove.  Only a portal that has a partner is deactivated; one that is
\* active and waiting stays so, and stays in the list, until it is destroyed.
UpdateOnRemove(p) ==
    /\ Settled
    /\ status[p] = "live"
    /\ status' = [status EXCEPT ![p] = "removed"]
    /\ IF linked[p] = NoPortal
       THEN UNCHANGED <<active, linkVars, matrix>>
       ELSE /\ active' = [active EXCEPT ![p] = FALSE]
            /\ Abandon(p, active')
            /\ matrix' = Remeasured(MeasuredAfterLoss(matrix, linked', spot, p),
                                    linked', spot, linked[p])
    /\ UNCHANGED <<group, members, spot, input>>

\* The destructor, run by the delete list: handles to p become NULL, p's
\* simulator detaches, p leaves the list.  Nobody is told.
Destroy(p) ==
    /\ Settled
    /\ status[p] = "removed"
    /\ status' = [status EXCEPT ![p] = "none"]
    /\ \E i \in DOMAIN members[group[p]] :
          /\ members[group[p]][i] = p
          /\ members' = [members EXCEPT ![group[p]] =
                            SubSeq(@, 1, i - 1) \o SubSeq(@, i + 1, Len(@))]
    /\ linked' = [q \in Portals |-> IF q = p \/ linked[q] = p THEN NoPortal ELSE linked[q]]
    /\ attached' = Detached(attached, p)
    /\ active' = [active EXCEPT ![p] = FALSE]
    /\ matrix' = [matrix EXCEPT ![p] = Identity]
    /\ UNCHANGED <<isPortal2, group, spot, input>>

-----------------------------------------------------------------------------

Next ==
    \/ \E p \in Portals, g \in Groups, two \in BOOLEAN :
          \/ FindPortal(p, g, two)
          \/ \E on \in BOOLEAN, at \in Spots : SpawnFromMap(p, g, two, on, at)
    \/ \E p \in Portals :
          \/ Activate(p)
          \/ Fizzle(p)
          \/ \E at \in Spots : NewLocation(p, at)
          \/ Deactivate(p)
          \/ SetActivatedState(p)
          \/ FizzleBlocking(p)
          \/ UpdateOnRemove(p)
          \/ Destroy(p)
    \/ PlaceFixed
    \/ FinishActivation
    \/ Restore

Spec == Init /\ [][Next]_vars

-----------------------------------------------------------------------------
(* Properties *)

\* A portal's partner has it as partner: Touch and TeleportTouchingEntity
\* send an entity through m_hLinkedPortal and expect to find the way back.
LinkSymmetric ==
    \A p \in Portals : linked[p] # NoPortal =>
        linked[p] # p /\ linked[linked[p]] = p

\* A link joins two open portals, also when one of them was closed, removed
\* or destroyed on the way; IsActivedAndLinked tests one side only.
LinkedAreActive ==
    \A p \in Portals : linked[p] # NoPortal => active[p] /\ active[linked[p]]

\* The two ends of p's passage are restored, and neither has run Activate.
AwaitsAttachment(p) == p \in Unloaded /\ linked[p] \in Unloaded

\* The simulator is attached to the partner's simulator and to no other, the
\* assertion at the top of Touch, StartTouch and Activate.  In a loaded game
\* the first of the two to be activated attaches both.
SimulatorAgrees ==
    \A p \in Portals :
        attached[p] = IF AwaitsAttachment(p) THEN NoPortal ELSE linked[p]

\* The two ends of a passage have different colours, whichever portals of
\* the group the scan has joined.
OppositeColours ==
    \A p \in Portals : linked[p] # NoPortal => isPortal2[p] # isPortal2[linked[p]]

\* The matrix of a linked portal leads from where it is to where its partner
\* is now, although either may have moved or been re-linked since.
MatrixFresh ==
    \A p \in Portals : linked[p] # NoPortal => matrix[p] = <<spot[p], spot[linked[p]]>>

\* The portals whose linkage is still to be brought up to date: by their own
\* Activate, or by the end of the input that is opening them.
Unfinished ==
    {p \in Portals : status[p] \in {"spawned", "restored"}}
      \cup (IF input = Idle THEN {} ELSE {input.who})

\* Two open portals of a group that both wait for a partner, and nothing is
\* under way that would join them.
Stranded(p, q) ==
    /\ p # q /\ {p, q} \cap Unfinished = {}
    /\ Exists(p) /\ Exists(q) /\ group[p] = group[q]
    /\ active[p] /\ active[q]
    /\ linked[p] = NoPortal /\ linked[q] = NoPortal

\* No step makes two portals of a group wait for each other, but the destructor
\* of the partner of one of them (it was picked after it had been removed).  So
\* it is for calls that are cut in two and for each Activate of a load as well:
\* the step with which a portal ceases to be unfinished has joined it to
\* whoever waits.
OnlyDestructionStrands ==
    [][ \A p, q \in Portals : Stranded(p, q)' /\ ~Stranded(p, q) =>
            \E r \in Portals : Destroy(r) /\ linked[r] \in {p, q} ]_vars

\* From the end of one call to the end of the next, a passage whose two ends
\* stay open stays: a third portal never takes over a partner, not even while
\* a saved game is loaded and the lists hold only some of the portals.
PassageKept ==
    [][ \A p \in Portals :
            linked[p] # NoPortal /\ active'[p] /\ active'[linked[p]]
                => linked'[p] = linked[p] ]_vars

\* The abstract view of the same state.
Pairing == INSTANCE PortalPairing WITH
    open <- {p \in Portals : active[p]},
    pairs <- {{p, linked[p]} : p \in {x \in Portals : linked[x] # NoPortal}}

PairingSpec == Pairing!Spec
=============================================================================
