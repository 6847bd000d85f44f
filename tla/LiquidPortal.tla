---------------------------- MODULE LiquidPortal ----------------------------
(* Liquid portals (CFunc_LiquidPortal, game/server/portal/                    *)
(* func_liquidportal.cpp): volumes linked two by two that fill up with a      *)
(* liquid. What is listed by the map's triggers is sent to the linked volume  *)
(* as soon as the liquid covers it, and all that is left when it is full.     *)
(*                                                                            *)
(* While it fills, a portal thinks in every tick; a fill is counted in the    *)
(* thinks it has before the one that ends it. How high the liquid stands and  *)
(* what it covers is geometry: any entity may be covered at any think.        *)
EXTENDS Naturals, Sequences, SequencesExt

CONSTANTS Liquids,    \* the func_liquidportals of the map
          NoLiquid,   \* the NULL handle to one of them
          Entities,   \* what triggers may list
          Players,    \* those that are players
          Removed,    \* an entry of a list whose entity is gone: it reads NULL
          MaxFill     \* bound: longer fill times are not told apart

ASSUME LiquidAssumption ==
    /\ NoLiquid \notin Liquids /\ Players \subseteq Entities
    /\ Removed \notin Entities /\ MaxFill \in Nat

VARIABLES
    state,        \* life of a liquid portal
    linked,       \* m_hLinkedPortal
    matrix,       \* m_matrixThisToLinked: <<from, to>>, or Identity
    teleportList, \* m_hTeleportList
    filling,      \* m_bFillInProgress
    remaining,    \* thinks until curtime reaches m_fFillEndTime
    thinks,       \* whether a think is scheduled
    left,         \* m_hLeftToTeleportThisFill
    sent,         \* history: what this fill has sent and not been told of again
    present,      \* the entities that exist
    surrounding   \* a player's m_hSurroundingLiquidPortal

linkVars == <<state, linked, matrix>>
fillVars == <<filling, remaining, thinks, left, sent>>
vars == <<linkVars, teleportList, fillVars, present, surrounding>>

\* "made" by the parser of the map, which makes all its entities before it
\* calls Spawn of any, and Activate of any after that.
States == {"made", "spawned", "live", "destroyed"}
Identity == <<>>

Init ==
    /\ state = [p \in Liquids |-> "made"]
    /\ linked = [p \in Liquids |-> NoLiquid]
    /\ matrix = [p \in Liquids |-> Identity]
    /\ teleportList = [p \in Liquids |-> <<>>]
    /\ filling = [p \in Liquids |-> FALSE]
    /\ remaining = [p \in Liquids |-> 0]
    /\ thinks = [p \in Liquids |-> FALSE]
    /\ left = [p \in Liquids |-> <<>>]
    /\ sent = [p \in Liquids |-> {}]
    /\ present = Entities
    /\ surrounding = [e \in Players |-> NoLiquid]

-----------------------------------------------------------------------------
(* Linking *)

\* Mutant: a portal without a partner is measured all the same.
MeasuredAlone(m, lk, p) == [m EXCEPT ![lk[p]] = <<lk[p], p>>, ![p] = <<p, lk[p]>>]

\* Mutant: a portal without a partner keeps its matrix.
MeasuredIfLinked(m, lk, p) ==
    IF lk[p] = NoLiquid THEN m
    ELSE [m EXCEPT ![lk[p]] = <<lk[p], p>>, ![p] = <<p, lk[p]>>]

\* ComputeLinkMatrix: both matrices of a pair, or the identity.
ComputeLinkMatrix(m, lk, p) ==
    IF lk[p] = NoLiquid THEN [m EXCEPT ![p] = Identity]
    ELSE [m EXCEPT ![lk[p]] = <<lk[p], p>>, ![p] = <<p, lk[p]>>]

\* The links and matrices l with the handle of p set, and with p measured.
WithHandle(l, p, q) ==
    [linked |-> [l.linked EXCEPT ![p] = q], matrix |-> l.matrix]
Measured(l, p) ==
    [linked |-> l.linked, matrix |-> ComputeLinkMatrix(l.matrix, l.linked, p)]

\* The body of SetLinkedLiquidPortal(q) on p; Call is the function again, on
\* the former partner and on the new one. q may be NoLiquid, or p itself.
Relinked(l, p, q, Call(_, _, _)) ==
    LET former == l.linked[p]
        parted == IF former = NoLiquid THEN l
                  ELSE Call(WithHandle(l, p, NoLiquid), former, NoLiquid)
        joined == WithHandle(parted, p, q)
        told == IF q = NoLiquid THEN joined ELSE Call(joined, q, p)
    IN  IF former = q THEN l ELSE Measured(told, p)

\* The calls within each other. The fourth finds nothing to do and returns: if
\* it went on there would be no telling what the calls leave, and when.
FourthCall(l, p, q) == IF l.linked[p] = q THEN l ELSE CHOOSE anything : FALSE
ThirdCall(l, p, q) == Relinked(l, p, q, FourthCall)
SecondCall(l, p, q) == Relinked(l, p, q, ThirdCall)

\* Mutant: the handle is cleared, and the former partner is not called.
SetLinkedQuietly(p, q) ==
    LET l == Relinked([linked |-> [linked EXCEPT ![p] = NoLiquid], matrix |-> matrix],
                      p, q, SecondCall)
    IN  linked' = l.linked /\ matrix' = l.matrix

SetLinkedLiquidPortal(p, q) ==
    LET l == Relinked([linked |-> linked, matrix |-> matrix], p, q, SecondCall)
    IN  linked' = l.linked /\ matrix' = l.matrix

\* What a name can find.
Named == {p \in Liquids : state[p] # "destroyed"} \cup {NoLiquid}

\* The keyvalue InitialLinkedPortal names q. Without one, or with the name of
\* nothing, Spawn undoes a link that the partner's Spawn has made.
Spawn(p, q) ==
    /\ state[p] = "made" /\ q \in Named
    /\ state' = [state EXCEPT ![p] = "spawned"]
    /\ SetLinkedLiquidPortal(p, q)
    /\ UNCHANGED <<teleportList, fillVars, present, surrounding>>

\* Activate on a new map; nothing is left to teleport.
Activate(p) ==
    /\ \A x \in Liquids : state[x] # "made"
    /\ state[p] = "spawned"
    /\ state' = [state EXCEPT ![p] = "live"]
    /\ matrix' = ComputeLinkMatrix(matrix, linked, p)
    /\ UNCHANGED <<linked, teleportList, fillVars, present, surrounding>>

\* The whole map is up and runs.
Up == \A p \in Liquids : state[p] \in {"live", "destroyed"}

InputSetLinkedLiquidPortal(p, q) ==
    /\ Up /\ state[p] = "live" /\ q \in Named
    /\ SetLinkedLiquidPortal(p, q)
    /\ UNCHANGED <<state, teleportList, fillVars, present, surrounding>>

-----------------------------------------------------------------------------
(* The lists *)

\* CUtlVector::FastRemove: the last element takes the place of the i-th.
FastRemove(s, i) ==
    [j \in 1..(Len(s) - 1) |-> IF j = i THEN s[Len(s)] ELSE s[j]]

\* The loops that search e and remove the first they find; there is one at
\* most (SentOnce).
Without(s, e) ==
    IF e \in ToSet(s) THEN FastRemove(s, CHOOSE i \in DOMAIN s : s[i] = e) ELSE s

\* An activator that is gone when the input arrives reads NULL.
InputAddActivatorToTeleportList(p, e) ==
    /\ Up /\ state[p] = "live"
    /\ e \in present /\ e \notin ToSet(teleportList[p])
    /\ teleportList' = [teleportList EXCEPT ![p] = Append(@, e)]
    /\ left' = IF filling[p] THEN [left EXCEPT ![p] = Append(@, e)] ELSE left
    /\ sent' = [sent EXCEPT ![p] = @ \ {e}]
    /\ surrounding' = [x \in Players |-> IF x = e THEN p ELSE surrounding[x]]
    /\ UNCHANGED <<linkVars, filling, remaining, thinks, present>>

\* Mutant: the list of the fill in progress is not searched.
RemoveFromListOnly(p, e) ==
    /\ Up /\ state[p] = "live"
    /\ e \in present /\ e \in ToSet(teleportList[p])
    /\ teleportList' = [teleportList EXCEPT ![p] = Without(@, e)]
    /\ surrounding' = [x \in Players |->
                          IF x = e /\ surrounding[x] = p THEN NoLiquid ELSE surrounding[x]]
    /\ UNCHANGED <<linkVars, fillVars, present>>

\* Mutant: the player keeps the portal.
RemoveKeepingPlayer(p, e) ==
    /\ Up /\ state[p] = "live"
    /\ e \in present /\ e \in ToSet(teleportList[p])
    /\ teleportList' = [teleportList EXCEPT ![p] = Without(@, e)]
    /\ left' = IF filling[p] THEN [left EXCEPT ![p] = Without(@, e)] ELSE left
    /\ UNCHANGED <<linkVars, filling, remaining, thinks, sent, present, surrounding>>

InputRemoveActivatorFromTeleportList(p, e) ==
    /\ Up /\ state[p] = "live"
    /\ e \in present /\ e \in ToSet(teleportList[p])
    /\ teleportList' = [teleportList EXCEPT ![p] = Without(@, e)]
    /\ left' = IF filling[p] THEN [left EXCEPT ![p] = Without(@, e)] ELSE left
    /\ surrounding' = [x \in Players |->
                          IF x = e /\ surrounding[x] = p THEN NoLiquid ELSE surrounding[x]]
    /\ UNCHANGED <<linkVars, filling, remaining, thinks, sent, present>>

-----------------------------------------------------------------------------
(* Filling *)

\* d is what the input SetFillTime has made of m_fFillTime. An assertion
\* ("Fill already in progress.") is all there is about a second start.
InputStartFilling(p, d) ==
    /\ Up /\ state[p] = "live"
    /\ filling' = [filling EXCEPT ![p] = TRUE]
    /\ remaining' = [remaining EXCEPT ![p] = d]
    /\ left' = [left EXCEPT ![p] = teleportList[p]]
    /\ sent' = [sent EXCEPT ![p] = {}]
    /\ thinks' = [thinks EXCEPT ![p] = TRUE]
    /\ UNCHANGED <<linkVars, teleportList, present, surrounding>>

\* TeleportImmersedEntity of each of es that is a player; where it puts them
\* and other entities is the matrix.
Teleported(p, es) ==
    surrounding' = [x \in Players |-> IF x \in es THEN linked[p] ELSE surrounding[x]]

\* The loop over m_hLeftToTeleportThisFill, from its end, which removes what
\* is covered while it goes; an entry that reads NULL is passed over.
AfterLoop(s, covered) ==
    FoldRightDomain(LAMBDA i, rest : IF s[i] \in covered THEN FastRemove(rest, i) ELSE rest,
                    s, s)

\* Mutant: the loop goes up, and passes over what FastRemove puts in its way.
Upwards(p, covered) ==
    /\ remaining[p] > 0
    /\ LET gone == FoldLeftDomain(LAMBDA rest, i : IF i <= Len(rest) /\ rest[i] \in covered
                                                   THEN FastRemove(rest, i) ELSE rest,
                                  left[p], left[p])
       IN  /\ left' = [left EXCEPT ![p] = gone]
           /\ sent' = [sent EXCEPT ![p] = @ \cup (ToSet(left[p]) \ ToSet(gone))]
           /\ Teleported(p, ToSet(left[p]) \ ToSet(gone))
    /\ remaining' = [remaining EXCEPT ![p] = @ - 1]
    /\ UNCHANGED <<filling, thinks>>

\* Mutant: the think is not scheduled again.
RisesOnce(p, covered) ==
    /\ remaining[p] > 0
    /\ Teleported(p, ToSet(left[p]) \cap covered)
    /\ left' = [left EXCEPT ![p] = AfterLoop(@, covered)]
    /\ sent' = [sent EXCEPT ![p] = @ \cup (ToSet(left[p]) \cap covered)]
    /\ remaining' = [remaining EXCEPT ![p] = @ - 1]
    /\ thinks' = [thinks EXCEPT ![p] = FALSE]
    /\ UNCHANGED filling

\* The liquid still rises and covers some entities.
Rises(p, covered) ==
    /\ remaining[p] > 0
    /\ Teleported(p, ToSet(left[p]) \cap covered)
    /\ left' = [left EXCEPT ![p] = AfterLoop(@, covered)]
    /\ sent' = [sent EXCEPT ![p] = @ \cup (ToSet(left[p]) \cap covered)]
    /\ remaining' = [remaining EXCEPT ![p] = @ - 1]
    /\ UNCHANGED <<filling, thinks>>

\* The volume is full: everything that is left goes.
Ends(p) ==
    /\ remaining[p] = 0
    /\ Teleported(p, ToSet(left[p]))
    /\ left' = [left EXCEPT ![p] = <<>>]
    /\ sent' = [sent EXCEPT ![p] = {}]
    /\ filling' = [filling EXCEPT ![p] = FALSE]
    /\ thinks' = [thinks EXCEPT ![p] = FALSE]
    /\ UNCHANGED remaining

\* Only a fill schedules thinks; one that found none would change nothing.
Think(p, covered) ==
    /\ Up /\ state[p] = "live" /\ thinks[p] /\ filling[p]
    /\ Rises(p, covered) \/ Ends(p)
    /\ UNCHANGED <<linkVars, teleportList, present>>

-----------------------------------------------------------------------------
(* Removal, saving and restoring *)

\* Handles to a portal that is destroyed read NULL. Nobody is told: the
\* matrix of its partner stays.
Destroy(p) ==
    /\ Up /\ state[p] = "live"
    /\ state' = [state EXCEPT ![p] = "destroyed"]
    /\ linked' = [x \in Liquids |-> IF x = p \/ linked[x] = p THEN NoLiquid ELSE linked[x]]
    /\ matrix' = [matrix EXCEPT ![p] = Identity]
    /\ surrounding' = [x \in Players |->
                          IF surrounding[x] = p THEN NoLiquid ELSE surrounding[x]]
    /\ teleportList' = [teleportList EXCEPT ![p] = <<>>]
    /\ filling' = [filling EXCEPT ![p] = FALSE]
    /\ remaining' = [remaining EXCEPT ![p] = 0]
    /\ thinks' = [thinks EXCEPT ![p] = FALSE]
    /\ left' = [left EXCEPT ![p] = <<>>]
    /\ sent' = [sent EXCEPT ![p] = {}]
    /\ UNCHANGED present

\* An entity is removed, a player leaves. The lists keep an entry.
RemoveEntity(e) ==
    /\ Up /\ e \in present
    /\ present' = present \ {e}
    /\ teleportList' = [p \in Liquids |-> ReplaceAll(teleportList[p], e, Removed)]
    /\ left' = [p \in Liquids |-> ReplaceAll(left[p], e, Removed)]
    /\ sent' = [p \in Liquids |-> sent[p] \ {e}]
    /\ surrounding' = [x \in Players |-> IF x = e THEN NoLiquid ELSE surrounding[x]]
    /\ UNCHANGED <<linkVars, filling, remaining, thinks>>

\* Save and Restore keep both lists and the links; Activate, called on every
\* portal in some order, measures them anew and tells the players that are
\* left to teleport where they are.
SaveAndRestore ==
    /\ Up
    /\ matrix' = [p \in Liquids |->
                     IF linked[p] = NoLiquid THEN Identity ELSE <<p, linked[p]>>]
    /\ surrounding' \in
          {told \in [Players -> Liquids \cup {NoLiquid}] :
              \A x \in Players :
                 LET in == {p \in Liquids : x \in ToSet(left[p])}
                 IN  IF in = {} THEN told[x] = surrounding[x] ELSE told[x] \in in}
    /\ UNCHANGED <<state, linked, teleportList, fillVars, present>>

-----------------------------------------------------------------------------

Next ==
    \/ \E p \in Liquids :
          \/ \E q \in Liquids \cup {NoLiquid} :
                Spawn(p, q) \/ InputSetLinkedLiquidPortal(p, q)
          \/ Activate(p)
          \/ \E e \in Entities :
                \/ InputAddActivatorToTeleportList(p, e)
                \/ InputRemoveActivatorFromTeleportList(p, e)
          \/ \E d \in 0..MaxFill : InputStartFilling(p, d)
          \/ \E covered \in SUBSET Entities : Think(p, covered)
          \/ Destroy(p)
    \/ \E e \in Entities : RemoveEntity(e)
    \/ SaveAndRestore

\* Scheduled thinks are run.
Fairness == \A p \in Liquids : WF_vars(\E covered \in SUBSET Entities : Think(p, covered))

LiquidSpec == Init /\ [][Next]_vars /\ Fairness

-----------------------------------------------------------------------------
(* Properties *)

\* Types.
LiquidTypeOK ==
    /\ state \in [Liquids -> States]
    /\ linked \in [Liquids -> Liquids \cup {NoLiquid}]
    /\ matrix \in [Liquids -> {Identity} \cup (Liquids \X Liquids)]
    /\ teleportList \in [Liquids -> Seq(Entities \cup {Removed})]
    /\ filling \in [Liquids -> BOOLEAN]
    /\ remaining \in [Liquids -> 0..MaxFill]
    /\ thinks \in [Liquids -> BOOLEAN]
    /\ left \in [Liquids -> Seq(Entities \cup {Removed})]
    /\ sent \in [Liquids -> SUBSET Entities]
    /\ present \subseteq Entities
    /\ surrounding \in [Players -> Liquids \cup {NoLiquid}]

\* Whichever portals are linked, unlinked and destroyed in whichever order, the
\* way back leads where one came from (SetLinkedLiquidPortal calls itself on
\* both partners, and stops only because each clears its own handle first).
LinksAreMutual == \A p \in Liquids : linked[p] # NoLiquid => linked[linked[p]] = p

\* The matrix is that of the link: what is sent comes out of the partner.
MatrixIsLink ==
    \A p \in Liquids :
        matrix[p] = IF linked[p] = NoLiquid THEN Identity ELSE <<p, linked[p]>>

\* The only way to leave a portal with the matrix of a link it has not is to
\* destroy its partner: SetLinkedLiquidPortal of NULL then returns at once.
OnlyDestructionLeavesMatrix ==
    [][ MatrixIsLink /\ ~MatrixIsLink' =>
            \E p \in Liquids : Destroy(p) /\ \E x \in Liquids \ {p} : linked[x] = p ]_vars

NoneTwice(s) ==
    \A i, j \in DOMAIN s : s[i] = s[j] /\ s[i] # Removed => i = j

\* A fill sends each entity once, and none that has been taken off the list:
\* what is left is listed, is there once, and has not been sent; and a listed
\* entity is left or has been sent. So it is whatever triggers tell the portal
\* during the fill, and if it is started again in the middle.
SentOnce ==
    \A p \in Liquids :
        /\ NoneTwice(teleportList[p]) /\ NoneTwice(left[p])
        /\ IF filling[p]
           THEN /\ ToSet(left[p]) \subseteq ToSet(teleportList[p])
                /\ ToSet(left[p]) \cap sent[p] = {}
                /\ ToSet(teleportList[p]) \cap present \subseteq ToSet(left[p]) \cup sent[p]
           ELSE left[p] = <<>> /\ ~thinks[p]

\* A loop that removes from the list it walks loses nobody: everything that is
\* covered goes in the same think, and nothing else.
CoveredGoAtOnce ==
    [][ \A p \in Liquids, covered \in SUBSET Entities :
            Think(p, covered) /\ filling'[p] =>
                ToSet(left'[p]) = ToSet(left[p]) \ covered ]_vars

Accounted ==
    \A x \in Players : surrounding[x] # NoLiquid => x \in ToSet(teleportList[surrounding[x]])

\* A player is in a liquid portal (for the client, who draws its inside) that
\* lists them, unless they have come out of another one: RemoveActivator looks
\* for the player in the list before it clears the handle, so a player sent to
\* a portal whose trigger has not seen them stays in it.
OnlyTeleportForgets ==
    [][ Accounted /\ ~Accounted' =>
            \E p \in Liquids, covered \in SUBSET Entities : Think(p, covered) ]_vars

\* A fill that is not started again and again ends, and with it all that was
\* left has gone.
FillEnds ==
    \A p \in Liquids :
        <>[][\A d \in 0..MaxFill : ~InputStartFilling(p, d)]_vars
            => (filling[p] ~> ~filling[p])
=============================================================================
