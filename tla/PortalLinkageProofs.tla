------------------------ MODULE PortalLinkageProofs ------------------------
(***************************************************************************)
(* Proofs about PortalLinkage, for any number of portals, groups and       *)
(* places.                                                                 *)
(*                                                                         *)
(* LinkSymmetric, LinkedAreActive, SimulatorAgrees, OppositeColours and    *)
(* MatrixFresh need each other: an abandoned partner may only look for a   *)
(* new one because its link was symmetric, and the one it finds is active  *)
(* because the scan asks.  IInv adds what the entities' life contributes.  *)
(* OnlyDestructionStrands needs ListsComplete besides: the scan finds      *)
(* whoever waits only if the list of the group has everybody.              *)
(***************************************************************************)
EXTENDS PortalLinkage, SequenceTheorems, TLAPS

\* An entity that does not exist is not active, hence linked to nobody.
UnbornInactive == \A p \in Portals : status[p] = "none" => ~active[p]

\* The portal an input is opening stays active, whatever it fizzles, and no
\* input runs during a load.
InputActive ==
    input # Idle => /\ status[input.who] = "live"
                    /\ active[input.who]
                    /\ input.who \notin input.left
                    /\ Unloaded = {}

IInv ==
    /\ TypeOK
    /\ LinkSymmetric
    /\ LinkedAreActive
    /\ SimulatorAgrees
    /\ OppositeColours
    /\ MatrixFresh
    /\ UnbornInactive
    /\ InputActive

\* Functions that agree on their domain are equal.
LEMMA SameFunction ==
    ASSUME NEW S, NEW T, NEW f \in [S -> T], NEW g \in [S -> T],
           \A x \in S : f[x] = g[x]
    PROVE  f = g
OBVIOUS

-----------------------------------------------------------------------------
(* The call UpdatePortalLinkage *)

\* What its callers guarantee for an active p: everybody else is linked both
\* ways to an active partner and attached to it; p is too, or its old partner
\* is inactive, already unlinked and detached.  The passages between two
\* portals of U are linked, but not attached yet.
Prepared(p, on, lk, att, U) ==
    /\ on \in [Portals -> BOOLEAN]
    /\ lk \in [Portals -> Portals \cup {NoPortal}]
    /\ att \in [Portals -> Portals \cup {NoPortal}]
    /\ on[p]
    /\ \A x \in Portals : lk[x] # NoPortal =>
          /\ lk[x] # x
          /\ on[x]
          /\ \/ on[lk[x]] /\ lk[lk[x]] = x
             \/ x = p /\ ~on[lk[x]] /\ lk[lk[x]] = NoPortal
    /\ \A x \in Portals :
          att[x] = IF lk[x] # NoPortal /\ on[lk[x]] /\ ~(x \in U /\ lk[x] \in U)
                   THEN lk[x] ELSE NoPortal

\* What it returns: links symmetric and between active portals, simulators
\* attached accordingly, p's among them; links that were good are untouched.
Joined(p, on, lk, U) ==
    /\ linked' \in [Portals -> Portals \cup {NoPortal}]
    /\ attached' \in [Portals -> Portals \cup {NoPortal}]
    /\ \A x \in Portals :
          attached'[x] = IF x \in U \ {p} /\ linked'[x] \in U \ {p} THEN NoPortal ELSE linked'[x]
    /\ \A x \in Portals : linked'[x] # NoPortal =>
          linked'[x] # x /\ linked'[linked'[x]] = x /\ on[x] /\ on[linked'[x]]
    /\ \A x \in Portals : lk[x] # NoPortal /\ on[lk[x]] => linked'[x] = lk[x]
    /\ \A x \in Portals : x # p /\ linked'[x] # p => linked'[x] = lk[x]

LEMMA LinkageJoins ==
    ASSUME NEW p \in Portals, NEW on, NEW lk, NEW att, NEW U \in SUBSET Portals,
           Prepared(p, on, lk, att, U),
           UpdatePortalLinkage(p, on, lk, att)
    PROVE  Joined(p, on, lk, U)
<1> USE NoPortalAssumption
<1>1. CASE RenewLink(p, on, lk, att)
  <2> DEFINE q == lk[p]
  <2>1. q \in Portals /\ q # p /\ on[q] /\ lk[q] = p
    BY <1>1 DEF RenewLink, KeepsLink, Prepared
  <2>2. linked' = lk
    BY <1>1 DEF RenewLink, KeepsLink, Prepared
  <2>3. attached' = [att EXCEPT ![p] = q, ![q] = p]
    <3>1. att \in [Portals -> Portals \cup {NoPortal}]
      BY DEF Prepared
    <3>2. CASE att[p] = q
      <4>1. attached' = att
        BY <1>1, <3>2 DEF RenewLink, Attached
      <4>2. att[q] = p
        BY <2>1, <3>2 DEF Prepared
      <4> QED BY <3>1, <3>2, <4>1, <4>2
    <3>3. CASE att[p] # q
      <4>1. att[p] = NoPortal
        BY <2>1, <3>3 DEF Prepared
      <4> QED BY <1>1, <3>3, <4>1 DEF RenewLink, Attached, Detached
    <3> QED BY <3>2, <3>3
  <2>4. \A x \in Portals \ {p, q} : lk[x] # p /\ lk[x] # q
    BY <2>1 DEF Prepared
  <2>5. \A x \in Portals \ {p, q} : lk[x] # NoPortal => on[lk[x]]
    BY DEF Prepared
  <2>6. attached' \in [Portals -> Portals \cup {NoPortal}]
    BY <2>1, <2>3 DEF Prepared
  <2>7. \A x \in Portals :
          attached'[x] = IF x \in U \ {p} /\ lk[x] \in U \ {p} THEN NoPortal ELSE lk[x]
    <3> SUFFICES ASSUME NEW x \in Portals
                 PROVE  attached'[x] = IF x \in U \ {p} /\ lk[x] \in U \ {p} THEN NoPortal ELSE lk[x]
      OBVIOUS
    <3>1. CASE x \in {p, q}
      BY <2>1, <2>3, <3>1 DEF Prepared
    <3>2. CASE x \notin {p, q}
      <4>1. attached'[x] = att[x]
        BY <2>3, <3>2 DEF Prepared
      <4> QED BY <2>4, <2>5, <3>2, <4>1 DEF Prepared
    <3> QED BY <3>1, <3>2
  <2> QED BY <1>1, <2>1, <2>2, <2>6, <2>7 DEF Joined, Prepared
<1>2. CASE TakePartner(p, on, lk, att)
  <2>1. PICK q \in Waiting(p, on, lk) :
          /\ linked' = [lk EXCEPT ![p] = q, ![q] = p]
          /\ attached' = Attached(att, q, p)
    BY <1>2 DEF TakePartner, FirstWaiting
  <2>2. q \in Portals /\ q # p /\ on[q] /\ lk[q] = NoPortal
    BY <2>1 DEF Waiting
  <2>3. ~(lk[p] # NoPortal /\ on[lk[p]])
    BY <1>2 DEF TakePartner, KeepsLink
  <2>4. att[p] = NoPortal /\ att[q] = NoPortal
    BY <2>2, <2>3 DEF Prepared
  <2>5. attached' = [att EXCEPT ![q] = p, ![p] = q]
    BY <2>1, <2>2, <2>4 DEF Attached, Detached
  <2>6. \A x \in Portals \ {p, q} : lk[x] # NoPortal => lk[x] # p /\ lk[x] # q /\ on[lk[x]]
    BY <2>2, <2>3 DEF Prepared
  <2>7. /\ attached' \in [Portals -> Portals \cup {NoPortal}]
        /\ linked' \in [Portals -> Portals \cup {NoPortal}]
    BY <2>1, <2>2, <2>5 DEF Prepared
  <2>8. \A x \in Portals \ {p, q} : attached'[x] = att[x] /\ linked'[x] = lk[x]
    BY <2>1, <2>2, <2>5 DEF Prepared
  <2>9. attached'[p] = linked'[p] /\ attached'[q] = linked'[q] /\ linked'[q] = p
    BY <2>1, <2>2, <2>5 DEF Prepared
  <2>10. \A x \in Portals :
           attached'[x] = IF x \in U \ {p} /\ linked'[x] \in U \ {p} THEN NoPortal ELSE linked'[x]
    <3>1. \A x \in Portals \ {p, q} :
            att[x] = IF x \in U \ {p} /\ lk[x] \in U \ {p} THEN NoPortal ELSE lk[x]
      BY <2>6 DEF Prepared
    <3> QED BY <2>8, <2>9, <3>1
  <2> QED BY <2>1, <2>2, <2>3, <2>6, <2>7, <2>10 DEF Joined, Prepared
<1>3. CASE StayAlone(p, on, lk, att)
  <2>1. ~(lk[p] # NoPortal /\ on[lk[p]])
    BY <1>3 DEF StayAlone, KeepsLink
  <2>2. attached' = att /\ linked' = [lk EXCEPT ![p] = NoPortal]
    BY <1>3, <2>1 DEF StayAlone, Detached, Prepared
  <2>3. \A x \in Portals \ {p} : lk[x] # NoPortal => lk[x] # p /\ on[lk[x]]
    BY <2>1 DEF Prepared
  <2>4. /\ attached' \in [Portals -> Portals \cup {NoPortal}]
        /\ linked' \in [Portals -> Portals \cup {NoPortal}]
    BY <2>2 DEF Prepared
  <2>5. \A x \in Portals :
          attached'[x] = IF x \in U \ {p} /\ linked'[x] \in U \ {p} THEN NoPortal ELSE linked'[x]
    BY <2>1, <2>2, <2>3 DEF Prepared
  <2> QED BY <2>1, <2>2, <2>3, <2>4, <2>5 DEF Joined, Prepared
<1> QED BY <1>1, <1>2, <1>3 DEF UpdatePortalLinkage

\* The colours after the call: still two per passage.
LEMMA LinkageColours ==
    ASSUME NEW p \in Portals, NEW on, NEW lk, NEW att, NEW U \in SUBSET Portals,
           Prepared(p, on, lk, att, U),
           UpdatePortalLinkage(p, on, lk, att),
           isPortal2 \in [Portals -> BOOLEAN],
           \A x \in Portals : lk[x] # NoPortal /\ on[lk[x]] =>
               isPortal2[x] # isPortal2[lk[x]]
    PROVE  isPortal2' \in [Portals -> BOOLEAN] /\ OppositeColours'
<1> USE NoPortalAssumption
<1>1. CASE RenewLink(p, on, lk, att)
  BY <1>1 DEF RenewLink, KeepsLink, Prepared, OppositeColours
<1>2. CASE TakePartner(p, on, lk, att)
  <2>1. PICK q \in Waiting(p, on, lk) :
          /\ linked' = [lk EXCEPT ![p] = q, ![q] = p]
          /\ isPortal2' = [isPortal2 EXCEPT ![q] = ~isPortal2[p]]
    BY <1>2 DEF TakePartner, FirstWaiting
  <2>2. q \in Portals /\ q # p /\ on[q] /\ lk[q] = NoPortal
    BY <2>1 DEF Waiting
  <2>3. ~(lk[p] # NoPortal /\ on[lk[p]])
    BY <1>2 DEF TakePartner, KeepsLink
  <2>4. \A x \in Portals \ {p, q} : lk[x] # NoPortal => lk[x] # p /\ lk[x] # q /\ on[lk[x]]
    BY <2>2, <2>3 DEF Prepared
  <2> QED BY <2>1, <2>2, <2>4 DEF OppositeColours, Prepared
<1>3. CASE StayAlone(p, on, lk, att)
  BY <1>3 DEF StayAlone, KeepsLink, Prepared, OppositeColours
<1> QED BY <1>1, <1>2, <1>3 DEF UpdatePortalLinkage

-----------------------------------------------------------------------------
(* The calls the actions make *)

\* The part of IInv that UpdatePortalLinkage is about.
LinkInv ==
    /\ linked \in [Portals -> Portals \cup {NoPortal}]
    /\ attached \in [Portals -> Portals \cup {NoPortal}]
    /\ isPortal2 \in [Portals -> BOOLEAN]
    /\ LinkSymmetric
    /\ LinkedAreActive
    /\ SimulatorAgrees
    /\ OppositeColours

\* p is active or becomes so, and calls UpdatePortalLinkage; if it was still
\* to be activated after a load, it no longer is.
LEMMA OpenCall ==
    ASSUME IInv, NEW p \in Portals,
           active' = [active EXCEPT ![p] = TRUE],
           Unloaded' = Unloaded \ {p},
           UpdatePortalLinkage(p, active', linked, attached)
    PROVE  LinkInv' /\ Joined(p, active', linked, Unloaded)
<1> USE NoPortalAssumption
<1>0. LinkInv /\ active \in [Portals -> BOOLEAN] /\ Unloaded \in SUBSET Portals
  BY DEF IInv, TypeOK, LinkInv, Unloaded
<1>1. Prepared(p, active', linked, attached, Unloaded)
  <2>1. \A x \in Portals : linked[x] # NoPortal => active'[linked[x]]
    BY <1>0 DEF LinkInv, LinkedAreActive
  <2>2. \A x \in Portals :
          attached[x] = IF linked[x] # NoPortal /\ active'[linked[x]]
                           /\ ~(x \in Unloaded /\ linked[x] \in Unloaded)
                        THEN linked[x] ELSE NoPortal
    BY <1>0, <2>1 DEF LinkInv, SimulatorAgrees, AwaitsAttachment
  <2> QED BY <1>0, <2>2 DEF LinkInv, LinkSymmetric, LinkedAreActive, Prepared
<1>2. Joined(p, active', linked, Unloaded)
  BY <1>0, <1>1, LinkageJoins
<1>3. \A x \in Portals : linked[x] # NoPortal /\ active'[linked[x]] =>
        isPortal2[x] # isPortal2[linked[x]]
  BY <1>0 DEF LinkInv, OppositeColours
<1>4. isPortal2 \in [Portals -> BOOLEAN]
  BY <1>0 DEF LinkInv
<1>5. isPortal2' \in [Portals -> BOOLEAN] /\ OppositeColours'
  BY <1>0, <1>1, <1>3, <1>4, LinkageColours
<1>6. SimulatorAgrees'
  BY <1>2 DEF Joined, SimulatorAgrees, AwaitsAttachment
<1> QED BY <1>2, <1>5, <1>6 DEF Joined, LinkInv, LinkSymmetric, LinkedAreActive

\* p is inactive or becomes so, and abandons its partner, if it has one; during
\* a load it has none.
LEMMA CloseCall ==
    ASSUME IInv, NEW p \in Portals,
           active' = [active EXCEPT ![p] = FALSE],
           Unloaded' = Unloaded \ {p},
           linked[p] # NoPortal => Unloaded = {},
           Abandon(p, active')
    PROVE  /\ LinkInv'
           /\ linked[p] = NoPortal => linked' = linked
           /\ linked[p] # NoPortal =>
                 Joined(linked[p], active', [linked EXCEPT ![p] = NoPortal], {})
<1> USE NoPortalAssumption
<1>0. LinkInv /\ active \in [Portals -> BOOLEAN]
  BY DEF IInv, TypeOK, LinkInv
<1>1. CASE linked[p] = NoPortal
  <2>1. attached[p] = NoPortal
    BY <1>0, <1>1 DEF LinkInv, SimulatorAgrees
  <2>2. linked' = linked /\ attached' = attached /\ isPortal2' = isPortal2
    BY <1>1, <2>1 DEF Abandon, Detached
  <2>3. \A x \in Portals : linked[x] # p
    BY <1>0, <1>1 DEF LinkInv, LinkSymmetric
  <2>4. SimulatorAgrees'
    BY <1>0, <1>1, <2>2, <2>3 DEF LinkInv, SimulatorAgrees, AwaitsAttachment
  <2> QED BY <1>0, <1>1, <2>2, <2>3, <2>4 DEF LinkInv, LinkSymmetric,
             LinkedAreActive, OppositeColours
<1>2. CASE linked[p] # NoPortal
  <2> DEFINE q == linked[p]
             lk == [linked EXCEPT ![p] = NoPortal]
             att == Detached(attached, p)
  <2>0. attached = linked /\ Unloaded = {} /\ Unloaded' = {}
    <3>1. Unloaded = {}
      BY <1>2
    <3>2. \A x \in Portals : attached[x] = linked[x]
      BY <1>0, <3>1 DEF LinkInv, SimulatorAgrees, AwaitsAttachment
    <3> QED BY <1>0, <3>1, <3>2, SameFunction DEF LinkInv
  <2>1. q \in Portals /\ q # p /\ linked[q] = p
    BY <1>0, <1>2 DEF LinkInv, LinkSymmetric
  <2>2. UpdatePortalLinkage(q, active', lk, att)
    BY <1>2 DEF Abandon
  <2>3. att = [linked EXCEPT ![q] = NoPortal, ![p] = NoPortal]
    BY <1>2, <2>0 DEF Detached
  <2>4. \A x \in Portals : x # q => lk[x] # p
    BY <1>0, <2>1 DEF LinkInv, LinkSymmetric
  <2>5. \A x \in Portals : x # p => linked[x] # q
    BY <1>0, <2>1 DEF LinkInv, LinkSymmetric
  <2>6. Prepared(q, active', lk, att, {})
    <3>1. \A x \in Portals : lk[x] # NoPortal =>
            /\ lk[x] # x
            /\ active'[x]
            /\ \/ active'[lk[x]] /\ lk[lk[x]] = x
               \/ x = q /\ ~active'[lk[x]] /\ lk[lk[x]] = NoPortal
      BY <1>0, <2>1, <2>4, <2>5 DEF LinkInv, LinkSymmetric, LinkedAreActive
    <3>2. \A x \in Portals :
            att[x] = IF lk[x] # NoPortal /\ active'[lk[x]] THEN lk[x] ELSE NoPortal
      BY <1>0, <2>1, <2>3, <2>4, <2>5 DEF LinkInv, LinkedAreActive
    <3>3. /\ active' \in [Portals -> BOOLEAN]
          /\ lk \in [Portals -> Portals \cup {NoPortal}]
          /\ att \in [Portals -> Portals \cup {NoPortal}]
          /\ active'[q]
      BY <1>0, <1>2, <2>1, <2>3 DEF LinkInv, LinkedAreActive
    <3> HIDE DEF q, lk, att
    <3> QED BY <3>1, <3>2, <3>3 DEF Prepared
  <2>7. Joined(q, active', lk, {})
    BY <2>1, <2>2, <2>6, LinkageJoins
  <2>8. \A x \in Portals : lk[x] # NoPortal /\ active'[lk[x]] =>
          isPortal2[x] # isPortal2[lk[x]]
    BY <1>0 DEF LinkInv, OppositeColours
  <2>9. isPortal2 \in [Portals -> BOOLEAN]
    BY <1>0 DEF LinkInv
  <2>10. isPortal2' \in [Portals -> BOOLEAN] /\ OppositeColours'
    <3>1. {} \in SUBSET Portals
      OBVIOUS
    <3> QED BY <2>1, <2>2, <2>6, <2>8, <2>9, <3>1, LinkageColours
  <2>11. SimulatorAgrees'
    BY <2>0, <2>7 DEF Joined, SimulatorAgrees, AwaitsAttachment
  <2> QED BY <1>2, <2>7, <2>10, <2>11 DEF Joined, LinkInv, LinkSymmetric, LinkedAreActive
<1> QED BY <1>1, <1>2
-----------------------------------------------------------------------------
(* The matrices *)

Matrices == [Portals -> {Identity} \cup (Spots \X Spots)]

Fresh(m, lk, at) ==
    \A x \in Portals : lk[x] # NoPortal => m[x] = <<at[x], at[lk[x]]>>

\* Measuring p and its partner is enough when all others are fresh.
LEMMA Remeasure ==
    ASSUME NEW p \in Portals, NEW m \in Matrices, NEW at \in [Portals -> Spots],
           NEW lk \in [Portals -> Portals \cup {NoPortal}],
           \A x \in Portals : lk[x] # NoPortal => lk[x] # x /\ lk[lk[x]] = x,
           \A x \in Portals : lk[x] # NoPortal /\ x # p /\ lk[x] # p =>
               m[x] = <<at[x], at[lk[x]]>>
    PROVE  /\ Remeasured(m, lk, at, p) \in Matrices
           /\ MeasuredIfLinked(m, lk, at, p) \in Matrices
           /\ Fresh(Remeasured(m, lk, at, p), lk, at)
           /\ Fresh(MeasuredIfLinked(m, lk, at, p), lk, at)
<1> USE NoPortalAssumption
<1>1. CASE lk[p] = NoPortal
  <2>1. \A x \in Portals : lk[x] # NoPortal => x # p /\ lk[x] # p
    BY <1>1
  <2> QED BY <1>1, <2>1 DEF Remeasured, MeasuredIfLinked, Matrices, Fresh
<1>2. CASE lk[p] # NoPortal
  <2> DEFINE q == lk[p]
             r == Remeasured(m, lk, at, p)
  <2>1. q \in Portals /\ q # p /\ lk[q] = p
    BY <1>2
  <2>2. r = [m EXCEPT ![q] = <<at[q], at[p]>>, ![p] = <<at[p], at[q]>>]
    BY <1>2 DEF Remeasured
  <2>3. <<at[q], at[p]>> \in Spots \X Spots /\ <<at[p], at[q]>> \in Spots \X Spots
    BY <2>1
  <2>4. r \in Matrices
    BY <2>1, <2>2, <2>3 DEF Matrices
  <2>5. r[p] = <<at[p], at[q]>> /\ r[q] = <<at[q], at[p]>>
    BY <2>1, <2>2 DEF Matrices
  <2>6. \A x \in Portals \ {p, q} : r[x] = m[x]
    BY <2>1, <2>2 DEF Matrices
  <2>7. \A x \in Portals : lk[x] # NoPortal /\ x \notin {p, q} => lk[x] # p
    BY <2>1
  <2>8. Fresh(r, lk, at)
    <3> SUFFICES ASSUME NEW x \in Portals, lk[x] # NoPortal
                 PROVE  r[x] = <<at[x], at[lk[x]]>>
      BY DEF Fresh
    <3>1. CASE x = p
      BY <3>1, <2>5
    <3>2. CASE x = q
      BY <3>2, <2>1, <2>5
    <3>3. CASE x \notin {p, q}
      <4> HIDE DEF r, q
      <4> QED BY <3>3, <2>6, <2>7
    <3> QED BY <3>1, <3>2, <3>3
  <2>9. MeasuredIfLinked(m, lk, at, p) = r
    BY <1>2 DEF MeasuredIfLinked
  <2> QED BY <2>4, <2>8, <2>9
<1> QED BY <1>1, <1>2

\* The matrices after p's own call, p having possibly moved.
LEMMA OpenFresh ==
    ASSUME IInv, NEW p \in Portals,
           active' = [active EXCEPT ![p] = TRUE],
           Unloaded' = Unloaded \ {p},
           UpdatePortalLinkage(p, active', linked, attached),
           NEW m \in Matrices, Fresh(m, linked, spot),
           NEW at \in [Portals -> Spots],
           \A x \in Portals : x # p => at[x] = spot[x]
    PROVE  /\ Remeasured(m, linked', at, p) \in Matrices
           /\ MeasuredIfLinked(m, linked', at, p) \in Matrices
           /\ Fresh(Remeasured(m, linked', at, p), linked', at)
           /\ Fresh(MeasuredIfLinked(m, linked', at, p), linked', at)
<1> USE NoPortalAssumption
<1>1. LinkInv' /\ Joined(p, active', linked, Unloaded)
  BY OpenCall
<1>2. /\ linked' \in [Portals -> Portals \cup {NoPortal}]
      /\ \A x \in Portals : linked'[x] # NoPortal =>
            linked'[x] # x /\ linked'[linked'[x]] = x
  BY <1>1 DEF LinkInv, LinkSymmetric
<1>3. \A x \in Portals : linked'[x] # NoPortal /\ x # p /\ linked'[x] # p =>
         m[x] = <<at[x], at[linked'[x]]>>
  BY <1>1, <1>2 DEF Joined, Fresh
<1> QED BY <1>2, <1>3, Remeasure

\* The matrices after p has abandoned its partner, which is measured.
LEMMA CloseFresh ==
    ASSUME IInv, NEW p \in Portals,
           active' = [active EXCEPT ![p] = FALSE],
           Unloaded' = Unloaded \ {p},
           linked[p] # NoPortal => Unloaded = {},
           Abandon(p, active'),
           NEW m \in Matrices, Fresh(m, linked, spot)
    PROVE  /\ MeasuredAfterLoss(m, linked', spot, p) \in Matrices
           /\ Fresh(MeasuredAfterLoss(m, linked', spot, p), linked', spot)
<1> USE NoPortalAssumption
<1>1. CASE linked[p] = NoPortal
  <2>1. linked' = linked
    BY <1>1, CloseCall
  <2> QED BY <1>1, <2>1 DEF MeasuredAfterLoss
<1>2. CASE linked[p] # NoPortal
  <2>1. LinkInv' /\ Joined(linked[p], active', [linked EXCEPT ![p] = NoPortal], {})
    BY <1>2, CloseCall
  <2>2. /\ linked' \in [Portals -> Portals \cup {NoPortal}]
        /\ \A x \in Portals : linked'[x] # NoPortal =>
              linked'[x] # x /\ linked'[linked'[x]] = x
    BY <2>1 DEF LinkInv, LinkSymmetric
  <2>3. /\ linked \in [Portals -> Portals \cup {NoPortal}]
        /\ spot \in [Portals -> Spots]
        /\ linked[p] \in Portals
    BY <1>2 DEF IInv, TypeOK
  <2>4. \A x \in Portals : linked'[x] # NoPortal /\ x # linked[p] /\ linked'[x] # linked[p] =>
           m[x] = <<spot[x], spot[linked'[x]]>>
    BY <2>1, <2>2, <2>3 DEF Joined, Fresh
  <2>5. /\ MeasuredIfLinked(m, linked', spot, linked[p]) \in Matrices
        /\ Fresh(MeasuredIfLinked(m, linked', spot, linked[p]), linked', spot)
    BY <2>2, <2>3, <2>4, Remeasure
  <2> QED BY <1>2, <2>5 DEF MeasuredAfterLoss
<1> QED BY <1>1, <1>2

\* What IInv says of the matrices.
LEMMA MatricesNow ==
    ASSUME IInv
    PROVE  matrix \in Matrices /\ Fresh(matrix, linked, spot) /\ spot \in [Portals -> Spots]
BY DEF IInv, TypeOK, MatrixFresh, Matrices, Fresh

\* UpdatePortalTeleportMatrix out of turn changes nothing that matters.
LEMMA RemeasureNow ==
    ASSUME IInv, NEW p \in Portals
    PROVE  /\ Remeasured(matrix, linked, spot, p) \in Matrices
           /\ Fresh(Remeasured(matrix, linked, spot, p), linked, spot)
<1>1. linked \in [Portals -> Portals \cup {NoPortal}]
  BY DEF IInv, TypeOK
<1>2. \A x \in Portals : linked[x] # NoPortal => linked[x] # x /\ linked[linked[x]] = x
  BY DEF IInv, LinkSymmetric
<1> QED BY <1>1, <1>2, MatricesNow, Remeasure DEF Fresh

-----------------------------------------------------------------------------
(* IInv is inductive: one lemma per kind of action *)

\* What the actions that only open, move or close portals keep by themselves.
LifeInv ==
    /\ status \in [Portals -> Status]
    /\ active \in [Portals -> BOOLEAN]
    /\ group \in [Portals -> Groups]
    /\ members \in [Groups -> Seq(Portals)]
    /\ spot \in [Portals -> Spots]
    /\ input \in {Idle} \cup InputInProgress
    /\ UnbornInactive
    /\ InputActive

\* IInv, taken apart by which calls can disturb it.
LEMMA PartsMakeIInv ==
    IInv <=> LinkInv /\ LifeInv /\ matrix \in Matrices /\ Fresh(matrix, linked, spot)
BY DEF IInv, LinkInv, LifeInv, TypeOK, MatrixFresh, Matrices, Fresh

\* The same of the next state, in the direction the action lemmas need.
LEMMA PartsMakeIInvNext ==
    LinkInv' /\ LifeInv' /\ matrix' \in Matrices /\ Fresh(matrix', linked', spot') => IInv'
BY DEF IInv, LinkInv, LifeInv, TypeOK, MatrixFresh, Matrices, Fresh

\* A map without portals satisfies the invariant.
LEMMA InitIInv == Init => IInv
<1> SUFFICES ASSUME Init PROVE IInv
  OBVIOUS
<1> USE NoPortalAssumption DEF Init
<1>1. LifeInv
  BY EmptySeq DEF LifeInv, Status, UnbornInactive, InputActive, Idle
<1>2. LinkInv
  BY DEF LinkInv, LinkSymmetric, LinkedAreActive, SimulatorAgrees, OppositeColours
<1>3. matrix \in Matrices /\ Fresh(matrix, linked, spot)
  BY DEF Matrices, Fresh
<1> QED BY <1>1, <1>2, <1>3, PartsMakeIInv

\* A new portal takes the slot of none, so that no link leads to it.
LEMMA ArriveIInv ==
    ASSUME IInv, NEW p \in Portals, NEW g \in Groups, NEW two \in BOOLEAN,
           NEW on \in BOOLEAN, NEW st \in {"spawned", "live"},
           Arrive(p, g, two, on, st), input = Idle,
           spot' \in [Portals -> Spots],
           \A x \in Portals : x # p => spot'[x] = spot[x]
    PROVE  IInv'
<1> USE NoPortalAssumption DEF Arrive
<1>1. LinkInv /\ LifeInv /\ matrix \in Matrices /\ Fresh(matrix, linked, spot)
  BY PartsMakeIInv
<1>2. ~active[p]
  BY <1>1 DEF LifeInv, UnbornInactive
<1>3. \A x \in Portals : linked[x] # NoPortal => linked[x] # p /\ x # p
  BY <1>1, <1>2 DEF LinkInv, LinkedAreActive
<1>4. LinkInv'
  <2>1. status \in [Portals -> Status]
    BY <1>1 DEF LifeInv
  <2>2. Unloaded' = Unloaded
    BY <2>1 DEF Unloaded
  <2>3. SimulatorAgrees'
    BY <1>1, <2>2 DEF LinkInv, SimulatorAgrees, AwaitsAttachment
  <2> QED BY <1>1, <1>3, <2>3 DEF LinkInv, LinkSymmetric, LinkedAreActive,
                                  OppositeColours, LifeInv
<1>5. LifeInv'
  <2>1. members' \in [Groups -> Seq(Portals)]
    BY <1>1, AppendProperties DEF LifeInv
  <2>2. status' \in [Portals -> Status]
    BY <1>1 DEF LifeInv, Status
  <2>3. UnbornInactive'
    BY <1>1 DEF LifeInv, UnbornInactive
  <2>4. /\ active' \in [Portals -> BOOLEAN]
        /\ group' \in [Portals -> Groups]
    BY <1>1 DEF LifeInv
  <2> QED BY <1>1, <2>1, <2>2, <2>3, <2>4 DEF LifeInv, InputActive
<1>6. Fresh(matrix, linked, spot')
  BY <1>1, <1>3 DEF Fresh, LinkInv
<1> QED BY <1>1, <1>4, <1>5, <1>6, PartsMakeIInvNext

\* A portal that is open afterwards has moved or brought its linkage up to date.
LEMMA OpenIInv ==
    ASSUME IInv, NEW p \in Portals, status[p] # "none",
           active' = [active EXCEPT ![p] = TRUE],
           Unloaded' = Unloaded \ {p},
           UpdatePortalLinkage(p, active', linked, attached),
           NEW m \in Matrices, Fresh(m, linked, spot),
           spot' \in [Portals -> Spots],
           \A x \in Portals : x # p => spot'[x] = spot[x],
           \/ matrix' = Remeasured(m, linked', spot', p)
           \/ matrix' = MeasuredIfLinked(m, linked', spot', p),
           LifeInv'
    PROVE  IInv'
<1>1. LinkInv'
  BY OpenCall
<1>2. matrix' \in Matrices /\ Fresh(matrix', linked', spot')
  BY OpenFresh
<1> QED BY <1>1, <1>2, PartsMakeIInvNext

\* A portal that is closed afterwards has let go of its partner, which has
\* looked for another one.
LEMMA CloseIInv ==
    ASSUME IInv, NEW p \in Portals,
           active' = [active EXCEPT ![p] = FALSE],
           Unloaded' = Unloaded \ {p},
           linked[p] # NoPortal => Unloaded = {},
           Abandon(p, active'),
           NEW m \in Matrices, Fresh(m, linked, spot),
           matrix' = MeasuredAfterLoss(m, linked', spot, p),
           spot' = spot,
           LifeInv'
    PROVE  IInv'
<1>1. LinkInv'
  BY CloseCall
<1>2. matrix' \in Matrices /\ Fresh(matrix', linked', spot')
  BY CloseFresh
<1> QED BY <1>1, <1>2, PartsMakeIInvNext

\* The destructor leaves the list and the links of the others well-formed,
\* also when the portal was picked as a partner after its removal.
LEMMA DestroyIInv ==
    ASSUME IInv, NEW p \in Portals, Destroy(p)
    PROVE  IInv'
<1> USE NoPortalAssumption DEF Destroy
<1>1. LinkInv /\ LifeInv /\ matrix \in Matrices /\ Fresh(matrix, linked, spot)
  BY PartsMakeIInv
<1>2. /\ linked' \in [Portals -> Portals \cup {NoPortal}]
      /\ \A x \in Portals :
            linked'[x] = IF x = p \/ linked[x] = p THEN NoPortal ELSE linked[x]
  BY <1>1 DEF LinkInv
<1>3. \A x \in Portals : linked'[x] # NoPortal =>
         /\ x # p /\ linked'[x] # p /\ linked'[x] = linked[x]
         /\ linked'[linked[x]] = x
  BY <1>1, <1>2 DEF LinkInv, LinkSymmetric
<1>4. SimulatorAgrees' /\ attached' \in [Portals -> Portals \cup {NoPortal}]
  <2>1. attached' \in [Portals -> Portals \cup {NoPortal}]
    BY <1>1 DEF LinkInv, Detached
  <2>2. Unloaded = {} /\ status \in [Portals -> Status]
    BY <1>1 DEF Settled, LifeInv
  <2>3. Unloaded' = {}
    BY <2>2 DEF Unloaded
  <2>4. \A x \in Portals : attached[x] = linked[x]
    BY <1>1, <2>2 DEF LinkInv, SimulatorAgrees, AwaitsAttachment
  <2>5. \A x \in Portals : attached'[x] = linked'[x]
    BY <1>1, <1>2, <2>4 DEF LinkInv, Detached, LinkSymmetric
  <2> QED BY <2>1, <2>3, <2>5 DEF SimulatorAgrees, AwaitsAttachment
<1>5. LinkInv'
  BY <1>1, <1>2, <1>3, <1>4 DEF LinkInv, LifeInv, LinkSymmetric, LinkedAreActive,
                                OppositeColours
<1>6. LifeInv'
  <2>1. PICK i \in DOMAIN members[group[p]] :
          members' = [members EXCEPT ![group[p]] =
                        SubSeq(@, 1, i - 1) \o SubSeq(@, i + 1, Len(@))]
    OBVIOUS
  <2> DEFINE s == members[group[p]]
  <2>2. s \in Seq(Portals) /\ i \in 1 .. Len(s) /\ Len(s) \in Nat
    <3>1. s \in Seq(Portals)
      BY <1>1 DEF LifeInv
    <3> HIDE DEF s
    <3>2. DOMAIN s = 1 .. Len(s) /\ Len(s) \in Nat
      BY <3>1, LenProperties
    <3> QED BY <3>1, <3>2, <2>1 DEF s
  <2>3. SubSeq(s, 1, i - 1) \in Seq(Portals) /\ SubSeq(s, i + 1, Len(s)) \in Seq(Portals)
    <3>1. \A k \in 1 .. Len(s) : s[k] \in Portals
      BY <2>2, ElementOfSeq
    <3>2. (\A k \in 1 .. (i - 1) : s[k] \in Portals) /\ (\A k \in (i + 1) .. Len(s) : s[k] \in Portals)
      BY <2>2, <3>1
    <3>3. i - 1 \in Int /\ i + 1 \in Int /\ Len(s) \in Int /\ 1 \in Int
      BY <2>2
    <3> HIDE DEF s
    <3> QED BY <3>2, <3>3, SubSeqProperties
  <2>4. SubSeq(s, 1, i - 1) \o SubSeq(s, i + 1, Len(s)) \in Seq(Portals)
    BY <2>3, ConcatProperties
  <2>5. members' \in [Groups -> Seq(Portals)]
    BY <1>1, <2>1, <2>4 DEF LifeInv
  <2>6. status' \in [Portals -> Status] /\ active' \in [Portals -> BOOLEAN] /\ input = Idle
    BY <1>1 DEF LifeInv, Status, Settled
  <2>7. UnbornInactive'
    BY <1>1 DEF LifeInv, UnbornInactive
  <2> QED BY <1>1, <2>5, <2>6, <2>7 DEF LifeInv, InputActive, Settled
<1>7. matrix' \in Matrices /\ Fresh(matrix', linked', spot')
  <2>1. matrix' \in Matrices
    BY <1>1 DEF Matrices
  <2> QED BY <1>1, <1>2, <1>3, <2>1 DEF Matrices, Fresh
<1> QED BY <1>5, <1>6, <1>7, PartsMakeIInvNext

\* UpdateOnRemove of a linked portal is a closing; of a waiting one, nothing.
LEMMA UpdateOnRemoveIInv ==
    ASSUME IInv, NEW p \in Portals, UpdateOnRemove(p)
    PROVE  IInv'
<1> USE NoPortalAssumption DEF UpdateOnRemove
<1>1. LinkInv /\ LifeInv /\ matrix \in Matrices /\ Fresh(matrix, linked, spot)
  BY PartsMakeIInv
<1>2. active' \in [Portals -> BOOLEAN] /\ \A x \in Portals : active'[x] => active[x]
  BY <1>1 DEF LifeInv
<1>3. LifeInv'
  BY <1>1, <1>2 DEF LifeInv, UnbornInactive, InputActive, Settled, Status
<1>a. Unloaded = {} /\ Unloaded' = {}
  BY <1>1 DEF Settled, LifeInv, Unloaded
<1>4. CASE linked[p] = NoPortal
  <2>1. LinkInv'
    BY <1>1, <1>4, <1>a DEF LinkInv, linkVars, LinkSymmetric, LinkedAreActive,
                            SimulatorAgrees, AwaitsAttachment, OppositeColours
  <2>2. matrix' \in Matrices /\ Fresh(matrix', linked', spot')
    BY <1>1, <1>4 DEF linkVars
  <2> QED BY <1>3, <2>1, <2>2, PartsMakeIInvNext
<1>5. CASE linked[p] # NoPortal
  <2> DEFINE m == MeasuredAfterLoss(matrix, linked', spot, p)
  <2>1. /\ active' = [active EXCEPT ![p] = FALSE]
        /\ Abandon(p, active')
        /\ matrix' = Remeasured(m, linked', spot, linked[p])
    BY <1>5
  <2>2. LinkInv'
    BY <1>a, <2>1, CloseCall
  <2>3. m \in Matrices /\ Fresh(m, linked', spot)
    BY <1>1, <1>a, <2>1, CloseFresh
  <2>4. linked[p] \in Portals /\ spot \in [Portals -> Spots]
    BY <1>1, <1>5 DEF LinkInv, LifeInv
  <2>5. /\ linked' \in [Portals -> Portals \cup {NoPortal}]
        /\ \A x \in Portals : linked'[x] # NoPortal =>
              linked'[x] # x /\ linked'[linked'[x]] = x
    BY <2>2 DEF LinkInv, LinkSymmetric
  <2>6. matrix' \in Matrices /\ Fresh(matrix', linked', spot)
    <3>1. \A x \in Portals : linked'[x] # NoPortal => m[x] = <<spot[x], spot[linked'[x]]>>
      BY <2>3 DEF Fresh
    <3> HIDE DEF m
    <3> QED BY <2>1, <2>3, <2>4, <2>5, <3>1, Remeasure
  <2> QED BY <1>3, <2>2, <2>6, PartsMakeIInvNext
<1> QED BY <1>4, <1>5

-----------------------------------------------------------------------------
(* What one step does to the passages *)

\* At most one portal opens or closes; the new links are all of one portal r
\* (the one whose linkage was updated); a passage with two open ends stays.
OneCall ==
    /\ \E p \in Portals : \A x \in Portals : x # p => active'[x] = active[x]
    /\ \E r \in Portals : \A x \in Portals :
          linked'[x] # NoPortal /\ x # r /\ linked'[x] # r => linked'[x] = linked[x]
    /\ \A x \in Portals :
          linked[x] # NoPortal /\ active'[x] /\ active'[linked[x]] => linked'[x] = linked[x]

\* Opening p, or bringing it up to date, only makes links of p.
LEMMA OpenOneCall ==
    ASSUME IInv, NEW p \in Portals,
           active' = [active EXCEPT ![p] = TRUE],
           Unloaded' = Unloaded \ {p},
           UpdatePortalLinkage(p, active', linked, attached)
    PROVE  OneCall
<1>1. Joined(p, active', linked, Unloaded) /\ active \in [Portals -> BOOLEAN]
  BY OpenCall DEF IInv, TypeOK
<1>2. \A x \in Portals : x # p => active'[x] = active[x]
  BY <1>1
<1>3. /\ \A x \in Portals : linked'[x] # NoPortal /\ x # p /\ linked'[x] # p => linked'[x] = linked[x]
      /\ \A x \in Portals : linked[x] # NoPortal /\ active'[linked[x]] => linked'[x] = linked[x]
  BY <1>1 DEF Joined
<1> QED BY <1>2, <1>3 DEF OneCall

\* A call that leaves the links as they are.
LEMMA StillOneCall ==
    ASSUME IInv, NEW p \in Portals,
           \A x \in Portals : x # p => active'[x] = active[x],
           linked' = linked
    PROVE  OneCall
BY DEF OneCall

\* Closing p only makes links of p's former partner.
LEMMA CloseOneCall ==
    ASSUME IInv, NEW p \in Portals,
           active' = [active EXCEPT ![p] = FALSE],
           Unloaded' = Unloaded \ {p},
           linked[p] # NoPortal => Unloaded = {},
           Abandon(p, active')
    PROVE  OneCall
<1>1. active \in [Portals -> BOOLEAN] /\ linked \in [Portals -> Portals \cup {NoPortal}]
  BY DEF IInv, TypeOK
<1>2. CASE linked[p] = NoPortal
  <2>1. linked' = linked
    BY <1>2, CloseCall
  <2>2. \A x \in Portals : x # p => active'[x] = active[x]
    BY <1>1
  <2> QED BY <2>1, <2>2, StillOneCall
<1>3. CASE linked[p] # NoPortal
  <2>1. Joined(linked[p], active', [linked EXCEPT ![p] = NoPortal], {})
    BY <1>3, CloseCall
  <2>2. linked[p] \in Portals
    BY <1>1, <1>3
  <2>3. \A x \in Portals : active'[x] => x # p
    BY <1>1
  <2> QED BY <1>1, <2>1, <2>2, <2>3 DEF Joined, OneCall
<1> QED BY <1>2, <1>3

-----------------------------------------------------------------------------
(* IInv is inductive: one step per action *)

\* Every action keeps the invariant, and does to the passages what one call may.
LEMMA StepIInv ==
    ASSUME IInv, Next
    PROVE  IInv' /\ OneCall
<1> USE NoPortalAssumption
<1>0. LinkInv /\ LifeInv /\ matrix \in Matrices /\ Fresh(matrix, linked, spot)
  BY PartsMakeIInv
<1>a. spot \in [Portals -> Spots] /\ active \in [Portals -> BOOLEAN]
  BY <1>0 DEF LifeInv
<1>b. \A p \in Portals : active[p] => active = [active EXCEPT ![p] = TRUE]
  BY <1>a
<1>c. \A p \in Portals : ~active[p] => active = [active EXCEPT ![p] = FALSE]
  BY <1>a
<1>d. Unloaded = {} /\ status' = status => \A p \in Portals : Unloaded' = Unloaded \ {p}
  BY DEF Unloaded
<1>1. ASSUME NEW p \in Portals, NEW g \in Groups, NEW two \in BOOLEAN, FindPortal(p, g, two)
      PROVE  IInv' /\ OneCall
  <2>1. input = Idle /\ spot' = spot /\ Arrive(p, g, two, FALSE, "live")
    BY <1>1 DEF FindPortal, Settled
  <2> QED BY <1>a, <2>1, ArriveIInv, StillOneCall DEF Arrive
<1>2. ASSUME NEW p \in Portals, NEW g \in Groups, NEW two \in BOOLEAN,
             NEW on \in BOOLEAN, NEW at \in Spots, SpawnFromMap(p, g, two, on, at)
      PROVE  IInv' /\ OneCall
  <2>1. input = Idle /\ spot' = [spot EXCEPT ![p] = at] /\ Arrive(p, g, two, on, "spawned")
    BY <1>2 DEF SpawnFromMap
  <2> QED BY <1>a, <2>1, ArriveIInv, StillOneCall DEF Arrive
<1>3. ASSUME NEW p \in Portals, Activate(p)
      PROVE  IInv' /\ OneCall
  <2> DEFINE m == Remeasured(matrix, linked, spot, p)
  <2>1. m \in Matrices /\ Fresh(m, linked, spot)
    BY RemeasureNow
  <2>2. active' = active /\ spot' = spot /\ status[p] # "none"
    BY <1>3 DEF Activate
  <2>3. LifeInv'
    <3>1. /\ status' \in [Portals -> Status] /\ group[p] \in Groups
          /\ members[group[p]] \in Seq(Portals)
      BY <1>0, <1>3 DEF Activate, LifeInv, Status
    <3>2. Listed(members[group[p]], p) \in Seq(Portals)
      BY <3>1, AppendProperties DEF Listed
    <3>3. members' \in [Groups -> Seq(Portals)]
      BY <1>0, <1>3, <3>2 DEF Activate, LifeInv
    <3>4. UnbornInactive' /\ InputActive'
      BY <1>0, <1>3 DEF Activate, LifeInv, UnbornInactive, InputActive
    <3> QED BY <1>0, <1>3, <3>1, <3>3, <3>4 DEF Activate, LifeInv
  <2>a. Unloaded' = Unloaded \ {p}
    BY <1>0, <1>3 DEF Activate, LifeInv, Unloaded
  <2>b. linked[p] # NoPortal => active[p]
    BY <1>0 DEF LinkInv, LinkedAreActive
  <2>4. CASE active[p]
    <3>1. /\ UpdatePortalLinkage(p, active', linked, attached)
          /\ matrix' = MeasuredIfLinked(m, linked', spot', p)
          /\ active' = [active EXCEPT ![p] = TRUE]
      BY <1>3, <1>b, <2>2, <2>4 DEF Activate
    <3> HIDE DEF m
    <3> QED BY <1>a, <2>1, <2>2, <2>3, <2>a, <3>1, OpenIInv, OpenOneCall
  <2>5. CASE ~active[p]
    <3>1. /\ Abandon(p, active')
          /\ matrix' = MeasuredAfterLoss(m, linked', spot, p)
          /\ active' = [active EXCEPT ![p] = FALSE]
      BY <1>3, <1>c, <2>2, <2>5 DEF Activate
    <3> HIDE DEF m
    <3> QED BY <2>1, <2>2, <2>3, <2>5, <2>a, <2>b, <3>1, CloseIInv, CloseOneCall
  <2> QED BY <2>4, <2>5
<1>4. ASSUME NEW p \in Portals, Fizzle(p)
      PROVE  IInv' /\ OneCall
  <2>1. LifeInv'
    BY <1>0, <1>4 DEF Fizzle, FizzlePortal, lifeVars, LifeInv, UnbornInactive,
                      InputActive, Settled
  <2>2. Unloaded = {} /\ Unloaded' = Unloaded \ {p}
    BY <1>4, <1>d DEF Fizzle, Settled, lifeVars
  <2> QED BY <1>0, <1>4, <2>1, <2>2, CloseIInv, CloseOneCall DEF Fizzle, FizzlePortal
<1>5. ASSUME NEW p \in Portals, NEW at \in Spots, NewLocation(p, at)
      PROVE  IInv' /\ OneCall
  <2>1. /\ spot' = [spot EXCEPT ![p] = at]
        /\ active' = [active EXCEPT ![p] = TRUE]
        /\ UpdatePortalLinkage(p, active', linked, attached)
        /\ matrix' = Remeasured(matrix, linked', spot', p)
        /\ status[p] # "none"
    BY <1>5 DEF NewLocation, MovePortal
  <2>2. LifeInv'
    BY <1>0, <1>5, <2>1 DEF NewLocation, lifeVars, LifeInv, UnbornInactive, InputActive, Settled
  <2>3. spot' \in [Portals -> Spots] /\ \A x \in Portals : x # p => spot'[x] = spot[x]
    BY <1>a, <2>1
  <2>4. Unloaded' = Unloaded \ {p}
    BY <1>5, <1>d DEF NewLocation, Settled, lifeVars
  <2> QED BY <1>0, <2>1, <2>2, <2>3, <2>4, OpenIInv, OpenOneCall
<1>6. ASSUME NEW p \in Portals, Deactivate(p)
      PROVE  IInv' /\ OneCall
  <2>1. LifeInv'
    BY <1>0, <1>6 DEF Deactivate, lifeVars, LifeInv, UnbornInactive, InputActive, Settled
  <2>2. Unloaded = {} /\ Unloaded' = Unloaded \ {p}
    BY <1>6, <1>d DEF Deactivate, Settled, lifeVars
  <2> QED BY <1>6, <2>1, <2>2, RemeasureNow, CloseIInv, CloseOneCall DEF Deactivate
<1>7. ASSUME NEW p \in Portals, SetActivatedState(p)
      PROVE  IInv' /\ OneCall
  <2>1. /\ active' = [active EXCEPT ![p] = TRUE]
        /\ linked' = linked /\ isPortal2' = isPortal2 /\ attached' = attached
        /\ matrix' = matrix /\ spot' = spot /\ status' = status /\ status[p] = "live"
        /\ group' = group /\ members' = members
    BY <1>7 DEF SetActivatedState, lifeVars, linkVars
  <2>2. PICK blocking \in SUBSET Portals :
          input' = [who |-> p, left |-> blocking, next |-> "place"] /\ p \notin blocking
    BY <1>7 DEF SetActivatedState, Overlapping
  <2>3. LifeInv'
    <3>1. UnbornInactive'
      BY <1>0, <2>1 DEF LifeInv, UnbornInactive
    <3>2. InputActive' /\ input' \in InputInProgress
      BY <1>7, <1>a, <2>1, <2>2 DEF SetActivatedState, Settled, Unloaded, InputActive,
                                    InputInProgress
    <3>3. active' \in [Portals -> BOOLEAN]
      BY <1>a, <2>1
    <3> QED BY <1>0, <2>1, <3>1, <3>2, <3>3 DEF LifeInv
  <2>4. LinkInv'
    BY <1>0, <1>a, <2>1 DEF LinkInv, LinkSymmetric, LinkedAreActive, SimulatorAgrees,
                            AwaitsAttachment, Unloaded, OppositeColours
  <2>5. matrix' \in Matrices /\ Fresh(matrix', linked', spot')
    BY <1>0, <2>1
  <2>6. \A x \in Portals : x # p => active'[x] = active[x]
    BY <2>1, <1>a
  <2> QED BY <2>1, <2>3, <2>4, <2>5, <2>6, PartsMakeIInvNext, StillOneCall
<1>8. ASSUME NEW p \in Portals, FizzleBlocking(p)
      PROVE  IInv' /\ OneCall
  <2>1. /\ active' = [active EXCEPT ![p] = FALSE]
        /\ Abandon(p, active')
        /\ matrix' = MeasuredAfterLoss(matrix, linked', spot, p)
        /\ spot' = spot
    BY <1>8 DEF FizzleBlocking, FizzlePortal
  <2>2. input \in InputInProgress /\ p \in input.left
    BY <1>0, <1>8 DEF FizzleBlocking, LifeInv
  <2>3. input' = [input EXCEPT !.left = @ \ {p}] /\ status' = status /\ group' = group
        /\ members' = members
    BY <1>8 DEF FizzleBlocking, lifeVars
  <2>4. input' \in InputInProgress /\ input'.who = input.who /\ input'.left \subseteq input.left
    BY <2>2, <2>3 DEF InputInProgress
  <2>5. input # Idle
    BY <1>8 DEF FizzleBlocking
  <2>a. Unloaded = {} /\ Unloaded' = Unloaded \ {p}
    BY <1>0, <1>d, <2>3, <2>5 DEF LifeInv, InputActive
  <2>6. InputActive'
    BY <1>0, <1>a, <2>1, <2>2, <2>3, <2>4, <2>5, <2>a DEF LifeInv, InputActive, InputInProgress
  <2>7. LifeInv'
    BY <1>0, <1>a, <2>1, <2>3, <2>4, <2>6 DEF LifeInv, UnbornInactive
  <2> QED BY <1>0, <2>1, <2>2, <2>7, <2>a, CloseIInv, CloseOneCall
<1>9. ASSUME PlaceFixed
      PROVE  IInv' /\ OneCall
  <2> DEFINE p == input.who
  <2>1. /\ input \in InputInProgress /\ p \in Portals
        /\ active[p] /\ status[p] = "live"
        /\ status' = status /\ group' = group /\ members' = members
    BY <1>0, <1>9 DEF PlaceFixed, LifeInv, InputActive, InputInProgress, lifeVars
  <2>2. active' = [active EXCEPT ![p] = TRUE]
    BY <1>9, <1>b, <2>1 DEF PlaceFixed, MovePortal
  <2>3. PICK victims \in SUBSET Portals :
          input' = [input EXCEPT !.left = victims, !.next = "finish"] /\ p \notin victims
    BY <1>9 DEF PlaceFixed, Overlapping
  <2>4. spot' \in [Portals -> Spots] /\ \A x \in Portals : x # p => spot'[x] = spot[x]
    BY <1>9, <1>a, <2>1 DEF PlaceFixed, MovePortal
  <2>5. input' \in InputInProgress /\ input'.who = p /\ input'.left = victims
    BY <2>1, <2>3 DEF InputInProgress
  <2>a. Unloaded = {} /\ Unloaded' = Unloaded \ {p}
    <3>1. input # Idle
      BY <1>9 DEF PlaceFixed
    <3> QED BY <1>0, <1>d, <2>1, <3>1 DEF LifeInv, InputActive
  <2>6. LifeInv'
    <3>1. UnbornInactive' /\ active' \in [Portals -> BOOLEAN]
      BY <1>0, <1>a, <2>1, <2>2 DEF LifeInv, UnbornInactive
    <3>2. InputActive'
      BY <1>a, <2>1, <2>2, <2>3, <2>5, <2>a DEF InputActive
    <3> QED BY <1>0, <2>1, <2>4, <2>5, <3>1, <3>2 DEF LifeInv
  <2>7. CASE MovePortal(p, spot[p])
    <3>1. /\ UpdatePortalLinkage(p, active', linked, attached)
          /\ matrix' = Remeasured(matrix, linked', spot', p)
      BY <2>7 DEF MovePortal
    <3>2. p \in Portals /\ status[p] # "none"
      BY <2>1
    <3> HIDE DEF p
    <3> QED BY <1>0, <2>2, <2>4, <2>6, <2>a, <3>1, <3>2, OpenIInv, OpenOneCall
  <2>8. CASE UNCHANGED <<active, linkVars, matrix, spot>>
    <3>1. LinkInv'
      BY <1>0, <2>8, <2>a DEF linkVars, LinkInv, LinkSymmetric, LinkedAreActive,
                              SimulatorAgrees, AwaitsAttachment, OppositeColours
    <3>2. matrix' \in Matrices /\ Fresh(matrix', linked', spot')
      BY <1>0, <2>8 DEF linkVars
    <3>3. linked' = linked /\ \A x \in Portals : x # p => active'[x] = active[x]
      BY <2>8 DEF linkVars
    <3> QED BY <2>1, <2>6, <3>1, <3>2, <3>3, PartsMakeIInvNext, StillOneCall
  <2> QED BY <1>9, <2>7, <2>8 DEF PlaceFixed
<1>10. ASSUME FinishActivation
       PROVE  IInv' /\ OneCall
  <2> DEFINE p == input.who
             m == Remeasured(matrix, linked, spot, p)
  <2>1. /\ p \in Portals /\ active[p] /\ status[p] # "none"
        /\ active' = active /\ spot' = spot
    BY <1>0, <1>10 DEF FinishActivation, LifeInv, InputActive, InputInProgress
  <2>2. /\ UpdatePortalLinkage(p, active', linked, attached)
        /\ matrix' = MeasuredIfLinked(m, linked', spot', p)
        /\ active' = [active EXCEPT ![p] = TRUE]
    BY <1>10, <1>b, <2>1 DEF FinishActivation
  <2>3. m \in Matrices /\ Fresh(m, linked, spot)
    BY <2>1, RemeasureNow
  <2>4. LifeInv'
    BY <1>0, <1>10 DEF FinishActivation, lifeVars, LifeInv, UnbornInactive, InputActive
  <2>5. Unloaded' = Unloaded \ {p}
    BY <1>0, <1>10, <1>d, <2>1 DEF FinishActivation, lifeVars, LifeInv, InputActive
  <2> HIDE DEF p, m
  <2> QED BY <1>a, <2>1, <2>2, <2>3, <2>4, <2>5, OpenIInv, OpenOneCall
<1>11. ASSUME NEW p \in Portals, UpdateOnRemove(p)
       PROVE  IInv' /\ OneCall
  <2>1. OneCall
    <3>1. Unloaded = {} /\ Unloaded' = Unloaded \ {p}
      BY <1>0, <1>11 DEF UpdateOnRemove, Settled, Unloaded, LifeInv
    <3> QED BY <1>11, <3>1, CloseOneCall, StillOneCall DEF UpdateOnRemove, linkVars
  <2> QED BY <1>11, <2>1, UpdateOnRemoveIInv
<1>12. ASSUME NEW p \in Portals, Destroy(p)
       PROVE  IInv' /\ OneCall
  <2>1. linked \in [Portals -> Portals \cup {NoPortal}] /\ ~active'[p]
    BY <1>0, <1>12, <1>a DEF LinkInv, Destroy
  <2>2. OneCall
    BY <1>12, <1>a, <2>1 DEF Destroy, OneCall
  <2> QED BY <1>12, <2>2, DestroyIInv
<1>13. ASSUME Restore
       PROVE  IInv' /\ OneCall
  <2>1. /\ active' = active /\ linked' = linked /\ isPortal2' = isPortal2
        /\ group' = group /\ spot' = spot /\ matrix' = matrix /\ input' = Idle
        /\ attached' = [x \in Portals |-> NoPortal]
        /\ \A x \in Portals : status'[x] = IF Exists(x) THEN "restored" ELSE "none"
    BY <1>13 DEF Restore, Settled
  <2>2. LinkInv'
    <3>1. \A x \in Portals : linked[x] # NoPortal => x \in Unloaded'
      BY <1>0, <2>1 DEF LinkInv, LinkedAreActive, LifeInv, UnbornInactive, Exists, Unloaded
    <3>2. \A x \in Portals : linked[x] # NoPortal =>
            linked[x] \in Portals /\ linked[linked[x]] # NoPortal
      BY <1>0 DEF LinkInv, LinkSymmetric
    <3>3. SimulatorAgrees'
      BY <2>1, <3>1, <3>2 DEF SimulatorAgrees, AwaitsAttachment
    <3> QED BY <1>0, <2>1, <3>3 DEF LinkInv, LinkSymmetric, LinkedAreActive, OppositeColours
  <2>3. LifeInv'
    <3>1. status' \in [Portals -> Status] /\ members' \in [Groups -> Seq(Portals)]
      BY <1>13, EmptySeq DEF Restore, Status
    <3>2. UnbornInactive'
      BY <1>0, <2>1 DEF LifeInv, UnbornInactive, Exists
    <3> QED BY <1>0, <2>1, <3>1, <3>2 DEF LifeInv, InputActive
  <2>4. matrix' \in Matrices /\ Fresh(matrix', linked', spot')
    BY <1>0, <2>1
  <2>5. PICK p \in Portals : Exists(p)
    BY <1>13 DEF Restore
  <2> QED BY <2>1, <2>2, <2>3, <2>4, <2>5, PartsMakeIInvNext, StillOneCall
<1> QED BY <1>1, <1>2, <1>3, <1>4, <1>5, <1>6, <1>7, <1>8, <1>9, <1>10, <1>11, <1>12, <1>13
        DEF Next

\* So does a step that leaves the linkage alone.
LEMMA StutterIInv ==
    ASSUME IInv, UNCHANGED vars
    PROVE  IInv'
BY DEF vars, IInv, TypeOK, LinkSymmetric, LinkedAreActive, SimulatorAgrees, AwaitsAttachment,
       Unloaded, OppositeColours, MatrixFresh, UnbornInactive, InputActive

-----------------------------------------------------------------------------
(* The theorems *)

\* The inductive invariant holds in every reachable state.
THEOREM SpecIInv == Spec => []IInv
<1>1. IInv /\ [Next]_vars => IInv'
  <2> SUFFICES ASSUME IInv, [Next]_vars PROVE IInv'
    OBVIOUS
  <2>1. CASE Next
    BY <2>1, StepIInv
  <2>2. CASE UNCHANGED vars
    BY <2>2, StutterIInv
  <2> QED BY <2>1, <2>2
<1> QED BY <1>1, InitIInv, PTL DEF Spec

\* Every variable keeps its type: prop_portal.cpp's linkage never stores
\* anything but a portal or NULL in its handles.
THEOREM SpecTypeOK == Spec => []TypeOK
<1>1. IInv => TypeOK
  BY DEF IInv
<1> QED BY <1>1, SpecIInv, PTL

\* m_hLinkedPortal of a portal's partner is that portal, whatever sequence of
\* spawns, shots, fizzles, inputs and removals led here.
THEOREM SpecLinkSymmetric == Spec => []LinkSymmetric
<1>1. IInv => LinkSymmetric
  BY DEF IInv
<1> QED BY <1>1, SpecIInv, PTL

\* Only open portals are linked, so IsActivedAndLinked speaks for both ends.
THEOREM SpecLinkedAreActive == Spec => []LinkedAreActive
<1>1. IInv => LinkedAreActive
  BY DEF IInv
<1> QED BY <1>1, SpecIInv, PTL

\* The simulators are attached exactly as the portals are linked.
THEOREM SpecSimulatorAgrees == Spec => []SimulatorAgrees
<1>1. IInv => SimulatorAgrees
  BY DEF IInv
<1> QED BY <1>1, SpecIInv, PTL

\* The two ends of a passage never have the same colour.
THEOREM SpecOppositeColours == Spec => []OppositeColours
<1>1. IInv => OppositeColours
  BY DEF IInv
<1> QED BY <1>1, SpecIInv, PTL

\* The teleport matrix of a linked portal is never that of an earlier place
\* or of an earlier partner.
THEOREM SpecMatrixFresh == Spec => []MatrixFresh
<1>1. IInv => MatrixFresh
  BY DEF IInv
<1> QED BY <1>1, SpecIInv, PTL

\* A passage with two open ends survives every call.
THEOREM SpecPassageKept == Spec => PassageKept
<1> DEFINE Kept == \A p \in Portals :
              linked[p] # NoPortal /\ active'[p] /\ active'[linked[p]]
                  => linked'[p] = linked[p]
<1>1. IInv /\ [Next]_vars => [Kept]_vars
  <2> SUFFICES ASSUME IInv, Next PROVE Kept
    BY DEF vars
  <2> QED BY StepIInv DEF OneCall
<1> QED BY <1>1, SpecIInv, PTL DEF Spec, PassageKept

\* The linkage implements the matching of PortalPairing: under the mapping of
\* Pairing every call is one step of the abstract specification or a stutter.
THEOREM SpecPairing == Spec => PairingSpec
<1> USE NoPortalAssumption
<1> DEFINE O == {p \in Portals : active[p]}
           P == {{p, linked[p]} : p \in {x \in Portals : linked[x] # NoPortal}}
<1>1. Init => Pairing!Init
  BY DEF Init, Pairing!Init
<1>2. IInv /\ IInv' /\ [Next]_vars => [Pairing!Next]_(Pairing!vars)
  <2>1. ASSUME UNCHANGED vars PROVE UNCHANGED Pairing!vars
    BY <2>1 DEF vars, Pairing!vars
  <2>2. ASSUME IInv, IInv', Next PROVE Pairing!Next
    <3> USE <2>2
    <3>1. OneCall /\ LinkSymmetric /\ LinkSymmetric' /\ LinkedAreActive'
      BY StepIInv DEF IInv
    <3>2. /\ linked \in [Portals -> Portals \cup {NoPortal}]
          /\ linked' \in [Portals -> Portals \cup {NoPortal}]
      BY DEF IInv, TypeOK
    <3>3. PICK p \in Portals : \A x \in Portals : x # p => active'[x] = active[x]
      BY <3>1 DEF OneCall
    <3>4. O' \in {O \cup {p}, O \ {p}, O}
      <4>1. CASE active'[p]
        BY <3>3, <4>1
      <4>2. CASE ~active'[p]
        BY <3>3, <4>2
      <4> QED BY <4>1, <4>2
    <3>5. \A m : m \in P <=> \E x \in Portals : linked[x] # NoPortal /\ m = {x, linked[x]}
      OBVIOUS
    <3>6. \A m : m \in P' <=> \E x \in Portals : linked'[x] # NoPortal /\ m = {x, linked'[x]}
      OBVIOUS
    <3>7. \A m \in P : m \subseteq O' => m \in P'
      <4> SUFFICES ASSUME NEW x \in Portals, linked[x] # NoPortal, {x, linked[x]} \subseteq O'
                   PROVE  {x, linked[x]} \in P'
        BY <3>5
      <4>1. active'[x] /\ active'[linked[x]]
        OBVIOUS
      <4>2. linked'[x] = linked[x]
        BY <3>1, <4>1 DEF OneCall
      <4> QED BY <3>6, <4>2
    <3>8. \A m, n \in P' \ P : m = n
      <4>1. PICK r \in Portals : \A x \in Portals :
              linked'[x] # NoPortal /\ x # r /\ linked'[x] # r => linked'[x] = linked[x]
        BY <3>1 DEF OneCall
      <4>2. ASSUME NEW m \in P' \ P PROVE m = {r, linked'[r]}
        <5>1. PICK x \in Portals : linked'[x] # NoPortal /\ m = {x, linked'[x]}
          BY <3>6, <4>2
        <5>2. x = r \/ linked'[x] = r
          BY <3>5, <4>1, <4>2, <5>1
        <5>3. linked'[linked'[x]] = x
          BY <3>1, <5>1 DEF LinkSymmetric
        <5> QED BY <5>1, <5>2, <5>3
      <4> QED BY <4>2
    <3>9. \A m \in P' : \E x, y \in O' : x # y /\ m = {x, y}
      BY <3>1, <3>2, <3>6 DEF LinkSymmetric, LinkedAreActive
    <3>10. \A m, n \in P' : m # n => m \cap n = {}
      <4> SUFFICES ASSUME NEW x \in Portals, linked'[x] # NoPortal,
                          NEW y \in Portals, linked'[y] # NoPortal,
                          {x, linked'[x]} \cap {y, linked'[y]} # {}
                   PROVE  {x, linked'[x]} = {y, linked'[y]}
        BY <3>6
      <4>1. linked'[linked'[x]] = x /\ linked'[linked'[y]] = y
        BY <3>1 DEF LinkSymmetric
      <4> QED BY <4>1
    <3> HIDE DEF O, P
    <3> QED BY <3>4, <3>7, <3>8, <3>9, <3>10
         DEF O, P, Pairing!Next, Pairing!Step, Pairing!IsMatching
  <2> QED BY <2>1, <2>2
<1> QED BY <1>1, <1>2, SpecIInv, PTL DEF Spec, PairingSpec, Pairing!Spec

-----------------------------------------------------------------------------
(* Who waits *)

\* x is in the list of group g.
InList(g, x) == \E i \in DOMAIN members[g] : members[g][i] = x

\* The lists have every portal there is, but those of a loaded game that have
\* not run Activate.
ListsComplete ==
    \A p \in Portals : status[p] \notin {"none", "restored"} => InList(group[p], p)

\* What a call of UpdatePortalLinkage does to those that wait: it leaves p
\* alone only if the scan finds nobody, and it makes nobody else wait.
LEMMA CallWaits ==
    ASSUME NEW p \in Portals, NEW on, NEW lk \in [Portals -> Portals \cup {NoPortal}], NEW att,
           UpdatePortalLinkage(p, on, lk, att)
    PROVE  /\ \A x \in Portals : x # p /\ linked'[x] = NoPortal => lk[x] = NoPortal
           /\ linked'[p] = NoPortal => Waiting(p, on, lk) = {} /\ ~KeepsLink(p, on, lk)
<1> USE NoPortalAssumption
<1>1. CASE RenewLink(p, on, lk, att)
  BY <1>1 DEF RenewLink, KeepsLink
<1>2. CASE TakePartner(p, on, lk, att)
  <2>1. PICK q \in Waiting(p, on, lk) : linked' = [lk EXCEPT ![p] = q, ![q] = p]
    BY <1>2 DEF TakePartner, FirstWaiting
  <2>2. q \in Portals /\ q # p
    BY DEF Waiting
  <2> QED BY <2>1, <2>2
<1>3. CASE StayAlone(p, on, lk, att)
  BY <1>3 DEF StayAlone
<1> QED BY <1>1, <1>2, <1>3 DEF UpdatePortalLinkage

\* So p's call leaves nobody waiting beside p, and strands nobody else, if the
\* list it scans has all other open portals that are up to date.
LEMMA CallStrands ==
    ASSUME NEW p \in Portals, NEW lk \in [Portals -> Portals \cup {NoPortal}], NEW att,
           UpdatePortalLinkage(p, active', lk, att),
           group' = group,
           \A z \in Portals : z # p /\ active'[z] => active[z] /\ lk[z] = linked[z],
           \A z \in Portals : z # p /\ active'[z] /\ Exists(z)' /\ z \notin Unfinished' =>
              Exists(z) /\ z \notin Unfinished /\ InList(group[z], z),
           NEW x \in Portals, NEW y \in Portals, Stranded(x, y)'
    PROVE  Stranded(x, y)
<1>1. /\ \A z \in Portals : z # p /\ linked'[z] = NoPortal => lk[z] = NoPortal
      /\ linked'[p] = NoPortal => Waiting(p, active', lk) = {}
  BY CallWaits
<1>2. /\ x # y /\ x \notin Unfinished' /\ y \notin Unfinished'
      /\ Exists(x)' /\ Exists(y)' /\ group[x] = group[y]
      /\ active'[x] /\ active'[y]
      /\ linked'[x] = NoPortal /\ linked'[y] = NoPortal
  BY DEF Stranded
<1>3. ASSUME NEW z \in Portals, z # p, Exists(z)', z \notin Unfinished', active'[z],
             linked'[z] = NoPortal, group[z] = group[p], linked'[p] = NoPortal
      PROVE  FALSE
  <2>1. InList(group[p], z) /\ lk[z] = NoPortal
    BY <1>1, <1>3
  <2>2. z \in Waiting(p, active', lk)
    BY <1>3, <2>1 DEF Waiting, InList
  <2> QED BY <1>1, <1>3, <2>2
<1>4. x # p /\ y # p
  BY <1>2, <1>3
<1>5. /\ Exists(x) /\ x \notin Unfinished /\ active[x] /\ linked[x] = NoPortal
      /\ Exists(y) /\ y \notin Unfinished /\ active[y] /\ linked[y] = NoPortal
  BY <1>1, <1>2, <1>4
<1> QED BY <1>2, <1>5 DEF Stranded

\* Whoever is up to date is in a list.
LEMMA UpToDateListed ==
    ASSUME ListsComplete, NEW x \in Portals, Exists(x), x \notin Unfinished
    PROVE  InList(group[x], x)
BY DEF ListsComplete, Exists, Unfinished

\* Opening p, or bringing it up to date, strands nobody.
LEMMA OpenStrands ==
    ASSUME IInv, ListsComplete, NEW p \in Portals,
           active' = [active EXCEPT ![p] = TRUE],
           UpdatePortalLinkage(p, active', linked, attached),
           group' = group,
           \A z \in Portals : z # p /\ Exists(z)' => Exists(z),
           \A z \in Portals : z # p /\ z \notin Unfinished' => z \notin Unfinished,
           NEW x \in Portals, NEW y \in Portals, Stranded(x, y)'
    PROVE  Stranded(x, y)
<1>1. linked \in [Portals -> Portals \cup {NoPortal}] /\ active \in [Portals -> BOOLEAN]
  BY DEF IInv, TypeOK
<1>2. \A z \in Portals : z # p /\ active'[z] => active[z]
  BY <1>1
<1>3. \A z \in Portals : z # p /\ Exists(z)' /\ z \notin Unfinished' =>
          Exists(z) /\ z \notin Unfinished /\ InList(group[z], z)
  BY UpToDateListed
<1> QED BY <1>1, <1>2, <1>3, CallStrands

\* Closing p: it waits no more, and its partner looks for another one.
LEMMA CloseStrands ==
    ASSUME IInv, ListsComplete, NEW p \in Portals,
           active' = [active EXCEPT ![p] = FALSE],
           Abandon(p, active'),
           group' = group, Unfinished' = Unfinished,
           \A z \in Portals : Exists(z)' => Exists(z),
           NEW x \in Portals, NEW y \in Portals, Stranded(x, y)'
    PROVE  Stranded(x, y)
<1>1. linked \in [Portals -> Portals \cup {NoPortal}] /\ active \in [Portals -> BOOLEAN]
  BY DEF IInv, TypeOK
<1>2. \A z \in Portals : active'[z] => z # p /\ active[z]
  BY <1>1
<1>3. CASE linked[p] = NoPortal
  <2>1. linked' = linked
    BY <1>3 DEF Abandon
  <2> QED BY <1>2, <2>1 DEF Stranded
<1>4. CASE linked[p] # NoPortal
  <2> DEFINE r == linked[p]
             lk == [linked EXCEPT ![p] = NoPortal]
             att == Detached(attached, p)
  <2>1. r \in Portals /\ lk \in [Portals -> Portals \cup {NoPortal}]
    BY <1>1, <1>4
  <2>2. UpdatePortalLinkage(r, active', lk, att)
    BY <1>4 DEF Abandon
  <2>3. \A z \in Portals : z # r /\ active'[z] => active[z] /\ lk[z] = linked[z]
    BY <1>1, <1>2
  <2>4. \A z \in Portals : Exists(z)' /\ z \notin Unfinished' =>
            Exists(z) /\ z \notin Unfinished /\ InList(group[z], z)
    BY UpToDateListed
  <2> HIDE DEF r, lk, att
  <2> QED BY <2>1, <2>2, <2>3, <2>4, CallStrands
<1> QED BY <1>3, <1>4

\* Only the destructor of a portal that has a partner strands anybody.
LEMMA StepStrands ==
    ASSUME IInv, ListsComplete, Next, NEW x \in Portals, NEW y \in Portals,
           Stranded(x, y)', ~Stranded(x, y)
    PROVE  \E r \in Portals : Destroy(r) /\ linked[r] \in {x, y}
<1>1. /\ linked \in [Portals -> Portals \cup {NoPortal}] /\ active \in [Portals -> BOOLEAN]
      /\ status \in [Portals -> Status] /\ group \in [Portals -> Groups]
      /\ input \in {Idle} \cup InputInProgress
  BY DEF IInv, TypeOK
<1>2. ASSUME NEW p \in Portals, NEW g \in Groups, NEW two, NEW on \in BOOLEAN, NEW st,
             Arrive(p, g, two, on, st), ~on \/ st = "spawned"
      PROVE  FALSE
  <2>1. /\ \A z \in Portals : z # p => /\ Exists(z)' = Exists(z) /\ active'[z] = active[z]
                                       /\ group'[z] = group[z]
                                       /\ z \in Unfinished' <=> z \in Unfinished
        /\ ~active'[p] \/ p \in Unfinished'
        /\ linked' = linked
    BY <1>1, <1>2 DEF Arrive, Exists, Unfinished
  <2> QED BY <2>1 DEF Stranded
<1>3. ASSUME NEW p \in Portals, Activate(p)
      PROVE  FALSE
  <2>1. /\ group' = group /\ active' = active /\ input' = input
        /\ status[p] \in {"spawned", "restored"}
        /\ status' = [status EXCEPT ![p] = "live"]
    BY <1>3 DEF Activate
  <2>2. /\ \A z \in Portals : Exists(z)' => Exists(z)
        /\ \A z \in Portals : z # p /\ z \notin Unfinished' => z \notin Unfinished
    BY <1>1, <2>1 DEF Exists, Unfinished
  <2>3. CASE active[p]
    <3>1. UpdatePortalLinkage(p, active', linked, attached)
      BY <1>3, <2>1, <2>3 DEF Activate
    <3>2. active' = [active EXCEPT ![p] = TRUE]
      BY <1>1, <2>1, <2>3
    <3> QED BY <2>1, <2>2, <3>1, <3>2, OpenStrands
  <2>4. CASE ~active[p]
    <3>1. linked[p] = NoPortal
      BY <2>4 DEF IInv, LinkedAreActive
    <3>2. linked' = linked
      BY <1>3, <2>4, <3>1 DEF Activate, Abandon
    <3> QED BY <2>1, <2>2, <2>4, <3>2 DEF Stranded
  <2> QED BY <2>3, <2>4
<1>4. ASSUME NEW p \in Portals, NEW at \in Spots, NewLocation(p, at)
      PROVE  FALSE
  <2>1. /\ active' = [active EXCEPT ![p] = TRUE]
        /\ UpdatePortalLinkage(p, active', linked, attached)
        /\ status' = status /\ group' = group /\ input' = input
    BY <1>4 DEF NewLocation, MovePortal, lifeVars
  <2> QED BY <2>1, OpenStrands DEF Exists, Unfinished
<1>5. ASSUME NEW p \in Portals, Fizzle(p) \/ Deactivate(p) \/ FizzleBlocking(p)
      PROVE  FALSE
  <2>1. /\ active' = [active EXCEPT ![p] = FALSE] /\ Abandon(p, active')
        /\ status' = status /\ group' = group
    BY <1>5 DEF Fizzle, FizzlePortal, Deactivate, FizzleBlocking, lifeVars
  <2>2. (input' = Idle <=> input = Idle) /\ (input # Idle => input'.who = input.who)
    BY <1>1, <1>5 DEF Fizzle, Deactivate, FizzleBlocking, Idle, InputInProgress
  <2>3. Unfinished' = Unfinished
    BY <2>1, <2>2 DEF Unfinished
  <2> QED BY <2>1, <2>3, CloseStrands DEF Exists
<1>6. ASSUME NEW p \in Portals, UpdateOnRemove(p)
      PROVE  FALSE
  <2>1. /\ group' = group /\ Unfinished' = Unfinished
        /\ \A z \in Portals : Exists(z)' => Exists(z)
    BY <1>1, <1>6 DEF UpdateOnRemove, Exists, Unfinished
  <2>2. CASE linked[p] = NoPortal
    <3>1. active' = active /\ linked' = linked
      BY <1>6, <2>2 DEF UpdateOnRemove, linkVars
    <3> QED BY <2>1, <3>1 DEF Stranded
  <2>3. CASE linked[p] # NoPortal
    <3>1. active' = [active EXCEPT ![p] = FALSE] /\ Abandon(p, active')
      BY <1>6, <2>3 DEF UpdateOnRemove
    <3> QED BY <2>1, <3>1, CloseStrands
  <2> QED BY <2>2, <2>3
<1>7. ASSUME NEW p \in Portals, Destroy(p), linked[p] \notin {x, y}
      PROVE  FALSE
  <2>1. /\ group' = group /\ input' = input
        /\ status' = [status EXCEPT ![p] = "none"]
        /\ active' = [active EXCEPT ![p] = FALSE]
        /\ \A z \in Portals : linked'[z] = IF z = p \/ linked[z] = p THEN NoPortal ELSE linked[z]
        /\ status[p] = "removed"
    BY <1>7 DEF Destroy
  <2>2. /\ \A z \in Portals : Exists(z)' => Exists(z)
        /\ \A z \in Portals : active'[z] => active[z] /\ z # p
        /\ Unfinished' = Unfinished
    BY <1>1, <2>1 DEF Exists, Unfinished
  <2>3. \A z \in {x, y} : linked[z] # p
    BY <1>1, <1>7, NoPortalAssumption DEF IInv, LinkSymmetric
  <2> QED BY <2>1, <2>2, <2>3 DEF Stranded
<1>8. ASSUME NEW p \in Portals, SetActivatedState(p)
      PROVE  FALSE
  <2>1. /\ active' = [active EXCEPT ![p] = TRUE] /\ linked' = linked
        /\ status' = status /\ group' = group
    BY <1>8 DEF SetActivatedState, lifeVars, linkVars
  <2>2. input = Idle /\ input' # Idle /\ input'.who = p
    BY <1>8 DEF SetActivatedState, Settled, Idle
  <2>3. p \in Unfinished' /\ \A z \in Portals : z \notin Unfinished' => z \notin Unfinished
    BY <2>1, <2>2 DEF Unfinished
  <2>4. \A z \in Portals : z # p => active'[z] = active[z]
    BY <1>1, <2>1
  <2> QED BY <2>1, <2>3, <2>4 DEF Stranded, Exists
<1>9. ASSUME PlaceFixed
      PROVE  FALSE
  <2>1. /\ input # Idle /\ status' = status /\ group' = group
        /\ \E left \in SUBSET Portals : input' = [input EXCEPT !.left = left, !.next = "finish"]
    BY <1>9 DEF PlaceFixed, lifeVars, Overlapping
  <2>2. /\ input \in InputInProgress /\ input.who \in Portals
    BY <1>1, <2>1 DEF InputInProgress
  <2>3. input' \in InputInProgress /\ input'.who = input.who
    BY <2>1, <2>2 DEF InputInProgress
  <2>4. input' # Idle /\ input'.who = input.who
    BY <2>3 DEF Idle, InputInProgress
  <2>5. Unfinished' = Unfinished
    BY <2>1, <2>4 DEF Unfinished
  <2>6. CASE MovePortal(input.who, spot[input.who])
    <3>1. /\ active' = [active EXCEPT ![input.who] = TRUE]
          /\ UpdatePortalLinkage(input.who, active', linked, attached)
      BY <2>6 DEF MovePortal
    <3> QED BY <2>1, <2>5, <2>2, <3>1, OpenStrands DEF Exists
  <2>7. CASE UNCHANGED <<active, linkVars, matrix, spot>>
    BY <2>1, <2>5, <2>7 DEF Stranded, Exists, linkVars
  <2> QED BY <1>9, <2>6, <2>7 DEF PlaceFixed
<1>10. ASSUME FinishActivation
       PROVE  FALSE
  <2>1. /\ input # Idle /\ input.who \in Portals /\ input' = Idle
        /\ status' = status /\ group' = group /\ active' = active
        /\ UpdatePortalLinkage(input.who, active', linked, attached)
    BY <1>1, <1>10 DEF FinishActivation, lifeVars, Idle, InputInProgress
  <2>2. active' = [active EXCEPT ![input.who] = TRUE]
    BY <1>1, <2>1 DEF IInv, InputActive
  <2>3. \A z \in Portals : z # input.who /\ z \notin Unfinished' => z \notin Unfinished
    BY <2>1 DEF Unfinished
  <2> QED BY <2>1, <2>2, <2>3, OpenStrands DEF Exists
<1>11. ASSUME Restore
       PROVE  FALSE
  <2>1. status' = [p \in Portals |-> IF Exists(p) THEN "restored" ELSE "none"]
    BY <1>11 DEF Restore
  <2>2. \A z \in Portals : Exists(z)' => z \in Unfinished'
    BY <2>1 DEF Exists, Unfinished
  <2> QED BY <2>2 DEF Stranded
<1> QED BY <1>2, <1>3, <1>4, <1>5, <1>6, <1>7, <1>8, <1>9, <1>10, <1>11
     DEF Next, FindPortal, SpawnFromMap

\* A list that gets one more portal keeps those it had.
LEMMA AppendHas ==
    ASSUME NEW s \in Seq(Portals), NEW p \in Portals
    PROVE  /\ \E i \in DOMAIN Append(s, p) : Append(s, p)[i] = p
           /\ \A x \in Portals : (\E i \in DOMAIN s : s[i] = x) =>
                 \E i \in DOMAIN Append(s, p) : Append(s, p)[i] = x
<1> DEFINE t == Append(s, p)
<1>1. /\ Len(s) \in Nat /\ DOMAIN s = 1 .. Len(s)
      /\ t \in Seq(Portals) /\ Len(t) = Len(s) + 1
      /\ \A i \in 1 .. Len(s) : t[i] = s[i]
      /\ t[Len(s) + 1] = p
  BY LenProperties, AppendProperties
<1> HIDE DEF t
<1>2. DOMAIN t = 1 .. (Len(s) + 1)
  BY <1>1, LenProperties
<1>3. Len(s) + 1 \in DOMAIN t /\ \A i \in 1 .. Len(s) : i \in DOMAIN t
  BY <1>1, <1>2
<1>4. /\ \E i \in DOMAIN t : t[i] = p
      /\ \A x \in Portals : (\E i \in DOMAIN s : s[i] = x) => \E i \in DOMAIN t : t[i] = x
  BY <1>1, <1>3
<1> QED BY <1>4 DEF t

\* s without its i-th place.
Cut(s, i) == SubSeq(s, 1, i - 1) \o SubSeq(s, i + 1, Len(s))

\* Its length, and where the other places go.
LEMMA CutFacts ==
    ASSUME NEW s \in Seq(Portals), NEW n \in Nat, n = Len(s), NEW i \in 1 .. n
    PROVE  /\ DOMAIN Cut(s, i) = 1 .. (n - 1)
           /\ \A j \in 1 .. (n - 1) : Cut(s, i)[j] = IF j < i THEN s[j] ELSE s[j + 1]
<1> DEFINE a == SubSeq(s, 1, i - 1)
           b == SubSeq(s, i + 1, n)
<1>1. \A j \in 1 .. n : s[j] \in Portals
  BY ElementOfSeq
<1>2. i - 1 \in Int /\ i + 1 \in Int /\ n \in Int /\ 1 \in Int
  OBVIOUS
<1>3. (\A j \in 1 .. (i - 1) : s[j] \in Portals) /\ (\A j \in (i + 1) .. n : s[j] \in Portals)
  BY <1>1
<1>4. /\ a \in Seq(Portals) /\ Len(a) = (IF 1 <= i - 1 THEN i - 1 - 1 + 1 ELSE 0)
      /\ \A j \in 1 .. (i - 1 - 1 + 1) : a[j] = s[1 + j - 1]
  BY <1>2, <1>3, SubSeqProperties
<1>5. /\ b \in Seq(Portals) /\ Len(b) = (IF i + 1 <= n THEN n - (i + 1) + 1 ELSE 0)
      /\ \A j \in 1 .. (n - (i + 1) + 1) : b[j] = s[i + 1 + j - 1]
  BY <1>2, <1>3, SubSeqProperties
<1>6. Cut(s, i) = a \o b
  BY DEF Cut
<1> HIDE DEF a, b
<1>7. /\ a \o b \in Seq(Portals) /\ Len(a \o b) = Len(a) + Len(b)
      /\ \A j \in 1 .. Len(a) + Len(b) : (a \o b)[j] = IF j <= Len(a) THEN a[j] ELSE b[j - Len(a)]
  BY <1>4, <1>5, ConcatProperties
<1>8. Len(a) = i - 1 /\ Len(b) = n - i /\ i - 1 + (n - i) = n - 1
  BY <1>4, <1>5
<1>9. DOMAIN (a \o b) = 1 .. (n - 1)
  BY <1>7, <1>8, LenProperties
<1>10. \A j \in 1 .. (n - 1) : (a \o b)[j] = IF j <= i - 1 THEN a[j] ELSE b[j - (i - 1)]
  BY <1>7, <1>8
<1>11. \A j \in 1 .. (n - 1) : j < i => a[j] = s[j]
  BY <1>4
<1>12. \A j \in 1 .. (n - 1) : ~(j < i) => b[j - (i - 1)] = s[j + 1]
  <2> SUFFICES ASSUME NEW j \in 1 .. (n - 1), ~(j < i) PROVE b[j - (i - 1)] = s[j + 1]
    OBVIOUS
  <2>1. j - (i - 1) \in 1 .. (n - (i + 1) + 1) /\ i + 1 + (j - (i - 1)) - 1 = j + 1
    OBVIOUS
  <2> QED BY <1>5, <2>1
<1> QED BY <1>6, <1>9, <1>10, <1>11, <1>12

\* So it keeps the portals that have another place.
LEMMA CutHas ==
    ASSUME NEW s \in Seq(Portals), NEW i \in DOMAIN s, NEW k \in DOMAIN s, k # i
    PROVE  \E j \in DOMAIN Cut(s, i) : Cut(s, i)[j] = s[k]
<1> DEFINE n == Len(s)
           t == Cut(s, i)
<1>1. n \in Nat /\ i \in 1 .. n /\ k \in 1 .. n
  BY LenProperties
<1> HIDE DEF n, t
<1>2. /\ DOMAIN t = 1 .. (n - 1)
      /\ \A j \in 1 .. (n - 1) : t[j] = IF j < i THEN s[j] ELSE s[j + 1]
  BY <1>1, CutFacts DEF n, t
<1>3. CASE k < i
  BY <1>1, <1>2, <1>3 DEF t
<1>4. CASE k > i
  <2>1. k - 1 \in 1 .. (n - 1) /\ ~(k - 1 < i) /\ k - 1 + 1 = k
    BY <1>1, <1>4
  <2> QED BY <1>2, <2>1 DEF t
<1> QED BY <1>1, <1>3, <1>4

\* No call loses a portal from the lists, but for a load, after which every
\* portal brings itself back.
LEMMA StepLists ==
    ASSUME IInv, ListsComplete, Next
    PROVE  ListsComplete'
<1>1. /\ status \in [Portals -> Status] /\ group \in [Portals -> Groups]
      /\ members \in [Groups -> Seq(Portals)] /\ input \in {Idle} \cup InputInProgress
  BY DEF IInv, TypeOK
<1>2. ASSUME NEW p \in Portals, NEW g \in Groups, NEW two, NEW on, NEW st,
             Arrive(p, g, two, on, st)
      PROVE  ListsComplete'
  <2>1. /\ group' = [group EXCEPT ![p] = g] /\ status' = [status EXCEPT ![p] = st]
        /\ members' = [members EXCEPT ![g] = Append(members[g], p)]
    BY <1>2 DEF Arrive
  <2>2. members[g] \in Seq(Portals)
    BY <1>1
  <2>3. /\ members'[g] = Append(members[g], p)
        /\ \A h \in Groups : h # g => members'[h] = members[h]
    BY <1>1, <2>1
  <2>4. /\ \E i \in DOMAIN Append(members[g], p) : Append(members[g], p)[i] = p
        /\ \A x \in Portals : (\E i \in DOMAIN members[g] : members[g][i] = x) =>
              \E i \in DOMAIN Append(members[g], p) : Append(members[g], p)[i] = x
    BY <2>2, AppendHas
  <2>5. \A x \in Portals, h \in Groups : InList(h, x) => InList(h, x)'
    BY <2>3, <2>4 DEF InList
  <2>6. InList(g, p)'
    BY <2>3, <2>4 DEF InList
  <2>7. /\ group'[p] = g
        /\ \A x \in Portals : x # p => group'[x] = group[x] /\ status'[x] = status[x]
        /\ \A x \in Portals : group[x] \in Groups
    BY <1>1, <2>1
  <2> QED BY <2>5, <2>6, <2>7 DEF ListsComplete
<1>3. ASSUME NEW p \in Portals, Activate(p)
      PROVE  ListsComplete'
  <2> DEFINE g == group[p]
             s == members[g]
  <2>1. /\ group' = group /\ status' = [status EXCEPT ![p] = "live"]
        /\ members' = [members EXCEPT ![g] = Listed(s, p)]
    BY <1>3 DEF Activate
  <2>2. g \in Groups /\ s \in Seq(Portals)
    BY <1>1
  <2>3. /\ \E i \in DOMAIN Listed(s, p) : Listed(s, p)[i] = p
        /\ \A x \in Portals : (\E i \in DOMAIN s : s[i] = x) =>
              \E i \in DOMAIN Listed(s, p) : Listed(s, p)[i] = x
    <3> HIDE DEF s
    <3>1. CASE \E i \in DOMAIN s : s[i] = p
      <4>1. Listed(s, p) = s
        BY <3>1 DEF Listed
      <4> QED BY <3>1, <4>1
    <3>2. CASE ~ \E i \in DOMAIN s : s[i] = p
      <4>1. Listed(s, p) = Append(s, p)
        BY <3>2 DEF Listed
      <4>2. s \in Seq(Portals)
        BY <2>2 DEF s
      <4>3. /\ \E i \in DOMAIN Append(s, p) : Append(s, p)[i] = p
            /\ \A x \in Portals : (\E i \in DOMAIN s : s[i] = x) =>
                  \E i \in DOMAIN Append(s, p) : Append(s, p)[i] = x
        BY <4>2, AppendHas
      <4> QED BY <4>1, <4>3
    <3> QED BY <3>1, <3>2
  <2>4. members'[g] = Listed(s, p) /\ \A h \in Groups : h # g => members'[h] = members[h]
    BY <1>1, <2>1
  <2>5. \A x \in Portals, h \in Groups : InList(h, x) => InList(h, x)'
    BY <2>3, <2>4 DEF InList
  <2>6. InList(g, p)'
    BY <2>1, <2>3, <2>4 DEF InList
  <2> QED BY <1>1, <2>1, <2>5, <2>6 DEF ListsComplete
<1>4. ASSUME NEW p \in Portals, UpdateOnRemove(p)
      PROVE  ListsComplete'
  BY <1>1, <1>4 DEF UpdateOnRemove, ListsComplete, InList
<1>5. ASSUME NEW p \in Portals, Destroy(p)
      PROVE  ListsComplete'
  <2> DEFINE g == group[p]
             s == members[g]
  <2>1. PICK i \in DOMAIN s :
          /\ s[i] = p
          /\ members' = [members EXCEPT ![g] = Cut(s, i)]
    BY <1>5 DEF Destroy, Cut
  <2>2. /\ group' = group /\ status' = [status EXCEPT ![p] = "none"]
        /\ g \in Groups /\ s \in Seq(Portals)
    BY <1>1, <1>5 DEF Destroy
  <2>3. /\ members'[g] = Cut(s, i)
        /\ \A h \in Groups : h # g => members'[h] = members[h]
    BY <1>1, <2>1, <2>2
  <2>4. ASSUME NEW x \in Portals, x # p, NEW k \in DOMAIN s, s[k] = x
        PROVE  \E j \in DOMAIN members'[g] : members'[g][j] = x
    <3>1. k # i
      BY <2>1, <2>4
    <3>2. s \in Seq(Portals)
      BY <2>2
    <3> HIDE DEF s
    <3>3. \E j \in DOMAIN Cut(s, i) : Cut(s, i)[j] = s[k]
      BY <3>1, <3>2, CutHas
    <3> QED BY <2>3, <2>4, <3>3
  <2>5. ASSUME NEW x \in Portals, x # p, NEW h \in Groups, InList(h, x)
        PROVE  InList(h, x)'
    BY <2>3, <2>4, <2>5 DEF InList
  <2> QED BY <1>1, <2>2, <2>5 DEF ListsComplete
<1>6. ASSUME lifeVars' = lifeVars
      PROVE  ListsComplete'
  BY <1>6 DEF lifeVars, ListsComplete, InList
<1>7. ASSUME Restore
      PROVE  ListsComplete'
  BY <1>7 DEF Restore, ListsComplete, Exists
<1>8. ASSUME NEW p \in Portals,
             \/ Fizzle(p) \/ Deactivate(p) \/ SetActivatedState(p) \/ FizzleBlocking(p)
             \/ \E at \in Spots : NewLocation(p, at)
      PROVE  lifeVars' = lifeVars
  BY <1>8 DEF Fizzle, Deactivate, SetActivatedState, FizzleBlocking, NewLocation
<1>9. PlaceFixed \/ FinishActivation => lifeVars' = lifeVars
  BY DEF PlaceFixed, FinishActivation
<1> QED BY <1>2, <1>3, <1>4, <1>5, <1>6, <1>7, <1>8, <1>9 DEF Next, FindPortal, SpawnFromMap

\* The destructor of a portal that was picked after it had run UpdateOnRemove
\* is the only step that strands its partner beside another open portal of the
\* group; no end of an input and no Activate of a load does.
THEOREM SpecOnlyDestructionStrands == Spec => OnlyDestructionStrands
<1> DEFINE Strands == \A p, q \in Portals : Stranded(p, q)' /\ ~Stranded(p, q) =>
                          \E r \in Portals : Destroy(r) /\ linked[r] \in {p, q}
<1>1. Init => ListsComplete
  BY DEF Init, ListsComplete
<1>2. IInv /\ ListsComplete /\ [Next]_vars => ListsComplete'
  <2>1. ASSUME ListsComplete, UNCHANGED vars PROVE ListsComplete'
    BY <2>1 DEF vars, ListsComplete, InList
  <2> QED BY <2>1, StepLists
<1>3. IInv /\ ListsComplete /\ [Next]_vars => [Strands]_vars
  <2> SUFFICES ASSUME IInv, ListsComplete, Next PROVE Strands
    OBVIOUS
  <2> QED BY StepStrands
<1> QED BY <1>1, <1>2, <1>3, SpecIInv, PTL DEF Spec, OnlyDestructionStrands

=============================================================================
