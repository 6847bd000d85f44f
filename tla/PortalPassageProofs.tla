------------------------ MODULE PortalPassageProofs ------------------------
(***************************************************************************)
(* Proofs about PortalPassage, for any number of portals, places and       *)
(* entities and any limit of shadow clones.                                *)
(*                                                                         *)
(* The linkage keeps its own invariant, IInv of PortalLinkageProofs: each  *)
(* action here makes one of its calls.  PassageInv adds what the           *)
(* simulators contribute; the lemmas say what each chain of calls on them  *)
(* does to it.                                                             *)
(***************************************************************************)
EXTENDS PortalSimulatorProofs, PortalLinkageProofs

-----------------------------------------------------------------------------
(* Entities are handed on *)

\* What another simulator owns is released there first.
LEMMA AcquiredKeeps ==
    ASSUME NEW s, Sound(s), NEW p \in Portals, NEW e \in Entities
    PROVE  OnlyGains(Acquired(s, p, e), s, p)
<1> DEFINE o == s.owner[e]
           d == ReleaseOwnershipOfEntity(s, o, {e})
           f == IF o \in {NoPortal, p} THEN s ELSE d
<1>1. o \in Portals \cup {NoPortal}
  BY DEF Sound, SimOK, Simulators
<1>2. Acquired(s, p, e) = TakeOwnershipOfEntity(f, p, e)
  BY DEF Acquired
<1>3. OnlyGains(f, s, p) /\ f.owner[e] \in {NoPortal, p}
  <2>1. CASE o \in {NoPortal, p}
    BY <2>1 DEF OnlyGains, SamePlaces
  <2>2. CASE o \notin {NoPortal, p}
    <3>1. o \in Portals /\ {e} \in SUBSET Entities /\ e \in {e} /\ s.owner[e] = o
      BY <1>1, <2>2
    <3>2. f = d
      BY <2>2
    <3> HIDE DEF o
    <3>3. OnlyLoses(d, s) /\ d.owner[e] = NoPortal
      BY <3>1, ReleaseOwnershipKeeps
    <3> HIDE DEF d, f
    <3> QED BY <3>2, <3>3 DEF OnlyLoses, OnlyGains
  <2> QED BY <2>1, <2>2
<1> HIDE DEF f
<1>4. OnlyGains(TakeOwnershipOfEntity(f, p, e), f, p)
  BY <1>3, TakeOwnershipKeeps DEF OnlyGains
<1> QED BY <1>2, <1>3, <1>4, GainsThenGains

\* Activate acquires what the portal touches, one entity after the other.
LEMMA AllAcquired ==
    ASSUME NEW s, Sound(s), NEW p \in Portals, NEW touched \in SUBSET Entities
    PROVE  OnlyGains(FoldSet(LAMBDA e, r : Acquired(r, p, e), s, touched), s, p)
<1> DEFINE F == {r \in Simulators : OnlyGains(r, s, p)}
           step == [q \in touched \X F |-> Acquired(q[2], p, q[1])]
           take == [t \in SUBSET touched |-> Next1(t)]
           Eq(it) == it = [t \in SUBSET touched |->
                             IF t = {} THEN s ELSE Acquired(it[t \ {Next1(t)}], p, Next1(t))]
           iter == CHOOSE it : Eq(it)
<1>0. IsFiniteSet(touched)
  BY EntitiesAssumption, FS_Subset
<1>1. s \in F
  BY DEF OnlyGains, SamePlaces, Sound, SimOK
<1>2. \A r \in F, e \in Entities : Acquired(r, p, e) \in F
  <2> SUFFICES ASSUME NEW r \in F, NEW e \in Entities PROVE Acquired(r, p, e) \in F
    OBVIOUS
  <2>1. OnlyGains(Acquired(r, p, e), r, p) /\ OnlyGains(r, s, p)
    BY AcquiredKeeps DEF OnlyGains
  <2>2. OnlyGains(Acquired(r, p, e), s, p)
    BY <2>1, GainsThenGains
  <2> QED BY <2>2 DEF OnlyGains, Sound, SimOK
<1>3. step \in [touched \X F -> F]
  <2> HIDE DEF F
  <2> QED BY <1>2
<1>4. \A t \in SUBSET touched : t # {} => Next1(t) \in t /\ t \ {Next1(t)} \in SUBSET touched
  BY DEF Next1
<1> HIDE DEF F
<1>a. \A t \in SUBSET touched : take[t] = Next1(t)
  OBVIOUS
<1>5. PICK g \in [SUBSET touched -> F] : Folding(g, touched, take, s, step)
  <2>1. \A t \in SUBSET touched : t # {} => take[t] \in t
    BY <1>4, <1>a
  <2> HIDE DEF step, take
  <2> QED BY <1>0, <1>1, <1>3, <2>1, FoldingExists
<1>6. Eq(g)
  <2>1. \A t \in SUBSET touched : t # {} =>
          step[<<Next1(t), g[t \ {Next1(t)}]>>] = Acquired(g[t \ {Next1(t)}], p, Next1(t))
    BY <1>4
  <2>2. g = [t \in SUBSET touched |-> IF t = {} THEN s
                                      ELSE step[<<Next1(t), g[t \ {Next1(t)}]>>]]
    <3> HIDE DEF step, take
    <3> QED BY <1>5, <1>a DEF Folding
  <2> HIDE DEF step
  <2> QED BY <2>1, <2>2
<1>7. Eq(iter)
  BY <1>6
<1>8. FoldSet(LAMBDA e, r : Acquired(r, p, e), s, touched) = iter[touched]
  BY DEF FoldSet, MapThenFoldSet, Next1
<1> HIDE DEF iter
<1>9. /\ iter[{}] = s
      /\ \A t \in SUBSET touched : t # {} =>
            iter[t] = Acquired(iter[t \ {Next1(t)}], p, Next1(t))
  <2>1. {} \in SUBSET touched
    OBVIOUS
  <2> QED BY <1>7, <2>1
<1> HIDE DEF Eq
<1> DEFINE C == {t \in SUBSET touched : iter[t] \notin F}
<1>10. C = {}
  <2> SUFFICES ASSUME C # {} PROVE FALSE
    OBVIOUS
  <2>1. PICK t \in C : \A e \in t : t \ {e} \notin C
    <3>1. C \in SUBSET (SUBSET touched)
      OBVIOUS
    <3> HIDE DEF C
    <3> QED BY <1>0, <3>1, MinimalMember
  <2>2. t \in SUBSET touched /\ t # {}
    BY <1>1, <1>9, <2>1
  <2>3. iter[t \ {Next1(t)}] \in F /\ Next1(t) \in Entities
    BY <1>4, <2>1, <2>2
  <2>4. iter[t] = Acquired(iter[t \ {Next1(t)}], p, Next1(t))
    BY <1>9, <2>2
  <2>5. iter[t] \in F
    BY <1>2, <2>3, <2>4
  <2> QED BY <2>1, <2>5
<1>11. iter[touched] \in F
  BY <1>10
<1> QED BY <1>8, <1>11 DEF F

-----------------------------------------------------------------------------
(* What the linkage does to the simulators *)

\* A portal is moved to where it stands and then attached.
LEMMA MovedAndAttached ==
    ASSUME NEW s, Sound(s), Told(s), NEW p \in Portals, NEW q \in Portals,
           NEW origin \in [Portals -> Spots \cup {Nowhere}]
    PROVE  LET r == AttachTo(MoveTo(s, p, origin[p]), p, q)
           IN  /\ Resettled(r, s, origin) /\ r.link = Attached(s.link, p, q)
               /\ r.place[p] = origin[p]
<1> DEFINE a == MoveTo(s, p, origin[p])
           r == AttachTo(a, p, q)
<1>1. /\ Resettled(a, s, origin) /\ a.link = s.link
      /\ a.place = [s.place EXCEPT ![p] = origin[p]]
  BY MoveToKeeps
<1>2. s.place \in [Portals -> Spots \cup {Nowhere}]
  BY DEF Sound, SimOK, Simulators
<1> HIDE DEF a
<1>3. Sound(a) /\ Told(a) /\ a.place[p] = origin[p]
  BY <1>1, <1>2 DEF Resettled
<1>4. Resettled(r, a, origin) /\ r.link = Attached(a.link, p, q) /\ r.place = a.place
  BY <1>3, AttachKeeps
<1> HIDE DEF r
<1> QED BY <1>1, <1>3, <1>4, ResettledTwice DEF a, r

\* The simulators s are attached as UpdatePortalLinkage finds them.
CanRelink(s, p, on, lk, origin) ==
    /\ Sound(s) /\ Told(s)
    /\ lk \in [Portals -> Portals \cup {NoPortal}]
    /\ origin \in [Portals -> Spots \cup {Nowhere}]
    /\ \A x \in Portals : s.link[x] \in {lk[x], NoPortal}
    /\ UpdatePortalLinkage(p, on, lk, s.link)

\* r is attached as it leaves them, p's simulator is where p stands, nobody
\* gains anything, and a portal that stays alone has let go of what it owned.
HasRelinked(r, s, p, origin) ==
    /\ Resettled(r, s, origin) /\ r.link = attached'
    /\ r.place[p] = origin[p]
    /\ linked'[p] = NoPortal => r.owns[p] = {}

\* The simulators follow UpdatePortalLinkage.
LEMMA RelinkedKeeps ==
    ASSUME NEW s, NEW p \in Portals, NEW on, NEW lk, NEW origin,
           CanRelink(s, p, on, lk, origin)
    PROVE  HasRelinked(Relinked(s, p, on, lk, linked', origin), s, p, origin)
<1> DEFINE r == Relinked(s, p, on, lk, linked', origin)
<1>a. /\ Sound(s) /\ Told(s)
      /\ lk \in [Portals -> Portals \cup {NoPortal}]
      /\ origin \in [Portals -> Spots \cup {Nowhere}]
      /\ \A x \in Portals : s.link[x] \in {lk[x], NoPortal}
      /\ UpdatePortalLinkage(p, on, lk, s.link)
  BY DEF CanRelink
<1> SUFFICES /\ Resettled(r, s, origin) /\ r.link = attached'
             /\ r.place[p] = origin[p]
             /\ linked'[p] = NoPortal => r.owns[p] = {}
  BY DEF HasRelinked
<1>0. NoPortal \notin Portals /\ s.link \in [Portals -> Portals \cup {NoPortal}]
  BY <1>a, NoPortalAssumption DEF Sound, SimOK, Simulators
<1>1. CASE RenewLink(p, on, lk, s.link)
  <2> DEFINE x == AttachTo(MoveTo(s, p, origin[p]), p, lk[p])
  <2>1. /\ KeepsLink(p, on, lk) /\ lk[p] \in Portals
        /\ attached' = Attached(s.link, p, lk[p])
    BY <1>a, <1>1 DEF RenewLink, KeepsLink
  <2>2. r = x
    BY <2>1 DEF Relinked
  <2>3. Resettled(x, s, origin) /\ x.link = attached' /\ x.place[p] = origin[p]
    BY <1>a, <2>1, MovedAndAttached
  <2>4. linked'[p] # NoPortal
    BY <1>0, <1>a, <1>1, <2>1 DEF RenewLink
  <2> HIDE DEF x, r
  <2> QED BY <2>2, <2>3, <2>4 DEF r
<1>2. CASE TakePartner(p, on, lk, s.link)
  <2>1. PICK q \in Waiting(p, on, lk) :
          /\ linked' = [lk EXCEPT ![p] = q, ![q] = p]
          /\ attached' = Attached(s.link, q, p)
    BY <1>2 DEF TakePartner, FirstWaiting
  <2>2. /\ q \in Portals /\ q # p /\ lk[q] = NoPortal /\ ~KeepsLink(p, on, lk)
        /\ linked'[p] = q
    BY <1>a, <1>2, <2>1 DEF TakePartner, Waiting
  <2> DEFINE theirs == AttachTo(MoveTo(s, q, origin[q]), q, p)
             x == AttachTo(MoveTo(theirs, p, origin[p]), p, q)
  <2>3. r = x
    BY <1>0, <2>2 DEF Relinked
  <2>4. Resettled(theirs, s, origin) /\ theirs.link = attached'
    BY <1>a, <2>1, <2>2, MovedAndAttached
  <2>5. Sound(theirs) /\ Told(theirs)
    BY <2>4 DEF Resettled
  <2> HIDE DEF theirs
  <2>6. /\ Resettled(x, theirs, origin) /\ x.link = Attached(theirs.link, p, q)
        /\ x.place[p] = origin[p]
    BY <1>a, <2>2, <2>5, MovedAndAttached
  <2>7. s.link[q] = NoPortal
    BY <1>a, <2>2
  <2>8. attached' = [s.link EXCEPT ![q] = p, ![p] = q]
    BY <1>0, <2>1, <2>2, <2>7 DEF Attached, Detached
  <2>9. Attached(attached', p, q) = attached'
    BY <1>0, <2>2, <2>8 DEF Attached
  <2> HIDE DEF x, r
  <2>10. Resettled(x, s, origin) /\ x.link = attached'
    BY <2>4, <2>6, <2>9, ResettledTwice
  <2> QED BY <1>0, <2>2, <2>3, <2>6, <2>10 DEF r
<1>3. CASE StayAlone(p, on, lk, s.link)
  <2> DEFINE d == DetachFromLinked(s, p)
             e == ReleaseAllEntityOwnership(d, p)
             x == MoveTo(e, p, origin[p])
  <2>1. linked'[p] = NoPortal /\ ~KeepsLink(p, on, lk) /\ attached' = Detached(s.link, p)
    BY <1>a, <1>3 DEF StayAlone
  <2>2. r = x
    BY <2>1 DEF Relinked
  <2>3. Resettled(d, s, origin) /\ d.link = attached'
    BY <1>a, <2>1, DetachKeeps
  <2> HIDE DEF d
  <2>4. OnlyLoses(e, d) /\ e.owns[p] = {}
    BY <2>3, ReleaseAllKeeps DEF Resettled
  <2> HIDE DEF e
  <2>5. Resettled(e, d, origin) /\ e.link = d.link
    BY <2>3, <2>4, LosesResettled DEF Resettled, OnlyLoses, SamePlaces
  <2>6. Sound(e) /\ Told(e)
    BY <2>5 DEF Resettled
  <2>7. /\ Resettled(x, e, origin) /\ x.link = e.link /\ x.owns = e.owns
        /\ x.place = [e.place EXCEPT ![p] = origin[p]]
    BY <1>a, <2>6, MoveToKeeps
  <2>8. e.place \in [Portals -> Spots \cup {Nowhere}]
    BY <2>6 DEF Sound, SimOK, Simulators
  <2>9. x.place[p] = origin[p]
    BY <2>7, <2>8
  <2> HIDE DEF x, r
  <2>10. Resettled(x, s, origin)
    BY <2>3, <2>5, <2>7, ResettledTwice
  <2> QED BY <2>2, <2>3, <2>4, <2>5, <2>7, <2>9, <2>10 DEF r
<1> QED BY <1>a, <1>1, <1>2, <1>3 DEF UpdatePortalLinkage

\* The simulators s are attached as Abandon finds them.
CanAbandon(s, p, on) ==
    /\ Sound(s) /\ Told(s) /\ s.link = attached
    /\ linked \in [Portals -> Portals \cup {NoPortal}]
    /\ \A x \in Portals : attached[x] = linked[x]
    /\ ptOrigin \in [Portals -> Spots \cup {Nowhere}]
    /\ Abandon(p, on)

\* r is attached as it leaves them, p owns nothing, and nor does its partner if
\* that one finds no other.
HasAbandoned(r, s, p) ==
    /\ Resettled(r, s, ptOrigin) /\ r.link = attached'
    /\ r.owns[p] = {}
    /\ linked[p] # NoPortal /\ linked'[linked[p]] = NoPortal => r.owns[linked[p]] = {}

\* The same of a portal that closes.
LEMMA AbandonedKeeps ==
    ASSUME NEW s, NEW p \in Portals, NEW on, CanAbandon(s, p, on)
    PROVE  HasAbandoned(Abandoned(s, p, on, linked'), s, p)
<1>a. /\ Sound(s) /\ Told(s) /\ s.link = attached
      /\ linked \in [Portals -> Portals \cup {NoPortal}]
      /\ \A x \in Portals : attached[x] = linked[x]
      /\ ptOrigin \in [Portals -> Spots \cup {Nowhere}]
      /\ Abandon(p, on)
  BY DEF CanAbandon
<1> DEFINE r == Abandoned(s, p, on, linked')
           d == DetachFromLinked(s, p)
           left == ReleaseAllEntityOwnership(d, p)
           q == linked[p]
           lk == [linked EXCEPT ![p] = NoPortal]
<1> SUFFICES /\ Resettled(r, s, ptOrigin) /\ r.link = attached'
             /\ r.owns[p] = {}
             /\ linked[p] # NoPortal /\ linked'[linked[p]] = NoPortal => r.owns[linked[p]] = {}
  BY DEF HasAbandoned
<1>0. /\ NoPortal \notin Portals /\ q \in Portals \cup {NoPortal}
      /\ attached \in [Portals -> Portals \cup {NoPortal}]
  BY <1>a, NoPortalAssumption DEF Sound, SimOK, Simulators
<1>1. r = IF q = NoPortal THEN left ELSE Relinked(left, q, on, lk, linked', ptOrigin)
  BY DEF Abandoned
<1>2. Resettled(d, s, ptOrigin) /\ d.link = Detached(attached, p)
  BY <1>a, DetachKeeps
<1> HIDE DEF d
<1>3. OnlyLoses(left, d) /\ left.owns[p] = {} /\ Told(d)
  BY <1>2, ReleaseAllKeeps DEF Resettled
<1> HIDE DEF left
<1>4. Resettled(left, s, ptOrigin) /\ left.link = Detached(attached, p)
  <2>1. Resettled(left, d, ptOrigin)
    BY <1>3, LosesResettled
  <2> QED BY <1>2, <1>3, <2>1, ResettledTwice DEF OnlyLoses, SamePlaces
<1>5. CASE q = NoPortal
  <2>1. attached' = Detached(attached, p)
    BY <1>a, <1>5 DEF Abandon
  <2> HIDE DEF r
  <2> QED BY <1>1, <1>3, <1>4, <1>5, <2>1 DEF r
<1>6. CASE q # NoPortal
  <2>1. UpdatePortalLinkage(q, on, lk, left.link)
    BY <1>a, <1>4, <1>6 DEF Abandon
  <2>2. \A x \in Portals : left.link[x] \in {lk[x], NoPortal}
    BY <1>0, <1>a, <1>4 DEF Detached
  <2>3. lk \in [Portals -> Portals \cup {NoPortal}] /\ q \in Portals
    BY <1>0, <1>a, <1>6
  <2>4. Sound(left) /\ Told(left)
    BY <1>4 DEF Resettled
  <2> DEFINE x == Relinked(left, q, on, lk, linked', ptOrigin)
  <2> HIDE DEF lk, q, r
  <2>a. CanRelink(left, q, on, lk, ptOrigin)
    BY <2>1, <2>2, <2>3, <2>4, <1>a DEF CanRelink
  <2>b. HasRelinked(x, left, q, ptOrigin)
    BY <2>a, <2>3, RelinkedKeeps
  <2>5. /\ Resettled(x, left, ptOrigin) /\ x.link = attached'
        /\ linked'[q] = NoPortal => x.owns[q] = {}
    BY <2>b DEF HasRelinked
  <2>6. r = x
    BY <1>1, <1>6
  <2> HIDE DEF x, r
  <2>7. x.owns[p] = {}
    BY <1>3, <2>5 DEF Resettled
  <2>8. Resettled(x, s, ptOrigin)
    BY <1>4, <2>5, ResettledTwice
  <2> QED BY <2>5, <2>6, <2>7, <2>8 DEF r, q
<1> QED BY <1>5, <1>6

-----------------------------------------------------------------------------
(* The invariant *)

\* A portal that was told where it is has its simulator there; one that does
\* not exist was not.
PlacesAgree ==
    /\ ptOrigin \in [Portals -> Spots \cup {Nowhere}]
    /\ \A p \in Portals : ptOrigin[p] # Nowhere =>
          /\ ptOrigin[p] = spot[p] /\ sim.place[p] = spot[p]
          /\ status[p] # "none"

\* What the simulators contribute.
SimInv ==
    /\ Sound(sim) /\ Told(sim)
    /\ AttachmentAgrees
    /\ OwnersAreOpen
    /\ PlacesAgree

PassageInv == IInv /\ Unloaded = {} /\ SimInv

\* A step keeps it that a portal without a passage owns nothing.
StaysEmpty == UnlinkedOwnsNothing => UnlinkedOwnsNothing'

\* What the linkage's invariant says where no game is being loaded.
LEMMA LinkageFacts ==
    ASSUME IInv, Unloaded = {}
    PROVE  /\ linked \in [Portals -> Portals \cup {NoPortal}]
           /\ active \in [Portals -> BOOLEAN]
           /\ spot \in [Portals -> Spots]
           /\ status \in [Portals -> Status]
           /\ attached \in [Portals -> Portals \cup {NoPortal}]
           /\ \A x \in Portals : attached[x] = linked[x]
           /\ \A x \in Portals : linked[x] # NoPortal =>
                 linked[x] # x /\ linked[linked[x]] = x /\ active[x] /\ active[linked[x]]
           /\ \A x \in Portals : status[x] = "none" => ~active[x]
BY DEF IInv, TypeOK, LinkSymmetric, LinkedAreActive, SimulatorAgrees, AwaitsAttachment,
       UnbornInactive

\* The simulators after a portal has closed.
LEMMA CloseKeeps ==
    ASSUME PassageInv, IInv', OneCall, NEW p \in Portals, NEW s,
           OnlyLoses(s, sim),
           Abandon(p, active'), active' = [active EXCEPT ![p] = FALSE],
           sim' = Abandoned(s, p, active', linked'),
           ptOrigin' = ptOrigin, spot' = spot,
           \A x \in Portals : status'[x] = "none" => status[x] = "none"
    PROVE  SimInv' /\ StaysEmpty
<1>0. NoPortal \notin Portals
  BY NoPortalAssumption
<1>1. /\ linked \in [Portals -> Portals \cup {NoPortal}]
      /\ active \in [Portals -> BOOLEAN]
      /\ \A x \in Portals : attached[x] = linked[x]
      /\ \A x \in Portals : linked[x] # NoPortal =>
            linked[x] # x /\ linked[linked[x]] = x /\ active[x] /\ active[linked[x]]
  BY LinkageFacts DEF PassageInv
<1>2. /\ Sound(sim) /\ Told(sim) /\ sim.link = attached /\ OwnersAreOpen
      /\ PlacesAgree /\ ptOrigin \in [Portals -> Spots \cup {Nowhere}]
  BY DEF PassageInv, SimInv, AttachmentAgrees, PlacesAgree
<1>3. Resettled(s, sim, ptOrigin) /\ s.link = attached
  BY <1>2, LosesResettled DEF OnlyLoses, SamePlaces
<1>4. CanAbandon(s, p, active')
  BY <1>1, <1>2, <1>3 DEF CanAbandon, Resettled
<1>5. HasAbandoned(sim', s, p)
  BY <1>4, AbandonedKeeps
<1>6. /\ Sound(sim') /\ Told(sim') /\ sim'.link = attached'
      /\ \A q \in Portals : sim'.owns[q] \subseteq sim.owns[q]
      /\ \A q \in Portals : sim'.place[q] \in {sim.place[q], ptOrigin[q]}
      /\ sim'.owns[p] = {}
      /\ linked[p] # NoPortal /\ linked'[linked[p]] = NoPortal => sim'.owns[linked[p]] = {}
  BY <1>3, <1>5 DEF HasAbandoned, Resettled
<1>7. OwnersAreOpen'
  BY <1>1, <1>2, <1>6 DEF OwnersAreOpen
<1>8. PlacesAgree'
  BY <1>2, <1>6 DEF PlacesAgree
<1>9. StaysEmpty
  <2> SUFFICES ASSUME UnlinkedOwnsNothing, NEW x \in Portals, linked'[x] = NoPortal
               PROVE  sim'.owns[x] = {}
    BY DEF StaysEmpty, UnlinkedOwnsNothing
  <2>1. CASE linked[x] = NoPortal
    BY <1>6, <2>1 DEF UnlinkedOwnsNothing
  <2>2. CASE linked[x] # NoPortal /\ x # p /\ linked[x] # p
    <3>1. active'[x] /\ active'[linked[x]]
      BY <1>1, <2>2
    <3>2. linked'[x] = linked[x]
      BY <2>2, <3>1 DEF OneCall
    <3> QED BY <2>2, <3>2
  <2>3. CASE linked[x] # NoPortal /\ linked[x] = p
    <3>1. linked[p] = x /\ x # NoPortal
      BY <1>0, <1>1, <2>3
    <3> QED BY <1>6, <3>1
  <2> QED BY <1>6, <2>1, <2>2, <2>3
<1> QED BY <1>6, <1>7, <1>8, <1>9 DEF SimInv, AttachmentAgrees

\* The simulators after a portal has opened, moved, or been linked again.
LEMMA OpenKeeps ==
    ASSUME PassageInv, IInv', OneCall, NEW p \in Portals, NEW s,
           OnlyLoses(s, sim),
           UpdatePortalLinkage(p, active', linked, attached),
           active' = [active EXCEPT ![p] = TRUE],
           sim' = Relinked(s, p, active', linked, linked', ptOrigin'),
           status[p] # "none", status' = status,
           \/ ptOrigin' = ptOrigin /\ spot' = spot
           \/ \E at \in Spots : /\ ptOrigin' = [ptOrigin EXCEPT ![p] = at]
                                /\ spot' = [spot EXCEPT ![p] = at]
    PROVE  SimInv' /\ StaysEmpty
<1>0. NoPortal \notin Portals
  BY NoPortalAssumption
<1>1. /\ linked \in [Portals -> Portals \cup {NoPortal}]
      /\ active \in [Portals -> BOOLEAN]
      /\ spot \in [Portals -> Spots]
      /\ \A x \in Portals : attached[x] = linked[x]
      /\ \A x \in Portals : linked[x] # NoPortal =>
            linked[x] # x /\ linked[linked[x]] = x /\ active[x] /\ active[linked[x]]
  BY LinkageFacts DEF PassageInv
<1>2. /\ Sound(sim) /\ Told(sim) /\ sim.link = attached /\ OwnersAreOpen
      /\ PlacesAgree /\ ptOrigin \in [Portals -> Spots \cup {Nowhere}]
  BY DEF PassageInv, SimInv, AttachmentAgrees, PlacesAgree
<1>3. /\ Sound(s) /\ Told(s) /\ s.link = attached /\ s.place = sim.place
      /\ \A q \in Portals : s.owns[q] \subseteq sim.owns[q]
  BY <1>2 DEF OnlyLoses, SamePlaces, Told
<1>4. ptOrigin' \in [Portals -> Spots \cup {Nowhere}]
  BY <1>2
<1>5. CanRelink(s, p, active', linked, ptOrigin')
  BY <1>1, <1>3, <1>4 DEF CanRelink
<1>6. HasRelinked(sim', s, p, ptOrigin')
  BY <1>5, RelinkedKeeps
<1>7. /\ Sound(sim') /\ Told(sim') /\ sim'.link = attached'
      /\ \A q \in Portals : sim'.owns[q] \subseteq sim.owns[q]
      /\ \A q \in Portals : sim'.place[q] \in {sim.place[q], ptOrigin'[q]}
      /\ sim'.place[p] = ptOrigin'[p]
      /\ linked'[p] = NoPortal => sim'.owns[p] = {}
  BY <1>3, <1>6 DEF HasRelinked, Resettled
<1>8. OwnersAreOpen'
  <2>1. \A x \in Portals : active[x] => active'[x]
    BY <1>1
  <2>2. ASSUME NEW x \in Portals, sim'.owns[x] # {}
        PROVE  active[x]
    <3>1. sim.owns[x] # {}
      BY <1>7, <2>2
    <3> QED BY <1>2, <3>1 DEF OwnersAreOpen
  <2> QED BY <2>1, <2>2 DEF OwnersAreOpen
<1>9. PlacesAgree'
  <2>1. CASE ptOrigin' = ptOrigin /\ spot' = spot
    BY <1>2, <1>7, <2>1 DEF PlacesAgree
  <2>2. ASSUME NEW at \in Spots, ptOrigin' = [ptOrigin EXCEPT ![p] = at],
               spot' = [spot EXCEPT ![p] = at]
        PROVE  PlacesAgree'
    <3>1. ptOrigin'[p] = at /\ spot'[p] = at
      BY <1>1, <1>2, <2>2
    <3>2. \A x \in Portals : x # p => ptOrigin'[x] = ptOrigin[x] /\ spot'[x] = spot[x]
      BY <1>1, <1>2, <2>2
    <3>3. ASSUME NEW x \in Portals, ptOrigin'[x] # Nowhere
          PROVE  ptOrigin'[x] = spot'[x] /\ sim'.place[x] = spot'[x] /\ status'[x] # "none"
      <4>1. CASE x = p
        BY <1>7, <3>1, <4>1
      <4>2. CASE x # p
        BY <1>2, <1>7, <3>2, <3>3, <4>2 DEF PlacesAgree
      <4> QED BY <4>1, <4>2
    <3> QED BY <1>4, <3>3 DEF PlacesAgree
  <2> QED BY <2>1, <2>2
<1>10. StaysEmpty
  <2> SUFFICES ASSUME UnlinkedOwnsNothing, NEW x \in Portals, linked'[x] = NoPortal
               PROVE  sim'.owns[x] = {}
    BY DEF StaysEmpty, UnlinkedOwnsNothing
  <2>1. CASE linked[x] = NoPortal
    BY <1>7, <2>1 DEF UnlinkedOwnsNothing
  <2>2. CASE linked[x] # NoPortal
    <3>1. active'[x] /\ active'[linked[x]]
      BY <1>1, <2>2
    <3>2. linked'[x] = linked[x]
      BY <2>2, <3>1 DEF OneCall
    <3> QED BY <2>2, <3>2
  <2> QED BY <2>1, <2>2
<1> QED BY <1>7, <1>8, <1>9, <1>10 DEF SimInv, AttachmentAgrees

\* Entities are handed on, to portals of a passage or to nobody.
HandedOn(r, s) ==
    /\ Sound(r) /\ SamePlaces(r, s)
    /\ \A q \in Portals : r.owns[q] \subseteq s.owns[q] \/ linked[q] # NoPortal

LEMMA HandOnKeeps ==
    ASSUME PassageInv, HandedOn(sim', sim), UNCHANGED <<vars, ptOrigin>>
    PROVE  SimInv' /\ StaysEmpty
<1>0. NoPortal \notin Portals
  BY NoPortalAssumption
<1>1. /\ \A x \in Portals : linked[x] # NoPortal => active[x]
      /\ linked' = linked /\ active' = active /\ attached' = attached /\ spot' = spot
      /\ status' = status /\ ptOrigin' = ptOrigin
  BY LinkageFacts DEF PassageInv, vars
<1>2. sim.link = attached /\ OwnersAreOpen /\ PlacesAgree /\ Told(sim)
  BY DEF PassageInv, SimInv, AttachmentAgrees
<1>3. Sound(sim') /\ SamePlaces(sim', sim)
  BY DEF HandedOn
<1>4. \A q \in Portals : sim'.owns[q] \subseteq sim.owns[q] \/ linked[q] # NoPortal
  BY DEF HandedOn
<1>5. Told(sim') /\ sim'.link = attached' /\ PlacesAgree'
  BY <1>1, <1>2, <1>3 DEF SamePlaces, Told, PlacesAgree
<1>6. OwnersAreOpen'
  BY <1>1, <1>2, <1>4 DEF OwnersAreOpen
<1>7. StaysEmpty
  BY <1>1, <1>4 DEF StaysEmpty, UnlinkedOwnsNothing
<1> QED BY <1>3, <1>5, <1>6, <1>7 DEF SimInv, AttachmentAgrees

\* The simulators are left alone, and no portal closes or changes its passage.
LEMMA StillKeeps ==
    ASSUME PassageInv, IInv', sim' = sim, ptOrigin' = ptOrigin,
           linked' = linked, attached' = attached,
           \A x \in Portals : active[x] => active'[x],
           \A x \in Portals : status[x] # "none" =>
                status'[x] # "none" /\ spot'[x] = spot[x]
    PROVE  SimInv' /\ StaysEmpty
<1>1. Sound(sim) /\ Told(sim) /\ sim.link = attached /\ OwnersAreOpen /\ PlacesAgree
  BY DEF PassageInv, SimInv, AttachmentAgrees
<1>2. OwnersAreOpen' /\ PlacesAgree'
  BY <1>1 DEF OwnersAreOpen, PlacesAgree
<1>3. StaysEmpty
  BY DEF StaysEmpty, UnlinkedOwnsNothing
<1> QED BY <1>1, <1>2, <1>3 DEF SimInv, AttachmentAgrees

\* A portal of the map that is open from the start.
LEMMA ActivateOpenKeeps ==
    ASSUME PassageInv, IInv', OneCall, NEW p \in Portals, PassageActivate(p), active[p]
    PROVE  SimInv' /\ StaysEmpty
<1> DEFINE now == Relinked(sim, p, active, linked, linked', ptOrigin)
           moved == MoveTo(now, p, spot[p])
<1>0. NoPortal \notin Portals
  BY NoPortalAssumption
<1>1. /\ linked \in [Portals -> Portals \cup {NoPortal}]
      /\ active \in [Portals -> BOOLEAN]
      /\ spot \in [Portals -> Spots]
      /\ status \in [Portals -> Status]
      /\ \A x \in Portals : attached[x] = linked[x]
      /\ \A x \in Portals : linked[x] # NoPortal =>
            linked[x] # x /\ linked[linked[x]] = x /\ active[x] /\ active[linked[x]]
  BY LinkageFacts DEF PassageInv
<1>2. /\ Sound(sim) /\ Told(sim) /\ sim.link = attached /\ OwnersAreOpen
      /\ PlacesAgree /\ ptOrigin \in [Portals -> Spots \cup {Nowhere}]
  BY DEF PassageInv, SimInv, AttachmentAgrees, PlacesAgree
<1>3. /\ UpdatePortalLinkage(p, active, linked, attached)
      /\ active' = active /\ spot' = spot /\ ptOrigin' = ptOrigin
      /\ status' = [status EXCEPT ![p] = "live"]
  BY DEF PassageActivate, Activate
<1>4. CanRelink(sim, p, active, linked, ptOrigin)
  BY <1>1, <1>2, <1>3 DEF CanRelink
<1>5. HasRelinked(now, sim, p, ptOrigin)
  BY <1>4, RelinkedKeeps
<1>6. \/ sim' = now /\ linked'[p] = NoPortal
      \/ /\ linked'[p] # NoPortal
         /\ \E touched \in SUBSET Entities :
               sim' = FoldSet(LAMBDA e, s : Acquired(s, p, e), moved, touched)
  BY <1>3 DEF PassageActivate
<1> HIDE DEF now
<1>7. /\ Sound(now) /\ Told(now) /\ now.link = attached'
      /\ \A q \in Portals : now.owns[q] \subseteq sim.owns[q]
      /\ \A q \in Portals : now.place[q] \in {sim.place[q], ptOrigin[q]}
      /\ linked'[p] = NoPortal => now.owns[p] = {}
  BY <1>5 DEF HasRelinked, Resettled
<1>8. /\ Sound(sim') /\ Told(sim') /\ sim'.link = attached'
      /\ \A q \in Portals : q # p => sim'.owns[q] \subseteq sim.owns[q]
      /\ linked'[p] = NoPortal => sim'.owns[p] = {}
      /\ \A q \in Portals : ptOrigin[q] # Nowhere => sim'.place[q] = spot[q]
  <2>0. \A q \in Portals : ptOrigin[q] # Nowhere => now.place[q] = spot[q]
    BY <1>2, <1>7 DEF PlacesAgree
  <2>1. CASE sim' = now /\ linked'[p] = NoPortal
    BY <1>7, <2>0, <2>1
  <2>2. CASE linked'[p] # NoPortal
    <3> DEFINE origin == [x \in Portals |-> spot[x]]
    <3>1. origin \in [Portals -> Spots \cup {Nowhere}] /\ origin[p] = spot[p]
      BY <1>1
    <3> HIDE DEF origin
    <3>2. /\ Resettled(MoveTo(now, p, origin[p]), now, origin)
          /\ MoveTo(now, p, origin[p]).link = now.link
          /\ MoveTo(now, p, origin[p]).place = [now.place EXCEPT ![p] = origin[p]]
      BY <1>7, <3>1, MoveToKeeps
    <3>3. /\ Resettled(moved, now, origin) /\ moved.link = now.link
          /\ moved.place = [now.place EXCEPT ![p] = spot[p]]
      BY <3>1, <3>2
    <3>4. PICK touched \in SUBSET Entities :
            sim' = FoldSet(LAMBDA e, s : Acquired(s, p, e), moved, touched)
      BY <1>6, <2>2
    <3> HIDE DEF moved
    <3>5. Sound(moved) /\ Told(moved) /\ \A q \in Portals : moved.owns[q] \subseteq now.owns[q]
      BY <3>3 DEF Resettled
    <3>6. OnlyGains(FoldSet(LAMBDA e, s : Acquired(s, p, e), moved, touched), moved, p)
      BY <3>5, AllAcquired
    <3>7. OnlyGains(sim', moved, p)
      BY <3>4, <3>6
    <3>8. now.place \in [Portals -> Spots \cup {Nowhere}]
      BY <1>7 DEF Sound, SimOK, Simulators
    <3>9. \A q \in Portals : ptOrigin[q] # Nowhere => moved.place[q] = spot[q]
      BY <2>0, <3>3, <3>8
    <3> QED BY <1>7, <2>2, <3>3, <3>5, <3>7, <3>9 DEF OnlyGains, SamePlaces, Told
  <2> QED BY <1>6, <2>1, <2>2
<1>9. OwnersAreOpen'
  BY <1>2, <1>3, <1>8 DEF OwnersAreOpen
<1>10. PlacesAgree'
  BY <1>1, <1>2, <1>3, <1>8 DEF PlacesAgree
<1>11. StaysEmpty
  <2> SUFFICES ASSUME UnlinkedOwnsNothing, NEW x \in Portals, linked'[x] = NoPortal
               PROVE  sim'.owns[x] = {}
    BY DEF StaysEmpty, UnlinkedOwnsNothing
  <2>1. CASE linked[x] = NoPortal
    BY <1>8, <2>1 DEF UnlinkedOwnsNothing
  <2>2. CASE linked[x] # NoPortal
    <3>1. active'[x] /\ active'[linked[x]]
      BY <1>1, <1>3, <2>2
    <3>2. linked'[x] = linked[x]
      BY <2>2, <3>1 DEF OneCall
    <3> QED BY <2>2, <3>2
  <2> QED BY <2>1, <2>2
<1> QED BY <1>8, <1>9, <1>10, <1>11 DEF SimInv, AttachmentAgrees

\* Destruction.  The partner keeps what it owned: the one action that may leave
\* a portal without a passage with something to release.
LEMMA DestroyKeeps ==
    ASSUME PassageInv, NEW p \in Portals, PassageDestroy(p)
    PROVE  /\ SimInv'
           /\ linked[p] = NoPortal => StaysEmpty
<1>0. NoPortal \notin Portals /\ Nowhere \notin Spots
  BY NoPortalAssumption, EntitiesAssumption
<1>1. /\ active \in [Portals -> BOOLEAN]
      /\ spot \in [Portals -> Spots]
      /\ status \in [Portals -> Status]
      /\ \A x \in Portals : linked[x] # NoPortal => linked[x] # x /\ linked[linked[x]] = x
  BY LinkageFacts DEF PassageInv
<1>2. /\ Sound(sim) /\ Told(sim) /\ sim.link = attached /\ OwnersAreOpen
      /\ PlacesAgree /\ ptOrigin \in [Portals -> Spots \cup {Nowhere}]
  BY DEF PassageInv, SimInv, AttachmentAgrees, PlacesAgree
<1>3. /\ attached' = Detached(attached, p) /\ active' = [active EXCEPT ![p] = FALSE]
      /\ status' = [status EXCEPT ![p] = "none"] /\ spot' = spot
      /\ linked' = [q \in Portals |-> IF q = p \/ linked[q] = p THEN NoPortal ELSE linked[q]]
      /\ sim' = Destroyed(sim, p) /\ ptOrigin' = [ptOrigin EXCEPT ![p] = Nowhere]
  BY DEF PassageDestroy, Destroy
<1>4. /\ Sound(sim') /\ Told(sim') /\ sim'.link = attached'
      /\ \A q \in Portals : sim'.owns[q] \subseteq sim.owns[q]
      /\ sim'.owns[p] = {}
      /\ sim'.place = [sim.place EXCEPT ![p] = Nowhere]
  BY <1>2, <1>3, DestroyedKeeps
<1>5. sim.place \in [Portals -> Spots \cup {Nowhere}]
  BY <1>2 DEF Sound, SimOK, Simulators
<1>6. OwnersAreOpen'
  BY <1>1, <1>2, <1>3, <1>4 DEF OwnersAreOpen
<1>7. PlacesAgree'
  BY <1>0, <1>1, <1>2, <1>3, <1>4, <1>5 DEF PlacesAgree
<1>8. linked[p] = NoPortal => StaysEmpty
  <2> SUFFICES ASSUME linked[p] = NoPortal, UnlinkedOwnsNothing,
                      NEW x \in Portals, linked'[x] = NoPortal
               PROVE  sim'.owns[x] = {}
    BY DEF StaysEmpty, UnlinkedOwnsNothing
  <2>1. x = p \/ linked[x] = NoPortal
    BY <1>0, <1>1, <1>3
  <2> QED BY <1>4, <2>1 DEF UnlinkedOwnsNothing
<1> QED BY <1>4, <1>6, <1>7, <1>8 DEF SimInv, AttachmentAgrees

-----------------------------------------------------------------------------
(* The touch functions *)

\* An entity that p owns goes to the other end of the passage.
LEMMA TeleportedKeeps ==
    ASSUME PassageInv, NEW s, Sound(s), NEW p \in Portals, NEW e \in Entities,
           linked[p] # NoPortal, e \in s.owns[p]
    PROVE  HandedOn(Teleported(s, p, e), s)
<1> DEFINE d == ReleaseOwnershipOfEntity(s, p, {e})
           q == linked[p]
           r == TakeOwnershipOfEntity(d, q, e)
<1>1. q \in Portals /\ linked[q] # NoPortal
  BY NoPortalAssumption, LinkageFacts DEF PassageInv
<1>2. s.owner[e] = p
  BY DEF Sound, Owned
<1>3. OnlyLoses(d, s) /\ d.owner[e] = NoPortal
  <2>1. {e} \in SUBSET Entities /\ e \in {e}
    OBVIOUS
  <2> QED BY <1>2, <2>1, ReleaseOwnershipKeeps
<1>4. Teleported(s, p, e) = r
  BY DEF Teleported
<1> HIDE DEF d, q
<1>5. OnlyGains(r, d, q)
  BY <1>1, <1>3, TakeOwnershipKeeps DEF OnlyLoses
<1> HIDE DEF r
<1> QED BY <1>1, <1>3, <1>4, <1>5 DEF OnlyLoses, OnlyGains, SamePlaces, HandedOn

\* Both outcomes of ShouldTeleportTouchingEntity.
LEMMA PerhapsTeleportedKeeps ==
    ASSUME PassageInv, NEW s, Sound(s), NEW p \in Portals, NEW e \in Entities,
           NEW r \in PerhapsTeleported(s, p, e)
    PROVE  HandedOn(r, s)
<1>1. r = s \/ (linked[p] # NoPortal /\ e \in s.owns[p] /\ r = Teleported(s, p, e))
  BY DEF PerhapsTeleported
<1>2. HandedOn(s, s)
  BY DEF HandedOn, SamePlaces
<1> QED BY <1>1, <1>2, TeleportedKeeps

LEMMA TouchKeeps ==
    ASSUME PassageInv, NEW p \in Portals, NEW e \in Entities,
           StartTouch(p, e) \/ Touch(p, e) \/ TouchUnlinked(p, e) \/ EndTouch(p, e)
    PROVE  SimInv' /\ StaysEmpty
<1>1. Sound(sim) /\ {e} \in SUBSET Entities
  BY DEF PassageInv, SimInv
<1> SUFFICES HandedOn(sim', sim)
  <2>1. UNCHANGED <<vars, ptOrigin>>
    BY DEF StartTouch, Touch, TouchUnlinked, EndTouch
  <2> QED BY <2>1, HandOnKeeps
<1>2. HandedOn(sim, sim)
  BY <1>1 DEF HandedOn, SamePlaces
<1>3. linked[p] # NoPortal => HandedOn(Acquired(sim, p, e), sim)
  <2>1. OnlyGains(Acquired(sim, p, e), sim, p)
    BY <1>1, AcquiredKeeps
  <2> QED BY <2>1 DEF OnlyGains, HandedOn
<1>4. HandedOn(ReleaseOwnershipOfEntity(sim, p, {e}), sim)
  <2>1. OnlyLoses(ReleaseOwnershipOfEntity(sim, p, {e}), sim)
    BY <1>1, ReleaseOwnershipKeeps
  <2> QED BY <2>1 DEF OnlyLoses, HandedOn
<1>5. CASE StartTouch(p, e)
  BY <1>3, <1>5 DEF StartTouch, IsActivedAndLinked
<1>6. CASE Touch(p, e)
  <2>1. linked[p] # NoPortal
    BY <1>6 DEF Touch, IsActivedAndLinked
  <2>2. PICK now \in {sim, Acquired(sim, p, e)} : sim' \in PerhapsTeleported(now, p, e)
    BY <1>6 DEF Touch
  <2>3. HandedOn(now, sim)
    BY <1>2, <1>3, <2>1, <2>2
  <2>4. HandedOn(sim', now)
    BY <2>2, <2>3, PerhapsTeleportedKeeps DEF HandedOn
  <2> QED BY <2>3, <2>4 DEF HandedOn, SamePlaces
<1>7. CASE TouchUnlinked(p, e)
  BY <1>4, <1>7 DEF TouchUnlinked
<1>8. CASE EndTouch(p, e)
  <2>1. \/ sim' \in PerhapsTeleported(sim, p, e)
        \/ sim' = ReleaseOwnershipOfEntity(sim, p, {e})
        \/ sim' = sim
    BY <1>8 DEF EndTouch
  <2> QED BY <1>1, <1>2, <1>4, <2>1, PerhapsTeleportedKeeps
<1> QED BY <1>5, <1>6, <1>7, <1>8

\* What may be cloned concerns the clones that are made later.
LEMMA ChangeSolidityKeeps ==
    ASSUME SimOK(sim), ChangeSolidity
    PROVE  /\ UNCHANGED <<vars, ptOrigin>>
           /\ Owned(sim) => OnlyLoses(sim', sim)
           /\ Firm(sim) => Firm(sim') /\ SameShape(sim', sim)
<1>1. PICK es \in Accepted : sim' = [sim EXCEPT !.cloneable = es]
  BY DEF ChangeSolidity
<1>2. /\ SimOK(sim') /\ SamePlaces(sim', sim) /\ SameFlags(sim', sim)
      /\ sim'.owns = sim.owns /\ sim'.physics = sim.physics /\ sim'.clones = sim.clones
      /\ sim'.owner = sim.owner /\ sim'.holder = sim.holder /\ sim'.count = sim.count
  BY <1>1 DEF SimOK, Simulators, SamePlaces, SameFlags
<1>3. Owned(sim) => Owned(sim')
  BY <1>2 DEF Owned
<1>4. Tidy(sim) => Tidy(sim')
  BY <1>2 DEF Tidy, NoStray, Mirrored, SamePlaces, SameFlags
<1> QED BY <1>2, <1>3, <1>4 DEF ChangeSolidity, OnlyLoses, Sound, Firm, SameShape

-----------------------------------------------------------------------------
(* PassageInv is inductive *)

\* Each call here is one of the linkage's, and none restores a saved game.
LEMMA CallsOfLinkage ==
    ASSUME PassageInv, PassageNext
    PROVE  /\ IInv' /\ Unloaded' = {}
           /\ Portals # {} => OneCall
<1>0. IInv /\ Unloaded = {} /\ status \in [Portals -> Status]
  BY LinkageFacts DEF PassageInv
<1>1. ASSUME NEW p \in Portals,
             \/ \E g \in Groups, two \in BOOLEAN :
                   \/ PassageFindPortal(p, g, two)
                   \/ \E on \in BOOLEAN, at \in Spots : PassageSpawnFromMap(p, g, two, on, at)
             \/ PassageActivate(p)
             \/ PassageFizzle(p)
             \/ \E at \in Spots : PassageNewLocation(p, at)
             \/ PassageDeactivate(p)
             \/ PassageSetActivatedState(p)
             \/ PassageFizzleBlocking(p)
             \/ PassageUpdateOnRemove(p)
             \/ PassageDestroy(p)
      PROVE  Next /\ \A x \in Portals : status'[x] # "restored"
  <2>1. Next
    BY <1>1 DEF Next, PassageFindPortal, PassageSpawnFromMap, PassageActivate, PassageFizzle,
        PassageNewLocation, PassageDeactivate, PassageSetActivatedState,
        PassageFizzleBlocking, PassageUpdateOnRemove, PassageDestroy
  <2>2. \E st \in Status \ {"restored"} : status' = [status EXCEPT ![p] = st] \/ status' = status
    BY <1>1 DEF PassageFindPortal, FindPortal, PassageSpawnFromMap, SpawnFromMap, Arrive,
        PassageActivate, Activate, PassageFizzle, Fizzle, PassageNewLocation, NewLocation,
        PassageDeactivate, Deactivate, PassageSetActivatedState, SetActivatedState,
        PassageFizzleBlocking, FizzleBlocking, PassageUpdateOnRemove, UpdateOnRemove,
        PassageDestroy, Destroy, lifeVars, Status
  <2>3. \A x \in Portals : status[x] # "restored"
    BY <1>0 DEF Unloaded
  <2> QED BY <1>0, <2>1, <2>2, <2>3
<1>2. ASSUME PassagePlaceFixed \/ PassageFinishActivation
      PROVE  Next /\ status' = status
  BY <1>2 DEF Next, PassagePlaceFixed, PassageFinishActivation, PlaceFixed, FinishActivation,
              lifeVars
<1>3. ASSUME \/ \E p \in Portals, e \in Entities :
                   StartTouch(p, e) \/ Touch(p, e) \/ TouchUnlinked(p, e) \/ EndTouch(p, e)
             \/ \E e \in Entities : RemoveEntity(e)
             \/ ChangeSolidity
      PROVE  vars' = vars
  BY <1>3 DEF StartTouch, Touch, TouchUnlinked, EndTouch, RemoveEntity, ChangeSolidity
<1>4. ASSUME Next, \A x \in Portals : status'[x] # "restored"
      PROVE  IInv' /\ Unloaded' = {} /\ OneCall
  BY <1>0, <1>4, StepIInv DEF Unloaded
<1>5. \A x \in Portals : status[x] # "restored"
  BY <1>0 DEF Unloaded
<1>6. ASSUME vars' = vars PROVE IInv' /\ Unloaded' = {} /\ (Portals # {} => OneCall)
  BY <1>0, <1>6, StutterIInv DEF Unloaded, vars, OneCall
<1> QED BY <1>1, <1>2, <1>3, <1>4, <1>5, <1>6 DEF PassageNext

LEMMA StepPassageInv ==
    ASSUME PassageInv, PassageNext
    PROVE  /\ PassageInv'
           /\ StaysEmpty \/ \E p \in Portals : Destroy(p) /\ linked[p] # NoPortal
<1>0. IInv' /\ Unloaded' = {} /\ (Portals # {} => OneCall)
  BY CallsOfLinkage
<1> SUFFICES SimInv' /\ (StaysEmpty \/ \E p \in Portals : Destroy(p) /\ linked[p] # NoPortal)
  BY <1>0 DEF PassageInv
<1>a. /\ active \in [Portals -> BOOLEAN]
      /\ spot \in [Portals -> Spots]
      /\ status \in [Portals -> Status]
      /\ \A x \in Portals : linked[x] # NoPortal => active[x]
      /\ \A x \in Portals : status[x] = "none" => ~active[x]
  BY LinkageFacts DEF PassageInv
<1>b. Sound(sim) /\ OnlyLoses(sim, sim)
  BY DEF PassageInv, SimInv, OnlyLoses, SamePlaces
<1>c. \A p \in Portals : /\ active[p] => active = [active EXCEPT ![p] = TRUE]
                         /\ ~active[p] => active = [active EXCEPT ![p] = FALSE]
  BY <1>a
<1>d. /\ input # Idle => input.who \in Portals /\ active[input.who] /\ status[input.who] = "live"
  BY DEF PassageInv, IInv, TypeOK, InputActive, InputInProgress
<1>e. \A p \in Portals : OnlyLoses(ReleaseAllEntityOwnership(sim, p), sim)
  BY <1>b, ReleaseAllKeeps
<1>1. ASSUME NEW p \in Portals, NEW g \in Groups, NEW two \in BOOLEAN, PassageFindPortal(p, g, two)
      PROVE  SimInv' /\ StaysEmpty
  <2>1. /\ sim' = sim /\ ptOrigin' = ptOrigin /\ linked' = linked /\ attached' = attached
        /\ status[p] = "none" /\ status' = [status EXCEPT ![p] = "live"]
        /\ active' = [active EXCEPT ![p] = FALSE] /\ spot' = spot
    BY <1>1 DEF PassageFindPortal, FindPortal, Arrive
  <2> QED BY <1>0, <1>a, <2>1, StillKeeps
<1>2. ASSUME NEW p \in Portals, NEW g \in Groups, NEW two \in BOOLEAN, NEW on \in BOOLEAN,
             NEW at \in Spots, PassageSpawnFromMap(p, g, two, on, at)
      PROVE  SimInv' /\ StaysEmpty
  <2>1. /\ sim' = sim /\ ptOrigin' = ptOrigin /\ linked' = linked /\ attached' = attached
        /\ status[p] = "none" /\ status' = [status EXCEPT ![p] = "spawned"]
        /\ active' = [active EXCEPT ![p] = on] /\ spot' = [spot EXCEPT ![p] = at]
    BY <1>2 DEF PassageSpawnFromMap, SpawnFromMap, Arrive
  <2> QED BY <1>0, <1>a, <2>1, StillKeeps
<1>3. ASSUME NEW p \in Portals, PassageActivate(p)
      PROVE  SimInv' /\ StaysEmpty
  <2>1. CASE active[p]
    BY <1>0, <1>3, <2>1, ActivateOpenKeeps
  <2>2. CASE ~active[p]
    <3>1. /\ active' = active /\ spot' = spot /\ ptOrigin' = ptOrigin
          /\ status' = [status EXCEPT ![p] = "live"] /\ Abandon(p, active)
      BY <1>3, <2>2 DEF PassageActivate, Activate
    <3>2. sim' = Abandoned(sim, p, active, linked')
      BY <1>3, <2>2 DEF PassageActivate
    <3>3. active' = [active EXCEPT ![p] = FALSE]
      BY <1>c, <2>2, <3>1
    <3>4. \A x \in Portals : status'[x] = "none" => status[x] = "none"
      BY <1>a, <3>1
    <3>5. Abandon(p, active') /\ sim' = Abandoned(sim, p, active', linked')
      BY <3>1, <3>2
    <3> QED BY <1>0, <1>b, <3>1, <3>3, <3>4, <3>5, CloseKeeps
  <2> QED BY <2>1, <2>2
<1>4. ASSUME NEW p \in Portals,
             PassageFizzle(p) \/ PassageDeactivate(p) \/ PassageFizzleBlocking(p)
      PROVE  SimInv' /\ StaysEmpty
  <2>1. /\ Abandon(p, active') /\ active' = [active EXCEPT ![p] = FALSE]
        /\ sim' = Abandoned(sim, p, active', linked')
        /\ ptOrigin' = ptOrigin /\ spot' = spot /\ status' = status
    BY <1>4 DEF PassageFizzle, Fizzle, FizzlePortal, PassageDeactivate, Deactivate,
                PassageFizzleBlocking, FizzleBlocking, lifeVars
  <2> QED BY <1>0, <1>b, <2>1, CloseKeeps
<1>5. ASSUME NEW p \in Portals, NEW at \in Spots, MovePortal(p, at), Relocate(p, at),
             status[p] # "none", status' = status
      PROVE  SimInv' /\ StaysEmpty
  <2>1. /\ spot' = [spot EXCEPT ![p] = at] /\ active' = [active EXCEPT ![p] = TRUE]
        /\ UpdatePortalLinkage(p, active', linked, attached)
        /\ ptOrigin' = [ptOrigin EXCEPT ![p] = at]
        /\ sim' = Relinked(ReleaseAllEntityOwnership(sim, p), p, active', linked, linked', ptOrigin')
    BY <1>5 DEF MovePortal, Relocate
  <2> DEFINE s == ReleaseAllEntityOwnership(sim, p)
  <2>2. OnlyLoses(s, sim) /\ sim' = Relinked(s, p, active', linked, linked', ptOrigin')
    BY <1>e, <2>1
  <2> HIDE DEF s
  <2> QED BY <1>0, <1>5, <2>1, <2>2, OpenKeeps
<1>6. ASSUME NEW p \in Portals, NEW at \in Spots, PassageNewLocation(p, at)
      PROVE  SimInv' /\ StaysEmpty
  BY <1>5, <1>6 DEF PassageNewLocation, NewLocation, lifeVars
<1>7. ASSUME NEW p \in Portals, PassageSetActivatedState(p)
      PROVE  SimInv' /\ StaysEmpty
  <2>1. /\ sim' = sim /\ ptOrigin' = ptOrigin /\ linked' = linked /\ attached' = attached
        /\ status' = status /\ active' = [active EXCEPT ![p] = TRUE] /\ spot' = spot
    BY <1>7 DEF PassageSetActivatedState, SetActivatedState, lifeVars, linkVars
  <2> QED BY <1>0, <1>a, <2>1, StillKeeps
<1>8. ASSUME PassagePlaceFixed
      PROVE  SimInv' /\ StaysEmpty
  <2>1. /\ input.who \in Portals /\ spot[input.who] \in Spots
        /\ status[input.who] # "none" /\ status' = status
    BY <1>8, <1>a, <1>d DEF PassagePlaceFixed, PlaceFixed, lifeVars
  <2>2. CASE MovePortal(input.who, spot[input.who]) /\ Relocate(input.who, spot[input.who])
    BY <1>5, <2>1, <2>2
  <2>3. CASE UNCHANGED <<active, linkVars, matrix, ptOrigin, sim>>
    <3>1. /\ sim' = sim /\ ptOrigin' = ptOrigin /\ linked' = linked /\ attached' = attached
          /\ active' = active
      BY <2>3 DEF linkVars
    <3>2. spot' = spot \/ MovePortal(input.who, spot[input.who])
      BY <1>8 DEF PassagePlaceFixed, PlaceFixed
    <3>3. spot' = spot
      BY <1>a, <2>1, <3>2 DEF MovePortal
    <3> QED BY <1>0, <1>a, <2>1, <3>1, <3>3, StillKeeps
  <2> QED BY <1>8, <2>2, <2>3 DEF PassagePlaceFixed
<1>9. ASSUME PassageFinishActivation
      PROVE  SimInv' /\ StaysEmpty
  <2> DEFINE p == input.who
  <2>1. p \in Portals /\ active[p] /\ status[p] # "none"
    BY <1>9, <1>d DEF PassageFinishActivation, FinishActivation
  <2>2. /\ UpdatePortalLinkage(p, active, linked, attached)
        /\ sim' = Relinked(sim, p, active, linked, linked', ptOrigin)
        /\ active' = active /\ ptOrigin' = ptOrigin /\ spot' = spot /\ status' = status
    BY <1>9 DEF PassageFinishActivation, FinishActivation, lifeVars
  <2> HIDE DEF p
  <2>3. /\ active' = [active EXCEPT ![p] = TRUE]
        /\ UpdatePortalLinkage(p, active', linked, attached)
        /\ sim' = Relinked(sim, p, active', linked, linked', ptOrigin')
    BY <1>c, <2>1, <2>2
  <2> QED BY <1>0, <1>b, <2>1, <2>2, <2>3, OpenKeeps
<1>10. ASSUME NEW p \in Portals, PassageUpdateOnRemove(p)
       PROVE  SimInv' /\ StaysEmpty
  <2> DEFINE s == ClearEverything(sim, p)
  <2>1. OnlyLoses(s, sim)
    BY <1>b, ClearEverythingKeeps
  <2>2. /\ ptOrigin' = ptOrigin /\ spot' = spot /\ status' = [status EXCEPT ![p] = "removed"]
        /\ status[p] = "live"
    BY <1>10 DEF PassageUpdateOnRemove, UpdateOnRemove
  <2>3. CASE linked[p] = NoPortal
    <3>1. sim' = s /\ active' = active /\ linked' = linked /\ attached' = attached
      BY <1>10, <2>3 DEF PassageUpdateOnRemove, UpdateOnRemove, linkVars
    <3>2. /\ Sound(s) /\ SamePlaces(s, sim)
          /\ \A q \in Portals : s.owns[q] \subseteq sim.owns[q]
      BY <2>1 DEF OnlyLoses
    <3> HIDE DEF s
    <3>3. Told(s) /\ s.link = attached /\ PlacesAgree' /\ OwnersAreOpen'
      BY <1>a, <2>2, <3>1, <3>2 DEF PassageInv, SimInv, AttachmentAgrees, SamePlaces, Told,
         PlacesAgree, OwnersAreOpen
    <3>4. StaysEmpty
      BY <3>1, <3>2 DEF StaysEmpty, UnlinkedOwnsNothing
    <3> QED BY <3>1, <3>2, <3>3, <3>4 DEF SimInv, AttachmentAgrees
  <2>4. CASE linked[p] # NoPortal
    <3>1. /\ Abandon(p, active') /\ active' = [active EXCEPT ![p] = FALSE]
          /\ sim' = Abandoned(s, p, active', linked')
      BY <1>10, <2>4 DEF PassageUpdateOnRemove, UpdateOnRemove
    <3>2. \A x \in Portals : status'[x] = "none" => status[x] = "none"
      BY <1>a, <2>2
    <3> HIDE DEF s
    <3> QED BY <1>0, <2>1, <2>2, <3>1, <3>2, CloseKeeps
  <2> QED BY <2>3, <2>4
<1>11. ASSUME NEW p \in Portals, PassageDestroy(p)
       PROVE  SimInv' /\ (StaysEmpty \/ (Destroy(p) /\ linked[p] # NoPortal))
  BY <1>11, DestroyKeeps DEF PassageDestroy
<1>12. ASSUME NEW p \in Portals, NEW e \in Entities,
              StartTouch(p, e) \/ Touch(p, e) \/ TouchUnlinked(p, e) \/ EndTouch(p, e)
       PROVE  SimInv' /\ StaysEmpty
  BY <1>12, TouchKeeps
<1>13. ASSUME NEW e \in Entities, RemoveEntity(e)
       PROVE  SimInv' /\ StaysEmpty
  <2>1. OnlyLoses(sim', sim) /\ UNCHANGED <<vars, ptOrigin>>
    BY <1>b, <1>13, PreUtilRemoveKeeps DEF RemoveEntity
  <2>2. HandedOn(sim', sim)
    BY <2>1 DEF OnlyLoses, HandedOn
  <2> QED BY <2>1, <2>2, HandOnKeeps
<1>14. ASSUME ChangeSolidity PROVE SimInv' /\ StaysEmpty
  <2>1. OnlyLoses(sim', sim) /\ UNCHANGED <<vars, ptOrigin>>
    BY <1>b, <1>14, ChangeSolidityKeeps DEF Sound
  <2>2. HandedOn(sim', sim)
    BY <2>1 DEF OnlyLoses, HandedOn
  <2> QED BY <2>1, <2>2, HandOnKeeps
<1> QED BY <1>1, <1>2, <1>3, <1>4, <1>6, <1>7, <1>8, <1>9, <1>10, <1>11, <1>12, <1>13, <1>14
        DEF PassageNext

\* New simulators have no clones, and count none.
LEMMA InitialSound == Sound(InitialSimulators) /\ Told(InitialSimulators)
<1> DEFINE s == InitialSimulators
<1>0. /\ NoPortal \notin Portals /\ Props \subseteq Entities /\ MaxClones \in Nat
      /\ Players \subseteq Entities
      /\ IsFiniteSet(Portals) /\ IsFiniteSet(Entities)
  BY NoPortalAssumption, EntitiesAssumption
<1>1. s \in Simulators
  BY <1>0 DEF InitialSimulators, Simulators, NoClones, Accepted
<1>2. SumFunction(NoClones) = 0
  <2>1. NoClones \in [Entities -> Int] /\ \A e \in Entities : NoClones[e] = 0
    BY DEF NoClones
  <2> QED BY <1>0, <2>1, SumZero
<1>3. CloneSum(s.clones) = 0
  <2> DEFINE f == [p \in Portals |-> SumFunction(s.clones[p])]
  <2>1. \A p \in Portals : s.clones[p] = NoClones
    BY DEF InitialSimulators
  <2>2. f \in [Portals -> Int] /\ \A p \in Portals : f[p] = 0
    BY <1>2, <2>1
  <2>3. CloneSum(s.clones) = SumFunction(f)
    BY DEF CloneSum
  <2> HIDE DEF f
  <2> QED BY <1>0, <2>2, <2>3, SumZero
<1>4. s.count = 0
  BY DEF InitialSimulators
<1>5. Owned(s)
  BY <1>0 DEF InitialSimulators, Owned
<1>6. Told(s)
  BY DEF InitialSimulators, Told
<1> QED BY <1>1, <1>3, <1>4, <1>5, <1>6 DEF Sound, SimOK

LEMMA InitPassageInv == PassageInit => PassageInv
<1> SUFFICES ASSUME PassageInit PROVE PassageInv
  OBVIOUS
<1>1. IInv
  BY InitIInv DEF PassageInit
<1>2. Unloaded = {}
  BY DEF PassageInit, Init, Unloaded
<1>3. Sound(sim) /\ Told(sim)
  BY InitialSound DEF PassageInit
<1>4. AttachmentAgrees /\ OwnersAreOpen /\ PlacesAgree
  BY DEF PassageInit, Init, InitialSimulators, AttachmentAgrees, OwnersAreOpen, PlacesAgree
<1> QED BY <1>1, <1>2, <1>3, <1>4 DEF PassageInv, SimInv

-----------------------------------------------------------------------------
(* The theorems *)

\* The inductive invariant holds in every reachable state.
THEOREM SpecPassageInv == PassageSpec => []PassageInv
<1>1. PassageInv /\ [PassageNext]_passageVars => PassageInv'
  <2> SUFFICES ASSUME PassageInv, [PassageNext]_passageVars PROVE PassageInv'
    OBVIOUS
  <2>1. CASE PassageNext
    BY <2>1, StepPassageInv
  <2>2. CASE UNCHANGED passageVars
    <3>1. UNCHANGED vars /\ sim' = sim /\ ptOrigin' = ptOrigin
      BY <2>2 DEF passageVars
    <3>2. IInv'
      BY <3>1, StutterIInv DEF PassageInv
    <3>3. status' = status /\ active' = active /\ attached' = attached /\ spot' = spot
      BY <3>1 DEF vars
    <3>4. Unloaded' = {} /\ SimInv'
      BY <3>1, <3>3 DEF PassageInv, SimInv, Unloaded, AttachmentAgrees, OwnersAreOpen, PlacesAgree
    <3> QED BY <3>2, <3>4 DEF PassageInv
  <2> QED BY <2>1, <2>2
<1> QED BY <1>1, InitPassageInv, PTL DEF PassageSpec

\* The simulators keep their type: no call stores a portal or a count out of
\* range, at the limit of clones neither.
THEOREM SpecPassageTypeOK == PassageSpec => []PassageTypeOK
<1>1. PassageInv => PassageTypeOK
  BY DEF PassageInv, SimInv, Sound, SimOK, PlacesAgree, PassageTypeOK
<1> QED BY <1>1, SpecPassageInv, PTL

\* An entity has at most one owner, and s_OwnedEntityMap knows which, whatever
\* was touched, teleported, closed or removed in whatever order.
THEOREM SpecOneOwner == PassageSpec => []OneOwner
<1>1. PassageInv => OneOwner
  BY DEF PassageInv, SimInv, Sound, Owned, OneOwner
<1> QED BY <1>1, SpecPassageInv, PTL

\* What the simulators attach and detach one after the other is the linkage.
THEOREM SpecAttachmentAgrees == PassageSpec => []AttachmentAgrees
<1>1. PassageInv => AttachmentAgrees
  BY DEF PassageInv, SimInv
<1> QED BY <1>1, SpecPassageInv, PTL

\* g_iShadowCloneCount is the number of clones.
THEOREM SpecCountAgrees == PassageSpec => []CountAgrees
<1>1. PassageInv => CountAgrees
  BY DEF PassageInv, SimInv, Sound, SimOK, CloneSum, CountAgrees
<1> QED BY <1>1, SpecPassageInv, PTL

\* A player's m_hPortalEnvironment is the portal that owns them.
THEOREM SpecEnvironmentIsOwner == PassageSpec => []EnvironmentIsOwner
<1>1. PassageInv => EnvironmentIsOwner
  BY DEF PassageInv, SimInv, Sound, Owned, EnvironmentIsOwner
<1> QED BY <1>1, SpecPassageInv, PTL

\* Only an open portal owns anything.
THEOREM SpecOwnersAreOpen == PassageSpec => []OwnersAreOpen
<1>1. PassageInv => OwnersAreOpen
  BY DEF PassageInv, SimInv
<1> QED BY <1>1, SpecPassageInv, PTL

\* The simulator of an open passage stands where the portal does.
THEOREM SpecSimulatorInPlace == PassageSpec => []SimulatorInPlace
<1>1. PassageInv => SimulatorInPlace
  <2> SUFFICES ASSUME PassageInv, NEW p \in Portals, ptOrigin[p] # Nowhere
               PROVE  sim.ready[p] /\ sim.place[p] = spot[p]
    BY DEF SimulatorInPlace
  <2>1. sim.place[p] = spot[p] /\ ptOrigin[p] = spot[p] /\ Told(sim)
    BY DEF PassageInv, SimInv, PlacesAgree
  <2> QED BY <2>1 DEF Told
<1> QED BY <1>1, SpecPassageInv, PTL

\* Every call but the destruction of a partner leaves a portal without a
\* passage with nothing.
THEOREM SpecOnlyDestructionLeavesOwned == PassageSpec => OnlyDestructionLeavesOwned
<1> DEFINE Released == UnlinkedOwnsNothing /\ ~UnlinkedOwnsNothing' =>
                          \E p \in Portals : Destroy(p) /\ linked[p] # NoPortal
<1>1. PassageInv /\ [PassageNext]_passageVars => [Released]_passageVars
  <2> SUFFICES ASSUME PassageInv, PassageNext PROVE Released
    BY DEF passageVars
  <2> QED BY StepPassageInv DEF StaysEmpty
<1> QED BY <1>1, SpecPassageInv, PTL DEF PassageSpec, OnlyDestructionLeavesOwned

-----------------------------------------------------------------------------
(* No stray clone                                                          *)
(*                                                                         *)
(* Firm says that every owned entity is simulated, and that a clone stands *)
(* for a simulated entity of the attached simulator.  It is kept as long   *)
(* as whoever is handed an entity has an environment, and the two ends of  *)
(* a passage have one once each portal in it was told where it is.         *)

\* r is firm if s is; its attachments are known on both sides and its
\* simulators have their physics where that is so in s.
StaysFirm(r, s) ==
    /\ Firm(r)
    /\ Connected(s) => Connected(r)
    /\ \A x \in Portals : Grounded(s, x) => Grounded(r, x)

LEMMA StaysFirmTwice ==
    ASSUME NEW r, NEW s, NEW t, StaysFirm(r, s), StaysFirm(s, t)
    PROVE  StaysFirm(r, t)
BY DEF StaysFirm

LEMMA SameShapeStaysFirm ==
    ASSUME NEW r, NEW s, Firm(r), SameShape(r, s)
    PROVE  StaysFirm(r, s)
BY SameShapeKeeps DEF StaysFirm

\* Handing on, by simulators with an environment.
LEMMA AcquiredFirm ==
    ASSUME NEW s, Firm(s), NEW p \in Portals, NEW e \in Entities, s.env[p]
    PROVE  LET r == Acquired(s, p, e) IN Firm(r) /\ SameShape(r, s)
<1> DEFINE o == s.owner[e]
           d == ReleaseOwnershipOfEntity(s, o, {e})
           f == IF o \in {NoPortal, p} THEN s ELSE d
           r == TakeOwnershipOfEntity(f, p, e)
<1>0. Sound(s) /\ SameShape(s, s)
  BY DEF Firm, SameShape, SamePlaces, SameFlags
<1>1. o \in Portals \cup {NoPortal}
  BY <1>0 DEF Sound, SimOK, Simulators
<1>2. Acquired(s, p, e) = r
  BY DEF Acquired
<1>3. Firm(f) /\ SameShape(f, s) /\ f.owner[e] \in {NoPortal, p}
  <2>1. CASE o \in {NoPortal, p}
    BY <1>0, <2>1
  <2>2. CASE o \notin {NoPortal, p}
    <3>1. o \in Portals /\ {e} \in SUBSET Entities /\ e \in {e} /\ s.owner[e] = o
      BY <1>1, <2>2
    <3>2. f = d
      BY <2>2
    <3> HIDE DEF o
    <3>3. d.owner[e] = NoPortal
      BY <1>0, <3>1, ReleaseOwnershipKeeps
    <3>4. Firm(d) /\ SameShape(d, s)
      BY <3>1, ReleaseOwnershipFirm
    <3> HIDE DEF d, f
    <3> QED BY <3>2, <3>3, <3>4
  <2> QED BY <2>1, <2>2
<1> HIDE DEF f
<1>4. f.env[p]
  BY <1>3 DEF SameShape, SameFlags
<1>5. Firm(r) /\ SameShape(r, f)
  BY <1>3, <1>4, TakeOwnershipFirm
<1> HIDE DEF r
<1> QED BY <1>2, <1>3, <1>5, SameShapeTwice

LEMMA TeleportedFirm ==
    ASSUME NEW s, Firm(s), NEW p \in Portals, NEW e \in Entities,
           linked[p] \in Portals, e \in s.owns[p], s.env[linked[p]]
    PROVE  LET r == Teleported(s, p, e) IN Firm(r) /\ SameShape(r, s)
<1> DEFINE d == ReleaseOwnershipOfEntity(s, p, {e})
           q == linked[p]
           r == TakeOwnershipOfEntity(d, q, e)
<1>1. Sound(s) /\ s.owner[e] = p /\ {e} \in SUBSET Entities /\ e \in {e}
  BY DEF Firm, Sound, Owned
<1>2. d.owner[e] = NoPortal
  BY <1>1, ReleaseOwnershipKeeps
<1>3. Firm(d) /\ SameShape(d, s)
  BY <1>1, ReleaseOwnershipFirm
<1>4. Teleported(s, p, e) = r
  BY DEF Teleported
<1> HIDE DEF d
<1>5. d.env[q]
  BY <1>3 DEF SameShape, SameFlags
<1> HIDE DEF q
<1>6. Firm(r) /\ SameShape(r, d)
  BY <1>2, <1>3, <1>5, TakeOwnershipFirm DEF q
<1> HIDE DEF r
<1> QED BY <1>3, <1>4, <1>6, SameShapeTwice

\* A portal is moved to where it stands and then attached.
LEMMA MovedAndAttachedFirm ==
    ASSUME NEW s, Firm(s), Told(s), NEW p \in Portals, NEW q \in Portals,
           NEW origin \in [Portals -> Spots \cup {Nowhere}],
           Paired(Attached(s.link, p, q))
    PROVE  StaysFirm(AttachTo(MoveTo(s, p, origin[p]), p, q), s)
<1> DEFINE a == MoveTo(s, p, origin[p])
           r == AttachTo(a, p, q)
<1>0. Sound(s) /\ origin[p] \in Spots \cup {Nowhere}
  BY DEF Firm
<1>1. Resettled(a, s, origin) /\ a.link = s.link
  BY <1>0, MoveToKeeps
<1>2. StaysFirm(a, s)
  BY <1>0, MoveToFirm DEF StaysFirm
<1> HIDE DEF a
<1>3. Firm(a) /\ Told(a) /\ Paired(Attached(a.link, p, q))
  BY <1>1, <1>2 DEF Resettled, StaysFirm
<1>4. StaysFirm(r, a)
  BY <1>3, AttachFirm DEF StaysFirm
<1> HIDE DEF r
<1> QED BY <1>2, <1>4, StaysFirmTwice DEF a, r

\* UpdatePortalLinkage.
LEMMA RelinkedFirm ==
    ASSUME NEW s, NEW p \in Portals, NEW on, NEW lk, NEW origin,
           CanRelink(s, p, on, lk, origin), Firm(s), Paired(attached')
    PROVE  StaysFirm(Relinked(s, p, on, lk, linked', origin), s)
<1> DEFINE r == Relinked(s, p, on, lk, linked', origin)
<1>a. /\ Sound(s) /\ Told(s)
      /\ lk \in [Portals -> Portals \cup {NoPortal}]
      /\ origin \in [Portals -> Spots \cup {Nowhere}]
      /\ \A x \in Portals : s.link[x] \in {lk[x], NoPortal}
      /\ UpdatePortalLinkage(p, on, lk, s.link)
  BY DEF CanRelink
<1>0. NoPortal \notin Portals /\ s.link \in [Portals -> Portals \cup {NoPortal}]
  BY <1>a, NoPortalAssumption DEF Sound, SimOK, Simulators
<1>1. CASE RenewLink(p, on, lk, s.link)
  <2> DEFINE x == AttachTo(MoveTo(s, p, origin[p]), p, lk[p])
  <2>1. /\ KeepsLink(p, on, lk) /\ lk[p] \in Portals
        /\ attached' = Attached(s.link, p, lk[p])
    BY <1>a, <1>1 DEF RenewLink, KeepsLink
  <2>2. r = x
    BY <2>1 DEF Relinked
  <2>3. StaysFirm(x, s)
    BY <1>a, <2>1, MovedAndAttachedFirm
  <2> HIDE DEF x, r
  <2> QED BY <2>2, <2>3 DEF r
<1>2. CASE TakePartner(p, on, lk, s.link)
  <2>1. PICK q \in Waiting(p, on, lk) :
          /\ linked' = [lk EXCEPT ![p] = q, ![q] = p]
          /\ attached' = Attached(s.link, q, p)
    BY <1>2 DEF TakePartner, FirstWaiting
  <2>2. /\ q \in Portals /\ q # p /\ lk[q] = NoPortal /\ ~KeepsLink(p, on, lk)
        /\ linked'[p] = q
    BY <1>a, <1>2, <2>1 DEF TakePartner, Waiting
  <2> DEFINE theirs == AttachTo(MoveTo(s, q, origin[q]), q, p)
             x == AttachTo(MoveTo(theirs, p, origin[p]), p, q)
  <2>3. r = x
    BY <1>0, <2>2 DEF Relinked
  <2>4. Resettled(theirs, s, origin) /\ theirs.link = attached'
    BY <1>a, <2>1, <2>2, MovedAndAttached
  <2>4a. StaysFirm(theirs, s)
    BY <1>a, <2>1, <2>2, MovedAndAttachedFirm
  <2>5. Firm(theirs) /\ Told(theirs)
    BY <2>4, <2>4a DEF Resettled, StaysFirm
  <2> HIDE DEF theirs
  <2>7. s.link[q] = NoPortal
    BY <1>a, <2>2
  <2>8. attached' = [s.link EXCEPT ![q] = p, ![p] = q]
    BY <1>0, <2>1, <2>2, <2>7 DEF Attached, Detached
  <2>9. Attached(theirs.link, p, q) = attached'
    BY <1>0, <2>2, <2>4, <2>8 DEF Attached
  <2>10. StaysFirm(x, theirs)
    BY <1>a, <2>2, <2>5, <2>9, MovedAndAttachedFirm
  <2> HIDE DEF x, r
  <2> QED BY <2>3, <2>4a, <2>10, StaysFirmTwice DEF r
<1>3. CASE StayAlone(p, on, lk, s.link)
  <2> DEFINE d == DetachFromLinked(s, p)
             e == ReleaseAllEntityOwnership(d, p)
             x == MoveTo(e, p, origin[p])
  <2>1. linked'[p] = NoPortal /\ ~KeepsLink(p, on, lk)
    BY <1>a, <1>3 DEF StayAlone
  <2>2. r = x
    BY <2>1 DEF Relinked
  <2>3. StaysFirm(d, s)
    BY <1>a, DetachFirm DEF StaysFirm, Connected, TwoSidedElsewhere
  <2> HIDE DEF d
  <2>4. StaysFirm(e, d)
    BY <2>3, ReleaseAllFirm, SameShapeStaysFirm DEF StaysFirm
  <2> HIDE DEF e
  <2>5. origin[p] \in Spots \cup {Nowhere} /\ Firm(e)
    BY <1>a, <2>4 DEF StaysFirm
  <2>6. StaysFirm(x, e)
    BY <2>5, MoveToFirm DEF StaysFirm
  <2> HIDE DEF x, r
  <2>7. StaysFirm(x, d)
    BY <2>4, <2>6, StaysFirmTwice
  <2> QED BY <2>2, <2>3, <2>7, StaysFirmTwice DEF r
<1> QED BY <1>a, <1>1, <1>2, <1>3 DEF UpdatePortalLinkage

\* A portal that closes: its own side and its partner's need not know of each
\* other any more.
LEMMA AbandonedFirm ==
    ASSUME NEW s, NEW p \in Portals, NEW on,
           CanAbandon(s, p, on), Firm(s), Paired(attached')
    PROVE  LET r == Abandoned(s, p, on, linked')
           IN  /\ Firm(r)
               /\ TwoSidedElsewhere(s, p) => Connected(r)
               /\ \A x \in Portals : Grounded(s, x) => Grounded(r, x)
<1>a. /\ Sound(s) /\ Told(s) /\ s.link = attached
      /\ linked \in [Portals -> Portals \cup {NoPortal}]
      /\ \A x \in Portals : attached[x] = linked[x]
      /\ ptOrigin \in [Portals -> Spots \cup {Nowhere}]
      /\ Abandon(p, on)
  BY DEF CanAbandon
<1> DEFINE r == Abandoned(s, p, on, linked')
           d == DetachFromLinked(s, p)
           left == ReleaseAllEntityOwnership(d, p)
           q == linked[p]
           lk == [linked EXCEPT ![p] = NoPortal]
<1>0. /\ NoPortal \notin Portals /\ q \in Portals \cup {NoPortal}
      /\ attached \in [Portals -> Portals \cup {NoPortal}]
  BY <1>a, NoPortalAssumption DEF Sound, SimOK, Simulators
<1>1. r = IF q = NoPortal THEN left ELSE Relinked(left, q, on, lk, linked', ptOrigin)
  BY DEF Abandoned
<1>2. Resettled(d, s, ptOrigin) /\ d.link = Detached(attached, p)
  BY <1>a, DetachKeeps
<1>2a. /\ Firm(d) /\ (TwoSidedElsewhere(s, p) => Connected(d))
       /\ \A x \in Portals : Grounded(s, x) => Grounded(d, x)
  BY <1>a, DetachFirm
<1> HIDE DEF d
<1>3. OnlyLoses(left, d) /\ Told(d)
  BY <1>2, ReleaseAllKeeps DEF Resettled
<1>3a. StaysFirm(left, d)
  BY <1>2a, ReleaseAllFirm, SameShapeStaysFirm
<1> HIDE DEF left
<1>4. Told(left) /\ Sound(left) /\ left.link = Detached(attached, p)
  BY <1>2, <1>3 DEF OnlyLoses, SamePlaces, Told
<1>5. StaysFirm(r, d)
  <2>1. CASE q = NoPortal
    <3> HIDE DEF r
    <3> QED BY <1>1, <1>3a, <2>1 DEF r
  <2>2. CASE q # NoPortal
    <3>1. UpdatePortalLinkage(q, on, lk, left.link)
      BY <1>a, <1>4, <2>2 DEF Abandon
    <3>2. \A x \in Portals : left.link[x] \in {lk[x], NoPortal}
      BY <1>0, <1>a, <1>4 DEF Detached
    <3>3. lk \in [Portals -> Portals \cup {NoPortal}] /\ q \in Portals
      BY <1>0, <1>a, <2>2
    <3> DEFINE x == Relinked(left, q, on, lk, linked', ptOrigin)
    <3> HIDE DEF lk, q, r
    <3>4. CanRelink(left, q, on, lk, ptOrigin) /\ Firm(left)
      BY <3>1, <3>2, <3>3, <1>3a, <1>4, <1>a DEF CanRelink, StaysFirm
    <3>5. StaysFirm(x, left)
      BY <3>3, <3>4, RelinkedFirm
    <3>6. r = x
      BY <1>1, <2>2
    <3> HIDE DEF x
    <3> QED BY <1>3a, <3>5, <3>6, StaysFirmTwice DEF r
  <2> QED BY <2>1, <2>2
<1> HIDE DEF r
<1> QED BY <1>2a, <1>5 DEF StaysFirm, r

-----------------------------------------------------------------------------
(* The condition of the simulators *)

\* Where no portal may be open unplaced, one is only while the input that
\* opens it has yet to place it.
Placed ==
    /\ \A p \in Portals : active[p] /\ ptOrigin[p] = Nowhere =>
          input \in InputInProgress /\ input.who = p /\ input.next = "place"
    /\ \A p \in Portals : status[p] = "spawned" => ~active[p]

\* A removed portal has given its environment back, and may still become a
\* partner.
CloneInv ==
    /\ Firm(sim) /\ Connected(sim)
    /\ \A p \in Portals : status[p] # "removed" => Grounded(sim, p)
    /\ Placed

LEMMA InputTypes ==
    ASSUME IInv
    PROVE  /\ Idle \notin InputInProgress
           /\ input # Idle => input \in InputInProgress
<1>1. \A r \in InputInProgress : "who" \in DOMAIN r
  BY DEF InputInProgress
<1>2. "who" \notin DOMAIN Idle
  BY DEF Idle
<1> QED BY <1>1, <1>2 DEF IInv, TypeOK

\* The two ends of a passage have an environment each.
LEMMA Environments ==
    ASSUME PassageInv, CloneInv, Settled, NEW p \in Portals, linked[p] # NoPortal
    PROVE  linked[p] \in Portals /\ sim.env[p] /\ sim.env[linked[p]]
<1> DEFINE q == linked[p]
<1>1. /\ q \in Portals /\ q # p /\ linked[q] = p /\ active[p] /\ active[q]
      /\ \A x \in Portals : attached[x] = linked[x]
  BY NoPortalAssumption, LinkageFacts DEF PassageInv
<1>2. \A x \in {p, q} : ptOrigin[x] # Nowhere
  BY <1>1, InputTypes DEF PassageInv, CloneInv, Placed, Settled
<1>3. \A x \in {p, q} : sim.ready[x]
  BY <1>1, <1>2 DEF PassageInv, SimInv, PlacesAgree, Told
<1>4. sim.link[p] = q /\ sim.link[q] = p
  BY <1>1 DEF PassageInv, SimInv, AttachmentAgrees
<1>5. sim.remote[p] /\ sim.remote[q]
  BY <1>1, <1>3, <1>4, NoPortalAssumption DEF CloneInv, Connected, TwoSided
<1> QED BY <1>1, <1>5 DEF CloneInv, Firm, Tidy

LEMMA PairedAfter ==
    ASSUME PassageInv'
    PROVE  Paired(attached')
BY DEF PassageInv, IInv, TypeOK, LinkSymmetric, SimulatorAgrees, AwaitsAttachment, Paired

\* The simulators after a portal has closed.
LEMMA CloseClones ==
    ASSUME PassageInv, PassageInv', NEW p \in Portals, NEW s,
           Firm(s), SamePlaces(s, sim), TwoSidedElsewhere(s, p),
           Abandon(p, active'), sim' = Abandoned(s, p, active', linked')
    PROVE  /\ Firm(sim') /\ Connected(sim')
           /\ \A x \in Portals : Grounded(s, x) => Grounded(sim', x)
<1>1. /\ linked \in [Portals -> Portals \cup {NoPortal}]
      /\ \A x \in Portals : attached[x] = linked[x]
  BY LinkageFacts DEF PassageInv
<1>2. Told(sim) /\ sim.link = attached /\ ptOrigin \in [Portals -> Spots \cup {Nowhere}]
  BY DEF PassageInv, SimInv, AttachmentAgrees, PlacesAgree
<1>3. Sound(s) /\ Told(s) /\ s.link = attached
  BY <1>2 DEF Firm, SamePlaces, Told
<1>4. CanAbandon(s, p, active')
  BY <1>1, <1>2, <1>3 DEF CanAbandon
<1>5. Paired(attached')
  BY PairedAfter
<1> DEFINE r == Abandoned(s, p, active', linked')
<1>6. /\ Firm(r)
      /\ TwoSidedElsewhere(s, p) => Connected(r)
      /\ \A x \in Portals : Grounded(s, x) => Grounded(r, x)
  BY <1>4, <1>5, AbandonedFirm
<1> HIDE DEF r
<1>7. sim' = r
  BY DEF r
<1> QED BY <1>6, <1>7

\* The simulators after a portal has opened, moved, or been linked again.
LEMMA OpenClones ==
    ASSUME PassageInv, PassageInv', NEW p \in Portals, NEW s,
           Firm(s), SamePlaces(s, sim),
           UpdatePortalLinkage(p, active', linked, attached),
           sim' = Relinked(s, p, active', linked, linked', ptOrigin')
    PROVE  StaysFirm(sim', s)
<1>1. /\ linked \in [Portals -> Portals \cup {NoPortal}]
      /\ \A x \in Portals : attached[x] = linked[x]
  BY LinkageFacts DEF PassageInv
<1>2. Told(sim) /\ sim.link = attached /\ ptOrigin' \in [Portals -> Spots \cup {Nowhere}]
  BY DEF PassageInv, SimInv, AttachmentAgrees, PlacesAgree
<1>3. Sound(s) /\ Told(s) /\ s.link = attached
  BY <1>2 DEF Firm, SamePlaces, Told
<1>4. CanRelink(s, p, active', linked, ptOrigin')
  BY <1>1, <1>2, <1>3 DEF CanRelink
<1>5. Paired(attached')
  BY PairedAfter
<1> QED BY <1>4, <1>5, RelinkedFirm

\* Placed is kept by itself.
LEMMA StepPlaced ==
    ASSUME PassageInv, Placed, PassageNext, OpenUnplaced = FALSE
    PROVE  Placed'
<1>0. /\ active \in [Portals -> BOOLEAN]
      /\ status \in [Portals -> Status]
      /\ spot \in [Portals -> Spots]
      /\ ptOrigin \in [Portals -> Spots \cup {Nowhere}]
      /\ \A x \in Portals : status[x] # "restored"
      /\ Nowhere \notin Spots
  BY LinkageFacts, EntitiesAssumption DEF PassageInv, Unloaded, SimInv, PlacesAgree
<1>a. /\ Idle \notin InputInProgress
      /\ input # Idle => input \in InputInProgress
  BY InputTypes DEF PassageInv
<1>1. ASSUME NEW p \in Portals, NEW g \in Groups, NEW two \in BOOLEAN, PassageFindPortal(p, g, two)
      PROVE  Placed'
  <2>1. /\ ptOrigin' = ptOrigin /\ input' = input
        /\ status' = [status EXCEPT ![p] = "live"] /\ active' = [active EXCEPT ![p] = FALSE]
    BY <1>1 DEF PassageFindPortal, FindPortal, Arrive
  <2> QED BY <1>0, <2>1 DEF Placed
<1>2. ASSUME NEW p \in Portals, NEW g \in Groups, NEW two \in BOOLEAN, NEW on \in BOOLEAN,
             NEW at \in Spots, PassageSpawnFromMap(p, g, two, on, at)
      PROVE  Placed'
  <2>1. /\ ptOrigin' = ptOrigin /\ input' = input /\ on = FALSE
        /\ status' = [status EXCEPT ![p] = "spawned"] /\ active' = [active EXCEPT ![p] = on]
    BY <1>2 DEF PassageSpawnFromMap, SpawnFromMap, Arrive
  <2> QED BY <1>0, <2>1 DEF Placed
<1>3. ASSUME NEW p \in Portals, PassageActivate(p) PROVE Placed'
  <2>1. /\ ptOrigin' = ptOrigin /\ input' = input /\ active' = active
        /\ status' = [status EXCEPT ![p] = "live"]
    BY <1>3 DEF PassageActivate, Activate
  <2> QED BY <1>0, <2>1 DEF Placed
<1>4. ASSUME NEW p \in Portals, PassageFizzle(p) \/ PassageDeactivate(p) PROVE Placed'
  <2>1. /\ ptOrigin' = ptOrigin /\ input' = input /\ active' = [active EXCEPT ![p] = FALSE]
        /\ status' = status
    BY <1>4 DEF PassageFizzle, Fizzle, FizzlePortal, PassageDeactivate, Deactivate, lifeVars
  <2> QED BY <1>0, <2>1 DEF Placed
<1>5. ASSUME NEW p \in Portals, PassageFizzleBlocking(p) PROVE Placed'
  <2>1. /\ ptOrigin' = ptOrigin /\ active' = [active EXCEPT ![p] = FALSE] /\ status' = status
        /\ input # Idle /\ input' = [input EXCEPT !.left = @ \ {p}]
    BY <1>5 DEF PassageFizzleBlocking, FizzleBlocking, FizzlePortal, lifeVars
  <2>2. input' \in InputInProgress /\ input'.who = input.who /\ input'.next = input.next
    BY <1>a, <2>1 DEF InputInProgress
  <2> QED BY <1>0, <2>1, <2>2 DEF Placed
<1>6. ASSUME NEW p \in Portals, NEW at \in Spots, PassageNewLocation(p, at) PROVE Placed'
  <2>1. /\ ptOrigin' = [ptOrigin EXCEPT ![p] = at] /\ active' = [active EXCEPT ![p] = TRUE]
        /\ status' = status /\ input' = input /\ status[p] = "live"
    BY <1>6 DEF PassageNewLocation, NewLocation, MovePortal, Relocate, lifeVars
  <2> QED BY <1>0, <2>1 DEF Placed
<1>7. ASSUME NEW p \in Portals, PassageSetActivatedState(p) PROVE Placed'
  <2>1. /\ ptOrigin' = ptOrigin /\ active' = [active EXCEPT ![p] = TRUE]
        /\ status' = status /\ status[p] = "live" /\ input = Idle
    BY <1>7 DEF PassageSetActivatedState, SetActivatedState, Settled, lifeVars
  <2>2. PICK blocking \in SUBSET Portals :
           input' = [who |-> p, left |-> blocking, next |-> "place"]
    BY <1>7 DEF PassageSetActivatedState, SetActivatedState, Overlapping
  <2>3. input' \in InputInProgress /\ input'.who = p /\ input'.next = "place"
    BY <2>2 DEF InputInProgress
  <2> QED BY <1>0, <1>a, <2>1, <2>3 DEF Placed
<1>8. ASSUME PassagePlaceFixed PROVE Placed'
  <2> DEFINE p == input.who
  <2>1. input # Idle /\ input \in InputInProgress /\ p \in Portals /\ status' = status
    BY <1>8, <1>a DEF PassagePlaceFixed, PlaceFixed, lifeVars, InputInProgress
  <2>2. \A x \in Portals : x # p /\ active[x] => ptOrigin[x] # Nowhere
    BY DEF Placed
  <2>3. active[p] /\ status[p] = "live"
    BY <2>1 DEF PassageInv, IInv, InputActive
  <2>4. CASE /\ ptOrigin' = [ptOrigin EXCEPT ![p] = spot[p]]
             /\ active' = [active EXCEPT ![p] = TRUE]
    <3> HIDE DEF p
    <3> QED BY <1>0, <2>1, <2>2, <2>3, <2>4 DEF Placed
  <2>5. CASE ptOrigin' = ptOrigin /\ active' = active /\ ptOrigin[p] # Nowhere
    <3> HIDE DEF p
    <3> QED BY <1>0, <2>1, <2>2, <2>5 DEF Placed
  <2> QED BY <1>8, <2>4, <2>5 DEF PassagePlaceFixed, MovePortal, Relocate
<1>9. ASSUME PassageFinishActivation PROVE Placed'
  <2>1. ptOrigin' = ptOrigin /\ active' = active /\ status' = status /\ input.next = "finish"
    BY <1>9 DEF PassageFinishActivation, FinishActivation, lifeVars
  <2> QED BY <2>1 DEF Placed
<1>10. ASSUME NEW p \in Portals, PassageUpdateOnRemove(p) PROVE Placed'
  <2>1. /\ ptOrigin' = ptOrigin /\ input' = input /\ status' = [status EXCEPT ![p] = "removed"]
        /\ active' = active \/ active' = [active EXCEPT ![p] = FALSE]
    BY <1>10 DEF PassageUpdateOnRemove, UpdateOnRemove
  <2> QED BY <1>0, <2>1 DEF Placed
<1>11. ASSUME NEW p \in Portals, PassageDestroy(p) PROVE Placed'
  <2>1. /\ ptOrigin' = [ptOrigin EXCEPT ![p] = Nowhere] /\ input' = input
        /\ status' = [status EXCEPT ![p] = "none"] /\ active' = [active EXCEPT ![p] = FALSE]
    BY <1>11 DEF PassageDestroy, Destroy
  <2> QED BY <1>0, <2>1 DEF Placed
<1>12. ASSUME UNCHANGED <<vars, ptOrigin>> PROVE Placed'
  BY <1>12 DEF Placed, vars
<1> QED BY <1>1, <1>2, <1>3, <1>4, <1>5, <1>6, <1>7, <1>8, <1>9, <1>10, <1>11, <1>12
        DEF PassageNext, StartTouch, Touch, TouchUnlinked, EndTouch, RemoveEntity,
            ChangeSolidity

\* A touch hands entities to portals with an environment.
LEMMA TouchClones ==
    ASSUME PassageInv, CloneInv, NEW p \in Portals, NEW e \in Entities,
           StartTouch(p, e) \/ Touch(p, e) \/ TouchUnlinked(p, e) \/ EndTouch(p, e)
    PROVE  Firm(sim') /\ SameShape(sim', sim)
<1>1. /\ Firm(sim) /\ SameShape(sim, sim) /\ Sound(sim) /\ {e} \in SUBSET Entities
      /\ sim \in Simulators /\ NoPortal \notin Portals
  BY NoPortalAssumption
     DEF CloneInv, Firm, Sound, SimOK, SameShape, SamePlaces, SameFlags
<1>2. Settled
  BY DEF StartTouch, Touch, TouchUnlinked, EndTouch
<1>3. linked[p] # NoPortal => linked[p] \in Portals /\ sim.env[p] /\ sim.env[linked[p]]
  BY <1>2, Environments
<1>4. linked[p] # NoPortal => Firm(Acquired(sim, p, e)) /\ SameShape(Acquired(sim, p, e), sim)
  BY <1>1, <1>3, AcquiredFirm
<1>5. /\ Firm(ReleaseOwnershipOfEntity(sim, p, {e}))
      /\ SameShape(ReleaseOwnershipOfEntity(sim, p, {e}), sim)
  BY <1>1, ReleaseOwnershipFirm
<1>6. ASSUME NEW s, Firm(s), SameShape(s, sim), NEW r \in PerhapsTeleported(s, p, e)
      PROVE  Firm(r) /\ SameShape(r, sim)
  <2>1. CASE r = s
    BY <1>6, <2>1
  <2>2. CASE linked[p] # NoPortal /\ e \in s.owns[p] /\ r = Teleported(s, p, e)
    <3>1. s.env[linked[p]] /\ linked[p] \in Portals
      BY <1>3, <1>6, <2>2 DEF SameShape, SameFlags
    <3>2. Firm(r) /\ SameShape(r, s)
      BY <1>6, <2>2, <3>1, TeleportedFirm
    <3> QED BY <1>6, <3>2, SameShapeTwice
  <2> QED BY <2>1, <2>2 DEF PerhapsTeleported
<1>7. CASE StartTouch(p, e)
  BY <1>4, <1>7 DEF StartTouch, IsActivedAndLinked
<1>8. CASE Touch(p, e)
  <2>1. linked[p] # NoPortal
    BY <1>8 DEF Touch, IsActivedAndLinked
  <2>2. PICK now \in {sim, Acquired(sim, p, e)} : sim' \in PerhapsTeleported(now, p, e)
    BY <1>8 DEF Touch
  <2>3. Firm(now) /\ SameShape(now, sim)
    BY <1>1, <1>4, <2>1, <2>2
  <2> QED BY <1>6, <2>2, <2>3
<1>9. CASE TouchUnlinked(p, e)
  BY <1>5, <1>9 DEF TouchUnlinked
<1>10. CASE EndTouch(p, e)
  <2>1. \/ sim' \in PerhapsTeleported(sim, p, e)
        \/ sim' = ReleaseOwnershipOfEntity(sim, p, {e})
        \/ sim' = sim
    BY <1>10 DEF EndTouch
  <2> QED BY <1>1, <1>5, <1>6, <2>1
<1> QED BY <1>7, <1>8, <1>9, <1>10

LEMMA StepCloneInv ==
    ASSUME PassageInv, CloneInv, PassageNext, OpenUnplaced = FALSE
    PROVE  CloneInv'
<1>0. PassageInv' /\ Placed'
  BY StepPassageInv, StepPlaced DEF CloneInv
<1>a. /\ Firm(sim) /\ Connected(sim)
      /\ \A x \in Portals : status[x] # "removed" => Grounded(sim, x)
      /\ SamePlaces(sim, sim) /\ Sound(sim) /\ Told(sim)
  BY DEF CloneInv, SamePlaces, Firm, PassageInv, SimInv
<1>b. /\ status \in [Portals -> Status] /\ active \in [Portals -> BOOLEAN]
      /\ spot \in [Portals -> Spots] /\ \A x \in Portals : status[x] # "restored"
  BY LinkageFacts DEF PassageInv, Unloaded
<1>c. \A p \in Portals : active[p] => active = [active EXCEPT ![p] = TRUE]
  BY <1>b
<1>d. ASSUME NEW s, StaysFirm(s, sim), sim' = s,
             \A x \in Portals : status[x] = "removed" => status'[x] = "removed"
      PROVE  CloneInv'
  <2>1. /\ Firm(s) /\ Connected(s)
        /\ \A x \in Portals : Grounded(sim, x) => Grounded(s, x)
    BY <1>a, <1>d DEF StaysFirm
  <2>2. \A x \in Portals : status'[x] # "removed" => Grounded(s, x)
    BY <1>a, <1>d, <2>1
  <2> QED BY <1>0, <1>d, <2>1, <2>2 DEF CloneInv
<1>e. StaysFirm(sim, sim)
  BY <1>a DEF StaysFirm
<1>f. \A p \in Portals : TwoSidedElsewhere(sim, p)
  BY <1>a DEF TwoSidedElsewhere, Connected
<1>1. ASSUME NEW p \in Portals, NEW g \in Groups, NEW two \in BOOLEAN,
             \/ PassageFindPortal(p, g, two)
             \/ \E on \in BOOLEAN, at \in Spots : PassageSpawnFromMap(p, g, two, on, at)
      PROVE  CloneInv'
  <2>1. /\ sim' = sim /\ status[p] = "none"
        /\ \A x \in Portals : x # p => status'[x] = status[x]
    BY <1>1, <1>b DEF PassageFindPortal, FindPortal, PassageSpawnFromMap, SpawnFromMap, Arrive
  <2> QED BY <1>d, <1>e, <2>1
\* The simulators after p has closed.
<1>2. ASSUME NEW p \in Portals, Abandon(p, active'), sim' = Abandoned(sim, p, active', linked'),
             \A x \in Portals : status[x] = "removed" => status'[x] = "removed"
      PROVE  CloneInv'
  <2>1. /\ Firm(sim') /\ Connected(sim')
        /\ \A x \in Portals : Grounded(sim, x) => Grounded(sim', x)
    BY <1>0, <1>2, <1>a, <1>f, CloseClones
  <2>2. StaysFirm(sim', sim)
    BY <2>1 DEF StaysFirm
  <2> QED BY <1>2, <1>d, <2>2
\* The simulators after p has opened, when s is what they were before.
<1>3. ASSUME NEW p \in Portals, NEW s, StaysFirm(s, sim), SamePlaces(s, sim),
             UpdatePortalLinkage(p, active', linked, attached),
             sim' = Relinked(s, p, active', linked, linked', ptOrigin'),
             status' = status
      PROVE  CloneInv'
  <2>1. Firm(s)
    BY <1>3 DEF StaysFirm
  <2>2. StaysFirm(sim', s)
    BY <1>0, <1>3, <2>1, OpenClones
  <2>3. StaysFirm(sim', sim)
    BY <1>3, <2>2, StaysFirmTwice
  <2> QED BY <1>3, <1>d, <2>3
<1>4. ASSUME NEW p \in Portals, PassageActivate(p) PROVE CloneInv'
  <2>1. active' = active /\ ~active[p] /\ status' = [status EXCEPT ![p] = "live"]
    BY <1>4, <1>b DEF PassageActivate, Activate, CloneInv, Placed
  <2>2. Abandon(p, active') /\ sim' = Abandoned(sim, p, active', linked')
    BY <1>4, <2>1 DEF PassageActivate, Activate
  <2>3. status[p] = "spawned"
    BY <1>4, <1>b DEF PassageActivate, Activate
  <2>4. \A x \in Portals : status[x] = "removed" => status'[x] = "removed"
    BY <1>b, <2>1, <2>3
  <2> QED BY <1>2, <2>2, <2>4
<1>5. ASSUME NEW p \in Portals,
             PassageFizzle(p) \/ PassageDeactivate(p) \/ PassageFizzleBlocking(p)
      PROVE  CloneInv'
  <2>1. /\ Abandon(p, active') /\ sim' = Abandoned(sim, p, active', linked')
        /\ status' = status
    BY <1>5 DEF PassageFizzle, Fizzle, FizzlePortal, PassageDeactivate, Deactivate,
                PassageFizzleBlocking, FizzleBlocking, lifeVars
  <2> QED BY <1>2, <2>1
<1>6. ASSUME NEW p \in Portals, NEW at \in Spots, MovePortal(p, at), Relocate(p, at),
             status' = status
      PROVE  CloneInv'
  <2> DEFINE s == ReleaseAllEntityOwnership(sim, p)
  <2>1. /\ UpdatePortalLinkage(p, active', linked, attached)
        /\ sim' = Relinked(s, p, active', linked, linked', ptOrigin')
    BY <1>6 DEF MovePortal, Relocate
  <2>2. Firm(s) /\ SameShape(s, sim)
    BY <1>a, ReleaseAllFirm
  <2> HIDE DEF s
  <2>3. StaysFirm(s, sim) /\ SamePlaces(s, sim)
    BY <2>2, SameShapeStaysFirm DEF SameShape
  <2> QED BY <1>3, <1>6, <2>1, <2>3
<1>7. ASSUME NEW p \in Portals, NEW at \in Spots, PassageNewLocation(p, at) PROVE CloneInv'
  BY <1>6, <1>7 DEF PassageNewLocation, NewLocation, lifeVars
<1>8. ASSUME NEW p \in Portals, PassageSetActivatedState(p) PROVE CloneInv'
  <2>1. sim' = sim /\ status' = status
    BY <1>8 DEF PassageSetActivatedState, SetActivatedState, lifeVars
  <2> QED BY <1>d, <1>e, <2>1
<1>9. ASSUME PassagePlaceFixed PROVE CloneInv'
  <2>1. status' = status
    BY <1>9 DEF PassagePlaceFixed, PlaceFixed, lifeVars
  <2>2. input.who \in Portals
    BY <1>9, InputTypes DEF PassagePlaceFixed, PlaceFixed, PassageInv, InputInProgress
  <2>3. CASE MovePortal(input.who, spot[input.who]) /\ Relocate(input.who, spot[input.who])
    BY <1>6, <1>b, <2>1, <2>2, <2>3
  <2>4. CASE sim' = sim
    BY <1>d, <1>e, <2>1, <2>4
  <2> QED BY <1>9, <2>3, <2>4 DEF PassagePlaceFixed
<1>10. ASSUME PassageFinishActivation PROVE CloneInv'
  <2>1. input.who \in Portals
    BY <1>10, InputTypes DEF PassageFinishActivation, FinishActivation, PassageInv, InputInProgress
  <2>2. /\ UpdatePortalLinkage(input.who, active', linked, attached)
        /\ sim' = Relinked(sim, input.who, active', linked, linked', ptOrigin')
        /\ status' = status
    BY <1>10 DEF PassageFinishActivation, FinishActivation, lifeVars
  <2> QED BY <1>3, <1>a, <1>e, <2>1, <2>2
\* A portal that is removed gives its environment back.
<1>11. ASSUME NEW p \in Portals, PassageUpdateOnRemove(p) PROVE CloneInv'
  <2> DEFINE s == ClearEverything(sim, p)
  <2>1. Grounded(sim, p) /\ status' = [status EXCEPT ![p] = "removed"]
    BY <1>11, <1>a DEF PassageUpdateOnRemove, UpdateOnRemove
  <2>2. /\ Firm(s) /\ SamePlaces(s, sim)
        /\ \A x \in Portals : x # p /\ x # sim.link[p] /\ TwoSided(sim, x) => TwoSided(s, x)
        /\ \A x \in Portals : x # p /\ Grounded(sim, x) => Grounded(s, x)
    BY <1>a, <2>1, ClearEverythingFirm
  <2>3. /\ linked[p] = NoPortal => sim' = s
        /\ linked[p] # NoPortal => /\ Abandon(p, active')
                                   /\ sim' = Abandoned(s, p, active', linked')
    BY <1>11 DEF PassageUpdateOnRemove, UpdateOnRemove
  <2> HIDE DEF s
  <2>4. s.link = sim.link /\ sim.link = attached /\ attached[p] = linked[p]
    BY <2>2, LinkageFacts DEF SamePlaces, PassageInv, SimInv, AttachmentAgrees
  <2>5. TwoSidedElsewhere(s, p)
    BY <1>a, <2>2, <2>4 DEF TwoSidedElsewhere, Connected
  <2>6. \A x \in Portals : status'[x] # "removed" => Grounded(s, x)
    BY <1>a, <1>b, <2>1, <2>2
  <2>7. /\ Firm(sim') /\ Connected(sim')
        /\ \A x \in Portals : Grounded(s, x) => Grounded(sim', x)
    <3>1. CASE linked[p] = NoPortal
      <4>1. Connected(s)
        BY <2>4, <2>5, <3>1, NoPortalAssumption DEF TwoSidedElsewhere, Connected, TwoSided
      <4> QED BY <2>2, <2>3, <3>1, <4>1
    <3>2. CASE linked[p] # NoPortal
      BY <1>0, <2>2, <2>3, <2>5, <3>2, CloseClones
    <3> QED BY <3>1, <3>2
  <2> QED BY <1>0, <2>6, <2>7 DEF CloneInv
<1>12. ASSUME NEW p \in Portals, PassageDestroy(p) PROVE CloneInv'
  <2> DEFINE s == Destroyed(sim, p)
  <2>1. sim' = s /\ status' = [status EXCEPT ![p] = "none"]
    BY <1>12 DEF PassageDestroy, Destroy
  <2>2. /\ Firm(s) /\ Grounded(s, p)
        /\ Connected(sim) => Connected(s)
        /\ \A x \in Portals : Grounded(sim, x) => Grounded(s, x)
    BY <1>a, DestroyedFirm
  <2> HIDE DEF s
  <2>3. \A x \in Portals : status'[x] # "removed" => Grounded(s, x)
    BY <1>a, <1>b, <2>1, <2>2
  <2> QED BY <1>0, <1>a, <2>1, <2>2, <2>3 DEF CloneInv
<1>13. ASSUME NEW s, Firm(s), SameShape(s, sim), sim' = s, status' = status PROVE CloneInv'
  BY <1>d, <1>13, SameShapeStaysFirm
<1>14. ASSUME NEW p \in Portals, NEW e \in Entities,
              StartTouch(p, e) \/ Touch(p, e) \/ TouchUnlinked(p, e) \/ EndTouch(p, e)
       PROVE  CloneInv'
  <2>1. Firm(sim') /\ SameShape(sim', sim)
    BY <1>14, TouchClones
  <2>2. status' = status
    BY <1>14 DEF StartTouch, Touch, TouchUnlinked, EndTouch, vars
  <2> QED BY <1>13, <2>1, <2>2
<1>15. ASSUME NEW e \in Entities, RemoveEntity(e) PROVE CloneInv'
  <2>1. Firm(PreUtilRemove(sim, e)) /\ SameShape(PreUtilRemove(sim, e), sim)
    BY <1>a, PreUtilRemoveFirm
  <2>2. status' = status /\ sim' = PreUtilRemove(sim, e)
    BY <1>15 DEF RemoveEntity, vars
  <2> QED BY <1>13, <2>1, <2>2
<1>16. ASSUME ChangeSolidity PROVE CloneInv'
  <2>1. Firm(sim') /\ SameShape(sim', sim) /\ status' = status
    BY <1>a, <1>16, ChangeSolidityKeeps DEF Sound, vars
  <2> QED BY <1>13, <2>1
<1> QED BY <1>1, <1>4, <1>5, <1>7, <1>8, <1>9, <1>10, <1>11, <1>12, <1>14, <1>15, <1>16
        DEF PassageNext

\* New simulators have nothing to simulate.
LEMMA InitCloneInv == PassageInit => CloneInv
<1> SUFFICES ASSUME PassageInit PROVE CloneInv
  OBVIOUS
<1> DEFINE s == InitialSimulators
<1>1. Sound(s)
  BY InitialSound
<1>2. Tidy(s) /\ s.physics = s.owns
  BY DEF InitialSimulators, NoClones, Tidy, NoStray, Mirrored, Paired
<1>3. Connected(s) /\ \A p \in Portals : Grounded(s, p)
  BY DEF InitialSimulators, Connected, TwoSided, Grounded
<1>4. Placed
  BY DEF PassageInit, Init, Placed
<1> HIDE DEF s
<1>5. sim = s
  BY DEF PassageInit, s
<1> QED BY <1>1, <1>2, <1>3, <1>4, <1>5 DEF CloneInv, Firm

\* Every step keeps the condition of the simulators.
LEMMA SpecCloneInv ==
    ASSUME OpenUnplaced = FALSE
    PROVE  PassageSpec => []CloneInv
<1>1. PassageInv /\ CloneInv /\ [PassageNext]_passageVars => CloneInv'
  <2> SUFFICES ASSUME PassageInv, CloneInv, [PassageNext]_passageVars PROVE CloneInv'
    OBVIOUS
  <2>1. CASE PassageNext
    BY <2>1, StepCloneInv
  <2>2. CASE UNCHANGED passageVars
    BY <2>2 DEF passageVars, vars, CloneInv, Placed
  <2> QED BY <2>1, <2>2
<1> QED BY <1>1, InitCloneInv, SpecPassageInv, PTL DEF PassageSpec

\* Where every open portal was told where it is, a clone stands for an entity
\* that the attached simulator owns, whichever calls came in whichever order
\* and at the limit of clones too.
THEOREM SpecNoStrayClone ==
    ASSUME OpenUnplaced = FALSE
    PROVE  PassageSpec => []NoStrayClone
<1>1. CloneInv => NoStrayClone
  <2> SUFFICES ASSUME CloneInv, NEW p \in Portals, NEW e \in Entities, sim.clones[p][e] > 0
               PROVE  /\ sim.clones[p][e] = 1
                      /\ sim.link[p] # NoPortal
                      /\ e \in sim.owns[sim.link[p]]
    BY DEF NoStrayClone
  <2> QED BY DEF CloneInv, Firm, Tidy, NoStray
<1> QED BY <1>1, SpecCloneInv, PTL

\* Where moreover there may be a clone of every entity, none of a prop is
\* missing: a simulator that is linked to the other side holds one clone of
\* each prop owned there, whatever was refused a clone meanwhile, and no
\* simulator holds two of anything, nor one of what the other side does not own.
THEOREM SpecClonesMirror ==
    ASSUME OpenUnplaced = FALSE, Cardinality(Entities) <= MaxClones
    PROVE  PassageSpec => []ClonesMirror
<1>1. CloneInv => ClonesMirror
  <2> SUFFICES ASSUME CloneInv, NEW p \in Portals, NEW e \in Entities
               PROVE  sim.clones[p][e] \in
                        IF ~(/\ sim.link[p] # NoPortal /\ sim.remote[p]
                             /\ e \in sim.owns[sim.link[p]]) THEN {0}
                        ELSE IF e \in Props THEN {1}
                        ELSE {0, 1}
    BY DEF ClonesMirror
  <2> DEFINE q == sim.link[p]
  <2>1. /\ SimOK(sim) /\ Tidy(sim) /\ sim.physics = sim.owns /\ Connected(sim)
        /\ q \in Portals \cup {NoPortal} /\ sim.clones[p][e] \in Nat
    BY SimTypes DEF CloneInv, Firm, Sound
  <2>2. ASSUME sim.clones[p][e] > 0
        PROVE  /\ sim.clones[p][e] = 1 /\ q # NoPortal /\ e \in sim.owns[q] /\ sim.remote[p]
    <3>1. sim.clones[p][e] = 1 /\ q # NoPortal /\ e \in sim.owns[q] /\ sim.ready[p]
      BY <2>1, <2>2 DEF Tidy, NoStray, Mirrored
    <3>2. sim.ready[q]
      BY <2>1, <3>1 DEF Tidy
    <3> QED BY <3>1, <3>2, <2>1 DEF Connected, TwoSided
  <2>3. ASSUME q # NoPortal, sim.remote[p], e \in sim.owns[q], e \in Props
        PROVE  sim.clones[p][e] > 0
    BY <2>1, <2>3 DEF Tidy, Mirrored, Ample
  <2> QED BY <2>1, <2>2, <2>3
<1> QED BY <1>1, SpecCloneInv, PTL

\* Only a portal that is open without a place can make the assertion at the top
\* of TakeOwnershipOfEntity fail: where there is none, a simulator that owns
\* anything was told where it is.
THEOREM SpecPlacedBeforeUse ==
    ASSUME OpenUnplaced = FALSE
    PROVE  PassageSpec => []PlacedBeforeUse
<1>1. CloneInv => PlacedBeforeUse
  BY DEF CloneInv, Firm, Tidy, PlacedBeforeUse
<1> QED BY <1>1, SpecCloneInv, PTL

-----------------------------------------------------------------------------
(* What was shown of the linkage alone *)

\* The calls are those of the linkage, and the touch functions leave it alone:
\* whatever the simulators and the entities do, no call is lost or cut in two.
THEOREM PassageSpecLinkage == PassageSpec => Spec
<1>1. PassageInit => Init
  BY DEF PassageInit
<1>2. PassageNext => [Next]_vars
  <2> SUFFICES ASSUME PassageNext PROVE Next \/ UNCHANGED vars
    OBVIOUS
  <2>1. CASE \E p \in Portals, g \in Groups, two \in BOOLEAN :
                \/ PassageFindPortal(p, g, two)
                \/ \E on \in BOOLEAN, at \in Spots : PassageSpawnFromMap(p, g, two, on, at)
    BY <2>1 DEF PassageFindPortal, PassageSpawnFromMap, Next
  <2>2. ASSUME NEW p \in Portals,
               \/ PassageActivate(p) \/ PassageFizzle(p)
               \/ \E at \in Spots : PassageNewLocation(p, at)
               \/ PassageDeactivate(p) \/ PassageSetActivatedState(p)
               \/ PassageFizzleBlocking(p) \/ PassageUpdateOnRemove(p) \/ PassageDestroy(p)
        PROVE  Next
    BY <2>2 DEF PassageActivate, PassageFizzle, PassageNewLocation, PassageDeactivate,
                PassageSetActivatedState, PassageFizzleBlocking, PassageUpdateOnRemove,
                PassageDestroy, Next
  <2>3. CASE PassagePlaceFixed \/ PassageFinishActivation
    BY <2>3 DEF PassagePlaceFixed, PassageFinishActivation, Next
  <2>4. ASSUME NEW p \in Portals, NEW e \in Entities,
               StartTouch(p, e) \/ Touch(p, e) \/ TouchUnlinked(p, e) \/ EndTouch(p, e)
        PROVE  UNCHANGED vars
    BY <2>4 DEF StartTouch, Touch, TouchUnlinked, EndTouch
  <2>5. ASSUME (\E e \in Entities : RemoveEntity(e)) \/ ChangeSolidity PROVE UNCHANGED vars
    BY <2>5 DEF RemoveEntity, ChangeSolidity
  <2> QED BY <2>1, <2>2, <2>3, <2>4, <2>5 DEF PassageNext
<1>3. [PassageNext]_passageVars => [Next]_vars
  BY <1>2 DEF passageVars
<1> QED BY <1>1, <1>3, PTL DEF PassageSpec, Spec

\* So the portals with their simulators, whose calls attach and detach one side
\* after the other, still are pairs that are made and broken one at a time.
THEOREM PassageSpecPairing == PassageSpec => PairingSpec
BY PassageSpecLinkage, SpecPairing
=============================================================================
