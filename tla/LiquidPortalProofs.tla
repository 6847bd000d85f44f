------------------------- MODULE LiquidPortalProofs -------------------------
(* What LiquidPortal promises, for any set of liquid portals and entities:    *)
(* of its links, in which the lists play no part, and then of its lists and    *)
(* fills, for which the loop over a list is followed place by place. That a    *)
(* fill ends is liveness, and stays with TLC.                                  *)
EXTENDS LiquidPortal, FiniteFolds, SequenceTheorems, TLAPS

Links == [Liquids -> Liquids \cup {NoLiquid}]
Matrices == [Liquids -> {Identity} \cup (Liquids \X Liquids)]

\* The inductive invariant. LinksAreMutual is inductive with its types: the
\* calls of SetLinkedLiquidPortal on the partners rely on it.
LinkInv ==
    /\ linked \in Links
    /\ matrix \in Matrices
    /\ LinksAreMutual

\* Measuring one portal again keeps types, and what was right.
LEMMA ComputeKeeps ==
    ASSUME NEW m \in Matrices, NEW lk \in Links, NEW p \in Liquids
    PROVE  /\ ComputeLinkMatrix(m, lk, p) \in Matrices
           /\ lk[p] = NoLiquid => ComputeLinkMatrix(m, lk, p)[p] = Identity
           /\ lk[p] # NoLiquid => /\ ComputeLinkMatrix(m, lk, p)[p] = <<p, lk[p]>>
                                  /\ lk[p] # p =>
                                        ComputeLinkMatrix(m, lk, p)[lk[p]] = <<lk[p], p>>
           /\ \A x \in Liquids \ {p, lk[p]} : ComputeLinkMatrix(m, lk, p)[x] = m[x]
<1>1. CASE lk[p] = NoLiquid
  BY <1>1, LiquidAssumption DEF ComputeLinkMatrix, Matrices, Links
<1>2. CASE lk[p] # NoLiquid
  <2>1. lk[p] \in Liquids
    BY <1>2 DEF Links
  <2>2. ComputeLinkMatrix(m, lk, p) = [m EXCEPT ![lk[p]] = <<lk[p], p>>, ![p] = <<p, lk[p]>>]
    BY <1>2 DEF ComputeLinkMatrix
  <2>. QED
    BY <1>2, <2>1, <2>2 DEF Matrices
<1>. QED
  BY <1>1, <1>2

-----------------------------------------------------------------------------
(* The calls of SetLinkedLiquidPortal within each other                       *)

Records == [linked : Links, matrix : Matrices]

\* What setting a handle, and measuring, leave.
LEMMA HandleIs ==
    ASSUME NEW l \in Records, NEW p \in Liquids, NEW q \in Liquids \cup {NoLiquid}
    PROVE  /\ WithHandle(l, p, q) \in Records
           /\ WithHandle(l, p, q).matrix = l.matrix
           /\ \A y \in Liquids : WithHandle(l, p, q).linked[y] = IF y = p THEN q ELSE l.linked[y]
  BY DEF WithHandle, Records, Links

LEMMA MeasuredIs ==
    ASSUME NEW l \in Records, NEW p \in Liquids
    PROVE  /\ Measured(l, p) \in Records /\ Measured(l, p).linked = l.linked
           /\ Measured(l, p).matrix = ComputeLinkMatrix(l.matrix, l.linked, p)
<1>1. ComputeLinkMatrix(l.matrix, l.linked, p) \in Matrices
  BY ComputeKeeps DEF Records
<1>. QED
  BY <1>1 DEF Measured, Records

\* A handle set to what it is.
LEMMA HandleSetAgain ==
    ASSUME NEW l \in Records, NEW p \in Liquids
    PROVE  WithHandle(l, p, l.linked[p]) = l
<1>1. l = [linked |-> l.linked, matrix |-> l.matrix]
  BY DEF Records
<1>2. [l.linked EXCEPT ![p] = l.linked[p]] = l.linked
  BY DEF Records, Links
<1>. QED
  BY <1>1, <1>2 DEF WithHandle

\* The calls that find nothing to do.
LEMMA CallsInVain ==
    ASSUME NEW l \in Records, NEW p \in Liquids
    PROVE  /\ FourthCall(l, p, l.linked[p]) = l
           /\ ThirdCall(l, p, l.linked[p]) = l
           /\ SecondCall(l, p, l.linked[p]) = l
<1>1. FourthCall(l, p, l.linked[p]) = l
  BY DEF FourthCall
<1>2. ThirdCall(l, p, l.linked[p]) = l
  BY DEF ThirdCall, Relinked
<1>3. SecondCall(l, p, l.linked[p]) = l
  BY DEF SecondCall, Relinked
<1>. QED
  BY <1>1, <1>2, <1>3

\* Portal x without its link.
Alone(l, x) == Measured(WithHandle(l, x, NoLiquid), x)

\* What that is, portal by portal.
LEMMA AloneIs ==
    ASSUME NEW l \in Records, NEW x \in Liquids
    PROVE  /\ Alone(l, x) \in Records
           /\ \A y \in Liquids :
                 /\ Alone(l, x).linked[y] = IF y = x THEN NoLiquid ELSE l.linked[y]
                 /\ Alone(l, x).matrix[y] = IF y = x THEN Identity ELSE l.matrix[y]
<1>. DEFINE w == WithHandle(l, x, NoLiquid)
<1>1. /\ w \in Records /\ w.matrix = l.matrix
      /\ \A y \in Liquids : w.linked[y] = IF y = x THEN NoLiquid ELSE l.linked[y]
  BY HandleIs
<1>. HIDE DEF w
<1>2. /\ Measured(w, x) \in Records /\ Measured(w, x).linked = w.linked
      /\ Measured(w, x).matrix = ComputeLinkMatrix(w.matrix, w.linked, x)
  BY <1>1, MeasuredIs
<1>3. w.matrix \in Matrices /\ w.linked \in Links /\ w.linked[x] = NoLiquid
  BY <1>1 DEF Records
<1>4. \A y \in Liquids : ComputeLinkMatrix(w.matrix, w.linked, x)[y] =
                            IF y = x THEN Identity ELSE w.matrix[y]
  BY <1>3, ComputeKeeps, LiquidAssumption
<1>. QED
  BY <1>1, <1>2, <1>4 DEF Alone, w

\* A portal that has lost its partner, told to unlink, calls a portal that
\* does not go on; so that the third call, and the second, come back.
LEMMA PartnerLetsGo ==
    ASSUME NEW l \in Records, NEW x \in Liquids, NEW y \in Liquids,
           l.linked[x] = y, l.linked[y] = NoLiquid
    PROVE  /\ ThirdCall(l, x, NoLiquid) = Alone(l, x)
           /\ SecondCall(l, x, NoLiquid) = Alone(l, x)
<1>. DEFINE lone == WithHandle(l, x, NoLiquid)
<1>1. x # y /\ y # NoLiquid
  BY LiquidAssumption
<1>2. lone \in Records /\ lone.linked[y] = NoLiquid /\ lone.linked[x] = NoLiquid
  BY <1>1, HandleIs
<1>. HIDE DEF lone
<1>3. WithHandle(lone, x, NoLiquid) = lone
  BY <1>2, HandleSetAgain
<1>4. FourthCall(lone, y, NoLiquid) = lone /\ ThirdCall(lone, y, NoLiquid) = lone
  BY <1>2, CallsInVain
<1>5. Relinked(l, x, NoLiquid, FourthCall) = Measured(lone, x)
  BY <1>1, <1>3, <1>4 DEF Relinked, lone
<1>6. Relinked(l, x, NoLiquid, ThirdCall) = Measured(lone, x)
  BY <1>1, <1>3, <1>4 DEF Relinked, lone
<1>. QED
  BY <1>5, <1>6 DEF ThirdCall, SecondCall, Alone, lone

\* What is left of the link of x once its partner, if it has one, was called.
Parted(r, l, x) ==
    /\ r \in Records
    /\ \A y \in Liquids :
          /\ r.linked[y] = IF y \in {x, l.linked[x]} THEN NoLiquid ELSE l.linked[y]
          /\ r.matrix[y] = IF y # x /\ y = l.linked[x] THEN Identity ELSE l.matrix[y]

\* The former partner of x is called after x has cleared its own handle: by
\* the first call, or by the second.
LEMMA FormerIsLeft ==
    ASSUME NEW l \in Records, NEW x \in Liquids,
           l.linked[x] # NoLiquid => l.linked[l.linked[x]] = x
    PROVE  LET f == l.linked[x]
               cleared == WithHandle(l, x, NoLiquid)
           IN  /\ f = NoLiquid => Parted(l, l, x)
               /\ f # NoLiquid => /\ Parted(SecondCall(cleared, f, NoLiquid), l, x)
                                  /\ Parted(ThirdCall(cleared, f, NoLiquid), l, x)
<1>. DEFINE f == l.linked[x]
            cleared == WithHandle(l, x, NoLiquid)
<1>1. CASE f = NoLiquid
  <2>1. \A y \in Liquids : y # l.linked[x]
    BY <1>1, LiquidAssumption
  <2>. QED
    BY <1>1, <2>1 DEF Parted
<1>2. /\ cleared \in Records /\ cleared.matrix = l.matrix
      /\ \A y \in Liquids : cleared.linked[y] = IF y = x THEN NoLiquid ELSE l.linked[y]
      /\ f # NoLiquid => f \in Liquids
  <2>1. f # NoLiquid => f \in Liquids
    BY DEF Records, Links
  <2>. QED
    BY <2>1, HandleIs
<1>. HIDE DEF cleared
<1>3. CASE f = x
  <2>1. SecondCall(cleared, f, NoLiquid) = cleared /\ ThirdCall(cleared, f, NoLiquid) = cleared
    BY <1>2, <1>3, CallsInVain
  <2>2. Parted(cleared, l, x)
    BY <1>2, <1>3 DEF Parted
  <2>. QED
    BY <1>1, <1>3, <2>1, <2>2 DEF cleared
<1>4. CASE f # x /\ f # NoLiquid
  <2>1. f \in Liquids /\ cleared.linked[f] = x /\ cleared.linked[x] = NoLiquid
    BY <1>2, <1>4
  <2>2. /\ SecondCall(cleared, f, NoLiquid) = Alone(cleared, f)
        /\ ThirdCall(cleared, f, NoLiquid) = Alone(cleared, f)
    BY <1>2, <2>1, PartnerLetsGo
  <2>. DEFINE a == Alone(cleared, f)
  <2>3. /\ a \in Records
        /\ \A y \in Liquids : /\ a.linked[y] = IF y = f THEN NoLiquid ELSE cleared.linked[y]
                              /\ a.matrix[y] = IF y = f THEN Identity ELSE cleared.matrix[y]
    BY <1>2, <2>1, AloneIs
  <2>. HIDE DEF a
  <2>4. Parted(a, l, x)
    BY <1>2, <1>4, <2>3 DEF Parted
  <2>. QED
    BY <1>4, <2>2, <2>4 DEF cleared, a
<1>. QED
  BY <1>1, <1>3, <1>4

\* The second call, on the new partner q that p already has: q leaves its own
\* former partner, and calls p back in vain.
LEMMA PartnerJoins ==
    ASSUME NEW l \in Records, NEW p \in Liquids, NEW q \in Liquids,
           q # p, l.linked[p] = q, l.linked[q] # p,
           l.linked[q] # NoLiquid => l.linked[l.linked[q]] = q
    PROVE  LET r == SecondCall(l, q, p)
               f == l.linked[q]
           IN  /\ r \in Records
               /\ \A y \in Liquids :
                     r.linked[y] = IF y = q THEN p ELSE IF y = f THEN NoLiquid ELSE l.linked[y]
               /\ \A y \in Liquids \ {p, q} :
                     r.matrix[y] = IF y = f THEN Identity ELSE l.matrix[y]
<1>. DEFINE f == l.linked[q]
            parted == IF f = NoLiquid THEN l
                      ELSE ThirdCall(WithHandle(l, q, NoLiquid), f, NoLiquid)
            joined == WithHandle(parted, q, p)
<1>1. Parted(parted, l, q)
  BY FormerIsLeft
<1>2. p # NoLiquid
  BY LiquidAssumption
<1>3. SecondCall(l, q, p) = Measured(ThirdCall(joined, p, q), q)
  BY <1>2 DEF SecondCall, Relinked
<1>. HIDE DEF parted
<1>4. /\ joined \in Records /\ joined.matrix = parted.matrix
      /\ \A y \in Liquids : joined.linked[y] = IF y = q THEN p ELSE parted.linked[y]
  BY <1>1, HandleIs DEF Parted
<1>. HIDE DEF joined
<1>5. \A y \in Liquids :
         joined.linked[y] = IF y = q THEN p ELSE IF y = f THEN NoLiquid ELSE l.linked[y]
  BY <1>1, <1>4 DEF Parted
<1>6. joined.linked[p] = q
  BY <1>5
<1>7. SecondCall(l, q, p) = Measured(joined, q)
  BY <1>3, <1>4, <1>6, CallsInVain
<1>8. /\ Measured(joined, q) \in Records /\ Measured(joined, q).linked = joined.linked
      /\ Measured(joined, q).matrix = ComputeLinkMatrix(joined.matrix, joined.linked, q)
  BY <1>4, MeasuredIs
<1>9. \A y \in Liquids \ {p, q} :
         ComputeLinkMatrix(joined.matrix, joined.linked, q)[y] = joined.matrix[y]
  <2>1. joined.linked[q] = p /\ joined.matrix \in Matrices /\ joined.linked \in Links
    BY <1>4 DEF Records
  <2>. QED
    BY <2>1, ComputeKeeps
<1>10. \A y \in Liquids \ {p, q} : parted.matrix[y] = IF y = f THEN Identity ELSE l.matrix[y]
  BY <1>1 DEF Parted
<1>. QED
  BY <1>4, <1>5, <1>7, <1>8, <1>9, <1>10

\* What the calls leave where the links were mutual: they all come back, and
\* whoever was linked to one of the two is alone.
LEMMA SetLinkedLeaves ==
    ASSUME LinkInv, NEW p \in Liquids, NEW q \in Liquids \cup {NoLiquid},
           SetLinkedLiquidPortal(p, q), linked[p] # q
    PROVE  /\ linked' \in Links /\ matrix' \in Matrices
           /\ \A y \in Liquids :
                 linked'[y] = IF y = p THEN q ELSE IF y = q THEN p
                              ELSE IF linked[y] \in {p, q} THEN NoLiquid ELSE linked[y]
           /\ q = NoLiquid => matrix'[p] = Identity
           /\ q # NoLiquid => matrix'[p] = <<p, q>> /\ (q # p => matrix'[q] = <<q, p>>)
           /\ \A y \in Liquids \ {p, q} :
                 matrix'[y] = IF linked[y] \in {p, q} \cap Liquids THEN Identity ELSE matrix[y]
<1>. DEFINE l == [linked |-> linked, matrix |-> matrix]
            f == linked[p]
            parted == IF f = NoLiquid THEN l
                      ELSE SecondCall(WithHandle(l, p, NoLiquid), f, NoLiquid)
            joined == WithHandle(parted, p, q)
            told == IF q = NoLiquid THEN joined ELSE SecondCall(joined, q, p)
<1>0. /\ l \in Records /\ l.linked = linked /\ l.matrix = matrix
      /\ linked \in Links /\ matrix \in Matrices
      /\ \A x \in Liquids : linked[x] # NoLiquid => linked[linked[x]] = x
      /\ NoLiquid \notin Liquids
  BY LiquidAssumption DEF LinkInv, LinksAreMutual, Records
<1>. HIDE DEF l
<1>1. Relinked(l, p, q, SecondCall) = Measured(told, p)
  BY <1>0 DEF Relinked
<1>2. linked' = Measured(told, p).linked /\ matrix' = Measured(told, p).matrix
  BY <1>1 DEF SetLinkedLiquidPortal, l
<1>3. Parted(parted, l, p)
  BY <1>0, FormerIsLeft
<1>. HIDE DEF parted
<1>4. /\ joined \in Records /\ joined.matrix = parted.matrix
      /\ \A y \in Liquids :
            joined.linked[y] = IF y = p THEN q ELSE IF y = f THEN NoLiquid ELSE linked[y]
  <2>1. /\ joined \in Records /\ joined.matrix = parted.matrix
        /\ \A y \in Liquids : joined.linked[y] = IF y = p THEN q ELSE parted.linked[y]
    BY <1>3, HandleIs DEF Parted
  <2>. HIDE DEF joined
  <2>. QED
    BY <1>0, <1>3, <2>1 DEF Parted
<1>5. \A y \in Liquids \ {p} : joined.matrix[y] = IF y = f THEN Identity ELSE matrix[y]
  BY <1>0, <1>3, <1>4 DEF Parted
<1>. HIDE DEF joined
\* Each portal has one partner.
<1>6. \A y \in Liquids, z \in Liquids : linked[y] = z <=> linked[z] = y
  BY <1>0
<1>7. /\ told \in Records
      /\ \A y \in Liquids :
            told.linked[y] = IF y = p THEN q ELSE IF y = q THEN p
                             ELSE IF linked[y] \in {p, q} THEN NoLiquid ELSE linked[y]
      /\ \A y \in Liquids \ {p, q} :
            told.matrix[y] = IF linked[y] \in {p, q} \cap Liquids THEN Identity ELSE matrix[y]
  <2>1. CASE q = NoLiquid
    BY <1>0, <1>4, <1>5, <1>6, <2>1 DEF Links
  <2>2. CASE q = p
    <3>1. SecondCall(joined, q, p) = joined
      BY <1>4, <2>2, CallsInVain
    <3>. QED
      BY <1>0, <1>4, <1>5, <1>6, <2>2, <3>1 DEF Links
  <2>3. CASE q # NoLiquid /\ q # p
    <3>. DEFINE g == linked[q]
    <3>1. joined.linked[p] = q /\ joined.linked[q] = g /\ q # f /\ g # p
      BY <1>0, <1>4, <1>6, <2>3
    <3>2. g # NoLiquid => g \in Liquids /\ g # f /\ joined.linked[g] = q
      BY <1>0, <1>4, <1>6, <2>3, <3>1 DEF Links
    <3>3. /\ told \in Records
          /\ \A y \in Liquids :
                told.linked[y] = IF y = q THEN p ELSE IF y = g THEN NoLiquid ELSE joined.linked[y]
          /\ \A y \in Liquids \ {p, q} :
                told.matrix[y] = IF y = g THEN Identity ELSE joined.matrix[y]
      BY <1>4, <2>3, <3>1, <3>2, PartnerJoins
    <3>. HIDE DEF told
    <3>4. ASSUME NEW y \in Liquids \ {p, q}
          PROVE  (linked[y] = p <=> y = f) /\ (linked[y] = q <=> y = g)
      BY <1>6, <2>3, <3>4
    <3>. QED
      BY <1>4, <1>5, <2>3, <3>1, <3>3, <3>4
  <2>. QED
    BY <2>1, <2>2, <2>3
<1>. HIDE DEF told
<1>8. /\ Measured(told, p) \in Records /\ Measured(told, p).linked = told.linked
      /\ Measured(told, p).matrix = ComputeLinkMatrix(told.matrix, told.linked, p)
  BY <1>7, MeasuredIs
<1>9. told.linked \in Links /\ told.matrix \in Matrices /\ told.linked[p] = q
  BY <1>7 DEF Records
<1>10. /\ matrix' \in Matrices
       /\ q = NoLiquid => matrix'[p] = Identity
       /\ q # NoLiquid => matrix'[p] = <<p, q>> /\ (q # p => matrix'[q] = <<q, p>>)
       /\ \A x \in Liquids \ {p, q} : matrix'[x] = told.matrix[x]
  <2>. DEFINE c == ComputeLinkMatrix(told.matrix, told.linked, p)
  <2>1. /\ c \in Matrices
        /\ told.linked[p] = NoLiquid => c[p] = Identity
        /\ told.linked[p] # NoLiquid =>
              /\ c[p] = <<p, told.linked[p]>>
              /\ told.linked[p] # p => c[told.linked[p]] = <<told.linked[p], p>>
        /\ \A x \in Liquids \ {p, told.linked[p]} : c[x] = told.matrix[x]
    BY <1>9, ComputeKeeps
  <2>. QED
    BY <1>2, <1>8, <1>9, <2>1
<1>. QED
  BY <1>2, <1>7, <1>8, <1>9, <1>10

\* SetLinkedLiquidPortal leaves a matching, whichever of the portals were
\* linked before, and the matrices of all it has touched agree with it.
LEMMA SetLinkedKeeps ==
    ASSUME LinkInv, NEW p \in Liquids, NEW q \in Liquids \cup {NoLiquid},
           SetLinkedLiquidPortal(p, q)
    PROVE  LinkInv' /\ (MatrixIsLink => MatrixIsLink')
<1>. USE LiquidAssumption
<1>1. CASE linked[p] = q
  <2>1. linked' = linked /\ matrix' = matrix
    BY <1>1 DEF SetLinkedLiquidPortal, Relinked
  <2>. QED
    BY <2>1 DEF LinkInv, LinksAreMutual, MatrixIsLink
<1>2. CASE linked[p] # q
  <2>1. /\ linked' \in Links /\ matrix' \in Matrices
        /\ \A y \in Liquids :
              linked'[y] = IF y = p THEN q ELSE IF y = q THEN p
                           ELSE IF linked[y] \in {p, q} THEN NoLiquid ELSE linked[y]
        /\ q = NoLiquid => matrix'[p] = Identity
        /\ q # NoLiquid => matrix'[p] = <<p, q>> /\ (q # p => matrix'[q] = <<q, p>>)
        /\ \A y \in Liquids \ {p, q} :
              matrix'[y] = IF linked[y] \in {p, q} \cap Liquids THEN Identity ELSE matrix[y]
    BY <1>2, SetLinkedLeaves
  <2>2. LinksAreMutual'
    BY <2>1 DEF LinkInv, Links, LinksAreMutual
  <2>3. ASSUME MatrixIsLink, NEW x \in Liquids
        PROVE  matrix'[x] = IF linked'[x] = NoLiquid THEN Identity ELSE <<x, linked'[x]>>
    BY <2>1, <2>3 DEF MatrixIsLink
  <2>. QED
    BY <2>1, <2>2, <2>3 DEF LinkInv, MatrixIsLink
<1>. QED
  BY <1>1, <1>2

\* Measuring a portal of a matching again does no harm.
LEMMA MeasuringKeeps ==
    ASSUME LinkInv, NEW p \in Liquids,
           linked' = linked, matrix' = ComputeLinkMatrix(matrix, linked, p)
    PROVE  LinkInv' /\ (MatrixIsLink => MatrixIsLink')
<1>. USE LiquidAssumption
<1>1. /\ ComputeLinkMatrix(matrix, linked, p) \in Matrices
      /\ linked[p] = NoLiquid => matrix'[p] = Identity
      /\ linked[p] # NoLiquid => /\ matrix'[p] = <<p, linked[p]>>
                                 /\ linked[p] # p => matrix'[linked[p]] = <<linked[p], p>>
      /\ \A x \in Liquids \ {p, linked[p]} : matrix'[x] = matrix[x]
  BY ComputeKeeps DEF LinkInv
<1>2. LinkInv'
  BY <1>1 DEF LinkInv, LinksAreMutual
<1>3. ASSUME MatrixIsLink, NEW x \in Liquids
      PROVE  matrix'[x] = IF linked[x] = NoLiquid THEN Identity ELSE <<x, linked[x]>>
  <2>1. CASE x \notin {p, linked[p]}
    BY <1>1, <1>3, <2>1 DEF MatrixIsLink
  <2>2. CASE x = p
    BY <1>1, <2>2
  <2>3. CASE x = linked[p] /\ x # p
    BY <1>1, <2>3 DEF LinkInv, LinksAreMutual
  <2>. QED
    BY <2>1, <2>2, <2>3
<1>. QED
  BY <1>2, <1>3 DEF MatrixIsLink

\* Destruction clears the handle of the partner too; a matrix is left behind
\* only where there was one.
LEMMA DestroyKeeps ==
    ASSUME LinkInv, NEW p \in Liquids, Destroy(p)
    PROVE  /\ LinkInv'
           /\ MatrixIsLink /\ (\A x \in Liquids \ {p} : linked[x] # p) => MatrixIsLink'
<1>. USE LiquidAssumption
<1>1. /\ linked' = [x \in Liquids |->
                      IF x = p \/ linked[x] = p THEN NoLiquid ELSE linked[x]]
      /\ matrix' = [matrix EXCEPT ![p] = Identity]
  BY DEF Destroy
<1>2. linked' \in Links /\ matrix' \in Matrices
  BY <1>1 DEF LinkInv, Links, Matrices
<1>3. LinksAreMutual'
  BY <1>1 DEF LinkInv, Links, LinksAreMutual
<1>4. ASSUME MatrixIsLink, \A x \in Liquids \ {p} : linked[x] # p
      PROVE  MatrixIsLink'
  BY <1>1, <1>4 DEF LinkInv, Matrices, MatrixIsLink
<1>. QED
  BY <1>2, <1>3, <1>4 DEF LinkInv

\* A restored map measures every portal anew.
LEMMA RestoreKeeps ==
    ASSUME LinkInv, SaveAndRestore
    PROVE  LinkInv' /\ MatrixIsLink'
<1>1. linked' = linked
  BY DEF SaveAndRestore
<1>2. matrix' = [p \in Liquids |->
                    IF linked[p] = NoLiquid THEN Identity ELSE <<p, linked[p]>>]
  BY DEF SaveAndRestore
<1>3. matrix' \in Matrices
  BY <1>2 DEF LinkInv, Links, Matrices
<1>. QED
  BY <1>1, <1>2, <1>3 DEF LinkInv, LinksAreMutual, MatrixIsLink

\* Every step, and what it does to the matrices.
LEMMA StepKeeps ==
    ASSUME LinkInv, [Next]_vars
    PROVE  /\ LinkInv'
           /\ MatrixIsLink =>
                 MatrixIsLink' \/ \E p \in Liquids : Destroy(p) /\ \E x \in Liquids \ {p} : linked[x] = p
<1>. DEFINE Kept == LinkInv' /\ (MatrixIsLink => MatrixIsLink')
<1>1. ASSUME UNCHANGED <<linked, matrix>> PROVE Kept
  BY <1>1 DEF LinkInv, LinksAreMutual, MatrixIsLink
<1>2. ASSUME NEW p \in Liquids, NEW q \in Liquids \cup {NoLiquid},
             Spawn(p, q) \/ InputSetLinkedLiquidPortal(p, q)
      PROVE  Kept
  <2>1. SetLinkedLiquidPortal(p, q)
    BY <1>2 DEF Spawn, InputSetLinkedLiquidPortal
  <2>. QED
    BY <2>1, SetLinkedKeeps
<1>3. ASSUME NEW p \in Liquids, Activate(p) PROVE Kept
  <2>1. linked' = linked /\ matrix' = ComputeLinkMatrix(matrix, linked, p)
    BY <1>3 DEF Activate
  <2>. QED
    BY <2>1, MeasuringKeeps
<1>4. ASSUME NEW p \in Liquids, NEW e \in Entities,
             \/ InputAddActivatorToTeleportList(p, e)
             \/ InputRemoveActivatorFromTeleportList(p, e)
      PROVE  Kept
  BY <1>1, <1>4 DEF InputAddActivatorToTeleportList, InputRemoveActivatorFromTeleportList, linkVars
<1>5. ASSUME NEW p \in Liquids, NEW d \in 0..MaxFill, InputStartFilling(p, d) PROVE Kept
  BY <1>1, <1>5 DEF InputStartFilling, linkVars
<1>6. ASSUME NEW p \in Liquids, NEW covered \in SUBSET Entities, Think(p, covered) PROVE Kept
  BY <1>1, <1>6 DEF Think, linkVars
<1>7. ASSUME NEW e \in Entities, RemoveEntity(e) PROVE Kept
  BY <1>1, <1>7 DEF RemoveEntity, linkVars
<1>8. CASE UNCHANGED vars
  BY <1>1, <1>8 DEF vars, linkVars
<1>9. CASE Next
  BY <1>2, <1>3, <1>4, <1>5, <1>6, <1>7, <1>9, DestroyKeeps, RestoreKeeps DEF Next
<1>. QED
  BY <1>8, <1>9

\* A new map has no links.
LEMMA InitLinks == Init => LinkInv
<1>1. <<>> \in {Identity} \cup (Liquids \X Liquids)
  BY DEF Identity
<1>. QED
  BY <1>1, LiquidAssumption DEF Init, LinkInv, Links, Matrices, LinksAreMutual

-----------------------------------------------------------------------------

\* The links are mutual whatever the map's inputs ask for, and however portals
\* are spawned and destroyed (SetLinkedLiquidPortal).
THEOREM LiquidSpecLinksAreMutual == LiquidSpec => []LinksAreMutual
<1>1. LinkInv /\ [Next]_vars => LinkInv'
  BY StepKeeps
<1>2. LinkInv => LinksAreMutual
  BY DEF LinkInv
<1>. QED
  BY <1>1, <1>2, InitLinks, PTL DEF LiquidSpec

\* A matrix and a link come to disagree only when the partner is destroyed.
THEOREM LiquidSpecOnlyDestructionLeavesMatrix == LiquidSpec => OnlyDestructionLeavesMatrix
<1>. DEFINE Leaves == \E p \in Liquids : Destroy(p) /\ \E x \in Liquids \ {p} : linked[x] = p
            Step == MatrixIsLink /\ ~MatrixIsLink' => Leaves
<1>1. LinkInv /\ [Next]_vars => LinkInv' /\ Step
  BY StepKeeps
<1>2. LiquidSpec => [][Step]_vars
  BY <1>1, InitLinks, PTL DEF LiquidSpec
<1>. QED
  BY <1>2 DEF OnlyDestructionLeavesMatrix

-----------------------------------------------------------------------------
(* Lists *)

\* What an entry of a list may read.
Entries == Entities \cup {Removed}

\* A function on an initial interval is a sequence.
LEMMA IsSeq ==
    ASSUME NEW V, NEW n \in Nat, NEW f \in [1..n -> V]
    PROVE  f \in Seq(V) /\ Len(f) = n /\ DOMAIN f = 1..n
  BY SeqDef

\* FastRemove of any place leaves a list, one entry shorter.
LEMMA FastRemoveType ==
    ASSUME NEW s \in Seq(Entries), NEW i \in Nat
    PROVE  /\ FastRemove(s, i) \in Seq(Entries)
           /\ s # <<>> =>
                /\ Len(FastRemove(s, i)) = Len(s) - 1
                /\ \A j \in 1..(Len(s) - 1) :
                      FastRemove(s, i)[j] = s[IF j = i THEN Len(s) ELSE j]
<1>1. Len(s) \in Nat /\ s \in [1..Len(s) -> Entries]
  BY LenProperties
<1>2. CASE s = <<>>
  <2>1. Len(s) = 0
    BY <1>2
  <2>2. 1..(Len(s) - 1) = 1..0
    BY <2>1
  <2>3. FastRemove(s, i) \in [1..0 -> Entries]
    BY <2>2 DEF FastRemove
  <2>. QED
    BY <1>2, <2>3, IsSeq
<1>3. CASE s # <<>>
  <2>1. Len(s) # 0
    BY <1>3, EmptySeq
  <2>2. FastRemove(s, i) \in [1..(Len(s) - 1) -> Entries]
    BY <1>1, <2>1 DEF FastRemove
  <2>3. \A j \in 1..(Len(s) - 1) :
            FastRemove(s, i)[j] = s[IF j = i THEN Len(s) ELSE j]
    BY <1>1, <2>1 DEF FastRemove
  <2>4. Len(s) - 1 \in Nat
    BY <1>1, <2>1
  <2>. QED
    BY <2>2, <2>3, <2>4, IsSeq
<1>. QED
  BY <1>2, <1>3

\* r consists of the entries of s at the places in kept, each once.
Picks(r, s, kept) ==
    \E place \in [1..Len(r) -> kept] :
        /\ \A j \in 1..Len(r) : r[j] = s[place[j]]
        /\ \A j, k \in 1..Len(r) : place[j] = place[k] => j = k
        /\ \A x \in kept : \E j \in 1..Len(r) : place[j] = x

\* Such a list has the entries at those places, and nothing twice if s has not.
LEMMA PicksFacts ==
    ASSUME NEW s \in Seq(Entries), NEW r \in Seq(Entries),
           NEW kept \in SUBSET (1..Len(s)), Picks(r, s, kept)
    PROVE  /\ ToSet(r) = {s[x] : x \in kept}
           /\ NoneTwice(s) => NoneTwice(r)
<1>1. /\ r \in [1..Len(r) -> Entries] /\ DOMAIN r = 1..Len(r)
      /\ s \in [1..Len(s) -> Entries] /\ DOMAIN s = 1..Len(s)
  BY LenProperties
<1>2. PICK place \in [1..Len(r) -> kept] :
         /\ \A j \in 1..Len(r) : r[j] = s[place[j]]
         /\ \A j, k \in 1..Len(r) : place[j] = place[k] => j = k
         /\ \A x \in kept : \E j \in 1..Len(r) : place[j] = x
  BY DEF Picks
<1>3. ToSet(r) = {s[x] : x \in kept}
  <2>1. ToSet(r) = {r[j] : j \in 1..Len(r)}
    BY <1>1 DEF ToSet
  <2>2. ASSUME NEW j \in 1..Len(r) PROVE r[j] \in {s[x] : x \in kept}
    <3>1. place[j] \in kept /\ r[j] = s[place[j]]
      BY <1>2
    <3>. QED
      BY <3>1
  <2>3. ASSUME NEW x \in kept PROVE s[x] \in ToSet(r)
    <3>1. PICK j \in 1..Len(r) : place[j] = x
      BY <1>2
    <3>2. r[j] = s[x]
      BY <1>2, <3>1
    <3>. QED
      BY <2>1, <3>2
  <2>. QED
    BY <2>1, <2>2, <2>3
<1>4. ASSUME NoneTwice(s), NEW j \in DOMAIN r, NEW k \in DOMAIN r, r[j] = r[k], r[j] # Removed
      PROVE  j = k
  <2>1. place[j] \in DOMAIN s /\ place[k] \in DOMAIN s /\ s[place[j]] = s[place[k]]
        /\ s[place[j]] # Removed
    BY <1>1, <1>2, <1>4
  <2>2. place[j] = place[k]
    BY <1>4, <2>1 DEF NoneTwice
  <2>. QED
    BY <1>1, <1>2, <2>2
<1>. QED
  BY <1>3, <1>4 DEF NoneTwice

\* FastRemove leaves the entries at all places but one.
LEMMA FastRemovePicks ==
    ASSUME NEW s \in Seq(Entries), NEW i \in 1..Len(s)
    PROVE  Picks(FastRemove(s, i), s, (1..Len(s)) \ {i})
<1>1. Len(s) \in Nat /\ s # <<>>
  BY LenProperties, EmptySeq
<1>2. /\ Len(FastRemove(s, i)) = Len(s) - 1
      /\ \A j \in 1..(Len(s) - 1) : FastRemove(s, i)[j] = s[IF j = i THEN Len(s) ELSE j]
  BY <1>1, FastRemoveType
<1>. DEFINE place == [j \in 1..(Len(s) - 1) |-> IF j = i THEN Len(s) ELSE j]
<1>3. place \in [1..(Len(s) - 1) -> (1..Len(s)) \ {i}]
  BY <1>1
<1>4. \A j, k \in 1..(Len(s) - 1) : place[j] = place[k] => j = k
  BY <1>1
<1>5. ASSUME NEW x \in (1..Len(s)) \ {i}
      PROVE  \E j \in 1..(Len(s) - 1) : place[j] = x
  <2>1. CASE x = Len(s)
    <3>1. i \in 1..(Len(s) - 1) /\ place[i] = x
      BY <1>1, <2>1
    <3>. QED
      BY <3>1
  <2>2. CASE x # Len(s)
    <3>1. x \in 1..(Len(s) - 1) /\ place[x] = x
      BY <1>1, <2>2
    <3>. QED
      BY <3>1
  <2>. QED
    BY <2>1, <2>2
<1>6. \A j \in 1..(Len(s) - 1) : FastRemove(s, i)[j] = s[place[j]]
  BY <1>2
<1>. DEFINE r == FastRemove(s, i)
            n == Len(s) - 1
            kept == (1..Len(s)) \ {i}
<1>7. /\ Len(r) = n /\ place \in [1..n -> kept]
      /\ \A j \in 1..n : r[j] = s[place[j]]
      /\ \A j, k \in 1..n : place[j] = place[k] => j = k
      /\ \A x \in kept : \E j \in 1..n : place[j] = x
  BY <1>2, <1>3, <1>4, <1>5, <1>6
<1>. HIDE DEF place, r, n, kept
<1>8. Picks(r, s, kept)
  BY <1>7 DEF Picks
<1>. QED
  BY <1>8 DEF r, kept

\* What the loop makes of the list r when it has come to the i-th entry of s.
LoopStep(s, covered, i, r) == IF s[i] \in covered THEN FastRemove(r, i) ELSE r

\* The loop goes through the places from the last one, one at a time: it[t] is
\* what it leaves when the places in t are those it has been to.
Loops(it, s, covered) ==
    /\ it[{}] = s
    /\ \A t \in SUBSET (1..Len(s)) : t # {} =>
          it[t] = LoopStep(s, covered, Min(t), it[t \ {Min(t)}])

\* A set of numbers has a minimum.
LEMMA MinIsLeast ==
    ASSUME NEW t \in SUBSET Nat, t # {}
    PROVE  Min(t) \in t /\ \A x \in t : Min(t) <= x
  BY LeastNumber DEF Min

\* The fold that models the loop is such a walk: it has a value for every list.
LEMMA LoopWorks ==
    ASSUME NEW s \in Seq(Entries), NEW covered
    PROVE  \E it : Loops(it, s, covered) /\ AfterLoop(s, covered) = it[1..Len(s)]
<1>. DEFINE S == 1..Len(s)
            F == Seq(Entries)
            d == [i \in DOMAIN s |-> i]
            step == [q \in S \X F |-> LoopStep(s, covered, q[1], q[2])]
            take == [t \in SUBSET S |-> Min(t)]
            Eq(it) == it = [t \in SUBSET DOMAIN d |->
                              IF t = {} THEN s
                              ELSE IF s[d[Min(t)]] \in covered
                                   THEN FastRemove(it[t \ {Min(t)}], d[Min(t)])
                                   ELSE it[t \ {Min(t)}]]
            iter == CHOOSE it : Eq(it)
<1>1. DOMAIN s = S /\ S \in SUBSET Nat /\ IsFiniteSet(S)
  BY LenProperties, FS_Interval
<1>2. \A t \in SUBSET S : t # {} => Min(t) \in t /\ Min(t) \in S /\ t \ {Min(t)} \in SUBSET S
  BY <1>1, MinIsLeast
<1>3. \A i \in S, r \in F : LoopStep(s, covered, i, r) \in F
  BY <1>1, FastRemoveType DEF LoopStep
<1>4. step \in [S \X F -> F]
  BY <1>3
<1>5. \A t \in SUBSET S : take[t] = Min(t)
  OBVIOUS
<1>. HIDE DEF F, S
<1>6. PICK g \in [SUBSET S -> F] : Folding(g, S, take, s, step)
  <2>1. \A t \in SUBSET S : t # {} => take[t] \in t
    BY <1>2, <1>5
  <2>2. s \in F
    BY DEF F
  <2>. HIDE DEF step, take
  <2>. QED BY <1>1, <1>4, <2>1, <2>2, FoldingExists
<1>7. \A t \in SUBSET S : g[t] = IF t = {} THEN s ELSE LoopStep(s, covered, Min(t), g[t \ {Min(t)}])
  <2>1. \A t \in SUBSET S : g[t] = IF t = {} THEN s ELSE step[<<Min(t), g[t \ {Min(t)}]>>]
    <3>. HIDE DEF step, take
    <3>. QED BY <1>5, <1>6 DEF Folding
  <2>2. \A t \in SUBSET S : t # {} =>
          step[<<Min(t), g[t \ {Min(t)}]>>] = LoopStep(s, covered, Min(t), g[t \ {Min(t)}])
    BY <1>2
  <2>. HIDE DEF step, take
  <2>. QED BY <2>1, <2>2
<1>8. DOMAIN d = S /\ \A t \in SUBSET S : t # {} => d[Min(t)] = Min(t)
  BY <1>1, <1>2
<1>. HIDE DEF d
<1>9. Eq(g)
  <2>1. g = [t \in SUBSET S |-> IF t = {} THEN s ELSE LoopStep(s, covered, Min(t), g[t \ {Min(t)}])]
    BY <1>7
  <2>2. \A t \in SUBSET S : t # {} =>
           LoopStep(s, covered, Min(t), g[t \ {Min(t)}]) =
              IF s[d[Min(t)]] \in covered THEN FastRemove(g[t \ {Min(t)}], d[Min(t)])
                                          ELSE g[t \ {Min(t)}]
    BY <1>8 DEF LoopStep
  <2>. QED BY <1>8, <2>1, <2>2
<1>10. Eq(iter)
  BY <1>9
<1>11. AfterLoop(s, covered) = iter[S]
  <2>1. AfterLoop(s, covered) = iter[DOMAIN d]
    BY DEF AfterLoop, FoldRightDomain, FoldRight, MapThenFoldSet, d
  <2>. QED BY <1>8, <2>1
<1>. HIDE DEF iter
<1>12. /\ iter[{}] = s
       /\ \A t \in SUBSET S : t # {} => iter[t] = LoopStep(s, covered, Min(t), iter[t \ {Min(t)}])
  <2>1. {} \in SUBSET S
    OBVIOUS
  <2>. QED BY <1>8, <1>10, <2>1 DEF LoopStep
<1>. QED
  BY <1>11, <1>12 DEF Loops, S

\* The places up to k, and those past it whose entry is not covered.
Spared(s, covered, k) == {x \in 1..Len(s) : x <= k \/ s[x] \notin covered}

\* The j-th entry of r is the one of s at place[j]; up to k nothing has moved.
ComesFrom(r, s, place, k) ==
    /\ k <= Len(r)
    /\ \A j \in 1..Len(r) : r[j] = s[place[j]]
    /\ \A i, j \in 1..Len(r) : place[i] = place[j] => i = j
    /\ \A j \in 1..k : place[j] = j

\* The loop takes out what is covered past k, and leaves the rest where it is.
LeavesPast(r, s, covered, k) ==
    /\ r \in Seq(Entries)
    /\ \E place \in [1..Len(r) -> Spared(s, covered, k)] :
          /\ ComesFrom(r, s, place, k)
          /\ \A x \in Spared(s, covered, k) : \E j \in 1..Len(r) : place[j] = x

\* It does so with every entry that it comes to.
LEMMA LoopStepLeaves ==
    ASSUME NEW s \in Seq(Entries), NEW covered, NEW k \in 1..Len(s),
           NEW r, LeavesPast(r, s, covered, k)
    PROVE  LeavesPast(LoopStep(s, covered, k, r), s, covered, k - 1)
<1>. DEFINE K(i) == Spared(s, covered, i)
<1>1. /\ r \in Seq(Entries) /\ Len(r) \in Nat /\ Len(s) \in Nat /\ k \in 1..Len(r)
      /\ r # <<>>
  BY LenProperties, EmptySeq DEF LeavesPast, ComesFrom
<1>2. PICK place \in [1..Len(r) -> K(k)] :
          /\ \A j \in 1..Len(r) : r[j] = s[place[j]]
          /\ \A i, j \in 1..Len(r) : place[i] = place[j] => i = j
          /\ \A x \in K(k) : \E j \in 1..Len(r) : place[j] = x
          /\ \A j \in 1..k : place[j] = j
  BY DEF LeavesPast, ComesFrom
<1>3. CASE s[k] \notin covered
  <2>1. K(k - 1) = K(k)
    BY <1>1, <1>3 DEF Spared
  <2>2. /\ LoopStep(s, covered, k, r) = r
        /\ k - 1 <= Len(r) /\ \A j \in 1..(k - 1) : place[j] = j
    BY <1>1, <1>2, <1>3 DEF LoopStep
  <2>3. place \in [1..Len(r) -> K(k - 1)] /\ \A x \in K(k - 1) : \E j \in 1..Len(r) : place[j] = x
    BY <1>2, <2>1
  <2>4. ComesFrom(r, s, place, k - 1)
    BY <1>2, <2>2 DEF ComesFrom
  <2>. QED
    BY <1>1, <2>2, <2>3, <2>4 DEF LeavesPast
<1>4. CASE s[k] \in covered
  <2>. DEFINE q == FastRemove(r, k)
              n == Len(r) - 1
              from == [j \in 1..n |-> place[IF j = k THEN Len(r) ELSE j]]
  <2>1. /\ LoopStep(s, covered, k, r) = q /\ q \in Seq(Entries) /\ Len(q) = n
        /\ \A j \in 1..n : q[j] = r[IF j = k THEN Len(r) ELSE j]
    BY <1>1, <1>4, FastRemoveType DEF LoopStep
  <2>2. K(k - 1) = K(k) \ {k} /\ place[k] = k
    BY <1>1, <1>2, <1>4 DEF Spared
  <2>3. \A j \in 1..n : /\ (IF j = k THEN Len(r) ELSE j) \in (1..Len(r)) \ {k}
                        /\ from[j] = place[IF j = k THEN Len(r) ELSE j]
    BY <1>1
  <2>4. \A j \in (1..Len(r)) \ {k} : place[j] \in K(k - 1)
    BY <1>1, <1>2, <2>2
  <2>5. from \in [1..n -> K(k - 1)]
    BY <2>3, <2>4
  <2>6. \A j \in 1..n : q[j] = s[from[j]]
    BY <1>2, <2>1, <2>3
  <2>7. \A i, j \in 1..n : from[i] = from[j] => i = j
    <3>1. \A i, j \in 1..n :
             (IF i = k THEN Len(r) ELSE i) = (IF j = k THEN Len(r) ELSE j) => i = j
      BY <1>1
    <3>. QED BY <1>2, <2>3, <3>1
  <2>8. ASSUME NEW x \in K(k - 1) PROVE \E j \in 1..n : from[j] = x
    <3>1. PICK j \in 1..Len(r) : place[j] = x
      BY <1>2, <2>2
    <3>2. j # k
      BY <2>2, <3>1
    <3>3. CASE j = Len(r)
      <4>1. k \in 1..n /\ from[k] = x
        BY <1>1, <3>1, <3>2, <3>3
      <4>. QED BY <4>1
    <3>4. CASE j # Len(r)
      <4>1. j \in 1..n /\ from[j] = x
        BY <1>1, <3>1, <3>2, <3>4
      <4>. QED BY <4>1
    <3>. QED BY <3>3, <3>4
  <2>9. \A j \in 1..(k - 1) : j \in 1..n /\ from[j] = j
    BY <1>1, <1>2
  <2>10. k - 1 <= n
    BY <1>1
  <2>. HIDE DEF q, from, n
  <2>11. ComesFrom(q, s, from, k - 1)
    BY <2>1, <2>6, <2>7, <2>9, <2>10 DEF ComesFrom
  <2>. QED
    BY <2>1, <2>5, <2>8, <2>11 DEF LeavesPast
<1>. QED
  BY <1>3, <1>4

\* What the loop leaves: what is not covered, and nothing twice that was there
\* once.
LEMMA AfterLoopFacts ==
    ASSUME NEW s \in Seq(Entries), NEW covered
    PROVE  /\ AfterLoop(s, covered) \in Seq(Entries)
           /\ ToSet(AfterLoop(s, covered)) = ToSet(s) \ covered
           /\ NoneTwice(s) => NoneTwice(AfterLoop(s, covered))
<1>. DEFINE n == Len(s)
            r == AfterLoop(s, covered)
<1>1. PICK it : Loops(it, s, covered) /\ r = it[1..n]
  BY LoopWorks
<1>. HIDE DEF r
<1>2. n \in Nat /\ s \in [1..n -> Entries] /\ DOMAIN s = 1..n
  BY LenProperties
<1>. HIDE DEF n
<1>. DEFINE Bad == {m \in 0..n : ~LeavesPast(it[(n - m + 1)..n], s, covered, n - m)}
<1>3. Bad = {}
  <2>. SUFFICES ASSUME Bad # {} PROVE FALSE
    OBVIOUS
  <2>1. PICK m \in Bad : \A x \in Bad : m <= x
    <3>1. Bad \in SUBSET Nat
      BY <1>2
    <3>. HIDE DEF Bad
    <3>. QED BY <3>1, LeastNumber
  <2>2. m \in 0..n /\ ~LeavesPast(it[(n - m + 1)..n], s, covered, n - m)
    BY <2>1
  <2>3. CASE m = 0
    <3>1. it[(n - m + 1)..n] = s
      <4>1. (n - m + 1)..n = {}
        BY <1>2, <2>3
      <4>. QED BY <1>1, <4>1 DEF Loops
    <3>. DEFINE place == [j \in 1..n |-> j]
    <3>2. Spared(s, covered, n) = 1..n
      BY <1>2 DEF Spared, n
    <3>3. place \in [1..n -> 1..n] /\ \A j \in 1..n : place[j] = j
      OBVIOUS
    <3>. HIDE DEF place
    <3>4. LeavesPast(s, s, covered, n)
      BY <1>2, <3>2, <3>3 DEF LeavesPast, ComesFrom, n
    <3>. QED BY <1>2, <2>2, <2>3, <3>1, <3>4
  <2>4. CASE m # 0
    <3>. DEFINE k == n - m + 1
                t == k..n
    <3>1. k \in 1..n /\ n - m = k - 1 /\ n - (m - 1) = k
      BY <1>2, <2>2, <2>4
    <3>2. Min(t) = k /\ t \ {k} = (k + 1)..n /\ t # {} /\ t \in SUBSET (1..n)
      <4>. HIDE DEF k
      <4>1. t # {} /\ t \in SUBSET (1..n) /\ t \in SUBSET Nat /\ k \in t /\ \A x \in t : k <= x
        BY <1>2, <3>1
      <4>2. t \ {k} = (k + 1)..n
        BY <1>2, <3>1
      <4>3. Min(t) \in t /\ \A x \in t : Min(t) <= x
        BY <4>1, MinIsLeast
      <4>4. Min(t) = k
        BY <3>1, <4>1, <4>3
      <4>. QED BY <4>1, <4>2, <4>4
    <3>3. LeavesPast(it[(k + 1)..n], s, covered, k)
      <4>1. m - 1 \in 0..n /\ m - 1 \notin Bad
        <5>1. m - 1 \in 0..n /\ ~(m <= m - 1)
          BY <1>2, <2>2, <2>4
        <5>. HIDE DEF Bad
        <5>. QED BY <2>1, <5>1
      <4>. QED BY <3>1, <4>1
    <3>. HIDE DEF k, t
    <3>4. it[t] = LoopStep(s, covered, k, it[(k + 1)..n])
      BY <1>1, <3>2 DEF Loops, n
    <3>5. LeavesPast(it[t], s, covered, k - 1)
      BY <3>1, <3>3, <3>4, LoopStepLeaves DEF n
    <3>. QED BY <2>2, <3>1, <3>5 DEF t, k
  <2>. QED BY <2>3, <2>4
<1>4. LeavesPast(r, s, covered, 0)
  <2>1. n \in 0..n /\ n - n + 1 = 1 /\ n - n = 0
    BY <1>2
  <2>. QED BY <1>1, <1>3, <2>1
<1>. DEFINE kept == {x \in 1..n : s[x] \notin covered}
<1>5. r \in Seq(Entries) /\ Picks(r, s, kept)
  <2>1. Spared(s, covered, 0) = kept
    BY <1>2 DEF Spared, n
  <2>. QED BY <1>4, <2>1 DEF LeavesPast, ComesFrom, Picks
<1>6. ToSet(r) = {s[x] : x \in kept} /\ (NoneTwice(s) => NoneTwice(r))
  <2>1. kept \in SUBSET (1..Len(s))
    BY DEF n
  <2>. HIDE DEF kept
  <2>. QED BY <1>5, <2>1, PicksFacts
<1>7. {s[x] : x \in kept} = ToSet(s) \ covered
  BY <1>2 DEF ToSet
<1>. QED
  BY <1>5, <1>6, <1>7 DEF r

-----------------------------------------------------------------------------
(* What the inputs do to a list *)

\* The empty list.
LEMMA EmptyList == <<>> \in Seq(Entries) /\ ToSet(<<>>) = {} /\ NoneTwice(<<>>)
BY EmptySeq DEF ToSet, NoneTwice

\* The activator goes to the end.
LEMMA AppendFacts ==
    ASSUME NEW s \in Seq(Entries), NEW e \in Entities
    PROVE  /\ Append(s, e) \in Seq(Entries)
           /\ ToSet(Append(s, e)) = ToSet(s) \cup {e}
           /\ NoneTwice(s) /\ e \notin ToSet(s) => NoneTwice(Append(s, e))
<1>. DEFINE r == Append(s, e)
            n == Len(s)
<1>1. n \in Nat /\ s \in [1..n -> Entries] /\ DOMAIN s = 1..n
  BY LenProperties
<1>2. /\ r \in Seq(Entries) /\ Len(r) = n + 1 /\ r[n + 1] = e
      /\ \A i \in 1..n : r[i] = s[i]
  BY AppendProperties DEF Entries
<1>3. DOMAIN r = 1..(n + 1)
  BY <1>2, LenProperties
<1>. HIDE DEF r, n
<1>4. ToSet(r) = ToSet(s) \cup {e}
  <2>1. 1..(n + 1) = 1..n \cup {n + 1}
    BY <1>1
  <2>. QED
    BY <1>1, <1>2, <1>3, <2>1 DEF ToSet
<1>5. ASSUME NoneTwice(s), e \notin ToSet(s) PROVE NoneTwice(r)
  <2>. SUFFICES ASSUME NEW i \in 1..(n + 1), NEW j \in 1..(n + 1), r[i] = r[j], r[i] # Removed
                PROVE  i = j
    BY <1>3 DEF NoneTwice
  <2>1. \A x \in 1..n : s[x] # e
    BY <1>1, <1>5 DEF ToSet
  <2>2. CASE i \in 1..n /\ j \in 1..n
    BY <1>1, <1>2, <1>5, <2>2 DEF NoneTwice
  <2>3. CASE i = n + 1 \/ j = n + 1
    BY <1>1, <1>2, <2>1, <2>3
  <2>. QED
    BY <1>1, <2>2, <2>3
<1>. QED
  BY <1>2, <1>4, <1>5 DEF r

\* The first that is found is taken out, and with it all there is of it.
LEMMA WithoutFacts ==
    ASSUME NEW s \in Seq(Entries), NoneTwice(s), NEW e \in Entities
    PROVE  /\ Without(s, e) \in Seq(Entries)
           /\ ToSet(Without(s, e)) = ToSet(s) \ {e}
           /\ NoneTwice(Without(s, e))
<1>1. CASE e \notin ToSet(s)
  BY <1>1 DEF Without
<1>2. CASE e \in ToSet(s)
  <2>1. Len(s) \in Nat /\ DOMAIN s = 1..Len(s)
    BY LenProperties
  <2>. DEFINE i == CHOOSE x \in DOMAIN s : s[x] = e
              kept == (1..Len(s)) \ {i}
  <2>2. i \in 1..Len(s) /\ s[i] = e
    BY <1>2, <2>1 DEF ToSet
  <2>3. Without(s, e) = FastRemove(s, i)
    BY <1>2 DEF Without
  <2>. HIDE DEF i
  <2>4. Picks(FastRemove(s, i), s, kept)
    BY <2>2, FastRemovePicks
  <2>5. FastRemove(s, i) \in Seq(Entries)
    BY <2>2, FastRemoveType
  <2>6. /\ ToSet(FastRemove(s, i)) = {s[x] : x \in kept}
        /\ NoneTwice(FastRemove(s, i))
    <3>1. kept \in SUBSET (1..Len(s))
      OBVIOUS
    <3>. HIDE DEF kept
    <3>. QED BY <2>4, <2>5, <3>1, PicksFacts
  <2>7. \A x \in 1..Len(s) : s[x] = e => x = i
    BY <2>1, <2>2, LiquidAssumption DEF NoneTwice
  <2>8. {s[x] : x \in kept} = ToSet(s) \ {e}
    BY <2>1, <2>2, <2>7 DEF ToSet
  <2>. QED
    BY <2>3, <2>5, <2>6, <2>8
<1>. QED
  BY <1>1, <1>2

\* The entries of an entity that is gone read NULL.
LEMMA ReplaceFacts ==
    ASSUME NEW s \in Seq(Entries), NEW e \in Entities
    PROVE  /\ ReplaceAll(s, e, Removed) \in Seq(Entries)
           /\ ToSet(ReplaceAll(s, e, Removed)) =
                 (ToSet(s) \ {e}) \cup (IF e \in ToSet(s) THEN {Removed} ELSE {})
           /\ NoneTwice(s) => NoneTwice(ReplaceAll(s, e, Removed))
<1>. DEFINE r == ReplaceAll(s, e, Removed)
            n == Len(s)
<1>1. n \in Nat /\ s \in [1..n -> Entries] /\ DOMAIN s = 1..n
  BY LenProperties
<1>2. r \in [1..n -> Entries] /\ \A i \in 1..n : r[i] = IF s[i] = e THEN Removed ELSE s[i]
  BY <1>1 DEF ReplaceAll, Entries
<1>. HIDE DEF r, n
<1>3. r \in Seq(Entries) /\ DOMAIN r = 1..n
  BY <1>1, <1>2, IsSeq
<1>4. ToSet(r) = (ToSet(s) \ {e}) \cup (IF e \in ToSet(s) THEN {Removed} ELSE {})
  <2>1. \A x \in ToSet(r) : x \in ToSet(s) \ {e} \/ (x = Removed /\ e \in ToSet(s))
    BY <1>1, <1>2, <1>3, LiquidAssumption DEF ToSet
  <2>2. \A x \in ToSet(s) : IF x = e THEN Removed \in ToSet(r) ELSE x \in ToSet(r)
    BY <1>1, <1>2, <1>3 DEF ToSet
  <2>. QED BY <2>1, <2>2
<1>5. NoneTwice(s) => NoneTwice(r)
  BY <1>1, <1>2, <1>3 DEF NoneTwice
<1>. QED
  BY <1>3, <1>4, <1>5 DEF r

-----------------------------------------------------------------------------
(* Fills *)

\* The CUtlVectors of handles, one for each portal.
Lists == [Liquids -> Seq(Entries)]

\* Their types, with those of what goes with them.
ListsOK ==
    /\ teleportList \in Lists /\ left \in Lists
    /\ filling \in [Liquids -> BOOLEAN] /\ thinks \in [Liquids -> BOOLEAN]
    /\ sent \in [Liquids -> SUBSET Entities] /\ present \in SUBSET Entities

\* What SentOnce says of one portal, with the entities that exist in all.
Orderly(p, all) ==
    /\ NoneTwice(teleportList[p]) /\ NoneTwice(left[p])
    /\ filling[p] => /\ ToSet(left[p]) \subseteq ToSet(teleportList[p])
                     /\ ToSet(left[p]) \cap sent[p] = {}
                     /\ ToSet(teleportList[p]) \cap all \subseteq ToSet(left[p]) \cup sent[p]
    /\ ~filling[p] => left[p] = <<>> /\ ~thinks[p]

\* The inductive invariant: SentOnce is inductive with the types of the lists.
FillInv == ListsOK /\ \A p \in Liquids : Orderly(p, present)

\* It says what SentOnce says.
LEMMA FillInvMeans == FillInv => SentOnce
BY DEF FillInv, Orderly, SentOnce

\* One portal changes, and the others keep what they have.
OthersKeep(p) ==
    \A x \in Liquids \ {p} :
        /\ teleportList'[x] = teleportList[x] /\ left'[x] = left[x]
        /\ filling'[x] = filling[x] /\ thinks'[x] = thinks[x] /\ sent'[x] = sent[x]

\* It is enough to look at the portal that changes.
LEMMA OneChanges ==
    ASSUME FillInv, NEW p \in Liquids, OthersKeep(p), present' = present,
           ListsOK', Orderly(p, present)'
    PROVE  FillInv'
<1>1. ASSUME NEW x \in Liquids, x # p PROVE Orderly(x, present)'
  BY <1>1 DEF FillInv, Orderly, OthersKeep
<1>. QED
  BY <1>1 DEF FillInv

\* At first nothing is listed or fills.
LEMMA InitFills == Init => FillInv
<1>1. Init => ListsOK
  BY EmptyList DEF Init, ListsOK, Lists
<1>2. Init => \A p \in Liquids : Orderly(p, present)
  BY EmptyList DEF Init, Orderly
<1>. QED
  BY <1>1, <1>2 DEF FillInv

\* An activator that enters is left to teleport, and may be sent again.
LEMMA AddKeeps ==
    ASSUME FillInv, NEW p \in Liquids, NEW e \in Entities,
           InputAddActivatorToTeleportList(p, e)
    PROVE  FillInv'
<1>. DEFINE t == teleportList[p]
            l == left[p]
<1>1. /\ t \in Seq(Entries) /\ l \in Seq(Entries) /\ e \notin ToSet(t)
      /\ Orderly(p, present)
  BY DEF FillInv, ListsOK, Lists, InputAddActivatorToTeleportList
<1>2. /\ teleportList' = [teleportList EXCEPT ![p] = Append(t, e)]
      /\ left' = IF filling[p] THEN [left EXCEPT ![p] = Append(l, e)] ELSE left
      /\ sent' = [sent EXCEPT ![p] = sent[p] \ {e}]
      /\ filling' = filling /\ thinks' = thinks /\ present' = present
  BY DEF InputAddActivatorToTeleportList, FillInv, ListsOK, Lists
<1>3. /\ Append(t, e) \in Seq(Entries) /\ ToSet(Append(t, e)) = ToSet(t) \cup {e}
      /\ NoneTwice(Append(t, e))
  BY <1>1, AppendFacts DEF Orderly
<1>4. /\ Append(l, e) \in Seq(Entries) /\ ToSet(Append(l, e)) = ToSet(l) \cup {e}
      /\ filling[p] => NoneTwice(Append(l, e))
  BY <1>1, AppendFacts DEF Orderly
<1>5. ListsOK' /\ OthersKeep(p)
  BY <1>2, <1>3, <1>4 DEF FillInv, ListsOK, Lists, OthersKeep
<1>6. /\ teleportList'[p] = Append(t, e) /\ sent'[p] = sent[p] \ {e}
      /\ left'[p] = IF filling[p] THEN Append(l, e) ELSE l
  BY <1>2 DEF FillInv, ListsOK, Lists
<1>7. Orderly(p, present)'
  <2>1. CASE filling[p]
    BY <1>1, <1>2, <1>3, <1>4, <1>6, <2>1 DEF Orderly
  <2>2. CASE ~filling[p]
    BY <1>1, <1>2, <1>3, <1>6, <2>2 DEF Orderly
  <2>. QED
    BY <2>1, <2>2
<1>. QED
  BY <1>2, <1>5, <1>7, OneChanges

\* One that leaves is not left to teleport, whether it has been sent or not.
LEMMA RemoveKeeps ==
    ASSUME FillInv, NEW p \in Liquids, NEW e \in Entities,
           InputRemoveActivatorFromTeleportList(p, e)
    PROVE  FillInv'
<1>. DEFINE t == teleportList[p]
            l == left[p]
<1>1. t \in Seq(Entries) /\ l \in Seq(Entries) /\ Orderly(p, present)
  BY DEF FillInv, ListsOK, Lists
<1>2. /\ teleportList' = [teleportList EXCEPT ![p] = Without(t, e)]
      /\ left' = IF filling[p] THEN [left EXCEPT ![p] = Without(l, e)] ELSE left
      /\ sent' = sent
      /\ filling' = filling /\ thinks' = thinks /\ present' = present
  BY DEF InputRemoveActivatorFromTeleportList, FillInv, ListsOK, Lists
<1>3. /\ Without(t, e) \in Seq(Entries) /\ ToSet(Without(t, e)) = ToSet(t) \ {e}
      /\ NoneTwice(Without(t, e))
  BY <1>1, WithoutFacts DEF Orderly
<1>4. /\ Without(l, e) \in Seq(Entries) /\ ToSet(Without(l, e)) = ToSet(l) \ {e}
      /\ NoneTwice(Without(l, e))
  BY <1>1, WithoutFacts DEF Orderly
<1>5. ListsOK' /\ OthersKeep(p)
  BY <1>2, <1>3, <1>4 DEF FillInv, ListsOK, Lists, OthersKeep
<1>6. /\ teleportList'[p] = Without(t, e)
      /\ left'[p] = IF filling[p] THEN Without(l, e) ELSE l
  BY <1>2 DEF FillInv, ListsOK, Lists
<1>7. Orderly(p, present)'
  <2>1. CASE filling[p]
    BY <1>1, <1>2, <1>3, <1>4, <1>6, <2>1 DEF Orderly
  <2>2. CASE ~filling[p]
    BY <1>1, <1>2, <1>3, <1>6, <2>2 DEF Orderly
  <2>. QED
    BY <2>1, <2>2
<1>. QED
  BY <1>2, <1>5, <1>7, OneChanges

\* A fill starts with all that is listed, and none of it has been sent.
LEMMA StartKeeps ==
    ASSUME FillInv, NEW p \in Liquids, NEW d, InputStartFilling(p, d)
    PROVE  FillInv'
<1>1. /\ teleportList' = teleportList /\ present' = present
      /\ left' = [left EXCEPT ![p] = teleportList[p]]
      /\ filling' = [filling EXCEPT ![p] = TRUE] /\ thinks' = [thinks EXCEPT ![p] = TRUE]
      /\ sent' = [sent EXCEPT ![p] = {}]
  BY DEF InputStartFilling
<1>2. ListsOK' /\ OthersKeep(p)
  BY <1>1 DEF FillInv, ListsOK, Lists, OthersKeep
<1>3. left'[p] = teleportList[p] /\ filling'[p] /\ sent'[p] = {}
  BY <1>1 DEF FillInv, ListsOK, Lists
<1>4. Orderly(p, present)'
  BY <1>1, <1>3 DEF FillInv, Orderly
<1>. QED
  BY <1>1, <1>2, <1>4, OneChanges

\* What the liquid covers has been sent, and the rest is left.
LEMMA RisesKeeps ==
    ASSUME FillInv, NEW p \in Liquids, NEW covered \in SUBSET Entities,
           filling[p], Rises(p, covered), UNCHANGED <<teleportList, present>>
    PROVE  FillInv' /\ ToSet(left'[p]) = ToSet(left[p]) \ covered
<1>. DEFINE l == left[p]
<1>1. l \in Seq(Entries) /\ Orderly(p, present)
  BY DEF FillInv, ListsOK, Lists
<1>2. /\ left' = [left EXCEPT ![p] = AfterLoop(l, covered)]
      /\ sent' = [sent EXCEPT ![p] = sent[p] \cup (ToSet(l) \cap covered)]
      /\ filling' = filling /\ thinks' = thinks
      /\ teleportList' = teleportList /\ present' = present
  BY DEF Rises, FillInv, ListsOK, Lists
<1>3. /\ AfterLoop(l, covered) \in Seq(Entries)
      /\ ToSet(AfterLoop(l, covered)) = ToSet(l) \ covered
      /\ NoneTwice(AfterLoop(l, covered))
  BY <1>1, AfterLoopFacts DEF Orderly
<1>4. ListsOK' /\ OthersKeep(p)
  BY <1>2, <1>3 DEF FillInv, ListsOK, Lists, OthersKeep
<1>5. left'[p] = AfterLoop(l, covered) /\ sent'[p] = sent[p] \cup (ToSet(l) \cap covered)
  BY <1>2 DEF FillInv, ListsOK, Lists
<1>6. Orderly(p, present)'
  BY <1>1, <1>2, <1>3, <1>5 DEF Orderly
<1>. QED
  BY <1>2, <1>3, <1>4, <1>5, <1>6, OneChanges

\* A fill that ends, like the portal, leaves nothing and thinks no more.
LEMMA EndsKeeps ==
    ASSUME FillInv, NEW p \in Liquids, present' = present,
           \/ teleportList' = teleportList
           \/ teleportList' = [teleportList EXCEPT ![p] = <<>>],
           left' = [left EXCEPT ![p] = <<>>], sent' = [sent EXCEPT ![p] = {}],
           filling' = [filling EXCEPT ![p] = FALSE], thinks' = [thinks EXCEPT ![p] = FALSE]
    PROVE  FillInv'
<1>1. ListsOK' /\ OthersKeep(p)
  BY EmptyList DEF FillInv, ListsOK, Lists, OthersKeep
<1>2. /\ teleportList'[p] \in {teleportList[p], <<>>}
      /\ left'[p] = <<>> /\ ~filling'[p] /\ ~thinks'[p]
  BY DEF FillInv, ListsOK, Lists
<1>3. Orderly(p, present)'
  BY <1>2, EmptyList DEF FillInv, Orderly
<1>. QED
  BY <1>1, <1>3, OneChanges

\* An entity that is gone has been sent by nobody, and is nobody's to send.
LEMMA RemoveEntityKeeps ==
    ASSUME FillInv, NEW e \in Entities, RemoveEntity(e)
    PROVE  FillInv'
<1>. DEFINE R(s) == ReplaceAll(s, e, Removed)
<1>1. /\ teleportList' = [p \in Liquids |-> R(teleportList[p])]
      /\ left' = [p \in Liquids |-> R(left[p])]
      /\ sent' = [p \in Liquids |-> sent[p] \ {e}] /\ present' = present \ {e}
      /\ filling' = filling /\ thinks' = thinks
  BY DEF RemoveEntity
<1>2. \A s \in Seq(Entries) :
          /\ R(s) \in Seq(Entries)
          /\ ToSet(R(s)) = (ToSet(s) \ {e}) \cup (IF e \in ToSet(s) THEN {Removed} ELSE {})
          /\ NoneTwice(s) => NoneTwice(R(s))
  BY ReplaceFacts
<1>3. R(<<>>) = <<>>
  <2>1. R(<<>>) \in [1..0 -> Entries]
    BY DEF ReplaceAll
  <2>2. R(<<>>) \in Seq(Entries) /\ Len(R(<<>>)) = 0
    <3>. HIDE DEF R
    <3>. QED BY <2>1, IsSeq
  <2>. HIDE DEF R
  <2>. QED
    BY <2>2, EmptySeq
<1>. HIDE DEF R
<1>4. \A p \in Liquids :
         /\ teleportList[p] \in Seq(Entries) /\ left[p] \in Seq(Entries)
         /\ teleportList'[p] = R(teleportList[p]) /\ left'[p] = R(left[p])
         /\ sent'[p] = sent[p] \ {e} /\ sent[p] \subseteq Entities
  BY <1>1 DEF FillInv, ListsOK, Lists
<1>5. ListsOK'
  BY <1>1, <1>2, <1>4 DEF FillInv, ListsOK, Lists
<1>6. ASSUME NEW p \in Liquids PROVE Orderly(p, present)'
  <2>1. Orderly(p, present)
    BY DEF FillInv
  <2>2. CASE filling[p]
    <3>. DEFINE t == ToSet(teleportList[p])
                l == ToSet(left[p])
                null(s) == IF e \in s THEN {Removed} ELSE {}
    <3>3. ToSet(teleportList'[p]) = (t \ {e}) \cup null(t)
      BY <1>2, <1>4
    <3>4. ToSet(left'[p]) = (l \ {e}) \cup null(l)
      BY <1>2, <1>4
    <3>5. l \subseteq t /\ l \cap sent[p] = {} /\ t \cap present \subseteq l \cup sent[p]
      BY <2>1, <2>2 DEF Orderly
    <3>6. /\ present \subseteq Entities /\ sent[p] \subseteq Entities /\ Removed \notin Entities
          /\ present' = present \ {e} /\ sent'[p] = sent[p] \ {e}
      BY <1>1, <1>4, LiquidAssumption DEF FillInv, ListsOK
    <3>. HIDE DEF t, l
    <3>1. /\ ToSet(left'[p]) \subseteq ToSet(teleportList'[p])
          /\ ToSet(left'[p]) \cap sent'[p] = {}
          /\ ToSet(teleportList'[p]) \cap present' \subseteq ToSet(left'[p]) \cup sent'[p]
      BY <3>3, <3>4, <3>5, <3>6
    <3>2. NoneTwice(teleportList'[p]) /\ NoneTwice(left'[p])
      BY <1>2, <1>4, <2>1 DEF Orderly
    <3>. QED
      BY <1>1, <2>2, <3>1, <3>2 DEF Orderly
  <2>3. CASE ~filling[p]
    BY <1>1, <1>2, <1>3, <1>4, <2>1, <2>3 DEF Orderly
  <2>. QED
    BY <2>2, <2>3
<1>. QED
  BY <1>5, <1>6 DEF FillInv

\* The inductive invariant of the lists is kept by every step; and a think of a
\* fill that goes on takes out of what is left all that is covered.
LEMMA StepKeepsFills ==
    ASSUME FillInv, [Next]_vars
    PROVE  /\ FillInv'
           /\ \A p \in Liquids, covered \in SUBSET Entities :
                 Think(p, covered) /\ filling'[p] => ToSet(left'[p]) = ToSet(left[p]) \ covered
<1>1. ASSUME UNCHANGED <<teleportList, fillVars, present>> PROVE FillInv'
  BY <1>1 DEF fillVars, FillInv, ListsOK, Orderly
<1>2. ASSUME NEW p \in Liquids, NEW covered \in SUBSET Entities, Think(p, covered)
      PROVE  FillInv' /\ (filling'[p] => ToSet(left'[p]) = ToSet(left[p]) \ covered)
  <2>1. filling[p] /\ UNCHANGED <<teleportList, present>>
    BY <1>2 DEF Think
  <2>2. CASE Rises(p, covered)
    BY <2>1, <2>2, RisesKeeps
  <2>3. CASE Ends(p)
    <3>1. ~filling'[p]
      BY <2>3 DEF Ends, FillInv, ListsOK
    <3>2. FillInv'
      BY <2>1, <2>3, EndsKeeps DEF Ends
    <3>. QED
      BY <3>1, <3>2
  <2>. QED
    BY <1>2, <2>2, <2>3 DEF Think
<1>3. ASSUME NEW p \in Liquids, Destroy(p) PROVE FillInv'
  BY <1>3, EndsKeeps DEF Destroy
<1>4. ASSUME NEW p \in Liquids, NEW q \in Liquids \cup {NoLiquid},
             Spawn(p, q) \/ InputSetLinkedLiquidPortal(p, q) \/ Activate(p)
      PROVE  FillInv'
  BY <1>1, <1>4 DEF Spawn, InputSetLinkedLiquidPortal, Activate
<1>5. ASSUME SaveAndRestore PROVE FillInv'
  BY <1>1, <1>5 DEF SaveAndRestore
<1>6. ASSUME UNCHANGED vars PROVE FillInv'
  BY <1>1, <1>6 DEF vars
<1>7. ASSUME Next PROVE FillInv'
  BY <1>2, <1>3, <1>4, <1>5, <1>7, AddKeeps, RemoveKeeps, StartKeeps, RemoveEntityKeeps DEF Next
<1>. QED
  BY <1>2, <1>6, <1>7

-----------------------------------------------------------------------------
(* Types of the rest *)

\* A portal is made, spawned, live or destroyed.
FlagsOK == state \in [Liquids -> States]

\* What is left of a fill's time is within the bound.
TimesOK == remaining \in [Liquids -> 0..MaxFill]

\* The portal a player was told of is one, or none.
PlayersOK == surrounding \in [Players -> Liquids \cup {NoLiquid}]

\* The rest of a new map.
LEMMA InitTypes == Init => FlagsOK /\ TimesOK /\ PlayersOK
<1>1. Init => FlagsOK /\ PlayersOK
  BY DEF Init, FlagsOK, PlayersOK, States
<1>2. Init => TimesOK
  BY LiquidAssumption DEF Init, TimesOK
<1>. QED
  BY <1>1, <1>2

\* No step leaves the lives of a portal.
LEMMA StepKeepsFlags == FlagsOK /\ [Next]_vars => FlagsOK'
<1>. SUFFICES ASSUME FlagsOK, [Next]_vars PROVE FlagsOK'
  OBVIOUS
<1>. USE DEF FlagsOK, States, linkVars
<1>1. ASSUME UNCHANGED state PROVE FlagsOK'
  BY <1>1
<1>2. ASSUME NEW p \in Liquids, NEW q \in Liquids \cup {NoLiquid},
             Spawn(p, q) \/ InputSetLinkedLiquidPortal(p, q) \/ Activate(p) \/ Destroy(p)
      PROVE  FlagsOK'
  BY <1>2 DEF Spawn, InputSetLinkedLiquidPortal, Activate, Destroy
<1>3. ASSUME NEW p \in Liquids, NEW e \in Entities,
             \/ InputAddActivatorToTeleportList(p, e)
             \/ InputRemoveActivatorFromTeleportList(p, e)
             \/ RemoveEntity(e)
      PROVE  UNCHANGED state
  BY <1>3 DEF InputAddActivatorToTeleportList, InputRemoveActivatorFromTeleportList,
              RemoveEntity
<1>4. ASSUME NEW p \in Liquids, NEW d, NEW covered,
             InputStartFilling(p, d) \/ Think(p, covered)
      PROVE  UNCHANGED state
  BY <1>4 DEF InputStartFilling, Think
<1>5. ASSUME SaveAndRestore \/ UNCHANGED vars PROVE UNCHANGED state
  BY <1>5 DEF SaveAndRestore, vars
<1>6. ASSUME NEW e \in Entities, RemoveEntity(e) PROVE UNCHANGED state
  BY <1>6 DEF RemoveEntity
<1>. HIDE DEF FlagsOK
<1>7. CASE Next
  BY <1>1, <1>2, <1>3, <1>4, <1>5, <1>6, <1>7 DEF Next
<1>. QED
  BY <1>1, <1>5, <1>7

\* A fill is counted down only while it lasts.
LEMMA StepKeepsTimes == TimesOK /\ [Next]_vars => TimesOK'
<1>. SUFFICES ASSUME TimesOK, [Next]_vars PROVE TimesOK'
  OBVIOUS
<1>. USE DEF TimesOK, fillVars
<1>1. ASSUME UNCHANGED remaining PROVE TimesOK'
  BY <1>1
<1>2. ASSUME NEW p \in Liquids, NEW q \in Liquids \cup {NoLiquid},
             Spawn(p, q) \/ InputSetLinkedLiquidPortal(p, q) \/ Activate(p)
      PROVE  UNCHANGED remaining
  BY <1>2 DEF Spawn, InputSetLinkedLiquidPortal, Activate
<1>3. ASSUME NEW p \in Liquids, NEW e \in Entities,
             \/ InputAddActivatorToTeleportList(p, e)
             \/ InputRemoveActivatorFromTeleportList(p, e)
      PROVE  UNCHANGED remaining
  BY <1>3 DEF InputAddActivatorToTeleportList, InputRemoveActivatorFromTeleportList
<1>4. ASSUME NEW p \in Liquids, NEW d \in 0..MaxFill, InputStartFilling(p, d)
      PROVE  TimesOK'
  BY <1>4 DEF InputStartFilling
<1>5. ASSUME NEW p \in Liquids, NEW covered, Think(p, covered)
      PROVE  TimesOK'
  BY <1>5, LiquidAssumption DEF Think, Rises, Ends
<1>6. ASSUME NEW p \in Liquids, Destroy(p)
      PROVE  TimesOK'
  BY <1>6, LiquidAssumption DEF Destroy
<1>7. ASSUME NEW e \in Entities, RemoveEntity(e) PROVE UNCHANGED remaining
  BY <1>7 DEF RemoveEntity
<1>8. ASSUME SaveAndRestore \/ UNCHANGED vars PROVE UNCHANGED remaining
  BY <1>8 DEF SaveAndRestore, vars
<1>. HIDE DEF TimesOK
<1>9. CASE Next
  BY <1>1, <1>2, <1>3, <1>4, <1>5, <1>6, <1>7, <1>8, <1>9 DEF Next
<1>. QED
  BY <1>1, <1>8, <1>9

-----------------------------------------------------------------------------
(* Players *)

\* A step either leaves a player where they are, or tells them of a portal, or
\* of none.
LEMMA StepKeepsPlayers == PlayersOK /\ LinkInv /\ [Next]_vars => PlayersOK'
<1>. SUFFICES ASSUME PlayersOK, LinkInv, [Next]_vars PROVE PlayersOK'
  OBVIOUS
<1>. USE DEF PlayersOK
<1>1. ASSUME UNCHANGED surrounding PROVE PlayersOK'
  BY <1>1
<1>2. ASSUME NEW p \in Liquids, NEW q \in Liquids \cup {NoLiquid},
             Spawn(p, q) \/ InputSetLinkedLiquidPortal(p, q) \/ Activate(p)
      PROVE  UNCHANGED surrounding
  BY <1>2 DEF Spawn, InputSetLinkedLiquidPortal, Activate
<1>3. ASSUME NEW p \in Liquids, NEW e \in Entities,
             \/ InputAddActivatorToTeleportList(p, e)
             \/ InputRemoveActivatorFromTeleportList(p, e)
             \/ RemoveEntity(e)
      PROVE  PlayersOK'
  BY <1>3 DEF InputAddActivatorToTeleportList, InputRemoveActivatorFromTeleportList, RemoveEntity
<1>4. ASSUME NEW p \in Liquids, NEW d, InputStartFilling(p, d)
      PROVE  UNCHANGED surrounding
  BY <1>4 DEF InputStartFilling
<1>5. ASSUME NEW p \in Liquids, NEW covered, Think(p, covered)
      PROVE  PlayersOK'
  <2>1. linked[p] \in Liquids \cup {NoLiquid}
    BY DEF LinkInv, Links
  <2>. QED
    BY <1>5, <2>1 DEF Think, Rises, Ends, Teleported
<1>6. ASSUME NEW p \in Liquids, Destroy(p) PROVE PlayersOK'
  BY <1>6 DEF Destroy
<1>7. ASSUME SaveAndRestore PROVE PlayersOK'
  BY <1>7 DEF SaveAndRestore
<1>8. ASSUME NEW e \in Entities, RemoveEntity(e) PROVE PlayersOK'
  BY <1>8 DEF RemoveEntity
<1>9. ASSUME UNCHANGED vars PROVE UNCHANGED surrounding
  BY <1>9 DEF vars
<1>. HIDE DEF PlayersOK
<1>10. CASE Next
  BY <1>1, <1>2, <1>3, <1>4, <1>5, <1>6, <1>7, <1>8, <1>10 DEF Next
<1>. QED
  BY <1>1, <1>9, <1>10

\* No step but a think forgets a player.
LEMMA StepAccounts ==
    ASSUME FillInv, PlayersOK, Accounted, [Next]_vars,
           ~ \E p \in Liquids, covered \in SUBSET Entities : Think(p, covered)
    PROVE  Accounted'
<1>0. \A x \in Players : surrounding[x] # NoLiquid =>
          surrounding[x] \in Liquids /\ x \in ToSet(teleportList[surrounding[x]])
  BY DEF PlayersOK, Accounted
<1>1. ASSUME UNCHANGED <<teleportList, surrounding>> PROVE Accounted'
  BY <1>1 DEF Accounted
<1>2. ASSUME NEW p \in Liquids, NEW q \in Liquids \cup {NoLiquid},
             Spawn(p, q) \/ InputSetLinkedLiquidPortal(p, q) \/ Activate(p)
      PROVE  UNCHANGED <<teleportList, surrounding>>
  BY <1>2 DEF Spawn, InputSetLinkedLiquidPortal, Activate
<1>3. ASSUME NEW p \in Liquids, NEW e \in Entities, InputAddActivatorToTeleportList(p, e)
      PROVE  Accounted'
  <2>1. ToSet(Append(teleportList[p], e)) = ToSet(teleportList[p]) \cup {e}
    BY AppendFacts DEF FillInv, ListsOK, Lists
  <2>2. /\ \A y \in Liquids : teleportList'[y] = IF y = p THEN Append(teleportList[p], e)
                                                          ELSE teleportList[y]
        /\ \A x \in Players : surrounding'[x] = IF x = e THEN p ELSE surrounding[x]
    BY <1>3 DEF InputAddActivatorToTeleportList, FillInv, ListsOK, Lists
  <2>. QED
    BY <1>0, <2>1, <2>2, LiquidAssumption DEF Accounted
<1>4. ASSUME NEW p \in Liquids, NEW e \in Entities, InputRemoveActivatorFromTeleportList(p, e)
      PROVE  Accounted'
  <2>1. ToSet(Without(teleportList[p], e)) = ToSet(teleportList[p]) \ {e}
    <3>1. teleportList[p] \in Seq(Entries) /\ NoneTwice(teleportList[p])
      BY DEF FillInv, ListsOK, Lists, Orderly
    <3>. QED
      BY <3>1, WithoutFacts
  <2>2. /\ \A y \in Liquids : teleportList'[y] = IF y = p THEN Without(teleportList[p], e)
                                                          ELSE teleportList[y]
        /\ \A x \in Players : surrounding'[x] = IF x = e /\ surrounding[x] = p THEN NoLiquid
                                                ELSE surrounding[x]
    BY <1>4 DEF InputRemoveActivatorFromTeleportList, FillInv, ListsOK, Lists
  <2>. QED
    BY <1>0, <2>1, <2>2 DEF Accounted
<1>5. ASSUME NEW p \in Liquids, NEW d, InputStartFilling(p, d)
      PROVE  UNCHANGED <<teleportList, surrounding>>
  BY <1>5 DEF InputStartFilling
<1>6. ASSUME NEW p \in Liquids, Destroy(p) PROVE Accounted'
  <2>1. /\ \A y \in Liquids : y # p => teleportList'[y] = teleportList[y]
        /\ \A x \in Players : surrounding'[x] = IF surrounding[x] = p THEN NoLiquid
                                                ELSE surrounding[x]
    BY <1>6 DEF Destroy, FillInv, ListsOK, Lists
  <2>. QED
    BY <1>0, <2>1 DEF Accounted
<1>7. ASSUME NEW e \in Entities, RemoveEntity(e) PROVE Accounted'
  <2>1. \A y \in Liquids : \A x \in ToSet(teleportList[y]) : x # e => x \in ToSet(teleportList'[y])
    <3>1. \A y \in Liquids : /\ teleportList[y] \in Seq(Entries)
                             /\ teleportList'[y] = ReplaceAll(teleportList[y], e, Removed)
      BY <1>7 DEF RemoveEntity, FillInv, ListsOK, Lists
    <3>. QED
      BY <3>1, ReplaceFacts
  <2>2. \A x \in Players : surrounding'[x] = IF x = e THEN NoLiquid ELSE surrounding[x]
    BY <1>7 DEF RemoveEntity
  <2>. QED
    BY <1>0, <2>1, <2>2 DEF Accounted
<1>8. ASSUME SaveAndRestore PROVE Accounted'
  <2>1. \A p \in Liquids : \A x \in ToSet(left[p]) : x \in ToSet(teleportList[p])
    <3>. SUFFICES ASSUME NEW p \in Liquids, NEW x \in ToSet(left[p])
                  PROVE  x \in ToSet(teleportList[p])
      OBVIOUS
    <3>1. Orderly(p, present)
      BY DEF FillInv
    <3>2. filling[p]
      BY <3>1, EmptyList DEF Orderly
    <3>. QED
      BY <3>1, <3>2 DEF Orderly
  <2>2. /\ teleportList' = teleportList
        /\ \A x \in Players :
              \/ surrounding'[x] = surrounding[x]
              \/ surrounding'[x] \in {p \in Liquids : x \in ToSet(left[p])}
    BY <1>8 DEF SaveAndRestore
  <2>. QED
    BY <1>0, <2>1, <2>2 DEF Accounted
<1>9. ASSUME UNCHANGED vars PROVE UNCHANGED <<teleportList, surrounding>>
  BY <1>9 DEF vars
<1>10. CASE Next
  BY <1>1, <1>2, <1>3, <1>4, <1>5, <1>6, <1>7, <1>8, <1>10 DEF Next
<1>. QED
  BY <1>1, <1>9, <1>10

-----------------------------------------------------------------------------

\* Types (LiquidTypeOK).
THEOREM LiquidSpecTypeOK == LiquidSpec => []LiquidTypeOK
<1>. DEFINE Inv == LinkInv /\ FillInv /\ FlagsOK /\ TimesOK /\ PlayersOK
<1>1. Init => Inv
  BY InitLinks, InitFills, InitTypes
<1>2. Inv /\ [Next]_vars => Inv'
  BY StepKeeps, StepKeepsFills, StepKeepsFlags, StepKeepsTimes, StepKeepsPlayers
<1>3. Inv => LiquidTypeOK
  BY DEF LinkInv, Links, Matrices, FillInv, ListsOK, Lists, Entries, FlagsOK, TimesOK,
         PlayersOK, LiquidTypeOK
<1>. QED
  BY <1>1, <1>2, <1>3, PTL DEF LiquidSpec

\* A fill sends each entity once, and none that was taken off the list, also if
\* entities enter and leave during the fill, are removed, or the fill is started
\* again: however long the lists are (SentOnce).
THEOREM LiquidSpecSentOnce == LiquidSpec => []SentOnce
<1>1. FillInv /\ [Next]_vars => FillInv'
  BY StepKeepsFills
<1>. QED
  BY <1>1, InitFills, FillInvMeans, PTL DEF LiquidSpec

\* A think takes out of the list it walks all that is covered and nothing else
\* (CoveredGoAtOnce): FastRemove never puts an entry where the loop has not been.
THEOREM LiquidSpecCoveredGoAtOnce == LiquidSpec => CoveredGoAtOnce
<1>. DEFINE Step == \A p \in Liquids, covered \in SUBSET Entities :
                       Think(p, covered) /\ filling'[p] =>
                           ToSet(left'[p]) = ToSet(left[p]) \ covered
<1>1. FillInv /\ [Next]_vars => FillInv' /\ Step
  BY StepKeepsFills
<1>2. LiquidSpec => [][Step]_vars
  BY <1>1, InitFills, PTL DEF LiquidSpec
<1>. QED
  BY <1>2 DEF CoveredGoAtOnce

\* Only being sent through makes the liquid portal of a player one that does not
\* list them (OnlyTeleportForgets).
THEOREM LiquidSpecOnlyTeleportForgets == LiquidSpec => OnlyTeleportForgets
<1>. DEFINE Inv == LinkInv /\ FillInv /\ PlayersOK
            Sends == \E p \in Liquids, covered \in SUBSET Entities : Think(p, covered)
            Step == Accounted /\ ~Accounted' => Sends
<1>1. Inv /\ [Next]_vars => Inv' /\ Step
  BY StepKeeps, StepKeepsFills, StepKeepsPlayers, StepAccounts
<1>2. Init => Inv
  BY InitLinks, InitFills, InitTypes
<1>3. LiquidSpec => [][Step]_vars
  BY <1>1, <1>2, PTL DEF LiquidSpec
<1>. QED
  BY <1>3 DEF OnlyTeleportForgets
=============================================================================
