--------------------------- MODULE PortalPairing ---------------------------
(***************************************************************************)
(* What the linkage of portals promises, without saying how it is computed *)
(* (the comments of CProp_Portal::UpdatePortalLinkage, prop_portal.cpp).   *)
(*                                                                         *)
(* Some portals are open.  Open portals are joined two by two: a pair is a *)
(* passage, an open portal outside every pair waits for a partner.  One    *)
(* step opens or closes at most one portal and makes at most one new pair. *)
(* A passage whose two ends stay open is never broken, so nobody loses the *)
(* way out to a third portal.                                              *)
(***************************************************************************)
CONSTANT Portals

VARIABLES open,     \* the portals one can see
          pairs     \* the passages: a set of two-element sets of open portals

vars == <<open, pairs>>

\* Passages join two different portals of S, and no portal is in two of them.
IsMatching(M, S) ==
    /\ \A m \in M : \E p, q \in S : p # q /\ m = {p, q}
    /\ \A m, n \in M : m # n => m \cap n = {}

Init == open = {} /\ pairs = {}

\* At most p changes between open and closed.
Step(p) ==
    /\ open' \in {open \cup {p}, open \ {p}, open}
    /\ \A m \in pairs : m \subseteq open' => m \in pairs'
    /\ \A m, n \in pairs' \ pairs : m = n
    /\ IsMatching(pairs', open')

Next == \E p \in Portals : Step(p)

Spec == Init /\ [][Next]_vars
=============================================================================
