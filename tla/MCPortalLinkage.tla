-------------------------- MODULE MCPortalLinkage --------------------------
(* Instances of PortalLinkage for TLC. *)
EXTENDS PortalLinkage, TLC

Symmetry == Permutations(Portals) \cup Permutations(Groups) \cup Permutations(Spots)
=============================================================================
