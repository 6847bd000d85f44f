---------------------------- MODULE MCPortalGun ----------------------------
(* Instances of PortalGun for TLC. *)
EXTENDS PortalGun

CONSTANTS a, c, g0, g1, left, middle, right, volume

\* A portal of the group of the map and one of a player's.
OneEach == [p \in {a, c} |-> IF p = c THEN g1 ELSE g0]

\* A wall on which neighbouring portals overlap; no portal fits its right end.
LeftHalf == {left, middle}
Neighbours == {<<left, middle>>, <<middle, left>>, <<middle, right>>, <<right, middle>>}

\* The volume holds the left end, and reaches the middle.
HoldsLeftEnd == [v \in {volume} |-> {left}]
ReachesMiddle == [v \in {volume} |-> {left, middle}]
=============================================================================
