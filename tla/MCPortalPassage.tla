-------------------------- MODULE MCPortalPassage --------------------------
(* Instances of PortalPassage for TLC. *)
EXTENDS PortalPassage, TLC

CONSTANTS player, box, lid

OneEach == {player, box}
NoFamily == [e \in OneEach |-> NoEntity]

\* A player, and a box with a lid parented to it.
WithLid == {player, box, lid}
LidOnBox == [e \in WithLid |-> IF e = box THEN lid ELSE NoEntity]

\* The box is cloned whenever it is asked for; the others may be refused.
JustBox == {box}
ThePlayers == {player}
Symmetry == Permutations(Portals)
=============================================================================
