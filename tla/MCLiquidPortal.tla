--------------------------- MODULE MCLiquidPortal ---------------------------
(* Instances of LiquidPortal for TLC. *)
EXTENDS LiquidPortal

CONSTANTS player, box

Both == {player, box}
ThePlayers == {player}
=============================================================================
