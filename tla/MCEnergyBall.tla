---------------------------- MODULE MCEnergyBall ----------------------------
(* Instances of EnergyBall for TLC. *)
EXTENDS EnergyBall

\* The keyvalue BallLifetime of a ball that does not expire.
Infinite == -1
=============================================================================
