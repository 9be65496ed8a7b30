---------------------------- MODULE MCNoiseZone ----------------------------
(* A small instance of NoiseZone.                                          *)
EXTENDS NoiseZone, TLC

CONSTANTS m1

TwoPieces == m1 :> 2
=============================================================================
