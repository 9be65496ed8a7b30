-------------------------- MODULE MCMinerTemplates --------------------------
(* A small instance of MinerTemplates.                                      *)
EXTENDS MinerTemplates

CONSTANTS w1, w2
=============================================================================
