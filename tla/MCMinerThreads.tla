--------------------------- MODULE MCMinerThreads ---------------------------
(* A small instance of MinerThreads.                                        *)
EXTENDS MinerThreads

(* Autodetection or one thread with background mining, two threads without. *)
AnyStart == {<<0, TRUE>>, <<1, TRUE>>, <<2, FALSE>>}
=============================================================================
