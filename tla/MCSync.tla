------------------------------- MODULE MCSync -------------------------------
(* Small instances of SyncProtocol.                                         *)
EXTENDS SyncProtocol, TLC

CONSTANTS c1, c2

(* The second peer has one block more, which is invalid.                    *)
BadTop == [c \in Connections |->
  IF c = c2 THEN <<"g", "a2", "a3", "x4">> ELSE <<"g", "a2", "a3">>]

(* The second peer has a block of its own.                                  *)
Forked == [c \in Connections |->
  IF c = c2 THEN <<"g", "b2">> ELSE <<"g", "a2", "a3">>]
=============================================================================
