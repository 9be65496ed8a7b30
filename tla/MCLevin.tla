------------------------------ MODULE MCLevin ------------------------------
(* Two calls whose timers race with their replies and with each other, and  *)
(* one call on a connection that the node closes.                           *)
EXTENDS LevinConnection

CONSTANTS c1, c2

TwoCallsOrAClose == {[calls |-> {c1, c2}, closes |-> FALSE],
                     [calls |-> {c1}, closes |-> TRUE]}
=============================================================================
