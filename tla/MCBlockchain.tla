---------------------------- MODULE MCBlockchain ----------------------------
(* A small tree of blocks with a change of the rules at height 3:           *)
(*   g - t1 - a2 - a3 - a4                                                  *)
(*          \- b2 - b3 - b4                                                 *)
(* Block by block the b branch overtakes the a branch and is overtaken by   *)
(* it, and at height 2 both have the same work.                             *)
EXTENDS Blockchain, TLC

CONSTANTS g, t1, a2, a3, a4, b2, b3, b4

Tree == {g, t1, a2, a3, a4, b2, b3, b4}
TreeParent == (t1 :> g) @@ (a2 :> t1) @@ (a3 :> a2) @@ (a4 :> a3)
                @@ (b2 :> t1) @@ (b3 :> b2) @@ (b4 :> b3)
TreeWork == (g :> 1) @@ (t1 :> 2) @@ (a2 :> 3) @@ (a3 :> 4) @@ (a4 :> 7)
              @@ (b2 :> 3) @@ (b3 :> 5) @@ (b4 :> 6)

TwoForks == <<[version |-> 1, height |-> 0, threshold |-> 0],
              [version |-> 2, height |-> 3, threshold |-> 0]>>
TreeVersion == [b \in Tree |-> IF b \in {g, t1, a2, b2} THEN 1 ELSE 2]
=============================================================================
