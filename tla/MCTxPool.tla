------------------------------ MODULE MCTxPool ------------------------------
(* Small instances of TxPool.                                              *)
EXTENDS TxPool, TLC

CONSTANTS a, b, c, k1, k2

(* a and b spend k1, b and c spend k2; a ring of c has an output of a.      *)
ThreeTxs == {a, b, c}

ThreeVin == a :> <<k1>> @@ b :> <<k1, k2>> @@ c :> <<k2>>

ThreeRings == a :> {} @@ b :> {} @@ c :> {a}

ThreeWeights == a :> 2 @@ b :> 2 @@ c :> 1

ThreeRates == a :> 3 @@ b :> 2 @@ c :> 1

ThreeIds == a :> 1 @@ b :> 2 @@ c :> 3

TwoBodies == {<<a>>, <<a, c>>}

(* Without b, and with blocks that have a or nothing. *)
TwoTxs == {a, c}

TwoVin == a :> <<k1, k2>> @@ c :> <<k2>>

TwoRings == a :> {} @@ c :> {}

TwoWeights == a :> 2 @@ c :> 2

TwoRates == a :> 1 @@ c :> 2

TwoIds == a :> 1 @@ c :> 2

OneBody == {<<a>>}
=============================================================================
