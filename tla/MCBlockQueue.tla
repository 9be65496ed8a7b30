---------------------------- MODULE MCBlockQueue ----------------------------
(* A small instance of BlockQueue.                                         *)
EXTENDS BlockQueue, TLC

CONSTANTS c1, c2

(* The second peer is on a fork that leaves the common chain after block 1. *)
ForkedChain == [c \in Connections |->
  IF c = c2 THEN <<"a1", "b2">> ELSE <<"a1", "a2", "a3">>]

(* Stripe 1 keeps block 1, stripe 2 block 2, and both keep the tip.         *)
(* The first peer keeps the second stripe, the other one is not pruned.     *)
SecondStripe == make_pruning_seed(2, 1)

OneStriped == [c \in Connections |-> IF c = c1 THEN SecondStripe ELSE 0]

(* This node keeps the first stripe.                                        *)
FirstStripe == make_pruning_seed(1, 1)
-----------------------------------------------------------------------------
(* The functions of Pruning against reference definitions, at every height  *)
(* of every chain of at most MaxHeight blocks, for a peer that is not       *)
(* pruned and for every stripe of four and of eight.  They do not depend on *)
(* the state and are evaluated once, in the initial states.                 *)
CONSTANT MaxHeight

Striped == INSTANCE Pruning WITH STRIPE_SIZE <- 3, LOG_STRIPES <- 2, TIP_BLOCKS <- 4

Seeds == {0} \cup UNION {{make_pruning_seed(s, ls) : s \in 1..(2^ls)} : ls \in {2, 3}}

(* reserve_span starts a download at get_next_unpruned_block_height: it is  *)
(* the least height, from the given one on, that the peer keeps in full.    *)
NextUnprunedIsLeast ==
  Init => \A top \in 1..MaxHeight, seed \in Seeds : \A height \in 0..top :
    Striped!IsLeastUnpruned(Striped!get_next_unpruned_block_height(height, top, seed),
                            height, top, seed)

(* find_blockchain_supplement serves blocks up to                           *)
(* get_next_pruned_block_height: every block before it is kept, and it      *)
(* stops early only at a block that is pruned or at the unpruned tip.       *)
NextPrunedStopsInTime ==
  Init => \A top \in 1..MaxHeight, seed \in Seeds : \A height \in 0..top :
    Striped!StopsInTime(Striped!get_next_pruned_block_height(height, top, seed),
                        height, top, seed)
=============================================================================
