------------------------------ MODULE Pruning ------------------------------
(***************************************************************************)
(* The striped pruning scheme of common/pruning.cpp.  A pruned node keeps  *)
(* in full the blocks of one stripe out of 2^log_stripes and the last      *)
(* CRYPTONOTE_PRUNING_TIP_BLOCKS blocks.  A pruning seed packs the number  *)
(* of stripes and the stripe; seed 0 means "not pruned".                   *)
(*                                                                         *)
(* The bit operations of the source are on fields that do not overlap, so  *)
(* x >> n is x \div 2^n, x << n is x * 2^n, a mask of n low bits is % 2^n  *)
(* and | is +.                                                             *)
(***************************************************************************)
EXTENDS Naturals

CONSTANTS
  STRIPE_SIZE,        \* CRYPTONOTE_PRUNING_STRIPE_SIZE
  LOG_STRIPES,        \* CRYPTONOTE_PRUNING_LOG_STRIPES
  TIP_BLOCKS          \* CRYPTONOTE_PRUNING_TIP_BLOCKS

ASSUME PruningAssumption ==
  /\ STRIPE_SIZE \in Nat \ {0}
  /\ LOG_STRIPES \in 1..7
  /\ TIP_BLOCKS \in Nat

PRUNING_SEED_LOG_STRIPES_SHIFT == 7

get_pruning_log_stripes(seed) ==
  (seed \div 2^PRUNING_SEED_LOG_STRIPES_SHIFT) % 8

(* The stripe a seed stands for; 0 for a node that is not pruned.          *)
seed_stripe(seed) ==
  IF seed = 0 THEN 0 ELSE 1 + (seed % 2^PRUNING_SEED_LOG_STRIPES_SHIFT)

make_pruning_seed(stripe, log_stripes) ==
  log_stripes * 2^PRUNING_SEED_LOG_STRIPES_SHIFT + (stripe - 1)

(* The stripe a height belongs to, whatever the tip.                       *)
stripe_of_height(height, log_stripes) ==
  ((height \div STRIPE_SIZE) % 2^log_stripes) + 1

(* The stripe that must hold a block; 0 when every node holds it.          *)
get_pruning_stripe(height, blockchain_height, log_stripes) ==
  IF height + TIP_BLOCKS >= blockchain_height
  THEN 0
  ELSE stripe_of_height(height, log_stripes)

has_unpruned_block(height, blockchain_height, seed) ==
  \/ seed_stripe(seed) = 0
  \/ get_pruning_stripe(height, blockchain_height, get_pruning_log_stripes(seed))
       \in {0, seed_stripe(seed)}

(* A seed whose log_stripes field is 0 falls back on LOG_STRIPES.          *)
log_stripes_of(seed) ==
  IF get_pruning_log_stripes(seed) = 0 THEN LOG_STRIPES
  ELSE get_pruning_log_stripes(seed)

(* The start of the next stripe of the seed: in this cycle of stripes when *)
(* it comes after the block's own, in the next cycle otherwise.            *)
next_stripe_start(height, seed) ==
  LET ls    == log_stripes_of(seed)
      cycle == (height \div STRIPE_SIZE) \div 2^ls
      start == IF seed_stripe(seed) > stripe_of_height(height, ls)
               THEN cycle ELSE cycle + 1
  IN  start * (STRIPE_SIZE * 2^ls) + (seed_stripe(seed) - 1) * STRIPE_SIZE

(* Faulty: the tip, which every node keeps, is not looked at.               *)
get_next_unpruned_block_height_past_tip(height, blockchain_height, seed) ==
  IF \/ seed_stripe(seed) = 0
     \/ height + TIP_BLOCKS >= blockchain_height
     \/ stripe_of_height(height, log_stripes_of(seed)) = seed_stripe(seed)
  THEN height
  ELSE next_stripe_start(height, seed)

get_next_unpruned_block_height(height, blockchain_height, seed) ==
  LET h == next_stripe_start(height, seed)
  IN  IF \/ seed_stripe(seed) = 0
         \/ height + TIP_BLOCKS >= blockchain_height
         \/ stripe_of_height(height, log_stripes_of(seed)) = seed_stripe(seed)
      THEN height
      ELSE IF h + TIP_BLOCKS > blockchain_height
           THEN IF blockchain_height < TIP_BLOCKS THEN 0
                ELSE blockchain_height - TIP_BLOCKS
           ELSE h

(* Faulty: the stripe after the last one does not wrap round to the first.  *)
get_next_pruned_block_height_no_wrap(height, blockchain_height, seed) ==
  LET ls == log_stripes_of(seed)
      st == stripe_of_height(height, ls)
  IN  IF seed_stripe(seed) = 0 \/ height + TIP_BLOCKS >= blockchain_height
      THEN blockchain_height
      ELSE IF st # seed_stripe(seed)
           THEN height
           ELSE get_next_unpruned_block_height(height, blockchain_height,
                  make_pruning_seed(IF st = 2^ls THEN 2 ELSE st + 1, ls))

get_next_pruned_block_height(height, blockchain_height, seed) ==
  LET ls == log_stripes_of(seed)
      st == stripe_of_height(height, ls)
  IN  IF seed_stripe(seed) = 0 \/ height + TIP_BLOCKS >= blockchain_height
      THEN blockchain_height
      ELSE IF st # seed_stripe(seed)
           THEN height
           ELSE get_next_unpruned_block_height(height, blockchain_height,
                  make_pruning_seed(1 + (st % 2^ls), ls))
-----------------------------------------------------------------------------
(* The seeds a node meets: process_payload_sync_data drops a peer that      *)
(* announces another pruning scheme, and the database does not open one.    *)
ProperSeed(seed) ==
  /\ seed \in Nat
  /\ seed # 0 => /\ get_pruning_log_stripes(seed) = LOG_STRIPES
                 /\ seed_stripe(seed) <= 2^LOG_STRIPES

(* n is the least height, from the given one on, that is kept in full.      *)
IsLeastUnpruned(n, height, blockchain_height, seed) ==
  /\ n >= height
  /\ has_unpruned_block(n, blockchain_height, seed)
  /\ \A h \in height..(n - 1) : ~has_unpruned_block(h, blockchain_height, seed)

(* Every height from the given one up to n is kept, and n itself is not, or *)
(* is in the tip.                                                           *)
StopsInTime(n, height, blockchain_height, seed) ==
  /\ \A h \in height..(n - 1) : has_unpruned_block(h, blockchain_height, seed)
  /\ ~has_unpruned_block(n, blockchain_height, seed) \/ n + TIP_BLOCKS >= blockchain_height
=============================================================================
