------------------------------- MODULE Ledger -------------------------------
(* What the main chain promises: it grows by a child of its tip, is         *)
(* replaced as a whole by a chain of more work or by one that a checkpoint  *)
(* demands, loses its last block when that is asked for, and after a crash  *)
(* is what was stored.                                                      *)
EXTENDS Naturals, Sequences

CONSTANTS Blocks, Genesis, Parent, Work

VARIABLES
  chain, stored,
  points,   \* the checkpoints
  asked     \* blocks are to be removed, by an operator or for a checkpoint

IsChain(c) ==
  /\ c # <<>> /\ c[1] = Genesis
  /\ \A i \in 2..Len(c) : Parent[c[i]] = c[i - 1]

Tip(c) == c[Len(c)]

Init ==
  /\ chain = <<Genesis>>
  /\ stored = <<Genesis>>

Extend ==
  /\ chain' = Append(chain, Tip(chain'))
  /\ stored' = stored

Replace ==
  /\ \/ Work[Tip(chain')] > Work[Tip(chain)]
     \/ points[Len(chain') - 1] = Tip(chain')
  /\ stored' = stored

Shorten ==
  /\ asked
  /\ chain' = SubSeq(chain, 1, Len(chain) - 1)
  /\ stored' = stored

Store ==
  /\ chain' = chain
  /\ stored' = chain

Reload ==
  /\ chain' = stored
  /\ stored' = stored

Next ==
  /\ IsChain(chain')
  /\ Extend \/ Replace \/ Shorten \/ Store \/ Reload

Spec == Init /\ [][Next]_<<chain, stored>>
=============================================================================
