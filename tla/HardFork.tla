------------------------------ MODULE HardFork ------------------------------
(* cryptonote_basic/hardfork.cpp: which block version is in force.          *)
(* The object is a record hf: index is current_fork_index, versions the     *)
(* window of votes, db the hf_versions table of the database, which keeps   *)
(* the entries of popped blocks.  last_versions always counts versions, and *)
(* is computed from it.  A chain is the sequence of its blocks, the block   *)
(* of height h at place h + 1.                                              *)
EXTENDS Integers, Sequences, FiniteSets

CONSTANTS
  Forks,        \* heights: <<[version, height, threshold], ...>>
  WindowSize,   \* window_size
  Version,      \* the major version of a block
  Vote          \* get_block_vote of a block

ForkIndexes == 1..Len(Forks)

(* What add_fork refuses to deviate from.                                   *)
ASSUME ForksAssumption ==
  /\ Forks # <<>> /\ Forks[1].height = 0
  /\ \A m, n \in ForkIndexes : m < n =>
       Forks[m].version < Forks[n].version /\ Forks[m].height < Forks[n].height
  /\ \A n \in ForkIndexes : Forks[n].threshold \in 0..100
  /\ WindowSize \in Nat \ {0}

Greatest(S) == CHOOSE n \in S : \A m \in S : m <= n

get_effective_version(vote) ==
  IF vote > Forks[Len(Forks)].version THEN Forks[Len(Forks)].version ELSE vote

(* The votes for fork n: those for it and for the later ones.               *)
accumulated_votes(hf, n) ==
  Cardinality({i \in DOMAIN hf.versions :
                 \E m \in n..Len(Forks) : Forks[m].version = hf.versions[i]})

get_voted_fork_index(hf, height) ==
  LET voted == {n \in ForkIndexes :
        /\ height >= Forks[n].height
        /\ accumulated_votes(hf, n) >= (WindowSize * Forks[n].threshold + 99) \div 100}
  IN  IF voted = {} THEN hf.index ELSE Greatest(voted)

in_force(b, n) == Version[b] = Forks[n].version /\ Vote[b] >= Forks[n].version

check(hf, b) == in_force(b, hf.index)

check_for_height(hf, b, height) == in_force(b, get_voted_fork_index(hf, height))

(* The index only rises while blocks are added.                             *)
raise_index(hf, height) ==
  [hf EXCEPT !.index = Greatest({hf.index, get_voted_fork_index(hf, height)})]

(* add, whose result BlockchainDB::add_block ignores.                       *)
add(hf, b, height) ==
  LET n == Len(hf.versions)
      kept == IF n >= WindowSize THEN SubSeq(hf.versions, n - WindowSize + 2, n)
              ELSE hf.versions
  IN  IF ~check(hf, b) THEN hf
      ELSE raise_index([hf EXCEPT
             !.db[height] = Forks[hf.index].version,
             !.versions = Append(kept, get_effective_version(Vote[b]))], height + 1)

votes_of(chain, from, to) ==
  [i \in 1..(to - from + 1) |-> get_effective_version(Vote[chain[from + i]])]

(* init, with rescan_from_chain_height.                                     *)
init(db, chain) ==
  LET height == Len(chain)
      from == IF height > WindowSize THEN height - WindowSize ELSE 0
      same == {n \in ForkIndexes : Forks[n].version = db[height - 1]}
  IN  raise_index([index |-> IF same = {} THEN Len(Forks) ELSE Greatest(same),
                   versions |-> votes_of(chain, from, height - 1),
                   db |-> db], height)

(* reorganize_from_chain_height: go back to the fork of the block below     *)
(* chain_height, then add the blocks from there on again.                   *)
reorganize_from_chain_height(hf, chain, chain_height) ==
  LET height == chain_height - 1
      from == IF height >= WindowSize - 1 THEN height - (WindowSize - 1) ELSE 0
      start == IF height = 0 THEN Forks[1].version ELSE hf.db[height]
      reached == {n \in 1..hf.index : n = 1 \/ Forks[n].version <= start}
      back == raise_index([hf EXCEPT !.index = Greatest(reached),
                             !.versions = votes_of(chain, from, height)], height + 1)
      again[h \in height..(Len(chain) - 1)] ==
        IF h = height THEN back ELSE add(again[h - 1], chain[h + 1], h)
  IN  IF chain_height = 0 \/ height >= Len(chain) THEN hf ELSE again[Len(chain) - 1]

(* A faulty form: the index stays when a block is popped.                   *)
on_block_popped_keeps_index(hf, chain_height) ==
  [hf EXCEPT
     !.versions = <<hf.db[chain_height]>> \o SubSeq(hf.versions, 1, Len(hf.versions) - 1)]

(* on_block_popped(1), when chain_height blocks are left: the vote of the   *)
(* popped block leaves the window at the back, the version in force at its  *)
(* height enters at the front, and the index follows from the height alone. *)
on_block_popped(hf, chain_height) ==
  [hf EXCEPT
     !.versions = <<hf.db[chain_height]>> \o SubSeq(hf.versions, 1, Len(hf.versions) - 1),
     !.index = Greatest({1} \union {n \in ForkIndexes : chain_height >= Forks[n].height})]
=============================================================================
