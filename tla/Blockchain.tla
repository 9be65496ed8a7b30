----------------------------- MODULE Blockchain -----------------------------
(* The main chain and the alternative blocks of cryptonote_core/            *)
(* blockchain.cpp, the checkpoints that both must meet, and the hard fork   *)
(* object that follows the main chain.  m_blockchain_lock is held over a    *)
(* whole operation: its loops are steps of a job, so that a crash can come  *)
(* between any two of them.                                                 *)
EXTENDS HardFork

CONSTANTS
  None,
  Blocks,
  Genesis,
  Parent,       \* prev_id
  Work,         \* cumulative difficulty
  Bad,          \* blocks with a transaction whose inputs are wrong
  Flaky,        \* blocks with a transaction the pool may not have
  Announced,    \* the checkpoints that files and DNS may bring
  KeepAlts,     \* --keep-alt-blocks
  MaxPop        \* bound: blocks that one pop_blocks removes

ASSUME BlocksAssumption ==
  /\ Genesis \in Blocks
  /\ Announced \subseteq Blocks \ {Genesis}
  /\ Bad \union Flaky \subseteq Blocks \ {Genesis}
  /\ KeepAlts \in BOOLEAN

Elems(s) == {s[i] : i \in DOMAIN s}

(* The blocks from the genesis block to b, and the height of b.             *)
PathTo[b \in Blocks] ==
  IF b = Genesis THEN <<b>> ELSE Append(PathTo[Parent[b]], b)
Height[b \in Blocks] == Len(PathTo[b]) - 1
Heights == {Height[b] : b \in Blocks}

(* The blocks form a tree: the path to a block has one block of each height *)
(* and the parent of a block is one lower.                                  *)
ASSUME TreeAssumption ==
  \A b \in Blocks :
    /\ PathTo[b] \in Seq(Blocks) /\ PathTo[b] # <<>> /\ PathTo[b][Len(PathTo[b])] = b
    /\ \A i \in 1..Len(PathTo[b]) : Height[PathTo[b][i]] = i - 1
    /\ Height[b] = 0 <=> b = Genesis
    /\ b # Genesis => Parent[b] \in Blocks /\ Height[b] = Height[Parent[b]] + 1

(* Difficulties are positive: a block has more work behind it than its      *)
(* parent.                                                                  *)
ASSUME WorkAssumption ==
  \A b \in Blocks : /\ Work[b] \in Int
                    /\ b # Genesis => Work[Parent[b]] < Work[b]

(* The operations that take several steps: a switch to the chain `alt' that *)
(* leaves the chain `from' after its first `split' blocks, a check against  *)
(* the checkpoints at the heights `todo', and pop_blocks.                   *)
SwitchJobs ==
  [kind : {"pop", "connect", "undo", "restore", "push"}, alt : Seq(Blocks),
   k : Nat, old : Seq(Blocks), split : Nat, discard : BOOLEAN, from : Seq(Blocks)]
CheckJobs ==
  [kind : {"check", "rollback"}, todo : SUBSET Heights, height : Nat, target : Nat]
PopJobs == [kind : {"pops"}, target : Nat]

ASSUME NoneAssumption ==
  None \notin Blocks \union SwitchJobs \union CheckJobs \union PopJobs

VARIABLES
  main,         \* the blocks of the main chain
  alts,         \* alt_blocks of the database
  invalid,      \* m_invalid_blocks
  points,       \* m_checkpoints: the block demanded at a height, or None
  updating,     \* m_checkpoints_updating
  hf,           \* m_hardfork
  job,          \* the operation that holds the lock, or None
  disk          \* what the last committed batch left in the database

vars == <<main, alts, invalid, points, updating, hf, job, disk>>

Tip == main[Len(main)]
Idle == job = None
At(kind) == job # None /\ job.kind = kind
Database == [main |-> main, alts |-> alts, db |-> hf.db]
-----------------------------------------------------------------------------
check_block(height, b) == points[height] \in {None, b}

(* upper_bound(blockchain_height) is past the last checkpoint at or below   *)
(* blockchain_height, which is the height of the next block.                *)
is_alternative_block_allowed(blockchain_height, height) ==
  height # 0 /\ \A h \in Heights :
    (points[h] # None /\ h <= blockchain_height) => h < height

have_block(b) == b \in Elems(main) \union alts \union invalid

(* The chain of alternative blocks that ends in b, b included: it starts    *)
(* after the last block of its path, before b, that is no alternative one.  *)
root(b) == Greatest({i \in 1..Height[b] : PathTo[b][i] \notin alts})
alt_chain(b) == SubSeq(PathTo[b], root(b) + 1, Len(PathTo[b]))

(* build_alt_chain: the chain leaves the main chain, and not at its tip     *)
(* unless b itself is its first block.                                      *)
build_alt_chain(b) ==
  LET r == root(b)
  IN  /\ r <= Len(main) /\ main[r] = PathTo[b][r]
      /\ r < Height[b] => Len(main) > r

(* A faulty form: checkpoints are not looked at.                            *)
header_ok_no_checkpoint(b) == Parent[b] = Tip /\ check(hf, b)

(* What handle_block_to_main_chain demands before it takes transactions.    *)
header_ok(b) == Parent[b] = Tip /\ check(hf, b) /\ check_block(Len(main), b)

(* Everything handle_alternative_block demands of a block.                  *)
alternative_ok(b) ==
  /\ is_alternative_block_allowed(Len(main), Height[b])
  /\ check_for_height(hf, b, Height[b])
  /\ Parent[b] \in alts \union Elems(main)
  /\ build_alt_chain(b)
  /\ check_block(Height[b], b)
  /\ b \notin alts
-----------------------------------------------------------------------------
Init ==
  LET empty == [index |-> 1, versions |-> <<>>, db |-> [h \in Heights |-> 0]]
  IN  /\ main = <<Genesis>>
      /\ alts = {}
      /\ invalid = {}
      /\ points = [h \in Heights |-> None]
      /\ updating = FALSE
      /\ hf = add(empty, Genesis, 0)
      /\ job = None
      /\ disk = [main |-> main, alts |-> {}, db |-> hf.db]

Append_block(b) ==
  /\ main' = Append(main, b)
  /\ hf' = add(hf, b, Len(main))

Pop_block ==
  /\ main' = SubSeq(main, 1, Len(main) - 1)
  /\ hf' = on_block_popped(hf, Len(main) - 1)

(* add_new_block for a child of the tip.                                    *)
AddToMain(b) ==
  /\ Idle /\ ~have_block(b) /\ Parent[b] = Tip
  /\ header_ok(b) /\ b \notin Bad
  /\ Append_block(b)
  /\ UNCHANGED <<alts, invalid, points, updating, job, disk>>

(* The same for a block with wrong inputs, which is remembered.             *)
RefuseToMain(b) ==
  /\ Idle /\ ~have_block(b) /\ Parent[b] = Tip
  /\ header_ok(b) /\ b \in Bad
  /\ invalid' = invalid \union {b}
  /\ UNCHANGED <<main, alts, points, updating, hf, job, disk>>

(* A faulty form: equal work is enough.                                     *)
Switches_on_tie(b) == points[Height[b]] # None \/ Work[Tip] <= Work[b]

(* A checkpoint that is met, or more work than the main chain.              *)
Switches(b) == points[Height[b]] # None \/ Work[Tip] < Work[b]

Switch(b, discard) ==
  [kind |-> "pop", alt |-> alt_chain(b), k |-> 1, old |-> <<>>,
   split |-> root(b), discard |-> discard, from |-> main]

(* add_new_block for any other block: handle_alternative_block.             *)
AddAlternative(b) ==
  /\ Idle /\ ~have_block(b) /\ b # Genesis /\ Parent[b] # Tip
  /\ alternative_ok(b)
  /\ alts' = alts \union {b}
  /\ job' = IF Switches(b) THEN Switch(b, points[Height[b]] # None) ELSE None
  /\ UNCHANGED <<main, invalid, points, updating, hf, disk>>
-----------------------------------------------------------------------------
(* A faulty form: the popped blocks are kept in the order they are popped.  *)
PopOld_reversed ==
  /\ At("pop") /\ Len(main) > job.split
  /\ Pop_block
  /\ job' = [job EXCEPT !.old = Append(job.old, Tip)]
  /\ UNCHANGED <<alts, invalid, points, updating, disk>>

(* switch_to_alternative_blockchain: pop down to the parent of the chain.   *)
PopOld ==
  /\ At("pop") /\ Len(main) > job.split
  /\ Pop_block
  /\ job' = [job EXCEPT !.old = <<Tip>> \o job.old]
  /\ UNCHANGED <<alts, invalid, points, updating, disk>>

StartConnecting ==
  /\ At("pop") /\ Len(main) = job.split
  /\ job' = [job EXCEPT !.kind = "connect"]
  /\ UNCHANGED <<main, alts, invalid, points, updating, hf, disk>>

Connecting == At("connect") /\ job.k <= Len(job.alt)
Next_alt == job.alt[job.k]

ConnectAlt ==
  /\ Connecting
  /\ header_ok(Next_alt) /\ Next_alt \notin Bad
  /\ Append_block(Next_alt)
  /\ job' = [job EXCEPT !.k = job.k + 1]
  /\ UNCHANGED <<alts, invalid, points, updating, disk>>

(* A block of the chain is refused; one with wrong inputs is already        *)
(* remembered as invalid by handle_block_to_main_chain.                     *)
FailAlt ==
  /\ Connecting
  /\ ~header_ok(Next_alt) \/ Next_alt \in Bad \union Flaky
  /\ invalid' = IF header_ok(Next_alt) /\ Next_alt \in Bad
                THEN invalid \union {Next_alt} ELSE invalid
  /\ job' = [job EXCEPT !.kind = "undo"]
  /\ UNCHANGED <<main, alts, points, updating, hf, disk>>

(* rollback_blockchain_switching: pop what was connected, tell the hard     *)
(* fork object, add the old blocks again, tell it again.                    *)
UndoAlt ==
  /\ At("undo") /\ Len(main) > job.split
  /\ Pop_block
  /\ UNCHANGED <<alts, invalid, points, updating, job, disk>>

StartRestoring ==
  /\ At("undo") /\ Len(main) = job.split
  /\ hf' = reorganize_from_chain_height(hf, main, job.split)
  /\ job' = [job EXCEPT !.kind = "restore"]
  /\ UNCHANGED <<main, alts, invalid, points, updating, disk>>

RestoreOld ==
  /\ At("restore") /\ job.old # <<>>
  /\ header_ok(Head(job.old))
  /\ Append_block(Head(job.old))
  /\ job' = [job EXCEPT !.old = Tail(job.old)]
  /\ UNCHANGED <<alts, invalid, points, updating, disk>>

(* The refused block and those after it are marked invalid, whatever the    *)
(* reason was.  A block that cannot be added again ends the rollback, and   *)
(* nobody looks at its result.                                              *)
EndRestoring ==
  LET failed == {job.alt[i] : i \in job.k..Len(job.alt)}
  IN  /\ At("restore")
      /\ job.old # <<>> => ~header_ok(Head(job.old))
      /\ hf' = IF job.old = <<>> THEN reorganize_from_chain_height(hf, main, job.split)
               ELSE hf
      /\ invalid' = invalid \union failed
      /\ alts' = alts \ failed
      /\ job' = None
      /\ UNCHANGED <<main, points, updating, disk>>

(* The chain is connected.                                                  *)
StartPushing ==
  /\ At("connect") /\ job.k > Len(job.alt)
  /\ job' = [job EXCEPT !.kind = "push", !.old = IF job.discard THEN <<>> ELSE job.old]
  /\ UNCHANGED <<main, alts, invalid, points, updating, hf, disk>>

(* The old blocks go through handle_alternative_block one by one, and its   *)
(* result is ignored.  That it switches again is ruled out by               *)
(* NoNestedSwitch.                                                          *)
PushOld ==
  /\ At("push") /\ job.old # <<>>
  /\ alts' = IF alternative_ok(Head(job.old)) THEN alts \union {Head(job.old)} ELSE alts
  /\ job' = [job EXCEPT !.old = Tail(job.old)]
  /\ UNCHANGED <<main, invalid, points, updating, hf, disk>>

(* A faulty form: the connected blocks stay among the alternative ones.     *)
EndSwitch_keeps_alts ==
  /\ At("push") /\ job.old = <<>>
  /\ hf' = reorganize_from_chain_height(hf, main, job.split)
  /\ job' = None
  /\ UNCHANGED <<main, alts, invalid, points, updating, disk>>

EndSwitch ==
  /\ At("push") /\ job.old = <<>>
  /\ alts' = alts \ Elems(job.alt)
  /\ hf' = reorganize_from_chain_height(hf, main, job.split)
  /\ job' = None
  /\ UNCHANGED <<main, invalid, points, updating, disk>>
-----------------------------------------------------------------------------
(* core::update_checkpoints: load new checkpoints, none of which conflicts, *)
(* then check_against_checkpoints, which reads the height of the chain once.*)
UpdateCheckpoints(new) ==
  LET loaded == [h \in Heights |->
        IF \E b \in new : Height[b] = h THEN CHOOSE b \in new : Height[b] = h
        ELSE points[h]]
  IN  /\ Idle /\ ~updating
      /\ \A b \in new : loaded[Height[b]] = b /\ points[Height[b]] = None
      /\ points' = loaded
      /\ updating' = TRUE
      /\ job' = [kind |-> "check", todo |-> {h \in Heights : loaded[h] # None},
                 height |-> Len(main), target |-> 0]
      /\ UNCHANGED <<main, alts, invalid, hf, disk>>

Lowest == CHOOSE h \in job.todo : \A g \in job.todo : h <= g
Checking == At("check") /\ job.todo # {}

(* The checkpoint is above the chain, is met, or is so low that the height  *)
(* to go back to, Lowest - 2, wraps around.                                 *)
PassPoint ==
  /\ Checking
  /\ Lowest < job.height => /\ Lowest < Len(main)
                            /\ check_block(Lowest, main[Lowest + 1]) \/ Lowest < 2
  /\ job' = [job EXCEPT !.todo = job.todo \ {Lowest}]
  /\ UNCHANGED <<main, alts, invalid, points, updating, hf, disk>>

FailPoint ==
  /\ Checking
  /\ Lowest >= 2 /\ Lowest < job.height /\ Lowest < Len(main)
  /\ ~check_block(Lowest, main[Lowest + 1])
  /\ job' = [job EXCEPT !.kind = "rollback", !.target = Lowest - 2]
  /\ UNCHANGED <<main, alts, invalid, points, updating, hf, disk>>

RollbackPop ==
  /\ At("rollback") /\ Len(main) > job.target /\ Len(main) > 1
  /\ Pop_block
  /\ UNCHANGED <<alts, invalid, points, updating, job, disk>>

EndRollback ==
  /\ At("rollback") /\ Len(main) = job.target
  /\ hf' = reorganize_from_chain_height(hf, main, job.target)
  /\ job' = [job EXCEPT !.kind = "check", !.todo = job.todo \ {Lowest}]
  /\ UNCHANGED <<main, alts, invalid, points, updating, disk>>

(* The block of a later checkpoint was popped by the rollback for an        *)
(* earlier one, or the genesis block would have to be popped: the exception *)
(* leaves m_checkpoints_updating set.                                       *)
CheckThrows ==
  /\ \/ Checking /\ Lowest < job.height /\ Lowest >= Len(main)
     \/ At("rollback") /\ job.target = 0 /\ Len(main) = 1
  /\ job' = None
  /\ UNCHANGED <<main, alts, invalid, points, updating, hf, disk>>

EndCheck ==
  /\ At("check") /\ job.todo = {}
  /\ updating' = FALSE
  /\ job' = None
  /\ UNCHANGED <<main, alts, invalid, points, hf, disk>>
-----------------------------------------------------------------------------
(* pop_blocks, which never pops the genesis block.                          *)
PopBlocks(n) ==
  /\ Idle /\ n < Len(main)
  /\ job' = [kind |-> "pops", target |-> Len(main) - n]
  /\ UNCHANGED <<main, alts, invalid, points, updating, hf, disk>>

PopOne ==
  /\ At("pops")
  /\ Pop_block
  /\ job' = IF Len(main) - 1 = job.target THEN None ELSE job
  /\ UNCHANGED <<alts, invalid, points, updating, disk>>

(* The batch that holds the last operations is committed.                   *)
Commit ==
  /\ Idle /\ disk # Database
  /\ disk' = Database
  /\ UNCHANGED <<main, alts, invalid, points, updating, hf, job>>

(* The process ends, at any point, and starts from the database.            *)
Restart ==
  LET kept == IF KeepAlts THEN disk.alts ELSE {}
  IN  /\ main' = disk.main
      /\ alts' = kept
      /\ invalid' = {}
      /\ points' = [h \in Heights |-> None]
      /\ updating' = FALSE
      /\ hf' = init(disk.db, disk.main)
      /\ job' = None
      /\ disk' = [disk EXCEPT !.alts = kept]

Next ==
  \/ \E b \in Blocks : AddToMain(b) \/ RefuseToMain(b) \/ AddAlternative(b)
  \/ PopOld \/ StartConnecting \/ ConnectAlt \/ FailAlt
  \/ UndoAlt \/ StartRestoring \/ RestoreOld \/ EndRestoring
  \/ StartPushing \/ PushOld \/ EndSwitch
  \/ \E new \in SUBSET Announced \ {{}} : UpdateCheckpoints(new)
  \/ PassPoint \/ FailPoint \/ RollbackPop \/ EndRollback \/ CheckThrows \/ EndCheck
  \/ \E n \in 1..MaxPop : PopBlocks(n)
  \/ PopOne \/ Commit \/ Restart

Spec == Init /\ [][Next]_vars
-----------------------------------------------------------------------------
(* With no threshold, as in the tables of all three networks, the version   *)
(* in force is the one scheduled for the next block at every moment: popping*)
(* blocks, switching, failing to switch and restarting never leave          *)
(* current_fork_index at a fork of another height.                          *)
CurrentIsScheduled ==
  hf.index = Greatest({n \in ForkIndexes : Len(main) >= Forks[n].height})

(* Outside check_against_checkpoints no block of the main chain contradicts *)
(* a checkpoint; below height 2 the rollback does nothing.                  *)
CheckpointsEnforced ==
  ~(At("check") \/ At("rollback")) =>
    \A h \in 2..(Len(main) - 1) : check_block(h, main[h + 1])

(* Between operations no block is stored as an alternative one, or known as *)
(* invalid, and in the main chain as well, and none is both.                *)
BlockHasOnePlace ==
  Idle => /\ Elems(main) \cap (alts \union invalid) = {}
          /\ alts \cap invalid = {}

(* A switch that pushes the old blocks back as alternative ones never       *)
(* starts another switch from there: handle_alternative_block does not      *)
(* recurse.                                                                 *)
NoNestedSwitch ==
  (At("push") /\ job.old # <<>> /\ alternative_ok(Head(job.old)))
    => ~Switches(Head(job.old))

(* Seen from outside the lock the node keeps what Ledger promises: a switch *)
(* happens as a whole or not at all, and a failed one gives back the chain  *)
(* it started from.                                                         *)
visible ==
  IF job # None /\ job.kind \in {"pop", "connect", "undo", "restore", "push"}
  THEN job.from ELSE main

L == INSTANCE Ledger WITH chain <- visible, stored <- disk.main,
  asked <- At("pops") \/ At("rollback")

KeepsLedger == L!Spec
=============================================================================
