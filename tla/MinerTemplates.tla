--------------------------- MODULE MinerTemplates ---------------------------
(* cryptonote_basic/miner.cpp while it mines: the template, the workers that *)
(* copy it, and the threads that ask the core for a new one.  MinerThreads   *)
(* has how the workers are made and stopped.                                 *)
EXTENDS Naturals

CONSTANTS
  None,
  Workers,
  MaxTip        \* bound on the blocks that are added to the chain

ASSUME TemplatesAssumption == MaxTip \in Nat

VARIABLES
  tip,              \* the chain, as far as a template shows it
  m_template,       \* the tip that the template builds on
  m_pausers_count,
  at,               \* where each worker is
  b,                \* the template that each worker works on
  current,          \* the workers whose local_template_ver is m_template_no
  got,              \* request_block_template: the template that the core gave
  chain,            \* the thread that adds the blocks of peers
  idle              \* the thread that calls on_idle

vars == <<tip, m_template, m_pausers_count, at, b, current, got, chain, idle>>

(* start has asked for a template, and that may have failed.                *)
Init ==
  /\ tip = 0
  /\ m_template \in {None, 0}
  /\ m_pausers_count = 0
  /\ at = [w \in Workers |-> "loop"]
  /\ b = [w \in Workers |-> None]
  /\ current = IF m_template = None THEN Workers ELSE {}
  /\ got = [worker |-> [w \in Workers |-> None], chain |-> None, idle |-> None]
  /\ chain = "rest" /\ idle = "rest"
-----------------------------------------------------------------------------
(* Faulty: m_template_no stays as it is when the template is replaced.      *)
set_block_template_same_no(t) ==
  /\ m_template' = t
  /\ current' = IF m_template = None THEN {} ELSE current

(* The new m_template_no is nobody's local one.                             *)
set_block_template(t) ==
  /\ m_template' = t
  /\ current' = {}

pause == m_pausers_count' = m_pausers_count + 1

(* One resume too many is reported and has no effect.                       *)
resume == m_pausers_count' = IF m_pausers_count = 0 THEN 0 ELSE m_pausers_count - 1

Goto(w, where) == at' = [at EXCEPT ![w] = where]

(* worker_thread: it sleeps while the miner is paused, and copies the       *)
(* template with m_template_lock held if its number is not the local one.   *)
Loop(w) ==
  /\ at[w] = "loop"
  /\ m_pausers_count = 0
  /\ IF w \in current
     THEN Goto(w, IF b[w] = None THEN "loop" ELSE "hash") /\ UNCHANGED b
     ELSE Goto(w, "copied") /\ b' = [b EXCEPT ![w] = m_template]
  /\ UNCHANGED <<tip, m_template, m_pausers_count, current, got, chain, idle>>

(* The number is read after m_template_lock is released.                    *)
ReadTemplateNo(w) ==
  /\ at[w] = "copied"
  /\ current' = current \union {w}
  /\ Goto(w, "hash")
  /\ UNCHANGED <<tip, m_template, m_pausers_count, b, got, chain, idle>>

(* A hash that does not meet the difficulty.                                *)
Hash(w) ==
  /\ at[w] = "hash"
  /\ Goto(w, "loop")
  /\ UNCHANGED <<tip, m_template, m_pausers_count, b, current, got, chain, idle>>

(* One that does: core::handle_block_found pauses the miner.                *)
Found(w) ==
  /\ at[w] = "hash"
  /\ Goto(w, "found")
  /\ pause
  /\ UNCHANGED <<tip, m_template, b, current, got, chain, idle>>

(* Transactions of the block are gone from the pool, or                     *)
(* prepare_handle_incoming_blocks fails: the block is not tried.            *)
FoundNotTried(w) ==
  /\ at[w] = "found"
  /\ resume
  /\ Goto(w, "loop")
  /\ UNCHANGED <<tip, m_template, b, current, got, chain, idle>>

(* It is added if it builds on the tip, and a new template is asked for     *)
(* whether it is added or not.                                              *)
FoundAdded(w) ==
  /\ at[w] = "found"
  /\ tip' = IF b[w] = tip /\ tip < MaxTip THEN tip + 1 ELSE tip
  /\ Goto(w, "added")
  /\ UNCHANGED <<m_template, m_pausers_count, b, current, got, chain, idle>>

FoundRequests(w) ==
  /\ at[w] = "added"
  /\ got' = [got EXCEPT !.worker[w] = tip]
  /\ Goto(w, "requested")
  /\ UNCHANGED <<tip, m_template, m_pausers_count, b, current, chain, idle>>

FoundSets(w) ==
  /\ at[w] = "requested"
  /\ set_block_template(got.worker[w])
  /\ got' = [got EXCEPT !.worker[w] = None]
  /\ resume
  /\ Goto(w, "loop")
  /\ UNCHANGED <<tip, b, chain, idle>>
-----------------------------------------------------------------------------
(* A handler of the protocol adds blocks: it pauses the miner, adds them,   *)
(* asks for a new template unless they came from the block queue, resumes.  *)
ChainPauses ==
  /\ chain = "rest"
  /\ tip < MaxTip
  /\ chain' = "paused"
  /\ pause
  /\ UNCHANGED <<tip, m_template, at, b, current, got, idle>>

ChainAdds ==
  /\ chain = "paused"
  /\ tip < MaxTip
  /\ tip' = tip + 1
  /\ chain' = "added"
  /\ UNCHANGED <<m_template, m_pausers_count, at, b, current, got, idle>>

(* on_block_chain_update.                                                   *)
ChainRequests ==
  /\ chain = "added"
  /\ got' = [got EXCEPT !.chain = tip]
  /\ chain' = "requested"
  /\ UNCHANGED <<tip, m_template, m_pausers_count, at, b, current, idle>>

ChainSets ==
  /\ chain = "requested"
  /\ set_block_template(got.chain)
  /\ got' = [got EXCEPT !.chain = None]
  /\ chain' = "rest"
  /\ resume
  /\ UNCHANGED <<tip, at, b, idle>>

(* The block is refused, or came from the block queue.                      *)
ChainResumes ==
  /\ chain \in {"paused", "added"}
  /\ chain' = "rest"
  /\ resume
  /\ UNCHANGED <<tip, m_template, at, b, current, got, idle>>

(* on_idle.                                                                 *)
IdleRequests ==
  /\ idle = "rest"
  /\ got' = [got EXCEPT !.idle = tip]
  /\ idle' = "requested"
  /\ UNCHANGED <<tip, m_template, m_pausers_count, at, b, current, chain>>

IdleSets ==
  /\ idle = "requested"
  /\ set_block_template(got.idle)
  /\ got' = [got EXCEPT !.idle = None]
  /\ idle' = "rest"
  /\ UNCHANGED <<tip, m_pausers_count, at, b, chain>>
-----------------------------------------------------------------------------
Mines(w) == Loop(w) \/ ReadTemplateNo(w) \/ Hash(w) \/ Found(w)
FoundBlock(w) == FoundNotTried(w) \/ FoundAdded(w) \/ FoundRequests(w) \/ FoundSets(w)
AddsBlocks == ChainAdds \/ ChainRequests \/ ChainSets \/ ChainResumes
on_idle == IdleRequests \/ IdleSets

Next ==
  \/ \E w \in Workers : Mines(w) \/ FoundBlock(w)
  \/ ChainPauses \/ AddsBlocks \/ on_idle

(* Each thread goes on, and the miner is paused only for as long as a block *)
(* takes: a worker that sleeps sees it running again.  Solutions are rare:  *)
(* a worker that hashes again and again also fails.                         *)
Fairness ==
  /\ \A w \in Workers : SF_vars(Mines(w)) /\ WF_vars(FoundBlock(w)) /\ SF_vars(Hash(w))
  /\ WF_vars(AddsBlocks) /\ WF_vars(on_idle)

Spec == Init /\ [][Next]_vars /\ Fairness
-----------------------------------------------------------------------------
(* Every worker comes to mine on the tip of the chain and stays there until *)
(* the chain changes, although it may take the number of a later template   *)
(* than the one it has copied, and an older template may be set after a     *)
(* newer one.                                                               *)
MinesTheTip ==
  /\ \A w \in Workers : []<>(at[w] = "hash")
  /\ <>[](\A w \in Workers : at[w] = "hash" => b[w] = tip)
=============================================================================
