------------------------------- MODULE TxPool -------------------------------
(***************************************************************************)
(* cryptonote_core/tx_pool.cpp: the pool of transactions that are not in a *)
(* block, under the calls of core, Blockchain and the relaying code.       *)
(*                                                                         *)
(* The pool is kept in two places: the metadata of each transaction in the *)
(* database, which batches commit or abort, and containers in memory: the  *)
(* transactions that spend each key image, the entries sorted by fee rate, *)
(* the total weight, the transactions that timed out, the cache of input   *)
(* checks.  The methods of tx_memory_pool are functions from a pool to a   *)
(* pool.  All of them run under m_transactions_lock and m_blockchain_lock. *)
(***************************************************************************)
EXTENDS Integers, Sequences, FiniteSets, FiniteSetsExt

CONSTANTS
  Txs,                \* transactions that pass the checks on their own text
  KeyImages,
  Vin,                \* the key images of a transaction, in input order
  RingOf,             \* the transactions whose outputs its rings refer to
  Weight, Rate,       \* its weight and its fee per byte
  IdOrder,            \* the order of the ids, which is that of the database
  MinRate,            \* check_fee
  MaxPoolWeight,      \* m_txpool_max_weight
  MaxTemplateWeight,  \* max_total_weight of fill_block_template
  EntryMethods,       \* how transactions get here: relay methods
  HiddenZone,         \* whether an anonymity network is configured
  Bodies, Nonces,     \* the transactions of a block, in order; what else it holds
  StorageFails,       \* whether add_block of the database may throw on its own
  Declines,           \* bound: what the reward rule may keep out of a template
  MaxHeight,          \* bound: blocks on top of the genesis block
  MaxRelaying,        \* bound: notifications of relaying under way
  MaxEntries,         \* bound: sorted entries of one transaction
  MaxDrift,           \* bound: error of the weight at which storage fails no more
  None

Methods == {"none", "local", "block", "flood"}

Elems(s) == {s[i] : i \in DOMAIN s}

Images(t) == Elems(Vin[t])

Conflict(t, u) == Images(t) \cap Images(u) # {}

ASSUME TxAssumption ==
  /\ Vin \in [Txs -> Seq(KeyImages)]
  /\ RingOf \in [Txs -> SUBSET Txs]
  /\ Weight \in [Txs -> Nat \ {0}]
  /\ Rate \in [Txs -> Nat]
  /\ IdOrder \in [Txs -> Nat]
  /\ \A t, u \in Txs : t # u => Rate[t] # Rate[u] /\ IdOrder[t] # IdOrder[u]

ASSUME EntryAssumption ==
  /\ EntryMethods \subseteq Methods
  /\ HiddenZone \in BOOLEAN
  /\ None \notin Txs

ASSUME BodiesAssumption ==
  /\ Bodies \subseteq Seq(Txs)
  /\ StorageFails \in BOOLEAN
-----------------------------------------------------------------------------
(* txpool_tx_meta_t: the relay method, the height of the newest ring member *)
(* once the inputs have passed (max_used_block), the block the tip was at   *)
(* when they last failed (last_failed), double_spend_seen.  A block is      *)
(* identified by the chain that ends with it.                               *)
Block == [txs : Bodies, nonce : Nonces]

Meta == [method : Methods, used : Nat \cup {None},
         failed : Seq(Block) \cup {None}, seen : BOOLEAN]

(* What m_input_cache keeps of a check.                                     *)
Verdict == [ok : BOOLEAN, used : Nat \cup {None}]

(* meta is the txpool tables of the database; entries counts the entries    *)
(* of a transaction in m_txs_by_fee_and_receive_time, highest rate first;   *)
(* cookie says whether m_cookie has moved.                                  *)
Pool == [meta      : [Txs -> Meta \cup {None}],
         images    : [KeyImages -> SUBSET Txs],
         entries   : [Txs -> Nat],
         weight    : Int,
         timed_out : SUBSET Txs,
         cache     : [Txs -> Verdict \cup {None}],
         cookie    : BOOLEAN]

EmptyPool == [meta      |-> [t \in Txs |-> None],
              images    |-> [k \in KeyImages |-> {}],
              entries   |-> [t \in Txs |-> 0],
              weight    |-> 0,
              timed_out |-> {},
              cache     |-> [t \in Txs |-> None],
              cookie    |-> FALSE]

InPool(m) == {t \in Txs : m[t] # None}

total_weight == [S \in SUBSET Txs |-> MapThenSumSet(LAMBDA t : Weight[t], S)]

Total(S) == total_weight[S]

(* matches_category for the categories legacy and broadcasted.              *)
legacy(m, t) == m[t] # None /\ m[t].method # "local"

broadcasted(m, t) == m[t] # None /\ m[t].method \in {"block", "flood"}
-----------------------------------------------------------------------------
(* The chain, as the pool sees it.                                          *)
on_chain(ch) == UNION {Elems(ch[i].txs) : i \in DOMAIN ch}

(* Blockchain::have_tx_keyimges_as_spent.                                   *)
spent_on_chain(ch, t) == \E u \in on_chain(ch) : Conflict(t, u)

(* Blockchain::check_tx_inputs: no key image is spent, every ring member    *)
(* exists.                                                                  *)
inputs_ok(ch, t) == ~spent_on_chain(ch, t) /\ RingOf[t] \subseteq on_chain(ch)

(* max_used_block_height.                                                   *)
used_height(ch, t) ==
  LET hs == {h \in DOMAIN ch : Elems(ch[h].txs) \cap RingOf[t] # {}}
  IN  IF hs = {} THEN 0 ELSE CHOOSE h \in hs : \A g \in hs : g <= h

(* check_tx_inputs of the pool, for a caller that has used so far: what it  *)
(* returns, by itself or from m_input_cache.                                *)
fresh_verdict(ch, t, used) ==
  IF inputs_ok(ch, t) THEN [ok |-> TRUE, used |-> used_height(ch, t)]
  ELSE [ok |-> FALSE, used |-> IF used = None THEN None ELSE 0]

check_tx_inputs(p, ch, t, used, kept_by_block) ==
  IF kept_by_block \/ p.cache[t] = None THEN fresh_verdict(ch, t, used)
  ELSE p.cache[t]
-----------------------------------------------------------------------------
(* have_tx_keyimges_as_spent, of the pool.                                  *)
have_tx_keyimges_as_spent(p, t) ==
  \E k \in Images(t) : \E u \in p.images[k] : broadcasted(p.meta, u)

(* mark_double_spend.                                                       *)
mark_double_spend(p, t) ==
  LET marked == {u \in InPool(p.meta) : /\ \E k \in Images(t) : u \in p.images[k]
                                        /\ ~p.meta[u].seen}
  IN  [p EXCEPT !.meta = [u \in Txs |-> IF u \in marked
                                         THEN [p.meta[u] EXCEPT !.seen = TRUE]
                                         ELSE p.meta[u]],
                !.cookie = @ \/ marked # {}]

(* insert_key_images stops at the first input it refuses, and leaves what   *)
(* it has inserted.                                                         *)
refused_inputs(p, t, method) ==
  {i \in DOMAIN Vin[t] :
     LET ids == p.images[Vin[t][i]]
     IN  \/ method # "block" /\ \E u \in ids : legacy(p.meta, u)
         \/ t \in ids /\ legacy(p.meta, t)}

insert_key_images(p, t, method) ==
  LET bad  == refused_inputs(p, t, method)
      done == {i \in DOMAIN Vin[t] : \A j \in bad : i < j}
  IN  [p EXCEPT !.images = [k \in KeyImages |->
                              IF \E i \in done : Vin[t][i] = k
                              THEN p.images[k] \cup {t} ELSE p.images[k]],
                !.cookie = @ \/ bad = {}]

(* Faulty: forgets the image, not the transaction under it.                 *)
remove_transaction_keyimages_whole(p, S) ==
  [p EXCEPT !.images = [k \in KeyImages |->
                          IF p.images[k] \cap S # {} THEN {} ELSE p.images[k]],
            !.cookie = @ \/ S # {}]

(* Faulty: m_cookie does not move.                                          *)
remove_transaction_keyimages_no_cookie(p, S) ==
  [p EXCEPT !.images = [k \in KeyImages |-> p.images[k] \ S]]

(* remove_transaction_keyimages, for each of the transactions S: it stops   *)
(* at the first image under which it does not find the transaction.         *)
remove_transaction_keyimages(p, S) ==
  LET removed(t) == {i \in DOMAIN Vin[t] : \A j \in 1..i : t \in p.images[Vin[t][j]]}
  IN  [p EXCEPT !.images = [k \in KeyImages |->
                  p.images[k] \ {t \in S : \E i \in removed(t) : Vin[t][i] = k}],
                !.cookie = @ \/ S # {}]

(* Out of the database, of the weight and of the key images.                *)
drop_txs(p, S) ==
  remove_transaction_keyimages(
    [p EXCEPT !.meta = [t \in Txs |-> IF t \in S THEN None ELSE p.meta[t]],
              !.weight = @ - Total(S)], S)

(* The first sorted entry of each of the transactions S is erased.          *)
erase_entries(p, S) ==
  [p EXCEPT !.entries = [t \in Txs |-> IF t \in S /\ p.entries[t] > 0
                                        THEN p.entries[t] - 1 ELSE p.entries[t]]]
-----------------------------------------------------------------------------
(* prune walks the entries from the lowest rate up to, and not including,   *)
(* the first, and stops when the weight fits or at an entry that has no     *)
(* metadata, its own second entry included: it then returns without         *)
(* lock.commit(), and the removals in the database are undone unless the    *)
(* batch is the caller's.                                                   *)
prunable(p, S) == {t \in S : p.meta[t] # None /\ p.meta[t].method # "block"}

prune(p, in_batch) ==
  LET listed   == {t \in Txs : p.entries[t] > 0}
      below(t) == {u \in listed : Rate[u] < Rate[t]}
      top      == CHOOSE t \in listed : \A u \in listed : Rate[u] <= Rate[t]
      left(t)  == p.weight - Total(prunable(p, below(t)))
      twice(t) == prunable(p, {t}) # {} /\ p.entries[t] > 1
      ends     == {t \in listed : \/ t = top
                                  \/ p.meta[t] = None
                                  \/ twice(t)
                                  \/ left(t) <= MaxPoolWeight}
      end      == CHOOSE t \in ends : \A u \in ends : Rate[t] <= Rate[u]
      over     == left(end) > MaxPoolWeight
      removed  == prunable(p, below(end))
                    \cup (IF over /\ twice(end) THEN {end} ELSE {})
      rest     == p.entries[end] - (IF end \in removed THEN 1 ELSE 0)
      ghost    == /\ over
                  /\ p.meta[end] = None \/ twice(end)
                  /\ p.weight - Total(removed) > MaxPoolWeight
                  /\ ~(end = top /\ rest = 1)
      pruned   == erase_entries(drop_txs(p, removed), removed)
  IN  IF listed = {} \/ p.weight <= MaxPoolWeight THEN p
      ELSE IF ghost /\ ~in_batch THEN [pruned EXCEPT !.meta = p.meta]
      ELSE pruned

(* Faulty: prunes before the transaction is there.                          *)
store_tx_prunes_first(p, t, m, in_batch) ==
  [prune(p, in_batch) EXCEPT !.meta[t] = m, !.entries[t] = @ + 1,
                             !.weight = @ + Weight[t], !.cookie = TRUE]

(* The end of add_tx when the transaction is accepted.                      *)
store_tx(p, t, m, in_batch) ==
  prune([p EXCEPT !.meta[t] = m, !.entries[t] = @ + 1, !.weight = @ + Weight[t],
                  !.cookie = TRUE], in_batch)

(* add_tx with inputs that pass: a transaction that is in the database is   *)
(* replaced; the removal is undone when a key image is refused.             *)
add_checked(p, t, method, v, in_batch) ==
  LET out == [p EXCEPT !.meta[t] = None]
      ins == insert_key_images(out, t, method)
  IN  IF refused_inputs(out, t, method) # {}
      THEN [ins EXCEPT !.meta = p.meta]
      ELSE store_tx(ins, t, [method |-> method, used |-> v.used, failed |-> None,
                             seen |-> FALSE], in_batch)

(* add_tx with inputs that fail, for a transaction of a block: the database *)
(* throws if it has the transaction already.                                *)
add_unchecked(p, t, in_batch) ==
  LET ins == insert_key_images(p, t, "block")
  IN  IF refused_inputs(p, t, "block") # {} \/ p.meta[t] # None
      THEN ins
      ELSE store_tx(ins, t, [method |-> "block", used |-> None, failed |-> None,
                             seen |-> have_tx_keyimges_as_spent(p, t)], in_batch)

add_tx(p, ch, t, method, in_batch) ==
  LET kept == method = "block"
      v    == check_tx_inputs(p, ch, t, None, kept)
      seen == IF kept THEN p ELSE [p EXCEPT !.cache[t] = v]
  IN  IF ~kept /\ (t \in p.timed_out \/ Rate[t] < MinRate) THEN p
      ELSE IF ~kept /\ have_tx_keyimges_as_spent(p, t) THEN mark_double_spend(p, t)
      ELSE IF v.ok THEN add_checked(seen, t, method, v, in_batch)
      ELSE IF kept THEN add_unchecked(seen, t, in_batch)
      ELSE seen

(* Whether add_tx accepts a transaction that is not of a block.             *)
accepts(p, ch, t, method) ==
  /\ t \notin p.timed_out /\ Rate[t] >= MinRate
  /\ ~have_tx_keyimges_as_spent(p, t)
  /\ check_tx_inputs(p, ch, t, None, FALSE).ok
  /\ refused_inputs([p EXCEPT !.meta[t] = None], t, method) = {}

(* Faulty: leaves the sorted entry, leaves the transaction in the database. *)
take_tx_keeps_entry(p, t) == drop_txs(p, {t})

(* take_tx of a transaction the database has.                               *)
take_tx(p, t) == erase_entries(drop_txs(p, {t}), {t})

(* remove_stuck_transactions, when the transactions S are too old.          *)
remove_stuck_transactions(p, S) ==
  [drop_txs(erase_entries(p, S), S) EXCEPT !.timed_out = @ \cup S]

(* set_relayed.                                                             *)
set_relayed(p, S, method) ==
  [p EXCEPT !.meta = [t \in Txs |-> IF t \in S \cap InPool(p.meta)
                                     THEN [p.meta[t] EXCEPT !.method = method]
                                     ELSE p.meta[t]]]

(* on_blockchain_inc and on_blockchain_dec.                                 *)
on_blockchain_change(p) == [p EXCEPT !.cache = [t \in Txs |-> None]]
-----------------------------------------------------------------------------
(* is_transaction_ready_to_go.  known_bad: the block that was the tip when  *)
(* the inputs last failed is still in the chain.                            *)
known_bad(m, ch) ==
  /\ m.failed # None
  /\ Len(m.failed) <= Len(ch)
  /\ SubSeq(ch, 1, Len(m.failed)) = m.failed

checked_again(p, ch, t) ==
  LET m == p.meta[t]
  IN  ~known_bad(m, ch) /\ (m.used = None \/ m.used <= Len(ch))

verdict_on(p, ch, t) == check_tx_inputs(p, ch, t, p.meta[t].used, FALSE)

is_transaction_ready_to_go(p, ch, t) ==
  checked_again(p, ch, t) /\ verdict_on(p, ch, t).ok /\ ~spent_on_chain(ch, t)

(* The metadata afterwards.                                                 *)
meta_after_check(p, ch, t) ==
  LET v == verdict_on(p, ch, t)
  IN  IF ~checked_again(p, ch, t) THEN p.meta[t]
      ELSE [p.meta[t] EXCEPT !.used = v.used,
                             !.failed = IF v.ok THEN @ ELSE ch,
                             !.seen = @ \/ (v.ok /\ spent_on_chain(ch, t))]

(* fill_block_template goes through the entries from the highest rate down: *)
(* it considers what still fits and is not declined for the reward, and     *)
(* adds what is ready and does not spend a key image twice.                 *)
above(t) == {u \in Txs : Rate[u] > Rate[t]}

considered(p, added, declined) ==
  {t \in InPool(p.meta) \ declined :
     /\ p.entries[t] > 0
     /\ Total(added \cap above(t)) + Weight[t] <= MaxTemplateWeight}

is_template(p, ch, added, declined) ==
  added = {t \in considered(p, added, declined) :
             /\ is_transaction_ready_to_go(p, ch, t)
             /\ \A u \in added \cap above(t) : ~Conflict(t, u)}

(* The pool after the transactions S have been considered.                  *)
after_considering(p, ch, S) ==
  LET looked == {t \in S : checked_again(p, ch, t)}
  IN  [p EXCEPT !.meta = [t \in Txs |-> IF t \in S THEN meta_after_check(p, ch, t)
                                         ELSE p.meta[t]],
                !.cache = [t \in Txs |-> IF t \in looked THEN verdict_on(p, ch, t)
                                          ELSE p.cache[t]]]

(* Entries that are left over when their transaction has gone.              *)
ghosts(p) == {t \in Txs : p.entries[t] > 0 /\ p.meta[t] = None}

(* init: what is in the database is loaded, what is not kept by a block     *)
(* first, in the order of the ids, and refused if it spends the key image   *)
(* of a visible transaction that has been loaded.                           *)
init_rejects(m) ==
  \E t, u \in InPool(m) :
    /\ m[t].method # "block" /\ m[u].method # "block"
    /\ IdOrder[u] < IdOrder[t] /\ Conflict(t, u) /\ legacy(m, u)

init(m) ==
  [EmptyPool EXCEPT
     !.meta    = m,
     !.images  = [k \in KeyImages |-> {t \in InPool(m) : k \in Images(t)}],
     !.entries = [t \in Txs |-> IF t \in InPool(m) THEN 1 ELSE 0],
     !.weight  = Total(InPool(m))]

(* validate: what the chain has is dropped.                                 *)
validate(p, ch) ==
  LET S == InPool(p.meta) \cap on_chain(ch)
  IN  erase_entries(drop_txs([p EXCEPT !.weight = Total(InPool(p.meta))], S), S)
-----------------------------------------------------------------------------
VARIABLES
  pool,
  chain,       \* the blocks on top of the genesis block
  batch,       \* what the database goes back to unless the batch of incoming
               \* blocks, or of pop_blocks, commits, and m_batch_success;
               \* None: no batch
  job,         \* what the thread that has the batch is in the middle of
  relaying,    \* transactions handed to send_txs, with the relay method that
               \* on_transactions_relayed will report
  template     \* the cached block template, while create_block_template would
               \* serve it: m_btc_valid, m_cookie and the tip have not moved

vars == <<pool, chain, batch, job, relaying, template>>

(* kind: "add", taking the transactions of a block (txs: those taken);      *)
(* "return", giving them back, and "pop", giving back those of a popped     *)
(* block (txs: those left).                                                 *)
Jobs == [kind : {"add", "return", "pop"}, block : Block \cup {None},
         txs : Seq(Txs)]

Init ==
  /\ pool = EmptyPool
  /\ chain = <<>>
  /\ batch = None
  /\ job = None
  /\ relaying = {}
  /\ template = None

(* Who has a batch holds the pool lock: nobody else gets at the pool.       *)
Unlocked == batch = None /\ job = None

(* The end of an operation on the pool.                                     *)
Update(p) ==
  /\ pool' = [p EXCEPT !.cookie = FALSE]
  /\ template' = IF p.cookie THEN None ELSE template

Job(kind, block, txs) == [kind |-> kind, block |-> block, txs |-> txs]

Stored == [meta |-> pool.meta, chain |-> chain, success |-> TRUE]

(* prepare_handle_incoming_blocks, pop_blocks: the locks and the batch.     *)
BeginBatch ==
  /\ Unlocked
  /\ batch' = Stored
  /\ UNCHANGED <<pool, chain, job, relaying, template>>

(* cleanup_handle_incoming_blocks, the end of pop_blocks.                   *)
EndBatch ==
  /\ batch # None
  /\ batch.success
  /\ job = None
  /\ batch' = None
  /\ UNCHANGED <<pool, chain, job, relaying, template>>

(* batch_abort brings the database back, and nothing else.                  *)
AbortBatch ==
  /\ batch # None
  /\ ~batch.success
  /\ job = None
  /\ pool' = [pool EXCEPT !.meta = batch.meta]
  /\ chain' = batch.chain
  /\ batch' = None
  /\ UNCHANGED <<job, relaying, template>>

(* send_txs: what comes from the public network, or is public, is sent over *)
(* it; the rest over an anonymity network if there is one.                  *)
sent(t, method) ==
  [tx |-> t, method |-> IF method = "local" /\ HiddenZone THEN "local" ELSE "flood"]

(* Faulty: does not ask the chain whether it has the transaction.           *)
HandleIncomingTx_no_have_tx(t, method) ==
  /\ job = None
  /\ batch # None => method = "block"
  /\ ~legacy(pool.meta, t)
  /\ pool.entries[t] < MaxEntries
  /\ Update(add_tx(pool, chain, t, method, batch # None))
  /\ UNCHANGED <<chain, batch, job, relaying>>

(* handle_incoming_txs, add_new_tx and, for what is to be relayed, the      *)
(* caller's relay_transactions.                                             *)
HandleIncomingTx(t, method) ==
  /\ job = None
  /\ batch # None => method = "block"
  /\ ~legacy(pool.meta, t)
  /\ t \notin on_chain(chain)
  /\ pool.entries[t] < MaxEntries
  /\ Update(add_tx(pool, chain, t, method, batch # None))
  /\ relaying' = IF /\ method \in {"local", "flood"}
                    /\ accepts(pool, chain, t, method)
                    /\ Cardinality(relaying) < MaxRelaying
                 THEN relaying \cup {sent(t, method)} ELSE relaying
  /\ UNCHANGED <<chain, batch, job>>

(* relay_txpool_transactions: get_relayable_transactions, send_txs.         *)
RelayAgain(t) ==
  /\ Unlocked
  /\ Cardinality(relaying) < MaxRelaying
  /\ pool.meta[t] # None
  /\ pool.meta[t].method # "none"
  /\ relaying' = relaying \cup {sent(t, pool.meta[t].method)}
  /\ UNCHANGED <<pool, chain, batch, job, template>>

(* on_transactions_relayed.                                                 *)
OnTransactionsRelayed(r) ==
  /\ Unlocked
  /\ Update(set_relayed(pool, {r.tx}, r.method))
  /\ relaying' = relaying \ {r}
  /\ UNCHANGED <<chain, batch, job>>

(* on_idle, when the transactions S have outlived their time.               *)
RemoveStuckTransactions(S) ==
  /\ Unlocked
  /\ Update(remove_stuck_transactions(pool, S))
  /\ UNCHANGED <<chain, batch, job, relaying>>

(* create_block_template, when the cache does not serve.                    *)
CreateBlockTemplate(added, declined) ==
  /\ Unlocked
  /\ template = None
  /\ is_template(pool, chain, added, declined)
  /\ pool' = after_considering(pool, chain, considered(pool, added, declined))
  /\ template' = added
  /\ UNCHANGED <<chain, batch, job, relaying>>

(* The metadata read for a left-over entry t is not initialised: it may     *)
(* pass for that of a transaction, and the database then throws, after what *)
(* has a higher rate has been considered and its updates aborted.           *)
CreateBlockTemplateThrows(t, added, declined) ==
  /\ Unlocked
  /\ template = None
  /\ t \in ghosts(pool)
  /\ is_template(pool, chain, added, declined)
  /\ pool' = [after_considering(pool, chain,
                                considered(pool, added, declined) \cap above(t))
                EXCEPT !.meta = pool.meta]
  /\ UNCHANGED <<chain, batch, job, relaying, template>>
-----------------------------------------------------------------------------
(* handle_block_to_main_chain takes the transactions of a block one by one. *)
StartBlock(b) ==
  /\ batch # None
  /\ job = None
  /\ Len(chain) < MaxHeight
  /\ job' = Job("add", b, <<>>)
  /\ UNCHANGED <<pool, chain, batch, relaying, template>>

At(kind) == job # None /\ job.kind = kind

next_tx == job.block.txs[Len(job.txs) + 1]

Taking == At("add") /\ Len(job.txs) < Len(job.block.txs)

TakeTx ==
  /\ Taking
  /\ next_tx \notin on_chain(chain)
  /\ pool.meta[next_tx] # None
  /\ Update(take_tx(pool, next_tx))
  /\ job' = Job(IF inputs_ok(chain, next_tx) THEN "add" ELSE "return",
                job.block, Append(job.txs, next_tx))
  /\ UNCHANGED <<chain, batch, relaying>>

(* A transaction that the chain has or that the pool does not have.         *)
RefuseBlock ==
  /\ Taking
  /\ next_tx \in on_chain(chain) \/ pool.meta[next_tx] = None
  /\ job' = Job("return", job.block, job.txs)
  /\ UNCHANGED <<pool, chain, batch, relaying, template>>

(* The miner transaction is checked last.                                   *)
RefuseMinerTx ==
  /\ At("add") /\ ~Taking
  /\ job' = Job("return", job.block, job.txs)
  /\ UNCHANGED <<pool, chain, batch, relaying, template>>

(* The database refuses a block that spends a key image twice.              *)
spends_twice(txs) ==
  \E i, j \in DOMAIN txs : i # j /\ Conflict(txs[i], txs[j])

AddBlockThrows ==
  /\ At("add") /\ ~Taking
  /\ spends_twice(job.block.txs) \/ StorageFails
  /\ pool.weight - Total(InPool(pool.meta)) \in -MaxDrift..MaxDrift
  /\ batch' = [batch EXCEPT !.success = FALSE]
  /\ job' = Job("return", job.block, job.txs)
  /\ UNCHANGED <<pool, chain, relaying, template>>

AddBlock ==
  /\ At("add") /\ ~Taking
  /\ ~spends_twice(job.block.txs)
  /\ chain' = Append(chain, job.block)
  /\ pool' = on_blockchain_change(pool)
  /\ template' = None
  /\ job' = None
  /\ UNCHANGED <<batch, relaying>>

(* return_tx_to_pool, and the loop of pop_block_from_blockchain.            *)
ReturnTx ==
  /\ At("return") \/ At("pop")
  /\ job.txs # <<>>
  /\ Update(add_tx(pool, chain, Head(job.txs), "block", TRUE))
  /\ job' = Job(job.kind, job.block, Tail(job.txs))
  /\ UNCHANGED <<chain, batch, relaying>>

EndReturn ==
  /\ At("return") /\ job.txs = <<>>
  /\ job' = None
  /\ UNCHANGED <<pool, chain, batch, relaying, template>>

(* pop_block_from_blockchain, of pop_blocks or of a reorganisation.         *)
PopBlock ==
  /\ batch # None
  /\ job = None
  /\ chain # <<>>
  /\ chain' = SubSeq(chain, 1, Len(chain) - 1)
  /\ job' = Job("pop", None, chain[Len(chain)].txs)
  /\ template' = None
  /\ UNCHANGED <<pool, batch, relaying>>

EndPop ==
  /\ At("pop") /\ job.txs = <<>>
  /\ pool' = on_blockchain_change(pool)
  /\ job' = None
  /\ UNCHANGED <<chain, batch, relaying, template>>
-----------------------------------------------------------------------------
(* The process ends, in the middle of a batch or not, and starts again,     *)
(* unless init rejects the pool: then it ends again, however often it is    *)
(* started.                                                                 *)
Restart ==
  LET db == IF batch = None THEN Stored ELSE batch
  IN  /\ ~init_rejects(db.meta)
      /\ pool' = [validate(init(db.meta), db.chain) EXCEPT !.cookie = FALSE]
      /\ chain' = db.chain
      /\ batch' = None
      /\ job' = None
      /\ relaying' = {}
      /\ template' = None

Next ==
  \/ \E t \in Txs :
       \/ \E method \in EntryMethods : HandleIncomingTx(t, method)
       \/ RelayAgain(t)
       \/ \E added \in SUBSET Txs, declined \in Declines :
            CreateBlockTemplateThrows(t, added, declined)
  \/ \E r \in relaying : OnTransactionsRelayed(r)
  \/ \E S \in SUBSET InPool(pool.meta) \ {{}} : RemoveStuckTransactions(S)
  \/ \E added \in SUBSET Txs, declined \in Declines : CreateBlockTemplate(added, declined)
  \/ BeginBatch
  \/ EndBatch
  \/ AbortBatch
  \/ \E b \in Block : StartBlock(b)
  \/ TakeTx
  \/ RefuseBlock
  \/ RefuseMinerTx
  \/ AddBlock
  \/ AddBlockThrows
  \/ ReturnTx
  \/ EndReturn
  \/ PopBlock
  \/ EndPop
  \/ Restart

Spec == Init /\ [][Next]_vars
-----------------------------------------------------------------------------
(* Every transaction in the database is found under each of its key images: *)
(* m_spent_key_images misses none, so that have_tx_keyimges_as_spent and    *)
(* insert_key_images see every conflict.                                    *)
KeyImageIndex ==
  \A t \in InPool(pool.meta) : \A k \in Images(t) : t \in pool.images[k]

(* A transaction has one entry in m_txs_by_fee_and_receive_time when the    *)
(* database has it and none otherwise, and get_txpool_weight is their total *)
(* weight: prune and fill_block_template meet no entry without metadata,    *)
(* miss no transaction, and prune knows when to stop.                       *)
BooksAgree ==
  /\ \A t \in Txs : pool.entries[t] = IF t \in InPool(pool.meta) THEN 1 ELSE 0
  /\ pool.weight = Total(InPool(pool.meta))

(* No transaction is both in the pool and in the chain, nor in the pool     *)
(* while a block that has taken it is being added.                          *)
PoolAndChainDisjoint ==
  /\ InPool(pool.meta) \cap on_chain(chain) = {}
  /\ job # None => InPool(pool.meta) \cap Elems(job.txs) = {}

(* A block template that create_block_template would serve, from its cache  *)
(* too, holds transactions that are still in the pool, that would pass      *)
(* check_tx_inputs on the present chain, and of which no two spend one key  *)
(* image: neither m_input_cache nor m_cookie nor last_failed lets a stale   *)
(* one through.                                                             *)
TemplateSound ==
  template # None =>
    /\ template \subseteq InPool(pool.meta)
    /\ \A t \in template : inputs_ok(chain, t)
    /\ \A t, u \in template : t # u => ~Conflict(t, u)
    /\ Total(template) <= MaxTemplateWeight

(* When a transaction has been added, prune has brought the weight back to  *)
(* the limit unless all that is left was kept by a block or has the highest *)
(* rate.                                                                    *)
PrunedToFit ==
  [][\A t \in Txs, method \in EntryMethods :
       (HandleIncomingTx(t, method) /\ pool'.entries[t] > pool.entries[t])
       => \/ pool'.weight <= MaxPoolWeight
          \/ \A u \in InPool(pool'.meta) :
               \/ pool'.meta[u].method = "block"
               \/ \A w \in InPool(pool'.meta) : Rate[w] <= Rate[u]]_vars

(* init loads what is not kept by a block first, to avoid rejection due to  *)
(* a key image collision: it rejects no pool that the node can have stored. *)
PoolReloads ==
  ~init_rejects(pool.meta)
=============================================================================
