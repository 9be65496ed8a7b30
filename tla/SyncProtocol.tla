---------------------------- MODULE SyncProtocol ----------------------------
(***************************************************************************)
(* cryptonote_protocol/cryptonote_protocol_handler.inl: how a node that is *)
(* behind downloads the chain.  The messages and callbacks of a connection *)
(* run one after the other, those of two connections at the same time: a   *)
(* handler is cut into steps where it lets go of the queue's mutex or of   *)
(* m_sync_lock.  The block queue is the one of BlockQueue, whose methods   *)
(* are used as they are.                                                   *)
(*                                                                         *)
(* The peers are not pruned (the stripes are the subject of BlockQueue and *)
(* Pruning).  Times are abstracted: a request that is never answered may   *)
(* be found overdue.  Heights count from 1, the height of the genesis.     *)
(***************************************************************************)
EXTENDS Naturals, Sequences, FiniteSets, SequencesExt

CONSTANTS
  Connections, Chain, MaxBlocks, None,       \* as in BlockQueue
  STRIPE_SIZE, LOG_STRIPES, TIP_BLOCKS,      \* as in Pruning
  Genesis,            \* the first block of every chain
  Invalid,            \* the blocks that fail verification
  Slow,               \* the peers that may answer late, never, or leave
  MaxIds,             \* BLOCKS_IDS_SYNCHRONIZING_DEFAULT_COUNT
  MaxSpans,           \* BLOCK_QUEUE_NSPANS_THRESHOLD
  MaxQueued,          \* BLOCK_QUEUE_SIZE_THRESHOLD, in blocks
  NearBlocks,         \* BLOCK_QUEUE_FORCE_DOWNLOAD_NEAR_BLOCKS
  MaxReplies          \* bound: an idle peer is kicked with fewer unanswered
                      \* requests than this

VARIABLES
  q,                  \* m_block_queue
  status,             \* "new", "live", "closing" (dropped) or "dead"
  ctx,                \* the cryptonote_connection_context of each connection
  replies,            \* the answers the peer has yet to send, in order
  run,                \* where each connection's handler is
  lock,               \* the connection whose handler holds m_sync_lock
  picked,             \* the span it is adding
  chain,              \* the core: the blocks it has and the top of its chain
  target,             \* the core's target height
  synced,             \* m_synchronized
  late                \* the first span has been scheduled for too long

vars == <<q, status, ctx, replies, run, lock, picked, chain, target, synced, late>>

BQ == INSTANCE BlockQueue
        WITH PeerSeed <- [c \in Connections |-> 0], LocalSeed <- 0,
             sync_pruned <- FALSE, asked <- <<>>, snapshot <- None

ASSUME SyncAssumption ==
  /\ \A c \in Connections : Chain[c] # <<>> /\ Chain[c][1] = Genesis
  /\ Slow \subseteq Connections
  /\ \A n \in {MaxIds, MaxSpans, MaxQueued, NearBlocks, MaxReplies} : n \in Nat \ {0}

Elems(s) == {s[i] : i \in DOMAIN s}

Present == {c \in Connections : status[c] \in {"live", "closing"}}

Context == [state : {"before", "synchronizing", "standby", "normal"},
            needed : Seq(BQ!Hashes), lrh : Nat, remote : Nat,
            known : BQ!Hashes \cup {None}, asked : SUBSET BQ!Hashes,
            waiting : BOOLEAN, callbacks : Nat]

NewContext == [state |-> "before", needed |-> <<>>, lrh |-> 0, remote |-> 0,
               known |-> None, asked |-> {}, waiting |-> FALSE, callbacks |-> 0]

(* at is the next step; force is force_next_span; entry tells a handler of  *)
(* a chain entry, which raises the target when it returns.                  *)
Run == [at : {"idle", "try", "add", "request", "ask", "more"},
        force : BOOLEAN, entry : BOOLEAN]

Idle == [at |-> "idle", force |-> FALSE, entry |-> FALSE]

At(step, force) == [at |-> step, force |-> force, entry |-> FALSE]

Reply == [ids : {0}, blocks : Seq(BQ!Hashes)] \cup [ids : Nat \ {0}, blocks : {<<>>}]

Init ==
  /\ q = BQ!EmptyQueue
  /\ status = [c \in Connections |-> "new"]
  /\ ctx = [c \in Connections |-> NewContext]
  /\ replies = [c \in Connections |-> <<>>]
  /\ run = [c \in Connections |-> Idle]
  /\ lock = None
  /\ picked = None
  /\ chain = [have |-> {Genesis}, tip |-> Genesis]
  /\ target = 0
  /\ synced = FALSE
  /\ late = FALSE
-----------------------------------------------------------------------------
(* The core.                                                                *)

(* get_current_blockchain_height.                                           *)
height == BQ!Height[chain.tip] + 1

Minimum(a, b) == IF a < b THEN a ELSE b

Maximum(a, b) == IF a < b THEN b ELSE a

(* A hash commits to the chain below it.                                    *)
chain_of(h) ==
  SubSeq(Chain[CHOOSE c \in Connections : h \in Elems(Chain[c])], 1, BQ!Height[h])

prev_id(h) == chain_of(h)[BQ!Height[h] - 1]

(* handle_incoming_block on valid blocks in order: the longer chain wins.   *)
added(hs) ==
  [have |-> chain.have \cup Elems(hs),
   tip  |-> IF hs # <<>> /\ BQ!Height[Last(hs)] > BQ!Height[chain.tip]
            THEN Last(hs) ELSE chain.tip]

(* The peer's answer to NOTIFY_REQUEST_CHAIN: the ids of its chain from the *)
(* first block of the request that it has.                                  *)
supplement(c, known) ==
  LET shared == Elems(chain_of(chain.tip)) \cap Elems(Chain[c])
  IN  IF known # None /\ known \in Elems(Chain[c])
      THEN BQ!Height[known]
      ELSE CHOOSE n \in {BQ!Height[h] : h \in shared} :
             \A h \in shared : BQ!Height[h] <= n
-----------------------------------------------------------------------------
(* Steps on part of the state.                                              *)

(* A new value of the queue: the time of a new first span is a new time.    *)
SetQueue(Q) ==
  /\ q' = Q
  /\ late' = /\ late
             /\ Q.blocks # {}
             /\ BQ!first_span(Q.blocks) = BQ!first_span(q.blocks)

Ask(c, ids, blocks) ==
  replies' = [replies EXCEPT ![c] = Append(@, [ids |-> ids, blocks |-> blocks])]

Goto(c, r) == run' = [run EXCEPT ![c] = r]

(* The handler returns; that of a chain entry raises the target.            *)
Return(c) ==
  /\ Goto(c, Idle)
  /\ target' = IF run[c].entry THEN Maximum(target, ctx[c].remote) ELSE target

(* drop_connection by the connection's own handler.                         *)
DropSelf(c) ==
  /\ SetQueue(BQ!flush_spans(q, c, FALSE))
  /\ status' = [status EXCEPT ![c] = "closing"]
  /\ Goto(c, Idle)

callback_requested(k) == [k EXCEPT !.callbacks = @ + 1]
-----------------------------------------------------------------------------
(* skip_unneeded_hashes.                                                    *)
skip_unneeded_hashes(k, check_block_queue) ==
  LET unneeded(h) == h \in chain.have \/ (check_block_queue /\ h \in q.have)
      skip == CHOOSE n \in 0..Len(k.needed) :
                /\ \A i \in 1..n : unneeded(k.needed[i])
                /\ n = Len(k.needed) \/ ~unneeded(k.needed[n + 1])
  IN  [k EXCEPT !.needed = SubSeq(@, skip + 1, Len(@)),
                !.known  = IF skip > 0 /\ skip = Len(k.needed)
                           THEN Last(k.needed) ELSE @]

(* has_next_span, with filled.                                              *)
has_next_span(Q) == Q.blocks # {} /\ BQ!first_span(Q.blocks).start <= height

next_span_filled(Q) == has_next_span(Q) /\ BQ!Filled(BQ!first_span(Q.blocks))

(* should_download_next_span; early: the connection is in standby, and its  *)
(* peer is faster than the one that has the span or that one has stalled.   *)
should_download_next_span(Q, k, early) ==
  /\ k.remote > height
  /\ has_next_span(Q) => (~next_span_filled(Q) /\ (late \/ early))
-----------------------------------------------------------------------------
(* Connecting and the timed sync.                                           *)

(* process_payload_sync_data, at the handshake and then with each timed     *)
(* sync.  A timed sync finds no callback still pending.                     *)
process_payload_sync_data(c) ==
  LET k       == [ctx[c] EXCEPT !.remote = Len(Chain[c]) + 1]
      initial == status[c] = "new"
      goal    == IF target = 0 THEN height ELSE target
  IN  /\ status[c] \in {"new", "live"}
      /\ run[c] = Idle
      /\ k.state # "synchronizing"
      /\ k.callbacks = 0
      /\ status' = [status EXCEPT ![c] = "live"]
      /\ IF Last(Chain[c]) \in chain.have
         THEN /\ ctx' = [ctx EXCEPT ![c] = [k EXCEPT !.state = "normal"]]
              /\ synced' = (synced \/ (initial /\ goal = height))
              /\ UNCHANGED target
         ELSE /\ ctx' = [ctx EXCEPT ![c] =
                           callback_requested([k EXCEPT !.state = "synchronizing"])]
              /\ target' = IF k.remote > goal THEN k.remote ELSE target
              /\ UNCHANGED synced
      /\ UNCHANGED <<q, replies, run, lock, picked, chain, late>>

(* on_callback.                                                             *)
on_callback(c) ==
  LET k == [ctx[c] EXCEPT !.callbacks = @ - 1]
  IN  /\ status[c] = "live"
      /\ run[c] = Idle
      /\ ctx[c].callbacks > 0
      /\ CASE k.state = "synchronizing" ->
                /\ ctx' = [ctx EXCEPT ![c] = [k EXCEPT !.needed = <<>>]]
                /\ Ask(c, supplement(c, None), <<>>)
                /\ UNCHANGED run
           [] k.state = "standby" ->
                /\ ctx' = [ctx EXCEPT ![c] = [k EXCEPT !.state = "synchronizing"]]
                /\ Goto(c, At("try", FALSE))
                /\ UNCHANGED replies
           [] OTHER ->
                /\ ctx' = [ctx EXCEPT ![c] = k]
                /\ UNCHANGED <<run, replies>>
      /\ UNCHANGED <<q, status, lock, picked, chain, target, synced, late>>

(* Faulty: the spans the connection had reserved stay in the queue.         *)
on_connection_close_keeps_spans(c) ==
  /\ status[c] = "closing" \/ (status[c] = "live" /\ c \in Slow)
  /\ run[c] = Idle
  /\ status' = [status EXCEPT ![c] = "dead"]
  /\ ctx' = [ctx EXCEPT ![c] = NewContext]
  /\ replies' = [replies EXCEPT ![c] = <<>>]
  /\ UNCHANGED <<q, run, lock, picked, chain, target, synced, late>>

(* on_connection_close: the target comes down to that of the peers left.    *)
on_connection_close(c) ==
  LET others == {d \in Present \ {c} : ctx[d].state # "before"}
      left   == {ctx[d].remote : d \in others} \cup {0}
      most   == CHOOSE n \in left : \A m \in left : m <= n
  IN  /\ status[c] = "closing" \/ (status[c] = "live" /\ c \in Slow)
      /\ run[c] = Idle
      /\ status' = [status EXCEPT ![c] = "dead"]
      /\ target' = IF most < target THEN most ELSE target
      /\ SetQueue(BQ!flush_spans(q, c, FALSE))
      /\ ctx' = [ctx EXCEPT ![c] = NewContext]
      /\ replies' = [replies EXCEPT ![c] = <<>>]
      /\ UNCHANGED <<run, lock, picked, chain, synced>>
-----------------------------------------------------------------------------
(* The answers of the peers.                                                *)

Answered(c) ==
  /\ status[c] = "live"
  /\ run[c] = Idle
  /\ replies[c] # <<>>
  /\ replies' = [replies EXCEPT ![c] = Tail(@)]

(* Faulty: m_last_response_height is one past the last id.                  *)
handle_response_chain_entry_past_end(c) ==
  LET start == Head(replies[c]).ids
      ids   == SubSeq(Chain[c], start, Minimum(start + MaxIds - 1, Len(Chain[c])))
  IN  /\ Answered(c)
      /\ start > 0
      /\ ctx' = [ctx EXCEPT ![c] =
                   [@ EXCEPT !.waiting = FALSE, !.remote = Len(Chain[c]) + 1,
                             !.lrh = start + Len(ids), !.needed = ids]]
      /\ Goto(c, [at |-> "request", force |-> FALSE, entry |-> TRUE])
      /\ UNCHANGED <<q, status, lock, picked, chain, target, synced, late>>

(* handle_response_chain_entry.                                             *)
handle_response_chain_entry(c) ==
  LET start == Head(replies[c]).ids
      ids   == SubSeq(Chain[c], start, Minimum(start + MaxIds - 1, Len(Chain[c])))
  IN  /\ Answered(c)
      /\ start > 0
      /\ ctx' = [ctx EXCEPT ![c] =
                   [@ EXCEPT !.waiting = FALSE, !.remote = Len(Chain[c]) + 1,
                             !.lrh = start + Len(ids) - 1, !.needed = ids]]
      /\ Goto(c, [at |-> "request", force |-> FALSE, entry |-> TRUE])
      /\ UNCHANGED <<q, status, lock, picked, chain, target, synced, late>>

(* Faulty: what was delivered stays requested.                              *)
received_keeps_asked(c, blocks) ==
  [ctx[c] EXCEPT !.waiting = FALSE, !.remote = Len(Chain[c]) + 1,
                 !.known = Last(blocks)]

(* The context once the blocks requested have arrived.                      *)
received(c, blocks) ==
  [ctx[c] EXCEPT !.waiting = FALSE, !.asked = {}, !.remote = Len(Chain[c]) + 1,
                 !.known = Last(blocks)]

(* handle_response_get_objects: the blocks must be all those requested and  *)
(* not delivered yet, and no others.                                        *)
handle_response_get_objects(c) ==
  LET blocks == Head(replies[c]).blocks
      sent   == Elems(blocks) \cap Elems(Chain[c])
  IN  /\ Answered(c)
      /\ blocks # <<>>
      /\ IF sent = ctx[c].asked
         THEN /\ SetQueue(BQ!add_filled(q, BQ!Height[Head(blocks)], blocks, c))
              /\ ctx' = [ctx EXCEPT ![c] = received(c, blocks)]
              /\ target' = Maximum(target, Len(Chain[c]) + 1)
              /\ Goto(c, At("try", FALSE))
              /\ UNCHANGED status
         ELSE /\ DropSelf(c)
              /\ ctx' = [ctx EXCEPT ![c].waiting = FALSE]
              /\ UNCHANGED target
      /\ UNCHANGED <<lock, picked, chain, synced>>
-----------------------------------------------------------------------------
(* try_add_next_blocks.                                                     *)

(* Faulty: a handler that does not get m_sync_lock leaves it at that.       *)
try_add_next_blocks_gives_up(c) ==
  /\ run[c].at = "try"
  /\ IF lock = None
     THEN lock' = c /\ Goto(c, At("add", FALSE))
     ELSE UNCHANGED lock /\ Goto(c, Idle)
  /\ UNCHANGED <<q, status, ctx, replies, picked, chain, target, synced, late>>

(* m_sync_lock is taken, or another handler is adding blocks.               *)
try_add_next_blocks(c) ==
  /\ run[c].at = "try"
  /\ IF lock = None
     THEN lock' = c /\ Goto(c, At("add", FALSE))
     ELSE UNCHANGED lock /\ Goto(c, At("request", FALSE))
  /\ UNCHANGED <<q, status, ctx, replies, picked, chain, target, synced, late>>

Adding(c) == run[c].at = "add" /\ picked = None

old_span(s) == Last(s.blocks) \in chain.have

(* The next span is old, or follows the chain.                              *)
PickSpan(c) ==
  LET s == BQ!get_next_span(q)
  IN  /\ Adding(c)
      /\ BQ!filled_spans(q) # {}
      /\ old_span(s) \/ prev_id(Head(s.blocks)) \in chain.have
      /\ picked' = s
      /\ UNCHANGED <<q, status, ctx, replies, run, lock, chain, target, synced, late>>

(* The loop ends: no span has blocks, or the parent of the next one is      *)
(* requested; or the parent is not requested, and block hashes are asked    *)
(* for again if the span is at the height of the chain.  m_sync_lock is     *)
(* released.                                                                *)
StopAdding(c) ==
  LET s       == BQ!get_next_span(q)
      none    == BQ!filled_spans(q) = {}
      prev    == prev_id(Head(s.blocks))
      waits   == none \/ prev \in q.requested
      forgets == ~waits /\ s.start <= height
  IN  /\ Adding(c)
      /\ ~none => (~old_span(s) /\ prev \notin chain.have)
      /\ lock' = None
      /\ Goto(c, At("request", waits /\ should_download_next_span(q, ctx[c], FALSE)))
      /\ IF forgets
         THEN /\ SetQueue(BQ!remove_spans(q, s.conn, s.start))
              /\ ctx' = [ctx EXCEPT ![c] = [@ EXCEPT !.needed = <<>>, !.lrh = 0]]
         ELSE UNCHANGED <<q, ctx, late>>
      /\ UNCHANGED <<status, replies, picked, chain, target, synced>>

(* notify_new_stripe, when the height has moved to another stripe: every    *)
(* other connection that had nothing to do is woken.                        *)
notify_new_stripe(c, reached) ==
  LET stripe(h) == BQ!get_pruning_stripe(h, target, LOG_STRIPES)
  IN  ctx' = IF stripe(reached) = stripe(height)
             THEN ctx
             ELSE [d \in Connections |->
                     IF d # c /\ d \in Present /\ ctx[d].state = "normal"
                     THEN callback_requested([ctx[d] EXCEPT !.state = "synchronizing"])
                     ELSE ctx[d]]

(* The span is removed, once its blocks are in the core if it is not old.   *)
RemoveOldSpan(c) ==
  /\ run[c].at = "add"
  /\ picked # None
  /\ old_span(picked)
  /\ SetQueue(BQ!remove_spans(q, picked.conn, picked.start))
  /\ picked' = None
  /\ UNCHANGED <<status, ctx, replies, run, lock, chain, target, synced>>

AddSpan(c) ==
  /\ run[c].at = "add"
  /\ picked # None
  /\ ~old_span(picked)
  /\ Elems(picked.blocks) \cap Invalid = {}
  /\ chain' = added(picked.blocks)
  /\ notify_new_stripe(c, BQ!Height[added(picked.blocks).tip] + 1)
  /\ SetQueue(BQ!remove_spans(q, picked.conn, picked.start))
  /\ picked' = None
  /\ UNCHANGED <<status, replies, run, lock, target, synced>>

(* A block fails: the connection the span came from is dropped with all its *)
(* spans, if it is still there, and the handler returns.                    *)
RejectSpan(c) ==
  LET good == SelectSeq(picked.blocks, LAMBDA h : Elems(chain_of(h)) \cap Invalid = {})
      Q    == IF picked.conn \in Present THEN BQ!flush_spans(q, picked.conn, TRUE) ELSE q
  IN  /\ run[c].at = "add"
      /\ picked # None
      /\ Elems(picked.blocks) \cap Invalid # {}
      /\ chain' = added(good)
      /\ status' = IF picked.conn \in Present
                   THEN [status EXCEPT ![picked.conn] = "closing"] ELSE status
      /\ SetQueue(BQ!remove_spans(Q, picked.conn, picked.start))
      /\ picked' = None
      /\ lock' = None
      /\ Goto(c, Idle)
      /\ UNCHANGED <<ctx, replies, target, synced>>
-----------------------------------------------------------------------------
(* request_missing_objects.                                                 *)

(* queue_proceed: the queue is not full.                                    *)
queue_proceed(Q) ==
  LET filled == BQ!filled_spans(Q)
  IN  \/ Cardinality(filled) < MaxSpans
      \/ Cardinality(UNION {Elems(s.blocks) : s \in filled}) < MaxQueued

(* stripe_proceed_main, for a peer that is not pruned.                      *)
near_the_tip(Q, k) ==
  LET next_needed_height == BQ!get_next_needed_height(Q, height)
      next_block_height  == IF k.needed = <<>> THEN next_needed_height
                            ELSE k.lrh + 1 - Len(k.needed)
  IN  \/ next_block_height < height + NearBlocks
      \/ next_needed_height < height + NearBlocks

(* The first part: stale spans are flushed; a connection with nothing near  *)
(* the tip to ask for pauses while the queue is full.  When no handler is   *)
(* adding blocks and the next span is there, the connection resumes at      *)
(* once; when it is not there and nothing has been added for long, the      *)
(* connection is dropped.                                                   *)
request_missing_objects(c, early, wedged) ==
  LET Q    == BQ!flush_stale_spans(q, Present)
      k    == skip_unneeded_hashes(ctx[c], TRUE)
      main == near_the_tip(Q, k)
      next == main /\ should_download_next_span(Q, k, early)
      proceed == main \/ queue_proceed(Q)
      unlocked == lock = None
      resume   == unlocked /\ next_span_filled(Q)
      drop     == unlocked /\ ~resume /\ wedged
      to(state) == [k EXCEPT !.state = state]
  IN  /\ run[c].at = "request"
      /\ IF run[c].force
         THEN /\ SetQueue(Q)
              /\ Goto(c, [run[c] EXCEPT !.at = "ask"])
              /\ UNCHANGED <<status, ctx, target>>
         ELSE IF proceed
         THEN /\ SetQueue(Q)
              /\ ctx' = [ctx EXCEPT ![c] = to("synchronizing")]
              /\ Goto(c, [run[c] EXCEPT !.at = "ask", !.force = next])
              /\ UNCHANGED <<status, target>>
         ELSE IF drop
         THEN /\ DropSelf(c)
              /\ ctx' = [ctx EXCEPT ![c] = k]
              /\ UNCHANGED target
         ELSE /\ SetQueue(Q)
              /\ ctx' = [ctx EXCEPT ![c] = IF resume THEN callback_requested(to("standby"))
                                          ELSE to("standby")]
              /\ Return(c)
              /\ UNCHANGED status
      /\ UNCHANGED <<replies, lock, picked, chain, synced>>

asking(k, hs) ==
  [k EXCEPT !.asked = @ \cup Elems(hs), !.waiting = TRUE]

(* The second part: blocks are asked for, those of the first span if it is  *)
(* scheduled and forced, else those of a new span, else those of the first  *)
(* span after all.                                                          *)
RequestObjects(c) ==
  LET force  == run[c].force
      first  == BQ!first_span(q.blocks).hashes
      forced == force /\ BQ!next_is_scheduled(q)
      k      == IF forced THEN ctx[c] ELSE skip_unneeded_hashes(ctx[c], FALSE)
      base   == k.lrh + 1 - Len(k.needed)
      r      == BQ!reserve_span(q, base, k.lrh, MaxBlocks, c, FALSE, k.remote, k.needed)
      rest   == SubSeq(k.needed, r.start - base + 1, Len(k.needed))
      span   == SubSeq(rest, 1, r.len)
      corner == ~force /\ BQ!next_is_scheduled(q)
  IN  /\ run[c].at = "ask"
      /\ CASE ~force /\ ctx[c].needed = <<>> ->
                /\ Goto(c, [run[c] EXCEPT !.at = "more"])
                /\ UNCHANGED <<q, ctx, replies, target, late>>
           [] forced ->
                /\ ctx' = [ctx EXCEPT ![c] = asking(k, first)]
                /\ Ask(c, 0, first)
                /\ late' = FALSE
                /\ Return(c)
                /\ UNCHANGED q
           [] ~forced /\ (force \/ ctx[c].needed # <<>>) /\ r.len > 0 ->
                /\ SetQueue(r.queue)
                /\ ctx' = [ctx EXCEPT ![c] =
                             [asking(k, span) EXCEPT !.needed = SubSeq(rest, r.len + 1, Len(rest))]]
                /\ Ask(c, 0, span)
                /\ Return(c)
           [] corner /\ ctx[c].needed # <<>> /\ r.len = 0 ->
                /\ ctx' = [ctx EXCEPT ![c] =
                             [asking(k, first) EXCEPT
                                !.needed = SelectSeq(@, LAMBDA h : h \notin Elems(first))]]
                /\ Ask(c, 0, first)
                /\ Return(c)
                /\ UNCHANGED <<q, late>>
           [] OTHER ->
                /\ ctx' = [ctx EXCEPT ![c] = k]
                /\ Goto(c, [run[c] EXCEPT !.at = "more"])
                /\ UNCHANGED <<q, replies, target, late>>
      /\ UNCHANGED <<status, lock, picked, chain, synced>>

(* Faulty: the height of the chain is not looked at.                        *)
reaches_target_by_peer(k) == k.remote >= target

(* The node is synchronized: the peer is among the highest, and the chain   *)
(* has reached it.                                                          *)
reaches_target(k) == k.remote >= target /\ height >= target

(* The third part: more block hashes are asked for, or there is nothing     *)
(* left to ask this peer.  The handler would rather add blocks first, but   *)
(* the argument that tells get_next_span to return any span is also the     *)
(* flag it tests, so that it never does.                                    *)
RequestChain(c) ==
  LET k == [ctx[c] EXCEPT !.needed = <<>>]
  IN  /\ run[c].at = "more"
      /\ CASE k.lrh < k.remote - 1 ->
                /\ ctx' = [ctx EXCEPT ![c] = [k EXCEPT !.waiting = TRUE]]
                /\ Ask(c, supplement(c, k.known), <<>>)
                /\ Return(c)
                /\ UNCHANGED <<q, status, synced, late>>
           [] k.lrh = k.remote - 1 /\ k.asked = {} ->
                /\ ctx' = [ctx EXCEPT ![c] = [k EXCEPT !.state = "normal"]]
                /\ synced' = (synced \/ reaches_target(k))
                /\ Return(c)
                /\ UNCHANGED <<q, status, replies, late>>
           [] OTHER ->
                /\ DropSelf(c)
                /\ ctx' = [ctx EXCEPT ![c] = k]
                /\ UNCHANGED <<replies, target, synced>>
      /\ UNCHANGED <<lock, picked, chain>>
-----------------------------------------------------------------------------
(* on_idle.                                                                 *)

(* kick_idle_peers: a peer has not answered for IDLE_PEER_KICK_TIME.        *)
kick_idle_peers(c) ==
  /\ c \in Slow
  /\ status[c] = "live"
  /\ ctx[c].state = "synchronizing"
  /\ ctx[c].waiting
  /\ Len(replies[c]) < MaxReplies
  /\ ctx' = [ctx EXCEPT ![c] =
               callback_requested([@ EXCEPT !.waiting = FALSE, !.state = "standby"])]
  /\ UNCHANGED <<q, status, replies, run, lock, picked, chain, target, synced, late>>

(* check_standby_peers; it finds no callback still pending.                 *)
check_standby_peers(c) ==
  /\ status[c] = "live"
  /\ ctx[c].state = "standby"
  /\ ctx[c].callbacks = 0
  /\ ctx' = [ctx EXCEPT ![c] = callback_requested(@)]
  /\ UNCHANGED <<q, status, replies, run, lock, picked, chain, target, synced, late>>

(* The first span has been scheduled for REQUEST_NEXT_SCHEDULED_SPAN_-      *)
(* THRESHOLD.                                                               *)
SpanIsLate ==
  /\ ~late
  /\ BQ!next_is_scheduled(q)
  /\ late' = TRUE
  /\ UNCHANGED <<q, status, ctx, replies, run, lock, picked, chain, target, synced>>

Handle(c) ==
  \/ try_add_next_blocks(c)
  \/ RemoveOldSpan(c)
  \/ PickSpan(c)
  \/ AddSpan(c)
  \/ RejectSpan(c)
  \/ StopAdding(c)
  \/ \E early, wedged \in BOOLEAN : request_missing_objects(c, early, wedged)
  \/ RequestObjects(c)
  \/ RequestChain(c)

(* A step of Handle(c), told by what it changes; one is possible whenever   *)
(* the handler is not idle.                                                 *)
Moves(c) ==
  \/ run[c] # Idle /\ run'[c] # run[c]
  \/ lock = c /\ picked' # picked

Receive(c) ==
  \/ handle_response_chain_entry(c)
  \/ handle_response_get_objects(c)

Next ==
  \/ \E c \in Connections :
       \/ process_payload_sync_data(c)
       \/ on_callback(c)
       \/ on_connection_close(c)
       \/ Receive(c)
       \/ Handle(c)
       \/ kick_idle_peers(c)
       \/ check_standby_peers(c)
  \/ SpanIsLate

(* A handler that can run does, and so do callbacks and timers.  The peers  *)
(* that are not slow answer.                                                *)
Spec ==
  /\ Init
  /\ [][Next]_vars
  /\ \A c \in Connections :
       /\ []<>(run[c] = Idle) \/ []<><<Moves(c)>>_vars
       /\ WF_vars(on_callback(c))
       /\ WF_vars(process_payload_sync_data(c))
       /\ WF_vars(check_standby_peers(c))
  /\ \A c \in Connections \ Slow : WF_vars(Receive(c))
  /\ WF_vars(SpanIsLate)
-----------------------------------------------------------------------------
(* A peer that answers in time is dropped only because it has been asked    *)
(* for a block it does not have.                                            *)
GoodPeersStay ==
  \A c \in Connections \ Slow :
    status[c] = "closing" => ~(ctx[c].asked \subseteq Elems(Chain[c]))

(* A connection that is downloading has something to wait for: its handler  *)
(* is running, a callback is requested, or the peer owes an answer.         *)
DownloadGoesOn ==
  \A c \in Connections :
    status[c] = "live" /\ ctx[c].state = "synchronizing" =>
      run[c] # Idle \/ ctx[c].callbacks > 0 \/ replies[c] # <<>>

(* The chain of every peer that answers in time is downloaded and added,    *)
(* unless the peer is dropped.                                              *)
CatchesUp ==
  <>[](\A c \in Connections \ Slow :
         status[c] = "live" => Elems(Chain[c]) \subseteq chain.have)

(* The hashes a peer has yet to be asked for are those of consecutive        *)
(* heights up to m_last_response_height.                                     *)
NeededIsAligned ==
  \A c \in Connections : \A i \in DOMAIN ctx[c].needed :
    BQ!Height[ctx[c].needed[i]] + Len(ctx[c].needed) = ctx[c].lrh + i

(* A span that is reserved is being downloaded: its connection is there and *)
(* has asked its peer for it.                                               *)
ScheduledIsAsked ==
  \A s \in q.blocks :
    ~BQ!Filled(s) => s.conn \in Present /\ Elems(s.hashes) \subseteq ctx[s.conn].asked

(* The node is declared synchronized when it has reached every peer it is   *)
(* downloading from.                                                        *)
SyncedIsCaughtUp ==
  [][~synced /\ synced' =>
       \A c \in Present : ctx[c].state \in {"synchronizing", "standby"}
                          => ctx[c].remote <= height]_vars
=============================================================================
