----------------------------- MODULE BlockQueue -----------------------------
(***************************************************************************)
(* cryptonote_protocol/block_queue.cpp: the spans of blocks that the       *)
(* connections of a syncing node have reserved ("scheduled") or delivered  *)
(* ("filled"), and the two hash indexes that the protocol handler consults *)
(* before it asks a peer for a block.                                      *)
(*                                                                         *)
(* The queue is one value q, and every method of block_queue that changes  *)
(* it is an operator from queues to queues, so that a caller composes the  *)
(* methods as the handler does.  A method holds the queue's mutex from     *)
(* start to end and is one step.  The second half of the module is the     *)
(* queue under the calls the protocol handler makes, in any interleaving   *)
(* of its connections.                                                     *)
(***************************************************************************)
EXTENDS Naturals, Sequences, FiniteSets, Pruning

CONSTANTS
  Connections,        \* the uuids of the connections of a run
  Chain,              \* Chain[c][h]: the hash of peer c's block at height h
  PeerSeed,           \* PeerSeed[c]: the pruning seed peer c announced
  LocalSeed,          \* this node's pruning seed
  MaxBlocks,          \* count_limit: the most blocks asked for at a time
  None                \* no snapshot taken, no span picked

Elems(s) == {s[i] : i \in DOMAIN s}

Hashes == UNION {Elems(Chain[c]) : c \in Connections}

(* A hash commits to the whole chain below it, so it fixes the height.      *)
ASSUME ChainAssumption ==
  /\ Chain \in [Connections -> Seq(Hashes)]
  /\ \A c, d \in Connections :
       \A i \in DOMAIN Chain[c], j \in DOMAIN Chain[d] :
          Chain[c][i] = Chain[d][j] => i = j

(* "assumes the span size is less or equal to the stripe size": it is, with *)
(* BLOCKS_SYNCHRONIZING_MAX_COUNT.                                          *)
ASSUME CallerAssumption ==
  /\ PeerSeed \in [Connections -> Nat]
  /\ \A c \in Connections : ProperSeed(PeerSeed[c])
  /\ ProperSeed(LocalSeed)
  /\ MaxBlocks \in 1..STRIPE_SIZE

Height ==
  [hash \in Hashes |->
     CHOOSE i \in UNION {DOMAIN Chain[c] : c \in Connections} :
       \E c \in Connections : i \in DOMAIN Chain[c] /\ Chain[c][i] = hash]

(* struct span.  blocks is the hashes of the delivered blocks, empty while  *)
(* the span is only scheduled.  rate, size and time are left out.           *)
Span == [start : Nat, nblocks : Nat, hashes : Seq(Hashes),
         blocks : Seq(Hashes), conn : Connections]

Queue == [blocks : SUBSET Span, requested : SUBSET Hashes, have : SUBSET Hashes]

EmptyQueue == [blocks |-> {}, requested |-> {}, have |-> {}]

Filled(s) == s.blocks # <<>>

SpanHashes(S) == UNION {Elems(s.hashes) : s \in S}
-----------------------------------------------------------------------------
(* Faulty: the span goes and its hashes stay requested.                     *)
erase_block_keeps_requested(Q, S) ==
  [Q EXCEPT !.blocks = @ \ S, !.have = @ \ SpanHashes(S)]

(* Faulty: the span goes and its hashes stay in have_blocks.                *)
erase_block_keeps_have(Q, S) ==
  [Q EXCEPT !.blocks = @ \ S, !.requested = @ \ SpanHashes(S)]

(* erase_block on each span of S: the span goes, and its hashes leave both  *)
(* indexes, whoever else holds them.                                        *)
erase_block(Q, S) ==
  [blocks    |-> Q.blocks \ S,
   requested |-> Q.requested \ SpanHashes(S),
   have      |-> Q.have \ SpanHashes(S)]

(* std::set::insert on spans ordered by start: a span that starts where     *)
(* another one does is not inserted.                                        *)
insert(Q, s) ==
  IF \E t \in Q.blocks : t.start = s.start
  THEN Q
  ELSE [Q EXCEPT !.blocks = @ \cup {s}]

SpansAt(Q, height) == {s \in Q.blocks : s.start = height}

remove_span(Q, height) == erase_block(Q, SpansAt(Q, height))

set_span_hashes(Q, start, c, hashes) ==
  LET S == {s \in SpansAt(Q, start) : s.conn = c}
      e == erase_block(Q, S)
  IN  IF S = {}
      THEN Q
      ELSE [e EXCEPT !.blocks    = @ \cup {[s EXCEPT !.hashes = hashes] : s \in S},
                     !.requested = @ \cup Elems(hashes)]

(* add_blocks for delivered blocks: the span that was at this height,       *)
(* whichever connection it was of, gives its hashes to the new one.         *)
add_filled(Q, height, blocks, c) ==
  LET old    == SpansAt(Q, height)
      hashes == (CHOOSE s \in old : TRUE).hashes
      new    == [start |-> height, nblocks |-> Len(blocks), hashes |-> <<>>,
                 blocks |-> blocks, conn |-> c]
      r      == insert(remove_span(Q, height), new)
  IN  IF old = {}
      THEN r
      ELSE set_span_hashes([r EXCEPT !.requested = @ \cup Elems(hashes),
                                     !.have      = @ \cup Elems(hashes)],
                           height, c, hashes)

(* add_blocks for a reservation.                                            *)
add_scheduled(Q, height, nblocks, c) ==
  insert(Q, [start |-> height, nblocks |-> nblocks, hashes |-> <<>>,
             blocks |-> <<>>, conn |-> c])

flush_spans(Q, c, all) ==
  erase_block(Q, {s \in Q.blocks : s.conn = c /\ (all \/ ~Filled(s))})

flush_stale_spans(Q, live) ==
  erase_block(Q, {s \in Q.blocks : ~Filled(s) /\ s.conn \notin live})

remove_spans(Q, c, start) ==
  erase_block(Q, {s \in Q.blocks : s.conn = c /\ s.start <= start})
-----------------------------------------------------------------------------
(* reserve_span.  hs are the hashes of the heights last - Len(hs) + 1 up to *)
(* last of the peer's chain.                                                *)

(* The index of the first hash from i on that is not requested, or one past *)
(* the end.                                                                 *)
skip_requested(Q, hs, i) ==
  CHOOSE j \in i..(Len(hs) + 1) :
    /\ \A k \in i..(j - 1) : hs[k] \in Q.requested
    /\ j = Len(hs) + 1 \/ hs[j] \notin Q.requested

(* When the peer has pruned the block at start but keeps one less than a    *)
(* stripe further on, the span starts there.                                *)
skip_pruned(start, sync_pruned_blocks, bh, seed) ==
  LET n == get_next_unpruned_block_height(start, bh, seed)
  IN  IF ~sync_pruned_blocks /\ n > start /\ n < start + STRIPE_SIZE THEN n ELSE start

(* Faulty: a span runs on past the blocks the peer keeps.                   *)
extends_span_unchecked(start, k, sync_pruned_blocks, bh, seed) == TRUE

(* Whether the block k places after start belongs in the same span.         *)
extends_span(start, k, sync_pruned_blocks, bh, seed) ==
  IF sync_pruned_blocks
  THEN has_unpruned_block(start, bh, LocalSeed)
         = has_unpruned_block(start + k, bh, LocalSeed)
  ELSE has_unpruned_block(start + k, bh, seed)

span_length(start, n, sync_pruned_blocks, bh, seed) ==
  CHOOSE len \in 0..n :
    /\ \A k \in 0..(len - 1) : extends_span(start, k, sync_pruned_blocks, bh, seed)
    /\ len = n \/ ~extends_span(start, len, sync_pruned_blocks, bh, seed)

NoSpan(Q) == [queue |-> Q, start |-> 0, len |-> 0]

(* Faulty: the span starts at the peer's stripe, its hashes do not.         *)
reserve_span_hashes_lag(Q, first, last, max, c, sync_pruned_blocks, bh, hs) ==
  LET base  == last + 1 - Len(hs)
      i     == skip_requested(Q, hs, 1)
      start == skip_pruned(base + i - 1, sync_pruned_blocks, bh, PeerSeed[c])
      left  == Len(hs) - i + 1
      len   == span_length(start, IF left < max THEN left ELSE max,
                           sync_pruned_blocks, bh, PeerSeed[c])
  IN  IF Len(hs) > last \/ start >= base + Len(hs) \/ len = 0
      THEN NoSpan(Q)
      ELSE [queue |-> set_span_hashes(add_scheduled(Q, start, len, c), start, c,
                                      SubSeq(hs, i, i + len - 1)),
            start |-> start, len |-> len]

reserve_span(Q, first, last, max, c, sync_pruned_blocks, bh, hs) ==
  LET base  == last + 1 - Len(hs)
      i0    == skip_requested(Q, hs, 1)
      start0 == skip_pruned(base + i0 - 1, sync_pruned_blocks, bh, PeerSeed[c])
      i     == skip_requested(Q, hs, start0 - base + 1)
      start == base + i - 1
      left  == Len(hs) - i + 1
      len   == span_length(start, IF left < max THEN left ELSE max,
                           sync_pruned_blocks, bh, PeerSeed[c])
      taken == SubSeq(hs, i, i + len - 1)
  IN  IF \/ last < first
         \/ max = 0
         \/ Len(hs) > last
         \/ start0 >= base + Len(hs)
         \/ len = 0
      THEN NoSpan(Q)
      ELSE [queue |-> set_span_hashes(add_scheduled(Q, start, len, c),
                                      start, c, taken),
            start |-> start, len |-> len]
-----------------------------------------------------------------------------
(* The queries.                                                             *)
first_span(S) == CHOOSE s \in S : \A t \in S : s.start <= t.start

(* get_next_span_if_scheduled: the lowest span, when it has no blocks yet.  *)
next_is_scheduled(Q) == Q.blocks # {} /\ ~Filled(first_span(Q.blocks))

(* get_next_span: the lowest filled span.                                   *)
filled_spans(Q) == {s \in Q.blocks : Filled(s)}

get_next_span(Q) == first_span(filled_spans(Q))

last_span(S) == CHOOSE s \in S : \A t \in S : t.start <= s.start

span_end(s) == s.start + s.nblocks

(* get_next_needed_height: the spans that reach the given height are walked *)
(* in order, up to the first that does not start where the one before it    *)
(* ends; nothing is walked when the first of them has no blocks yet.        *)
get_next_needed_height(Q, bh) ==
  LET ahead     == {s \in Q.blocks : span_end(s) - 1 >= bh}
      before(s) == {t \in ahead : t.start < s.start}
      abuts(s)  == s.start = IF before(s) = {} THEN bh ELSE span_end(last_span(before(s)))
      walked    == {s \in ahead : \A t \in before(s) \cup {s} : abuts(t)}
  IN  IF walked = {} \/ ~Filled(first_span(ahead))
      THEN bh ELSE span_end(last_span(walked))
-----------------------------------------------------------------------------
(* The queue under the calls of cryptonote_protocol_handler.inl.            *)
VARIABLES
  q,                  \* the block_queue
  status,             \* "new", "live" or "dead": connection ids are not reused
  asked,              \* m_requested_objects, in request order
  snapshot,           \* live_connections, between for_each_connection and
                      \* flush_stale_spans in request_missing_objects
  picked,             \* the span try_add_next_blocks is adding to the chain
  sync_pruned         \* m_sync_pruned_blocks, an option of the node

vars == <<q, status, asked, snapshot, picked, sync_pruned>>

Live == {c \in Connections : status[c] = "live"}

TypeOK ==
  /\ q \in Queue
  /\ status \in [Connections -> {"new", "live", "dead"}]
  /\ asked \in [Connections -> Seq(Hashes)]
  /\ snapshot \in {None} \cup SUBSET Connections
  /\ picked \in {None} \cup [conn : Connections, start : Nat]
  /\ sync_pruned \in BOOLEAN

Init ==
  /\ q = EmptyQueue
  /\ status = [c \in Connections |-> "new"]
  /\ asked = [c \in Connections |-> <<>>]
  /\ snapshot = None
  /\ picked = None
  /\ sync_pruned \in BOOLEAN

Connect(c) ==
  /\ status[c] = "new"
  /\ status' = [status EXCEPT ![c] = "live"]
  /\ UNCHANGED <<q, asked, snapshot, picked, sync_pruned>>

(* request_missing_objects with m_needed_objects holding the hashes of the  *)
(* peer's chain from the height first on.                                   *)
RequestSpan(c, first) ==
  LET last == Len(Chain[c])
      hs == SubSeq(Chain[c], first, last)
      r  == reserve_span(q, first, last, MaxBlocks, c, sync_pruned /\ LocalSeed # 0,
                         last + 1, hs)
  IN  /\ status[c] = "live"
      /\ asked[c] = <<>>
      /\ r.len > 0
      /\ q' = r.queue
      /\ asked' = [asked EXCEPT ![c] =
                     SubSeq(Chain[c], r.start, r.start + r.len - 1)]
      /\ UNCHANGED <<status, snapshot, picked, sync_pruned>>

(* Faulty: the stripe of the peer is not looked at.                         *)
can_serve_unchecked(c, s) == TRUE

(* Full data of a span can be asked of a peer that keeps its first and its  *)
(* last block.                                                              *)
can_serve(c, s) ==
  \/ PeerSeed[c] = 0
  \/ \A h \in {s.start, s.start + s.nblocks - 1} :
        get_pruning_stripe(h, Len(Chain[c]) + 1, LOG_STRIPES)
          \in {0, seed_stripe(PeerSeed[c])}

(* request_missing_objects with force_next_span: ask this peer too for the  *)
(* span another connection has reserved and not delivered.                  *)
RequestNextSpan(c) ==
  /\ status[c] = "live"
  /\ asked[c] = <<>>
  /\ next_is_scheduled(q)
  /\ sync_pruned \/ can_serve(c, first_span(q.blocks))
  /\ asked' = [asked EXCEPT ![c] = first_span(q.blocks).hashes]
  /\ UNCHANGED <<q, status, snapshot, picked, sync_pruned>>

(* handle_response_get_objects: all the blocks asked for, and no others.    *)
ReceiveBlocks(c) ==
  /\ status[c] = "live"
  /\ asked[c] # <<>>
  /\ Elems(asked[c]) \subseteq Elems(Chain[c])
  /\ q' = add_filled(q, Height[asked[c][1]], asked[c], c)
  /\ asked' = [asked EXCEPT ![c] = <<>>]
  /\ UNCHANGED <<status, snapshot, picked, sync_pruned>>

(* drop_connection and on_connection_close, which flushes once more, the    *)
(* scheduled spans only, when the connection goes.                          *)
CloseConnection(c, flush_all_spans) ==
  /\ status[c] = "live"
  /\ q' = flush_spans(q, c, flush_all_spans)
  /\ status' = [status EXCEPT ![c] = "dead"]
  /\ asked' = [asked EXCEPT ![c] = <<>>]
  /\ UNCHANGED <<snapshot, picked, sync_pruned>>

CollectLive ==
  /\ snapshot = None
  /\ Live # {}
  /\ snapshot' = Live
  /\ UNCHANGED <<q, status, asked, picked, sync_pruned>>

FlushStale ==
  /\ snapshot # None
  /\ q' = flush_stale_spans(q, snapshot)
  /\ snapshot' = None
  /\ UNCHANGED <<status, asked, picked, sync_pruned>>

(* Faulty: the span itself is kept, not the key to find it again with.      *)
PickSpan_whole ==
  /\ picked = None
  /\ filled_spans(q) # {}
  /\ picked' = get_next_span(q)
  /\ UNCHANGED <<q, status, asked, snapshot, sync_pruned>>

(* try_add_next_blocks, under m_sync_lock: the lowest filled span is copied *)
(* out of the queue ...                                                     *)
PickSpan ==
  /\ picked = None
  /\ filled_spans(q) # {}
  /\ picked' = [conn  |-> get_next_span(q).conn,
                start |-> get_next_span(q).start]
  /\ UNCHANGED <<q, status, asked, snapshot, sync_pruned>>

(* ... and removed once its blocks are in the chain, or when they are old,  *)
(* orphaned or fail verification ...                                        *)
FinishSpan ==
  /\ picked # None
  /\ q' = remove_spans(q, picked.conn, picked.start)
  /\ picked' = None
  /\ UNCHANGED <<status, asked, snapshot, sync_pruned>>

(* ... or left where it is when its parent has yet to be downloaded.        *)
LeaveSpan ==
  /\ picked # None
  /\ picked' = None
  /\ UNCHANGED <<q, status, asked, snapshot, sync_pruned>>

Next ==
  \/ \E c \in Connections :
       \/ Connect(c)
       \/ \E first \in DOMAIN Chain[c] : RequestSpan(c, first)
       \/ RequestNextSpan(c)
       \/ ReceiveBlocks(c)
       \/ \E all \in BOOLEAN : CloseConnection(c, all)
  \/ CollectLive
  \/ FlushStale
  \/ PickSpan
  \/ FinishSpan
  \/ LeaveSpan

Spec == Init /\ [][Next]_vars
-----------------------------------------------------------------------------
(* A hash that the queue reports as requested is in some span, so that it   *)
(* is downloaded or the span is flushed: no hash is skipped for ever by     *)
(* reserve_span because of a reservation that no longer exists.             *)
RequestedIsQueued ==
  q.requested \subseteq SpanHashes(q.blocks)

(* A hash that the queue reports as had is among the hashes of a filled     *)
(* span, and is reported as requested: a flushed, stale or removed span     *)
(* leaves nothing behind in have_blocks.                                    *)
HaveIsFilled ==
  q.have \subseteq SpanHashes(filled_spans(q)) \cap q.requested

(* Every hash of a span is that of the block at its place in the span, and  *)
(* so is every block: the index arithmetic of reserve_span and the hand-    *)
(* over of hashes in add_blocks never shift a span.                         *)
SpansAligned ==
  \A s \in q.blocks :
    /\ \A k \in DOMAIN s.hashes : Height[s.hashes[k]] = s.start + k - 1
    /\ \A k \in DOMAIN s.blocks : Height[s.blocks[k]] = s.start + k - 1

(* While this node wants full blocks, a peer is asked only for blocks that  *)
(* it keeps, its own spans and those of others alike.  The one exception is *)
(* a span of another peer that runs into the tip: request_missing_objects   *)
(* compares the stripes of the first and the last block only, and between   *)
(* the end of this peer's stripe and the tip are blocks that it has pruned. *)
RequestsAreServable ==
  ~sync_pruned =>
    \A c \in Connections : \A k \in DOMAIN asked[c] :
      LET bh       == Len(Chain[c]) + 1
          at(i)    == Height[asked[c][i]]
          in_tip(i) == at(i) + TIP_BLOCKS >= bh
      IN  \/ has_unpruned_block(at(k), bh, PeerSeed[c])
          \/ ~in_tip(1) /\ in_tip(Len(asked[c]))

(* When pruned blocks are synced too, no reservation mixes blocks that this *)
(* node must have in full with blocks that it may take pruned: a span is    *)
(* asked for as a whole, in full or pruned.                                 *)
SpansAreUniform ==
  sync_pruned /\ LocalSeed # 0 =>
    \A s \in q.blocks \ filled_spans(q) : \A g, h \in Elems(s.hashes) :
      LET in_full(k) == has_unpruned_block(Height[k], Len(Chain[s.conn]) + 1, LocalSeed)
      IN  in_full(g) = in_full(h)
=============================================================================
