-------------------------- MODULE BlockQueueProofs --------------------------
(***************************************************************************)
(* For every set of connections, every chain and every pruning setting:    *)
(* the two hash indexes of the block queue never outlive the spans they    *)
(* describe.  Each method of the queue preserves Consistent, whatever the  *)
(* queue it starts from; the handler's steps only call those methods.      *)
(***************************************************************************)
EXTENDS BlockQueue, WellFoundedInduction, SequenceTheorems, TLAPS

UniqueStarts(Q) == \A s, t \in Q.blocks : s.start = t.start => s = t

RequestedInSpans(Q) == \A h \in Q.requested : \E s \in Q.blocks : h \in Elems(s.hashes)

HaveInFilledSpans(Q) ==
  \A h \in Q.have : /\ h \in Q.requested
                    /\ \E s \in Q.blocks : Filled(s) /\ h \in Elems(s.hashes)

Consistent(Q) ==
  /\ Q \in Queue
  /\ UniqueStarts(Q)
  /\ RequestedInSpans(Q)
  /\ HaveInFilledSpans(Q)

IInv == TypeOK /\ Consistent(q)
-----------------------------------------------------------------------------
Less == {p \in Nat \X Nat : p[1] < p[2]}

(* A non-empty set of natural numbers has a least element.                  *)
LEMMA HasLeast ==
  ASSUME NEW T, T \subseteq Nat, T # {}
  PROVE  \E x \in T : \A y \in T : x <= y
<1>1. IsWellFoundedOn(Less, Nat)
  BY NatLessThanWellFounded DEF OpToRel, Less
<1>2. PICK x \in T : \A y \in T : ~(<<y, x>> \in Less)
  BY Zenon, <1>1, WFMin
<1>3. \A y \in T : ~(y < x)
  BY Zenon, <1>2 DEF Less
<1>4. \A y \in T : x <= y
  BY <1>3
<1> QED BY <1>4

(* A hash is among those of a set of spans when one of the spans has it.   *)
LEMMA SpanHashesMember ==
  ASSUME NEW S, NEW h
  PROVE  h \in SpanHashes(S) <=> \E s \in S : h \in Elems(s.hashes)
BY DEF SpanHashes

(* The elements of a sequence are elements of its set.                     *)
LEMMA ElemsOfSeq ==
  ASSUME NEW A, NEW s \in Seq(A)
  PROVE  Elems(s) \subseteq A
BY DEF Elems

(* The empty sequence has no elements.                                     *)
LEMMA ElemsOfEmpty == Elems(<<>>) = {}
BY DEF Elems

(* erase_block keeps the queue consistent: a hash that stays requested is  *)
(* in a span that stays.                                                   *)
LEMMA EraseConsistent ==
  ASSUME NEW Q, Consistent(Q), NEW S, S \subseteq Q.blocks
  PROVE  Consistent(erase_block(Q, S))
<1> DEFINE E == erase_block(Q, S)
<1>1. /\ E.blocks = Q.blocks \ S
      /\ E.requested = Q.requested \ SpanHashes(S)
      /\ E.have = Q.have \ SpanHashes(S)
  BY DEF erase_block
<1>2. E \in Queue
  BY DEF Consistent, Queue, erase_block
<1>3. UniqueStarts(E)
  BY <1>1 DEF Consistent, UniqueStarts
<1>4. RequestedInSpans(E)
  BY <1>1, SpanHashesMember DEF Consistent, RequestedInSpans
<1>5. HaveInFilledSpans(E)
  BY <1>1, SpanHashesMember DEF Consistent, HaveInFilledSpans
<1> QED BY <1>2, <1>3, <1>4, <1>5 DEF Consistent

(* Inserting a span keeps the queue consistent.                            *)
LEMMA InsertConsistent ==
  ASSUME NEW Q, Consistent(Q), NEW s \in Span
  PROVE  Consistent(insert(Q, s))
<1>1. CASE \E t \in Q.blocks : t.start = s.start
  BY <1>1 DEF insert
<1>2. CASE ~\E t \in Q.blocks : t.start = s.start
  <2> DEFINE I == insert(Q, s)
  <2>1. I = [Q EXCEPT !.blocks = @ \cup {s}]
    BY <1>2 DEF insert
  <2>2. /\ I \in Queue
        /\ I.blocks = Q.blocks \cup {s}
        /\ I.requested = Q.requested
        /\ I.have = Q.have
    BY <2>1 DEF Consistent, Queue
  <2>3. UniqueStarts(I)
    BY <1>2, <2>2 DEF Consistent, UniqueStarts
  <2>4. RequestedInSpans(I)
    BY <2>2 DEF Consistent, RequestedInSpans
  <2>5. HaveInFilledSpans(I)
    BY <2>2 DEF Consistent, HaveInFilledSpans
  <2> QED BY <2>2, <2>3, <2>4, <2>5 DEF Consistent
<1> QED BY <1>1, <1>2

(* set_span_hashes keeps the queue consistent.                             *)
LEMMA SetSpanHashesConsistent ==
  ASSUME NEW Q, Consistent(Q), NEW start, NEW c, NEW hashes \in Seq(Hashes)
  PROVE  Consistent(set_span_hashes(Q, start, c, hashes))
<1> DEFINE S == {s \in SpansAt(Q, start) : s.conn = c}
           e == erase_block(Q, S)
           N == {[s EXCEPT !.hashes = hashes] : s \in S}
           R == set_span_hashes(Q, start, c, hashes)
<1>1. CASE S = {}
  BY <1>1 DEF set_span_hashes
<1>2. CASE S # {}
  <2>1. S \subseteq Q.blocks
    BY DEF SpansAt
  <2>2. Consistent(e)
    BY <2>1, EraseConsistent
  <2>3. R = [e EXCEPT !.blocks = @ \cup N, !.requested = @ \cup Elems(hashes)]
    BY <1>2 DEF set_span_hashes
  <2>4. \A n \in N : n \in Span /\ n.start = start /\ n.hashes = hashes
    BY Zenon, <2>1 DEF Consistent, Queue, Span, SpansAt
  <2>5. /\ R \in Queue
        /\ R.blocks = e.blocks \cup N
        /\ R.requested = e.requested \cup Elems(hashes)
        /\ R.have = e.have
    BY ZenonT(40), <2>2, <2>3, <2>4, ElemsOfSeq DEF Consistent, Queue
  <2>6. N # {}
    BY Zenon, <1>2
  <2>7. e.blocks = Q.blocks \ S
    BY DEF erase_block
  <2>8. UniqueStarts(R)
    <3>1. \A s \in e.blocks : s.start # start
      BY <2>7, <1>2 DEF SpansAt, Consistent, UniqueStarts
    <3>2. \A s, t \in S : s = t
      BY <2>1 DEF SpansAt, Consistent, UniqueStarts
    <3>3. \A s, t \in N : s = t
      BY <3>2
    <3> QED BY <2>2, <2>4, <2>5, <3>1, <3>3 DEF Consistent, UniqueStarts
  <2>9. RequestedInSpans(R)
    BY <2>2, <2>4, <2>5, <2>6 DEF Consistent, RequestedInSpans
  <2>10. HaveInFilledSpans(R)
    BY <2>2, <2>5 DEF Consistent, HaveInFilledSpans
  <2> QED BY <2>5, <2>8, <2>9, <2>10 DEF Consistent
<1> QED BY <1>1, <1>2
(* add_blocks for delivered blocks keeps the queue consistent: the hashes   *)
(* of the span it replaces become those of the filled span.                 *)
LEMMA AddFilledConsistent ==
  ASSUME NEW Q, Consistent(Q), NEW height \in Nat,
         NEW blocks \in Seq(Hashes), blocks # <<>>, NEW c \in Connections
  PROVE  Consistent(add_filled(Q, height, blocks, c))
<1> DEFINE old == SpansAt(Q, height)
           hashes == (CHOOSE s \in old : TRUE).hashes
           new == [start |-> height, nblocks |-> Len(blocks), hashes |-> <<>>,
                   blocks |-> blocks, conn |-> c]
           r == insert(remove_span(Q, height), new)
<1>1. old \subseteq Q.blocks
  BY DEF SpansAt
<1>2. new \in Span /\ Filled(new)
  BY DEF Span, Filled
<1>3. Consistent(remove_span(Q, height))
  BY <1>1, EraseConsistent DEF remove_span
<1>4. Consistent(r)
  BY <1>2, <1>3, InsertConsistent
<1>5. CASE old = {}
  BY <1>4, <1>5 DEF add_filled
<1>6. CASE old # {}
  <2> DEFINE R == [r EXCEPT !.requested = @ \cup Elems(hashes),
                            !.have      = @ \cup Elems(hashes)]
             S == {s \in SpansAt(R, height) : s.conn = c}
             full == [new EXCEPT !.hashes = hashes]
             F == set_span_hashes(R, height, c, hashes)
  <2>1. F = add_filled(Q, height, blocks, c)
    BY <1>6 DEF add_filled
  <2>2. hashes \in Seq(Hashes)
    BY <1>1, <1>6 DEF Consistent, Queue, Span
  <2>3. remove_span(Q, height).blocks = Q.blocks \ old
    BY DEF remove_span, erase_block
  <2>4. ~\E t \in remove_span(Q, height).blocks : t.start = new.start
    BY <2>3 DEF SpansAt
  <2>5. r = [remove_span(Q, height) EXCEPT !.blocks = @ \cup {new}]
    BY <2>4 DEF insert
  <2>6. r.blocks = (Q.blocks \ old) \cup {new}
    BY <1>3, <2>3, <2>5 DEF Consistent, Queue
  <2>7. /\ R.blocks = r.blocks
        /\ R.requested = r.requested \cup Elems(hashes)
        /\ R.have = r.have \cup Elems(hashes)
    BY <1>4 DEF Consistent, Queue
  <2>8. S = {new}
    BY <2>6, <2>7 DEF SpansAt
  <2>9. SpanHashes(S) = {}
    <3>0. new.hashes = <<>>
      OBVIOUS
    <3> HIDE DEF S, new
    <3>1. \A s \in S : Elems(s.hashes) = {}
      BY <2>8, <3>0, ElemsOfEmpty
    <3>2. \A h : h \notin SpanHashes(S)
      BY SMTT(40), <3>1, SpanHashesMember
    <3> QED BY <3>2
  <2>10. /\ erase_block(R, S).blocks = r.blocks \ {new}
         /\ erase_block(R, S).requested = r.requested \cup Elems(hashes)
         /\ erase_block(R, S).have = r.have \cup Elems(hashes)
    BY ZenonT(40), <2>7, <2>8, <2>9 DEF erase_block
  <2>11. F = [erase_block(R, S) EXCEPT
                !.blocks = @ \cup {[s EXCEPT !.hashes = hashes] : s \in S},
                !.requested = @ \cup Elems(hashes)]
    BY ZenonT(40), <2>8 DEF set_span_hashes
  <2>12. {[s EXCEPT !.hashes = hashes] : s \in S} = {full}
    BY ZenonT(40), <2>8
  <2>13. /\ full \in Span
         /\ full.start = height
         /\ full.hashes = hashes
         /\ Filled(full)
    BY <1>2, <2>2 DEF Span, Filled
  <2>14. /\ F.blocks = (r.blocks \ {new}) \cup {full}
         /\ F.requested = r.requested \cup Elems(hashes)
         /\ F.have = r.have \cup Elems(hashes)
    <3>1. erase_block(R, S) =
            [blocks    |-> r.blocks \ {new},
             requested |-> r.requested \cup Elems(hashes),
             have      |-> r.have \cup Elems(hashes)]
      BY Zenon, <2>10 DEF erase_block
    <3> HIDE DEF F, R, S, r, new, full, hashes
    <3>2. F = [erase_block(R, S) EXCEPT !.blocks = @ \cup {full},
                                        !.requested = @ \cup Elems(hashes)]
      BY Zenon, <2>11, <2>12
    <3> QED BY <3>1, <3>2
  <2>15. F \in Queue
    <3>1. F = [blocks |-> F.blocks, requested |-> F.requested, have |-> F.have]
      BY Zenon, <2>11 DEF erase_block
    <3> QED
      BY Zenon, <1>4, <2>2, <2>13, <2>14, <3>1, ElemsOfSeq DEF Consistent, Queue
  <2>16. UniqueStarts(F)
    <3>1. \A s \in r.blocks \ {new} : s.start # height
      BY <2>6 DEF SpansAt
    <3> QED BY ZenonT(40), <1>4, <2>13, <2>14, <3>1 DEF Consistent, UniqueStarts
  <2>17. RequestedInSpans(F)
    <3>1. \A h \in r.requested : \E s \in r.blocks \ {new} : h \in Elems(s.hashes)
      BY SMTT(40), <1>4, ElemsOfEmpty DEF Consistent, RequestedInSpans
    <3> QED BY Zenon, <2>13, <2>14, <3>1 DEF RequestedInSpans
  <2>18. HaveInFilledSpans(F)
    <3>1. \A h \in r.have : /\ h \in r.requested
                            /\ \E s \in r.blocks \ {new} :
                                 Filled(s) /\ h \in Elems(s.hashes)
      BY <1>4, ElemsOfEmpty DEF Consistent, HaveInFilledSpans
    <3> QED BY Zenon, <2>13, <2>14, <3>1 DEF HaveInFilledSpans
  <2> QED BY <2>1, <2>15, <2>16, <2>17, <2>18 DEF Consistent
<1> QED BY <1>5, <1>6

(* Reserving a stretch of heights keeps the queue consistent.               *)
LEMMA AddScheduledConsistent ==
  ASSUME NEW Q, Consistent(Q), NEW height \in Nat, NEW nblocks \in Nat,
         NEW c \in Connections
  PROVE  Consistent(add_scheduled(Q, height, nblocks, c))
<1> DEFINE new == [start |-> height, nblocks |-> nblocks, hashes |-> <<>>,
                   blocks |-> <<>>, conn |-> c]
<1>1. new \in Span
  BY DEF Span
<1> QED BY <1>1, InsertConsistent DEF add_scheduled
-----------------------------------------------------------------------------
(* What x \div y is.                                                       *)
LEMMA Quotient ==
  ASSUME NEW S \in Nat \ {0}, NEW a \in Nat
  PROVE  /\ a \div S \in Nat
         /\ S * (a \div S) <= a
         /\ a < S * (a \div S) + S
OBVIOUS

(* Multiples are ordered like their factors.                                *)
LEMMA Products ==
  ASSUME NEW S \in Nat \ {0}, NEW x \in Nat, NEW y \in Nat, x <= y
  PROVE  S * x <= S * y /\ S * (x + 1) = S * x + S /\ S * x \in Nat /\ S * y \in Nat
OBVIOUS

(* Heights less than a stripe apart are in the same stripe or in two that   *)
(* follow each other.                                                       *)
LEMMA QuotientsInStep ==
  ASSUME NEW S \in Nat \ {0}, NEW a \in Nat, NEW b \in Nat, a <= b, b - a < S
  PROVE  a \div S <= b \div S /\ b \div S <= (a \div S) + 1
<1> DEFINE x == a \div S
           y == b \div S
<1>1. x \in Nat /\ y \in Nat /\ S * x <= a /\ a < S * x + S /\ S * y <= b /\ b < S * y + S
  BY Quotient
<1> HIDE DEF x, y
<1>2. ASSUME y + 1 <= x PROVE FALSE
  <2>1. S * (y + 1) <= S * x /\ S * (y + 1) = S * y + S
    BY <1>1, <1>2, Products
  <2> QED BY <1>1, <2>1
<1>3. ASSUME x + 1 + 1 <= y PROVE FALSE
  <2>1. S * (x + 1 + 1) <= S * y /\ S * (x + 1 + 1) = S * (x + 1) + S
    BY <1>1, <1>3, Products
  <2>2. S * (x + 1) = S * x + S
    BY <1>1, <1>3, Products
  <2> QED BY <1>1, <2>1, <2>2
<1>4. x <= y /\ y <= x + 1
  BY <1>1, <1>2, <1>3
<1> QED BY <1>4 DEF x, y

(* What the stripe arithmetic needs of the powers of two: the residue of    *)
(* the next quotient is another one, and the one after it.                  *)
LEMMA Residues ==
  ASSUME NEW ls \in 1..7, NEW x \in Nat
  PROVE  /\ 2^ls \in 2..128
         /\ x % 2^ls # (x + 1) % 2^ls
         /\ (x + 1) % 2^ls = ((x % 2^ls) + 1) % 2^ls
<1>1. CASE ls = 1
  BY <1>1
<1>2. CASE ls = 2
  BY <1>2
<1>3. CASE ls = 3
  BY <1>3
<1>4. CASE ls = 4
  BY <1>4
<1>5. CASE ls = 5
  BY <1>5
<1>6. CASE ls = 6
  BY <1>6
<1>7. CASE ls = 7
  BY <1>7
<1> QED BY <1>1, <1>2, <1>3, <1>4, <1>5, <1>6, <1>7

(* The number of stripes.                                                   *)
LEMMA Stripes ==
  /\ LOG_STRIPES \in 1..7
  /\ 2^LOG_STRIPES \in 2..128
  /\ 2^LOG_STRIPES \in Nat \ {0}
<1>1. LOG_STRIPES \in 1..7
  BY PruningAssumption
<1>2. 0 \in Nat
  OBVIOUS
<1>3. 2^LOG_STRIPES \in 2..128
  BY Zenon, <1>1, <1>2, Residues
<1> QED BY <1>1, <1>3

(* A node that keeps the stripe st holds the block.                         *)
Holds(height, bh, st) == get_pruning_stripe(height, bh, LOG_STRIPES) \in {0, st}

(* A peer that keeps the first and the last block of a span no longer than  *)
(* a stripe keeps those between them too, unless the span runs into the tip *)
(* from before it: what the check of the two ends in                        *)
(* request_missing_objects is worth.                                        *)
LEMMA KeptBetween ==
  ASSUME NEW a \in Nat, NEW b \in Nat, NEW e \in Nat, a <= b, b <= e,
         e - a < STRIPE_SIZE, NEW bh \in Nat, NEW st,
         Holds(a, bh, st), Holds(e, bh, st)
  PROVE  \/ Holds(b, bh, st)
         \/ ~(a + TIP_BLOCKS >= bh) /\ e + TIP_BLOCKS >= bh
<1> USE DEF Holds
<1> DEFINE x == a \div STRIPE_SIZE
           y == b \div STRIPE_SIZE
           z == e \div STRIPE_SIZE
<1>0. a <= e
  OBVIOUS
<1>1. CASE a + TIP_BLOCKS >= bh
  <2>1. b + TIP_BLOCKS >= bh
    BY <1>1, PruningAssumption
  <2> QED BY <2>1 DEF get_pruning_stripe
<1>2. CASE ~(a + TIP_BLOCKS >= bh) /\ ~(e + TIP_BLOCKS >= bh)
  <2>1. ~(b + TIP_BLOCKS >= bh)
    BY <1>2, PruningAssumption
  <2>2. x \in Nat /\ y \in Nat /\ z \in Nat
    BY Quotient, PruningAssumption
  <2>3. x <= z /\ z <= x + 1 /\ x <= y /\ y <= z
    <3>1. b - a < STRIPE_SIZE /\ e - b < STRIPE_SIZE
      BY PruningAssumption
    <3>2. STRIPE_SIZE \in Nat \ {0}
      BY PruningAssumption
    <3>3. x <= z /\ z <= x + 1
      BY Zenon, <1>0, <3>2, QuotientsInStep
    <3>4. x <= y
      BY Zenon, <3>1, <3>2, QuotientsInStep
    <3>5. y <= z
      BY Zenon, <3>1, <3>2, QuotientsInStep
    <3> QED BY Zenon, <3>3, <3>4, <3>5
  <2>4. stripe_of_height(a, LOG_STRIPES) = (x % 2^LOG_STRIPES) + 1
        /\ stripe_of_height(b, LOG_STRIPES) = (y % 2^LOG_STRIPES) + 1
        /\ stripe_of_height(e, LOG_STRIPES) = (z % 2^LOG_STRIPES) + 1
    BY Zenon DEF stripe_of_height
  <2> HIDE DEF x, y, z
  <2>5. 2^LOG_STRIPES \in Nat \ {0}
    BY Stripes
  <2>6. x % 2^LOG_STRIPES \in Nat /\ z % 2^LOG_STRIPES \in Nat
    BY <2>2, <2>5
  <2>7. stripe_of_height(a, LOG_STRIPES) = st /\ stripe_of_height(e, LOG_STRIPES) = st
    BY <1>2, <2>4, <2>6 DEF get_pruning_stripe
  <2>8. x % 2^LOG_STRIPES = z % 2^LOG_STRIPES
    BY <2>4, <2>6, <2>7
  <2>9. z # x + 1
    <3>1. x % 2^LOG_STRIPES # (x + 1) % 2^LOG_STRIPES
      BY <2>2, Residues, Stripes
    <3> QED BY Zenon, <2>8, <3>1
  <2>10. x = y
    BY <2>2, <2>3, <2>9
  <2> QED BY Zenon, <2>1, <2>4, <2>7, <2>10 DEF get_pruning_stripe
<1> QED BY <1>1, <1>2
(* Heights against the first height of a stripe.                            *)
LEMMA Multiple ==
  ASSUME NEW S \in Nat \ {0}, NEW n \in Nat, NEW a \in Nat
  PROVE  /\ a < S * n => a \div S < n
         /\ S * n <= a => n <= a \div S
         /\ (S * n) \div S = n
<1> DEFINE x == a \div S
           y == (S * n) \div S
<1>1. x \in Nat /\ S * x <= a /\ a < S * x + S
  BY Quotient
<1>2. S * n \in Nat
  BY Products
<1>3. y \in Nat /\ S * y <= S * n /\ S * n < S * y + S
  BY <1>2, Quotient
<1> HIDE DEF x, y
<1>4. ASSUME a < S * n PROVE x < n
  <2>1. ASSUME n <= x PROVE FALSE
    <3>1. S * n <= S * x
      BY <1>1, <2>1, Products
    <3> QED BY <1>1, <1>2, <1>4, <3>1
  <2> QED BY <1>1, <2>1
<1>5. ASSUME S * n <= a PROVE n <= x
  <2>1. ASSUME x + 1 <= n PROVE FALSE
    <3>1. S * (x + 1) <= S * n /\ S * (x + 1) = S * x + S
      BY <1>1, <2>1, Products
    <3> QED BY <1>1, <1>2, <1>5, <3>1
  <2> QED BY <1>1, <2>1
<1>6. y = n
  <2>1. ASSUME y + 1 <= n PROVE FALSE
    <3>1. S * (y + 1) <= S * n /\ S * (y + 1) = S * y + S
      BY <1>3, <2>1, Products
    <3> QED BY <1>2, <1>3, <3>1
  <2>2. ASSUME n + 1 <= y PROVE FALSE
    <3>1. S * (n + 1) <= S * y /\ S * (n + 1) = S * n + S
      BY <1>3, <2>2, Products
    <3> QED BY <1>2, <1>3, <3>1
  <2> QED BY <1>3, <2>1, <2>2
<1> QED BY <1>4, <1>5, <1>6 DEF x, y

(* The next number after Q that is t modulo M.                              *)
NextWith(Q, M, t) ==
  LET k == IF t > Q % M THEN Q \div M ELSE (Q \div M) + 1
  IN  k * M + t

(* It is the next one: none between them is t modulo M.                     *)
LEMMA NextWithResidue ==
  ASSUME NEW ls \in 1..7, NEW Q \in Nat, NEW t \in 0..(2^ls - 1), Q % 2^ls # t
  PROVE  LET n == NextWith(Q, 2^ls, t)
         IN  /\ n \in Nat
             /\ n > Q
             /\ n % 2^ls = t
             /\ \A p \in Q..(n - 1) : p % 2^ls # t
<1> USE DEF NextWith
<1>1. CASE ls = 1
  BY <1>1
<1>2. CASE ls = 2
  BY <1>2
<1>3. CASE ls = 3
  BY <1>3
<1>4. CASE ls = 4
  BY <1>4
<1>5. CASE ls = 5
  BY <1>5
<1>6. CASE ls = 6
  BY <1>6
<1>7. CASE ls = 7
  BY <1>7
<1> QED BY <1>1, <1>2, <1>3, <1>4, <1>5, <1>6, <1>7

(* The fields of a proper seed.                                             *)
LEMMA SeedStripe ==
  ASSUME NEW seed, ProperSeed(seed), seed # 0
  PROVE  /\ seed_stripe(seed) \in 1..(2^LOG_STRIPES)
         /\ get_pruning_log_stripes(seed) = LOG_STRIPES
         /\ log_stripes_of(seed) = LOG_STRIPES
<1>1. 2^7 = 128
  OBVIOUS
<1>2. seed_stripe(seed) \in Nat \ {0}
  BY <1>1 DEF seed_stripe, ProperSeed, PRUNING_SEED_LOG_STRIPES_SHIFT
<1>3. 2^LOG_STRIPES \in Nat
  BY Stripes
<1>4. seed_stripe(seed) \in 1..(2^LOG_STRIPES)
  BY <1>2, <1>3 DEF ProperSeed
<1> QED BY <1>4 DEF log_stripes_of, ProperSeed

(* A pruned node keeps the tip and the blocks of its stripe.                *)
LEMMA HasUnpruned ==
  ASSUME NEW seed, ProperSeed(seed), seed # 0, NEW h \in Nat, NEW bh \in Nat
  PROVE  has_unpruned_block(h, bh, seed) <=>
           \/ h + TIP_BLOCKS >= bh
           \/ ((h \div STRIPE_SIZE) % 2^LOG_STRIPES) + 1 = seed_stripe(seed)
<1> DEFINE st == seed_stripe(seed)
           M == 2^LOG_STRIPES
<1>1. /\ st \in 1..M
      /\ get_pruning_log_stripes(seed) = LOG_STRIPES
  BY SeedStripe
<1>2. M \in Nat \ {0}
  BY Stripes
<1>3. (h \div STRIPE_SIZE) % M \in Nat
  <2>1. h \div STRIPE_SIZE \in Nat
    BY PruningAssumption, Quotient
  <2> QED BY <1>2, <2>1
<1>4. get_pruning_stripe(h, bh, LOG_STRIPES) =
         IF h + TIP_BLOCKS >= bh THEN 0 ELSE ((h \div STRIPE_SIZE) % M) + 1
  BY Zenon DEF get_pruning_stripe, stripe_of_height
<1>5. st # 0
  BY <1>1, <1>2
<1>6. has_unpruned_block(h, bh, seed) <=>
         get_pruning_stripe(h, bh, LOG_STRIPES) \in {0, st}
  BY Zenon, <1>1, <1>5 DEF has_unpruned_block
<1> HIDE DEF st, M
<1>7. has_unpruned_block(h, bh, seed) <=>
         h + TIP_BLOCKS >= bh \/ ((h \div STRIPE_SIZE) % M) + 1 = st
  BY <1>3, <1>4, <1>6
<1> QED BY <1>7 DEF st, M

(* get_next_unpruned_block_height returns the least height, from the given  *)
(* one on, that a node with this seed keeps in full.                        *)
THEOREM NextUnprunedLeast ==
  ASSUME NEW height \in Nat, NEW bh \in Nat, NEW seed, ProperSeed(seed)
  PROVE  LET n == get_next_unpruned_block_height(height, bh, seed)
         IN  n \in Nat /\ IsLeastUnpruned(n, height, bh, seed)
<1> DEFINE n == get_next_unpruned_block_height(height, bh, seed)
           st == seed_stripe(seed)
           M == 2^LOG_STRIPES
           Q == height \div STRIPE_SIZE
           R == NextWith(Q, M, st - 1)
           Here == \/ st = 0
                   \/ height + TIP_BLOCKS >= bh
                   \/ stripe_of_height(height, log_stripes_of(seed)) = st
<1>1. CASE seed = 0
  <2>1. st = 0
    BY <1>1 DEF seed_stripe
  <2>2. n = height /\ has_unpruned_block(height, bh, seed)
    BY Zenon, <2>1 DEF get_next_unpruned_block_height, has_unpruned_block
  <2> HIDE DEF n
  <2> QED BY <2>2 DEF IsLeastUnpruned, n
<1>2. CASE seed # 0
  <2>1. /\ st \in 1..M
        /\ get_pruning_log_stripes(seed) = LOG_STRIPES
        /\ log_stripes_of(seed) = LOG_STRIPES
    BY <1>2, SeedStripe
  <2>2. M \in Nat \ {0} /\ LOG_STRIPES \in 1..7
    BY Stripes
  <2>3. st # 0
    BY <2>1, <2>2
  <2>4. \A h \in Nat : has_unpruned_block(h, bh, seed) <=>
           h + TIP_BLOCKS >= bh \/ ((h \div STRIPE_SIZE) % M) + 1 = st
    BY Zenon, <1>2, HasUnpruned
  <2>5. CASE has_unpruned_block(height, bh, seed)
    <3>1. Here
      BY Zenon, <2>1, <2>4, <2>5 DEF stripe_of_height
    <3>2. n = height
      BY Zenon, <3>1 DEF get_next_unpruned_block_height
    <3> HIDE DEF n
    <3> QED BY <2>5, <3>2 DEF IsLeastUnpruned, n
  <2>6. CASE ~has_unpruned_block(height, bh, seed)
    <3>1. ~(height + TIP_BLOCKS >= bh) /\ (Q % M) + 1 # st
      BY Zenon, <2>4, <2>6
    <3>2. ~Here
      BY Zenon, <2>1, <2>3, <3>1 DEF stripe_of_height
    <3>3. Q \in Nat /\ Q % M \in Nat
      BY <2>2, PruningAssumption, Quotient
    <3>4. st - 1 \in 0..(M - 1) /\ Q % M # st - 1
      <4> HIDE DEF Q, M, st
      <4> QED BY <2>1, <2>2, <3>1, <3>3
    <3>5. /\ R \in Nat
          /\ R > Q
          /\ R % M = st - 1
          /\ \A p \in Q..(R - 1) : p % M # st - 1
      BY Zenon, <2>2, <3>3, <3>4, NextWithResidue
    <3>6. next_stripe_start(height, seed) = STRIPE_SIZE * R
      <4> DEFINE k == IF st - 1 > Q % M THEN Q \div M ELSE (Q \div M) + 1
      <4>1. next_stripe_start(height, seed) =
               (IF st > (Q % M) + 1 THEN Q \div M ELSE (Q \div M) + 1)
                  * (STRIPE_SIZE * M) + (st - 1) * STRIPE_SIZE
        BY Zenon, <2>1 DEF next_stripe_start, stripe_of_height
      <4>2. st > (Q % M) + 1 <=> st - 1 > Q % M
        <5> HIDE DEF Q, M, st
        <5> QED BY <2>1, <2>2, <3>3
      <4>3. next_stripe_start(height, seed) = k * (STRIPE_SIZE * M) + (st - 1) * STRIPE_SIZE
        BY Zenon, <4>1, <4>2
      <4>4. R = k * M + (st - 1)
        BY Zenon DEF NextWith
      <4>5. k \in Nat
        <5>1. Q \div M \in Nat
          BY <2>2, <3>3, Quotient
        <5> QED BY <5>1
      <4>6. st - 1 \in Nat
        BY <3>4, <2>2
      <4> HIDE DEF k, M, st, R
      <4>7. \A kk \in Nat, mm \in Nat, ss \in Nat, S \in Nat :
               kk * (S * mm) + ss * S = S * (kk * mm + ss)
        OBVIOUS
      <4> QED BY <2>2, <4>3, <4>4, <4>5, <4>6, <4>7, PruningAssumption
    <3> DEFINE e == STRIPE_SIZE * R
    <3>7. e \in Nat /\ e \div STRIPE_SIZE = R
      <4> HIDE DEF R
      <4> QED BY <3>5, Multiple, Products, PruningAssumption
    <3>8. \A h \in Nat : h >= height /\ h < e => ((h \div STRIPE_SIZE) % M) + 1 # st
      <4> SUFFICES ASSUME NEW h \in Nat, h >= height, h < e
                   PROVE  ((h \div STRIPE_SIZE) % M) + 1 # st
        OBVIOUS
      <4> DEFINE p == h \div STRIPE_SIZE
      <4>1. p < R
        <5> HIDE DEF R
        <5> QED BY <3>5, Multiple, PruningAssumption
      <4>2. p \in Nat /\ Q <= p
        <5>1. STRIPE_SIZE * Q <= height /\ STRIPE_SIZE * Q \in Nat
          BY <3>3, Quotient, Products, PruningAssumption
        <5>2. STRIPE_SIZE * Q <= h
          <6> HIDE DEF Q
          <6> QED BY <5>1
        <5>3. p \in Nat
          BY Quotient, PruningAssumption
        <5> HIDE DEF Q
        <5> QED BY <3>3, <5>2, <5>3, Multiple, PruningAssumption
      <4> HIDE DEF p, R, Q
      <4>3. p \in Q..(R - 1)
        BY <3>3, <3>5, <4>1, <4>2
      <4>4. p % M # st - 1
        BY Zenon, <3>5, <4>3
      <4>5. p % M \in Nat
        BY <2>2, <4>2
      <4> HIDE DEF M, st
      <4>6. (p % M) + 1 # st
        BY <2>1, <2>2, <4>4, <4>5
      <4> QED BY <4>6 DEF p
    <3>9. height < e
      <4> SUFFICES ASSUME e <= height PROVE FALSE
        BY <3>7
      <4> HIDE DEF R
      <4>1. R <= Q
        BY <3>5, Multiple, PruningAssumption
      <4> HIDE DEF Q
      <4> QED BY <3>3, <3>5, <4>1
    <3>10. n = IF e + TIP_BLOCKS > bh
               THEN IF bh < TIP_BLOCKS THEN 0 ELSE bh - TIP_BLOCKS
               ELSE e
      BY Zenon, <3>2, <3>6 DEF get_next_unpruned_block_height
    <3>11. (R % M) + 1 = st
      <4> HIDE DEF M, st, R
      <4> QED BY <2>1, <2>2, <3>5
    <3> HIDE DEF n, e
    <3>12. n \in Nat /\ n >= height /\ n <= e /\ (n + TIP_BLOCKS >= bh \/ n = e)
      BY <3>1, <3>7, <3>9, <3>10, PruningAssumption
    <3>13. has_unpruned_block(n, bh, seed)
      BY Zenon, <2>4, <3>7, <3>11, <3>12
    <3>14. \A h \in height..(n - 1) : h \in Nat /\ h >= height /\ h < e /\ ~(h + TIP_BLOCKS >= bh)
      BY <3>1, <3>7, <3>9, <3>10, PruningAssumption
    <3>15. \A h \in height..(n - 1) : ~has_unpruned_block(h, bh, seed)
      BY Zenon, <2>4, <3>8, <3>14
    <3> QED BY Zenon, <3>12, <3>13, <3>15 DEF IsLeastUnpruned, n
  <2> QED BY <2>5, <2>6
<1> QED BY <1>1, <1>2

(* make_pruning_seed makes a proper seed of the stripe it is given.         *)
LEMMA MadeSeed ==
  ASSUME NEW st \in 1..(2^LOG_STRIPES)
  PROVE  LET seed == make_pruning_seed(st, LOG_STRIPES)
         IN  ProperSeed(seed) /\ seed # 0 /\ seed_stripe(seed) = st
<1> DEFINE ls == LOG_STRIPES
           seed == make_pruning_seed(st, ls)
<1>1. ls \in 1..7
  BY PruningAssumption
<1>2. 2^ls \in Nat /\ 2^ls <= 128
  BY Stripes
<1>3. st \in 1..128 /\ st <= 2^ls
  BY <1>2
<1>4. 2^7 = 128
  OBVIOUS
<1>5. seed = ls * 128 + (st - 1)
  BY Zenon, <1>4 DEF make_pruning_seed, PRUNING_SEED_LOG_STRIPES_SHIFT
<1>6. get_pruning_log_stripes(seed) = (seed \div 128) % 8
  BY Zenon, <1>4 DEF get_pruning_log_stripes, PRUNING_SEED_LOG_STRIPES_SHIFT
<1>7. seed_stripe(seed) = IF seed = 0 THEN 0 ELSE 1 + (seed % 128)
  BY Zenon, <1>4 DEF seed_stripe, PRUNING_SEED_LOG_STRIPES_SHIFT
<1> HIDE DEF ls, seed
<1>8. seed \in Nat /\ seed # 0 /\ seed \div 128 = ls /\ seed % 128 = st - 1
  BY <1>1, <1>3, <1>5
<1>9. get_pruning_log_stripes(seed) = ls /\ seed_stripe(seed) = st
  BY <1>1, <1>3, <1>6, <1>7, <1>8
<1> QED BY Zenon, <1>3, <1>8, <1>9 DEF ProperSeed, ls, seed

(* get_next_pruned_block_height stops no later than the first block that is *)
(* not kept, and before it only at the tip.                                 *)
THEOREM NextPrunedInTime ==
  ASSUME NEW height \in Nat, NEW bh \in Nat, height <= bh, NEW seed, ProperSeed(seed)
  PROVE  LET n == get_next_pruned_block_height(height, bh, seed)
         IN  n \in Nat /\ StopsInTime(n, height, bh, seed)
<1> DEFINE n == get_next_pruned_block_height(height, bh, seed)
           st == seed_stripe(seed)
           M == 2^LOG_STRIPES
           Q == height \div STRIPE_SIZE
           next == 1 + (st % M)
           other == make_pruning_seed(next, LOG_STRIPES)
<1>1. CASE seed = 0
  <2>1. st = 0
    BY <1>1 DEF seed_stripe
  <2>2. n = bh
    BY Zenon, <2>1 DEF get_next_pruned_block_height
  <2>3. \A h : has_unpruned_block(h, bh, seed)
    BY Zenon, <2>1 DEF has_unpruned_block
  <2> HIDE DEF n
  <2>4. n + TIP_BLOCKS >= bh
    BY <2>2, PruningAssumption
  <2> QED BY Zenon, <2>2, <2>3, <2>4 DEF StopsInTime, n
<1>2. CASE seed # 0 /\ height + TIP_BLOCKS >= bh
  <2>1. n = bh
    BY Zenon, <1>2 DEF get_next_pruned_block_height
  <2> HIDE DEF n
  <2>2. n + TIP_BLOCKS >= bh
    BY <2>1, PruningAssumption
  <2>3. \A h \in height..(n - 1) : h \in Nat /\ h + TIP_BLOCKS >= bh
    BY <1>2, <2>1, PruningAssumption
  <2>4. \A h \in height..(n - 1) : has_unpruned_block(h, bh, seed)
    BY Zenon, <1>2, <2>3, HasUnpruned
  <2> QED BY Zenon, <2>1, <2>2, <2>4 DEF StopsInTime, n
<1>3. CASE seed # 0 /\ ~(height + TIP_BLOCKS >= bh)
  <2>1. /\ st \in 1..M
        /\ log_stripes_of(seed) = LOG_STRIPES
    BY <1>3, SeedStripe
  <2>2. M \in Nat \ {0} /\ LOG_STRIPES \in 1..7
    BY Stripes
  <2>3. st # 0
    BY <2>1, <2>2
  <2>4. Q \in Nat /\ Q % M \in Nat
    BY <2>2, PruningAssumption, Quotient
  <2>5. stripe_of_height(height, LOG_STRIPES) = (Q % M) + 1
    BY Zenon DEF stripe_of_height
  <2>6. CASE (Q % M) + 1 # st
    <3>1. n = height
      BY Zenon, <1>3, <2>1, <2>3, <2>5, <2>6 DEF get_next_pruned_block_height
    <3>2. ~has_unpruned_block(height, bh, seed)
      BY Zenon, <1>3, <2>6, HasUnpruned
    <3> HIDE DEF n
    <3>3. height..(n - 1) = {}
      BY <3>1
    <3> QED BY Zenon, <3>1, <3>2, <3>3 DEF StopsInTime, n
  <2>7. CASE (Q % M) + 1 = st
    <3>1. n = get_next_unpruned_block_height(height, bh, other)
      BY Zenon, <1>3, <2>1, <2>3, <2>5, <2>7 DEF get_next_pruned_block_height
    <3>2. next \in 1..M
      <4> HIDE DEF st, M
      <4> QED BY <2>1, <2>2
    <3>3. ProperSeed(other) /\ other # 0 /\ seed_stripe(other) = next
      <4> HIDE DEF next
      <4> QED BY Zenon, <3>2, MadeSeed
    <3>4. n \in Nat /\ IsLeastUnpruned(n, height, bh, other)
      BY Zenon, <3>1, <3>3, NextUnprunedLeast
    <3>5. (Q + 1) % M = st % M
      <4> HIDE DEF Q, st
      <4>1. st = (Q % M) + 1
        BY <2>1, <2>2, <2>4, <2>7
      <4> QED BY <2>2, <2>4, <4>1, Residues
    <3> DEFINE e == STRIPE_SIZE * (Q + 1)
    <3>6. e \in Nat /\ e \div STRIPE_SIZE = Q + 1
      <4> HIDE DEF Q
      <4>1. Q + 1 \in Nat
        BY <2>4
      <4> QED BY <4>1, Multiple, Products, PruningAssumption
    <3>7. \A h \in Nat : h >= height /\ h < e => h \div STRIPE_SIZE = Q
      <4> SUFFICES ASSUME NEW h \in Nat, h >= height, h < e
                   PROVE  h \div STRIPE_SIZE = Q
        OBVIOUS
      <4>1. STRIPE_SIZE * Q <= height /\ STRIPE_SIZE * Q \in Nat
        BY <2>4, Quotient, Products, PruningAssumption
      <4> HIDE DEF Q
      <4>2. STRIPE_SIZE * Q <= h
        BY <4>1
      <4>3. h \div STRIPE_SIZE \in Nat
        BY Quotient, PruningAssumption
      <4>4. Q + 1 \in Nat
        BY <2>4
      <4>5. h \div STRIPE_SIZE < Q + 1 /\ Q <= h \div STRIPE_SIZE
        BY <2>4, <4>2, <4>4, Multiple, PruningAssumption
      <4> QED BY <2>4, <4>3, <4>5
    <3>8. has_unpruned_block(e, bh, other)
      <4>1. ((e \div STRIPE_SIZE) % M) + 1 = next
        <5>1. (e \div STRIPE_SIZE) % M = st % M
          BY Zenon, <3>5, <3>6
        <5> HIDE DEF e, M, st
        <5>2. st % M \in Nat
          BY <2>1, <2>2
        <5> QED BY <5>1, <5>2
      <4> HIDE DEF e
      <4> QED BY Zenon, <3>3, <3>6, <4>1, HasUnpruned
    <3>9. height < e
      <4>1. height < STRIPE_SIZE * Q + STRIPE_SIZE
        BY Quotient, PruningAssumption
      <4>2. e = STRIPE_SIZE * Q + STRIPE_SIZE
        <5> HIDE DEF Q
        <5> QED BY <2>4, Products, PruningAssumption
      <4> HIDE DEF Q
      <4> QED BY <4>1, <4>2
    <3> HIDE DEF e, n
    <3>10. n <= e
      BY <3>4, <3>6, <3>8, <3>9 DEF IsLeastUnpruned
    <3>11. \A h \in height..(n - 1) : h \in Nat /\ h >= height /\ h < e
      BY <3>4, <3>6, <3>10
    <3>12. \A h \in height..(n - 1) : has_unpruned_block(h, bh, seed)
      BY Zenon, <1>3, <2>7, <3>7, <3>11, HasUnpruned
    <3>13. ~has_unpruned_block(n, bh, seed) \/ n + TIP_BLOCKS >= bh
      <4>1. n + TIP_BLOCKS >= bh \/ ((n \div STRIPE_SIZE) % M) + 1 = next
        BY Zenon, <3>3, <3>4, HasUnpruned DEF IsLeastUnpruned
      <4>2. next # st
        <5>1. st % M # Q % M
          BY Zenon, <2>2, <2>4, <3>5, Residues
        <5> HIDE DEF Q, M, st
        <5>2. st % M \in Nat
          BY <2>1, <2>2
        <5> QED BY <2>4, <2>7, <5>1, <5>2
      <4> HIDE DEF next
      <4> QED BY Zenon, <1>3, <3>4, <4>1, <4>2, HasUnpruned
    <3> QED BY Zenon, <3>4, <3>12, <3>13 DEF StopsInTime, n
  <2> QED BY <2>6, <2>7
<1> QED BY <1>1, <1>2, <1>3
-----------------------------------------------------------------------------
(* The loop of reserve_span over requested hashes stops, at the first hash  *)
(* that is not requested or one past the end.                               *)
LEMMA SkipRequested ==
  ASSUME NEW Q, NEW hs \in Seq(Hashes), NEW i \in 1..(Len(hs) + 1)
  PROVE  skip_requested(Q, hs, i) \in i..(Len(hs) + 1)
<1> DEFINE T == {j \in i..(Len(hs) + 1) : j = Len(hs) + 1 \/ hs[j] \notin Q.requested}
<1>1. Len(hs) \in Nat
  OBVIOUS
<1>2. T \subseteq Nat /\ T # {}
  BY <1>1
<1>3. PICK j \in T : \A k \in T : j <= k
  BY Zenon, <1>2, HasLeast
<1>4. \A k \in i..(j - 1) : hs[k] \in Q.requested
  BY <1>1, <1>3
<1>5. \E jj \in i..(Len(hs) + 1) :
        /\ \A k \in i..(jj - 1) : hs[k] \in Q.requested
        /\ jj = Len(hs) + 1 \/ hs[jj] \notin Q.requested
  BY <1>3, <1>4
<1> QED BY <1>5 DEF skip_requested

(* The loop of reserve_span that collects hashes stops, and collects only   *)
(* what belongs in the span.                                                *)
LEMMA SpanLength ==
  ASSUME NEW start, NEW n \in Nat, NEW sp, NEW bh, NEW seed
  PROVE  LET len == span_length(start, n, sp, bh, seed)
         IN  /\ len \in 0..n
             /\ \A k \in 0..(len - 1) : extends_span(start, k, sp, bh, seed)
<1> DEFINE T == {len \in 0..n : len = n \/ ~extends_span(start, len, sp, bh, seed)}
<1>1. T \subseteq Nat /\ T # {}
  OBVIOUS
<1>2. PICK len \in T : \A k \in T : len <= k
  BY ZenonT(40), <1>1, HasLeast
<1>3. \A k \in 0..(len - 1) : extends_span(start, k, sp, bh, seed)
  BY <1>2
<1>4. \E l \in 0..n :
        /\ \A k \in 0..(l - 1) : extends_span(start, k, sp, bh, seed)
        /\ l = n \/ ~extends_span(start, l, sp, bh, seed)
  BY <1>2, <1>3
<1> QED BY <1>4 DEF span_length

(* r reserves a piece of hs, at the place that its start height says, when  *)
(* the last of hs is at the height last: at most max hashes, all of which   *)
(* belong in the span.                                                      *)
TakesPiece(r, Q, last, max, c, sp, bh, hs) ==
  \E i \in 1..Len(hs), len \in 1..Len(hs) :
    /\ i + len - 1 <= Len(hs)
    /\ len <= max
    /\ r.len = len
    /\ r.start = last - Len(hs) + i
    /\ \A k \in 0..(len - 1) : extends_span(r.start, k, sp, bh, PeerSeed[c])
    /\ r.queue = set_span_hashes(add_scheduled(Q, r.start, len, c),
                                 r.start, c, SubSeq(hs, i, i + len - 1))

(* What reserve_span takes from the list it is given is a piece of it, at   *)
(* the place that the start height it returns says.                         *)
LEMMA ReserveSpanTakes ==
  ASSUME NEW Q, NEW first \in Nat, NEW last \in Nat, NEW max \in Nat,
         NEW c \in Connections, NEW sp, NEW bh \in Nat, NEW hs \in Seq(Hashes),
         Len(hs) <= last,
         reserve_span(Q, first, last, max, c, sp, bh, hs).len # 0
  PROVE  TakesPiece(reserve_span(Q, first, last, max, c, sp, bh, hs),
                    Q, last, max, c, sp, bh, hs)
<1> DEFINE base  == last + 1 - Len(hs)
           i0    == skip_requested(Q, hs, 1)
           start0 == skip_pruned(base + i0 - 1, sp, bh, PeerSeed[c])
           i     == skip_requested(Q, hs, start0 - base + 1)
           start == base + i - 1
           left  == Len(hs) - i + 1
           n     == IF left < max THEN left ELSE max
           len   == span_length(start, n, sp, bh, PeerSeed[c])
           taken == SubSeq(hs, i, i + len - 1)
           r     == reserve_span(Q, first, last, max, c, sp, bh, hs)
<1>1. ~(last < first \/ max = 0 \/ Len(hs) > last \/ start0 >= base + Len(hs) \/ len = 0)
  <2>1. NoSpan(Q).len = 0
    BY DEF NoSpan
  <2> SUFFICES ASSUME \/ last < first
                      \/ max = 0
                      \/ Len(hs) > last
                      \/ start0 >= base + Len(hs)
                      \/ len = 0
               PROVE  r = NoSpan(Q)
    BY Zenon, <2>1
  <2> QED BY Zenon DEF reserve_span
<1>2. /\ r.queue = set_span_hashes(add_scheduled(Q, start, len, c), start, c, taken)
      /\ r.start = start
      /\ r.len = len
  BY Zenon, <1>1 DEF reserve_span
<1> HIDE DEF r
<1>3. Len(hs) \in Nat /\ base \in Nat \ {0}
  OBVIOUS
<1> HIDE DEF base
<1>4. i0 \in 1..(Len(hs) + 1)
  BY <1>3, SkipRequested
<1> HIDE DEF i0
<1>5. start0 \in Nat /\ start0 >= base
  <2>1. base + i0 - 1 \in Nat /\ base + i0 - 1 >= base
    BY <1>3, <1>4
  <2>2. ProperSeed(PeerSeed[c])
    BY CallerAssumption
  <2> DEFINE s0 == base + i0 - 1
             un == get_next_unpruned_block_height(s0, bh, PeerSeed[c])
  <2>3. un \in Nat
    BY Zenon, <2>1, <2>2, NextUnprunedLeast
  <2>4. start0 = s0 \/ (start0 = un /\ un > s0)
    BY DEF skip_pruned
  <2> HIDE DEF un, start0
  <2> QED BY <2>1, <2>3, <2>4, <1>3
<1> HIDE DEF start0
<1>6. start0 - base + 1 \in 1..Len(hs)
  BY <1>1, <1>3, <1>5
<1>7. i \in 1..(Len(hs) + 1)
  <2>1. i \in (start0 - base + 1)..(Len(hs) + 1)
    BY <1>3, <1>6, SkipRequested
  <2> QED BY <1>3, <1>6, <2>1
<1> HIDE DEF i
<1>8. n \in Nat /\ n <= Len(hs) - i + 1 /\ n <= max
  BY <1>3, <1>7
<1> HIDE DEF n
<1>9. /\ len \in 0..n
      /\ \A k \in 0..(len - 1) : extends_span(start, k, sp, bh, PeerSeed[c])
  BY Zenon, <1>8, SpanLength
<1> HIDE DEF len
<1>10. len \in 1..Len(hs) /\ i \in 1..Len(hs) /\ i + len - 1 <= Len(hs) /\ len <= max
  BY <1>1, <1>3, <1>7, <1>8, <1>9
<1>11. start = last - Len(hs) + i
  BY <1>3, <1>10 DEF base
<1>12. r.start = last - Len(hs) + i
  BY <1>2, <1>11
<1>13. r.queue = set_span_hashes(add_scheduled(Q, r.start, len, c), r.start, c,
                                 SubSeq(hs, i, i + len - 1))
  BY <1>2
<1>14. \A k \in 0..(len - 1) : extends_span(r.start, k, sp, bh, PeerSeed[c])
  BY Zenon, <1>2, <1>9
<1> QED BY Zenon, <1>2, <1>10, <1>12, <1>13, <1>14 DEF r, TakesPiece
-----------------------------------------------------------------------------
(* The chain of a peer is a sequence of hashes.                             *)
LEMMA ChainType ==
  ASSUME NEW c \in Connections
  PROVE  /\ Chain[c] \in Seq(Hashes)
         /\ Len(Chain[c]) \in Nat
BY ChainAssumption

(* The hashes a peer's chain has from a height on, and how many they are.   *)
LEMMA ChainTail ==
  ASSUME NEW c \in Connections, NEW first \in DOMAIN Chain[c]
  PROVE  LET hs == SubSeq(Chain[c], first, Len(Chain[c]))
         IN  /\ hs \in Seq(Hashes)
             /\ Len(hs) = Len(Chain[c]) - first + 1
             /\ \A k \in 1..Len(hs) : hs[k] = Chain[c][first + k - 1]
<1>1. Chain[c] \in Seq(Hashes) /\ Len(Chain[c]) \in Nat
  BY ChainType
<1>2. first \in 1..Len(Chain[c])
  BY <1>1
<1>3. \A k \in first..Len(Chain[c]) : Chain[c][k] \in Hashes
  BY <1>1, <1>2
<1> QED
  <2> DEFINE s == Chain[c]
             n == Len(Chain[c])
  <2>1. n \in Int /\ first \in Int /\ first <= n
    BY <1>1, <1>2
  <2>2. \A k \in first..n : s[k] \in Hashes
    BY <1>3
  <2> HIDE DEF s, n
  <2>3. /\ SubSeq(s, first, n) \in Seq(Hashes)
        /\ Len(SubSeq(s, first, n)) = n - first + 1
        /\ \A k \in 1..(n - first + 1) : SubSeq(s, first, n)[k] = s[first + k - 1]
    BY SMTT(40), <2>1, <2>2, SubSeqProperties
  <2> QED BY SMTT(40), <2>3 DEF s, n

(* Every hash has a height, the place it has in the chains that contain it. *)
LEMMA HeightOfHash ==
  /\ Height \in [Hashes -> Nat \ {0}]
  /\ \A c \in Connections : \A i \in DOMAIN Chain[c] : Height[Chain[c][i]] = i
<1> DEFINE D == UNION {DOMAIN Chain[c] : c \in Connections}
           At(h, i) == \E c \in Connections : i \in DOMAIN Chain[c] /\ Chain[c][i] = h
<1>1. \A h \in Hashes : \E i \in D : At(h, i)
  BY DEF Hashes, Elems
<1>2. \A h \in Hashes : Height[h] \in D /\ At(h, Height[h])
  BY Zenon, <1>1 DEF Height
<1>3. D \subseteq Nat \ {0}
  <2>1. \A c \in Connections : DOMAIN Chain[c] \subseteq Nat \ {0}
    BY ChainType
  <2> QED BY <2>1
<1>4. \A c \in Connections : \A i \in DOMAIN Chain[c] : Chain[c][i] \in Hashes
  BY DEF Hashes, Elems
<1>5. \A c \in Connections : \A i \in DOMAIN Chain[c] : Height[Chain[c][i]] = i
  BY <1>2, <1>4, ChainAssumption
<1>6. Height \in [Hashes -> Nat \ {0}]
  BY <1>2, <1>3 DEF Height
<1> QED BY <1>5, <1>6

(* A piece of a peer's chain: how long it is and the heights of its hashes. *)
LEMMA ChainPiece ==
  ASSUME NEW c \in Connections, NEW start \in Nat \ {0}, NEW len \in Nat \ {0},
         start + len - 1 <= Len(Chain[c])
  PROVE  LET piece == SubSeq(Chain[c], start, start + len - 1)
         IN  /\ piece \in Seq(Hashes)
             /\ Len(piece) = len
             /\ \A k \in 1..len : /\ piece[k] = Chain[c][start + k - 1]
                                  /\ Height[piece[k]] = start + k - 1
<1> DEFINE s == Chain[c]
           e == start + len - 1
           piece == SubSeq(s, start, e)
<1>1. s \in Seq(Hashes) /\ Len(s) \in Nat
  BY ChainType
<1>2. \A k \in start..e : k \in 1..Len(s) /\ s[k] \in Hashes
  BY <1>1
<1>3. \A k \in 1..len : start + k - 1 \in DOMAIN s
  BY <1>1
<1>4. start \in Int /\ e \in Int /\ e - start + 1 = len /\ start <= e
  OBVIOUS
<1> HIDE DEF s, e
<1>5. /\ piece \in Seq(Hashes)
      /\ Len(piece) = len
      /\ \A k \in 1..len : piece[k] = s[start + k - 1]
  BY SMTT(40), <1>2, <1>4, SubSeqProperties
<1>6. \A k \in 1..len : Height[piece[k]] = start + k - 1
  BY Zenon, <1>3, <1>5, HeightOfHash DEF s
<1> QED BY Zenon, <1>5, <1>6 DEF s, e

(* What a step of RequestSpan does: it reserves a piece of the peer's chain *)
(* and asks for it.                                                         *)
Reserves(c, start, len) ==
  LET piece == SubSeq(Chain[c], start, start + len - 1)
      sp    == sync_pruned /\ LocalSeed # 0
  IN  /\ len <= MaxBlocks
      /\ start + len - 1 <= Len(Chain[c])
      /\ \A k \in 0..(len - 1) :
           extends_span(start, k, sp, Len(Chain[c]) + 1, PeerSeed[c])
      /\ q' = set_span_hashes(add_scheduled(q, start, len, c), start, c, piece)
      /\ asked' = [asked EXCEPT ![c] = piece]

(* The hashes that reserve_span takes by their index in m_needed_objects    *)
(* are those at the heights it reserves.                                    *)
LEMMA RequestReserves ==
  ASSUME NEW c \in Connections, NEW first \in DOMAIN Chain[c], RequestSpan(c, first)
  PROVE  \E start \in Nat \ {0}, len \in Nat \ {0} : Reserves(c, start, len)
<1> DEFINE last == Len(Chain[c])
           hs == SubSeq(Chain[c], first, last)
           sp == sync_pruned /\ LocalSeed # 0
           r == reserve_span(q, first, last, MaxBlocks, c, sp, last + 1, hs)
<1>1. /\ hs \in Seq(Hashes)
      /\ Len(hs) = last - first + 1
      /\ \A k \in 1..Len(hs) : hs[k] = Chain[c][first + k - 1]
  BY ChainTail
<1>2. first \in 1..last /\ last \in Nat /\ Chain[c] \in Seq(Hashes)
  BY ChainType
<1>3. MaxBlocks \in Nat
  BY CallerAssumption, PruningAssumption
<1>4. /\ r.len # 0
      /\ q' = r.queue
      /\ asked' = [asked EXCEPT ![c] = SubSeq(Chain[c], r.start, r.start + r.len - 1)]
  BY SMTT(40) DEF RequestSpan
<1> HIDE DEF hs, last, sp
<1>5. first \in Nat /\ last \in Nat /\ last + 1 \in Nat /\ Len(hs) <= last
  BY <1>1, <1>2
<1>6. TakesPiece(r, q, last, MaxBlocks, c, sp, last + 1, hs)
  BY Zenon, <1>1, <1>3, <1>4, <1>5, ReserveSpanTakes
<1> HIDE DEF r
<1>7. PICK i \in 1..Len(hs), len \in 1..Len(hs) :
        /\ i + len - 1 <= Len(hs)
        /\ len <= MaxBlocks
        /\ r.len = len
        /\ r.start = last - Len(hs) + i
        /\ \A k \in 0..(len - 1) : extends_span(r.start, k, sp, last + 1, PeerSeed[c])
        /\ r.queue = set_span_hashes(add_scheduled(q, r.start, len, c),
                                     r.start, c, SubSeq(hs, i, i + len - 1))
  BY Zenon, <1>6 DEF TakesPiece
<1>8. /\ len \in Nat \ {0}
      /\ r.start \in Nat \ {0}
      /\ r.start = first + i - 1
      /\ r.start + len - 1 <= last
  BY <1>1, <1>2, <1>7
<1> DEFINE piece == SubSeq(Chain[c], r.start, r.start + len - 1)
<1>9. SubSeq(hs, i, i + len - 1) = piece
  <2>1. /\ piece \in Seq(Hashes)
        /\ Len(piece) = len
        /\ \A k \in 1..len : piece[k] = Chain[c][r.start + k - 1]
    BY Zenon, <1>8, ChainPiece DEF last
  <2> DEFINE taken == SubSeq(hs, i, i + len - 1)
  <2>2. \A k \in i..(i + len - 1) : hs[k] \in Hashes
    BY <1>1, <1>7
  <2>3. i \in Int /\ i + len - 1 \in Int /\ (i + len - 1) - i + 1 = len /\ i <= i + len - 1
    BY <1>7, <1>8, <1>1
  <2>4. /\ taken \in Seq(Hashes)
        /\ Len(taken) = len
        /\ \A k \in 1..len : taken[k] = hs[i + k - 1]
    BY SMTT(40), <2>2, <2>3, SubSeqProperties
  <2> HIDE DEF taken, piece
  <2>5. \A k \in 1..len : taken[k] = piece[k]
    <3> SUFFICES ASSUME NEW k \in 1..len PROVE taken[k] = piece[k]
      OBVIOUS
    <3>1. i + k - 1 \in 1..Len(hs) /\ first + (i + k - 1) - 1 = r.start + k - 1
      BY <1>1, <1>2, <1>7, <1>8
    <3> QED BY Zenon, <1>1, <2>1, <2>4, <3>1
  <2>6. taken = piece
    BY <1>8, <2>1, <2>4, <2>5, SeqEqual
  <2> QED BY <2>6 DEF taken
<1>10. Reserves(c, r.start, len)
  BY Zenon, <1>4, <1>7, <1>8, <1>9 DEF Reserves, last, sp
<1> QED BY <1>8, <1>10
-----------------------------------------------------------------------------
(* A non-empty set of spans has a lowest one.                               *)
LEMMA FirstSpan ==
  ASSUME NEW S \in SUBSET Span, S # {}
  PROVE  /\ first_span(S) \in S
         /\ \A t \in S : first_span(S).start <= t.start
<1>1. {s.start : s \in S} \subseteq Nat /\ {s.start : s \in S} # {}
  BY DEF Span
<1>2. PICK n \in {s.start : s \in S} : \A m \in {s.start : s \in S} : n <= m
  BY Zenon, <1>1, HasLeast
<1>3. \E s \in S : \A t \in S : s.start <= t.start
  BY <1>2
<1> QED BY <1>3 DEF first_span

(* The queue is empty, and so consistent, when the node starts.             *)
LEMMA InitConsistent == Init => IInv
<1> SUFFICES ASSUME Init PROVE IInv
  OBVIOUS
<1>1. Consistent(q)
  BY DEF Init, EmptyQueue, Consistent, Queue, UniqueStarts, RequestedInSpans,
         HaveInFilledSpans
<1> QED BY <1>1 DEF Init, IInv, TypeOK, Consistent

(* Every step of the handler keeps the queue consistent.                    *)
LEMMA StepConsistent == IInv /\ [Next]_vars => IInv'
<1> SUFFICES ASSUME IInv, [Next]_vars PROVE IInv'
  OBVIOUS
<1> USE DEF IInv
<1>1. ASSUME NEW c \in Connections, Connect(c) PROVE IInv'
  BY <1>1 DEF Connect, TypeOK, Consistent
<1>2. ASSUME NEW c \in Connections, NEW first \in DOMAIN Chain[c], RequestSpan(c, first)
      PROVE  IInv'
  <2>1. PICK start \in Nat \ {0}, len \in Nat \ {0} : Reserves(c, start, len)
    BY Zenon, <1>2, RequestReserves
  <2> DEFINE piece == SubSeq(Chain[c], start, start + len - 1)
  <2>2. piece \in Seq(Hashes)
    BY Zenon, <2>1, ChainPiece DEF Reserves
  <2>3. Consistent(q')
    <3>1. Consistent(add_scheduled(q, start, len, c))
      BY AddScheduledConsistent
    <3> HIDE DEF piece
    <3>2. Consistent(set_span_hashes(add_scheduled(q, start, len, c), start, c, piece))
      BY Zenon, <2>2, <3>1, SetSpanHashesConsistent
    <3> QED BY Zenon, <2>1, <3>2 DEF Reserves, piece
  <2>4. asked' \in [Connections -> Seq(Hashes)]
    <3>1. asked' = [asked EXCEPT ![c] = piece]
      BY Zenon, <2>1 DEF Reserves
    <3> HIDE DEF piece
    <3> QED BY <2>2, <3>1 DEF TypeOK
  <2>5. UNCHANGED <<status, snapshot, picked, sync_pruned>>
    BY Zenon, <1>2 DEF RequestSpan
  <2> QED BY <2>3, <2>4, <2>5 DEF TypeOK, Consistent
<1>3. ASSUME NEW c \in Connections, RequestNextSpan(c) PROVE IInv'
  <2>1. first_span(q.blocks) \in q.blocks
    BY Zenon, <1>3, FirstSpan DEF RequestNextSpan, next_is_scheduled, Consistent, Queue
  <2>2. first_span(q.blocks).hashes \in Seq(Hashes)
    BY SMTT(40), <2>1 DEF Consistent, Queue, Span
  <2> QED BY SMTT(40), <1>3, <2>2 DEF RequestNextSpan, TypeOK, Consistent
<1>4. ASSUME NEW c \in Connections, ReceiveBlocks(c) PROVE IInv'
  <2>1. asked[c] \in Seq(Hashes) /\ asked[c] # <<>>
    BY <1>4 DEF ReceiveBlocks, TypeOK
  <2>2. Height[asked[c][1]] \in Nat
    BY SMTT(40), <2>1, HeightOfHash
  <2>3. Consistent(q')
    <3>1. Consistent(add_filled(q, Height[asked[c][1]], asked[c], c))
      BY Zenon, <2>1, <2>2, AddFilledConsistent
    <3>2. q' = add_filled(q, Height[asked[c][1]], asked[c], c)
      BY Zenon, <1>4 DEF ReceiveBlocks
    <3> QED BY Zenon, <3>1, <3>2
  <2>4. asked' \in [Connections -> Seq(Hashes)]
    BY SMTT(40), <1>4 DEF ReceiveBlocks, TypeOK
  <2> QED BY SMTT(40), <1>4, <2>3, <2>4 DEF ReceiveBlocks, TypeOK, Consistent
<1>5. ASSUME NEW c \in Connections, NEW all \in BOOLEAN, CloseConnection(c, all)
      PROVE  IInv'
  <2>1. Consistent(flush_spans(q, c, all))
    BY EraseConsistent DEF flush_spans
  <2>2. /\ asked' \in [Connections -> Seq(Hashes)]
        /\ status' \in [Connections -> {"new", "live", "dead"}]
    BY <1>5 DEF CloseConnection, TypeOK
  <2> QED BY <1>5, <2>1, <2>2 DEF CloseConnection, TypeOK, Consistent
<1>6. CASE CollectLive
  BY SMTT(40), <1>6 DEF CollectLive, TypeOK, Live, Consistent
<1>7. CASE FlushStale
  <2>1. Consistent(flush_stale_spans(q, snapshot))
    BY SMTT(40), EraseConsistent DEF flush_stale_spans
  <2>2. Consistent(q')
    BY Zenon, <1>7, <2>1 DEF FlushStale
  <2> QED BY SMTT(40), <1>7, <2>2 DEF FlushStale, TypeOK, Consistent
<1>8. CASE PickSpan
  <2>1. get_next_span(q) \in q.blocks
    BY <1>8, FirstSpan DEF PickSpan, get_next_span, filled_spans, Consistent, Queue
  <2>2. get_next_span(q).conn \in Connections /\ get_next_span(q).start \in Nat
    BY SMTT(40), <2>1 DEF Consistent, Queue, Span
  <2> QED BY SMTT(40), <1>8, <2>2 DEF PickSpan, TypeOK, Consistent
<1>9. CASE FinishSpan
  <2>1. Consistent(remove_spans(q, picked.conn, picked.start))
    BY SMTT(40), EraseConsistent DEF remove_spans
  <2> QED BY SMTT(40), <1>9, <2>1 DEF FinishSpan, TypeOK, Consistent
<1>10. CASE LeaveSpan
  BY SMTT(40), <1>10 DEF LeaveSpan, TypeOK, Consistent
<1>11. CASE UNCHANGED vars
  BY <1>11 DEF vars, TypeOK, Consistent, UniqueStarts, RequestedInSpans,
               HaveInFilledSpans
<1> QED
  BY SMTT(40), <1>1, <1>2, <1>3, <1>4, <1>5, <1>6, <1>7, <1>8, <1>9, <1>10, <1>11 DEF Next

(* The state of the queue and of its callers is well-typed in every         *)
(* reachable state, and the queue is consistent.                            *)
THEOREM QueueConsistent == Spec => []IInv
BY InitConsistent, StepConsistent, PTL DEF Spec

(* The variables keep their types.                                          *)
THEOREM QueueTypeOK == Spec => []TypeOK
<1>1. IInv => TypeOK
  BY DEF IInv
<1> QED BY <1>1, QueueConsistent, PTL

(* A hash reported as requested is in some span: reserve_span never skips a *)
(* hash for ever because of a reservation that is gone.                     *)
THEOREM QueueRequestedIsQueued == Spec => []RequestedIsQueued
<1>1. IInv => RequestedIsQueued
  BY SpanHashesMember DEF IInv, Consistent, RequestedInSpans, RequestedIsQueued
<1> QED BY <1>1, QueueConsistent, PTL

(* A hash reported as had is among the hashes of a filled span and is       *)
(* reported as requested.                                                   *)
THEOREM QueueHaveIsFilled == Spec => []HaveIsFilled
<1>1. IInv => HaveIsFilled
  <2> SUFFICES ASSUME IInv, NEW h \in q.have
               PROVE  h \in SpanHashes(filled_spans(q)) /\ h \in q.requested
    BY DEF HaveIsFilled
  <2>1. h \in q.requested /\ \E s \in filled_spans(q) : h \in Elems(s.hashes)
    BY DEF IInv, Consistent, HaveInFilledSpans, filled_spans
  <2> QED BY <2>1, SpanHashesMember
<1> QED BY <1>1, QueueConsistent, PTL
-----------------------------------------------------------------------------
(* Where the hashes and the blocks of a span are, and what a peer is asked. *)
AlignedAt(hs, start) == \A k \in DOMAIN hs : Height[hs[k]] = start + k - 1

(* A reservation is what its connection is being asked for.                 *)
Owed ==
  \A s \in q.blocks : ~Filled(s) => /\ s.hashes = asked[s.conn]
                                    /\ s.hashes # <<>>
                                    /\ Len(s.hashes) = s.nblocks

(* A request is for blocks at consecutive heights, and not too many.        *)
InOrder ==
  \A c \in Connections :
    asked[c] # <<>> => /\ AlignedAt(asked[c], Height[asked[c][1]])
                       /\ Len(asked[c]) <= MaxBlocks

UniformSpan(s) ==
  \A k \in DOMAIN s.hashes :
    has_unpruned_block(s.start, Len(Chain[s.conn]) + 1, LocalSeed)
      = has_unpruned_block(s.start + k - 1, Len(Chain[s.conn]) + 1, LocalSeed)

Uniform ==
  sync_pruned /\ LocalSeed # 0 => \A s \in q.blocks : ~Filled(s) => UniformSpan(s)

ServableBy(c, hs) ==
  \A k \in DOMAIN hs :
    \/ has_unpruned_block(Height[hs[k]], Len(Chain[c]) + 1, PeerSeed[c])
    \/ /\ ~(Height[hs[1]] + TIP_BLOCKS >= Len(Chain[c]) + 1)
       /\ Height[hs[Len(hs)]] + TIP_BLOCKS >= Len(Chain[c]) + 1

Servable == ~sync_pruned => \A c \in Connections : ServableBy(c, asked[c])

Placed == SpansAligned /\ Owed /\ InOrder /\ Uniform /\ Servable

(* t is a span of Q that is not c's at start, or that one with the hashes   *)
(* hs.                                                                      *)
Rehashed(t, Q, start, c, hs) ==
  \/ t \in Q.blocks /\ ~(t.start = start /\ t.conn = c)
  \/ /\ t.start = start /\ t.conn = c /\ t.hashes = hs
     /\ \E s \in Q.blocks : /\ s.start = start /\ s.conn = c
                            /\ s.blocks = t.blocks
                            /\ s.nblocks = t.nblocks

(* The spans of a queue after set_span_hashes.                              *)
LEMMA SetHashesSpans ==
  ASSUME NEW Q \in Queue, NEW start, NEW c, NEW hs,
         NEW t \in set_span_hashes(Q, start, c, hs).blocks
  PROVE  Rehashed(t, Q, start, c, hs)
<1> DEFINE S == {s \in SpansAt(Q, start) : s.conn = c}
           e == erase_block(Q, S)
           N == {[s EXCEPT !.hashes = hs] : s \in S}
           R == set_span_hashes(Q, start, c, hs)
<1>1. CASE S = {}
  <2>1. R = Q
    BY Zenon, <1>1 DEF set_span_hashes
  <2>2. t \in Q.blocks
    BY Zenon, <2>1
  <2> QED BY Zenon, <1>1, <2>2 DEF SpansAt, Rehashed
<1>2. CASE S # {}
  <2>1. R = [e EXCEPT !.blocks = @ \cup N, !.requested = @ \cup Elems(hs)]
    BY Zenon, <1>2 DEF set_span_hashes
  <2>2. e = [blocks |-> Q.blocks \ S, requested |-> Q.requested \ SpanHashes(S),
             have |-> Q.have \ SpanHashes(S)]
    BY Zenon DEF erase_block
  <2>3. R.blocks = (Q.blocks \ S) \cup N
    <3> HIDE DEF R, N, S, e
    <3> QED BY <2>1, <2>2
  <2>4. CASE t \in Q.blocks \ S
    BY Zenon, <2>4 DEF SpansAt, Rehashed
  <2>5. CASE t \in N
    <3>1. PICK s \in S : t = [s EXCEPT !.hashes = hs]
      BY Zenon, <2>5
    <3>2. s \in Q.blocks /\ s.start = start /\ s.conn = c
      BY Zenon DEF SpansAt
    <3>3. s \in Span
      BY Zenon, <3>2 DEF Queue
    <3>4. /\ t.start = s.start /\ t.conn = s.conn /\ t.hashes = hs
          /\ t.blocks = s.blocks /\ t.nblocks = s.nblocks
      <4> HIDE DEF S, N
      <4> QED BY <3>1, <3>3 DEF Span
    <3> QED BY Zenon, <3>2, <3>4 DEF Rehashed
  <2> QED BY Zenon, <2>3, <2>4, <2>5
<1> QED BY <1>1, <1>2

(* The spans of a queue after insert.                                       *)
LEMMA InsertSpans ==
  ASSUME NEW Q \in Queue, NEW s \in Span
  PROVE  /\ insert(Q, s) \in Queue
         /\ \A t \in insert(Q, s).blocks : t \in Q.blocks \/ t = s
<1>1. CASE \E t \in Q.blocks : t.start = s.start
  BY Zenon, <1>1 DEF insert
<1>2. CASE ~\E t \in Q.blocks : t.start = s.start
  <2>1. insert(Q, s) = [Q EXCEPT !.blocks = @ \cup {s}]
    BY Zenon, <1>2 DEF insert
  <2> QED BY <2>1 DEF Queue
<1> QED BY <1>1, <1>2

(* t is a span of Q or the reservation of len heights from start on.        *)
Reserved(t, Q, start, len, c, hs) ==
  \/ t \in Q.blocks
  \/ /\ t.start = start /\ t.conn = c /\ t.hashes = hs
     /\ \/ t.blocks = <<>> /\ t.nblocks = len
        \/ \E s \in Q.blocks : s.start = start /\ s.conn = c /\ s.blocks = t.blocks

(* A reservation is the only span it adds, or replaces the hashes of a span *)
(* that this connection has there already.                                  *)
LEMMA ReservedSpans ==
  ASSUME NEW Q \in Queue, NEW start \in Nat, NEW len \in Nat, NEW c \in Connections,
         NEW hs,
         NEW t \in set_span_hashes(add_scheduled(Q, start, len, c), start, c, hs).blocks
  PROVE  Reserved(t, Q, start, len, c, hs)
<1> DEFINE new == [start |-> start, nblocks |-> len, hashes |-> <<>>,
                   blocks |-> <<>>, conn |-> c]
           A == add_scheduled(Q, start, len, c)
<1>1. /\ new \in Span
      /\ new.start = start /\ new.conn = c /\ new.blocks = <<>> /\ new.nblocks = len
  BY DEF Span
<1>2. A = insert(Q, new)
  BY Zenon DEF add_scheduled
<1> HIDE DEF new
<1>3. A \in Queue /\ \A s \in A.blocks : s \in Q.blocks \/ s = new
  BY Zenon, <1>1, <1>2, InsertSpans
<1> HIDE DEF A
<1>4. t \in set_span_hashes(A, start, c, hs).blocks
  BY Zenon DEF A
<1>5. Rehashed(t, A, start, c, hs)
  BY Zenon, <1>3, <1>4, SetHashesSpans
<1> QED BY Zenon, <1>1, <1>3, <1>5 DEF Rehashed, Reserved

(* Marking hashes as requested and had leaves the spans alone.              *)
LEMMA MarkedQueue ==
  ASSUME NEW Q \in Queue, NEW G, G \subseteq Hashes
  PROVE  LET R == [Q EXCEPT !.requested = @ \cup G, !.have = @ \cup G]
         IN  R \in Queue /\ R.blocks = Q.blocks
<1>1. Q.requested \cup G \subseteq Hashes /\ Q.have \cup G \subseteq Hashes
  BY DEF Queue
<1>2. [Q EXCEPT !.requested = @ \cup G, !.have = @ \cup G] \in Queue
  BY ZenonT(40), <1>1 DEF Queue
<1>3. [Q EXCEPT !.requested = @ \cup G, !.have = @ \cup G].blocks = Q.blocks
  BY DEF Queue
<1> QED BY <1>2, <1>3

(* t is a span of Q elsewhere, or the delivered blocks.                     *)
Delivered(t, Q, height, blocks) ==
  \/ t \in Q.blocks /\ t.start # height
  \/ /\ t.start = height /\ t.blocks = blocks
     /\ \/ t.hashes = <<>>
        \/ \E s \in Q.blocks : s.start = height /\ s.hashes = t.hashes

(* Delivered blocks become the one span at their height, with the hashes of *)
(* the span that was there.                                                 *)
LEMMA DeliveredSpans ==
  ASSUME NEW Q \in Queue, NEW height \in Nat, NEW blocks \in Seq(Hashes),
         NEW c \in Connections, NEW t \in add_filled(Q, height, blocks, c).blocks
  PROVE  Delivered(t, Q, height, blocks)
<1> DEFINE old == SpansAt(Q, height)
           hashes == (CHOOSE s \in old : TRUE).hashes
           new == [start |-> height, nblocks |-> Len(blocks), hashes |-> <<>>,
                   blocks |-> blocks, conn |-> c]
           E == remove_span(Q, height)
           r == insert(E, new)
           R == [r EXCEPT !.requested = @ \cup Elems(hashes),
                          !.have      = @ \cup Elems(hashes)]
<1>1. /\ new \in Span
      /\ new.start = height /\ new.conn = c /\ new.blocks = blocks /\ new.hashes = <<>>
  BY DEF Span
<1>2. E = [blocks    |-> Q.blocks \ old,
           requested |-> Q.requested \ SpanHashes(old),
           have      |-> Q.have \ SpanHashes(old)]
  BY Zenon DEF remove_span, erase_block
<1>3. E \in Queue /\ E.blocks = Q.blocks \ old
  <2> HIDE DEF E, old
  <2> QED BY <1>2 DEF Queue
<1>4. \A s \in E.blocks : s \in Q.blocks /\ s.start # height
  BY Zenon, <1>3 DEF SpansAt
<1> HIDE DEF new, E
<1>5. r \in Queue /\ \A s \in r.blocks : s \in E.blocks \/ s = new
  BY Zenon, <1>1, <1>3, InsertSpans
<1>6. CASE old = {}
  <2>1. add_filled(Q, height, blocks, c) = r
    BY Zenon, <1>6 DEF add_filled, new, E
  <2> HIDE DEF r
  <2> QED BY Zenon, <1>1, <1>4, <1>5, <2>1 DEF Delivered
<1>7. CASE old # {}
  <2>1. add_filled(Q, height, blocks, c) = set_span_hashes(R, height, c, hashes)
    BY Zenon, <1>7 DEF add_filled, new, E
  <2>2. PICK o \in old : hashes = o.hashes
    BY Zenon, <1>7
  <2>3. o \in Q.blocks /\ o.start = height /\ o \in Span
    BY Zenon DEF SpansAt, Queue
  <2>4. hashes \in Seq(Hashes)
    <3> HIDE DEF hashes
    <3> QED BY <2>2, <2>3 DEF Span
  <2>5. R \in Queue /\ R.blocks = r.blocks
    <3>1. Elems(hashes) \subseteq Hashes
      BY Zenon, <2>4, ElemsOfSeq
    <3> HIDE DEF r, hashes
    <3> QED BY Zenon, <1>5, <3>1, MarkedQueue
  <2> HIDE DEF R, r, hashes
  <2>6. t \in set_span_hashes(R, height, c, hashes).blocks
    BY Zenon, <2>1
  <2>7. Rehashed(t, R, height, c, hashes)
    BY Zenon, <2>5, <2>6, SetHashesSpans
  <2> QED BY Zenon, <1>1, <1>4, <1>5, <2>2, <2>3, <2>5, <2>7 DEF Rehashed, Delivered
<1> QED BY <1>6, <1>7
-----------------------------------------------------------------------------
(* A step that only takes spans away and withdraws requests keeps them in   *)
(* place, as long as no reservation outlives its request.                   *)
LEMMA FewerPlaced ==
  ASSUME TypeOK, Placed, TypeOK', q'.blocks \subseteq q.blocks,
         sync_pruned' = sync_pruned,
         \A c \in Connections : asked'[c] = asked[c] \/ asked'[c] = <<>>,
         \A s \in q'.blocks : ~Filled(s) => asked'[s.conn] = asked[s.conn]
  PROVE  Placed'
<1>1. SpansAligned'
  BY Zenon DEF Placed, SpansAligned
<1>2. Owed'
  BY Zenon DEF Placed, Owed
<1>3. InOrder'
  BY Zenon DEF Placed, InOrder
<1>4. Uniform'
  BY Zenon DEF Placed, Uniform
<1>5. Servable'
  <2>1. \A c : ServableBy(c, <<>>)
    <3>1. DOMAIN <<>> = {}
      OBVIOUS
    <3> QED BY Zenon, <3>1 DEF ServableBy
  <2> QED BY Zenon, <2>1 DEF Placed, Servable
<1> QED BY Zenon, <1>1, <1>2, <1>3, <1>4, <1>5 DEF Placed

(* A connection that is asked for nothing has no reservation.               *)
LEMMA NothingOwed ==
  ASSUME Placed, NEW s \in q.blocks, asked[s.conn] = <<>>
  PROVE  Filled(s)
BY Zenon DEF Placed, Owed

(* RequestSpan keeps spans and requests in place.                           *)
LEMMA RequestSpanPlaced ==
  ASSUME IInv, Placed, NEW c \in Connections, NEW first \in DOMAIN Chain[c],
         RequestSpan(c, first)
  PROVE  Placed'
<1>1. PICK start \in Nat \ {0}, len \in Nat \ {0} : Reserves(c, start, len)
  BY Zenon, RequestReserves
<1> DEFINE piece == SubSeq(Chain[c], start, start + len - 1)
           bh == Len(Chain[c]) + 1
<1>2. /\ piece \in Seq(Hashes)
      /\ Len(piece) = len
      /\ \A k \in 1..len : Height[piece[k]] = start + k - 1
  BY Zenon, <1>1, ChainPiece DEF Reserves
<1>3. /\ len <= MaxBlocks
      /\ \A k \in 0..(len - 1) :
            extends_span(start, k, sync_pruned /\ LocalSeed # 0, bh, PeerSeed[c])
      /\ q' = set_span_hashes(add_scheduled(q, start, len, c), start, c, piece)
      /\ asked' = [asked EXCEPT ![c] = piece]
  BY Zenon, <1>1 DEF Reserves
<1>4. asked[c] = <<>> /\ sync_pruned' = sync_pruned
  BY Zenon DEF RequestSpan
<1>5. DOMAIN piece = 1..len /\ piece # <<>>
  <2> HIDE DEF piece
  <2> QED BY <1>2
<1> HIDE DEF piece, bh
<1>6. asked'[c] = piece /\ \A d \in Connections : d # c => asked'[d] = asked[d]
  BY Zenon, <1>3 DEF IInv, TypeOK
<1>7. ASSUME NEW t \in q'.blocks
      PROVE  \/ t \in q.blocks /\ t.conn \in Connections
             \/ /\ t.start = start /\ t.conn = c /\ t.hashes = piece
                /\ \/ t.blocks = <<>> /\ t.nblocks = len
                   \/ \E s \in q.blocks : s.start = start /\ s.conn = c /\ s.blocks = t.blocks
  <2>1. q \in Queue /\ start \in Nat /\ len \in Nat
    BY DEF IInv, TypeOK
  <2>2. t \in set_span_hashes(add_scheduled(q, start, len, c), start, c, piece).blocks
    BY Zenon, <1>3, <1>7
  <2>3. Reserved(t, q, start, len, c, piece)
    BY Zenon, <2>1, <2>2, ReservedSpans
  <2>4. \A s \in q.blocks : s.conn \in Connections
    BY <2>1 DEF Queue, Span
  <2> QED BY Zenon, <2>3, <2>4 DEF Reserved
<1>8. \A s \in q.blocks : s.conn = c => Filled(s)
  BY Zenon, <1>4, NothingOwed
<1>9. SpansAligned'
  <2> SUFFICES ASSUME NEW t \in q'.blocks
               PROVE  /\ \A k \in DOMAIN t.hashes : Height[t.hashes[k]] = t.start + k - 1
                      /\ \A k \in DOMAIN t.blocks : Height[t.blocks[k]] = t.start + k - 1
    BY Zenon DEF SpansAligned
  <2>1. CASE t \in q.blocks
    BY Zenon, <2>1 DEF Placed, SpansAligned
  <2>2. CASE t.start = start /\ t.hashes = piece /\ t.blocks = <<>>
    <3>1. DOMAIN <<>> = {}
      OBVIOUS
    <3> QED BY Zenon, <1>2, <1>5, <2>2, <3>1
  <2>3. ASSUME NEW s \in q.blocks, s.conn = c, s.blocks = t.blocks, s.start = start,
               t.start = start, t.hashes = piece
        PROVE  /\ \A k \in DOMAIN t.hashes : Height[t.hashes[k]] = t.start + k - 1
               /\ \A k \in DOMAIN t.blocks : Height[t.blocks[k]] = t.start + k - 1
    <3>1. \A k \in DOMAIN t.hashes : Height[t.hashes[k]] = t.start + k - 1
      BY Zenon, <1>2, <1>5, <2>3
    <3>2. \A k \in DOMAIN s.blocks : Height[s.blocks[k]] = s.start + k - 1
      BY Zenon DEF Placed, SpansAligned
    <3> QED BY Zenon, <2>3, <3>1, <3>2
  <2> QED BY Zenon, <1>7, <2>1, <2>2, <2>3
<1>10. Owed'
  <2> SUFFICES ASSUME NEW t \in q'.blocks, ~Filled(t)
               PROVE  /\ t.hashes = asked'[t.conn]
                      /\ t.hashes # <<>>
                      /\ Len(t.hashes) = t.nblocks
    BY Zenon DEF Owed
  <2>1. CASE t \in q.blocks /\ t.conn \in Connections
    BY Zenon, <1>6, <1>8, <2>1 DEF Placed, Owed
  <2>2. CASE t.start = start /\ t.conn = c /\ t.hashes = piece /\ t.nblocks = len
    BY Zenon, <1>2, <1>5, <1>6, <2>2
  <2> QED BY Zenon, <1>7, <1>8, <2>1, <2>2 DEF Filled
<1>11. InOrder'
  <2>1. AlignedAt(piece, Height[piece[1]]) /\ Len(piece) <= MaxBlocks
    <3>1. Height[piece[1]] = start
      BY <1>2
    <3> QED BY Zenon, <1>2, <1>3, <1>5, <3>1 DEF AlignedAt
  <2> QED BY Zenon, <1>6, <2>1 DEF Placed, InOrder
<1>12. Uniform'
  <2> SUFFICES ASSUME sync_pruned, LocalSeed # 0, NEW t \in q'.blocks, ~Filled(t)
               PROVE  UniformSpan(t)
    BY Zenon, <1>4 DEF Uniform
  <2>1. CASE t \in q.blocks
    BY Zenon, <2>1 DEF Placed, Uniform
  <2>2. CASE t.start = start /\ t.conn = c /\ t.hashes = piece
    <3>1. \A k \in 0..(len - 1) : has_unpruned_block(start, bh, LocalSeed)
                                    = has_unpruned_block(start + k, bh, LocalSeed)
      BY Zenon, <1>3 DEF extends_span
    <3>2. \A k \in 1..len : k - 1 \in 0..(len - 1) /\ start + (k - 1) = start + k - 1
      OBVIOUS
    <3>3. \A k \in 1..len : has_unpruned_block(start, bh, LocalSeed)
                              = has_unpruned_block(start + k - 1, bh, LocalSeed)
      BY Zenon, <3>1, <3>2
    <3> QED BY Zenon, <1>5, <2>2, <3>3 DEF UniformSpan, bh
  <2> QED BY Zenon, <1>7, <2>1, <2>2
<1>13. Servable'
  <2> SUFFICES ASSUME ~sync_pruned PROVE \A d \in Connections : ServableBy(d, asked'[d])
    BY Zenon, <1>4 DEF Servable
  <2>1. \A k \in 0..(len - 1) : has_unpruned_block(start + k, bh, PeerSeed[c])
    BY Zenon, <1>3 DEF extends_span
  <2>2. \A k \in 1..len : k - 1 \in 0..(len - 1) /\ start + (k - 1) = start + k - 1
    OBVIOUS
  <2>3. \A k \in 1..len : has_unpruned_block(Height[piece[k]], bh, PeerSeed[c])
    BY Zenon, <1>2, <2>1, <2>2
  <2>4. ServableBy(c, piece)
    BY Zenon, <1>5, <2>3 DEF ServableBy, bh
  <2> QED BY Zenon, <1>6, <2>4 DEF Placed, Servable
<1> QED BY Zenon, <1>9, <1>10, <1>11, <1>12, <1>13 DEF Placed

(* A peer that passes the check of the two ends of a span can serve it, but *)
(* for the blocks between its stripe and the tip.                           *)
LEMMA CanServe ==
  ASSUME NEW c \in Connections, NEW s \in Span, can_serve(c, s), s.hashes # <<>>,
         AlignedAt(s.hashes, s.start), Len(s.hashes) = s.nblocks,
         s.nblocks <= MaxBlocks
  PROVE  ServableBy(c, s.hashes)
<1> DEFINE hs == s.hashes
           n == s.nblocks
           bh == Len(Chain[c]) + 1
           seed == PeerSeed[c]
           a == s.start
           e == s.start + s.nblocks - 1
<1>1. hs \in Seq(Hashes) /\ a \in Nat /\ n \in Nat /\ bh \in Nat
  BY ChainType DEF Span
<1>2. DOMAIN hs = 1..n /\ n # 0 /\ Len(hs) = n
  <2> HIDE DEF hs, n
  <2>1. Len(hs) = n /\ hs # <<>>
    BY DEF hs, n
  <2> QED BY <1>1, <2>1
<1>3. \A k \in 1..n : Height[hs[k]] = a + k - 1
  BY Zenon, <1>2 DEF AlignedAt
<1>4. ProperSeed(seed)
  BY CallerAssumption
<1>5. CASE seed = 0
  <2>1. seed_stripe(seed) = 0
    BY <1>5 DEF seed_stripe
  <2> QED BY Zenon, <2>1 DEF ServableBy, has_unpruned_block
<1>6. CASE seed # 0
  <2>1. Holds(a, bh, seed_stripe(seed)) /\ Holds(e, bh, seed_stripe(seed))
    BY Zenon, <1>6 DEF can_serve, Holds
  <2>2. get_pruning_log_stripes(seed) = LOG_STRIPES
    BY Zenon, <1>4, <1>6, SeedStripe
  <2> SUFFICES ASSUME NEW k \in 1..n
               PROVE  \/ has_unpruned_block(Height[hs[k]], bh, seed)
                      \/ /\ ~(Height[hs[1]] + TIP_BLOCKS >= bh)
                         /\ Height[hs[Len(hs)]] + TIP_BLOCKS >= bh
    BY Zenon, <1>2 DEF ServableBy
  <2> DEFINE b == a + k - 1
  <2>3. n <= STRIPE_SIZE
    <3>1. STRIPE_SIZE \in Nat /\ MaxBlocks \in 1..STRIPE_SIZE /\ n <= MaxBlocks
      BY PruningAssumption, CallerAssumption
    <3> HIDE DEF n
    <3> QED BY <1>1, <3>1
  <2>4. e = a + n - 1
    OBVIOUS
  <2>5. Height[hs[1]] = a /\ Height[hs[Len(hs)]] = e /\ Height[hs[k]] = b
    <3>1. 1 \in 1..n /\ n \in 1..n /\ a + 1 - 1 = a
      <4> HIDE DEF n, a
      <4> QED BY <1>1, <1>2
    <3> QED BY Zenon, <1>2, <1>3, <2>4, <3>1
  <2> HIDE DEF hs, n, bh, seed, a, e
  <2>6. b \in Nat /\ e \in Nat /\ a <= b /\ b <= e /\ e - a < STRIPE_SIZE
    BY <1>1, <1>2, <2>3, <2>4, PruningAssumption
  <2> HIDE DEF b
  <2>7. \/ Holds(b, bh, seed_stripe(seed))
        \/ ~(a + TIP_BLOCKS >= bh) /\ e + TIP_BLOCKS >= bh
    BY Zenon, <1>1, <2>1, <2>6, KeptBetween
  <2> QED BY Zenon, <2>2, <2>5, <2>7 DEF has_unpruned_block, Holds
<1> QED BY <1>5, <1>6

(* RequestNextSpan keeps spans and requests in place.                       *)
LEMMA RequestNextPlaced ==
  ASSUME IInv, Placed, NEW c \in Connections, RequestNextSpan(c)
  PROVE  Placed'
<1> DEFINE s == first_span(q.blocks)
<1>1. /\ asked[c] = <<>>
      /\ next_is_scheduled(q)
      /\ sync_pruned \/ can_serve(c, s)
      /\ asked' = [asked EXCEPT ![c] = s.hashes]
      /\ q' = q /\ sync_pruned' = sync_pruned
  BY Zenon DEF RequestNextSpan
<1>2. s \in q.blocks /\ ~Filled(s) /\ s \in Span
  <2>1. q.blocks # {} /\ ~Filled(s)
    BY Zenon, <1>1 DEF next_is_scheduled
  <2>2. q.blocks \in SUBSET Span
    BY Zenon DEF IInv, Consistent, Queue
  <2> QED BY Zenon, <2>1, <2>2, FirstSpan
<1> HIDE DEF s
<1>3. /\ s.hashes = asked[s.conn] /\ s.hashes # <<>> /\ Len(s.hashes) = s.nblocks
      /\ AlignedAt(s.hashes, s.start)
  BY Zenon, <1>2 DEF Placed, Owed, SpansAligned, AlignedAt
<1>4. s.hashes \in Seq(Hashes) /\ s.conn \in Connections /\ s.start \in Nat
  BY <1>2 DEF Span
<1>5. Len(s.hashes) <= MaxBlocks
  BY Zenon, <1>3, <1>4 DEF Placed, InOrder
<1>6. asked'[c] = s.hashes /\ \A d \in Connections : d # c => asked'[d] = asked[d]
  BY Zenon, <1>1 DEF IInv, TypeOK
<1>7. SpansAligned'
  BY Zenon, <1>1 DEF Placed, SpansAligned
<1>8. Owed'
  <2>1. \A t \in q.blocks : ~Filled(t) => t.conn # c
    BY Zenon, <1>1, NothingOwed
  <2>2. \A t \in q.blocks : t.conn \in Connections
    BY DEF IInv, TypeOK, Queue, Span
  <2> QED BY Zenon, <1>1, <1>6, <2>1, <2>2 DEF Placed, Owed
<1>9. InOrder'
  <2>1. Height[s.hashes[1]] = s.start
    <3>1. 1 \in DOMAIN s.hashes /\ s.start + 1 - 1 = s.start
      BY <1>3, <1>4
    <3> QED BY Zenon, <1>3, <3>1 DEF AlignedAt
  <2>2. AlignedAt(s.hashes, Height[s.hashes[1]])
    BY Zenon, <1>3, <2>1
  <2> QED BY Zenon, <1>5, <1>6, <2>2 DEF Placed, InOrder
<1>10. Uniform'
  BY Zenon, <1>1 DEF Placed, Uniform
<1>11. Servable'
  <2>1. ASSUME ~sync_pruned PROVE ServableBy(c, s.hashes)
    <3>1. s.nblocks <= MaxBlocks
      BY Zenon, <1>3, <1>5
    <3> QED BY Zenon, <1>1, <1>2, <1>3, <2>1, <3>1, CanServe
  <2> QED BY Zenon, <1>1, <1>6, <2>1 DEF Placed, Servable
<1> QED BY Zenon, <1>7, <1>8, <1>9, <1>10, <1>11 DEF Placed

(* ReceiveBlocks keeps spans and requests in place.                         *)
LEMMA ReceivePlaced ==
  ASSUME IInv, Placed, NEW c \in Connections, ReceiveBlocks(c)
  PROVE  Placed'
<1> DEFINE blocks == asked[c]
           height == Height[asked[c][1]]
<1>1. /\ blocks # <<>>
      /\ q' = add_filled(q, height, blocks, c)
      /\ asked' = [asked EXCEPT ![c] = <<>>]
      /\ sync_pruned' = sync_pruned
  BY Zenon DEF ReceiveBlocks
<1>2. blocks \in Seq(Hashes) /\ q \in Queue
  BY DEF IInv, TypeOK
<1>3. height \in Nat
  BY <1>1, <1>2, HeightOfHash
<1>4. AlignedAt(blocks, height)
  BY Zenon, <1>1 DEF Placed, InOrder
<1>5. asked'[c] = <<>> /\ \A d \in Connections : d # c => asked'[d] = asked[d]
  BY Zenon, <1>1 DEF IInv, TypeOK
<1>6. \A s \in q.blocks : s.conn \in Connections
  BY <1>2 DEF Queue, Span
<1>7. \A s \in q.blocks : ~Filled(s) /\ s.conn = c => s.start = height
  <2> SUFFICES ASSUME NEW s \in q.blocks, ~Filled(s), s.conn = c PROVE s.start = height
    BY Zenon
  <2>1. s.hashes = blocks /\ \A k \in DOMAIN s.hashes : Height[s.hashes[k]] = s.start + k - 1
    BY Zenon DEF Placed, Owed, SpansAligned
  <2>2. 1 \in DOMAIN blocks
    BY <1>1, <1>2
  <2>3. height = s.start + 1 - 1
    BY Zenon, <2>1, <2>2
  <2>4. s.start \in Nat
    BY <1>2 DEF Queue, Span
  <2> HIDE DEF height
  <2> QED BY <2>3, <2>4
<1> HIDE DEF blocks, height
<1>8. ASSUME NEW t \in q'.blocks
      PROVE  \/ t \in q.blocks /\ t.start # height
             \/ /\ t.start = height /\ t.blocks = blocks
                /\ \/ t.hashes = <<>>
                   \/ \E s \in q.blocks : s.start = height /\ s.hashes = t.hashes
  <2>1. t \in add_filled(q, height, blocks, c).blocks
    BY Zenon, <1>1, <1>8
  <2>2. Delivered(t, q, height, blocks)
    BY Zenon, <1>2, <1>3, <2>1, DeliveredSpans
  <2> QED BY Zenon, <2>2 DEF Delivered
<1>9. SpansAligned'
  <2> SUFFICES ASSUME NEW t \in q'.blocks
               PROVE  AlignedAt(t.hashes, t.start) /\ AlignedAt(t.blocks, t.start)
    BY Zenon DEF SpansAligned, AlignedAt
  <2>1. \A s \in q.blocks : AlignedAt(s.hashes, s.start) /\ AlignedAt(s.blocks, s.start)
    BY Zenon DEF Placed, SpansAligned, AlignedAt
  <2>2. \A n : AlignedAt(<<>>, n)
    <3>1. DOMAIN <<>> = {}
      OBVIOUS
    <3> QED BY Zenon, <3>1 DEF AlignedAt
  <2> QED BY Zenon, <1>4, <1>8, <2>1, <2>2
<1>10. \A t \in q'.blocks : ~Filled(t) => t \in q.blocks /\ t.conn \in Connections \ {c}
  BY Zenon, <1>1, <1>6, <1>7, <1>8 DEF Filled
<1>11. Owed'
  BY Zenon, <1>5, <1>10 DEF Placed, Owed
<1>12. InOrder'
  BY Zenon, <1>5 DEF Placed, InOrder
<1>13. Uniform'
  BY Zenon, <1>1, <1>10 DEF Placed, Uniform
<1>14. Servable'
  <2>1. ServableBy(c, <<>>)
    <3>1. DOMAIN <<>> = {}
      OBVIOUS
    <3> QED BY Zenon, <3>1 DEF ServableBy
  <2> QED BY Zenon, <1>1, <1>5, <2>1 DEF Placed, Servable
<1> QED BY Zenon, <1>9, <1>11, <1>12, <1>13, <1>14 DEF Placed
-----------------------------------------------------------------------------
(* Nothing is reserved or asked for when the node starts.                   *)
LEMMA InitPlaced == Init => Placed
<1> SUFFICES ASSUME Init PROVE Placed
  OBVIOUS
<1>1. q.blocks = {} /\ \A c \in Connections : asked[c] = <<>>
  BY DEF Init, EmptyQueue
<1>2. DOMAIN <<>> = {}
  OBVIOUS
<1>3. SpansAligned /\ Owed /\ Uniform
  BY Zenon, <1>1 DEF SpansAligned, Owed, Uniform
<1>4. InOrder /\ Servable
  BY Zenon, <1>1, <1>2 DEF InOrder, Servable, ServableBy
<1> QED BY Zenon, <1>3, <1>4 DEF Placed

(* Every step of the handler keeps spans and requests in place.             *)
LEMMA StepPlaced == IInv /\ IInv' /\ Placed /\ [Next]_vars => Placed'
<1> SUFFICES ASSUME IInv, IInv', Placed, [Next]_vars PROVE Placed'
  OBVIOUS
<1>0. TypeOK /\ TypeOK'
  BY Zenon DEF IInv
<1>1. \A S : /\ erase_block(q, S).blocks \subseteq q.blocks
             /\ \A s \in erase_block(q, S).blocks : s \notin S
  BY DEF erase_block
<1>2. ASSUME NEW c \in Connections, Connect(c) PROVE Placed'
  BY Zenon, <1>0, <1>2, FewerPlaced DEF Connect
<1>3. ASSUME NEW c \in Connections, NEW first \in DOMAIN Chain[c], RequestSpan(c, first)
      PROVE  Placed'
  BY Zenon, <1>3, RequestSpanPlaced
<1>4. ASSUME NEW c \in Connections, RequestNextSpan(c) PROVE Placed'
  BY Zenon, <1>4, RequestNextPlaced
<1>5. ASSUME NEW c \in Connections, ReceiveBlocks(c) PROVE Placed'
  BY Zenon, <1>5, ReceivePlaced
<1>6. ASSUME NEW c \in Connections, NEW all \in BOOLEAN, CloseConnection(c, all)
      PROVE  Placed'
  <2>1. /\ q' = flush_spans(q, c, all)
        /\ asked' = [asked EXCEPT ![c] = <<>>]
        /\ sync_pruned' = sync_pruned
    BY Zenon, <1>6 DEF CloseConnection
  <2>2. asked'[c] = <<>> /\ \A d \in Connections : d # c => asked'[d] = asked[d]
    BY Zenon, <1>0, <2>1 DEF TypeOK
  <2>3. /\ q'.blocks \subseteq q.blocks
        /\ \A s \in q'.blocks : ~Filled(s) => s.conn # c
    BY Zenon, <1>1, <2>1 DEF flush_spans
  <2>4. \A s \in q'.blocks : s.conn \in Connections
    BY <1>0 DEF TypeOK, Queue, Span
  <2> QED BY Zenon, <1>0, <2>1, <2>2, <2>3, <2>4, FewerPlaced
<1>7. CASE CollectLive
  BY Zenon, <1>0, <1>7, FewerPlaced DEF CollectLive
<1>8. CASE FlushStale
  <2>1. q'.blocks \subseteq q.blocks
    BY Zenon, <1>1, <1>8 DEF FlushStale, flush_stale_spans
  <2> QED BY Zenon, <1>0, <1>8, <2>1, FewerPlaced DEF FlushStale
<1>9. CASE PickSpan
  BY Zenon, <1>0, <1>9, FewerPlaced DEF PickSpan
<1>10. CASE FinishSpan
  <2>1. q'.blocks \subseteq q.blocks
    BY Zenon, <1>1, <1>10 DEF FinishSpan, remove_spans
  <2> QED BY Zenon, <1>0, <1>10, <2>1, FewerPlaced DEF FinishSpan
<1>11. CASE LeaveSpan
  BY Zenon, <1>0, <1>11, FewerPlaced DEF LeaveSpan
<1>12. CASE UNCHANGED vars
  BY Zenon, <1>0, <1>12, FewerPlaced DEF vars
<1> QED
  BY Zenon, <1>2, <1>3, <1>4, <1>5, <1>6, <1>7, <1>8, <1>9, <1>10, <1>11, <1>12 DEF Next

(* In every reachable state spans and requests are in place: the inductive  *)
(* invariant is the consistency of the indexes together with Placed.        *)
THEOREM QueuePlaced == Spec => []Placed
<1>1. Init => Placed
  BY InitPlaced
<1>2. IInv /\ IInv' /\ Placed /\ [Next]_vars => Placed'
  BY StepPlaced
<1> QED BY <1>1, <1>2, QueueConsistent, PTL DEF Spec

(* No span is ever shifted: each hash and each block of it is the one at    *)
(* its place in the span.                                                   *)
THEOREM QueueSpansAligned == Spec => []SpansAligned
<1>1. Placed => SpansAligned
  BY DEF Placed
<1> QED BY <1>1, QueuePlaced, PTL

(* A peer is asked in full only for blocks it keeps, but for a span that    *)
(* another peer reserved across the beginning of the tip.                   *)
THEOREM QueueRequestsAreServable == Spec => []RequestsAreServable
<1>1. Placed => RequestsAreServable
  BY Zenon DEF Placed, Servable, ServableBy, RequestsAreServable
<1> QED BY <1>1, QueuePlaced, PTL

(* No reservation mixes blocks this node must have in full with blocks it   *)
(* may take pruned.                                                         *)
THEOREM QueueSpansAreUniform == Spec => []SpansAreUniform
<1>1. Placed => SpansAreUniform
  <2> SUFFICES ASSUME Placed, sync_pruned, LocalSeed # 0,
                      NEW s \in q.blocks, ~Filled(s),
                      NEW g \in Elems(s.hashes), NEW h \in Elems(s.hashes)
               PROVE  has_unpruned_block(Height[g], Len(Chain[s.conn]) + 1, LocalSeed)
                        = has_unpruned_block(Height[h], Len(Chain[s.conn]) + 1, LocalSeed)
    BY Zenon DEF SpansAreUniform, filled_spans
  <2>1. UniformSpan(s) /\ \A k \in DOMAIN s.hashes : Height[s.hashes[k]] = s.start + k - 1
    BY Zenon DEF Placed, Uniform, SpansAligned
  <2>2. PICK i \in DOMAIN s.hashes, j \in DOMAIN s.hashes : g = s.hashes[i] /\ h = s.hashes[j]
    BY Zenon DEF Elems
  <2> QED BY Zenon, <2>1, <2>2 DEF UniformSpan
<1> QED BY <1>1, QueuePlaced, PTL
=============================================================================
