------------------------- MODULE BlockchainInvariant -----------------------
(***************************************************************************)
(* For every tree of blocks, every set of checkpoints and every schedule   *)
(* of forks: what the chain holds never contradicts a checkpoint outside   *)
(* check_against_checkpoints, and a block is in one place between the      *)
(* operations, however switches fail and wherever the process stops.       *)
(***************************************************************************)
EXTENDS Blockchain, WellFoundedInduction, SequenceTheorems, TLAPS

(* A chain has one block of each height, and its work grows.               *)
Chain(c) ==
  /\ c \in Seq(Blocks) /\ c # <<>>
  /\ \A i \in 1..Len(c) : Height[c[i]] = i - 1
  /\ \A i, j \in 1..Len(c) : i <= j => Work[c[i]] <= Work[c[j]]

Switching == job \in SwitchJobs

Types ==
  /\ Chain(main) /\ Chain(disk.main)
  /\ disk = [main |-> disk.main, alts |-> disk.alts, db |-> disk.db]
  /\ alts \subseteq Blocks /\ invalid \subseteq Blocks /\ disk.alts \subseteq Blocks
  /\ points \in [Heights -> Blocks \union {None}]
  /\ job \in {None} \union SwitchJobs \union CheckJobs \union PopJobs
  /\ job \in PopJobs => job.target \in 1..(Len(main) - 1)

(* What a switch has done so far: below the split the chain is the old     *)
(* one, above it there are blocks of the old chain, of the new one or,     *)
(* when the switch is undone, of the old one again.                        *)
Joint ==
  /\ Chain(job.from) /\ job.split \in 1..Len(job.from) /\ job.split <= Len(main)
  /\ \A i \in 1..job.split : main[i] = job.from[i]
  /\ job.alt # <<>>
  /\ \A i \in 1..Len(job.alt) : Height[job.alt[i]] = job.split + i - 1
  /\ \A i \in 1..Len(job.old) : /\ job.old[i] \in Elems(job.from)
                                /\ Height[job.old[i]] >= job.split
  /\ job.k \in 1..(Len(job.alt) + 1)
  /\ job.kind = "pop" => job.k = 1 /\ Elems(main) \subseteq Elems(job.from)
  /\ job.kind = "connect" => Len(main) = job.split + job.k - 1
  /\ job.kind = "push" => Len(main) = job.split + Len(job.alt)
  /\ job.kind \in {"connect", "push"} =>
       \A i \in (job.split + 1)..Len(main) : main[i] = job.alt[i - job.split]
  /\ job.kind \in {"undo", "restore"} => job.k <= Len(job.alt)
  /\ job.kind = "restore" => Elems(main) \subseteq Elems(job.from)

(* Why a switch was started: the old blocks that are pushed back have less *)
(* work than the new chain, and no checkpoint above its end.               *)
Gain ==
  LET end == job.alt[Len(job.alt)]
  IN  /\ ~job.discard =>
           /\ Work[job.from[Len(job.from)]] < Work[end]
           /\ \A h \in Heights : (points[h] # None /\ h <= Len(job.from)) => h < Height[end]
      /\ job.kind = "push" /\ job.discard => job.old = <<>>

Joints == Switching => Joint /\ Gain

(* The blocks that a switch has not connected.                             *)
Failed == {job.alt[i] : i \in job.k..Len(job.alt)}

(* Where blocks are in the course of a switch.                             *)
Spread ==
  /\ Elems(job.alt) \subseteq alts
  /\ Elems(job.from) \cap invalid = {}
  /\ job.kind # "push" => Elems(job.from) \cap alts = {}
  /\ job.kind = "push" => \A i \in 1..job.split : job.from[i] \notin alts
  /\ IF job.kind \in {"undo", "restore"} THEN alts \cap invalid \subseteq Failed
     ELSE alts \cap invalid = {}

Apart ==
  /\ ~Switching => /\ Elems(main) \cap (alts \union invalid) = {}
                   /\ alts \cap invalid = {}
  /\ Switching => Spread
  /\ Elems(disk.main) \cap disk.alts = {}

(* The blocks that may contradict a checkpoint are those that the check    *)
(* has yet to look at.                                                     *)
Met ==
  /\ job \in CheckJobs => /\ job.height >= Len(main)
                          /\ job.kind = "rollback" => /\ job.todo # {} /\ Lowest >= 2
                                                      /\ job.target = Lowest - 2
  /\ \A h \in 2..(Len(main) - 1) :
       check_block(h, main[h + 1]) \/ (job \in CheckJobs /\ h \in job.todo)

ChainInv == Types /\ Joints /\ Apart /\ Met
-----------------------------------------------------------------------------
(* Heights are numbers, and a path has one block more than its end is high. *)
LEMMA HeightFacts ==
  /\ Heights \subseteq Nat
  /\ \A b \in Blocks : /\ Height[b] \in Heights /\ Height[b] \in Nat
                       /\ Len(PathTo[b]) = Height[b] + 1
<1>1. \A b \in Blocks : Height[b] = Len(PathTo[b]) - 1
  BY DEF Height
<1>2. \A b \in Blocks : PathTo[b] \in Seq(Blocks) /\ PathTo[b] # <<>>
  BY TreeAssumption
<1>3. \A b \in Blocks : Len(PathTo[b]) \in Nat /\ Len(PathTo[b]) > 0
  BY <1>2
<1> QED BY <1>1, <1>3 DEF Heights

Less == {p \in Nat \X Nat : p[1] < p[2]}

(* A non-empty set of natural numbers has a least element.                  *)
LEMMA HasLeast ==
  ASSUME NEW T, T \subseteq Nat, T # {}
  PROVE  \E x \in T : \A y \in T : x <= y
<1>1. IsWellFoundedOn(Less, Nat)
  BY NatLessThanWellFounded DEF OpToRel, Less
<1>2. PICK x \in T : \A y \in T : ~(<<y, x>> \in Less)
  BY Zenon, <1>1, WFMin
<1>3. \A y \in T : ~(y < x)
  BY Zenon, <1>2 DEF Less
<1>4. \A y \in T : x <= y
  BY <1>3
<1> QED BY <1>4

(* A bounded, non-empty set of natural numbers has a greatest element.      *)
LEMMA GreatestIs ==
  ASSUME NEW n \in Nat, NEW S, S \subseteq 0..n, S # {}
  PROVE  Greatest(S) \in S /\ \A m \in S : m <= Greatest(S)
<1> DEFINE T == {n - m : m \in S}
<1>1. T \subseteq Nat /\ T # {}
  <2>1. \A m \in S : m \in 0..n
    OBVIOUS
  <2>2. \A m \in S : n - m \in Nat
    BY <2>1
  <2> QED BY Zenon, <2>2
<1> HIDE DEF T
<1>2. PICK x \in T : \A y \in T : x <= y
  BY Zenon, <1>1, HasLeast
<1>3. PICK g \in S : x = n - g
  BY DEF T
<1>4. \A m \in S : m <= g
  BY <1>2, <1>3 DEF T
<1>5. \E g0 \in S : \A m \in S : m <= g0
  BY <1>4
<1> QED BY Zenon, <1>5 DEF Greatest

(* A chain of blocks goes from one height to the next.                      *)
LEMMA ChainFacts ==
  ASSUME NEW c, Chain(c)
  PROVE  /\ Len(c) \in Nat /\ Len(c) >= 1
         /\ \A i \in 1..Len(c) : c[i] \in Blocks /\ c[i] \in Elems(c)
         /\ c[1] = Genesis
         /\ \A i \in 0..(Len(c) - 1) : i \in Heights
         /\ \A x \in Elems(c) : x \in Blocks /\ \E i \in 1..Len(c) : x = c[i]
<1>1. Len(c) \in Nat /\ Len(c) >= 1 /\ DOMAIN c = 1..Len(c)
  BY DEF Chain
<1>2. \A i \in 1..Len(c) : c[i] \in Blocks /\ Height[c[i]] = i - 1
  BY DEF Chain
<1>3. c[1] = Genesis
  BY <1>1, <1>2, TreeAssumption
<1>4. \A i \in 0..(Len(c) - 1) : i \in Heights
  <2> TAKE i \in 0..(Len(c) - 1)
  <2>1. i + 1 \in 1..Len(c) /\ (i + 1) - 1 = i
    BY <1>1
  <2> QED BY <1>2, <2>1, HeightFacts
<1> QED BY <1>1, <1>2, <1>3, <1>4 DEF Elems

(* BlockchainDB::pop_block leaves a chain.                                  *)
LEMMA ChainPop ==
  ASSUME NEW c, Chain(c), Len(c) > 1, NEW d, d = SubSeq(c, 1, Len(c) - 1)
  PROVE  /\ Chain(d) /\ Len(d) = Len(c) - 1
         /\ \A i \in 1..Len(d) : d[i] = c[i]
         /\ Elems(d) \subseteq Elems(c)
<1>1. Len(c) \in Nat /\ c \in Seq(Blocks) /\ DOMAIN c = 1..Len(c)
  BY DEF Chain
<1>2. d \in Seq(Blocks) /\ Len(d) = Len(c) - 1 /\ \A i \in 1..Len(d) : d[i] = c[i]
  BY <1>1, SubSeqProperties
<1>3. d # <<>> /\ DOMAIN d = 1..Len(d)
  <2>1. Len(d) # 0
    BY <1>1, <1>2
  <2>2. Len(<<>>) = 0
    OBVIOUS
  <2>3. DOMAIN d = 1..Len(d)
    BY Zenon, <1>2, LenProperties
  <2> QED BY Zenon, <2>1, <2>2, <2>3
<1>4. \A i \in 1..Len(d) : i \in 1..Len(c)
  BY <1>1, <1>2
<1>5. Chain(d)
  BY <1>2, <1>3, <1>4 DEF Chain
<1> QED BY <1>1, <1>2, <1>3, <1>5 DEF Elems

(* The child of the last block is one higher than it.                       *)
LEMMA ChildOfTip ==
  ASSUME NEW c, Chain(c), NEW b \in Blocks, b # Genesis, Parent[b] = c[Len(c)]
  PROVE  Height[b] = Len(c)
<1>1. Height[b] = Height[c[Len(c)]] + 1
  BY TreeAssumption
<1>2. Len(c) \in Nat /\ Len(c) \in 1..Len(c)
  BY ChainFacts
<1>3. Height[c[Len(c)]] = Len(c) - 1
  BY <1>2 DEF Chain
<1> QED BY <1>1, <1>2, <1>3
-----------------------------------------------------------------------------
(* The operation that holds the lock is of one kind.                        *)
LEMMA Kinds ==
  ASSUME Types
  PROVE  /\ At("pop") \/ At("connect") \/ At("undo") \/ At("restore") \/ At("push")
              => Switching
         /\ At("check") \/ At("rollback") => job \in CheckJobs
         /\ At("pops") => job \in PopJobs
  BY DEF Types, At, Switching, SwitchJobs, CheckJobs, PopJobs

(* No operation is of two kinds.                                            *)
LEMMA OneKind ==
  ASSUME NEW j
  PROVE  /\ j \in SwitchJobs => j \notin CheckJobs /\ j \notin PopJobs /\ j # None
         /\ j \in CheckJobs => j \notin PopJobs /\ j # None
         /\ j \in PopJobs => j # None
<1>1. j \in SwitchJobs => j \notin CheckJobs /\ j \notin PopJobs
  BY DEF SwitchJobs, CheckJobs, PopJobs
<1>2. j \in CheckJobs => j \notin PopJobs
  BY DEF CheckJobs, PopJobs
<1> QED BY Zenon, <1>1, <1>2, NoneAssumption

(* Going to the next phase of a switch.                                     *)
LEMMA SetKind ==
  ASSUME NEW j \in SwitchJobs, NEW m, NEW x \in {"connect", "undo", "restore"},
         m = [j EXCEPT !.kind = x]
  PROVE  /\ m \in SwitchJobs
         /\ m.kind = x /\ m.alt = j.alt /\ m.k = j.k /\ m.old = j.old
         /\ m.split = j.split /\ m.from = j.from /\ m.discard = j.discard
  BY Zenon DEF SwitchJobs

(* Changing the blocks that were popped.                                    *)
OldSet(m, j, o) ==
  /\ m \in SwitchJobs
  /\ m.kind = j.kind /\ m.alt = j.alt /\ m.k = j.k /\ m.old = o
  /\ m.split = j.split /\ m.from = j.from /\ m.discard = j.discard

LEMMA SetOld ==
  ASSUME NEW j \in SwitchJobs, NEW m, NEW o \in Seq(Blocks), m = [j EXCEPT !.old = o]
  PROVE  OldSet(m, j, o)
  BY Zenon DEF SwitchJobs, OldSet

(* Counting the blocks that are connected.                                  *)
LEMMA SetK ==
  ASSUME NEW j \in SwitchJobs, NEW m, m = [j EXCEPT !.k = j.k + 1]
  PROVE  /\ m \in SwitchJobs
         /\ m.kind = j.kind /\ m.alt = j.alt /\ m.k = j.k + 1 /\ m.old = j.old
         /\ m.split = j.split /\ m.from = j.from /\ m.discard = j.discard
<1>1. j.k + 1 \in Nat
  BY DEF SwitchJobs
<1> DEFINE n == j.k + 1
<1>2. n \in Nat /\ m = [j EXCEPT !.k = n]
  BY <1>1
<1> HIDE DEF n
<1>3. /\ m \in SwitchJobs
      /\ m.kind = j.kind /\ m.alt = j.alt /\ m.k = n /\ m.old = j.old
      /\ m.split = j.split /\ m.from = j.from /\ m.discard = j.discard
  BY <1>2 DEF SwitchJobs
<1> QED BY Zenon, <1>3 DEF n

(* The types of the parts of a switch.                                      *)
LEMMA SwitchTypes ==
  ASSUME NEW j \in SwitchJobs
  PROVE  /\ j.kind \in {"pop", "connect", "undo", "restore", "push"}
         /\ j.alt \in Seq(Blocks) /\ j.old \in Seq(Blocks) /\ j.from \in Seq(Blocks)
         /\ j.k \in Nat /\ j.split \in Nat /\ j.discard \in BOOLEAN
         /\ Len(j.alt) \in Nat /\ Len(j.old) \in Nat /\ Len(j.from) \in Nat
<1>1. /\ j.kind \in {"pop", "connect", "undo", "restore", "push"}
      /\ j.alt \in Seq(Blocks) /\ j.old \in Seq(Blocks) /\ j.from \in Seq(Blocks)
      /\ j.k \in Nat /\ j.split \in Nat /\ j.discard \in BOOLEAN
  BY DEF SwitchJobs
<1> QED BY <1>1

(* Without a check, the chain still meets the checkpoints when blocks are   *)
(* popped and when one that meets its checkpoint is added.                  *)
LEMMA MetKept ==
  ASSUME Met, job \notin CheckJobs, job' \notin CheckJobs, points' = points,
         Len(main) \in Nat, Len(main') \in Nat,
         \A i \in 1..Len(main') :
            \/ i <= Len(main) /\ main'[i] = main[i]
            \/ check_block(i - 1, main'[i])
  PROVE  Met'
<1>1. \A h \in 2..(Len(main) - 1) : check_block(h, main[h + 1])
  BY DEF Met
<1>2. \A h \in 2..(Len(main') - 1) : check_block(h, main'[h + 1])
  <2> TAKE h \in 2..(Len(main') - 1)
  <2>1. h + 1 \in 1..Len(main') /\ (h + 1) - 1 = h
    OBVIOUS
  <2>2. CASE h + 1 <= Len(main) /\ main'[h + 1] = main[h + 1]
    BY <1>1, <2>1, <2>2
  <2>3. CASE check_block((h + 1) - 1, main'[h + 1])
    BY <2>1, <2>3
  <2> QED BY <2>1, <2>2, <2>3
<1>3. (\A h \in 2..(Len(main) - 1) : check_block(h, main[h + 1]))'
  BY <1>2 DEF check_block
<1> QED BY <1>3 DEF Met

(* What holds while a switch is at work.                                    *)
LEMMA InSwitch ==
  ASSUME ChainInv, At("pop") \/ At("connect") \/ At("undo") \/ At("restore") \/ At("push")
  PROVE  /\ job \in SwitchJobs /\ Joint /\ Gain /\ Spread /\ Met
         /\ Chain(main) /\ Len(main) \in Nat /\ Len(main) >= 1
         /\ alts \subseteq Blocks /\ invalid \subseteq Blocks
<1>1. Types /\ Joints /\ Apart /\ Met
  BY DEF ChainInv
<1>2. Switching
  BY Zenon, <1>1, Kinds
<1>3. Chain(main) /\ alts \subseteq Blocks /\ invalid \subseteq Blocks
  BY <1>1 DEF Types
<1> QED BY Zenon, <1>1, <1>2, <1>3, ChainFacts DEF Joints, Apart, Switching

(* What a step inside a switch has to show.                                 *)
LEMMA SwitchStep ==
  ASSUME ChainInv, job \in SwitchJobs, job' \in SwitchJobs, Joint', Gain', Spread',
         Chain(main'), alts' \subseteq Blocks, invalid' \subseteq Blocks,
         points' = points, disk' = disk,
         \A i \in 1..Len(main') :
            \/ i <= Len(main) /\ main'[i] = main[i]
            \/ check_block(i - 1, main'[i])
  PROVE  ChainInv'
<1>1. job \notin CheckJobs /\ job' \notin CheckJobs /\ job' \notin PopJobs
  BY OneKind
<1>2. Types'
  BY <1>1 DEF ChainInv, Types
<1>3. Len(main) \in Nat /\ Len(main') \in Nat
  BY Zenon, ChainFacts DEF ChainInv, Types
<1>4. Met'
  BY <1>1, <1>3, MetKept DEF ChainInv
<1>5. Apart'
  BY DEF ChainInv, Apart, Switching
<1> QED BY <1>2, <1>4, <1>5 DEF ChainInv, Joints

(* What the last step of a switch has to show.                              *)
LEMMA SwitchEnd ==
  ASSUME ChainInv, job \in SwitchJobs, job' = None, main' = main,
         alts' \subseteq Blocks, invalid' \subseteq Blocks,
         Elems(main) \cap (alts' \union invalid') = {}, alts' \cap invalid' = {},
         points' = points, disk' = disk
  PROVE  ChainInv'
<1>1. job \notin CheckJobs /\ job' \notin CheckJobs /\ job' \notin PopJobs /\ ~Switching'
  BY Zenon, OneKind DEF Switching
<1>2. Types'
  BY <1>1 DEF ChainInv, Types
<1>3. Len(main) \in Nat
  BY Zenon, ChainFacts DEF ChainInv, Types
<1>4. Met'
  BY <1>1, <1>3, MetKept DEF ChainInv
<1>5. Apart'
  BY <1>1 DEF ChainInv, Apart
<1> QED BY <1>1, <1>2, <1>4, <1>5 DEF ChainInv, Joints

(* switch_to_alternative_blockchain pops a block of the old chain.          *)
LEMMA PopOldStep ==
  ASSUME ChainInv, PopOld
  PROVE  ChainInv'
<1>1. job \in SwitchJobs /\ Joint /\ Gain /\ Spread /\ Chain(main) /\ Len(main) \in Nat
  BY Zenon, InSwitch DEF PopOld
<1>2. job.kind = "pop"
  BY DEF PopOld, At
<1>3. job.split \in 1..Len(job.from) /\ job.split \in Nat /\ Len(main) > 1
  BY <1>1 DEF PopOld, Joint
<1>4. /\ Chain(main') /\ Len(main') = Len(main) - 1
      /\ \A i \in 1..Len(main') : main'[i] = main[i]
      /\ Elems(main') \subseteq Elems(main)
  BY Zenon, <1>1, <1>3, ChainPop DEF PopOld, Pop_block
<1>5. Tip \in Blocks /\ Tip \in Elems(main) /\ Height[Tip] = Len(main) - 1
  BY <1>1, <1>3, ChainFacts DEF Tip, Chain
<1>6. PICK t \in Blocks : t = Tip
  BY <1>5
<1>7. PICK o : o = <<t>> \o job.old
  OBVIOUS
<1>8. /\ o \in Seq(Blocks) /\ Len(o) = Len(job.old) + 1
      /\ \A i \in 1..Len(o) : o[i] = t \/ \E m \in 1..Len(job.old) : o[i] = job.old[m]
  <2>1. job.old \in Seq(Blocks) /\ <<t>> \in Seq(Blocks) /\ Len(<<t>>) = 1 /\ <<t>>[1] = t
    BY <1>1, SwitchTypes
  <2>2. /\ o \in Seq(Blocks) /\ Len(o) = Len(job.old) + 1
        /\ \A i \in 1..Len(o) : o[i] = IF i <= 1 THEN <<t>>[i] ELSE job.old[i - 1]
    BY <1>7, <2>1, ConcatProperties
  <2>3. Len(job.old) \in Nat
    BY <2>1
  <2>4. \A i \in 1..Len(o) : o[i] = t \/ \E m \in 1..Len(job.old) : o[i] = job.old[m]
    <3> TAKE i \in 1..Len(o)
    <3>1. CASE i = 1
      BY <2>1, <2>2, <3>1
    <3>2. CASE i > 1
      BY <2>2, <2>3, <3>2
    <3> QED BY <3>1, <3>2
  <2> QED BY <2>2, <2>4
<1>9. /\ job' \in SwitchJobs
      /\ job'.kind = job.kind /\ job'.alt = job.alt /\ job'.k = job.k /\ job'.old = o
      /\ job'.split = job.split /\ job'.from = job.from
      /\ job'.discard = job.discard
  <2>1. job' = [job EXCEPT !.old = o]
    BY Zenon, <1>6, <1>7 DEF PopOld
  <2>2. OldSet(job', job, o)
    BY Zenon, <1>1, <1>8, <2>1, SetOld
  <2> QED BY Zenon, <2>2 DEF OldSet
<1>10. Joint'
  <2>1. \A i \in 1..Len(o) : o[i] \in Elems(job.from) /\ Height[o[i]] >= job.split
    <3>1. t \in Elems(job.from) /\ Height[t] >= job.split
      BY <1>1, <1>2, <1>3, <1>5, <1>6 DEF Joint, PopOld
    <3>2. \A m \in 1..Len(job.old) :
            job.old[m] \in Elems(job.from) /\ Height[job.old[m]] >= job.split
      BY <1>1 DEF Joint
    <3> QED BY Zenon, <1>8, <3>1, <3>2
  <2>2. job.split <= Len(main') /\ \A i \in 1..job.split : main'[i] = job.from[i]
    BY <1>1, <1>3, <1>4 DEF Joint, PopOld
  <2>3. Elems(main') \subseteq Elems(job.from) /\ job.k = 1
    BY <1>1, <1>2, <1>4 DEF Joint
  <2> QED BY <1>1, <1>2, <1>9, <2>1, <2>2, <2>3 DEF Joint
<1>11. Spread'
  BY <1>1, <1>2, <1>9 DEF PopOld, Spread
<1>12. Gain'
  BY <1>1, <1>2, <1>9 DEF PopOld, Gain
<1> QED
  BY <1>1, <1>4, <1>9, <1>10, <1>11, <1>12, InSwitch, SwitchStep DEF PopOld

(* A block that passes handle_block_to_main_chain goes on top of the chain  *)
(* and meets its checkpoint.                                                *)
LEMMA AppendStep ==
  ASSUME Chain(main), NEW b \in Blocks, b # Genesis, header_ok(b), main' = Append(main, b)
  PROVE  /\ Chain(main') /\ Len(main') = Len(main) + 1 /\ main'[Len(main) + 1] = b
         /\ \A i \in 1..Len(main) : main'[i] = main[i]
         /\ Elems(main') \subseteq Elems(main) \union {b}
         /\ \A i \in 1..Len(main') : \/ i <= Len(main) /\ main'[i] = main[i]
                                     \/ check_block(i - 1, main'[i])
<1>1. Height[b] = Len(main)
  BY Zenon, ChildOfTip DEF header_ok, Tip
<1>2. /\ Chain(main') /\ Len(main') = Len(main) + 1 /\ main'[Len(main) + 1] = b
      /\ \A i \in 1..Len(main) : main'[i] = main[i]
      /\ Elems(main') \subseteq Elems(main) \union {b}
  <2>1. Len(main) \in Nat /\ main \in Seq(Blocks) /\ DOMAIN main = 1..Len(main)
    BY DEF Chain
  <2>2. /\ main' \in Seq(Blocks) /\ main' # <<>> /\ Len(main') = Len(main) + 1
        /\ \A i \in 1..Len(main) : main'[i] = main[i]
    BY <2>1, AppendProperties
  <2>3. main'[Len(main) + 1] = b
    BY <2>1, AppendProperties
  <2>4. DOMAIN main' = 1..(Len(main) + 1)
    BY <2>1, <2>2
  <2>5. Chain(main')
    <3>1. \A i \in 1..Len(main') : Height[main'[i]] = i - 1
      BY <1>1, <2>1, <2>2, <2>3 DEF Chain
    <3>2. \A i \in 1..Len(main) : Work[main[i]] <= Work[Tip] /\ main[i] \in Blocks
      BY <2>1 DEF Chain, Tip
    <3>3. Work[Tip] < Work[b] /\ Work[b] \in Int
      BY WorkAssumption DEF header_ok
    <3>4. \A i \in 1..Len(main) : Work[main[i]] <= Work[b]
      <4> TAKE i \in 1..Len(main)
      <4>1. Work[main[i]] \in Int /\ Work[Tip] \in Int
        BY <2>1, <3>2, WorkAssumption DEF Tip, Chain
      <4> QED BY <3>2, <3>3, <4>1
    <3>5. \A i, j \in 1..Len(main') : i <= j => Work[main'[i]] <= Work[main'[j]]
      <4> SUFFICES ASSUME NEW i \in 1..Len(main'), NEW j \in 1..Len(main'), i <= j
                   PROVE  Work[main'[i]] <= Work[main'[j]]
        OBVIOUS
      <4>1. CASE j <= Len(main)
        BY <2>1, <2>2, <4>1 DEF Chain
      <4>2. CASE j = Len(main) + 1 /\ i <= Len(main)
        BY <2>1, <2>2, <2>3, <3>4, <4>2
      <4>3. CASE j = Len(main) + 1 /\ i = j
        BY <2>3, <3>3, <4>3
      <4> QED BY <2>1, <2>2, <4>1, <4>2, <4>3
    <3> QED BY <2>2, <3>1, <3>5 DEF Chain
  <2>6. Elems(main') \subseteq Elems(main) \union {b}
    BY <2>1, <2>2, <2>3, <2>4 DEF Elems
  <2> QED BY <2>2, <2>3, <2>5, <2>6
<1>3. check_block(Len(main), b) /\ Len(main) \in Nat
  BY ChainFacts DEF header_ok
<1>4. \A i \in 1..Len(main') : \/ i <= Len(main) /\ main'[i] = main[i]
                               \/ check_block(i - 1, main'[i])
  <2> TAKE i \in 1..Len(main')
  <2>1. CASE i <= Len(main)
    BY <1>2, <1>3, <2>1
  <2>2. CASE i = Len(main) + 1
    <3>1. i - 1 = Len(main) /\ main'[i] = b
      BY <1>2, <1>3, <2>2
    <3> QED BY <1>3, <3>1
  <2> QED BY <1>2, <1>3, <2>1, <2>2
<1> QED BY <1>2, <1>4

(* The old blocks are all popped.                                           *)
LEMMA StartConnectingStep ==
  ASSUME ChainInv, StartConnecting
  PROVE  ChainInv'
<1>1. job \in SwitchJobs /\ Joint /\ Gain /\ Spread /\ Chain(main) /\ Len(main) \in Nat
  BY Zenon, InSwitch DEF StartConnecting
<1>2. job.kind = "pop" /\ Len(main) = job.split /\ main' = main
  BY DEF StartConnecting, At
<1>3. /\ job' \in SwitchJobs
      /\ job'.kind = "connect" /\ job'.alt = job.alt /\ job'.k = job.k /\ job'.old = job.old
      /\ job'.split = job.split /\ job'.from = job.from
      /\ job'.discard = job.discard
  BY Zenon, <1>1, SetKind DEF StartConnecting
<1>4. Joint'
  <2>1. job.k = 1 /\ \A i \in (job.split + 1)..Len(main) : FALSE
    BY <1>1, <1>2 DEF Joint
  <2>2. Len(main) = job.split + job.k - 1
    BY <1>1, <1>2, <2>1
  <2> QED BY <1>1, <1>2, <1>3, <2>1, <2>2 DEF Joint
<1>5. Spread'
  BY <1>1, <1>2, <1>3 DEF StartConnecting, Spread
<1>6. Gain'
  BY <1>1, <1>3 DEF StartConnecting, Gain
<1> QED
  BY <1>1, <1>2, <1>3, <1>4, <1>5, <1>6, InSwitch, SwitchStep DEF StartConnecting

(* The block of the new chain that is connected next.                       *)
LEMMA NextAlt ==
  ASSUME ChainInv, Connecting
  PROVE  /\ Next_alt \in Blocks /\ Next_alt # Genesis /\ Next_alt \in Elems(job.alt)
         /\ Next_alt \in Failed /\ job.k \in 1..Len(job.alt)
<1>1. job \in SwitchJobs /\ Joint
  BY Zenon, InSwitch DEF Connecting
<1>2. job.alt \in Seq(Blocks) /\ Len(job.alt) \in Nat /\ job.k \in Nat /\ job.split \in Nat
  BY <1>1, SwitchTypes
<1>3. job.k \in 1..Len(job.alt) /\ job.k \in job.k..Len(job.alt)
  BY <1>1, <1>2 DEF Connecting, Joint
<1>4. Height[job.alt[job.k]] = job.split + job.k - 1 /\ job.split >= 1
  BY <1>1, <1>3 DEF Joint
<1>5. job.alt[job.k] \in Blocks /\ job.alt[job.k] \in Elems(job.alt)
  BY <1>2, <1>3 DEF Elems
<1>6. Height[job.alt[job.k]] # 0
  BY <1>2, <1>3, <1>4
<1> QED BY <1>3, <1>5, <1>6, TreeAssumption DEF Next_alt, Failed

(* A block of the new chain is connected.                                   *)
LEMMA ConnectAltStep ==
  ASSUME ChainInv, ConnectAlt
  PROVE  ChainInv'
<1>1. job \in SwitchJobs /\ Joint /\ Gain /\ Spread /\ Chain(main) /\ Len(main) \in Nat
  BY Zenon, InSwitch DEF ConnectAlt, Connecting
<1>2. job.kind = "connect"
  BY DEF ConnectAlt, Connecting, At
<1>3. PICK b \in Blocks : /\ b = Next_alt /\ b # Genesis /\ b \in Elems(job.alt)
                          /\ job.k \in 1..Len(job.alt)
  BY NextAlt DEF ConnectAlt
<1>4. /\ Chain(main') /\ Len(main') = Len(main) + 1 /\ main'[Len(main) + 1] = b
      /\ \A i \in 1..Len(main) : main'[i] = main[i]
      /\ \A i \in 1..Len(main') : \/ i <= Len(main) /\ main'[i] = main[i]
                                  \/ check_block(i - 1, main'[i])
  BY Zenon, <1>1, <1>3, AppendStep DEF ConnectAlt, Append_block
<1>5. /\ job' \in SwitchJobs
      /\ job'.kind = job.kind /\ job'.alt = job.alt /\ job'.k = job.k + 1
      /\ job'.old = job.old /\ job'.split = job.split /\ job'.from = job.from
      /\ job'.discard = job.discard
  BY Zenon, <1>1, SetK DEF ConnectAlt
<1>6. job.split \in Nat /\ job.k \in Nat /\ Len(job.alt) \in Nat
  BY <1>1, SwitchTypes
<1>7. Joint'
  <2>1. job.split <= Len(main) /\ Len(main) = job.split + job.k - 1
    BY <1>1, <1>2 DEF Joint
  <2>2. \A i \in 1..job.split : main'[i] = job.from[i]
    BY <1>1, <1>4, <1>6, <2>1 DEF Joint
  <2>3. job.split <= Len(main') /\ Len(main') = job.split + (job.k + 1) - 1
    BY <1>1, <1>4, <1>6, <2>1
  <2>4. \A i \in (job.split + 1)..Len(main') : main'[i] = job.alt[i - job.split]
    <3> TAKE i \in (job.split + 1)..Len(main')
    <3>1. CASE i \in (job.split + 1)..Len(main)
      <4>1. i \in 1..Len(main) /\ main[i] = job.alt[i - job.split]
        BY <1>1, <1>2, <1>6, <3>1 DEF Joint
      <4> QED BY <1>4, <4>1
    <3>2. CASE i = Len(main) + 1
      <4>1. i - job.split = job.k
        BY <1>1, <1>6, <2>1, <3>2
      <4> QED BY <1>3, <1>4, <3>2, <4>1 DEF Next_alt
    <3> QED BY <1>1, <1>4, <1>6, <3>1, <3>2
  <2>5. job.k + 1 \in 1..(Len(job.alt) + 1)
    BY <1>3, <1>6
  <2> QED BY <1>1, <1>2, <1>5, <2>2, <2>3, <2>4, <2>5 DEF Joint
<1>8. Spread'
  BY <1>1, <1>2, <1>5 DEF ConnectAlt, Spread
<1>9. Gain'
  BY <1>1, <1>2, <1>5 DEF ConnectAlt, Gain
<1> QED
  BY <1>1, <1>4, <1>5, <1>7, <1>8, <1>9, InSwitch, SwitchStep DEF ConnectAlt, Connecting

(* A block of the new chain is refused.                                     *)
LEMMA FailAltStep ==
  ASSUME ChainInv, FailAlt
  PROVE  ChainInv'
<1>1. /\ job \in SwitchJobs /\ Joint /\ Gain /\ Spread /\ Chain(main) /\ Len(main) \in Nat
      /\ invalid \subseteq Blocks
  BY Zenon, InSwitch DEF FailAlt, Connecting
<1>2. job.kind = "connect" /\ main' = main
  BY DEF FailAlt, Connecting, At
<1>3. /\ Next_alt \in Blocks /\ Next_alt \in Elems(job.alt) /\ Next_alt \in Failed
      /\ job.k \in 1..Len(job.alt)
  BY Zenon, NextAlt DEF FailAlt
<1>4. /\ job' \in SwitchJobs
      /\ job'.kind = "undo" /\ job'.alt = job.alt /\ job'.k = job.k /\ job'.old = job.old
      /\ job'.split = job.split /\ job'.from = job.from
      /\ job'.discard = job.discard
  BY Zenon, <1>1, SetKind DEF FailAlt
<1>5. Joint'
  <2>1. job.k <= Len(job.alt)
    BY <1>3
  <2> QED BY <1>1, <1>2, <1>4, <2>1 DEF Joint
<1>6. invalid' \subseteq invalid \union {Next_alt}
  BY DEF FailAlt
<1>7. Spread'
  <2>1. Failed' = Failed
    BY Zenon, <1>4 DEF Failed
  <2>2. alts \cap invalid' \subseteq Failed
    BY <1>1, <1>2, <1>3, <1>6 DEF Spread
  <2>3. Next_alt \in alts /\ Elems(job.from) \cap alts = {} /\ Elems(job.from) \cap invalid = {}
    BY <1>1, <1>2, <1>3 DEF Spread
  <2>4. Elems(job.from) \cap invalid' = {}
    BY <1>6, <2>3
  <2> QED BY <1>1, <1>4, <2>1, <2>2, <2>3, <2>4 DEF FailAlt, Spread
<1>8. invalid' \subseteq Blocks
  BY <1>1, <1>3, <1>6
<1>9. Gain'
  BY <1>1, <1>4 DEF FailAlt, Gain
<1> QED
  BY <1>1, <1>2, <1>4, <1>5, <1>7, <1>8, <1>9, InSwitch, SwitchStep DEF FailAlt, Connecting

(* rollback_blockchain_switching pops a block of the new chain.             *)
LEMMA UndoAltStep ==
  ASSUME ChainInv, UndoAlt
  PROVE  ChainInv'
<1>1. job \in SwitchJobs /\ Joint /\ Gain /\ Spread /\ Chain(main) /\ Len(main) \in Nat
  BY Zenon, InSwitch DEF UndoAlt
<1>2. job.kind = "undo" /\ job' = job
  BY DEF UndoAlt, At
<1>3. job.split \in Nat /\ job.split >= 1 /\ Len(main) > job.split /\ Len(main) > 1
  BY <1>1 DEF UndoAlt, Joint
<1>4. /\ Chain(main') /\ Len(main') = Len(main) - 1
      /\ \A i \in 1..Len(main') : main'[i] = main[i]
  BY Zenon, <1>1, <1>3, ChainPop DEF UndoAlt, Pop_block
<1>5. Joint'
  <2>1. job.split <= Len(main') /\ \A i \in 1..job.split : main'[i] = job.from[i]
    BY <1>1, <1>3, <1>4 DEF Joint
  <2> QED BY <1>1, <1>2, <2>1 DEF Joint
<1>6. Spread'
  BY <1>1, <1>2 DEF UndoAlt, Spread, Failed
<1>7. Gain'
  BY <1>1, <1>2 DEF UndoAlt, Gain
<1> QED
  BY <1>1, <1>2, <1>4, <1>5, <1>6, <1>7, InSwitch, SwitchStep DEF UndoAlt

(* What was connected is popped: the chain is a part of the old one.        *)
LEMMA StartRestoringStep ==
  ASSUME ChainInv, StartRestoring
  PROVE  ChainInv'
<1>1. job \in SwitchJobs /\ Joint /\ Gain /\ Spread /\ Chain(main) /\ Len(main) \in Nat
  BY Zenon, InSwitch DEF StartRestoring
<1>2. job.kind = "undo" /\ Len(main) = job.split /\ main' = main
  BY DEF StartRestoring, At
<1>3. /\ job' \in SwitchJobs
      /\ job'.kind = "restore" /\ job'.alt = job.alt /\ job'.k = job.k
      /\ job'.old = job.old /\ job'.split = job.split /\ job'.from = job.from
      /\ job'.discard = job.discard
  <2>1. job' = [job EXCEPT !.kind = "restore"]
    BY DEF StartRestoring
  <2> QED BY <1>1, <2>1 DEF SwitchJobs
<1>4. Elems(main) \subseteq Elems(job.from)
  <2>1. \A x \in Elems(main) : \E i \in 1..Len(main) : x = main[i]
    BY <1>1, ChainFacts
  <2>2. \A i \in 1..Len(main) : main[i] = job.from[i] /\ i \in 1..Len(job.from)
    BY <1>1, <1>2 DEF Joint
  <2>3. \A i \in 1..Len(job.from) : job.from[i] \in Elems(job.from)
    BY <1>1, ChainFacts DEF Joint
  <2> QED BY <2>1, <2>2, <2>3
<1>5. Joint'
  BY <1>1, <1>2, <1>3, <1>4 DEF Joint
<1>6. Spread'
  <2>1. Failed' = Failed
    BY Zenon, <1>3 DEF Failed
  <2> QED BY <1>1, <1>2, <1>3, <2>1 DEF StartRestoring, Spread
<1>7. Gain'
  BY <1>1, <1>3 DEF StartRestoring, Gain
<1> QED
  BY <1>1, <1>2, <1>3, <1>5, <1>6, <1>7, InSwitch, SwitchStep DEF StartRestoring

(* The first of the blocks that were popped, and the others.                *)
LEMMA OldBlocks ==
  ASSUME ChainInv, job \in SwitchJobs, Joint, job.old # <<>>
  PROVE  /\ Head(job.old) \in Blocks /\ Head(job.old) # Genesis
         /\ Head(job.old) \in Elems(job.from) /\ Height[Head(job.old)] >= job.split
         /\ Tail(job.old) \in Seq(Blocks)
         /\ \A i \in 1..Len(Tail(job.old)) : /\ Tail(job.old)[i] \in Elems(job.from)
                                            /\ Height[Tail(job.old)[i]] >= job.split
<1>1. PICK o \in Seq(Blocks) : o = job.old /\ o # <<>>
  BY SwitchTypes
<1>2. \A i \in 1..Len(o) : o[i] \in Elems(job.from) /\ Height[o[i]] >= job.split
  BY <1>1 DEF Joint
<1>3. /\ Head(o) \in Blocks /\ Head(o) = o[1] /\ Tail(o) \in Seq(Blocks)
      /\ Len(o) \in Nat /\ 1 \in 1..Len(o) /\ Len(Tail(o)) = Len(o) - 1
      /\ \A i \in 1..Len(Tail(o)) : Tail(o)[i] = o[i + 1]
  BY <1>1, HeadTailProperties
<1>4. \A i \in 1..Len(Tail(o)) : i + 1 \in 1..Len(o) /\ Tail(o)[i] = o[i + 1]
  BY <1>3
<1>5. \A i \in 1..Len(Tail(o)) : /\ Tail(o)[i] \in Elems(job.from)
                               /\ Height[Tail(o)[i]] >= job.split
  BY Zenon, <1>2, <1>4
<1>6. Head(o) \in Elems(job.from) /\ Height[Head(o)] >= job.split
  BY <1>2, <1>3
<1>7. job.split \in Nat /\ job.split >= 1
  BY SwitchTypes DEF Joint
<1>8. Height[Head(o)] # 0
  BY <1>3, <1>6, <1>7, HeightFacts
<1> QED BY <1>1, <1>3, <1>5, <1>6, <1>8, TreeAssumption

(* A block of the old chain is added again.                                 *)
LEMMA RestoreOldStep ==
  ASSUME ChainInv, RestoreOld
  PROVE  ChainInv'
<1>1. job \in SwitchJobs /\ Joint /\ Gain /\ Spread /\ Chain(main) /\ Len(main) \in Nat
  BY Zenon, InSwitch DEF RestoreOld
<1>2. job.kind = "restore" /\ job.old # <<>>
  BY DEF RestoreOld, At
<1>3. PICK b \in Blocks : b = Head(job.old) /\ b # Genesis /\ b \in Elems(job.from)
  BY <1>1, <1>2, OldBlocks
<1>4. PICK o \in Seq(Blocks) :
        /\ o = Tail(job.old)
        /\ \A i \in 1..Len(o) : o[i] \in Elems(job.from) /\ Height[o[i]] >= job.split
  BY Zenon, <1>1, <1>2, OldBlocks
<1>5. /\ Chain(main') /\ Len(main') = Len(main) + 1
      /\ \A i \in 1..Len(main) : main'[i] = main[i]
      /\ Elems(main') \subseteq Elems(main) \union {b}
      /\ \A i \in 1..Len(main') : \/ i <= Len(main) /\ main'[i] = main[i]
                                  \/ check_block(i - 1, main'[i])
  <2>1. header_ok(b) /\ main' = Append(main, b)
    BY <1>3 DEF RestoreOld, Append_block
  <2> QED BY Zenon, <1>1, <1>3, <2>1, AppendStep
<1>6. /\ job' \in SwitchJobs
      /\ job'.kind = job.kind /\ job'.alt = job.alt /\ job'.k = job.k /\ job'.old = o
      /\ job'.split = job.split /\ job'.from = job.from
      /\ job'.discard = job.discard
  <2>1. job' = [job EXCEPT !.old = o]
    BY <1>4 DEF RestoreOld
  <2>2. OldSet(job', job, o)
    BY Zenon, <1>1, <2>1, SetOld
  <2> QED BY Zenon, <2>2 DEF OldSet
<1>7. Joint'
  <2>1. job.split \in Nat
    BY <1>1, SwitchTypes
  <2>2. job.split <= Len(main') /\ \A i \in 1..job.split : main'[i] = job.from[i]
    BY <1>1, <1>5, <2>1 DEF Joint
  <2>3. Elems(main') \subseteq Elems(job.from)
    BY <1>1, <1>2, <1>3, <1>5 DEF Joint
  <2> QED BY <1>1, <1>2, <1>4, <1>6, <2>2, <2>3 DEF Joint
<1>8. Spread'
  <2>1. Failed' = Failed
    BY Zenon, <1>6 DEF Failed
  <2> QED BY <1>1, <1>2, <1>6, <2>1 DEF RestoreOld, Spread
<1>9. Gain'
  BY <1>1, <1>2, <1>6 DEF RestoreOld, Gain
<1> QED
  BY <1>1, <1>5, <1>6, <1>7, <1>8, <1>9, InSwitch, SwitchStep DEF RestoreOld

(* The switch has failed: its blocks become invalid ones.                   *)
LEMMA EndRestoringStep ==
  ASSUME ChainInv, EndRestoring
  PROVE  ChainInv'
<1>1. /\ job \in SwitchJobs /\ Joint /\ Spread /\ alts \subseteq Blocks
      /\ invalid \subseteq Blocks
  BY Zenon, InSwitch DEF EndRestoring
<1>2. job.kind = "restore"
  BY DEF EndRestoring, At
<1>3. /\ invalid' = invalid \union Failed /\ alts' = alts \ Failed /\ job' = None
      /\ main' = main /\ points' = points /\ disk' = disk
  BY DEF EndRestoring, Failed
<1>4. Failed \subseteq Elems(job.alt)
  <2>1. job.k \in Nat /\ job.k >= 1 /\ job.alt \in Seq(Blocks) /\ Len(job.alt) \in Nat
    BY <1>1, SwitchTypes DEF Joint
  <2>2. \A i \in job.k..Len(job.alt) : i \in DOMAIN job.alt
    BY <2>1
  <2> QED BY Zenon, <2>2 DEF Failed, Elems
<1>5. /\ Failed \subseteq alts /\ Elems(main) \subseteq Elems(job.from)
      /\ Elems(job.from) \cap invalid = {} /\ Elems(job.from) \cap alts = {}
      /\ alts \cap invalid \subseteq Failed
  BY <1>1, <1>2, <1>4 DEF Joint, Spread
<1> HIDE DEF Failed
<1>6. Elems(main) \cap (alts' \union invalid') = {} /\ alts' \cap invalid' = {}
  BY <1>3, <1>5
<1>7. alts' \subseteq Blocks /\ invalid' \subseteq Blocks
  BY <1>1, <1>3, <1>5
<1> QED BY Zenon, <1>1, <1>3, <1>6, <1>7, SwitchEnd

(* The new chain is connected.                                              *)
LEMMA StartPushingStep ==
  ASSUME ChainInv, StartPushing
  PROVE  ChainInv'
<1>1. job \in SwitchJobs /\ Joint /\ Gain /\ Spread /\ Chain(main) /\ Len(main) \in Nat
  BY Zenon, InSwitch DEF StartPushing
<1>2. job.kind = "connect" /\ main' = main
  BY DEF StartPushing, At
<1>3. PICK o \in Seq(Blocks) : /\ o = IF job.discard THEN <<>> ELSE job.old
                               /\ o = <<>> \/ o = job.old
  <2>1. job.old \in Seq(Blocks) /\ <<>> \in Seq(Blocks)
    BY <1>1, SwitchTypes
  <2> QED BY Zenon, <2>1
<1>4. /\ job' \in SwitchJobs
      /\ job'.kind = "push" /\ job'.alt = job.alt /\ job'.k = job.k /\ job'.old = o
      /\ job'.split = job.split /\ job'.from = job.from
      /\ job'.discard = job.discard
  <2>1. job' = [job EXCEPT !.kind = "push", !.old = o]
    BY <1>3 DEF StartPushing
  <2> QED BY <1>1, <2>1 DEF SwitchJobs
<1>5. Joint'
  <2>1. \A i \in 1..Len(o) : o[i] \in Elems(job.from) /\ Height[o[i]] >= job.split
    BY <1>1, <1>3 DEF Joint
  <2>2. Len(main) = job.split + Len(job.alt)
    <3>1. job.k = Len(job.alt) + 1
      BY <1>1, SwitchTypes DEF Joint, StartPushing
    <3> QED BY <1>1, <1>2, <3>1, SwitchTypes DEF Joint
  <2> QED BY <1>1, <1>2, <1>4, <2>1, <2>2 DEF Joint
<1>6. Spread'
  <2>1. \A i \in 1..job.split : job.from[i] \in Elems(job.from)
    BY <1>1, ChainFacts DEF Joint
  <2> QED BY <1>1, <1>2, <1>4, <2>1 DEF StartPushing, Spread
<1>7. Gain'
  BY <1>1, <1>3, <1>4 DEF StartPushing, Gain
<1> QED
  BY <1>1, <1>2, <1>4, <1>5, <1>6, <1>7, InSwitch, SwitchStep DEF StartPushing

(* A block of the old chain becomes an alternative one: it is none of those *)
(* below the split.                                                         *)
LEMMA PushOldStep ==
  ASSUME ChainInv, PushOld
  PROVE  ChainInv'
<1>1. /\ job \in SwitchJobs /\ Joint /\ Gain /\ Spread /\ Chain(main) /\ Len(main) \in Nat
      /\ alts \subseteq Blocks
  BY Zenon, InSwitch DEF PushOld
<1>2. job.kind = "push" /\ job.old # <<>> /\ main' = main
  BY DEF PushOld, At
<1>3. PICK b \in Blocks :
        b = Head(job.old) /\ b \in Elems(job.from) /\ Height[b] >= job.split
  BY <1>1, <1>2, OldBlocks
<1>4. PICK o \in Seq(Blocks) :
        /\ o = Tail(job.old)
        /\ \A i \in 1..Len(o) : o[i] \in Elems(job.from) /\ Height[o[i]] >= job.split
  BY Zenon, <1>1, <1>2, OldBlocks
<1>5. alts \subseteq alts' /\ alts' \subseteq alts \union {b}
  BY <1>3 DEF PushOld
<1>6. /\ job' \in SwitchJobs
      /\ job'.kind = job.kind /\ job'.alt = job.alt /\ job'.k = job.k /\ job'.old = o
      /\ job'.split = job.split /\ job'.from = job.from
      /\ job'.discard = job.discard
  <2>1. job' = [job EXCEPT !.old = o]
    BY <1>4 DEF PushOld
  <2>2. OldSet(job', job, o)
    BY Zenon, <1>1, <2>1, SetOld
  <2> QED BY Zenon, <2>2 DEF OldSet
<1>7. Joint'
  BY <1>1, <1>2, <1>4, <1>6 DEF Joint
<1>8. Spread'
  <2>1. b \notin invalid
    BY <1>1, <1>3 DEF Spread
  <2>2. \A i \in 1..job.split : job.from[i] # b
    <3> TAKE i \in 1..job.split
    <3>1. Height[job.from[i]] = i - 1 /\ job.split \in Nat
      BY <1>1, SwitchTypes DEF Joint, Chain
    <3> QED BY <1>3, <3>1, HeightFacts
  <2> QED BY <1>1, <1>2, <1>5, <1>6, <2>1, <2>2 DEF PushOld, Spread
<1>9. Gain'
  BY <1>1, <1>4, <1>6 DEF PushOld, Gain
<1> QED
  BY <1>1, <1>2, <1>5, <1>6, <1>7, <1>8, <1>9, InSwitch, SwitchStep DEF PushOld

(* The switch has succeeded: its blocks leave the alternative ones.         *)
LEMMA EndSwitchStep ==
  ASSUME ChainInv, EndSwitch
  PROVE  ChainInv'
<1>1. /\ job \in SwitchJobs /\ Joint /\ Gain /\ Spread /\ Chain(main) /\ Len(main) \in Nat
      /\ alts \subseteq Blocks /\ invalid \subseteq Blocks
  BY Zenon, InSwitch DEF EndSwitch
<1>2. job.kind = "push"
  BY DEF EndSwitch, At
<1>3. /\ alts' = alts \ Elems(job.alt) /\ invalid' = invalid /\ job' = None
      /\ main' = main /\ points' = points /\ disk' = disk
  BY DEF EndSwitch
<1>4. \A x \in Elems(main) : x \notin alts' /\ x \notin invalid
  <2> TAKE x \in Elems(main)
  <2>1. PICK i \in 1..Len(main) : x = main[i]
    BY <1>1, ChainFacts
  <2>2. CASE i <= job.split
    <3>1. i \in 1..job.split /\ i \in 1..Len(job.from) /\ x = job.from[i]
      BY <1>1, <2>1, <2>2, SwitchTypes DEF Joint
    <3>2. x \in Elems(job.from)
      BY <1>1, <3>1, ChainFacts DEF Joint
    <3> QED BY <1>1, <1>2, <1>3, <3>1, <3>2 DEF Spread
  <2>3. CASE i > job.split
    <3>1. /\ i \in (job.split + 1)..Len(main) /\ i - job.split \in 1..Len(job.alt)
          /\ job.alt \in Seq(Blocks)
      BY <1>1, <1>2, <2>1, <2>3, SwitchTypes DEF Joint
    <3>2. x = job.alt[i - job.split]
      BY <1>1, <1>2, <2>1, <3>1 DEF Joint
    <3>3. x \in Elems(job.alt)
      BY <3>1, <3>2 DEF Elems
    <3> QED BY <1>1, <1>2, <1>3, <3>3 DEF Spread
  <2> QED BY <1>1, <2>2, <2>3, SwitchTypes
<1>5. Elems(main) \cap (alts' \union invalid') = {} /\ alts' \cap invalid' = {}
  BY <1>1, <1>2, <1>3, <1>4 DEF Spread
<1>6. alts' \subseteq Blocks /\ invalid' \subseteq Blocks
  BY <1>1, <1>3
<1> QED BY Zenon, <1>1, <1>3, <1>5, <1>6, SwitchEnd
=============================================================================
