-------------------------- MODULE BlockchainProofs --------------------------
(***************************************************************************)
(* The steps outside a switch, and what the inductive invariant ChainInv   *)
(* of BlockchainInvariant implies.                                         *)
(***************************************************************************)
EXTENDS BlockchainInvariant

(* What holds while no switch is at work.                                   *)
LEMMA NoSwitch ==
  ASSUME ChainInv, job \notin SwitchJobs
  PROVE  /\ Chain(main) /\ Len(main) \in Nat /\ Len(main) >= 1
         /\ alts \subseteq Blocks /\ invalid \subseteq Blocks
         /\ Elems(main) \cap (alts \union invalid) = {} /\ alts \cap invalid = {}
<1>1. Types /\ Apart
  BY DEF ChainInv
<1>2. Chain(main) /\ alts \subseteq Blocks /\ invalid \subseteq Blocks
  BY <1>1 DEF Types
<1>3. Elems(main) \cap (alts \union invalid) = {} /\ alts \cap invalid = {}
  BY <1>1 DEF Apart, Switching
<1> QED BY <1>2, <1>3, ChainFacts

(* Between the operations, and while pop_blocks is at work.                 *)
LEMMA NoJob ==
  ASSUME job = None
  PROVE  job \notin SwitchJobs /\ job \notin CheckJobs /\ job \notin PopJobs
  BY Zenon, OneKind

(* What a step outside a switch has to show.                                *)
LEMMA PlainStep ==
  ASSUME ChainInv, job' \notin SwitchJobs,
         job' \in {None} \union CheckJobs \union PopJobs,
         job' \in PopJobs => job'.target \in 1..(Len(main') - 1),
         Chain(main'), alts' \subseteq Blocks, invalid' \subseteq Blocks,
         Elems(main') \cap (alts' \union invalid') = {}, alts' \cap invalid' = {},
         points' \in [Heights -> Blocks \union {None}], disk' = disk, Met'
  PROVE  ChainInv'
<1>1. Types'
  BY DEF ChainInv, Types
<1>2. Apart'
  BY DEF ChainInv, Apart, Switching
<1>3. Joints'
  BY DEF Joints, Switching
<1> QED BY <1>1, <1>2, <1>3 DEF ChainInv

(* add_new_block puts a block on the main chain.                            *)
LEMMA AddToMainStep ==
  ASSUME ChainInv, NEW b \in Blocks, AddToMain(b)
  PROVE  ChainInv'
<1>1. job = None /\ job' = None
  BY DEF AddToMain, Idle
<1>2. job \notin SwitchJobs /\ job \notin CheckJobs /\ job \notin PopJobs
  BY <1>1, NoJob
<1>3. /\ Chain(main) /\ Len(main) \in Nat /\ Len(main) >= 1
      /\ alts \subseteq Blocks /\ invalid \subseteq Blocks
      /\ Elems(main) \cap (alts \union invalid) = {} /\ alts \cap invalid = {}
  BY Zenon, <1>2, NoSwitch
<1>4. b # Genesis
  <2>1. Genesis \in Elems(main)
    BY <1>3, ChainFacts
  <2> QED BY <2>1 DEF AddToMain, have_block
<1>5. /\ Chain(main') /\ Len(main') = Len(main) + 1
      /\ Elems(main') \subseteq Elems(main) \union {b}
      /\ \A i \in 1..Len(main') : \/ i <= Len(main) /\ main'[i] = main[i]
                                  \/ check_block(i - 1, main'[i])
  <2>1. header_ok(b) /\ main' = Append(main, b)
    BY DEF AddToMain, Append_block
  <2> QED BY Zenon, <1>3, <1>4, <2>1, AppendStep
<1>6. Met'
  <2>1. Len(main') \in Nat /\ points' = points /\ Met
    BY <1>3, <1>5 DEF AddToMain, ChainInv
  <2> QED BY <1>1, <1>2, <1>3, <1>5, <2>1, MetKept
<1>7. b \notin alts \union invalid
  BY DEF AddToMain, have_block
<1>8. Elems(main') \cap (alts' \union invalid') = {} /\ alts' \cap invalid' = {}
  BY <1>3, <1>5, <1>7 DEF AddToMain
<1> QED BY <1>1, <1>2, <1>3, <1>5, <1>6, <1>8, PlainStep DEF AddToMain, ChainInv, Types

(* add_new_block refuses a block and remembers it.                          *)
LEMMA RefuseToMainStep ==
  ASSUME ChainInv, NEW b \in Blocks, RefuseToMain(b)
  PROVE  ChainInv'
<1>1. job = None /\ job' = None /\ main' = main /\ points' = points
  BY DEF RefuseToMain, Idle
<1>2. job \notin SwitchJobs /\ job \notin CheckJobs /\ job \notin PopJobs
  BY <1>1, NoJob
<1>3. /\ Chain(main) /\ Len(main) \in Nat
      /\ alts \subseteq Blocks /\ invalid \subseteq Blocks
      /\ Elems(main) \cap (alts \union invalid) = {} /\ alts \cap invalid = {}
  BY Zenon, <1>2, NoSwitch
<1>4. Met'
  BY <1>1, <1>2, <1>3, MetKept DEF ChainInv
<1>5. b \notin Elems(main) /\ b \notin alts
  BY DEF RefuseToMain, have_block
<1>6. Elems(main') \cap (alts' \union invalid') = {} /\ alts' \cap invalid' = {}
  BY <1>1, <1>3, <1>5 DEF RefuseToMain
<1> QED BY <1>1, <1>2, <1>3, <1>4, <1>6, PlainStep DEF RefuseToMain, ChainInv, Types
-----------------------------------------------------------------------------
(* The alternative chain that a block belongs to: it starts above the split *)
(* and consists of alternative blocks, but for the new block itself.        *)
LEMMA AltChain ==
  ASSUME ChainInv, job = None, NEW b \in Blocks, b # Genesis
  PROVE  /\ root(b) \in 1..Height[b]
         /\ alt_chain(b) \in Seq(Blocks) /\ Len(alt_chain(b)) = Height[b] + 1 - root(b)
         /\ \A i \in 1..Len(alt_chain(b)) : Height[alt_chain(b)[i]] = root(b) + i - 1
         /\ \A i \in 1..Len(alt_chain(b)) : alt_chain(b)[i] \in alts \union {b}
         /\ alt_chain(b)[Len(alt_chain(b))] = b
<1>1. /\ Height[b] \in Nat /\ Height[b] # 0 /\ Len(PathTo[b]) = Height[b] + 1
      /\ PathTo[b] \in Seq(Blocks) /\ PathTo[b][Len(PathTo[b])] = b
      /\ \A i \in 1..Len(PathTo[b]) : Height[PathTo[b][i]] = i - 1
  BY HeightFacts, TreeAssumption
<1>2. PICK S : S = {i \in 1..Height[b] : PathTo[b][i] \notin alts}
  OBVIOUS
<1>3. 1 \in S
  <2>1. 1 \in 1..Len(PathTo[b])
    BY <1>1
  <2>2. PathTo[b][1] \in Blocks /\ Height[PathTo[b][1]] = 0
    BY <1>1, <2>1
  <2>3. PathTo[b][1] = Genesis
    BY <2>2, TreeAssumption
  <2>4. Genesis \in Elems(main) /\ Elems(main) \cap alts = {}
    BY NoJob, NoSwitch, ChainFacts
  <2> QED BY <1>1, <1>2, <2>3, <2>4
<1>4. PICK r \in S : r = root(b) /\ \A m \in S : m <= r
  <2>1. S \subseteq 0..Height[b] /\ S # {}
    BY <1>1, <1>2, <1>3
  <2>2. Greatest(S) \in S /\ \A m \in S : m <= Greatest(S)
    BY Zenon, <1>1, <2>1, GreatestIs
  <2>3. root(b) = Greatest(S)
    BY <1>2 DEF root
  <2> QED BY <2>2, <2>3
<1>5. r \in 1..Height[b]
  BY <1>2, <1>4
<1>6. PICK c : c = alt_chain(b)
  OBVIOUS
<1>7. PICK p \in Seq(Blocks) :
        /\ p = PathTo[b] /\ Len(p) = Height[b] + 1 /\ p[Len(p)] = b
        /\ \A i \in 1..Len(p) : Height[p[i]] = i - 1
  BY Zenon, <1>1
<1>8. Len(p) \in Nat /\ r \in Nat /\ r >= 1 /\ r < Len(p) /\ Height[b] \in Nat
  BY <1>1, <1>5, <1>7
<1>9. /\ c \in Seq(Blocks) /\ Len(c) = Len(p) - r
      /\ \A i \in 1..Len(c) : c[i] = p[r + i]
  <2>1. c = SubSeq(p, r + 1, Len(p))
    BY Zenon, <1>4, <1>6, <1>7 DEF alt_chain
  <2>2. r + 1 \in 1..(Len(p) + 1) /\ Len(p) \in ((r + 1) - 1)..Len(p) /\ r + 1 <= Len(p)
    BY <1>8
  <2>3. /\ c \in Seq(Blocks)
        /\ Len(c) = IF r + 1 <= Len(p) THEN Len(p) - (r + 1) + 1 ELSE 0
        /\ \A i \in 1..(Len(p) - (r + 1) + 1) : c[i] = p[(r + 1) + i - 1]
    BY <2>1, <2>2, SubSeqProperties
  <2>4. Len(c) = Len(p) - (r + 1) + 1
    BY Zenon, <2>2, <2>3
  <2>5. \A i \in 1..Len(c) : (r + 1) + i - 1 = r + i
    BY <1>8, <2>4
  <2>6. Len(c) = Len(p) - r
    BY <1>8, <2>4
  <2> QED BY Zenon, <2>3, <2>4, <2>5, <2>6
<1>10. ASSUME NEW i \in 1..Len(c)
      PROVE  Height[c[i]] = r + i - 1 /\ c[i] \in alts \union {b}
  <2>1. r + i \in 1..Len(p) /\ c[i] = p[r + i]
    BY <1>8, <1>9
  <2>2. Height[c[i]] = r + i - 1
    <3>1. Height[p[r + i]] = (r + i) - 1
      BY Zenon, <1>7, <2>1
    <3> QED BY <1>8, <2>1, <3>1
  <2>3. CASE r + i = Len(p)
    BY Zenon, <1>7, <2>1, <2>2, <2>3
  <2>4. CASE r + i # Len(p)
    <3>1. r + i \in 1..Height[b] /\ ~(r + i <= r)
      BY <1>7, <1>8, <2>1, <2>4
    <3>2. r + i \notin S
      BY <1>4, <3>1
    <3>3. p[r + i] \in alts
      BY Zenon, <1>2, <1>7, <3>1, <3>2
    <3> QED BY <2>1, <2>2, <3>3
  <2> QED BY <2>2, <2>3, <2>4
<1>11. c[Len(c)] = b
  <2>1. Len(c) \in 1..Len(c) /\ r + Len(c) = Len(p)
    BY <1>8, <1>9
  <2> QED BY Zenon, <1>7, <1>9, <2>1
<1>12. Len(c) = Height[b] + 1 - r
  BY <1>7, <1>8, <1>9
<1> QED BY Zenon, <1>4, <1>5, <1>6, <1>9, <1>10, <1>11, <1>12

(* add_new_block stores an alternative block, which may start a switch.     *)
LEMMA AddAlternativeStep ==
  ASSUME ChainInv, NEW b \in Blocks, AddAlternative(b)
  PROVE  ChainInv'
<1>1. /\ job = None /\ main' = main /\ invalid' = invalid /\ points' = points
      /\ disk' = disk /\ alts' = alts \union {b} /\ b # Genesis
  BY DEF AddAlternative, Idle
<1>2. job \notin SwitchJobs /\ job \notin CheckJobs /\ job \notin PopJobs
  BY <1>1, NoJob
<1>3. /\ Chain(main) /\ Len(main) \in Nat /\ Len(main) >= 1
      /\ alts \subseteq Blocks /\ invalid \subseteq Blocks
      /\ Elems(main) \cap (alts \union invalid) = {} /\ alts \cap invalid = {}
  BY Zenon, <1>2, NoSwitch
<1>4. b \notin Elems(main) /\ b \notin invalid
  BY DEF AddAlternative, have_block
<1>5. /\ Elems(main) \cap (alts' \union invalid) = {} /\ alts' \cap invalid = {}
      /\ alts' \subseteq Blocks
  BY <1>1, <1>3, <1>4
<1>6. CASE ~Switches(b)
  <2>1. job' = None /\ job' \notin CheckJobs /\ job' \notin PopJobs /\ job' \notin SwitchJobs
    BY <1>1, <1>2, <1>6 DEF AddAlternative
  <2>2. Met'
    BY <1>1, <1>2, <1>3, <2>1, MetKept DEF ChainInv
  <2> QED BY <1>1, <1>3, <1>5, <2>1, <2>2, PlainStep DEF ChainInv, Types
<1>7. CASE Switches(b)
  <2>1. PICK r \in 1..Height[b], c \in Seq(Blocks) :
          /\ r = root(b) /\ c = alt_chain(b) /\ Len(c) = Height[b] + 1 - r
          /\ \A i \in 1..Len(c) : Height[c[i]] = r + i - 1
          /\ \A i \in 1..Len(c) : c[i] \in alts \union {b}
          /\ c[Len(c)] = b
    BY Zenon, <1>1, AltChain
  <2>2. PICK d \in BOOLEAN : d = (points[Height[b]] # None)
    OBVIOUS
  <2>3. job' = [kind |-> "pop", alt |-> c, k |-> 1, old |-> <<>>,
                split |-> r, discard |-> d, from |-> main]
    BY <1>7, <2>1, <2>2 DEF AddAlternative, Switch
  <2>4. Height[b] \in Nat /\ r \in Nat /\ r >= 1 /\ Len(c) \in Nat /\ Len(c) >= 1 /\ c # <<>>
    BY <2>1, HeightFacts
  <2>5. /\ job' \in SwitchJobs /\ job'.kind = "pop" /\ job'.alt = c /\ job'.k = 1
        /\ job'.old = <<>> /\ job'.split = r /\ job'.discard = d /\ job'.from = main
    <3>1. main \in Seq(Blocks) /\ <<>> \in Seq(Blocks) /\ 1 \in Nat /\ r \in Nat
      BY <1>3, <2>4 DEF Chain
    <3> QED BY <2>1, <2>2, <2>3, <3>1 DEF SwitchJobs
  <2>6. r <= Len(main)
    BY <2>1 DEF AddAlternative, alternative_ok, build_alt_chain
  <2>7. Joint'
    <3>1. r \in 1..Len(main) /\ 1 \in 1..(Len(c) + 1) /\ Len(<<>>) = 0
      BY <1>3, <2>4, <2>6
    <3>2. \A i \in 1..Len(<<>>) : FALSE
      BY <3>1
    <3> QED BY <1>1, <1>3, <2>1, <2>4, <2>5, <2>6, <3>1, <3>2 DEF Joint
  <2>8. Gain'
    <3>1. CASE d
      BY <2>5, <3>1 DEF Gain
    <3>2. CASE ~d
      <4>1. points[Height[b]] = None
        BY <2>2, <3>2
      <4>2. Work[main[Len(main)]] < Work[b]
        BY <1>7, <4>1 DEF Switches, Tip
      <4>3. \A h \in Heights : (points[h] # None /\ h <= Len(main)) => h < Height[b]
        BY DEF AddAlternative, alternative_ok, is_alternative_block_allowed
      <4> QED BY <1>1, <2>1, <2>5, <4>2, <4>3 DEF Gain
    <3> QED BY <3>1, <3>2
  <2>9. Spread'
    <3>1. Elems(c) \subseteq alts'
      BY <1>1, <2>1 DEF Elems
    <3> QED BY <1>1, <1>3, <1>5, <2>5, <3>1 DEF Spread
  <2>10. job' \notin CheckJobs /\ job' \notin PopJobs
    BY <2>5, OneKind
  <2>11. Met'
    BY <1>1, <1>2, <1>3, <2>10, MetKept DEF ChainInv
  <2>12. Types'
    BY <1>1, <1>3, <1>5, <2>5, <2>10 DEF ChainInv, Types
  <2>13. Apart'
    BY <1>1, <2>5, <2>9 DEF ChainInv, Apart, Switching
  <2> QED BY <2>7, <2>8, <2>11, <2>12, <2>13 DEF ChainInv, Joints
<1> QED BY <1>6, <1>7
-----------------------------------------------------------------------------
(* What holds while check_against_checkpoints is at work.                   *)
LEMMA InCheck ==
  ASSUME ChainInv, At("check") \/ At("rollback")
  PROVE  /\ job \in CheckJobs /\ job \notin SwitchJobs /\ job # None
         /\ job.todo \subseteq Heights /\ job.height \in Nat /\ job.target \in Nat
         /\ job.height >= Len(main)
         /\ \A h \in 2..(Len(main) - 1) : check_block(h, main[h + 1]) \/ h \in job.todo
<1>1. job \in CheckJobs
  BY Zenon, Kinds DEF ChainInv
<1>2. job \notin SwitchJobs /\ job # None
  BY Zenon, <1>1, OneKind
<1>3. job.todo \subseteq Heights /\ job.height \in Nat /\ job.target \in Nat
  BY <1>1 DEF CheckJobs
<1> QED BY <1>1, <1>2, <1>3 DEF ChainInv, Met

(* The check goes through the checkpoints from the lowest one up.           *)
LEMMA LowestIs ==
  ASSUME job.todo \subseteq Heights, job.todo # {}
  PROVE  Lowest \in job.todo /\ Lowest \in Nat /\ \A h \in job.todo : Lowest <= h
<1>1. job.todo \subseteq Nat
  BY HeightFacts
<1>2. \E x \in job.todo : \A y \in job.todo : x <= y
  BY Zenon, <1>1, HasLeast
<1>3. Lowest \in job.todo /\ \A h \in job.todo : Lowest <= h
  BY Zenon, <1>2 DEF Lowest
<1> QED BY <1>1, <1>3

(* core::update_checkpoints: every checkpoint is to be looked at.           *)
LEMMA UpdateCheckpointsStep ==
  ASSUME ChainInv, NEW new \in SUBSET Announced, UpdateCheckpoints(new)
  PROVE  ChainInv'
<1>1. /\ job = None /\ main' = main /\ alts' = alts /\ invalid' = invalid
      /\ disk' = disk
  BY DEF UpdateCheckpoints, Idle
<1>2. job \notin SwitchJobs
  BY <1>1, NoJob
<1>3. /\ Chain(main) /\ Len(main) \in Nat
      /\ alts \subseteq Blocks /\ invalid \subseteq Blocks
      /\ Elems(main) \cap (alts \union invalid) = {} /\ alts \cap invalid = {}
  BY Zenon, <1>2, NoSwitch
<1>4. points \in [Heights -> Blocks \union {None}] /\ new \subseteq Blocks
  BY BlocksAssumption DEF ChainInv, Types
<1>5. points' \in [Heights -> Blocks \union {None}]
  BY <1>4 DEF UpdateCheckpoints
<1>6. PICK T : T = {h \in Heights : points'[h] # None}
  OBVIOUS
<1>7. /\ job' \in CheckJobs /\ job'.kind = "check" /\ job'.todo = T
      /\ job'.height = Len(main)
  <2>1. job' = [kind |-> "check", todo |-> T, height |-> Len(main), target |-> 0]
    BY <1>6 DEF UpdateCheckpoints
  <2>2. T \in SUBSET Heights
    BY <1>6
  <2> QED BY <1>3, <2>1, <2>2 DEF CheckJobs
<1>8. job' \notin SwitchJobs /\ job' \notin PopJobs
  BY <1>7, OneKind
<1>9. Met'
  <2>1. \A h \in 2..(Len(main) - 1) : h \in Heights
    BY <1>3, ChainFacts
  <2>2. \A h \in 2..(Len(main) - 1) : points'[h] \in {None, main[h + 1]} \/ h \in T
    BY <1>6, <2>1
  <2>3. Len(main) >= Len(main)
    BY <1>3
  <2> QED BY <1>1, <1>7, <2>2, <2>3 DEF Met, check_block
<1> QED BY <1>1, <1>3, <1>5, <1>7, <1>8, <1>9, PlainStep

(* A checkpoint is met, or has nothing to say of the chain.                 *)
LEMMA PassPointStep ==
  ASSUME ChainInv, PassPoint
  PROVE  ChainInv'
<1>1. /\ job \in CheckJobs /\ job \notin SwitchJobs
      /\ job.todo \subseteq Heights /\ job.height \in Nat /\ job.height >= Len(main)
      /\ \A h \in 2..(Len(main) - 1) : check_block(h, main[h + 1]) \/ h \in job.todo
  BY Zenon, InCheck DEF PassPoint, Checking
<1>2. job.kind = "check" /\ job.todo # {}
  BY DEF PassPoint, Checking, At
<1>3. Lowest \in job.todo /\ Lowest \in Nat
  BY <1>1, <1>2, LowestIs
<1>4. /\ Chain(main) /\ Len(main) \in Nat
      /\ alts \subseteq Blocks /\ invalid \subseteq Blocks
      /\ Elems(main) \cap (alts \union invalid) = {} /\ alts \cap invalid = {}
  BY Zenon, <1>1, NoSwitch
<1>5. PICK T \in SUBSET Heights : T = job.todo \ {Lowest}
  BY Zenon, <1>1
<1>6. /\ job' \in CheckJobs /\ job'.kind = "check" /\ job'.todo = T
      /\ job'.height = job.height
  <2>1. job' = [job EXCEPT !.todo = T]
    BY <1>5 DEF PassPoint
  <2> QED BY <1>1, <1>2, <2>1 DEF CheckJobs
<1>7. job' \notin SwitchJobs /\ job' \notin PopJobs
  BY <1>6, OneKind
<1>8. \A h \in 2..(Len(main) - 1) : check_block(h, main[h + 1]) \/ h \in T
  <2> TAKE h \in 2..(Len(main) - 1)
  <2>1. CASE h # Lowest
    BY <1>1, <1>5, <2>1
  <2>2. CASE h = Lowest
    BY <1>1, <1>3, <1>4, <2>2 DEF PassPoint
  <2> QED BY <2>1, <2>2
<1>9. Met'
  BY <1>1, <1>6, <1>8 DEF PassPoint, Met, check_block
<1> QED BY <1>1, <1>4, <1>6, <1>7, <1>9, PlainStep DEF PassPoint, ChainInv, Types

(* A checkpoint is contradicted: the chain goes back below it.              *)
LEMMA FailPointStep ==
  ASSUME ChainInv, FailPoint
  PROVE  ChainInv'
<1>1. /\ job \in CheckJobs /\ job \notin SwitchJobs
      /\ job.todo \subseteq Heights /\ job.height \in Nat /\ job.height >= Len(main)
      /\ \A h \in 2..(Len(main) - 1) : check_block(h, main[h + 1]) \/ h \in job.todo
  BY Zenon, InCheck DEF FailPoint, Checking
<1>2. job.todo # {} /\ Lowest >= 2
  BY DEF FailPoint, Checking
<1>3. PICK n \in Nat : n = Lowest /\ n \in job.todo /\ n - 2 \in Nat
  BY <1>1, <1>2, LowestIs
<1>4. /\ Chain(main) /\ Len(main) \in Nat
      /\ alts \subseteq Blocks /\ invalid \subseteq Blocks
      /\ Elems(main) \cap (alts \union invalid) = {} /\ alts \cap invalid = {}
  BY Zenon, <1>1, NoSwitch
<1>5. PICK g \in Nat : g = n - 2
  BY <1>3
<1>6. /\ job' \in CheckJobs /\ job'.kind = "rollback" /\ job'.todo = job.todo
      /\ job'.height = job.height /\ job'.target = g
  <2>1. job' = [job EXCEPT !.kind = "rollback", !.target = g]
    BY Zenon, <1>3, <1>5 DEF FailPoint
  <2> QED BY <1>1, <2>1 DEF CheckJobs
<1>7. job' \notin SwitchJobs /\ job' \notin PopJobs
  BY <1>6, OneKind
<1>8. Lowest' = Lowest
  BY Zenon, <1>6 DEF Lowest
<1>9. Met'
  BY <1>1, <1>2, <1>3, <1>5, <1>6, <1>8 DEF FailPoint, Met, check_block
<1> QED BY <1>1, <1>4, <1>6, <1>7, <1>9, PlainStep DEF FailPoint, ChainInv, Types

(* A block is popped outside a switch.                                      *)
LEMMA PlainPop ==
  ASSUME ChainInv, job \notin SwitchJobs, Len(main) > 1, Pop_block
  PROVE  /\ Chain(main') /\ Len(main') = Len(main) - 1 /\ Len(main) \in Nat
         /\ \A i \in 1..Len(main') : main'[i] = main[i]
         /\ Elems(main') \cap (alts \union invalid) = {} /\ alts \cap invalid = {}
         /\ alts \subseteq Blocks /\ invalid \subseteq Blocks
<1>1. /\ Chain(main) /\ Len(main) \in Nat
      /\ alts \subseteq Blocks /\ invalid \subseteq Blocks
      /\ Elems(main) \cap (alts \union invalid) = {} /\ alts \cap invalid = {}
  BY Zenon, NoSwitch
<1>2. /\ Chain(main') /\ Len(main') = Len(main) - 1
      /\ \A i \in 1..Len(main') : main'[i] = main[i]
      /\ Elems(main') \subseteq Elems(main)
  BY Zenon, <1>1, ChainPop DEF Pop_block
<1> QED BY <1>1, <1>2

(* The rollback for a checkpoint pops a block.                              *)
LEMMA RollbackPopStep ==
  ASSUME ChainInv, RollbackPop
  PROVE  ChainInv'
<1>1. /\ job \in CheckJobs /\ job \notin SwitchJobs
      /\ job.height \in Nat /\ job.height >= Len(main)
      /\ \A h \in 2..(Len(main) - 1) : check_block(h, main[h + 1]) \/ h \in job.todo
  BY Zenon, InCheck DEF RollbackPop
<1>2. /\ job' = job /\ alts' = alts /\ invalid' = invalid /\ points' = points
      /\ disk' = disk /\ Len(main) > 1 /\ Pop_block
  BY DEF RollbackPop
<1>3. /\ Chain(main') /\ Len(main') = Len(main) - 1 /\ Len(main) \in Nat
      /\ \A i \in 1..Len(main') : main'[i] = main[i]
      /\ Elems(main') \cap (alts \union invalid) = {} /\ alts \cap invalid = {}
      /\ alts \subseteq Blocks /\ invalid \subseteq Blocks
  BY Zenon, <1>1, <1>2, PlainPop
<1>4. job \notin PopJobs
  BY <1>1, OneKind
<1>5. \A h \in 2..(Len(main') - 1) : check_block(h, main'[h + 1]) \/ h \in job.todo
  <2> TAKE h \in 2..(Len(main') - 1)
  <2>1. h \in 2..(Len(main) - 1) /\ main'[h + 1] = main[h + 1]
    BY <1>3
  <2> QED BY <1>1, <2>1
<1>6. Lowest' = Lowest
  BY Zenon, <1>2 DEF Lowest
<1>7. Met'
  <2>1. job.kind = "rollback" => job.todo # {} /\ Lowest >= 2 /\ job.target = Lowest - 2
    BY <1>1 DEF ChainInv, Met
  <2>2. job.height >= Len(main')
    BY <1>1, <1>3
  <2> QED BY <1>1, <1>2, <1>5, <1>6, <2>1, <2>2 DEF Met, check_block
<1> QED BY <1>1, <1>2, <1>3, <1>4, <1>7, PlainStep DEF ChainInv, Types

(* The chain is below the checkpoint that it contradicted.                  *)
LEMMA EndRollbackStep ==
  ASSUME ChainInv, EndRollback
  PROVE  ChainInv'
<1>1. /\ job \in CheckJobs /\ job \notin SwitchJobs
      /\ job.todo \subseteq Heights /\ job.height \in Nat /\ job.height >= Len(main)
      /\ \A h \in 2..(Len(main) - 1) : check_block(h, main[h + 1]) \/ h \in job.todo
  BY Zenon, InCheck DEF EndRollback
<1>2. /\ job.kind = "rollback" /\ Len(main) = job.target /\ main' = main
      /\ alts' = alts /\ invalid' = invalid /\ points' = points /\ disk' = disk
  BY DEF EndRollback, At
<1>3. job.todo # {} /\ job.target = Lowest - 2
  BY <1>1, <1>2 DEF ChainInv, Met
<1>4. Lowest \in job.todo /\ Lowest \in Nat
  BY <1>1, <1>3, LowestIs
<1>5. /\ Chain(main) /\ Len(main) \in Nat
      /\ alts \subseteq Blocks /\ invalid \subseteq Blocks
      /\ Elems(main) \cap (alts \union invalid) = {} /\ alts \cap invalid = {}
  BY Zenon, <1>1, NoSwitch
<1>6. PICK T \in SUBSET Heights : T = job.todo \ {Lowest}
  BY Zenon, <1>1
<1>7. /\ job' \in CheckJobs /\ job'.kind = "check" /\ job'.todo = T
      /\ job'.height = job.height
  <2>1. job' = [job EXCEPT !.kind = "check", !.todo = T]
    BY <1>6 DEF EndRollback
  <2> QED BY <1>1, <2>1 DEF CheckJobs
<1>8. job' \notin SwitchJobs /\ job' \notin PopJobs
  BY <1>7, OneKind
<1>9. \A h \in 2..(Len(main) - 1) : check_block(h, main[h + 1]) \/ h \in T
  <2> TAKE h \in 2..(Len(main) - 1)
  <2>1. h # Lowest
    BY <1>2, <1>3, <1>4, <1>5
  <2> QED BY <1>1, <1>6, <2>1
<1>10. Met'
  BY <1>1, <1>2, <1>7, <1>9 DEF Met, check_block
<1> QED BY <1>1, <1>2, <1>5, <1>7, <1>8, <1>10, PlainStep DEF ChainInv, Types

(* The check ends: nothing of the chain is left to look at.                 *)
LEMMA CheckEnds ==
  ASSUME ChainInv, At("check") \/ At("rollback"), job' = None,
         main' = main, alts' = alts, invalid' = invalid, points' = points, disk' = disk,
         \A h \in 2..(Len(main) - 1) : h \notin job.todo
  PROVE  ChainInv'
<1>1. /\ job \in CheckJobs /\ job \notin SwitchJobs
      /\ \A h \in 2..(Len(main) - 1) : check_block(h, main[h + 1]) \/ h \in job.todo
  BY Zenon, InCheck
<1>2. /\ Chain(main) /\ Len(main) \in Nat
      /\ alts \subseteq Blocks /\ invalid \subseteq Blocks
      /\ Elems(main) \cap (alts \union invalid) = {} /\ alts \cap invalid = {}
  BY Zenon, <1>1, NoSwitch
<1>3. job' \notin SwitchJobs /\ job' \notin CheckJobs /\ job' \notin PopJobs
  BY Zenon, OneKind
<1>4. Met'
  BY <1>1, <1>3 DEF Met, check_block
<1> QED BY <1>2, <1>3, <1>4, PlainStep DEF ChainInv, Types

(* The check throws: the checkpoints it has not looked at are above what is *)
(* left of the chain.                                                       *)
LEMMA CheckThrowsStep ==
  ASSUME ChainInv, CheckThrows
  PROVE  ChainInv'
<1>1. At("check") \/ At("rollback")
  BY DEF CheckThrows, Checking
<1>2. job.todo \subseteq Heights /\ Len(main) \in Nat
  BY <1>1, InCheck, NoSwitch
<1>3. \A h \in 2..(Len(main) - 1) : h \notin job.todo
  <2>1. CASE Checking /\ Lowest >= Len(main)
    <3>1. Lowest \in Nat /\ \A h \in job.todo : Lowest <= h
      BY <1>2, <2>1, LowestIs DEF Checking
    <3> QED BY <1>2, <2>1, <3>1
  <2>2. CASE Len(main) = 1
    BY <2>2
  <2> QED BY <2>1, <2>2 DEF CheckThrows
<1> QED BY <1>1, <1>3, CheckEnds DEF CheckThrows

(* The check is over.                                                       *)
LEMMA EndCheckStep ==
  ASSUME ChainInv, EndCheck
  PROVE  ChainInv'
  BY CheckEnds DEF EndCheck
-----------------------------------------------------------------------------
(* pop_blocks leaves the genesis block.                                     *)
LEMMA PopBlocksStep ==
  ASSUME ChainInv, NEW n \in 1..MaxPop, PopBlocks(n)
  PROVE  ChainInv'
<1>1. /\ job = None /\ main' = main /\ alts' = alts /\ invalid' = invalid
      /\ points' = points /\ disk' = disk
  BY DEF PopBlocks, Idle
<1>2. job \notin SwitchJobs /\ job \notin CheckJobs
  BY <1>1, NoJob
<1>3. /\ Chain(main) /\ Len(main) \in Nat
      /\ alts \subseteq Blocks /\ invalid \subseteq Blocks
      /\ Elems(main) \cap (alts \union invalid) = {} /\ alts \cap invalid = {}
  BY Zenon, <1>2, NoSwitch
<1>4. PICK t \in 1..(Len(main) - 1) : t = Len(main) - n
  BY <1>3 DEF PopBlocks
<1>5. job' \in PopJobs /\ job'.target = t
  <2>1. job' = [kind |-> "pops", target |-> t] /\ t \in Nat
    BY <1>3, <1>4 DEF PopBlocks
  <2> QED BY <2>1 DEF PopJobs
<1>6. job' \notin SwitchJobs /\ job' \notin CheckJobs
  BY <1>5, OneKind
<1>7. Met'
  BY <1>1, <1>2, <1>3, <1>6, MetKept DEF ChainInv
<1> QED BY <1>1, <1>3, <1>4, <1>5, <1>6, <1>7, PlainStep DEF ChainInv, Types

(* pop_blocks pops a block.                                                 *)
LEMMA PopOneStep ==
  ASSUME ChainInv, PopOne
  PROVE  ChainInv'
<1>1. job \in PopJobs /\ job.target \in 1..(Len(main) - 1)
  BY Kinds DEF ChainInv, PopOne, Types
<1>2. job \notin SwitchJobs /\ job \notin CheckJobs
  BY <1>1, OneKind
<1>3. Len(main) \in Nat /\ Len(main) > 1
  BY <1>1, <1>2, NoSwitch
<1>4. /\ Chain(main') /\ Len(main') = Len(main) - 1
      /\ \A i \in 1..Len(main') : main'[i] = main[i]
      /\ Elems(main') \cap (alts \union invalid) = {} /\ alts \cap invalid = {}
      /\ alts \subseteq Blocks /\ invalid \subseteq Blocks
  BY Zenon, <1>2, <1>3, PlainPop DEF PopOne
<1>5. /\ alts' = alts /\ invalid' = invalid /\ points' = points /\ disk' = disk
      /\ job' = IF Len(main) - 1 = job.target THEN None ELSE job
  BY DEF PopOne
<1>6. job' \notin SwitchJobs /\ job' \notin CheckJobs /\ job' \in {None} \union PopJobs
  BY <1>1, <1>2, <1>5, NoneAssumption
<1>7. job' \in PopJobs => job'.target \in 1..(Len(main') - 1)
  BY <1>1, <1>3, <1>4, <1>5, NoneAssumption
<1>8. Met'
  BY <1>2, <1>3, <1>4, <1>5, <1>6, MetKept DEF ChainInv
<1> QED BY <1>4, <1>5, <1>6, <1>7, <1>8, PlainStep DEF ChainInv, Types

(* The batch is committed.                                                  *)
LEMMA CommitStep ==
  ASSUME ChainInv, Commit
  PROVE  ChainInv'
<1>1. /\ job = None /\ job' = job /\ main' = main /\ alts' = alts /\ invalid' = invalid
      /\ points' = points /\ disk' = [main |-> main, alts |-> alts, db |-> hf.db]
  BY DEF Commit, Idle, Database
<1>2. job \notin SwitchJobs /\ job \notin CheckJobs /\ job \notin PopJobs
  BY <1>1, NoJob
<1>3. Types'
  BY <1>1, <1>2 DEF ChainInv, Types
<1>4. Apart'
  BY <1>1, <1>2 DEF ChainInv, Apart, Switching
<1>5. Met'
  BY <1>1, <1>2 DEF ChainInv, Met, check_block
<1> QED BY <1>1, <1>2, <1>3, <1>4, <1>5 DEF ChainInv, Joints, Switching

(* The node starts again from the database, without checkpoints.            *)
LEMMA RestartStep ==
  ASSUME ChainInv, Restart
  PROVE  ChainInv'
<1>1. PICK kept : kept = IF KeepAlts THEN disk.alts ELSE {}
  OBVIOUS
<1>2. /\ main' = disk.main /\ alts' = kept /\ invalid' = {} /\ job' = None
      /\ points' = [h \in Heights |-> None] /\ disk' = [disk EXCEPT !.alts = kept]
  BY <1>1 DEF Restart
<1>3. kept \subseteq disk.alts
  BY <1>1
<1>4. /\ Chain(disk.main) /\ disk.alts \subseteq Blocks
      /\ disk = [main |-> disk.main, alts |-> disk.alts, db |-> disk.db]
      /\ Elems(disk.main) \cap disk.alts = {}
  BY DEF ChainInv, Types, Apart
<1>5. /\ disk'.main = disk.main /\ disk'.alts = kept
      /\ disk' = [main |-> disk'.main, alts |-> disk'.alts, db |-> disk'.db]
  BY <1>2, <1>4
<1>6. job' \notin SwitchJobs /\ job' \notin CheckJobs /\ job' \notin PopJobs
  BY Zenon, <1>2, OneKind
<1>7. Types'
  BY <1>2, <1>3, <1>4, <1>5, <1>6 DEF Types
<1>8. Apart'
  BY <1>2, <1>3, <1>4, <1>5, <1>6 DEF Apart, Switching
<1>9. Met'
  <2>1. \A h \in 2..(Len(disk.main) - 1) : h \in Heights
    BY <1>4, ChainFacts
  <2> QED BY <1>2, <1>6, <2>1 DEF Met, check_block
<1> QED BY <1>6, <1>7, <1>8, <1>9 DEF ChainInv, Joints, Switching

(* The node starts with the genesis block.                                  *)
LEMMA ChainInit ==
  ASSUME Init
  PROVE  ChainInv
<1>1. /\ main = <<Genesis>> /\ alts = {} /\ invalid = {} /\ job = None
      /\ points = [h \in Heights |-> None]
      /\ disk = [main |-> main, alts |-> {}, db |-> hf.db]
  BY DEF Init
<1>2. Genesis \in Blocks /\ Height[Genesis] = 0 /\ Work[Genesis] \in Int
  BY BlocksAssumption, TreeAssumption, WorkAssumption
<1>3. Chain(main) /\ Len(main) = 1
  BY <1>1, <1>2 DEF Chain
<1>4. job \notin SwitchJobs /\ job \notin CheckJobs /\ job \notin PopJobs
  BY <1>1, NoJob
<1>5. Types
  BY <1>1, <1>3, <1>4 DEF Types
<1>6. Apart
  BY <1>1, <1>4 DEF Apart, Switching
<1>7. Met
  BY <1>3, <1>4 DEF Met
<1> QED BY <1>4, <1>5, <1>6, <1>7 DEF ChainInv, Joints, Switching

(* Every step keeps the invariant.                                          *)
LEMMA ChainNext ==
  ASSUME ChainInv, [Next]_vars
  PROVE  ChainInv'
<1>1. CASE \E b \in Blocks : AddToMain(b) \/ RefuseToMain(b) \/ AddAlternative(b)
  BY Zenon, <1>1, AddToMainStep, RefuseToMainStep, AddAlternativeStep
<1>2. CASE PopOld \/ StartConnecting \/ ConnectAlt \/ FailAlt
  BY Zenon, <1>2, PopOldStep, StartConnectingStep, ConnectAltStep, FailAltStep
<1>3. CASE UndoAlt \/ StartRestoring \/ RestoreOld \/ EndRestoring
  BY Zenon, <1>3, UndoAltStep, StartRestoringStep, RestoreOldStep, EndRestoringStep
<1>4. CASE StartPushing \/ PushOld \/ EndSwitch
  BY Zenon, <1>4, StartPushingStep, PushOldStep, EndSwitchStep
<1>5. CASE \E new \in SUBSET Announced \ {{}} : UpdateCheckpoints(new)
  BY Zenon, <1>5, UpdateCheckpointsStep
<1>6. CASE PassPoint \/ FailPoint \/ RollbackPop \/ EndRollback
  BY Zenon, <1>6, PassPointStep, FailPointStep, RollbackPopStep, EndRollbackStep
<1>7. CASE CheckThrows \/ EndCheck
  BY Zenon, <1>7, CheckThrowsStep, EndCheckStep
<1>8. CASE \E n \in 1..MaxPop : PopBlocks(n)
  BY Zenon, <1>8, PopBlocksStep
<1>9. CASE PopOne \/ Commit \/ Restart
  BY Zenon, <1>9, PopOneStep, CommitStep, RestartStep
<1>10. CASE UNCHANGED vars
  <2>1. /\ main' = main /\ alts' = alts /\ invalid' = invalid /\ points' = points
        /\ job' = job /\ disk' = disk
    BY Zenon, <1>10 DEF vars
  <2>2. Types'
    BY <2>1 DEF ChainInv, Types
  <2>3. Joints'
    BY <2>1 DEF ChainInv, Joints, Switching, Joint, Gain
  <2>4. Apart'
    BY <2>1 DEF ChainInv, Apart, Switching, Spread, Failed
  <2>5. Met'
    BY <2>1 DEF ChainInv, Met, check_block, Lowest
  <2> QED BY Zenon, <2>2, <2>3, <2>4, <2>5 DEF ChainInv
<1> QED
  BY Zenon, <1>1, <1>2, <1>3, <1>4, <1>5, <1>6, <1>7, <1>8, <1>9, <1>10 DEF Next
-----------------------------------------------------------------------------
(* Outside a check the invariant leaves no block that contradicts its       *)
(* checkpoint.                                                              *)
LEMMA InvEnforces == ChainInv => CheckpointsEnforced
<1> SUFFICES ASSUME ChainInv, ~(At("check") \/ At("rollback"))
             PROVE  \A h \in 2..(Len(main) - 1) : check_block(h, main[h + 1])
  BY DEF CheckpointsEnforced
<1>1. job \notin CheckJobs
  <2>1. \A j \in CheckJobs : j # None /\ (j.kind = "check" \/ j.kind = "rollback")
    BY OneKind DEF CheckJobs
  <2> QED BY <2>1 DEF At
<1> QED BY <1>1 DEF ChainInv, Met

(* Between the operations a block is in one place.                          *)
LEMMA InvSeparates == ChainInv => BlockHasOnePlace
  BY NoJob, NoSwitch DEF BlockHasOnePlace, Idle

(* A block of the old chain that may be pushed back has less work than the  *)
(* new chain and no checkpoint of its height.                               *)
LEMMA InvNests == ChainInv => NoNestedSwitch
<1> SUFFICES ASSUME ChainInv, At("push"), job.old # <<>>, alternative_ok(Head(job.old))
             PROVE  ~Switches(Head(job.old))
  BY DEF NoNestedSwitch
<1>1. job \in SwitchJobs /\ Joint /\ Gain /\ Chain(main) /\ Len(main) \in Nat
  BY Zenon, InSwitch
<1>2. job.kind = "push"
  BY DEF At
<1>3. PICK b \in Blocks : b = Head(job.old) /\ b \in Elems(job.from)
  BY <1>1, OldBlocks
<1>4. PICK e \in Blocks : e = job.alt[Len(job.alt)] /\ Len(job.alt) \in Nat /\ Len(job.alt) >= 1
  BY <1>1, SwitchTypes DEF Joint
<1>5. Tip = e /\ Height[e] = Len(main) - 1
  <2>1. Len(main) = job.split + Len(job.alt) /\ job.split \in Nat
    BY <1>1, <1>2, SwitchTypes DEF Joint
  <2>2. Len(main) \in (job.split + 1)..Len(main) /\ Len(main) - job.split = Len(job.alt)
    BY <1>1, <1>4, <2>1
  <2>3. main[Len(main)] = job.alt[Len(main) - job.split]
    BY <1>1, <1>2, <2>2 DEF Joint
  <2>4. Height[main[Len(main)]] = Len(main) - 1
    BY <1>1, ChainFacts DEF Chain
  <2> QED BY <1>4, <2>2, <2>3, <2>4 DEF Tip
<1>6. /\ Work[job.from[Len(job.from)]] < Work[e]
      /\ \A h \in Heights : (points[h] # None /\ h <= Len(job.from)) => h < Height[e]
  BY <1>1, <1>2, <1>4, SwitchTypes DEF Gain
<1>7. PICK i \in 1..Len(job.from) : b = job.from[i]
  BY <1>1, <1>3, ChainFacts DEF Joint
<1>8. Height[b] = i - 1 /\ Work[b] <= Work[job.from[Len(job.from)]] /\ Height[b] \in Heights
  <2>1. Len(job.from) \in 1..Len(job.from) /\ Chain(job.from) /\ i <= Len(job.from)
    BY <1>1, <1>7, ChainFacts DEF Joint
  <2>2. Height[b] = i - 1 /\ Work[b] <= Work[job.from[Len(job.from)]]
    BY Zenon, <1>7, <2>1 DEF Chain
  <2> QED BY Zenon, <1>3, <2>2, HeightFacts
<1>9. ~(Work[Tip] < Work[b])
  <2>1. job.from[Len(job.from)] \in Blocks
    BY <1>1, ChainFacts DEF Joint
  <2>2. Work[b] \in Int /\ Work[e] \in Int /\ Work[job.from[Len(job.from)]] \in Int
    BY <2>1, WorkAssumption
  <2> QED BY <1>5, <1>6, <1>8, <2>2
<1>10. points[Height[b]] = None
  <2> SUFFICES ASSUME points[Height[b]] # None PROVE FALSE
    OBVIOUS
  <2>1. Height[b] \in Nat /\ Height[b] <= Len(job.from)
    BY <1>7, <1>8, HeightFacts
  <2>2. Height[b] < Height[e]
    BY <1>6, <1>8, <2>1
  <2>3. Height[b] <= Len(main)
    BY <1>1, <1>5, <2>1, <2>2
  <2>4. Height[b] < Height[b]
    BY <1>3, <1>8, <2>3 DEF alternative_ok, is_alternative_block_allowed
  <2> QED BY <2>1, <2>4
<1> QED BY <1>3, <1>9, <1>10 DEF Switches

(* ChainInv holds at every moment.                                          *)
LEMMA ChainAlways == Spec => []ChainInv
  BY ChainInit, ChainNext, PTL DEF Spec

(* For every tree of blocks, every set of announced checkpoints and every   *)
(* fork table: outside check_against_checkpoints no block of the main chain *)
(* from height 2 on contradicts a checkpoint, whether it came by            *)
(* add_new_block, by a switch, by the rollback of a failed switch, or was   *)
(* there when the checkpoint arrived.                                       *)
THEOREM ChainMeetsCheckpoints == Spec => []CheckpointsEnforced
  BY ChainAlways, InvEnforces, PTL

(* Between operations no block is stored twice or known as invalid while it *)
(* is stored, however switches fail, blocks are popped and the node stops.  *)
THEOREM ChainKeepsBlocksApart == Spec => []BlockHasOnePlace
  BY ChainAlways, InvSeparates, PTL

(* handle_alternative_block never starts a switch from within the one that  *)
(* called it.                                                               *)
THEOREM ChainSwitchesOnce == Spec => []NoNestedSwitch
  BY ChainAlways, InvNests, PTL
=============================================================================
