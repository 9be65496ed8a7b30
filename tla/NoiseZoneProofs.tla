-------------------------- MODULE NoiseZoneProofs --------------------------
(***************************************************************************)
(* For any number of channels and connections and messages of any length:  *)
(* the channels follow the map of the zone, in which no connection has two *)
(* places, and a message goes whole over one connection.                   *)
(***************************************************************************)
EXTENDS NoiseZone, WellFoundedInduction, FiniteSetTheorems, SequenceTheorems, TLAPS

Link == Conns \union {Nil}

(* No two places have one connection.                                      *)
Distinct(m) == \A i, j \in DOMAIN m : i # j /\ m[i] # Nil => m[i] # m[j]

IsMap(m, count) == m \in Seq(Link) /\ Len(m) <= count /\ Distinct(m)

ZoneTypes ==
  /\ opened \in 0..MaxConns
  /\ outs \subseteq Conns
  /\ stems \in {0, Channels}
  /\ updates \in [Channel -> Seq(Link)]
  /\ connection \in [Channel -> Link]

TasksTyped ==
  \A t \in tasks : /\ t.kind = "change" => IsMap(t.map, Channels)
                   /\ t.kind = "update" => t.outs \subseteq Conns

(* The connection of a channel once what is posted to it has run.          *)
settled(i) == IF updates[i] = <<>> THEN connection[i] ELSE Last(updates[i])

Followed == \A i \in DOMAIN map : settled(i) \in {map[i], Nil}

ZoneInv == ZoneTypes /\ TasksTyped /\ IsMap(map, stems) /\ Followed
-----------------------------------------------------------------------------
Less == {p \in Nat \X Nat : p[1] < p[2]}

(* A non-empty set of natural numbers has a least element.                  *)
LEMMA HasLeast ==
  ASSUME NEW T, T \subseteq Nat, T # {}
  PROVE  \E x \in T : \A y \in T : x <= y
<1>1. IsWellFoundedOn(Less, Nat)
  BY NatLessThanWellFounded DEF OpToRel, Less
<1>2. PICK x \in T : \A y \in T : ~(<<y, x>> \in Less)
  BY Zenon, <1>1, WFMin
<1>3. \A y \in T : ~(y < x)
  BY Zenon, <1>2 DEF Less
<1>4. \A y \in T : x <= y
  BY <1>3
<1> QED BY <1>4

(* Every list of connections is finite.                                    *)
LEMMA ConnsFinite ==
  ASSUME NEW S, S \subseteq Conns
  PROVE  IsFiniteSet(S) /\ Cardinality(S) \in Nat
<1>1. IsFiniteSet(Conns)
  BY ZoneAssumption, FS_Interval DEF Conns
<1> QED BY <1>1, FS_Subset, FS_CardinalityType

(* The constructor of connection_map makes a map of distinct connections.  *)
LEMMA NewMap ==
  ASSUME NEW S, S \subseteq Conns, NEW m \in connection_map(S, Channels)
  PROVE  IsMap(m, Channels)
<1> DEFINE n == Min({Channels, Cardinality(S)})
<1>1. n \in Nat /\ n <= Channels
  <2>1. Cardinality(S) \in Nat /\ Channels \in Nat
    BY ConnsFinite, ZoneAssumption
  <2>2. \E x \in {Channels, Cardinality(S)} : \A y \in {Channels, Cardinality(S)} : x =< y
    BY <2>1
  <2> QED BY <2>1, <2>2 DEF Min
<1>2. m \in [1..n -> S] /\ IsInjective(m)
  BY DEF connection_map
<1> HIDE DEF n
<1>3. m \in Seq(Link) /\ Len(m) = n
  BY <1>1, <1>2 DEF Link
<1>4. Distinct(m)
  BY <1>2 DEF Distinct, IsInjective
<1> QED BY <1>1, <1>3, <1>4 DEF IsMap

(* The places that update fills are the lowest free ones: the map grows at *)
(* its end.                                                                *)
LEMMA FilledPlaces ==
  ASSUME NEW m \in Seq(Link), NEW count \in Nat, Len(m) <= count,
         NEW S, S \subseteq Conns
  PROVE  \E k \in Nat : /\ Len(m) <= k /\ k <= count
                        /\ DOMAIN m \union filled(m, count, S) = 1..k
<1> DEFINE free == {i \in 1..count : i > Len(m) \/ m[i] = Nil}
           F == filled(m, count, S)
           D == DOMAIN m \union F
           below(i) == {j \in free : j < i}
           spare == Cardinality(S \ Range(m))
<1>1. DOMAIN m = 1..Len(m) /\ Len(m) \in Nat
  OBVIOUS
<1>2. F = {i \in free : Cardinality(below(i)) < spare}
  BY DEF filled
<1>3. spare \in Nat
  BY ConnsFinite
<1>4. ASSUME NEW i \in F, NEW j \in free, j < i
      PROVE  j \in F
  <2>1. IsFiniteSet(free)
    <3>1. IsFiniteSet(1..count)
      BY FS_Interval
    <3> QED BY <3>1, FS_Subset
  <2>2. below(i) \subseteq free /\ below(j) \subseteq below(i)
    BY <1>2, <1>4
  <2>3. IsFiniteSet(below(i)) /\ IsFiniteSet(below(j))
    BY <2>1, <2>2, FS_Subset
  <2>4. /\ Cardinality(below(i)) \in Nat /\ Cardinality(below(j)) \in Nat
        /\ Cardinality(below(j)) <= Cardinality(below(i))
    BY <2>2, <2>3, FS_Subset, FS_CardinalityType
  <2> HIDE DEF below, free, spare
  <2> QED BY <1>2, <1>3, <1>4, <2>4
<1>5. D \subseteq 1..count
  BY <1>1, <1>2
<1>6. ASSUME NEW i \in D, NEW j \in Nat \ {0}, j < i
      PROVE  j \in D
  <2>1. CASE j \in DOMAIN m
    BY <2>1
  <2>2. CASE j \notin DOMAIN m
    <3>1. i \in F /\ j \in free
      BY <1>1, <1>5, <1>6, <2>2
    <3> QED BY <1>4, <1>6, <3>1
  <2> QED BY <2>1, <2>2
<1> DEFINE T == {j \in 1..(count + 1) : j \notin D}
<1> HIDE DEF D, free, below, spare, F
<1>7. T \subseteq Nat /\ count + 1 \in T
  BY <1>5
<1>8. PICK x \in T : \A y \in T : x <= y
  BY <1>7, HasLeast
<1>9. D = 1..(x - 1)
  <2>1. ASSUME NEW j \in 1..(x - 1) PROVE j \in D
    BY <1>8
  <2>2. ASSUME NEW j \in D PROVE j \in 1..(x - 1)
    BY <1>5, <1>6, <1>8, <2>2
  <2> QED BY <2>1, <2>2
<1>10. Len(m) <= x - 1 /\ x - 1 <= count /\ x - 1 \in Nat
  <2>1. Len(m) = 0 \/ Len(m) \in D
    BY <1>1 DEF D
  <2> QED BY <1>1, <1>8, <1>9, <2>1
<1> QED BY <1>9, <1>10 DEF D, F

(* update leaves a map of distinct connections, and says so whenever it    *)
(* has changed one.                                                        *)
LEMMA UpdatedMap ==
  ASSUME NEW m, NEW count \in Nat, IsMap(m, count), NEW S, S \subseteq Conns,
         NEW new \in update(m, count, S)
  PROVE  IsMap(new, count) /\ (~is_updated(m, S, new) => new = m)
<1> DEFINE old == kept(m, S)
           F == filled(old, count, S)
<1>1. /\ old \in Seq(Link) /\ Len(old) = Len(m) /\ DOMAIN old = DOMAIN m
      /\ DOMAIN m = 1..Len(m) /\ Len(m) \in Nat /\ Len(m) <= count
      /\ \A i \in DOMAIN m : old[i] = IF m[i] \in S THEN m[i] ELSE Nil
  BY DEF kept, IsMap, Link
<1>2. PICK k \in Nat : Len(m) <= k /\ k <= count /\ DOMAIN m \union F = 1..k
  BY <1>1, FilledPlaces
<1>3. PICK f \in [F -> S \ Range(old)] :
        /\ IsInjective(f)
        /\ new = [i \in 1..k |-> IF i \in F THEN f[i] ELSE old[i]]
  BY <1>2 DEF update
<1>4. \A i \in F : i \in 1..count /\ (i > Len(m) \/ old[i] = Nil)
  BY <1>1 DEF filled
<1> HIDE DEF old, F
<1>5. \A i \in 1..k : new[i] \in Link
  BY <1>1, <1>2, <1>3 DEF Link
<1>6. new \in Seq(Link) /\ Len(new) = k
  BY <1>3, <1>5
<1>7. Distinct(new)
  <2> SUFFICES ASSUME NEW i \in 1..k, NEW j \in 1..k, i # j, new[i] # Nil, new[i] = new[j]
               PROVE  FALSE
    BY <1>3 DEF Distinct
  <2>1. CASE i \in F /\ j \in F
    BY <1>3, <2>1 DEF IsInjective
  <2>2. CASE i \in F /\ j \notin F
    <3>1. j \in DOMAIN old
      BY <1>1, <1>2, <2>2
    <3> QED BY <1>3, <2>2, <3>1 DEF Range
  <2>3. CASE i \notin F /\ j \in F
    <3>1. i \in DOMAIN old
      BY <1>1, <1>2, <2>3
    <3> QED BY <1>3, <2>3, <3>1 DEF Range
  <2>4. CASE i \notin F /\ j \notin F
    <3>1. i \in DOMAIN m /\ j \in DOMAIN m
      BY <1>2, <2>4
    <3>2. old[i] = old[j] /\ old[i] # Nil
      BY <1>3, <2>4
    <3> QED BY <1>1, <3>1, <3>2 DEF IsMap, Distinct
  <2> QED BY <2>1, <2>2, <2>3, <2>4
<1>8. ~is_updated(m, S, new) => new = m
  <2> SUFFICES ASSUME ~is_updated(m, S, new) PROVE new = m
    OBVIOUS
  <2>1. \A i \in DOMAIN m : m[i] \in S
    BY DEF is_updated, Range
  <2>2. k = Len(m)
    <3>1. ~(Len(m) < Len(new))
      BY Zenon DEF is_updated
    <3>2. Len(m) \in Nat /\ Len(m) <= k /\ Len(new) = k
      BY Zenon, <1>1, <1>2, <1>6
    <3> HIDE DEF is_updated
    <3> QED BY <3>1, <3>2
  <2>3. \A i \in DOMAIN m : i \notin F /\ old[i] = m[i]
    BY <1>1, <1>4, <2>1 DEF Conns, Nil
  <2>4. \A i \in 1..k : new[i] = m[i]
    BY <1>1, <1>3, <2>2, <2>3
  <2>5. m \in Seq(Link)
    BY DEF IsMap
  <2> QED BY <1>3, <1>6, <2>2, <2>4, <2>5
<1> QED BY <1>2, <1>6, <1>7, <1>8 DEF IsMap
-----------------------------------------------------------------------------
(* update_channels::post makes the channels follow the new map.            *)
LEMMA PostFollows ==
  ASSUME ZoneTypes, NEW m, IsMap(m, Channels), post(m), connection' = connection
  PROVE  /\ updates' \in [Channel -> Seq(Link)]
         /\ \A i \in DOMAIN m : settled(i)' = m[i]
<1>1. \A i \in DOMAIN m : i \in Channel /\ m[i] \in Link
  BY ZoneAssumption DEF IsMap, Channel
<1>2. updates' \in [Channel -> Seq(Link)]
  BY <1>1 DEF post, ZoneTypes
<1>3. ASSUME NEW i \in DOMAIN m PROVE settled(i)' = m[i]
  <2>1. i \in Channel /\ updates[i] \in Seq(Link) /\ m[i] \in Link
    BY <1>1 DEF ZoneTypes
  <2>2. updates'[i] = Append(updates[i], m[i])
    BY <2>1 DEF post
  <2>3. updates'[i] # <<>> /\ Last(updates'[i]) = m[i]
    BY <2>1, <2>2 DEF Last
  <2> QED BY <2>3 DEF settled
<1> QED BY <1>2, <1>3

(* The map never has more places than there are channels.                  *)
LEMMA MapFits ==
  ASSUME ZoneTypes, NEW m, IsMap(m, stems)
  PROVE  IsMap(m, Channels) /\ stems \in Nat /\ \A i \in DOMAIN m : i \in Channel
BY ZoneAssumption DEF ZoneTypes, IsMap, Channel

(* A step that leaves the map and the channels alone.                      *)
LEMMA LinksStep ==
  ASSUME ZoneInv, UNCHANGED <<map, stems, updates, connection>>,
         opened' \in 0..MaxConns, outs' \subseteq Conns, TasksTyped'
  PROVE  ZoneInv'
BY DEF ZoneInv, ZoneTypes, IsMap, Distinct, Followed, settled

(* What runs on the strand of the zone keeps the invariant.                *)
LEMMA ZoneStep ==
  ASSUME ZoneInv, NEW t \in tasks, ChangeChannels(t) \/ UpdateChannels(t)
  PROVE  ZoneInv'
<1>1. CASE ChangeChannels(t)
  <2>1. /\ IsMap(t.map, Channels) /\ map' = t.map /\ stems' = Channels /\ post(t.map)
        /\ UNCHANGED <<opened, outs, connection>>
    BY <1>1 DEF ChangeChannels, ZoneInv, TasksTyped, links, channels
  <2>2. /\ updates' \in [Channel -> Seq(Link)]
        /\ \A i \in DOMAIN t.map : settled(i)' = t.map[i]
    BY <2>1, PostFollows DEF ZoneInv
  <2>3. ZoneTypes' /\ Followed'
    BY <2>1, <2>2 DEF ZoneInv, ZoneTypes, Followed
  <2>4. TasksTyped'
    BY <1>1 DEF ChangeChannels, ZoneInv, TasksTyped
  <2>5. IsMap(map, stems)'
    BY <2>1 DEF IsMap, Distinct
  <2> QED BY <2>3, <2>4, <2>5 DEF ZoneInv
<1>2. CASE UpdateChannels(t)
  <2>1. /\ t.outs \subseteq Conns /\ map' \in update(map, stems, t.outs)
        /\ UNCHANGED <<opened, outs, stems, connection>>
    BY <1>2 DEF UpdateChannels, ZoneInv, TasksTyped, links, channels
  <2>2. stems \in Nat
    BY MapFits DEF ZoneInv
  <2>3. IsMap(map', stems) /\ (~is_updated(map, t.outs, map') => map' = map)
    BY <2>1, <2>2, UpdatedMap DEF ZoneInv
  <2>4. TasksTyped' /\ IsMap(map, stems)'
    BY <1>2, <2>1, <2>3 DEF UpdateChannels, ZoneInv, TasksTyped, IsMap, Distinct
  <2>5. CASE is_updated(map, t.outs, map')
    <3>1. IsMap(map', Channels)
      BY <2>3, MapFits DEF ZoneInv
    <3>2. post(map')
      BY <1>2, <2>5 DEF UpdateChannels
    <3>3. /\ updates' \in [Channel -> Seq(Link)]
          /\ \A i \in DOMAIN map' : settled(i)' = map'[i]
      BY <2>1, <3>1, <3>2, PostFollows DEF ZoneInv
    <3>4. ZoneTypes' /\ Followed'
      BY <2>1, <3>3 DEF ZoneInv, ZoneTypes, Followed
    <3> QED BY <2>4, <3>4 DEF ZoneInv
  <2>6. CASE ~is_updated(map, t.outs, map')
    <3>1. UNCHANGED <<map, stems, updates, connection, opened, outs>>
      BY <1>2, <2>1, <2>3, <2>6 DEF UpdateChannels
    <3> QED BY <2>4, <3>1, LinksStep DEF ZoneInv, ZoneTypes
  <2> QED BY <2>5, <2>6
<1> QED BY <1>1, <1>2

(* The last element of a sequence stays when the first one goes.           *)
LEMMA LastOfTail ==
  ASSUME NEW A, NEW s \in Seq(A), s # <<>>
  PROVE  /\ Head(s) \in A /\ Tail(s) \in Seq(A)
         /\ IF Tail(s) = <<>> THEN Head(s) = Last(s) ELSE Last(Tail(s)) = Last(s)
<1>1. /\ Len(s) \in Nat \ {0} /\ Tail(s) \in Seq(A) /\ Head(s) = s[1] /\ Head(s) \in A
      /\ Len(Tail(s)) = Len(s) - 1
      /\ \A k \in 1..Len(Tail(s)) : Tail(s)[k] = s[k + 1]
  OBVIOUS
<1>2. Tail(s) = <<>> <=> Len(Tail(s)) = 0
  BY <1>1, EmptySeq
<1>3. CASE Len(s) = 1
  <2>1. Tail(s) = <<>> /\ Head(s) = Last(s)
    BY <1>1, <1>2, <1>3 DEF Last
  <2> QED BY <1>1, <2>1
<1>4. CASE Len(s) # 1
  <2>1. Tail(s) # <<>> /\ Len(s) - 1 \in 1..Len(Tail(s))
    BY <1>1, <1>2, <1>4
  <2>2. Last(Tail(s)) = s[(Len(s) - 1) + 1]
    BY <1>1, <2>1 DEF Last
  <2>3. (Len(s) - 1) + 1 = Len(s)
    BY <1>1
  <2> QED BY <1>1, <2>1, <2>2, <2>3 DEF Last
<1> QED BY <1>3, <1>4

(* What runs on the strand of a channel keeps the invariant.               *)
LEMMA ChannelStep ==
  ASSUME ZoneInv, NEW i \in Channel, UpdateChannel(i) \/ SendNoiseFails(i)
  PROVE  ZoneInv'
<1>1. CASE UpdateChannel(i)
  <2> DEFINE u == updates[i]
  <2>1. /\ u \in Seq(Link) /\ u # <<>>
        /\ updates' = [updates EXCEPT ![i] = Tail(u)]
        /\ connection' = [connection EXCEPT ![i] = Head(u)]
        /\ UNCHANGED <<map, stems, tasks, opened, outs>>
    BY <1>1 DEF UpdateChannel, ZoneInv, ZoneTypes, links, zone
  <2>2. /\ Head(u) \in Link /\ Tail(u) \in Seq(Link)
        /\ IF Tail(u) = <<>> THEN Head(u) = Last(u) ELSE Last(Tail(u)) = Last(u)
    BY <2>1, LastOfTail
  <2>3. ZoneTypes'
    BY <2>1, <2>2 DEF ZoneInv, ZoneTypes
  <2>4. \A j \in DOMAIN map : j \in Channel /\ settled(j)' = settled(j)
    <3> TAKE j \in DOMAIN map
    <3>1. j \in Channel
      BY MapFits DEF ZoneInv
    <3>2. CASE j = i
      BY <2>1, <2>2, <3>2 DEF settled, ZoneInv, ZoneTypes
    <3>3. CASE j # i
      BY <2>1, <3>1, <3>3 DEF settled, ZoneInv, ZoneTypes
    <3> QED BY <3>1, <3>2, <3>3
  <2>5. Followed' /\ TasksTyped' /\ IsMap(map, stems)'
    BY <2>1, <2>4 DEF ZoneInv, Followed, TasksTyped, IsMap, Distinct
  <2> QED BY <2>3, <2>5 DEF ZoneInv
<1>2. CASE SendNoiseFails(i)
  <2>1. /\ connection' = [connection EXCEPT ![i] = Nil]
        /\ tasks' = tasks \union {Update(outs)}
        /\ UNCHANGED <<map, stems, updates, opened, outs>>
    BY <1>2 DEF SendNoiseFails, links
  <2>2. ZoneTypes' /\ TasksTyped'
    BY <2>1 DEF ZoneInv, ZoneTypes, TasksTyped, Update, Link
  <2>3. \A j \in DOMAIN map : settled(j)' \in {settled(j), Nil}
    BY <2>1, MapFits DEF settled, ZoneInv, ZoneTypes
  <2>4. Followed' /\ IsMap(map, stems)'
    BY <2>1, <2>3 DEF ZoneInv, Followed, IsMap, Distinct
  <2> QED BY <2>2, <2>4 DEF ZoneInv
<1> QED BY <1>1, <1>2

(* Every step keeps the invariant of the zone.                             *)
LEMMA ZoneInductive == ZoneInv /\ [Next]_vars => ZoneInv'
<1> SUFFICES ASSUME ZoneInv, [Next]_vars PROVE ZoneInv'
  OBVIOUS
<1>1. CASE NewOutConnection
  <2>1. /\ opened' \in 0..MaxConns /\ opened' \in Conns
        /\ outs' = outs \union {opened'}
        /\ tasks' \in {tasks, tasks \union {Update(outs')}}
        /\ UNCHANGED <<map, stems, updates, connection>>
    BY <1>1, ZoneAssumption
    DEF NewOutConnection, ZoneInv, ZoneTypes, Conns, channels
  <2>2. outs' \subseteq Conns
    BY <2>1 DEF ZoneInv, ZoneTypes
  <2>3. TasksTyped'
    <3>1. CASE tasks' = tasks
      BY <3>1 DEF ZoneInv, TasksTyped, IsMap, Distinct
    <3>2. CASE tasks' = tasks \union {Update(outs')}
      BY <2>2, <3>2 DEF ZoneInv, TasksTyped, Update, IsMap, Distinct
    <3> QED BY <2>1, <3>1, <3>2
  <2> QED BY <2>1, <2>2, <2>3, LinksStep
<1>2. ASSUME NEW c \in Conns, Shutdown(c) \/ Delete(c) PROVE ZoneInv'
  BY <1>2, LinksStep
  DEF Shutdown, Delete, ZoneInv, ZoneTypes, TasksTyped, zone, channels
<1>3. CASE StartEpoch
  <2>1. PICK m \in connection_map(outs, Channels) : tasks' = tasks \union {Change(m)}
    BY <1>3 DEF StartEpoch
  <2>2. IsMap(m, Channels)
    BY <2>1, NewMap DEF ZoneInv, ZoneTypes
  <2>3. TasksTyped'
    BY <2>1, <2>2 DEF ZoneInv, TasksTyped, Change, IsMap, Distinct
  <2> QED BY <1>3, <2>3, LinksStep DEF StartEpoch, ZoneInv, ZoneTypes, links, channels
<1>4. ASSUME NEW i \in Channel,
             SendNoise(i) \/ \E m \in Messages : QueueCovertNotify(i, m)
      PROVE  ZoneInv'
  BY <1>4, LinksStep
  DEF SendNoise, QueueCovertNotify, ZoneInv, ZoneTypes, TasksTyped, links, zone
<1>5. CASE UNCHANGED vars
  BY <1>5, LinksStep DEF vars, links, zone, channels, ZoneInv, ZoneTypes, TasksTyped
<1> QED BY <1>1, <1>2, <1>3, <1>4, <1>5, ZoneStep, ChannelStep DEF Next

(* The invariant holds at the beginning.                                   *)
LEMMA InitZoneInv == Init => ZoneInv
<1> SUFFICES ASSUME Init PROVE ZoneInv
  OBVIOUS
<1>1. IsMap(<<>>, 0) /\ IsMap(<<>>, Channels)
  BY ZoneAssumption DEF IsMap, Distinct
<1>2. ZoneTypes /\ Followed
  BY ZoneAssumption DEF Init, ZoneTypes, Followed, Link
<1>3. TasksTyped
  BY <1>1 DEF Init, TasksTyped, Change
<1> QED BY <1>1, <1>2, <1>3 DEF Init, ZoneInv

(* The channels follow the map in every behaviour: what runs for two       *)
(* channels and three connections holds for any number of them.            *)
THEOREM NoiseChannelsFollowMap == Spec => []ChannelsFollowMap
<1>1. Init => ZoneInv
  BY InitZoneInv
<1>2. ZoneInv => ChannelsFollowMap
  BY DEF ZoneInv, Followed, settled, IsMap, Distinct, ChannelsFollowMap
<1> QED BY <1>1, <1>2, ZoneInductive, PTL DEF Spec
-----------------------------------------------------------------------------
Piece == Messages \X Nat

(* What is left of message m after its first pieces have been sent.        *)
Rest(s, m) ==
  /\ s \in Seq(Piece) /\ Len(s) < Fragments[m]
  /\ \A k \in 1..Len(s) : s[k] = <<m, (Fragments[m] - Len(s)) + k>>

ChannelTypes ==
  /\ queue \in [Channel -> Seq(Messages)]
  /\ active \in [Channel -> Seq(Piece)]
  /\ connection \in [Channel -> Link]
  /\ began \in [Channel -> Link]
  /\ updates \in [Channel -> Seq(Link)]

Whole(i) ==
  active[i] # <<>> => /\ queue[i] # <<>>
                      /\ Rest(active[i], Head(queue[i]))
                      /\ connection[i] = began[i]

ChannelInv == ChannelTypes /\ \A i \in Channel : Whole(i)
-----------------------------------------------------------------------------
(* The pieces of a message, and what is left of them after the first.      *)
LEMMA FirstPiece ==
  ASSUME NEW m \in Messages
  PROVE  /\ make_fragmented_notify(m) \in Seq(Piece)
         /\ \A k \in 1..Fragments[m] : make_fragmented_notify(m)[k] = <<m, k>>
         /\ Len(make_fragmented_notify(m)) = Fragments[m] /\ Fragments[m] \in Nat \ {0}
         /\ Rest(Tail(make_fragmented_notify(m)), m)
<1> DEFINE t == make_fragmented_notify(m)
<1>1. Fragments[m] \in Nat \ {0}
  BY ZoneAssumption
<1>2. /\ t \in Seq(Piece) /\ Len(t) = Fragments[m]
      /\ \A k \in 1..Fragments[m] : t[k] = <<m, k>>
  BY <1>1 DEF make_fragmented_notify, Piece
<1> HIDE DEF t
<1>3. /\ Tail(t) \in Seq(Piece) /\ Len(Tail(t)) = Fragments[m] - 1
      /\ \A k \in 1..(Fragments[m] - 1) : Tail(t)[k] = t[k + 1]
  BY <1>1, <1>2
<1>4. \A k \in 1..Len(Tail(t)) : Tail(t)[k] = <<m, (Fragments[m] - Len(Tail(t))) + k>>
  <2> TAKE k \in 1..Len(Tail(t))
  <2>1. /\ k \in 1..(Fragments[m] - 1) /\ k + 1 \in 1..Fragments[m]
        /\ k + 1 = (Fragments[m] - Len(Tail(t))) + k
    BY <1>1, <1>3
  <2>2. Tail(t)[k] = <<m, k + 1>>
    BY <1>2, <1>3, <2>1
  <2> QED BY Zenon, <2>1, <2>2
<1>5. Rest(Tail(t), m)
  <2>1. Len(Tail(t)) < Fragments[m]
    BY <1>1, <1>3
  <2> QED BY Zenon, <1>3, <1>4, <2>1 DEF Rest
<1> QED BY <1>1, <1>2, <1>5 DEF t

(* One more piece is sent.                                                 *)
LEMMA NextPiece ==
  ASSUME NEW m \in Messages, NEW s, Rest(s, m), s # <<>>
  PROVE  Rest(Tail(s), m)
<1>1. Fragments[m] \in Nat \ {0} /\ s \in Seq(Piece) /\ Len(s) < Fragments[m]
  BY ZoneAssumption DEF Rest
<1>2. Len(s) \in Nat \ {0}
  BY <1>1, EmptySeq
<1>3. /\ Tail(s) \in Seq(Piece) /\ Len(Tail(s)) = Len(s) - 1
      /\ \A k \in 1..(Len(s) - 1) : Tail(s)[k] = s[k + 1]
  BY <1>1, <1>2
<1>4. \A k \in 1..(Len(s) - 1) : Tail(s)[k] = <<m, (Fragments[m] - (Len(s) - 1)) + k>>
  <2> TAKE k \in 1..(Len(s) - 1)
  <2>1. /\ k + 1 \in 1..Len(s)
        /\ (Fragments[m] - Len(s)) + (k + 1) = (Fragments[m] - (Len(s) - 1)) + k
    BY <1>1, <1>2
  <2> QED BY <1>3, <2>1 DEF Rest
<1> QED BY <1>1, <1>2, <1>3, <1>4 DEF Rest

(* Reverse, as a sequence.                                                 *)
LEMMA ReverseSeq ==
  ASSUME NEW A, NEW s \in Seq(A)
  PROVE  /\ Reverse(s) \in Seq(A) /\ Len(Reverse(s)) = Len(s)
         /\ \A k \in 1..Len(s) : Reverse(s)[k] = s[(Len(s) - k) + 1]
<1>1. Len(s) \in Nat /\ \A k \in 1..Len(s) : s[k] \in A
  OBVIOUS
<1>2. \A k \in 1..Len(s) : (Len(s) - k) + 1 \in 1..Len(s)
  BY <1>1
<1>3. Reverse(s) \in [1..Len(s) -> A]
  BY <1>1, <1>2 DEF Reverse
<1>4. \A k \in 1..Len(s) : Reverse(s)[k] = s[(Len(s) - k) + 1]
  BY DEF Reverse
<1>5. Reverse(s) \in Seq(A) /\ Len(Reverse(s)) = Len(s)
  BY <1>1, <1>3
<1> QED BY <1>4, <1>5

(* The first n elements of a sequence.                                     *)
LEMMA FirstOfSeq ==
  ASSUME NEW A, NEW s \in Seq(A), NEW n \in Nat, n <= Len(s)
  PROVE  SubSeq(s, 1, n) = [k \in 1..n |-> s[k]]
OBVIOUS

(* The rest of a message is the end of its pieces.                         *)
LEMMA RestIsSuffix ==
  ASSUME NEW m \in Messages, NEW s, Rest(s, m)
  PROVE  IsStrictSuffix(s, make_fragmented_notify(m))
<1> DEFINE t == make_fragmented_notify(m)
<1>1. Fragments[m] \in Nat \ {0} /\ s \in Seq(Piece) /\ Len(s) < Fragments[m] /\ Len(s) \in Nat
  BY ZoneAssumption DEF Rest
<1>2. /\ t \in Seq(Piece) /\ Len(t) = Fragments[m]
      /\ \A k \in 1..Fragments[m] : t[k] = <<m, k>>
  BY FirstPiece
<1>3. /\ Reverse(s) \in Seq(Piece) /\ Len(Reverse(s)) = Len(s)
      /\ \A k \in 1..Len(s) : Reverse(s)[k] = s[(Len(s) - k) + 1]
  BY <1>1, ReverseSeq
<1>4. /\ Reverse(t) \in Seq(Piece) /\ Len(Reverse(t)) = Fragments[m]
      /\ \A k \in 1..Fragments[m] : Reverse(t)[k] = t[(Fragments[m] - k) + 1]
  BY <1>2, ReverseSeq
<1> HIDE DEF t
<1>5. \A k \in 1..Len(s) : Reverse(s)[k] = <<m, (Fragments[m] - k) + 1>>
  <2> TAKE k \in 1..Len(s)
  <2>1. /\ (Len(s) - k) + 1 \in 1..Len(s)
        /\ (Fragments[m] - Len(s)) + ((Len(s) - k) + 1) = (Fragments[m] - k) + 1
    BY <1>1
  <2> QED BY <1>3, <2>1 DEF Rest
<1>6. \A k \in 1..Len(s) : Reverse(t)[k] = <<m, (Fragments[m] - k) + 1>>
  <2> TAKE k \in 1..Len(s)
  <2>1. (Fragments[m] - k) + 1 \in 1..Fragments[m] /\ k \in 1..Fragments[m]
    BY <1>1
  <2> QED BY <1>2, <1>4, <2>1
<1>7. SubSeq(Reverse(s), 1, Len(s)) = SubSeq(Reverse(t), 1, Len(s))
  <2>1. SubSeq(Reverse(s), 1, Len(s)) = [k \in 1..Len(s) |-> <<m, (Fragments[m] - k) + 1>>]
    BY <1>1, <1>3, <1>5, FirstOfSeq
  <2>2. SubSeq(Reverse(t), 1, Len(s)) = [k \in 1..Len(s) |-> <<m, (Fragments[m] - k) + 1>>]
    BY <1>1, <1>4, <1>6, FirstOfSeq
  <2> QED BY <2>1, <2>2
<1>8. Len(Reverse(s)) = Len(s) /\ Len(Reverse(s)) <= Len(Reverse(t)) /\ s # t
  BY <1>1, <1>2, <1>3, <1>4
<1> QED BY Zenon, <1>7, <1>8 DEF IsStrictSuffix, IsSuffix, IsPrefix, t
-----------------------------------------------------------------------------
(* A step that leaves the channels alone.                                  *)
LEMMA ChannelsAlone ==
  ASSUME ChannelInv, UNCHANGED channels, updates' \in [Channel -> Seq(Link)]
  PROVE  ChannelInv'
BY DEF ChannelInv, ChannelTypes, Whole, Rest, channels

(* update_channel and a failed send cut the message short.                 *)
LEMMA CutShort ==
  ASSUME ChannelInv, NEW i \in Channel, UpdateChannel(i) \/ SendNoiseFails(i)
  PROVE  ChannelInv'
<1>1. /\ active' = [active EXCEPT ![i] = <<>>] /\ began' = [began EXCEPT ![i] = Nil]
      /\ updates' \in [Channel -> Seq(Link)]
      /\ \E c \in Link : connection' = [connection EXCEPT ![i] = c]
      /\ queue' \in {queue, [queue EXCEPT ![i] = <<>>]}
  <2>1. CASE UpdateChannel(i)
    <3>1. updates[i] \in Seq(Link) /\ updates[i] # <<>>
      BY <2>1 DEF UpdateChannel, ChannelInv, ChannelTypes
    <3>2. Head(updates[i]) \in Link /\ Tail(updates[i]) \in Seq(Link)
      BY <3>1, LastOfTail
    <3> QED BY <2>1, <3>2 DEF UpdateChannel, ChannelInv, ChannelTypes
  <2>2. CASE SendNoiseFails(i)
    BY <2>2 DEF SendNoiseFails, ChannelInv, ChannelTypes, Link
  <2> QED BY <2>1, <2>2
<1>2. ChannelTypes'
  <2>1. active' \in [Channel -> Seq(Piece)] /\ began' \in [Channel -> Link]
    BY <1>1 DEF ChannelInv, ChannelTypes, Link
  <2>2. connection' \in [Channel -> Link]
    BY <1>1 DEF ChannelInv, ChannelTypes
  <2>3. queue' \in [Channel -> Seq(Messages)]
    <3>1. CASE queue' = queue
      BY <3>1 DEF ChannelInv, ChannelTypes
    <3>2. CASE queue' = [queue EXCEPT ![i] = <<>>]
      BY <3>2 DEF ChannelInv, ChannelTypes
    <3> QED BY <1>1, <3>1, <3>2
  <2> QED BY <1>1, <2>1, <2>2, <2>3 DEF ChannelTypes
<1>3. ASSUME NEW j \in Channel PROVE Whole(j)'
  <2>1. CASE j = i
    BY <1>1, <2>1 DEF ChannelInv, ChannelTypes, Whole
  <2>2. CASE j # i
    <3>1. /\ active'[j] = active[j] /\ queue'[j] = queue[j]
          /\ connection'[j] = connection[j] /\ began'[j] = began[j]
      BY <1>1, <2>2 DEF ChannelInv, ChannelTypes
    <3> QED BY <3>1 DEF ChannelInv, Whole, Rest
  <2> QED BY <2>1, <2>2
<1> QED BY <1>2, <1>3 DEF ChannelInv

(* A message that is queued comes after the one that is being sent.        *)
LEMMA Queued ==
  ASSUME ChannelInv, NEW i \in Channel, NEW m \in Messages, QueueCovertNotify(i, m)
  PROVE  ChannelInv'
<1>1. /\ queue' = [queue EXCEPT ![i] = Append(queue[i], m)]
      /\ UNCHANGED <<active, began, connection, updates>>
  BY DEF QueueCovertNotify
<1>2. ChannelTypes'
  BY <1>1 DEF ChannelInv, ChannelTypes
<1>3. ASSUME NEW j \in Channel PROVE Whole(j)'
  <2>1. queue[j] \in Seq(Messages)
    BY DEF ChannelInv, ChannelTypes
  <2>2. queue[j] # <<>> => queue'[j] # <<>> /\ Head(queue'[j]) = Head(queue[j])
    <3>1. CASE j # i
      BY <1>1, <3>1 DEF ChannelInv, ChannelTypes
    <3>2. CASE j = i
      <4>1. queue'[i] = Append(queue[i], m)
        BY <1>1 DEF ChannelInv, ChannelTypes
      <4> QED BY <2>1, <3>2, <4>1, AppendProperties, HeadTailAppend
    <3> QED BY <3>1, <3>2
  <2> QED BY <1>1, <2>2 DEF ChannelInv, Whole, Rest
<1> QED BY <1>2, <1>3 DEF ChannelInv

(* A piece is sent.                                                        *)
LEMMA Sent ==
  ASSUME ChannelInv, NEW i \in Channel, SendNoise(i)
  PROVE  ChannelInv'
<1> DEFINE a == active[i]
           q == queue[i]
           p == pieces(i)
<1>1. /\ q \in Seq(Messages) /\ a \in Seq(Piece) /\ connection[i] \in Link
      /\ began[i] \in Link
  BY DEF ChannelInv, ChannelTypes
<1>2. /\ p # <<>> /\ UNCHANGED <<connection, updates>>
      /\ active' = [active EXCEPT ![i] = Tail(p)]
      /\ queue' = IF q # <<>> /\ active'[i] = <<>> THEN [queue EXCEPT ![i] = Tail(q)] ELSE queue
      /\ began' = [began EXCEPT ![i] = IF active'[i] = <<>> THEN Nil
                                       ELSE IF a = <<>> THEN connection[i] ELSE began[i]]
  BY DEF SendNoise
<1>3. active'[i] = Tail(p)
  BY <1>2 DEF ChannelInv, ChannelTypes
<1>4. q # <<>> /\ Rest(Tail(p), Head(q)) /\ (a # <<>> => connection[i] = began[i])
  <2>1. CASE a = <<>>
    <3>1. q # <<>> /\ p = make_fragmented_notify(Head(q))
      BY <1>2, <2>1 DEF pieces
    <3>2. Head(q) \in Messages
      BY <1>1, <3>1
    <3> QED BY <2>1, <3>1, <3>2, FirstPiece
  <2>2. CASE a # <<>>
    <3>1. p = a /\ q # <<>> /\ Rest(a, Head(q)) /\ connection[i] = began[i]
      BY <2>2 DEF pieces, ChannelInv, Whole
    <3>2. Head(q) \in Messages
      BY <1>1, <3>1
    <3> QED BY <2>2, <3>1, <3>2, NextPiece
  <2> QED BY <2>1, <2>2
<1>5. Tail(p) \in Seq(Piece)
  BY <1>4 DEF Rest
<1>6. Tail(q) \in Seq(Messages)
  BY <1>1, <1>4
<1> HIDE DEF p, q, a
<1>7. ChannelTypes'
  <2>1. active' \in [Channel -> Seq(Piece)]
    BY <1>2, <1>5 DEF ChannelInv, ChannelTypes
  <2>2. queue' \in [Channel -> Seq(Messages)]
    BY <1>2, <1>6 DEF ChannelInv, ChannelTypes
  <2>3. began' \in [Channel -> Link]
    BY <1>1, <1>2 DEF ChannelInv, ChannelTypes, Link
  <2> QED BY <1>2, <2>1, <2>2, <2>3 DEF ChannelInv, ChannelTypes
<1>8. ASSUME NEW j \in Channel PROVE Whole(j)'
  <2>1. CASE j # i
    <3>1. /\ active'[j] = active[j] /\ queue'[j] = queue[j]
          /\ connection'[j] = connection[j] /\ began'[j] = began[j]
      BY <1>2, <2>1 DEF ChannelInv, ChannelTypes
    <3> QED BY <3>1 DEF ChannelInv, Whole, Rest
  <2>2. CASE j = i /\ Tail(p) = <<>>
    BY <1>3, <2>2 DEF Whole
  <2>3. CASE j = i /\ Tail(p) # <<>>
    <3>1. queue'[i] = q /\ began'[i] = connection[i] /\ connection'[i] = connection[i]
      BY <1>2, <1>3, <1>4, <2>3 DEF ChannelInv, ChannelTypes, q
    <3> QED BY <1>3, <1>4, <2>3, <3>1 DEF Whole, Rest
  <2> QED BY <2>1, <2>2, <2>3
<1> QED BY <1>7, <1>8 DEF ChannelInv

(* What is posted to a channel is a connection or nil.                     *)
LEMMA PostedTyped ==
  ASSUME ZoneInv, [Next]_vars
  PROVE  updates' \in [Channel -> Seq(Link)]
BY ZoneInductive DEF ZoneInv, ZoneTypes

(* Every step keeps the invariant of the channels.                         *)
LEMMA ChannelInductive == ZoneInv /\ ChannelInv /\ [Next]_vars => ChannelInv'
<1> SUFFICES ASSUME ZoneInv, ChannelInv, [Next]_vars PROVE ChannelInv'
  OBVIOUS
<1>1. CASE NewOutConnection \/ StartEpoch \/ UNCHANGED vars
  BY <1>1, PostedTyped, ChannelsAlone DEF NewOutConnection, StartEpoch, vars
<1>2. ASSUME NEW c \in Conns, Shutdown(c) \/ Delete(c) PROVE ChannelInv'
  BY <1>2, PostedTyped, ChannelsAlone DEF Shutdown, Delete
<1>3. ASSUME NEW t \in tasks, ChangeChannels(t) \/ UpdateChannels(t) PROVE ChannelInv'
  BY <1>3, PostedTyped, ChannelsAlone DEF ChangeChannels, UpdateChannels
<1> QED BY <1>1, <1>2, <1>3, CutShort, Queued, Sent DEF Next

(* A message goes whole over one connection, however long it is and        *)
(* wherever an update or a failed send cuts it short.                      *)
THEOREM NoiseWholeOnOneConnection == Spec => []WholeOnOneConnection
<1>1. Init => ZoneInv /\ ChannelInv
  <2> SUFFICES ASSUME Init PROVE ZoneInv /\ ChannelInv
    OBVIOUS
  <2>1. ZoneInv
    BY InitZoneInv
  <2>2. ChannelInv
    BY EmptySeq DEF Init, ChannelInv, ChannelTypes, Whole, Link
  <2> QED BY <2>1, <2>2
<1>2. ChannelInv => WholeOnOneConnection
  <2> SUFFICES ASSUME ChannelInv, NEW i \in Channel, active[i] # <<>>
               PROVE  /\ queue[i] # <<>>
                      /\ IsStrictSuffix(active[i], make_fragmented_notify(Head(queue[i])))
                      /\ connection[i] = began[i]
    BY DEF WholeOnOneConnection
  <2>1. queue[i] # <<>> /\ queue[i] \in Seq(Messages) /\ Rest(active[i], Head(queue[i]))
    BY DEF ChannelInv, ChannelTypes, Whole
  <2>2. Head(queue[i]) \in Messages
    BY <2>1
  <2> QED BY <2>1, <2>2, RestIsSuffix DEF ChannelInv, Whole
<1> QED BY <1>1, <1>2, ZoneInductive, ChannelInductive, PTL DEF Spec
=============================================================================
