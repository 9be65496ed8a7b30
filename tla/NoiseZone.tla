------------------------------ MODULE NoiseZone ------------------------------
(* cryptonote_protocol/levin_notify.cpp for a zone that uses noise: one      *)
(* sending queue per channel, and the map from channels to outgoing          *)
(* connections of net/dandelionpp.cpp.  A step is one callback on the strand *)
(* of the zone or of a channel, or what a thread does before it posts one.   *)
EXTENDS Naturals, Sequences, FiniteSets, Functions, SequencesExt, FiniteSetsExt

CONSTANTS
  MaxConns,      \* bound on the outgoing connections that are ever made
  Messages,
  Fragments,     \* the noise-sized pieces that each message is cut into
  Channels,      \* CRYPTONOTE_NOISE_CHANNELS
  MaxFragments,  \* CRYPTONOTE_MAX_FRAGMENTS
  MaxLost,       \* bound on the connections that fail
  MaxTasks,      \* bound on what is posted to the strand of the zone
  MaxPosted      \* bound on what is posted to the strand of a channel

ASSUME ZoneAssumption ==
  /\ Channels \in Nat \ {0}
  /\ Fragments \in [Messages -> 1..MaxFragments]
  /\ MaxConns \in Nat /\ MaxFragments \in Nat

(* Connections are numbered as they are made; an id is never used again.    *)
Conns == 1..MaxConns
Nil == 0
Channel == 1..Channels

VARIABLES
  opened,            \* how many connections have been made so far
  outs,              \* connections in m_connects
  closing,           \* those of them on which do_send fails
  map,               \* zone::map.out_mapping_
  stems,             \* the size of zone::map.usage_count_
  connection_count,
  tasks,             \* what is posted to the strand of the zone
  updates,           \* update_channel callbacks, in order, per channel
  connection,        \* of each channel, like the next two
  queue,
  active,            \* the pieces of the front of the queue not yet sent
  began              \* history: the connection that got the first piece

zone == <<map, stems, connection_count, tasks>>
links == <<opened, outs, closing>>
channels == <<connection, queue, active, began>>
vars == <<links, zone, updates, channels>>
-----------------------------------------------------------------------------
(* connection_map::connection_map: a random choice of `count' connections,  *)
(* or all of them in a random order.                                        *)
connection_map(current, count) ==
  LET n == Min({count, Cardinality(current)})
  IN  {m \in [1..n -> current] : IsInjective(m)}

size(m) == Cardinality({i \in DOMAIN m : m[i] # Nil})

kept(m, current) == [i \in DOMAIN m |-> IF m[i] \in current THEN m[i] ELSE Nil]

(* The lowest places of the map that are free, as many as there are         *)
(* connections left to fill them.                                           *)
filled(m, count, current) ==
  LET free == {i \in 1..count : i > Len(m) \/ m[i] = Nil}
      spare == Cardinality(current \ Range(m))
  IN  {i \in free : Cardinality({j \in free : j < i}) < spare}

(* Faulty: a place may be given a connection that another one has.          *)
update_reuses(m, count, current) ==
  LET old == kept(m, current)
      F == filled(old, count, current)
  IN  {[i \in DOMAIN m \union F |-> IF i \in F THEN f[i] ELSE old[i]] :
         f \in [F -> current]}

(* connection_map::update: the maps it may leave.                           *)
update(m, count, current) ==
  LET old == kept(m, current)
      F == filled(old, count, current)
  IN  {[i \in DOMAIN m \union F |-> IF i \in F THEN f[i] ELSE old[i]] :
         f \in {g \in [F -> current \ Range(old)] : IsInjective(g)}}

(* What update returns: an entry that was already nil counts as replaced.   *)
is_updated(m, current, new) ==
  Range(m) \ current # {} \/ Len(m) < Len(new)
-----------------------------------------------------------------------------
Change(m) == [kind |-> "change", map |-> m, outs |-> {}]
Update(S) == [kind |-> "update", map |-> <<>>, outs |-> S]

Init ==
  /\ opened = 0 /\ outs = {} /\ closing = {}
  /\ map = <<>> /\ stems = 0 /\ connection_count = 0
  /\ tasks = {Change(<<>>)}
  /\ updates = [i \in Channel |-> <<>>]
  /\ connection = [i \in Channel |-> Nil]
  /\ queue = [i \in Channel |-> <<>>]
  /\ active = [i \in Channel |-> <<>>]
  /\ began = [i \in Channel |-> Nil]
-----------------------------------------------------------------------------
(* A connection is made, its sends begin to fail, and it is deleted.        *)
(* The thread that makes a connection calls notify::new_out_connection.     *)
NewOutConnection ==
  /\ opened < MaxConns
  /\ Cardinality(tasks) < MaxTasks
  /\ opened' = opened + 1
  /\ outs' = outs \union {opened'}
  /\ tasks' = IF Channels <= connection_count THEN tasks
              ELSE tasks \union {Update(outs')}
  /\ UNCHANGED <<closing, map, stems, connection_count, updates, channels>>

Shutdown(c) ==
  /\ c \in outs \ closing
  /\ opened - Cardinality(outs \ closing) < MaxLost
  /\ closing' = closing \union {c}
  /\ UNCHANGED <<opened, outs, zone, updates, channels>>

Delete(c) ==
  /\ c \in closing
  /\ outs' = outs \ {c}
  /\ closing' = closing \ {c}
  /\ UNCHANGED <<opened, zone, updates, channels>>

(* Faulty: an epoch begins only if connections are missing.                 *)
StartEpoch_if_missing ==
  /\ connection_count < Channels
  /\ tasks = {} /\ \A i \in Channel : updates[i] = <<>>
  /\ \E m \in connection_map(outs, Channels) : tasks' = tasks \union {Change(m)}
  /\ UNCHANGED <<links, map, stems, connection_count, updates, channels>>

(* start_epoch, each time its timer fires: an epoch lasts for minutes, and  *)
(* what was posted before has run by then.                                  *)
StartEpoch ==
  /\ tasks = {} /\ \A i \in Channel : updates[i] = <<>>
  /\ \E m \in connection_map(outs, Channels) : tasks' = tasks \union {Change(m)}
  /\ UNCHANGED <<links, map, stems, connection_count, updates, channels>>
-----------------------------------------------------------------------------
(* update_channels::post: one callback per entry of the map.                *)
post(m) ==
  /\ \A i \in DOMAIN m : Len(updates[i]) < MaxPosted
  /\ connection_count' = size(m)
  /\ updates' = [i \in Channel |-> IF i \in DOMAIN m THEN Append(updates[i], m[i])
                                   ELSE updates[i]]

(* change_channels.                                                         *)
ChangeChannels(t) ==
  /\ t \in tasks /\ t.kind = "change"
  /\ tasks' = tasks \ {t}
  /\ map' = t.map
  /\ stems' = Channels
  /\ post(t.map)
  /\ UNCHANGED <<links, channels>>

(* update_channels.                                                         *)
UpdateChannels(t) ==
  /\ t \in tasks /\ t.kind = "update"
  /\ tasks' = tasks \ {t}
  /\ map' \in update(map, stems, t.outs)
  /\ IF is_updated(map, t.outs, map') THEN post(map')
     ELSE UNCHANGED <<connection_count, updates>>
  /\ UNCHANGED <<links, stems, channels>>

(* Faulty: what is left of the message is sent on the new connection.       *)
UpdateChannel_keeps_active(i) ==
  /\ updates[i] # <<>>
  /\ updates' = [updates EXCEPT ![i] = Tail(@)]
  /\ connection' = [connection EXCEPT ![i] = Head(updates[i])]
  /\ queue' = IF Head(updates[i]) = Nil THEN [queue EXCEPT ![i] = <<>>] ELSE queue
  /\ UNCHANGED <<links, zone, active, began>>

(* update_channel.                                                          *)
UpdateChannel(i) ==
  /\ updates[i] # <<>>
  /\ updates' = [updates EXCEPT ![i] = Tail(@)]
  /\ connection' = [connection EXCEPT ![i] = Head(updates[i])]
  /\ active' = [active EXCEPT ![i] = <<>>]
  /\ began' = [began EXCEPT ![i] = Nil]
  /\ queue' = IF Head(updates[i]) = Nil THEN [queue EXCEPT ![i] = <<>>] ELSE queue
  /\ UNCHANGED <<links, zone>>
-----------------------------------------------------------------------------
(* notify::send_txs and queue_covert_notify: send_txs posts a message to    *)
(* every channel, and each of them takes it when its strand gets to it.     *)
QueueCovertNotify(i, m) ==
  /\ connection[i] # Nil
  /\ m \notin Range(queue[i])
  /\ queue' = [queue EXCEPT ![i] = Append(@, m)]
  /\ UNCHANGED <<links, zone, updates, connection, active, began>>

(* make_fragmented_notify.                                                  *)
make_fragmented_notify(m) == [k \in 1..Fragments[m] |-> <<m, k>>]

(* What send_noise has to send besides noise.                               *)
pieces(i) ==
  IF active[i] = <<>> /\ queue[i] # <<>> THEN make_fragmented_notify(Head(queue[i]))
  ELSE active[i]

(* Faulty: a message that is sent stays in the queue.                       *)
SendNoise_keeps_front(i) ==
  /\ connection[i] \in outs \ closing
  /\ pieces(i) # <<>>
  /\ active' = [active EXCEPT ![i] = Tail(pieces(i))]
  /\ began' = [began EXCEPT ![i] = IF active'[i] = <<>> THEN Nil
                                   ELSE IF active[i] = <<>> THEN connection[i] ELSE @]
  /\ UNCHANGED <<links, zone, updates, queue, connection>>

(* send_noise with a connection that sends, and with one that does not; it  *)
(* does nothing without one.                                                *)
SendNoise(i) ==
  /\ connection[i] \in outs \ closing
  /\ pieces(i) # <<>>
  /\ active' = [active EXCEPT ![i] = Tail(pieces(i))]
  /\ queue' = IF queue[i] # <<>> /\ active'[i] = <<>>
              THEN [queue EXCEPT ![i] = Tail(@)] ELSE queue
  /\ began' = [began EXCEPT ![i] = IF active'[i] = <<>> THEN Nil
                                   ELSE IF active[i] = <<>> THEN connection[i] ELSE @]
  /\ UNCHANGED <<links, zone, updates, connection>>

SendNoiseFails(i) ==
  /\ connection[i] \in Conns \ (outs \ closing)
  /\ Cardinality(tasks) < MaxTasks
  /\ active' = [active EXCEPT ![i] = <<>>]
  /\ began' = [began EXCEPT ![i] = Nil]
  /\ connection' = [connection EXCEPT ![i] = Nil]
  /\ tasks' = tasks \union {Update(outs)}
  /\ UNCHANGED <<links, map, stems, connection_count, updates, queue>>
-----------------------------------------------------------------------------
Next ==
  \/ NewOutConnection \/ \E c \in Conns : Shutdown(c) \/ Delete(c)
  \/ StartEpoch
  \/ \E t \in tasks : ChangeChannels(t) \/ UpdateChannels(t)
  \/ \E i \in Channel, m \in Messages : QueueCovertNotify(i, m)
  \/ \E i \in Channel :
       UpdateChannel(i) \/ SendNoise(i) \/ SendNoiseFails(i)

(* Callbacks that are posted and timers that are set run in the end, and a  *)
(* message has the time for all its pieces in some epoch: update_channel    *)
(* asserts that an epoch is that long (line 309).                           *)
Completes(i) == SendNoise(i) /\ queue'[i] # queue[i]

Fairness ==
  /\ SF_vars(StartEpoch)
  /\ SF_vars(\E t \in tasks : ChangeChannels(t))
  /\ SF_vars(\E t \in tasks : UpdateChannels(t))
  /\ \A c \in Conns : WF_vars(Delete(c))
  /\ \A i \in Channel :
       /\ WF_vars(UpdateChannel(i))
       /\ WF_vars(SendNoise(i) \/ SendNoiseFails(i))
       /\ SF_vars(Completes(i))

Spec == Init /\ [][Next]_vars /\ Fairness
-----------------------------------------------------------------------------
(* A channel that the map has a place for uses the connection of that       *)
(* place or none, once the callbacks posted to it have run, and no two      *)
(* places have one connection.                                              *)
ChannelsFollowMap ==
  /\ \A i \in DOMAIN map :
       LET last == IF updates[i] = <<>> THEN connection[i] ELSE Last(updates[i])
       IN  last \in {map[i], Nil}
  /\ \A i, j \in DOMAIN map : i # j /\ map[i] # Nil => map[i] # map[j]

(* All pieces of a message go over one connection, the first one first,     *)
(* however often the message is cut short by an update or a failed send:    *)
(* what is left of one is the end of the front of the queue, and its        *)
(* beginning was sent on the connection that the channel still has.         *)
WholeOnOneConnection ==
  \A i \in Channel : active[i] # <<>> =>
    /\ queue[i] # <<>>
    /\ IsStrictSuffix(active[i], make_fragmented_notify(Head(queue[i])))
    /\ connection[i] = began[i]

Enough == Cardinality(outs \ closing) >= Channels

(* Every channel gets back to a connection that works: if in the end there  *)
(* are enough of them, each channel keeps one, whichever sends failed and   *)
(* whichever lists were out of date when they were applied.                 *)
ChannelsHeal ==
  <>[]Enough => <>[](\A i \in Channel : connection[i] \in outs \ closing)

(* A message that is in the queue of a channel leaves it, if in the end     *)
(* there are enough connections.                                            *)
QueuedIsSent ==
  <>[]Enough => \A i \in Channel, m \in Messages :
                  (m \in Range(queue[i])) ~> (m \notin Range(queue[i]))
=============================================================================
