--------------------------- MODULE LevinInvariant ---------------------------
(***************************************************************************)
(* For any number of calls on a connection: a call is told its outcome at  *)
(* most once, and a connection is destroyed only when nobody will use it   *)
(* again and every call that was accepted has been told.  The steps of the *)
(* callers, of closing, of cancelling and of the timers keep the invariant.*)
(***************************************************************************)
EXTENDS LevinConnection, FiniteSetTheorems, SequenceTheorems, TLAPS

(* Where the thread of a call can be: before the call, holding a reference *)
(* to the connection, and after it.                                        *)
Closed == {"release", "cancel"}
Trying == {"send", "full", "add", "shutdown", "fail"} \union Closed
Before == {"start", "refused", "end"} \union Trying
Busy == Trying \union {"finish"}
Places == Before \union {"finish", "true", "false", "idle", "call", "close", "want"}

Codes == {"error", "timeout", "destroyed"} \union Calls

NetTypes ==
  /\ net \in [que : Seq(Calls \union {Note}), writing : BOOLEAN,
              wire : Seq(Calls), inbox : Seq(Calls)]
  /\ net.writing => net.que # <<>>

Connections ==
  [want_close : BOOLEAN, was_shutdown : BOOLEAN, reading : BOOLEAN,
   refs : Int, destroyed : BOOLEAN]
Protocols ==
  [handlers : Seq(Calls), lock : Calls \union {None}, close_called : BOOLEAN,
   released : BOOLEAN, leaving : Seq(Calls), wait_count : Int]

Types ==
  /\ conn \in Connections
  /\ levin \in Protocols
  /\ timer \in [Calls -> {"none", "armed", "expired", "off"}]
  /\ pc \in [Threads -> Places]
  /\ rx \in {None} \union [call : Calls \union {None}, reply : Calls]
  /\ results \in [Calls -> Seq(Codes)]

(* One thread cancels the handlers, after the shutdown.                    *)
OneCancels ==
  /\ \A x, y \in Threads : pc[x] \in Closed /\ pc[y] \in Closed => x = y
  /\ \A x \in Threads : pc[x] \in Closed => conn.was_shutdown
  /\ \A x \in Threads : pc[x] = "cancel" => levin.leaving # <<>>

Delivering(c) == rx # None /\ rx.call = c

(* The one who will tell call c its outcome is known at every moment: its  *)
(* own thread until the timer is armed, then whoever stops the timer, or   *)
(* the timer.                                                              *)
Outcome(c) ==
  /\ pc[Invoker(c)] \in Before \union {"finish", "true", "false"}
  /\ pc[Invoker(c)] \in Before => timer[c] = "none" /\ results[c] = <<>>
  /\ pc[Invoker(c)] = "false" => timer[c] = "none" /\ results[c] = <<"error">>
  /\ pc[Invoker(c)] \in {"finish", "true"} => timer[c] # "none"
  /\ timer[c] = "armed" => results[c] = <<>>
  /\ timer[c] # "expired" => pc[Timer(c)] = "idle"
  /\ timer[c] = "expired" => pc[Timer(c)] # "idle"
  /\ pc[Timer(c)] = "call" => results[c] = <<>>
  /\ timer[c] = "expired" /\ pc[Timer(c)] # "call" => Len(results[c]) = 1
  /\ Delivering(c) => timer[c] = "off" /\ results[c] = <<>>
  /\ timer[c] = "off" /\ ~Delivering(c) => Len(results[c]) = 1

Outcomes == \A c \in Calls : Outcome(c)

(* The calls whose threads, and whose handlers, refer to the connection.   *)
Callers == {c \in Calls : pc[Invoker(c)] \in Busy}
Waiting == {c \in Calls :
  \/ timer[c] = "armed"
  \/ timer[c] = "expired" /\ pc[Timer(c)] # "end"
  \/ Delivering(c)}

RefsCounted == conn.refs = Cardinality(Callers) + Cardinality(Waiting)

DestroyedIsFree == conn.destroyed => Callers = {} /\ Waiting = {}

LevinInv ==
  /\ NetTypes /\ Types /\ OneCancels
  /\ Outcomes /\ RefsCounted /\ DestroyedIsFree
-----------------------------------------------------------------------------
(* The threads are told apart.                                             *)
LEMMA ThreadFacts ==
  /\ \A c \in Calls : /\ Invoker(c) \in Invokers /\ Invoker(c) \in Threads
                      /\ Timer(c) \in Timers /\ Timer(c) \in Threads /\ Timer(c) \in Closers
  /\ \A c, d \in Calls : /\ Invoker(c) # Timer(d)
                         /\ Invoker(c) = Invoker(d) => c = d
                         /\ Timer(c) = Timer(d) => c = d
  /\ \A c \in Calls : /\ Invoker(c) \notin {Node, Strand} /\ Timer(c) \notin {Node, Strand}
                      /\ Invoker(c) \notin Timers /\ Timer(c) \notin Invokers
                      /\ Invoker(c) \notin Closers
  /\ {Node, Strand} \subseteq Threads /\ Closers \subseteq Threads
  /\ Node \notin Invokers \union Timers /\ Strand \notin Invokers \union Timers
  /\ Node # Strand
BY DEF Invoker, Timer, Invokers, Timers, Node, Strand, Closers, Threads

(* Where close and shutdown return to.                                     *)
LEMMA DoneFacts ==
  /\ \A x \in Threads : Done(x) \in {"fail", "finish", "end", "idle"}
  /\ \A x \in Invokers : Done(x) = "fail"
  /\ \A x \in Timers : Done(x) = "finish"
<1>1. \A x \in Invokers : Done(x) = "fail"
  <2>1. \A x \in Invokers : x \notin Timers /\ x # Node
    BY ThreadFacts DEF Invokers
  <2> QED BY <2>1 DEF Done
<1>2. \A x \in Timers : Done(x) = "finish"
  <2>1. \A x \in Timers : x \notin Invokers /\ x # Node
    BY ThreadFacts DEF Timers
  <2> QED BY <2>1 DEF Done
<1>3. Done(Node) = "end" /\ Done(Strand) = "idle"
  BY ThreadFacts DEF Done
<1> QED BY <1>1, <1>2, <1>3 DEF Threads, Closers

(* What Append makes of an empty list of outcomes.                         *)
LEMMA FirstOutcome ==
  ASSUME NEW v \in Codes
  PROVE  /\ Append(<<>>, v) = <<v>> /\ Append(<<>>, v) \in Seq(Codes)
         /\ Len(Append(<<>>, v)) = 1
<1>1. <<>> \in Seq(Codes) /\ Len(<<>>) = 0
  BY EmptySeq
<1> QED BY <1>1, AppendProperties

(* Both sets of holders are finite.                                        *)
LEMMA HoldersFinite ==
  /\ IsFiniteSet(Callers) /\ Cardinality(Callers) \in Nat
  /\ IsFiniteSet(Waiting) /\ Cardinality(Waiting) \in Nat
<1>1. Callers \subseteq Calls /\ Waiting \subseteq Calls
  BY DEF Callers, Waiting
<1>2. IsFiniteSet(Callers) /\ IsFiniteSet(Waiting)
  BY <1>1, CallsAssumption, FS_Subset
<1> QED BY <1>2, FS_CardinalityType

(* A step after which the same calls hold references.                      *)
LEMMA SameHolders ==
  ASSUME RefsCounted, DestroyedIsFree, Callers' = Callers, Waiting' = Waiting,
         conn'.refs = conn.refs, conn'.destroyed = conn.destroyed
  PROVE  RefsCounted' /\ DestroyedIsFree'
BY DEF RefsCounted, DestroyedIsFree

(* Where the threads of timers are after they have called back.            *)
Ending == {"close", "want", "shutdown", "finish"} \union Closed

(* A thread goes on, and nobody is told anything by that.                  *)
LEMMA ThreadMoves ==
  ASSUME Types, Outcomes, UNCHANGED <<timer, results>>,
         \A c \in Calls : Delivering(c)' <=> Delivering(c),
         NEW x \in Threads, NEW where, Goto(x, where),
         x \in Invokers => pc[x] \in Trying /\ where \in Trying,
         x \in Timers => pc[x] \in Ending /\ where \in Ending
  PROVE  Outcomes' /\ Callers' = Callers /\ Waiting' = Waiting
<1>1. \A y \in Threads : pc'[y] = IF y = x THEN where ELSE pc[y]
  BY DEF Goto, Types
<1>2. ASSUME NEW c \in Calls
      PROVE  /\ Outcome(c)'
             /\ pc'[Invoker(c)] \in Busy <=> pc[Invoker(c)] \in Busy
             /\ pc'[Timer(c)] = "end" <=> pc[Timer(c)] = "end"
             /\ Delivering(c)' <=> Delivering(c)
  <2>1. Outcome(c)
    BY DEF Outcomes
  <2>2. Delivering(c)' <=> Delivering(c)
    OBVIOUS
  <2>3. CASE x = Invoker(c)
    <3>1. pc'[Invoker(c)] \in Trying /\ pc[Invoker(c)] \in Trying /\ pc'[Timer(c)] = pc[Timer(c)]
      BY <1>1, <2>3, ThreadFacts
    <3> QED BY <2>1, <2>2, <3>1 DEF Outcome, Trying, Before, Busy, Closed
  <2>4. CASE x = Timer(c)
    <3>1. pc'[Timer(c)] \in Ending /\ pc[Timer(c)] \in Ending /\ pc'[Invoker(c)] = pc[Invoker(c)]
      BY <1>1, <2>4, ThreadFacts
    <3> QED BY <2>1, <2>2, <3>1 DEF Outcome, Ending, Closed
  <2>5. CASE x # Invoker(c) /\ x # Timer(c)
    <3>1. pc'[Timer(c)] = pc[Timer(c)] /\ pc'[Invoker(c)] = pc[Invoker(c)]
      BY <1>1, <2>5, ThreadFacts
    <3> QED BY <2>1, <2>2, <3>1 DEF Outcome
  <2> QED BY <2>3, <2>4, <2>5
<1>3. Outcomes'
  BY <1>2 DEF Outcomes
<1>4. Callers' = Callers
  BY <1>2 DEF Callers
<1>5. Waiting' = Waiting
  BY <1>2 DEF Waiting
<1> QED BY <1>3, <1>4, <1>5

(* A call that a step does not touch.                                      *)
Untouched(d) ==
  /\ pc'[Invoker(d)] = pc[Invoker(d)] /\ pc'[Timer(d)] = pc[Timer(d)]
  /\ timer'[d] = timer[d] /\ results'[d] = results[d]
  /\ Delivering(d)' <=> Delivering(d)

(* A step that touches call c alone.                                       *)
LEMMA OneCall ==
  ASSUME Outcomes, NEW c \in Calls, Outcome(c)',
         \A d \in Calls \ {c} : Untouched(d)
  PROVE  /\ Outcomes'
         /\ Callers' \ {c} = Callers \ {c}
         /\ Waiting' \ {c} = Waiting \ {c}
<1>1. ASSUME NEW d \in Calls \ {c} PROVE Outcome(d)'
  BY <1>1 DEF Outcomes, Outcome, Untouched
<1>2. Outcomes'
  BY <1>1 DEF Outcomes
<1>3. Callers' \ {c} = Callers \ {c}
  BY DEF Callers, Untouched
<1>4. Waiting' \ {c} = Waiting \ {c}
  BY DEF Waiting, Untouched
<1> QED BY <1>2, <1>3, <1>4

(* Two finite sets that differ in c.                                       *)
LEMMA OneMore ==
  ASSUME NEW S, NEW T, NEW c, IsFiniteSet(S), T \ {c} = S \ {c}, c \notin S, c \in T
  PROVE  Cardinality(T) = Cardinality(S) + 1
<1>1. T = S \union {c}
  OBVIOUS
<1> QED BY <1>1, FS_AddElement

(* References are taken and given back.                                    *)
LEMMA RefFacts ==
  ASSUME NEW k \in Connections
  PROVE  /\ ref(k) \in Connections /\ unref(k) \in Connections
         /\ ref(k).refs = k.refs + 1 /\ unref(k).refs = k.refs - 1
         /\ ref(k).was_shutdown = k.was_shutdown /\ unref(k).was_shutdown = k.was_shutdown
         /\ ref(k).destroyed = k.destroyed /\ unref(k).destroyed = k.destroyed
BY DEF Connections, ref, unref

LEMMA CountFacts ==
  ASSUME NEW l \in Protocols
  PROVE  /\ counted(l) \in Protocols /\ uncounted(l) \in Protocols
         /\ counted(l).leaving = l.leaving /\ uncounted(l).leaving = l.leaving
<1>1. counted(l) \in Protocols /\ counted(l).leaving = l.leaving
  BY DEF Protocols, counted
<1>2. uncounted(l) \in Protocols /\ uncounted(l).leaving = l.leaving
  BY DEF Protocols, uncounted
<1> QED BY <1>1, <1>2

(* What a thread's step does to pc.                                        *)
LEMMA Moved ==
  ASSUME Types, NEW x \in Threads, NEW where \in Places, Goto(x, where)
  PROVE  /\ pc'[x] = where
         /\ \A y \in Threads \ {x} : pc'[y] = pc[y]
         /\ pc' \in [Threads -> Places]
BY DEF Types, Goto

(* A thread that does not start to cancel.                                 *)
LEMMA StaysClear ==
  ASSUME Types, OneCancels,
         \/ UNCHANGED pc
         \/ \E x \in Threads, where \in Places : where \notin Closed /\ Goto(x, where),
         conn.was_shutdown => conn'.was_shutdown, levin'.leaving = levin.leaving
  PROVE  OneCancels'
<1>1. CASE UNCHANGED pc
  BY <1>1 DEF OneCancels
<1>2. CASE \E x \in Threads, where \in Places : where \notin Closed /\ Goto(x, where)
  <2>1. PICK x \in Threads, where \in Places : where \notin Closed /\ Goto(x, where)
    BY <1>2
  <2>2. \A y \in Threads : pc'[y] = pc[y] \/ pc'[y] \notin Closed
    BY <2>1 DEF Goto, Types
  <2> QED BY <2>2 DEF OneCancels, Closed
<1> QED BY <1>1, <1>2
-----------------------------------------------------------------------------
(* A call gets hold of the connection, or is refused.                      *)
LEMMA FindAndLockStep ==
  ASSUME LevinInv, NEW c \in Calls, FindAndLock(c)
  PROVE  LevinInv'
<1> USE DEF LevinInv
<1>1. pc[Invoker(c)] = "start" /\ Outcome(c) /\ UNCHANGED <<net, timer, seen, rx, results>>
  BY DEF FindAndLock, Outcomes
<1>2. PICK where \in {"refused", "send"} : Goto(Invoker(c), where)
  BY DEF FindAndLock
<1>3. /\ pc'[Invoker(c)] = where
      /\ \A x \in Threads \ {Invoker(c)} : pc'[x] = pc[x]
      /\ pc' \in [Threads -> Places]
  <2>1. Types /\ Invoker(c) \in Threads /\ where \in Places
    BY ThreadFacts DEF Places, Before, Trying
  <2> QED BY <1>2, <2>1, Moved
<1>4. NetTypes'
  BY <1>1 DEF NetTypes
<1>5. /\ conn' \in Connections /\ conn'.was_shutdown = conn.was_shutdown
      /\ conn'.destroyed = conn.destroyed
      /\ levin' \in Protocols /\ levin'.leaving = levin.leaving
  BY RefFacts, CountFacts DEF FindAndLock, Types
<1>12. Types'
  BY <1>1, <1>3, <1>5 DEF Types
<1>6. OneCancels'
  <2>1. Invoker(c) \in Threads /\ where \in Places /\ where \notin Closed
    BY ThreadFacts DEF Places, Before, Trying, Closed
  <2> QED BY <1>2, <1>5, <2>1, StaysClear
<1>7. Outcome(c)'
  BY <1>1, <1>3, ThreadFacts DEF Outcome, Before, Trying, Closed, Delivering
<1>8. \A d \in Calls \ {c} : Untouched(d)
  BY <1>1, <1>3, ThreadFacts DEF Untouched, Delivering
<1>9. /\ Outcomes' /\ Callers' \ {c} = Callers \ {c}
      /\ Waiting' = Waiting /\ c \notin Callers
  <2>1. c \in Waiting' <=> c \in Waiting
    BY <1>1, <1>3, ThreadFacts DEF Waiting, Delivering
  <2>2. c \notin Callers
    BY <1>1 DEF Callers, Busy, Trying, Closed
  <2> QED BY <1>7, <1>8, <2>1, <2>2, OneCall
<1>10. CASE where = "refused"
  <2>1. c \notin Callers'
    BY <1>3, <1>10 DEF Callers, Busy, Trying, Closed
  <2>2. UNCHANGED conn
    BY <1>2, <1>3, <1>10, ThreadFacts DEF FindAndLock, Goto, Types
  <2>3. RefsCounted' /\ DestroyedIsFree'
    BY <1>9, <2>1, <2>2, SameHolders
  <2> QED BY <1>4, <1>12, <1>6, <1>9, <2>3
<1>11. CASE where = "send"
  <2>1. c \in Callers'
    BY <1>3, <1>11 DEF Callers, Busy, Trying
  <2>2. conn' = ref(conn) /\ ~conn.destroyed
    BY <1>2, <1>3, <1>11, ThreadFacts DEF FindAndLock, Goto, Types
  <2>3. RefsCounted'
    <3>1. Cardinality(Callers') = Cardinality(Callers) + 1
      BY <1>9, <2>1, OneMore, HoldersFinite
    <3>2. conn'.refs = conn.refs + 1
      BY <2>2, RefFacts DEF Types
    <3> QED BY <1>9, <3>1, <3>2, HoldersFinite DEF RefsCounted
  <2>4. DestroyedIsFree'
    BY <1>5, <2>2 DEF DestroyedIsFree
  <2> QED BY <1>4, <1>12, <1>6, <1>9, <2>3, <2>4
<1> QED BY <1>10, <1>11

(* A message is put into the send queue.                                   *)
LEMMA Pushed ==
  ASSUME NetTypes, NEW msg \in Calls \union {Note}, net' = pushed(net, msg)
  PROVE  NetTypes'
<1>1. /\ Append(net.que, msg) \in Seq(Calls \union {Note})
      /\ Append(net.que, msg) # <<>>
  <2>1. net.que \in Seq(Calls \union {Note})
    BY DEF NetTypes
  <2> QED BY <2>1, AppendProperties, EmptySeq
<1> QED BY Zenon, <1>1 DEF NetTypes, pushed

(* async_invoke sends its message, waits for room or gives up.             *)
LEMMA SendStep ==
  ASSUME LevinInv, NEW c \in Calls, Send(c) \/ SendWaits(c)
  PROVE  LevinInv'
<1> USE DEF LevinInv
<1>1. /\ pc[Invoker(c)] \in {"send", "full"}
      /\ UNCHANGED <<conn, timer, seen, rx, results>>
      /\ net' \in {net, pushed(net, c)}
  BY DEF Send, SendWaits
<1>2. PICK where \in {"fail", "add", "full", "shutdown"} : Goto(Invoker(c), where)
  BY DEF Send, SendWaits
<1>3. /\ Invoker(c) \in Threads /\ Invoker(c) \notin Timers
      /\ where \in Places /\ where \notin Closed /\ where \in Trying
      /\ pc[Invoker(c)] \in Trying
  BY <1>1, ThreadFacts DEF Places, Before, Trying, Closed
<1>4. NetTypes'
  BY <1>1, Pushed DEF NetTypes
<1>5. levin' \in Protocols /\ levin'.leaving = levin.leaving
  BY Zenon DEF Send, SendWaits, Types, Protocols
<1>6. Types'
  BY <1>1, <1>2, <1>3, <1>5, Moved DEF Types
<1>7. OneCancels'
  BY <1>1, <1>2, <1>3, <1>5, StaysClear
<1>8. Outcomes' /\ Callers' = Callers /\ Waiting' = Waiting
  BY <1>1, <1>2, <1>3, ThreadMoves DEF Delivering
<1>9. RefsCounted' /\ DestroyedIsFree'
  BY <1>1, <1>8, SameHolders
<1> QED BY <1>4, <1>6, <1>7, <1>8, <1>9

(* async_invoke adds its handler, or finds the connection closed.          *)
LEMMA AddHandlerStep ==
  ASSUME LevinInv, NEW c \in Calls, AddHandler(c)
  PROVE  LevinInv'
<1> USE DEF LevinInv
<1>1. /\ pc[Invoker(c)] = "add" /\ Outcome(c)
      /\ UNCHANGED <<net, seen, rx, results>>
      /\ Invoker(c) \in Threads /\ Invoker(c) \notin Timers
  BY ThreadFacts DEF AddHandler, Outcomes
<1>2. NetTypes'
  BY <1>1 DEF NetTypes
<1>3. Append(levin.handlers, c) \in Seq(Calls)
  BY AppendProperties DEF Types, Protocols
<1> DEFINE l1 == [levin EXCEPT !.handlers = Append(@, c)]
           l2 == [levin EXCEPT !.lock = None, !.handlers = Append(@, c)]
<1>4. l1 \in Protocols /\ l1.leaving = levin.leaving
  BY Zenon, <1>3 DEF Types, Protocols
<1>5. l2 \in Protocols /\ l2.leaving = levin.leaving
  BY Zenon, <1>3 DEF Types, Protocols
<1>6. levin' \in Protocols /\ levin'.leaving = levin.leaving
  <2>1. levin' \in {levin, l1, counted(l2)}
    BY DEF AddHandler
  <2> HIDE DEF l1, l2
  <2> QED BY <1>4, <1>5, <2>1, CountFacts DEF Types
<1>7. CASE Goto(Invoker(c), "fail") /\ UNCHANGED <<conn, timer>>
  <2>1. "fail" \in Places /\ "fail" \notin Closed /\ {"add", "fail"} \subseteq Trying
    BY DEF Places, Before, Trying, Closed
  <2>2. Types'
    BY <1>1, <1>6, <1>7, <2>1, Moved DEF Types
  <2>3. OneCancels'
    BY <1>1, <1>6, <1>7, <2>1, StaysClear
  <2>4. Outcomes' /\ Callers' = Callers /\ Waiting' = Waiting
    BY <1>1, <1>7, <2>1, ThreadMoves DEF Delivering
  <2>5. RefsCounted' /\ DestroyedIsFree'
    BY <1>7, <2>4, SameHolders
  <2> QED BY <1>2, <2>2, <2>3, <2>4, <2>5
<1>8. CASE /\ Goto(Invoker(c), "finish")
           /\ conn' = ref(conn)
           /\ timer' = [timer EXCEPT ![c] = "armed"]
  <2>1. "finish" \in Places /\ "finish" \notin Closed
    BY DEF Places, Before, Trying, Closed
  <2>2. /\ pc'[Invoker(c)] = "finish"
        /\ \A y \in Threads \ {Invoker(c)} : pc'[y] = pc[y]
        /\ pc' \in [Threads -> Places]
    BY <1>1, <1>8, <2>1, Moved
  <2>3. /\ conn' \in Connections /\ conn'.refs = conn.refs + 1
        /\ conn'.destroyed = conn.destroyed /\ conn'.was_shutdown = conn.was_shutdown
    BY <1>8, RefFacts DEF Types
  <2>4. /\ timer' \in [Calls -> {"none", "armed", "expired", "off"}]
        /\ timer'[c] = "armed" /\ \A d \in Calls \ {c} : timer'[d] = timer[d]
    BY <1>8 DEF Types
  <2>5. Types'
    BY <1>1, <1>6, <2>2, <2>3, <2>4 DEF Types
  <2>6. OneCancels'
    BY <1>1, <1>6, <1>8, <2>1, <2>3, StaysClear
  <2>7. timer[c] = "none" /\ pc[Timer(c)] = "idle" /\ ~Delivering(c)
    BY <1>1 DEF Outcome, Before, Trying
  <2>8. pc'[Timer(c)] = pc[Timer(c)] /\ \A d \in Calls : Delivering(d)' <=> Delivering(d)
    BY <1>1, <2>2, ThreadFacts DEF Delivering
  <2>9. Outcome(c)'
    BY <1>1, <2>2, <2>4, <2>7, <2>8 DEF Outcome, Before, Trying, Closed
  <2>10. \A d \in Calls \ {c} : Untouched(d)
    BY <1>1, <2>2, <2>4, <2>8, ThreadFacts DEF Untouched
  <2>11. c \in Callers /\ c \in Callers' /\ c \notin Waiting /\ c \in Waiting'
    BY <1>1, <2>2, <2>4, <2>7 DEF Callers, Waiting, Busy, Trying
  <2>12. Outcomes' /\ Callers' = Callers /\ Waiting' \ {c} = Waiting \ {c}
    BY <2>9, <2>10, <2>11, OneCall
  <2>13. Cardinality(Waiting') = Cardinality(Waiting) + 1
    BY <2>11, <2>12, OneMore, HoldersFinite
  <2>14. RefsCounted'
    BY <2>3, <2>12, <2>13, HoldersFinite DEF RefsCounted
  <2>15. DestroyedIsFree'
    BY <2>3, <2>11 DEF DestroyedIsFree
  <2> QED BY <1>2, <2>5, <2>6, <2>12, <2>14, <2>15
<1> QED BY <1>7, <1>8 DEF AddHandler

(* A call loses one of its two references.                                 *)
LEMMA OneLess ==
  ASSUME RefsCounted, DestroyedIsFree, NEW c \in Calls,
         conn'.refs = conn.refs - 1, conn'.destroyed = conn.destroyed,
         \/ c \in Callers /\ c \notin Callers' /\ (c \in Waiting' <=> c \in Waiting)
         \/ c \in Waiting /\ c \notin Waiting' /\ (c \in Callers' <=> c \in Callers),
         Callers' \ {c} = Callers \ {c}, Waiting' \ {c} = Waiting \ {c}
  PROVE  RefsCounted' /\ DestroyedIsFree'
<1>1. DestroyedIsFree'
  BY DEF DestroyedIsFree
<1>2. IsFiniteSet(Callers') /\ IsFiniteSet(Waiting')
  <2>1. Callers' \subseteq Calls /\ Waiting' \subseteq Calls
    BY DEF Callers, Waiting
  <2> QED BY <2>1, CallsAssumption, FS_Subset
<1>3. Cardinality(Callers') \in Nat /\ Cardinality(Waiting') \in Nat
  BY <1>2, FS_CardinalityType
<1>4. CASE c \in Callers /\ c \notin Callers' /\ (c \in Waiting' <=> c \in Waiting)
  <2>1. Cardinality(Callers) = Cardinality(Callers') + 1
    BY <1>2, <1>4, OneMore
  <2>2. Waiting' = Waiting
    BY <1>4
  <2> QED BY <1>1, <1>3, <2>1, <2>2, HoldersFinite DEF RefsCounted
<1>5. CASE c \in Waiting /\ c \notin Waiting' /\ (c \in Callers' <=> c \in Callers)
  <2>1. Cardinality(Waiting) = Cardinality(Waiting') + 1
    BY <1>2, <1>5, OneMore
  <2>2. Callers' = Callers
    BY <1>5
  <2> QED BY <1>1, <1>3, <2>1, <2>2, HoldersFinite DEF RefsCounted
<1> QED BY <1>4, <1>5

(* A call is told something.                                               *)
LEMMA Told ==
  ASSUME Types, NEW c \in Calls, NEW code \in Codes, results[c] = <<>>, Callback(c, code)
  PROVE  /\ results' \in [Calls -> Seq(Codes)]
         /\ results'[c] = <<code>> /\ Len(results'[c]) = 1
         /\ \A d \in Calls \ {c} : results'[d] = results[d]
<1>1. results' = [results EXCEPT ![c] = Append(<<>>, code)]
  BY DEF Callback, Types
<1>2. results'[c] = Append(<<>>, code)
  BY <1>1 DEF Types
<1> QED BY <1>1, <1>2, FirstOutcome DEF Types

(* async_invoke returns.                                                   *)
LEMMA InvokeReturns ==
  ASSUME LevinInv, NEW c \in Calls, Fail(c) \/ Finish(c)
  PROVE  LevinInv'
<1> USE DEF LevinInv
<1>1. /\ pc[Invoker(c)] \in {"fail", "finish"} /\ Outcome(c)
      /\ UNCHANGED <<net, timer, seen, rx>> /\ conn' = unref(conn)
      /\ Invoker(c) \in Threads
  BY ThreadFacts DEF Fail, Finish, Outcomes
<1>2. NetTypes'
  BY <1>1 DEF NetTypes
<1> DEFINE l == [levin EXCEPT !.lock = None]
<1>3. levin' \in Protocols /\ levin'.leaving = levin.leaving
  <2>1. l \in Protocols /\ l.leaving = levin.leaving
    BY Zenon DEF Types, Protocols
  <2>2. levin' \in {uncounted(levin), uncounted(l)}
    BY DEF Fail, Finish
  <2> HIDE DEF l
  <2> QED BY <2>1, <2>2, CountFacts DEF Types
<1>4. /\ conn' \in Connections /\ conn'.refs = conn.refs - 1
      /\ conn'.destroyed = conn.destroyed /\ conn'.was_shutdown = conn.was_shutdown
  BY <1>1, RefFacts DEF Types
<1>5. PICK where \in {"false", "true"} :
        /\ Goto(Invoker(c), where)
        /\ \/ where = "false" /\ pc[Invoker(c)] = "fail" /\ Callback(c, "error")
           \/ where = "true" /\ pc[Invoker(c)] = "finish" /\ UNCHANGED results
  BY DEF Fail, Finish
<1>6. where \in Places /\ where \notin Closed
  BY DEF Places, Closed
<1>7. /\ pc'[Invoker(c)] = where
      /\ \A y \in Threads \ {Invoker(c)} : pc'[y] = pc[y]
      /\ pc' \in [Threads -> Places]
  BY <1>1, <1>5, <1>6, Moved
<1>8. pc'[Timer(c)] = pc[Timer(c)] /\ \A d \in Calls : Delivering(d)' <=> Delivering(d)
  BY <1>1, <1>7, ThreadFacts DEF Delivering
<1>9. /\ results' \in [Calls -> Seq(Codes)] /\ \A d \in Calls \ {c} : results'[d] = results[d]
      /\ Outcome(c)'
  <2>1. CASE where = "false"
    <3>1. results[c] = <<>> /\ timer[c] = "none" /\ pc[Timer(c)] = "idle" /\ ~Delivering(c)
      BY <1>1, <1>5, <2>1 DEF Outcome, Before, Trying
    <3>2. /\ results' \in [Calls -> Seq(Codes)] /\ results'[c] = <<"error">>
          /\ \A d \in Calls \ {c} : results'[d] = results[d]
      BY <1>5, <2>1, <3>1, Told DEF Codes
    <3>3. Outcome(c)'
      BY Zenon, <1>1, <1>7, <1>8, <2>1, <3>1, <3>2 DEF Outcome, Before, Trying, Closed
    <3> QED BY <3>2, <3>3
  <2>2. CASE where = "true"
    <3>1. UNCHANGED results /\ pc[Invoker(c)] = "finish"
      BY <1>5, <2>2
    <3>2. Outcome(c)'
      BY Zenon, <1>1, <1>7, <1>8, <2>2, <3>1 DEF Outcome, Before, Trying, Closed
    <3> QED BY <3>1, <3>2 DEF Types
  <2> QED BY <2>1, <2>2
<1>10. Types'
  BY <1>1, <1>3, <1>4, <1>7, <1>9 DEF Types
<1>11. OneCancels'
  BY Zenon, <1>1, <1>3, <1>4, <1>5, <1>6, StaysClear
<1>12. \A d \in Calls \ {c} : Untouched(d)
  BY Zenon, <1>1, <1>7, <1>8, <1>9, ThreadFacts DEF Untouched
<1>13. c \in Callers /\ c \notin Callers' /\ (c \in Waiting' <=> c \in Waiting)
  BY <1>1, <1>7, <1>8 DEF Callers, Waiting, Busy, Trying, Closed
<1>14. Outcomes' /\ RefsCounted' /\ DestroyedIsFree'
  BY <1>4, <1>9, <1>12, <1>13, OneCall, OneLess
<1> QED BY <1>2, <1>10, <1>11, <1>14
-----------------------------------------------------------------------------
(* A step of neither a call nor a timer that goes on with `where'.         *)
LEMMA OutsideStep ==
  ASSUME LevinInv, NetTypes', UNCHANGED <<timer, results>>,
         rx' \in {None} \union [call : Calls \union {None}, reply : Calls],
         \A c \in Calls : Delivering(c)' <=> Delivering(c),
         conn' \in Connections, levin' \in Protocols, levin'.leaving = levin.leaving,
         conn'.refs = conn.refs, conn'.destroyed = conn.destroyed,
         conn.was_shutdown => conn'.was_shutdown,
         \/ UNCHANGED pc
         \/ \E x \in {Node, Strand}, where \in Places : where \notin Closed /\ Goto(x, where)
  PROVE  LevinInv'
<1> USE DEF LevinInv
<1>1. CASE UNCHANGED pc
  <2>1. Types' /\ Callers' = Callers /\ Waiting' = Waiting
    BY <1>1 DEF Types, Callers, Waiting
  <2>2. Outcomes'
    BY <1>1 DEF Outcomes, Outcome
  <2>3. OneCancels'
    BY Zenon, <1>1, StaysClear
  <2> QED BY <2>1, <2>2, <2>3, SameHolders
<1>2. CASE \E x \in {Node, Strand}, where \in Places : where \notin Closed /\ Goto(x, where)
  <2>1. PICK x \in {Node, Strand}, where \in Places : where \notin Closed /\ Goto(x, where)
    BY Zenon, <1>2
  <2>2. x \in Threads /\ x \notin Invokers /\ x \notin Timers
    BY ThreadFacts
  <2>3. Types'
    BY Zenon, <2>1, <2>2, Moved DEF Types
  <2>4. OneCancels'
    BY <2>1, <2>2, StaysClear
  <2>5. Outcomes' /\ Callers' = Callers /\ Waiting' = Waiting
    BY Zenon, <2>1, <2>2, ThreadMoves
  <2> QED BY Zenon, <2>3, <2>4, <2>5, SameHolders
<1> QED BY <1>1, <1>2

(* Messages without a reply, and the node's wish to close.                 *)
LEMMA NodeStep ==
  ASSUME LevinInv, Notify \/ NodeClose(TRUE) \/ NodeClose(FALSE)
  PROVE  LevinInv'
<1>1. CASE Notify
  <2>1. NetTypes' /\ UNCHANGED <<conn, levin, timer, pc, rx, results>>
    BY <1>1, Pushed DEF Notify, LevinInv
  <2> QED BY Zenon, <2>1, OutsideStep DEF LevinInv, Types, Delivering
<1>2. CASE NodeClose(TRUE) \/ NodeClose(FALSE)
  <2>1. UNCHANGED <<net, conn, timer, rx, results>> /\ Goto(Node, "close")
    BY <1>2 DEF NodeClose
  <2>2. levin' \in Protocols /\ levin'.leaving = levin.leaving
    BY Zenon, <1>2 DEF NodeClose, LevinInv, Types, Protocols
  <2>3. "close" \in Places /\ "close" \notin Closed
    BY DEF Places, Closed
  <2>4. NetTypes'
    BY <2>1 DEF LevinInv, NetTypes
  <2> QED BY Zenon, <2>1, <2>2, <2>3, <2>4, OutsideStep DEF LevinInv, Types, Delivering
<1> QED BY Zenon, <1>1, <1>2

(* Where a call's thread can be while it shuts the connection down.        *)
LEMMA InvokerPlace ==
  ASSUME Outcomes, NEW x \in Invokers
  PROVE  pc[x] \notin {"close", "want"}
<1>1. PICK c \in Calls : x = Invoker(c)
  BY DEF Invokers
<1> QED BY Zenon, <1>1 DEF Outcomes, Outcome, Before, Trying, Closed

(* close.                                                                  *)
LEMMA CloseStep ==
  ASSUME LevinInv, NEW x \in Closers, Close(x) \/ WantClose(x)
  PROVE  LevinInv'
<1> USE DEF LevinInv
<1>1. /\ pc[x] \in {"close", "want"} /\ UNCHANGED <<net, levin, timer, rx, results>>
      /\ x \in Threads
  BY ThreadFacts DEF Close, WantClose
<1>2. PICK where \in {"want", "shutdown", Done(x)} : Goto(x, where)
  BY DEF Close, WantClose
<1>3. where \in Places /\ where \notin Closed
  BY <1>1, DoneFacts DEF Places, Before, Trying, Closed
<1>4. x \notin Invokers /\ (x \in Timers => pc[x] \in Ending /\ where \in Ending)
  BY <1>1, DoneFacts, InvokerPlace DEF Ending
<1>5. /\ conn' \in Connections /\ conn'.refs = conn.refs
      /\ conn'.destroyed = conn.destroyed /\ conn'.was_shutdown = conn.was_shutdown
  <2>1. conn' = conn \/ conn' = [conn EXCEPT !.want_close = TRUE]
    BY DEF Close, WantClose
  <2>2. conn \in Connections
    BY DEF Types
  <2> HIDE DEF LevinInv
  <2> QED BY Zenon, <2>1, <2>2 DEF Connections
<1>6. NetTypes'
  BY <1>1 DEF NetTypes
<1>7. Types'
  BY <1>1, <1>2, <1>3, <1>5, Moved DEF Types
<1>8. OneCancels'
  BY <1>1, <1>2, <1>3, <1>5, StaysClear
<1>9. Outcomes' /\ Callers' = Callers /\ Waiting' = Waiting
  BY <1>1, <1>2, <1>4, ThreadMoves DEF Delivering
<1> QED BY Zenon, <1>5, <1>6, <1>7, <1>8, <1>9, SameHolders

(* shutdown and release_protocol: no thread has found the connection open  *)
(* before, so no thread cancels yet.                                       *)
LEMMA ShutdownStep ==
  ASSUME LevinInv, NEW x \in Threads, Shutdown(x) \/ Release(x)
  PROVE  LevinInv'
<1> USE DEF LevinInv
<1>1. pc[x] \in {"shutdown", "release"} /\ UNCHANGED <<timer, rx, results>>
  BY DEF Shutdown, Release
<1>2. PICK where \in {"release", "cancel", Done(x)} : Goto(x, where)
  BY DEF Shutdown, Release
<1>3. where \in Places
  BY <1>1, DoneFacts DEF Places, Before, Trying, Closed
<1>4. /\ x \in Invokers => pc[x] \in Trying /\ where \in Trying
      /\ x \in Timers => pc[x] \in Ending /\ where \in Ending
  BY <1>1, DoneFacts DEF Ending, Trying, Closed
<1>5. /\ conn' \in Connections /\ conn'.refs = conn.refs
      /\ conn'.destroyed = conn.destroyed
      /\ conn.was_shutdown => conn'.was_shutdown
  <2> DEFINE k == [conn EXCEPT !.was_shutdown = TRUE]
  <2>1. /\ k \in Connections /\ k.refs = conn.refs /\ k.destroyed = conn.destroyed
        /\ k.was_shutdown
    BY Zenon DEF Types, Connections
  <2>2. conn' \in {conn, k}
    BY DEF Shutdown, Release
  <2> HIDE DEF k
  <2> QED BY <2>1, <2>2 DEF Types
<1>6. levin' \in Protocols
  <2>1. <<>> \in Seq(Calls)
    BY EmptySeq
  <2>2. [levin EXCEPT !.released = TRUE, !.leaving = levin.handlers,
                      !.handlers = <<>>] \in Protocols
    BY Zenon, <2>1 DEF Types, Protocols
  <2> QED BY <2>2 DEF Shutdown, Release, Types
<1>7. NetTypes'
  BY Zenon, EmptySeq DEF Shutdown, Release, NetTypes
<1>8. /\ pc'[x] = where /\ \A y \in Threads \ {x} : pc'[y] = pc[y]
      /\ pc' \in [Threads -> Places]
  BY <1>2, <1>3, Moved
<1>9. Types'
  BY <1>1, <1>5, <1>6, <1>8 DEF Types
<1>10. OneCancels'
  <2>1. CASE where = Done(x)
    <3>1. where \notin Closed
      BY <2>1, DoneFacts DEF Closed
    <3>2. \A y \in Threads : pc'[y] \in Closed => pc'[y] = pc[y] /\ y # x
      BY <1>8, <3>1
    <3>3. \A y \in Threads : pc'[y] \in Closed => levin'.leaving = levin.leaving
      <4>1. CASE Shutdown(x)
        BY <4>1 DEF Shutdown
      <4>2. CASE Release(x)
        BY <4>2, <3>2 DEF Release, OneCancels, Closed
      <4> QED BY <4>1, <4>2
    <3> QED BY <1>5, <3>2, <3>3 DEF OneCancels, Closed
  <2>2. CASE Shutdown(x) /\ where = "release"
    <3>1. ~conn.was_shutdown \/ Goto(x, Done(x))
      BY <2>2 DEF Shutdown
    <3>2. Done(x) # "release"
      BY DoneFacts
    <3>3. ~conn.was_shutdown
      BY <1>8, <2>2, <3>1, <3>2 DEF Goto, Types
    <3>4. conn'.was_shutdown
      BY <2>2, <3>3 DEF Shutdown, Types, Connections
    <3>5. \A y \in Threads \ {x} : pc'[y] \notin Closed
      BY <1>8, <3>3 DEF OneCancels
    <3> QED BY <1>8, <2>2, <3>4, <3>5 DEF OneCancels, Closed
  <2>3. CASE Release(x) /\ where = "cancel"
    <3>1. pc[x] = "release" /\ conn'.was_shutdown
      BY <2>3 DEF Release, OneCancels, Closed
    <3>2. \A y \in Threads \ {x} : pc'[y] \notin Closed
      BY <1>8, <3>1 DEF OneCancels, Closed
    <3>3. levin.handlers # <<>> \/ Goto(x, Done(x))
      BY <2>3 DEF Release
    <3>4. levin.handlers # <<>>
      BY <1>8, <2>3, <3>3, DoneFacts DEF Goto, Types
    <3>5. levin'.leaving # <<>>
      BY <2>3, <3>4 DEF Release, Types, Protocols
    <3> QED BY <1>8, <3>1, <3>2, <3>5 DEF OneCancels, Closed
  <2>4. where = Done(x) \/ (Shutdown(x) /\ where = "release") \/ (Release(x) /\ where = "cancel")
    BY <1>2, <1>8, DoneFacts DEF Shutdown, Release, Goto, Types
  <2> QED BY <2>1, <2>2, <2>3, <2>4
<1>11. Outcomes' /\ Callers' = Callers /\ Waiting' = Waiting
  BY <1>1, <1>2, <1>4, ThreadMoves DEF Delivering
<1> QED BY Zenon, <1>5, <1>7, <1>9, <1>10, <1>11, SameHolders

(* release_protocol cancels a handler: one that waits is told, one whose   *)
(* timer is stopped or has expired is told by somebody else.               *)
LEMMA CancelStep ==
  ASSUME LevinInv, NEW x \in Threads, CancelOne(x)
  PROVE  LevinInv'
<1> USE DEF LevinInv
<1> DEFINE l == [levin EXCEPT !.leaving = Tail(@)]
<1>1. pc[x] = "cancel" /\ UNCHANGED <<net, seen, rx>> /\ conn.was_shutdown
  BY DEF CancelOne, OneCancels, Closed
<1>2. PICK c \in Calls : c = Head(levin.leaving) /\ Tail(levin.leaving) \in Seq(Calls)
  <2>1. levin.leaving \in Seq(Calls) /\ levin.leaving # <<>>
    BY <1>1 DEF OneCancels, Types, Protocols
  <2> QED BY <2>1, HeadTailProperties
<1>3. l \in Protocols /\ l.leaving = Tail(levin.leaving)
  BY Zenon, <1>2 DEF Types, Protocols
<1>4. /\ Goto(x, IF l.leaving = <<>> THEN Done(x) ELSE "cancel")
      /\ \/ /\ cancels(c)
            /\ timer' = [timer EXCEPT ![c] = "off"]
            /\ Callback(c, "destroyed")
            /\ levin' = uncounted(l) /\ conn' = unref(conn)
         \/ levin' = l /\ UNCHANGED <<timer, results, conn>>
  BY <1>2 DEF CancelOne
<1> HIDE DEF l
<1>5. levin' \in Protocols /\ levin'.leaving = l.leaving
  BY <1>3, <1>4, CountFacts
<1>6. PICK where : /\ Goto(x, where)
                   /\ \/ l.leaving = <<>> /\ where = Done(x)
                      \/ l.leaving # <<>> /\ where = "cancel"
  BY <1>4
<1>7. /\ where \in Places
      /\ x \in Invokers => pc[x] \in Trying /\ where \in Trying
      /\ x \in Timers => pc[x] \in Ending /\ where \in Ending
  BY <1>1, <1>6, DoneFacts DEF Places, Before, Ending, Trying, Closed
<1>8. /\ pc'[x] = where /\ \A y \in Threads \ {x} : pc'[y] = pc[y]
      /\ pc' \in [Threads -> Places]
  BY <1>6, <1>7, Moved
<1>9. conn'.was_shutdown => OneCancels'
  <2>1. \A y \in Threads \ {x} : pc'[y] \notin Closed
    BY <1>1, <1>8 DEF OneCancels, Closed
  <2>2. pc'[x] = "cancel" => levin'.leaving # <<>>
    BY <1>5, <1>6, <1>8, DoneFacts
  <2> QED BY <2>1, <2>2 DEF OneCancels, Closed
<1>10. NetTypes'
  BY <1>1 DEF NetTypes
<1>11. CASE UNCHANGED <<timer, results, conn>>
  <2>1. Types'
    BY <1>1, <1>5, <1>8, <1>11 DEF Types
  <2>2. Outcomes' /\ Callers' = Callers /\ Waiting' = Waiting
    BY <1>1, <1>6, <1>7, <1>11, ThreadMoves DEF Delivering
  <2> QED BY <1>1, <1>9, <1>10, <1>11, <2>1, <2>2, SameHolders
<1>12. CASE /\ cancels(c) /\ timer' = [timer EXCEPT ![c] = "off"]
            /\ Callback(c, "destroyed") /\ conn' = unref(conn)
  <2>1. /\ conn' \in Connections /\ conn'.refs = conn.refs - 1
        /\ conn'.destroyed = conn.destroyed /\ conn'.was_shutdown = conn.was_shutdown
    BY Zenon, <1>12, RefFacts DEF Types
  <2>2. Outcome(c) /\ timer[c] = "armed"
    BY <1>2, <1>12 DEF Outcomes, cancels
  <2>3. /\ results[c] = <<>> /\ pc[Timer(c)] = "idle" /\ ~Delivering(c)
        /\ pc[Invoker(c)] \in {"finish", "true"}
    BY Zenon, <2>2 DEF Outcome
  <2>4. /\ results' \in [Calls -> Seq(Codes)] /\ Len(results'[c]) = 1
        /\ \A d \in Calls \ {c} : results'[d] = results[d]
    BY Zenon, <1>2, <1>12, <2>3, Told DEF Codes
  <2>5. /\ timer' \in [Calls -> {"none", "armed", "expired", "off"}]
        /\ timer'[c] = "off" /\ \A d \in Calls \ {c} : timer'[d] = timer[d]
    BY <1>2, <1>12 DEF Types
  <2>6. Types'
    BY Zenon, <1>1, <1>5, <1>8, <2>1, <2>4, <2>5 DEF Types
  <2>7. \A d \in Calls : Delivering(d)' <=> Delivering(d)
    BY <1>1 DEF Delivering
  <2>8. x # Invoker(c) /\ x # Timer(c)
    BY <1>1, <2>3
  <2>9. /\ pc'[Invoker(c)] = pc[Invoker(c)] /\ pc'[Timer(c)] = pc[Timer(c)]
    BY Zenon, <1>2, <1>8, <2>8, ThreadFacts
  <2>10. Outcome(c)'
    BY Zenon, <2>3, <2>4, <2>5, <2>7, <2>9, <1>2 DEF Outcome, Before, Trying, Closed
  <2>11. \A d \in Calls : /\ pc'[Invoker(d)] \in Busy <=> pc[Invoker(d)] \in Busy
                          /\ d # c => Outcome(d)' /\ (d \in Waiting' <=> d \in Waiting)
    <3> SUFFICES ASSUME NEW d \in Calls
                 PROVE  /\ pc'[Invoker(d)] \in Busy <=> pc[Invoker(d)] \in Busy
                        /\ d # c => Outcome(d)' /\ (d \in Waiting' <=> d \in Waiting)
      OBVIOUS
    <3>1. Outcome(d) /\ (Delivering(d)' <=> Delivering(d))
      BY <2>7 DEF Outcomes
    <3>2. CASE x = Invoker(d)
      <4>1. /\ pc'[Invoker(d)] \in Trying /\ pc[Invoker(d)] \in Trying
            /\ pc'[Timer(d)] = pc[Timer(d)]
        BY Zenon, <1>7, <1>8, <3>2, ThreadFacts
      <4> QED BY Zenon, <2>4, <2>5, <3>1, <4>1
              DEF Outcome, Waiting, Trying, Before, Busy, Closed
    <3>3. CASE x = Timer(d)
      <4>1. /\ pc'[Timer(d)] \in Ending /\ pc[Timer(d)] \in Ending
            /\ pc'[Invoker(d)] = pc[Invoker(d)]
        BY Zenon, <1>7, <1>8, <3>3, ThreadFacts
      <4> QED BY Zenon, <2>4, <2>5, <3>1, <4>1 DEF Outcome, Waiting, Ending, Closed
    <3>4. CASE x # Invoker(d) /\ x # Timer(d)
      <4>1. pc'[Timer(d)] = pc[Timer(d)] /\ pc'[Invoker(d)] = pc[Invoker(d)]
        BY Zenon, <1>8, <3>4, ThreadFacts
      <4> QED BY Zenon, <2>4, <2>5, <3>1, <4>1 DEF Outcome, Waiting
    <3> QED BY Zenon, <3>2, <3>3, <3>4
  <2>12. c \in Waiting /\ c \notin Waiting'
    BY Zenon, <1>2, <2>2, <2>3, <2>5, <2>7, <2>9 DEF Waiting
  <2>13. Outcomes' /\ Callers' = Callers /\ Waiting' \ {c} = Waiting \ {c}
    <3>1. Outcomes'
      BY <2>10, <2>11 DEF Outcomes
    <3>2. Callers' = Callers
      BY <2>11 DEF Callers
    <3>3. Waiting' \subseteq Calls /\ Waiting \subseteq Calls
      BY DEF Waiting
    <3> QED BY <2>11, <3>1, <3>2, <3>3
  <2>14. RefsCounted' /\ DestroyedIsFree'
    BY <1>2, <2>1, <2>12, <2>13, OneLess
  <2> QED BY Zenon, <1>1, <1>9, <1>10, <2>1, <2>6, <2>13, <2>14
<1> QED BY <1>4, <1>11, <1>12

(* The timer of a call expires, calls back and gives its reference back.   *)
LEMMA TimerStep ==
  ASSUME LevinInv, NEW c \in Calls, Expire(c) \/ TimerRuns(c)
  PROVE  LevinInv'
<1> USE DEF LevinInv
<1>1. /\ UNCHANGED <<net, rx>> /\ Outcome(c)
      /\ Timer(c) \in Threads /\ Invoker(c) \in Threads /\ Invoker(c) # Timer(c)
  BY ThreadFacts DEF Expire, TimerRuns, TimerCallback, TimerFinish, Outcomes
<1>2. PICK where \in {"call", "close", "end"} : Goto(Timer(c), where)
  BY DEF Expire, TimerRuns, TimerCallback, TimerFinish
<1>3. where \in Places /\ where \notin Closed
  BY DEF Places, Before, Closed
<1>4. /\ pc'[Timer(c)] = where /\ \A y \in Threads \ {Timer(c)} : pc'[y] = pc[y]
      /\ pc' \in [Threads -> Places]
  BY <1>1, <1>2, <1>3, Moved
<1>5. NetTypes' /\ \A d \in Calls : Delivering(d)' <=> Delivering(d)
  BY <1>1 DEF NetTypes, Delivering
<1>6. /\ conn' \in Connections /\ conn'.destroyed = conn.destroyed
      /\ conn'.was_shutdown = conn.was_shutdown
  BY RefFacts DEF Expire, TimerRuns, TimerCallback, TimerFinish, Types
<1>7. levin' \in Protocols /\ levin'.leaving = levin.leaving
  <2>1. CASE Expire(c)
    BY Zenon, <2>1 DEF Expire, Types
  <2>2. CASE TimerCallback(c)
    BY Zenon, <2>2 DEF TimerCallback, Types, Protocols
  <2>3. CASE TimerFinish(c)
    BY Zenon, <2>3, CountFacts DEF TimerFinish, Types
  <2> QED BY <2>1, <2>2, <2>3 DEF TimerRuns
<1>8. OneCancels'
  BY Zenon, <1>1, <1>2, <1>3, <1>6, <1>7, StaysClear
<1>9. pc'[Invoker(c)] = pc[Invoker(c)]
  BY <1>1, <1>4
<1>10. ASSUME /\ timer' \in [Calls -> {"none", "armed", "expired", "off"}]
              /\ results' \in [Calls -> Seq(Codes)]
              /\ \A d \in Calls \ {c} : timer'[d] = timer[d] /\ results'[d] = results[d]
              /\ Outcome(c)'
       PROVE  /\ Types' /\ Outcomes' /\ Callers' = Callers
              /\ Waiting' \ {c} = Waiting \ {c}
  <2>1. Types'
    BY Zenon, <1>1, <1>4, <1>6, <1>7, <1>10 DEF Types
  <2>2. \A d \in Calls \ {c} : Untouched(d)
    BY Zenon, <1>4, <1>5, <1>10, ThreadFacts DEF Untouched
  <2>3. c \in Callers' <=> c \in Callers
    BY <1>9 DEF Callers
  <2>4. /\ Outcomes' /\ Callers' \ {c} = Callers \ {c}
        /\ Waiting' \ {c} = Waiting \ {c}
    BY Zenon, <1>10, <2>2, OneCall
  <2>5. Callers' = Callers
    BY <2>3, <2>4
  <2> QED BY <2>1, <2>4, <2>5
<1>11. CASE Expire(c)
  <2>1. /\ timer[c] = "armed" /\ UNCHANGED <<results, conn>> /\ Goto(Timer(c), "call")
        /\ timer' = [timer EXCEPT ![c] = "expired"]
    BY <1>11 DEF Expire
  <2>2. pc'[Timer(c)] = "call"
    BY Zenon, <1>1, <2>1 DEF Goto, Types
  <2>3. /\ timer' \in [Calls -> {"none", "armed", "expired", "off"}]
        /\ timer'[c] = "expired" /\ \A d \in Calls \ {c} : timer'[d] = timer[d]
    BY Zenon, <2>1 DEF Types
  <2>4. Outcome(c)'
    BY Zenon, <1>1, <1>5, <1>9, <2>1, <2>2, <2>3 DEF Outcome
  <2>5. Types' /\ Outcomes' /\ Callers' = Callers /\ Waiting' \ {c} = Waiting \ {c}
    BY Zenon, <1>10, <2>1, <2>3, <2>4 DEF Types
  <2>6. c \in Waiting /\ c \in Waiting'
    BY Zenon, <2>1, <2>2, <2>3 DEF Waiting
  <2> QED BY <1>5, <1>8, <2>1, <2>5, <2>6, SameHolders
<1>12. CASE TimerCallback(c)
  <2>1. /\ pc[Timer(c)] = "call" /\ UNCHANGED <<timer, conn>> /\ Goto(Timer(c), "close")
        /\ Callback(c, "timeout")
    BY <1>12 DEF TimerCallback
  <2>2. pc'[Timer(c)] = "close"
    BY Zenon, <1>1, <2>1 DEF Goto, Types
  <2>3. timer[c] = "expired" /\ results[c] = <<>> /\ ~Delivering(c)
    BY Zenon, <1>1, <2>1 DEF Outcome
  <2>4. /\ results' \in [Calls -> Seq(Codes)] /\ Len(results'[c]) = 1
        /\ \A d \in Calls \ {c} : results'[d] = results[d]
    BY Zenon, <2>1, <2>3, Told DEF Codes
  <2>5. Outcome(c)'
    BY Zenon, <1>1, <1>5, <1>9, <2>1, <2>2, <2>3, <2>4 DEF Outcome
  <2>6. Types' /\ Outcomes' /\ Callers' = Callers /\ Waiting' \ {c} = Waiting \ {c}
    BY Zenon, <1>10, <2>1, <2>4, <2>5 DEF Types
  <2>7. c \in Waiting /\ c \in Waiting'
    BY Zenon, <2>1, <2>2, <2>3 DEF Waiting
  <2> QED BY <1>5, <1>8, <2>1, <2>6, <2>7, SameHolders
<1>13. CASE TimerFinish(c)
  <2>1. /\ pc[Timer(c)] = "finish" /\ UNCHANGED <<timer, results>> /\ Goto(Timer(c), "end")
        /\ conn' = unref(conn)
    BY <1>13 DEF TimerFinish
  <2>2. pc'[Timer(c)] = "end"
    BY Zenon, <1>1, <2>1 DEF Goto, Types
  <2>3. timer[c] = "expired" /\ ~Delivering(c)
    BY Zenon, <1>1, <2>1 DEF Outcome
  <2>4. Outcome(c)'
    BY Zenon, <1>1, <1>5, <1>9, <2>1, <2>2, <2>3 DEF Outcome
  <2>5. Types' /\ Outcomes' /\ Callers' = Callers /\ Waiting' \ {c} = Waiting \ {c}
    BY Zenon, <1>10, <2>1, <2>4 DEF Types
  <2>6. c \in Waiting /\ c \notin Waiting'
    BY Zenon, <1>5, <2>1, <2>2, <2>3 DEF Waiting
  <2>7. conn'.refs = conn.refs - 1
    BY Zenon, <2>1, RefFacts DEF Types
  <2> QED BY Zenon, <1>5, <1>6, <1>8, <2>5, <2>6, <2>7, OneLess
<1> QED BY <1>11, <1>12, <1>13 DEF TimerRuns
=============================================================================
