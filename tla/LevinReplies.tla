---------------------------- MODULE LevinReplies ----------------------------
(***************************************************************************)
(* A response names no request.  For any number of calls, the requests and *)
(* the replies on their way are in line with the handlers that wait for    *)
(* them, until nothing is handed over any more: a call is given the reply  *)
(* to its own request.                                                     *)
(***************************************************************************)
EXTENDS LevinProofs

(* Which thread holds m_invoke_response_handlers_lock.                     *)
Locking == {"full", "add", "shutdown", "fail"} \union Closed
LockHeld == \A c \in Calls : levin.lock = c <=> pc[Invoker(c)] \in Locking

(* A call whose handler is or was in the list does not send again.         *)
Added == {"fail", "finish", "true", "false"}
HandlersAdded ==
  \A i \in 1..Len(levin.handlers) : pc[Invoker(levin.handlers[i])] \in Added

(* The handlers, and the one that is about to be added.                    *)
Sent ==
  IF levin.lock # None /\ pc[Invoker(levin.lock)] = "add"
  THEN Append(levin.handlers, levin.lock) ELSE levin.handlers

Blocked == rx # None /\ rx.call = None
Front == IF Blocked THEN <<rx.reply>> ELSE <<>>

InStep == ~conn.was_shutdown /\ InLine(Sent, Front, net.inbox, net.wire, net.que)

(* No reply is handed over any more, but for one that is already here.     *)
OutOfStep ==
  \/ levin.handlers # <<>> /\ timer[levin.handlers[1]] # "armed"
  \/ ~conn.reading /\ rx = None
  \/ /\ conn.was_shutdown
     /\ Blocked => levin.released \/ (Sent # <<>> /\ Sent[1] = rx.reply)

Orderly ==
  /\ LockHeld /\ HandlersAdded
  /\ levin.released => conn.was_shutdown /\ levin.handlers = <<>>
  /\ InStep \/ OutOfStep

(* The reply that is being handed over is the call's own.                  *)
HandsOwn == rx # None /\ rx.call # None => rx.call = rx.reply
-----------------------------------------------------------------------------
(* The lists that are compared are lists of calls.                         *)
LEMMA LineTypes ==
  ASSUME LevinInv
  PROVE  /\ levin.handlers \in Seq(Calls) /\ Sent \in Seq(Calls) /\ Front \in Seq(Calls)
         /\ net.inbox \in Seq(Calls) /\ net.wire \in Seq(Calls)
         /\ net.que \in Seq(Calls \union {Note})
         /\ levin.lock \in Calls \union {None}
         /\ \A i \in 1..Len(levin.handlers) : levin.handlers[i] \in Calls
         /\ Len(levin.handlers) \in Nat
         /\ levin.handlers # <<>> => 1 \in 1..Len(levin.handlers) /\ levin.handlers[1] \in Calls
<1>1. /\ levin.handlers \in Seq(Calls) /\ levin.lock \in Calls \union {None}
      /\ net.inbox \in Seq(Calls) /\ net.wire \in Seq(Calls)
      /\ net.que \in Seq(Calls \union {Note})
  BY DEF LevinInv, Types, NetTypes, Protocols
<1>2. Sent \in Seq(Calls)
  BY <1>1, Listed DEF Sent
<1>3. Front \in Seq(Calls)
  <2>1. Blocked => rx.reply \in Calls
    BY CallsAssumption DEF Blocked, LevinInv, Types
  <2> QED BY <2>1 DEF Front
<1>4. /\ \A i \in 1..Len(levin.handlers) : levin.handlers[i] \in Calls
      /\ Len(levin.handlers) \in Nat
      /\ levin.handlers # <<>> => 1 \in 1..Len(levin.handlers) /\ levin.handlers[1] \in Calls
  <2>1. /\ \A i \in 1..Len(levin.handlers) : levin.handlers[i] \in Calls
        /\ Len(levin.handlers) \in Nat
        /\ levin.handlers # <<>> => Len(levin.handlers) >= 1
    BY <1>1, Listed
  <2> QED BY <2>1
<1> QED BY <1>1, <1>2, <1>3, <1>4

(* A handler is about to be added by the one that holds the lock.          *)
LEMMA SentFacts ==
  ASSUME LevinInv, LockHeld
  PROVE  /\ (\A c \in Calls : pc[Invoker(c)] # "add") => Sent = levin.handlers
         /\ \A c \in Calls : pc[Invoker(c)] = "add" =>
              levin.lock = c /\ Sent = Append(levin.handlers, c)
         /\ \A c, d \in Calls : pc[Invoker(c)] \in Locking /\ pc[Invoker(d)] \in Locking => c = d
         /\ levin.lock = None => \A c \in Calls : pc[Invoker(c)] \notin Locking
         /\ \A c \in Calls : pc[Invoker(c)] = "add" => pc[Invoker(c)] \in Locking
<1>1. levin.lock \in Calls \union {None}
  BY LineTypes
<1>2. \A c \in Calls : pc[Invoker(c)] = "add" => pc[Invoker(c)] \in Locking
  BY DEF Locking
<1>3. \A c \in Calls : c # None
  BY CallsAssumption
<1> QED BY <1>1, <1>2, <1>3 DEF Sent, LockHeld

(* What was sent is the same as long as nobody comes to add a handler.     *)
LEMMA SentKept ==
  ASSUME LevinInv, LevinInv', LockHeld, LockHeld', levin'.handlers = levin.handlers,
         \A c \in Calls : pc'[Invoker(c)] = "add" <=> pc[Invoker(c)] = "add"
  PROVE  Sent' = Sent
<1>1. CASE \E c \in Calls : pc[Invoker(c)] = "add"
  <2>1. PICK c \in Calls : pc[Invoker(c)] = "add"
    BY <1>1
  <2>2. Sent = Append(levin.handlers, c)
    BY <2>1, SentFacts
  <2>3. pc'[Invoker(c)] = "add"
    BY <2>1
  <2>4. levin'.lock = c
    BY <2>3 DEF LockHeld, Locking
  <2>5. Sent' = Append(levin'.handlers, c)
    BY <2>3, <2>4, CallsAssumption DEF Sent
  <2> QED BY <2>2, <2>5
<1>2. CASE \A c \in Calls : pc[Invoker(c)] # "add"
  <2>1. Sent = levin.handlers
    BY <1>2, SentFacts
  <2>2. levin'.lock \in Calls \union {None}
    BY DEF LevinInv, Types, Protocols
  <2>3. Sent' = levin'.handlers
    BY <1>2, <2>2 DEF Sent
  <2> QED BY <2>1, <2>3
<1> QED BY <1>1, <1>2

(* A step that takes no handler off the list and adds none.                *)
LEMMA OrderKept ==
  ASSUME LevinInv, LevinInv', Orderly, LockHeld',
         levin'.handlers = levin.handlers, levin'.released = levin.released,
         \A c \in Calls : /\ pc[Invoker(c)] \in Added => pc'[Invoker(c)] \in Added
                          /\ pc'[Invoker(c)] = "add" <=> pc[Invoker(c)] = "add"
                          /\ timer[c] # "armed" => timer'[c] # "armed",
         Blocked' = Blocked, Blocked => rx'.reply = rx.reply, rx = None => rx' = None,
         conn'.was_shutdown = conn.was_shutdown, conn'.reading => conn.reading,
         InStep => InLine(Sent, Front, net'.inbox, net'.wire, net'.que)
  PROVE  Orderly'
<1>1. /\ \A i \in 1..Len(levin.handlers) : levin.handlers[i] \in Calls
      /\ levin.handlers # <<>> => 1 \in 1..Len(levin.handlers) /\ levin.handlers[1] \in Calls
  BY LineTypes
<1>2. HandlersAdded'
  BY <1>1 DEF Orderly, HandlersAdded
<1>3. levin'.released => conn'.was_shutdown /\ levin'.handlers = <<>>
  BY DEF Orderly
<1>4. Sent' = Sent
  BY SentKept DEF Orderly
<1>5. OutOfStep => OutOfStep'
  BY <1>1, <1>4 DEF OutOfStep
<1>6. Front' = Front
  BY DEF Front
<1>7. InStep => InStep'
  BY <1>4, <1>6 DEF InStep
<1> QED BY <1>2, <1>3, <1>5, <1>7 DEF Orderly

(* A step of a thread that neither sends nor holds the lock.               *)
LEMMA LockKept ==
  ASSUME LevinInv, LockHeld, levin'.lock = levin.lock,
         \/ UNCHANGED pc
         \/ \E x \in Threads, where \in Places : x \notin Invokers /\ Goto(x, where)
  PROVE  /\ LockHeld'
         /\ \A c \in Calls : pc'[Invoker(c)] = pc[Invoker(c)]
<1>1. \A c \in Calls : pc'[Invoker(c)] = pc[Invoker(c)]
  BY ThreadFacts DEF Goto, LevinInv, Types
<1> QED BY <1>1 DEF LockHeld

(* The strand, the timers and the closing of the connection, as long as no *)
(* reply is taken and the socket is not shut down.                         *)
LEMMA OutsideOrder ==
  ASSUME LevinInv, LevinInv', Orderly,
         \/ UNCHANGED pc
         \/ \E x \in Threads, where \in Places : x \notin Invokers /\ Goto(x, where),
         levin'.handlers = levin.handlers, levin'.released = levin.released,
         levin'.lock = levin.lock,
         \A c \in Calls : timer[c] # "armed" => timer'[c] # "armed",
         Blocked' = Blocked, Blocked => rx'.reply = rx.reply, rx = None => rx' = None,
         conn'.was_shutdown = conn.was_shutdown, conn'.reading => conn.reading,
         InStep => InLine(Sent, Front, net'.inbox, net'.wire, net'.que)
  PROVE  Orderly'
<1>1. LockHeld' /\ \A c \in Calls : pc'[Invoker(c)] = pc[Invoker(c)]
  BY LockKept DEF Orderly
<1> QED BY <1>1, OrderKept

(* Writes, replies on their way and reads that fail.                       *)
LEMMA StrandOrder ==
  ASSUME LevinInv, LevinInv', Orderly,
         Writing \/ Reply \/ ReadFails(TRUE) \/ ReadFails(FALSE) \/ Notify
  PROVE  Orderly'
<1>1. UNCHANGED <<levin, timer, rx>>
  BY Zenon DEF Writing, WriteDone, WriteFails, Reply, ReadFails, Notify
<1>2. UNCHANGED pc \/ Goto(Strand, "shutdown")
  BY DEF Writing, WriteDone, WriteFails, Reply, ReadFails, Notify, StrandShuts
<1>3. "shutdown" \in Places /\ Strand \in Threads /\ Strand \notin Invokers
  BY ThreadFacts DEF Places, Before, Trying
<1>4. conn'.was_shutdown = conn.was_shutdown /\ (conn'.reading => conn.reading)
  BY Zenon DEF Writing, WriteDone, WriteFails, Reply, ReadFails, Notify, LevinInv, Types, Connections
<1>5. InStep => InLine(Sent, Front, net'.inbox, net'.wire, net'.que)
  <2> SUFFICES ASSUME InStep PROVE InLine(Sent, Front, net'.inbox, net'.wire, net'.que)
    OBVIOUS
  <2>1. /\ Sent \in Seq(Calls) /\ Front \in Seq(Calls) /\ net.inbox \in Seq(Calls)
        /\ net.wire \in Seq(Calls) /\ net.que \in Seq(Calls \union {Note})
    BY LineTypes
  <2>2. InLine(Sent, Front, net.inbox, net.wire, net.que)
    BY DEF InStep
  <2>3. CASE WriteDone
    <3>1. /\ net'.inbox = net.inbox /\ net'.que = Tail(net.que)
          /\ net'.wire = IF Head(net.que) \in Calls THEN Append(net.wire, Head(net.que)) ELSE net.wire
          /\ net.que # <<>>
      BY <2>3 DEF WriteDone, LevinInv, NetTypes
    <3> QED BY <2>1, <2>2, <3>1, MessageWritten, Zenon
  <2>4. CASE WriteFails \/ ReadFails(TRUE) \/ ReadFails(FALSE)
    <3>1. net'.inbox = net.inbox /\ net'.que = net.que /\ net'.wire = net.wire
      BY Zenon, <2>4 DEF WriteFails, ReadFails, LevinInv, NetTypes
    <3> QED BY <2>2, <3>1, Zenon
  <2>5. CASE Reply
    <3>1. /\ net'.inbox = Append(net.inbox, Head(net.wire)) /\ net'.wire = Tail(net.wire)
          /\ net'.que = net.que /\ net.wire # <<>>
      BY <2>5 DEF Reply, LevinInv, NetTypes
    <3> QED BY <2>1, <2>2, <3>1, CallAnswered, Zenon
  <2>6. CASE Notify
    <3>1. /\ net'.inbox = net.inbox /\ net'.que = Append(net.que, Note) /\ net'.wire = net.wire
      BY <2>6 DEF Notify, pushed, LevinInv, NetTypes
    <3>2. Len(Sent) \in Nat /\ \A i \in 1..Len(Sent) : Sent[i] \in Calls
      BY <2>1, Listed
    <3> DEFINE n == Len(Front) + Len(net.inbox) + Len(net.wire)
    <3>3. n \in Nat
      <4>1. \A a, b, c \in Nat : a + b + c \in Nat
        OBVIOUS
      <4>2. Len(Front) \in Nat /\ Len(net.inbox) \in Nat /\ Len(net.wire) \in Nat
        BY <2>1, Listed
      <4> QED BY <4>1, <4>2, Zenon
    <3>4. Queued(Sent, n, net.que)
      BY Zenon, <2>2 DEF InLine
    <3> HIDE DEF n
    <3>5. Queued(Sent, n, Append(net.que, Note))
      BY <2>1, <3>2, <3>3, <3>4, NotePushed
    <3> QED BY Zenon, <2>2, <3>1, <3>5 DEF InLine, n
  <2> QED BY Zenon, <2>3, <2>4, <2>5, <2>6 DEF Writing
<1> QED BY <1>1, <1>2, <1>3, <1>4, <1>5, OutsideOrder DEF Blocked

(* A thread goes on without taking or releasing the lock.                  *)
LEMMA ThreadOrder ==
  ASSUME LevinInv, LevinInv', Orderly, NEW x \in Threads, NEW where \in Places, Goto(x, where),
         x \in Invokers => /\ pc[x] \in Locking <=> where \in Locking
                           /\ pc[x] \in Added => where \in Added
                           /\ pc[x] # "add" /\ where # "add",
         levin'.handlers = levin.handlers, levin'.released = levin.released,
         levin'.lock = levin.lock,
         \A c \in Calls : timer[c] # "armed" => timer'[c] # "armed",
         conn'.was_shutdown = conn.was_shutdown, conn'.reading = conn.reading,
         UNCHANGED <<net, rx>>
  PROVE  Orderly'
<1>1. pc'[x] = where /\ \A y \in Threads \ {x} : pc'[y] = pc[y]
  BY Moved DEF LevinInv
<1>2. ASSUME NEW c \in Calls
      PROVE  /\ pc'[Invoker(c)] \in Locking <=> pc[Invoker(c)] \in Locking
             /\ pc[Invoker(c)] \in Added => pc'[Invoker(c)] \in Added
             /\ pc'[Invoker(c)] = "add" <=> pc[Invoker(c)] = "add"
  <2>1. Invoker(c) \in Threads /\ Invoker(c) \in Invokers
    BY ThreadFacts
  <2>2. CASE Invoker(c) = x
    BY <1>1, <2>1, <2>2
  <2>3. CASE Invoker(c) # x
    BY <1>1, <2>1, <2>3
  <2> QED BY <2>2, <2>3
<1>3. LockHeld'
  BY <1>2 DEF LockHeld, Orderly
<1>4. Blocked' = Blocked
  BY DEF Blocked
<1>5. InStep => InLine(Sent, Front, net'.inbox, net'.wire, net'.que)
  BY DEF InStep
<1> QED BY <1>2, <1>3, <1>4, <1>5, OrderKept

(* Closing, timers and the node.                                           *)
LEMMA CloserOrder ==
  ASSUME LevinInv, LevinInv', Orderly, NEW x \in Closers,
         \/ Close(x) \/ WantClose(x)
         \/ \E c \in Calls : x = Timer(c) /\ (Expire(c) \/ TimerRuns(c))
         \/ x = Node /\ (NodeClose(TRUE) \/ NodeClose(FALSE))
  PROVE  Orderly'
<1>1. x \in Threads /\ x \notin Invokers
  BY ThreadFacts DEF Closers, Timers
<1>2. PICK where \in Places : Goto(x, where)
  <2>1. Done(x) \in {"fail", "finish", "end", "idle"}
    BY <1>1, DoneFacts
  <2>2. Done(x) \in Places
    BY <2>1 DEF Places, Before, Trying
  <2>3. {"want", "shutdown", "call", "close", "end"} \subseteq Places
    BY DEF Places, Before, Trying
  <2> QED BY <2>2, <2>3 DEF Close, WantClose, Expire, TimerRuns, TimerCallback, TimerFinish, NodeClose
<1>3. UNCHANGED <<net, rx>>
  BY DEF Close, WantClose, Expire, TimerRuns, TimerCallback, TimerFinish, NodeClose
<1>4. conn'.was_shutdown = conn.was_shutdown /\ conn'.reading = conn.reading
  BY DEF Close, WantClose, Expire, TimerRuns, TimerCallback, TimerFinish, NodeClose, unref,
         LevinInv, Types, Connections
<1>5. /\ levin'.handlers = levin.handlers /\ levin'.released = levin.released
      /\ levin'.lock = levin.lock
  BY DEF Close, WantClose, Expire, TimerRuns, TimerCallback, TimerFinish, NodeClose, uncounted,
         LevinInv, Types, Protocols
<1>6. \A c \in Calls : timer[c] # "armed" => timer'[c] # "armed"
  BY DEF Close, WantClose, Expire, TimerRuns, TimerCallback, TimerFinish, NodeClose,
         LevinInv, Types
<1> QED BY <1>1, <1>2, <1>3, <1>4, <1>5, <1>6, ThreadOrder

(* Handlers are cancelled, and a shutdown that comes second does nothing.  *)
LEMMA CancelOrder ==
  ASSUME LevinInv, LevinInv', Orderly, NEW x \in Threads,
         CancelOne(x) \/ (Shutdown(x) /\ conn.was_shutdown)
  PROVE  Orderly'
<1>1. Done(x) \in {"fail", "finish", "end", "idle"} /\ (x \in Invokers => Done(x) = "fail")
  BY DoneFacts
<1>2. PICK where \in {"cancel", Done(x)} : Goto(x, where)
  BY DEF CancelOne, Shutdown
<1>3. where \in Places
  BY <1>1, <1>2 DEF Places, Before, Trying, Closed
<1>4. pc[x] \in {"cancel", "shutdown"}
  BY DEF CancelOne, Shutdown
<1>5. x \in Invokers => /\ pc[x] \in Locking <=> where \in Locking
                        /\ pc[x] \in Added => where \in Added
                        /\ pc[x] # "add" /\ where # "add"
  BY <1>1, <1>2, <1>4 DEF Locking, Added, Closed
<1>6. /\ levin'.handlers = levin.handlers /\ levin'.released = levin.released
      /\ levin'.lock = levin.lock
  BY Zenon DEF CancelOne, Shutdown, uncounted, LevinInv, Types, Protocols
<1>7. UNCHANGED <<net, rx>>
  BY DEF CancelOne, Shutdown
<1>8. conn'.was_shutdown = conn.was_shutdown /\ conn'.reading = conn.reading
  BY DEF CancelOne, Shutdown, unref, LevinInv, Types, Connections
<1>9. \A c \in Calls : timer[c] # "armed" => timer'[c] # "armed"
  BY DEF CancelOne, Shutdown, LevinInv, Types
<1> QED BY <1>2, <1>3, <1>5, <1>6, <1>7, <1>8, <1>9, ThreadOrder

(* What is appended does not come first.                                   *)
LEMMA KeepsFirst ==
  ASSUME NEW S \in Seq(Calls), NEW c \in Calls, S # <<>>
  PROVE  Append(S, c) # <<>> /\ Append(S, c)[1] = S[1]
<1>1. Len(S) \in Nat /\ Len(S) >= 1 /\ \A i \in 1..Len(S) : Append(S, c)[i] = S[i]
  BY Listed
<1>2. Len(Append(S, c)) = Len(S) + 1 /\ Len(<<>>) = 0
  BY Listed
<1> QED BY <1>1, <1>2

(* A caller finds the connection, or returns.                              *)
LEMMA CallerOrder ==
  ASSUME LevinInv, LevinInv', Orderly, NEW c \in Calls, FindAndLock(c) \/ Finish(c)
  PROVE  Orderly'
<1>1. Invoker(c) \in Threads
  BY ThreadFacts
<1>2. PICK where \in {"refused", "send", "true"} : Goto(Invoker(c), where)
  BY DEF FindAndLock, Finish
<1>3. pc[Invoker(c)] = "start" \/ (pc[Invoker(c)] = "finish" /\ where = "true")
  <2>1. CASE FindAndLock(c)
    BY <2>1 DEF FindAndLock
  <2>2. CASE Finish(c)
    <3>1. Goto(Invoker(c), "true") /\ pc[Invoker(c)] = "finish"
      BY <2>2 DEF Finish
    <3> QED BY <1>1, <1>2, <3>1 DEF Goto, LevinInv, Types
  <2> QED BY <2>1, <2>2
<1>4. /\ where \in Places
      /\ pc[Invoker(c)] \in Locking <=> where \in Locking
      /\ pc[Invoker(c)] \in Added => where \in Added
      /\ pc[Invoker(c)] # "add" /\ where # "add"
  BY <1>2, <1>3 DEF Locking, Added, Closed, Places, Before, Trying
<1>5. /\ levin'.handlers = levin.handlers /\ levin'.released = levin.released
      /\ levin'.lock = levin.lock
  BY DEF FindAndLock, Finish, counted, uncounted, LevinInv, Types, Protocols
<1>6. conn'.was_shutdown = conn.was_shutdown /\ conn'.reading = conn.reading
  BY DEF FindAndLock, Finish, ref, unref, LevinInv, Types, Connections
<1>7. UNCHANGED <<net, rx, timer>>
  BY DEF FindAndLock, Finish
<1> QED BY <1>1, <1>2, <1>4, <1>5, <1>6, <1>7, ThreadOrder

(* The lock is taken, kept or released by a caller.                        *)
LEMMA LockMoves ==
  ASSUME LevinInv, LockHeld, NEW c \in Calls, NEW where \in Places, Goto(Invoker(c), where),
         levin.lock \in {None, c},
         levin'.lock = IF where \in Locking THEN c ELSE None
  PROVE  /\ LockHeld'
         /\ pc'[Invoker(c)] = where
         /\ \A d \in Calls \ {c} : /\ pc'[Invoker(d)] = pc[Invoker(d)]
                                   /\ pc[Invoker(d)] \notin Locking
<1>1. \A d \in Calls : Invoker(d) \in Threads /\ (d # c => Invoker(d) # Invoker(c)) /\ d # None
  BY ThreadFacts, CallsAssumption
<1>2. pc'[Invoker(c)] = where /\ \A y \in Threads \ {Invoker(c)} : pc'[y] = pc[y]
  BY <1>1, Moved DEF LevinInv
<1>3. \A d \in Calls \ {c} : pc[Invoker(d)] \notin Locking
  BY <1>1 DEF LockHeld
<1> QED BY <1>1, <1>2, <1>3 DEF LockHeld

(* A call fails.                                                           *)
LEMMA FailOrder ==
  ASSUME LevinInv, LevinInv', Orderly, NEW c \in Calls, Fail(c)
  PROVE  Orderly'
<1>1. pc[Invoker(c)] = "fail" /\ Goto(Invoker(c), "false")
  BY DEF Fail
<1>2. levin.lock = c /\ LockHeld
  BY <1>1 DEF Orderly, LockHeld, Locking
<1>3. /\ levin'.handlers = levin.handlers /\ levin'.released = levin.released
      /\ levin'.lock = None
  BY DEF Fail, uncounted, LevinInv, Types, Protocols
<1>4. "false" \in Places /\ "false" \notin Locking
  BY DEF Places, Locking, Closed, Before, Trying
<1>5. /\ LockHeld' /\ pc'[Invoker(c)] = "false"
      /\ \A d \in Calls \ {c} : pc'[Invoker(d)] = pc[Invoker(d)]
  BY <1>1, <1>2, <1>3, <1>4, LockMoves
<1>6. conn'.was_shutdown = conn.was_shutdown /\ conn'.reading = conn.reading
  BY DEF Fail, unref, LevinInv, Types, Connections
<1>7. UNCHANGED <<net, rx, timer>>
  BY DEF Fail
<1>8. \A d \in Calls : /\ pc[Invoker(d)] \in Added => pc'[Invoker(d)] \in Added
                       /\ pc'[Invoker(d)] = "add" <=> pc[Invoker(d)] = "add"
                       /\ timer[d] # "armed" => timer'[d] # "armed"
  BY <1>1, <1>5, <1>7 DEF Added
<1>9. Blocked' = Blocked /\ (InStep => InLine(Sent, Front, net'.inbox, net'.wire, net'.que))
  BY <1>7 DEF Blocked, InStep
<1> QED BY <1>3, <1>5, <1>6, <1>7, <1>8, <1>9, OrderKept

(* The request of a call is put into the send queue.                       *)
LEMMA PushOrder ==
  ASSUME LevinInv, LevinInv', Orderly, NEW c \in Calls, pc[Invoker(c)] \in {"send", "full"},
         levin.lock \in {None, c}, Goto(Invoker(c), "add"), net' = pushed(net, c),
         levin'.handlers = levin.handlers, levin'.released = levin.released, levin'.lock = c,
         UNCHANGED <<conn, timer, rx>>
  PROVE  Orderly'
<1>1. LockHeld
  BY DEF Orderly
<1>2. /\ LockHeld' /\ pc'[Invoker(c)] = "add"
      /\ \A d \in Calls \ {c} : /\ pc'[Invoker(d)] = pc[Invoker(d)]
                                /\ pc[Invoker(d)] \notin Locking
  <2>1. "add" \in Places /\ "add" \in Locking
    BY DEF Places, Locking, Before, Trying
  <2> QED BY <1>1, <2>1, LockMoves
<1>3. /\ \A i \in 1..Len(levin.handlers) : levin.handlers[i] \in Calls /\ levin.handlers[i] # c
      /\ levin.handlers # <<>> => 1 \in 1..Len(levin.handlers) /\ levin.handlers[1] \in Calls
  <2>1. pc[Invoker(c)] \notin Added
    BY DEF Added
  <2> QED BY <2>1, LineTypes DEF Orderly, HandlersAdded
<1>4. HandlersAdded'
  BY <1>2, <1>3 DEF Orderly, HandlersAdded
<1>5. Sent = levin.handlers
  <2>1. \A d \in Calls : pc[Invoker(d)] # "add"
    BY <1>2 DEF Locking
  <2> QED BY <1>1, <2>1, SentFacts
<1>6. Sent' = Append(levin.handlers, c)
  BY <1>2, CallsAssumption DEF Sent
<1>7. InStep => InStep'
  <2> SUFFICES ASSUME InStep PROVE InStep'
    OBVIOUS
  <2>1. /\ Sent \in Seq(Calls) /\ Front \in Seq(Calls) /\ net.inbox \in Seq(Calls)
        /\ net.wire \in Seq(Calls) /\ net.que \in Seq(Calls \union {Note})
    BY LineTypes
  <2>2. InLine(Sent, Front, net.inbox, net.wire, net.que) /\ ~conn.was_shutdown
    BY DEF InStep
  <2>3. \A i \in 1..Len(Sent) : Sent[i] # c
    BY <1>3, <1>5
  <2>4. InLine(Append(Sent, c), Front, net.inbox, net.wire, Append(net.que, c))
    BY <2>1, <2>2, <2>3, CallPushed, Zenon
  <2>5. /\ net'.inbox = net.inbox /\ net'.que = Append(net.que, c) /\ net'.wire = net.wire
    BY DEF pushed, LevinInv, NetTypes
  <2>6. Front' = Front
    BY DEF Front, Blocked
  <2>7. Sent' = Append(Sent, c)
    BY <1>5, <1>6
  <2>8. InLine(Sent, Front, net.inbox, net.wire, net.que)'
    BY <2>4, <2>5, <2>6, <2>7, Zenon
  <2> QED BY <2>2, <2>8 DEF InStep
<1>8. OutOfStep => OutOfStep'
  <2>1. Sent # <<>> => Sent' # <<>> /\ Sent'[1] = Sent[1]
    <3>1. Sent \in Seq(Calls)
      BY LineTypes
    <3>2. Sent' = Append(Sent, c)
      BY <1>5, <1>6
    <3> QED BY <3>1, <3>2, KeepsFirst
  <2> QED BY <2>1 DEF OutOfStep, Blocked
<1> QED BY <1>2, <1>4, <1>7, <1>8 DEF Orderly

(* A call takes the lock and sends, or waits for the queue to drain.       *)
LEMMA SendOrder ==
  ASSUME LevinInv, LevinInv', Orderly, NEW c \in Calls, Send(c) \/ SendWaits(c)
  PROVE  Orderly'
<1>1. LockHeld /\ pc[Invoker(c)] \in {"send", "full"}
  BY DEF Orderly, Send, SendWaits
<1>2. levin.lock \in {None, c} /\ levin'.lock = c
  BY <1>1 DEF Send, SendWaits, LockHeld, Locking, LevinInv, Types, Protocols
<1>3. /\ levin'.handlers = levin.handlers /\ levin'.released = levin.released
      /\ UNCHANGED <<conn, timer, rx>>
  BY DEF Send, SendWaits, LevinInv, Types, Protocols
<1>4. CASE Goto(Invoker(c), "add") /\ net' = pushed(net, c)
  BY <1>1, <1>2, <1>3, <1>4, PushOrder
<1>5. ASSUME NEW where \in {"fail", "full", "shutdown"}, Goto(Invoker(c), where), UNCHANGED net
      PROVE  Orderly'
  <2>1. where \in Places /\ where \in Locking
    BY DEF Places, Locking, Before, Trying
  <2>2. /\ LockHeld' /\ pc'[Invoker(c)] = where
        /\ \A d \in Calls \ {c} : pc'[Invoker(d)] = pc[Invoker(d)]
    BY <1>1, <1>2, <1>5, <2>1, LockMoves
  <2>3. \A d \in Calls : /\ pc[Invoker(d)] \in Added => pc'[Invoker(d)] \in Added
                         /\ pc'[Invoker(d)] = "add" <=> pc[Invoker(d)] = "add"
                         /\ timer[d] # "armed" => timer'[d] # "armed"
    BY <1>1, <1>3, <2>2 DEF Added
  <2>4. Blocked' = Blocked /\ (InStep => InLine(Sent, Front, net'.inbox, net'.wire, net'.que))
    BY <1>3, <1>5 DEF Blocked, InStep
  <2> QED BY <1>3, <2>2, <2>3, <2>4, OrderKept
<1> QED BY <1>4, <1>5 DEF Send, SendWaits

(* The handler of the call that sent is added; the list of what was sent   *)
(* does not change by that.                                                *)
LEMMA AddHandlerOrder ==
  ASSUME LevinInv, LevinInv', Orderly, NEW c \in Calls, AddHandler(c)
  PROVE  Orderly'
<1>1. pc[Invoker(c)] = "add" /\ LockHeld /\ UNCHANGED <<net, rx>>
  BY DEF AddHandler, Orderly
<1>2. levin.lock = c /\ Sent = Append(levin.handlers, c)
  BY <1>1, SentFacts
<1>3. levin.handlers \in Seq(Calls)
  BY LineTypes
<1>4. Blocked' = Blocked /\ Front' = Front
  BY <1>1 DEF Blocked, Front
<1>5. {"fail", "finish"} \subseteq Places /\ "fail" \in Locking /\ "finish" \notin Locking
  BY DEF Places, Locking, Closed, Before, Trying
<1>6. ASSUME NEW where \in {"fail", "finish"}, Goto(Invoker(c), where),
             levin'.lock = IF where \in Locking THEN c ELSE None
      PROVE  /\ LockHeld' /\ pc'[Invoker(c)] = where
             /\ \A d \in Calls \ {c} : pc'[Invoker(d)] = pc[Invoker(d)]
             /\ Sent' = levin'.handlers
             /\ levin'.handlers \in {levin.handlers, Append(levin.handlers, c)} => HandlersAdded'
  <2>1. /\ LockHeld' /\ pc'[Invoker(c)] = where
        /\ \A d \in Calls \ {c} : /\ pc'[Invoker(d)] = pc[Invoker(d)]
                                  /\ pc[Invoker(d)] \notin Locking
    BY <1>1, <1>2, <1>5, <1>6, LockMoves
  <2>2. \A d \in Calls : pc'[Invoker(d)] # "add"
    BY <2>1 DEF Locking
  <2>3. Sent' = levin'.handlers
    <3>1. levin'.lock \in Calls \union {None}
      BY <1>6
    <3> QED BY <2>2, <3>1 DEF Sent
  <2>4. where \in Added
    BY DEF Added
  <2>5. \A i \in 1..Len(levin.handlers) : pc'[Invoker(levin.handlers[i])] \in Added
    <3>1. \A i \in 1..Len(levin.handlers) : levin.handlers[i] \in Calls
      BY LineTypes
    <3> QED BY <2>1, <2>4, <3>1 DEF Orderly, HandlersAdded
  <2>6. ASSUME levin'.handlers = Append(levin.handlers, c) PROVE HandlersAdded'
    <3>1. /\ Len(levin.handlers) \in Nat /\ Len(levin'.handlers) = Len(levin.handlers) + 1
          /\ levin'.handlers[Len(levin.handlers) + 1] = c
          /\ \A i \in 1..Len(levin.handlers) : levin'.handlers[i] = levin.handlers[i]
      BY <1>3, <2>6, Listed
    <3>2. \A i \in 1..Len(levin'.handlers) :
            i = Len(levin.handlers) + 1 \/ i \in 1..Len(levin.handlers)
      BY <3>1
    <3> QED BY <2>1, <2>4, <2>5, <3>1, <3>2 DEF HandlersAdded
  <2> QED BY <2>1, <2>3, <2>5, <2>6 DEF HandlersAdded
<1>7. CASE levin.released
  <2>1. Goto(Invoker(c), "fail") /\ UNCHANGED <<conn, levin, timer>>
    BY <1>7 DEF AddHandler
  <2>2. LockHeld' /\ HandlersAdded'
    BY <1>2, <1>5, <1>6, <2>1
  <2>3. conn.was_shutdown /\ levin.handlers = <<>>
    BY <1>7 DEF Orderly
  <2> QED BY <1>7, <2>1, <2>2, <2>3 DEF Orderly, OutOfStep
<1>8. CASE ~levin.released
  <2>1. levin'.handlers = Append(levin.handlers, c) /\ ~levin'.released
    BY Zenon, <1>8 DEF AddHandler, counted, LevinInv, Types, Protocols
  <2>2. /\ conn'.was_shutdown = conn.was_shutdown /\ conn'.reading = conn.reading
        /\ \A d \in Calls \ {c} : timer'[d] = timer[d]
    BY <1>8 DEF AddHandler, ref, LevinInv, Types, Connections
  <2>3. LockHeld' /\ Sent' = levin'.handlers /\ HandlersAdded'
    <3>1. CASE conn.was_shutdown
      <4>1. Goto(Invoker(c), "fail") /\ levin'.lock = c
        BY <1>2, <1>8, <3>1 DEF AddHandler, LevinInv, Types, Protocols
      <4> QED BY <1>5, <1>6, <2>1, <4>1
    <3>2. CASE ~conn.was_shutdown
      <4>1. Goto(Invoker(c), "finish") /\ levin'.lock = None
        BY Zenon, <1>8, <3>2 DEF AddHandler, counted, LevinInv, Types, Protocols
      <4> QED BY <1>5, <1>6, <2>1, <4>1
    <3> QED BY <3>1, <3>2
  <2>4. Sent' = Sent
    BY <1>2, <2>1, <2>3
  <2>5. InStep => InStep'
    BY <1>1, <1>4, <2>2, <2>4 DEF InStep
  <2>6. levin.handlers # <<>> =>
          levin'.handlers # <<>> /\ levin'.handlers[1] = levin.handlers[1]
          /\ levin.handlers[1] \in Calls \ {c}
    <3>1. levin.handlers # <<>> => 1 \in 1..Len(levin.handlers) /\ levin.handlers[1] \in Calls
      BY LineTypes
    <3>2. levin.handlers # <<>> => pc[Invoker(levin.handlers[1])] \in Added
      BY <3>1 DEF Orderly, HandlersAdded
    <3>3. pc[Invoker(c)] \notin Added
      BY <1>1 DEF Added
    <3> QED BY <1>3, <2>1, <3>1, <3>2, <3>3, KeepsFirst
  <2>7. OutOfStep => OutOfStep'
    BY <1>1, <1>4, <1>8, <2>2, <2>4, <2>6 DEF OutOfStep
  <2> QED BY <2>1, <2>3, <2>5, <2>7 DEF Orderly
<1> QED BY <1>7, <1>8

(* The socket is shut down: what it held is lost, the reply that was read  *)
(* is that of the first call sent.                                         *)
LEMMA ShutdownOrder ==
  ASSUME LevinInv, LevinInv', Orderly, NEW x \in Threads, Shutdown(x), ~conn.was_shutdown
  PROVE  Orderly'
<1>1. /\ pc[x] = "shutdown" /\ Goto(x, "release") /\ UNCHANGED <<levin, timer, rx>>
      /\ conn'.was_shutdown /\ conn'.reading = conn.reading
  BY DEF Shutdown, LevinInv, Types, Connections
<1>2. "release" \in Places /\ {"release", "shutdown"} \subseteq Locking
      /\ {"release", "shutdown"} \cap Added = {}
  BY DEF Places, Locking, Added, Closed, Before, Trying
<1>3. pc'[x] = "release" /\ \A y \in Threads \ {x} : pc'[y] = pc[y]
  BY <1>1, <1>2, Moved DEF LevinInv
<1>4. \A c \in Calls : /\ pc'[Invoker(c)] \in Locking <=> pc[Invoker(c)] \in Locking
                       /\ pc[Invoker(c)] \in Added => pc'[Invoker(c)] \in Added
                       /\ pc'[Invoker(c)] = "add" <=> pc[Invoker(c)] = "add"
  BY <1>1, <1>2, <1>3, ThreadFacts
<1>5. LockHeld /\ LockHeld'
  BY <1>1, <1>4 DEF Orderly, LockHeld
<1>6. HandlersAdded'
  <2>1. \A i \in 1..Len(levin.handlers) : levin.handlers[i] \in Calls
    BY LineTypes
  <2> QED BY <1>1, <1>4, <2>1 DEF Orderly, HandlersAdded
<1>7. Sent' = Sent
  BY <1>1, <1>4, <1>5, SentKept
<1>8. ~levin.released
  BY DEF Orderly
<1>9. InStep => OutOfStep'
  <2>1. ASSUME InStep, Blocked PROVE Sent # <<>> /\ Sent[1] = rx.reply
    <3>1. Front = <<rx.reply>> /\ Len(Front) = 1 /\ Front[1] = rx.reply
      BY <2>1 DEF Front
    <3>2. Lined(Sent, 0, Front)
      BY <2>1 DEF InStep, InLine
    <3>3. 0 + 1 <= Len(Sent) /\ Sent[0 + 1] = rx.reply
      BY <3>1, <3>2 DEF Lined
    <3> QED BY <3>3
  <2> QED BY <1>1, <1>7, <2>1 DEF OutOfStep, Blocked
<1>10. OutOfStep => OutOfStep'
  BY <1>1 DEF OutOfStep
<1> QED BY <1>1, <1>5, <1>6, <1>8, <1>9, <1>10 DEF Orderly

(* All handlers are taken off the list.                                    *)
LEMMA ReleaseOrder ==
  ASSUME LevinInv, LevinInv', Orderly, NEW x \in Threads, Release(x)
  PROVE  Orderly'
<1>1. pc[x] = "release" /\ conn.was_shutdown /\ UNCHANGED conn
  BY DEF Release, LevinInv, OneCancels, Closed
<1>2. levin'.handlers = <<>> /\ levin'.released /\ levin'.lock = levin.lock
  BY DEF Release, LevinInv, Types, Protocols
<1>3. PICK where \in {"cancel", Done(x)} : Goto(x, where)
  BY DEF Release
<1>4. where \in Places /\ (x \in Invokers => where \in Locking)
  <2>1. Done(x) \in {"fail", "finish", "end", "idle"} /\ (x \in Invokers => Done(x) = "fail")
    BY DoneFacts
  <2> QED BY <1>3, <2>1 DEF Places, Locking, Before, Trying, Closed
<1>5. pc'[x] = where /\ \A y \in Threads \ {x} : pc'[y] = pc[y]
  BY <1>3, <1>4, Moved DEF LevinInv
<1>6. \A c \in Calls : pc'[Invoker(c)] \in Locking <=> pc[Invoker(c)] \in Locking
  <2>1. "release" \in Locking
    BY DEF Locking, Closed
  <2> QED BY <1>1, <1>4, <1>5, <2>1, ThreadFacts
<1>7. LockHeld' /\ HandlersAdded'
  BY <1>2, <1>6 DEF Orderly, LockHeld, HandlersAdded
<1> QED BY <1>1, <1>2, <1>7 DEF Orderly, OutOfStep

(* A reply meets the list of handlers, with the lock free: the handler it  *)
(* is given to is that of the first call sent.                             *)
LEMMA RespondOrder ==
  ASSUME LevinInv, LevinInv', Orderly, NEW reply \in Calls, Responds(reply),
         rx = None => conn.reading /\ ~conn.was_shutdown, rx # None => Blocked /\ rx.reply = reply,
         InStep => InLine(Sent, <<reply>>, net'.inbox, net'.wire, net'.que)
  PROVE  Orderly' /\ HandsOwn'
<1>1. levin.lock = None /\ LockHeld
  BY DEF Responds, Orderly
<1>2. Sent = levin.handlers /\ \A c \in Calls : pc[Invoker(c)] \notin Locking
  BY <1>1, SentFacts
<1>3. levin.handlers \in Seq(Calls)
  BY LineTypes
<1>4. InStep => /\ levin.handlers # <<>> /\ levin.handlers[1] = reply
                /\ InLine(Tail(levin.handlers), <<>>, net'.inbox, net'.wire, net'.que)
  <2>1. net'.inbox \in Seq(Calls) /\ net'.wire \in Seq(Calls)
        /\ net'.que \in Seq(Calls \union {Note})
    BY DEF LevinInv, NetTypes
  <2> QED BY <1>2, <1>3, <2>1, ReplyTaken, Zenon
<1>5. CASE levin.handlers # <<>>
  <2> DEFINE c == levin.handlers[1]
  <2>1. c \in Calls /\ TakesReply(reply)
    BY <1>5, LineTypes DEF Responds
  <2>2. UNCHANGED <<conn, pc>> /\ levin'.lock = None /\ levin'.released = levin.released
    BY <1>1, <2>1 DEF TakesReply, LevinInv, Types, Protocols
  <2>3. LockHeld' /\ ~levin.released
    BY <1>1, <1>5, <2>2 DEF LockHeld, Orderly
  <2>4. CASE cancels(c)
    <3>1. levin'.handlers = Tail(levin.handlers) /\ rx' = [call |-> c, reply |-> reply]
      BY <2>1, <2>4 DEF TakesReply, LevinInv, Types, Protocols
    <3>2. ~Blocked' /\ Front' = <<>> /\ Sent' = Tail(levin.handlers)
      <4>1. rx' # None /\ rx'.call # None
        BY <2>1, <3>1, CallsAssumption
      <4> QED BY <2>2, <3>1, <4>1 DEF Blocked, Front, Sent
    <3>3. InStep \/ (conn.was_shutdown /\ c = reply)
      BY <1>2, <2>3, <2>4 DEF Orderly, OutOfStep, cancels
    <3>4. HandsOwn'
      BY <1>4, <3>1, <3>3 DEF HandsOwn
    <3>5. InStep => InStep'
      BY <1>4, <2>2, <3>2 DEF InStep
    <3>6. conn.was_shutdown => OutOfStep'
      BY <2>2, <3>2 DEF OutOfStep
    <3>7. HandlersAdded'
      <4>1. /\ Len(levin.handlers) \in Nat /\ Len(levin'.handlers) = Len(levin.handlers) - 1
            /\ \A i \in 1..(Len(levin.handlers) - 1) : levin'.handlers[i] = levin.handlers[i + 1]
        BY <1>3, <1>5, <3>1, Listed
      <4>2. \A i \in 1..Len(levin'.handlers) :
              i + 1 \in 1..Len(levin.handlers) /\ levin'.handlers[i] = levin.handlers[i + 1]
        BY <4>1
      <4> QED BY <2>2, <4>2 DEF Orderly, HandlersAdded
    <3> QED BY <2>2, <2>3, <3>3, <3>4, <3>5, <3>6, <3>7 DEF Orderly
  <2>5. CASE ~cancels(c)
    <3>1. rx' = None /\ UNCHANGED <<timer, levin>>
      BY <2>1, <2>5 DEF TakesReply
    <3>2. HandlersAdded'
      BY <2>2, <3>1 DEF Orderly, HandlersAdded
    <3>3. OutOfStep'
      BY <1>5, <2>5, <3>1 DEF OutOfStep, cancels
    <3> QED BY <2>3, <3>1, <3>2, <3>3 DEF Orderly, HandsOwn
  <2> QED BY <2>4, <2>5
<1>6. CASE levin.handlers = <<>>
  <2>1. UNCHANGED levin /\ rx' = None /\ conn'.was_shutdown = conn.was_shutdown
    BY Zenon, <1>6 DEF Responds, WantsClose, LevinInv, Types, Connections
  <2>2. UNCHANGED pc \/ Goto(Strand, "shutdown")
    BY <1>6 DEF Responds, WantsClose, StrandShuts
  <2>3. "shutdown" \in Places /\ Strand \in Threads /\ Strand \notin Invokers
    BY ThreadFacts DEF Places, Before, Trying
  <2>4. LockHeld'
    BY <1>1, <2>1, <2>2, <2>3, LockKept
  <2>5. HandlersAdded'
    BY <1>6, <2>1 DEF HandlersAdded
  <2>6. conn.was_shutdown
    BY <1>4, <1>6 DEF Orderly, OutOfStep
  <2>7. OutOfStep' /\ HandsOwn'
    BY <2>1, <2>6 DEF OutOfStep, HandsOwn, Blocked
  <2> QED BY Zenon, <1>6, <2>1, <2>4, <2>5, <2>6, <2>7 DEF Orderly
<1> QED BY <1>5, <1>6

(* A reply is read, or the strand that waited with one goes on.            *)
LEMMA ReceiveOrder ==
  ASSUME LevinInv, LevinInv', Orderly, HandsOwn, Receive \/ Unblock
  PROVE  Orderly' /\ HandsOwn'
<1>1. CASE Unblock
  <2>1. rx # None /\ Blocked /\ Responds(rx.reply) /\ UNCHANGED net
    BY <1>1 DEF Unblock, Blocked
  <2>2. rx.reply \in Calls
    BY <2>1 DEF LevinInv, Types
  <2>3. InStep => InLine(Sent, <<rx.reply>>, net'.inbox, net'.wire, net'.que)
    BY <2>1 DEF InStep, Front
  <2> QED BY <2>1, <2>2, <2>3, RespondOrder
<1>2. CASE Receive
  <2> DEFINE reply == Head(net.inbox)
  <2>1. /\ rx = None /\ conn.reading /\ net.inbox # <<>> /\ ~conn.was_shutdown
        /\ net'.inbox = Tail(net.inbox) /\ net'.wire = net.wire /\ net'.que = net.que
    BY <1>2 DEF Receive, StrandIdle, LevinInv, NetTypes
  <2>2. /\ Sent \in Seq(Calls) /\ net.inbox \in Seq(Calls) /\ net.wire \in Seq(Calls)
    BY LineTypes
  <2>3. reply \in Calls
    BY <2>1, <2>2, Listed
  <2>4. InStep => InLine(Sent, <<reply>>, net'.inbox, net'.wire, net'.que)
    <3>1. InStep => InLine(Sent, <<>>, net.inbox, net.wire, net.que)
      BY <2>1 DEF InStep, Front, Blocked
    <3> QED BY <2>1, <2>2, <3>1, ReplyRead, Zenon
  <2> HIDE DEF reply
  <2>5. CASE Responds(reply)
    BY <2>1, <2>3, <2>4, <2>5, RespondOrder
  <2>6. CASE WantsClose
    <3>1. /\ UNCHANGED levin /\ rx' = None /\ conn'.was_shutdown = conn.was_shutdown
          /\ ~conn'.reading
      BY <2>6 DEF WantsClose, LevinInv, Types, Connections
    <3>2. UNCHANGED pc \/ Goto(Strand, "shutdown")
      BY <2>6 DEF WantsClose, StrandShuts
    <3>3. "shutdown" \in Places /\ Strand \in Threads /\ Strand \notin Invokers
      BY ThreadFacts DEF Places, Before, Trying
    <3>4. LockHeld' /\ \A c \in Calls : pc'[Invoker(c)] = pc[Invoker(c)]
      BY <3>1, <3>2, <3>3, LockKept DEF Orderly
    <3>5. HandlersAdded'
      <4>1. \A i \in 1..Len(levin.handlers) : levin.handlers[i] \in Calls
        BY LineTypes
      <4> QED BY <3>1, <3>4, <4>1 DEF Orderly, HandlersAdded
    <3>6. OutOfStep' /\ HandsOwn'
      BY <3>1 DEF OutOfStep, HandsOwn
    <3> QED BY <3>1, <3>4, <3>5, <3>6 DEF Orderly
  <2>7. CASE rx' = [call |-> None, reply |-> reply] /\ UNCHANGED <<conn, levin, timer, pc>>
    <3>1. rx' # None /\ rx'.call = None /\ rx'.reply = reply
      BY <2>3, <2>7, CallsAssumption
    <3>2. Front' = <<reply>> /\ Sent' = Sent
      BY <2>7, <3>1 DEF Front, Blocked, Sent
    <3>3. InStep => InStep'
      BY <2>1, <2>4, <2>7, <3>2 DEF InStep
    <3>4. OutOfStep => OutOfStep'
      BY <2>1, <2>7 DEF OutOfStep
    <3>5. LockHeld' /\ HandlersAdded' /\ HandsOwn'
      BY <2>7, <3>1 DEF Orderly, LockHeld, HandlersAdded, HandsOwn
    <3> QED BY <2>7, <3>3, <3>4, <3>5 DEF Orderly
  <2> QED BY <1>2, <2>5, <2>6, <2>7 DEF Receive, reply
<1> QED BY <1>1, <1>2

(* A reply is handed over; the connection object is destroyed.             *)
LEMMA HandleOrder ==
  ASSUME LevinInv, LevinInv', Orderly, Handle \/ Destroy
  PROVE  Orderly'
<1>1. UNCHANGED <<net, timer, pc>> /\ rx' = None
  BY DEF Handle, Destroy
<1>2. CASE Handle
  <2>1. ~Blocked /\ ~Blocked'
    BY <1>1, <1>2 DEF Handle, Blocked
  <2>2. /\ levin'.handlers = levin.handlers /\ levin'.released = levin.released
        /\ levin'.lock = levin.lock
    BY <1>2 DEF Handle, uncounted, LevinInv, Types, Protocols
  <2>3. conn'.was_shutdown = conn.was_shutdown /\ conn'.reading = conn.reading
    BY <1>2 DEF Handle, unref, LevinInv, Types, Connections
  <2>4. InStep => InLine(Sent, Front, net'.inbox, net'.wire, net'.que)
    BY <1>1 DEF InStep
  <2>5. Blocked' = Blocked /\ (Blocked => rx'.reply = rx.reply)
    BY <2>1 DEF Blocked
  <2> QED BY <1>1, <2>2, <2>3, <2>4, <2>5, OutsideOrder
<1>3. CASE Destroy
  <2>1. levin'.handlers = <<>> /\ levin'.released /\ levin'.lock = levin.lock
    BY <1>3 DEF Destroy, LevinInv, Types, Protocols
  <2>2. conn'.was_shutdown
    BY <1>3 DEF Destroy, LevinInv, Types, Connections
  <2>3. LockHeld' /\ HandlersAdded'
    BY <1>1, <2>1 DEF Orderly, LockHeld, HandlersAdded
  <2> QED BY <2>1, <2>2, <2>3 DEF Orderly, OutOfStep
<1> QED BY <1>2, <1>3

(* At the start nothing is on its way.                                     *)
LEMMA OrderInit == Init => Orderly /\ HandsOwn /\ ReplyIsOwn
<1> SUFFICES ASSUME Init PROVE Orderly /\ HandsOwn /\ ReplyIsOwn
  OBVIOUS
<1>1. /\ net.que = <<>> /\ net.wire = <<>> /\ net.inbox = <<>> /\ rx = None
      /\ levin.handlers = <<>> /\ levin.lock = None /\ ~levin.released /\ ~conn.was_shutdown
  BY DEF Init
<1>2. \A c \in Calls : pc[Invoker(c)] \in {"start", "end"}
  BY ThreadFacts DEF Init
<1>3. LockHeld /\ HandlersAdded
  BY <1>1, <1>2, CallsAssumption DEF LockHeld, HandlersAdded, Locking, Closed
<1>4. Sent = <<>> /\ Front = <<>> /\ Len(<<>>) = 0
  BY <1>1 DEF Sent, Front, Blocked
<1>5. InLine(<<>>, <<>>, <<>>, <<>>, <<>>)
  BY <1>4 DEF InLine, Lined, Queued
<1>6. InStep
  BY <1>1, <1>4, <1>5 DEF InStep
<1>7. HandsOwn /\ ReplyIsOwn
  BY <1>1 DEF HandsOwn, ReplyIsOwn, Init
<1> QED BY <1>1, <1>3, <1>6, <1>7 DEF Orderly

(* Every step keeps the order.                                             *)
LEMMA OrderStep ==
  ASSUME LevinInv, LevinInv', Orderly, HandsOwn, [Next]_vars
  PROVE  Orderly' /\ HandsOwn'
<1>1. ASSUME NEW x \in Threads, Shuts(x) PROVE Orderly' /\ UNCHANGED rx
  <2>1. UNCHANGED rx
    BY <1>1 DEF Shuts, Shutdown, Release, CancelOne
  <2>2. CASE Shutdown(x)
    BY <2>1, <2>2, CancelOrder, ShutdownOrder
  <2>3. CASE Release(x) \/ CancelOne(x)
    BY <2>1, <2>3, CancelOrder, ReleaseOrder
  <2> QED BY <1>1, <2>1, <2>2, <2>3 DEF Shuts
<1>2. ASSUME NEW c \in Calls, Invoking(c) PROVE Orderly' /\ UNCHANGED rx
  <2>1. CASE Shuts(Invoker(c))
    BY <1>1, <2>1, ThreadFacts
  <2>2. CASE ~Shuts(Invoker(c))
    <3>1. UNCHANGED rx
      BY <1>2, <2>2 DEF Invoking, FindAndLock, Send, SendWaits, AddHandler, Fail, Finish
    <3> QED BY <1>2, <2>2, <3>1, CallerOrder, SendOrder, AddHandlerOrder, FailOrder DEF Invoking
  <2> QED BY <2>1, <2>2
<1>3. ASSUME NEW x \in Closers, Closing(x) PROVE Orderly' /\ UNCHANGED rx
  <2>1. CASE Shuts(x)
    BY <1>1, <2>1, ThreadFacts
  <2>2. CASE Close(x) \/ WantClose(x)
    BY Zenon, <2>2, CloserOrder DEF Close, WantClose
  <2> QED BY <1>3, <2>1, <2>2 DEF Closing
<1>4. ASSUME NEW c \in Calls, Expire(c) \/ TimerRuns(c) PROVE Orderly' /\ UNCHANGED rx
  <2>1. Timer(c) \in Closers
    BY ThreadFacts
  <2>2. UNCHANGED rx
    BY <1>4 DEF Expire, TimerRuns, TimerCallback, TimerFinish
  <2> QED BY Zenon, <1>4, <2>1, <2>2, CloserOrder
<1>5. CASE NodeClose(TRUE) \/ NodeClose(FALSE)
  <2>1. Node \in Closers
    BY DEF Closers
  <2>2. UNCHANGED rx
    BY <1>5 DEF NodeClose
  <2>3. Orderly'
    BY Zenon, <1>5, <2>1, CloserOrder
  <2> QED BY <2>2, <2>3 DEF HandsOwn
<1>6. CASE Writing \/ Reply \/ ReadFails(TRUE) \/ ReadFails(FALSE) \/ Notify
  <2>1. UNCHANGED rx
    BY Zenon, <1>6 DEF Writing, WriteDone, WriteFails, Reply, ReadFails, Notify
  <2> QED BY Zenon, <1>6, <2>1, StrandOrder DEF HandsOwn
<1>7. CASE Receive \/ Unblock
  BY <1>7, ReceiveOrder
<1>8. CASE Handle \/ Destroy
  <2>1. rx' = None
    BY <1>8 DEF Handle, Destroy
  <2> QED BY <1>8, <2>1, HandleOrder DEF HandsOwn
<1>9. CASE UNCHANGED vars
  BY Zenon, <1>9 DEF vars, Orderly, HandsOwn, LockHeld, HandlersAdded, InStep, OutOfStep, Sent,
              Front, Blocked
<1>10. UNCHANGED rx => HandsOwn'
  BY DEF HandsOwn
<1> QED BY Zenon, <1>2, <1>3, <1>4, <1>5, <1>6, <1>7, <1>8, <1>9, <1>10 DEF Next

(* What a call is told is an error, a timeout, its end or its own reply.   *)
LEMMA OwnStep ==
  ASSUME LevinInv, HandsOwn, ReplyIsOwn, [Next]_vars
  PROVE  ReplyIsOwn'
<1>1. \/ UNCHANGED results
      \/ \E c \in Calls : Callback(c, "error") \/ Callback(c, "timeout") \/ Callback(c, "destroyed")
      \/ rx # None /\ rx.call # None /\ Callback(rx.call, rx.reply)
  <2>1. ASSUME NEW x \in Threads, Shuts(x)
        PROVE  UNCHANGED results \/ \E c \in Calls : Callback(c, "destroyed")
    <3>1. CASE CancelOne(x)
      <4>1. levin.leaving \in Seq(Calls) /\ levin.leaving # <<>>
        BY <3>1 DEF CancelOne, LevinInv, Types, Protocols, OneCancels
      <4>2. Head(levin.leaving) \in Calls
        BY <4>1
      <4> QED BY <3>1, <4>2 DEF CancelOne
    <3>2. CASE Shutdown(x) \/ Release(x)
      BY <3>2 DEF Shutdown, Release
    <3> QED BY <2>1, <3>1, <3>2 DEF Shuts
  <2>2. ASSUME NEW c \in Calls, Invoking(c)
        PROVE  UNCHANGED results \/ \E d \in Calls : Callback(d, "error") \/ Callback(d, "destroyed")
    <3>1. CASE Shuts(Invoker(c))
      BY <2>1, <3>1, ThreadFacts
    <3>2. CASE ~Shuts(Invoker(c))
      BY <2>2, <3>2 DEF Invoking, FindAndLock, Send, SendWaits, AddHandler, Fail, Finish
    <3> QED BY <3>1, <3>2
  <2>3. ASSUME NEW x \in Closers, Closing(x)
        PROVE  UNCHANGED results \/ \E d \in Calls : Callback(d, "destroyed")
    <3>1. CASE Shuts(x)
      BY <2>1, <3>1, ThreadFacts
    <3>2. CASE Close(x) \/ WantClose(x)
      BY <3>2 DEF Close, WantClose
    <3> QED BY <2>3, <3>1, <3>2 DEF Closing
  <2>4. ASSUME NEW c \in Calls, Expire(c) \/ TimerRuns(c)
        PROVE  UNCHANGED results \/ Callback(c, "timeout")
    BY <2>4 DEF Expire, TimerRuns, TimerCallback, TimerFinish
  <2>5. CASE \/ Notify \/ NodeClose(TRUE) \/ NodeClose(FALSE) \/ Writing \/ Reply
             \/ Receive \/ Unblock \/ ReadFails(TRUE) \/ ReadFails(FALSE) \/ Destroy
             \/ UNCHANGED vars
    BY Zenon, <2>5 DEF Notify, NodeClose, Writing, WriteDone, WriteFails, Reply, Receive, Unblock,
                ReadFails, Destroy, vars
  <2>6. CASE Handle
    BY <2>6 DEF Handle
  <2> QED BY Zenon, <2>2, <2>3, <2>4, <2>5, <2>6 DEF Next
<1>2. ASSUME NEW c \in Calls, NEW code \in Codes, Callback(c, code), code \in Calls => code = c
      PROVE  ReplyIsOwn'
  <2>1. results \in [Calls -> Seq(Codes)]
    BY DEF LevinInv, Types
  <2>2. results'[c] = Append(results[c], code) /\ \A d \in Calls \ {c} : results'[d] = results[d]
    BY <1>2, <2>1 DEF Callback
  <2>3. /\ DOMAIN results'[c] = 1..(Len(results[c]) + 1) /\ Len(results[c]) \in Nat
        /\ DOMAIN results[c] = 1..Len(results[c])
        /\ results'[c][Len(results[c]) + 1] = code
        /\ \A i \in 1..Len(results[c]) : results'[c][i] = results[c][i]
    BY <2>1, <2>2, AppendProperties, LenProperties
  <2>4. \A i \in DOMAIN results'[c] : i = Len(results[c]) + 1 \/ i \in DOMAIN results[c]
    BY <2>3
  <2>5. ASSUME NEW i \in DOMAIN results'[c], results'[c][i] \in Calls PROVE results'[c][i] = c
    <3>1. CASE i = Len(results[c]) + 1
      BY <1>2, <2>3, <2>5, <3>1
    <3>2. CASE i \in DOMAIN results[c]
      <4>1. results'[c][i] = results[c][i]
        BY <2>3, <3>2
      <4> QED BY <2>5, <3>2, <4>1, Zenon DEF ReplyIsOwn
    <3> QED BY <2>4, <3>1, <3>2
  <2>6. ASSUME NEW d \in Calls, d # c, NEW i \in DOMAIN results'[d], results'[d][i] \in Calls
        PROVE  results'[d][i] = d
    <3>1. results'[d] = results[d]
      BY <2>2, <2>6
    <3> QED BY <2>6, <3>1, Zenon DEF ReplyIsOwn
  <2> QED BY <2>5, <2>6, Zenon DEF ReplyIsOwn
<1>3. CASE UNCHANGED results
  BY <1>3 DEF ReplyIsOwn
<1>4. CASE \E c \in Calls : Callback(c, "error") \/ Callback(c, "timeout") \/ Callback(c, "destroyed")
  BY <1>2, <1>4, CallsAssumption DEF Codes
<1>5. CASE rx # None /\ rx.call # None /\ Callback(rx.call, rx.reply)
  <2>1. rx.call \in Calls /\ rx.reply \in Calls /\ rx.reply = rx.call
    BY <1>5 DEF HandsOwn, LevinInv, Types
  <2> QED BY Zenon, <1>2, <1>5, <2>1 DEF Codes
<1> QED BY <1>1, <1>3, <1>4, <1>5

(* A response names no request and goes to the oldest handler: it is the   *)
(* reply to that handler's request all the same, because handlers are      *)
(* added in the order in which requests are sent, and once a handler at    *)
(* the front has timed out no response is handed over any more.            *)
THEOREM LevinReplyIsOwn == Spec => []ReplyIsOwn
<1> DEFINE Own == Orderly /\ HandsOwn /\ ReplyIsOwn
<1>1. Init => LevinInv /\ Own
  BY LevinInit, OrderInit
<1>2. LevinInv /\ Own /\ [Next]_vars => (LevinInv /\ Own)'
  <2> SUFFICES ASSUME LevinInv, Own, [Next]_vars PROVE (LevinInv /\ Own)'
    OBVIOUS
  <2>1. LevinInv'
    BY LevinStep
  <2> QED BY <2>1, OrderStep, OwnStep
<1>3. Own => ReplyIsOwn
  OBVIOUS
<1> HIDE DEF Own
<1> QED BY <1>1, <1>2, <1>3, PTL DEF Spec
=============================================================================
