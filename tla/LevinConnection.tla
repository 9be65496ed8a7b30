-------------------------- MODULE LevinConnection --------------------------
(* One connection: connection of net/abstract_tcp_server2.inl and its       *)
(* async_protocol_handler of net/levin_protocol_handler_async.h, with the   *)
(* calls of async_invoke that wait for their replies.  Reads and writes are *)
(* on the strand, timers and callers are on threads of their own.           *)
EXTENDS Integers, Sequences, FiniteSets

CONSTANTS
  None,
  Calls,        \* the requests made with invoke_async, one thread each
  Note,         \* a message that asks for no reply
  SendQueMax,   \* ABSTRACT_SERVER_SEND_QUE_MAX_COUNT
  Scenarios     \* which calls are made, and whether the node closes

ASSUME CallsAssumption ==
  /\ IsFiniteSet(Calls) /\ None \notin Calls /\ Note \notin Calls
  /\ Calls \cap {"error", "timeout", "destroyed"} = {}
  /\ None \notin [call : Calls \union {None}, reply : Calls]
  /\ SendQueMax \in Nat
  /\ Scenarios \subseteq [calls : SUBSET Calls, closes : BOOLEAN]

VARIABLES
  net,          \* m_send_que, whether a write is in progress, requests the
                \* peer has, and its replies
  conn,         \* the state of class connection
  levin,        \* the state of class async_protocol_handler
  timer,        \* the timer of each anvoke_handler
  pc,           \* what each thread does next
  seen,         \* whether close() found the send queue empty
  rx,           \* the handler that handle_recv took off the list, and its reply
  results       \* history: the callbacks of each call

vars == <<net, conn, levin, timer, pc, seen, rx, results>>

Invoker(c) == <<"invoke", c>>
Timer(c) == <<"timer", c>>
Invokers == {Invoker(c) : c \in Calls}
Timers == {Timer(c) : c \in Calls}
Node == <<"node", None>>
Strand == <<"strand", None>>
Closers == Timers \union {Node, Strand}
Threads == Invokers \union Closers

Goto(x, where) == pc' = [pc EXCEPT ![x] = where]
(* Where a thread goes on after close() or shutdown(); a caller of          *)
(* shutdown() is one that found the send queue full.                        *)
Done(x) ==
  CASE x \in Invokers -> "fail"
    [] x \in Timers -> "finish"
    [] x = Node -> "end"
    [] OTHER -> "idle"
Callback(c, code) == results' = [results EXCEPT ![c] = Append(@, code)]

Init ==
  /\ net = [que |-> <<>>, writing |-> FALSE, wire |-> <<>>, inbox |-> <<>>]
  /\ conn = [want_close |-> FALSE, was_shutdown |-> FALSE, reading |-> TRUE,
             refs |-> 0, destroyed |-> FALSE]
  /\ levin = [handlers |-> <<>>, lock |-> None, close_called |-> FALSE,
              released |-> FALSE, leaving |-> <<>>, wait_count |-> 0]
  /\ timer = [c \in Calls |-> "none"]
  /\ \E s \in Scenarios :
       pc = [x \in Threads |->
               CASE x \in Invokers -> IF x[2] \in s.calls THEN "start" ELSE "end"
                 [] x = Node -> IF s.closes THEN "idle" ELSE "end"
                 [] OTHER -> "idle"]
  /\ seen = [x \in Closers |-> FALSE]
  /\ rx = None
  /\ results = [c \in Calls |-> <<>>]
-----------------------------------------------------------------------------
(* start_outer_call, where add_ref succeeds, and finish_outer_call.         *)
ref(k) == [k EXCEPT !.refs = @ + 1]
unref(k) == [k EXCEPT !.refs = @ - 1]
counted(l) == [l EXCEPT !.wait_count = @ + 1]
uncounted(l) == [l EXCEPT !.wait_count = @ - 1]

(* do_send_chunk: a connection that is not writing starts to.               *)
pushed(n, msg) == [n EXCEPT !.que = Append(@, msg), !.writing = @ \/ n.que = <<>>]

FindAndLock(c) ==
  /\ pc[Invoker(c)] = "start"
  /\ IF conn.destroyed \/ conn.was_shutdown
     THEN Goto(Invoker(c), "refused") /\ UNCHANGED <<conn, levin>>
     ELSE Goto(Invoker(c), "send") /\ conn' = ref(conn) /\ levin' = counted(levin)
  /\ UNCHANGED <<net, timer, seen, rx, results>>

QueueIsFull == Len(net.que) > SendQueMax

Send_unlocked(c) ==
  /\ pc[Invoker(c)] = "send" /\ levin.lock = None
  /\ \/ /\ conn.was_shutdown
        /\ Goto(Invoker(c), "fail") /\ UNCHANGED net
     \/ /\ ~conn.was_shutdown /\ ~QueueIsFull
        /\ Goto(Invoker(c), "add") /\ net' = pushed(net, c)
     \/ /\ ~conn.was_shutdown /\ QueueIsFull
        /\ Goto(Invoker(c), "full") /\ UNCHANGED net
  /\ UNCHANGED <<conn, levin, timer, seen, rx, results>>

(* async_invoke sends and adds its handler without releasing                *)
(* m_invoke_response_handlers_lock, so that no reply can come in between.   *)
Send(c) ==
  /\ pc[Invoker(c)] = "send" /\ levin.lock = None
  /\ levin' = [levin EXCEPT !.lock = c]
  /\ \/ /\ conn.was_shutdown
        /\ Goto(Invoker(c), "fail") /\ UNCHANGED net
     \/ /\ ~conn.was_shutdown /\ ~QueueIsFull
        /\ Goto(Invoker(c), "add") /\ net' = pushed(net, c)
     \/ /\ ~conn.was_shutdown /\ QueueIsFull
        /\ Goto(Invoker(c), "full") /\ UNCHANGED net
  /\ UNCHANGED <<conn, timer, seen, rx, results>>

(* The caller sleeps while the queue is full, with the handlers locked; the *)
(* queue drains, or the caller gives up and shuts the connection down.      *)
SendWaits(c) ==
  /\ pc[Invoker(c)] = "full"
  /\ \/ ~QueueIsFull /\ Goto(Invoker(c), "add") /\ net' = pushed(net, c)
     \/ QueueIsFull /\ Goto(Invoker(c), "shutdown") /\ UNCHANGED net
  /\ UNCHANGED <<conn, levin, timer, seen, rx, results>>

AddHandler(c) ==
  /\ pc[Invoker(c)] = "add"
  /\ IF levin.released
     THEN Goto(Invoker(c), "fail") /\ UNCHANGED <<conn, levin, timer>>
     ELSE IF conn.was_shutdown
     THEN /\ Goto(Invoker(c), "fail")
          /\ levin' = [levin EXCEPT !.handlers = Append(@, c)]
          /\ UNCHANGED <<conn, timer>>
     ELSE /\ Goto(Invoker(c), "finish")
          /\ levin' = counted([levin EXCEPT !.lock = None, !.handlers = Append(@, c)])
          /\ conn' = ref(conn)
          /\ timer' = [timer EXCEPT ![c] = "armed"]
  /\ UNCHANGED <<net, seen, rx, results>>

Fail_locked(c) ==
  /\ pc[Invoker(c)] = "fail"
  /\ Callback(c, "error")
  /\ Goto(Invoker(c), "false")
  /\ conn' = unref(conn) /\ levin' = uncounted(levin)
  /\ UNCHANGED <<net, timer, seen, rx>>

(* async_invoke releases the lock, calls back with an error and returns     *)
(* false, or returns true.                                                  *)
Fail(c) ==
  /\ pc[Invoker(c)] = "fail"
  /\ Callback(c, "error")
  /\ Goto(Invoker(c), "false")
  /\ conn' = unref(conn) /\ levin' = uncounted([levin EXCEPT !.lock = None])
  /\ UNCHANGED <<net, timer, seen, rx>>

Finish(c) ==
  /\ pc[Invoker(c)] = "finish"
  /\ Goto(Invoker(c), "true")
  /\ conn' = unref(conn) /\ levin' = uncounted(levin)
  /\ UNCHANGED <<net, timer, seen, rx, results>>

(* Another message, with no reply, is sent when the queue is empty.         *)
Notify ==
  /\ ~conn.was_shutdown /\ net.que = <<>>
  /\ net' = pushed(net, Note)
  /\ UNCHANGED <<conn, levin, timer, pc, seen, rx, results>>
-----------------------------------------------------------------------------
(* close(): the size of the queue is read under its lock, and              *)
(* m_want_close_connection is set after that.                               *)
Close(x) ==
  /\ pc[x] = "close"
  /\ Goto(x, "want")
  /\ seen' = [seen EXCEPT ![x] = net.que = <<>>]
  /\ UNCHANGED <<net, conn, levin, timer, rx, results>>

WantClose_forgets(x) ==
  /\ pc[x] = "want"
  /\ conn' = [conn EXCEPT !.want_close = @ \/ seen[x]]
  /\ Goto(x, IF seen[x] THEN "shutdown" ELSE Done(x))
  /\ seen' = [seen EXCEPT ![x] = FALSE]
  /\ UNCHANGED <<net, levin, timer, rx, results>>

WantClose(x) ==
  /\ pc[x] = "want"
  /\ conn' = [conn EXCEPT !.want_close = TRUE]
  /\ Goto(x, IF seen[x] THEN "shutdown" ELSE Done(x))
  /\ seen' = [seen EXCEPT ![x] = FALSE]
  /\ UNCHANGED <<net, levin, timer, rx, results>>

(* What the socket holds is lost.                                           *)
Shutdown(x) ==
  /\ pc[x] = "shutdown"
  /\ IF conn.was_shutdown THEN Goto(x, Done(x)) /\ UNCHANGED <<conn, net>>
     ELSE /\ Goto(x, "release")
          /\ conn' = [conn EXCEPT !.was_shutdown = TRUE]
          /\ net' = [net EXCEPT !.wire = <<>>, !.inbox = <<>>]
  /\ UNCHANGED <<levin, timer, seen, rx, results>>

Release_waits(x) ==
  /\ pc[x] = "release" /\ levin.lock = None
  /\ levin' = [levin EXCEPT !.released = TRUE, !.leaving = levin.handlers,
                            !.handlers = <<>>]
  /\ Goto(x, IF levin.handlers = <<>> THEN Done(x) ELSE "cancel")
  /\ UNCHANGED <<net, conn, timer, seen, rx, results>>

(* release_protocol takes all handlers, then cancels them one by one.  Its  *)
(* lock is recursive: the thread that holds it passes.                      *)
Release(x) ==
  /\ pc[x] = "release"
  /\ levin.lock = None \/ x = Invoker(levin.lock)
  /\ levin' = [levin EXCEPT !.released = TRUE, !.leaving = levin.handlers,
                            !.handlers = <<>>]
  /\ Goto(x, IF levin.handlers = <<>> THEN Done(x) ELSE "cancel")
  /\ UNCHANGED <<net, conn, timer, seen, rx, results>>

cancels_always(c) == timer[c] \in {"armed", "expired"}

(* cancel_timer succeeds when the timer has not expired.                    *)
cancels(c) == timer[c] = "armed"

CancelOne(x) ==
  /\ pc[x] = "cancel"
  /\ LET c == Head(levin.leaving)
         l == [levin EXCEPT !.leaving = Tail(@)]
     IN  /\ IF cancels(c)
            THEN /\ timer' = [timer EXCEPT ![c] = "off"]
                 /\ Callback(c, "destroyed")
                 /\ levin' = uncounted(l) /\ conn' = unref(conn)
            ELSE levin' = l /\ UNCHANGED <<timer, results, conn>>
         /\ Goto(x, IF l.leaving = <<>> THEN Done(x) ELSE "cancel")
  /\ UNCHANGED <<net, seen, rx>>

(* The timer of a call: it calls back, closes and releases its reference.   *)
Expire(c) ==
  /\ timer[c] = "armed"
  /\ timer' = [timer EXCEPT ![c] = "expired"]
  /\ Goto(Timer(c), "call")
  /\ UNCHANGED <<net, conn, levin, seen, rx, results>>

TimerCallback(c) ==
  /\ pc[Timer(c)] = "call"
  /\ Callback(c, "timeout")
  /\ levin' = [levin EXCEPT !.close_called = TRUE]
  /\ Goto(Timer(c), "close")
  /\ UNCHANGED <<net, conn, timer, seen, rx>>

TimerFinish(c) ==
  /\ pc[Timer(c)] = "finish"
  /\ conn' = unref(conn) /\ levin' = uncounted(levin)
  /\ Goto(Timer(c), "end")
  /\ UNCHANGED <<net, timer, seen, rx, results>>

(* The node closes the connection, or the connection's own timer does, which*)
(* leaves m_close_called alone.  One of the two happens, once.              *)
NodeClose(by_user) ==
  /\ pc[Node] = "idle" /\ ~conn.destroyed
  /\ by_user \/ ~conn.was_shutdown
  /\ levin' = [levin EXCEPT !.close_called = @ \/ by_user]
  /\ Goto(Node, "close")
  /\ UNCHANGED <<net, conn, timer, seen, rx, results>>
-----------------------------------------------------------------------------
StrandIdle == pc[Strand] = "idle" /\ rx = None

(* shutdown() does nothing the second time.                                 *)
StrandShuts(b) ==
  IF b /\ ~conn.was_shutdown THEN Goto(Strand, "shutdown") ELSE UNCHANGED pc

(* handle_write                                                             *)
WriteDone ==
  /\ StrandIdle /\ net.writing /\ ~conn.was_shutdown
  /\ LET rest == Tail(net.que)
         msg == Head(net.que)
     IN  /\ net' = [net EXCEPT !.que = rest, !.writing = rest # <<>>,
                      !.wire = IF msg \in Calls THEN Append(@, msg) ELSE @]
         /\ StrandShuts(rest = <<>> /\ conn.want_close)
  /\ UNCHANGED <<conn, levin, timer, seen, rx, results>>

WriteFails ==
  /\ StrandIdle /\ net.writing
  /\ net' = [net EXCEPT !.writing = FALSE]
  /\ StrandShuts(TRUE)
  /\ UNCHANGED <<conn, levin, timer, seen, rx, results>>

(* The peer answers its requests in their order, or does not answer.        *)
Reply ==
  /\ net.wire # <<>> /\ ~conn.was_shutdown
  /\ net' = [net EXCEPT !.wire = Tail(@), !.inbox = Append(@, Head(net.wire))]
  /\ UNCHANGED <<conn, levin, timer, pc, seen, rx, results>>

(* handle_recv wants to close: the connection reads no more.                *)
WantsClose ==
  /\ conn' = [conn EXCEPT !.want_close = TRUE, !.reading = FALSE]
  /\ StrandShuts(net.que = <<>>)
  /\ rx' = None
  /\ UNCHANGED <<levin, timer>>

(* A reply: the handler at the front of the list gets it, unless its timer  *)
(* has expired; the handler then stays and the reply is dropped.            *)
TakesReply(reply) ==
  LET c == levin.handlers[1]
  IN  /\ IF cancels(c)
         THEN /\ timer' = [timer EXCEPT ![c] = "off"]
              /\ levin' = [levin EXCEPT !.handlers = Tail(@)]
              /\ rx' = [call |-> c, reply |-> reply]
         ELSE rx' = None /\ UNCHANGED <<timer, levin>>
      /\ UNCHANGED <<conn, pc>>

(* With no handler, a reply is wrong unless an outer call is in progress or *)
(* the connection is closing.                                               *)
Responds(reply) ==
  /\ levin.lock = None
  /\ IF levin.handlers # <<>> THEN TakesReply(reply)
     ELSE IF levin.wait_count = 0 /\ ~levin.close_called THEN WantsClose
     ELSE rx' = None /\ UNCHANGED <<conn, levin, timer, pc>>

(* handle_recv; the strand is blocked while the handlers are locked.        *)
Receive ==
  /\ StrandIdle /\ conn.reading /\ net.inbox # <<>> /\ ~conn.was_shutdown
  /\ net' = [net EXCEPT !.inbox = Tail(@)]
  /\ \/ levin.close_called /\ WantsClose
     \/ ~levin.close_called /\ Responds(Head(net.inbox))
     \/ /\ ~levin.close_called /\ levin.lock # None
        /\ rx' = [call |-> None, reply |-> Head(net.inbox)]
        /\ UNCHANGED <<conn, levin, timer, pc>>
  /\ UNCHANGED <<seen, results>>

Unblock ==
  /\ rx # None /\ rx.call = None
  /\ Responds(rx.reply)
  /\ UNCHANGED <<net, seen, results>>

Handle ==
  /\ rx # None /\ rx.call # None
  /\ Callback(rx.call, rx.reply)
  /\ conn' = unref(conn) /\ levin' = uncounted(levin)
  /\ rx' = None
  /\ UNCHANGED <<net, timer, pc, seen>>

(* A read fails; at the end of the stream a connection that still has       *)
(* something to send is not shut down.                                      *)
ReadFails(eof) ==
  /\ StrandIdle /\ conn.reading
  /\ conn' = [conn EXCEPT !.reading = FALSE]
  /\ StrandShuts(~eof \/ net.que = <<>>)
  /\ UNCHANGED <<net, levin, timer, seen, rx, results>>

Destroy_unreferenced ==
  /\ ~conn.destroyed
  /\ ~conn.reading /\ ~net.writing /\ rx = None
  /\ conn.want_close \/ conn.was_shutdown
  /\ \A x \in Closers : pc[x] \in {"idle", "end"}
  /\ conn' = [conn EXCEPT !.destroyed = TRUE, !.was_shutdown = TRUE]
  /\ levin' = [levin EXCEPT !.released = TRUE, !.handlers = <<>>]
  /\ UNCHANGED <<net, timer, pc, seen, rx, results>>

(* The last reference is gone: no operation is pending, no call in progress.*)
(* Only a connection that was closed has its timer off.                     *)
Destroy ==
  /\ ~conn.destroyed /\ conn.refs = 0
  /\ ~conn.reading /\ ~net.writing /\ rx = None
  /\ conn.want_close \/ conn.was_shutdown
  /\ \A x \in Closers : pc[x] \in {"idle", "end"}
  /\ conn' = [conn EXCEPT !.destroyed = TRUE, !.was_shutdown = TRUE]
  /\ levin' = [levin EXCEPT !.released = TRUE, !.handlers = <<>>]
  /\ UNCHANGED <<net, timer, pc, seen, rx, results>>

Shuts(x) == Shutdown(x) \/ Release(x) \/ CancelOne(x)
Closing(x) == Close(x) \/ WantClose(x) \/ Shuts(x)
Invoking(c) ==
  \/ FindAndLock(c) \/ Send(c) \/ SendWaits(c) \/ AddHandler(c)
  \/ Fail(c) \/ Finish(c) \/ Shuts(Invoker(c))
TimerRuns(c) == TimerCallback(c) \/ TimerFinish(c)
Writing == WriteDone \/ WriteFails

Next ==
  \/ \E c \in Calls : Invoking(c) \/ Expire(c) \/ TimerRuns(c)
  \/ \E x \in Closers : Closing(x)
  \/ Notify \/ NodeClose(TRUE) \/ NodeClose(FALSE)
  \/ Writing \/ Reply \/ Receive \/ Unblock \/ Handle
  \/ ReadFails(TRUE) \/ ReadFails(FALSE) \/ Destroy

(* Every thread goes on, an armed timer expires, a write ends, a read from a*)
(* socket that is shut down fails, and the node sends its periodic messages *)
(* while the connection is open.  The peer need not answer.                 *)
Spec ==
  /\ Init /\ [][Next]_vars
  /\ \A c \in Calls :
       /\ WF_vars(Invoking(c))
       /\ WF_vars(Expire(c) \/ TimerRuns(c) \/ Closing(Timer(c)))
  /\ WF_vars(Closing(Node))
  /\ WF_vars(\/ Closing(Strand) \/ Unblock \/ Handle \/ Writing
             \/ (conn.was_shutdown /\ ReadFails(FALSE)))
  /\ WF_vars(Notify \/ Destroy)
-----------------------------------------------------------------------------
(* async_invoke, handle, cancel and the timer of a call can all call back.  *)
(* A call is told its outcome at most once; when invoke_async returns false *)
(* it was told of the error, and a call that was refused is never told.     *)
CallbackOnce ==
  \A c \in Calls :
    /\ Len(results[c]) <= 1
    /\ pc[Invoker(c)] = "false" => results[c] = <<"error">>
    /\ pc[Invoker(c)] \in {"start", "refused", "end"} => results[c] = <<>>

(* A response carries nothing that names its request: handle_recv gives it  *)
(* to the oldest handler.  It is still the reply to that handler's request, *)
(* also when a handler before it timed out and a response was dropped.      *)
ReplyIsOwn ==
  \A c \in Calls : \A i \in DOMAIN results[c] :
    results[c][i] \in Calls => results[c][i] = c

(* When the connection object is destroyed, no timer that refers to it can  *)
(* fire any more and every call that was accepted has been told its outcome.*)
DestroyedIsDone ==
  conn.destroyed =>
    \A c \in Calls :
      /\ timer[c] # "armed" /\ pc[Timer(c)] \in {"idle", "end"}
      /\ pc[Invoker(c)] \in {"true", "false"} => Len(results[c]) = 1

(* A call that got hold of the connection is told its outcome, whatever the *)
(* peer does: do_handshake_with_peer waits for that without a time limit.   *)
InvokeIsAnswered ==
  []<>(\A c \in Calls :
         pc[Invoker(c)] \notin {"start", "refused", "end"} => results[c] # <<>>)
(* close() takes effect, even when the last write ends between its look at  *)
(* the send queue and its setting of m_want_close_connection: neither shuts *)
(* the connection down then, and the end of the next write does.            *)
CloseTakesEffect == levin.close_called ~> conn.was_shutdown
(* A connection that was shut down is destroyed: no call, handler or timer  *)
(* holds on to it for ever.                                                 *)
ShutdownFrees == conn.was_shutdown ~> conn.destroyed
=============================================================================
