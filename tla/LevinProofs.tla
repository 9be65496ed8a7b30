---------------------------- MODULE LevinProofs -----------------------------
(***************************************************************************)
(* The strand and the end of a connection keep the invariant as well, and  *)
(* the invariant implies what the connection promises to its callers.      *)
(* Lists of calls that are in line with one another: what a request and a  *)
(* reply do to the order when they move on.                                *)
(***************************************************************************)
EXTENDS LevinInvariant

(* Writes, replies on their way and reads that fail.                       *)
LEMMA StrandStep ==
  ASSUME LevinInv, Writing \/ Reply \/ ReadFails(TRUE) \/ ReadFails(FALSE)
  PROVE  LevinInv'
<1>1. UNCHANGED <<levin, timer, rx, results>>
  BY Zenon DEF Writing, WriteDone, WriteFails, Reply, ReadFails
<1>2. UNCHANGED pc \/ Goto(Strand, "shutdown")
  BY DEF Writing, WriteDone, WriteFails, Reply, ReadFails, StrandShuts
<1>3. "shutdown" \in Places /\ "shutdown" \notin Closed
  BY DEF Places, Before, Trying, Closed
<1>4. /\ conn' \in Connections /\ conn'.refs = conn.refs
      /\ conn'.destroyed = conn.destroyed /\ conn'.was_shutdown = conn.was_shutdown
  BY Zenon DEF Writing, WriteDone, WriteFails, Reply, ReadFails, LevinInv, Types, Connections
<1>5. NetTypes'
  <2>1. NetTypes
    BY DEF LevinInv
  <2>2. CASE WriteDone
    <3>1. net.que \in Seq(Calls \union {Note}) /\ net.que # <<>> /\ net.wire \in Seq(Calls)
      BY <2>1, <2>2 DEF WriteDone, NetTypes
    <3>2. Tail(net.que) \in Seq(Calls \union {Note})
      BY <3>1, HeadTailProperties
    <3>3. \A msg \in Calls : Append(net.wire, msg) \in Seq(Calls)
      BY <3>1, AppendProperties
    <3>4. (IF Head(net.que) \in Calls THEN Append(net.wire, Head(net.que)) ELSE net.wire)
            \in Seq(Calls)
      BY <3>1, <3>3
    <3> QED BY Zenon, <2>1, <2>2, <3>2, <3>4 DEF WriteDone, NetTypes
  <2>3. CASE WriteFails
    BY Zenon, <2>1, <2>3 DEF WriteFails, NetTypes
  <2>4. CASE Reply
    <3>1. net.wire \in Seq(Calls) /\ net.wire # <<>> /\ net.inbox \in Seq(Calls)
      BY <2>1, <2>4 DEF Reply, NetTypes
    <3>2. Tail(net.wire) \in Seq(Calls) /\ Head(net.wire) \in Calls
      BY <3>1, HeadTailProperties
    <3>3. Append(net.inbox, Head(net.wire)) \in Seq(Calls)
      BY <3>1, <3>2, AppendProperties
    <3> QED BY Zenon, <2>1, <2>4, <3>2, <3>3 DEF Reply, NetTypes
  <2>5. CASE ReadFails(TRUE) \/ ReadFails(FALSE)
    BY <2>1, <2>5 DEF ReadFails, NetTypes
  <2> QED BY Zenon, <2>2, <2>3, <2>4, <2>5 DEF Writing
<1> QED BY <1>1, <1>2, <1>3, <1>4, <1>5, OutsideStep DEF LevinInv, Types, Delivering

(* handle_recv with a reply in hand, when it is delivering none: the reply *)
(* goes to the first handler if its timer can still be stopped.            *)
LEMMA RespondsStep ==
  ASSUME LevinInv, NetTypes', \A c \in Calls : ~Delivering(c), UNCHANGED results,
         NEW reply \in Calls, Responds(reply) \/ WantsClose
  PROVE  LevinInv'
<1> USE DEF LevinInv
<1>1. CASE WantsClose
  <2>1. UNCHANGED pc \/ Goto(Strand, "shutdown")
    BY <1>1 DEF WantsClose, StrandShuts
  <2>2. "shutdown" \in Places /\ "shutdown" \notin Closed
    BY DEF Places, Before, Trying, Closed
  <2>3. /\ conn' \in Connections /\ conn'.refs = conn.refs
        /\ conn'.destroyed = conn.destroyed /\ conn'.was_shutdown = conn.was_shutdown
    BY Zenon, <1>1 DEF WantsClose, Types, Connections
  <2>4. UNCHANGED <<levin, timer>> /\ rx' = None
    BY <1>1 DEF WantsClose
  <2>5. \A c \in Calls : ~Delivering(c)'
    BY <2>4 DEF Delivering
  <2> QED BY <2>1, <2>2, <2>3, <2>4, <2>5, OutsideStep DEF Types
<1>2. CASE rx' = None /\ UNCHANGED <<conn, levin, timer, pc>>
  <2>1. \A c \in Calls : ~Delivering(c)'
    BY <1>2 DEF Delivering
  <2> QED BY <1>2, <2>1, OutsideStep DEF Types
<1>3. CASE /\ levin.handlers # <<>> /\ TakesReply(reply)
           /\ cancels(levin.handlers[1])
  <2>1. PICK c \in Calls : c = levin.handlers[1] /\ Tail(levin.handlers) \in Seq(Calls)
    <3>1. levin.handlers \in Seq(Calls)
      BY DEF Types, Protocols
    <3> QED BY <1>3, <3>1, HeadTailProperties, ElementOfSeq, EmptySeq
  <2>2. /\ cancels(c) /\ timer' = [timer EXCEPT ![c] = "off"]
        /\ levin' = [levin EXCEPT !.handlers = Tail(@)]
        /\ rx' = [call |-> c, reply |-> reply] /\ UNCHANGED <<conn, pc>>
    BY <1>3, <2>1 DEF TakesReply
  <2>3. timer[c] = "armed" /\ Outcome(c)
    BY <2>2 DEF cancels, Outcomes
  <2>4. /\ rx' \in [call : Calls \union {None}, reply : Calls]
        /\ rx' # None /\ rx'.call = c
    BY <2>2, CallsAssumption
  <2>5. Delivering(c)' /\ \A d \in Calls \ {c} : ~Delivering(d)'
    BY <2>4 DEF Delivering
  <2>6. /\ timer' \in [Calls -> {"none", "armed", "expired", "off"}]
        /\ timer'[c] = "off" /\ \A d \in Calls \ {c} : timer'[d] = timer[d]
    BY <2>2 DEF Types
  <2>7. levin' \in Protocols /\ levin'.leaving = levin.leaving
    BY Zenon, <2>1, <2>2 DEF Types, Protocols
  <2>8. Types'
    BY <2>2, <2>4, <2>6, <2>7 DEF Types
  <2>9. OneCancels'
    BY <2>2, <2>7, StaysClear
  <2>10. Outcome(c)'
    BY <2>2, <2>3, <2>5, <2>6 DEF Outcome, Before, Trying
  <2>11. \A d \in Calls \ {c} : Untouched(d)
    BY <2>2, <2>5, <2>6 DEF Untouched
  <2>12. /\ Outcomes' /\ Callers' \ {c} = Callers \ {c} /\ Waiting' \ {c} = Waiting \ {c}
    BY <2>10, <2>11, OneCall
  <2>13. c \in Waiting /\ c \in Waiting' /\ (c \in Callers' <=> c \in Callers)
    BY <2>2, <2>3, <2>5 DEF Waiting, Callers
  <2>14. Callers' = Callers /\ Waiting' = Waiting
    BY <2>12, <2>13
  <2> QED BY <2>2, <2>8, <2>9, <2>12, <2>14, SameHolders
<1> QED BY <1>1, <1>2, <1>3 DEF Responds, TakesReply

(* A reply is received, at once or when the handlers are unlocked.         *)
LEMMA ReceiveStep ==
  ASSUME LevinInv, Receive \/ Unblock
  PROVE  LevinInv'
<1> USE DEF LevinInv
<1>1. CASE Receive
  <2>1. PICK reply \in Calls : reply = Head(net.inbox) /\ Tail(net.inbox) \in Seq(Calls)
    BY <1>1, HeadTailProperties DEF Receive, NetTypes
  <2>2. NetTypes' /\ rx = None /\ UNCHANGED results
    BY Zenon, <1>1, <2>1 DEF Receive, StrandIdle, NetTypes
  <2>3. \A c \in Calls : ~Delivering(c)
    BY <2>2 DEF Delivering
  <2>4. CASE Responds(reply) \/ WantsClose
    BY <2>2, <2>3, <2>4, RespondsStep
  <2>5. CASE rx' = [call |-> None, reply |-> reply] /\ UNCHANGED <<conn, levin, timer, pc>>
    <3>1. /\ rx' \in [call : Calls \union {None}, reply : Calls]
          /\ rx'.call = None
      BY <2>5
    <3>2. \A c \in Calls : ~Delivering(c)'
      BY <3>1, CallsAssumption DEF Delivering
    <3> QED BY <2>2, <2>3, <2>5, <3>1, <3>2, OutsideStep DEF Types
  <2> QED BY <1>1, <2>1, <2>4, <2>5 DEF Receive
<1>2. CASE Unblock
  <2>1. rx.reply \in Calls /\ rx.call = None /\ Responds(rx.reply) /\ UNCHANGED <<net, results>>
    BY <1>2 DEF Unblock, Types
  <2>2. PICK reply \in Calls : reply = rx.reply
    BY <2>1
  <2>3. NetTypes' /\ \A c \in Calls : ~Delivering(c)
    BY <2>1, CallsAssumption DEF NetTypes, Delivering
  <2> QED BY <2>1, <2>2, <2>3, RespondsStep
<1> QED BY <1>1, <1>2

(* The reply is handed over and the handler gives its reference back.      *)
LEMMA HandleStep ==
  ASSUME LevinInv, Handle
  PROVE  LevinInv'
<1> USE DEF LevinInv
<1>1. PICK c \in Calls : rx # None /\ rx.call = c /\ rx.reply \in Codes
  BY DEF Handle, Types, Codes
<1>2. /\ Callback(c, rx.reply) /\ conn' = unref(conn) /\ levin' = uncounted(levin)
      /\ rx' = None /\ UNCHANGED <<net, timer, pc>>
  BY <1>1 DEF Handle
<1>3. Outcome(c) /\ timer[c] = "off" /\ results[c] = <<>>
  BY <1>1 DEF Outcomes, Outcome, Delivering
<1>4. /\ results' \in [Calls -> Seq(Codes)] /\ Len(results'[c]) = 1
      /\ \A d \in Calls \ {c} : results'[d] = results[d]
  BY <1>1, <1>2, <1>3, Told
<1>5. \A d \in Calls : ~Delivering(d)' /\ (d # c => ~Delivering(d))
  BY <1>1, <1>2 DEF Delivering
<1>6. /\ conn' \in Connections /\ conn'.refs = conn.refs - 1
      /\ conn'.destroyed = conn.destroyed /\ conn'.was_shutdown = conn.was_shutdown
      /\ levin' \in Protocols /\ levin'.leaving = levin.leaving
  BY <1>2, RefFacts, CountFacts DEF Types
<1>7. NetTypes' /\ Types'
  BY <1>2, <1>4, <1>6 DEF NetTypes, Types
<1>8. OneCancels'
  BY <1>2, <1>6, StaysClear
<1>9. Outcome(c)'
  BY <1>2, <1>3, <1>4, <1>5 DEF Outcome, Before, Trying
<1>10. \A d \in Calls \ {c} : Untouched(d)
  BY <1>2, <1>4, <1>5 DEF Untouched
<1>11. c \in Waiting /\ c \notin Waiting' /\ (c \in Callers' <=> c \in Callers)
  BY <1>1, <1>2, <1>3, <1>5 DEF Waiting, Callers, Delivering
<1>12. Outcomes' /\ RefsCounted' /\ DestroyedIsFree'
  BY <1>6, <1>9, <1>10, <1>11, OneCall, OneLess
<1> QED BY <1>7, <1>8, <1>12

(* The last reference is gone, so no call holds one.                       *)
LEMMA DestroyStep ==
  ASSUME LevinInv, Destroy
  PROVE  LevinInv'
<1> USE DEF LevinInv
<1>1. UNCHANGED <<net, timer, pc, rx, results>> /\ conn.refs = 0
  BY DEF Destroy
<1>2. Callers = {} /\ Waiting = {}
  <2>1. Cardinality(Callers) = 0 /\ Cardinality(Waiting) = 0
    BY <1>1, HoldersFinite DEF RefsCounted
  <2> QED BY <2>1, HoldersFinite, FS_EmptySet
<1>3. Callers' = Callers /\ Waiting' = Waiting
  BY <1>1 DEF Callers, Waiting, Delivering
<1>4. conn' \in Connections /\ conn'.refs = conn.refs /\ conn'.was_shutdown
  BY Zenon DEF Destroy, Types, Connections
<1>5. levin' \in Protocols /\ levin'.leaving = levin.leaving
  <2>1. <<>> \in Seq(Calls)
    BY EmptySeq
  <2> QED BY Zenon, <2>1 DEF Destroy, Types, Protocols
<1>6. NetTypes' /\ Types'
  BY <1>1, <1>4, <1>5 DEF NetTypes, Types
<1>7. OneCancels'
  BY <1>1, <1>4, <1>5, StaysClear
<1>8. Outcomes'
  BY <1>1 DEF Outcomes, Outcome, Delivering
<1>9. RefsCounted' /\ DestroyedIsFree'
  BY <1>2, <1>3, <1>4 DEF RefsCounted, DestroyedIsFree
<1> QED BY <1>6, <1>7, <1>8, <1>9
-----------------------------------------------------------------------------
(* No thread has started, no timer is armed and nobody has been told.      *)
LEMMA LevinInit == Init => LevinInv
<1> SUFFICES ASSUME Init PROVE LevinInv
  OBVIOUS
<1>1. NetTypes
  BY EmptySeq DEF Init, NetTypes
<1>2. /\ \A c \in Calls : /\ pc[Invoker(c)] \in {"start", "end"}
                          /\ pc[Timer(c)] = "idle"
      /\ pc \in [Threads -> {"start", "end", "idle"}]
  <2>1. PICK s \in Scenarios :
          pc = [x \in Threads |->
               CASE x \in Invokers -> IF x[2] \in s.calls THEN "start" ELSE "end"
                 [] x = Node -> IF s.closes THEN "idle" ELSE "end"
                 [] OTHER -> "idle"]
    BY DEF Init
  <2>2. \A x \in Invokers : x # Node
    BY ThreadFacts
  <2>3. \A x \in Invokers : x \in Threads => pc[x] \in {"start", "end"}
    BY <2>1, <2>2
  <2>4. \A x \in Timers : x \in Threads /\ x \notin Invokers /\ x # Node => pc[x] = "idle"
    BY <2>1
  <2>5. \A x \in Threads : pc[x] \in {"start", "end", "idle"}
    BY <2>1, <2>2
  <2> QED BY <2>1, <2>3, <2>4, <2>5, ThreadFacts
<1>3. Types
  <2>1. <<>> \in Seq(Calls) /\ <<>> \in Seq(Codes)
    BY EmptySeq
  <2>2. conn \in Connections /\ levin \in Protocols
    BY <2>1 DEF Init, Connections, Protocols
  <2>3. pc \in [Threads -> Places]
    BY <1>2 DEF Places, Before
  <2> QED BY <2>1, <2>2, <2>3 DEF Init, Types
<1>4. OneCancels
  <2>1. \A x \in Threads : pc[x] \notin Closed
    BY <1>2 DEF Closed
  <2> QED BY <2>1 DEF OneCancels, Closed
<1>5. Outcomes
  BY <1>2 DEF Init, Outcomes, Outcome, Before, Delivering
<1>6. Callers = {} /\ Waiting = {}
  BY <1>2 DEF Init, Callers, Waiting, Busy, Trying, Closed, Delivering
<1>7. RefsCounted /\ DestroyedIsFree
  BY <1>6, FS_EmptySet DEF Init, RefsCounted, DestroyedIsFree
<1> QED BY <1>1, <1>3, <1>4, <1>5, <1>7 DEF LevinInv

(* The invariant is inductive.                                             *)
LEMMA LevinStep == LevinInv /\ [Next]_vars => LevinInv'
<1> SUFFICES ASSUME LevinInv, [Next]_vars PROVE LevinInv'
  OBVIOUS
<1>1. ASSUME NEW c \in Calls, Invoking(c) PROVE LevinInv'
  <2>1. Invoker(c) \in Threads
    BY ThreadFacts
  <2> QED BY <1>1, <2>1, FindAndLockStep, SendStep, AddHandlerStep, InvokeReturns,
             ShutdownStep, CancelStep DEF Invoking, Shuts
<1>2. ASSUME NEW x \in Closers, Closing(x) PROVE LevinInv'
  <2>1. x \in Threads
    BY ThreadFacts
  <2> QED BY <1>2, <2>1, CloseStep, ShutdownStep, CancelStep DEF Closing, Shuts
<1>3. CASE UNCHANGED vars
  <2>1. NetTypes' /\ Types' /\ OneCancels'
    BY <1>3 DEF vars, LevinInv, NetTypes, Types, OneCancels
  <2>2. Outcomes'
    BY <1>3 DEF vars, LevinInv, Outcomes, Outcome, Delivering
  <2>3. Callers' = Callers /\ Waiting' = Waiting
    BY <1>3 DEF vars, Callers, Waiting, Delivering
  <2>4. RefsCounted' /\ DestroyedIsFree'
    BY <1>3, <2>3 DEF vars, LevinInv, RefsCounted, DestroyedIsFree
  <2> QED BY <2>1, <2>2, <2>4 DEF LevinInv
<1> QED BY Zenon, <1>1, <1>2, <1>3, TimerStep, NodeStep, StrandStep, ReceiveStep,
           HandleStep, DestroyStep DEF Next

LEMMA LevinAlways == Spec => []LevinInv
BY LevinInit, LevinStep, PTL DEF Spec

(* A call is told its outcome at most once, with an error if invoke_async  *)
(* returns false and never if it was refused: async_invoke, handle, cancel *)
(* and the timer leave each call to one of them.                           *)
THEOREM LevinCallbackOnce == Spec => []CallbackOnce
<1>1. LevinInv => CallbackOnce
  <2> SUFFICES ASSUME LevinInv, NEW c \in Calls
               PROVE  /\ Len(results[c]) <= 1
                      /\ pc[Invoker(c)] = "false" => results[c] = <<"error">>
                      /\ pc[Invoker(c)] \in {"start", "refused", "end"} => results[c] = <<>>
    BY DEF CallbackOnce
  <2>1. Outcome(c) /\ timer[c] \in {"none", "armed", "expired", "off"}
    BY DEF LevinInv, Outcomes, Types
  <2>2. Len(<<>>) = 0 /\ Len(<<"error">>) = 1
    BY EmptySeq, FirstOutcome DEF Codes
  <2>3. Len(results[c]) \in {0, 1}
    <3>1. CASE pc[Invoker(c)] = "false"
      <4>1. results[c] = <<"error">>
        BY <2>1, <3>1 DEF Outcome
      <4> QED BY <2>2, <4>1, Zenon
    <3>2. CASE results[c] = <<>>
      BY <2>2, <3>2, Zenon
    <3>3. CASE pc[Invoker(c)] # "false" /\ results[c] # <<>>
      BY <2>1, <3>3 DEF Outcome
    <3> QED BY <3>1, <3>2, <3>3
  <2>4. Len(results[c]) <= 1
    <3>1. \A n \in {0, 1} : n <= 1
      OBVIOUS
    <3> QED BY <2>3, <3>1, Zenon
  <2>5. pc[Invoker(c)] = "false" => results[c] = <<"error">>
    BY <2>1, Zenon DEF Outcome
  <2>6. pc[Invoker(c)] \in {"start", "refused", "end"} => results[c] = <<>>
    BY <2>1 DEF Outcome, Before
  <2> QED BY <2>4, <2>5, <2>6, Zenon
<1> QED BY <1>1, LevinAlways, PTL

(* When the connection object is destroyed no timer can fire any more and  *)
(* every call that was accepted has been told: each of them held one of    *)
(* the references that were waited for.                                    *)
THEOREM LevinDestroyedIsDone == Spec => []DestroyedIsDone
<1>1. LevinInv => DestroyedIsDone
  <2> SUFFICES ASSUME LevinInv, conn.destroyed, NEW c \in Calls
               PROVE  /\ timer[c] # "armed" /\ pc[Timer(c)] \in {"idle", "end"}
                      /\ pc[Invoker(c)] \in {"true", "false"} => Len(results[c]) = 1
    BY DEF DestroyedIsDone
  <2>1. c \notin Callers /\ c \notin Waiting
    BY DEF LevinInv, DestroyedIsFree
  <2>2. Outcome(c) /\ timer[c] \in {"none", "armed", "expired", "off"}
    BY DEF LevinInv, Outcomes, Types
  <2>3. timer[c] # "armed" /\ (timer[c] = "expired" => pc[Timer(c)] = "end") /\ ~Delivering(c)
    BY <2>1 DEF Waiting
  <2>4. Len(<<"error">>) = 1
    OBVIOUS
  <2> QED BY Zenon, <2>2, <2>3, <2>4 DEF Outcome
<1> QED BY <1>1, LevinAlways, PTL
-----------------------------------------------------------------------------
(* The calls of a list are in S, after the first n, and in its order.      *)
Lined(S, n, list) == \A i \in 1..Len(list) : n + i <= Len(S) /\ S[n + i] = list[i]

(* The calls of the send queue are what S has after the first n.           *)
Queued(S, n, que) ==
  /\ n <= Len(S)
  /\ \A j \in (n + 1)..Len(S) : \E k \in 1..Len(que) : que[k] = S[j]
  /\ \A k \in 1..Len(que) : que[k] \in Calls => \E j \in (n + 1)..Len(S) : S[j] = que[k]
  /\ \A i, j \in (n + 1)..Len(S), k, l \in 1..Len(que) :
       S[i] = que[k] /\ S[j] = que[l] => (i < j <=> k < l)

(* Requests and replies on their way are those of the calls in S, in order.*)
InLine(S, front, inbox, wire, que) ==
  /\ Lined(S, 0, front)
  /\ Lined(S, Len(front), inbox)
  /\ Lined(S, Len(front) + Len(inbox), wire)
  /\ Queued(S, Len(front) + Len(inbox) + Len(wire), que)
-----------------------------------------------------------------------------
(* What Append and Tail do to the elements of a list.                      *)
LEMMA Listed ==
  ASSUME NEW T, NEW s \in Seq(T)
  PROVE  /\ Len(s) \in Nat /\ \A i \in 1..Len(s) : s[i] \in T
         /\ \A e \in T : /\ Append(s, e) \in Seq(T)
                         /\ Len(Append(s, e)) = Len(s) + 1
                         /\ Append(s, e)[Len(s) + 1] = e
                         /\ \A i \in 1..Len(s) : Append(s, e)[i] = s[i]
         /\ s # <<>> => /\ Tail(s) \in Seq(T) /\ Len(Tail(s)) = Len(s) - 1 /\ Len(s) >= 1
                        /\ Head(s) = s[1] /\ \A i \in 1..(Len(s) - 1) : Tail(s)[i] = s[i + 1]
<1>1. Len(s) \in Nat /\ \A i \in 1..Len(s) : s[i] \in T
  BY LenProperties, ElementOfSeq
<1>2. ASSUME NEW e \in T
      PROVE  /\ Append(s, e) \in Seq(T) /\ Len(Append(s, e)) = Len(s) + 1
             /\ Append(s, e)[Len(s) + 1] = e
             /\ \A i \in 1..Len(s) : Append(s, e)[i] = s[i]
  BY AppendProperties
<1>3. s # <<>> => /\ Tail(s) \in Seq(T) /\ Len(Tail(s)) = Len(s) - 1 /\ Len(s) >= 1
                  /\ Head(s) = s[1] /\ \A i \in 1..(Len(s) - 1) : Tail(s)[i] = s[i + 1]
  BY HeadTailProperties, EmptySeq
<1> QED BY <1>1, <1>2, <1>3

(* A request goes into the send queue.                                     *)
LEMMA CallPushed ==
  ASSUME NEW S \in Seq(Calls), NEW front \in Seq(Calls), NEW inbox \in Seq(Calls),
         NEW wire \in Seq(Calls), NEW que \in Seq(Calls \union {Note}),
         InLine(S, front, inbox, wire, que),
         NEW c \in Calls, \A i \in 1..Len(S) : S[i] # c
  PROVE  InLine(Append(S, c), front, inbox, wire, Append(que, c))
<1> DEFINE n == Len(front) + Len(inbox) + Len(wire)
           S1 == Append(S, c)
           q1 == Append(que, c)
<1>1. /\ Len(S) \in Nat /\ Len(S1) = Len(S) + 1 /\ S1[Len(S) + 1] = c
      /\ \A i \in 1..Len(S) : S1[i] = S[i]
      /\ Len(front) \in Nat /\ Len(inbox) \in Nat /\ Len(wire) \in Nat
  BY Listed
<1>2. /\ Len(que) \in Nat /\ Len(q1) = Len(que) + 1 /\ q1[Len(que) + 1] = c
      /\ \A k \in 1..Len(que) : q1[k] = que[k]
  BY Listed
<1>3. /\ Lined(S1, 0, front) /\ Lined(S1, Len(front), inbox)
      /\ Lined(S1, Len(front) + Len(inbox), wire)
  BY <1>1 DEF InLine, Lined
<1>4. Queued(S, n, que) /\ n \in Nat
  BY <1>1 DEF InLine
<1> HIDE DEF n, S1, q1
<1>5. \A k \in 1..Len(que) : que[k] # c
  BY <1>1, <1>4 DEF Queued
<1>6. \A j \in (n + 1)..Len(S1) :
        \/ j = Len(S) + 1 /\ S1[j] = c
        \/ j \in (n + 1)..Len(S) /\ S1[j] = S[j] /\ S1[j] # c
  BY <1>1, <1>4
<1>7. \A k \in 1..Len(q1) :
        \/ k = Len(que) + 1 /\ q1[k] = c
        \/ k \in 1..Len(que) /\ q1[k] = que[k] /\ q1[k] # c
  BY <1>2, <1>5
<1>8. /\ (n + 1)..Len(S) \subseteq (n + 1)..Len(S1) /\ Len(S) + 1 \in (n + 1)..Len(S1)
      /\ 1..Len(que) \subseteq 1..Len(q1) /\ Len(que) + 1 \in 1..Len(q1)
  BY <1>1, <1>2, <1>4 DEF Queued
<1>9. Queued(S1, n, q1)
  <2>1. n <= Len(S1)
    BY <1>1, <1>4 DEF Queued
  <2>2. ASSUME NEW j \in (n + 1)..Len(S1) PROVE \E k \in 1..Len(q1) : q1[k] = S1[j]
    <3>1. CASE S1[j] = c
      BY <1>2, <1>8, <3>1
    <3>2. CASE S1[j] # c
      <4>1. PICK k \in 1..Len(que) : que[k] = S[j] /\ S1[j] = S[j]
        BY <1>4, <1>6, <3>2 DEF Queued
      <4> QED BY <1>2, <1>8, <4>1
    <3> QED BY <3>1, <3>2
  <2>3. ASSUME NEW k \in 1..Len(q1), q1[k] \in Calls PROVE \E j \in (n + 1)..Len(S1) : S1[j] = q1[k]
    <3>1. CASE q1[k] = c
      BY Zenon, <1>1, <1>8, <3>1
    <3>2. CASE q1[k] # c
      <4>1. PICK j \in (n + 1)..Len(S) : S[j] = que[k] /\ q1[k] = que[k]
        BY <1>4, <1>7, <2>3, <3>2 DEF Queued
      <4>2. S1[j] = S[j] /\ j \in (n + 1)..Len(S1)
        BY <1>1, <1>4, <1>8, <4>1
      <4> QED BY <4>1, <4>2
    <3> QED BY <3>1, <3>2
  <2>4. ASSUME NEW i \in (n + 1)..Len(S1), NEW j \in (n + 1)..Len(S1),
               NEW k \in 1..Len(q1), NEW l \in 1..Len(q1),
               S1[i] = q1[k], S1[j] = q1[l]
        PROVE  i < j <=> k < l
    <3>1. CASE S1[i] # c /\ S1[j] # c
      <4>1. /\ S[i] = que[k] /\ S[j] = que[l]
            /\ i \in (n + 1)..Len(S) /\ j \in (n + 1)..Len(S)
            /\ k \in 1..Len(que) /\ l \in 1..Len(que)
        BY Zenon, <1>6, <1>7, <2>4, <3>1
      <4> QED BY Zenon, <1>4, <4>1 DEF Queued
    <3>2. CASE S1[i] = c
      <4>1. i = Len(S) + 1 /\ k = Len(que) + 1
        BY Zenon, <1>6, <1>7, <2>4, <3>2
      <4> QED BY <1>1, <1>2, <1>4, <4>1
    <3>3. CASE S1[i] # c /\ S1[j] = c
      <4>1. /\ j = Len(S) + 1 /\ l = Len(que) + 1
            /\ i \in (n + 1)..Len(S) /\ k \in 1..Len(que)
        BY Zenon, <1>6, <1>7, <2>4, <3>3
      <4> QED BY <1>1, <1>2, <1>4, <4>1
    <3> QED BY <3>1, <3>2, <3>3
  <2> QED BY <2>1, <2>2, <2>3, <2>4 DEF Queued
<1> QED BY <1>3, <1>9 DEF InLine, n, S1, q1

(* Another message goes into the send queue.                               *)
LEMMA NotePushed ==
  ASSUME NEW S, NEW n \in Nat, NEW que \in Seq(Calls \union {Note}), Len(S) \in Nat,
         \A i \in 1..Len(S) : S[i] \in Calls, Queued(S, n, que)
  PROVE  Queued(S, n, Append(que, Note))
<1> DEFINE q1 == Append(que, Note)
<1>1. /\ Len(que) \in Nat /\ Len(q1) = Len(que) + 1 /\ q1[Len(que) + 1] = Note
      /\ \A k \in 1..Len(que) : q1[k] = que[k]
  BY Listed
<1> HIDE DEF q1
<1>2. /\ \A k \in 1..Len(q1) : \/ k = Len(que) + 1 /\ q1[k] = Note
                               \/ k \in 1..Len(que) /\ q1[k] = que[k]
      /\ 1..Len(que) \subseteq 1..Len(q1)
      /\ \A j \in (n + 1)..Len(S) : S[j] # Note
  BY <1>1, CallsAssumption
<1>3. \A j \in (n + 1)..Len(S) : \E k \in 1..Len(q1) : q1[k] = S[j]
  BY <1>1, <1>2 DEF Queued
<1>4. \A k \in 1..Len(q1) : q1[k] \in Calls => \E j \in (n + 1)..Len(S) : S[j] = q1[k]
  BY <1>2, CallsAssumption DEF Queued
<1>5. \A i, j \in (n + 1)..Len(S), k, l \in 1..Len(q1) :
        S[i] = q1[k] /\ S[j] = q1[l] => (i < j <=> k < l)
  <2> SUFFICES ASSUME NEW i \in (n + 1)..Len(S), NEW j \in (n + 1)..Len(S),
                      NEW k \in 1..Len(q1), NEW l \in 1..Len(q1),
                      S[i] = q1[k], S[j] = q1[l]
               PROVE  i < j <=> k < l
    OBVIOUS
  <2>1. /\ k \in 1..Len(que) /\ q1[k] = que[k]
        /\ l \in 1..Len(que) /\ q1[l] = que[l]
    BY <1>2
  <2> QED BY <2>1 DEF Queued
<1> QED BY Zenon, <1>3, <1>4, <1>5 DEF Queued, q1

(* The first message of the send queue is written.                         *)
LEMMA NoteWritten ==
  ASSUME NEW S, NEW n \in Nat, NEW que \in Seq(Calls \union {Note}), que # <<>>, Len(S) \in Nat,
         \A i \in 1..Len(S) : S[i] \in Calls, Queued(S, n, que), Head(que) \notin Calls
  PROVE  Queued(S, n, Tail(que))
<1> DEFINE q1 == Tail(que)
<1>1. /\ Len(que) \in Nat /\ Len(que) >= 1 /\ Len(q1) = Len(que) - 1 /\ que[1] \notin Calls
      /\ \A k \in 1..Len(q1) : q1[k] = que[k + 1]
  BY Listed
<1> HIDE DEF q1
<1>2. /\ \A k \in 1..Len(que) : que[k] \in Calls => k - 1 \in 1..Len(q1) /\ q1[k - 1] = que[k]
      /\ \A k \in 1..Len(q1) : k + 1 \in 1..Len(que) /\ q1[k] = que[k + 1]
  BY <1>1
<1>3. ASSUME NEW j \in (n + 1)..Len(S) PROVE \E k \in 1..Len(q1) : q1[k] = S[j]
  <2>1. PICK k \in 1..Len(que) : que[k] = S[j]
    BY DEF Queued
  <2>2. S[j] \in Calls
    OBVIOUS
  <2> QED BY <1>2, <2>1, <2>2
<1>4. ASSUME NEW k \in 1..Len(q1), q1[k] \in Calls PROVE \E j \in (n + 1)..Len(S) : S[j] = q1[k]
  BY <1>2, <1>4 DEF Queued
<1>5. ASSUME NEW i \in (n + 1)..Len(S), NEW j \in (n + 1)..Len(S),
             NEW k \in 1..Len(q1), NEW l \in 1..Len(q1),
             S[i] = q1[k], S[j] = q1[l]
      PROVE  i < j <=> k < l
  <2>1. i < j <=> k + 1 < l + 1
    BY <1>2, <1>5 DEF Queued
  <2> QED BY <1>1, <2>1
<1> QED BY <1>3, <1>4, <1>5 DEF Queued, q1

(* Written, a request is the next in line.                                 *)
LEMMA CallWritten ==
  ASSUME NEW S, NEW n \in Nat, NEW que \in Seq(Calls \union {Note}), que # <<>>, Len(S) \in Nat,
         \A i \in 1..Len(S) : S[i] \in Calls, Queued(S, n, que), Head(que) \in Calls
  PROVE  /\ n + 1 <= Len(S) /\ S[n + 1] = Head(que)
         /\ Queued(S, n + 1, Tail(que))
<1> DEFINE q1 == Tail(que)
<1>1. /\ Len(que) \in Nat /\ Len(que) >= 1 /\ Len(q1) = Len(que) - 1 /\ que[1] = Head(que)
      /\ \A k \in 1..Len(q1) : q1[k] = que[k + 1]
  BY Listed
<1> HIDE DEF q1
<1>2. PICK first \in (n + 1)..Len(S) : S[first] = que[1]
  BY <1>1 DEF Queued
<1>3. first = n + 1
  <2>1. n + 1 \in (n + 1)..Len(S)
    BY <1>2
  <2>2. PICK k \in 1..Len(que) : que[k] = S[n + 1]
    BY <2>1 DEF Queued
  <2>3. n + 1 < first <=> k < 1
    BY <1>1, <1>2, <2>1, <2>2 DEF Queued
  <2> QED BY <1>2, <2>2, <2>3
<1>4. \A k \in 1..Len(q1) : k + 1 \in 1..Len(que) /\ q1[k] = que[k + 1]
  BY <1>1
<1>5. \A j \in (n + 2)..Len(S) : j \in (n + 1)..Len(S)
  OBVIOUS
<1>6. ASSUME NEW j \in (n + 2)..Len(S) PROVE \E k \in 1..Len(q1) : q1[k] = S[j]
  <2>1. PICK k \in 1..Len(que) : que[k] = S[j]
    BY <1>5 DEF Queued
  <2>2. first < j <=> 1 < k
    BY <1>1, <1>2, <1>5, <2>1 DEF Queued
  <2>3. k - 1 \in 1..Len(q1) /\ q1[k - 1] = que[k]
    BY <1>1, <1>3, <2>2
  <2> QED BY <2>1, <2>3
<1>7. ASSUME NEW k \in 1..Len(q1), q1[k] \in Calls PROVE \E j \in (n + 2)..Len(S) : S[j] = q1[k]
  <2>1. PICK j \in (n + 1)..Len(S) : S[j] = que[k + 1]
    BY <1>4, <1>7 DEF Queued
  <2>2. first < j <=> 1 < k + 1
    BY <1>1, <1>2, <1>4, <2>1 DEF Queued
  <2>3. j \in (n + 2)..Len(S)
    BY <1>1, <1>3, <2>2
  <2> QED BY <1>4, <2>1, <2>3
<1>8. ASSUME NEW i \in (n + 2)..Len(S), NEW j \in (n + 2)..Len(S),
             NEW k \in 1..Len(q1), NEW l \in 1..Len(q1),
             S[i] = q1[k], S[j] = q1[l]
      PROVE  i < j <=> k < l
  <2>1. i < j <=> k + 1 < l + 1
    BY <1>4, <1>5, <1>8 DEF Queued
  <2> QED BY <1>1, <2>1
<1>9. n + 1 <= Len(S) /\ S[n + 1] = Head(que)
  BY <1>1, <1>2, <1>3
<1>10. Queued(S, n + 1, q1)
  <2>1. ((n + 1) + 1)..Len(S) = (n + 2)..Len(S)
    BY SMT
  <2>2. \A j \in ((n + 1) + 1)..Len(S) : \E k \in 1..Len(q1) : q1[k] = S[j]
    BY <1>6, <2>1, Zenon
  <2>3. \A k \in 1..Len(q1) : q1[k] \in Calls => \E j \in ((n + 1) + 1)..Len(S) : S[j] = q1[k]
    BY <1>7, <2>1, Zenon
  <2>4. \A i, j \in ((n + 1) + 1)..Len(S), k, l \in 1..Len(q1) :
          S[i] = q1[k] /\ S[j] = q1[l] => (i < j <=> k < l)
    BY <1>8, <2>1, Zenon
  <2> QED BY <1>9, <2>2, <2>3, <2>4, Zenon DEF Queued
<1> QED BY <1>9, <1>10 DEF q1

(* A message goes out.                                                     *)
LEMMA MessageWritten ==
  ASSUME NEW S \in Seq(Calls), NEW front \in Seq(Calls), NEW inbox \in Seq(Calls),
         NEW wire \in Seq(Calls), NEW que \in Seq(Calls \union {Note}), que # <<>>,
         InLine(S, front, inbox, wire, que)
  PROVE  InLine(S, front, inbox,
                IF Head(que) \in Calls THEN Append(wire, Head(que)) ELSE wire, Tail(que))
<1> DEFINE n == Len(front) + Len(inbox) + Len(wire)
<1>1. /\ Len(S) \in Nat /\ \A i \in 1..Len(S) : S[i] \in Calls
      /\ Len(front) \in Nat /\ Len(inbox) \in Nat /\ Len(wire) \in Nat /\ n \in Nat
  <2>1. Len(S) \in Nat /\ \A i \in 1..Len(S) : S[i] \in Calls
    BY Listed
  <2>2. Len(front) \in Nat /\ Len(inbox) \in Nat /\ Len(wire) \in Nat
    BY Listed
  <2> QED BY <2>1, <2>2
<1>2. Queued(S, n, que)
  BY DEF InLine
<1>3. CASE Head(que) \notin Calls
  <2>1. Queued(S, n, Tail(que))
    <3> HIDE DEF n
    <3> QED BY <1>1, <1>2, <1>3, NoteWritten
  <2> QED BY <1>3, <2>1 DEF InLine
<1>4. CASE Head(que) \in Calls
  <2> DEFINE w1 == Append(wire, Head(que))
  <2>1. /\ Len(w1) = Len(wire) + 1 /\ w1[Len(wire) + 1] = Head(que)
        /\ \A i \in 1..Len(wire) : w1[i] = wire[i]
    BY <1>4, Listed
  <2>2. n + 1 <= Len(S) /\ S[n + 1] = Head(que) /\ Queued(S, n + 1, Tail(que))
    <3> HIDE DEF n
    <3> QED BY Zenon, <1>1, <1>2, <1>4, CallWritten
  <2> HIDE DEF w1
  <2>3. n + 1 = Len(front) + Len(inbox) + Len(w1)
    BY <1>1, <2>1
  <2>4. Lined(S, Len(front) + Len(inbox), w1)
    <3>1. \A i \in 1..Len(w1) : \/ i = Len(wire) + 1 /\ w1[i] = Head(que)
                                \/ i \in 1..Len(wire) /\ w1[i] = wire[i]
      BY <1>1, <2>1
    <3>2. (Len(front) + Len(inbox)) + (Len(wire) + 1) = n + 1
      BY <1>1
    <3>3. Lined(S, Len(front) + Len(inbox), wire)
      BY DEF InLine
    <3> QED BY Zenon, <2>2, <3>1, <3>2, <3>3 DEF Lined
  <2>5. Queued(S, Len(front) + Len(inbox) + Len(w1), Tail(que))
    BY <2>2, <2>3
  <2> QED BY <1>4, <2>4, <2>5 DEF InLine, w1
<1> QED BY <1>3, <1>4

(* The peer answers.                                                       *)
LEMMA CallAnswered ==
  ASSUME NEW S \in Seq(Calls), NEW front \in Seq(Calls), NEW inbox \in Seq(Calls),
         NEW wire \in Seq(Calls), NEW que, wire # <<>>, InLine(S, front, inbox, wire, que)
  PROVE  InLine(S, front, Append(inbox, Head(wire)), Tail(wire), que)
<1> DEFINE i1 == Append(inbox, Head(wire))
           w1 == Tail(wire)
           m == Len(front) + Len(inbox)
<1>1. Len(front) \in Nat /\ Len(S) \in Nat
  BY Listed
<1>2. /\ Len(wire) \in Nat /\ Len(wire) >= 1 /\ Head(wire) = wire[1] /\ Head(wire) \in Calls
      /\ Len(w1) = Len(wire) - 1 /\ \A i \in 1..Len(w1) : w1[i] = wire[i + 1]
  BY Listed
<1>3. /\ Len(inbox) \in Nat /\ Len(i1) = Len(inbox) + 1 /\ i1[Len(inbox) + 1] = wire[1]
      /\ \A i \in 1..Len(inbox) : i1[i] = inbox[i]
  BY <1>2, Listed
<1> HIDE DEF i1, w1
<1>4. Lined(S, Len(front), inbox) /\ Lined(S, m, wire)
  BY DEF InLine
<1>5. m + 1 <= Len(S) /\ S[m + 1] = wire[1]
  BY <1>2, <1>4 DEF Lined
<1>6. Lined(S, Len(front), i1)
  <2>1. \A i \in 1..Len(i1) : \/ i = Len(inbox) + 1 /\ i1[i] = wire[1]
                              \/ i \in 1..Len(inbox) /\ i1[i] = inbox[i]
    BY <1>3
  <2>2. Len(front) + (Len(inbox) + 1) = m + 1
    BY <1>1, <1>3
  <2> QED BY <1>4, <1>5, <2>1, <2>2 DEF Lined
<1>7. Lined(S, Len(front) + Len(i1), w1)
  <2>1. \A i \in 1..Len(w1) : /\ i + 1 \in 1..Len(wire) /\ w1[i] = wire[i + 1]
                              /\ (Len(front) + Len(i1)) + i = m + (i + 1)
    BY <1>1, <1>2, <1>3
  <2> QED BY <1>4, <2>1 DEF Lined
<1>8. Len(front) + Len(i1) + Len(w1) = m + Len(wire)
  BY <1>1, <1>2, <1>3
<1>9. Queued(S, Len(front) + Len(i1) + Len(w1), que)
  BY <1>8 DEF InLine
<1> QED BY <1>6, <1>7, <1>9 DEF InLine, i1, w1

(* A reply is read while the handlers are locked.                          *)
LEMMA ReplyRead ==
  ASSUME NEW S \in Seq(Calls), NEW inbox \in Seq(Calls), NEW wire \in Seq(Calls), NEW que,
         inbox # <<>>, InLine(S, <<>>, inbox, wire, que)
  PROVE  InLine(S, <<Head(inbox)>>, Tail(inbox), wire, que)
<1> DEFINE i1 == Tail(inbox)
           f1 == <<Head(inbox)>>
<1>1. /\ Len(inbox) \in Nat /\ Len(inbox) >= 1 /\ Head(inbox) = inbox[1] /\ Head(inbox) \in Calls
      /\ Len(i1) = Len(inbox) - 1 /\ \A i \in 1..Len(i1) : i1[i] = inbox[i + 1]
  BY Listed
<1>2. Len(f1) = 1 /\ f1[1] = inbox[1] /\ Len(<<>>) = 0 /\ Len(wire) \in Nat /\ Len(S) \in Nat
  BY <1>1, Listed
<1> HIDE DEF i1, f1
<1>3. Lined(S, 0, inbox) /\ Lined(S, 0 + Len(inbox), wire) /\ Queued(S, 0 + Len(inbox) + Len(wire), que)
  BY <1>2 DEF InLine
<1>4. Lined(S, 0, f1)
  BY <1>1, <1>2, <1>3 DEF Lined
<1>5. Lined(S, Len(f1), i1)
  <2>1. \A i \in 1..Len(i1) : i + 1 \in 1..Len(inbox) /\ i1[i] = inbox[i + 1] /\ Len(f1) + i = 0 + (i + 1)
    BY <1>1, <1>2
  <2> QED BY <1>3, <2>1 DEF Lined
<1>6. Len(f1) + Len(i1) = 0 + Len(inbox)
  BY <1>1, <1>2
<1> QED BY <1>3, <1>4, <1>5, <1>6 DEF InLine, i1, f1

(* The list S without its first place, n places ahead.                     *)
LEMMA Shifted ==
  ASSUME NEW S \in Seq(Calls), S # <<>>, NEW n \in Nat, NEW list, Len(list) \in Nat
  PROVE  /\ Lined(S, n + 1, list) => Lined(Tail(S), n, list)
         /\ Queued(S, n + 1, list) => Queued(Tail(S), n, list)
<1> DEFINE T == Tail(S)
<1>1. Len(S) \in Nat /\ Len(S) >= 1 /\ Len(T) = Len(S) - 1 /\ \A i \in 1..Len(T) : T[i] = S[i + 1]
  BY Listed
<1> HIDE DEF T
<1>2. ASSUME Lined(S, n + 1, list) PROVE Lined(T, n, list)
  <2>1. ASSUME NEW i \in 1..Len(list) PROVE n + i <= Len(T) /\ T[n + i] = list[i]
    <3>1. (n + 1) + i <= Len(S) /\ S[(n + 1) + i] = list[i]
      BY <1>2 DEF Lined
    <3>2. n + i \in 1..Len(T) /\ (n + i) + 1 = (n + 1) + i
      BY <1>1, <3>1
    <3> QED BY <1>1, <3>1, <3>2
  <2> QED BY <2>1 DEF Lined
<1>3. ASSUME Queued(S, n + 1, list) PROVE Queued(T, n, list)
  <2>1. /\ \A j \in (n + 1)..Len(T) : j + 1 \in ((n + 1) + 1)..Len(S) /\ T[j] = S[j + 1]
        /\ \A j \in ((n + 1) + 1)..Len(S) : j - 1 \in (n + 1)..Len(T) /\ T[j - 1] = S[j]
    BY <1>1
  <2>2. n <= Len(T)
    BY <1>1, <1>3 DEF Queued
  <2>3. \A j \in (n + 1)..Len(T) : \E k \in 1..Len(list) : list[k] = T[j]
    BY <1>3, <2>1 DEF Queued
  <2>4. \A k \in 1..Len(list) : list[k] \in Calls => \E j \in (n + 1)..Len(T) : T[j] = list[k]
    BY <1>3, <2>1 DEF Queued
  <2>5. ASSUME NEW i \in (n + 1)..Len(T), NEW j \in (n + 1)..Len(T),
               NEW k \in 1..Len(list), NEW l \in 1..Len(list),
               T[i] = list[k], T[j] = list[l]
        PROVE  i < j <=> k < l
    <3>1. i + 1 < j + 1 <=> k < l
      BY <1>3, <2>1, <2>5 DEF Queued
    <3> QED BY <1>1, <3>1
  <2> QED BY <2>2, <2>3, <2>4, <2>5 DEF Queued
<1> QED BY <1>2, <1>3 DEF T

(* The first handler in the list is that of the first reply.               *)
LEMMA ReplyTaken ==
  ASSUME NEW S \in Seq(Calls), NEW reply \in Calls, NEW inbox \in Seq(Calls),
         NEW wire \in Seq(Calls), NEW que \in Seq(Calls \union {Note}),
         InLine(S, <<reply>>, inbox, wire, que)
  PROVE  /\ S # <<>> /\ S[1] = reply
         /\ InLine(Tail(S), <<>>, inbox, wire, que)
<1>1. Len(S) \in Nat /\ Len(inbox) \in Nat /\ Len(wire) \in Nat
  BY Listed
<1>2. Len(que) \in Nat
  BY Listed
<1>3. Len(<<reply>>) = 1 /\ <<reply>>[1] = reply /\ Len(<<>>) = 0
  OBVIOUS
<1>4. S # <<>> /\ S[1] = reply
  <2>1. 0 + 1 <= Len(S) /\ S[0 + 1] = reply
    BY <1>3 DEF InLine, Lined
  <2> QED BY <1>1, <1>3, <2>1
<1>5. Lined(S, 0 + 1, inbox) /\ Lined(S, Len(inbox) + 1, wire)
      /\ Queued(S, Len(inbox) + Len(wire) + 1, que)
  <2>1. /\ 0 + 1 = Len(<<reply>>) /\ Len(inbox) + 1 = Len(<<reply>>) + Len(inbox)
        /\ Len(inbox) + Len(wire) + 1 = Len(<<reply>>) + Len(inbox) + Len(wire)
    BY <1>1, <1>3
  <2> QED BY <2>1 DEF InLine
<1>6. Lined(Tail(S), 0, inbox) /\ Lined(Tail(S), Len(inbox), wire)
      /\ Queued(Tail(S), Len(inbox) + Len(wire), que)
  <2>1. 0 \in Nat /\ Len(inbox) \in Nat /\ Len(inbox) + Len(wire) \in Nat
    BY <1>1
  <2> QED BY <1>1, <1>2, <1>4, <1>5, <2>1, Shifted
<1>7. 0 + Len(inbox) = Len(inbox) /\ Lined(Tail(S), 0, <<>>)
  BY <1>1, <1>3 DEF Lined
<1> QED BY <1>3, <1>4, <1>6, <1>7 DEF InLine
=============================================================================
