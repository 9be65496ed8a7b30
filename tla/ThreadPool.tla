----------------------------- MODULE ThreadPool -----------------------------
(* common/threadpool.cpp: a queue of tasks served by max - 1 worker threads *)
(* and by every thread that waits for its own tasks.  A thread's calls are  *)
(* a stack of frames, the last one running.  A step is what a thread does   *)
(* while it holds one mutex: `mutex' of the pool or `mt' of a waiter.       *)
EXTENDS Integers, Sequences, FiniteSets, SequencesExt

CONSTANTS
  None,
  Workers,      \* the threads of the pool
  Callers,      \* other threads that use the pool
  Tasks,
  Body,         \* the tasks that the body of a caller or task submits
  Leaf,         \* the tasks that are submitted with leaf set
  Detached,     \* the tasks that are submitted without a waiter
  Quitters      \* the callers that may return before they call wait

Threads == Workers \union Callers
Owners == Callers \union Tasks
max == Cardinality(Workers) + 1

ASSUME PoolAssumption ==
  /\ Workers \cap Callers = {} /\ Threads \cap Tasks = {}
  /\ None \notin Threads \union Tasks
  /\ Leaf \subseteq Tasks /\ Detached \subseteq Tasks /\ Quitters \subseteq Callers
  /\ \A o \in Owners : Range(Body[o]) \subseteq Tasks
  /\ \A f \in Tasks : \E o \in Owners : f \in Range(Body[o])

VARIABLES
  queue,
  active,
  running,
  num,          \* waiter::num of the waiter that a caller or task declares
  stack,        \* the calls of each thread
  depth,
  is_leaf,
  place         \* history: where each task is

vars == <<queue, active, running, num, stack, depth, is_leaf, place>>

(* The one body that submits task f, whose waiter f is submitted with.      *)
waiter == [f \in Tasks |-> IF f \in Detached THEN None
                           ELSE CHOOSE o \in Owners : f \in Range(Body[o])]

(* `pc' is the next task to submit; `via' is how the frame was called: by   *)
(* run, inline by submit, or not by the pool; `at' is where it is:          *)
(*   body    in the body itself          num    about to read num           *)
(*   run     in run, about to lock       cv     in cv.wait                  *)
(*   back    in run, a task returned     end    the waiter is destroyed     *)
(*   sleep   in has_work.wait            exit   the worker left run         *)
Frame(who, via, at) == [who |-> who, pc |-> 1, via |-> via, at |-> at]

Top(t) == Last(stack[t])
At(t, where) == Top(t).at = where
Goto(t, where) == [stack EXCEPT ![t] = Append(Front(@), [Last(@) EXCEPT !.at = where])]
Submitted(t) == [Top(t) EXCEPT !.pc = @ + 1]
Next_(t) == Body[Top(t).who][Top(t).pc]

InBody(t) == At(t, "body")
Submitting(t) == InBody(t) /\ Top(t).pc <= Len(Body[Top(t).who])

(* Leaf bodies, and those with nothing to submit, declare no waiter.        *)
Declares(o) == o \notin Leaf /\ Body[o] # <<>>
Finished(t) ==
  \/ At(t, "end")
  \/ InBody(t) /\ ~Submitting(t) /\ ~Declares(Top(t).who)
-----------------------------------------------------------------------------
Init ==
  /\ queue = <<>> /\ active = 0 /\ running = TRUE
  /\ num = [o \in Owners |-> 0]
  /\ stack = [t \in Threads |-> IF t \in Workers THEN <<Frame(t, "thread", "run")>>
                                ELSE <<Frame(t, "thread", "body")>>]
  /\ depth = [t \in Threads |-> 0]
  /\ is_leaf = [t \in Threads |-> FALSE]
  /\ place = [f \in Tasks |-> "idle"]

(* submit throws in a leaf task; the caller catches it and goes on.         *)
SubmitThrows(t) ==
  /\ Submitting(t) /\ is_leaf[t]
  /\ stack' = [stack EXCEPT ![t] = Append(Front(@), Submitted(t))]
  /\ UNCHANGED <<queue, active, running, num, depth, is_leaf, place>>

run_in_current_thread(t, f) ==
  f \notin Leaf /\ ((active = max /\ queue # <<>>) \/ depth[t] > 0)

SubmitInline(t) ==
  /\ Submitting(t) /\ ~is_leaf[t] /\ run_in_current_thread(t, Next_(t))
  /\ LET f == Next_(t)
     IN  /\ stack' = [stack EXCEPT ![t] =
                        Append(Front(@), Submitted(t)) \o <<Frame(f, "inline", "body")>>]
         /\ depth' = [depth EXCEPT ![t] = @ + 1]
         /\ is_leaf' = [is_leaf EXCEPT ![t] = f \in Leaf]
         /\ place' = [place EXCEPT ![f] = "inline"]
  /\ UNCHANGED <<queue, active, running, num>>

(* notify_one wakes one of the threads in has_work.wait, if there is one;   *)
(* in the faulty form it wakes none.                                        *)
sleepers(st) == {t \in Threads : Last(st[t]).at = "sleep"}
wake(st, ts) == [t \in Threads |->
  IF t \in ts THEN Append(Front(st[t]), [Last(st[t]) EXCEPT !.at = "run"]) ELSE st[t]]
notify_one_lost(st) == {st}
notify_one(st) ==
  IF sleepers(st) = {} THEN {st} ELSE {wake(st, {t}) : t \in sleepers(st)}

SubmitQueue(t) ==
  /\ Submitting(t) /\ ~is_leaf[t] /\ ~run_in_current_thread(t, Next_(t))
  /\ LET f == Next_(t)
         w == waiter[f]
     IN  /\ num' = IF w = None THEN num ELSE [num EXCEPT ![w] = @ + 1]
         /\ queue' = IF f \in Leaf THEN <<f>> \o queue ELSE Append(queue, f)
         /\ place' = [place EXCEPT ![f] = "queued"]
         /\ stack' \in notify_one([stack EXCEPT ![t] = Append(Front(@), Submitted(t))])
  /\ UNCHANGED <<active, running, depth, is_leaf>>

(* wait begins with run(true).                                              *)
Wait(t) ==
  /\ InBody(t) /\ ~Submitting(t) /\ Declares(Top(t).who)
  /\ stack' = Goto(t, "run")
  /\ UNCHANGED <<queue, active, running, num, depth, is_leaf, place>>

(* The body returns early: ~waiter calls wait(NULL), which runs nothing.    *)
Quit(t) ==
  /\ InBody(t) /\ Top(t).who \in Quitters
  /\ stack' = Goto(t, "num")
  /\ UNCHANGED <<queue, active, running, num, depth, is_leaf, place>>

(* The loop of run, from lock to unlock.  After a task, active is one less. *)
InRun(t) == At(t, "run") \/ At(t, "back")
active_now(t) == IF At(t, "back") THEN active - 1 ELSE active

TakeWork(t) ==
  /\ InRun(t) /\ running /\ queue # <<>>
  /\ LET f == Head(queue)
     IN  /\ stack' = [stack EXCEPT ![t] =
                        Append(Front(@), [Last(@) EXCEPT !.at = "back"])
                          \o <<Frame(f, "run", "body")>>]
         /\ is_leaf' = [is_leaf EXCEPT ![t] = f \in Leaf]
         /\ place' = [place EXCEPT ![f] = "running"]
  /\ active' = active_now(t) + 1
  /\ queue' = Tail(queue)
  /\ depth' = [depth EXCEPT ![t] = @ + 1]
  /\ UNCHANGED <<running, num>>

(* Nothing to do: run(true) returns and run(false) sleeps; both return once *)
(* the pool stops.                                                          *)
LeaveRun(t) ==
  /\ InRun(t) /\ (queue = <<>> \/ ~running)
  /\ active' = active_now(t)
  /\ stack' = Goto(t, IF Top(t).who \in Owners THEN "num"
                      ELSE IF running THEN "sleep" ELSE "exit")
  /\ UNCHANGED <<queue, running, num, depth, is_leaf, place>>

(* while(num) cv.wait(lock)                                                 *)
CheckNum(t) ==
  /\ At(t, "num")
  /\ stack' = Goto(t, IF num[Top(t).who] # 0 THEN "cv" ELSE "end")
  /\ UNCHANGED <<queue, active, running, num, depth, is_leaf, place>>

(* A faulty form: num is not read again, `if' instead of `while'.           *)
SpuriousWake_if(t) ==
  /\ At(t, "cv") \/ At(t, "sleep")
  /\ stack' = Goto(t, IF At(t, "cv") THEN "end" ELSE "run")
  /\ UNCHANGED <<queue, active, running, num, depth, is_leaf, place>>

(* A condition variable may wake a thread for no reason.                    *)
SpuriousWake(t) ==
  /\ At(t, "cv") \/ At(t, "sleep")
  /\ stack' = Goto(t, IF At(t, "cv") THEN "num" ELSE "run")
  /\ UNCHANGED <<queue, active, running, num, depth, is_leaf, place>>

(* A faulty form: only the end of a nested wait is notified.                *)
notify_all_nested(st, w) == [t \in Threads |->
  IF Last(st[t]).at = "cv" /\ Last(st[t]).who = w /\ Len(st[t]) > 1
  THEN Append(Front(st[t]), [Last(st[t]) EXCEPT !.at = "num"]) ELSE st[t]]

(* dec: the last task of waiter w wakes the threads in its cv.wait.         *)
notify_all(st, w) == [t \in Threads |->
  IF Last(st[t]).at = "cv" /\ Last(st[t]).who = w
  THEN Append(Front(st[t]), [Last(st[t]) EXCEPT !.at = "num"]) ELSE st[t]]

(* A task returns to the call of run or submit that called it.              *)
Return(t) ==
  /\ Len(stack[t]) > 1 /\ Finished(t)
  /\ LET f == Top(t).who
         w == waiter[f]
         popped == [stack EXCEPT ![t] = Front(@)]
     IN  /\ IF Top(t).via = "run" /\ w # None
            THEN /\ num' = [num EXCEPT ![w] = @ - 1]
                 /\ stack' = IF num'[w] = 0 THEN notify_all(popped, w) ELSE popped
            ELSE num' = num /\ stack' = popped
         /\ place' = [place EXCEPT ![f] = "done"]
  /\ depth' = [depth EXCEPT ![t] = @ - 1]
  /\ is_leaf' = [is_leaf EXCEPT ![t] = FALSE]
  /\ UNCHANGED <<queue, active, running>>

(* ~threadpool, once the last user of the pool is gone; in the faulty form  *)
(* it wakes no worker.                                                      *)
CallersGone == \A t \in Callers : Len(stack[t]) = 1 /\ Finished(t)
Destroy_silent ==
  /\ running /\ CallersGone
  /\ running' = FALSE
  /\ UNCHANGED <<queue, active, num, stack, depth, is_leaf, place>>
Destroy ==
  /\ running /\ CallersGone
  /\ running' = FALSE
  /\ stack' = wake(stack, sleepers(stack))
  /\ UNCHANGED <<queue, active, num, depth, is_leaf, place>>

Joined == ~running /\ \A t \in Workers : At(t, "exit")
Done == Joined /\ UNCHANGED vars

Step(t) ==
  \/ SubmitThrows(t) \/ SubmitInline(t) \/ SubmitQueue(t) \/ Wait(t)
  \/ TakeWork(t) \/ LeaveRun(t) \/ CheckNum(t) \/ Return(t)

Next ==
  \/ \E t \in Threads : Step(t) \/ Quit(t) \/ SpuriousWake(t)
  \/ Destroy \/ Done

(* A runnable thread is scheduled in the end, and gets a mutex it waits for *)
(* (nobody keeps one: each step takes and releases it), and tasks return.   *)
(* Nothing forces a body to quit, a wake-up without cause or the end of the *)
(* process.                                                                 *)
Spec == Init /\ [][Next]_vars /\ \A t \in Threads : WF_vars(Step(t))
-----------------------------------------------------------------------------
(* When a body has returned, no task it submitted with its waiter is queued *)
(* or running: tasks refer to the variables of the body that submits them.  *)
Over(o) == IF o \in Callers THEN Len(stack[o]) = 1 /\ At(o, "end") ELSE place[o] = "done"
NothingOutlivesItsBody == \A o \in Owners :
  Over(o) => \A f \in Range(Body[o]) \ Detached : place[f] \in {"idle", "done"}

(* Every wait returns, and with it every body: callers come to their end,   *)
(* however the tasks of all of them are nested and shared out.              *)
WaitsReturn == <>[]CallersGone

(* A task that nobody waits for is executed too, if the pool is not         *)
(* destroyed first: no wake-up of a worker is lost.                         *)
DetachedComplete == \A f \in Detached :
  (place[f] = "queued") ~> (place[f] = "done" \/ ~running)

(* ~threadpool returns: every worker notices that it has to stop.           *)
JoinReturns == (~running) ~> Joined
=============================================================================
