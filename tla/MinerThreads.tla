---------------------------- MODULE MinerThreads ----------------------------
(* cryptonote_basic/miner.cpp: how the worker threads are made and stopped   *)
(* by start, stop and update_autodetection, and the thread that decides when *)
(* the machine is idle enough for background mining.  MinerTemplates has     *)
(* what a worker mines.                                                      *)
EXTENDS Naturals, FiniteSets

CONSTANTS
  None,
  Workers,      \* numbers of worker threads, used again when a thread is gone
  Starts,       \* arguments of start: <<threads_count, do_background>>
  MaxThreads    \* bound on the threads that autodetection tries

ASSUME ThreadsAssumption ==
  /\ Workers \subseteq Nat /\ IsFiniteSet(Workers)
  /\ Starts \subseteq Nat \X BOOLEAN
  /\ MaxThreads \in Nat
  /\ None \notin {"rpc", "idle"}

VARIABLES
  m_stop,
  m_threads,                        \* the threads that the miner knows of
  m_threads_total,
  m_threads_active,
  m_threads_autodetect,             \* the size of that list
  m_threads_lock,                   \* who holds it
  m_is_background_mining_enabled,
  m_is_background_mining_started,
  at,                               \* where each worker is
  idle,                             \* the thread that calls on_idle
  rpc,                              \* the threads that call start and stop
  background                        \* background_worker_thread

flags == <<m_is_background_mining_enabled, m_is_background_mining_started>>
threads == <<m_threads, m_threads_total, m_threads_autodetect>>
work == <<at, m_threads_active>>
callers == <<idle, rpc>>
vars == <<m_stop, m_threads_lock, flags, threads, work, callers, background>>

is_mining == ~m_stop

Init ==
  /\ m_stop = TRUE
  /\ m_threads = {} /\ m_threads_total = 0 /\ m_threads_active = 0
  /\ m_threads_autodetect = 0
  /\ m_threads_lock = None
  /\ m_is_background_mining_enabled = FALSE /\ m_is_background_mining_started = FALSE
  /\ at = [w \in Workers |-> "gone"]
  /\ idle = "rest" /\ rpc = "rest" /\ background = "gone"
-----------------------------------------------------------------------------
(* The lowest n numbers that no thread has.                                 *)
spare == {w \in Workers : at[w] = "gone" /\ w \notin m_threads}
lowest(n) == {w \in spare : Cardinality({v \in spare : v < w}) < n}

(* The threads that start and update_autodetection make.                    *)
make_threads(n) ==
  /\ Cardinality(spare) >= n
  /\ m_threads' = m_threads \union lowest(n)
  /\ at' = [w \in Workers |-> IF w \in lowest(n) THEN "new" ELSE at[w]]

Goto(w, where) == at' = [at EXCEPT ![w] = where]

(* worker_thread: a thread counts itself once it runs.                      *)
Begin(w) ==
  /\ at[w] = "new"
  /\ Goto(w, "loop")
  /\ m_threads_active' = m_threads_active + 1
  /\ UNCHANGED <<m_stop, m_threads_lock, flags, threads, callers, background>>

(* while (!m_stop)                                                          *)
Loop(w) ==
  /\ at[w] = "loop"
  /\ Goto(w, IF m_stop THEN "gone" ELSE "body")
  /\ m_threads_active' = IF m_stop THEN m_threads_active - 1 ELSE m_threads_active
  /\ UNCHANGED <<m_stop, m_threads_lock, flags, threads, callers, background>>

(* The miner is paused, or a hash is tried.                                 *)
Body(w) ==
  /\ at[w] = "body"
  /\ \/ Goto(w, "loop")
     \/ m_is_background_mining_enabled /\ ~m_is_background_mining_started
          /\ Goto(w, "unstarted")
  /\ UNCHANGED <<m_stop, m_threads_lock, flags, threads, m_threads_active, callers,
                 background>>

(* The flag that is waited for is read before the mutex is taken.           *)
Wait(w) ==
  /\ at[w] = "unstarted"
  /\ Goto(w, "wait")
  /\ UNCHANGED <<m_stop, m_threads_lock, flags, threads, m_threads_active, callers,
                 background>>

Woken(w) ==
  /\ at[w] = "woken"
  /\ Goto(w, IF ~m_stop /\ ~m_is_background_mining_started THEN "unstarted" ELSE "loop")
  /\ UNCHANGED <<m_stop, m_threads_lock, flags, threads, m_threads_active, callers,
                 background>>

notify_all == at' = [w \in Workers |-> IF at[w] = "wait" THEN "woken" ELSE at[w]]
-----------------------------------------------------------------------------
(* start, by an RPC or, without a look at is_mining, by on_synchronized:    *)
(* the number of threads is set before the lock is taken.                   *)
BeginStart(threads_count, do_background) ==
  /\ rpc = "rest"
  /\ m_threads_total' = IF threads_count = 0 THEN 1 ELSE threads_count
  /\ m_threads_autodetect' = IF threads_count = 0 THEN 1 ELSE m_threads_autodetect
  /\ rpc' = IF do_background THEN "start in background" ELSE "start"
  /\ UNCHANGED <<m_stop, m_threads_lock, flags, m_threads, work, idle, background>>

Starting == rpc \in {"start", "start in background"} /\ m_threads_lock = None

StartFails ==
  /\ Starting
  /\ is_mining \/ m_threads # {}
  /\ rpc' = "rest"
  /\ UNCHANGED <<m_stop, m_threads_lock, flags, threads, work, idle, background>>

(* A background thread that is still there is forgotten for the new one.    *)
Start ==
  /\ Starting
  /\ ~is_mining /\ m_threads = {}
  /\ m_stop' = FALSE
  /\ m_is_background_mining_enabled' = (rpc = "start in background")
  /\ make_threads(m_threads_total)
  /\ background' = IF rpc = "start in background" THEN "new" ELSE background
  /\ rpc' = "rest"
  /\ UNCHANGED <<m_threads_lock, m_is_background_mining_started, m_threads_total,
                 m_threads_autodetect, m_threads_active, idle>>

(* stop.                                                                    *)
BeginStop ==
  /\ rpc = "rest"
  /\ rpc' = "stop"
  /\ UNCHANGED <<m_stop, m_threads_lock, flags, threads, work, idle, background>>

StopLocks ==
  /\ rpc = "stop"
  /\ m_threads_lock = None
  /\ IF m_threads = {} THEN rpc' = "rest" /\ UNCHANGED <<m_threads_lock, m_stop>>
     ELSE rpc' = "stopping" /\ m_threads_lock' = "rpc" /\ m_stop' = TRUE
  /\ UNCHANGED <<flags, threads, work, idle, background>>

(* Faulty: the workers that wait are not notified.                          *)
StopNotifies_nobody ==
  /\ rpc = "stopping"
  /\ m_threads_active > 0
  /\ UNCHANGED vars

StopNotifies ==
  /\ rpc = "stopping"
  /\ m_threads_active > 0
  /\ notify_all
  /\ UNCHANGED <<m_stop, m_threads_lock, flags, threads, m_threads_active, callers,
                 background>>

(* Faulty: the threads that are in the list are not waited for.             *)
StopJoins_at_once ==
  /\ rpc = "stopping"
  /\ rpc' = "joining"
  /\ UNCHANGED <<m_stop, m_threads_lock, flags, threads, work, idle, background>>

(* The background thread is interrupted and joined.                         *)
StopJoins ==
  /\ rpc = "stopping"
  /\ m_threads_active = 0
  /\ rpc' = "joining"
  /\ UNCHANGED <<m_stop, m_threads_lock, flags, threads, work, idle, background>>

StopEnds ==
  /\ rpc = "joining"
  /\ background = "gone"
  /\ m_is_background_mining_enabled' = FALSE
  /\ m_threads' = {}
  /\ m_threads_autodetect' = 0
  /\ m_threads_lock' = None
  /\ rpc' = "rest"
  /\ UNCHANGED <<m_stop, m_is_background_mining_started, m_threads_total, work, idle,
                 background>>
-----------------------------------------------------------------------------
(* update_autodetection: one more thread, or one fewer and the end of it.   *)
Autodetects ==
  /\ idle = "rest"
  /\ m_threads_autodetect > 0
  /\ \/ /\ m_threads_autodetect > 1
        /\ m_threads_total' = m_threads_autodetect - 1
        /\ m_threads_autodetect' = 0
     \/ /\ m_threads_autodetect < MaxThreads
        /\ m_threads_total' = m_threads_autodetect + 1
        /\ m_threads_autodetect' = m_threads_autodetect + 1
  /\ idle' = "lock"
  /\ UNCHANGED <<m_stop, m_threads_lock, flags, m_threads, work, rpc, background>>

(* All threads are stopped with m_threads_lock held, and made again after   *)
(* it is released.                                                          *)
AutoStops ==
  /\ idle = "lock"
  /\ m_threads_lock = None
  /\ m_threads_lock' = "idle"
  /\ m_stop' = TRUE
  /\ idle' = "stopping"
  /\ UNCHANGED <<flags, threads, work, rpc, background>>

AutoClears ==
  /\ idle = "stopping"
  /\ m_threads_active = 0
  /\ m_threads' = {}
  /\ m_threads_lock' = None
  /\ idle' = "restart"
  /\ UNCHANGED <<m_stop, flags, m_threads_total, m_threads_autodetect, work, rpc,
                 background>>

AutoRestarts ==
  /\ idle = "restart"
  /\ m_stop' = FALSE
  /\ make_threads(m_threads_total)
  /\ idle' = "rest"
  /\ UNCHANGED <<m_threads_lock, flags, m_threads_total, m_threads_autodetect,
                 m_threads_active, rpc, background>>
-----------------------------------------------------------------------------
(* background_worker_thread: it ends at once if it cannot read the times.   *)
BackgroundBegins ==
  /\ background = "new"
  /\ m_is_background_mining_started' = FALSE
  /\ background' \in {"loop", "gone"}
  /\ UNCHANGED <<m_stop, m_threads_lock, m_is_background_mining_enabled, threads, work,
                 callers>>

BackgroundLoops ==
  /\ background = "loop"
  /\ background' = IF m_stop THEN "gone" ELSE "sleep"
  /\ UNCHANGED <<m_stop, m_threads_lock, flags, threads, work, callers>>

(* The sleep ends, or stop interrupts it; what is measured changes nothing. *)
BackgroundWakes ==
  /\ background = "sleep"
  /\ background' = "loop"
  /\ UNCHANGED <<m_stop, m_threads_lock, flags, threads, work, callers>>

(* The machine is idle; the flag is set without the mutex.                  *)
BackgroundStarts ==
  /\ background = "sleep"
  /\ ~m_is_background_mining_started
  /\ m_is_background_mining_started' = TRUE
  /\ notify_all
  /\ background' = "measure"
  /\ UNCHANGED <<m_stop, m_threads_lock, m_is_background_mining_enabled, threads,
                 m_threads_active, callers>>

(* A second later the time of the process is read, which may fail; here an  *)
(* interrupt ends the thread.                                               *)
BackgroundMeasures ==
  /\ background = "measure"
  /\ \/ rpc = "joining" /\ background' = "gone" /\ UNCHANGED m_is_background_mining_started
     \/ background' = "loop" /\ m_is_background_mining_started' \in BOOLEAN
  /\ UNCHANGED <<m_stop, m_threads_lock, m_is_background_mining_enabled, threads, work,
                 callers>>

(* The machine is in use.                                                   *)
BackgroundStops ==
  /\ background = "sleep"
  /\ m_is_background_mining_started
  /\ m_is_background_mining_started' = FALSE
  /\ background' = "loop"
  /\ UNCHANGED <<m_stop, m_threads_lock, m_is_background_mining_enabled, threads, work,
                 callers>>
-----------------------------------------------------------------------------
worker_thread(w) == Begin(w) \/ Loop(w) \/ Body(w) \/ Wait(w) \/ Woken(w)
Starts_or_fails == StartFails \/ Start
Stop == StopLocks \/ StopNotifies \/ StopJoins \/ StopEnds
Autodetection == AutoStops \/ AutoClears \/ AutoRestarts
Background ==
  \/ BackgroundBegins \/ BackgroundLoops \/ BackgroundWakes
  \/ BackgroundStarts \/ BackgroundMeasures \/ BackgroundStops

Next ==
  \/ \E w \in Workers : worker_thread(w)
  \/ \E s \in Starts : BeginStart(s[1], s[2])
  \/ Starts_or_fails \/ BeginStop \/ Stop
  \/ Autodetects \/ Autodetection
  \/ Background

(* Every thread goes on with what it has begun, and gets m_threads_lock if  *)
(* it is released again and again.                                          *)
Fairness ==
  /\ \A w \in Workers : WF_vars(worker_thread(w))
  /\ WF_vars(Background)
  /\ SF_vars(Starts_or_fails) /\ SF_vars(Stop) /\ SF_vars(Autodetection)

Spec == Init /\ [][Next]_vars /\ Fairness
-----------------------------------------------------------------------------
(* After stop no thread mines: while the miner is stopped and nobody holds  *)
(* m_threads_lock, no worker is past its test of m_stop, although stop may  *)
(* have overtaken threads that had not counted themselves yet.              *)
StopMeansStop ==
  m_stop /\ m_threads_lock = None => \A w \in Workers : at[w] \in {"gone", "new", "loop"}

(* A stop that has m_threads_lock returns, wherever the workers and the     *)
(* background thread are, those included that missed a notification, unless *)
(* update_autodetection, which sets m_stop back without the lock, undoes it.*)
StopReturns ==
  (rpc = "stopping") ~> (rpc = "rest" \/ is_mining)
=============================================================================
