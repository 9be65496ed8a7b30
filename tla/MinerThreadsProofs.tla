------------------------- MODULE MinerThreadsProofs -------------------------
(***************************************************************************)
(* For any number of workers and any arguments of start: once stop or      *)
(* update_autodetection has waited for m_threads_active to be 0 no thread  *)
(* mines, however many threads had not counted themselves by then.         *)
(***************************************************************************)
EXTENDS MinerThreads, FiniteSetTheorems, TLAPS

(* Past its test of m_stop.                                                *)
Past == {"body", "unstarted", "wait", "woken"}

Counted == {w \in Workers : at[w] \notin {"gone", "new"}}

Types ==
  /\ m_stop \in BOOLEAN
  /\ m_threads_active \in Nat
  /\ at \in [Workers -> {"gone", "new", "loop"} \union Past]

ActiveIsCounted == m_threads_active = Cardinality(Counted)

LockHeld ==
  /\ m_threads_lock = "rpc" <=> rpc \in {"stopping", "joining"}
  /\ m_threads_lock = "idle" <=> idle = "stopping"

(* The threads have been waited for and none has been made since, or all   *)
(* that were are still before their test.                                  *)
Waited == m_threads_lock = None \/ rpc = "joining"

NobodyPast == m_stop /\ Waited => \A w \in Workers : at[w] \notin Past

IInv == Types /\ ActiveIsCounted /\ LockHeld /\ NobodyPast
-----------------------------------------------------------------------------
(* The threads that count themselves are finitely many.                    *)
LEMMA CountedFinite == IsFiniteSet(Counted) /\ Cardinality(Counted) \in Nat
<1>1. Counted \subseteq Workers
  BY DEF Counted
<1>2. IsFiniteSet(Counted)
  BY <1>1, ThreadsAssumption, FS_Subset
<1> QED BY <1>2, FS_CardinalityType

(* When m_threads_active is 0 no thread is past its test.                  *)
LEMMA NoneActive ==
  ASSUME ActiveIsCounted, m_threads_active = 0
  PROVE  \A w \in Workers : at[w] \notin Past
<1>1. Counted = {}
  BY CountedFinite, FS_EmptySet DEF ActiveIsCounted
<1> QED BY <1>1 DEF Counted, Past

(* A step after which the same threads are counted keeps the count.        *)
LEMMA SameCount ==
  ASSUME ActiveIsCounted, Counted' = Counted, m_threads_active' = m_threads_active
  PROVE  ActiveIsCounted'
BY DEF ActiveIsCounted
-----------------------------------------------------------------------------
(* worker_thread keeps the invariant.                                      *)
LEMMA WorkerStep ==
  ASSUME IInv, NEW w \in Workers, worker_thread(w)
  PROVE  IInv'
<1> USE DEF IInv
<1>1. CASE Begin(w)
  <2>1. Types' /\ LockHeld' /\ NobodyPast'
    BY <1>1 DEF Begin, Goto, Types, LockHeld, NobodyPast, Waited, Past, callers
  <2>2. w \notin Counted /\ Counted' = Counted \union {w}
    BY <1>1 DEF Begin, Goto, Types, Counted
  <2>3. ActiveIsCounted'
    BY <1>1, <2>2, CountedFinite, FS_AddElement DEF Begin, ActiveIsCounted
  <2> QED BY <2>1, <2>3
<1>2. CASE Loop(w) /\ m_stop
  <2>1. w \in Counted /\ Counted' = Counted \ {w}
    BY <1>2 DEF Loop, Goto, Types, Counted
  <2>2. Cardinality(Counted') = Cardinality(Counted) - 1
    BY <2>1, CountedFinite, FS_RemoveElement
  <2>3. Cardinality(Counted) # 0
    BY <2>1, CountedFinite, FS_EmptySet
  <2>4. Types' /\ ActiveIsCounted'
    BY <1>2, <2>2, <2>3, CountedFinite DEF Loop, Goto, Types, ActiveIsCounted
  <2>5. LockHeld' /\ NobodyPast'
    BY <1>2 DEF Loop, Goto, Types, LockHeld, NobodyPast, Waited, Past, callers
  <2> QED BY <2>4, <2>5
<1>3. CASE Loop(w) /\ ~m_stop
  <2>1. Counted' = Counted
    BY <1>3 DEF Loop, Goto, Types, Counted
  <2>2. ActiveIsCounted'
    BY <1>3, <2>1, SameCount DEF Loop
  <2>3. Types' /\ LockHeld' /\ NobodyPast'
    BY <1>3 DEF Loop, Goto, Types, LockHeld, NobodyPast, Past, callers
  <2> QED BY <2>2, <2>3
<1>4. CASE Body(w) \/ Wait(w) \/ Woken(w)
  <2>1. /\ at[w] \in Past
        /\ at' \in [Workers -> {"gone", "new", "loop"} \union Past]
        /\ \E where \in {"loop"} \union Past : at' = [at EXCEPT ![w] = where]
        /\ UNCHANGED <<m_stop, m_threads_lock, m_threads_active, rpc, idle>>
    BY <1>4 DEF Body, Wait, Woken, Goto, Types, Past, callers
  <2>2. Counted' = Counted
    BY <2>1 DEF Types, Past, Counted
  <2>3. ActiveIsCounted'
    BY <2>1, <2>2, SameCount
  <2>4. Types' /\ LockHeld' /\ NobodyPast'
    BY <2>1 DEF Types, LockHeld, NobodyPast, Waited
  <2> QED BY <2>3, <2>4
<1> QED BY <1>1, <1>2, <1>3, <1>4 DEF worker_thread

(* The threads that start and update_autodetection make are not counted    *)
(* yet.                                                                    *)
LEMMA MakeThreads ==
  ASSUME Types, NEW n, make_threads(n)
  PROVE  /\ Counted' = Counted
         /\ at' \in [Workers -> {"gone", "new", "loop"} \union Past]
BY DEF make_threads, lowest, spare, Counted, Types

(* notify_all moves threads from one place past the test to another.       *)
LEMMA NotifyAll ==
  ASSUME Types, notify_all
  PROVE  /\ Counted' = Counted
         /\ at' \in [Workers -> {"gone", "new", "loop"} \union Past]
         /\ \A w \in Workers : at'[w] \in Past <=> at[w] \in Past
BY DEF notify_all, Counted, Types, Past
-----------------------------------------------------------------------------
(* A step that leaves the workers, m_stop, the lock and its holders alone. *)
LEMMA OtherStep ==
  ASSUME IInv, UNCHANGED <<m_stop, m_threads_lock, at, m_threads_active>>,
         m_threads_lock = None => rpc' # "joining",
         LockHeld', rpc' = "joining" => rpc = "joining"
  PROVE  IInv'
<1>1. Counted' = Counted
  BY DEF Counted
<1>2. ActiveIsCounted'
  BY <1>1, SameCount DEF IInv
<1> QED BY <1>2 DEF IInv, Types, NobodyPast, Waited

(* start keeps the invariant.                                              *)
LEMMA StartStep ==
  ASSUME IInv, \/ \E s \in Starts : BeginStart(s[1], s[2])
               \/ Starts_or_fails
  PROVE  IInv'
<1>1. CASE \E s \in Starts : BeginStart(s[1], s[2])
  <2>1. /\ UNCHANGED <<m_stop, m_threads_lock, at, m_threads_active, idle>>
        /\ rpc = "rest" /\ rpc' \in {"start", "start in background"}
    BY <1>1 DEF BeginStart, work
  <2> QED BY <2>1, OtherStep DEF IInv, LockHeld
<1>2. CASE StartFails
  <2>1. /\ UNCHANGED <<m_stop, m_threads_lock, at, m_threads_active, idle>>
        /\ m_threads_lock = None /\ rpc' = "rest"
    BY <1>2 DEF StartFails, Starting, work
  <2> QED BY <2>1, OtherStep, ThreadsAssumption DEF IInv, LockHeld
<1>3. CASE Start
  <2>1. Counted' = Counted /\ Types'
    BY <1>3, MakeThreads DEF Start, IInv, Types
  <2>2. ActiveIsCounted'
    BY <1>3, <2>1, SameCount DEF Start, IInv
  <2>3. LockHeld' /\ NobodyPast'
    BY <1>3, ThreadsAssumption DEF Start, Starting, IInv, LockHeld, NobodyPast
  <2> QED BY <2>1, <2>2, <2>3 DEF IInv
<1> QED BY <1>1, <1>2, <1>3 DEF Starts_or_fails

(* stop keeps the invariant: it goes on to the join only with no thread    *)
(* active.                                                                 *)
LEMMA StopStep ==
  ASSUME IInv, BeginStop \/ Stop
  PROVE  IInv'
<1>1. CASE BeginStop
  BY <1>1, OtherStep DEF BeginStop, work, IInv, LockHeld
<1>2. CASE StopLocks
  <2>1. CASE m_threads = {}
    BY <1>2, <2>1, OtherStep, ThreadsAssumption DEF StopLocks, work, IInv, LockHeld
  <2>2. CASE m_threads # {}
    <3>1. Counted' = Counted
      BY <1>2 DEF StopLocks, work, Counted
    <3>2. ActiveIsCounted'
      BY <1>2, <3>1, SameCount DEF StopLocks, work, IInv
    <3>3. Types' /\ LockHeld' /\ NobodyPast'
      BY <1>2, <2>2, ThreadsAssumption
      DEF StopLocks, work, IInv, Types, LockHeld, NobodyPast, Waited
    <3> QED BY <3>2, <3>3 DEF IInv
  <2> QED BY <2>1, <2>2
<1>3. CASE StopNotifies
  <2>1. /\ UNCHANGED <<m_stop, m_threads_lock, m_threads_active, idle, rpc>>
        /\ rpc = "stopping" /\ m_threads_lock = "rpc" /\ notify_all
    BY <1>3 DEF StopNotifies, callers, IInv, LockHeld
  <2>2. ActiveIsCounted' /\ Types'
    BY <2>1, NotifyAll, SameCount DEF IInv, Types
  <2>3. LockHeld' /\ NobodyPast'
    BY <2>1, NotifyAll DEF IInv, LockHeld, NobodyPast, Waited
  <2> QED BY <2>2, <2>3 DEF IInv
<1>4. CASE StopJoins
  <2>1. \A w \in Workers : at[w] \notin Past
    BY <1>4, NoneActive DEF StopJoins, IInv
  <2>2. Counted' = Counted
    BY <1>4 DEF StopJoins, work, Counted
  <2>3. ActiveIsCounted'
    BY <1>4, <2>2, SameCount DEF StopJoins, work, IInv
  <2> QED BY <1>4, <2>1, <2>3 DEF StopJoins, work, IInv, Types, LockHeld, NobodyPast
<1>5. CASE StopEnds
  <2>1. Counted' = Counted
    BY <1>5 DEF StopEnds, work, Counted
  <2>2. ActiveIsCounted'
    BY <1>5, <2>1, SameCount DEF StopEnds, work, IInv
  <2>3. LockHeld' /\ NobodyPast'
    BY <1>5, ThreadsAssumption
    DEF StopEnds, work, IInv, LockHeld, NobodyPast, Waited
  <2> QED BY <1>5, <2>2, <2>3 DEF StopEnds, work, IInv, Types
<1> QED BY <1>1, <1>2, <1>3, <1>4, <1>5 DEF Stop

(* update_autodetection keeps the invariant: what it does outside the lock *)
(* is to set m_stop back and to make threads.                              *)
LEMMA AutodetectionStep ==
  ASSUME IInv, Autodetects \/ Autodetection
  PROVE  IInv'
<1>1. CASE Autodetects
  BY <1>1, OtherStep, ThreadsAssumption DEF Autodetects, work, IInv, LockHeld
<1>2. CASE AutoStops
  <2>1. Counted' = Counted
    BY <1>2 DEF AutoStops, work, Counted
  <2>2. ActiveIsCounted'
    BY <1>2, <2>1, SameCount DEF AutoStops, work, IInv
  <2>3. LockHeld' /\ NobodyPast'
    BY <1>2, ThreadsAssumption DEF AutoStops, work, IInv, LockHeld, NobodyPast, Waited
  <2> QED BY <1>2, <2>2, <2>3 DEF AutoStops, work, IInv, Types
<1>3. CASE AutoClears
  <2>1. \A w \in Workers : at[w] \notin Past
    BY <1>3, NoneActive DEF AutoClears, IInv
  <2>2. Counted' = Counted
    BY <1>3 DEF AutoClears, work, Counted
  <2>3. ActiveIsCounted'
    BY <1>3, <2>2, SameCount DEF AutoClears, work, IInv
  <2>4. LockHeld' /\ NobodyPast'
    BY <1>3, <2>1, ThreadsAssumption DEF AutoClears, work, IInv, LockHeld, NobodyPast
  <2> QED BY <1>3, <2>3, <2>4 DEF AutoClears, work, IInv, Types
<1>4. CASE AutoRestarts
  <2>1. Counted' = Counted /\ Types'
    BY <1>4, MakeThreads DEF AutoRestarts, IInv, Types
  <2>2. ActiveIsCounted'
    BY <1>4, <2>1, SameCount DEF AutoRestarts, IInv
  <2>3. LockHeld' /\ NobodyPast'
    BY <1>4 DEF AutoRestarts, IInv, LockHeld, NobodyPast
  <2> QED BY <2>1, <2>2, <2>3 DEF IInv
<1> QED BY <1>1, <1>2, <1>3, <1>4 DEF Autodetection

(* The background thread touches no worker but those it notifies.          *)
LEMMA BackgroundStep ==
  ASSUME IInv, Background
  PROVE  IInv'
<1>1. CASE BackgroundStarts
  <2>1. /\ UNCHANGED <<m_stop, m_threads_lock, m_threads_active, idle, rpc>>
        /\ notify_all
    BY <1>1 DEF BackgroundStarts, callers
  <2>2. ActiveIsCounted' /\ Types'
    BY <2>1, NotifyAll, SameCount DEF IInv, Types
  <2>3. LockHeld' /\ NobodyPast'
    BY <2>1, NotifyAll DEF IInv, LockHeld, NobodyPast, Waited
  <2> QED BY <2>2, <2>3 DEF IInv
<1>2. CASE ~BackgroundStarts
  <2>1. UNCHANGED <<m_stop, m_threads_lock, at, m_threads_active, idle, rpc>>
    BY <1>2 DEF Background, BackgroundBegins, BackgroundLoops, BackgroundWakes,
                BackgroundMeasures, BackgroundStops, work, callers
  <2> QED BY <2>1, OtherStep, ThreadsAssumption DEF IInv, LockHeld
<1> QED BY <1>1, <1>2
-----------------------------------------------------------------------------
(* Every step keeps the invariant.                                         *)
LEMMA InductiveStep == IInv /\ [Next]_vars => IInv'
<1> SUFFICES ASSUME IInv, [Next]_vars PROVE IInv'
  OBVIOUS
<1>1. CASE UNCHANGED vars
  <2>1. UNCHANGED <<m_stop, m_threads_lock, at, m_threads_active, idle, rpc>>
    BY <1>1 DEF vars, work, callers
  <2> QED BY <2>1, OtherStep, ThreadsAssumption DEF IInv, LockHeld
<1> QED BY <1>1, WorkerStep, StartStep, StopStep, AutodetectionStep, BackgroundStep DEF Next

(* stop means stop, for every number of workers: the property that the run *)
(* checks for two.                                                         *)
THEOREM MinerStopMeansStop == Spec => []StopMeansStop
<1>1. Init => IInv
  <2> SUFFICES ASSUME Init PROVE IInv
    OBVIOUS
  <2>1. Counted = {}
    BY DEF Init, Counted
  <2>2. ActiveIsCounted
    BY <2>1, FS_EmptySet DEF Init, ActiveIsCounted
  <2> QED BY <2>2, ThreadsAssumption
      DEF Init, IInv, Types, LockHeld, NobodyPast, Waited, Past
<1>2. IInv => StopMeansStop
  BY DEF IInv, Types, NobodyPast, Waited, StopMeansStop, Past
<1> QED BY <1>1, <1>2, InductiveStep, PTL DEF Spec
=============================================================================
