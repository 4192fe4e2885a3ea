-------------------------- MODULE ThreadPoolProofs --------------------------
(***************************************************************************)
(* The inductive invariant of ThreadPool and the safety properties that    *)
(* follow from it, for every number of workers, producers and tasks, every *)
(* queue capacity and every maxNum; and the refinement of TaskPool.         *)
(***************************************************************************)
EXTENDS ThreadPool, SequenceTheorems, FiniteSetTheorems, TLAPS

\* The stretches of code between a lock and the matching unlock, and what the
\* tests at their start established about the queue (thread_pool.c:183-221 and
\* 142-158): the lock is still held, so it is still true.
LockDiscipline ==
    /\ \A w \in Workers :
          /\ wpc[w] \in {"towait", "take"} => mutexPool = w
          /\ wpc[w] = "towait" => queueSize = 0
          /\ wpc[w] = "take" => queueSize > 0
    /\ \A p \in Producers :
          /\ ppc[p] \in {"towait", "put"} => mutexPool = p
          /\ ppc[p] = "towait" => queueSize = Capacity
          /\ ppc[p] = "put" => queueSize < Capacity

\* Queue positions in use hold tasks; a producer inside threadPoolAdd has its
\* task, and a worker between dequeue and return has one.
TasksInPlace ==
    /\ \A i \in 1..queueSize : QueueSeq[i] \in Tasks
    /\ \A p \in Producers :
          ppc[p] \in {"lock", "towait", "blocked", "woken", "put"} => arg[p] \in Tasks
    /\ \A w \in Workers :
          wpc[w] \in {"busylock", "incread", "incwrite", "incunlock", "run"}
             => task[w] \in Tasks

\* The order of the steps of threadPoolDestory.
DestroyOrder ==
    /\ shutdown <=> opc # "idle"
    /\ opc \in {"signal", "free", "done"} => mpc = "gone"
    /\ freed => opc = "done"

\* Because of the assignment at 265 liveNum stays at minNum, so the shrink branch
\* at 277 and the exit branch at 192 are dead.
NeverResizes == liveNum = MinNum /\ exitNum = 0

\* The manager's copy of liveNum never exceeds minNum.
SnapshotSmall == mLive <= MinNum

IInv ==
    /\ TypeOK
    /\ RingConsistent
    /\ NeverResizes
    /\ LockDiscipline
    /\ TasksInPlace
    /\ DestroyOrder
    /\ SnapshotSmall

-----------------------------------------------------------------------------
\* Facts about the operators of ThreadPool.

\* minNum is a positive number.
LEMMA MinNumType == MinNum \in Nat
  BY PoolAssumption, FS_CardinalityType DEF MinNum

\* Reduction modulo the capacity of the sums that occur: a slot plus at most
\* the number of queued tasks.
LEMMA RingIndex ==
  \A i \in 0..(2 * Capacity - 1) :
     /\ i % Capacity = IF i < Capacity THEN i ELSE i - Capacity
     /\ i % Capacity \in Slots
  <1>1. Capacity \in Nat \ {0}
    BY PoolAssumption
  <1>2. \A i \in 0..(Capacity - 1) : i % Capacity = i
    BY <1>1
  <1>3. \A i \in Capacity..(2 * Capacity - 1) : i % Capacity = i - Capacity
    BY <1>1
  <1> QED
    BY <1>1, <1>2, <1>3 DEF Slots

\* pthread_cond_signal wakes one sleeper, or nobody when nobody sleeps.
LEMMA SignalOutcome ==
  ASSUME NEW pc, NEW pc2 \in SignalOne(pc)
  PROVE  \/ pc2 = pc /\ Blocked(pc) = {}
         \/ \E t \in DOMAIN pc : pc[t] = "blocked" /\ pc2 = [pc EXCEPT ![t] = "woken"]
  BY DEF SignalOne, Blocked

\* A dequeue removes the oldest task from QueueSeq.
LEMMA TakeQueue ==
  ASSUME TypeOK, queueSize > 0, UNCHANGED taskQ,
         queueFront' = FrontAfterTake, queueSize' = queueSize - 1
  PROVE  /\ QueueSeq' = [i \in 1..(queueSize - 1) |-> QueueSeq[i + 1]]
         /\ HeadTask = QueueSeq[1]
         /\ queueFront' \in Slots
         /\ (queueFront' + queueSize') % Capacity = (queueFront + queueSize) % Capacity
  <1>1. /\ Capacity \in Nat \ {0} /\ queueFront \in 0..(Capacity - 1)
        /\ queueSize \in 1..Capacity
    BY PoolAssumption DEF TypeOK, Slots
  <1>2. queueFront' = IF queueFront + 1 < Capacity THEN queueFront + 1 ELSE 0
    BY <1>1, RingIndex DEF FrontAfterTake, NextSlot
  <1>3. ASSUME NEW i \in 1..(queueSize - 1)
        PROVE  (queueFront' + i - 1) % Capacity = (queueFront + (i + 1) - 1) % Capacity
    BY <1>1, <1>2, RingIndex
  <1>4. (queueFront' + queueSize') % Capacity = (queueFront + queueSize) % Capacity
    BY <1>1, <1>2, RingIndex
  <1>5. QueueSeq' = [i \in 1..(queueSize - 1) |-> QueueSeq[i + 1]]
    BY <1>1, <1>3 DEF QueueSeq
  <1>6. HeadTask = QueueSeq[1]
    BY <1>1, RingIndex DEF HeadTask, QueueSeq
  <1> QED
    BY <1>1, <1>2, <1>4, <1>5, <1>6 DEF Slots

\* An enqueue at queueRear adds the task behind the others and overwrites none.
LEMMA PutQueue ==
  ASSUME TypeOK, RingConsistent, queueSize < Capacity,
         NEW t \in Tasks, taskQ' = [taskQ EXCEPT ![queueRear] = t],
         UNCHANGED queueFront, queueRear' = NextSlot(queueRear),
         queueSize' = queueSize + 1
  PROVE  /\ QueueSeq' = [i \in 1..(queueSize + 1) |->
                            IF i <= queueSize THEN QueueSeq[i] ELSE t]
         /\ queueRear' \in Slots
         /\ queueRear' = (queueFront + (queueSize + 1)) % Capacity
  <1>1. /\ Capacity \in Nat \ {0} /\ queueFront \in 0..(Capacity - 1)
        /\ queueRear \in 0..(Capacity - 1)
        /\ queueSize \in 0..(Capacity - 1)
    BY PoolAssumption DEF TypeOK, Slots
  <1>2. /\ queueRear = (queueFront + queueSize) % Capacity
        /\ queueFront + queueSize \in 0..(2 * Capacity - 1)
        /\ queueRear = IF queueFront + queueSize < Capacity
                       THEN queueFront + queueSize
                       ELSE queueFront + queueSize - Capacity
    <2> DEFINE k == queueFront + queueSize
    <2>1. k \in 0..(2 * Capacity - 1)
      BY <1>1
    <2>2. queueRear = k % Capacity
      BY DEF RingConsistent
    <2> HIDE DEF k
    <2>3. queueRear = IF k < Capacity THEN k ELSE k - Capacity
      BY <2>1, <2>2, RingIndex
    <2> QED
      BY <1>1, <2>1, <2>2, <2>3 DEF k
  <1>3. queueRear' \in Slots /\ queueRear' = (queueFront + (queueSize + 1)) % Capacity
    <2>1. queueRear + 1 \in 0..(2 * Capacity - 1)
      BY <1>1
    <2>2. queueFront + (queueSize + 1) \in 0..(2 * Capacity - 1)
      BY <1>1
    <2>3. (queueRear + 1) % Capacity = (queueFront + (queueSize + 1)) % Capacity
      <3>1. CASE queueFront + queueSize < Capacity
        BY <1>1, <1>2, <3>1
      <3>2. CASE ~(queueFront + queueSize < Capacity)
        <4>1. queueRear + 1 \in 0..(Capacity - 1)
          BY <1>1, <1>2, <3>2
        <4>2. (queueRear + 1) % Capacity = queueRear + 1
          BY <1>1, <2>1, <4>1, RingIndex
        <4>3. (queueFront + (queueSize + 1)) % Capacity
                 = queueFront + (queueSize + 1) - Capacity
          BY <1>1, <2>2, <3>2, RingIndex
        <4> QED
          BY <1>1, <1>2, <3>2, <4>2, <4>3
      <3> QED
        BY <3>1, <3>2
    <2> QED
      BY <1>1, <2>1, <2>3, RingIndex DEF NextSlot
  <1>4. ASSUME NEW i \in 1..queueSize
        PROVE  (queueFront + i - 1) % Capacity \in Slots \ {queueRear}
    <2>1. queueFront + i - 1 \in 0..(2 * Capacity - 1)
      BY <1>1
    <2>2. /\ (queueFront + i - 1) % Capacity \in Slots
          /\ (queueFront + i - 1) % Capacity =
               IF queueFront + i - 1 < Capacity THEN queueFront + i - 1
               ELSE queueFront + i - 1 - Capacity
      BY <1>1, <2>1, RingIndex
    <2> QED
      BY <1>1, <1>2, <2>1, <2>2
  <1>5. (queueFront + (queueSize + 1) - 1) % Capacity = queueRear
    BY <1>1, <1>2
  <1>6. taskQ' \in [Slots -> Tasks \cup {None}] /\ taskQ'[queueRear] = t
    BY <1>1 DEF TypeOK, Slots
  <1>7. ASSUME NEW i \in 1..(queueSize + 1)
        PROVE  taskQ'[(queueFront + i - 1) % Capacity]
                  = IF i <= queueSize THEN QueueSeq[i] ELSE t
    <2>1. CASE i <= queueSize
      <3>1. i \in 1..queueSize
        BY <1>1, <2>1
      <3>2. QueueSeq[i] = taskQ[(queueFront + i - 1) % Capacity]
        BY <3>1 DEF QueueSeq
      <3> QED
        BY <1>4, <2>1, <3>1, <3>2 DEF TypeOK
    <2>2. CASE i = queueSize + 1
      BY <1>1, <1>5, <1>6, <2>2
    <2> QED
      BY <1>1, <2>1, <2>2
  <1>8. QueueSeq' = [i \in 1..(queueSize + 1) |->
                        IF i <= queueSize THEN QueueSeq[i] ELSE t]
    BY <1>7 DEF QueueSeq
  <1> QED
    BY <1>3, <1>8

\* An action that leaves the ring alone leaves the queue alone.
LEMMA SameQueue ==
  ASSUME UNCHANGED ringVars
  PROVE  QueueSeq' = QueueSeq /\ (RingConsistent' <=> RingConsistent)
  BY DEF ringVars, QueueSeq, RingConsistent

-----------------------------------------------------------------------------
\* The invariant holds of the pool that threadPoolCreate returns.
LEMMA InitIInv == Init => IInv
  <1> SUFFICES ASSUME Init PROVE IInv
    OBVIOUS
  <1>1. Capacity \in Nat \ {0} /\ 0 \in Slots /\ 0 % Capacity = 0
    BY PoolAssumption DEF Slots
  <1>2. TypeOK
    <2>1. taskQ \in [Slots -> Tasks \cup {None}] /\ queueSize \in 0..Capacity
      BY <1>1 DEF Init
    <2>2. wpc \in [Workers -> WorkerPC] /\ task \in [Workers -> Tasks \cup {None}]
      BY DEF Init, WorkerPC
    <2>3. ppc \in [Producers -> ProducerPC] /\ arg \in [Producers -> Tasks \cup {None}]
      BY DEF Init, ProducerPC
    <2>4. liveNum \in Nat /\ busyNum \in Int /\ reg \in [Workers -> Int]
      BY MinNumType DEF Init
    <2> QED
      BY <1>1, <2>1, <2>2, <2>3, <2>4 DEF Init, TypeOK, ManagerPC, OwnerPC
  <1>3. RingConsistent
    BY <1>1 DEF Init, RingConsistent
  <1>4. LockDiscipline /\ TasksInPlace /\ DestroyOrder
    BY DEF Init, LockDiscipline, TasksInPlace, DestroyOrder
  <1>5. NeverResizes /\ SnapshotSmall
    BY MinNumType DEF Init, NeverResizes, SnapshotSmall
  <1> QED
    BY <1>2, <1>3, <1>4, <1>5 DEF IInv

\* Worker steps that leave the ring alone.
LEMMA WorkerIInv ==
  ASSUME IInv, NEW w \in Workers, WorkerStep(w), ~WorkerTake(w)
  PROVE  IInv'
  <1> USE MinNumType, PoolAssumption
      DEF IInv, TypeOK, LockDiscipline, TasksInPlace, DestroyOrder, SnapshotSmall,
          NeverResizes, WorkerPC, flagVars, busyVars, workVars, prodVars,
          mgrVars, ownerVars
  <1>1. CASE WorkerLock(w)
    BY <1>1, SameQueue DEF WorkerLock, WorkerTest, ringVars
  <1>2. CASE WorkerWait(w)
    BY <1>2, SameQueue DEF WorkerWait, ringVars
  <1>3. CASE WorkerWake(w)
    BY <1>3, SameQueue DEF WorkerWake, WorkerTest, ringVars
  <1>4. CASE WorkerBusyLock(w)
    BY <1>4, SameQueue DEF WorkerBusyLock, ringVars
  <1>5. CASE WorkerLoad(w)
    BY <1>5, SameQueue DEF WorkerLoad, ringVars
  <1>6. CASE WorkerStore(w)
    BY <1>6, SameQueue DEF WorkerStore, Delta, ringVars
  <1>7. CASE WorkerBusyUnlock(w)
    BY <1>7, SameQueue DEF WorkerBusyUnlock, ringVars
  <1>8. CASE WorkerRun(w)
    BY <1>8, SameQueue DEF WorkerRun, ringVars
  <1>9. CASE WorkerExit(w)
    BY <1>9, SameQueue DEF WorkerExit, ringVars
  <1> QED
    BY <1>1, <1>2, <1>3, <1>4, <1>5, <1>6, <1>7, <1>8, <1>9 DEF WorkerStep

\* A dequeue by worker w, whose lock guarantees a task to take.
LEMMA TakeIInv ==
  ASSUME IInv, NEW w \in Workers, WorkerTake(w)
  PROVE  IInv'
  <1>1. queueSize > 0 /\ mutexPool = w
    BY DEF IInv, LockDiscipline, WorkerTake
  <1>2. /\ QueueSeq' = [i \in 1..(queueSize - 1) |-> QueueSeq[i + 1]]
        /\ HeadTask = QueueSeq[1]
        /\ queueFront' \in Slots
        /\ (queueFront' + queueSize') % Capacity = (queueFront + queueSize) % Capacity
    BY <1>1, TakeQueue DEF IInv, WorkerTake
  <1>3. /\ queueSize \in 1..Capacity /\ queueSize' = queueSize - 1
        /\ Capacity \in Nat
    BY <1>1, PoolAssumption DEF IInv, TypeOK, WorkerTake
  <1>4. HeadTask \in Tasks /\ \A i \in 1..queueSize' : QueueSeq'[i] \in Tasks
    BY <1>2, <1>3 DEF IInv, TasksInPlace
  <1>5. \/ ppc' = ppc
        \/ \E t \in Producers : ppc[t] = "blocked" /\ ppc' = [ppc EXCEPT ![t] = "woken"]
    <2>1. DOMAIN ppc = Producers /\ ppc' \in SignalOne(ppc)
      BY DEF IInv, TypeOK, WorkerTake, WakeProducer
    <2> QED
      BY <2>1, SignalOutcome
  <1>6. TypeOK'
    BY <1>2, <1>3, <1>4, <1>5
       DEF IInv, TypeOK, WorkerTake, WorkerPC, ProducerPC, flagVars, busyVars,
           mgrVars, ownerVars
  <1>7. RingConsistent'
    BY <1>2 DEF IInv, RingConsistent, WorkerTake
  <1>8. LockDiscipline'
    BY <1>1, <1>3, <1>5, PoolAssumption DEF IInv, TypeOK, LockDiscipline, WorkerTake
  <1>9. TasksInPlace'
    BY <1>4, <1>5 DEF IInv, TypeOK, TasksInPlace, WorkerTake
  <1>10. NeverResizes' /\ DestroyOrder' /\ SnapshotSmall'
    BY DEF IInv, NeverResizes, DestroyOrder, SnapshotSmall, WorkerTake, flagVars,
           mgrVars, ownerVars
  <1> QED
    BY <1>6, <1>7, <1>8, <1>9, <1>10 DEF IInv

\* The steps of threadPoolAdd.
LEMMA ProducerIInv ==
  ASSUME IInv, NEW p \in Producers,
         ProducerStep(p) \/ \E t \in Tasks : ProducerCall(p, t)
  PROVE  IInv'
  <1>1. CASE ProducerPut(p)
    <2>1. queueSize < Capacity /\ mutexPool = p /\ arg[p] \in Tasks
      BY <1>1 DEF IInv, LockDiscipline, TasksInPlace, ProducerPut
    <2>2. /\ QueueSeq' = [i \in 1..(queueSize + 1) |->
                            IF i <= queueSize THEN QueueSeq[i] ELSE arg[p]]
          /\ queueRear' \in Slots
          /\ queueRear' = (queueFront + (queueSize + 1)) % Capacity
      BY <1>1, <2>1, PutQueue DEF IInv, ProducerPut
    <2>3. /\ queueSize \in 0..(Capacity - 1) /\ queueSize' = queueSize + 1
          /\ Capacity \in Nat
      BY <1>1, <2>1, PoolAssumption DEF IInv, TypeOK, ProducerPut
    <2>4. \A i \in 1..queueSize' : QueueSeq'[i] \in Tasks
      BY <2>1, <2>2, <2>3 DEF IInv, TasksInPlace
    <2>5. \/ wpc' = wpc
          \/ \E t \in Workers : wpc[t] = "blocked" /\ wpc' = [wpc EXCEPT ![t] = "woken"]
      <3>1. DOMAIN wpc = Workers /\ wpc' \in SignalOne(wpc)
        BY <1>1 DEF IInv, TypeOK, ProducerPut, WakeConsumer
      <3> QED
        BY <3>1, SignalOutcome
    <2>6. TypeOK'
      BY <1>1, <2>1, <2>2, <2>3, <2>5
         DEF IInv, TypeOK, ProducerPut, WorkerPC, ProducerPC, flagVars, busyVars,
             mgrVars, ownerVars
    <2>7. RingConsistent'
      BY <1>1, <2>2 DEF RingConsistent, ProducerPut
    <2>8. LockDiscipline'
      BY <1>1, <2>1, <2>3, <2>5, PoolAssumption
         DEF IInv, TypeOK, LockDiscipline, ProducerPut
    <2>9. TasksInPlace'
      BY <1>1, <2>4, <2>5 DEF IInv, TypeOK, TasksInPlace, ProducerPut
    <2>10. NeverResizes' /\ DestroyOrder' /\ SnapshotSmall'
      BY <1>1 DEF IInv, NeverResizes, DestroyOrder, SnapshotSmall, ProducerPut,
                  flagVars, mgrVars, ownerVars
    <2> QED
      BY <2>6, <2>7, <2>8, <2>9, <2>10 DEF IInv
  <1> USE MinNumType, PoolAssumption
      DEF IInv, TypeOK, LockDiscipline, TasksInPlace, DestroyOrder, SnapshotSmall,
          NeverResizes, ProducerPC, flagVars, busyVars, workVars, mgrVars, ownerVars
  <1>2. CASE ProducerLock(p)
    BY <1>2, SameQueue DEF ProducerLock, ringVars
  <1>3. CASE ProducerWait(p)
    BY <1>3, SameQueue DEF ProducerWait, ringVars
  <1>4. ASSUME NEW t \in Tasks, ProducerCall(p, t)
        PROVE  IInv'
    BY <1>4, SameQueue DEF ProducerCall, ringVars
  <1> QED
    BY <1>1, <1>2, <1>3, <1>4 DEF ProducerStep

\* The manager's loop: growth and shrinking leave liveNum and exitNum alone.
LEMMA ManagerIInv ==
  ASSUME IInv, ManagerStep
  PROVE  IInv'
  <1> USE MinNumType, PoolAssumption
      DEF IInv, TypeOK, LockDiscipline, TasksInPlace, DestroyOrder, SnapshotSmall,
          NeverResizes, ManagerPC, flagVars, busyVars, workVars, prodVars, mgrVars,
          ownerVars
  <1>1. CASE ManagerTest
    BY <1>1, SameQueue DEF ManagerTest, AfterManagerTest, ringVars
  <1>2. CASE ManagerSnapshot
    BY <1>2, SameQueue DEF ManagerSnapshot, ringVars
  <1>3. CASE ManagerBusyLock
    BY <1>3, SameQueue DEF ManagerBusyLock, ringVars
  <1>4. CASE ManagerBusyUnlock
    BY <1>4, SameQueue DEF ManagerBusyUnlock, ringVars
  <1>5. CASE ManagerGrow
    BY <1>5, SameQueue DEF ManagerGrow, ringVars
  <1>6. CASE ManagerShrink
    <2>1. UNCHANGED <<exitNum, wpc>>
      BY <1>6 DEF ManagerShrink
    <2> QED
      BY <1>6, <2>1, SameQueue DEF ManagerShrink, ringVars
  <1> QED
    BY <1>1, <1>2, <1>3, <1>4, <1>5, <1>6 DEF ManagerStep

\* The steps of threadPoolDestory.
LEMMA OwnerIInv ==
  ASSUME IInv, OwnerShutdown \/ DestroyStep
  PROVE  IInv'
  <1> USE MinNumType, PoolAssumption
      DEF IInv, TypeOK, LockDiscipline, TasksInPlace, DestroyOrder, SnapshotSmall,
          NeverResizes, WorkerPC, OwnerPC, flagVars, busyVars, workVars, prodVars,
          mgrVars, ownerVars
  <1>1. CASE OwnerShutdown
    BY <1>1, SameQueue DEF OwnerShutdown, ringVars
  <1>2. CASE OwnerJoin
    BY <1>2, SameQueue DEF OwnerJoin, ManagerEnded, ringVars
  <1>3. CASE OwnerSignal
    <2>1. \/ wpc' = wpc
          \/ \E t \in Workers : wpc[t] = "blocked" /\ wpc' = [wpc EXCEPT ![t] = "woken"]
      <3>1. wpc' = wpc \/ wpc' \in SignalOne(wpc)
        BY <1>3 DEF OwnerSignal
      <3>2. DOMAIN wpc = Workers
        OBVIOUS
      <3> QED
        BY <3>1, <3>2, SignalOutcome
    <2> QED
      BY <1>3, <2>1, SameQueue DEF OwnerSignal, ringVars
  <1>4. CASE OwnerFree
    BY <1>4, SameQueue DEF OwnerFree, ringVars
  <1> QED
    BY <1>1, <1>2, <1>3, <1>4 DEF DestroyStep

\* Spurious wakeups, and threads that touch the freed pool.
LEMMA OtherIInv ==
  ASSUME IInv, SpuriousWakeup \/ UseAfterFree
  PROVE  IInv'
  <1> USE MinNumType, PoolAssumption
      DEF IInv, TypeOK, LockDiscipline, TasksInPlace, DestroyOrder, SnapshotSmall,
          NeverResizes, WorkerPC, ProducerPC, flagVars, busyVars, mgrVars, ownerVars
  <1>1. CASE SpuriousWakeup
    BY <1>1, SameQueue DEF SpuriousWakeup, Blocked, ringVars
  <1>2. CASE UseAfterFree
    BY <1>2, SameQueue DEF UseAfterFree, ringVars
  <1> QED
    BY <1>1, <1>2

\* Every step of the pool preserves the invariant.
LEMMA NextIInv == IInv /\ [Next]_vars => IInv'
  <1> SUFFICES ASSUME IInv, [Next]_vars PROVE IInv'
    OBVIOUS
  <1>1. ASSUME NEW w \in Workers, WorkerStep(w) PROVE IInv'
    BY <1>1, WorkerIInv, TakeIInv
  <1>2. ASSUME NEW p \in Producers, ProducerStep(p) PROVE IInv'
    BY <1>2, ProducerIInv
  <1>3. ASSUME NEW p \in Producers, NEW t \in Tasks, ProducerCall(p, t) PROVE IInv'
    BY <1>3, ProducerIInv
  <1>4. CASE ManagerStep
    BY <1>4, ManagerIInv
  <1>5. CASE OwnerShutdown \/ DestroyStep
    BY <1>5, OwnerIInv
  <1>6. CASE SpuriousWakeup \/ UseAfterFree
    BY <1>6, OtherIInv
  <1>7. CASE UNCHANGED vars
    <2>1. UNCHANGED ringVars
      BY <1>7 DEF vars
    <2> QED
      BY <1>7, <2>1, SameQueue
         DEF IInv, TypeOK, LockDiscipline, TasksInPlace, DestroyOrder, SnapshotSmall,
             NeverResizes, vars, ringVars, flagVars, busyVars, workVars, prodVars,
             mgrVars, ownerVars
  <1> QED
    BY <1>1, <1>2, <1>3, <1>4, <1>5, <1>6, <1>7 DEF Next

\* IInv holds in every reachable state.
THEOREM Invariance == Spec => []IInv
  BY InitIInv, NextIInv, PTL DEF Spec

\* Every variable keeps its type: indices stay inside the ring, queueSize never
\* passes queueCapacity, and the values read from the ring are tasks
\* (thread_pool.c:151-155, 210-217).
THEOREM TypeCorrect == Spec => []TypeOK
  BY Invariance, PTL DEF IInv

\* queueRear is queueSize slots ahead of queueFront (thread_pool.c:154-155,
\* 216-217).
THEOREM RingConsistency == Spec => []RingConsistent
  BY Invariance, PTL DEF IInv

\* The pool keeps its minNum threads: the assignment in the test at
\* thread_pool.c:265 makes the growth branch, and with it the shrink branch at
\* 277 and the exit branch at 192, unreachable.
THEOREM PoolNeverResizes == Spec => []NeverResizes
  BY Invariance, PTL DEF IInv

\* The pool is freed only after the manager has ended (thread_pool.c:111, 134).
THEOREM ManagerEndsBeforeFree == Spec => []ManagerJoined
  <1>1. IInv => ManagerJoined
    BY DEF IInv, DestroyOrder, ManagerJoined
  <1> QED
    BY <1>1, Invariance, PTL

-----------------------------------------------------------------------------
(***************************************************************************)
(* No lost wakeup.  WorkConserving is preserved by every step once IInv is *)
(* known: a step that adds a task wakes a sleeping worker, a step that     *)
(* removes one uses up at most one awake worker, and a worker goes to      *)
(* sleep only on an empty queue.                                           *)
(***************************************************************************)

\* The workers that are awake for the queue, and the producers for its slots.
AwakeWorkers == {w \in Workers : wpc[w] \in {"woken", "take"}}
AwakeProducers == {p \in Producers : ppc[p] \in {"woken", "put"}}

\* Cardinality of a finite set that gains or loses an element.
LEMMA OneMoreOrLess ==
  ASSUME NEW S, IsFiniteSet(S), NEW T, NEW x
  PROVE  /\ Cardinality(S) \in Nat
         /\ T = S \cup {x} /\ x \notin S => Cardinality(T) = Cardinality(S) + 1
         /\ T = S \ {x} /\ x \in S => Cardinality(T) = Cardinality(S) - 1
  BY FS_CardinalityType, FS_AddElement, FS_RemoveElement

\* A set that only gains elements does not get smaller.
LEMMA OnlyMore ==
  ASSUME NEW S, NEW T, IsFiniteSet(T), S \subseteq T
  PROVE  /\ Cardinality(S) \in Nat /\ Cardinality(T) \in Nat
         /\ Cardinality(S) <= Cardinality(T)
  BY FS_CardinalityType, FS_Subset

LEMMA AwakeFinite ==
  /\ IsFiniteSet(AwakeWorkers) /\ IsFiniteSet(AwakeWorkers')
  /\ IsFiniteSet(AwakeProducers) /\ IsFiniteSet(AwakeProducers')
  <1>1. IsFiniteSet(Workers) /\ IsFiniteSet(Producers)
    BY PoolAssumption
  <1>2. /\ AwakeWorkers \in SUBSET Workers /\ AwakeWorkers' \in SUBSET Workers
        /\ AwakeProducers \in SUBSET Producers /\ AwakeProducers' \in SUBSET Producers
    BY DEF AwakeWorkers, AwakeProducers
  <1> QED
    BY <1>1, <1>2, FS_Subset

\* A step that adds no task, puts no worker to sleep and keeps the awake ones.
LEMMA WorkersQuiet ==
  ASSUME IInv, WorkConserving, queueSize' = queueSize, shutdown' = shutdown,
         Blocked(wpc') \subseteq Blocked(wpc), AwakeWorkers \subseteq AwakeWorkers'
  PROVE  WorkConserving'
  <1>1. Cardinality(AwakeWorkers) <= Cardinality(AwakeWorkers')
    BY AwakeFinite, OnlyMore
  <1>2. Cardinality(AwakeWorkers) \in Nat /\ Cardinality(AwakeWorkers') \in Nat
    BY AwakeFinite, FS_CardinalityType
  <1>3. queueSize \in Int
    BY PoolAssumption DEF IInv, TypeOK
  <1> QED
    BY <1>1, <1>2, <1>3 DEF WorkConserving, AwakeWorkers

\* A step that leaves the queue empty.
LEMMA EmptyIsConserving ==
  ASSUME queueSize' = 0
  PROVE  WorkConserving'
  <1>1. Cardinality(AwakeWorkers') \in Nat
    BY AwakeFinite, FS_CardinalityType
  <1> QED
    BY <1>1 DEF WorkConserving, AwakeWorkers

\* Every step preserves WorkConserving.
LEMMA NextWorkConserving == IInv /\ WorkConserving /\ [Next]_vars => WorkConserving'
  <1> SUFFICES ASSUME IInv, WorkConserving, [Next]_vars PROVE WorkConserving'
    OBVIOUS
  <1>a. wpc \in [Workers -> WorkerPC] /\ queueSize \in Int
    BY PoolAssumption DEF IInv, TypeOK
  <1>1. ASSUME NEW w \in Workers, WorkerStep(w) PROVE WorkConserving'
    <2>1. CASE WorkerTake(w)
      <3>1. /\ queueSize' = queueSize - 1 /\ shutdown' = shutdown
            /\ Blocked(wpc') = Blocked(wpc)
        BY <1>a, <2>1 DEF WorkerTake, Blocked, flagVars
      <3>2. w \in AwakeWorkers /\ AwakeWorkers' = AwakeWorkers \ {w}
        BY <1>a, <2>1 DEF WorkerTake, AwakeWorkers
      <3>3. Cardinality(AwakeWorkers') = Cardinality(AwakeWorkers) - 1
        BY <3>2, AwakeFinite, OneMoreOrLess
      <3>4. Cardinality(AwakeWorkers) \in Nat
        BY AwakeFinite, FS_CardinalityType
      <3> QED
        BY <1>a, <3>1, <3>3, <3>4 DEF WorkConserving, AwakeWorkers
    <2>2. CASE WorkerWait(w)
      <3>1. queueSize' = 0
        BY <2>2 DEF WorkerWait, IInv, LockDiscipline, ringVars
      <3> QED
        BY <3>1, EmptyIsConserving
    <2>3. CASE WorkerWake(w)
      <3>1. exitNum = 0
        BY DEF IInv, NeverResizes
      <3>2. CASE shutdown
        BY <2>3, <3>2 DEF WorkerWake, WorkConserving
      <3>3. CASE queueSize = 0
        BY <2>3, <3>3, EmptyIsConserving DEF WorkerWake, ringVars
      <3>4. CASE ~shutdown /\ queueSize # 0
        <4>1. wpc' = [wpc EXCEPT ![w] = "take"] /\ wpc[w] = "woken"
          BY <2>3, <3>1, <3>4 DEF WorkerWake, WorkerTest
        <4>2. Blocked(wpc') \subseteq Blocked(wpc) /\ AwakeWorkers \subseteq AwakeWorkers'
          BY <1>a, <4>1 DEF Blocked, AwakeWorkers
        <4> QED
          BY <2>3, <4>2, WorkersQuiet DEF WorkerWake, ringVars
      <3> QED
        BY <3>2, <3>3, <3>4
    <2>4. CASE ~(WorkerTake(w) \/ WorkerWait(w) \/ WorkerWake(w))
      <3>1. /\ queueSize' = queueSize /\ shutdown' = shutdown
            /\ \A v \in Workers : wpc[v] \in {"blocked", "woken", "take"} => wpc'[v] = wpc[v]
            /\ wpc'[w] # "blocked"
            /\ wpc' = [wpc EXCEPT ![w] = wpc'[w]]
        BY <1>a, <1>1, <2>4
           DEF WorkerStep, WorkerLock, WorkerTest, WorkerBusyLock, WorkerLoad,
               WorkerStore, WorkerBusyUnlock, WorkerRun, WorkerExit, ringVars, flagVars
      <3>2. Blocked(wpc') \subseteq Blocked(wpc) /\ AwakeWorkers \subseteq AwakeWorkers'
        BY <1>a, <3>1 DEF Blocked, AwakeWorkers
      <3> QED
        BY <3>1, <3>2, WorkersQuiet
    <2> QED
      BY <2>1, <2>2, <2>3, <2>4
  <1>2. ASSUME NEW p \in Producers, ProducerPut(p) PROVE WorkConserving'
    <2>1. DOMAIN wpc = Workers /\ wpc' \in SignalOne(wpc)
      BY <1>a, <1>2 DEF ProducerPut, WakeConsumer
    <2>2. CASE wpc' = wpc /\ Blocked(wpc) = {}
      BY <2>2 DEF WorkConserving
    <2>3. ASSUME NEW t \in Workers, wpc[t] = "blocked", wpc' = [wpc EXCEPT ![t] = "woken"]
          PROVE  WorkConserving'
      <3>1. t \notin AwakeWorkers /\ AwakeWorkers' = AwakeWorkers \cup {t}
        BY <1>a, <2>3 DEF AwakeWorkers
      <3>2. Cardinality(AwakeWorkers') = Cardinality(AwakeWorkers) + 1
        BY <3>1, AwakeFinite, OneMoreOrLess
      <3>3. Cardinality(AwakeWorkers) \in Nat
        BY AwakeFinite, FS_CardinalityType
      <3>4. /\ Blocked(wpc) # {} /\ shutdown' = shutdown
            /\ queueSize' = queueSize + 1
        BY <1>a, <1>2, <2>3 DEF Blocked, ProducerPut, flagVars
      <3> QED
        BY <1>a, <3>2, <3>3, <3>4 DEF WorkConserving, AwakeWorkers
    <2> QED
      BY <2>1, <2>2, <2>3, SignalOutcome
  <1>3. CASE SpuriousWakeup
    <2>1. Blocked(wpc') \subseteq Blocked(wpc) /\ AwakeWorkers \subseteq AwakeWorkers'
      BY <1>a, <1>3 DEF SpuriousWakeup, Blocked, AwakeWorkers
    <2> QED
      BY <1>3, <2>1, WorkersQuiet DEF SpuriousWakeup, ringVars, flagVars
  <1>4. CASE OwnerShutdown \/ DestroyStep \/ UseAfterFree
    <2>1. shutdown'
      BY <1>4 DEF OwnerShutdown, DestroyStep, OwnerJoin, OwnerSignal, OwnerFree,
                  UseAfterFree, IInv, DestroyOrder, flagVars
    <2> QED
      BY <2>1 DEF WorkConserving
  <1>5. ASSUME UNCHANGED <<wpc, queueSize, shutdown>> PROVE WorkConserving'
    BY <1>5 DEF WorkConserving
  <1>6. ASSUME NEW p \in Producers, ProducerStep(p), ~ProducerPut(p) PROVE WorkConserving'
    BY <1>5, <1>6 DEF ProducerStep, ProducerLock, ProducerWait, ringVars, flagVars,
                      workVars
  <1>7. ASSUME NEW p \in Producers, NEW t \in Tasks, ProducerCall(p, t)
        PROVE  WorkConserving'
    BY <1>5, <1>7 DEF ProducerCall, ringVars, flagVars, workVars
  <1>8. CASE ManagerStep
    <2>1. mLive \in Nat /\ MinNum \in Nat /\ ~(mLive > MinNum)
      BY MinNumType DEF IInv, TypeOK, SnapshotSmall
    <2> QED
      BY <1>5, <1>8, <2>1
         DEF ManagerStep, ManagerTest, ManagerSnapshot, ManagerBusyLock,
             ManagerBusyUnlock, ManagerGrow, ManagerShrink, ringVars, flagVars, workVars
  <1>9. CASE UNCHANGED vars
    BY <1>5, <1>9 DEF vars, ringVars, flagVars, workVars
  <1> QED
    BY <1>1, <1>2, <1>3, <1>4, <1>6, <1>7, <1>8, <1>9 DEF Next

\* No wakeup of a worker is lost while the pool is open (thread_pool.c:157, 186,
\* 189).
THEOREM NoWorkerWakeupLost == Spec => []WorkConserving
  <1>1. Init => WorkConserving
    BY AwakeFinite, FS_CardinalityType DEF Init, WorkConserving, AwakeWorkers
  <1> QED
    BY <1>1, NextWorkConserving, Invariance, PTL DEF Spec

-----------------------------------------------------------------------------
\* The same argument for producers and free slots.

\* A step that frees no slot, puts no producer to sleep and keeps the awake ones.
LEMMA ProducersQuiet ==
  ASSUME IInv, ProducersNotStranded, queueSize' = queueSize, shutdown' = shutdown,
         Blocked(ppc') \subseteq Blocked(ppc), AwakeProducers \subseteq AwakeProducers'
  PROVE  ProducersNotStranded'
  <1>1. Cardinality(AwakeProducers) <= Cardinality(AwakeProducers')
    BY AwakeFinite, OnlyMore
  <1>2. Cardinality(AwakeProducers) \in Nat /\ Cardinality(AwakeProducers') \in Nat
    BY AwakeFinite, FS_CardinalityType
  <1>3. queueSize \in Int /\ Capacity \in Int
    BY PoolAssumption DEF IInv, TypeOK
  <1> QED
    BY <1>1, <1>2, <1>3 DEF ProducersNotStranded, AwakeProducers

\* A step that leaves the queue full.
LEMMA FullIsNotStranding ==
  ASSUME queueSize' = Capacity
  PROVE  ProducersNotStranded'
  <1>1. Cardinality(AwakeProducers') \in Nat /\ Capacity \in Nat
    BY AwakeFinite, FS_CardinalityType, PoolAssumption
  <1> QED
    BY <1>1 DEF ProducersNotStranded, AwakeProducers

\* Every step preserves ProducersNotStranded.
LEMMA NextProducersNotStranded ==
  IInv /\ ProducersNotStranded /\ [Next]_vars => ProducersNotStranded'
  <1> SUFFICES ASSUME IInv, ProducersNotStranded, [Next]_vars
               PROVE  ProducersNotStranded'
    OBVIOUS
  <1>a. ppc \in [Producers -> ProducerPC] /\ queueSize \in Int /\ Capacity \in Int
    BY PoolAssumption DEF IInv, TypeOK
  <1>1. ASSUME NEW p \in Producers, ProducerPut(p) PROVE ProducersNotStranded'
    <2>1. /\ queueSize' = queueSize + 1 /\ shutdown' = shutdown
          /\ Blocked(ppc') = Blocked(ppc)
      BY <1>a, <1>1 DEF ProducerPut, Blocked, flagVars
    <2>2. p \in AwakeProducers /\ AwakeProducers' = AwakeProducers \ {p}
      BY <1>a, <1>1 DEF ProducerPut, AwakeProducers
    <2>3. Cardinality(AwakeProducers') = Cardinality(AwakeProducers) - 1
      BY <2>2, AwakeFinite, OneMoreOrLess
    <2>4. Cardinality(AwakeProducers) \in Nat
      BY AwakeFinite, FS_CardinalityType
    <2> QED
      BY <1>a, <2>1, <2>3, <2>4 DEF ProducersNotStranded, AwakeProducers
  <1>2. ASSUME NEW p \in Producers, ProducerWait(p) PROVE ProducersNotStranded'
    <2>1. queueSize' = Capacity
      BY <1>2 DEF ProducerWait, IInv, LockDiscipline, ringVars
    <2> QED
      BY <2>1, FullIsNotStranding
  <1>3. ASSUME NEW p \in Producers, ProducerLock(p) PROVE ProducersNotStranded'
    <2>1. queueSize' = queueSize /\ shutdown' = shutdown
      BY <1>3 DEF ProducerLock, ringVars, flagVars
    <2>2. CASE shutdown
      BY <2>1, <2>2 DEF ProducersNotStranded
    <2>3. CASE queueSize = Capacity
      BY <2>1, <2>3, FullIsNotStranding
    <2>4. CASE ~shutdown /\ queueSize # Capacity
      <3>1. ppc' = [ppc EXCEPT ![p] = "put"] /\ ppc[p] \in {"lock", "woken"}
        BY <1>3, <2>4 DEF ProducerLock
      <3>2. Blocked(ppc') \subseteq Blocked(ppc) /\ AwakeProducers \subseteq AwakeProducers'
        BY <1>a, <3>1 DEF Blocked, AwakeProducers
      <3> QED
        BY <2>1, <3>2, ProducersQuiet
    <2> QED
      BY <2>2, <2>3, <2>4
  <1>4. ASSUME NEW p \in Producers, NEW t \in Tasks, ProducerCall(p, t)
        PROVE  ProducersNotStranded'
    <2>1. ppc' = [ppc EXCEPT ![p] = "lock"] /\ ppc[p] = "idle"
      BY <1>4 DEF ProducerCall
    <2>2. Blocked(ppc') \subseteq Blocked(ppc) /\ AwakeProducers \subseteq AwakeProducers'
      BY <1>a, <2>1 DEF Blocked, AwakeProducers
    <2> QED
      BY <1>4, <2>2, ProducersQuiet DEF ProducerCall, ringVars, flagVars
  <1>5. ASSUME NEW w \in Workers, WorkerTake(w) PROVE ProducersNotStranded'
    <2>1. DOMAIN ppc = Producers /\ ppc' \in SignalOne(ppc)
      BY <1>a, <1>5 DEF WorkerTake, WakeProducer
    <2>2. CASE ppc' = ppc /\ Blocked(ppc) = {}
      BY <2>2 DEF ProducersNotStranded
    <2>3. ASSUME NEW t \in Producers, ppc[t] = "blocked", ppc' = [ppc EXCEPT ![t] = "woken"]
          PROVE  ProducersNotStranded'
      <3>1. t \notin AwakeProducers /\ AwakeProducers' = AwakeProducers \cup {t}
        BY <1>a, <2>3 DEF AwakeProducers
      <3>2. Cardinality(AwakeProducers') = Cardinality(AwakeProducers) + 1
        BY <3>1, AwakeFinite, OneMoreOrLess
      <3>3. Cardinality(AwakeProducers) \in Nat
        BY AwakeFinite, FS_CardinalityType
      <3>4. /\ Blocked(ppc) # {} /\ shutdown' = shutdown
            /\ queueSize' = queueSize - 1
        BY <1>a, <1>5, <2>3 DEF Blocked, WorkerTake, flagVars
      <3> QED
        BY <1>a, <3>2, <3>3, <3>4 DEF ProducersNotStranded, AwakeProducers
    <2> QED
      BY <2>1, <2>2, <2>3, SignalOutcome
  <1>6. CASE SpuriousWakeup
    <2>1. Blocked(ppc') \subseteq Blocked(ppc) /\ AwakeProducers \subseteq AwakeProducers'
      BY <1>a, <1>6 DEF SpuriousWakeup, Blocked, AwakeProducers
    <2> QED
      BY <1>6, <2>1, ProducersQuiet DEF SpuriousWakeup, ringVars, flagVars
  <1>7. CASE OwnerShutdown \/ DestroyStep \/ UseAfterFree
    <2>1. shutdown'
      BY <1>7 DEF OwnerShutdown, DestroyStep, OwnerJoin, OwnerSignal, OwnerFree,
                  UseAfterFree, IInv, DestroyOrder, flagVars
    <2> QED
      BY <2>1 DEF ProducersNotStranded
  <1>8. ASSUME UNCHANGED <<ppc, queueSize, shutdown>> PROVE ProducersNotStranded'
    BY <1>8 DEF ProducersNotStranded
  <1>9. ASSUME NEW w \in Workers, WorkerStep(w), ~WorkerTake(w)
        PROVE  ProducersNotStranded'
    BY <1>8, <1>9
       DEF WorkerStep, WorkerLock, WorkerTest, WorkerWait, WorkerWake, WorkerBusyLock,
           WorkerLoad, WorkerStore, WorkerBusyUnlock, WorkerRun, WorkerExit, ringVars,
           flagVars, prodVars
  <1>10. CASE ManagerStep
    BY <1>8, <1>10
       DEF ManagerStep, ManagerTest, ManagerSnapshot, ManagerBusyLock,
           ManagerBusyUnlock, ManagerGrow, ManagerShrink, ringVars, flagVars, prodVars
  <1>11. CASE UNCHANGED vars
    BY <1>8, <1>11 DEF vars, ringVars, flagVars, prodVars
  <1> QED
    BY <1>1, <1>2, <1>3, <1>4, <1>5, <1>6, <1>7, <1>9, <1>10, <1>11
       DEF Next, ProducerStep

\* No wakeup of a producer is lost while the pool is open (thread_pool.c:143-144,
\* 220).
THEOREM NoProducerWakeupLost == Spec => []ProducersNotStranded
  <1>1. Init => ProducersNotStranded
    BY DEF Init, ProducersNotStranded, Blocked
  <1> QED
    BY <1>1, NextProducersNotStranded, Invariance, PTL DEF Spec


-----------------------------------------------------------------------------
(***************************************************************************)
(* ThreadPool implements TaskPool: the ring is the queue, task is the      *)
(* function running.  A step of ThreadPool maps to Accept (ProducerPut),   *)
(* Start (WorkerTake), Finish (WorkerRun) or to a stutter.                 *)
(***************************************************************************)

\* A worker that is not between dequeue and return holds no task.
IdleHasNoTask ==
    \A w \in Workers :
       wpc[w] \notin {"busylock", "incread", "incwrite", "incunlock", "run", "undefined"}
          => task[w] = None

\* Whatever the pool has taken over was once submitted.
OnlySubmitted ==
    /\ \A i \in 1..queueSize : QueueSeq[i] \in submitted
    /\ \A w \in Workers : task[w] \in submitted \cup {None}
    /\ done \subseteq submitted

\* What a producer is about to add is new to the pool and to the others.
ArgsFresh ==
    \A p \in Producers : arg[p] # None =>
       /\ arg[p] \in submitted
       /\ \A i \in 1..queueSize : QueueSeq[i] # arg[p]
       /\ \A w \in Workers : task[w] # arg[p]
       /\ arg[p] \notin done
       /\ \A q \in Producers \ {p} : arg[q] # arg[p]

RInv == IdleHasNoTask /\ OnlySubmitted /\ ArgsFresh

-----------------------------------------------------------------------------
\* QueueSeq is a sequence of tasks of length queueSize.
LEMMA QueueIsSeq ==
  ASSUME IInv
  PROVE  /\ QueueSeq \in Seq(Tasks) /\ Len(QueueSeq) = queueSize
         /\ queueSize \in 0..Capacity /\ Capacity \in Nat
         /\ DOMAIN QueueSeq = 1..queueSize
  BY PoolAssumption DEF IInv, TypeOK, TasksInPlace, QueueSeq

\* The queue after a dequeue, and its old head.
LEMMA TakeIsTail ==
  ASSUME IInv, NEW w \in Workers, WorkerTake(w)
  PROVE  /\ queueSize \in 1..Capacity /\ queueSize' = queueSize - 1
         /\ QueueSeq # <<>>
         /\ QueueSeq' = Tail(QueueSeq)
         /\ HeadTask = Head(QueueSeq) /\ HeadTask = QueueSeq[1]
         /\ \A i \in 1..queueSize' : QueueSeq'[i] = QueueSeq[i + 1]
  <1>1. queueSize > 0 /\ queueSize' = queueSize - 1
    BY DEF IInv, LockDiscipline, WorkerTake
  <1>2. /\ QueueSeq' = [i \in 1..(queueSize - 1) |-> QueueSeq[i + 1]]
        /\ HeadTask = QueueSeq[1]
    BY <1>1, TakeQueue DEF IInv, WorkerTake
  <1>3. /\ QueueSeq \in Seq(Tasks) /\ Len(QueueSeq) = queueSize
        /\ queueSize \in 1..Capacity
    BY <1>1, QueueIsSeq
  <1>4. QueueSeq # <<>>
    BY <1>3
  <1>5. Head(QueueSeq) = QueueSeq[1]
    BY <1>3, <1>4
  <1>6. Tail(QueueSeq) = [i \in 1..(queueSize - 1) |-> QueueSeq[i + 1]]
    <2>1. /\ Tail(QueueSeq) \in Seq(Tasks)
          /\ Len(Tail(QueueSeq)) = queueSize - 1
          /\ \A i \in 1..(queueSize - 1) : Tail(QueueSeq)[i] = QueueSeq[i + 1]
      BY <1>3, <1>4, HeadTailProperties
    <2>2. Tail(QueueSeq) \in [1..(queueSize - 1) -> Tasks]
      BY <2>1, LenProperties
    <2> QED
      BY <2>1, <2>2
  <1> QED
    BY <1>1, <1>2, <1>3, <1>4, <1>5, <1>6

\* The queue after an enqueue.
LEMMA PutIsAppend ==
  ASSUME IInv, NEW p \in Producers, ProducerPut(p)
  PROVE  /\ queueSize < Capacity /\ queueSize' = queueSize + 1
         /\ arg[p] \in Tasks
         /\ QueueSeq' = Append(QueueSeq, arg[p])
         /\ \A i \in 1..queueSize' : QueueSeq'[i] = IF i <= queueSize THEN QueueSeq[i]
                                                    ELSE arg[p]
  <1>1. queueSize < Capacity /\ queueSize' = queueSize + 1 /\ arg[p] \in Tasks
    BY DEF IInv, LockDiscipline, TasksInPlace, ProducerPut
  <1>2. QueueSeq' = [i \in 1..(queueSize + 1) |->
                        IF i <= queueSize THEN QueueSeq[i] ELSE arg[p]]
    BY <1>1, PutQueue DEF IInv, ProducerPut
  <1> QED
    BY <1>1, <1>2, QueueIsSeq

-----------------------------------------------------------------------------
\* RInv in the first state.
LEMMA InitRInv == Init => RInv
  BY DEF Init, RInv, IdleHasNoTask, OnlySubmitted, ArgsFresh

\* RInv is preserved by every step.
LEMMA NextRInv == IInv /\ RInv /\ [Next]_vars => RInv'
  <1> SUFFICES ASSUME IInv, RInv, [Next]_vars PROVE RInv'
    OBVIOUS
  <1>a. /\ wpc \in [Workers -> WorkerPC] /\ task \in [Workers -> Tasks \cup {None}]
        /\ arg \in [Producers -> Tasks \cup {None}] /\ None \notin Tasks
        /\ queueSize \in 0..Capacity /\ Capacity \in Nat
    BY PoolAssumption DEF IInv, TypeOK
  <1>1. ASSUME NEW w \in Workers, WorkerTake(w) PROVE RInv'
    <2>1. /\ queueSize' = queueSize - 1 /\ 1 \in 1..queueSize
          /\ task' = [task EXCEPT ![w] = QueueSeq[1]]
          /\ wpc' = [wpc EXCEPT ![w] = "busylock"]
          /\ UNCHANGED <<arg, submitted, done>>
      <3>1. queueSize' = queueSize - 1 /\ 1 \in 1..queueSize /\ HeadTask = QueueSeq[1]
        BY <1>a, <1>1, TakeIsTail
      <3> QED
        BY <1>1, <3>1 DEF WorkerTake
    <2>2. \A i \in 1..queueSize' : i + 1 \in 1..queueSize /\ QueueSeq'[i] = QueueSeq[i + 1]
      BY <1>a, <1>1, <2>1, TakeIsTail
    <2>3. IdleHasNoTask'
      BY <1>a, <2>1 DEF RInv, IdleHasNoTask
    <2>4. OnlySubmitted'
      BY <1>a, <2>1, <2>2 DEF RInv, OnlySubmitted
    <2>5. ArgsFresh'
      BY <1>a, <2>1, <2>2 DEF RInv, ArgsFresh
    <2> QED
      BY <2>3, <2>4, <2>5 DEF RInv
  <1>2. ASSUME NEW p \in Producers, ProducerPut(p) PROVE RInv'
    <2>1. \A v \in Workers : wpc'[v] = wpc[v] \/ wpc[v] = "blocked"
      <3>1. DOMAIN wpc = Workers /\ wpc' \in SignalOne(wpc)
        BY <1>a, <1>2 DEF ProducerPut, WakeConsumer
      <3> QED
        BY <1>a, <3>1, SignalOutcome
    <2>2. /\ queueSize' = queueSize + 1
          /\ arg' = [arg EXCEPT ![p] = None]
          /\ UNCHANGED <<task, submitted, done>>
          /\ arg[p] # None
      BY <1>a, <1>2, PutIsAppend DEF ProducerPut
    <2>3. \A i \in 1..queueSize' :
             \/ i \in 1..queueSize /\ QueueSeq'[i] = QueueSeq[i]
             \/ QueueSeq'[i] = arg[p]
      BY <1>a, <1>2, <2>2, PutIsAppend
    <2>4. IdleHasNoTask'
      BY <1>a, <2>1, <2>2 DEF RInv, IdleHasNoTask
    <2>5. OnlySubmitted'
      BY <1>a, <2>2, <2>3 DEF RInv, OnlySubmitted, ArgsFresh
    <2>6. ArgsFresh'
      BY <1>a, <2>2, <2>3 DEF RInv, ArgsFresh
    <2> QED
      BY <2>4, <2>5, <2>6 DEF RInv
  <1>3. ASSUME NEW w \in Workers, WorkerRun(w) PROVE RInv'
    <2>1. /\ queueSize' = queueSize /\ QueueSeq' = QueueSeq
          /\ task' = [task EXCEPT ![w] = None]
          /\ done' = done \cup {task[w]}
          /\ wpc' = [wpc EXCEPT ![w] = "decread"]
          /\ UNCHANGED <<arg, submitted>>
      BY <1>3, SameQueue DEF WorkerRun, ringVars, prodVars
    <2>2. task[w] \in Tasks
      BY <1>3 DEF IInv, TasksInPlace, WorkerRun
    <2>3. IdleHasNoTask'
      BY <1>a, <2>1 DEF RInv, IdleHasNoTask
    <2>4. OnlySubmitted'
      BY <1>a, <2>1, <2>2 DEF RInv, OnlySubmitted
    <2>5. ArgsFresh'
      BY <1>a, <2>1, <2>2 DEF RInv, ArgsFresh
    <2> QED
      BY <2>3, <2>4, <2>5 DEF RInv
  <1>4. ASSUME NEW p \in Producers, NEW t \in Tasks, ProducerCall(p, t) PROVE RInv'
    <2>1. /\ queueSize' = queueSize /\ QueueSeq' = QueueSeq
          /\ arg' = [arg EXCEPT ![p] = t]
          /\ submitted' = submitted \cup {t} /\ t \notin submitted
          /\ UNCHANGED <<wpc, task, done>>
      BY <1>4, SameQueue DEF ProducerCall, ringVars, workVars
    <2>2. IdleHasNoTask'
      BY <2>1 DEF RInv, IdleHasNoTask
    <2>3. OnlySubmitted'
      BY <1>a, <2>1 DEF RInv, OnlySubmitted
    <2>4. ArgsFresh'
      BY <1>a, <2>1 DEF RInv, ArgsFresh, OnlySubmitted
    <2> QED
      BY <2>2, <2>3, <2>4 DEF RInv
  <1>5. ASSUME UNCHANGED ringVars, UNCHANGED <<task, done, submitted>>,
               arg' = arg \/ \E p \in Producers : arg' = [arg EXCEPT ![p] = None],
               \A v \in Workers :
                  wpc'[v] # wpc[v] =>
                     \/ task[v] = None
                     \/ wpc'[v] \in {"busylock", "incread", "incwrite", "incunlock",
                                     "run", "undefined"}
        PROVE  RInv'
    <2>1. queueSize' = queueSize /\ QueueSeq' = QueueSeq
      BY <1>5, SameQueue DEF ringVars
    <2>2. IdleHasNoTask'
      BY <1>a, <1>5 DEF RInv, IdleHasNoTask
    <2>3. OnlySubmitted'
      BY <1>5, <2>1 DEF RInv, OnlySubmitted
    <2>4. ArgsFresh'
      BY <1>a, <1>5, <2>1 DEF RInv, ArgsFresh
    <2> QED
      BY <2>2, <2>3, <2>4 DEF RInv
  <1>6. ASSUME NEW w \in Workers, WorkerStep(w), ~WorkerTake(w), ~WorkerRun(w)
        PROVE  RInv'
    <2>1. \A v \in Workers :
             wpc'[v] # wpc[v] =>
                \/ task[v] = None
                \/ wpc'[v] \in {"busylock", "incread", "incwrite", "incunlock",
                                "run", "undefined"}
      BY <1>a, <1>6
         DEF RInv, IdleHasNoTask, WorkerStep, WorkerLock, WorkerTest, WorkerWait,
             WorkerWake, WorkerBusyLock, WorkerLoad, WorkerStore, WorkerBusyUnlock,
             WorkerExit
    <2>2. UNCHANGED ringVars /\ UNCHANGED <<task, done, submitted, arg>>
      BY <1>6
         DEF WorkerStep, WorkerLock, WorkerWait, WorkerWake, WorkerBusyLock,
             WorkerLoad, WorkerStore, WorkerBusyUnlock, WorkerExit, prodVars
    <2> QED
      BY <1>5, <2>1, <2>2
  <1>7. ASSUME NEW p \in Producers, ProducerLock(p) \/ ProducerWait(p) PROVE RInv'
    <2>1. UNCHANGED ringVars /\ UNCHANGED <<task, done, submitted, wpc>>
      BY <1>7 DEF ProducerLock, ProducerWait, workVars
    <2>2. arg' = arg \/ \E q \in Producers : arg' = [arg EXCEPT ![q] = None]
      BY <1>a, <1>7 DEF ProducerLock, ProducerWait
    <2> QED
      BY <1>5, <2>1, <2>2
  <1>8. ASSUME UNCHANGED ringVars, UNCHANGED <<task, done, submitted, arg>>,
               wpc' = wpc \/ \E v \in Workers :
                                /\ wpc[v] = "blocked"
                                /\ wpc' = [wpc EXCEPT ![v] = "woken"]
        PROVE  RInv'
    <2>1. \A v \in Workers : wpc'[v] # wpc[v] => task[v] = None
      BY <1>a, <1>8 DEF RInv, IdleHasNoTask
    <2> QED
      BY <1>5, <1>8, <2>1
  <1>9. CASE ManagerStep
    <2>1. UNCHANGED ringVars /\ UNCHANGED <<task, done, submitted, arg, wpc>>
      <3>1. mLive \in Nat /\ MinNum \in Nat /\ ~(mLive > MinNum)
        BY MinNumType DEF IInv, TypeOK, SnapshotSmall
      <3> QED
        BY <1>9, <3>1
           DEF ManagerStep, ManagerTest, ManagerSnapshot, ManagerBusyLock,
               ManagerBusyUnlock, ManagerGrow, ManagerShrink, workVars, prodVars
    <2> QED
      BY <1>8, <2>1
  <1>10. CASE OwnerShutdown \/ DestroyStep
    <2>1. UNCHANGED ringVars /\ UNCHANGED <<task, done, submitted, arg>>
      BY <1>10 DEF OwnerShutdown, DestroyStep, OwnerJoin, OwnerSignal, OwnerFree,
                   workVars, prodVars
    <2>2. wpc' = wpc \/ wpc' \in SignalOne(wpc)
      BY <1>10 DEF OwnerShutdown, DestroyStep, OwnerJoin, OwnerSignal, OwnerFree,
                   workVars
    <2>3. DOMAIN wpc = Workers
      BY <1>a
    <2> QED
      BY <1>8, <2>1, <2>2, <2>3, SignalOutcome
  <1>11. CASE SpuriousWakeup
    <2>1. UNCHANGED ringVars /\ UNCHANGED <<task, done, submitted, arg>>
      BY <1>11 DEF SpuriousWakeup
    <2>2. wpc' = wpc \/ \E v \in Workers : /\ wpc[v] = "blocked"
                                           /\ wpc' = [wpc EXCEPT ![v] = "woken"]
      BY <1>a, <1>11 DEF SpuriousWakeup, Blocked
    <2> QED
      BY <1>8, <2>1, <2>2
  <1>12. CASE UseAfterFree
    <2>1. \A v \in Workers : wpc'[v] # wpc[v] => wpc'[v] = "undefined"
      BY <1>a, <1>12 DEF UseAfterFree
    <2>2. UNCHANGED ringVars /\ UNCHANGED <<task, done, submitted, arg>>
      BY <1>12 DEF UseAfterFree
    <2> QED
      BY <1>5, <2>1, <2>2
  <1>13. CASE UNCHANGED vars
    BY <1>8, <1>13 DEF vars, workVars, prodVars
  <1> QED
    BY <1>1, <1>2, <1>3, <1>4, <1>6, <1>7, <1>9, <1>10, <1>11, <1>12, <1>13
       DEF Next, ProducerStep

\* RInv holds in every reachable state.
LEMMA RInvariance == Spec => []RInv
  BY Invariance, InitRInv, NextRInv, PTL DEF Spec

-----------------------------------------------------------------------------
\* threadPoolCreate returns an empty pool.
LEMMA InitMaps == Init => Pool!Init
  <1> SUFFICES ASSUME Init PROVE Pool!Init
    OBVIOUS
  <1>1. QueueSeq = <<>>
    BY DEF Init, QueueSeq
  <1> QED
    BY <1>1 DEF Init, Pool!Init

\* Every step is Accept, Start, Finish or leaves the abstract state alone.
LEMMA NextMaps == IInv /\ RInv /\ [Next]_vars => [Pool!Next]_Pool!poolVars
  <1> SUFFICES ASSUME IInv, RInv, [Next]_vars
               PROVE  [Pool!Next]_Pool!poolVars
    OBVIOUS
  <1>a. /\ task \in [Workers -> Tasks \cup {None}] /\ None \notin Tasks
        /\ queueSize \in 0..Capacity /\ Capacity \in Nat
        /\ Len(QueueSeq) = queueSize
    BY PoolAssumption, QueueIsSeq DEF IInv, TypeOK
  <1>1. ASSUME NEW p \in Producers, ProducerPut(p) PROVE Pool!Accept(arg[p])
    <2>1. /\ queueSize < Capacity /\ arg[p] \in Tasks
          /\ QueueSeq' = Append(QueueSeq, arg[p])
      BY <1>1, PutIsAppend
    <2>2. Pool!Fresh(arg[p])
      BY <1>a, <2>1 DEF RInv, ArgsFresh, Pool!Fresh
    <2>3. UNCHANGED <<task, done>>
      BY <1>1 DEF ProducerPut
    <2> QED
      BY <1>a, <2>1, <2>2, <2>3 DEF Pool!Accept
  <1>2. ASSUME NEW w \in Workers, WorkerTake(w) PROVE Pool!Start(w)
    <2>1. /\ QueueSeq # <<>> /\ QueueSeq' = Tail(QueueSeq)
          /\ HeadTask = Head(QueueSeq)
      BY <1>2, TakeIsTail
    <2>2. task[w] = None
      BY <1>2 DEF RInv, IdleHasNoTask, WorkerTake
    <2>3. task' = [task EXCEPT ![w] = HeadTask] /\ UNCHANGED done
      BY <1>2 DEF WorkerTake
    <2> QED
      BY <2>1, <2>2, <2>3 DEF Pool!Start
  <1>3. ASSUME NEW w \in Workers, WorkerRun(w) PROVE Pool!Finish(w)
    <2>1. task[w] \in Tasks
      BY <1>3 DEF IInv, TasksInPlace, WorkerRun
    <2>2. UNCHANGED QueueSeq
      BY <1>3, SameQueue DEF WorkerRun
    <2>3. done' = done \cup {task[w]} /\ task' = [task EXCEPT ![w] = None]
      BY <1>3 DEF WorkerRun
    <2> QED
      BY <1>a, <2>1, <2>2, <2>3 DEF Pool!Finish
  <1>4. ASSUME UNCHANGED ringVars, UNCHANGED <<task, done>>
        PROVE  UNCHANGED Pool!poolVars
    BY <1>4, SameQueue DEF Pool!poolVars
  <1>5. ASSUME NEW w \in Workers, WorkerStep(w), ~WorkerTake(w), ~WorkerRun(w)
        PROVE  UNCHANGED Pool!poolVars
    BY <1>4, <1>5
       DEF WorkerStep, WorkerLock, WorkerWait, WorkerWake, WorkerBusyLock,
           WorkerLoad, WorkerStore, WorkerBusyUnlock, WorkerExit
  <1>6. ASSUME NEW p \in Producers, ProducerStep(p), ~ProducerPut(p)
        PROVE  UNCHANGED Pool!poolVars
    BY <1>4, <1>6 DEF ProducerStep, ProducerLock, ProducerWait, workVars
  <1>7. ASSUME NEW p \in Producers, NEW t \in Tasks, ProducerCall(p, t)
        PROVE  UNCHANGED Pool!poolVars
    BY <1>4, <1>7 DEF ProducerCall, workVars
  <1>8. CASE ManagerStep
    BY <1>4, <1>8
       DEF ManagerStep, ManagerTest, ManagerSnapshot, ManagerBusyLock,
           ManagerBusyUnlock, ManagerGrow, ManagerShrink, workVars
  <1>9. CASE OwnerShutdown \/ DestroyStep
    BY <1>4, <1>9 DEF OwnerShutdown, DestroyStep, OwnerJoin, OwnerSignal, OwnerFree,
                      workVars
  <1>10. CASE SpuriousWakeup \/ UseAfterFree \/ UNCHANGED vars
    BY <1>4, <1>10 DEF SpuriousWakeup, UseAfterFree, vars, workVars
  <1>11. ASSUME NEW p \in Producers, ProducerPut(p) PROVE Pool!Next
    BY <1>1, <1>11, PutIsAppend DEF Pool!Next
  <1>12. ASSUME NEW w \in Workers, WorkerTake(w) \/ WorkerRun(w) PROVE Pool!Next
    BY <1>2, <1>3, <1>12 DEF Pool!Next
  <1> QED
    BY <1>5, <1>6, <1>7, <1>8, <1>9, <1>10, <1>11, <1>12 DEF Next

\* The thread pool implements the bounded FIFO dispatch of TaskPool: tasks are
\* started in the order they were added, each by one worker, once, and never
\* more than queueCapacity wait (thread_pool.c:140-159, 177-236).
THEOREM Refinement == Spec => PoolSpec
  BY Invariance, RInvariance, InitMaps, NextMaps, PTL DEF Spec, PoolSpec, Pool!Spec

-----------------------------------------------------------------------------
\* What holds of every implementation of TaskPool holds of the thread pool.
Abstract == INSTANCE TaskPoolProofs WITH queue <- QueueSeq, running <- task

\* No task is taken from the ring by two workers or run twice, so free(task.arg)
\* at thread_pool.c:228 is reached at most once for each argument.
THEOREM EachTaskOnce == Spec => []NoTaskRunsTwice
  <1>0. Abstract!GoodParameters
    BY PoolAssumption DEF Abstract!GoodParameters
  <1>1. Abstract!Spec => []Abstract!AtMostOnce
    BY <1>0, Abstract!HandedOutOnce
  <1>2. Pool!Init => Abstract!Init
    BY DEF Pool!Init, Abstract!Init
  <1>3. [Pool!Next]_Pool!poolVars => [Abstract!Next]_Abstract!poolVars
    BY DEF Pool!Next, Pool!poolVars, Pool!Accept, Pool!Fresh, Pool!Start, Pool!Finish,
           Abstract!Next, Abstract!poolVars, Abstract!Accept, Abstract!Fresh,
           Abstract!Start, Abstract!Finish
  <1>4. Abstract!AtMostOnce => NoTaskRunsTwice
    BY DEF NoTaskRunsTwice, Pool!AtMostOnce, Abstract!AtMostOnce
  <1> QED
    BY <1>1, <1>2, <1>3, <1>4, Refinement, PTL DEF PoolSpec, Pool!Spec, Abstract!Spec

=============================================================================
