----------------------------- MODULE ThreadPool -----------------------------
(***************************************************************************)
(* The thread pool of thread_pool.c / thread_pool.h: worker threads, the   *)
(* manager thread, producer threads inside threadPoolAdd and the owner     *)
(* inside threadPoolDestory, interleaved.                                  *)
(*                                                                         *)
(* One action is one critical section, or one access to a variable that    *)
(* the code touches without the lock that should protect it (shutdown,     *)
(* busyNum, threadIDs).  A thread that holds mutexPool across two actions  *)
(* is recorded in mutexPool.  The pool exists in Init: threadPoolCreate    *)
(* has started |Workers| = minNum workers and the manager.                 *)
(***************************************************************************)
EXTENDS Integers, FiniteSets

CONSTANTS
    Workers,    \* the minNum threads started by threadPoolCreate
    Producers,  \* threads that call threadPoolAdd
    Manager,    \* the manager thread
    Tasks,      \* task instances, each handed to threadPoolAdd at most once
    Capacity,   \* queueCapacity
    MaxNum,     \* maxNum
    Destroys,   \* may the owner call threadPoolDestory?
    None        \* an unlocked mutex, an empty slot, no task

MinNum == Cardinality(Workers)

ASSUME PoolAssumption ==
    /\ IsFiniteSet(Workers) /\ Workers # {}
    /\ IsFiniteSet(Producers) /\ Producers \cap Workers = {}
    /\ Manager \notin Workers
    /\ MaxNum \in Nat /\ MinNum <= MaxNum
    /\ Capacity \in Nat \ {0}
    /\ Destroys \in BOOLEAN
    /\ None \notin Workers \cup Producers \cup Tasks \cup {Manager}

VARIABLES
    \* the ring of tasks, under mutexPool
    taskQ, queueFront, queueRear, queueSize,
    \* counters and flags of the pool
    liveNum, exitNum, shutdown, threadIDs, freed,
    \* mutexes: the holder or None
    mutexPool, mutexBusy,
    \* busyNum, and the register each worker reads it into
    busyNum, reg,
    \* workers: program counter and local variable "task"; done: tasks run
    wpc, task, done,
    \* producers: program counter, argument, and tasks handed out so far
    ppc, arg, submitted,
    \* manager: program counter and its locals queueSize, liveNum, busyNum
    mpc, mQueue, mLive, mBusy,
    \* owner: program counter and loop index of threadPoolDestory
    opc, oi

ringVars  == <<taskQ, queueFront, queueRear, queueSize>>
flagVars  == <<liveNum, exitNum, shutdown, threadIDs, freed>>
busyVars  == <<mutexBusy, busyNum, reg>>
workVars  == <<wpc, task, done>>
prodVars  == <<ppc, arg, submitted>>
mgrVars   == <<mpc, mQueue, mLive, mBusy>>
ownerVars == <<opc, oi>>
vars == <<ringVars, flagVars, mutexPool, busyVars, workVars, prodVars,
          mgrVars, ownerVars>>

WorkerPC == {"lock", "towait", "blocked", "woken", "take", "busylock",
             "incread", "incwrite", "incunlock", "run", "decread",
             "decwrite", "decunlock", "exit", "gone", "undefined"}
ProducerPC == {"idle", "lock", "towait", "blocked", "woken", "put", "undefined"}
ManagerPC == {"test", "snapshot", "busylock", "busyunlock", "grow", "shrink", "gone"}
OwnerPC == {"idle", "join", "signal", "free", "done"}

Slots == 0..(Capacity - 1)

TypeOK ==
    /\ taskQ \in [Slots -> Tasks \cup {None}]
    /\ queueFront \in Slots /\ queueRear \in Slots
    /\ queueSize \in 0..Capacity
    /\ liveNum \in Nat /\ exitNum \in Nat
    /\ shutdown \in BOOLEAN /\ freed \in BOOLEAN
    /\ threadIDs \subseteq Workers
    /\ mutexPool \in Workers \cup Producers \cup {None}
    /\ mutexBusy \in Workers \cup {Manager, None}
    /\ busyNum \in Int /\ reg \in [Workers -> Int]
    /\ wpc \in [Workers -> WorkerPC]
    /\ task \in [Workers -> Tasks \cup {None}]
    /\ done \subseteq Tasks
    /\ ppc \in [Producers -> ProducerPC]
    /\ arg \in [Producers -> Tasks \cup {None}]
    /\ submitted \subseteq Tasks
    /\ mpc \in ManagerPC /\ mQueue \in Nat /\ mLive \in Nat /\ mBusy \in Int
    /\ opc \in OwnerPC /\ oi \in Nat

-----------------------------------------------------------------------------
\* threadPoolCreate on its success path.
Init ==
    /\ taskQ = [i \in Slots |-> None]
    /\ queueFront = 0 /\ queueRear = 0 /\ queueSize = 0
    /\ liveNum = MinNum /\ exitNum = 0 /\ shutdown = FALSE /\ freed = FALSE
    /\ threadIDs = Workers
    /\ mutexPool = None /\ mutexBusy = None
    /\ busyNum = 0 /\ reg = [w \in Workers |-> 0]
    /\ wpc = [w \in Workers |-> "lock"]
    /\ task = [w \in Workers |-> None]
    /\ done = {}
    /\ ppc = [p \in Producers |-> "idle"]
    /\ arg = [p \in Producers |-> None]
    /\ submitted = {}
    /\ mpc = "test" /\ mQueue = 0 /\ mLive = 0 /\ mBusy = 0
    /\ opc = "idle" /\ oi = 0

\* The threads of pc that sleep in pthread_cond_wait.
Blocked(pc) == {t \in DOMAIN pc : pc[t] = "blocked"}

\* The outcomes of pthread_cond_signal: one sleeper, if any, is unblocked.
SignalOne(pc) ==
    IF Blocked(pc) = {} THEN {pc}
    ELSE {[pc EXCEPT ![t] = "woken"] : t \in Blocked(pc)}

-----------------------------------------------------------------------------
(***************************************************************************)
(* Variants: plausible slips in the operators of the same purpose below.   *)
(* They are used only to show that the properties can fail.                *)
(***************************************************************************)
NoWrap(i) == i + 1                                   \* index not reduced
FrontStays == queueFront                             \* head not moved
SecondTask == taskQ[(queueFront + 1) % Capacity]     \* head moved before the read
WakeConsumerOfEmpty == IF queueSize = 0 THEN SignalOne(wpc) ELSE {wpc}
WakeNoConsumer == {wpc}
WakeProducerOfFull == IF queueSize = Capacity THEN SignalOne(ppc) ELSE {ppc}
WakeNoProducer == {ppc}
IgnoreShutdown == "snapshot"                         \* while (1)
NoJoin == TRUE                                       \* pthread_join left out

-----------------------------------------------------------------------------
\* Ring arithmetic: the slot after i.
NextSlot(i) == (i + 1) % Capacity

\* taskQ[queueFront], and the new queueFront.
HeadTask == taskQ[queueFront]
FrontAfterTake == NextSlot(queueFront)

\* pthread_cond_signal on notEmpty by an Add, on notFull by a worker.
WakeConsumer == SignalOne(wpc)
WakeProducer == SignalOne(ppc)

\* busyNum++ or busyNum--.
Delta(w) == IF wpc[w] = "incwrite" THEN 1 ELSE -1

\* The manager's while condition.
AfterManagerTest == IF shutdown THEN "gone" ELSE "snapshot"

\* What pthread_join(managerID) waits for.
ManagerEnded == mpc = "gone"

-----------------------------------------------------------------------------
\* The two tests that follow each (re)acquisition of mutexPool by a worker:
\* the loop condition at 186 and the shutdown test at 204.  It keeps the lock
\* unless it leaves for threadExit.
WorkerTest(w) ==
    /\ wpc' = [wpc EXCEPT ![w] = IF shutdown THEN "exit"
                                 ELSE IF queueSize = 0 THEN "towait" ELSE "take"]
    /\ mutexPool' = IF shutdown THEN None ELSE w

\* Top of the worker loop: lock mutexPool and test.
WorkerLock(w) ==
    /\ ~freed
    /\ wpc[w] = "lock" /\ mutexPool = None
    /\ WorkerTest(w)
    /\ UNCHANGED <<ringVars, flagVars, busyVars, task, done, prodVars,
                   mgrVars, ownerVars>>

\* pthread_cond_wait on notEmpty: release the mutex and sleep, atomically.
WorkerWait(w) ==
    /\ ~freed
    /\ wpc[w] = "towait"
    /\ wpc' = [wpc EXCEPT ![w] = "blocked"]
    /\ mutexPool' = None
    /\ UNCHANGED <<ringVars, flagVars, busyVars, task, done, prodVars,
                   mgrVars, ownerVars>>

\* pthread_cond_wait returns with mutexPool held; a worker that finds
\* exitNum > 0 uses up one request and exits if the pool is above minNum.
WorkerWake(w) ==
    /\ ~freed
    /\ wpc[w] = "woken" /\ mutexPool = None
    /\ exitNum' = IF exitNum > 0 THEN exitNum - 1 ELSE exitNum
    /\ IF exitNum > 0 /\ liveNum > MinNum
       THEN /\ liveNum' = liveNum - 1
            /\ wpc' = [wpc EXCEPT ![w] = "exit"]
            /\ UNCHANGED mutexPool
       ELSE /\ WorkerTest(w)
            /\ UNCHANGED liveNum
    /\ UNCHANGED <<ringVars, shutdown, threadIDs, freed, busyVars, task, done,
                   prodVars, mgrVars, ownerVars>>

\* Dequeue the head, signal notFull, unlock.
WorkerTake(w) ==
    /\ ~freed
    /\ wpc[w] = "take"
    /\ task' = [task EXCEPT ![w] = HeadTask]
    /\ queueFront' = FrontAfterTake
    /\ queueSize' = queueSize - 1
    /\ ppc' \in WakeProducer
    /\ mutexPool' = None
    /\ wpc' = [wpc EXCEPT ![w] = "busylock"]
    /\ UNCHANGED <<taskQ, queueRear, flagVars, busyVars, done, arg, submitted,
                   mgrVars, ownerVars>>

\* busyNum++ under mutexBusy: lock, load, store, unlock.  The unlock frees the
\* mutex whoever holds it by then: the decrement below may already have
\* released this worker's lock, and another thread may have taken it.
WorkerBusyLock(w) ==
    /\ ~freed
    /\ wpc[w] = "busylock" /\ mutexBusy = None
    /\ mutexBusy' = w
    /\ wpc' = [wpc EXCEPT ![w] = "incread"]
    /\ UNCHANGED <<ringVars, flagVars, mutexPool, busyNum, reg, task, done,
                   prodVars, mgrVars, ownerVars>>

\* The load of busyNum, for ++ under the lock and for -- without it.
WorkerLoad(w) ==
    /\ ~freed
    /\ \/ wpc[w] = "incread" /\ wpc' = [wpc EXCEPT ![w] = "incwrite"]
       \/ wpc[w] = "decread" /\ wpc' = [wpc EXCEPT ![w] = "decwrite"]
    /\ reg' = [reg EXCEPT ![w] = busyNum]
    /\ UNCHANGED <<ringVars, flagVars, mutexPool, mutexBusy, busyNum, task,
                   done, prodVars, mgrVars, ownerVars>>

\* The store of busyNum.
WorkerStore(w) ==
    /\ ~freed
    /\ \/ wpc[w] = "incwrite" /\ wpc' = [wpc EXCEPT ![w] = "incunlock"]
       \/ wpc[w] = "decwrite" /\ wpc' = [wpc EXCEPT ![w] = "decunlock"]
    /\ busyNum' = reg[w] + Delta(w)
    /\ reg' = [reg EXCEPT ![w] = 0]
    /\ UNCHANGED <<ringVars, flagVars, mutexPool, mutexBusy, task, done,
                   prodVars, mgrVars, ownerVars>>

\* pthread_mutex_unlock(&mutexBusy), after ++ and again after --, where this
\* worker never locked it.  A default mutex is simply set free.
WorkerBusyUnlock(w) ==
    /\ ~freed
    /\ \/ wpc[w] = "incunlock" /\ wpc' = [wpc EXCEPT ![w] = "run"]
       \/ wpc[w] = "decunlock" /\ wpc' = [wpc EXCEPT ![w] = "lock"]
    /\ mutexBusy' = None
    /\ UNCHANGED <<ringVars, flagVars, mutexPool, busyNum, reg, task, done,
                   prodVars, mgrVars, ownerVars>>

\* task.function(task.arg); free(task.arg).  It does not touch the pool.
WorkerRun(w) ==
    /\ wpc[w] = "run"
    /\ done' = done \cup {task[w]}
    /\ task' = [task EXCEPT ![w] = None]
    /\ wpc' = [wpc EXCEPT ![w] = "decread"]
    /\ UNCHANGED <<ringVars, flagVars, mutexPool, busyVars, prodVars,
                   mgrVars, ownerVars>>

\* threadExit: clear the thread's own entry, without a lock, and exit.
WorkerExit(w) ==
    /\ ~freed
    /\ wpc[w] = "exit"
    /\ threadIDs' = threadIDs \ {w}
    /\ wpc' = [wpc EXCEPT ![w] = "gone"]
    /\ UNCHANGED <<ringVars, liveNum, exitNum, shutdown, freed, mutexPool,
                   busyVars, task, done, prodVars, mgrVars, ownerVars>>

-----------------------------------------------------------------------------
\* A client calls threadPoolAdd(pool, func, arg) with a new task.  No call
\* starts once the owner has begun to destroy the pool; calls in progress may
\* overlap threadPoolDestory.
ProducerCall(p, t) ==
    /\ ppc[p] = "idle" /\ opc = "idle"
    /\ t \notin submitted
    /\ submitted' = submitted \cup {t}
    /\ arg' = [arg EXCEPT ![p] = t]
    /\ ppc' = [ppc EXCEPT ![p] = "lock"]
    /\ UNCHANGED <<ringVars, flagVars, mutexPool, busyVars, workVars,
                   mgrVars, ownerVars>>

\* Lock mutexPool, on entry or when pthread_cond_wait returns; then the loop
\* condition at 143 and the shutdown test at 145, which drops the task.
ProducerLock(p) ==
    /\ ~freed
    /\ ppc[p] \in {"lock", "woken"} /\ mutexPool = None
    /\ ppc' = [ppc EXCEPT ![p] = IF shutdown THEN "idle"
                                 ELSE IF queueSize = Capacity THEN "towait"
                                 ELSE "put"]
    /\ mutexPool' = IF shutdown THEN None ELSE p
    /\ arg' = [arg EXCEPT ![p] = IF shutdown THEN None ELSE @]
    /\ UNCHANGED <<ringVars, flagVars, busyVars, workVars, submitted,
                   mgrVars, ownerVars>>

\* pthread_cond_wait on notFull.
ProducerWait(p) ==
    /\ ~freed
    /\ ppc[p] = "towait"
    /\ ppc' = [ppc EXCEPT ![p] = "blocked"]
    /\ mutexPool' = None
    /\ UNCHANGED <<ringVars, flagVars, busyVars, workVars, arg, submitted,
                   mgrVars, ownerVars>>

\* Enqueue at the rear, signal notEmpty, unlock, return.
ProducerPut(p) ==
    /\ ~freed
    /\ ppc[p] = "put"
    /\ taskQ' = [taskQ EXCEPT ![queueRear] = arg[p]]
    /\ queueRear' = NextSlot(queueRear)
    /\ queueSize' = queueSize + 1
    /\ wpc' \in WakeConsumer
    /\ mutexPool' = None
    /\ arg' = [arg EXCEPT ![p] = None]
    /\ ppc' = [ppc EXCEPT ![p] = "idle"]
    /\ UNCHANGED <<queueFront, flagVars, busyVars, task, done, submitted,
                   mgrVars, ownerVars>>

-----------------------------------------------------------------------------
\* while (!shutdown), read without a lock; the loop body begins with sleep(3).
ManagerTest ==
    /\ mpc = "test"
    /\ mpc' = AfterManagerTest
    /\ UNCHANGED <<ringVars, flagVars, mutexPool, busyVars, workVars, prodVars,
                   mQueue, mLive, mBusy, ownerVars>>

\* After the sleep: copy queueSize and liveNum under mutexPool.
ManagerSnapshot ==
    /\ mpc = "snapshot" /\ mutexPool = None
    /\ mQueue' = queueSize
    /\ mLive' = liveNum
    /\ mpc' = "busylock"
    /\ UNCHANGED <<ringVars, flagVars, mutexPool, busyVars, workVars, prodVars,
                   mBusy, ownerVars>>

\* Lock mutexBusy and copy busyNum ...
ManagerBusyLock ==
    /\ mpc = "busylock" /\ mutexBusy = None
    /\ mutexBusy' = Manager
    /\ mBusy' = busyNum
    /\ mpc' = "busyunlock"
    /\ UNCHANGED <<ringVars, flagVars, mutexPool, busyNum, reg, workVars,
                   prodVars, mQueue, mLive, ownerVars>>

\* ... and unlock it, whoever holds it by then.
ManagerBusyUnlock ==
    /\ mpc = "busyunlock"
    /\ mutexBusy' = None
    /\ mpc' = "grow"
    /\ UNCHANGED <<ringVars, flagVars, mutexPool, busyNum, reg, workVars,
                   prodVars, mQueue, mLive, mBusy, ownerVars>>

\* "Add threads": the test in the loop is the assignment threadIDs[i] = 0, so
\* each visited slot is zeroed and the body (pthread_create, liveNum++) is never
\* entered; counter and liveNum stay put, so the loop visits all slots or, if
\* liveNum has reached maxNum, none.
ManagerGrow ==
    /\ mpc = "grow"
    /\ IF mQueue > mLive /\ mLive < MaxNum
       THEN /\ mutexPool = None
            /\ threadIDs' = IF liveNum < MaxNum THEN {} ELSE threadIDs
       ELSE UNCHANGED threadIDs
    /\ mpc' = "shrink"
    /\ UNCHANGED <<ringVars, liveNum, exitNum, shutdown, freed, mutexPool, busyVars,
                   workVars, prodVars, mQueue, mLive, mBusy, ownerVars>>

\* "Destroy threads": ask two workers to exit and signal notEmpty twice.  The
\* locals go out of scope at the end of the loop body.
ManagerShrink ==
    /\ mpc = "shrink"
    /\ IF mBusy * 2 < mLive /\ mLive > MinNum
       THEN /\ mutexPool = None
            /\ exitNum' = 2
            /\ wpc' \in UNION {SignalOne(pc) : pc \in SignalOne(wpc)}
       ELSE UNCHANGED <<exitNum, wpc>>
    /\ mpc' = "test"
    /\ mQueue' = 0 /\ mLive' = 0 /\ mBusy' = 0
    /\ UNCHANGED <<ringVars, liveNum, shutdown, threadIDs, freed, mutexPool,
                   busyVars, task, done, prodVars, ownerVars>>

-----------------------------------------------------------------------------
\* threadPoolDestory sets shutdown without a lock.
OwnerShutdown ==
    /\ Destroys /\ opc = "idle"
    /\ shutdown' = TRUE
    /\ opc' = "join"
    /\ UNCHANGED <<ringVars, liveNum, exitNum, threadIDs, freed, mutexPool,
                   busyVars, workVars, prodVars, mgrVars, oi>>

\* pthread_join(managerID).
OwnerJoin ==
    /\ opc = "join" /\ ManagerEnded
    /\ opc' = "signal"
    /\ UNCHANGED <<ringVars, flagVars, mutexPool, busyVars, workVars, prodVars,
                   mgrVars, oi>>

\* The loop that signals notEmpty liveNum times, without a lock.
OwnerSignal ==
    /\ opc = "signal"
    /\ IF oi < liveNum
       THEN /\ wpc' \in SignalOne(wpc)
            /\ oi' = oi + 1
            /\ UNCHANGED opc
       ELSE /\ opc' = "free"
            /\ UNCHANGED <<wpc, oi>>
    /\ UNCHANGED <<ringVars, flagVars, mutexPool, busyVars, task, done, prodVars,
                   mgrVars>>

\* Free taskQ and threadIDs, destroy the mutexes and condition variables, free
\* the pool and return.  No worker has been joined.
OwnerFree ==
    /\ opc = "free"
    /\ freed' = TRUE
    /\ opc' = "done"
    /\ UNCHANGED <<ringVars, liveNum, exitNum, shutdown, threadIDs, mutexPool,
                   busyVars, workVars, prodVars, mgrVars, oi>>

-----------------------------------------------------------------------------
\* POSIX allows pthread_cond_wait to return with no signal.
SpuriousWakeup ==
    /\ \/ /\ \E w \in Blocked(wpc) : wpc' = [wpc EXCEPT ![w] = "woken"]
          /\ UNCHANGED ppc
       \/ /\ \E p \in Blocked(ppc) : ppc' = [ppc EXCEPT ![p] = "woken"]
          /\ UNCHANGED wpc
    /\ ~freed
    /\ UNCHANGED <<ringVars, flagVars, mutexPool, busyVars, task, done, arg,
                   submitted, mgrVars, ownerVars>>

\* A thread that uses the pool after it was freed: undefined behaviour.
\* Nothing is claimed of that thread from here on.
UseAfterFree ==
    /\ freed
    /\ \/ /\ \E w \in Workers :
                /\ wpc[w] \notin {"run", "blocked", "gone", "undefined"}
                /\ wpc' = [wpc EXCEPT ![w] = "undefined"]
          /\ UNCHANGED ppc
       \/ /\ \E p \in Producers :
                /\ ppc[p] \notin {"idle", "blocked", "undefined"}
                /\ ppc' = [ppc EXCEPT ![p] = "undefined"]
          /\ UNCHANGED wpc
    /\ UNCHANGED <<ringVars, flagVars, mutexPool, busyVars, task, done, arg,
                   submitted, mgrVars, ownerVars>>

WorkerStep(w) ==
    \/ WorkerLock(w) \/ WorkerWait(w) \/ WorkerWake(w) \/ WorkerTake(w)
    \/ WorkerBusyLock(w) \/ WorkerLoad(w) \/ WorkerStore(w)
    \/ WorkerBusyUnlock(w) \/ WorkerRun(w) \/ WorkerExit(w)

ProducerStep(p) == ProducerLock(p) \/ ProducerWait(p) \/ ProducerPut(p)

ManagerStep ==
    \/ ManagerTest \/ ManagerSnapshot \/ ManagerBusyLock
    \/ ManagerBusyUnlock \/ ManagerGrow \/ ManagerShrink

DestroyStep == OwnerJoin \/ OwnerSignal \/ OwnerFree

Next ==
    \/ \E w \in Workers : WorkerStep(w)
    \/ \E p \in Producers : ProducerStep(p)
    \/ \E p \in Producers, t \in Tasks : ProducerCall(p, t)
    \/ ManagerStep
    \/ OwnerShutdown \/ DestroyStep
    \/ SpuriousWakeup \/ UseAfterFree

Spec == Init /\ [][Next]_vars

\* Threads inside the pool keep running and a lock that is free again and
\* again is eventually granted: no thread keeps a mutex while it blocks, and
\* the manager sleeps three seconds between two acquisitions.  Task functions
\* return.  Nobody has to call threadPoolAdd or threadPoolDestory.
Fairness ==
    /\ \A w \in Workers : SF_vars(WorkerStep(w))
    /\ \A p \in Producers : SF_vars(ProducerStep(p))
    /\ SF_vars(ManagerStep)
    /\ WF_vars(DestroyStep)

FairSpec == Spec /\ Fairness

-----------------------------------------------------------------------------
\* The tasks in the ring, oldest first.
QueueSeq == [i \in 1..queueSize |-> taskQ[(queueFront + i - 1) % Capacity]]

\* threadPoolAdd and worker implement a bounded FIFO that hands each accepted
\* task to one worker, in order, once (lines 140-159 and 210-229).
Pool == INSTANCE TaskPool WITH queue <- QueueSeq, running <- task
PoolSpec == Pool!Spec

\* No task is taken from the ring by two workers or run twice, so free(task.arg)
\* at 228 is reached at most once for each argument.
NoTaskRunsTwice == Pool!AtMostOnce

\* The rear index stays queueSize slots ahead of the front in the ring
\* (queueRear is updated by producers, queueFront and queueSize by both).
RingConsistent == queueRear = (queueFront + queueSize) % Capacity

\* No wakeup of a worker is lost while the pool is open: if some worker sleeps
\* on notEmpty, every queued task has a worker already woken for it or about to
\* take it.  (Signals at 157 go to sleepers only; a woken worker may find the
\* task gone, a running one may overtake it.)
WorkConserving ==
    ~shutdown /\ Blocked(wpc) # {} =>
        queueSize <= Cardinality({w \in Workers : wpc[w] \in {"woken", "take"}})

\* No wakeup of a producer is lost while the pool is open: if some producer
\* sleeps on notFull, every free slot has a producer already woken for it or
\* about to fill it (signals at 220).
ProducersNotStranded ==
    ~shutdown /\ Blocked(ppc) # {} =>
        Capacity - queueSize <=
            Cardinality({p \in Producers : ppc[p] \in {"woken", "put"}})

\* "Add threads: number of tasks > number of live threads && number of live
\* threads < maximum number of threads" (thread_pool.c:257-258): when the manager
\* finds that so, the pool has more threads afterwards.
PoolGrows ==
    [][ManagerGrow /\ mQueue > mLive /\ mLive < MaxNum => liveNum' > liveNum]_vars

\* The manager is never left running on a freed pool: threadPoolDestory joins
\* it before it releases anything.
ManagerJoined == freed => mpc = "gone"

\* busyNum counts the workers between their increment and their decrement.
BusyNumExact ==
    busyNum = Cardinality({w \in Workers :
                  wpc[w] \in {"incunlock", "run", "decread", "decwrite"}})

\* A task accepted by threadPoolAdd is eventually run, unless the pool is
\* destroyed.
EveryTaskRuns ==
    \A t \in Tasks :
        (\E i \in 1..queueSize : QueueSeq[i] = t) ~> (t \in done \/ shutdown)

\* A call of threadPoolAdd returns, even when the queue was full, unless the
\* pool is destroyed meanwhile.
AddReturns ==
    \A p \in Producers : ppc[p] = "lock" ~> (ppc[p] = "idle" \/ shutdown)

\* threadPoolDestory returns: the manager sees shutdown and can be joined.
DestroyReturns == shutdown ~> opc = "done"

\* "Wake the blocked consumer threads": none sleeps on notEmpty once
\* threadPoolDestory has gone through its signalling loop and freed the pool.
SleepersWoken == freed => Blocked(wpc) = {}

\* A destroyed pool is not used again by its own worker threads.
NoWorkerUsesFreedPool == \A w \in Workers : wpc[w] # "undefined"
=============================================================================
