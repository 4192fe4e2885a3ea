--------------------------- MODULE Demonstrations ---------------------------
(***************************************************************************)
(* The programs that demonstrate threads and processes: thread_signal.c    *)
(* (SemQueue), thread_cond.c (CondQueue), thread_lock.c and                *)
(* thread_rwlock.c (LockCounter), remove_zombie.c (ChildReaper), each on   *)
(* its own: a behaviour chooses a program and keeps it, and the variables  *)
(* of the others stay as they are initially.                               *)
(***************************************************************************)
EXTENDS SemQueue, CondQueue, LockCounter, ChildReaper

CONSTANTS ThreadA, ThreadB      \* the threads of LockCounter

VARIABLE program

semaphores == <<psem, csem>>
queueVars  == <<list, ppc, cpc>>
demoVars   == <<program, semaphores, queueVars, lockVars, reaperVars>>

\* LockCounter as it stands is thread_lock.c, with the constants in the cfg; the
\* two threads of thread_rwlock.c lock in different ways.
RWLock == INSTANCE LockCounter
    WITH MutexThreads <- {}, WriteThreads <- {ThreadA}, ReadThreads <- {ThreadB}

\* How all programs begin; the two queues share list, ppc and cpc.
AtRest ==
    /\ psem = Places /\ csem = 0
    /\ IF program = "cond" THEN CondInit ELSE SemInit
    /\ LockInit /\ ReaperInit

DemoInit == program \in {"sem", "cond", "mutex", "rwlock", "reaper"} /\ AtRest

RunSem(A) ==
    program = "sem" /\ A /\ UNCHANGED <<program, lockVars, reaperVars>>
RunCond(A) ==
    program = "cond" /\ A /\ UNCHANGED <<program, semaphores, lockVars, reaperVars>>
RunMutex(A) ==
    program = "mutex" /\ A /\ UNCHANGED <<program, semaphores, queueVars, reaperVars>>
RunRWLock(A) ==
    program = "rwlock" /\ A /\ UNCHANGED <<program, semaphores, queueVars, reaperVars>>
RunReaper(A) ==
    program = "reaper" /\ A /\ UNCHANGED <<program, semaphores, queueVars, lockVars>>

\* The lock programs end, and so does remove_zombie.c.
Ended ==
    /\ \/ program \in {"mutex", "rwlock"} /\ printed # Unset
       \/ program = "reaper" /\ \A c \in Children : status[c] \in {"zombie", "reaped"}
    /\ UNCHANGED demoVars

DemoNext ==
    \/ RunSem(SemNext) \/ RunCond(CondNext)
    \/ RunMutex(LockNext) \/ RunRWLock(RWLock!LockNext)
    \/ RunReaper(ReaperNext)
    \/ Ended

\* The threads of the queues loop for ever and sleep between two rounds: one that
\* waits on a semaphore posted again and again gets through.  Which consumer of
\* CondQueue wins the mutex is left open.
DemoFairness ==
    /\ \A p \in Producers :
          SF_demoVars(RunSem(SemProducer(p))) /\ WF_demoVars(RunCond(CondProducer(p)))
    /\ \A c \in Consumers :
          SF_demoVars(RunSem(SemConsumer(c))) /\ WF_demoVars(RunCond(CondConsumer(c)))
    /\ \A t \in {ThreadA, ThreadB} :
          WF_demoVars(RunMutex(ThreadStep(t)) \/ RunRWLock(RWLock!ThreadStep(t)))
    /\ WF_demoVars(RunMutex(PrintSum) \/ RunRWLock(RWLock!PrintSum))

-----------------------------------------------------------------------------
\* thread_signal.c and thread_cond.c: the list is the stack of NodeStack.
StackSpec ==
    [][\/ program = "sem" /\ SemStack!Next
       \/ program = "cond" /\ CondStack!Next]_list

\* thread_signal.c: a consumer that waits for an item eventually pops one, a
\* producer that waits for a place eventually gets one.
SemServed ==
    /\ \A c \in Consumers : program = "sem" /\ cpc[c] = "wait" ~> cpc[c] = "pop"
    /\ \A p \in Producers : program = "sem" /\ ppc[p] = "wait" ~> ppc[p] = "push"

\* thread_cond.c: a consumer that sleeps is eventually woken.
SleeperWoken ==
    \A c \in Consumers : program = "cond" /\ cpc[c] = "blocked" ~> cpc[c] = "woken"

\* thread_lock.c and thread_rwlock.c: both threads get the lock, and main prints.
Prints == program \in {"mutex", "rwlock"} ~> printed # Unset

\* Nobody waits for ever in any of the programs.
Served == SemServed /\ SleeperWoken /\ Prints
=============================================================================
