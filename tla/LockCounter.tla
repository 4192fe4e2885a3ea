----------------------------- MODULE LockCounter -----------------------------
(***************************************************************************)
(* thread_lock.c and thread_rwlock.c: threads that each take a lock once,  *)
(* increment x a number of times under it, and are joined by main, which   *)
(* prints x.  In thread_lock.c two threads take a mutex; in                *)
(* thread_rwlock.c one takes a read-write lock for writing and one, which  *)
(* increments x as well, for reading.                                      *)
(*                                                                         *)
(* The read-write lock is never initialised; an object of static storage   *)
(* is taken to be an open lock, as it is on Linux.                         *)
(***************************************************************************)
EXTENDS Integers, FiniteSets

CONSTANTS
    MutexThreads,               \* thread_main_a and thread_main_b
    WriteThreads, ReadThreads,  \* thread_main_w; thread_main_r
    Rounds,                     \* 1000 in the programs
    Unset                       \* nothing printed yet

Threads == MutexThreads \cup WriteThreads \cup ReadThreads

\* Two threads that hold a lock for reading would lose updates.
ASSUME LockAssumption ==
    /\ IsFiniteSet(Threads) /\ Unset \notin Int
    /\ ReadThreads \cap (MutexThreads \cup WriteThreads) = {}
    /\ \A t, u \in ReadThreads : t = u
    /\ Rounds \in Nat \ {0}

VARIABLES
    x,          \* the counter
    holders,    \* the threads that hold the lock
    tpc, i, tmp, \* of each thread: program counter, loop index, the x it read
    printed     \* what main has printed

lockVars == <<x, holders, tpc, i, tmp, printed>>

LockTypeOK ==
    /\ x \in Nat /\ holders \subseteq Threads
    /\ tpc \in [Threads -> {"lock", "load", "store", "unlock", "done"}]
    /\ i \in [Threads -> 0..Rounds] /\ tmp \in [Threads -> Nat]
    /\ printed \in Nat \cup {Unset}

-----------------------------------------------------------------------------
\* A variant of Joined, used to show that PrintedExact can fail.
SomeDone == \E t \in Threads : tpc[t] = "done"   \* one pthread_join left out

-----------------------------------------------------------------------------
\* The lock is granted: pthread_mutex_lock, and the two calls of a read-write
\* lock.
MutexFree(t) == holders = {}
WriteFree(t) == holders = {}
ReadFree(t) == holders \subseteq ReadThreads

\* pthread_mutex_unlock
Released(t) == holders \ {t}

\* Both joins return.
Joined == \A t \in Threads : tpc[t] = "done"

LockInit ==
    /\ x = 0 /\ holders = {}
    /\ tpc = [t \in Threads |-> "lock"]
    /\ i = [t \in Threads |-> 0] /\ tmp = [t \in Threads |-> 0]
    /\ printed = Unset

Granted(t) ==
    /\ tpc[t] = "lock"
    /\ holders' = holders \cup {t}
    /\ tpc' = [tpc EXCEPT ![t] = "load"]
    /\ UNCHANGED <<x, i, tmp, printed>>

MutexLock(t) == t \in MutexThreads /\ MutexFree(t) /\ Granted(t)
WriteLock(t) == t \in WriteThreads /\ WriteFree(t) /\ Granted(t)
ReadLock(t)  == t \in ReadThreads /\ ReadFree(t) /\ Granted(t)

\* x++ is a load and a store.
Load(t) ==
    /\ tpc[t] = "load"
    /\ tmp' = [tmp EXCEPT ![t] = x]
    /\ tpc' = [tpc EXCEPT ![t] = "store"]
    /\ UNCHANGED <<x, holders, i, printed>>

Store(t) ==
    /\ tpc[t] = "store"
    /\ x' = tmp[t] + 1
    /\ i' = [i EXCEPT ![t] = @ + 1]
    /\ tpc' = [tpc EXCEPT ![t] = IF i[t] + 1 = Rounds THEN "unlock" ELSE "load"]
    /\ UNCHANGED <<holders, tmp, printed>>

Unlock(t) ==
    /\ tpc[t] = "unlock"
    /\ holders' = Released(t)
    /\ tpc' = [tpc EXCEPT ![t] = "done"]
    /\ UNCHANGED <<x, i, tmp, printed>>

\* main: the joins, then printf.
PrintSum ==
    /\ Joined /\ printed = Unset
    /\ printed' = x
    /\ UNCHANGED <<x, holders, tpc, i, tmp>>

ThreadStep(t) ==
    \/ MutexLock(t) \/ WriteLock(t) \/ ReadLock(t)
    \/ Load(t) \/ Store(t) \/ Unlock(t)

LockNext == PrintSum \/ \E t \in Threads : ThreadStep(t)

LockSpec == LockInit /\ [][LockNext]_lockVars

-----------------------------------------------------------------------------
Finished == {t \in Threads : tpc[t] = "done"}

\* No increment is lost: the counter is Rounds for each thread that has ended,
\* and what the one in its loop has added.
NoIncrementLost ==
    /\ holders = {} => x = Rounds * Cardinality(Finished)
    /\ \A t \in holders : x = Rounds * Cardinality(Finished) + i[t]

\* What main prints is the sum, not a value on the way to it.
PrintedExact == printed # Unset => printed = Rounds * Cardinality(Threads)
=============================================================================
