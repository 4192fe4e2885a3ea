------------------------------ MODULE TaskPool ------------------------------
(***************************************************************************)
(* What the thread pool of thread_pool.h promises to the caller of         *)
(* threadPoolAdd, with no lock, condition variable, ring or thread state:  *)
(* accepted tasks form one bounded FIFO queue, a worker takes the task at  *)
(* the head, runs at most one task at a time, and a task is run at most    *)
(* once.  ThreadPool is shown to implement this specification.             *)
(***************************************************************************)
EXTENDS Naturals, Sequences

CONSTANTS
    Workers,    \* the worker threads
    Tasks,      \* the task instances handed to threadPoolAdd
    Capacity,   \* queueCapacity
    None        \* "no task"

\* What every caller guarantees of the parameters.
GoodParameters == Capacity \in Nat \ {0} /\ None \notin Tasks

VARIABLES
    queue,      \* accepted tasks not yet started, oldest first
    running,    \* the task each worker is running, or None
    done        \* tasks that have run

poolVars == <<queue, running, done>>

Init ==
    /\ queue = <<>>
    /\ running = [w \in Workers |-> None]
    /\ done = {}

\* A task the pool has never seen: each call of threadPoolAdd is a new instance.
Fresh(t) ==
    /\ \A i \in 1..Len(queue) : queue[i] # t
    /\ \A w \in Workers : running[w] # t
    /\ t \notin done

\* threadPoolAdd accepts a task while the queue is below its capacity.
Accept(t) ==
    /\ Fresh(t)
    /\ Len(queue) < Capacity
    /\ queue' = Append(queue, t)
    /\ UNCHANGED <<running, done>>

\* An idle worker takes the oldest task.
Start(w) ==
    /\ queue # <<>>
    /\ running[w] = None
    /\ running' = [running EXCEPT ![w] = Head(queue)]
    /\ queue' = Tail(queue)
    /\ UNCHANGED done

\* The task function of worker w returns.
Finish(w) ==
    /\ running[w] # None
    /\ done' = done \cup {running[w]}
    /\ running' = [running EXCEPT ![w] = None]
    /\ UNCHANGED queue

Next ==
    \/ \E t \in Tasks : Accept(t)
    \/ \E w \in Workers : Start(w) \/ Finish(w)

Spec == Init /\ [][Next]_poolVars

-----------------------------------------------------------------------------
TypeOK ==
    /\ queue \in Seq(Tasks)
    /\ Len(queue) <= Capacity
    /\ running \in [Workers -> Tasks \cup {None}]
    /\ done \subseteq Tasks

\* A task is in at most one place: one queue position, or one worker, or done.
\* So no task is handed out twice and none is run again (free(task.arg) is
\* reached once per task).
AtMostOnce ==
    /\ \A i, j \in 1..Len(queue) : queue[i] = queue[j] => i = j
    /\ \A i \in 1..Len(queue) : queue[i] \notin done
    /\ \A i \in 1..Len(queue), w \in Workers : queue[i] # running[w]
    /\ \A w \in Workers : running[w] \notin done
    /\ \A v, w \in Workers : running[v] = running[w] /\ running[v] # None => v = w
=============================================================================
