--------------------------- MODULE TaskPoolProofs ---------------------------
(***************************************************************************)
(* The abstract pool hands out every task at most once.                    *)
(***************************************************************************)
EXTENDS TaskPool, SequenceTheorems, TLAPS

Inv == TypeOK /\ AtMostOnce

\* The queue after Accept and after Start, position by position.
LEMMA QueueAfterAccept ==
  ASSUME TypeOK, NEW t \in Tasks, queue' = Append(queue, t)
  PROVE  /\ queue' \in Seq(Tasks) /\ Len(queue') = Len(queue) + 1
         /\ \A i \in 1..Len(queue') : queue'[i] = IF i <= Len(queue) THEN queue[i] ELSE t
  BY DEF TypeOK

LEMMA QueueAfterStart ==
  ASSUME TypeOK, queue # <<>>, queue' = Tail(queue)
  PROVE  /\ queue' \in Seq(Tasks) /\ Len(queue') = Len(queue) - 1
         /\ Len(queue) \in Nat /\ Len(queue) > 0
         /\ Head(queue) = queue[1] /\ Head(queue) \in Tasks
         /\ \A i \in 1..Len(queue') : queue'[i] = queue[i + 1]
  <1>1. queue \in Seq(Tasks)
    BY DEF TypeOK
  <1>2. Len(queue) \in Nat /\ Len(queue) > 0 /\ Head(queue) = queue[1]
    BY <1>1
  <1> QED
    BY <1>1, <1>2, HeadTailProperties

\* Inv is inductive.
LEMMA NextInv ==
  ASSUME GoodParameters, Inv, [Next]_poolVars
  PROVE  Inv'
  <1>a. /\ queue \in Seq(Tasks) /\ Len(queue) \in 0..Capacity /\ Capacity \in Nat
        /\ running \in [Workers -> Tasks \cup {None}] /\ None \notin Tasks
        /\ done \subseteq Tasks /\ TypeOK
    BY DEF GoodParameters, Inv, TypeOK
  <1>1. ASSUME NEW t \in Tasks, Accept(t) PROVE Inv'
    <2>1. /\ queue' \in Seq(Tasks) /\ Len(queue') = Len(queue) + 1
          /\ \A i \in 1..Len(queue') : queue'[i] = IF i <= Len(queue) THEN queue[i] ELSE t
          /\ UNCHANGED <<running, done>> /\ Len(queue) < Capacity
      BY <1>a, <1>1, QueueAfterAccept DEF Accept
    <2>2. TypeOK'
      BY <1>a, <2>1 DEF TypeOK
    <2>3. /\ \A i \in 1..Len(queue) : queue[i] # t
          /\ \A w \in Workers : running[w] # t
          /\ t \notin done
      BY <1>1 DEF Accept, Fresh
    <2>4. AtMostOnce'
      BY <1>a, <2>1, <2>3 DEF Inv, AtMostOnce
    <2> QED
      BY <2>2, <2>4 DEF Inv
  <1>2. ASSUME NEW w \in Workers, Start(w) PROVE Inv'
    <2>1. /\ queue' \in Seq(Tasks) /\ Len(queue') = Len(queue) - 1
          /\ Len(queue) > 0 /\ queue[1] \in Tasks
          /\ \A i \in 1..Len(queue') : queue'[i] = queue[i + 1]
          /\ running' = [running EXCEPT ![w] = queue[1]]
          /\ done' = done
      BY <1>a, <1>2, QueueAfterStart DEF Start
    <2>2. TypeOK'
      BY <1>a, <2>1 DEF TypeOK
    <2>3. \A i \in 1..Len(queue') : i + 1 \in 2..Len(queue)
      BY <1>a, <2>1
    <2>4. \A i \in 2..Len(queue) : queue[i] # queue[1]
      BY <1>a, <2>1 DEF Inv, AtMostOnce
    <2>5. queue[1] \notin done /\ \A v \in Workers : running[v] # queue[1]
      BY <1>a, <2>1 DEF Inv, AtMostOnce
    <2>6. \A i, j \in 1..Len(queue') : queue'[i] = queue'[j] => i = j
      <3> SUFFICES ASSUME NEW i \in 1..Len(queue'), NEW j \in 1..Len(queue'),
                          queue'[i] = queue'[j]
                   PROVE  i = j
        OBVIOUS
      <3>1. /\ i + 1 \in 1..Len(queue) /\ j + 1 \in 1..Len(queue)
            /\ queue[i + 1] = queue[j + 1]
        BY <1>a, <2>1, <2>3
      <3>2. i + 1 = j + 1
        BY <3>1 DEF Inv, AtMostOnce
      <3> QED
        BY <3>2
    <2>7. AtMostOnce'
      BY <1>a, <2>1, <2>3, <2>4, <2>5, <2>6 DEF Inv, AtMostOnce
    <2> QED
      BY <2>2, <2>7 DEF Inv
  <1>3. ASSUME NEW w \in Workers, Finish(w) PROVE Inv'
    <2>1. /\ running[w] \in Tasks /\ queue' = queue
          /\ running' = [running EXCEPT ![w] = None]
          /\ done' = done \cup {running[w]}
      BY <1>a, <1>3 DEF Finish
    <2>2. TypeOK'
      BY <1>a, <2>1 DEF TypeOK
    <2>3. AtMostOnce'
      BY <1>a, <2>1 DEF Inv, AtMostOnce
    <2> QED
      BY <2>2, <2>3 DEF Inv
  <1>4. CASE UNCHANGED poolVars
    BY <1>4 DEF poolVars, Inv, TypeOK, AtMostOnce
  <1> QED
    BY <1>1, <1>2, <1>3, <1>4 DEF Next

\* A task is queued once, or running once, or done: no task is handed to two
\* workers and none is run again (thread_pool.c:151-155, 210-217, 227-229).
THEOREM HandedOutOnce ==
  ASSUME GoodParameters
  PROVE  Spec => []AtMostOnce
  <1>1. Init => Inv
    BY DEF GoodParameters, Init, Inv, TypeOK, AtMostOnce
  <1>2. Inv => AtMostOnce
    BY DEF Inv
  <1>3. Inv /\ [Next]_poolVars => Inv'
    BY NextInv
  <1> QED
    BY <1>1, <1>2, <1>3, PTL DEF Spec
=============================================================================
