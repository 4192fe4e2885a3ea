----------------------------- MODULE CondQueue -----------------------------
(***************************************************************************)
(* thread_cond.c: producers push nodes on a linked list and broadcast a    *)
(* condition variable after releasing the mutex; consumers wait for a      *)
(* non-empty list in a loop around pthread_cond_wait.                      *)
(*                                                                         *)
(* A critical section of mutex is one action, from the lock (or the return *)
(* of pthread_cond_wait) to the unlock (or the next pthread_cond_wait).    *)
(* The list of the program has no bound; here it is bounded by the heap,   *)
(* the set Nodes.                                                          *)
(***************************************************************************)
EXTENDS ListQueue, Integers, FiniteSets

ASSUME CondAssumption ==
    /\ IsFiniteSet(Producers) /\ IsFiniteSet(Consumers) /\ IsFiniteSet(Nodes)

condVars == <<list, ppc, cpc>>

CondProducerPC == {"link", "broadcast"}
CondConsumerPC == {"lock", "blocked", "woken"}

CondTypeOK ==
    /\ list \in Seq(Nodes)
    /\ ppc \in [Producers -> CondProducerPC]
    /\ cpc \in [Consumers -> CondConsumerPC]

-----------------------------------------------------------------------------
\* Variants of the operators below, used to show that the properties can fail.
WakeNobody == {cpc}                        \* broadcast left out

-----------------------------------------------------------------------------
\* pthread_cond_broadcast: every sleeper is unblocked.
Broadcast == {[c \in Consumers |-> IF cpc[c] = "blocked" THEN "woken" ELSE cpc[c]]}

CondInit ==
    /\ list = <<>>
    /\ ppc = [p \in Producers |-> "link"]
    /\ cpc = [c \in Consumers |-> "lock"]

\* Lock, allocate a node, link it at the head, unlock.
CondPush(p) ==
    /\ ppc[p] = "link"
    /\ \E n \in Nodes :
          /\ \A i \in 1..Len(list) : list[i] # n
          /\ list' = Linked(n)
    /\ ppc' = [ppc EXCEPT ![p] = "broadcast"]
    /\ UNCHANGED cpc

\* pthread_cond_broadcast, without the mutex; sleep.
ProducerBroadcast(p) ==
    /\ ppc[p] = "broadcast"
    /\ cpc' \in Broadcast
    /\ ppc' = [ppc EXCEPT ![p] = "link"]
    /\ UNCHANGED list

\* With the mutex, on an empty list: pthread_cond_wait.
ConsumerSleep(c) ==
    /\ cpc[c] \in {"lock", "woken"} /\ list = <<>>
    /\ cpc' = [cpc EXCEPT ![c] = "blocked"]
    /\ UNCHANGED <<list, ppc>>

\* With the mutex, on a non-empty list: unlink the head, free it, unlock, sleep.
CondPop(c) ==
    /\ cpc[c] \in {"lock", "woken"} /\ list # <<>>
    /\ list' = Tail(list)
    /\ cpc' = [cpc EXCEPT ![c] = "lock"]
    /\ UNCHANGED ppc

\* pthread_cond_wait may return with no broadcast.
SpuriousWakeup(c) ==
    /\ cpc[c] = "blocked"
    /\ cpc' = [cpc EXCEPT ![c] = "woken"]
    /\ UNCHANGED <<list, ppc>>

CondProducer(p) == CondPush(p) \/ ProducerBroadcast(p)
CondConsumer(c) == ConsumerSleep(c) \/ CondPop(c)

CondNext ==
    \/ \E p \in Producers : CondProducer(p)
    \/ \E c \in Consumers : CondConsumer(c) \/ SpuriousWakeup(c)

CondSpec == CondInit /\ [][CondNext]_condVars

-----------------------------------------------------------------------------
\* No wakeup is lost although the broadcast comes after the unlock: while a
\* consumer sleeps, each node in the list still has its producer on the way to
\* the broadcast (thread_cond.c:68-73, 85-91).
NoLostWakeup ==
    (\E c \in Consumers : cpc[c] = "blocked") =>
        Len(list) <= Cardinality({p \in Producers : ppc[p] = "broadcast"})

\* The list is the stack of NodeStack; head is not NULL when it is popped
\* (thread_cond.c:97-100), and no node is linked or freed twice.
CondStack == INSTANCE NodeStack WITH stack <- list, Limit <- Cardinality(Nodes)
CondStackSpec == CondStack!Spec
=============================================================================
