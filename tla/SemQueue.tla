------------------------------ MODULE SemQueue ------------------------------
(***************************************************************************)
(* thread_signal.c: producers and consumers share a linked list, bounded   *)
(* by the semaphore psem (places left) and guarded by csem (nodes there).  *)
(*                                                                         *)
(* A critical section of mutex is one action: the list is touched nowhere  *)
(* else and nobody blocks with the mutex held.  The two semaphore          *)
(* operations around it are actions of their own.                          *)
(***************************************************************************)
EXTENDS ListQueue, Integers, FiniteSets

CONSTANT
    Places      \* the initial value of psem, 5 in main

ASSUME SemAssumption ==
    /\ IsFiniteSet(Producers) /\ IsFiniteSet(Consumers)
    /\ Places \in Nat \ {0}

VARIABLES
    psem, csem      \* the semaphores

semVars == <<psem, csem, list, ppc, cpc>>

SemProducerPC == {"wait", "push", "post"}
SemConsumerPC == {"wait", "pop", "post"}

SemTypeOK ==
    /\ psem \in 0..Places /\ csem \in 0..Places
    /\ list \in Seq(Nodes)
    /\ ppc \in [Producers -> SemProducerPC]
    /\ cpc \in [Consumers -> SemConsumerPC]

\* How many threads of pc are at label l.
Number(pc, l) == Cardinality({t \in DOMAIN pc : pc[t] = l})

-----------------------------------------------------------------------------
\* Variants of the operators below, used to show that the properties can fail.
NoDecrement(sem) == sem                    \* sem_wait forgotten
NoPost(sem) == sem                         \* sem_post forgotten

-----------------------------------------------------------------------------
\* sem_wait on psem and on csem; sem_post on csem and on psem.
TakePlace(sem) == sem - 1
TakeItem(sem) == sem - 1
GiveItem(sem) == sem + 1
GivePlace(sem) == sem + 1

SemInit ==
    /\ psem = Places /\ csem = 0
    /\ list = <<>>
    /\ ppc = [p \in Producers |-> "wait"]
    /\ cpc = [c \in Consumers |-> "wait"]

\* sem_wait(&psem)
ProducerWait(p) ==
    /\ ppc[p] = "wait" /\ psem > 0
    /\ psem' = TakePlace(psem)
    /\ ppc' = [ppc EXCEPT ![p] = "push"]
    /\ UNCHANGED <<csem, list, cpc>>

\* Under mutex: allocate a node (malloc is taken not to fail) and link it at the
\* head.
SemPush(p) ==
    /\ ppc[p] = "push"
    /\ \E n \in Nodes :
          /\ \A i \in 1..Len(list) : list[i] # n
          /\ list' = Linked(n)
    /\ ppc' = [ppc EXCEPT ![p] = "post"]
    /\ UNCHANGED <<psem, csem, cpc>>

\* sem_post(&csem); sleep.
ProducerPost(p) ==
    /\ ppc[p] = "post"
    /\ csem' = GiveItem(csem)
    /\ ppc' = [ppc EXCEPT ![p] = "wait"]
    /\ UNCHANGED <<psem, list, cpc>>

\* sem_wait(&csem)
ConsumerWait(c) ==
    /\ cpc[c] = "wait" /\ csem > 0
    /\ csem' = TakeItem(csem)
    /\ cpc' = [cpc EXCEPT ![c] = "pop"]
    /\ UNCHANGED <<psem, list, ppc>>

\* Under mutex: unlink the head and free it.  head is dereferenced unchecked;
\* on an empty list that is undefined, and PopFindsNode says it cannot happen.
SemPop(c) ==
    /\ cpc[c] = "pop" /\ list # <<>>
    /\ list' = Tail(list)
    /\ cpc' = [cpc EXCEPT ![c] = "post"]
    /\ UNCHANGED <<psem, csem, ppc>>

\* sem_post(&psem); sleep.
ConsumerPost(c) ==
    /\ cpc[c] = "post"
    /\ psem' = GivePlace(psem)
    /\ cpc' = [cpc EXCEPT ![c] = "wait"]
    /\ UNCHANGED <<csem, list, ppc>>

SemProducer(p) == ProducerWait(p) \/ SemPush(p) \/ ProducerPost(p)
SemConsumer(c) == ConsumerWait(c) \/ SemPop(c) \/ ConsumerPost(c)

SemNext ==
    \/ \E p \in Producers : SemProducer(p)
    \/ \E c \in Consumers : SemConsumer(c)

SemSpec == SemInit /\ [][SemNext]_semVars

-----------------------------------------------------------------------------
\* A consumer past sem_wait(&csem) finds a node whatever the others do first:
\* the list has one for each consumer about to pop (head is not NULL at the
\* unchecked access in consumer, thread_signal.c:80-82).
PopFindsNode == Number(cpc, "pop") <= Len(list)

\* Places are neither lost nor invented: each is free, taken by a producer or a
\* consumer in mid-round, or an item another consumer may take.
PlacesConserved ==
    psem + csem + Number(ppc, "push") + Number(ppc, "post")
         + Number(cpc, "pop") + Number(cpc, "post") = Places

\* The list is the stack of NodeStack, and never longer than the initial value
\* of psem.
SemStack == INSTANCE NodeStack WITH stack <- list, Limit <- Places
SemStackSpec == SemStack!Spec
=============================================================================
