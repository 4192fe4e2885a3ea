----------------------------- MODULE NodeStack -----------------------------
(***************************************************************************)
(* What the two producer/consumer programs, thread_signal.c (semaphores)   *)
(* and thread_cond.c (condition variable), promise about the list they     *)
(* share: nodes are pushed and popped whole at its head, a node is never   *)
(* linked in twice, nothing is popped from an empty list, and at most      *)
(* Limit nodes are linked.  SemQueue and CondQueue implement this.         *)
(***************************************************************************)
EXTENDS Naturals, Sequences

CONSTANTS
    Nodes,      \* the blocks malloc(sizeof(struct Node)) can return
    Limit       \* how many may be in the list at once

VARIABLE stack  \* the nodes reachable from head, head first

Init == stack = <<>>

Push(n) ==
    /\ \A i \in 1..Len(stack) : stack[i] # n
    /\ Len(stack) < Limit
    /\ stack' = <<n>> \o stack

Pop ==
    /\ stack # <<>>
    /\ stack' = Tail(stack)

Next == Pop \/ \E n \in Nodes : Push(n)

Spec == Init /\ [][Next]_stack
=============================================================================
