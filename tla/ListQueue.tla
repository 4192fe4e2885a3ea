----------------------------- MODULE ListQueue -----------------------------
(***************************************************************************)
(* What thread_signal.c (SemQueue) and thread_cond.c (CondQueue) share: a  *)
(* linked list, producers that link nodes at its head, and consumers that  *)
(* unlink them there.                                                      *)
(***************************************************************************)
EXTENDS Sequences

CONSTANTS
    Producers,  \* threads running producer
    Consumers,  \* threads running consumer
    Nodes       \* the heap: the blocks malloc can return

VARIABLES
    list,       \* the nodes reachable from head, head first
    ppc, cpc    \* program counters of the threads

\* A variant of Linked, used to show that the properties can fail.
AppendNode(n) == Append(list, n)           \* linked at the other end

\* pnew->next = head; head = pnew.
Linked(n) == <<n>> \o list
=============================================================================
