----------------------------- MODULE EchoService -----------------------------
(***************************************************************************)
(* What an echo server promises to its clients: each gets back the bytes   *)
(* it sent, in order, none of another client's, none twice.  The select    *)
(* and the two epoll servers implement this (EventLoops).                  *)
(***************************************************************************)
EXTENDS Integers, Sequences

CONSTANTS Clients, MaxSend

VARIABLES
    sent,       \* how many bytes each client has sent
    got         \* the bytes each client has been sent back, before the first dropped

\* The first n bytes of a client.
Bytes(c, n) == [i \in 1..n |-> <<c, i>>]

Init ==
    /\ sent = [c \in Clients |-> 0]
    /\ got = [c \in Clients |-> <<>>]

\* write in a client.
Send(c) ==
    /\ sent[c] < MaxSend
    /\ sent' = [sent EXCEPT ![c] = @ + 1]
    /\ UNCHANGED got

\* write in the server: some of the bytes not yet returned.
Return(c) ==
    /\ \E n \in (Len(got[c]) + 1)..sent[c] : got' = [got EXCEPT ![c] = Bytes(c, n)]
    /\ UNCHANGED sent

Next == \E c \in Clients : Send(c) \/ Return(c)

Spec == Init /\ [][Next]_<<sent, got>>
=============================================================================
