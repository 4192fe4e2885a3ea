---------------------------- MODULE MCChatServer ----------------------------
(***************************************************************************)
(* A small instance of ChatServer and ChatRoom for TLC.  A behaviour       *)
(* chooses whether clients are slow, as in ChatRoom, or print what they    *)
(* get at once, and are ChatServer with more of them.                      *)
(***************************************************************************)
EXTENDS ChatRoom, TLC

VARIABLE slow

MCInit == RoomInit /\ slow \in BOOLEAN

ShownAtOnce ==
    /\ shown' = [c \in Clients |-> Len(inbox'[c])]
    /\ UNCHANGED <<receiver, broken>>

MCNext ==
    /\ \/ slow /\ RoomNext
       \/ ~slow /\ Next /\ ShownAtOnce
    /\ UNCHANGED slow

MCSpec == MCInit /\ [][MCNext]_<<roomVars, slow>>

\* Sound: no definition names a particular client, and there is no liveness.
Symmetry == Permutations(Clients)

\* Bound: three come, or two slow ones, with a failing call of accept for one.
Came == backlog \cup accepted \cup {f \in Failures : newest = f \/ hpc[f] # "none"}
FewCome == Cardinality(Came) <= IF slow THEN 2 ELSE 3
=============================================================================
