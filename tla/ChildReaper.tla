----------------------------- MODULE ChildReaper -----------------------------
(***************************************************************************)
(* How these programs collect their children (remove_zombie.c): a handler  *)
(* of SIGCHLD that calls waitpid once.  SIGCHLD does not queue: signals    *)
(* raised while one is pending merge with it, also while the handler runs, *)
(* which blocks it.  The forking servers implement this (ForkServers).     *)
(*                                                                         *)
(* sa_flags, which remove_zombie.c leaves uninitialised, is taken as 0,    *)
(* the value the servers give it.                                          *)
(***************************************************************************)
EXTENDS Integers, FiniteSets

CONSTANT Children

ASSUME ChildAssumption == IsFiniteSet(Children)

VARIABLES
    status,     \* where each child is in its life
    pending,    \* SIGCHLD is pending
    handling,   \* the handler runs
    merged      \* ghost: ends of children that found a signal pending already

reaperVars == <<status, pending, handling, merged>>

Stages == {"none", "running", "zombie", "reaped"}

ReaperTypeOK ==
    /\ status \in [Children -> Stages]
    /\ pending \in BOOLEAN /\ handling \in BOOLEAN /\ merged \in Nat

\* The children in stage s.
In(s) == {c \in Children : status[c] = s}

OneIf(b) == IF b THEN 1 ELSE 0

ReaperInit ==
    /\ status = [c \in Children |-> "none"]
    /\ pending = FALSE /\ handling = FALSE /\ merged = 0

\* A variant of WaitOne, used to show that the properties can fail.
NoWait == {status}                  \* waitpid left out

\* waitpid(-1, &status, WNOHANG): one zombie, if there is one.
WaitOne ==
    IF In("zombie") = {} THEN {status}
    ELSE {[status EXCEPT ![c] = "reaped"] : c \in In("zombie")}

\* fork
Fork(c) ==
    /\ status[c] = "none"
    /\ status' = [status EXCEPT ![c] = "running"]
    /\ UNCHANGED <<pending, handling, merged>>

\* The child returns from main or calls exit.
Exit(c) ==
    /\ status[c] = "running"
    /\ status' = [status EXCEPT ![c] = "zombie"]
    /\ pending' = TRUE
    /\ merged' = merged + OneIf(pending)
    /\ UNCHANGED handling

\* The handler is entered.
Deliver ==
    /\ pending /\ ~handling
    /\ pending' = FALSE /\ handling' = TRUE
    /\ UNCHANGED <<status, merged>>

\* read_childproc: one waitpid, and the handler returns.
Reap ==
    /\ handling /\ status' \in WaitOne
    /\ handling' = FALSE
    /\ UNCHANGED <<pending, merged>>

ReaperNext == Deliver \/ Reap \/ \E c \in Children : Fork(c) \/ Exit(c)

ReaperSpec == ReaperInit /\ [][ReaperNext]_reaperVars

-----------------------------------------------------------------------------
\* Whenever the handler calls waitpid there is a zombie to take, however the
\* ends of children and the deliveries interleave: remove_zombie.c reads status
\* (line 14), which waitpid only then has set.
HandlerFindsZombie == handling => In("zombie") # {}

\* The zombies are those a signal is still on the way for, and one for each
\* signal that merged, for which nobody will ever call waitpid.
ZombieAccount ==
    Cardinality(In("zombie")) = OneIf(pending) + OneIf(handling) + merged
=============================================================================
