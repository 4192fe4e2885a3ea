---------------------------- MODULE MCEventLoops ----------------------------
(***************************************************************************)
(* Small instances for TLC of the event-loop servers and of the            *)
(* demonstrations of threads and processes.  A behaviour runs one of the   *)
(* servers or one of the demonstrations, and the variables of all others   *)
(* stay as they are initially.                                             *)
(***************************************************************************)
EXTENDS EventLoops, Demonstrations

CONSTANT Brief          \* bound: these clients send one byte

MCInit ==
    \/ program = "loop" /\ AtRest /\ Init
    \/ DemoInit /\ Init /\ variant = "edge"

\* A server may end by SIGPIPE, and has nothing to do when all clients have come;
\* the demonstrations must not stop.
AtEnd == program = "loop" /\ UNCHANGED <<vars, demoVars>>

MCNext ==
    \/ program = "loop" /\ Next /\ UNCHANGED demoVars /\ \A c \in Brief : sent'[c] <= 1
    \/ DemoNext /\ UNCHANGED vars
    \/ AtEnd

MCSpec == MCInit /\ [][MCNext]_<<vars, demoVars>> /\ Fairness /\ DemoFairness
=============================================================================
