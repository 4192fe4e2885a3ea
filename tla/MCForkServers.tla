---------------------------- MODULE MCForkServers ----------------------------
(***************************************************************************)
(* Small instance of ForkServers for TLC: a polite client with two empty   *)
(* lines, and one that writes an empty line and a longer one without       *)
(* waiting, enough to overrun mes.                                         *)
(*                                                                         *)
(* A behaviour has both clients, or one of them closely.  When both come,  *)
(* the polite one reads all that has arrived and fits, the other reads     *)
(* nothing, and neither is interrupted or harmed by what it reads.         *)
(***************************************************************************)
EXTENDS ForkServers, TLC

CONSTANTS Patient, Hasty

VARIABLE closely

\* 1024 for BUF_SIZE 150 and 1024, scaled down to BufSize 2.
MCRoom == [plain |-> 13, store |-> 2]

MCLines == (Patient :> <<0, 0>>) @@ (Hasty :> <<0, 3>>)

\* The bytes c can read.
Unread(c) == (Len(answered[c]) - seen[c]) * Record + rest[c]

MCInit == Init /\ closely \in BOOLEAN

OneClient == \A c, d \in Clients : c # d => "none" \in {conn'[c], conn'[d]}

ReadsFar ==
    /\ UNCHANGED reader
    /\ <<seen[Hasty], rest[Hasty]>>' = <<0, 0>>
    /\ Unread(Patient)' < Unread(Patient) =>
          Unread(Patient)' = 0 \/ Unread(Patient)' = Unread(Patient) - Room[server]

MCNext ==
    /\ Next /\ UNCHANGED closely
    /\ IF closely THEN OneClient ELSE ReadsFar

MCSpec == MCInit /\ [][MCNext]_<<vars, closely>> /\ Fairness
=============================================================================
