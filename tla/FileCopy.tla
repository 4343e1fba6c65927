------------------------------ MODULE FileCopy ------------------------------
(***************************************************************************)
(* What a download promises: whatever is in the destination file is the    *)
(* byte of the file that belongs there, bytes once there stay, and a       *)
(* download that is complete has them all.  A byte is identified by its    *)
(* position in the file.                                                   *)
(***************************************************************************)
EXTENDS Integers

CONSTANTS Positions, Hole

VARIABLES
  size,         (* of the file                                             *)
  dest,         (* the byte at each position of the destination file       *)
  outcome       (* "running", then "complete" or "incomplete"              *)

vars == <<size, dest, outcome>>

File == [p \in Positions |-> IF p < size THEN p ELSE Hole]

Init ==
  /\ dest = [p \in Positions |-> Hole]
  /\ outcome = "running"

(* Some bytes arrive. *)
Copy ==
  /\ outcome = "running"
  /\ \E P \in SUBSET Positions : dest' = [p \in Positions |-> IF p \in P THEN File[p] ELSE dest[p]]
  /\ UNCHANGED <<size, outcome>>

Complete ==
  /\ outcome = "running"
  /\ dest = File
  /\ outcome' = "complete"
  /\ UNCHANGED <<size, dest>>

GiveUp ==
  /\ outcome = "running"
  /\ outcome' = "incomplete"
  /\ UNCHANGED <<size, dest>>

Next == Copy \/ Complete \/ GiveUp

Spec == Init /\ [][Next]_vars
=============================================================================
