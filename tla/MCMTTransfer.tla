---------------------------- MODULE MCMTTransfer ----------------------------
(* Values for the runs of MTTransfer. *)
EXTENDS MTTransfer

CONSTANT MaxPosition

AllConns     == Threads \cup {Asker, Lister}
AllPositions == 0..MaxPosition

(* A file that does not exist, one that is not split, and one that is      *)
(* split into segments of a full buffer each.                              *)
AnySize   == {FileNotExist, 2, 4}

SplitSize == {4}
=============================================================================
