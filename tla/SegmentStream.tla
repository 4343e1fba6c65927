---------------------------- MODULE SegmentStream ----------------------------
(***************************************************************************)
(* What a sender of one segment of a file promises to the receiver of the  *)
(* connection: the bytes it writes are, in order, the bytes of the file    *)
(* from position start on, and a sender that ends normally has written     *)
(* exactly the requested number of them.  A byte of the file is identified *)
(* by its position.                                                        *)
(***************************************************************************)
EXTENDS Integers, Sequences

VARIABLES
  start,    (* position in the file of the first byte asked for            *)
  count,    (* number of bytes asked for                                   *)
  sent,     (* the positions of the bytes written so far, in order         *)
  outcome   (* "sending", then "complete" or "aborted"                     *)

vars == <<start, count, sent, outcome>>

(* The n bytes of the file that begin at position s. *)
Segment(s, n) == [k \in 1..n |-> s + k - 1]

Init ==
  /\ start \in Nat
  /\ count \in Nat
  /\ sent = <<>>
  /\ outcome = "sending"

(* Some more bytes of the segment are written, never beyond its end. *)
Send ==
  /\ outcome = "sending"
  /\ \E n \in Len(sent)..count : sent' = Segment(start, n)
  /\ UNCHANGED <<start, count, outcome>>

(* The last bytes are written and the sender ends. *)
Complete ==
  /\ outcome = "sending"
  /\ sent' = Segment(start, count)
  /\ outcome' = "complete"
  /\ UNCHANGED <<start, count>>

(* The sender gives up: the receiver is gone. *)
Abort ==
  /\ outcome = "sending"
  /\ outcome' = "aborted"
  /\ UNCHANGED <<start, count, sent>>

Next == Send \/ Complete \/ Abort

Spec == Init /\ [][Next]_vars
==============================================================================
