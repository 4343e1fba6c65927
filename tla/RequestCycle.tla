----------------------------- MODULE RequestCycle -----------------------------
(***************************************************************************)
(* What a server of HTTP connections promises of each of them: requests    *)
(* are received, decided and answered one at a time, each of them answered *)
(* at most once, and the connection ends with an answer or in failure.     *)
(***************************************************************************)
CONSTANT Cons
VARIABLE phase

Goes(c, from, to) == phase[c] \in from /\ phase' = [phase EXCEPT ![c] = to]

Accepted(c)  == Goes(c, {"closed"}, "receiving")
Decides(c)   == Goes(c, {"receiving"}, "deciding")
Answers(c)   == Goes(c, {"deciding"}, "answering")
Answered(c)  == Goes(c, {"answering"}, "receiving") \/ Goes(c, {"answering"}, "closed")
Fails(c)     == Goes(c, {"receiving", "deciding", "answering", "hindered"}, "failed")
Closes(c)    == Goes(c, {"failed", "hindered"}, "closed")

(* A connection that is hindered, nothing of the answer having been made   *)
(* yet, may still be given the answer that the request has failed; one     *)
(* that has failed while it was being answered may not.                    *)
Hinders(c)    == Goes(c, {"deciding"}, "hindered")
Apologises(c) == Goes(c, {"hindered"}, "deciding")

Init == phase = [c \in Cons |-> "closed"]
Next == \E c \in Cons : \/ Accepted(c) \/ Decides(c) \/ Answers(c) \/ Answered(c) \/ Hinders(c)
                        \/ Fails(c) \/ Closes(c) \/ Apologises(c)
Spec == Init /\ [][Next]_phase
=============================================================================
