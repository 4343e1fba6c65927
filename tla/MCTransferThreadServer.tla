----------------------- MODULE MCTransferThreadServer -----------------------
(***************************************************************************)
(* Requests for the runs of TransferThreadServer: every position and       *)
(* length up to MaxLength on files of up to MaxSize bytes.                 *)
(***************************************************************************)
EXTENDS TransferThreadServer

CONSTANTS MaxSize, MaxLength

ExistingFile ==
  [startPos : 0..MaxSize, transferLength : 0..MaxLength, size : 0..MaxSize]

(* At least a buffer long, on a file that holds the whole segment. *)
LongRequests == {r \in ExistingFile : Covered(r) /\ r.transferLength >= BUFFERSIZE}

(* Any request, the file may have shrunk or vanished since its length was  *)
(* asked for.                                                              *)
AnyRequest ==
  [startPos : 0..MaxSize, transferLength : 0..MaxLength, size : 0..MaxSize \cup {Missing}]
=============================================================================
