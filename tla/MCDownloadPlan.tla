--------------------------- MODULE MCDownloadPlan ---------------------------
(* Values for the runs of DownloadPlan. *)
EXTENDS DownloadPlan

CONSTANT MaxLength

AnyLength == 0..MaxLength \cup {FileNotExist}
=============================================================================
