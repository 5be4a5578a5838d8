--------------------------- MODULE MCScanPipeline ---------------------------
(* ScanPipeline for TLC. *)
EXTENDS ScanPipeline, TLC

WorkerSymmetry == Permutations(Workers)

=============================================================================
