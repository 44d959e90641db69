--------------------------- MODULE MCQueueManager ---------------------------
(* The instances of QueueManager that TLC checks: workers are alike. *)
EXTENDS QueueManager, TLC

WorkerSymmetry == Permutations(Workers)

=============================================================================
