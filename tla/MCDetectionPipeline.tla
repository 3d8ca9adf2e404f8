------------------------ MODULE MCDetectionPipeline ------------------------
(* Small instances of DetectionPipeline.                                   *)
EXTENDS DetectionPipeline, TLC

Symmetry == Permutations(Events) \cup Permutations(Sweeps)
=============================================================================
