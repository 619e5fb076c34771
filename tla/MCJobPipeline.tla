--------------------------- MODULE MCJobPipeline ---------------------------
(* Instances of JobPipeline for TLC: the jobs, the workers and the invalid   *)
(* jobs are model values given by the configurations.                        *)
EXTENDS JobPipeline, TLC

WorkerSymmetry == Permutations(Workers)
=============================================================================
