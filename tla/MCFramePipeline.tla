--------------------------- MODULE MCFramePipeline ---------------------------
(* Instances of FramePipeline for TLC.                                        *)
EXTENDS FramePipeline, TLC

\* Goroutines are interchangeable: used in the runs of safety properties.
JobSymmetry == Permutations(Jobs)
=============================================================================
