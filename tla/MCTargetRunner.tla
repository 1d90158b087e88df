--------------------------- MODULE MCTargetRunner ---------------------------
(* Small instances of TargetRunner for TLC.                                *)
EXTENDS TargetRunner, TLC

\* The runs are interchangeable: no definition names one of them.
RunSymmetry == Permutations(Runs)
=============================================================================
