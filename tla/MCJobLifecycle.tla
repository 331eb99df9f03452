---------------------------- MODULE MCJobLifecycle ----------------------------
(***************************************************************************)
(* Instances of JobLifecycle for TLC.  The jobs are interchangeable: safety *)
(* runs use that as a symmetry, the liveness run does not.                  *)
(***************************************************************************)
EXTENDS JobLifecycle, TLC

JobSymmetry == Permutations(Job)
=============================================================================
