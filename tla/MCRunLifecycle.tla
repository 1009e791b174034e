--------------------------- MODULE MCRunLifecycle ---------------------------
(* Instances of RunLifecycle for TLC.  The bounds are in the .cfg files.     *)
EXTENDS RunLifecycle, TLC

Symmetry == Permutations(Task) \cup Permutations(Run)
TaskSymmetry == Permutations(Task)

=============================================================================
