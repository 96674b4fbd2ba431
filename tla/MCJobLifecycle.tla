--------------------------- MODULE MCJobLifecycle ---------------------------
(* Instances of JobLifecycle for TLC: which upsets happen is a constant of  *)
(* each .cfg; worker processes are interchangeable.                         *)
EXTENDS JobLifecycle, TLC

Symmetry == Permutations(Workers)
=============================================================================
