----------------------------- MODULE MCAttempts -----------------------------
(* Instances of Attempts for TLC.                                          *)
EXTENDS Attempts, TLC

Symmetry == Permutations(Proc)

=============================================================================
