-------------------------- MODULE MCFileLifecycle --------------------------
(* Instances of FileLifecycle for TLC: symmetric sets of ids, keys and     *)
(* goroutines.  Symmetry is used by the runs without liveness only.        *)
EXTENDS FileLifecycle, TLC

Symmetry ==
  Permutations(File) \cup Permutations(Key) \cup
  Permutations(Client) \cup Permutations(Worker)

=============================================================================
