--------------------------- MODULE MCSubscription ---------------------------
(* Instances of Subscription for TLC.                                      *)
EXTENDS Subscription, TLC

Symmetry == Permutations(Sub) \cup Permutations(Proc)

=============================================================================
