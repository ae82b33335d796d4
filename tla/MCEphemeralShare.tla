------------------------- MODULE MCEphemeralShare -------------------------
(* Instances of EphemeralShare for TLC.                                    *)
EXTENDS EphemeralShare, TLC

Symmetry == Permutations(Share) \cup Permutations(Proc)

=============================================================================
