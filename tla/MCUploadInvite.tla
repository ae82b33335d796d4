---------------------------- MODULE MCUploadInvite ----------------------------
(* Small instances of UploadInvite: one or two invites, two files, two requests. *)
EXTENDS UploadInvite, TLC

CONSTANTS i1, i2, i3, f1, f2, p1, p2

MCSize == f1 :> 1 @@ f2 :> 1

Symmetry == Permutations({f1, f2}) \cup Permutations({p1, p2}) \cup Permutations({i2, i3})
===============================================================================
