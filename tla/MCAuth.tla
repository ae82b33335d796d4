-------------------------------- MODULE MCAuth --------------------------------
(* Instances of Auth: no account, an old hash, an address that is not      *)
(* verified, a second factor, and a linked account pending deletion.       *)
EXTENDS Auth, TLC

CONSTANTS w1, w2

Account == [del |-> "no", word |-> w1, old |-> FALSE, verified |-> TRUE, mfa |-> FALSE,
            secret |-> 0, linked |-> FALSE, era |-> 0, latest |-> w1, raced |-> FALSE]

MCStart ==
    {NoUser,
     [Account EXCEPT !.old = TRUE],
     [Account EXCEPT !.verified = FALSE],
     [Account EXCEPT !.mfa = TRUE, !.secret = 1],
     [Account EXCEPT !.del = "pending", !.mfa = TRUE, !.secret = 1],
     [Account EXCEPT !.del = "pending", !.verified = FALSE]}

MCLinked == {[Account EXCEPT !.linked = TRUE]}

Symmetry == Permutations(Proc)
===============================================================================
