----------------------------- MODULE MCSessions -----------------------------
(* Instances of Sessions for TLC: one of two people has signed in before.  *)
EXTENDS Sessions, TLC

CONSTANTS u1, u2, w1, w2

OneHome  == u2 :> w2
Symmetry == {p @@ s @@ v : p \in Permutations(Tokens), s \in Permutations(States),
                           v \in Permutations(Visits)}
=============================================================================
