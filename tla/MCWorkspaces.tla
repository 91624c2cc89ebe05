---------------------------- MODULE MCWorkspaces ----------------------------
(* Instances of Workspaces for TLC: everyone has signed in before and owns *)
(* a workspace; a third can be created.                                    *)
EXTENDS Workspaces, TLC

CONSTANTS u1, u2, w1, w2, w3

\* Requests are alike; so are the two people, if their workspaces change places too.
Swap     == u1 :> u2 @@ u2 :> u1 @@ w1 :> w2 @@ w2 :> w1
Stay     == [v \in {u1, u2, w1, w2} |-> v]
Symmetry == {p @@ s : p \in Permutations(Requests), s \in {Stay, Swap}}

BothHome == u1 :> w1 @@ u2 :> w2
=============================================================================
