---------------------------- MODULE MCTokenGrants ----------------------------
(* Instances of TokenGrants small enough for TLC. *)
EXTENDS TokenGrants, TLC

CONSTANTS g1, g2, c1, c2, s1

OneGrant == g1 :> c1
TwoGrants == g1 :> c1 @@ g2 :> c2
OneSession == s1 :> 1
Symmetry == Permutations(Redemptions)
=============================================================================
