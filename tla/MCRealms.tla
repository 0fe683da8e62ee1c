-------------------------------- MODULE MCRealms --------------------------------
EXTENDS Realms, TLC

CONSTANTS a, b, k1, k2, s1, s2

\* Realm a may be moved to the key realm b signs with.
MCKeyOf == (a :> (s1 :> k1 @@ s2 :> k2)) @@ (b :> [s \in {s1, s2} |-> k2])

Symmetry == Permutations(Gets) \cup Permutations(Nodes)
================================================================================
