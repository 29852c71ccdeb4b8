--------------------------- MODULE MCGroupPlacement ----------------------------
EXTENDS GroupPlacement, TLC

CONSTANTS o1, o2, r1, r2, p1, p2

\* owners, resolvers and players are interchangeable
Symmetry == Permutations(Owner) \cup Permutations(Resolver) \cup Permutations(Player)
================================================================================
