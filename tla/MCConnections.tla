--------------------------- MODULE MCConnections ----------------------------
EXTENDS Connections, TLC

CONSTANTS a1, c1, c2, p1, k1, k2, o1, o2

ConnSymmetry == Permutations({c1, c2}) \cup Permutations({k1, k2})

MCOpSets == {{}, {o1}}

=============================================================================
