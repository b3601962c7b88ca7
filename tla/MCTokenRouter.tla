--------------------------- MODULE MCTokenRouter ----------------------------
(* TokenRouter for TLC. *)
EXTENDS TokenRouter, TLC

RouterSymmetry == Permutations(Reqs) \cup Permutations(Agents)

=============================================================================
