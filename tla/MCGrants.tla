------------------------------ MODULE MCGrants ------------------------------
(* Grants with finite sets for TLC: one agent of one host, and requests that *)
(* list no capability or several.  Where connections exist, x1 is stored in  *)
(* another project and x2 is not stored.                                     *)
EXTENDS GrantLosses, TLC

CONSTANTS h1, k1, k2

OneOwner == [a \in Agents |-> h1]

Item(k) == [cap |-> k, connection |-> NoConnection]

ShortLists == {<<Item(k1)>>, <<Item(k1), Item(k2)>>}

\* A request may name a capability twice; the other is granted by operators only.
MixedLists == {<< >>, <<Item(k1)>>, <<Item(k1), Item(k1)>>}

NoPairs == {}

\* The first capability is granted from the start.
FirstGranted == Agents \X {k1}

Symmetry == Permutations(Calls) \cup Permutations(Tasks)
=============================================================================
