----------------------------- MODULE MCGateway ------------------------------
(* Gateway for TLC: one address, three requests, three patches.           *)
EXTENDS Gateway, TLC

CONSTANTS i1

Nothing == [limiting |-> Other, ip |-> Other, register |-> Other,
            filtering |-> Other, mode |-> Other, entries |-> Other]

MCStatic == [limiting |-> TRUE, ip |-> 1, register |-> 1, filtering |-> FALSE,
             mode |-> "deny", entries |-> {}]

\* An allow-list that no client is on, a limit of none at all, and a patch that
\* switches the limits and sends a negative number.
MCPatches ==
  {[Nothing EXCEPT !.filtering = TRUE, !.mode = "allow", !.entries = {{}}],
   [Nothing EXCEPT !.ip = 0],
   [Nothing EXCEPT !.limiting = FALSE, !.register = -1]}

ReqSymmetry == Permutations(Reqs)

=============================================================================
