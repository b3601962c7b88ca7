------------------------------ MODULE MCParts -------------------------------
(***************************************************************************)
(* Four parts of the gateway, the client programs and `conduit run`, which *)
(* share no variable: a behaviour exercises one of them.                   *)
(***************************************************************************)
EXTENDS ConstraintEngine, PolicyEngine, Listing, Connectors, MCClients, CliRun

VARIABLE focus   \* which part this behaviour is about

CONSTANTS txt, arg1, arg2, nameA, nameB

\* Bounds that cross, touch and leave a gap; lists that meet in one value, in a
\* string, or not at all; constraints that cannot be read.
Bound(max, min) == [kind |-> "ops", max |-> max, min |-> min, in |-> Missing,
                    not_in |-> Missing, other |-> FALSE]
Listed(in, not_in) == [kind |-> "ops", max |-> Missing, min |-> Missing, in |-> in,
                       not_in |-> not_in, other |-> FALSE]

MCConstraints ==
  {Bound(max, min) : max, min \in {Missing, 0, 1}}
    \cup {Listed(in, not_in) : in \in {Missing, {}, {0, txt}, {1}}, not_in \in {Missing, {}, {txt}, {0, 1}}}
    \cup {[kind |-> "exact", value |-> v] : v \in {0, 1, txt}}
    \cup {Null, [Bound(1, Missing) EXCEPT !.other = TRUE],
          [Bound(1, 0) EXCEPT !.not_in = {txt}], [Listed({0, txt}, Missing) EXCEPT !.min = 0]}

\* One argument constrained, or both.
MCOffered ==
  {f :> c : f \in {arg1, arg2}, c \in MCConstraints}
    \cup {arg1 :> c @@ arg2 :> Bound(1, Missing) : c \in MCConstraints}

Rule(id, effect, modes, caps, ops, risk) ==
  [id |-> id, effect |-> effect, minRisk |-> risk,
   when |-> [agentModes |-> modes, capabilities |-> caps, platforms |-> Unset, operations |-> ops]]

MCRaws ==
  { Rule("r1", "deny", Unset, {nameA}, Unset, Unset),
    Rule("r2", "allow", Unset, {nameA, Bad}, {nameB}, Unset),
    Rule("r1", "require_approval", {nameB}, Unset, Bad, "med"),
    Rule("r3", "deny", Bad, {Star}, {}, Bad),
    Rule("r4", "allow", {Star}, {nameB}, Unset, "high"),
    Rule(Bad, "deny", Unset, Unset, Unset, Unset),
    Rule("r5", "permit", Unset, Unset, Unset, Unset) }

Init ==
  /\ ConstraintInit /\ PolicyInit /\ ListingInit /\ ConnectorInit /\ ClientsInit /\ RunInit
  /\ focus \in {"constraints", "policy", "listing", "connectors", "calls", "run"}

Next ==
  \/ /\ focus = "constraints" /\ ConstraintNext
     /\ UNCHANGED <<policyVars, listingVars, connectorVars, clientVars, runVars, focus>>
  \/ /\ focus = "policy" /\ PolicyNext
     /\ UNCHANGED <<constraintVars, listingVars, connectorVars, clientVars, runVars, focus>>
  \/ /\ focus = "listing" /\ ListingNext
     /\ UNCHANGED <<constraintVars, policyVars, connectorVars, clientVars, runVars, focus>>
  \/ /\ focus = "connectors" /\ ConnectorNext
     /\ UNCHANGED <<constraintVars, policyVars, listingVars, clientVars, runVars, focus>>
  \/ /\ focus = "calls" /\ ClientsNext
     /\ UNCHANGED <<constraintVars, policyVars, listingVars, connectorVars, runVars, focus>>
  \/ /\ focus = "run" /\ RunNext
     /\ UNCHANGED <<constraintVars, policyVars, listingVars, connectorVars, clientVars, focus>>

Fairness == focus = "run" => RunFairness

Spec ==
  /\ Init /\ Fairness
  /\ [][Next]_<<constraintVars, policyVars, listingVars, connectorVars, clientVars, runVars, focus>>
=============================================================================
