-------------------------- MODULE TransitionTables --------------------------
(***************************************************************************)
(* The two status tables of apps/server/src/identity: which status changes *)
(* of an agent (AAP 2.3) and of a host (AAP 2.11) are legal.  "absent" is  *)
(* the status this development gives to an agent id that has no row yet.   *)
(***************************************************************************)

AgentState == {"pending", "active", "expired", "revoked", "rejected", "claimed"}

HostState == {"pending", "active", "revoked", "rejected"}

AGENT_TRANSITIONS ==
  [s \in AgentState |->
     CASE s = "pending" -> {"active", "rejected"}
       [] s = "active"  -> {"expired", "revoked", "claimed"}
       [] s = "expired" -> {"active", "revoked"}
       [] OTHER         -> {}]

HOST_TRANSITIONS ==
  [s \in HostState |->
     CASE s = "pending" -> {"active", "rejected"}
       [] s = "active"  -> {"revoked"}
       [] OTHER         -> {}]

\* A table in which a pending agent may be revoked as well.
CanTransitionAgentPendingRevocable(from, to) ==
  \/ to \in AGENT_TRANSITIONS[from]
  \/ from = "pending" /\ to = "revoked"

canTransitionAgent(from, to) == to \in AGENT_TRANSITIONS[from]

canTransitionHost(from, to) == to \in HOST_TRANSITIONS[from]
=============================================================================
