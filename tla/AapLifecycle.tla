---------------------------- MODULE AapLifecycle ----------------------------
(***************************************************************************)
(* What the state machine of stateMachine.ts promises its callers: every   *)
(* status change is one atomic step along an edge of the transition table, *)
(* and a row enters the table as "pending".  Nothing here knows of         *)
(* handlers, transactions or clocks; Lifecycle is shown to implement it.   *)
(***************************************************************************)
EXTENDS TransitionTables

CONSTANTS Hosts, Agents

VARIABLES hostStatus,  \* hostStatus[h] : the status column of host h
          agentStatus  \* agentStatus[a]: the status column of agent a

vars == <<hostStatus, agentStatus>>

Init ==
  /\ hostStatus = [h \in Hosts |-> "active"]
  /\ agentStatus \in [Agents -> {"absent", "active"}]

Create(a) ==
  /\ agentStatus[a] = "absent"
  /\ agentStatus' = [agentStatus EXCEPT ![a] = "pending"]
  /\ UNCHANGED hostStatus

TransitionAgent(a, to) ==
  /\ agentStatus[a] \in AgentState
  /\ canTransitionAgent(agentStatus[a], to)
  /\ agentStatus' = [agentStatus EXCEPT ![a] = to]
  /\ UNCHANGED hostStatus

TransitionHost(h, to) ==
  /\ canTransitionHost(hostStatus[h], to)
  /\ hostStatus' = [hostStatus EXCEPT ![h] = to]
  /\ UNCHANGED agentStatus

Next ==
  \/ \E a \in Agents : Create(a)
  \/ \E a \in Agents, to \in AgentState : TransitionAgent(a, to)
  \/ \E h \in Hosts, to \in HostState : TransitionHost(h, to)

Spec == Init /\ [][Next]_vars
=============================================================================
