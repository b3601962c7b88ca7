----------------------------- MODULE Lifecycle ------------------------------
(***************************************************************************)
(* The host and agent lifecycle of apps/server/src/identity: the calls of  *)
(* identityService.ts that change a status, a lifetime clock or a key,     *)
(* running concurrently over the hosts and agents tables.                  *)
(*                                                                         *)
(* A call is an async function: it loses control at every await.  Each     *)
(* action below is the code between two awaits on the database, so the     *)
(* calls interleave exactly where the gateway lets them.  A transaction of *)
(* stateMachine.ts (BEGIN, SELECT, check the table, UPDATE, COMMIT under   *)
(* READ COMMITTED, no row lock on the SELECT) is two actions, the SELECT   *)
(* with its check and the UPDATE with its COMMIT: the updated row is       *)
(* invisible and locked between UPDATE and COMMIT, so these two are one.   *)
(***************************************************************************)
EXTENDS Naturals, TransitionTables

CONSTANTS
  Hosts,        \* the hosts, all bootstrapped with status active
  NoHost,       \* the owner of an agent id that has no row
  Agents,       \* agent ids, positive numbers in creation order
  Registered,   \* the agents that are registered when the behaviour starts
  Calls,        \* concurrent handler activations
  Ops,          \* the operations the environment invokes
  Keys,         \* agent public keys
  SessionTtl, MaxTtl, AbsoluteTtl,  \* agent lifetimes, in clock ticks
  MaxTime,      \* bound on the clock
  Faults        \* TRUE: a call may die at any await

ASSUME IdAssumption ==
  /\ Agents \subseteq Nat \ {0}
  /\ Registered \subseteq Agents
  /\ NoHost \notin Hosts
  /\ Keys \subseteq Nat \ {0}
  /\ Keys # {}

ASSUME TimeAssumption ==
  /\ SessionTtl \in Nat /\ MaxTtl \in Nat /\ AbsoluteTtl \in Nat
  /\ MaxTime \in Nat

ASSUME SwitchAssumption == Faults \in BOOLEAN

VARIABLES
  hostStatus,  \* hostStatus[h]: the status column of host h
  agent,       \* agent[a]: the row of agent a
  call,        \* call[c]: where handler activation c stands
  now          \* Date.now(), in ticks; 0 is never a time

vars == <<hostStatus, agent, call, now>>

\* The null of a timestamp column that was never written.
NoTime == 0

NoAgent == 0

AgentRow ==
  [host: Hosts \cup {NoHost}, status: AgentState \cup {"absent"},
   session: Nat, max: Nat, absolute: Nat, key: Keys]

AllOps == {"register", "revoke", "reactivate", "rotateKey", "revokeHost"}

\* Where a call waits.  txSelect / txUpdate and hostSelect / hostUpdate are the
\* two halves of transitionAgent and transitionHost.
Pc == {"idle", "load", "create", "txSelect", "txUpdate", "clock", "stamp", "putKey",
       "hostSelect", "hostUpdate", "list"}

CallState ==
  [pc: Pc, op: AllOps, host: Hosts \cup {NoHost}, agent: Agents \cup {NoAgent},
   absolute: Nat,              \* agent.absoluteExpiresAt as reactivate read it
   at: Nat,                    \* Date.now() as the call read it for applyLifetimes
   todo: SUBSET Agents]        \* agents the cascade has yet to revoke

Idle == [pc |-> "idle", op |-> "register", host |-> NoHost, agent |-> NoAgent,
         absolute |-> NoTime, at |-> NoTime, todo |-> {}]

TypeOK ==
  /\ hostStatus \in [Hosts -> HostState]
  /\ agent \in [Agents -> AgentRow]
  /\ call \in [Calls -> CallState]
  /\ now \in Nat \ {0}

-----------------------------------------------------------------------------
AbsentRow(k) == [host |-> NoHost, status |-> "absent", session |-> NoTime,
                 max |-> NoTime, absolute |-> NoTime, key |-> k]

RegisteredRow(h, k) ==
  [host |-> h, status |-> "active", session |-> 1 + SessionTtl,
   max |-> 1 + MaxTtl, absolute |-> 1 + AbsoluteTtl, key |-> k]

Init ==
  /\ hostStatus = [h \in Hosts |-> "active"]
  /\ \E k \in Keys, owner \in [Agents -> Hosts] :
       agent = [a \in Agents |-> IF a \in Registered
                                 THEN RegisteredRow(owner[a], k) ELSE AbsentRow(k)]
  /\ call = [c \in Calls |-> Idle]
  /\ now = 1

Goto(c, pc) == call' = [call EXCEPT ![c].pc = pc]

\* The call answers its client, or throws, which the route turns into an answer.
Finish(c) == call' = [call EXCEPT ![c] = Idle]

At(c, pc, ops) == call[c].pc = pc /\ call[c].op \in ops

Exists(a) == agent[a].status # "absent"

Owned(c) == agent[call[c].agent].host = call[c].host

(***************************************************************************)
(* requireJwt(hostPipeline): the route reaches the service once the state  *)
(* check found the host active.  A request for an agent id that has no row *)
(* ends in 404 and changes nothing.                                        *)
(***************************************************************************)
Admit(c, op, h, a) ==
  /\ call[c].pc = "idle"
  /\ op \in Ops
  /\ hostStatus[h] = "active"
  /\ IF op \in {"register", "revokeHost"} THEN a = NoAgent
                                          ELSE a \in Agents /\ Exists(a)
  /\ call' = [call EXCEPT ![c] =
                [Idle EXCEPT !.pc = "load", !.op = op, !.host = h, !.agent = a]]
  /\ UNCHANGED <<hostStatus, agent, now>>

-----------------------------------------------------------------------------
(* registerAgent *)

RegisterLoad(c) ==
  /\ At(c, "load", {"register"})
  /\ IF hostStatus[call[c].host] = "active" THEN Goto(c, "create") ELSE Finish(c)
  /\ UNCHANGED <<hostStatus, agent, now>>

\* Ids are numbered in creation order, so the new row takes the next number.
RegisterCreate(c, a, k) ==
  /\ At(c, "create", {"register"})
  /\ ~Exists(a)
  /\ \A b \in Agents : b < a => Exists(b)
  /\ agent' = [agent EXCEPT ![a] =
                 [AbsentRow(k) EXCEPT !.host = call[c].host, !.status = "pending"]]
  /\ call' = [call EXCEPT ![c] = [@ EXCEPT !.pc = "txSelect", !.agent = a]]
  /\ UNCHANGED <<hostStatus, now>>

-----------------------------------------------------------------------------
(* revokeAgent, reactivateAgent, rotateAgentKey *)

RevokeLoad(c) ==
  /\ At(c, "load", {"revoke"})
  /\ IF Owned(c) /\ agent[call[c].agent].status # "revoked"
     THEN Goto(c, "txSelect") ELSE Finish(c)
  /\ UNCHANGED <<hostStatus, agent, now>>

ReactivateLoad(c) ==
  /\ At(c, "load", {"reactivate"})
  /\ LET row == agent[call[c].agent] IN
       IF Owned(c) /\ (row.absolute # NoTime => row.absolute > now)
       THEN call' = [call EXCEPT ![c] =
                      [@ EXCEPT !.pc = "txSelect", !.absolute = row.absolute]]
       ELSE Finish(c)
  /\ UNCHANGED <<hostStatus, agent, now>>

RotateKeyLoad(c) ==
  /\ At(c, "load", {"rotateKey"})
  /\ IF Owned(c) THEN Goto(c, "putKey") ELSE Finish(c)
  /\ UNCHANGED <<hostStatus, agent, now>>

RotateKeyWrite(c, k) ==
  /\ At(c, "putKey", {"rotateKey"})
  /\ agent' = [agent EXCEPT ![call[c].agent].key = k]
  /\ Finish(c)
  /\ UNCHANGED <<hostStatus, now>>

-----------------------------------------------------------------------------
(* revokeHost and its cascade *)

RevokeHostLoad(c) ==
  /\ At(c, "load", {"revokeHost"})
  /\ IF hostStatus[call[c].host] # "revoked" THEN Goto(c, "hostSelect") ELSE Finish(c)
  /\ UNCHANGED <<hostStatus, agent, now>>

HostSelect(c) ==
  /\ At(c, "hostSelect", {"revokeHost"})
  /\ IF canTransitionHost(hostStatus[call[c].host], "revoked")
     THEN Goto(c, "hostUpdate") ELSE Finish(c)
  /\ UNCHANGED <<hostStatus, agent, now>>

HostUpdateExpired(c) ==
  /\ At(c, "hostUpdate", {"revokeHost"})
  /\ hostStatus' = [hostStatus EXCEPT ![call[c].host] = "expired"]
  /\ Goto(c, "list")
  /\ UNCHANGED <<agent, now>>

HostUpdate(c) ==
  /\ At(c, "hostUpdate", {"revokeHost"})
  /\ hostStatus' = [hostStatus EXCEPT ![call[c].host] = "revoked"]
  /\ Goto(c, "list")
  /\ UNCHANGED <<agent, now>>

CascadeTargetsButLast(h) ==
  {a \in Agents : /\ agent[a].host = h /\ agent[a].status \in {"active", "expired"}
                  /\ \E b \in Agents : b > a /\ agent[b].host = h}

\* The agents of h that the loop of revokeHost does not skip.
CascadeTargets(h) ==
  {a \in Agents : agent[a].host = h /\ agent[a].status \in {"active", "expired"}}

NextTargetLast(c, rest) ==
  \/ rest = {} /\ Finish(c)
  \/ \E a \in rest :
       /\ \A b \in rest : a <= b
       /\ call' = [call EXCEPT ![c] = [@ EXCEPT !.pc = "txSelect", !.agent = a]]

\* The loop goes on with the oldest agent of rest, or the call returns.
NextTarget(c, rest) ==
  \/ rest = {} /\ Finish(c)
  \/ \E a \in rest :
       /\ \A b \in rest : a <= b
       /\ call' = [call EXCEPT ![c] = [@ EXCEPT !.pc = "txSelect", !.agent = a,
                                                !.todo = rest \ {a}]]

ListAgents(c) ==
  /\ At(c, "list", {"revokeHost"})
  /\ NextTarget(c, CascadeTargets(call[c].host))
  /\ UNCHANGED <<hostStatus, agent, now>>

-----------------------------------------------------------------------------
(* transitionAgent, on behalf of every operation that changes a status *)

\* The status an operation asks transitionAgent for.
Target(op) == IF op \in {"register", "reactivate"} THEN "active" ELSE "revoked"

TransitionOps == {"register", "revoke", "reactivate", "revokeHost"}

TxSelectUnchecked(c) ==
  /\ At(c, "txSelect", TransitionOps)
  /\ Goto(c, "txUpdate")
  /\ UNCHANGED <<hostStatus, agent, now>>

TxSelect(c) ==
  /\ At(c, "txSelect", TransitionOps)
  /\ IF /\ Exists(call[c].agent)
        /\ canTransitionAgent(agent[call[c].agent].status, Target(call[c].op))
     THEN Goto(c, "txUpdate") ELSE Finish(c)
  /\ UNCHANGED <<hostStatus, agent, now>>

NeedsStampRegisterOnly(op) == op = "register"

NeedsStamp(op) == op \in {"register", "reactivate"}

TxUpdate(c) ==
  /\ At(c, "txUpdate", TransitionOps)
  /\ agent' = [agent EXCEPT ![call[c].agent].status = Target(call[c].op)]
  /\ \/ NeedsStamp(call[c].op) /\ Goto(c, "clock")
     \/ call[c].op = "revokeHost" /\ NextTarget(c, call[c].todo)
     \/ ~NeedsStamp(call[c].op) /\ call[c].op # "revokeHost" /\ Finish(c)
  /\ UNCHANGED <<hostStatus, now>>

\* The transition returns: Date.now(), before applyLifetimes is awaited.
ReadClock(c) ==
  /\ At(c, "clock", {"register", "reactivate"})
  /\ call' = [call EXCEPT ![c] = [@ EXCEPT !.pc = "stamp", !.at = now]]
  /\ UNCHANGED <<hostStatus, agent, now>>

AbsoluteStampReset(c) == call[c].at + AbsoluteTtl

\* The absolute clock is set at registration and written back by reactivation.
AbsoluteStamp(c) ==
  IF call[c].op = "register" THEN call[c].at + AbsoluteTtl ELSE call[c].absolute

\* applyLifetimes, with the times computed when the clock was read.
Stamp(c) ==
  /\ At(c, "stamp", {"register", "reactivate"})
  /\ agent' = [agent EXCEPT ![call[c].agent] =
                 [@ EXCEPT !.session = call[c].at + SessionTtl,
                           !.max = call[c].at + MaxTtl,
                           !.absolute = AbsoluteStamp(c)]]
  /\ Finish(c)
  /\ UNCHANGED <<hostStatus, now>>

-----------------------------------------------------------------------------
(* The environment *)

\* A statement fails or the process dies: the call ends, an open transaction
\* rolls back, and what the call committed before stays.
Die(c) ==
  /\ Faults
  /\ call[c].pc # "idle"
  /\ Finish(c)
  /\ UNCHANGED <<hostStatus, agent, now>>

Tick ==
  /\ now < MaxTime
  /\ now' = now + 1
  /\ UNCHANGED <<hostStatus, agent, call>>

Step(c) ==
  \/ RegisterLoad(c)
  \/ \E a \in Agents, k \in Keys : RegisterCreate(c, a, k)
  \/ RevokeLoad(c)
  \/ ReactivateLoad(c)
  \/ RotateKeyLoad(c)
  \/ \E k \in Keys : RotateKeyWrite(c, k)
  \/ RevokeHostLoad(c)
  \/ HostSelect(c)
  \/ HostUpdate(c)
  \/ ListAgents(c)
  \/ TxSelect(c)
  \/ TxUpdate(c)
  \/ ReadClock(c)
  \/ Stamp(c)

Next ==
  \/ \E c \in Calls, op \in AllOps, h \in Hosts, a \in Agents \cup {NoAgent} :
       Admit(c, op, h, a)
  \/ \E c \in Calls : Step(c)
  \/ \E c \in Calls : Die(c)
  \/ Tick

Spec == Init /\ [][Next]_vars

-----------------------------------------------------------------------------
(* Properties *)

\* A revoked agent stays revoked and a revoked host stays revoked, although a
\* transaction acts on a status it read earlier (stateMachine.ts selects
\* without a lock, then updates by id whatever the status is by then).
RevokedIsFinal ==
  [][/\ \A a \in Agents : agent[a].status = "revoked" => agent'[a].status = "revoked"
     /\ \A h \in Hosts : hostStatus[h] = "revoked" => hostStatus'[h] = "revoked"]_vars

\* The absolute clock, once stamped, is never moved to another time: whatever
\* reactivateAgent read and whenever it writes back, it gives no agent more
\* life than its registration did.
AbsoluteNeverExtended ==
  [][\A a \in Agents : agent[a].absolute # NoTime
                         => agent'[a].absolute \in {agent[a].absolute, NoTime}]_vars

Busy(h) == \E c \in Calls : call[c].host = h /\ call[c].pc # "idle"

\* revokeHost: when a host is revoked and none of its calls is still running,
\* the cascade has reached every agent ("no agent of a revoked host may remain
\* usable").
CascadeReachesAll ==
  \A h \in Hosts : hostStatus[h] = "revoked" /\ ~Busy(h)
    => \A a \in Agents : agent[a].host = h => agent[a].status \notin {"active", "expired"}

\* The same as a promise about time: revoking the host leads to the revocation
\* of each of its agents.
RevocationCascades ==
  \A h \in Hosts : hostStatus[h] = "revoked" ~>
    (\A a \in Agents : agent[a].host = h => agent[a].status = "revoked")

\* A call that activated its agent and has yet to write the clocks.
Stamping(c) == \E pc \in {"clock", "stamp"} : At(c, pc, {"register", "reactivate"})

\* Agent a has a session clock to run out if it is active, or is about to.
HasClock(a) ==
  agent[a].status = "active" /\ agent[a].session = NoTime
    => \E c \in Calls : call[c].agent = a /\ Stamping(c)

\* Activation and stamping are two commits: an agent is left active without a
\* clock by nothing but the death, between the two, of the one call that was to
\* stamp it.
ActiveHasClocks ==
  [][\A a \in Agents : HasClock(a) => \/ HasClock(a)'
                                      \/ \E c \in Calls : call[c].agent = a /\ Stamping(c) /\ Die(c)]_vars

Lapsed(a) == agent[a].session # NoTime /\ agent[a].session < now

\* An agent whose session clock ran out, which every request is told is
\* expired, can be reactivated by its owner within the absolute lifetime: the
\* transition of reactivateAgent does not refuse it unless it is permanently out.
ReactivationWorks ==
  [][\A c \in Calls :
       At(c, "txSelect", {"reactivate"}) /\ Lapsed(call[c].agent) /\ call'[c].pc = "idle"
         => agent[call[c].agent].status \in {"revoked", "rejected", "claimed"}]_vars

\* A call that the table let through and that is about to activate agent a.
Cleared(c, a) ==
  call[c].agent = a /\ (At(c, "txUpdate", {"register", "reactivate"}) \/ Stamping(c))

\* Agent a ran out of its session, and no activation from before is under way.
OutOfSession(a) ==
  /\ Lapsed(a) /\ agent[a].status \in {"active", "revoked"}
  /\ \A c \in Calls : ~Cleared(c, a)

\* Running out of the session is for good: nothing writes the status "expired",
\* the one from which the table leads back to "active", so no sequence of
\* registrations, reactivations and other calls gives such an agent a new clock.
LapsedStaysLapsed == [][\A a \in Agents : OutOfSession(a) => OutOfSession(a)']_vars

\* Status changes, seen without calls and clocks, are those the state machine
\* promises: single atomic steps along the edges of the table.
Abstract == INSTANCE AapLifecycle
              WITH agentStatus <- [a \in Agents |-> agent[a].status]

ImplementsStateMachine == Abstract!Spec
=============================================================================
