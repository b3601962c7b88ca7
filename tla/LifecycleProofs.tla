-------------------------- MODULE LifecycleProofs ---------------------------
(***************************************************************************)
(* Theorems about Lifecycle, for every set of hosts, agents, calls and     *)
(* keys and every lifetime.                                                *)
(***************************************************************************)
EXTENDS Lifecycle, TLAPS

-----------------------------------------------------------------------------
(* Type correctness *)

(***************************************************************************)
(* A call that is about to use its agent has one.  TypeOK is not inductive *)
(* without it: agent[NoAgent] is not a row.                                *)
(***************************************************************************)
CallsHaveAgents ==
  \A c \in Calls :
    \/ call[c].pc \in {"txSelect", "txUpdate", "clock", "stamp", "putKey"}
    \/ At(c, "load", {"revoke", "reactivate", "rotateKey"})
    => call[c].agent \in Agents

TypeInv == TypeOK /\ CallsHaveAgents

LEMMA InitType == Init => TypeInv
<1>1. Init => TypeOK
  BY IdAssumption, TimeAssumption
     DEF Init, TypeOK, AgentRow, AbsentRow, RegisteredRow, CallState, Idle, Pc,
         AllOps, HostState, AgentState, NoTime, NoAgent
<1>2. Init => CallsHaveAgents
  BY DEF Init, CallsHaveAgents, At, Idle
<1> QED
  BY <1>1, <1>2 DEF TypeInv

\* What a call holds is well formed when it is idle.
LEMMA IdleType == Idle \in CallState
  BY DEF Idle, CallState, Pc, AllOps, NoTime, NoAgent

\* A call sent to a transition of an agent is well formed.
LEMMA TargetCallType ==
  ASSUME NEW d \in CallState, NEW a \in Agents, NEW rest \in SUBSET Agents
  PROVE  [d EXCEPT !.pc = "txSelect", !.agent = a, !.todo = rest] \in CallState
  BY DEF CallState, Pc

LEMMA RegisteredCallType ==
  ASSUME NEW d \in CallState, NEW a \in Agents
  PROVE  [d EXCEPT !.pc = "txSelect", !.agent = a] \in CallState
  BY DEF CallState, Pc

LEMMA ReactivatedCallType ==
  ASSUME NEW d \in CallState, NEW t \in Nat
  PROVE  [d EXCEPT !.pc = "txSelect", !.absolute = t] \in CallState
  BY DEF CallState, Pc

LEMMA ClockCallType ==
  ASSUME NEW d \in CallState, NEW t \in Nat
  PROVE  [d EXCEPT !.pc = "stamp", !.at = t] \in CallState
  BY DEF CallState, Pc

\* A row with another status is a row.
LEMMA StatusRowType ==
  ASSUME NEW r \in AgentRow, NEW s \in AgentState \cup {"absent"}
  PROVE  [r EXCEPT !.status = s] \in AgentRow
  BY DEF AgentRow

LEMMA KeyRowType ==
  ASSUME NEW r \in AgentRow, NEW k \in Keys
  PROVE  [r EXCEPT !.key = k] \in AgentRow
  BY DEF AgentRow

LEMMA StampRowType ==
  ASSUME NEW r \in AgentRow, NEW s \in Nat, NEW m \in Nat, NEW t \in Nat
  PROVE  [r EXCEPT !.session = s, !.max = m, !.absolute = t] \in AgentRow
  BY DEF AgentRow

\* Moving on in the cascade leaves a well-formed call.
LEMMA NextTargetType ==
  ASSUME NEW c \in Calls, NEW rest \in SUBSET Agents, NextTarget(c, rest),
         call \in [Calls -> CallState]
  PROVE  call' \in [Calls -> CallState]
<1>1. CASE Finish(c)
  BY <1>1, IdleType DEF Finish
<1>2. ASSUME NEW a \in rest,
             call' = [call EXCEPT ![c] = [@ EXCEPT !.pc = "txSelect", !.agent = a,
                                                   !.todo = rest \ {a}]]
      PROVE  call' \in [Calls -> CallState]
  <2>1. /\ call[c] \in CallState
        /\ a \in Agents
        /\ rest \ {a} \in SUBSET Agents
    OBVIOUS
  <2>2. [call[c] EXCEPT !.pc = "txSelect", !.agent = a, !.todo = rest \ {a}] \in CallState
    BY <2>1, TargetCallType
  <2> QED
    BY <1>2, <2>2
<1> QED
  BY <1>1, <1>2 DEF NextTarget

\* Every step keeps the variables in their types.
LEMMA NextType == TypeInv /\ [Next]_vars => TypeOK'
<1> SUFFICES ASSUME TypeInv, [Next]_vars PROVE TypeOK'
  OBVIOUS
<1>t. /\ hostStatus \in [Hosts -> HostState]
      /\ agent \in [Agents -> AgentRow]
      /\ call \in [Calls -> CallState]
      /\ now \in Nat \ {0}
  BY DEF TypeInv, TypeOK
<1>g. ASSUME NEW c \in Calls, NEW p \in Pc, Goto(c, p)
      PROVE  call' \in [Calls -> CallState]
  BY <1>t, <1>g DEF Goto, CallState
<1>f. ASSUME NEW c \in Calls, Finish(c)
      PROVE  call' \in [Calls -> CallState]
  BY <1>t, <1>f, IdleType DEF Finish
<1>p. /\ "create" \in Pc /\ "txSelect" \in Pc /\ "txUpdate" \in Pc /\ "clock" \in Pc
      /\ "putKey" \in Pc /\ "hostSelect" \in Pc /\ "hostUpdate" \in Pc /\ "list" \in Pc
  BY DEF Pc
<1>1. ASSUME NEW c \in Calls, NEW op \in AllOps, NEW h \in Hosts,
             NEW a \in Agents \cup {NoAgent}, Admit(c, op, h, a)
      PROVE  TypeOK'
  <2>1. [Idle EXCEPT !.pc = "load", !.op = op, !.host = h, !.agent = a] \in CallState
    BY DEF Idle, CallState, Pc, NoTime
  <2> QED
    BY <1>1, <1>t, <2>1 DEF Admit, TypeOK
<1>2. ASSUME NEW c \in Calls, Step(c)
      PROVE  TypeOK'
  <2>1. CASE RegisterLoad(c)
    BY <2>1, <1>t, <1>g, <1>f, <1>p DEF RegisterLoad, TypeOK
  <2>2. ASSUME NEW a \in Agents, NEW k \in Keys, RegisterCreate(c, a, k)
        PROVE  TypeOK'
    <3>1. call[c].host \in Hosts \cup {NoHost}
      BY <1>t DEF CallState
    <3>2. [AbsentRow(k) EXCEPT !.host = call[c].host, !.status = "pending"] \in AgentRow
      BY <3>1 DEF AbsentRow, AgentRow, AgentState, NoTime
    <3>3. agent' \in [Agents -> AgentRow]
      BY <1>t, <2>2, <3>2 DEF RegisterCreate
    <3>4. call' = [call EXCEPT ![c] = [@ EXCEPT !.pc = "txSelect", !.agent = a]]
      BY <2>2 DEF RegisterCreate
    <3>5. call' \in [Calls -> CallState]
      BY <1>t, <3>4, RegisteredCallType
    <3> QED
      BY <1>t, <2>2, <3>3, <3>5 DEF RegisterCreate, TypeOK
  <2>3. CASE RevokeLoad(c)
    BY <2>3, <1>t, <1>g, <1>f, <1>p DEF RevokeLoad, TypeOK
  <2>4. CASE ReactivateLoad(c)
    <3> DEFINE abs == agent[call[c].agent].absolute
    <3>1. call[c].agent \in Agents
      BY <2>4 DEF ReactivateLoad, At, TypeInv, CallsHaveAgents
    <3>2. abs \in Nat
      BY <1>t, <3>1 DEF AgentRow
    <3>3. CASE call' = [call EXCEPT ![c] = [@ EXCEPT !.pc = "txSelect", !.absolute = abs]]
      <4> HIDE DEF abs
      <4>1. call' \in [Calls -> CallState]
        BY <1>t, <3>2, <3>3, ReactivatedCallType
      <4> QED
        BY <1>t, <2>4, <4>1 DEF ReactivateLoad, TypeOK
    <3>4. CASE Finish(c)
      BY <1>t, <1>f, <2>4, <3>4 DEF ReactivateLoad, TypeOK
    <3> QED
      BY <2>4, <3>3, <3>4 DEF ReactivateLoad
  <2>5. CASE RotateKeyLoad(c)
    BY <2>5, <1>t, <1>g, <1>f, <1>p DEF RotateKeyLoad, TypeOK
  <2>6. ASSUME NEW k \in Keys, RotateKeyWrite(c, k)
        PROVE  TypeOK'
    <3>1. agent' \in [Agents -> AgentRow]
      BY <2>6, <1>t, KeyRowType DEF RotateKeyWrite
    <3> QED
      BY <2>6, <1>t, <1>f, <3>1 DEF RotateKeyWrite, TypeOK
  <2>7. CASE RevokeHostLoad(c)
    BY <2>7, <1>t, <1>g, <1>f, <1>p DEF RevokeHostLoad, TypeOK
  <2>8. CASE HostSelect(c)
    BY <2>8, <1>t, <1>g, <1>f, <1>p DEF HostSelect, TypeOK
  <2>9. CASE HostUpdate(c)
    BY <2>9, <1>t, <1>g, <1>p DEF HostUpdate, HostState, TypeOK
  <2>10. CASE ListAgents(c)
    <3>1. CascadeTargets(call[c].host) \in SUBSET Agents
      BY DEF CascadeTargets
    <3> QED
      BY <2>10, <1>t, <3>1, NextTargetType DEF ListAgents, TypeOK
  <2>11. CASE TxSelect(c)
    BY <2>11, <1>t, <1>g, <1>f, <1>p DEF TxSelect, TypeOK
  <2>12. CASE TxUpdate(c)
    <3>0. Target(call[c].op) \in AgentState \cup {"absent"}
      BY DEF Target, AgentState
    <3>a. agent' = [agent EXCEPT
                      ![call[c].agent].status = Target(call[c].op)]
      BY <2>12 DEF TxUpdate
    <3>1. agent' \in [Agents -> AgentRow]
      <4>1. call[c].agent \in Agents
        BY <2>12 DEF TxUpdate, At, TypeInv, CallsHaveAgents
      <4>2. [agent[call[c].agent] EXCEPT !.status = Target(call[c].op)] \in AgentRow
        BY <1>t, <3>0, <4>1, StatusRowType
      <4> QED
        BY <1>t, <3>a, <4>1, <4>2
    <3>2. call[c].todo \in SUBSET Agents
      BY <1>t DEF CallState
    <3>3. call' \in [Calls -> CallState]
      <4>1. CASE Goto(c, "clock")
        BY <1>g, <1>p, <4>1
      <4>2. CASE NextTarget(c, call[c].todo)
        BY <1>t, <3>2, <4>2, NextTargetType
      <4>3. CASE Finish(c)
        BY <1>f, <4>3
      <4> QED
        BY <2>12, <4>1, <4>2, <4>3 DEF TxUpdate
    <3> QED
      BY <2>12, <1>t, <3>1, <3>3 DEF TxUpdate, TypeOK
  <2>13. CASE Stamp(c)
    <3>1. /\ AbsoluteStamp(c) \in Nat
          /\ call[c].at + SessionTtl \in Nat /\ call[c].at + MaxTtl \in Nat
      BY <1>t, TimeAssumption DEF AbsoluteStamp, CallState
    <3>2. agent' \in [Agents -> AgentRow]
      BY <2>13, <1>t, <3>1, StampRowType DEF Stamp
    <3> QED
      BY <2>13, <1>t, <1>f, <3>2 DEF Stamp, TypeOK
  <2>14. CASE ReadClock(c)
    <3>1. call' = [call EXCEPT ![c] = [@ EXCEPT !.pc = "stamp", !.at = now]]
      BY <2>14 DEF ReadClock
    <3>2. call' \in [Calls -> CallState]
      BY <1>t, <3>1, ClockCallType
    <3> QED
      BY <2>14, <1>t, <3>2 DEF ReadClock, TypeOK
  <2> QED
    BY <1>2, <2>1, <2>2, <2>3, <2>4, <2>5, <2>6, <2>7, <2>8, <2>9, <2>10, <2>11,
       <2>12, <2>13, <2>14 DEF Step
<1>3. ASSUME NEW c \in Calls, Die(c)
      PROVE  TypeOK'
  BY <1>3, <1>t, <1>f DEF Die, TypeOK
<1>4. CASE Tick
  BY <1>4, <1>t DEF Tick, TypeOK
<1>5. CASE UNCHANGED vars
  BY <1>5, <1>t DEF vars, TypeOK
<1> QED
  BY <1>1, <1>2, <1>3, <1>4, <1>5 DEF Next

\* Every step keeps an agent with each call that is about to use one.
LEMMA NextCallsHaveAgents == TypeInv /\ [Next]_vars => CallsHaveAgents'
<1> SUFFICES ASSUME TypeInv, [Next]_vars, NEW d \in Calls,
                    \/ call'[d].pc \in {"txSelect", "txUpdate", "clock", "stamp", "putKey"}
                    \/ At(d, "load", {"revoke", "reactivate", "rotateKey"})'
             PROVE  call'[d].agent \in Agents
  BY DEF CallsHaveAgents
<1>t. call \in [Calls -> CallState] /\ CallsHaveAgents
  BY DEF TypeInv, TypeOK
<1> USE <1>t DEF At, CallsHaveAgents
<1>f. ASSUME NEW c \in Calls, Finish(c)
      PROVE  call'[d].agent \in Agents
  BY <1>f DEF Finish, Idle
<1>n. ASSUME NEW c \in Calls, NEW rest \in SUBSET Agents, NextTarget(c, rest)
      PROVE  call'[d].agent \in Agents
  <2>1. ASSUME NEW a \in rest,
               call' = [call EXCEPT ![c] = [@ EXCEPT !.pc = "txSelect", !.agent = a,
                                                     !.todo = rest \ {a}]]
        PROVE  call'[d].agent \in Agents
    <3>1. CASE d = c
      BY <2>1, <3>1 DEF CallState
    <3>2. CASE d # c
      BY <2>1, <3>2 DEF CallState
    <3> QED
      BY <3>1, <3>2
  <2> QED
    BY <1>n, <1>f, <2>1 DEF NextTarget
<1>1. ASSUME NEW c \in Calls, NEW op \in AllOps, NEW h \in Hosts,
             NEW a \in Agents \cup {NoAgent}, Admit(c, op, h, a)
      PROVE  call'[d].agent \in Agents
  BY <1>1 DEF Admit, Idle
<1>2. ASSUME NEW c \in Calls, Step(c)
      PROVE  call'[d].agent \in Agents
  <2>1. CASE RegisterLoad(c)
    BY <2>1, <1>f DEF RegisterLoad, Goto, CallState
  <2>2. ASSUME NEW a \in Agents, NEW k \in Keys, RegisterCreate(c, a, k)
        PROVE  call'[d].agent \in Agents
    <3>1. call' = [call EXCEPT ![c] = [@ EXCEPT !.pc = "txSelect", !.agent = a]]
      BY <2>2 DEF RegisterCreate
    <3> QED
      BY <3>1 DEF CallState
  <2>3. CASE RevokeLoad(c)
    BY <2>3, <1>f DEF RevokeLoad, Goto, CallState
  <2>4. CASE ReactivateLoad(c)
    <3> DEFINE abs == agent[call[c].agent].absolute
    <3>1. CASE call' = [call EXCEPT ![c] = [@ EXCEPT !.pc = "txSelect", !.absolute = abs]]
      <4> HIDE DEF abs
      <4>1. call[c].agent \in Agents
        BY <2>4 DEF ReactivateLoad
      <4> QED
        BY <3>1, <4>1 DEF CallState
    <3>2. CASE Finish(c)
      BY <1>f, <3>2
    <3> QED
      BY <2>4, <3>1, <3>2 DEF ReactivateLoad
  <2>5. CASE RotateKeyLoad(c)
    BY <2>5, <1>f DEF RotateKeyLoad, Goto, CallState
  <2>6. ASSUME NEW k \in Keys, RotateKeyWrite(c, k)
        PROVE  call'[d].agent \in Agents
    BY <2>6, <1>f DEF RotateKeyWrite
  <2>7. CASE RevokeHostLoad(c)
    BY <2>7, <1>f DEF RevokeHostLoad, Goto, CallState
  <2>8. CASE HostSelect(c)
    BY <2>8, <1>f DEF HostSelect, Goto, CallState
  <2>9. CASE HostUpdate(c)
    BY <2>9 DEF HostUpdate, Goto, CallState
  <2>10. CASE ListAgents(c)
    BY <2>10, <1>n DEF ListAgents, CascadeTargets
  <2>11. CASE TxSelect(c)
    BY <2>11, <1>f DEF TxSelect, Goto, CallState
  <2>12. CASE TxUpdate(c)
    <3>1. call[c].todo \in SUBSET Agents
      BY DEF CallState
    <3>2. CASE Goto(c, "clock")
      BY <2>12, <3>2 DEF TxUpdate, Goto, CallState
    <3> QED
      BY <2>12, <1>f, <1>n, <3>1, <3>2 DEF TxUpdate
  <2>13. CASE Stamp(c)
    BY <2>13, <1>f DEF Stamp
  <2>14. CASE ReadClock(c)
    <3>1. call' = [call EXCEPT ![c] = [@ EXCEPT !.pc = "stamp", !.at = now]]
      BY <2>14 DEF ReadClock
    <3>2. call[c].agent \in Agents
      BY <2>14 DEF ReadClock
    <3> QED
      BY <3>1, <3>2 DEF CallState
  <2> QED
    BY <1>2, <2>1, <2>2, <2>3, <2>4, <2>5, <2>6, <2>7, <2>8, <2>9, <2>10, <2>11,
       <2>12, <2>13, <2>14 DEF Step
<1>3. ASSUME NEW c \in Calls, Die(c)
      PROVE  call'[d].agent \in Agents
  BY <1>3, <1>f DEF Die
<1>4. CASE UNCHANGED call
  BY <1>4
<1> QED
  BY <1>1, <1>2, <1>3, <1>4 DEF Next, Tick, vars

\* Every reachable state is well typed, and a call that goes on to use an agent
\* row has one: no statement of identityService.ts writes a value its column
\* cannot hold, however the calls interleave.
THEOREM TypeCorrect == Spec => []TypeOK
<1>1. Spec => []TypeInv
  BY InitType, NextType, NextCallsHaveAgents, PTL DEF Spec, TypeInv
<1>2. TypeInv => TypeOK
  BY DEF TypeInv
<1> QED
  BY <1>1, <1>2, PTL

-----------------------------------------------------------------------------
(***************************************************************************)
(* Without reactivation, transactions that act on a stale status still     *)
(* never leave the table.  The argument: only the call that created a row  *)
(* moves it out of "pending", it is the only one, and by the time another  *)
(* call holds a transaction on the row the row is past "pending" for good. *)
(***************************************************************************)
OpsAdmitted == \A c \in Calls : call[c].pc # "idle" => call[c].op \in Ops

StatusReachable ==
  /\ \A a \in Agents : agent[a].status \in {"absent", "pending", "active", "revoked"}
  /\ \A h \in Hosts : hostStatus[h] \in {"active", "revoked"}

Activating(c) == call[c].op = "register" /\ call[c].pc \in {"txSelect", "txUpdate"}

ActivatingIsPending ==
  \A c \in Calls : Activating(c) => agent[call[c].agent].status = "pending"

ActivatingIsExclusive ==
  \A c, d \in Calls : Activating(c) /\ Activating(d) /\ c # d
                        => call[c].agent # call[d].agent

RevokingIsPastPending ==
  \A c \in Calls : At(c, "txUpdate", {"revoke", "revokeHost"})
                     => agent[call[c].agent].status \in {"active", "revoked"}

StatusInv ==
  /\ TypeInv
  /\ OpsAdmitted
  /\ StatusReachable
  /\ ActivatingIsPending
  /\ ActivatingIsExclusive
  /\ RevokingIsPastPending

LEMMA InitStatus == Init => StatusInv
<1>1. Init => OpsAdmitted /\ StatusReachable
  BY DEF Init, OpsAdmitted, StatusReachable, Idle, AbsentRow, RegisteredRow
<1>2. Init => ActivatingIsPending /\ ActivatingIsExclusive /\ RevokingIsPastPending
  BY DEF Init, ActivatingIsPending, ActivatingIsExclusive, RevokingIsPastPending,
         Activating, At, Idle
<1> QED
  BY <1>1, <1>2, InitType DEF StatusInv

\* What a step that leaves both tables alone does to the calls, as far as
\* StatusInv looks at them.
LEMMA CallStepKeepsStatus ==
  ASSUME "reactivate" \notin Ops, StatusInv, NEW c \in Calls,
         UNCHANGED <<hostStatus, agent>>,
         \A d \in Calls : d # c => call'[d] = call[d],
         call'[c].pc # "idle" => call'[c].op \in Ops,
         Activating(c)' => Activating(c) /\ call'[c].agent = call[c].agent,
         At(c, "txUpdate", {"revoke", "revokeHost"})'
           => agent[call'[c].agent].status \in {"active", "revoked"}
  PROVE  /\ OpsAdmitted' /\ StatusReachable' /\ ActivatingIsPending'
         /\ ActivatingIsExclusive' /\ RevokingIsPastPending'
<1>1. OpsAdmitted'
  BY DEF StatusInv, OpsAdmitted
<1>2. StatusReachable'
  BY DEF StatusInv, StatusReachable
<1>3. ActivatingIsPending'
  BY DEF StatusInv, ActivatingIsPending, Activating
<1>4. ActivatingIsExclusive'
  BY DEF StatusInv, ActivatingIsExclusive, Activating
<1>5. RevokingIsPastPending'
  BY DEF StatusInv, RevokingIsPastPending, At
<1> QED
  BY <1>1, <1>2, <1>3, <1>4, <1>5

\* Every step keeps StatusInv when nobody reactivates.
LEMMA NextStatus ==
  ASSUME "reactivate" \notin Ops
  PROVE  StatusInv /\ [Next]_vars => StatusInv'
<1> SUFFICES ASSUME StatusInv, [Next]_vars PROVE StatusInv'
  OBVIOUS
<1> DEFINE Rest == /\ OpsAdmitted /\ StatusReachable /\ ActivatingIsPending
                   /\ ActivatingIsExclusive /\ RevokingIsPastPending
<1>t. TypeInv'
  BY NextType, NextCallsHaveAgents DEF StatusInv, TypeInv
<1>s. SUFFICES Rest'
  BY <1>t DEF StatusInv
<1>c. call \in [Calls -> CallState] /\ agent \in [Agents -> AgentRow]
      /\ hostStatus \in [Hosts -> HostState]
  BY DEF StatusInv, TypeInv, TypeOK
<1>f. ASSUME NEW c \in Calls, Finish(c), UNCHANGED <<hostStatus, agent>>
      PROVE  Rest'
  <2>1. /\ \A d \in Calls : d # c => call'[d] = call[d]
        /\ call'[c].pc = "idle"
    BY <1>f, <1>c DEF Finish, Idle
  <2> QED
    BY <1>f, <2>1, CallStepKeepsStatus DEF Activating, At
<1>g. ASSUME NEW c \in Calls, call[c].pc # "idle", NEW p \in Pc, Goto(c, p),
             UNCHANGED <<hostStatus, agent>>,
             p \in {"txSelect", "txUpdate"} /\ call[c].op = "register" => Activating(c),
             p = "txUpdate" /\ call[c].op \in {"revoke", "revokeHost"}
               => agent[call[c].agent].status \in {"active", "revoked"}
      PROVE  Rest'
  <2>1. /\ \A d \in Calls : d # c => call'[d] = call[d]
        /\ call'[c].pc = p /\ call'[c].op = call[c].op /\ call'[c].agent = call[c].agent
    BY <1>g, <1>c DEF Goto, CallState
  <2>2. call[c].op \in Ops
    BY <1>g DEF StatusInv, OpsAdmitted
  <2> QED
    BY <1>g, <2>1, <2>2, CallStepKeepsStatus DEF Activating, At
<1>n. ASSUME NEW c \in Calls, NEW rest \in SUBSET Agents, NextTarget(c, rest),
             call[c].pc # "idle", call[c].op = "revokeHost"
      PROVE  /\ \A d \in Calls : d # c => call'[d] = call[d]
             /\ call'[c].pc # "idle" => call'[c].op \in Ops
             /\ call'[c].pc # "txUpdate" /\ ~Activating(c)'
  <2>1. call[c].op \in Ops
    BY <1>n DEF StatusInv, OpsAdmitted
  <2>2. CASE Finish(c)
    BY <1>c, <2>2 DEF Finish, Idle, Activating
  <2>3. ASSUME NEW a \in rest,
               call' = [call EXCEPT ![c] = [@ EXCEPT !.pc = "txSelect", !.agent = a,
                                                     !.todo = rest \ {a}]]
        PROVE  /\ \A d \in Calls : d # c => call'[d] = call[d]
               /\ call'[c].pc = "txSelect" /\ call'[c].op = call[c].op
    BY <1>c, <2>3 DEF CallState
  <2> QED
    BY <1>n, <2>1, <2>2, <2>3 DEF NextTarget, Activating
<1>1. ASSUME NEW c \in Calls, NEW op \in AllOps, NEW h \in Hosts,
             NEW a \in Agents \cup {NoAgent}, Admit(c, op, h, a)
      PROVE  Rest'
  <2>1. /\ \A d \in Calls : d # c => call'[d] = call[d]
        /\ call'[c].pc = "load" /\ call'[c].op = op
    BY <1>1, <1>c DEF Admit, Idle
  <2> QED
    BY <1>1, <2>1, CallStepKeepsStatus DEF Admit, Activating, At
<1>2. ASSUME NEW c \in Calls, Step(c)
      PROVE  Rest'
  <2>p. /\ "create" \in Pc /\ "txSelect" \in Pc /\ "txUpdate" \in Pc /\ "clock" \in Pc
        /\ "putKey" \in Pc /\ "hostSelect" \in Pc /\ "hostUpdate" \in Pc /\ "list" \in Pc
    BY DEF Pc
  <2>1. CASE RegisterLoad(c)
    BY <2>1, <2>p, <1>f, <1>g DEF RegisterLoad, At
  <2>2. ASSUME NEW a \in Agents, NEW k \in Keys, RegisterCreate(c, a, k)
        PROVE  Rest'
    <3>1. /\ call' = [call EXCEPT ![c] = [@ EXCEPT !.pc = "txSelect", !.agent = a]]
          /\ agent' = [agent EXCEPT ![a] =
                         [AbsentRow(k) EXCEPT !.host = call[c].host, !.status = "pending"]]
          /\ agent[a].status = "absent" /\ hostStatus' = hostStatus
          /\ call[c].pc = "create" /\ call[c].op = "register"
      BY <2>2 DEF RegisterCreate, At, Exists
    <3>2. /\ \A d \in Calls : d # c => call'[d] = call[d]
          /\ call'[c].pc = "txSelect" /\ call'[c].op = "register" /\ call'[c].agent = a
      BY <1>c, <3>1 DEF CallState
    <3>3. /\ \A b \in Agents : b # a => agent'[b] = agent[b]
          /\ agent'[a].status = "pending"
      BY <1>c, <3>1 DEF AbsentRow
    <3>4. \A d \in Calls : Activating(d) => call[d].agent \in Agents /\ call[d].agent # a
      BY <3>1 DEF StatusInv, ActivatingIsPending, Activating, TypeInv, CallsHaveAgents
    <3>5. \A d \in Calls : At(d, "txUpdate", {"revoke", "revokeHost"})
                             => call[d].agent \in Agents /\ call[d].agent # a
      BY <3>1 DEF StatusInv, RevokingIsPastPending, At, TypeInv, CallsHaveAgents
    <3>6. OpsAdmitted'
      BY <3>1, <3>2 DEF StatusInv, OpsAdmitted
    <3>7. StatusReachable'
      BY <3>1, <3>3 DEF StatusInv, StatusReachable
    <3>8. ActivatingIsPending'
      BY <3>2, <3>3, <3>4 DEF StatusInv, ActivatingIsPending, Activating
    <3>9. ActivatingIsExclusive'
      BY <3>2, <3>4 DEF StatusInv, ActivatingIsExclusive, Activating
    <3>10. RevokingIsPastPending'
      BY <3>2, <3>3, <3>5 DEF StatusInv, RevokingIsPastPending, At
    <3> QED
      BY <3>6, <3>7, <3>8, <3>9, <3>10
  <2>3. CASE RevokeLoad(c)
    BY <2>3, <2>p, <1>f, <1>g DEF RevokeLoad, At
  <2>4. CASE ReactivateLoad(c)
    BY <2>4 DEF ReactivateLoad, At, StatusInv, OpsAdmitted
  <2>5. CASE RotateKeyLoad(c)
    BY <2>5, <2>p, <1>f, <1>g DEF RotateKeyLoad, At
  <2>6. ASSUME NEW k \in Keys, RotateKeyWrite(c, k)
        PROVE  Rest'
    <3>1. /\ \A d \in Calls : d # c => call'[d] = call[d]
          /\ call'[c].pc = "idle" /\ hostStatus' = hostStatus
      BY <2>6, <1>c DEF RotateKeyWrite, Finish, Idle
    <3>2. \A b \in Agents : agent'[b].status = agent[b].status
      BY <2>6, <1>c DEF RotateKeyWrite, AgentRow
    <3>3. \A d \in Calls : call[d].pc \in {"txSelect", "txUpdate"} => call[d].agent \in Agents
      BY DEF StatusInv, TypeInv, CallsHaveAgents
    <3> QED
      BY <3>1, <3>2, <3>3 DEF StatusInv, OpsAdmitted, StatusReachable, ActivatingIsPending,
           ActivatingIsExclusive, RevokingIsPastPending, Activating, At
  <2>7. CASE RevokeHostLoad(c)
    BY <2>7, <2>p, <1>f, <1>g DEF RevokeHostLoad, At
  <2>8. CASE HostSelect(c)
    BY <2>8, <2>p, <1>f, <1>g DEF HostSelect, At
  <2>9. CASE HostUpdate(c)
    <3>1. /\ \A d \in Calls : d # c => call'[d] = call[d]
          /\ call'[c].pc = "list" /\ call'[c].op = call[c].op
      BY <2>9, <1>c DEF HostUpdate, Goto, CallState
    <3>2. \A h \in Hosts : hostStatus'[h] \in {"active", "revoked"}
      BY <2>9, <1>c DEF HostUpdate, StatusInv, StatusReachable
    <3>3. agent' = agent /\ call[c].op \in Ops
      BY <2>9 DEF HostUpdate, At, StatusInv, OpsAdmitted
    <3> QED
      BY <3>1, <3>2, <3>3 DEF StatusInv, OpsAdmitted, StatusReachable, ActivatingIsPending,
           ActivatingIsExclusive, RevokingIsPastPending, Activating, At
  <2>10. CASE ListAgents(c)
    <3>1. CascadeTargets(call[c].host) \in SUBSET Agents
      BY DEF CascadeTargets
    <3> QED
      BY <2>10, <3>1, <1>n, CallStepKeepsStatus DEF ListAgents, At
  <2>11. CASE TxSelect(c)
    <3>1. CASE Finish(c)
      BY <2>11, <3>1, <1>f DEF TxSelect
    <3>2. CASE /\ Goto(c, "txUpdate") /\ Exists(call[c].agent)
               /\ canTransitionAgent(agent[call[c].agent].status, Target(call[c].op))
      <4>1. call[c].agent \in Agents /\ call[c].pc = "txSelect"
        BY <2>11 DEF TxSelect, At, StatusInv, TypeInv, CallsHaveAgents
      <4>2. agent[call[c].agent].status \in {"absent", "pending", "active", "revoked"}
        BY <4>1 DEF StatusInv, StatusReachable
      <4>3. agent[call[c].agent].status # "absent"
        BY <3>2 DEF Exists
      <4>4. call[c].op \in {"revoke", "revokeHost"} => agent[call[c].agent].status = "active"
        BY <3>2, <4>2, <4>3 DEF canTransitionAgent, AGENT_TRANSITIONS, AgentState, Target
      <4> QED
        BY <2>11, <2>p, <3>2, <4>1, <4>4, <1>g DEF TxSelect, Activating
    <3> QED
      BY <2>11, <3>1, <3>2 DEF TxSelect
  <2>12. CASE TxUpdate(c)
    <3> DEFINE t == call[c].agent
    <3>1. /\ t \in Agents /\ call[c].op \in Ops /\ call[c].pc = "txUpdate"
          /\ call[c].op \in {"register", "revoke", "revokeHost"}
          /\ hostStatus' = hostStatus
      BY <2>12 DEF TxUpdate, At, TransitionOps, StatusInv, TypeInv, CallsHaveAgents, OpsAdmitted
    <3>2. /\ \A b \in Agents : b # t => agent'[b].status = agent[b].status
          /\ agent'[t].status = Target(call[c].op)
      BY <2>12, <1>c, <3>1 DEF TxUpdate, AgentRow
    <3>3. Target(call[c].op) = IF call[c].op = "register" THEN "active" ELSE "revoked"
      BY <3>1 DEF Target
    <3>4. /\ \A d \in Calls : d # c => call'[d] = call[d]
          /\ call'[c].pc # "idle" => call'[c].op \in Ops
          /\ call'[c].pc # "txUpdate" /\ ~Activating(c)'
      <4>1. CASE Goto(c, "clock")
        BY <1>c, <3>1, <4>1 DEF Goto, CallState, Activating
      <4>2. CASE call[c].op = "revokeHost" /\ NextTarget(c, call[c].todo)
        <5>1. call[c].todo \in SUBSET Agents
          BY <1>c DEF CallState
        <5> QED
          BY <3>1, <4>2, <5>1, <1>n
      <4>3. CASE Finish(c)
        BY <1>c, <4>3 DEF Finish, Idle, Activating
      <4> QED
        BY <2>12, <4>1, <4>2, <4>3 DEF TxUpdate
    <3>5. \A d \in Calls : d # c /\ Activating(d) => call[d].agent \in Agents \ {t}
      <4> SUFFICES ASSUME NEW d \in Calls, d # c, Activating(d)
                   PROVE  call[d].agent \in Agents \ {t}
        OBVIOUS
      <4>1. call[d].agent \in Agents /\ agent[call[d].agent].status = "pending"
        BY DEF StatusInv, TypeInv, CallsHaveAgents, ActivatingIsPending, Activating
      <4>2. CASE call[c].op = "register"
        BY <3>1, <4>1, <4>2 DEF StatusInv, ActivatingIsExclusive, Activating
      <4>3. CASE call[c].op \in {"revoke", "revokeHost"}
        BY <3>1, <4>1, <4>3 DEF StatusInv, RevokingIsPastPending, At
      <4> QED
        BY <3>1, <4>2, <4>3
    <3>6. OpsAdmitted' /\ StatusReachable'
      BY <3>1, <3>2, <3>3, <3>4 DEF StatusInv, OpsAdmitted, StatusReachable
    <3>7. ActivatingIsPending'
      BY <3>2, <3>4, <3>5 DEF StatusInv, ActivatingIsPending, Activating
    <3>8. ActivatingIsExclusive'
      BY <3>4 DEF StatusInv, ActivatingIsExclusive, Activating
    <3>9. RevokingIsPastPending'
      <4> SUFFICES ASSUME NEW d \in Calls, At(d, "txUpdate", {"revoke", "revokeHost"})'
                   PROVE  agent'[call'[d].agent].status \in {"active", "revoked"}
        BY DEF RevokingIsPastPending
      <4>1. d # c /\ call'[d] = call[d]
        BY <3>4 DEF At
      <4>2. call[d].agent \in Agents /\ agent[call[d].agent].status \in {"active", "revoked"}
        BY <4>1 DEF StatusInv, RevokingIsPastPending, At, TypeInv, CallsHaveAgents
      <4> QED
        BY <3>2, <3>3, <4>1, <4>2
    <3> QED
      BY <3>6, <3>7, <3>8, <3>9
  <2>13. CASE Stamp(c)
    <3>1. /\ \A d \in Calls : d # c => call'[d] = call[d]
          /\ call'[c].pc = "idle" /\ hostStatus' = hostStatus
      BY <2>13, <1>c DEF Stamp, Finish, Idle
    <3>2. \A b \in Agents : agent'[b].status = agent[b].status
      BY <2>13, <1>c DEF Stamp, AgentRow
    <3>3. \A d \in Calls : call[d].pc \in {"txSelect", "txUpdate"} => call[d].agent \in Agents
      BY DEF StatusInv, TypeInv, CallsHaveAgents
    <3> QED
      BY <3>1, <3>2, <3>3 DEF StatusInv, OpsAdmitted, StatusReachable, ActivatingIsPending,
           ActivatingIsExclusive, RevokingIsPastPending, Activating, At
  <2>14. CASE ReadClock(c)
    <3>1. /\ \A d \in Calls : d # c => call'[d] = call[d]
          /\ call'[c].pc = "stamp" /\ call'[c].op = call[c].op
      BY <2>14, <1>c DEF ReadClock, CallState
    <3> QED
      BY <2>14, <3>1, CallStepKeepsStatus DEF ReadClock, Activating, At, StatusInv, OpsAdmitted
  <2> QED
    BY <1>2, <2>1, <2>2, <2>3, <2>4, <2>5, <2>6, <2>7, <2>8, <2>9, <2>10, <2>11,
       <2>12, <2>13, <2>14 DEF Step
<1>3. ASSUME NEW c \in Calls, Die(c)
      PROVE  Rest'
  BY <1>3, <1>f DEF Die
<1>4. CASE Tick \/ UNCHANGED vars
  BY <1>4 DEF Tick, vars, StatusInv, OpsAdmitted, StatusReachable, ActivatingIsPending,
           ActivatingIsExclusive, RevokingIsPastPending, Activating, At
<1> QED
  BY <1>1, <1>2, <1>3, <1>4 DEF Next

\* The steps of a run without reactivation, each seen as a change of the
\* status columns: a creation, an edge of a table, or nothing.
LEMMA StatusSteps ==
  ASSUME "reactivate" \notin Ops, StatusInv, [Next]_vars
  PROVE  \/ /\ \A a \in Agents : agent'[a].status = agent[a].status
            /\ hostStatus' = hostStatus
         \/ \E a \in Agents, to \in {"pending", "active", "revoked"} :
              /\ <<agent[a].status, to>> \in
                   {<<"absent", "pending">>, <<"pending", "active">>, <<"active", "revoked">>}
              /\ agent'[a].status = to
              /\ \A b \in Agents : b # a => agent'[b].status = agent[b].status
              /\ hostStatus' = hostStatus
         \/ \E h \in Hosts :
              /\ hostStatus[h] = "active"
              /\ hostStatus' = [hostStatus EXCEPT ![h] = "revoked"]
              /\ \A a \in Agents : agent'[a].status = agent[a].status
<1> DEFINE Goal == \/ /\ \A a \in Agents : agent'[a].status = agent[a].status
                      /\ hostStatus' = hostStatus
                   \/ \E a \in Agents, to \in {"pending", "active", "revoked"} :
                        /\ <<agent[a].status, to>> \in
                             {<<"absent", "pending">>, <<"pending", "active">>, <<"active", "revoked">>}
                        /\ agent'[a].status = to
                        /\ \A b \in Agents : b # a => agent'[b].status = agent[b].status
                        /\ hostStatus' = hostStatus
                   \/ \E h \in Hosts :
                        /\ hostStatus[h] = "active"
                        /\ hostStatus' = [hostStatus EXCEPT ![h] = "revoked"]
                        /\ \A a \in Agents : agent'[a].status = agent[a].status
<1>c. call \in [Calls -> CallState] /\ agent \in [Agents -> AgentRow]
      /\ hostStatus \in [Hosts -> HostState]
  BY DEF StatusInv, TypeInv, TypeOK
<1>u. ASSUME agent' = agent, hostStatus' = hostStatus PROVE Goal
  BY <1>u
<1>2. ASSUME NEW c \in Calls, Step(c) PROVE Goal
  <2>1. ASSUME NEW a \in Agents, NEW k \in Keys, RegisterCreate(c, a, k) PROVE Goal
    <3>1. /\ agent[a].status = "absent" /\ agent'[a].status = "pending"
          /\ \A b \in Agents : b # a => agent'[b].status = agent[b].status
          /\ hostStatus' = hostStatus
      BY <2>1, <1>c DEF RegisterCreate, Exists, AbsentRow
    <3> QED
      BY <3>1
  <2>2. ASSUME NEW k \in Keys, RotateKeyWrite(c, k) PROVE Goal
    BY <2>2, <1>c DEF RotateKeyWrite, AgentRow
  <2>3. CASE HostUpdate(c)
    <3> DEFINE h == call[c].host
    <3>1. hostStatus' = [hostStatus EXCEPT ![h] = "revoked"] /\ agent' = agent
      BY <2>3 DEF HostUpdate
    <3>2. CASE h \in Hosts /\ hostStatus[h] = "active"
      BY <3>1, <3>2
    <3>3. CASE h \notin Hosts \/ hostStatus[h] = "revoked"
      <4>1. hostStatus' = hostStatus
        BY <1>c, <3>1, <3>3
      <4> QED
        BY <3>1, <4>1
    <3> QED
      BY <3>2, <3>3 DEF StatusInv, StatusReachable
  <2>4. CASE TxUpdate(c)
    <3> DEFINE t == call[c].agent
    <3>1. /\ t \in Agents /\ call[c].pc = "txUpdate"
          /\ call[c].op \in {"register", "revoke", "revokeHost"}
          /\ hostStatus' = hostStatus
      BY <2>4 DEF TxUpdate, At, TransitionOps, StatusInv, TypeInv, CallsHaveAgents, OpsAdmitted
    <3>2. /\ \A b \in Agents : b # t => agent'[b].status = agent[b].status
          /\ agent'[t].status = Target(call[c].op)
      BY <2>4, <1>c, <3>1 DEF TxUpdate, AgentRow
    <3>3. CASE call[c].op = "register"
      BY <3>1, <3>2, <3>3 DEF Target, StatusInv, ActivatingIsPending, Activating
    <3>4. CASE call[c].op \in {"revoke", "revokeHost"}
      <4>1. agent[t].status \in {"active", "revoked"} /\ agent'[t].status = "revoked"
        BY <3>1, <3>2, <3>4 DEF Target, StatusInv, RevokingIsPastPending, At
      <4> QED
        BY <3>1, <3>2, <4>1
    <3> QED
      BY <3>1, <3>3, <3>4
  <2>5. CASE Stamp(c)
    BY <2>5, <1>c DEF Stamp, AgentRow
  <2> QED
    BY <1>2, <1>u, <2>1, <2>2, <2>3, <2>4, <2>5
       DEF Step, RegisterLoad, RevokeLoad, ReactivateLoad, RotateKeyLoad, RevokeHostLoad,
           HostSelect, ListAgents, TxSelect, ReadClock
<1>3. CASE UNCHANGED <<hostStatus, agent>>
  BY <1>3, <1>u
<1> QED
  BY <1>2, <1>3 DEF Next, Admit, Die, Tick, vars

\* Where nobody calls reactivateAgent, a revoked agent and a revoked host stay
\* revoked for any number of concurrent calls, agents and hosts, although each
\* transaction updates by id on the strength of an earlier, unlocked SELECT.
THEOREM RevocationIsFinal ==
  ASSUME "reactivate" \notin Ops
  PROVE  Spec => RevokedIsFinal
<1>1. Spec => []StatusInv
  BY InitStatus, NextStatus, PTL DEF Spec
<1>2. StatusInv /\ [Next]_vars
      => [/\ \A a \in Agents : agent[a].status = "revoked" => agent'[a].status = "revoked"
          /\ \A h \in Hosts : hostStatus[h] = "revoked" => hostStatus'[h] = "revoked"]_vars
  <2> SUFFICES ASSUME StatusInv, [Next]_vars
               PROVE  /\ \A a \in Agents : agent[a].status = "revoked" => agent'[a].status = "revoked"
                      /\ \A h \in Hosts : hostStatus[h] = "revoked" => hostStatus'[h] = "revoked"
    OBVIOUS
  <2>1. hostStatus \in [Hosts -> HostState]
    BY DEF StatusInv, TypeInv, TypeOK
  <2> QED
    BY <2>1, StatusSteps
<1> QED
  BY <1>1, <1>2, PTL DEF Spec, RevokedIsFinal

\* The initial statuses are initial statuses of the state machine.
LEMMA InitRefines == Init => Abstract!Init
<1> SUFFICES ASSUME Init PROVE Abstract!Init
  OBVIOUS
<1>1. \A a \in Agents : agent[a].status \in {"absent", "active"}
  BY DEF Init, AbsentRow, RegisteredRow
<1> QED
  BY <1>1 DEF Init, Abstract!Init

\* Every step is a step of the state machine or changes no status.
LEMMA NextRefines ==
  ASSUME "reactivate" \notin Ops
  PROVE  StatusInv /\ [Next]_vars => [Abstract!Next]_(Abstract!vars)
<1> SUFFICES ASSUME StatusInv, [Next]_vars
             PROVE  Abstract!Next \/ UNCHANGED Abstract!vars
  OBVIOUS
<1> DEFINE status == [a \in Agents |-> agent[a].status]
<1>s. status' = [a \in Agents |-> agent'[a].status]
  OBVIOUS
<1>1. CASE /\ \A a \in Agents : agent'[a].status = agent[a].status
           /\ hostStatus' = hostStatus
  BY <1>1 DEF Abstract!vars
<1>2. ASSUME NEW a \in Agents, NEW to \in {"pending", "active", "revoked"},
             <<agent[a].status, to>> \in
               {<<"absent", "pending">>, <<"pending", "active">>, <<"active", "revoked">>},
             agent'[a].status = to,
             \A b \in Agents : b # a => agent'[b].status = agent[b].status,
             hostStatus' = hostStatus
      PROVE  Abstract!Next
  <2>1. status' = [status EXCEPT ![a] = to] /\ status[a] = agent[a].status
    BY <1>2
  <2>2. CASE status[a] = "absent" /\ to = "pending"
    <3>1. Abstract!Create(a)
      BY <1>2, <2>1, <2>2 DEF Abstract!Create
    <3> QED
      BY <3>1 DEF Abstract!Next
  <2>3. CASE \/ status[a] = "pending" /\ to = "active"
             \/ status[a] = "active" /\ to = "revoked"
    <3>1. status[a] \in Abstract!AgentState /\ to \in Abstract!AgentState
      BY <2>3 DEF Abstract!AgentState
    <3>2. Abstract!canTransitionAgent(status[a], to)
      BY <2>3, <3>1 DEF Abstract!canTransitionAgent, Abstract!AGENT_TRANSITIONS
    <3>3. Abstract!TransitionAgent(a, to)
      BY <1>2, <2>1, <3>1, <3>2 DEF Abstract!TransitionAgent
    <3> QED
      BY <3>1, <3>3 DEF Abstract!Next
  <2> QED
    BY <1>2, <2>1, <2>2, <2>3
<1>3. ASSUME NEW h \in Hosts, hostStatus[h] = "active",
             hostStatus' = [hostStatus EXCEPT ![h] = "revoked"],
             \A a \in Agents : agent'[a].status = agent[a].status
      PROVE  Abstract!Next
  <2>1. Abstract!canTransitionHost(hostStatus[h], "revoked") /\ "revoked" \in Abstract!HostState
    BY <1>3 DEF Abstract!canTransitionHost, Abstract!HOST_TRANSITIONS, Abstract!HostState
  <2>2. Abstract!TransitionHost(h, "revoked")
    BY <1>3, <2>1 DEF Abstract!TransitionHost
  <2> QED
    BY <2>1, <2>2 DEF Abstract!Next
<1> QED
  BY StatusSteps, <1>1, <1>2, <1>3

\* Lifecycle implements the state machine: where nobody calls reactivateAgent,
\* the interleaved, unlocked transactions change statuses exactly as if each
\* were one atomic step along an edge of the table.
THEOREM StateMachineImplemented ==
  ASSUME "reactivate" \notin Ops
  PROVE  Spec => ImplementsStateMachine
<1>1. Spec => []StatusInv
  BY InitStatus, NextStatus, PTL DEF Spec
<1> QED
  BY <1>1, InitRefines, NextRefines, PTL DEF Spec, ImplementsStateMachine, Abstract!Spec

-----------------------------------------------------------------------------
(* What the steps do to a call, field by field *)

\* A call that ends is idle again and no other call moves.
LEMMA FinishEffect ==
  ASSUME call \in [Calls -> CallState], NEW c \in Calls, Finish(c)
  PROVE  /\ \A d \in Calls : d # c => call'[d] = call[d]
         /\ call'[c] = Idle
  BY DEF Finish

\* A call that goes on keeps everything but its place.
LEMMA GotoEffect ==
  ASSUME call \in [Calls -> CallState], NEW c \in Calls, NEW p, Goto(c, p)
  PROVE  /\ \A d \in Calls : d # c => call'[d] = call[d]
         /\ call'[c].pc = p /\ call'[c].op = call[c].op /\ call'[c].host = call[c].host
         /\ call'[c].agent = call[c].agent /\ call'[c].absolute = call[c].absolute
         /\ call'[c].todo = call[c].todo
  BY DEF Goto, CallState

\* The loop of revokeHost goes on with the oldest agent of rest, if there is one.
LEMMA NextTargetEffect ==
  ASSUME call \in [Calls -> CallState], NEW c \in Calls, NEW rest, NextTarget(c, rest)
  PROVE  /\ \A d \in Calls : d # c => call'[d] = call[d]
         /\ \/ rest = {} /\ call'[c] = Idle
            \/ /\ call'[c].agent \in rest
               /\ \A b \in rest : call'[c].agent <= b
               /\ call'[c].pc = "txSelect" /\ call'[c].todo = rest \ {call'[c].agent}
               /\ call'[c].op = call[c].op /\ call'[c].host = call[c].host
               /\ call'[c].absolute = call[c].absolute
<1>1. CASE rest = {} /\ Finish(c)
  BY <1>1, FinishEffect
<1>2. ASSUME NEW a \in rest, \A b \in rest : a <= b,
             call' = [call EXCEPT ![c] = [@ EXCEPT !.pc = "txSelect", !.agent = a,
                                                   !.todo = rest \ {a}]]
      PROVE  /\ \A d \in Calls : d # c => call'[d] = call[d]
             /\ call'[c].agent = a
             /\ call'[c].pc = "txSelect" /\ call'[c].todo = rest \ {a}
             /\ call'[c].op = call[c].op /\ call'[c].host = call[c].host
             /\ call'[c].absolute = call[c].absolute
  BY <1>2 DEF CallState
<1>3. CASE \E a \in rest :
             /\ \A b \in rest : a <= b
             /\ call' = [call EXCEPT ![c] = [@ EXCEPT !.pc = "txSelect", !.agent = a,
                                                      !.todo = rest \ {a}]]
  <2>1. PICK a \in rest :
               /\ \A b \in rest : a <= b
               /\ call' = [call EXCEPT ![c] = [@ EXCEPT !.pc = "txSelect", !.agent = a,
                                                        !.todo = rest \ {a}]]
    BY <1>3
  <2>2. /\ \A d \in Calls : d # c => call'[d] = call[d]
        /\ call'[c].agent = a
        /\ call'[c].pc = "txSelect" /\ call'[c].todo = rest \ {a}
        /\ call'[c].op = call[c].op /\ call'[c].host = call[c].host
        /\ call'[c].absolute = call[c].absolute
    BY <1>2, <2>1, Zenon
  <2> QED
    BY <2>1, <2>2
<1> QED
  BY <1>1, <1>3 DEF NextTarget

LEMMA AdmitEffect ==
  ASSUME call \in [Calls -> CallState], NEW c \in Calls, NEW op, NEW h, NEW a,
         Admit(c, op, h, a)
  PROVE  /\ \A d \in Calls : d # c => call'[d] = call[d]
         /\ call[c].pc = "idle" /\ op \in Ops
         /\ call'[c].pc = "load" /\ call'[c].op = op /\ call'[c].host = h
         /\ call'[c].agent = a
         /\ hostStatus[h] = "active"
         /\ UNCHANGED <<hostStatus, agent, now>>
  BY DEF Admit, Idle

LEMMA CreateEffect ==
  ASSUME call \in [Calls -> CallState], agent \in [Agents -> AgentRow],
         NEW c \in Calls, NEW a \in Agents, NEW k \in Keys, RegisterCreate(c, a, k)
  PROVE  /\ \A d \in Calls : d # c => call'[d] = call[d]
         /\ call[c].pc = "create" /\ call[c].op = "register"
         /\ call'[c].pc = "txSelect" /\ call'[c].op = "register" /\ call'[c].agent = a
         /\ agent[a].status = "absent"
         /\ agent'[a].status = "pending" /\ agent'[a].session = NoTime
         /\ agent'[a].max = NoTime /\ agent'[a].absolute = NoTime
         /\ \A b \in Agents : b # a => agent'[b] = agent[b]
         /\ UNCHANGED <<hostStatus, now>>
<1>1. /\ call' = [call EXCEPT ![c] = [@ EXCEPT !.pc = "txSelect", !.agent = a]]
      /\ agent' = [agent EXCEPT ![a] =
                     [AbsentRow(k) EXCEPT !.host = call[c].host, !.status = "pending"]]
      /\ agent[a].status = "absent" /\ hostStatus' = hostStatus /\ now' = now
      /\ call[c].pc = "create" /\ call[c].op = "register"
  BY DEF RegisterCreate, At, Exists
<1>2. /\ \A d \in Calls : d # c => call'[d] = call[d]
      /\ call'[c].pc = "txSelect" /\ call'[c].op = call[c].op /\ call'[c].agent = a
  BY <1>1 DEF CallState
<1>3. /\ \A b \in Agents : b # a => agent'[b] = agent[b]
      /\ agent'[a].status = "pending" /\ agent'[a].session = NoTime
      /\ agent'[a].max = NoTime /\ agent'[a].absolute = NoTime
  BY <1>1 DEF AbsentRow
<1> QED
  BY <1>1, <1>2, <1>3

LEMMA ReactivateLoadEffect ==
  ASSUME call \in [Calls -> CallState], NEW c \in Calls, ReactivateLoad(c)
  PROVE  /\ \A d \in Calls : d # c => call'[d] = call[d]
         /\ call[c].pc = "load" /\ call[c].op = "reactivate"
         /\ UNCHANGED <<hostStatus, agent, now>>
         /\ \/ call'[c] = Idle
            \/ /\ call'[c].pc = "txSelect" /\ call'[c].op = "reactivate"
               /\ call'[c].agent = call[c].agent
               /\ call'[c].absolute = agent[call[c].agent].absolute
<1> DEFINE abs == agent[call[c].agent].absolute
<1>1. CASE call' = [call EXCEPT ![c] = [@ EXCEPT !.pc = "txSelect", !.absolute = abs]]
  <2>1. /\ \A d \in Calls : d # c => call'[d] = call[d]
        /\ call'[c].pc = "txSelect" /\ call'[c].op = call[c].op
        /\ call'[c].agent = call[c].agent /\ call'[c].absolute = abs
    <3> HIDE DEF abs
    <3> QED
      BY <1>1 DEF CallState
  <2> QED
    BY <2>1 DEF ReactivateLoad, At
<1>2. CASE Finish(c)
  BY <1>2, FinishEffect DEF ReactivateLoad, At
<1> QED
  BY <1>1, <1>2 DEF ReactivateLoad

\* The UPDATE of transitionAgent writes the status of one row, whoever owns it now.
LEMMA TxUpdateEffect ==
  ASSUME TypeInv, NEW c \in Calls, TxUpdate(c)
  PROVE  /\ call[c].pc = "txUpdate" /\ call[c].op \in TransitionOps
         /\ call[c].agent \in Agents
         /\ \A b \in Agents : b # call[c].agent => agent'[b] = agent[b]
         /\ agent'[call[c].agent].status = Target(call[c].op)
         /\ agent'[call[c].agent].host = agent[call[c].agent].host
         /\ agent'[call[c].agent].session = agent[call[c].agent].session
         /\ agent'[call[c].agent].max = agent[call[c].agent].max
         /\ agent'[call[c].agent].absolute = agent[call[c].agent].absolute
         /\ UNCHANGED <<hostStatus, now>>
<1>1. agent \in [Agents -> AgentRow] /\ call[c].pc = "txUpdate" /\ call[c].agent \in Agents
  BY DEF TypeInv, TypeOK, CallsHaveAgents, TxUpdate, At
<1>2. agent' = [agent EXCEPT ![call[c].agent].status = Target(call[c].op)]
  BY DEF TxUpdate
<1>3. \A b \in Agents : b # call[c].agent => agent'[b] = agent[b]
  BY <1>1, <1>2
<1>4. /\ agent'[call[c].agent].status = Target(call[c].op)
      /\ agent'[call[c].agent].host = agent[call[c].agent].host
      /\ agent'[call[c].agent].session = agent[call[c].agent].session
      /\ agent'[call[c].agent].max = agent[call[c].agent].max
      /\ agent'[call[c].agent].absolute = agent[call[c].agent].absolute
  BY <1>1, <1>2 DEF AgentRow
<1> QED
  BY <1>1, <1>3, <1>4 DEF TxUpdate, At

\* Reading the clock changes nothing but the call that reads it.
LEMMA ReadClockEffect ==
  ASSUME TypeInv, NEW c \in Calls, ReadClock(c)
  PROVE  /\ call[c].pc = "clock" /\ call[c].op \in {"register", "reactivate"}
         /\ call[c].agent \in Agents
         /\ \A d \in Calls : d # c => call'[d] = call[d]
         /\ call'[c].pc = "stamp" /\ call'[c].op = call[c].op /\ call'[c].host = call[c].host
         /\ call'[c].agent = call[c].agent /\ call'[c].absolute = call[c].absolute
         /\ call'[c].todo = call[c].todo /\ call'[c].at = now
         /\ UNCHANGED <<hostStatus, agent, now>>
<1>1. /\ call[c].pc = "clock" /\ call[c].op \in {"register", "reactivate"}
      /\ call' = [call EXCEPT ![c] = [@ EXCEPT !.pc = "stamp", !.at = now]]
      /\ UNCHANGED <<hostStatus, agent, now>>
  BY DEF ReadClock, At
<1>2. call \in [Calls -> CallState] /\ call[c].agent \in Agents
  BY <1>1 DEF TypeInv, TypeOK, CallsHaveAgents
<1>3. /\ \A d \in Calls : d # c => call'[d] = call[d]
      /\ call'[c].pc = "stamp" /\ call'[c].op = call[c].op /\ call'[c].host = call[c].host
      /\ call'[c].agent = call[c].agent /\ call'[c].absolute = call[c].absolute
      /\ call'[c].todo = call[c].todo /\ call'[c].at = now
  BY <1>1, <1>2 DEF CallState
<1> QED
  BY <1>1, <1>2, <1>3

\* applyLifetimes writes the clocks of one row.
LEMMA StampEffect ==
  ASSUME TypeInv, NEW c \in Calls, Stamp(c)
  PROVE  /\ call[c].pc = "stamp" /\ call[c].op \in {"register", "reactivate"}
         /\ call[c].agent \in Agents
         /\ \A b \in Agents : b # call[c].agent => agent'[b] = agent[b]
         /\ agent'[call[c].agent].status = agent[call[c].agent].status
         /\ agent'[call[c].agent].session = call[c].at + SessionTtl
         /\ agent'[call[c].agent].max = call[c].at + MaxTtl
         /\ agent'[call[c].agent].absolute = AbsoluteStamp(c)
         /\ \A d \in Calls : d # c => call'[d] = call[d]
         /\ call'[c] = Idle
         /\ UNCHANGED <<hostStatus, now>>
<1> DEFINE s == call[c].at + SessionTtl
           m == call[c].at + MaxTtl
           t == AbsoluteStamp(c)
<1>1. /\ agent \in [Agents -> AgentRow] /\ call \in [Calls -> CallState]
      /\ call[c].pc = "stamp" /\ call[c].agent \in Agents
  BY DEF TypeInv, TypeOK, CallsHaveAgents, Stamp, At
<1>2. agent' = [agent EXCEPT ![call[c].agent] = [@ EXCEPT !.session = s, !.max = m, !.absolute = t]]
  BY DEF Stamp
<1>3. /\ \A b \in Agents : b # call[c].agent => agent'[b] = agent[b]
      /\ agent'[call[c].agent].status = agent[call[c].agent].status
      /\ agent'[call[c].agent].session = s
      /\ agent'[call[c].agent].max = m
      /\ agent'[call[c].agent].absolute = t
  <2> HIDE DEF s, m, t
  <2> QED
    BY <1>1, <1>2 DEF AgentRow
<1>4. (\A d \in Calls : d # c => call'[d] = call[d]) /\ call'[c] = Idle
  BY <1>1, FinishEffect DEF Stamp
<1> QED
  BY <1>1, <1>3, <1>4 DEF Stamp, At

\* rotateAgentKey writes nothing but the key.
LEMMA RotateKeyEffect ==
  ASSUME TypeInv, NEW c \in Calls, NEW k \in Keys, RotateKeyWrite(c, k)
  PROVE  /\ call[c].pc = "putKey" /\ call[c].op = "rotateKey"
         /\ \A b \in Agents : /\ agent'[b].status = agent[b].status
                              /\ agent'[b].host = agent[b].host
                              /\ agent'[b].session = agent[b].session
                              /\ agent'[b].max = agent[b].max
                              /\ agent'[b].absolute = agent[b].absolute
         /\ \A d \in Calls : d # c => call'[d] = call[d]
         /\ call'[c] = Idle
         /\ UNCHANGED <<hostStatus, now>>
<1>1. /\ agent \in [Agents -> AgentRow] /\ call \in [Calls -> CallState]
  BY DEF TypeInv, TypeOK
<1>2. agent' = [agent EXCEPT ![call[c].agent].key = k]
  BY DEF RotateKeyWrite
<1>3. \A b \in Agents : /\ agent'[b].status = agent[b].status
                        /\ agent'[b].host = agent[b].host
                        /\ agent'[b].session = agent[b].session
                        /\ agent'[b].max = agent[b].max
                        /\ agent'[b].absolute = agent[b].absolute
  BY <1>1, <1>2 DEF AgentRow
<1>4. (\A d \in Calls : d # c => call'[d] = call[d]) /\ call'[c] = Idle
  BY <1>1, FinishEffect DEF RotateKeyWrite
<1> QED
  BY <1>3, <1>4 DEF RotateKeyWrite, At

-----------------------------------------------------------------------------
(***************************************************************************)
(* The clocks of an active agent.  HasClock(a) is kept by every step but   *)
(* one: the only update that activates a row leaves its call in front of   *)
(* the clock and then of applyLifetimes, and besides a death only          *)
(* applyLifetimes takes the call away from there, having written a session *)
(* clock, which is never 0 because the time the call read is not.          *)
(***************************************************************************)
TimesRead == \A c \in Calls : call[c].pc = "stamp" => call[c].at # NoTime

LEMMA NextTimesRead == TypeInv /\ TimesRead /\ [Next]_vars => TimesRead'
<1> SUFFICES ASSUME TypeInv, TimesRead, [Next]_vars PROVE TimesRead'
  OBVIOUS
<1>c. call \in [Calls -> CallState] /\ now # NoTime
  BY DEF TypeInv, TypeOK, NoTime
<1>q. ASSUME NEW c \in Calls, call'[c].pc # "stamp",
             \A d \in Calls : d # c => call'[d] = call[d]
      PROVE  TimesRead'
  BY <1>q DEF TimesRead
<1>f. ASSUME NEW c \in Calls, Finish(c) PROVE TimesRead'
  BY <1>f, <1>q, <1>c, FinishEffect DEF Idle
<1>g. ASSUME NEW c \in Calls, NEW p, Goto(c, p), p # "stamp" PROVE TimesRead'
  BY <1>g, <1>q, <1>c, GotoEffect
<1>n. ASSUME NEW c \in Calls, NEW rest, NextTarget(c, rest) PROVE TimesRead'
  <2>1. /\ \A d \in Calls : d # c => call'[d] = call[d]
        /\ call'[c] = Idle \/ call'[c].pc = "txSelect"
    BY <1>n, <1>c, NextTargetEffect
  <2> QED
    BY <2>1, <1>q DEF Idle
<1>1. ASSUME NEW c \in Calls, NEW op \in AllOps, NEW h \in Hosts,
             NEW a \in Agents \cup {NoAgent}, Admit(c, op, h, a)
      PROVE  TimesRead'
  <2>1. call'[c].pc = "load" /\ \A d \in Calls : d # c => call'[d] = call[d]
    BY <1>1, <1>c, AdmitEffect
  <2> QED
    BY <2>1, <1>q
<1>2. ASSUME NEW c \in Calls, Step(c) PROVE TimesRead'
  <2>1. CASE \/ RegisterLoad(c) \/ RevokeLoad(c) \/ RotateKeyLoad(c) \/ RevokeHostLoad(c)
             \/ HostSelect(c) \/ HostUpdate(c) \/ TxSelect(c)
    BY <2>1, <1>f, <1>g DEF RegisterLoad, RevokeLoad, RotateKeyLoad, RevokeHostLoad,
                            HostSelect, HostUpdate, TxSelect
  <2>2. ASSUME NEW a \in Agents, NEW k \in Keys, RegisterCreate(c, a, k) PROVE TimesRead'
    BY <2>2, <1>c, <1>q, CreateEffect DEF TypeInv, TypeOK
  <2>3. CASE ReactivateLoad(c)
    BY <2>3, <1>c, <1>q, ReactivateLoadEffect DEF Idle
  <2>4. ASSUME NEW k \in Keys, RotateKeyWrite(c, k) PROVE TimesRead'
    BY <2>4, <1>f DEF RotateKeyWrite
  <2>5. CASE ListAgents(c)
    BY <2>5, <1>n DEF ListAgents
  <2>6. CASE TxUpdate(c)
    BY <2>6, <1>f, <1>g, <1>n DEF TxUpdate
  <2>7. CASE ReadClock(c)
    BY <2>7, <1>c, ReadClockEffect DEF TimesRead
  <2>8. CASE Stamp(c)
    BY <2>8, <1>f DEF Stamp
  <2> QED
    BY <1>2, <2>1, <2>2, <2>3, <2>4, <2>5, <2>6, <2>7, <2>8 DEF Step
<1>3. ASSUME NEW c \in Calls, Die(c) PROVE TimesRead'
  BY <1>3, <1>f DEF Die
<1>4. CASE UNCHANGED call
  BY <1>4 DEF TimesRead
<1> QED
  BY <1>1, <1>2, <1>3, <1>4 DEF Next, Tick, vars

\* A step that does not activate a, unsets no clock of it and takes no call
\* about to stamp it away keeps HasClock.
LEMMA QuietStepKeepsClock ==
  ASSUME NEW a \in Agents, HasClock(a),
         agent'[a].status = "active" /\ agent'[a].session = NoTime
           => agent[a].status = "active" /\ agent[a].session = NoTime,
         \A d \in Calls : Stamping(d) /\ call[d].agent = a
           => Stamping(d)' /\ call'[d].agent = a
  PROVE  HasClock(a)'
  BY DEF HasClock

LEMMA NextHasClock ==
  ASSUME TypeInv, TimesRead, [Next]_vars, NEW a \in Agents, HasClock(a),
         ~\E c \in Calls : call[c].agent = a /\ Stamping(c) /\ Die(c)
  PROVE  HasClock(a)'
<1>c. call \in [Calls -> CallState] /\ agent \in [Agents -> AgentRow] /\ now \in Nat \ {0}
  BY DEF TypeInv, TypeOK
<1>s. ASSUME NEW d \in Calls, Stamping(d), call'[d] = call[d]
      PROVE  Stamping(d)'
  BY <1>s DEF Stamping, At
<1>q. ASSUME NEW c \in Calls, agent' = agent, ~Stamping(c),
             \A d \in Calls : d # c => call'[d] = call[d]
      PROVE  HasClock(a)'
  <2>1. \A d \in Calls : Stamping(d) => call'[d] = call[d]
    BY <1>q
  <2> QED
    BY <1>q, <1>s, <2>1, QuietStepKeepsClock
<1>f. ASSUME NEW c \in Calls, agent' = agent, ~Stamping(c), Finish(c)
      PROVE  HasClock(a)'
  BY <1>f, <1>q, <1>c, FinishEffect
<1>g. ASSUME NEW c \in Calls, agent' = agent, ~Stamping(c), NEW p, Goto(c, p)
      PROVE  HasClock(a)'
  BY <1>g, <1>q, <1>c, GotoEffect
<1>p. ASSUME NEW c \in Calls, call[c].pc \notin {"clock", "stamp"} PROVE ~Stamping(c)
  BY <1>p DEF Stamping, At
<1>1. ASSUME NEW c \in Calls, NEW op \in AllOps, NEW h \in Hosts,
             NEW b \in Agents \cup {NoAgent}, Admit(c, op, h, b)
      PROVE  HasClock(a)'
  BY <1>1, <1>q, <1>c, <1>p, AdmitEffect
<1>2. ASSUME NEW c \in Calls, Step(c)
      PROVE  HasClock(a)'
  <2>1. CASE RegisterLoad(c)
    BY <2>1, <1>f, <1>g, <1>p DEF RegisterLoad, At
  <2>2. ASSUME NEW b \in Agents, NEW k \in Keys, RegisterCreate(c, b, k)
        PROVE  HasClock(a)'
    <3>1. /\ \A d \in Calls : d # c => call'[d] = call[d]
          /\ call[c].pc = "create" /\ agent'[b].status = "pending"
          /\ \A e \in Agents : e # b => agent'[e] = agent[e]
      BY <2>2, <1>c, CreateEffect
    <3>2. \A d \in Calls : Stamping(d) => call'[d] = call[d]
      BY <3>1, <1>p
    <3> QED
      BY <3>1, <3>2, <1>s, QuietStepKeepsClock
  <2>3. CASE RevokeLoad(c)
    BY <2>3, <1>f, <1>g, <1>p DEF RevokeLoad, At
  <2>4. CASE ReactivateLoad(c)
    BY <2>4, <1>c, <1>q, <1>p, ReactivateLoadEffect
  <2>5. CASE RotateKeyLoad(c)
    BY <2>5, <1>f, <1>g, <1>p DEF RotateKeyLoad, At
  <2>6. ASSUME NEW k \in Keys, RotateKeyWrite(c, k)
        PROVE  HasClock(a)'
    <3>1. /\ \A d \in Calls : d # c => call'[d] = call[d]
          /\ call[c].pc = "putKey"
          /\ agent'[a].status = agent[a].status /\ agent'[a].session = agent[a].session
      BY <2>6, RotateKeyEffect
    <3>2. \A d \in Calls : Stamping(d) => call'[d] = call[d]
      BY <3>1, <1>p
    <3> QED
      BY <3>1, <3>2, <1>s, QuietStepKeepsClock
  <2>7. CASE RevokeHostLoad(c)
    BY <2>7, <1>f, <1>g, <1>p DEF RevokeHostLoad, At
  <2>8. CASE HostSelect(c)
    BY <2>8, <1>f, <1>g, <1>p DEF HostSelect, At
  <2>9. CASE HostUpdate(c)
    BY <2>9, <1>g, <1>p DEF HostUpdate, At
  <2>10. CASE ListAgents(c)
    BY <2>10, <1>c, <1>q, <1>p, NextTargetEffect DEF ListAgents, At
  <2>11. CASE TxSelect(c)
    BY <2>11, <1>f, <1>g, <1>p DEF TxSelect, At
  <2>12. CASE TxUpdate(c)
    <3> DEFINE t == call[c].agent
    <3>1. /\ call[c].pc = "txUpdate" /\ call[c].op \in TransitionOps /\ t \in Agents
          /\ \A b \in Agents : b # t => agent'[b] = agent[b]
          /\ agent'[t].status = Target(call[c].op)
      BY <2>12, TxUpdateEffect
    <3>2. CASE NeedsStamp(call[c].op) /\ Goto(c, "clock")
      <4>1. /\ \A d \in Calls : d # c => call'[d] = call[d]
            /\ call'[c].agent = t /\ Stamping(c)'
        BY <3>2, <1>c, GotoEffect DEF NeedsStamp, At, Stamping
      <4>2. \A d \in Calls : Stamping(d) => call'[d] = call[d]
        BY <3>1, <4>1, <1>p
      <4>3. CASE a = t
        BY <4>1, <4>3 DEF HasClock
      <4>4. CASE a # t
        BY <3>1, <4>2, <4>4, <1>s, QuietStepKeepsClock
      <4> QED
        BY <4>3, <4>4
    <3>3. CASE ~NeedsStamp(call[c].op) /\ (NextTarget(c, call[c].todo) \/ Finish(c))
      <4>1. \A d \in Calls : d # c => call'[d] = call[d]
        BY <3>3, <1>c, NextTargetEffect, FinishEffect
      <4>2. agent'[t].status = "revoked"
        BY <3>1, <3>3 DEF Target, NeedsStamp
      <4>3. \A d \in Calls : Stamping(d) => call'[d] = call[d]
        BY <3>1, <4>1, <1>p
      <4> QED
        BY <3>1, <4>2, <4>3, <1>s, QuietStepKeepsClock
    <3> QED
      BY <2>12, <3>2, <3>3 DEF TxUpdate, NeedsStamp
  <2>13. CASE Stamp(c)
    <3> DEFINE t == call[c].agent
    <3>1. /\ t \in Agents /\ call[c].pc = "stamp"
          /\ \A b \in Agents : b # t => agent'[b] = agent[b]
          /\ agent'[t].session = call[c].at + SessionTtl
          /\ \A d \in Calls : d # c => call'[d] = call[d]
      BY <2>13, StampEffect
    <3>2. call[c].at \in Nat \ {0}
      BY <1>c, <3>1 DEF TimesRead, CallState, NoTime
    <3>3. agent'[t].session # NoTime
      BY <3>1, <3>2, TimeAssumption DEF NoTime
    <3>4. CASE a = t
      BY <3>3, <3>4 DEF HasClock
    <3>5. CASE a # t
      <4>1. \A d \in Calls : Stamping(d) /\ call[d].agent = a => call'[d] = call[d]
        BY <3>1, <3>5
      <4> QED
        BY <3>1, <3>5, <4>1, <1>s, QuietStepKeepsClock
    <3> QED
      BY <3>4, <3>5
  <2>14. CASE ReadClock(c)
    <3>1. /\ \A d \in Calls : d # c => call'[d] = call[d]
          /\ call'[c].agent = call[c].agent /\ agent' = agent
          /\ call'[c].pc = "stamp" /\ call'[c].op \in {"register", "reactivate"}
      BY <2>14, ReadClockEffect
    <3>2. Stamping(c)'
      BY <3>1 DEF Stamping, At
    <3>3. \A d \in Calls : Stamping(d) /\ call[d].agent = a => Stamping(d)' /\ call'[d].agent = a
      BY <3>1, <3>2, <1>s
    <3> QED
      BY <3>1, <3>3, QuietStepKeepsClock
  <2> QED
    BY <1>2, <2>1, <2>2, <2>3, <2>4, <2>5, <2>6, <2>7, <2>8, <2>9, <2>10, <2>11,
       <2>12, <2>13, <2>14 DEF Step
<1>3. ASSUME NEW c \in Calls, Die(c)
      PROVE  HasClock(a)'
  <2>1. agent' = agent /\ \A d \in Calls : d # c => call'[d] = call[d]
    BY <1>3, <1>c, FinishEffect DEF Die
  <2>2. \A d \in Calls : Stamping(d) /\ call[d].agent = a => call'[d] = call[d]
    BY <1>3, <2>1
  <2> QED
    BY <2>1, <2>2, <1>s, QuietStepKeepsClock
<1>4. CASE UNCHANGED <<agent, call>>
  BY <1>4, <1>s, QuietStepKeepsClock
<1> QED
  BY <1>1, <1>2, <1>3, <1>4 DEF Next, Tick, vars

\* An agent is left active without a session clock by nothing but the death of
\* its call between the transition and applyLifetimes, for every set of
\* operations and any number of concurrent calls.
THEOREM ActiveAgentsHaveClocks == Spec => ActiveHasClocks
<1>1. Init => TimesRead
  BY DEF Init, TimesRead, Idle
<1>2. Spec => [](TypeInv /\ TimesRead)
  BY <1>1, InitType, NextType, NextCallsHaveAgents, NextTimesRead, PTL DEF Spec, TypeInv
<1>3. TypeInv /\ TimesRead /\ [Next]_vars
      => [\A a \in Agents : HasClock(a) =>
            \/ HasClock(a)'
            \/ \E c \in Calls : call[c].agent = a /\ Stamping(c) /\ Die(c)]_vars
  BY NextHasClock
<1> QED
  BY <1>2, <1>3, PTL DEF Spec, ActiveHasClocks

-----------------------------------------------------------------------------
(***************************************************************************)
(* The absolute clock.  Besides the column there are the copies that       *)
(* reactivations carry from their read to applyLifetimes.  Two clocks      *)
(* agree when neither is unset and they are equal, or one is unset: all    *)
(* clocks of an agent agree, and as long as its registration is under way, *)
(* of which there is one, all are unset.                                   *)
(***************************************************************************)
Agree(s, t) == s = NoTime \/ t = NoTime \/ s = t

Registering(c) == call[c].op = "register" /\ call[c].pc \in {"txSelect", "txUpdate", "clock", "stamp"}

Restoring(c) == call[c].op = "reactivate" /\ call[c].pc \in {"txSelect", "txUpdate", "clock", "stamp"}

CallsFindRows ==
  \A c \in Calls : Registering(c) \/ Restoring(c) \/ At(c, "load", {"reactivate"})
    => Exists(call[c].agent)

RegisteringIsFirst ==
  \A c, d \in Calls : Registering(c) /\ call[d].agent = call[c].agent
    => /\ agent[call[c].agent].absolute = NoTime
       /\ Restoring(d) => call[d].absolute = NoTime
       /\ Registering(d) => d = c

CopiesAgree ==
  \A c, d \in Calls : Restoring(c) /\ call[d].agent = call[c].agent
    => /\ Agree(call[c].absolute, agent[call[c].agent].absolute)
       /\ Restoring(d) => Agree(call[c].absolute, call[d].absolute)

AbsoluteInv == CallsFindRows /\ RegisteringIsFirst /\ CopiesAgree

\* A step of c that writes no absolute clock and removes no row, and starts
\* neither a registration nor a reactivation.
LEMMA QuietStepKeepsAbsolute ==
  ASSUME AbsoluteInv, TypeInv, NEW c \in Calls,
         \A d \in Calls : d # c => call'[d] = call[d],
         \A b \in Agents : /\ agent'[b].absolute = agent[b].absolute
                           /\ Exists(b) => Exists(b)',
         \/ ~Registering(c)' /\ ~Restoring(c)' /\ ~At(c, "load", {"reactivate"})'
         \/ /\ Registering(c) \/ Restoring(c)
            /\ call'[c].pc \in {"txSelect", "txUpdate", "clock", "stamp"}
            /\ call'[c].op = call[c].op
            /\ call'[c].agent = call[c].agent /\ call'[c].absolute = call[c].absolute
  PROVE  AbsoluteInv'
<1>1. \A d \in Calls : Registering(d) \/ Restoring(d) \/ At(d, "load", {"reactivate"})
                         => call[d].agent \in Agents
  BY DEF TypeInv, CallsHaveAgents, Registering, Restoring, At
<1>2. \A d \in Calls : Registering(d)' \/ Restoring(d)' \/ At(d, "load", {"reactivate"})'
        => /\ call'[d].agent = call[d].agent /\ call'[d].absolute = call[d].absolute
           /\ Registering(d)' => Registering(d)
           /\ Restoring(d)' => Restoring(d)
           /\ At(d, "load", {"reactivate"})' => At(d, "load", {"reactivate"})
  BY DEF Registering, Restoring, At
<1>3. CallsFindRows'
  BY <1>1, <1>2 DEF AbsoluteInv, CallsFindRows
<1>4. RegisteringIsFirst'
  <2> SUFFICES ASSUME NEW d \in Calls, NEW e \in Calls, Registering(d)',
                      call'[e].agent = call'[d].agent
               PROVE  /\ agent'[call'[d].agent].absolute = NoTime
                      /\ Restoring(e)' => call'[e].absolute = NoTime
                      /\ Registering(e)' => e = d
    BY DEF RegisteringIsFirst
  <2>1. Registering(d) /\ call[d].agent \in Agents /\ call'[d].agent = call[d].agent
    BY <1>1, <1>2
  <2>2. agent[call[d].agent].absolute = NoTime
    BY <2>1 DEF AbsoluteInv, RegisteringIsFirst
  <2>3. Restoring(e)' => call'[e].absolute = NoTime
    BY <1>2, <2>1 DEF AbsoluteInv, RegisteringIsFirst
  <2>4. Registering(e)' => e = d
    BY <1>2, <2>1 DEF AbsoluteInv, RegisteringIsFirst
  <2> QED
    BY <2>1, <2>2, <2>3, <2>4
<1>5. CopiesAgree'
  <2> SUFFICES ASSUME NEW d \in Calls, NEW e \in Calls, Restoring(d)',
                      call'[e].agent = call'[d].agent
               PROVE  /\ Agree(call'[d].absolute, agent'[call'[d].agent].absolute)
                      /\ Restoring(e)' => Agree(call'[d].absolute, call'[e].absolute)
    BY DEF CopiesAgree, Agree
  <2>1. /\ Restoring(d) /\ call[d].agent \in Agents /\ call'[d].agent = call[d].agent
        /\ call'[d].absolute = call[d].absolute
    BY <1>1, <1>2
  <2>2. Agree(call[d].absolute, agent[call[d].agent].absolute)
    BY <2>1 DEF AbsoluteInv, CopiesAgree
  <2>3. Restoring(e)' => Agree(call'[d].absolute, call'[e].absolute)
    BY <1>2, <2>1 DEF AbsoluteInv, CopiesAgree
  <2> QED
    BY <2>1, <2>2, <2>3
<1> QED
  BY <1>3, <1>4, <1>5 DEF AbsoluteInv

\* registerAgent creates the row: no call can hold a transaction on it yet.
LEMMA CreateKeepsAbsolute ==
  ASSUME AbsoluteInv, TypeInv, NEW c \in Calls, NEW a \in Agents, NEW k \in Keys,
         RegisterCreate(c, a, k)
  PROVE  AbsoluteInv'
<1>1. /\ \A d \in Calls : d # c => call'[d] = call[d]
      /\ call'[c].pc = "txSelect" /\ call'[c].op = "register" /\ call'[c].agent = a
      /\ agent[a].status = "absent"
      /\ agent'[a].status = "pending" /\ agent'[a].absolute = NoTime
      /\ \A b \in Agents : b # a => agent'[b] = agent[b]
  BY CreateEffect DEF TypeInv, TypeOK
<1>2. \A d \in Calls : d # c /\ (Registering(d) \/ Restoring(d) \/ At(d, "load", {"reactivate"}))
                         => call[d].agent \in Agents /\ call[d].agent # a
  BY <1>1 DEF TypeInv, CallsHaveAgents, Registering, Restoring, At, AbsoluteInv, CallsFindRows, Exists
<1>3. CallsFindRows'
  BY <1>1, <1>2 DEF AbsoluteInv, CallsFindRows, Registering, Restoring, At, Exists
<1>4. RegisteringIsFirst'
  BY <1>1, <1>2 DEF AbsoluteInv, RegisteringIsFirst, Registering, Restoring
<1>5. CopiesAgree'
  BY <1>1, <1>2 DEF AbsoluteInv, CopiesAgree, Registering, Restoring, Agree
<1> QED
  BY <1>3, <1>4, <1>5 DEF AbsoluteInv

\* reactivateAgent copies the column.
LEMMA ReactivateLoadKeepsAbsolute ==
  ASSUME AbsoluteInv, TypeInv, NEW c \in Calls, ReactivateLoad(c)
  PROVE  AbsoluteInv'
<1> DEFINE t == call[c].agent
<1>1. /\ \A d \in Calls : d # c => call'[d] = call[d]
      /\ call[c].pc = "load" /\ call[c].op = "reactivate" /\ agent' = agent
  BY ReactivateLoadEffect DEF TypeInv, TypeOK
<1>2. CASE call'[c] = Idle
  BY <1>1, <1>2, QuietStepKeepsAbsolute DEF Idle, Registering, Restoring, At, Exists
<1>3. CASE /\ call'[c].pc = "txSelect" /\ call'[c].op = "reactivate" /\ call'[c].agent = t
           /\ call'[c].absolute = agent[t].absolute
  <2>1. CallsFindRows'
    BY <1>1, <1>3 DEF AbsoluteInv, CallsFindRows, Registering, Restoring, At, Exists
  <2>2. RegisteringIsFirst'
    BY <1>1, <1>3 DEF AbsoluteInv, RegisteringIsFirst, Registering, Restoring
  <2>3. CopiesAgree'
    <3> SUFFICES ASSUME NEW d \in Calls, NEW e \in Calls, Restoring(d)',
                        call'[e].agent = call'[d].agent
                 PROVE  /\ Agree(call'[d].absolute, agent[call'[d].agent].absolute)
                        /\ Restoring(e)' => Agree(call'[d].absolute, call'[e].absolute)
      BY <1>1 DEF CopiesAgree, Agree
    <3>1. \A x \in Calls : x # c /\ Restoring(x)'
            => Restoring(x) /\ Agree(call'[x].absolute, agent[call'[x].agent].absolute)
      BY <1>1 DEF Restoring, AbsoluteInv, CopiesAgree
    <3>2. Agree(call'[c].absolute, agent[call'[c].agent].absolute)
      BY <1>3 DEF Agree
    <3>3. CASE d # c /\ e # c
      BY <1>1, <3>1, <3>3 DEF Restoring, AbsoluteInv, CopiesAgree
    <3>4. CASE d = c \/ e = c
      BY <1>3, <3>1, <3>2, <3>4 DEF Agree
    <3> QED
      BY <3>3, <3>4
  <2> QED
    BY <2>1, <2>2, <2>3 DEF AbsoluteInv
<1> QED
  BY <1>2, <1>3, ReactivateLoadEffect DEF TypeInv, TypeOK

\* What applyLifetimes writes agrees with the column and every copy.
LEMMA StampAgrees ==
  ASSUME AbsoluteInv, TypeInv, NEW c \in Calls, Stamp(c)
  PROVE  /\ agent[call[c].agent].absolute # NoTime
              => AbsoluteStamp(c) \in {agent[call[c].agent].absolute, NoTime}
         /\ \A d \in Calls : d # c /\ call[d].agent = call[c].agent
              => /\ Restoring(d) => Agree(call[d].absolute, AbsoluteStamp(c))
                 /\ Registering(d) => AbsoluteStamp(c) = NoTime
<1>1. call[c].pc = "stamp" /\ call[c].op \in {"register", "reactivate"}
  BY StampEffect
<1>2. CASE call[c].op = "register"
  BY <1>1, <1>2 DEF Registering, AbsoluteInv, RegisteringIsFirst, Agree
<1>3. CASE call[c].op = "reactivate"
  <2>1. AbsoluteStamp(c) = call[c].absolute /\ Restoring(c)
    BY <1>1, <1>3 DEF AbsoluteStamp, Restoring
  <2> QED
    BY <2>1 DEF AbsoluteInv, RegisteringIsFirst, CopiesAgree, Agree
<1> QED
  BY <1>1, <1>2, <1>3

LEMMA StampKeepsAbsolute ==
  ASSUME AbsoluteInv, TypeInv, NEW c \in Calls, Stamp(c)
  PROVE  AbsoluteInv'
<1> DEFINE t == call[c].agent
           v == AbsoluteStamp(c)
<1>1. /\ \A b \in Agents : b # t => agent'[b] = agent[b]
      /\ agent'[t].status = agent[t].status
      /\ agent'[t].absolute = v
      /\ \A d \in Calls : d # c => call'[d] = call[d]
      /\ call'[c].pc = "idle" /\ t \in Agents
  BY StampEffect DEF Idle
<1>2. \A d \in Calls : d # c /\ call[d].agent = t
              => /\ Restoring(d) => Agree(call[d].absolute, v)
                 /\ Registering(d) => v = NoTime
  BY StampAgrees
<1> HIDE DEF v, t
<1>3. \A d \in Calls : Registering(d)' \/ Restoring(d)' \/ At(d, "load", {"reactivate"})'
        => /\ d # c /\ call'[d] = call[d] /\ call[d].agent \in Agents
           /\ Registering(d)' => Registering(d)
           /\ Restoring(d)' => Restoring(d)
           /\ At(d, "load", {"reactivate"})' => At(d, "load", {"reactivate"})
  BY <1>1 DEF Registering, Restoring, At, TypeInv, CallsHaveAgents
<1>4. CallsFindRows'
  BY <1>1, <1>3 DEF AbsoluteInv, CallsFindRows, Exists
<1>5. RegisteringIsFirst'
  <2> SUFFICES ASSUME NEW d \in Calls, NEW e \in Calls, Registering(d)',
                      call'[e].agent = call'[d].agent
               PROVE  /\ agent'[call'[d].agent].absolute = NoTime
                      /\ Restoring(e)' => call'[e].absolute = NoTime
                      /\ Registering(e)' => e = d
    BY DEF RegisteringIsFirst
  <2>1. d # c /\ Registering(d) /\ call'[d] = call[d] /\ call[d].agent \in Agents
    BY <1>3
  <2>2. agent[call[d].agent].absolute = NoTime
    BY <2>1 DEF AbsoluteInv, RegisteringIsFirst
  <2>3. agent'[call[d].agent].absolute = NoTime
    BY <1>1, <1>2, <2>1, <2>2
  <2>4. Restoring(e)' => call'[e].absolute = NoTime
    BY <1>3, <2>1 DEF AbsoluteInv, RegisteringIsFirst
  <2>5. Registering(e)' => e = d
    BY <1>3, <2>1 DEF AbsoluteInv, RegisteringIsFirst
  <2> QED
    BY <2>1, <2>3, <2>4, <2>5
<1>6. CopiesAgree'
  <2> SUFFICES ASSUME NEW d \in Calls, NEW e \in Calls, Restoring(d)',
                      call'[e].agent = call'[d].agent
               PROVE  /\ Agree(call'[d].absolute, agent'[call'[d].agent].absolute)
                      /\ Restoring(e)' => Agree(call'[d].absolute, call'[e].absolute)
    BY DEF CopiesAgree, Agree
  <2>1. d # c /\ Restoring(d) /\ call'[d] = call[d] /\ call[d].agent \in Agents
    BY <1>3
  <2>2. Agree(call[d].absolute, agent'[call[d].agent].absolute)
    <3>1. CASE call[d].agent = t
      BY <1>1, <1>2, <2>1, <3>1
    <3>2. CASE call[d].agent # t
      BY <1>1, <2>1, <3>2 DEF AbsoluteInv, CopiesAgree
    <3> QED
      BY <3>1, <3>2
  <2>3. Restoring(e)' => Agree(call'[d].absolute, call'[e].absolute)
    BY <1>3, <2>1 DEF AbsoluteInv, CopiesAgree
  <2> QED
    BY <2>1, <2>2, <2>3
<1> QED
  BY <1>4, <1>5, <1>6 DEF AbsoluteInv

LEMMA NextAbsolute == TypeInv /\ AbsoluteInv /\ [Next]_vars => AbsoluteInv'
<1> SUFFICES ASSUME TypeInv, AbsoluteInv, [Next]_vars PROVE AbsoluteInv'
  OBVIOUS
<1>c. call \in [Calls -> CallState] /\ agent \in [Agents -> AgentRow]
  BY DEF TypeInv, TypeOK
<1>f. ASSUME NEW c \in Calls, agent' = agent, Finish(c)
      PROVE  AbsoluteInv'
  BY <1>f, <1>c, FinishEffect, QuietStepKeepsAbsolute
     DEF Idle, Registering, Restoring, At, Exists
<1>g. ASSUME NEW c \in Calls, agent' = agent, NEW p, Goto(c, p), p # "load",
             p \in {"txSelect", "txUpdate", "clock", "stamp"} /\ call[c].op \in {"register", "reactivate"}
               => call[c].pc \in {"txSelect", "txUpdate", "clock", "stamp"}
      PROVE  AbsoluteInv'
  BY <1>g, <1>c, GotoEffect, QuietStepKeepsAbsolute DEF Registering, Restoring, At, Exists
<1>1. ASSUME NEW c \in Calls, NEW op \in AllOps, NEW h \in Hosts,
             NEW a \in Agents \cup {NoAgent}, Admit(c, op, h, a)
      PROVE  AbsoluteInv'
  <2>1. /\ \A d \in Calls : d # c => call'[d] = call[d]
        /\ call'[c].pc = "load" /\ call'[c].op = op /\ call'[c].agent = a
        /\ agent' = agent
    BY <1>1, <1>c, AdmitEffect
  <2>2. op = "reactivate" => Exists(a)
    BY <1>1 DEF Admit
  <2>3. CallsFindRows'
    BY <2>1, <2>2 DEF AbsoluteInv, CallsFindRows, Registering, Restoring, At, Exists
  <2>4. RegisteringIsFirst'
    BY <2>1 DEF AbsoluteInv, RegisteringIsFirst, Registering, Restoring
  <2>5. CopiesAgree'
    BY <2>1 DEF AbsoluteInv, CopiesAgree, Restoring
  <2> QED
    BY <2>3, <2>4, <2>5 DEF AbsoluteInv
<1>2. ASSUME NEW c \in Calls, Step(c)
      PROVE  AbsoluteInv'
  <2>1. CASE RegisterLoad(c)
    BY <2>1, <1>f, <1>g DEF RegisterLoad
  <2>2. ASSUME NEW a \in Agents, NEW k \in Keys, RegisterCreate(c, a, k)
        PROVE  AbsoluteInv'
    BY <2>2, CreateKeepsAbsolute
  <2>3. CASE RevokeLoad(c)
    BY <2>3, <1>f, <1>g DEF RevokeLoad, At
  <2>4. CASE ReactivateLoad(c)
    BY <2>4, ReactivateLoadKeepsAbsolute
  <2>5. CASE RotateKeyLoad(c)
    BY <2>5, <1>f, <1>g DEF RotateKeyLoad
  <2>6. ASSUME NEW k \in Keys, RotateKeyWrite(c, k)
        PROVE  AbsoluteInv'
    BY <2>6, RotateKeyEffect, QuietStepKeepsAbsolute DEF Idle, Registering, Restoring, At, Exists
  <2>7. CASE RevokeHostLoad(c)
    BY <2>7, <1>f, <1>g DEF RevokeHostLoad
  <2>8. CASE HostSelect(c)
    BY <2>8, <1>f, <1>g DEF HostSelect
  <2>9. CASE HostUpdate(c)
    BY <2>9, <1>g DEF HostUpdate
  <2>10. CASE ListAgents(c)
    <3>1. /\ \A d \in Calls : d # c => call'[d] = call[d]
          /\ call'[c] = Idle \/ call'[c].op = "revokeHost"
      BY <2>10, <1>c, NextTargetEffect DEF ListAgents, At
    <3> QED
      BY <2>10, <3>1, QuietStepKeepsAbsolute
         DEF ListAgents, Idle, Registering, Restoring, At, Exists
  <2>11. CASE TxSelect(c)
    BY <2>11, <1>f, <1>g DEF TxSelect, At
  <2>12. CASE TxUpdate(c)
    <3> DEFINE t == call[c].agent
    <3>1. /\ call[c].pc = "txUpdate" /\ t \in Agents
          /\ \A b \in Agents : b # t => agent'[b] = agent[b]
          /\ agent'[t].status = Target(call[c].op)
          /\ agent'[t].absolute = agent[t].absolute
      BY <2>12, TxUpdateEffect
    <3>2. \A b \in Agents : /\ agent'[b].absolute = agent[b].absolute
                            /\ Exists(b) => Exists(b)'
      BY <3>1 DEF Target, Exists
    <3>3. CASE NeedsStamp(call[c].op) /\ Goto(c, "clock")
      BY <1>c, <3>1, <3>2, <3>3, GotoEffect, QuietStepKeepsAbsolute
         DEF NeedsStamp, Registering, Restoring
    <3>4. CASE call[c].op = "revokeHost" /\ NextTarget(c, call[c].todo)
      <4>1. /\ \A d \in Calls : d # c => call'[d] = call[d]
            /\ call'[c] = Idle \/ call'[c].op = "revokeHost"
        BY <1>c, <3>4, NextTargetEffect
      <4> QED
        BY <3>2, <4>1, QuietStepKeepsAbsolute DEF Idle, Registering, Restoring, At
    <3>5. CASE Finish(c)
      BY <1>c, <3>2, <3>5, FinishEffect, QuietStepKeepsAbsolute
         DEF Idle, Registering, Restoring, At
    <3> QED
      BY <2>12, <3>3, <3>4, <3>5 DEF TxUpdate
  <2>13. CASE Stamp(c)
    BY <2>13, StampKeepsAbsolute
  <2>14. CASE ReadClock(c)
    BY <2>14, ReadClockEffect, QuietStepKeepsAbsolute DEF Registering, Restoring, At, Exists
  <2> QED
    BY <1>2, <2>1, <2>2, <2>3, <2>4, <2>5, <2>6, <2>7, <2>8, <2>9, <2>10, <2>11,
       <2>12, <2>13, <2>14 DEF Step
<1>3. ASSUME NEW c \in Calls, Die(c)
      PROVE  AbsoluteInv'
  BY <1>3, <1>f DEF Die
<1>4. CASE UNCHANGED <<agent, call>>
  BY <1>4 DEF AbsoluteInv, CallsFindRows, RegisteringIsFirst, CopiesAgree, Registering,
              Restoring, At, Exists
<1> QED
  BY <1>1, <1>2, <1>3, <1>4 DEF Next, Tick, vars

\* The only writes of an absolute clock are those of applyLifetimes.
LEMMA AbsoluteSteps ==
  ASSUME TypeInv, AbsoluteInv, [Next]_vars, NEW a \in Agents, agent[a].absolute # NoTime,
         agent[a].status # "absent"
  PROVE  agent'[a].absolute \in {agent[a].absolute, NoTime}
<1>c. call \in [Calls -> CallState] /\ agent \in [Agents -> AgentRow]
  BY DEF TypeInv, TypeOK
<1>1. ASSUME NEW c \in Calls, NEW b \in Agents, NEW k \in Keys, RegisterCreate(c, b, k)
      PROVE  agent'[a].absolute = agent[a].absolute
  BY <1>1, <1>c, CreateEffect
<1>2. ASSUME NEW c \in Calls, NEW k \in Keys, RotateKeyWrite(c, k)
      PROVE  agent'[a].absolute = agent[a].absolute
  BY <1>2, RotateKeyEffect
<1>3. ASSUME NEW c \in Calls, TxUpdate(c)
      PROVE  agent'[a].absolute = agent[a].absolute
  BY <1>3, TxUpdateEffect
<1>4. ASSUME NEW c \in Calls, Stamp(c)
      PROVE  agent'[a].absolute \in {agent[a].absolute, NoTime}
  BY <1>4, StampEffect, StampAgrees
<1> QED
  BY <1>1, <1>2, <1>3, <1>4
     DEF Next, Step, Admit, RegisterLoad, RevokeLoad, ReactivateLoad, RotateKeyLoad,
         RevokeHostLoad, HostSelect, HostUpdate, ListAgents, TxSelect, ReadClock, Die, Tick,
         vars

\* An agent without a row has no clock.
AbsentHasNoClock == \A a \in Agents : agent[a].status = "absent" => agent[a].absolute = NoTime

LEMMA NextAbsentHasNoClock ==
  TypeInv /\ AbsentHasNoClock /\ CallsFindRows /\ [Next]_vars => AbsentHasNoClock'
<1> SUFFICES ASSUME TypeInv, AbsentHasNoClock, CallsFindRows, [Next]_vars,
                    NEW a \in Agents, agent'[a].status = "absent"
             PROVE  agent'[a].absolute = NoTime
  BY DEF AbsentHasNoClock
<1>c. call \in [Calls -> CallState] /\ agent \in [Agents -> AgentRow]
  BY DEF TypeInv, TypeOK
<1>0. agent[a].status = "absent" => agent[a].absolute = NoTime
  BY DEF AbsentHasNoClock
<1>1. ASSUME NEW c \in Calls, NEW b \in Agents, NEW k \in Keys, RegisterCreate(c, b, k)
      PROVE  agent'[a].absolute = NoTime
  BY <1>0, <1>1, <1>c, CreateEffect
<1>2. ASSUME NEW c \in Calls, NEW k \in Keys, RotateKeyWrite(c, k)
      PROVE  agent'[a].absolute = NoTime
  BY <1>0, <1>2, RotateKeyEffect
<1>3. ASSUME NEW c \in Calls, TxUpdate(c)
      PROVE  agent'[a].absolute = NoTime
  BY <1>0, <1>3, TxUpdateEffect DEF Target
<1>4. ASSUME NEW c \in Calls, Stamp(c)
      PROVE  agent'[a].absolute = NoTime
  <2>1. Exists(call[c].agent)
    BY <1>4, StampEffect DEF CallsFindRows, Registering, Restoring
  <2> QED
    BY <1>0, <1>4, <2>1, StampEffect DEF Exists
<1> QED
  BY <1>0, <1>1, <1>2, <1>3, <1>4
     DEF Next, Step, Admit, RegisterLoad, RevokeLoad, ReactivateLoad, RotateKeyLoad,
         RevokeHostLoad, HostSelect, HostUpdate, ListAgents, TxSelect, ReadClock, Die, Tick,
         vars

\* However registrations, reactivations, revocations and deaths of calls
\* interleave, an absolute clock is never moved to another time: the copy that
\* reactivateAgent writes back is never newer than what it replaces.
THEOREM AbsoluteClockIsFixed == Spec => AbsoluteNeverExtended
<1>1. Init => AbsoluteInv /\ AbsentHasNoClock
  BY DEF Init, AbsoluteInv, CallsFindRows, RegisteringIsFirst, CopiesAgree, Registering,
         Restoring, At, Idle, AbsentHasNoClock, AbsentRow, RegisteredRow
<1>2. Spec => [](TypeInv /\ AbsoluteInv /\ AbsentHasNoClock)
  <2>1. AbsoluteInv => CallsFindRows
    BY DEF AbsoluteInv
  <2> QED
    BY <1>1, <2>1, InitType, NextType, NextCallsHaveAgents, NextAbsolute, NextAbsentHasNoClock,
       PTL DEF Spec, TypeInv
<1>3. TypeInv /\ AbsoluteInv /\ AbsentHasNoClock /\ [Next]_vars
      => [\A a \in Agents : agent[a].absolute # NoTime
                              => agent'[a].absolute \in {agent[a].absolute, NoTime}]_vars
  BY AbsoluteSteps DEF AbsentHasNoClock
<1> QED
  BY <1>2, <1>3, PTL DEF Spec, AbsoluteNeverExtended

-----------------------------------------------------------------------------
(* An agent that ran out of its session *)

\* A step that leaves the clocks alone, allows no status but the two that lead
\* nowhere and starts no activation of a keeps a out of its session.
LEMMA OutOfSessionKept ==
  ASSUME TypeInv, NEW a \in Agents, OutOfSession(a), NEW c \in Calls,
         \A d \in Calls : d # c => call'[d] = call[d],
         ~Cleared(c, a)',
         agent'[a].session = agent[a].session,
         agent'[a].status \in {"active", "revoked"},
         now' = now
  PROVE  OutOfSession(a)'
<1>1. \A d \in Calls : ~Cleared(d, a)'
  BY DEF OutOfSession, Cleared, Stamping, At
<1> QED
  BY <1>1 DEF OutOfSession, Lapsed

\* A call that ends, or stays in front of the transition, activates nobody.
LEMMA NotActivating ==
  ASSUME NEW c \in Calls, NEW a \in Agents,
         call'[c] = Idle \/ call'[c].pc \notin {"txUpdate", "clock", "stamp"}
  PROVE  ~Cleared(c, a)'
  BY DEF Cleared, Stamping, At, Idle

LEMMA LapsedSteps ==
  ASSUME TypeInv, [Next]_vars, NEW a \in Agents, OutOfSession(a)
  PROVE  OutOfSession(a)'
<1>c. /\ call \in [Calls -> CallState] /\ agent \in [Agents -> AgentRow] /\ now \in Nat
      /\ agent[a] \in AgentRow
  BY DEF TypeInv, TypeOK
<1>o. /\ agent[a].status \in {"active", "revoked"}
      /\ \A c \in Calls : ~Cleared(c, a)
  BY DEF OutOfSession
<1>f. ASSUME NEW c \in Calls, Finish(c), UNCHANGED <<agent, now>>
      PROVE  OutOfSession(a)'
  BY <1>c, <1>o, <1>f, FinishEffect, NotActivating, OutOfSessionKept
<1>1. ASSUME NEW c \in Calls, NEW op, NEW h, NEW b, Admit(c, op, h, b)
      PROVE  OutOfSession(a)'
  BY <1>c, <1>o, <1>1, AdmitEffect, NotActivating, OutOfSessionKept
<1>2. ASSUME NEW c \in Calls, Step(c)
      PROVE  OutOfSession(a)'
  <2>g. ASSUME NEW p, Goto(c, p), p \notin {"txUpdate", "clock", "stamp"}, UNCHANGED <<agent, now>>
        PROVE  OutOfSession(a)'
    BY <1>c, <1>o, <2>g, GotoEffect, NotActivating, OutOfSessionKept
  <2>1. CASE \/ RegisterLoad(c) \/ RevokeLoad(c) \/ RotateKeyLoad(c) \/ RevokeHostLoad(c)
             \/ HostSelect(c) \/ HostUpdate(c)
    BY <1>f, <2>1, <2>g
       DEF RegisterLoad, RevokeLoad, RotateKeyLoad, RevokeHostLoad, HostSelect, HostUpdate
  <2>2. ASSUME NEW b \in Agents, NEW k \in Keys, RegisterCreate(c, b, k)
        PROVE  OutOfSession(a)'
    <3>1. b # a
      BY <1>c, <1>o, <2>2, CreateEffect
    <3> QED
      BY <1>c, <1>o, <2>2, <3>1, CreateEffect, NotActivating, OutOfSessionKept
  <2>3. CASE ReactivateLoad(c)
    BY <1>c, <1>o, <2>3, ReactivateLoadEffect, NotActivating, OutOfSessionKept
  <2>4. ASSUME NEW k \in Keys, RotateKeyWrite(c, k)
        PROVE  OutOfSession(a)'
    BY <1>c, <1>o, <2>4, RotateKeyEffect, NotActivating, OutOfSessionKept
  <2>5. CASE ListAgents(c)
    BY <1>c, <1>o, <2>5, NextTargetEffect, NotActivating, OutOfSessionKept DEF ListAgents
  <2>6. CASE TxSelect(c)
    <3>1. CASE Finish(c)
      BY <1>f, <2>6, <3>1 DEF TxSelect
    <3>2. CASE /\ canTransitionAgent(agent[call[c].agent].status, Target(call[c].op))
               /\ Goto(c, "txUpdate")
      <4>1. ~Cleared(c, a)'
        <5>1. canTransitionAgent(agent[a].status, "active") = FALSE
          BY <1>o DEF canTransitionAgent, AGENT_TRANSITIONS, AgentState
        <5>2. call'[c].agent = call[c].agent /\ call'[c].op = call[c].op
          BY <1>c, <3>2, GotoEffect
        <5> QED
          BY <3>2, <5>1, <5>2 DEF Cleared, Stamping, At, Target
      <4> QED
        BY <1>c, <1>o, <2>6, <3>2, <4>1, GotoEffect, OutOfSessionKept DEF TxSelect
    <3> QED
      BY <2>6, <3>1, <3>2 DEF TxSelect
  <2>7. CASE TxUpdate(c)
    <3>1. /\ agent'[a].session = agent[a].session
          /\ agent'[a].status \in {"active", "revoked"}
          /\ now' = now /\ call[c].pc = "txUpdate"
      BY <1>o, <2>7, TxUpdateEffect DEF Target
    <3>2. CASE NeedsStamp(call[c].op) /\ Goto(c, "clock")
      <4>1. call[c].agent # a
        BY <1>o, <3>1, <3>2 DEF Cleared, At, NeedsStamp
      <4>2. ~Cleared(c, a)'
        BY <1>c, <3>2, <4>1, GotoEffect DEF Cleared
      <4> QED
        BY <1>c, <3>1, <3>2, <4>2, GotoEffect, OutOfSessionKept
    <3>3. CASE NextTarget(c, call[c].todo)
      BY <1>c, <3>1, <3>3, NextTargetEffect, NotActivating, OutOfSessionKept
    <3>4. CASE Finish(c)
      BY <1>c, <3>1, <3>4, FinishEffect, NotActivating, OutOfSessionKept
    <3> QED
      BY <2>7, <3>2, <3>3, <3>4 DEF TxUpdate
  <2>8. CASE Stamp(c)
    <3>1. call[c].agent # a
      BY <1>o, <2>8, StampEffect DEF Cleared, Stamping, At
    <3> QED
      BY <1>o, <2>8, <3>1, StampEffect, NotActivating, OutOfSessionKept
  <2>9. CASE ReadClock(c)
    <3>1. call[c].agent # a
      BY <1>o, <2>9 DEF ReadClock, Cleared, Stamping, At
    <3>2. ~Cleared(c, a)'
      BY <2>9, <3>1, ReadClockEffect DEF Cleared
    <3> QED
      BY <1>o, <2>9, <3>2, ReadClockEffect, OutOfSessionKept DEF ReadClock
  <2> QED
    BY <1>2, <2>1, <2>2, <2>3, <2>4, <2>5, <2>6, <2>7, <2>8, <2>9 DEF Step
<1>3. ASSUME NEW c \in Calls, Die(c)
      PROVE  OutOfSession(a)'
  BY <1>3, <1>f DEF Die
<1>4. CASE UNCHANGED <<agent, call>> /\ (now' = now \/ now' = now + 1)
  BY <1>4, <1>c DEF OutOfSession, Lapsed, Cleared, Stamping, At, AgentRow
<1> QED
  BY <1>1, <1>2, <1>3, <1>4 DEF Next, Tick, vars

\* For any number of calls in any order, an agent whose session ran out with no
\* activation under way never gets a new clock: reactivateAgent, the one call
\* made for it, asks for a transition the table does not have.
THEOREM LapsedAgentsStayLapsed == Spec => LapsedStaysLapsed
<1>1. Spec => []TypeInv
  BY InitType, NextType, NextCallsHaveAgents, PTL DEF Spec, TypeInv
<1>2. TypeInv /\ [Next]_vars => [\A a \in Agents : OutOfSession(a) => OutOfSession(a)']_vars
  BY LapsedSteps
<1> QED
  BY <1>1, <1>2, PTL DEF Spec, LapsedStaysLapsed

-----------------------------------------------------------------------------
(***************************************************************************)
(* The cascade of revokeHost.  Several revocations of one host may race,   *)
(* and a cascade whose transition finds an agent already revoked gives up  *)
(* its remaining agents.  That is harmless, because all cascades go        *)
(* through the agents in the same order: at any time one of them stands    *)
(* before the listing or at the first agent that is left.                  *)
(***************************************************************************)
Cascading(c) == At(c, "txSelect", {"revokeHost"}) \/ At(c, "txUpdate", {"revokeHost"})

Pending(c) == {call[c].agent} \cup call[c].todo

\* A cascade lists agents of its host, in order, all that are left among them,
\* and none that was revoked before one that is left.
CascadeIsComplete ==
  \A c \in Calls : Cascading(c) => CascadeTargets(call[c].host) \subseteq Pending(c)

CascadeIsOrdered ==
  \A c \in Calls : Cascading(c) => \A y \in call[c].todo : call[c].agent < y

CascadeOwnsAgents ==
  \A c \in Calls : Cascading(c) => \A y \in Pending(c) : agent[y].host = call[c].host

CascadeIsCurrent ==
  \A c \in Calls : Cascading(c) =>
    \A y \in Pending(c), b \in CascadeTargets(call[c].host) :
      b <= y => y \in CascadeTargets(call[c].host)

Leads(c, h) ==
  /\ call[c].host = h
  /\ \/ At(c, "list", {"revokeHost"})
     \/ Cascading(c) /\ call[c].agent \in CascadeTargets(h)

SomeCascadeLeads ==
  \A h \in Hosts : hostStatus[h] = "revoked" /\ CascadeTargets(h) # {}
    => \E c \in Calls : Leads(c, h)

CascadeInv ==
  /\ OpsAdmitted
  /\ CascadeIsComplete
  /\ CascadeIsOrdered
  /\ CascadeOwnsAgents
  /\ CascadeIsCurrent
  /\ SomeCascadeLeads

LEMMA RowsGiveTargets ==
  ASSUME \A b \in Agents : agent'[b].status = agent[b].status /\ agent'[b].host = agent[b].host,
         NEW h
  PROVE  CascadeTargets(h)' = CascadeTargets(h)
  BY DEF CascadeTargets

\* A step of c that changes no status and neither starts, ends nor moves a
\* cascade.
LEMMA QuietStepKeepsCascade ==
  ASSUME TypeInv, CascadeInv, NEW c \in Calls,
         \A d \in Calls : d # c => call'[d] = call[d],
         \A b \in Agents : agent'[b].status = agent[b].status /\ agent'[b].host = agent[b].host,
         hostStatus' = hostStatus,
         call'[c].pc # "idle" => call'[c].op \in Ops,
         \/ ~Cascading(c)' /\ \A h \in Hosts : ~Leads(c, h)
         \/ /\ Cascading(c) /\ Cascading(c)'
            /\ call'[c].agent = call[c].agent /\ call'[c].todo = call[c].todo
            /\ call'[c].host = call[c].host
  PROVE  CascadeInv'
<1>t. \A h : CascadeTargets(h)' = CascadeTargets(h)
  BY RowsGiveTargets
<1>1. OpsAdmitted'
  BY DEF CascadeInv, OpsAdmitted
<1>2. \A d \in Calls : Cascading(d)'
        => /\ Cascading(d) /\ call'[d].agent = call[d].agent /\ call'[d].todo = call[d].todo
           /\ call'[d].host = call[d].host
  BY DEF Cascading, At
<1>3. \A d \in Calls : Cascading(d) => Pending(d) \subseteq Agents
  BY DEF TypeInv, TypeOK, CallsHaveAgents, Cascading, At, Pending, CallState
<1>4. CascadeIsComplete'
  <2> SUFFICES ASSUME NEW d \in Calls, Cascading(d)'
               PROVE  CascadeTargets(call'[d].host) \subseteq Pending(d)'
    BY <1>t DEF CascadeIsComplete
  <2> QED
    BY <1>t, <1>2 DEF CascadeInv, CascadeIsComplete, Pending
<1>5. CascadeIsOrdered'
  BY <1>2 DEF CascadeInv, CascadeIsOrdered
<1>6. CascadeOwnsAgents'
  BY <1>2, <1>3 DEF CascadeInv, CascadeOwnsAgents, Pending
<1>7. CascadeIsCurrent'
  <2> SUFFICES ASSUME NEW d \in Calls, Cascading(d)', NEW y \in Pending(d)',
                      NEW b \in CascadeTargets(call'[d].host), b <= y
               PROVE  y \in CascadeTargets(call'[d].host)
    BY <1>t DEF CascadeIsCurrent
  <2>1. Cascading(d) /\ y \in Pending(d) /\ b \in CascadeTargets(call[d].host)
    BY <1>2 DEF Pending
  <2> QED
    BY <1>2, <2>1 DEF CascadeInv, CascadeIsCurrent
<1>8. SomeCascadeLeads'
  <2> SUFFICES ASSUME NEW h \in Hosts, hostStatus[h] = "revoked", CascadeTargets(h) # {}
               PROVE  \E d \in Calls : Leads(d, h)'
    BY <1>t DEF SomeCascadeLeads
  <2>1. PICK d \in Calls : Leads(d, h)
    BY DEF CascadeInv, SomeCascadeLeads
  <2>2. Leads(d, h)'
    <3>1. CASE d # c
      BY <1>t, <2>1, <3>1 DEF Leads, Cascading, At
    <3>2. CASE d = c
      <4>1. /\ Cascading(c) /\ Cascading(c)' /\ call'[c].agent = call[c].agent
            /\ call'[c].host = call[c].host
        BY <2>1, <3>2
      <4>2. call[c].agent \in CascadeTargets(h) /\ call[c].host = h
        BY <2>1, <3>2, <4>1 DEF Leads, Cascading, At
      <4> QED
        BY <1>t, <3>2, <4>1, <4>2 DEF Leads
    <3> QED
      BY <3>1, <3>2
  <2> QED
    BY <2>2
<1> QED
  BY <1>1, <1>4, <1>5, <1>6, <1>7, <1>8 DEF CascadeInv

\* The listing, or the return from one transition to the loop: the call takes
\* up the rest of the agents that are left, or there are none.
LEMMA ListKeepsCascade ==
  ASSUME TypeInv, CascadeInv, NEW c \in Calls, ListAgents(c)
  PROVE  CascadeInv'
<1> DEFINE g == call[c].host
           T == CascadeTargets(g)
<1>1. /\ call \in [Calls -> CallState] /\ call[c].pc = "list" /\ call[c].op = "revokeHost"
      /\ agent' = agent /\ hostStatus' = hostStatus /\ T \in SUBSET Agents
  BY DEF TypeInv, TypeOK, ListAgents, At, CascadeTargets
<1>2. /\ \A d \in Calls : d # c => call'[d] = call[d]
      /\ \/ T = {} /\ call'[c] = Idle
         \/ /\ call'[c].agent \in T
            /\ \A b \in T : call'[c].agent <= b
            /\ call'[c].pc = "txSelect" /\ call'[c].todo = T \ {call'[c].agent}
            /\ call'[c].op = "revokeHost" /\ call'[c].host = g
  <2>1. NextTarget(c, T)
    BY DEF ListAgents
  <2> QED
    BY <1>1, <2>1, NextTargetEffect
<1>t. \A h : CascadeTargets(h)' = CascadeTargets(h)
  BY <1>1, RowsGiveTargets
<1>h. T = {a \in Agents : agent[a].host = g /\ agent[a].status \in {"active", "expired"}}
  BY DEF CascadeTargets
<1>3. OpsAdmitted'
  BY <1>1, <1>2 DEF CascadeInv, OpsAdmitted, Idle
<1>4. \A d \in Calls : d # c =>
        /\ Cascading(d)' => Cascading(d)
        /\ Pending(d)' = Pending(d)
        /\ \A h \in Hosts : Leads(d, h) => Leads(d, h)'
  BY <1>2, <1>t DEF Cascading, At, Pending, Leads
<1>5. Cascading(c)' => Pending(c)' = T /\ call'[c].host = g
  BY <1>2 DEF Cascading, At, Pending, Idle
<1>6. CascadeIsComplete'
  <2> SUFFICES ASSUME NEW d \in Calls, Cascading(d)'
               PROVE  CascadeTargets(call'[d].host) \subseteq Pending(d)'
    BY <1>t DEF CascadeIsComplete
  <2>1. CASE d = c
    BY <1>5, <2>1
  <2>2. CASE d # c
    BY <1>2, <1>4, <2>2 DEF CascadeInv, CascadeIsComplete
  <2> QED
    BY <2>1, <2>2
<1>7. CascadeIsOrdered'
  <2> SUFFICES ASSUME NEW d \in Calls, Cascading(d)', NEW y \in call'[d].todo
               PROVE  call'[d].agent < y
    BY DEF CascadeIsOrdered
  <2>1. CASE d = c
    <3>1. /\ call'[c].agent \in T /\ y \in T /\ call'[c].agent <= y /\ y # call'[c].agent
      BY <1>2, <2>1 DEF Cascading, At, Idle
    <3>2. call'[c].agent \in Nat /\ y \in Nat
      <4> HIDE DEF T
      <4> QED
        BY <1>1, <3>1, IdAssumption
    <3> QED
      BY <2>1, <3>1, <3>2
  <2>2. CASE d # c
    BY <1>2, <1>4, <2>2 DEF CascadeInv, CascadeIsOrdered
  <2> QED
    BY <2>1, <2>2
<1>8. CascadeOwnsAgents'
  <2> SUFFICES ASSUME NEW d \in Calls, Cascading(d)', NEW y \in Pending(d)'
               PROVE  agent[y].host = call'[d].host
    BY <1>1 DEF CascadeOwnsAgents
  <2>1. CASE d = c
    BY <1>5, <1>h, <2>1
  <2>2. CASE d # c
    BY <1>2, <1>4, <2>2 DEF CascadeInv, CascadeOwnsAgents
  <2> QED
    BY <2>1, <2>2
<1>9. CascadeIsCurrent'
  <2> SUFFICES ASSUME NEW d \in Calls, Cascading(d)', NEW y \in Pending(d)',
                      NEW b \in CascadeTargets(call'[d].host), b <= y
               PROVE  y \in CascadeTargets(call'[d].host)
    BY <1>t DEF CascadeIsCurrent
  <2>1. CASE d = c
    BY <1>5, <2>1
  <2>2. CASE d # c
    BY <1>2, <1>4, <2>2 DEF CascadeInv, CascadeIsCurrent
  <2> QED
    BY <2>1, <2>2
<1>10. SomeCascadeLeads'
  <2> SUFFICES ASSUME NEW h \in Hosts, hostStatus[h] = "revoked", CascadeTargets(h) # {}
               PROVE  \E d \in Calls : Leads(d, h)'
    BY <1>1, <1>t DEF SomeCascadeLeads
  <2>1. CASE h = g
    <3>1. call'[c].agent \in T /\ Cascading(c)' /\ call'[c].host = h
      BY <1>2, <2>1 DEF Cascading, At
    <3> QED
      BY <1>t, <2>1, <3>1 DEF Leads
  <2>2. CASE h # g
    <3>1. PICK d \in Calls : Leads(d, h)
      BY DEF CascadeInv, SomeCascadeLeads
    <3>2. d # c
      BY <2>2, <3>1 DEF Leads
    <3> QED
      BY <1>4, <3>1, <3>2
  <2> QED
    BY <2>1, <2>2
<1> QED
  BY <1>3, <1>6, <1>7, <1>8, <1>9, <1>10 DEF CascadeInv

\* The revocation of one agent by a cascade: the agent is the first that is
\* left, or another cascade has revoked it, so no cascade loses its order; and
\* a cascade that led goes on to the next agent that is left.
LEMMA UpdateKeepsCascade ==
  ASSUME TypeInv, CascadeInv, NEW c \in Calls, TxUpdate(c), call[c].op = "revokeHost"
  PROVE  CascadeInv'
<1> DEFINE g == call[c].host
           x == call[c].agent
           todo == call[c].todo
<1>1. /\ call \in [Calls -> CallState] /\ call[c].pc = "txUpdate" /\ x \in Agents
      /\ \A b \in Agents : b # x => agent'[b] = agent[b]
      /\ agent'[x].status = "revoked" /\ agent'[x].host = agent[x].host
      /\ hostStatus' = hostStatus
  BY TxUpdateEffect DEF TypeInv, TypeOK, Target
<1>2. todo \in SUBSET Agents
  BY <1>1 DEF CallState
<1>3. /\ \A d \in Calls : d # c => call'[d] = call[d]
      /\ \/ todo = {} /\ call'[c] = Idle
         \/ /\ call'[c].agent \in todo
            /\ \A b \in todo : call'[c].agent <= b
            /\ call'[c].pc = "txSelect" /\ call'[c].todo = todo \ {call'[c].agent}
            /\ call'[c].op = "revokeHost" /\ call'[c].host = g
  <2>1. NextTarget(c, todo)
    BY DEF TxUpdate, NeedsStamp
  <2> QED
    BY <1>1, <2>1, NextTargetEffect
<1>t. \A h : CascadeTargets(h)' = CascadeTargets(h) \ {x}
  BY <1>1 DEF CascadeTargets
<1>n. \A h : CascadeTargets(h) \subseteq Nat
  BY IdAssumption DEF CascadeTargets
<1>o. \A d \in Calls : Cascading(d) => Pending(d) \subseteq Nat /\ Pending(d) \subseteq Agents
  BY IdAssumption DEF TypeInv, TypeOK, CallsHaveAgents, Cascading, At, Pending, CallState
<1>4. Cascading(c) /\ Pending(c) = {x} \cup todo
  BY <1>1 DEF Cascading, At, Pending
<1>5. \A b \in CascadeTargets(g) : b = x \/ x < b
  <2>1. CascadeTargets(g) \subseteq {x} \cup todo
    BY <1>4 DEF CascadeInv, CascadeIsComplete
  <2>2. \A y \in todo : x < y
    BY <1>4 DEF CascadeInv, CascadeIsOrdered
  <2> QED
    BY <2>1, <2>2
<1>6. agent[x].host = g
  BY <1>4 DEF CascadeInv, CascadeOwnsAgents
<1>7. \A h : h # g => x \notin CascadeTargets(h)
  BY <1>6 DEF CascadeTargets
<1>8. \A d \in Calls : d # c =>
        (Cascading(d)' => Cascading(d)) /\ Pending(d)' = Pending(d)
  BY <1>3 DEF Cascading, At, Pending
<1>9. Cascading(c)' => Pending(c)' = todo /\ call'[c].host = g
  BY <1>3 DEF Cascading, At, Pending, Idle
<1>10. OpsAdmitted'
  BY <1>1, <1>3 DEF CascadeInv, OpsAdmitted, Idle
<1>11. CascadeIsComplete'
  <2> SUFFICES ASSUME NEW d \in Calls, Cascading(d)'
               PROVE  CascadeTargets(call'[d].host) \ {x} \subseteq Pending(d)'
    BY <1>t DEF CascadeIsComplete
  <2>1. CASE d = c
    BY <1>4, <1>9, <2>1 DEF CascadeInv, CascadeIsComplete
  <2>2. CASE d # c
    BY <1>3, <1>8, <2>2 DEF CascadeInv, CascadeIsComplete
  <2> QED
    BY <2>1, <2>2
<1>12. CascadeIsOrdered'
  <2> SUFFICES ASSUME NEW d \in Calls, Cascading(d)', NEW y \in call'[d].todo
               PROVE  call'[d].agent < y
    BY DEF CascadeIsOrdered
  <2>1. CASE d = c
    <3>1. /\ call'[c].agent \in todo /\ y \in todo /\ call'[c].agent <= y /\ y # call'[c].agent
      BY <1>3, <2>1 DEF Cascading, At, Idle
    <3>2. call'[c].agent \in Nat /\ y \in Nat
      BY <1>4, <1>o, <3>1
    <3> QED
      BY <2>1, <3>1, <3>2
  <2>2. CASE d # c
    BY <1>3, <1>8, <2>2 DEF CascadeInv, CascadeIsOrdered
  <2> QED
    BY <2>1, <2>2
<1>13. CascadeOwnsAgents'
  <2> SUFFICES ASSUME NEW d \in Calls, Cascading(d)', NEW y \in Pending(d)'
               PROVE  agent'[y].host = call'[d].host
    BY DEF CascadeOwnsAgents
  <2>1. /\ y \in Agents /\ agent[y].host = call'[d].host
    <3>1. CASE d = c
      BY <1>4, <1>9, <1>o, <3>1 DEF CascadeInv, CascadeOwnsAgents
    <3>2. CASE d # c
      BY <1>3, <1>8, <1>o, <3>2 DEF CascadeInv, CascadeOwnsAgents
    <3> QED
      BY <3>1, <3>2
  <2> QED
    BY <1>1, <2>1
<1>14. CascadeIsCurrent'
  <2> SUFFICES ASSUME NEW d \in Calls, Cascading(d)', NEW y \in Pending(d)',
                      NEW b \in CascadeTargets(call'[d].host) \ {x}, b <= y
               PROVE  y \in CascadeTargets(call'[d].host) \ {x}
    BY <1>t DEF CascadeIsCurrent
  <2>1. y \in CascadeTargets(call'[d].host) /\ y \in Nat /\ b \in Nat
    <3>1. CASE d = c
      BY <1>4, <1>9, <1>o, <1>n, <3>1 DEF CascadeInv, CascadeIsCurrent
    <3>2. CASE d # c
      BY <1>3, <1>8, <1>o, <1>n, <3>2 DEF CascadeInv, CascadeIsCurrent
    <3> QED
      BY <3>1, <3>2
  <2>2. y # x
    <3> SUFFICES ASSUME y = x PROVE FALSE
      OBVIOUS
    <3>1. call'[d].host = g
      BY <1>7, <2>1
    <3>2. x < b
      BY <1>5, <3>1
    <3> QED
      BY <2>1, <3>2
  <2> QED
    BY <2>1, <2>2
<1>15. SomeCascadeLeads'
  <2> SUFFICES ASSUME NEW h \in Hosts, hostStatus[h] = "revoked",
                      NEW z \in CascadeTargets(h) \ {x}
               PROVE  \E d \in Calls : Leads(d, h)'
    BY <1>1, <1>t DEF SomeCascadeLeads
  <2>1. CASE x \in CascadeTargets(h)
    <3>1. h = g
      BY <1>7, <2>1
    <3>2. z \in todo
      BY <1>4, <3>1 DEF CascadeInv, CascadeIsComplete
    <3>3. call'[c].agent \in todo /\ Cascading(c)' /\ call'[c].host = g
      BY <1>3, <3>2 DEF Cascading, At
    <3>4. x < call'[c].agent
      BY <1>4, <3>3 DEF CascadeInv, CascadeIsOrdered
    <3>5. x \in Nat /\ call'[c].agent \in Nat
      BY <1>4, <1>o, <3>3
    <3>6. x <= call'[c].agent /\ call'[c].agent # x
      BY <3>4, <3>5
    <3>7. call'[c].agent \in CascadeTargets(g)
      BY <1>4, <2>1, <3>1, <3>3, <3>6 DEF CascadeInv, CascadeIsCurrent
    <3> QED
      BY <1>t, <3>1, <3>3, <3>6, <3>7 DEF Leads
  <2>2. CASE x \notin CascadeTargets(h)
    <3>1. PICK d \in Calls : Leads(d, h)
      BY DEF CascadeInv, SomeCascadeLeads
    <3>2. d # c
      BY <1>1, <2>2, <3>1 DEF Leads, At
    <3>3. CascadeTargets(h)' = CascadeTargets(h)
      BY <1>t, <2>2
    <3>4. Leads(d, h)'
      BY <1>3, <3>1, <3>2, <3>3 DEF Leads, Cascading, At
    <3> QED
      BY <3>4
  <2> QED
    BY <2>1, <2>2
<1> QED
  BY <1>10, <1>11, <1>12, <1>13, <1>14, <1>15 DEF CascadeInv

\* The revocation of the host itself: the call that wrote it leads.
LEMMA HostUpdateKeepsCascade ==
  ASSUME TypeInv, CascadeInv, NEW c \in Calls, HostUpdate(c)
  PROVE  CascadeInv'
<1>1. /\ \A d \in Calls : d # c => call'[d] = call[d]
      /\ call[c].pc = "hostUpdate" /\ call[c].op = "revokeHost"
      /\ call'[c].pc = "list" /\ call'[c].op = "revokeHost" /\ call'[c].host = call[c].host
      /\ agent' = agent
      /\ hostStatus' = [hostStatus EXCEPT ![call[c].host] = "revoked"]
  BY GotoEffect DEF HostUpdate, At, TypeInv, TypeOK
<1>t. \A h : CascadeTargets(h)' = CascadeTargets(h)
  BY <1>1, RowsGiveTargets
<1>2. \A d \in Calls :
        /\ Cascading(d)' => d # c /\ Cascading(d)
        /\ d # c => Pending(d)' = Pending(d)
        /\ \A h \in Hosts : Leads(d, h) => Leads(d, h)'
  BY <1>1, <1>t DEF Cascading, At, Pending, Leads
<1>3. OpsAdmitted'
  BY <1>1 DEF CascadeInv, OpsAdmitted
<1>4. CascadeIsComplete'
  <2> SUFFICES ASSUME NEW d \in Calls, Cascading(d)'
               PROVE  CascadeTargets(call'[d].host) \subseteq Pending(d)'
    BY <1>t DEF CascadeIsComplete
  <2> QED
    BY <1>1, <1>2 DEF CascadeInv, CascadeIsComplete
<1>5. CascadeIsOrdered' /\ CascadeOwnsAgents'
  BY <1>1, <1>2 DEF CascadeInv, CascadeIsOrdered, CascadeOwnsAgents
<1>6. CascadeIsCurrent'
  <2> SUFFICES ASSUME NEW d \in Calls, Cascading(d)', NEW y \in Pending(d)',
                      NEW b \in CascadeTargets(call'[d].host), b <= y
               PROVE  y \in CascadeTargets(call'[d].host)
    BY <1>t DEF CascadeIsCurrent
  <2> QED
    BY <1>1, <1>2 DEF CascadeInv, CascadeIsCurrent
<1>7. SomeCascadeLeads'
  <2> SUFFICES ASSUME NEW h \in Hosts, hostStatus'[h] = "revoked", CascadeTargets(h) # {}
               PROVE  \E d \in Calls : Leads(d, h)'
    BY <1>t DEF SomeCascadeLeads
  <2>1. CASE h = call[c].host
    BY <1>1, <2>1 DEF Leads, At
  <2>2. CASE h # call[c].host
    <3>1. hostStatus[h] = "revoked"
      BY <1>1, <2>2 DEF TypeInv, TypeOK
    <3> QED
      BY <1>2, <3>1 DEF CascadeInv, SomeCascadeLeads
  <2> QED
    BY <2>1, <2>2
<1> QED
  BY <1>3, <1>4, <1>5, <1>6, <1>7 DEF CascadeInv

LEMMA NextCascade ==
  ASSUME Faults = FALSE, Ops \subseteq {"rotateKey", "revokeHost"}
  PROVE  TypeInv /\ CascadeInv /\ [Next]_vars => CascadeInv'
<1> SUFFICES ASSUME TypeInv, CascadeInv, [Next]_vars PROVE CascadeInv'
  OBVIOUS
<1>c. call \in [Calls -> CallState] /\ agent \in [Agents -> AgentRow]
  BY DEF TypeInv, TypeOK
<1>o. \A c \in Calls : call[c].pc # "idle" => call[c].op \in {"rotateKey", "revokeHost"}
  BY DEF CascadeInv, OpsAdmitted
<1>f. ASSUME NEW c \in Calls, agent' = agent, hostStatus' = hostStatus, Finish(c),
             \A h \in Hosts : ~Leads(c, h)
      PROVE  CascadeInv'
  BY <1>f, <1>c, FinishEffect, QuietStepKeepsCascade DEF Idle, Cascading, At
<1>g. ASSUME NEW c \in Calls, agent' = agent, hostStatus' = hostStatus, NEW p, Goto(c, p),
             call[c].pc \notin {"idle", "list", "txSelect", "txUpdate"},
             p \notin {"txSelect", "txUpdate"}
      PROVE  CascadeInv'
  <2>1. call[c].op \in Ops
    BY <1>g DEF CascadeInv, OpsAdmitted
  <2> QED
    BY <1>g, <1>c, <2>1, GotoEffect, QuietStepKeepsCascade DEF Cascading, Leads, At
<1>1. ASSUME NEW c \in Calls, NEW op \in AllOps, NEW h \in Hosts,
             NEW a \in Agents \cup {NoAgent}, Admit(c, op, h, a)
      PROVE  CascadeInv'
  BY <1>1, <1>c, AdmitEffect, QuietStepKeepsCascade DEF Cascading, Leads, At
<1>2. ASSUME NEW c \in Calls, Step(c)
      PROVE  CascadeInv'
  <2>1. CASE RotateKeyLoad(c)
    BY <2>1, <1>f, <1>g DEF RotateKeyLoad, Leads, Cascading, At
  <2>2. ASSUME NEW k \in Keys, RotateKeyWrite(c, k)
        PROVE  CascadeInv'
    BY <2>2, RotateKeyEffect, QuietStepKeepsCascade DEF Idle, Cascading, Leads, At
  <2>3. CASE RevokeHostLoad(c)
    BY <2>3, <1>f, <1>g DEF RevokeHostLoad, Leads, Cascading, At
  <2>4. CASE HostSelect(c)
    BY <2>4, <1>f, <1>g DEF HostSelect, Leads, Cascading, At
  <2>5. CASE HostUpdate(c)
    BY <2>5, HostUpdateKeepsCascade
  <2>6. CASE ListAgents(c)
    BY <2>6, ListKeepsCascade
  <2>7. CASE TxSelect(c)
    <3>1. /\ call[c].pc = "txSelect" /\ call[c].op = "revokeHost" /\ call[c].op \in Ops
          /\ call[c].agent \in Agents
          /\ agent' = agent /\ hostStatus' = hostStatus
      BY <2>7, <1>o
         DEF TxSelect, At, TransitionOps, CascadeInv, OpsAdmitted, TypeInv, CallsHaveAgents
    <3>2. CASE Goto(c, "txUpdate")
      BY <1>c, <3>1, <3>2, GotoEffect, QuietStepKeepsCascade DEF Cascading, At
    <3>3. CASE /\ Finish(c)
               /\ ~(/\ Exists(call[c].agent)
                    /\ canTransitionAgent(agent[call[c].agent].status, Target(call[c].op)))
      <4>1. agent[call[c].agent].status \notin {"active", "expired"}
        BY <3>1, <3>3 DEF Exists, Target, canTransitionAgent, AGENT_TRANSITIONS, AgentState
      <4>2. \A h \in Hosts : ~Leads(c, h)
        BY <3>1, <4>1 DEF Leads, At, CascadeTargets
      <4> QED
        BY <1>f, <3>1, <3>3, <4>2
    <3> QED
      BY <2>7, <3>2, <3>3 DEF TxSelect
  <2>8. CASE TxUpdate(c)
    <3>1. call[c].op = "revokeHost"
      BY <2>8, <1>o DEF TxUpdate, At, TransitionOps
    <3> QED
      BY <2>8, <3>1, UpdateKeepsCascade
  <2> QED
    BY <1>2, <1>o, <2>1, <2>2, <2>3, <2>4, <2>5, <2>6, <2>7, <2>8
       DEF Step, RegisterLoad, RegisterCreate, RevokeLoad, ReactivateLoad, ReadClock, Stamp, At
<1>3. ASSUME NEW c \in Calls, Die(c)
      PROVE  CascadeInv'
  BY <1>3 DEF Die
<1>4. CASE UNCHANGED <<hostStatus, agent, call>>
  BY <1>4 DEF CascadeInv, OpsAdmitted, CascadeIsComplete, CascadeIsOrdered, CascadeOwnsAgents,
              CascadeIsCurrent, SomeCascadeLeads, Leads, Cascading, Pending, At, CascadeTargets
<1> QED
  BY <1>1, <1>2, <1>3, <1>4 DEF Next, Tick, vars

\* Where the calls on a host's agents are revocations of the host and key
\* rotations, and none dies, a revoked host without a running call has no usable
\* agent: whatever the number of agents, of hosts and of revocations racing each
\* other, a cascade that gives up leaves another one at the first agent left.
THEOREM CascadeIsExhaustive ==
  ASSUME Faults = FALSE, Ops \subseteq {"rotateKey", "revokeHost"}
  PROVE  Spec => []CascadeReachesAll
<1>1. Init => CascadeInv
  BY DEF Init, CascadeInv, OpsAdmitted, CascadeIsComplete, CascadeIsOrdered, CascadeOwnsAgents,
         CascadeIsCurrent, SomeCascadeLeads, Cascading, At, Idle
<1>2. Spec => [](TypeInv /\ CascadeInv)
  BY <1>1, InitType, NextType, NextCallsHaveAgents, NextCascade, PTL DEF Spec, TypeInv
<1>3. CascadeInv => CascadeReachesAll
  <2> SUFFICES ASSUME CascadeInv, NEW h \in Hosts, hostStatus[h] = "revoked", ~Busy(h),
                      NEW a \in Agents, agent[a].host = h
               PROVE  agent[a].status \notin {"active", "expired"}
    BY DEF CascadeReachesAll
  <2>1. \A c \in Calls : ~Leads(c, h)
    BY DEF Busy, Leads, Cascading, At
  <2>2. CascadeTargets(h) = {}
    BY <2>1 DEF CascadeInv, SomeCascadeLeads
  <2> QED
    BY <2>2 DEF CascadeTargets
<1> QED
  BY <1>2, <1>3, PTL
=============================================================================
