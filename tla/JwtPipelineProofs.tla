------------------------- MODULE JwtPipelineProofs --------------------------
(***************************************************************************)
(* Revocation and the agent pipeline, for all sets of hosts, agents, calls *)
(* and requests.  The facts about the lifecycle come from LifecycleProofs; *)
(* what is added is that a row never changes its host, so that what was    *)
(* revoked when a request arrived is what the request finds revoked.       *)
(***************************************************************************)
EXTENDS JwtPipeline, LifecycleProofs

\* A running call has a host, and so has every row it creates.
CallsHaveHosts == \A c \in Calls : call[c].pc # "idle" => call[c].host \in Hosts

\* A transaction that is about to update has seen its row.
UpdatesHaveRows == \A c \in Calls : call[c].pc = "txUpdate" => Exists(call[c].agent)

RowsHaveHosts == \A a \in Agents : Exists(a) => agent[a].host \in Hosts

LEMMA NextTargetHost ==
  ASSUME TypeInv, NEW c \in Calls, NEW rest, NextTarget(c, rest)
  PROVE  /\ \A d \in Calls : d # c => call'[d] = call[d]
         /\ call'[c] = Idle \/ (call'[c].host = call[c].host /\ call'[c].pc = "txSelect")
  <1>1. call \in [Calls -> CallState]
    BY DEF TypeInv, TypeOK
  <1>2. CASE Finish(c)
    BY <1>1, <1>2 DEF Finish
  <1>3. ASSUME NEW a \in rest,
               call' = [call EXCEPT ![c] = [@ EXCEPT !.pc = "txSelect", !.agent = a,
                                                     !.todo = rest \ {a}]]
        PROVE  /\ \A d \in Calls : d # c => call'[d] = call[d]
               /\ call'[c].host = call[c].host /\ call'[c].pc = "txSelect"
    BY <1>1, <1>3 DEF CallState
  <1>4. QED
    BY <1>2, <1>3 DEF NextTarget

\* A step of a running call ends it or keeps its host, and only a SELECT that
\* found the row brings it to the UPDATE.
LEMMA StepHost ==
  ASSUME TypeInv, NEW c \in Calls, Step(c)
  PROVE  /\ call[c].pc # "idle"
         /\ \A d \in Calls : d # c => call'[d] = call[d]
         /\ call'[c] = Idle \/ call'[c].host = call[c].host
         /\ call'[c].pc = "txUpdate" => Exists(call[c].agent) /\ call'[c].agent = call[c].agent
  <1>t. call \in [Calls -> CallState] /\ Idle.pc = "idle"
    BY DEF TypeInv, TypeOK, Idle
  <1> DEFINE Kept == /\ call[c].pc # "idle"
                     /\ \A d \in Calls : d # c => call'[d] = call[d]
                     /\ call'[c] = Idle \/ call'[c].host = call[c].host
                     /\ call'[c].pc = "txUpdate"
                          => Exists(call[c].agent) /\ call'[c].agent = call[c].agent
  <1>1. RegisterLoad(c) \/ RevokeLoad(c) \/ RotateKeyLoad(c) \/ RevokeHostLoad(c)
          \/ HostSelect(c) \/ HostUpdate(c) \/ TxSelect(c) => Kept
    BY <1>t DEF RegisterLoad, RevokeLoad, RotateKeyLoad, RevokeHostLoad, HostSelect,
                HostUpdate, TxSelect, At, Goto, Finish, CallState
  <1>2. ASSUME NEW a \in Agents, NEW k \in Keys, RegisterCreate(c, a, k) PROVE Kept
    BY <1>t, <1>2 DEF RegisterCreate, At, CallState
  <1>3. ReactivateLoad(c) => Kept
    <2>1. CASE At(c, "load", {"reactivate"}) /\ Finish(c)
      BY <1>t, <2>1 DEF At, Finish
    <2>2. ASSUME NEW x, At(c, "load", {"reactivate"}),
                 call' = [call EXCEPT ![c] = [@ EXCEPT !.pc = "txSelect", !.absolute = x]]
          PROVE  Kept
      BY <1>t, <2>2 DEF At, CallState
    <2>3. QED
      BY <2>1, <2>2 DEF ReactivateLoad
  <1>4. ASSUME NEW k \in Keys, RotateKeyWrite(c, k) PROVE Kept
    BY <1>t, <1>4 DEF RotateKeyWrite, At, Finish
  <1>5. ListAgents(c) => Kept
    BY <1>t, NextTargetHost DEF ListAgents, At
  <1>6. TxUpdate(c) => Kept
    <2>1. CASE At(c, "txUpdate", TransitionOps) /\ Goto(c, "clock")
      BY <1>t, <2>1 DEF At, Goto, CallState
    <2>2. CASE At(c, "txUpdate", TransitionOps) /\ NextTarget(c, call[c].todo)
      BY <1>t, <2>2, NextTargetHost DEF At
    <2>3. CASE At(c, "txUpdate", TransitionOps) /\ Finish(c)
      BY <1>t, <2>3 DEF At, Finish
    <2>4. QED
      BY <2>1, <2>2, <2>3 DEF TxUpdate
  <1>7. Stamp(c) \/ ReadClock(c) => Kept
    BY <1>t DEF Stamp, ReadClock, At, Finish, CallState
  <1> HIDE DEF Kept
  <1>8. Kept
    BY <1>1, <1>2, <1>3, <1>4, <1>5, <1>6, <1>7 DEF Step
  <1>9. QED
    BY <1>8 DEF Kept

LEMMA NextCallsHaveHosts ==
  TypeInv /\ CallsHaveHosts /\ [Next]_vars => CallsHaveHosts'
  <1> SUFFICES ASSUME TypeInv, CallsHaveHosts, [Next]_vars PROVE CallsHaveHosts'
    OBVIOUS
  <1>t. call \in [Calls -> CallState] /\ Idle.pc = "idle" /\ Idle \in CallState
    BY IdleType DEF TypeInv, TypeOK, Idle
  <1>1. ASSUME NEW c \in Calls, NEW op \in AllOps, NEW h \in Hosts,
               NEW a \in Agents \cup {NoAgent}, Admit(c, op, h, a)
        PROVE  CallsHaveHosts'
    <2>1. /\ \A d \in Calls : d # c => call'[d] = call[d]
          /\ call'[c].host = h
      BY <1>1, <1>t DEF Admit, CallState
    <2>2. QED
      BY <2>1 DEF CallsHaveHosts
  <1>2. ASSUME NEW c \in Calls, Step(c) PROVE CallsHaveHosts'
    BY <1>2, <1>t, StepHost DEF CallsHaveHosts
  <1>3. ASSUME NEW c \in Calls, Die(c) PROVE CallsHaveHosts'
    BY <1>3, <1>t DEF Die, Finish, CallsHaveHosts
  <1>4. CASE Tick \/ UNCHANGED vars
    BY <1>4 DEF Tick, vars, CallsHaveHosts
  <1>5. QED
    BY <1>1, <1>2, <1>3, <1>4 DEF Next

\* What no step of the lifecycle undoes: a row stays, keeps its host, and a
\* revoked host stays revoked.
LEMMA RowsStay ==
  ASSUME TypeInv, CallsHaveHosts, UpdatesHaveRows, [Next]_vars
  PROVE  /\ \A a \in Agents : Exists(a) => Exists(a)' /\ agent'[a].host = agent[a].host
         /\ \A a \in Agents : Exists(a)' => Exists(a) \/ agent'[a].host \in Hosts
         /\ \A h \in Hosts : hostStatus[h] = "revoked" => hostStatus'[h] = "revoked"
  <1>t. /\ call \in [Calls -> CallState]
        /\ agent \in [Agents -> AgentRow]
        /\ hostStatus \in [Hosts -> HostState]
        /\ Keys # {}
    BY IdAssumption DEF TypeInv, TypeOK
  <1> DEFINE Stays ==
         /\ \A a \in Agents : Exists(a) => Exists(a)' /\ agent'[a].host = agent[a].host
         /\ \A a \in Agents : Exists(a)' => Exists(a) \/ agent'[a].host \in Hosts
         /\ \A h \in Hosts : hostStatus[h] = "revoked" => hostStatus'[h] = "revoked"
  <1>0. UNCHANGED <<agent, hostStatus>> => Stays
    BY DEF Exists
  <1>1. ASSUME NEW c \in Calls, HostUpdate(c) PROVE Stays
    <2>1. call[c].host \in Hosts
      BY <1>1 DEF HostUpdate, At, CallsHaveHosts
    <2>2. QED
      BY <1>1, <1>t, <2>1 DEF HostUpdate, Exists
  <1>2. ASSUME NEW c \in Calls, NEW a \in Agents, NEW k \in Keys, RegisterCreate(c, a, k)
        PROVE  Stays
    <2>1. call[c].host \in Hosts
      BY <1>2 DEF RegisterCreate, At, CallsHaveHosts
    <2>2. /\ ~Exists(a) /\ UNCHANGED hostStatus
          /\ agent'[a].host = call[c].host /\ agent'[a].status = "pending"
          /\ \A b \in Agents : b # a => agent'[b] = agent[b]
      BY <1>2, <1>t DEF RegisterCreate, AbsentRow, AgentRow
    <2>3. QED
      BY <2>1, <2>2 DEF Exists
  <1>3. ASSUME NEW c \in Calls, NEW k \in Keys, RotateKeyWrite(c, k) PROVE Stays
    BY <1>3, <1>t DEF RotateKeyWrite, Exists, AgentRow
  <1>4. ASSUME NEW c \in Calls, TxUpdate(c) PROVE Stays
    <2>1. agent' = [agent EXCEPT ![call[c].agent].status = Target(call[c].op)]
          /\ UNCHANGED hostStatus /\ At(c, "txUpdate", TransitionOps)
      BY <1>4 DEF TxUpdate
    <2>2. Target(call[c].op) \in {"active", "revoked"}
      BY DEF Target
    <2>3. \A a \in Agents : /\ agent'[a].host = agent[a].host
                            /\ \/ agent'[a].status = agent[a].status
                               \/ agent'[a].status = Target(call[c].op) /\ a = call[c].agent
      BY <2>1, <1>t DEF AgentRow
    <2>4. ASSUME NEW a \in Agents, Exists(a)' PROVE Exists(a) \/ agent'[a].host \in Hosts
      <3>1. CASE agent'[a].status = agent[a].status
        BY <2>4, <3>1 DEF Exists
      <3>2. CASE a = call[c].agent
        BY <2>1, <3>2 DEF At, UpdatesHaveRows
      <3>3. QED
        BY <2>3, <3>1, <3>2
    <2>5. QED
      BY <2>1, <2>2, <2>3, <2>4 DEF Exists
  <1>5. ASSUME NEW c \in Calls, Stamp(c) PROVE Stays
    BY <1>5, <1>t DEF Stamp, Exists, AgentRow
  <1>6. QED
    <2> HIDE DEF Stays
    <2>1. Stays
      BY <1>0, <1>1, <1>2, <1>3, <1>4, <1>5
         DEF Next, Step, Admit, Die, Tick, vars, RegisterLoad, RevokeLoad, ReactivateLoad,
             RotateKeyLoad, RevokeHostLoad, HostSelect, ListAgents, TxSelect, ReadClock
    <2>2. QED
      BY <2>1 DEF Stays

LifecycleInv == TypeInv /\ CallsHaveHosts /\ UpdatesHaveRows /\ RowsHaveHosts

LEMMA InitLifecycle == Init => LifecycleInv
  <1> SUFFICES ASSUME Init PROVE LifecycleInv
    OBVIOUS
  <1>1. CallsHaveHosts /\ UpdatesHaveRows
    BY DEF Init, CallsHaveHosts, UpdatesHaveRows, Idle
  <1>2. RowsHaveHosts
    BY DEF Init, RowsHaveHosts, Exists, RegisteredRow, AbsentRow
  <1>3. QED
    BY <1>1, <1>2, InitType DEF LifecycleInv

LEMMA NextLifecycle == LifecycleInv /\ [Next]_vars => LifecycleInv'
  <1> SUFFICES ASSUME LifecycleInv, [Next]_vars PROVE LifecycleInv'
    OBVIOUS
  <1>i. TypeInv /\ CallsHaveHosts /\ UpdatesHaveRows /\ RowsHaveHosts
    BY DEF LifecycleInv
  <1>1. TypeInv' /\ CallsHaveHosts'
    BY <1>i, NextType, NextCallsHaveAgents, NextCallsHaveHosts DEF TypeInv
  <1>s. /\ \A a \in Agents : Exists(a) => Exists(a)' /\ agent'[a].host = agent[a].host
        /\ \A a \in Agents : Exists(a)' => Exists(a) \/ agent'[a].host \in Hosts
    BY <1>i, RowsStay
  <1>2. RowsHaveHosts'
    BY <1>i, <1>s DEF RowsHaveHosts
  <1>t. /\ call \in [Calls -> CallState] /\ Idle.pc = "idle" /\ Idle \in CallState
        /\ \A c \in Calls : call[c].pc = "txUpdate" => call[c].agent \in Agents
        /\ \A c \in Calls : call[c].pc = "txSelect" => call[c].agent \in Agents
    BY <1>i, IdleType DEF TypeInv, TypeOK, Idle, CallsHaveAgents
  <1>3. UpdatesHaveRows'
    <2>1. ASSUME NEW c \in Calls, \A d \in Calls : d # c => call'[d] = call[d],
                 call'[c].pc = "txUpdate"
                   => /\ Exists(call[c].agent) /\ call'[c].agent = call[c].agent
                      /\ call'[c].agent \in Agents
          PROVE  UpdatesHaveRows'
      <3> SUFFICES ASSUME NEW d \in Calls, call'[d].pc = "txUpdate"
                   PROVE  agent'[call'[d].agent].status # "absent"
        BY DEF UpdatesHaveRows, Exists
      <3>1. call'[d].agent \in Agents /\ Exists(call'[d].agent)
        BY <1>i, <1>t, <2>1 DEF UpdatesHaveRows
      <3>2. QED
        BY <1>s, <3>1 DEF Exists
    <2>2. ASSUME NEW c \in Calls, Step(c) PROVE UpdatesHaveRows'
      <3>1. call'[c].pc = "txUpdate" => call'[c].agent \in Agents
        BY <1>1 DEF TypeInv, CallsHaveAgents
      <3>2. QED
        BY <1>i, <2>1, <2>2, <3>1, StepHost
    <2>3. ASSUME NEW c \in Calls, NEW op \in AllOps, NEW h \in Hosts,
                 NEW a \in Agents \cup {NoAgent}, Admit(c, op, h, a)
          PROVE  UpdatesHaveRows'
      <3>1. /\ \A d \in Calls : d # c => call'[d] = call[d]
            /\ call'[c].pc = "load"
        BY <1>t, <2>3 DEF Admit, CallState
      <3>2. QED
        BY <2>1, <3>1
    <2>4. ASSUME NEW c \in Calls, Die(c) PROVE UpdatesHaveRows'
      BY <1>t, <2>1, <2>4 DEF Die, Finish
    <2>5. CASE Tick \/ UNCHANGED vars
      BY <1>i, <2>5 DEF Tick, vars, UpdatesHaveRows, Exists
    <2>6. QED
      BY <2>2, <2>3, <2>4, <2>5 DEF Next
  <1>4. QED
    BY <1>1, <1>2, <1>3 DEF LifecycleInv

-----------------------------------------------------------------------------
(* The types of the pipeline *)

\* The row a request holds between its two reads has a host to read.
HeldRowsHaveHosts == \A r \in Requests : req[r].pc = "host" => req[r].row.host \in Hosts

PipelineTypeInv ==
  /\ LifecycleInv
  /\ req \in [Requests -> RequestState]
  /\ jtiCache \in [Jtis -> Nat]
  /\ used \subseteq Tokens
  /\ HeldRowsHaveHosts

LEMMA NoRequestType ==
  /\ NoRequest \in RequestState
  /\ NoRequest.pc = "idle" /\ NoRequest.late = {} /\ NoRequest.out = NoClocks
  <1>1. (CHOOSE t \in Tokens : TRUE) \in Tokens
    BY TokenAssumption
  <1>2. (CHOOSE k \in Keys : TRUE) \in Keys
    BY IdAssumption
  <1>3. AbsentRow(CHOOSE k \in Keys : TRUE) \in AgentRow
    BY <1>2 DEF AbsentRow, AgentRow, AgentState, NoTime
  <1>4. QED
    BY <1>1, <1>3 DEF NoRequest, RequestState, HostState

LEMMA RequestStepType ==
  ASSUME PipelineTypeInv, NEW r \in Requests, RequestStep(r), UNCHANGED vars
  PROVE  /\ PipelineTypeInv'
         /\ \A q \in Requests : q # r => req'[q] = req[q]
  <1>t. /\ req \in [Requests -> RequestState]
        /\ req[r] \in RequestState
        /\ jtiCache \in [Jtis -> Nat]
        /\ used \subseteq Tokens
        /\ NoRequest \in RequestState /\ NoRequest.pc = "idle"
        /\ TokenOf(r) \in Tokens
        /\ Tokens \subseteq Token
        /\ Skew \in Nat /\ TicksPerSecond \in Nat
        /\ hostStatus \in [Hosts -> HostState]
        /\ agent \in [Agents -> AgentRow]
    BY NoRequestType, TokenAssumption
       DEF PipelineTypeInv, RequestState, TokenOf, LifecycleInv, TypeInv, TypeOK
  <1>l. LifecycleInv'
    BY DEF PipelineTypeInv, LifecycleInv, TypeInv, TypeOK, CallsHaveAgents, CallsHaveHosts,
           UpdatesHaveRows, RowsHaveHosts, Exists, At, vars
  <1> DEFINE Good == /\ req' \in [Requests -> RequestState]
                     /\ HeldRowsHaveHosts'
                     /\ \A q \in Requests : q # r => req'[q] = req[q]
  <1>r. Refuse(r) => Good
    BY <1>t DEF Refuse, PipelineTypeInv, HeldRowsHaveHosts
  <1>p. ASSUME NEW pc \in {"put", "state", "passed"}, Pass(r, pc) PROVE Good
    BY <1>t, <1>p DEF Pass, RequestState, PipelineTypeInv, HeldRowsHaveHosts
  <1>1. ASSUME NEW t \in Tokens, TypCheck(r, t) PROVE Good
    <2>1. LateFor(t.sub) \in SUBSET {"agent", "host"}
      BY DEF LateFor
    <2>2. req' = [req EXCEPT ![r] = [NoRequest EXCEPT !.pc = "agent", !.token = t,
                                                      !.late = LateFor(t.sub),
                                                      !.out = OutFor(agent[t.sub])]]
      BY <1>1 DEF TypCheck
    <2>o. OutFor(agent[t.sub]) \in {NoClocks} \cup (Nat \X Nat \X Nat)
      BY <1>t DEF OutFor, Clocks, AgentRow, Token
    <2>3. [NoRequest EXCEPT !.pc = "agent", !.token = t, !.late = LateFor(t.sub),
                            !.out = OutFor(agent[t.sub])] \in RequestState
      BY <1>t, <2>1, <2>o DEF RequestState
    <2>4. req'[r].pc = "agent"
      BY <1>t, <2>2 DEF RequestState
    <2>5. QED
      BY <1>t, <2>2, <2>3, <2>4 DEF PipelineTypeInv, HeldRowsHaveHosts
  <1>2. VerifySignature(r) => Good
    <2> DEFINE row == agent[TokenOf(r).sub]
    <2>1. row \in AgentRow /\ TokenOf(r).sub \in Agents
      BY <1>t DEF Token
    <2>2. row.status # "absent" => row.host \in Hosts
      BY <2>1 DEF PipelineTypeInv, LifecycleInv, RowsHaveHosts, Exists
    <2> HIDE DEF row
    <2>3. ASSUME row.status # "absent",
                 req' = [req EXCEPT ![r] = [@ EXCEPT !.pc = "host", !.row = row]]
          PROVE  Good
      BY <1>t, <2>1, <2>2, <2>3 DEF RequestState, PipelineTypeInv, HeldRowsHaveHosts
    <2>4. QED
      BY <1>r, <2>3 DEF VerifySignature, row
  <1>3. ResolveHost(r) => Good
    <2> DEFINE st == hostStatus[req[r].row.host]
    <2>1. req[r].pc = "host" => st \in HostState
      BY <1>t DEF PipelineTypeInv, HeldRowsHaveHosts
    <2> HIDE DEF st
    <2>2. ASSUME st \in HostState,
                 req' = [req EXCEPT ![r] = [@ EXCEPT !.pc = "claims", !.host = st]]
          PROVE  Good
      BY <1>t, <2>2 DEF RequestState, PipelineTypeInv, HeldRowsHaveHosts
    <2>3. QED
      BY <2>1, <2>2 DEF ResolveHost, st
  <1> HIDE DEF Good
  <1>4. ValidateClaims(r) \/ CheckState(r) \/ Answer(r) \/ PutJti(r) => Good
    BY <1>r, <1>p DEF ValidateClaims, CheckState, Answer, PutJti
  <1>5. Good
    BY <1>1, <1>2, <1>3, <1>4 DEF RequestStep
  <1>6. jtiCache' \in [Jtis -> Nat] /\ used' \subseteq Tokens
    <2>1. PutJti(r) => <1>6
      <3>1. JtiWindow(TokenOf(r)) \in Nat
        BY <1>t DEF JtiWindow, Token
      <3>2. QED
        BY <1>t, <3>1 DEF PutJti
    <2>2. QED
      BY <1>t, <2>1 DEF RequestStep, TypCheck, VerifySignature, ResolveHost, ValidateClaims,
                        CheckState, Answer
  <1>7. QED
    BY <1>l, <1>5, <1>6 DEF Good, PipelineTypeInv

LEMMA InitPipelineType == PipelineInit => PipelineTypeInv
  BY InitLifecycle, NoRequestType
     DEF PipelineInit, PipelineTypeInv, HeldRowsHaveHosts, NoTime

LEMMA NextPipelineType == PipelineTypeInv /\ [PipelineNext]_allVars => PipelineTypeInv'
  <1> SUFFICES ASSUME PipelineTypeInv, [PipelineNext]_allVars PROVE PipelineTypeInv'
    OBVIOUS
  <1>1. CASE [Next]_vars /\ UNCHANGED pipelineVars
    BY <1>1, NextLifecycle DEF PipelineTypeInv, HeldRowsHaveHosts, pipelineVars
  <1>2. ASSUME NEW r \in Requests, RequestStep(r), UNCHANGED vars PROVE PipelineTypeInv'
    BY <1>2, RequestStepType
  <1>3. QED
    BY <1>1, <1>2 DEF PipelineNext, allVars, vars, pipelineVars

\* The pipeline composed with the lifecycle is type correct: a request never
\* reads the host of a row that has none.
THEOREM PipelineTypeCorrect == PipelineSpec => []PipelineTypeOK
  <1>1. PipelineSpec => []PipelineTypeInv
    BY InitPipelineType, NextPipelineType, PTL DEF PipelineSpec
  <1>2. PipelineTypeInv => PipelineTypeOK
    BY DEF PipelineTypeInv, PipelineTypeOK, LifecycleInv, TypeInv
  <1>3. QED
    BY <1>1, <1>2, PTL

-----------------------------------------------------------------------------
(* Revocation *)

\* What a request whose agent was revoked at arrival holds, and what it will read.
LateAgent ==
  \A r \in Requests : "agent" \in req[r].late =>
    /\ agent[TokenOf(r).sub].status = "revoked"
    /\ req[r].pc \in {"host", "claims", "put", "state", "passed"}
         => req[r].row.status = "revoked"

\* The same for a request whose agent's host was revoked at arrival.
LateHost ==
  \A r \in Requests : "host" \in req[r].late =>
    LET a == TokenOf(r).sub IN
      /\ Exists(a) /\ hostStatus[agent[a].host] = "revoked"
      /\ req[r].pc = "host" => req[r].row.host = agent[a].host
      /\ req[r].pc \in {"claims", "put", "state", "passed"} => req[r].host = "revoked"

PassedIsActive ==
  \A r \in Requests : req[r].pc = "passed"
    => req[r].host = "active" /\ req[r].row.status = "active"

RevocationInv ==
  /\ StatusInv /\ PipelineTypeInv
  /\ LateAgent /\ LateHost /\ PassedIsActive

LEMMA InitRevocation == PipelineInit => RevocationInv
  BY InitStatus, InitPipelineType, NoRequestType
     DEF PipelineInit, RevocationInv, LateAgent, LateHost, PassedIsActive

\* A step of the lifecycle takes nothing back from a request.
LEMMA LifecycleKeepsRevoked ==
  ASSUME "reactivate" \notin Ops, RevocationInv, [Next]_vars, UNCHANGED pipelineVars
  PROVE  LateAgent' /\ LateHost' /\ PassedIsActive'
  <1>t. \A r \in Requests : TokenOf(r).sub \in Agents
    BY TokenAssumption DEF RevocationInv, PipelineTypeInv, RequestState, TokenOf, Token
  <1>u. UNCHANGED req /\ \A r \in Requests : TokenOf(r)' = TokenOf(r)
    BY DEF pipelineVars, TokenOf
  <1>1. \A a \in Agents : agent[a].status = "revoked" => agent'[a].status = "revoked"
    BY StatusSteps DEF RevocationInv, canTransitionAgent, AGENT_TRANSITIONS
  <1>2. /\ \A a \in Agents : Exists(a) => Exists(a)' /\ agent'[a].host = agent[a].host
        /\ \A h \in Hosts : hostStatus[h] = "revoked" => hostStatus'[h] = "revoked"
    BY RowsStay DEF RevocationInv, PipelineTypeInv, LifecycleInv
  <1>3. \A a \in Agents : Exists(a) => agent[a].host \in Hosts
    BY DEF RevocationInv, PipelineTypeInv, LifecycleInv, RowsHaveHosts
  <1>4. LateAgent'
    BY <1>t, <1>u, <1>1 DEF RevocationInv, LateAgent
  <1>5. LateHost'
    <2> SUFFICES ASSUME NEW r \in Requests, "host" \in req[r].late
                 PROVE  LET a == TokenOf(r).sub IN
                          /\ Exists(a)' /\ hostStatus'[agent'[a].host] = "revoked"
                          /\ req[r].pc = "host" => req[r].row.host = agent'[a].host
                          /\ req[r].pc \in {"claims", "put", "state", "passed"}
                               => req[r].host = "revoked"
      BY <1>u DEF LateHost, Exists
    <2>1. /\ Exists(TokenOf(r).sub) /\ hostStatus[agent[TokenOf(r).sub].host] = "revoked"
          /\ req[r].pc = "host" => req[r].row.host = agent[TokenOf(r).sub].host
          /\ req[r].pc \in {"claims", "put", "state", "passed"} => req[r].host = "revoked"
      BY DEF RevocationInv, LateHost
    <2>2. PICK a \in Agents : a = TokenOf(r).sub
      BY <1>t
    <2>3. /\ Exists(a) /\ hostStatus[agent[a].host] = "revoked" /\ agent[a].host \in Hosts
          /\ req[r].pc = "host" => req[r].row.host = agent[a].host
      BY <1>3, <2>1, <2>2 DEF Exists
    <2>4. Exists(a)' /\ agent'[a].host = agent[a].host
      BY <1>2, <2>3
    <2>5. hostStatus'[agent'[a].host] = "revoked"
      BY <1>2, <2>3, <2>4
    <2>6. QED
      BY <1>u, <2>1, <2>2, <2>3, <2>4, <2>5 DEF Exists
  <1>6. QED
    BY <1>u, <1>4, <1>5 DEF RevocationInv, PassedIsActive

\* A step of a request reads what is revoked as revoked, and refuses it.
LEMMA RequestKeepsRevoked ==
  ASSUME RevocationInv, NEW r \in Requests, RequestStep(r), UNCHANGED vars
  PROVE  LateAgent' /\ LateHost' /\ PassedIsActive'
  <1>t. /\ req \in [Requests -> RequestState]
        /\ req[r] \in RequestState
        /\ NoRequest \in RequestState /\ NoRequest.pc = "idle" /\ NoRequest.late = {}
        /\ UNCHANGED <<agent, hostStatus>>
        /\ \A q \in Requests : q # r => req'[q] = req[q]
    BY NoRequestType, RequestStepType DEF RevocationInv, PipelineTypeInv, vars
  <1> DEFINE
        Agent(q) == "agent" \in q.late =>
                      /\ agent[q.token.sub].status = "revoked"
                      /\ q.pc \in {"host", "claims", "put", "state", "passed"}
                           => q.row.status = "revoked"
        Host(q) == "host" \in q.late =>
                      /\ agent[q.token.sub].status # "absent"
                      /\ hostStatus[agent[q.token.sub].host] = "revoked"
                      /\ q.pc = "host" => q.row.host = agent[q.token.sub].host
                      /\ q.pc \in {"claims", "put", "state", "passed"} => q.host = "revoked"
        Active(q) == q.pc = "passed" => q.host = "active" /\ q.row.status = "active"
        Fine(q) == Agent(q) /\ Host(q) /\ Active(q)
  <1>i. Fine(req[r])
    BY DEF RevocationInv, LateAgent, LateHost, PassedIsActive, TokenOf, Exists
  <1>g. Fine(req'[r]) => LateAgent' /\ LateHost' /\ PassedIsActive'
    BY <1>t DEF RevocationInv, LateAgent, LateHost, PassedIsActive, TokenOf, Exists
  <1>r. Refuse(r) => Fine(req'[r])
    BY <1>t DEF Refuse
  <1>1. ASSUME NEW t \in Tokens, TypCheck(r, t) PROVE Fine(req'[r])
    <2>1. /\ req'[r].pc = "agent" /\ req'[r].token = t
          /\ req'[r].late = LateFor(t.sub)
      BY <1>1, <1>t DEF TypCheck, RequestState
    <2>2. QED
      BY <2>1 DEF LateFor, Exists
  <1>2. VerifySignature(r) => Fine(req'[r])
    <2> DEFINE row == agent[TokenOf(r).sub]
    <2>1. ASSUME req[r].pc = "agent",
                 req' = [req EXCEPT ![r] = [@ EXCEPT !.pc = "host", !.row = row]]
          PROVE  Fine(req'[r])
      <3>1. /\ req'[r].pc = "host" /\ req'[r].row = row /\ req'[r].late = req[r].late
            /\ req'[r].token = req[r].token
        BY <1>t, <2>1 DEF RequestState
      <3>2. QED
        BY <1>i, <3>1 DEF TokenOf
    <2>2. QED
      BY <1>r, <2>1 DEF VerifySignature
  <1>3. ResolveHost(r) => Fine(req'[r])
    <2> SUFFICES ASSUME ResolveHost(r) PROVE Fine(req'[r])
      OBVIOUS
    <2>1. /\ req'[r].pc = "claims" /\ req'[r].host = hostStatus[req[r].row.host]
          /\ req'[r].row = req[r].row /\ req'[r].late = req[r].late
          /\ req'[r].token = req[r].token /\ req[r].pc = "host"
      BY <1>t DEF ResolveHost, RequestState
    <2>2. QED
      BY <1>i, <2>1
  <1>p. ASSUME NEW pc \in {"put", "state", "passed"}, Pass(r, pc),
               req[r].pc \in {"claims", "put", "state"},
               pc = "passed" => req[r].host = "active" /\ req[r].row.status = "active"
        PROVE  Fine(req'[r])
    <2>1. /\ req'[r].pc = pc /\ req'[r].host = req[r].host
          /\ req'[r].row = req[r].row /\ req'[r].late = req[r].late
          /\ req'[r].token = req[r].token
      BY <1>t, <1>p DEF Pass, RequestState
    <2>2. QED
      BY <1>i, <1>p, <2>1
  <1> HIDE DEF Fine
  <1>4. ValidateClaims(r) \/ PutJti(r) \/ CheckState(r) \/ Answer(r) => Fine(req'[r])
    BY <1>r, <1>p DEF ValidateClaims, PutJti, CheckState, Answer
  <1>5. QED
    BY <1>g, <1>1, <1>2, <1>3, <1>4 DEF RequestStep

\* Revocation takes effect immediately: without reactivations, a request that
\* arrives after the revocation of its agent, or of its agent's host, is
\* refused, for any number of hosts, agents, calls and requests.
THEOREM RevocationIsImmediate ==
  ASSUME "reactivate" \notin Ops
  PROVE  PipelineSpec => []RevokedIsRefused
  <1>1. RevocationInv /\ [PipelineNext]_allVars => RevocationInv'
    <2> SUFFICES ASSUME RevocationInv, [PipelineNext]_allVars PROVE RevocationInv'
      OBVIOUS
    <2>1. PipelineTypeInv'
      BY NextPipelineType DEF RevocationInv
    <2>2. StatusInv'
      <3>1. [Next]_vars
        BY DEF PipelineNext, allVars, vars, pipelineVars
      <3>2. QED
        BY <3>1, NextStatus DEF RevocationInv
    <2>3. CASE [Next]_vars /\ UNCHANGED pipelineVars
      BY <2>1, <2>2, <2>3, LifecycleKeepsRevoked DEF RevocationInv
    <2>4. ASSUME NEW r \in Requests, RequestStep(r), UNCHANGED vars PROVE RevocationInv'
      BY <2>1, <2>2, <2>4, RequestKeepsRevoked DEF RevocationInv
    <2>5. QED
      BY <2>3, <2>4 DEF PipelineNext, allVars, vars, pipelineVars
  <1>2. RevocationInv => RevokedIsRefused
    <2> SUFFICES ASSUME RevocationInv, NEW r \in Requests, req[r].pc = "passed"
                 PROVE  req[r].late = {}
      BY DEF RevokedIsRefused
    <2>1. req[r].host = "active" /\ req[r].row.status = "active"
      BY DEF RevocationInv, PassedIsActive
    <2>2. "agent" \notin req[r].late
      BY <2>1 DEF RevocationInv, LateAgent
    <2>3. "host" \notin req[r].late
      BY <2>1 DEF RevocationInv, LateHost
    <2>4. req[r].late \subseteq {"agent", "host"}
      BY DEF RevocationInv, PipelineTypeInv, RequestState
    <2>5. QED
      BY <2>2, <2>3, <2>4
  <1>3. QED
    BY InitRevocation, <1>1, <1>2, PTL DEF PipelineSpec

-----------------------------------------------------------------------------
(* Replays *)

\* As long as the window of a token that was let through is not over, the row of
\* its jti is there and outlasts the window: whoever took the row over under the
\* same jti did so after the window.
ReplayInv ==
  \A t \in used : JtiWindow(t) < now \/ JtiWindow(t) <= jtiCache[t.jti]

LEMMA TokenTypes ==
  ASSUME PipelineTypeInv
  PROVE  /\ \A t \in Tokens : t.jti \in Jtis /\ t.sub \in Agents /\ JtiWindow(t) \in Nat
         /\ \A r \in Requests : TokenOf(r) \in Tokens
         /\ now \in Nat \ {0}
  <1>1. ASSUME NEW t \in Tokens PROVE t.jti \in Jtis /\ t.sub \in Agents /\ JtiWindow(t) \in Nat
    <2>1. t \in Token /\ t.jti \in Jtis
      BY TokenAssumption DEF Jtis
    <2>2. t.exp \in Nat /\ t.sub \in Agents
      BY <2>1 DEF Token
    <2>3. QED
      BY <2>1, <2>2, TokenAssumption DEF JtiWindow
  <1>2. QED
    BY <1>1 DEF PipelineTypeInv, RequestState, TokenOf, LifecycleInv, TypeInv, TypeOK

\* Time does not go back.
LEMMA NowGrows ==
  ASSUME PipelineTypeInv, [PipelineNext]_allVars
  PROVE  now' \in Nat /\ now <= now'
  <1>1. now \in Nat
    BY DEF PipelineTypeInv, LifecycleInv, TypeInv, TypeOK
  <1>2. now' = now \/ now' = now + 1
    BY DEF PipelineNext, allVars, vars, Next, Step, Admit, RegisterLoad, RegisterCreate, RevokeLoad,
           ReactivateLoad, RotateKeyLoad, RotateKeyWrite, RevokeHostLoad, HostSelect, HostUpdate,
           ListAgents, TxSelect, TxUpdate, ReadClock, Stamp, Die, Tick
  <1>3. QED
    BY <1>1, <1>2

\* jtiCache.put, when it lets the token of r through.
Lets(r) ==
  /\ req[r].pc = "put"
  /\ jtiCache[TokenOf(r).jti] = NoTime \/ jtiCache[TokenOf(r).jti] < now
  /\ jtiCache' = [jtiCache EXCEPT ![TokenOf(r).jti] = JtiWindow(TokenOf(r))]
  /\ used' = used \cup {TokenOf(r)}

\* The cache changes only where a token is let through.
LEMMA CacheSteps ==
  ASSUME PipelineTypeInv, [PipelineNext]_allVars
  PROVE  \/ UNCHANGED <<jtiCache, used>>
         \/ UNCHANGED now /\ \E r \in Requests : Lets(r)
  <1>1. ASSUME NEW r \in Requests, PutJti(r), UNCHANGED vars
        PROVE  \/ UNCHANGED <<jtiCache, used>>
               \/ UNCHANGED now /\ Lets(r)
    BY <1>1 DEF PutJti, Lets, vars
  <1>2. QED
    BY <1>1 DEF PipelineNext, RequestStep, TypCheck, VerifySignature, ResolveHost,
                ValidateClaims, CheckState, Answer, allVars, pipelineVars

LEMMA NextReplay ==
  PipelineTypeInv /\ ReplayInv /\ [PipelineNext]_allVars => ReplayInv'
  <1> SUFFICES ASSUME PipelineTypeInv, ReplayInv, [PipelineNext]_allVars PROVE ReplayInv'
    OBVIOUS
  <1>t. /\ \A t \in Tokens : t.jti \in Jtis /\ JtiWindow(t) \in Nat
        /\ \A r \in Requests : TokenOf(r) \in Tokens
        /\ now \in Nat \ {0}
        /\ jtiCache \in [Jtis -> Nat] /\ used \subseteq Tokens
    BY TokenTypes DEF PipelineTypeInv
  <1>1. CASE UNCHANGED <<jtiCache, used>>
    <2> SUFFICES ASSUME NEW t \in used
                 PROVE  JtiWindow(t) < now' \/ JtiWindow(t) <= jtiCache[t.jti]
      BY <1>1 DEF ReplayInv, JtiWindow
    <2>1. JtiWindow(t) < now \/ JtiWindow(t) <= jtiCache[t.jti]
      BY DEF ReplayInv
    <2>2. JtiWindow(t) \in Nat /\ now' \in Nat /\ now <= now'
      BY <1>t, NowGrows
    <2>3. QED
      BY <1>t, <2>1, <2>2
  <1>2. ASSUME NEW r \in Requests, Lets(r), UNCHANGED now PROVE ReplayInv'
    <2> DEFINE u == TokenOf(r)
    <2>1. u \in Tokens /\ u.jti \in Jtis
      BY <1>t
    <2>2. /\ jtiCache[u.jti] = NoTime \/ jtiCache[u.jti] < now
          /\ jtiCache' = [jtiCache EXCEPT ![u.jti] = JtiWindow(u)]
          /\ used' = used \cup {u}
      BY <1>2 DEF Lets
    <2> HIDE DEF u
    <2> SUFFICES ASSUME NEW t \in used \cup {u}
                 PROVE  JtiWindow(t) < now \/ JtiWindow(t) <= jtiCache'[t.jti]
      BY <1>2, <2>2 DEF ReplayInv, JtiWindow
    <2>3. t \in Tokens /\ t.jti \in Jtis /\ JtiWindow(t) \in Nat /\ jtiCache[t.jti] \in Nat
      BY <1>t, <2>1
    <2>4. CASE t = u
      <3>1. jtiCache'[t.jti] = JtiWindow(t)
        BY <1>t, <2>1, <2>2, <2>4
      <3>2. QED
        BY <2>3, <3>1
    <2>5. CASE t \in used /\ t.jti # u.jti
      <3>1. jtiCache'[t.jti] = jtiCache[t.jti]
        BY <1>t, <2>1, <2>2, <2>3, <2>5
      <3>2. QED
        BY <2>5, <3>1 DEF ReplayInv
    <2>6. CASE t \in used /\ t.jti = u.jti
      <3>1. jtiCache[t.jti] < now
        BY <1>t, <2>2, <2>6 DEF NoTime
      <3>2. JtiWindow(t) < now \/ JtiWindow(t) <= jtiCache[t.jti]
        BY <2>6 DEF ReplayInv
      <3>3. QED
        BY <1>t, <2>3, <3>1, <3>2
    <2>7. QED
      BY <2>4, <2>5, <2>6
  <1>3. QED
    BY <1>1, <1>2, CacheSteps

\* A request goes from claim validation to the state check by being let through.
LEMMA LetThrough ==
  ASSUME PipelineTypeInv, [PipelineNext]_allVars, NEW r \in Requests,
         req[r].pc = "put", req'[r].pc = "state"
  PROVE  Lets(r)
  <1>n. NoRequest.pc = "idle" /\ req \in [Requests -> RequestState]
    BY NoRequestType DEF PipelineTypeInv
  <1>1. ~UNCHANGED req
    OBVIOUS
  <1>2. PICK q \in Requests : RequestStep(q) /\ UNCHANGED vars
    BY <1>1 DEF PipelineNext, pipelineVars, allVars
  <1>3. q = r
    BY <1>2, RequestStepType
  <1>4. PutJti(r)
    BY <1>2, <1>3 DEF RequestStep, TypCheck, VerifySignature, ResolveHost, ValidateClaims,
                      CheckState, Answer
  <1>5. ~Refuse(r)
    BY <1>n DEF Refuse
  <1>6. QED
    BY <1>4, <1>5 DEF PutJti, Lets

\* claimValidation and jtiCache.put: for any number of parallel requests and any
\* tokens, also tokens that share a jti, one that was let through is let through
\* again only after its lifetime and the skew are over.
THEOREM NoReplay == PipelineSpec => NoReplayInWindow
  <1>1. PipelineInit => ReplayInv
    BY DEF PipelineInit, ReplayInv
  <1>2. PipelineSpec => [](PipelineTypeInv /\ ReplayInv)
    BY <1>1, InitPipelineType, NextPipelineType, NextReplay, PTL DEF PipelineSpec
  <1>3. PipelineTypeInv /\ ReplayInv /\ [PipelineNext]_allVars
        => [\A r \in Requests :
              req[r].pc = "put" /\ req'[r].pc = "state" /\ TokenOf(r) \in used
                => now > (TokenOf(r).exp + Skew) * TicksPerSecond]_allVars
    <2> SUFFICES ASSUME PipelineTypeInv, ReplayInv, [PipelineNext]_allVars, NEW r \in Requests,
                        req[r].pc = "put", req'[r].pc = "state", TokenOf(r) \in used
                 PROVE  now > JtiWindow(TokenOf(r))
      BY DEF JtiWindow
    <2> DEFINE u == TokenOf(r)
    <2>1. /\ jtiCache[u.jti] = NoTime \/ jtiCache[u.jti] < now
          /\ u \in used /\ JtiWindow(u) \in Nat /\ now \in Nat \ {0} /\ jtiCache[u.jti] \in Nat
      BY LetThrough, TokenTypes DEF Lets, PipelineTypeInv
    <2>2. JtiWindow(u) < now \/ JtiWindow(u) <= jtiCache[u.jti]
      BY <2>1 DEF ReplayInv
    <2> HIDE DEF u
    <2>3. now > JtiWindow(u)
      BY <2>1, <2>2 DEF NoTime
    <2>4. QED
      BY <2>3 DEF u
  <1>4. QED
    BY <1>2, <1>3, PTL DEF PipelineSpec, NoReplayInWindow

-----------------------------------------------------------------------------
(***************************************************************************)
(* Lifetimes.  A clock that had run out stays so, because time does not go *)
(* back: a request that read the clocks it met at arrival judges them      *)
(* later, at the state check, and finds the one that had run out.          *)
(***************************************************************************)
RunOut(clocks) == \E i \in {1, 2, 3} : clocks[i] # NoTime /\ clocks[i] < now

OutIsRunOut == \A r \in Requests : req[r].out # NoClocks => RunOut(req[r].out)

LifetimeInv == PipelineTypeInv /\ OutIsRunOut /\ LifetimesEnforced

LEMMA TripleIsNotEmpty ==
  ASSUME NEW x \in Nat, NEW y \in Nat, NEW z \in Nat
  PROVE  <<x, y, z>> # NoClocks
  <1>1. <<x, y, z>> = << >> => 1 \in DOMAIN << >>
    <2>1. 1 \in DOMAIN <<x, y, z>>
      OBVIOUS
    <2>2. QED
      BY <2>1
  <1>2. 1 \notin DOMAIN << >>
    OBVIOUS
  <1>3. QED
    BY <1>1, <1>2 DEF NoClocks

LEMMA OutForRunOut ==
  ASSUME NEW row \in AgentRow, now \in Nat, OutFor(row) # NoClocks
  PROVE  RunOut(OutFor(row))
  <1>1. /\ row.session \in Nat /\ row.max \in Nat /\ row.absolute \in Nat
        /\ OutFor(row) = <<row.session, row.max, row.absolute>>
    BY DEF AgentRow, OutFor, Clocks
  <1>2. PICK clock \in {row.session, row.max, row.absolute} : clock # NoTime /\ ~(now <= clock)
    BY DEF OutFor
  <1>3. clock < now
    BY <1>1, <1>2
  <1>4. QED
    BY <1>1, <1>2, <1>3 DEF RunOut

\* What a step of request r does to what it holds.
LEMMA RequestKeepsOut ==
  ASSUME LifetimeInv, NEW r \in Requests, RequestStep(r), UNCHANGED vars
  PROVE  OutIsRunOut' /\ LifetimesEnforced'
  <1>t. /\ req \in [Requests -> RequestState] /\ req[r] \in RequestState
        /\ NoRequest \in RequestState /\ NoRequest.pc = "idle" /\ NoRequest.out = NoClocks
        /\ UNCHANGED <<agent, now>> /\ now \in Nat
        /\ \A q \in Requests : q # r => req'[q] = req[q]
    BY NoRequestType, RequestStepType
       DEF LifetimeInv, PipelineTypeInv, LifecycleInv, TypeInv, TypeOK, vars
  <1> DEFINE Fine(q) == /\ q.out # NoClocks => RunOut(q.out)
                        /\ q.pc = "passed" => Clocks(q.row) # q.out
  <1>i. Fine(req[r])
    BY DEF LifetimeInv, OutIsRunOut, LifetimesEnforced
  <1>g. Fine(req'[r]) => OutIsRunOut' /\ LifetimesEnforced'
    BY <1>t DEF LifetimeInv, OutIsRunOut, LifetimesEnforced, RunOut
  <1>r. Refuse(r) => Fine(req'[r])
    BY <1>t DEF Refuse
  <1>1. ASSUME NEW t \in Tokens, TypCheck(r, t) PROVE Fine(req'[r])
    <2>1. agent[t.sub] \in AgentRow
      BY TokenTypes DEF LifetimeInv, PipelineTypeInv, LifecycleInv, TypeInv, TypeOK
    <2>2. req'[r].pc = "agent" /\ req'[r].out = OutFor(agent[t.sub])
      BY <1>1, <1>t DEF TypCheck, RequestState
    <2>3. QED
      BY <1>t, <2>1, <2>2, OutForRunOut
  <1>2. VerifySignature(r) => Fine(req'[r])
    <2> DEFINE row == agent[TokenOf(r).sub]
    <2>1. ASSUME req' = [req EXCEPT ![r] = [@ EXCEPT !.pc = "host", !.row = row]]
          PROVE  Fine(req'[r])
      <3> HIDE DEF row
      <3>1. req'[r].pc = "host" /\ req'[r].out = req[r].out
        BY <1>t, <2>1 DEF RequestState
      <3>2. QED
        BY <1>i, <3>1
    <2>2. QED
      BY <1>r, <2>1 DEF VerifySignature
  <1>3. ResolveHost(r) => Fine(req'[r])
    <2> DEFINE st == hostStatus[req[r].row.host]
    <2>1. ASSUME req' = [req EXCEPT ![r] = [@ EXCEPT !.pc = "claims", !.host = st]]
          PROVE  Fine(req'[r])
      <3> HIDE DEF st
      <3>1. req'[r].pc = "claims" /\ req'[r].out = req[r].out
        BY <1>t, <2>1 DEF RequestState
      <3>2. QED
        BY <1>i, <3>1
    <2>2. QED
      BY <2>1 DEF ResolveHost
  <1>p. ASSUME NEW pc \in {"put", "state", "passed"}, Pass(r, pc),
               pc = "passed" => Within(req[r].row)
        PROVE  Fine(req'[r])
    <2>1. req'[r].pc = pc /\ req'[r].out = req[r].out /\ req'[r].row = req[r].row
      BY <1>t, <1>p DEF Pass, RequestState
    <2>2. ASSUME Within(req[r].row), Clocks(req[r].row) = req[r].out PROVE FALSE
      <3> DEFINE w == req[r].row
      <3>1. w.session \in Nat /\ w.max \in Nat /\ w.absolute \in Nat
        BY <1>t DEF RequestState, AgentRow
      <3>2. req[r].out = <<w.session, w.max, w.absolute>> /\ req[r].out # NoClocks
        BY <2>2, <3>1, TripleIsNotEmpty DEF Clocks
      <3>3. RunOut(<<w.session, w.max, w.absolute>>)
        BY <1>i, <3>2
      <3>4. \A clock \in {w.session, w.max, w.absolute} : clock # NoTime => now <= clock
        BY <2>2 DEF Within
      <3> HIDE DEF w
      <3>5. QED
        BY <1>t, <3>1, <3>3, <3>4 DEF RunOut
    <2>3. QED
      BY <1>i, <1>p, <2>1, <2>2
  <1> HIDE DEF Fine
  <1>4. ValidateClaims(r) \/ PutJti(r) \/ CheckState(r) \/ Answer(r) => Fine(req'[r])
    BY <1>r, <1>p DEF ValidateClaims, PutJti, CheckState, Answer
  <1>5. QED
    BY <1>g, <1>1, <1>2, <1>3, <1>4 DEF RequestStep

\* A step of the lifecycle may stamp clocks and let time pass, but not turn back.
LEMMA LifecycleKeepsOut ==
  ASSUME LifetimeInv, [PipelineNext]_allVars, UNCHANGED pipelineVars
  PROVE  OutIsRunOut' /\ LifetimesEnforced'
  <1>1. UNCHANGED req /\ now' \in Nat /\ now <= now' /\ now \in Nat
    BY NowGrows DEF LifetimeInv, PipelineTypeInv, LifecycleInv, TypeInv, TypeOK, pipelineVars
  <1>2. OutIsRunOut'
    <2> SUFFICES ASSUME NEW r \in Requests, req[r].out # NoClocks
                 PROVE  \E i \in {1, 2, 3} : req[r].out[i] # NoTime /\ req[r].out[i] < now'
      BY <1>1 DEF OutIsRunOut, RunOut
    <2>1. PICK i \in {1, 2, 3} : req[r].out[i] # NoTime /\ req[r].out[i] < now
      BY DEF LifetimeInv, OutIsRunOut, RunOut
    <2>2. req[r].out \in Nat \X Nat \X Nat
      BY DEF LifetimeInv, PipelineTypeInv, RequestState
    <2>3. req[r].out[i] \in Nat
      BY <2>2
    <2>4. req[r].out[i] < now'
      BY <1>1, <2>1, <2>3
    <2>5. QED
      BY <2>1, <2>4
  <1>3. QED
    BY <1>1, <1>2 DEF LifetimeInv, LifetimesEnforced

\* stateCheck: for any agents, calls and requests, a request that arrived after
\* a clock of its agent had run out is let through only if the row it read shows
\* other clocks than those, that is if a registration or reactivation stamped
\* the agent in between; the times a stamp writes may be old by then.
THEOREM LifetimesAreEnforced == PipelineSpec => []LifetimesEnforced
  <1>1. PipelineInit => LifetimeInv
    <2>1. NoRequest.pc = "idle" /\ NoRequest.out = NoClocks
      BY NoRequestType
    <2>2. QED
      BY <2>1, InitPipelineType DEF PipelineInit, LifetimeInv, OutIsRunOut, LifetimesEnforced
  <1>2. LifetimeInv /\ [PipelineNext]_allVars => LifetimeInv'
    <2> SUFFICES ASSUME LifetimeInv, [PipelineNext]_allVars PROVE LifetimeInv'
      OBVIOUS
    <2>1. PipelineTypeInv'
      BY NextPipelineType DEF LifetimeInv
    <2>2. CASE UNCHANGED pipelineVars
      BY <2>1, <2>2, LifecycleKeepsOut DEF LifetimeInv
    <2>3. ASSUME NEW r \in Requests, RequestStep(r), UNCHANGED vars PROVE LifetimeInv'
      BY <2>1, <2>3, RequestKeepsOut DEF LifetimeInv
    <2>4. QED
      BY <2>2, <2>3 DEF PipelineNext, allVars, vars, pipelineVars
  <1>3. LifetimeInv => LifetimesEnforced
    BY DEF LifetimeInv
  <1>4. QED
    BY <1>1, <1>2, <1>3, PTL DEF PipelineSpec

-----------------------------------------------------------------------------
(* The lifecycle under the pipeline *)

\* The pipeline only reads the tables of the lifecycle: with requests running
\* against it, the lifecycle behaves as it does alone, so each theorem of
\* LifecycleProofs holds of the composition too.
THEOREM PipelineKeepsLifecycle == PipelineSpec => Spec
  <1>1. PipelineInit => Init
    BY DEF PipelineInit
  <1>2. [PipelineNext]_allVars => [Next]_vars
    BY DEF PipelineNext, allVars, vars
  <1>3. QED
    BY <1>1, <1>2, PTL DEF PipelineSpec, Spec

\* While requests are authenticated and nobody calls reactivateAgent, a revoked
\* agent or host stays revoked and statuses move along the edges of the table.
THEOREM RevocationIsFinalForRequests ==
  ASSUME "reactivate" \notin Ops
  PROVE  PipelineSpec => RevokedIsFinal /\ ImplementsStateMachine
  <1>1. Spec => RevokedIsFinal
    BY RevocationIsFinal
  <1>2. Spec => ImplementsStateMachine
    BY StateMachineImplemented
  <1>3. QED
    BY <1>1, <1>2, PipelineKeepsLifecycle, PTL

\* With requests running, an active agent is left without a session clock only by
\* the death of the call that was to stamp it.
THEOREM RequestsFindClocks == PipelineSpec => ActiveHasClocks
  BY ActiveAgentsHaveClocks, PipelineKeepsLifecycle, PTL
=============================================================================
