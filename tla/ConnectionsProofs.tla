-------------------------- MODULE ConnectionsProofs --------------------------
(***************************************************************************)
(* Connections, connector grants and executions, for all sets of agents,   *)
(* connections, projects and operations and any number of executions and   *)
(* operator calls in flight.                                               *)
(***************************************************************************)
EXTENDS Connections, FiniteSetTheorems, TLAPS

InFlight(e) == e.pc \notin {"idle", "done"}

\* What an execution in flight is about.
ExecOK(e) == InFlight(e) => e.agent \in Agents /\ e.conn \in Conns /\ e.op \in Ops

\* What an operator's call is about.
CallOK(q) ==
  /\ q.op \in {"update", "move", "deleteConn", "attach", "detach"} => q.conn \in Conns
  /\ q.op \in {"attach", "detach", "setProject"} => q.agent \in Agents
  /\ q.op = "deleteProject" => q.project \in Projects
  /\ q.limit \in Limits

TypeInv ==
  /\ TypeOK
  /\ \A r \in Requests : ExecOK(exec[r])
  /\ \A k \in Calls : CallOK(call[k])
  /\ \A w \in Agents \X Conns : wire[w].limit \in Limits

-----------------------------------------------------------------------------
(* What the steps do to an execution, field by field *)

LEMMA IdleExecType ==
  /\ IdleExec \in ExecState
  /\ IdleExec.pc = "idle" /\ IdleExec.sent = FALSE /\ IdleExec.reply = "none"
  BY DEF IdleExec, ExecState, ExecPc, Scope

LEMMA EndExecEffect ==
  ASSUME exec \in [Requests -> ExecState], NEW r \in Requests,
         NEW reply \in {"none", "ok", "error", "denied"},
         NEW logged \in {"none", "execute", "denied"}, EndExec(r, reply, logged)
  PROVE  /\ exec' \in [Requests -> ExecState]
         /\ \A q \in Requests : q # r => exec'[q] = exec[q]
         /\ exec'[r].pc = "done" /\ exec'[r].reply = reply /\ exec'[r].logged = logged
         /\ exec'[r].sent = exec[r].sent
  <1>1. exec[r].sent \in BOOLEAN
    BY DEF ExecState
  <1>2. [IdleExec EXCEPT !.pc = "done", !.reply = reply, !.logged = logged,
                         !.sent = exec[r].sent] \in ExecState
    BY <1>1 DEF IdleExec, ExecState, ExecPc, Scope
  <1>3. exec' = [exec EXCEPT ![r] = [IdleExec EXCEPT !.pc = "done", !.reply = reply,
                                       !.logged = logged, !.sent = exec[r].sent]]
    BY DEF EndExec
  <1>4. QED
    BY <1>2, <1>3 DEF IdleExec

\* ExecGoto and Deny.
LEMMA ExecGotoEffect ==
  ASSUME exec \in [Requests -> ExecState], NEW r \in Requests, NEW pc \in ExecPc,
         exec' = [exec EXCEPT ![r] = [@ EXCEPT !.pc = pc]]
  PROVE  /\ exec' \in [Requests -> ExecState]
         /\ \A q \in Requests : q # r => exec'[q] = exec[q]
         /\ exec'[r].pc = pc /\ exec'[r].agent = exec[r].agent /\ exec'[r].conn = exec[r].conn
         /\ exec'[r].op = exec[r].op /\ exec'[r].project = exec[r].project
         /\ exec'[r].reply = exec[r].reply /\ exec'[r].sent = exec[r].sent
         /\ exec'[r].touched = exec[r].touched
  <1>1. [exec[r] EXCEPT !.pc = pc] \in ExecState
    BY DEF ExecState
  <1>2. QED
    BY <1>1 DEF ExecState

LEMMA SendEffect ==
  ASSUME exec \in [Requests -> ExecState], NEW r \in Requests,
         exec' = [exec EXCEPT ![r] = [@ EXCEPT !.pc = "platform", !.sent = TRUE]]
  PROVE  /\ exec' \in [Requests -> ExecState]
         /\ \A q \in Requests : q # r => exec'[q] = exec[q]
         /\ exec'[r].pc = "platform" /\ exec'[r].sent = TRUE
         /\ exec'[r].agent = exec[r].agent /\ exec'[r].conn = exec[r].conn
         /\ exec'[r].op = exec[r].op
  <1> DEFINE e == [exec[r] EXCEPT !.pc = "platform", !.sent = TRUE]
  <1>1. /\ e \in ExecState
        /\ e.pc = "platform" /\ e.sent = TRUE /\ e.agent = exec[r].agent
        /\ e.conn = exec[r].conn /\ e.op = exec[r].op
    BY ZenonT(30) DEF ExecState, ExecPc
  <1>2. exec' = [exec EXCEPT ![r] = e]
    OBVIOUS
  <1> HIDE DEF e
  <1>3. QED
    BY <1>1, <1>2

LEMMA ReplyEffect ==
  ASSUME exec \in [Requests -> ExecState], NEW r \in Requests, NEW y \in {"ok", "error"},
         exec' = [exec EXCEPT ![r] = [@ EXCEPT !.pc = "audit", !.reply = y]]
  PROVE  /\ exec' \in [Requests -> ExecState]
         /\ \A q \in Requests : q # r => exec'[q] = exec[q]
         /\ exec'[r].pc = "audit" /\ exec'[r].reply = y /\ exec'[r].sent = exec[r].sent
         /\ exec'[r].agent = exec[r].agent /\ exec'[r].conn = exec[r].conn
         /\ exec'[r].op = exec[r].op
  <1> DEFINE e == [exec[r] EXCEPT !.pc = "audit", !.reply = y]
  <1>1. /\ e \in ExecState
        /\ e.pc = "audit" /\ e.reply = y /\ e.sent = exec[r].sent
        /\ e.agent = exec[r].agent /\ e.conn = exec[r].conn /\ e.op = exec[r].op
    BY ZenonT(30) DEF ExecState, ExecPc
  <1>2. exec' = [exec EXCEPT ![r] = e]
    OBVIOUS
  <1> HIDE DEF e
  <1>3. QED
    BY <1>1, <1>2

LEMMA ArriveEffect ==
  ASSUME exec \in [Requests -> ExecState], agentProject \in [Agents -> Scope],
         NEW r \in Requests, NEW a \in Agents, NEW c \in Conns \cup {None}, NEW op \in Ops,
         ExecArrive(r, a, c, op)
  PROVE  /\ exec' \in [Requests -> ExecState]
         /\ \A q \in Requests : q # r => exec'[q] = exec[q]
         /\ exec'[r].sent = FALSE
         /\ \/ exec'[r].pc = "done" /\ exec'[r].reply = "error" /\ exec'[r].logged = "none"
            \/ /\ exec'[r].pc = "findConn" /\ exec'[r].agent = a /\ exec'[r].conn = c
               /\ exec'[r].op = op /\ exec'[r].project = agentProject[a] /\ c \in Conns
  <1> DEFINE p == agentProject[a]
             e1 == [IdleExec EXCEPT !.pc = "done", !.reply = "error"]
             e2 == [IdleExec EXCEPT !.pc = "findConn", !.agent = a, !.conn = c, !.op = op,
                                    !.project = p]
  <1>1. p \in Scope
    OBVIOUS
  <1>2. exec' = [exec EXCEPT ![r] = IF c = None THEN e1 ELSE e2]
    BY DEF ExecArrive
  <1> HIDE DEF p
  <1>3. e1 \in ExecState /\ e2 \in ExecState
    BY <1>1 DEF IdleExec, ExecState, ExecPc, Scope
  <1>4. /\ e1.pc = "done" /\ e1.reply = "error" /\ e1.logged = "none" /\ e1.sent = FALSE
        /\ e2.pc = "findConn" /\ e2.agent = a /\ e2.conn = c /\ e2.op = op /\ e2.project = p
        /\ e2.sent = FALSE
    BY DEF IdleExec
  <1> HIDE DEF e1, e2
  <1>5. QED
    BY <1>2, <1>3, <1>4 DEF p

\* Touch marks what the change may have overtaken and leaves the rest alone.
LEMMA TouchEffect ==
  ASSUME exec \in [Requests -> ExecState], NEW As, NEW Cs, Touch(As, Cs)
  PROVE  /\ exec' \in [Requests -> ExecState]
         /\ \A r \in Requests :
              /\ exec'[r].pc = exec[r].pc /\ exec'[r].agent = exec[r].agent
              /\ exec'[r].conn = exec[r].conn /\ exec'[r].op = exec[r].op
              /\ exec'[r].project = exec[r].project /\ exec'[r].reply = exec[r].reply
              /\ exec'[r].logged = exec[r].logged /\ exec'[r].sent = exec[r].sent
              /\ ~exec'[r].touched =>
                   /\ ~exec[r].touched
                   /\ exec[r].pc \in {"findConn", "listWires", "getCred"}
                        => exec[r].agent \notin As /\ exec[r].conn \notin Cs
  <1> DEFINE Near(r) == /\ exec[r].pc \in {"findConn", "listWires", "getCred"}
                        /\ exec[r].agent \in As \/ exec[r].conn \in Cs
  <1>1. exec' = [r \in Requests |-> IF Near(r) THEN [exec[r] EXCEPT !.touched = TRUE] ELSE exec[r]]
    BY DEF Touch
  <1>2. \A r \in Requests : exec[r] \in ExecState
    OBVIOUS
  <1>3. ASSUME NEW r \in Requests
        PROVE  LET e == [exec[r] EXCEPT !.touched = TRUE] IN
               /\ e \in ExecState
               /\ e.pc = exec[r].pc /\ e.agent = exec[r].agent
               /\ e.conn = exec[r].conn /\ e.op = exec[r].op
               /\ e.project = exec[r].project /\ e.reply = exec[r].reply
               /\ e.logged = exec[r].logged /\ e.sent = exec[r].sent
               /\ e.touched
    BY <1>2 DEF ExecState
  <1>4. \A r \in Requests : ~Near(r) => (exec[r].pc \in {"findConn", "listWires", "getCred"}
                        => exec[r].agent \notin As /\ exec[r].conn \notin Cs)
    OBVIOUS
  <1> HIDE DEF Near
  <1>5. QED
    BY <1>1, <1>2, <1>3, <1>4

-----------------------------------------------------------------------------
(* What the steps do to an operator's call, field by field *)

\* The fields a call keeps while it runs.
SameBody(q, p) ==
  /\ q.op = p.op /\ q.agent = p.agent /\ q.conn = p.conn /\ q.project = p.project
  /\ q.ops = p.ops /\ q.limit = p.limit

LEMMA IdleCallType ==
  /\ IdleCall \in CallState /\ CallOK(IdleCall)
  /\ IdleCall.pc = "idle" /\ IdleCall.op = "none"
  BY ConnectionsAssumption DEF IdleCall, Body, CallState, Scope, CallOK

LEMMA EndCallEffect ==
  ASSUME call \in [Calls -> CallState], NEW k \in Calls, EndCall(k)
  PROVE  /\ call' \in [Calls -> CallState]
         /\ \A j \in Calls : j # k => call'[j] = call[j]
         /\ call'[k] = IdleCall
  BY IdleCallType DEF EndCall

LEMMA CallGotoEffect ==
  ASSUME call \in [Calls -> CallState], NEW k \in Calls, NEW pc \in {"loadConn", "write"},
         CallGoto(k, pc)
  PROVE  /\ call' \in [Calls -> CallState]
         /\ \A j \in Calls : j # k => call'[j] = call[j]
         /\ call'[k].pc = pc /\ SameBody(call'[k], call[k])
  <1> DEFINE q == [call[k] EXCEPT !.pc = pc]
  <1>1. q \in CallState /\ q.pc = pc /\ SameBody(q, call[k])
    BY DEF CallState, SameBody
  <1>2. call' = [call EXCEPT ![k] = q]
    BY DEF CallGoto
  <1> HIDE DEF q
  <1>3. QED
    BY <1>1, <1>2

LEMMA LoadAgentEffect ==
  ASSUME call \in [Calls -> CallState], agentProject \in [Agents -> Scope],
         NEW k \in Calls, CallOK(call[k]), NEW owned, LoadAgent(k, owned)
  PROVE  /\ call' \in [Calls -> CallState]
         /\ \A j \in Calls : j # k => call'[j] = call[j]
         /\ \/ call'[k] = IdleCall
            \/ call'[k].pc \in {"loadConn", "write"} /\ SameBody(call'[k], call[k])
         /\ call[k].op \in {"attach", "detach", "setProject"}
  <1>1. CASE EndCall(k)
    BY <1>1, EndCallEffect DEF LoadAgent
  <1> DEFINE p == agentProject[call[k].agent]
             pc == IF call[k].op = "attach" THEN "loadConn" ELSE "write"
             q == [call[k] EXCEPT !.pc = pc, !.seen = p]
  <1>2. CASE call' = [call EXCEPT ![k] = q]
    <2>1. p \in Scope /\ call[k].op \in {"attach", "detach", "setProject"}
      BY DEF LoadAgent, CallOK
    <2>2. pc \in {"loadConn", "write"}
      OBVIOUS
    <2> HIDE DEF p, pc
    <2>3. q \in CallState /\ q.pc = pc /\ SameBody(q, call[k])
      BY <2>1, <2>2 DEF CallState, SameBody
    <2> HIDE DEF q
    <2>4. QED
      BY <1>2, <2>1, <2>2, <2>3
  <1>3. QED
    BY <1>1, <1>2 DEF LoadAgent

\* Somebody joins p: only a deleteProject of p takes note.
LEMMA JoinedEffect ==
  ASSUME NEW cs \in [Calls -> CallState], NEW p
  PROVE  /\ Joined(cs, p) \in [Calls -> CallState]
         /\ \A k \in Calls :
              LET q == Joined(cs, p)[k] IN
              /\ SameBody(q, cs[k]) /\ q.pc = cs[k].pc
              /\ q.connsListed = cs[k].connsListed /\ q.cut = cs[k].cut
              /\ cs[k].raced => q.raced
              /\ cs[k].op = "deleteProject" /\ cs[k].project = p /\ p # None => q.raced
  <1> DEFINE Over(k) == cs[k].op = "deleteProject" /\ cs[k].project = p /\ p # None
  <1>1. Joined(cs, p) = [k \in Calls |-> IF Over(k) THEN [cs[k] EXCEPT !.raced = TRUE] ELSE cs[k]]
    BY DEF Joined
  <1>2. ASSUME NEW k \in Calls
        PROVE  LET q == [cs[k] EXCEPT !.raced = TRUE] IN
               /\ q \in CallState /\ SameBody(q, cs[k]) /\ q.pc = cs[k].pc
               /\ q.connsListed = cs[k].connsListed /\ q.cut = cs[k].cut
               /\ q.raced
    BY DEF CallState, SameBody
  <1>3. \A k \in Calls : Over(k) <=> (cs[k].op = "deleteProject" /\ cs[k].project = p /\ p # None)
    OBVIOUS
  <1>4. \A k \in Calls : SameBody(cs[k], cs[k]) /\ cs[k] \in CallState
    BY DEF SameBody
  <1> HIDE DEF Over
  <1>5. QED
    BY SMTT(30), <1>1, <1>2, <1>3, <1>4

LEMMA BodyType ==
  ASSUME NEW pc \in {"load", "list"}, NEW op \in CallOps, NEW a \in Agents \cup {None},
         NEW c \in Conns \cup {None}, NEW p \in Scope, NEW o \in SUBSET Ops, NEW l \in Limits
  PROVE  LET b == Body(pc, op, a, c, p, o, l) IN
         /\ b \in CallState /\ b.pc = pc /\ ~b.connsListed
         /\ b.op = op /\ b.agent = a /\ b.conn = c /\ b.project = p /\ b.limit = l
  <1>1. Limits \subseteq Nat
    BY ConnectionsAssumption
  <1>2. QED
    BY <1>1 DEF Body, CallState, Scope

LEMMA BodiesEffect ==
  ASSUME NEW b \in Bodies
  PROVE  /\ b \in CallState /\ CallOK(b)
         /\ b.pc \in {"load", "list"} /\ ~b.connsListed
         /\ b.op = "deleteProject" => b.pc = "list"
  <1>1. \E pc \in {"load", "list"}, op \in CallOps, a \in Agents \cup {None},
           c \in Conns \cup {None}, p \in Scope, o \in SUBSET Ops, l \in Limits :
          /\ b = Body(pc, op, a, c, p, o, l)
          /\ op \in {"update", "move", "deleteConn", "attach", "detach"} => c \in Conns
          /\ op \in {"attach", "detach", "setProject"} => a \in Agents
          /\ op = "deleteProject" => p \in Projects /\ pc = "list"
    <2>1. /\ {} \in OpSets /\ OpSets \subseteq SUBSET Ops /\ 0 \in Limits
          /\ None \in Scope /\ Projects \subseteq Scope
      BY ConnectionsAssumption DEF Scope
    <2>2. QED
      BY SMTT(30), <2>1 DEF Bodies, CallOps
  <1>2. QED
    BY <1>1, BodyType DEF CallOK

\* deleteProject: a listing is back.
LEMMA ListMembersEffect ==
  ASSUME call \in [Calls -> CallState], NEW k \in Calls, NEW kind \in {"agents", "conns"},
         ListMembers(k, kind)
  PROVE  /\ call' \in [Calls -> CallState]
         /\ \A j \in Calls : j # k => call'[j] = call[j]
         /\ CallAt(k, "list", "deleteProject")
         /\ \/ call'[k] = IdleCall
            \/ /\ SameBody(call'[k], call[k])
               /\ call'[k].pc \in {"list", "write"} /\ call'[k].raced = call[k].raced
               /\ call[k].cut => call'[k].cut
               /\ call[k].connsListed => call'[k].connsListed
               /\ call'[k].pc = "write" => call'[k].connsListed
               /\ call'[k].connsListed /\ ~call'[k].cut =>
                    \/ call[k].connsListed
                    \/ \A c \in LiveConns : conn[c].project # call[k].project
  <1> DEFINE q == call[k]
             rows == IF kind = "agents" THEN Agents ELSE LiveConns
             projectOf(x) == IF kind = "agents" THEN agentProject[x] ELSE conn[x].project
             back == IF kind = "agents" THEN q.connsListed ELSE q.agentsListed
             next(page) ==
               [q EXCEPT !.pc = IF back THEN "write" ELSE "list",
                         !.agentsListed = q.agentsListed \/ kind = "agents",
                         !.connsListed = q.connsListed \/ kind = "conns",
                         !.cut = q.cut \/ page # rows]
  <1>1. CallAt(k, "list", "deleteProject")
    BY DEF ListMembers
  <1>2. PICK page \in Pages(rows) :
          IF \E x \in page : projectOf(x) = q.project
          THEN EndCall(k)
          ELSE call' = [call EXCEPT ![k] = next(page)]
    BY DEF ListMembers
  <1>3. CASE EndCall(k)
    BY <1>1, <1>3, EndCallEffect
  <1>4. CASE /\ ~\E x \in page : projectOf(x) = q.project
             /\ call' = [call EXCEPT ![k] = next(page)]
    <2> DEFINE n == next(page)
               cut == page # rows
               al == q.agentsListed \/ kind = "agents"
               cl == q.connsListed \/ kind = "conns"
               ct == q.cut \/ cut
               pc == IF back THEN "write" ELSE "list"
    <2>0. /\ q \in CallState /\ q.agentsListed \in BOOLEAN /\ q.connsListed \in BOOLEAN
          /\ q.cut \in BOOLEAN
      BY DEF CallState
    <2>1. /\ al \in BOOLEAN /\ cl \in BOOLEAN /\ ct \in BOOLEAN
          /\ pc \in {"list", "write"}
      BY <2>0
    <2>2. n = [q EXCEPT !.pc = pc, !.agentsListed = al, !.connsListed = cl, !.cut = ct]
      OBVIOUS
    <2>3. ~cut /\ kind = "conns" => \A c \in LiveConns : conn[c].project # q.project
      BY <1>4
    <2>4. /\ pc = "write" => cl
          /\ q.cut => ct
          /\ q.connsListed => cl
      BY <2>0
    <2>5. cl /\ ~ct => q.connsListed \/ (~cut /\ kind = "conns")
      OBVIOUS
    <2> HIDE DEF cut, back, n, al, cl, ct, pc, q
    <2>6. /\ n \in CallState /\ SameBody(n, q)
          /\ n.pc = pc /\ n.raced = q.raced /\ n.cut = ct /\ n.connsListed = cl
      BY <2>0, <2>1, <2>2 DEF CallState, SameBody
    <2>7. call' = [call EXCEPT ![k] = n]
      BY <1>4 DEF n
    <2>8. /\ call' \in [Calls -> CallState] /\ call'[k] = n
          /\ \A j \in Calls : j # k => call'[j] = call[j]
      BY <2>6, <2>7
    <2>9. /\ SameBody(n, q) /\ n.pc \in {"list", "write"} /\ n.raced = q.raced
          /\ q.cut => n.cut
          /\ q.connsListed => n.connsListed
          /\ n.pc = "write" => n.connsListed
          /\ n.connsListed /\ ~n.cut =>
               q.connsListed \/ \A c \in LiveConns : conn[c].project # q.project
      BY <2>1, <2>3, <2>4, <2>5, <2>6
    <2>10. QED
      BY <1>1, <2>8, <2>9 DEF q
  <1> HIDE DEF rows, projectOf, next, q
  <1>5. QED
    BY <1>2, <1>3, <1>4

-----------------------------------------------------------------------------
(* Types *)

\* The counter after a hit: a window of its own, or the open one counted on.
LEMMA HitEffect ==
  ASSUME NEW b \in Bucket, NEW t \in Nat, NEW w \in Nat
  PROVE  /\ Hit(b, t, w) \in Bucket
         /\ b.resetAt <= t => Hit(b, t, w).count = 1 /\ Hit(b, t, w).resetAt = t + w
         /\ b.resetAt > t => /\ Hit(b, t, w).count = b.count + 1
                             /\ Hit(b, t, w).resetAt = b.resetAt
  <1>1. b.count \in Nat /\ b.resetAt \in Nat
    BY DEF Bucket
  <1>2. QED
    BY <1>1 DEF Hit, Bucket

\* The sweep takes nothing but windows that are over.
LEMMA SweepEffect ==
  ASSUME TypeOK
  PROVE  /\ SweptBuckets \in [Agents \X Conns -> Bucket]
         /\ \A w \in Agents \X Conns :
              \/ SweptBuckets[w] = bucket[w]
              \/ bucket[w].resetAt <= now /\ SweptBuckets[w] = NoBucket
  <1>1. bucket \in [Agents \X Conns -> Bucket] /\ NoBucket \in Bucket
    BY DEF TypeOK, NoBucket, Bucket
  <1>2. QED
    BY <1>1 DEF SweptBuckets, Swept

\* The limited execution of r is counted: verdict over, observer passed.
Counted(r, over) ==
  LET w == <<exec[r].agent, exec[r].conn>>
      hit == Hit(SweptBuckets[w], now, Window)
  IN /\ LimitOf(exec[r].agent, exec[r].conn) > 0
     /\ over <=> hit.count > LimitOf(exec[r].agent, exec[r].conn)
     /\ bucket' = [SweptBuckets EXCEPT ![w] = hit]
     /\ passed' = [passed EXCEPT ![w] =
          [count |-> (IF passed[w].resetAt = hit.resetAt THEN passed[w].count ELSE 0)
                     + (IF over THEN 0 ELSE 1),
           resetAt |-> hit.resetAt]]
     /\ lastSweep' = IF now - lastSweep < Window THEN lastSweep ELSE now

LEMMA ListWiresEffect ==
  ASSUME TypeInv, NEW r \in Requests, NEW v, ListWires(r, v)
  PROVE  /\ ExecAt(r, "listWires")
         /\ UNCHANGED <<bucket, passed, lastSweep>> \/ \E over \in BOOLEAN : Counted(r, over)
         /\ \/ Deny(r)
            \/ EndExec(r, "error", "none")
            \/ WireAllows(exec[r].agent, exec[r].conn, exec[r].op) /\ ExecGoto(r, "getCred")
         /\ UNCHANGED <<project, agentProject, conn, wire, call, writes, execs, now>>
  <1> DEFINE hit == Hit(SweptBuckets[<<exec[r].agent, exec[r].conn>>], now, Window)
             over == hit.count > LimitOf(exec[r].agent, exec[r].conn)
             limited == /\ WireAllows(exec[r].agent, exec[r].conn, exec[r].op)
                        /\ LimitOf(exec[r].agent, exec[r].conn) > 0
  <1>1. CASE ~limited
    BY <1>1 DEF ListWires
  <1>2. CASE limited
    <2>1. Counted(r, over)
      BY <1>2 DEF ListWires, Counted
    <2>2. over \in BOOLEAN
      OBVIOUS
    <2> HIDE DEF over
    <2>3. \E o \in BOOLEAN : Counted(r, o)
      BY <2>1, <2>2
    <2>4. QED
      BY <2>3 DEF ListWires
  <1>3. QED
    BY <1>1, <1>2

LEMMA CountedType ==
  ASSUME TypeInv, NEW r \in Requests, NEW over \in BOOLEAN, Counted(r, over),
         exec[r].agent \in Agents, exec[r].conn \in Conns
  PROVE  /\ bucket' \in [Agents \X Conns -> Bucket]
         /\ passed' \in [Agents \X Conns -> Bucket]
         /\ lastSweep' \in Nat
  <1> DEFINE w == <<exec[r].agent, exec[r].conn>>
             hit == Hit(SweptBuckets[w], now, Window)
             old == IF passed[w].resetAt = hit.resetAt THEN passed[w].count ELSE 0
             n == old + (IF over THEN 0 ELSE 1)
  <1>1. w \in Agents \X Conns
    OBVIOUS
  <1>2. /\ bucket' = [SweptBuckets EXCEPT ![w] = hit]
        /\ passed' = [passed EXCEPT ![w] = [count |-> n, resetAt |-> hit.resetAt]]
        /\ lastSweep' = IF now - lastSweep < Window THEN lastSweep ELSE now
    BY DEF Counted
  <1>3. /\ now \in Nat /\ Window \in Nat /\ lastSweep \in Nat
        /\ passed \in [Agents \X Conns -> Bucket]
        /\ SweptBuckets \in [Agents \X Conns -> Bucket]
    BY SweepEffect, ConnectionsAssumption DEF TypeInv, TypeOK
  <1>4. hit \in Bucket
    BY <1>1, <1>3, HitEffect
  <1>5. passed[w].count \in Nat /\ hit.resetAt \in Nat
    BY <1>1, <1>3, <1>4 DEF Bucket
  <1> HIDE DEF w, hit
  <1>6. n \in Nat
    BY <1>5
  <1> HIDE DEF n
  <1>7. QED
    BY <1>1, <1>2, <1>3, <1>4, <1>5, <1>6 DEF Bucket

LEMMA ExecStepType ==
  ASSUME TypeInv, NEW r \in Requests, ExecStep(r)
  PROVE  /\ TypeInv'
         /\ \A q \in Requests : q # r => exec'[q] = exec[q]
         /\ UNCHANGED <<project, agentProject, conn, wire, call, now>>
  <1>t. /\ exec \in [Requests -> ExecState] /\ agentProject \in [Agents -> Scope]
        /\ ExecOK(exec[r]) /\ exec[r] \in ExecState
    BY DEF TypeInv, TypeOK
  <1>p. exec[r].reply \in {"none", "ok", "error", "denied"} /\ exec[r].pc \in ExecPc
    BY <1>t DEF ExecState
  <1> DEFINE Good == /\ exec' \in [Requests -> ExecState]
                     /\ \A q \in Requests : q # r => exec'[q] = exec[q]
                     /\ ExecOK(exec'[r])
  <1>e. ASSUME NEW reply \in {"none", "ok", "error", "denied"},
               NEW logged \in {"none", "execute", "denied"}, EndExec(r, reply, logged)
        PROVE  Good
    BY <1>t, <1>e, EndExecEffect DEF ExecOK, InFlight
  <1>g. ASSUME NEW pc \in ExecPc, exec' = [exec EXCEPT ![r] = [@ EXCEPT !.pc = pc]],
               InFlight(exec[r])
        PROVE  Good
    BY <1>t, <1>g, ExecGotoEffect DEF ExecOK, InFlight
  <1>1. ASSUME NEW a \in Agents, NEW c \in Conns \cup {None}, NEW op \in Ops,
               ExecArrive(r, a, c, op)
        PROVE  Good
    <2>1. ExecArrive(r, a, c, op)
      BY <1>1
    <2>2. /\ exec' \in [Requests -> ExecState]
          /\ \A q \in Requests : q # r => exec'[q] = exec[q]
          /\ exec'[r].sent = FALSE
          /\ \/ exec'[r].pc = "done" /\ exec'[r].reply = "error" /\ exec'[r].logged = "none"
             \/ /\ exec'[r].pc = "findConn" /\ exec'[r].agent = a /\ exec'[r].conn = c
                /\ exec'[r].op = op /\ exec'[r].project = agentProject[a] /\ c \in Conns
      BY <1>t, <2>1, ArriveEffect, Zenon
    <2>3. QED
      BY <2>2 DEF ExecOK, InFlight
  <1>2. ASSUME FindConn(r) PROVE Good
    <2>1. InFlight(exec[r])
      BY <1>2 DEF FindConn, ExecAt, InFlight
    <2>2. \/ EndExec(r, "error", "none") \/ ExecGoto(r, "listWires") \/ Deny(r)
      BY <1>2 DEF FindConn
    <2> HIDE DEF Good
    <2>3. QED
      BY <1>e, <1>g, <2>1, <2>2 DEF ExecGoto, Deny, ExecPc
  <1>3. ASSUME NEW v, ListWires(r, v) PROVE Good
    <2>1. InFlight(exec[r])
      BY <1>3, ListWiresEffect DEF ExecAt, InFlight
    <2>2. \/ EndExec(r, "error", "none") \/ ExecGoto(r, "getCred") \/ Deny(r)
      BY <1>3, ListWiresEffect
    <2> HIDE DEF Good
    <2>3. QED
      BY <1>e, <1>g, <2>1, <2>2 DEF ExecGoto, Deny, ExecPc
  <1>4. ASSUME GetCredential(r) PROVE Good
    <2>1. InFlight(exec[r])
      BY <1>4 DEF GetCredential, ExecAt, InFlight
    <2>2. CASE EndExec(r, "error", "none")
      BY <1>e, <2>2
    <2>3. CASE exec' = [exec EXCEPT ![r] = [@ EXCEPT !.pc = "platform", !.sent = TRUE]]
      BY <1>t, <2>1, <2>3, SendEffect DEF ExecOK, InFlight
    <2>4. CASE exec' = [exec EXCEPT ![r] = [@ EXCEPT !.pc = "audit", !.reply = "error"]]
      BY <1>t, <2>1, <2>4, ReplyEffect DEF ExecOK, InFlight
    <2>5. QED
      BY <1>4, <2>2, <2>3, <2>4 DEF GetCredential
  <1>5. ASSUME NEW y \in {"ok", "error"}, PlatformAnswer(r, y) PROVE Good
    <2>1. InFlight(exec[r])
      BY <1>5 DEF PlatformAnswer, ExecAt, InFlight
    <2>2. exec' = [exec EXCEPT ![r] = [@ EXCEPT !.pc = "audit", !.reply = y]]
      BY <1>5 DEF PlatformAnswer
    <2>3. QED
      BY <1>t, <2>1, <2>2, ReplyEffect DEF ExecOK, InFlight
  <1>6. ASSUME AuditExecute(r) \/ AuditDenied(r) PROVE Good
    BY <1>e, <1>p, <1>6 DEF AuditExecute, AuditDenied
  <1> HIDE DEF Good
  <1>7. Good
    BY <1>1, <1>2, <1>3, <1>4, <1>5, <1>6 DEF ExecStep
  <1>8. UNCHANGED <<project, agentProject, conn, wire, call, now, writes>>
    BY DEF ExecStep, ExecArrive, FindConn, ListWires, GetCredential, PlatformAnswer,
           AuditExecute, AuditDenied
  <1>9. /\ bucket' \in [Agents \X Conns -> Bucket] /\ passed' \in [Agents \X Conns -> Bucket]
        /\ lastSweep' \in Nat
    <2>1. ASSUME NEW v, ListWires(r, v), ~UNCHANGED <<bucket, passed, lastSweep>> PROVE <1>9
      <3>1. exec[r].agent \in Agents /\ exec[r].conn \in Conns
        BY <1>t, <2>1, ListWiresEffect DEF ExecOK, InFlight, ExecAt
      <3>2. \E over \in BOOLEAN : Counted(r, over)
        BY <2>1, ListWiresEffect
      <3>3. QED
        BY <3>1, <3>2, CountedType
    <2>2. UNCHANGED <<bucket, passed, lastSweep>> => <1>9
      BY DEF TypeInv, TypeOK
    <2>3. QED
      BY <2>1, <2>2 DEF ExecStep, ExecArrive, FindConn, GetCredential, PlatformAnswer,
                        AuditExecute, AuditDenied
  <1>10. execs' \in Nat
    <2>1. execs \in Nat /\ (execs' = execs \/ execs' = execs + 1)
      BY DEF TypeInv, TypeOK, ExecStep, ExecArrive, FindConn, ListWires, GetCredential,
             PlatformAnswer, AuditExecute, AuditDenied
    <2>2. QED
      BY <2>1
  <1>11. TypeOK'
    BY <1>7, <1>8, <1>9, <1>10 DEF TypeInv, TypeOK, Good
  <1>12. QED
    BY <1>7, <1>8, <1>11 DEF TypeInv, Good

\* A call that ends, or that somebody joining p overtakes while another one ends.
LEMMA JoinedEndType ==
  ASSUME TypeInv, NEW k \in Calls, NEW p,
         call' = Joined([call EXCEPT ![k] = IdleCall], p)
  PROVE  /\ call' \in [Calls -> CallState]
         /\ \A j \in Calls : CallOK(call'[j])
  <1> DEFINE cs == [call EXCEPT ![k] = IdleCall]
  <1>1. cs \in [Calls -> CallState] /\ \A j \in Calls : CallOK(cs[j])
    BY IdleCallType DEF TypeInv, TypeOK
  <1>2. call' = Joined(cs, p)
    OBVIOUS
  <1> HIDE DEF cs
  <1>3. call' \in [Calls -> CallState] /\ \A j \in Calls : SameBody(call'[j], cs[j])
    BY <1>1, <1>2, JoinedEffect
  <1>4. QED
    BY <1>1, <1>3 DEF CallOK, SameBody

\* The step of one call leaves the others' fields and its own body alone.
LEMMA CallStepCalls ==
  ASSUME TypeInv, NEW k \in Calls, CallStep(k)
  PROVE  /\ call' \in [Calls -> CallState]
         /\ \A j \in Calls : CallOK(call'[j])
  <1>t. call \in [Calls -> CallState] /\ agentProject \in [Agents -> Scope]
    BY DEF TypeInv, TypeOK
  <1>o. \A j \in Calls : CallOK(call[j])
    BY DEF TypeInv
  <1> DEFINE Good == call' \in [Calls -> CallState] /\ \A j \in Calls : CallOK(call'[j])
  <1>s. ASSUME call' \in [Calls -> CallState],
               \A j \in Calls : j # k => call'[j] = call[j],
               call'[k] = IdleCall \/ SameBody(call'[k], call[k])
        PROVE  Good
    BY <1>o, <1>s, IdleCallType DEF CallOK, SameBody
  <1> HIDE DEF Good
  <1>1. ASSUME NEW body \in Bodies, CallArrive(k, body) PROVE Good
    <2>1. body \in CallState /\ CallOK(body)
      BY BodiesEffect
    <2>2. call' = [call EXCEPT ![k] = body]
      BY <1>1 DEF CallArrive
    <2>3. QED
      BY <1>t, <1>o, <2>1, <2>2 DEF Good
  <1>2. ASSUME EndCall(k) PROVE Good
    BY <1>t, <1>s, <1>2, EndCallEffect
  <1>3. ASSUME NEW pc \in {"loadConn", "write"}, CallGoto(k, pc) PROVE Good
    BY <1>t, <1>s, <1>3, CallGotoEffect
  <1>4. ASSUME NEW owned, LoadAgent(k, owned) PROVE Good
    BY <1>t, <1>o, <1>s, <1>4, LoadAgentEffect
  <1>5. ASSUME NEW kind \in {"agents", "conns"}, ListMembers(k, kind) PROVE Good
    BY <1>t, <1>s, <1>5, ListMembersEffect
  <1>6. ASSUME NEW p, call' = Joined([call EXCEPT ![k] = IdleCall], p) PROVE Good
    BY <1>6, JoinedEndType DEF Good
  <1>7. ASSUME LoadConnection(k) \/ AttachLoadConn(k) PROVE Good
    BY <1>2, <1>3, <1>7 DEF LoadConnection, AttachLoadConn
  <1>8. ASSUME UpdateConnection(k) PROVE Good
    BY <1>2, <1>6, <1>8 DEF UpdateConnection
  <1>9. ASSUME SetAgentProject(k) PROVE Good
    BY <1>2, <1>6, <1>9 DEF SetAgentProject
  <1>10. ASSUME \/ DeleteConnection(k) \/ AttachConnection(k) \/ DetachConnection(k)
                \/ DeleteProject(k)
         PROVE  Good
    BY <1>2, <1>10 DEF DeleteConnection, AttachConnection, DetachConnection, DeleteProject
  <1>11. Good
    BY <1>1, <1>4, <1>5, <1>7, <1>8, <1>9, <1>10 DEF CallStep
  <1>12. QED
    BY <1>11 DEF Good

\* What a step of an operator's call does to the rows it writes.
LEMMA UpdateRow ==
  ASSUME TypeInv, NEW k \in Calls, UpdateConnection(k), conn' # conn
  PROVE  LET c == call[k].conn
             p == call[k].project
         IN /\ c \in Conns /\ conn' \in [Conns -> ConnRow]
            /\ \A d \in Conns : d # c => conn'[d] = conn[d]
            /\ conn[c].live /\ conn'[c].live
            /\ \/ conn'[c].project = conn[c].project
               \/ call[k].op = "move" /\ conn'[c].project = p
            /\ call' = Joined([call EXCEPT ![k] = IdleCall], p)
            /\ Touch({}, {c})
  <1> DEFINE c == call[k].conn
             p == call[k].project
             moved == [conn[c] EXCEPT !.project = p]
             row == IF call[k].op = "move" THEN moved
                                           ELSE [conn[c] EXCEPT !.allowed = call[k].ops]
  <1>1. c \in Conns /\ conn \in [Conns -> ConnRow] /\ p \in Scope /\ call[k].ops \in SUBSET Ops
    BY DEF TypeInv, TypeOK, CallOK, CallState, UpdateConnection
  <1>2. conn' = [conn EXCEPT ![c] = row] /\ conn[c].live
        /\ call' = Joined([call EXCEPT ![k] = IdleCall], p) /\ Touch({}, {c})
    BY DEF UpdateConnection
  <1>3. /\ row \in ConnRow /\ row.live = conn[c].live
        /\ row.project = conn[c].project \/ (call[k].op = "move" /\ row.project = p)
    BY <1>1 DEF ConnRow
  <1> HIDE DEF row
  <1>4. conn' \in [Conns -> ConnRow] /\ conn'[c] = row /\ \A d \in Conns : d # c => conn'[d] = conn[d]
    BY <1>1, <1>2, <1>3
  <1>5. QED
    BY <1>1, <1>2, <1>3, <1>4

LEMMA DeleteRow ==
  ASSUME TypeInv, NEW k \in Calls, DeleteConnection(k)
  PROVE  LET c == call[k].conn
         IN /\ c \in Conns /\ conn' \in [Conns -> ConnRow]
            /\ \A d \in Conns : d # c => conn'[d] = conn[d]
            /\ ~conn'[c].live /\ conn'[c].project = conn[c].project
            /\ wire' \in [Agents \X Conns -> WireRow]
            /\ \A w \in Agents \X Conns : wire'[w] = IF w[2] = c THEN NoWire ELSE wire[w]
            /\ Touch({a \in Agents : wire[<<a, c>>].on}, {c})
  <1> DEFINE c == call[k].conn
             row == [conn[c] EXCEPT !.live = FALSE]
  <1>1. c \in Conns /\ conn \in [Conns -> ConnRow] /\ wire \in [Agents \X Conns -> WireRow]
    BY DEF TypeInv, TypeOK, CallOK, DeleteConnection, CallAt
  <1>2. /\ conn' = [conn EXCEPT ![c] = row]
        /\ wire' = [w \in Agents \X Conns |-> IF w[2] = c THEN NoWire ELSE wire[w]]
        /\ Touch({a \in Agents : wire[<<a, c>>].on}, {c})
    BY DEF DeleteConnection
  <1>3. row \in ConnRow /\ row.live = FALSE /\ row.project = conn[c].project /\ NoWire \in WireRow
    BY <1>1 DEF ConnRow, NoWire, WireRow
  <1> HIDE DEF row
  <1>4. QED
    BY <1>1, <1>2, <1>3

LEMMA AttachRow ==
  ASSUME TypeInv, NEW k \in Calls, AttachConnection(k), wire' # wire
  PROVE  LET w == <<call[k].agent, call[k].conn>>
         IN /\ w \in Agents \X Conns /\ wire' \in [Agents \X Conns -> WireRow]
            /\ \A v \in Agents \X Conns : v # w => wire'[v] = wire[v]
            /\ wire'[w].on /\ wire'[w].limit \in Limits
            /\ Touch({call[k].agent}, {})
  <1> DEFINE w == <<call[k].agent, call[k].conn>>
             row == [on |-> TRUE, ops |-> call[k].ops, limit |-> call[k].limit]
  <1>1. w \in Agents \X Conns /\ wire \in [Agents \X Conns -> WireRow]
    BY DEF TypeInv, TypeOK, CallOK, AttachConnection, CallAt
  <1>2. wire' = [wire EXCEPT ![w] = row] /\ Touch({call[k].agent}, {})
    BY DEF AttachConnection
  <1>3. call[k].ops \in SUBSET Ops /\ call[k].limit \in Nat /\ call[k].limit \in Limits
    BY DEF TypeInv, TypeOK, CallOK, CallState
  <1>4. row \in WireRow /\ row.on /\ row.limit \in Limits
    BY <1>3 DEF WireRow
  <1> HIDE DEF row, w
  <1>5. /\ w \in Agents \X Conns /\ wire' \in [Agents \X Conns -> WireRow]
        /\ \A v \in Agents \X Conns : v # w => wire'[v] = wire[v]
        /\ wire'[w].on /\ wire'[w].limit \in Limits
    BY <1>1, <1>2, <1>4
  <1>6. QED
    BY <1>2, <1>5 DEF w

LEMMA DetachRow ==
  ASSUME TypeInv, NEW k \in Calls, DetachConnection(k)
  PROVE  LET w == <<call[k].agent, call[k].conn>>
         IN /\ w \in Agents \X Conns /\ wire' \in [Agents \X Conns -> WireRow]
            /\ \A v \in Agents \X Conns : v # w => wire'[v] = wire[v]
            /\ wire'[w] = NoWire
            /\ Touch({call[k].agent}, {})
  <1> DEFINE w == <<call[k].agent, call[k].conn>>
  <1>1. w \in Agents \X Conns /\ wire \in [Agents \X Conns -> WireRow]
    BY DEF TypeInv, TypeOK, CallOK, DetachConnection, CallAt
  <1>2. wire' = [wire EXCEPT ![w] = NoWire] /\ Touch({call[k].agent}, {}) /\ NoWire \in WireRow
    BY DEF DetachConnection, NoWire, WireRow
  <1> HIDE DEF w
  <1>3. /\ w \in Agents \X Conns /\ wire' \in [Agents \X Conns -> WireRow]
        /\ \A v \in Agents \X Conns : v # w => wire'[v] = wire[v]
        /\ wire'[w] = NoWire
    BY <1>1, <1>2
  <1>4. QED
    BY <1>2, <1>3 DEF w

LEMMA SetProjectRow ==
  ASSUME TypeInv, NEW k \in Calls, SetAgentProject(k), agentProject' # agentProject
  PROVE  LET a == call[k].agent
         IN /\ a \in Agents /\ agentProject' \in [Agents -> Scope]
            /\ \A b \in Agents : b # a => agentProject'[b] = agentProject[b]
            /\ Touch({a}, {})
  <1> DEFINE a == call[k].agent
             p == call[k].project
  <1>1. a \in Agents /\ agentProject \in [Agents -> Scope] /\ p \in Scope
    BY DEF TypeInv, TypeOK, CallOK, CallState, SetAgentProject, CallAt
  <1>2. agentProject' = [agentProject EXCEPT ![a] = p] /\ Touch({a}, {})
    BY DEF SetAgentProject
  <1>3. QED
    BY <1>1, <1>2

LEMMA DeleteProjectRows ==
  ASSUME TypeInv, NEW k \in Calls, DeleteProject(k)
  PROVE  LET p == call[k].project
         IN /\ p \in Projects
            /\ project' \in SUBSET Projects
            /\ agentProject' \in [Agents -> Scope] /\ conn' \in [Conns -> ConnRow]
            /\ \A a \in Agents : agentProject[a] # p => agentProject'[a] = agentProject[a]
            /\ \A c \in Conns : /\ conn'[c].live = conn[c].live
                                /\ conn[c].project # p => conn'[c] = conn[c]
                                /\ conn[c].project = p => conn'[c].project = None
            /\ Touch({a \in Agents : agentProject[a] = p}, {c \in Conns : conn[c].project = p})
  <1> DEFINE p == call[k].project
             As == {a \in Agents : agentProject[a] = p}
             Cs == {c \in Conns : conn[c].project = p}
  <1>1. /\ p \in Projects /\ agentProject \in [Agents -> Scope] /\ conn \in [Conns -> ConnRow]
        /\ project \in SUBSET Projects
    BY DEF TypeInv, TypeOK, CallOK, DeleteProject, CallAt
  <1>2. /\ project' = project \ {p}
        /\ agentProject' = [a \in Agents |-> IF a \in As THEN None ELSE agentProject[a]]
        /\ conn' = [c \in Conns |->
                      IF c \in Cs THEN [conn[c] EXCEPT !.project = None] ELSE conn[c]]
        /\ Touch(As, Cs)
    BY DEF DeleteProject
  <1>3. ASSUME NEW c \in Conns
        PROVE  LET row == [conn[c] EXCEPT !.project = None] IN
               row \in ConnRow /\ row.live = conn[c].live /\ row.project = None
    BY <1>1 DEF ConnRow, Scope
  <1>4. None \in Scope
    BY DEF Scope
  <1>5. /\ project' \in SUBSET Projects /\ agentProject' \in [Agents -> Scope]
        /\ \A a \in Agents : agentProject[a] # p => agentProject'[a] = agentProject[a]
    BY <1>1, <1>2, <1>4
  <1>6. /\ conn' \in [Conns -> ConnRow]
        /\ \A c \in Conns : /\ conn'[c].live = conn[c].live
                            /\ conn[c].project # p => conn'[c] = conn[c]
                            /\ conn[c].project = p => conn'[c].project = None
    BY <1>1, <1>2, <1>3
  <1>7. QED
    BY <1>1, <1>2, <1>5, <1>6

\* An operator's call does no more to executions than to mark them.
LEMMA CallStepExecs ==
  ASSUME TypeInv, NEW k \in Calls, CallStep(k)
  PROVE  /\ exec' = exec \/ \E As, Cs : Touch(As, Cs)
         /\ UNCHANGED <<bucket, passed, lastSweep, execs, now>>
         /\ writes' = writes \/ writes' = writes + 1
  <1>1. exec' = exec \/ \E As, Cs : Touch(As, Cs)
    <2>1. ASSUME NEW kind, ListMembers(k, kind) PROVE exec' = exec
      BY <2>1 DEF ListMembers
    <2>2. \/ UpdateConnection(k) \/ DeleteConnection(k) \/ AttachConnection(k)
          \/ DetachConnection(k) \/ SetAgentProject(k) \/ DeleteProject(k)
          => <1>1
      BY DEF UpdateConnection, DeleteConnection, AttachConnection, DetachConnection,
             SetAgentProject, DeleteProject
    <2>3. ASSUME NEW body, NEW owned,
                 \/ CallArrive(k, body) \/ LoadConnection(k) \/ LoadAgent(k, owned)
                 \/ AttachLoadConn(k)
          PROVE  exec' = exec
      BY <2>3 DEF CallArrive, LoadConnection, LoadAgent, AttachLoadConn
    <2>4. QED
      BY <2>1, <2>2, <2>3 DEF CallStep
  <1>2. /\ UNCHANGED <<bucket, passed, lastSweep, execs, now>>
        /\ writes' = writes \/ writes' = writes + 1
    <2>1. ASSUME NEW kind, ListMembers(k, kind) PROVE <1>2
      BY <2>1 DEF ListMembers
    <2>2. \/ UpdateConnection(k) \/ DeleteConnection(k) \/ AttachConnection(k)
          \/ DetachConnection(k) \/ SetAgentProject(k) \/ DeleteProject(k)
          => <1>2
      BY DEF UpdateConnection, DeleteConnection, AttachConnection, DetachConnection,
             SetAgentProject, DeleteProject
    <2>3. ASSUME NEW body, NEW owned,
                 \/ CallArrive(k, body) \/ LoadConnection(k) \/ LoadAgent(k, owned)
                 \/ AttachLoadConn(k)
          PROVE  <1>2
      BY <2>3 DEF CallArrive, LoadConnection, LoadAgent, AttachLoadConn
    <2>4. QED
      BY <2>1, <2>2, <2>3 DEF CallStep
  <1>3. QED
    BY <1>1, <1>2

\* Which calls write which rows.
LEMMA CallStepRows ==
  ASSUME TypeInv, NEW k \in Calls, CallStep(k)
  PROVE  /\ conn' = conn \/ UpdateConnection(k) \/ DeleteConnection(k) \/ DeleteProject(k)
         /\ wire' = wire \/ DeleteConnection(k) \/ AttachConnection(k) \/ DetachConnection(k)
         /\ agentProject' = agentProject \/ SetAgentProject(k) \/ DeleteProject(k)
         /\ project' = project \/ DeleteProject(k)
  <1>1. ASSUME NEW kind, ListMembers(k, kind)
        PROVE  UNCHANGED <<conn, wire, agentProject, project>>
    BY <1>1 DEF ListMembers
  <1>2. ASSUME NEW body, NEW owned,
               \/ CallArrive(k, body) \/ LoadConnection(k) \/ LoadAgent(k, owned)
               \/ AttachLoadConn(k)
        PROVE  UNCHANGED <<conn, wire, agentProject, project>>
    BY <1>2 DEF CallArrive, LoadConnection, LoadAgent, AttachLoadConn
  <1>3. /\ UpdateConnection(k) => UNCHANGED <<wire, agentProject, project>>
        /\ DeleteConnection(k) => UNCHANGED <<agentProject, project>>
        /\ AttachConnection(k) => UNCHANGED <<conn, agentProject, project>>
        /\ DetachConnection(k) => UNCHANGED <<conn, agentProject, project>>
        /\ SetAgentProject(k) => UNCHANGED <<conn, wire, project>>
        /\ DeleteProject(k) => UNCHANGED wire
    BY DEF UpdateConnection, DeleteConnection, AttachConnection, DetachConnection,
           SetAgentProject, DeleteProject
  <1>4. QED
    BY <1>1, <1>2, <1>3 DEF CallStep

LEMMA CallStepType ==
  ASSUME TypeInv, NEW k \in Calls, CallStep(k)
  PROVE  TypeInv'
  <1>1. /\ call' \in [Calls -> CallState] /\ \A j \in Calls : CallOK(call'[j])
    BY CallStepCalls
  <1>2. /\ exec' \in [Requests -> ExecState] /\ \A r \in Requests : ExecOK(exec'[r])
    <2>1. exec \in [Requests -> ExecState] /\ \A r \in Requests : ExecOK(exec[r])
      BY DEF TypeInv, TypeOK
    <2>2. ASSUME NEW As, NEW Cs, Touch(As, Cs) PROVE <1>2
      BY <2>1, <2>2, TouchEffect DEF ExecOK, InFlight
    <2>3. QED
      BY <2>1, <2>2, CallStepExecs
  <1>3. /\ conn' \in [Conns -> ConnRow] /\ agentProject' \in [Agents -> Scope]
        /\ project' \in SUBSET Projects
    BY CallStepRows, UpdateRow, DeleteRow, SetProjectRow, DeleteProjectRows DEF TypeInv, TypeOK
  <1>4. /\ wire' \in [Agents \X Conns -> WireRow]
        /\ \A w \in Agents \X Conns : wire'[w].limit \in Limits
    <2>1. /\ wire \in [Agents \X Conns -> WireRow]
          /\ \A w \in Agents \X Conns : wire[w].limit \in Limits
          /\ NoWire.limit \in Limits
      BY ConnectionsAssumption DEF TypeInv, TypeOK, NoWire
    <2>2. ASSUME DeleteConnection(k) PROVE <1>4
      BY <2>1, <2>2, DeleteRow
    <2>3. ASSUME AttachConnection(k), wire' # wire PROVE <1>4
      BY <2>1, <2>3, AttachRow
    <2>4. ASSUME DetachConnection(k) PROVE <1>4
      BY <2>1, <2>4, DetachRow
    <2>5. QED
      BY <2>1, <2>2, <2>3, <2>4, CallStepRows
  <1>5. writes' \in Nat /\ UNCHANGED <<bucket, passed, lastSweep, execs, now>>
    <2>1. writes \in Nat
      BY DEF TypeInv, TypeOK
    <2>2. QED
      BY <2>1, CallStepExecs
  <1>6. QED
    BY <1>1, <1>2, <1>3, <1>4, <1>5 DEF TypeInv, TypeOK

LEMMA RegisterEffect ==
  ASSUME TypeInv, NEW c \in Conns, NEW p \in Scope, NEW ops \in OpSets,
         RegisterConnection(c, p, ops)
  PROVE  /\ TypeInv'
         /\ ~conn[c].live /\ conn'[c].project = p
         /\ \A d \in Conns : d # c => conn'[d] = conn[d]
         /\ call' = Joined(call, p)
         /\ UNCHANGED <<project, agentProject, wire, bucket, passed, lastSweep, exec, execs, now>>
  <1> DEFINE row == [live |-> TRUE, project |-> p, allowed |-> ops]
  <1>1. /\ conn' = [conn EXCEPT ![c] = row] /\ ~conn[c].live /\ call' = Joined(call, p)
        /\ UNCHANGED <<project, agentProject, wire, bucket, passed, lastSweep, exec, execs, now>>
        /\ writes' = writes + 1
    BY DEF RegisterConnection
  <1>2. row \in ConnRow /\ row.project = p
    BY ConnectionsAssumption DEF ConnRow
  <1> HIDE DEF row
  <1>3. conn \in [Conns -> ConnRow] /\ call \in [Calls -> CallState] /\ writes \in Nat
    BY DEF TypeInv, TypeOK
  <1>4. call' \in [Calls -> CallState] /\ \A k \in Calls : SameBody(call'[k], call[k])
    BY <1>1, <1>3, JoinedEffect
  <1>5. \A k \in Calls : CallOK(call'[k])
    BY <1>4 DEF TypeInv, CallOK, SameBody
  <1>6. conn' \in [Conns -> ConnRow] /\ conn'[c] = row
        /\ \A d \in Conns : d # c => conn'[d] = conn[d]
    BY <1>1, <1>2, <1>3
  <1>7. writes' \in Nat
    BY <1>1, <1>3
  <1>8. TypeInv'
    BY <1>1, <1>4, <1>5, <1>6, <1>7 DEF TypeInv, TypeOK
  <1>9. QED
    BY <1>1, <1>2, <1>6, <1>8

LEMMA CrashEffect ==
  ASSUME TypeInv, Crash
  PROVE  /\ TypeInv'
         /\ exec' = [r \in Requests |-> IdleExec] /\ call' = [k \in Calls |-> IdleCall]
         /\ passed' = [w \in Agents \X Conns |-> NoBucket]
         /\ UNCHANGED <<project, agentProject, conn, wire, now>>
  <1>1. /\ exec' = [r \in Requests |-> IdleExec] /\ call' = [k \in Calls |-> IdleCall]
        /\ passed' = [w \in Agents \X Conns |-> NoBucket]
        /\ bucket' = [w \in Agents \X Conns |-> NoBucket]
        /\ lastSweep' = now
        /\ UNCHANGED <<project, agentProject, conn, wire, writes, execs, now>>
    BY DEF Crash
  <1>2. /\ exec' \in [Requests -> ExecState] /\ \A r \in Requests : ExecOK(exec'[r])
    BY <1>1, IdleExecType DEF ExecOK, InFlight
  <1>3. /\ call' \in [Calls -> CallState] /\ \A k \in Calls : CallOK(call'[k])
    BY <1>1, IdleCallType
  <1>4. /\ passed' \in [Agents \X Conns -> Bucket] /\ bucket' \in [Agents \X Conns -> Bucket]
    BY <1>1 DEF NoBucket, Bucket
  <1>5. TypeInv'
    BY <1>1, <1>2, <1>3, <1>4 DEF TypeInv, TypeOK
  <1>6. QED
    BY <1>1, <1>5

LEMMA OtherEffect ==
  ASSUME TypeInv, Tick \/ (\E p \in Projects : CreateProject(p)) \/ UNCHANGED vars
  PROVE  /\ TypeInv'
         /\ UNCHANGED <<agentProject, conn, wire, bucket, passed, exec, call>>
         /\ now' >= now
  <1>1. CASE Tick
    BY <1>1 DEF Tick, TypeInv, TypeOK
  <1>2. ASSUME NEW p \in Projects, CreateProject(p)
        PROVE  /\ TypeInv'
               /\ UNCHANGED <<agentProject, conn, wire, bucket, passed, exec, call>>
               /\ now' >= now
    BY <1>2 DEF CreateProject, TypeInv, TypeOK
  <1>3. CASE UNCHANGED vars
    BY <1>3 DEF vars, TypeInv, TypeOK
  <1>4. QED
    BY <1>1, <1>2, <1>3

LEMMA InitType == Init => TypeInv
  <1> SUFFICES ASSUME Init PROVE TypeInv
    OBVIOUS
  <1>1. /\ exec \in [Requests -> ExecState] /\ \A r \in Requests : ExecOK(exec[r])
    BY IdleExecType DEF Init, ExecOK, InFlight
  <1>2. /\ call \in [Calls -> CallState] /\ \A k \in Calls : CallOK(call[k])
    BY IdleCallType DEF Init
  <1>3. /\ passed \in [Agents \X Conns -> Bucket] /\ bucket \in [Agents \X Conns -> Bucket]
    BY DEF Init, NoBucket, Bucket
  <1>4. conn \in [Conns -> ConnRow]
    <2> DEFINE NoOps == {{}}
               Rows == [live: {TRUE}, project: Scope, allowed: NoOps]
    <2>1. NoOps \subseteq SUBSET Ops
      OBVIOUS
    <2>2. conn \in [Conns -> {NoConn} \cup Rows]
      BY DEF Init
    <2>3. NoConn \in ConnRow
      BY DEF NoConn, ConnRow, Scope
    <2> HIDE DEF NoOps
    <2>4. Rows \subseteq ConnRow
      BY <2>1 DEF ConnRow
    <2> HIDE DEF Rows
    <2>5. QED
      BY <2>2, <2>3, <2>4
  <1>5. /\ wire \in [Agents \X Conns -> WireRow]
        /\ \A w \in Agents \X Conns : wire[w].limit \in Limits
    <2> DEFINE Rows == {NoWire} \cup [on: {TRUE}, ops: {{}}, limit: {0}]
    <2>1. \A row \in Rows : row \in WireRow /\ row.limit \in Limits
      <3>1. 0 \in Limits
        BY ConnectionsAssumption
      <3>2. NoWire \in WireRow /\ NoWire.limit = 0
        BY DEF NoWire, WireRow
      <3> DEFINE NoOps == {{}}
                 Zero == {0}
      <3>3. ASSUME NEW row \in [on: {TRUE}, ops: NoOps, limit: Zero]
            PROVE  row \in WireRow /\ row.limit = 0
        <4>1. NoOps \subseteq SUBSET Ops /\ Zero \subseteq Nat /\ \A z \in Zero : z = 0
          OBVIOUS
        <4> HIDE DEF NoOps, Zero
        <4>2. QED
          BY <3>3, <4>1 DEF WireRow
      <3>4. QED
        BY <3>1, <3>2, <3>3
    <2>2. wire \in [Agents \X Conns -> Rows]
      BY DEF Init
    <2> HIDE DEF Rows
    <2>3. QED
      BY <2>1, <2>2
  <1>6. QED
    BY <1>1, <1>2, <1>3, <1>4, <1>5 DEF Init, TypeInv, TypeOK

LEMMA NextType == TypeInv /\ [Next]_vars => TypeInv'
  BY ExecStepType, CallStepType, RegisterEffect, CrashEffect, OtherEffect DEF Next

\* The rows, the counters and everything in flight stay well formed.
THEOREM ConnectionsTypes == Spec => []TypeOK
  <1>1. TypeInv => TypeOK
    BY DEF TypeInv
  <1>2. QED
    BY <1>1, InitType, NextType, PTL DEF Spec

-----------------------------------------------------------------------------
(* The audit trail *)

\* An execution as the audit trail may find it: what each await is sure of.
AuditOK(e) ==
  /\ e.pc = "done" =>
       /\ e.reply = "ok" => e.sent /\ e.logged = "execute"
       /\ e.sent /\ e.logged = "none" => e.reply = "error"
       /\ e.logged = "denied" => ~e.sent
  /\ e.pc \in {"idle", "findConn", "listWires", "getCred", "auditDenied"} => ~e.sent
  /\ e.pc = "platform" => e.sent
  /\ e.pc = "audit" => e.reply \in {"ok", "error"} /\ (e.reply = "ok" => e.sent)

AuditInv == TypeInv /\ \A r \in Requests : AuditOK(exec[r])

LEMMA AuditEnd ==
  ASSUME TypeInv, NEW r \in Requests, NEW reply \in {"none", "ok", "error", "denied"},
         NEW logged \in {"none", "execute", "denied"}, EndExec(r, reply, logged),
         reply = "ok" => exec[r].sent /\ logged = "execute",
         exec[r].sent /\ logged = "none" => reply = "error",
         logged = "denied" => ~exec[r].sent
  PROVE  AuditOK(exec'[r])
  <1>1. exec \in [Requests -> ExecState]
    BY DEF TypeInv, TypeOK
  <1>2. /\ exec'[r].pc = "done" /\ exec'[r].reply = reply /\ exec'[r].logged = logged
        /\ exec'[r].sent = exec[r].sent
    BY <1>1, EndExecEffect
  <1>3. QED
    BY <1>2 DEF AuditOK

LEMMA AuditGoto ==
  ASSUME TypeInv, NEW r \in Requests, NEW pc \in {"listWires", "getCred", "auditDenied"},
         exec' = [exec EXCEPT ![r] = [@ EXCEPT !.pc = pc]], ~exec[r].sent
  PROVE  AuditOK(exec'[r])
  <1>1. exec \in [Requests -> ExecState] /\ pc \in ExecPc
    BY DEF TypeInv, TypeOK, ExecPc
  <1>2. exec'[r].pc = pc /\ exec'[r].sent = exec[r].sent
    BY <1>1, ExecGotoEffect
  <1>3. QED
    BY <1>2 DEF AuditOK

LEMMA AuditExecStep ==
  ASSUME AuditInv, NEW r \in Requests, ExecStep(r)
  PROVE  AuditInv'
  <1>t. /\ TypeInv /\ AuditOK(exec[r]) /\ exec \in [Requests -> ExecState]
        /\ agentProject \in [Agents -> Scope] /\ exec[r].sent \in BOOLEAN
        /\ exec[r].reply \in {"none", "ok", "error", "denied"}
    BY DEF AuditInv, TypeInv, TypeOK, ExecState
  <1>1. ASSUME NEW a \in Agents, NEW c \in Conns \cup {None}, NEW op \in Ops,
               ExecArrive(r, a, c, op)
        PROVE  AuditOK(exec'[r])
    <2>1. ExecArrive(r, a, c, op)
      BY <1>1
    <2>2. /\ exec'[r].sent = FALSE
          /\ \/ exec'[r].pc = "done" /\ exec'[r].reply = "error" /\ exec'[r].logged = "none"
             \/ /\ exec'[r].pc = "findConn" /\ exec'[r].agent = a /\ exec'[r].conn = c
                /\ exec'[r].op = op /\ exec'[r].project = agentProject[a] /\ c \in Conns
      BY <1>t, <2>1, ArriveEffect, Zenon
    <2>3. QED
      BY <2>2 DEF AuditOK
  <1>2. ASSUME \/ FindConn(r) \/ \E v \in {"allow", "deny", "noDriver"} : ListWires(r, v)
        PROVE  AuditOK(exec'[r])
    <2>1. ~exec[r].sent
      BY <1>t, <1>2, ListWiresEffect DEF FindConn, ExecAt, AuditOK
    <2>2. \/ EndExec(r, "error", "none") \/ ExecGoto(r, "listWires") \/ ExecGoto(r, "getCred")
          \/ Deny(r)
      <3>1. FindConn(r) => <2>2
        BY DEF FindConn
      <3>2. QED
        BY <1>t, <1>2, <3>1, ListWiresEffect
    <2>3. QED
      BY <1>t, <2>1, <2>2, AuditEnd, AuditGoto DEF ExecGoto, Deny
  <1>3. ASSUME GetCredential(r) PROVE AuditOK(exec'[r])
    <2>1. ~exec[r].sent
      BY <1>t, <1>3 DEF GetCredential, ExecAt, AuditOK
    <2>2. CASE EndExec(r, "error", "none")
      BY <1>t, <2>1, <2>2, AuditEnd
    <2>3. CASE exec' = [exec EXCEPT ![r] = [@ EXCEPT !.pc = "platform", !.sent = TRUE]]
      BY <1>t, <2>3, SendEffect DEF AuditOK
    <2>4. CASE exec' = [exec EXCEPT ![r] = [@ EXCEPT !.pc = "audit", !.reply = "error"]]
      BY <1>t, <2>4, ReplyEffect DEF AuditOK
    <2>5. QED
      BY <1>3, <2>2, <2>3, <2>4 DEF GetCredential
  <1>4. ASSUME NEW y \in {"ok", "error"}, PlatformAnswer(r, y) PROVE AuditOK(exec'[r])
    <2>1. exec[r].sent
      BY <1>t, <1>4 DEF PlatformAnswer, ExecAt, AuditOK
    <2>2. exec' = [exec EXCEPT ![r] = [@ EXCEPT !.pc = "audit", !.reply = y]]
      BY <1>4 DEF PlatformAnswer
    <2>3. exec'[r].pc = "audit" /\ exec'[r].reply = y /\ exec'[r].sent = exec[r].sent
      BY <1>t, <2>2, ReplyEffect
    <2>4. QED
      BY <2>1, <2>3 DEF AuditOK
  <1>5. ASSUME AuditExecute(r) PROVE AuditOK(exec'[r])
    <2>1. exec[r].reply \in {"ok", "error"} /\ (exec[r].reply = "ok" => exec[r].sent)
      BY <1>t, <1>5 DEF AuditExecute, ExecAt, AuditOK
    <2>2. EndExec(r, exec[r].reply, "execute") \/ EndExec(r, "error", "none")
      BY <1>5 DEF AuditExecute
    <2>3. QED
      BY <1>t, <2>1, <2>2, AuditEnd
  <1>6. ASSUME AuditDenied(r) PROVE AuditOK(exec'[r])
    <2>1. ~exec[r].sent
      BY <1>t, <1>6 DEF AuditDenied, ExecAt, AuditOK
    <2>2. EndExec(r, "denied", "denied") \/ EndExec(r, "denied", "none")
      BY <1>6 DEF AuditDenied
    <2>3. QED
      BY <1>t, <2>1, <2>2, AuditEnd
  <1>7. AuditOK(exec'[r])
    BY <1>1, <1>2, <1>3, <1>4, <1>5, <1>6 DEF ExecStep
  <1>8. QED
    BY <1>t, <1>7, ExecStepType DEF AuditInv

LEMMA AuditStep == AuditInv /\ [Next]_vars => AuditInv'
  <1> SUFFICES ASSUME AuditInv, [Next]_vars PROVE AuditInv'
    OBVIOUS
  <1>t. TypeInv /\ TypeInv' /\ exec \in [Requests -> ExecState]
    BY NextType DEF AuditInv, TypeInv, TypeOK
  <1>1. ASSUME NEW r \in Requests, ExecStep(r) PROVE AuditInv'
    BY <1>1, AuditExecStep
  <1>2. ASSUME NEW k \in Calls, CallStep(k) PROVE AuditInv'
    <2>1. ASSUME NEW As, NEW Cs, Touch(As, Cs) PROVE \A r \in Requests : AuditOK(exec'[r])
      <3>1. \A r \in Requests :
              /\ exec'[r].pc = exec[r].pc /\ exec'[r].reply = exec[r].reply
              /\ exec'[r].logged = exec[r].logged /\ exec'[r].sent = exec[r].sent
        BY <1>t, <2>1, TouchEffect
      <3>2. QED
        BY <3>1 DEF AuditInv, AuditOK
    <2>2. QED
      BY <1>t, <1>2, <2>1, CallStepExecs DEF AuditInv
  <1>3. ASSUME Crash PROVE AuditInv'
    <2>1. \A r \in Requests : AuditOK(exec'[r])
      BY <1>t, <1>3, CrashEffect, IdleExecType DEF AuditOK
    <2>2. QED
      BY <1>t, <2>1 DEF AuditInv
  <1>4. exec' = exec => AuditInv'
    BY <1>t DEF AuditInv
  <1>5. QED
    BY <1>t, <1>1, <1>2, <1>3, <1>4, RegisterEffect, OtherEffect DEF Next

(***************************************************************************)
(* The audit trail of POST /capability/execute: data is never answered     *)
(* without a platform call and its entry, a call without an entry is       *)
(* answered with an error, and an entry "denied" means no call.            *)
(***************************************************************************)
THEOREM AuditTrailIsTrue == Spec => []AuditMatchesCalls
  <1>1. Init => AuditInv
    BY InitType, IdleExecType DEF Init, AuditInv, AuditOK
  <1>2. AuditInv => AuditMatchesCalls
    BY DEF AuditInv, AuditOK, AuditMatchesCalls
  <1>3. QED
    BY <1>1, <1>2, AuditStep, PTL DEF Spec

-----------------------------------------------------------------------------
(* The rate limit *)

\* No limit is larger than m.
Tops(m) == m \in Limits /\ \A l \in Limits : l <= m

\* While the observer's window is open, the counter has it and counts at least as much.
CapOK(w) ==
  /\ passed[w].resetAt > now =>
       bucket[w].resetAt = passed[w].resetAt /\ passed[w].count <= bucket[w].count
  /\ \A m \in Limits : Tops(m) => passed[w].count <= m

CapInv == TypeInv /\ \A w \in Agents \X Conns : CapOK(w)

LEMMA CapCounted ==
  ASSUME CapInv, NEW r \in Requests, NEW over \in BOOLEAN, Counted(r, over),
         exec[r].agent \in Agents, exec[r].conn \in Conns, now' = now
  PROVE  \A w \in Agents \X Conns : CapOK(w)'
  <1> DEFINE w == <<exec[r].agent, exec[r].conn>>
             s == SweptBuckets[w]
             hit == Hit(s, now, Window)
             lim == LimitOf(exec[r].agent, exec[r].conn)
             old == IF passed[w].resetAt = hit.resetAt THEN passed[w].count ELSE 0
             n == old + (IF over THEN 0 ELSE 1)
             b == bucket[w]
             x == passed[w]
             y == [count |-> n, resetAt |-> hit.resetAt]
  <1>1. /\ w \in Agents \X Conns /\ TypeInv /\ TypeOK
    BY DEF CapInv, TypeInv
  <1>2. /\ bucket' = [SweptBuckets EXCEPT ![w] = hit]
        /\ passed' = [passed EXCEPT ![w] = y]
        /\ lim > 0 /\ (over <=> hit.count > lim)
    BY DEF Counted
  <1>3. /\ now \in Nat /\ Window \in Nat /\ Window > 0
        /\ passed \in [Agents \X Conns -> Bucket]
        /\ bucket \in [Agents \X Conns -> Bucket]
        /\ SweptBuckets \in [Agents \X Conns -> Bucket]
    BY <1>1, SweepEffect, ConnectionsAssumption DEF TypeOK
  <1>4. \A v \in Agents \X Conns :
          SweptBuckets[v] = bucket[v] \/ (bucket[v].resetAt <= now /\ SweptBuckets[v] = NoBucket)
    BY <1>1, SweepEffect
  <1>5. lim \in Limits /\ lim \in Nat
    BY <1>1, ConnectionsAssumption DEF TypeInv, LimitOf
  <1>6. /\ b.count \in Nat /\ b.resetAt \in Nat /\ s.count \in Nat /\ s.resetAt \in Nat
        /\ x.count \in Nat /\ x.resetAt \in Nat /\ s \in Bucket
    BY <1>1, <1>3 DEF Bucket
  <1>7. /\ hit \in Bucket
        /\ s.resetAt <= now => hit.count = 1 /\ hit.resetAt = now + Window
        /\ s.resetAt > now => hit.count = s.count + 1 /\ hit.resetAt = s.resetAt
    <2> HIDE DEF s
    <2>1. s \in Bucket /\ now \in Nat /\ Window \in Nat
      BY <1>3, <1>6
    <2>2. QED
      BY <2>1, HitEffect, Zenon
  <1>8. s = b \/ (b.resetAt <= now /\ s.resetAt = 0)
    BY <1>1, <1>4 DEF NoBucket
  <1>9. x.resetAt > now => b.resetAt = x.resetAt /\ x.count <= b.count
    BY <1>1 DEF CapInv, CapOK
  <1>10. \A m \in Limits : Tops(m) => x.count <= m
    BY <1>1 DEF CapInv, CapOK
  <1>11. bucket'[w] = hit /\ passed'[w] = y
    BY <1>1, <1>2, <1>3
  <1>12. \A v \in Agents \X Conns : v # w =>
           bucket'[v] = SweptBuckets[v] /\ passed'[v] = passed[v]
    BY <1>1, <1>2, <1>3
  <1>13. hit.count \in Nat /\ hit.resetAt \in Nat
    BY <1>7 DEF Bucket
  <1>14. y.count = n /\ y.resetAt = hit.resetAt
    OBVIOUS
  <1>15. n = old + 1 \/ n = old
    <2>1. old \in Nat
      BY <1>6
    <2> HIDE DEF old
    <2>2. QED
      BY <2>1
  <1>16. old = 0 \/ (x.resetAt = hit.resetAt /\ old = x.count)
    OBVIOUS
  <1>17. over => n = old
    BY <1>6
  <1> HIDE DEF w, hit, lim, b, s, x, y, n, old
  <1>18. hit.resetAt > now
    BY <1>3, <1>6, <1>7
  <1>19. old + 1 <= hit.count
    <2>1. CASE old = 0
      BY <2>1, <1>6, <1>7, <1>3
    <2>2. CASE x.resetAt = hit.resetAt /\ old = x.count
      <3>1. b.resetAt = x.resetAt /\ x.count <= b.count
        BY <2>2, <1>9, <1>18
      <3>2. s = b
        BY <3>1, <2>2, <1>3, <1>6, <1>8, <1>18
      <3>3. hit.count = b.count + 1
        BY <3>1, <3>2, <2>2, <1>7, <1>18
      <3>4. QED
        BY <2>2, <3>1, <3>3, <1>6
    <2>3. QED
      BY <1>16, <2>1, <2>2
  <1>20. old \in Nat
    BY <1>6, <1>16
  <1>21. \A m \in Limits : Tops(m) => n <= m
    <2> SUFFICES ASSUME NEW m \in Limits, Tops(m) PROVE n <= m
      OBVIOUS
    <2>1. m \in Nat /\ lim <= m
      BY <1>5, ConnectionsAssumption DEF Tops
    <2>2. old <= m
      BY <2>1, <1>10, <1>16
    <2>3. CASE over
      BY <1>17, <2>2, <2>3
    <2>4. CASE ~over
      <3>1. hit.count <= lim
        BY <1>2, <2>4, <1>5, <1>13
      <3>2. QED
        BY <3>1, <2>1, <1>5, <1>13, <1>15, <1>19, <1>20
    <2>5. QED
      BY <2>3, <2>4
  <1>22. ASSUME NEW v \in Agents \X Conns, v = w PROVE CapOK(v)'
    <2>1. n <= hit.count
      BY <1>13, <1>15, <1>19, <1>20
    <2>2. QED
      BY <1>11, <1>14, <1>21, <1>22, <2>1 DEF CapOK, Tops
  <1>23. ASSUME NEW v \in Agents \X Conns, v # w PROVE CapOK(v)'
    <2>1. CapOK(v) /\ bucket'[v] = SweptBuckets[v] /\ passed'[v] = passed[v]
      BY <1>12, <1>23 DEF CapInv
    <2>2. passed[v].resetAt > now => SweptBuckets[v] = bucket[v]
      <3>1. passed[v].resetAt \in Nat /\ bucket[v].resetAt \in Nat
        BY <1>3 DEF Bucket
      <3>2. QED
        BY <3>1, <2>1, <1>3, <1>4 DEF CapOK
    <2>3. QED
      BY <2>1, <2>2 DEF CapOK, Tops
  <1>24. QED
    BY <1>22, <1>23

LEMMA CapStep == CapInv /\ [Next]_vars => CapInv'
  <1> SUFFICES ASSUME CapInv, [Next]_vars PROVE CapInv'
    OBVIOUS
  <1>t. TypeInv /\ TypeInv'
    BY NextType DEF CapInv
  <1>u. ASSUME UNCHANGED <<bucket, passed>>, now' >= now PROVE CapInv'
    <2> SUFFICES ASSUME NEW w \in Agents \X Conns PROVE CapOK(w)'
      BY <1>t DEF CapInv
    <2>1. CapOK(w)
      BY DEF CapInv
    <2>2. passed[w].resetAt \in Nat /\ now \in Nat /\ now' \in Nat
      BY <1>t DEF TypeInv, TypeOK, Bucket
    <2>3. QED
      BY <1>u, <2>1, <2>2 DEF CapOK, Tops
  <1>n. now \in Nat
    BY <1>t DEF TypeInv, TypeOK
  <1>1. ASSUME NEW r \in Requests, ExecStep(r) PROVE CapInv'
    <2>1. now' = now
      BY <1>t, <1>1, ExecStepType
    <2>2. ASSUME NEW v, ListWires(r, v), ~UNCHANGED <<bucket, passed>> PROVE CapInv'
      <3>1. exec[r].agent \in Agents /\ exec[r].conn \in Conns
        BY <1>t, <2>2, ListWiresEffect DEF TypeInv, ExecOK, InFlight, ExecAt
      <3>2. PICK over \in BOOLEAN : Counted(r, over)
        BY <1>t, <2>2, ListWiresEffect
      <3>3. QED
        BY <1>t, <2>1, <3>1, <3>2, CapCounted DEF CapInv
    <2>3. UNCHANGED <<bucket, passed>> \/ \E v : ListWires(r, v)
      BY <1>1 DEF ExecStep, ExecArrive, FindConn, GetCredential, PlatformAnswer,
                  AuditExecute, AuditDenied
    <2>4. QED
      BY <1>n, <1>u, <2>1, <2>2, <2>3
  <1>2. ASSUME NEW k \in Calls, CallStep(k) PROVE CapInv'
    <2>1. UNCHANGED <<bucket, passed, now>>
      BY <1>t, <1>2, CallStepExecs
    <2>2. QED
      BY <2>1, <1>n, <1>u
  <1>3. ASSUME Crash PROVE CapInv'
    <2> SUFFICES ASSUME NEW w \in Agents \X Conns PROVE CapOK(w)'
      BY <1>t DEF CapInv
    <2>1. passed'[w].count = 0 /\ passed'[w].resetAt = 0 /\ now' = now
      BY <1>t, <1>3, CrashEffect DEF NoBucket
    <2>2. Limits \subseteq Nat
      BY ConnectionsAssumption
    <2>3. QED
      BY <1>n, <2>1, <2>2 DEF CapOK, Tops
  <1>4. ASSUME NEW c \in Conns, NEW p \in Scope, NEW ops \in OpSets,
               RegisterConnection(c, p, ops)
        PROVE  CapInv'
    BY <1>t, <1>n, <1>u, <1>4, RegisterEffect
  <1>5. QED
    BY <1>t, <1>u, <1>1, <1>2, <1>3, <1>4, OtherEffect DEF Next

(***************************************************************************)
(* However operators attach, detach and delete, and however executions     *)
(* and sweeps interleave, no window of the proxy's counter lets more       *)
(* limited executions through than the largest limit there is.             *)
(***************************************************************************)
THEOREM WindowCapHolds == Spec => []WindowIsCapped
  <1>1. Init => CapInv
    <2> SUFFICES ASSUME Init, NEW w \in Agents \X Conns PROVE CapOK(w)
      BY InitType DEF CapInv
    <2>1. passed[w].count = 0 /\ passed[w].resetAt = 0 /\ now = 1 /\ Limits \subseteq Nat
      BY ConnectionsAssumption DEF Init, NoBucket
    <2>2. QED
      BY <2>1 DEF CapOK, Tops
  <1>2. CapInv => WindowIsCapped
    BY DEF CapInv, CapOK, Tops, WindowIsCapped
  <1>3. QED
    BY <1>1, <1>2, CapStep, PTL DEF Spec

-----------------------------------------------------------------------------
(* Isolation *)

\* The connector grant w is the same after the step, or there is none before and after.
SameWire(w) == wire'[w] = wire[w] \/ (~wire'[w].on /\ ~wire[w].on)

\* The rows that decide what a may do with c are the same after the step.
SameRows(a, c) ==
  /\ agentProject'[a] = agentProject[a] /\ conn'[c] = conn[c]
  /\ \A d \in Conns : SameWire(<<a, d>>)

\* What an execution that no write has touched may rely on at each await.
Earned(e) ==
  /\ e.pc \in {"findConn", "listWires", "getCred"} => agentProject[e.agent] = e.project
  /\ e.pc \in {"listWires", "getCred"} =>
       /\ conn[e.conn].live /\ SameProject(conn[e.conn].project, e.project)
       /\ Permits(conn[e.conn].allowed, e.op)
  /\ e.pc = "getCred" => WireAllows(e.agent, e.conn, e.op)

EntitledInv ==
  /\ AuditInv
  /\ \A r \in Requests : ~exec[r].touched => Earned(exec[r])

Early == {"findConn", "listWires", "getCred"}

\* A write that leaves an execution unmarked left the rows it is about alone.
LEMMA UntouchedRows ==
  ASSUME TypeInv, NEW k \in Calls, CallStep(k), NEW r \in Requests, ~exec'[r].touched,
         exec[r].pc \in Early
  PROVE  SameRows(exec[r].agent, exec[r].conn)
  <1> DEFINE a == exec[r].agent
             c == exec[r].conn
  <1>t. /\ a \in Agents /\ c \in Conns /\ exec \in [Requests -> ExecState]
        /\ exec[r].pc \in {"findConn", "listWires", "getCred"}
    BY DEF TypeInv, TypeOK, ExecOK, InFlight, Early
  <1>u. ASSUME NEW As, NEW Cs, Touch(As, Cs) PROVE a \notin As /\ c \notin Cs
    BY <1>t, <1>u, TouchEffect
  <1> HIDE DEF a, c
  <1>1. conn'[c] = conn[c]
    <2>1. ASSUME UpdateConnection(k), conn' # conn PROVE conn'[c] = conn[c]
      <3>1. \A d \in Conns : d # call[k].conn => conn'[d] = conn[d]
        BY <2>1, UpdateRow
      <3>2. Touch({}, {call[k].conn})
        BY <2>1, UpdateRow
      <3>3. c \notin {call[k].conn}
        BY <1>u, <3>2
      <3>4. QED
        BY <1>t, <3>1, <3>3
    <2>2. ASSUME DeleteConnection(k) PROVE conn'[c] = conn[c]
      <3>1. \A d \in Conns : d # call[k].conn => conn'[d] = conn[d]
        BY <2>2, DeleteRow
      <3>2. Touch({b \in Agents : wire[<<b, call[k].conn>>].on}, {call[k].conn})
        BY <2>2, DeleteRow
      <3>3. c \notin {call[k].conn}
        BY <1>u, <3>2
      <3>4. QED
        BY <1>t, <3>1, <3>3
    <2>3. ASSUME DeleteProject(k) PROVE conn'[c] = conn[c]
      <3>1. \A d \in Conns : conn[d].project # call[k].project => conn'[d] = conn[d]
        BY <2>3, DeleteProjectRows
      <3>2. Touch({b \in Agents : agentProject[b] = call[k].project},
                  {d \in Conns : conn[d].project = call[k].project})
        BY <2>3, DeleteProjectRows
      <3>3. c \notin {d \in Conns : conn[d].project = call[k].project}
        BY <1>u, <3>2
      <3>4. QED
        BY <1>t, <3>1, <3>3
    <2>4. QED
      BY <2>1, <2>2, <2>3, CallStepRows
  <1>2. agentProject'[a] = agentProject[a]
    <2>1. ASSUME SetAgentProject(k), agentProject' # agentProject
          PROVE  agentProject'[a] = agentProject[a]
      <3>1. \A b \in Agents : b # call[k].agent => agentProject'[b] = agentProject[b]
        BY <2>1, SetProjectRow
      <3>2. Touch({call[k].agent}, {})
        BY <2>1, SetProjectRow
      <3>3. a \notin {call[k].agent}
        BY <1>u, <3>2
      <3>4. QED
        BY <1>t, <3>1, <3>3
    <2>2. ASSUME DeleteProject(k) PROVE agentProject'[a] = agentProject[a]
      <3>1. \A b \in Agents : agentProject[b] # call[k].project
                                => agentProject'[b] = agentProject[b]
        BY <2>2, DeleteProjectRows
      <3>2. Touch({b \in Agents : agentProject[b] = call[k].project},
                  {d \in Conns : conn[d].project = call[k].project})
        BY <2>2, DeleteProjectRows
      <3>3. a \notin {b \in Agents : agentProject[b] = call[k].project}
        BY <1>u, <3>2
      <3>4. QED
        BY <1>t, <3>1, <3>3
    <2>3. QED
      BY <2>1, <2>2, CallStepRows
  <1>3. ASSUME NEW d \in Conns PROVE SameWire(<<a, d>>)
    <2>0. <<a, d>> \in Agents \X Conns
      BY <1>t
    <2>1. ASSUME NEW w \in Agents \X Conns, \A v \in Agents \X Conns : v # w => wire'[v] = wire[v],
                 w[1] = call[k].agent, Touch({call[k].agent}, {})
          PROVE  SameWire(<<a, d>>)
      <3>1. a \notin {call[k].agent}
        BY <1>u, <2>1
      <3>2. <<a, d>> # w
        BY <2>1, <3>1
      <3>3. QED
        BY <2>0, <2>1, <3>2 DEF SameWire
    <2>2. ASSUME AttachConnection(k), wire' # wire PROVE SameWire(<<a, d>>)
      BY <2>1, <2>2, AttachRow
    <2>3. ASSUME DetachConnection(k) PROVE SameWire(<<a, d>>)
      BY <2>1, <2>3, DetachRow
    <2>4. ASSUME DeleteConnection(k) PROVE SameWire(<<a, d>>)
      <3>1. \A w \in Agents \X Conns : wire'[w] = IF w[2] = call[k].conn THEN NoWire ELSE wire[w]
        BY <2>4, DeleteRow
      <3>2. Touch({b \in Agents : wire[<<b, call[k].conn>>].on}, {call[k].conn})
        BY <2>4, DeleteRow
      <3>3. a \notin {b \in Agents : wire[<<b, call[k].conn>>].on}
        BY <1>u, <3>2
      <3>4. QED
        BY <1>t, <2>0, <3>1, <3>3 DEF SameWire, NoWire
    <2>5. QED
      BY <2>2, <2>3, <2>4, CallStepRows DEF SameWire
  <1>4. QED
    BY <1>1, <1>2, <1>3 DEF SameRows, a, c

LEMMA EarnedExecStep ==
  ASSUME EntitledInv, NEW r \in Requests, ExecStep(r), ~exec'[r].touched
  PROVE  Earned(exec[r])'
  <1>t. /\ TypeInv /\ exec \in [Requests -> ExecState] /\ agentProject \in [Agents -> Scope]
        /\ exec[r] \in ExecState
    BY DEF EntitledInv, AuditInv, TypeInv, TypeOK
  <1>s. exec[r].reply \in {"none", "ok", "error", "denied"}
    BY <1>t DEF ExecState
  <1>u. UNCHANGED <<agentProject, conn, wire>>
    BY <1>t, ExecStepType
  <1>n. exec'[r].pc \notin Early => Earned(exec[r])'
    BY DEF Earned, Early
  <1>e. ASSUME NEW reply \in {"none", "ok", "error", "denied"},
               NEW logged \in {"none", "execute", "denied"}, EndExec(r, reply, logged)
        PROVE  Earned(exec[r])'
    BY <1>t, <1>n, <1>e, EndExecEffect DEF Early
  <1>d. ASSUME Deny(r) PROVE Earned(exec[r])'
    <2>1. exec'[r].pc = "auditDenied"
      BY <1>t, <1>d, ExecGotoEffect DEF Deny, ExecPc
    <2>2. QED
      BY <1>n, <2>1 DEF Early
  <1>g. ASSUME NEW pc \in Early, ExecGoto(r, pc)
        PROVE  /\ exec'[r].pc = pc /\ exec'[r].agent = exec[r].agent
               /\ exec'[r].conn = exec[r].conn /\ exec'[r].op = exec[r].op
               /\ exec'[r].project = exec[r].project /\ ~exec[r].touched
    BY <1>t, <1>g, ExecGotoEffect DEF ExecGoto, ExecPc, Early
  <1>1. ASSUME NEW a \in Agents, NEW c \in Conns \cup {None}, NEW op \in Ops,
               ExecArrive(r, a, c, op)
        PROVE  Earned(exec[r])'
    <2>1. ExecArrive(r, a, c, op)
      BY <1>1
    <2>2. \/ exec'[r].pc = "done" /\ exec'[r].reply = "error" /\ exec'[r].logged = "none"
          \/ /\ exec'[r].pc = "findConn" /\ exec'[r].agent = a /\ exec'[r].conn = c
             /\ exec'[r].op = op /\ exec'[r].project = agentProject[a] /\ c \in Conns
      BY <1>t, <2>1, ArriveEffect, Zenon
    <2>3. QED
      BY <1>u, <2>2 DEF Earned
  <1>2. ASSUME FindConn(r) PROVE Earned(exec[r])'
    <2>1. CASE EndExec(r, "error", "none") \/ Deny(r)
      BY <1>e, <1>d, <2>1
    <2>2. CASE /\ conn[exec[r].conn].live
               /\ SameProject(conn[exec[r].conn].project, exec[r].project)
               /\ Permits(conn[exec[r].conn].allowed, exec[r].op)
               /\ ExecGoto(r, "listWires")
      <3>1. /\ exec'[r].pc = "listWires" /\ exec'[r].agent = exec[r].agent
            /\ exec'[r].conn = exec[r].conn /\ exec'[r].op = exec[r].op
            /\ exec'[r].project = exec[r].project /\ ~exec[r].touched
        BY <1>g, <2>2 DEF Early
      <3>2. agentProject[exec[r].agent] = exec[r].project
        BY <1>2, <3>1 DEF FindConn, ExecAt, EntitledInv, Earned
      <3>3. QED
        BY <1>u, <2>2, <3>1, <3>2 DEF Earned, SameProject, Permits
    <2>3. QED
      BY <1>2, <2>1, <2>2 DEF FindConn
  <1>3. ASSUME NEW v, ListWires(r, v) PROVE Earned(exec[r])'
    <2>1. CASE EndExec(r, "error", "none") \/ Deny(r)
      BY <1>e, <1>d, <2>1
    <2>2. CASE WireAllows(exec[r].agent, exec[r].conn, exec[r].op) /\ ExecGoto(r, "getCred")
      <3>1. /\ exec'[r].pc = "getCred" /\ exec'[r].agent = exec[r].agent
            /\ exec'[r].conn = exec[r].conn /\ exec'[r].op = exec[r].op
            /\ exec'[r].project = exec[r].project /\ ~exec[r].touched
        BY <1>g, <2>2 DEF Early
      <3>2. ExecAt(r, "listWires")
        BY <1>t, <1>3, ListWiresEffect
      <3>3. /\ agentProject[exec[r].agent] = exec[r].project
            /\ conn[exec[r].conn].live
            /\ SameProject(conn[exec[r].conn].project, exec[r].project)
            /\ Permits(conn[exec[r].conn].allowed, exec[r].op)
        BY <3>1, <3>2 DEF ExecAt, EntitledInv, Earned
      <3>4. WireAllows(exec'[r].agent, exec'[r].conn, exec'[r].op)
        BY <2>2, <3>1
      <3>5. WireAllows(exec[r].agent, exec[r].conn, exec[r].op)'
        BY <1>u, <3>4 DEF WireAllows, Wired, Permits
      <3>6. QED
        BY <1>u, <3>1, <3>3, <3>5 DEF Earned, SameProject, Permits
    <2>3. QED
      BY <1>t, <1>3, <2>1, <2>2, ListWiresEffect
  <1>4. ASSUME GetCredential(r) PROVE Earned(exec[r])'
    <2>1. CASE EndExec(r, "error", "none")
      BY <1>e, <2>1
    <2>2. CASE exec' = [exec EXCEPT ![r] = [@ EXCEPT !.pc = "platform", !.sent = TRUE]]
      BY <1>t, <1>n, <2>2, SendEffect DEF Early
    <2>3. CASE exec' = [exec EXCEPT ![r] = [@ EXCEPT !.pc = "audit", !.reply = "error"]]
      BY <1>t, <1>n, <2>3, ReplyEffect DEF Early
    <2>4. QED
      BY <1>4, <2>1, <2>2, <2>3 DEF GetCredential
  <1>5. ASSUME NEW y \in {"ok", "error"}, PlatformAnswer(r, y) PROVE Earned(exec[r])'
    BY <1>t, <1>n, <1>5, ReplyEffect DEF PlatformAnswer, Early
  <1>6. ASSUME AuditExecute(r) \/ AuditDenied(r) PROVE Earned(exec[r])'
    BY <1>e, <1>s, <1>6 DEF AuditExecute, AuditDenied
  <1>7. QED
    BY <1>1, <1>2, <1>3, <1>4, <1>5, <1>6 DEF ExecStep

LEMMA EarnedSame ==
  ASSUME NEW r \in Requests, Earned(exec[r]),
         exec'[r].pc = exec[r].pc, exec'[r].agent = exec[r].agent,
         exec'[r].conn = exec[r].conn, exec'[r].op = exec[r].op,
         exec'[r].project = exec[r].project,
         exec[r].pc \in Early => exec[r].conn \in Conns,
         exec[r].pc \in Early => SameRows(exec[r].agent, exec[r].conn)
  PROVE  Earned(exec[r])'
  <1>1. CASE exec[r].pc \notin Early
    BY <1>1 DEF Earned, Early
  <1>2. CASE exec[r].pc \in Early
    <2>1. SameRows(exec[r].agent, exec[r].conn) /\ exec[r].conn \in Conns
      BY <1>2
    <2>2. ASSUME exec[r].pc = "getCred"
          PROVE  WireAllows(exec[r].agent, exec[r].conn, exec[r].op)'
      <3> DEFINE a == exec[r].agent
                 c == exec[r].conn
                 op == exec[r].op
      <3>1. WireAllows(a, c, op) /\ \A d \in Conns : SameWire(<<a, d>>)
        BY <2>1, <2>2 DEF Earned, SameRows
      <3>2. /\ {d \in Conns : wire'[<<a, d>>].on} = {d \in Conns : wire[<<a, d>>].on}
        BY <3>1 DEF SameWire
      <3>3. \/ {d \in Conns : wire'[<<a, d>>].on} = {}
            \/ c \in {d \in Conns : wire'[<<a, d>>].on} /\ Permits(wire'[<<a, c>>].ops, op)
        BY <2>1, <3>1, <3>2 DEF WireAllows, Wired, SameWire
      <3>4. exec'[r].agent = a /\ exec'[r].conn = c /\ exec'[r].op = op
        OBVIOUS
      <3>5. QED
        BY <3>3, <3>4 DEF WireAllows, Wired, Permits
    <2>3. QED
      BY <2>1, <2>2 DEF Earned, SameRows, SameProject, Permits
  <1>3. QED
    BY <1>1, <1>2

LEMMA EntitledStep == EntitledInv /\ [Next]_vars => EntitledInv'
  <1> SUFFICES ASSUME EntitledInv, [Next]_vars, NEW q \in Requests, ~exec'[q].touched
               PROVE  Earned(exec[q])'
    BY AuditStep DEF EntitledInv
  <1>t. /\ TypeInv /\ exec \in [Requests -> ExecState]
        /\ exec[q].pc \in Early => exec[q].agent \in Agents /\ exec[q].conn \in Conns
        /\ ~exec[q].touched => Earned(exec[q])
    BY DEF EntitledInv, AuditInv, TypeInv, TypeOK, ExecOK, InFlight, Early
  <1>u. ASSUME exec'[q] = exec[q], exec[q].pc \in Early => SameRows(exec[q].agent, exec[q].conn)
        PROVE  Earned(exec[q])'
    <2>1. ~exec[q].touched
      BY <1>u
    <2>2. Earned(exec[q])
      BY <1>t, <2>1
    <2>3. QED
      BY <1>t, <1>u, <2>2, EarnedSame
  <1>v. UNCHANGED <<agentProject, conn, wire>> => SameRows(exec[q].agent, exec[q].conn)
    BY DEF SameRows, SameWire
  <1>1. ASSUME NEW r \in Requests, ExecStep(r) PROVE Earned(exec[q])'
    <2>1. CASE q = r
      BY <1>1, <2>1, EarnedExecStep
    <2>2. CASE q # r
      BY <1>t, <1>u, <1>v, <1>1, <2>2, ExecStepType
    <2>3. QED
      BY <2>1, <2>2
  <1>2. ASSUME NEW k \in Calls, CallStep(k) PROVE Earned(exec[q])'
    <2>1. exec[q].pc \in Early => SameRows(exec[q].agent, exec[q].conn)
      BY <1>t, <1>2, UntouchedRows
    <2>2. CASE exec' = exec
      BY <1>u, <2>1, <2>2
    <2>3. ASSUME NEW As, NEW Cs, Touch(As, Cs) PROVE Earned(exec[q])'
      <3>1. /\ exec'[q].pc = exec[q].pc /\ exec'[q].agent = exec[q].agent
            /\ exec'[q].conn = exec[q].conn /\ exec'[q].op = exec[q].op
            /\ exec'[q].project = exec[q].project /\ ~exec[q].touched
        BY <1>t, <2>3, TouchEffect
      <3>2. Earned(exec[q])
        BY <1>t, <3>1
      <3>3. QED
        BY <1>t, <2>1, <3>1, <3>2, EarnedSame
    <2>4. QED
      BY <1>t, <1>2, <2>2, <2>3, CallStepExecs
  <1>3. ASSUME Crash PROVE Earned(exec[q])'
    <2>1. exec'[q].pc = "idle"
      BY <1>t, <1>3, CrashEffect, IdleExecType
    <2>2. QED
      BY <2>1 DEF Earned
  <1>4. ASSUME NEW c \in Conns, NEW p \in Scope, NEW ops \in OpSets,
               RegisterConnection(c, p, ops)
        PROVE  Earned(exec[q])'
    <2>1. /\ ~conn[c].live /\ \A d \in Conns : d # c => conn'[d] = conn[d]
          /\ UNCHANGED <<exec, agentProject, wire>>
      BY <1>t, <1>4, RegisterEffect
    <2>2. Earned(exec[q])
      BY <1>t, <2>1
    <2>3. CASE exec[q].pc \in {"listWires", "getCred"}
      <3>1. exec[q].conn # c
        BY <2>1, <2>2, <2>3 DEF Earned
      <3>2. SameRows(exec[q].agent, exec[q].conn)
        BY <1>t, <2>1, <2>3, <3>1 DEF SameRows, SameWire, Early
      <3>3. QED
        BY <1>u, <2>1, <3>2
    <2>4. CASE exec[q].pc \notin {"listWires", "getCred"}
      BY <2>1, <2>2, <2>4 DEF Earned
    <2>5. QED
      BY <2>3, <2>4
  <1>5. QED
    BY <1>t, <1>u, <1>v, <1>1, <1>2, <1>3, <1>4, OtherEffect DEF Next

\* Nothing but GetCredential calls the platform.
LEMMA OnlyGetCredentialSends ==
  ASSUME TypeInv, [Next]_vars, NEW q \in Requests, ~exec[q].sent, exec'[q].sent
  PROVE  ExecAt(q, "getCred")
  <1>t. /\ exec \in [Requests -> ExecState] /\ agentProject \in [Agents -> Scope]
        /\ exec[q].reply \in {"none", "ok", "error", "denied"}
    BY DEF TypeInv, TypeOK, ExecState
  <1>e. ASSUME NEW reply \in {"none", "ok", "error", "denied"},
               NEW logged \in {"none", "execute", "denied"}, EndExec(q, reply, logged)
        PROVE  FALSE
    BY <1>t, <1>e, EndExecEffect
  <1>g. ASSUME NEW pc \in ExecPc, exec' = [exec EXCEPT ![q] = [@ EXCEPT !.pc = pc]]
        PROVE  FALSE
    BY <1>t, <1>g, ExecGotoEffect
  <1>1. ASSUME ExecStep(q) PROVE ExecAt(q, "getCred")
    <2>1. ASSUME NEW a \in Agents, NEW c \in Conns \cup {None}, NEW op \in Ops,
                 ExecArrive(q, a, c, op)
          PROVE  FALSE
      <3>1. ExecArrive(q, a, c, op)
        BY <2>1
      <3>2. exec'[q].sent = FALSE
        BY <1>t, <3>1, ArriveEffect, Zenon
      <3>3. QED
        BY <3>2
    <2>2. ~FindConn(q)
      BY <1>e, <1>g DEF FindConn, ExecGoto, Deny, ExecPc
    <2>3. ASSUME NEW v, ListWires(q, v) PROVE FALSE
      BY <1>e, <1>g, <2>3, ListWiresEffect DEF ExecGoto, Deny, ExecPc
    <2>4. ASSUME NEW y \in {"ok", "error"}, PlatformAnswer(q, y) PROVE FALSE
      BY <1>t, <2>4, ReplyEffect DEF PlatformAnswer
    <2>5. ~AuditExecute(q) /\ ~AuditDenied(q)
      BY <1>e, <1>t DEF AuditExecute, AuditDenied
    <2>6. GetCredential(q) => ExecAt(q, "getCred")
      BY DEF GetCredential
    <2>7. QED
      BY <1>1, <2>1, <2>2, <2>3, <2>4, <2>5, <2>6 DEF ExecStep
  <1>2. ASSUME NEW r \in Requests, r # q, ExecStep(r) PROVE FALSE
    BY <1>2, ExecStepType
  <1>3. ASSUME NEW k \in Calls, CallStep(k) PROVE FALSE
    BY <1>t, <1>3, CallStepExecs, TouchEffect
  <1>4. ~Crash
    BY CrashEffect, IdleExecType
  <1>5. QED
    BY <1>1, <1>2, <1>3, <1>4, RegisterEffect, OtherEffect DEF Next

(***************************************************************************)
(* Isolation: when execute calls the platform the agent is entitled by the *)
(* rows as they are at that moment, unless an operator's write touched     *)
(* the agent, the connection or the agent's wiring since the pipeline read *)
(* the agent.                                                              *)
(***************************************************************************)
THEOREM CallsStayEntitled == Spec => CallsAreEntitled
  <1>1. Init => EntitledInv
    BY InitType, IdleExecType DEF Init, EntitledInv, AuditInv, AuditOK, Earned
  <1>2. EntitledInv /\ [Next]_vars =>
          [\A r \in Requests :
             ~exec[r].sent /\ exec'[r].sent
             => exec[r].touched \/ Entitled(exec[r].agent, exec[r].conn, exec[r].op)]_vars
    <2> SUFFICES ASSUME EntitledInv, [Next]_vars, NEW r \in Requests,
                        ~exec[r].sent, exec'[r].sent, ~exec[r].touched
                 PROVE  Entitled(exec[r].agent, exec[r].conn, exec[r].op)
      OBVIOUS
    <2>1. ExecAt(r, "getCred")
      BY OnlyGetCredentialSends DEF EntitledInv, AuditInv
    <2>2. QED
      BY <2>1 DEF EntitledInv, Earned, ExecAt, Entitled
  <1>3. QED
    BY <1>1, <1>2, EntitledStep, PTL DEF Spec, CallsAreEntitled

-----------------------------------------------------------------------------
(* Taking connector authorizations away *)

\* A step that only takes connector grants and connections away from a, not its last one.
LEMMA FewerWiresReachLess ==
  ASSUME NEW a \in Agents, agentProject' = agentProject,
         \A c \in Conns : conn'[c].live => conn'[c] = conn[c],
         \A c \in Conns : wire'[<<a, c>>].on => wire'[<<a, c>>] = wire[<<a, c>>],
         Wired(a)' # {}
  PROVE  Reach(a)' \subseteq Reach(a)
  <1> SUFFICES ASSUME NEW c \in Conns, NEW op \in Ops, Entitled(a, c, op)'
               PROVE  Entitled(a, c, op)
    BY DEF Reach
  <1>1. conn'[c] = conn[c] /\ conn[c].live
    BY DEF Entitled
  <1>2. /\ SameProject(conn[c].project, agentProject[a])
        /\ Permits(conn[c].allowed, op)
    BY <1>1 DEF Entitled, SameProject, Permits
  <1>3. wire'[<<a, c>>].on /\ Permits(wire'[<<a, c>>].ops, op)
    BY DEF Entitled, WireAllows, Wired, Permits
  <1>4. wire[<<a, c>>].on /\ Permits(wire[<<a, c>>].ops, op)
    BY <1>3
  <1>5. WireAllows(a, c, op)
    BY <1>4 DEF WireAllows, Wired
  <1>6. QED
    BY <1>1, <1>2, <1>5 DEF Entitled

LEMMA OnlyLastWidensStep ==
  ASSUME TypeInv, [Next]_vars, NEW a \in Agents, wire' # wire,
         Wired(a)' \subseteq Wired(a), Wired(a)' # {}, Wired(a)' # Wired(a)
  PROVE  Reach(a)' \subseteq Reach(a)
  <1>1. PICK k \in Calls : DeleteConnection(k) \/ AttachConnection(k) \/ DetachConnection(k)
    BY ExecStepType, CallStepRows, RegisterEffect, CrashEffect, OtherEffect DEF Next
  <1>2. ASSUME NEW w \in Agents \X Conns,
               \A v \in Agents \X Conns : v # w => wire'[v] = wire[v], w[1] # a
        PROVE  FALSE
    <2>1. \A c \in Conns : <<a, c>> \in Agents \X Conns /\ <<a, c>> # w
      BY <1>2
    <2>2. \A c \in Conns : wire'[<<a, c>>] = wire[<<a, c>>]
      BY <1>2, <2>1
    <2>3. Wired(a)' = Wired(a)
      BY <2>2 DEF Wired
    <2>4. QED
      BY <2>3
  <1>3. CASE AttachConnection(k)
    <2> DEFINE w == <<call[k].agent, call[k].conn>>
    <2>1. /\ w \in Agents \X Conns /\ wire'[w].on
          /\ \A v \in Agents \X Conns : v # w => wire'[v] = wire[v]
      BY <1>3, AttachRow
    <2> HIDE DEF w
    <2>2. \A c \in Conns : <<a, c>> \in Agents \X Conns
      OBVIOUS
    <2>3. Wired(a) \subseteq Wired(a)'
      BY <2>1, <2>2 DEF Wired
    <2>4. QED
      BY <2>3
  <1>4. CASE DetachConnection(k)
    <2> DEFINE w == <<call[k].agent, call[k].conn>>
    <2>1. /\ w \in Agents \X Conns /\ wire'[w] = NoWire
          /\ \A v \in Agents \X Conns : v # w => wire'[v] = wire[v]
      BY <1>4, DetachRow
    <2>2. agentProject' = agentProject /\ conn' = conn
      BY <1>4 DEF DetachConnection
    <2> HIDE DEF w
    <2>3. \A c \in Conns : <<a, c>> \in Agents \X Conns
      OBVIOUS
    <2>4. \A c \in Conns : wire'[<<a, c>>].on => wire'[<<a, c>>] = wire[<<a, c>>]
      BY <2>1, <2>3 DEF NoWire
    <2>5. QED
      BY <2>2, <2>4, FewerWiresReachLess
  <1>5. CASE DeleteConnection(k)
    <2>1. /\ \A d \in Conns : d # call[k].conn => conn'[d] = conn[d]
          /\ ~conn'[call[k].conn].live
          /\ \A w \in Agents \X Conns : wire'[w] = IF w[2] = call[k].conn THEN NoWire ELSE wire[w]
      BY <1>5, DeleteRow
    <2>2. agentProject' = agentProject
      BY <1>5 DEF DeleteConnection
    <2>3. \A c \in Conns : conn'[c].live => conn'[c] = conn[c]
      BY <2>1
    <2>4. \A c \in Conns : <<a, c>> \in Agents \X Conns
      OBVIOUS
    <2>5. \A c \in Conns : wire'[<<a, c>>].on => wire'[<<a, c>>] = wire[<<a, c>>]
      BY <2>1, <2>4 DEF NoWire
    <2>6. QED
      BY <2>2, <2>3, <2>5, FewerWiresReachLess
  <1>6. QED
    BY <1>1, <1>3, <1>4, <1>5

(***************************************************************************)
(* A detach, or the cascade of a deleted connection, lets an agent reach   *)
(* something new only when it takes the last of its connector grants.      *)
(***************************************************************************)
THEOREM LastDetachAloneWidens == Spec => OnlyLastDetachWidens
  <1>1. TypeInv /\ [Next]_vars =>
          [\A a \in Agents :
             wire' # wire /\ Wired(a)' \subseteq Wired(a) /\ ~(Reach(a)' \subseteq Reach(a))
             => Wired(a)' = {} \/ Wired(a)' = Wired(a)]_vars
    BY OnlyLastWidensStep
  <1>2. QED
    BY <1>1, InitType, NextType, PTL DEF Spec, OnlyLastDetachWidens

-----------------------------------------------------------------------------
(* Deleting a project *)

\* What a deleteProject that nobody overtook knows of the project's connections.
DeletionOK(k) ==
  call[k].op = "deleteProject" =>
    /\ call[k].pc = "write" => call[k].connsListed
    /\ call[k].connsListed /\ ~call[k].raced /\ ~call[k].cut =>
         \A c \in Conns : conn[c].live => conn[c].project # call[k].project

DeletionInv == TypeInv /\ \A k \in Calls : DeletionOK(k)

\* The call j does not lose track: its fields, and no connection joins its project unseen.
LEMMA DeletionKept ==
  ASSUME NEW j \in Calls, DeletionOK(j), SameBody(call'[j], call[j]),
         call'[j].pc = call[j].pc, call'[j].connsListed = call[j].connsListed,
         call'[j].cut = call[j].cut, call[j].raced => call'[j].raced,
         call[j].op = "deleteProject" /\ ~call'[j].raced =>
           \A c \in Conns : conn'[c].live /\ conn'[c].project = call[j].project
                            => conn[c].live /\ conn[c].project = call[j].project
  PROVE  DeletionOK(j)'
  BY DEF DeletionOK, SameBody

LEMMA DeletionSame ==
  ASSUME TypeInv, NEW j \in Calls, DeletionOK(j), call'[j] = call[j],
         call[j].op = "deleteProject" =>
           \A c \in Conns : conn'[c].live /\ conn'[c].project = call[j].project
                            => conn[c].live /\ conn[c].project = call[j].project
  PROVE  DeletionOK(j)'
  BY DeletionKept DEF SameBody

LEMMA DeletionCallStep ==
  ASSUME DeletionInv, NEW k \in Calls, CallStep(k), NEW j \in Calls
  PROVE  DeletionOK(j)'
  <1>t. /\ TypeInv /\ DeletionOK(j) /\ call \in [Calls -> CallState] /\ CallOK(call[k])
        /\ agentProject \in [Agents -> Scope]
        /\ call[j].op = "deleteProject" => call[j].project # None
    BY ConnectionsAssumption DEF DeletionInv, TypeInv, TypeOK, CallOK
  <1>i. call'[j] = IdleCall => DeletionOK(j)'
    BY IdleCallType DEF DeletionOK
  <1>c. ASSUME conn' = conn, call'[j] = call[j] PROVE DeletionOK(j)'
    BY <1>t, <1>c, DeletionSame
  <1>e. ASSUME conn' = conn, EndCall(k) PROVE DeletionOK(j)'
    BY <1>t, <1>i, <1>c, <1>e, EndCallEffect
  <1>w. ASSUME NEW d \in Conns, NEW p,
               \A c \in Conns : c # d => conn'[c] = conn[c],
               conn'[d].live => conn[d].live,
               conn'[d].project = conn[d].project \/ conn'[d].project = p,
               call' = Joined([call EXCEPT ![k] = IdleCall], p)
        PROVE  DeletionOK(j)'
    <2> DEFINE cs == [call EXCEPT ![k] = IdleCall]
    <2>1. /\ cs \in [Calls -> CallState] /\ call' = Joined(cs, p)
          /\ j # k => cs[j] = call[j]
          /\ j = k => cs[j] = IdleCall
      BY <1>t, <1>w, IdleCallType
    <2> HIDE DEF cs
    <2>2. /\ SameBody(call'[j], cs[j]) /\ call'[j].pc = cs[j].pc
          /\ call'[j].connsListed = cs[j].connsListed /\ call'[j].cut = cs[j].cut
          /\ cs[j].raced => call'[j].raced
          /\ cs[j].op = "deleteProject" /\ cs[j].project = p /\ p # None => call'[j].raced
      BY <2>1, JoinedEffect
    <2>3. CASE j = k
      <3>1. call'[j].op = "none"
        BY <2>1, <2>2, <2>3, IdleCallType DEF SameBody
      <3>2. QED
        BY <3>1 DEF DeletionOK
    <2>4. CASE j # k
      <3>1. cs[j] = call[j]
        BY <2>1, <2>4
      <3>2. ASSUME call[j].op = "deleteProject", ~call'[j].raced, NEW c \in Conns,
                   conn'[c].live, conn'[c].project = call[j].project
            PROVE  conn[c].live /\ conn[c].project = call[j].project
        <4>1. p # call[j].project
          BY <1>t, <2>2, <3>1, <3>2
        <4>2. QED
          BY <1>w, <3>2, <4>1
      <3>3. QED
        BY <1>t, <2>2, <3>1, <3>2, DeletionKept
    <2>5. QED
      BY <2>3, <2>4
  <1>1. ASSUME NEW body \in Bodies, CallArrive(k, body) PROVE DeletionOK(j)'
    <2>1. call' = [call EXCEPT ![k] = body] /\ conn' = conn
      BY <1>1 DEF CallArrive
    <2>2. body.pc \in {"load", "list"} /\ ~body.connsListed /\ (body.op = "deleteProject" => body.pc = "list")
      BY BodiesEffect
    <2>3. CASE j = k
      BY <1>t, <2>1, <2>2, <2>3 DEF DeletionOK
    <2>4. CASE j # k
      BY <1>t, <1>c, <2>1, <2>4
    <2>5. QED
      BY <2>3, <2>4
  <1>2. ASSUME LoadConnection(k) \/ AttachLoadConn(k) PROVE DeletionOK(j)'
    <2>1. /\ conn' = conn
          /\ EndCall(k) \/ CallGoto(k, "write")
          /\ call[k].op # "deleteProject"
      BY <1>2 DEF LoadConnection, AttachLoadConn, CallAt
    <2>2. CASE CallGoto(k, "write")
      <3>1. /\ \A h \in Calls : h # k => call'[h] = call[h]
            /\ SameBody(call'[k], call[k])
        BY <1>t, <2>2, CallGotoEffect
      <3>2. QED
        BY <1>c, <2>1, <3>1 DEF SameBody, DeletionOK
    <2>3. QED
      BY <1>e, <2>1, <2>2
  <1>3. ASSUME NEW owned, LoadAgent(k, owned) PROVE DeletionOK(j)'
    <2>1. /\ \A h \in Calls : h # k => call'[h] = call[h]
          /\ call'[k] = IdleCall \/ SameBody(call'[k], call[k])
          /\ call[k].op \in {"attach", "detach", "setProject"}
      BY <1>t, <1>3, LoadAgentEffect
    <2>2. conn' = conn
      BY <1>3 DEF LoadAgent
    <2>3. QED
      BY <1>i, <1>c, <2>1, <2>2 DEF SameBody, DeletionOK
  <1>4. ASSUME NEW kind \in {"agents", "conns"}, ListMembers(k, kind) PROVE DeletionOK(j)'
    <2>1. conn' = conn
      BY <1>4 DEF ListMembers
    <2>2. CASE j # k
      BY <1>t, <1>c, <1>4, <2>1, <2>2, ListMembersEffect
    <2>3. CASE call'[k] = IdleCall
      BY <1>t, <1>i, <1>c, <1>4, <2>1, <2>3, ListMembersEffect
    <2>4. CASE j = k /\ call'[k] # IdleCall
      <3>1. /\ SameBody(call'[k], call[k]) /\ call'[k].raced = call[k].raced
            /\ call[k].cut => call'[k].cut
            /\ call'[k].pc = "write" => call'[k].connsListed
            /\ call'[k].connsListed /\ ~call'[k].cut =>
                 \/ call[k].connsListed
                 \/ \A c \in LiveConns : conn[c].project # call[k].project
        BY <1>t, <1>4, <2>4, ListMembersEffect
      <3>2. QED
        BY <1>t, <2>1, <2>4, <3>1 DEF DeletionOK, SameBody, LiveConns
    <2>5. QED
      BY <2>2, <2>3, <2>4
  <1>5. ASSUME UpdateConnection(k) PROVE DeletionOK(j)'
    <2>1. CASE conn' # conn
      <3> DEFINE d == call[k].conn
      <3>1. /\ d \in Conns /\ conn[d].live
            /\ \A c \in Conns : c # d => conn'[c] = conn[c]
            /\ conn'[d].project = conn[d].project \/ conn'[d].project = call[k].project
            /\ call' = Joined([call EXCEPT ![k] = IdleCall], call[k].project)
        BY <1>t, <1>5, <2>1, UpdateRow
      <3>2. QED
        BY <1>t, <1>w, <3>1
    <2>2. CASE conn' = conn
      <3>1. EndCall(k) \/ call' = Joined([call EXCEPT ![k] = IdleCall], call[k].project)
        BY <1>5 DEF UpdateConnection
      <3>2. call[k].conn \in Conns
        BY <1>t, <1>5 DEF UpdateConnection, CallOK
      <3>3. QED
        BY <1>e, <1>w, <2>2, <3>1, <3>2
    <2>3. QED
      BY <2>1, <2>2
  <1>6. ASSUME DeleteConnection(k) PROVE DeletionOK(j)'
    <2>1. /\ EndCall(k)
          /\ \A d \in Conns : d # call[k].conn => conn'[d] = conn[d]
          /\ ~conn'[call[k].conn].live
      BY <1>t, <1>6, DeleteRow DEF DeleteConnection
    <2>2. \/ call'[j] = IdleCall \/ call'[j] = call[j]
      BY <1>t, <2>1, EndCallEffect
    <2>3. QED
      BY <1>t, <1>i, <2>1, <2>2, DeletionSame
  <1>7. ASSUME AttachConnection(k) \/ DetachConnection(k) PROVE DeletionOK(j)'
    BY <1>e, <1>7 DEF AttachConnection, DetachConnection
  <1>8. ASSUME SetAgentProject(k) PROVE DeletionOK(j)'
    <2>1. conn' = conn
      BY <1>8 DEF SetAgentProject
    <2>2. CASE EndCall(k)
      BY <1>e, <2>1, <2>2
    <2> DEFINE cs == [call EXCEPT ![k] = IdleCall]
    <2>3. CASE call' = Joined(cs, call[k].project)
      <3>1. cs \in [Calls -> CallState] /\ (j # k => cs[j] = call[j]) /\ (j = k => cs[j] = IdleCall)
        BY <1>t, IdleCallType
      <3> HIDE DEF cs
      <3>2. /\ SameBody(call'[j], cs[j]) /\ call'[j].pc = cs[j].pc
            /\ call'[j].connsListed = cs[j].connsListed /\ call'[j].cut = cs[j].cut
            /\ cs[j].raced => call'[j].raced
        BY <2>3, <3>1, JoinedEffect
      <3>3. CASE j = k
        BY <3>1, <3>2, <3>3, IdleCallType DEF SameBody, DeletionOK
      <3>4. CASE j # k
        BY <1>t, <2>1, <3>1, <3>2, <3>4, DeletionKept
      <3>5. QED
        BY <3>3, <3>4
    <2>4. QED
      BY <1>8, <2>2, <2>3 DEF SetAgentProject
  <1>9. ASSUME DeleteProject(k) PROVE DeletionOK(j)'
    <2>1. \A c \in Conns : /\ conn'[c].live = conn[c].live
                           /\ conn'[c].project = conn[c].project \/ conn'[c].project = None
      BY <1>t, <1>9, DeleteProjectRows
    <2>2. EndCall(k)
      BY <1>9 DEF DeleteProject
    <2>3. \/ call'[j] = IdleCall \/ call'[j] = call[j]
      BY <1>t, <2>2, EndCallEffect
    <2>4. QED
      BY <1>t, <1>i, <2>1, <2>3, DeletionSame
  <1>10. QED
    BY <1>1, <1>2, <1>3, <1>4, <1>5, <1>6, <1>7, <1>8, <1>9 DEF CallStep

LEMMA DeletionStep == DeletionInv /\ [Next]_vars => DeletionInv'
  <1> SUFFICES ASSUME DeletionInv, [Next]_vars, NEW j \in Calls PROVE DeletionOK(j)'
    BY NextType DEF DeletionInv
  <1>t. /\ TypeInv /\ DeletionOK(j) /\ call \in [Calls -> CallState]
        /\ call[j].op = "deleteProject" => call[j].project # None
    BY ConnectionsAssumption DEF DeletionInv, TypeInv, TypeOK, CallOK
  <1>u. UNCHANGED <<conn, call>> => DeletionOK(j)'
    BY <1>t, DeletionSame
  <1>1. ASSUME NEW c \in Conns, NEW p \in Scope, NEW ops \in OpSets,
               RegisterConnection(c, p, ops)
        PROVE  DeletionOK(j)'
    <2>1. /\ conn'[c].project = p /\ call' = Joined(call, p)
          /\ \A d \in Conns : d # c => conn'[d] = conn[d]
      BY <1>t, <1>1, RegisterEffect
    <2>2. /\ SameBody(call'[j], call[j]) /\ call'[j].pc = call[j].pc
          /\ call'[j].connsListed = call[j].connsListed /\ call'[j].cut = call[j].cut
          /\ call[j].raced => call'[j].raced
          /\ call[j].op = "deleteProject" /\ call[j].project = p /\ p # None => call'[j].raced
      BY <1>t, <2>1, JoinedEffect
    <2>3. ASSUME call[j].op = "deleteProject", ~call'[j].raced, NEW d \in Conns,
                 conn'[d].live, conn'[d].project = call[j].project
          PROVE  conn[d].live /\ conn[d].project = call[j].project
      <3>1. p # call[j].project
        BY <1>t, <2>2, <2>3
      <3>2. QED
        BY <2>1, <2>3, <3>1
    <2>4. QED
      BY <1>t, <2>2, <2>3, DeletionKept
  <1>2. ASSUME NEW r \in Requests, ExecStep(r) PROVE DeletionOK(j)'
    BY <1>t, <1>u, <1>2, ExecStepType
  <1>3. ASSUME NEW k \in Calls, CallStep(k) PROVE DeletionOK(j)'
    BY <1>3, DeletionCallStep
  <1>4. ASSUME Crash PROVE DeletionOK(j)'
    <2>1. call'[j].op = "none"
      BY <1>t, <1>4, CrashEffect, IdleCallType
    <2>2. QED
      BY <2>1 DEF DeletionOK
  <1>5. QED
    BY <1>t, <1>u, <1>1, <1>2, <1>3, <1>4, OtherEffect DEF Next

LEMMA FreedBy ==
  ASSUME DeletionInv, [Next]_vars, NEW c \in Conns,
         conn[c].live, conn[c].project # None, conn'[c].project = None
  PROVE  \E k \in Calls :
           \/ CallAt(k, "write", "move") /\ call[k].conn = c
           \/ CallAt(k, "write", "deleteProject") /\ (call[k].raced \/ call[k].cut)
  <1>t. TypeInv
    BY DEF DeletionInv
  <1>1. PICK k \in Calls : UpdateConnection(k) \/ DeleteConnection(k) \/ DeleteProject(k)
    <2>1. ASSUME NEW d \in Conns, NEW p \in Scope, NEW ops \in OpSets,
                 RegisterConnection(d, p, ops)
          PROVE  FALSE
      <3>1. ~conn[d].live /\ \A x \in Conns : x # d => conn'[x] = conn[x]
        BY <1>t, <2>1, RegisterEffect
      <3>2. QED
        BY <3>1
    <2>2. QED
      BY <1>t, <2>1, ExecStepType, CallStepRows, CrashEffect, OtherEffect DEF Next
  <1>2. CASE UpdateConnection(k)
    <2>1. conn' # conn
      OBVIOUS
    <2>2. /\ \A d \in Conns : d # call[k].conn => conn'[d] = conn[d]
          /\ conn'[call[k].conn].project = conn[call[k].conn].project \/ call[k].op = "move"
      BY <1>t, <1>2, <2>1, UpdateRow
    <2>3. call[k].conn = c /\ call[k].op = "move"
      BY <2>2
    <2>4. CallAt(k, "write", "move")
      BY <1>2, <2>3 DEF UpdateConnection, CallAt
    <2>5. QED
      BY <2>3, <2>4
  <1>3. CASE DeleteConnection(k)
    <2>1. /\ \A d \in Conns : d # call[k].conn => conn'[d] = conn[d]
          /\ conn'[call[k].conn].project = conn[call[k].conn].project
      BY <1>t, <1>3, DeleteRow
    <2>2. QED
      BY <2>1
  <1>4. CASE DeleteProject(k)
    <2>1. CallAt(k, "write", "deleteProject")
      BY <1>4 DEF DeleteProject
    <2>2. conn[c].project = call[k].project
      BY <1>t, <1>4, DeleteProjectRows
    <2>3. call[k].raced \/ call[k].cut
      BY <2>1, <2>2 DEF DeletionInv, DeletionOK, CallAt
    <2>4. QED
      BY <2>1, <2>3
  <1>5. QED
    BY <1>1, <1>2, <1>3, <1>4

(***************************************************************************)
(* A project's connection turns global, usable from every project, only    *)
(* when an operator moves it, or when deleteProject deletes a project that *)
(* somebody joined after its listings or that a cut listing did not show.  *)
(***************************************************************************)
THEOREM DeletionIsSafe == Spec => DeletionFreesNothing
  <1>1. Init => DeletionInv
    BY InitType, IdleCallType DEF Init, DeletionInv, DeletionOK
  <1>2. DeletionInv /\ [Next]_vars =>
          [\A c \in Conns :
             conn[c].live /\ conn[c].project # None /\ conn'[c].project = None
             => \E k \in Calls :
                  \/ CallAt(k, "write", "move") /\ call[k].conn = c
                  \/ CallAt(k, "write", "deleteProject") /\ (call[k].raced \/ call[k].cut)]_vars
    BY FreedBy
  <1>3. QED
    BY <1>1, <1>2, DeletionStep, PTL DEF Spec, DeletionFreesNothing
=============================================================================
