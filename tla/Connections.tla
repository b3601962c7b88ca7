---------------------------- MODULE Connections -----------------------------
(***************************************************************************)
(* Stored connections, the connectors an agent is authorized for, projects *)
(* and POST /capability/execute.  An execution awaits three separate reads *)
(* (the connection, the agent's connector grants, the credential) and then *)
(* the platform; the operators' calls interleave at every await.  The      *)
(* agent's row was read earlier still, by the JWT pipeline.                *)
(*                                                                         *)
(* A credential belongs to its connection and moves projects with it.      *)
(* Finished executions keep their record until the slot is reused.         *)
(***************************************************************************)
EXTENDS Naturals, FiniteSets, FixedWindow

CONSTANTS Agents, Conns, Projects, Ops,
          OpSets,      \* the operation lists an operator writes
          Limits,      \* the rate limits an operator writes; 0 stands for null
          Requests,    \* executions in flight
          Calls,       \* operator calls in flight
          PageSize,    \* rows one listing returns (clampLimit: 200)
          Window,      \* 60_000 ms
          MaxTime,     \* bound: the clock
          MaxWrites,   \* bound: operator calls
          MaxExecs,    \* bound: executions
          None         \* null

ASSUME ConnectionsAssumption ==
  /\ None \notin Projects \cup Conns \cup Agents \cup Ops
  /\ {} \in OpSets /\ OpSets \subseteq SUBSET Ops
  /\ Limits \subseteq Nat /\ 0 \in Limits
  /\ PageSize \in Nat \ {0} /\ Window \in Nat \ {0}
  /\ MaxTime \in Nat \ {0} /\ MaxWrites \in Nat /\ MaxExecs \in Nat

VARIABLES project,       \* projects that exist
          agentProject,  \* agents.project_id
          conn,          \* connections
          wire,          \* connection_grants
          bucket,        \* the proxy's rateBuckets
          lastSweep,
          passed,        \* observer: limited executions let through, by window
          exec,          \* executions
          call,          \* operator calls
          writes,        \* operator calls admitted so far
          execs,         \* executions admitted so far
          now

vars == <<project, agentProject, conn, wire, bucket, passed, lastSweep, exec, call,
          writes, execs, now>>

Scope == Projects \cup {None}

\* A connections row; "live" says that the row exists.
ConnRow == [live: BOOLEAN, project: Scope, allowed: SUBSET Ops]

\* A connection that is not registered yet.
NoConn == [live |-> FALSE, project |-> None, allowed |-> {}]

\* A connection_grants row; "on" says that the row exists.
WireRow == [on: BOOLEAN, ops: SUBSET Ops, limit: Nat]

NoWire == [on |-> FALSE, ops |-> {}, limit |-> 0]

ExecPc == {"idle", "findConn", "listWires", "getCred", "platform", "audit", "auditDenied",
           "done"}

(***************************************************************************)
(* project is the agent's project as the pipeline read it.  Observers:     *)
(* touched, whether an operator has changed the agent, the connection or   *)
(* the agent's wiring between that read and the platform call; sent,       *)
(* whether the platform was called; logged, the audit entry written.       *)
(***************************************************************************)
ExecState ==
  [pc: ExecPc, agent: Agents \cup {None}, project: Scope, conn: Conns \cup {None},
   op: Ops \cup {None},
   reply: {"none", "ok", "error", "denied"}, logged: {"none", "execute", "denied"},
   sent: BOOLEAN, touched: BOOLEAN]

\* updateConnection is "update" when it writes the operations, "move" the project.
CallOps == {"update", "move", "deleteConn", "attach", "detach", "deleteProject",
            "setProject"}

(***************************************************************************)
(* An operator's call.  project is the project written (or deleted), ops   *)
(* and limit the ones written, seen the agent's project that attach read,  *)
(* agentsListed / connsListed the listings of deleteProject that are back. *)
(* Observers: raced, whether somebody joined the project since deleteProject*)
(* began; cut, whether a listing was cut off at PageSize.                  *)
(***************************************************************************)
CallState ==
  [pc: {"idle", "load", "loadConn", "list", "write"}, op: CallOps \cup {"none"},
   agent: Agents \cup {None}, conn: Conns \cup {None}, project: Scope, ops: SUBSET Ops,
   limit: Nat, seen: Scope,
   agentsListed: BOOLEAN, connsListed: BOOLEAN, raced: BOOLEAN, cut: BOOLEAN]

\* Well-formedness of the database rows, the buckets and the calls in flight.
TypeOK ==
  /\ project \in SUBSET Projects
  /\ agentProject \in [Agents -> Scope]
  /\ conn \in [Conns -> ConnRow]
  /\ wire \in [Agents \X Conns -> WireRow]
  /\ bucket \in [Agents \X Conns -> Bucket]
  /\ passed \in [Agents \X Conns -> Bucket]
  /\ lastSweep \in Nat
  /\ exec \in [Requests -> ExecState]
  /\ call \in [Calls -> CallState]
  /\ writes \in Nat /\ execs \in Nat
  /\ now \in Nat \ {0}

-----------------------------------------------------------------------------
(* Execution *)

IdleExec ==
  [pc |-> "idle", agent |-> None, project |-> None, conn |-> None, op |-> None,
   reply |-> "none", logged |-> "none", sent |-> FALSE, touched |-> FALSE]

ExecAt(r, pc) == exec[r].pc = pc

\* The execution is answered; only what was said, logged and sent is kept.
EndExec(r, reply, logged) ==
  exec' = [exec EXCEPT ![r] = [IdleExec EXCEPT !.pc = "done", !.reply = reply,
                                 !.logged = logged, !.sent = exec[r].sent]]

\* A 403 or 429: the route writes a "capability.denied" entry before it answers.
Deny(r) == exec' = [exec EXCEPT ![r] = [@ EXCEPT !.pc = "auditDenied"]]

ExecGoto(r, pc) == exec' = [exec EXCEPT ![r] = [@ EXCEPT !.pc = pc]]

\* The connection must be the agent's project's, or global.
SameProject(connProject, of) == connProject = None \/ connProject = of

\* An empty list permits every operation.
Permits(ops, op) == ops = {} \/ op \in ops

Wired(a) == {c \in Conns : wire[<<a, c>>].on}

WireAllowsUnlisted(a, c, op) ==
  c \notin Wired(a) \/ Permits(wire[<<a, c>>].ops, op)

\* Connector authorization: an agent with none is unrestricted.
WireAllows(a, c, op) ==
  Wired(a) = {} \/ (c \in Wired(a) /\ Permits(wire[<<a, c>>].ops, op))

(***************************************************************************)
(* The pipeline has run: it read the agent (stage 2) and found an active   *)
(* grant that maps the capability to c and op.  A grant without a mapping  *)
(* (c = None) is refused with 400.                                         *)
(***************************************************************************)
ExecArrive(r, a, c, op) ==
  /\ exec[r].pc \in {"idle", "done"}
  /\ exec' = [exec EXCEPT ![r] =
                IF c = None THEN [IdleExec EXCEPT !.pc = "done", !.reply = "error"]
                ELSE [IdleExec EXCEPT !.pc = "findConn", !.agent = a, !.conn = c, !.op = op,
                                      !.project = agentProject[a]]]
  /\ execs < MaxExecs /\ execs' = execs + 1
  /\ UNCHANGED <<project, agentProject, conn, wire, bucket, passed, lastSweep, call, writes,
                 now>>

FindConnUnscoped(r) ==
  /\ ExecAt(r, "findConn")
  /\ LET e == exec[r]
         row == conn[e.conn]
     IN \/ ~row.live /\ EndExec(r, "error", "none")
        \/ row.live /\ Permits(row.allowed, e.op) /\ ExecGoto(r, "listWires")
        \/ row.live /\ ~Permits(row.allowed, e.op) /\ Deny(r)
  /\ UNCHANGED <<project, agentProject, conn, wire, bucket, passed, lastSweep, call, writes,
                 execs, now>>

\* connections.findById, the project check and the connection's own list.
FindConn(r) ==
  /\ ExecAt(r, "findConn")
  /\ LET e == exec[r]
         row == conn[e.conn]
     IN \/ ~row.live /\ EndExec(r, "error", "none")
        \/ row.live /\ SameProject(row.project, e.project) /\ Permits(row.allowed, e.op)
             /\ ExecGoto(r, "listWires")
        \/ row.live /\ ~(SameProject(row.project, e.project) /\ Permits(row.allowed, e.op))
             /\ Deny(r)
  /\ UNCHANGED <<project, agentProject, conn, wire, bucket, passed, lastSweep, call, writes,
                 execs, now>>

\* The limit that applies: none without connector grants, or when it is null or 0.
LimitOf(a, c) == IF c \in Wired(a) THEN wire[<<a, c>>].limit ELSE 0

SweptBucketsAlways == [k \in DOMAIN bucket |-> NoBucket]

\* The proxy's sweep runs at most once per window.
SweptBuckets == IF now - lastSweep < Window THEN bucket ELSE Swept(bucket, now)

(***************************************************************************)
(* connectionGrants.listByAgent and everything up to the next await:       *)
(* authorization, the rate limit, the policy engine's decision and the     *)
(* driver lookup (decided by live settings and the registry, left open:    *)
(* "deny" stands for deny and require_approval, "noDriver" for a platform  *)
(* without a driver).                                                      *)
(***************************************************************************)
ListWires(r, verdict) ==
  /\ ExecAt(r, "listWires")
  /\ LET e == exec[r]
         k == <<e.agent, e.conn>>
         hit == Hit(SweptBuckets[k], now, Window)
         limited == WireAllows(e.agent, e.conn, e.op) /\ LimitOf(e.agent, e.conn) > 0
         over == limited /\ hit.count > LimitOf(e.agent, e.conn)
     IN /\ IF limited
           THEN /\ bucket' = [SweptBuckets EXCEPT ![k] = hit]
                /\ passed' = [passed EXCEPT ![k] =
                     [count |-> (IF passed[k].resetAt = hit.resetAt THEN passed[k].count ELSE 0)
                                + (IF over THEN 0 ELSE 1),
                      resetAt |-> hit.resetAt]]
                /\ lastSweep' = IF now - lastSweep < Window THEN lastSweep ELSE now
           ELSE UNCHANGED <<bucket, passed, lastSweep>>
        /\ \/ (~WireAllows(e.agent, e.conn, e.op) \/ over \/ verdict = "deny") /\ Deny(r)
           \/ WireAllows(e.agent, e.conn, e.op) /\ ~over /\ verdict = "noDriver"
                /\ EndExec(r, "error", "none")
           \/ WireAllows(e.agent, e.conn, e.op) /\ ~over /\ verdict = "allow"
                /\ ExecGoto(r, "getCred")
  /\ UNCHANGED <<project, agentProject, conn, wire, call, writes, execs, now>>

(***************************************************************************)
(* getEncryptedCredential, decryption and the start of driver.execute.     *)
(* The driver either sends its request or throws before it (an operation   *)
(* it does not know, a missing secret field).                              *)
(***************************************************************************)
GetCredential(r) ==
  /\ ExecAt(r, "getCred")
  /\ LET row == conn[exec[r].conn] IN
       \/ ~row.live /\ EndExec(r, "error", "none")
       \/ /\ row.live
          /\ exec' = [exec EXCEPT ![r] = [@ EXCEPT !.pc = "platform", !.sent = TRUE]]
       \/ /\ row.live
          /\ exec' = [exec EXCEPT ![r] = [@ EXCEPT !.pc = "audit", !.reply = "error"]]
  /\ UNCHANGED <<project, agentProject, conn, wire, bucket, passed, lastSweep, call, writes,
                 execs, now>>

(***************************************************************************)
(* The platform's answer.  A result whose status is not ok is audited as   *)
(* an error and still answered 200 with its data; a throw is mapped by     *)
(* mapError to an answer of 502 (or the driver's own 400).                 *)
(***************************************************************************)
PlatformAnswer(r, reply) ==
  /\ ExecAt(r, "platform")
  /\ exec' = [exec EXCEPT ![r] = [@ EXCEPT !.pc = "audit", !.reply = reply]]
  /\ UNCHANGED <<project, agentProject, conn, wire, bucket, passed, lastSweep, call, writes,
                 execs, now>>

AuditExecuteSwallowed(r) ==
  /\ ExecAt(r, "audit")
  /\ \E logged \in {"execute", "none"} : EndExec(r, exec[r].reply, logged)
  /\ UNCHANGED <<project, agentProject, conn, wire, bucket, passed, lastSweep, call, writes,
                 execs, now>>

\* The append in the finally block; if it fails, its error replaces the answer.
AuditExecute(r) ==
  /\ ExecAt(r, "audit")
  /\ \/ EndExec(r, exec[r].reply, "execute")
     \/ EndExec(r, "error", "none")
  /\ UNCHANGED <<project, agentProject, conn, wire, bucket, passed, lastSweep, call, writes,
                 execs, now>>

\* The route's best-effort append for a 403 or 429, then the error.
AuditDenied(r) ==
  /\ ExecAt(r, "auditDenied")
  /\ \/ EndExec(r, "denied", "denied")
     \/ EndExec(r, "denied", "none")
  /\ UNCHANGED <<project, agentProject, conn, wire, bucket, passed, lastSweep, call, writes,
                 execs, now>>

-----------------------------------------------------------------------------
(* Operator calls *)

\* A request as its route hands it on; null and 0 where it has no such field.
Body(pc, op, a, c, p, o, l) ==
  [pc |-> pc, op |-> op, agent |-> a, conn |-> c, project |-> p, ops |-> o, limit |-> l,
   seen |-> None, agentsListed |-> FALSE, connsListed |-> FALSE, raced |-> FALSE,
   cut |-> FALSE]

IdleCall == Body("idle", "none", None, None, None, {}, 0)

EndCall(k) == call' = [call EXCEPT ![k] = IdleCall]

CallAt(k, pc, op) == call[k].pc = pc /\ call[k].op = op

CallGoto(k, pc) == call' = [call EXCEPT ![k] = [@ EXCEPT !.pc = pc]]

\* Executions that have not called yet and that a change of these rows touches.
Touch(As, Cs) ==
  exec' = [r \in Requests |->
             IF /\ exec[r].pc \in {"findConn", "listWires", "getCred"}
                /\ exec[r].agent \in As \/ exec[r].conn \in Cs
             THEN [exec[r] EXCEPT !.touched = TRUE] ELSE exec[r]]

\* Another deleteProject under way has been overtaken by somebody joining p.
Joined(calls, p) ==
  [k \in Calls |-> IF calls[k].op = "deleteProject" /\ calls[k].project = p /\ p # None
                   THEN [calls[k] EXCEPT !.raced = TRUE] ELSE calls[k]]

\* The requests an operator makes: what the routes read from path and body.
Bodies ==
  {Body("load", "update", None, c, None, o, 0) : c \in Conns, o \in OpSets}
  \cup {Body("load", "move", None, c, p, {}, 0) : c \in Conns, p \in Scope}
  \cup {Body("load", "deleteConn", None, c, None, {}, 0) : c \in Conns}
  \cup {Body("load", "attach", a, c, None, o, l) :
          a \in Agents, c \in Conns, o \in OpSets, l \in Limits}
  \cup {Body("load", "detach", a, c, None, {}, 0) : a \in Agents, c \in Conns}
  \cup {Body("load", "setProject", a, None, p, {}, 0) : a \in Agents, p \in Scope}
  \cup {Body("list", "deleteProject", None, None, p, {}, 0) : p \in Projects}

CallArrive(k, body) ==
  /\ call[k].pc = "idle" /\ writes < MaxWrites
  /\ call' = [call EXCEPT ![k] = body]
  /\ writes' = writes + 1
  /\ UNCHANGED <<project, agentProject, conn, wire, bucket, passed, lastSweep, exec,
                 execs, now>>

\* POST /connections: one INSERT, refused by the foreign key if p is gone.
RegisterConnection(c, p, ops) ==
  /\ writes < MaxWrites /\ writes' = writes + 1
  /\ ~conn[c].live /\ p \in project \cup {None}
  /\ conn' = [conn EXCEPT ![c] = [live |-> TRUE, project |-> p, allowed |-> ops]]
  /\ call' = Joined(call, p)
  /\ UNCHANGED <<project, agentProject, wire, bucket, passed, lastSweep, exec, execs, now>>

\* updateConnection and deleteConnection: findById, 404 when there is none.
LoadConnection(k) ==
  /\ call[k].pc = "load" /\ call[k].op \in {"update", "move", "deleteConn"}
  /\ IF conn[call[k].conn].live THEN CallGoto(k, "write") ELSE EndCall(k)
  /\ UNCHANGED <<project, agentProject, conn, wire, bucket, passed, lastSweep, exec, writes,
                 execs, now>>

\* The UPDATE of the fields the body named.  No row: 500.  Project gone: foreign key.
UpdateConnection(k) ==
  /\ call[k].pc = "write" /\ call[k].op \in {"update", "move"}
  /\ LET c == call[k].conn
         p == call[k].project
         row == IF call[k].op = "move" THEN [conn[c] EXCEPT !.project = p]
                                       ELSE [conn[c] EXCEPT !.allowed = call[k].ops]
     IN IF conn[c].live /\ p \in project \cup {None}
        THEN /\ conn' = [conn EXCEPT ![c] = row]
             /\ call' = Joined([call EXCEPT ![k] = IdleCall], p)
             /\ Touch({}, {c})
        ELSE EndCall(k) /\ UNCHANGED <<conn, exec>>
  /\ UNCHANGED <<project, agentProject, wire, bucket, passed, lastSweep, writes, execs, now>>

\* The DELETE cascades to connection_grants.
DeleteConnection(k) ==
  /\ CallAt(k, "write", "deleteConn")
  /\ LET c == call[k].conn IN
       /\ conn' = [conn EXCEPT ![c] = [@ EXCEPT !.live = FALSE]]
       /\ wire' = [w \in Agents \X Conns |-> IF w[2] = c THEN NoWire ELSE wire[w]]
       /\ Touch({a \in Agents : wire[<<a, c>>].on}, {c})
  /\ EndCall(k)
  /\ UNCHANGED <<project, agentProject, bucket, passed, lastSweep, writes, execs, now>>

\* attach, detach and setAgentProject read the agent; 403 unless the caller owns it.
LoadAgent(k, owned) ==
  /\ call[k].pc = "load" /\ call[k].op \in {"attach", "detach", "setProject"}
  /\ \/ ~owned /\ EndCall(k)
     \/ /\ owned
        /\ call' = [call EXCEPT ![k] =
                      [@ EXCEPT !.pc = IF call[k].op = "attach" THEN "loadConn" ELSE "write",
                                !.seen = agentProject[call[k].agent]]]
  /\ UNCHANGED <<project, agentProject, conn, wire, bucket, passed, lastSweep, exec, writes,
                 execs, now>>

(***************************************************************************)
(* attachConnection: 404, the cross-project guard, and the operations must *)
(* be ones the connection permits (its list or, when that is empty, the    *)
(* driver's concrete operations: every operation of the model).            *)
(***************************************************************************)
AttachLoadConn(k) ==
  /\ CallAt(k, "loadConn", "attach")
  /\ LET row == conn[call[k].conn] IN
       IF /\ row.live
          /\ SameProject(row.project, call[k].seen)
          /\ row.allowed # {} => call[k].ops \subseteq row.allowed
       THEN CallGoto(k, "write")
       ELSE EndCall(k)
  /\ UNCHANGED <<project, agentProject, conn, wire, bucket, passed, lastSweep, exec, writes,
                 execs, now>>

\* The upsert (the foreign key refuses a deleted connection), then its audit entry.
AttachConnection(k) ==
  /\ CallAt(k, "write", "attach")
  /\ LET c == call[k].conn IN
       IF conn[c].live
       THEN /\ wire' = [wire EXCEPT ![<<call[k].agent, c>>] =
                          [on |-> TRUE, ops |-> call[k].ops, limit |-> call[k].limit]]
            /\ Touch({call[k].agent}, {})
       ELSE UNCHANGED <<wire, exec>>
  /\ EndCall(k)
  /\ UNCHANGED <<project, agentProject, conn, bucket, passed, lastSweep, writes, execs, now>>

\* The DELETE of the connector grant, then its audit entry.
DetachConnection(k) ==
  /\ CallAt(k, "write", "detach")
  /\ wire' = [wire EXCEPT ![<<call[k].agent, call[k].conn>>] = NoWire]
  /\ Touch({call[k].agent}, {})
  /\ EndCall(k)
  /\ UNCHANGED <<project, agentProject, conn, bucket, passed, lastSweep, writes, execs, now>>

CreateProject(p) ==
  /\ writes < MaxWrites /\ writes' = writes + 1
  /\ p \notin project
  /\ project' = project \cup {p}
  /\ UNCHANGED <<agentProject, conn, wire, bucket, passed, lastSweep, exec, call,
                 execs, now>>

SetAgentProject(k) ==
  /\ CallAt(k, "write", "setProject")
  /\ LET a == call[k].agent
         p == call[k].project
     IN IF p \in project \cup {None}
        THEN /\ agentProject' = [agentProject EXCEPT ![a] = p]
             /\ call' = Joined([call EXCEPT ![k] = IdleCall], p)
             /\ Touch({a}, {})
        ELSE EndCall(k) /\ UNCHANGED <<agentProject, exec>>
  /\ UNCHANGED <<project, conn, wire, bucket, passed, lastSweep, writes, execs, now>>

\* Which PageSize rows a listing returns: the newest, an order left open here.
Pages(rows) ==
  {s \in SUBSET rows : Cardinality(s) = IF Cardinality(rows) < PageSize
                                        THEN Cardinality(rows) ELSE PageSize}

LiveConns == {c \in Conns : conn[c].live}

ListMembersAgentsOnly(k, kind) ==
  /\ CallAt(k, "list", "deleteProject")
  /\ ~call[k].agentsListed /\ kind = "agents"
  /\ IF \E a \in Agents : agentProject[a] = call[k].project
     THEN EndCall(k)
     ELSE call' = [call EXCEPT ![k] = [@ EXCEPT !.pc = "write", !.agentsListed = TRUE]]
  /\ UNCHANGED <<project, agentProject, conn, wire, bucket, passed, lastSweep, exec, writes,
                 execs, now>>

(***************************************************************************)
(* deleteProject: the two listings of its Promise.all come back in either  *)
(* order.  A member among the rows of either is a 409, once both are back. *)
(***************************************************************************)
ListMembers(k, kind) ==
  /\ CallAt(k, "list", "deleteProject")
  /\ LET q == call[k]
         rows == IF kind = "agents" THEN Agents ELSE LiveConns
         projectOf(x) == IF kind = "agents" THEN agentProject[x] ELSE conn[x].project
         back == IF kind = "agents" THEN q.connsListed ELSE q.agentsListed
     IN /\ ~(IF kind = "agents" THEN q.agentsListed ELSE q.connsListed)
        /\ \E page \in Pages(rows) :
             IF \E x \in page : projectOf(x) = q.project
             THEN EndCall(k)
             ELSE call' = [call EXCEPT ![k] =
                             [q EXCEPT !.pc = IF back THEN "write" ELSE "list",
                                       !.agentsListed = q.agentsListed \/ kind = "agents",
                                       !.connsListed = q.connsListed \/ kind = "conns",
                                       !.cut = q.cut \/ page # rows]]
  /\ UNCHANGED <<project, agentProject, conn, wire, bucket, passed, lastSweep, exec, writes,
                 execs, now>>

\* The DELETE sets project_id to null wherever it is referenced.
DeleteProject(k) ==
  /\ CallAt(k, "write", "deleteProject")
  /\ LET p == call[k].project
         As == {a \in Agents : agentProject[a] = p}
         Cs == {c \in Conns : conn[c].project = p}
     IN /\ project' = project \ {p}
        /\ agentProject' = [a \in Agents |-> IF a \in As THEN None ELSE agentProject[a]]
        /\ conn' = [c \in Conns |->
                      IF c \in Cs THEN [conn[c] EXCEPT !.project = None] ELSE conn[c]]
        /\ Touch(As, Cs)
  /\ EndCall(k)
  /\ UNCHANGED <<wire, bucket, passed, lastSweep, writes, execs, now>>

-----------------------------------------------------------------------------

\* The process dies: every execution and call in flight, and the buckets, are lost.
Crash ==
  /\ exec' = [r \in Requests |-> IdleExec]
  /\ call' = [k \in Calls |-> IdleCall]
  /\ bucket' = [k \in Agents \X Conns |-> NoBucket]
  /\ passed' = [k \in Agents \X Conns |-> NoBucket]
  /\ lastSweep' = now
  /\ \E r \in Requests : exec[r].pc \notin {"idle", "done"}
  /\ UNCHANGED <<project, agentProject, conn, wire, writes, execs, now>>

\* Time passes; only an open window can tell.
Tick ==
  /\ \E k \in Agents \X Conns : bucket[k].resetAt > now
  /\ now < MaxTime /\ now' = now + 1
  /\ UNCHANGED <<project, agentProject, conn, wire, bucket, passed, lastSweep, exec, call, writes,
                 execs>>

Init ==
  /\ project = Projects
  /\ agentProject \in [Agents -> Scope]
  /\ conn \in [Conns -> {NoConn} \cup [live: {TRUE}, project: Scope, allowed: {{}}]]
  /\ wire \in [Agents \X Conns -> {NoWire} \cup [on: {TRUE}, ops: {{}}, limit: {0}]]
  /\ \A w \in Agents \X Conns : wire[w].on => conn[w[2]].live
  /\ bucket = [k \in Agents \X Conns |-> NoBucket]
  /\ passed = [k \in Agents \X Conns |-> NoBucket]
  /\ lastSweep = 1
  /\ exec = [r \in Requests |-> IdleExec]
  /\ call = [k \in Calls |-> IdleCall]
  /\ writes = 0 /\ execs = 0
  /\ now = 1

ExecStep(r) ==
  \/ \E a \in Agents, c \in Conns \cup {None}, op \in Ops : ExecArrive(r, a, c, op)
  \/ FindConn(r)
  \/ \E v \in {"allow", "deny", "noDriver"} : ListWires(r, v)
  \/ GetCredential(r)
  \/ \E y \in {"ok", "error"} : PlatformAnswer(r, y)
  \/ AuditExecute(r)
  \/ AuditDenied(r)

CallStep(k) ==
  \/ \E body \in Bodies : CallArrive(k, body)
  \/ LoadConnection(k)
  \/ UpdateConnection(k)
  \/ DeleteConnection(k)
  \/ \E owned \in BOOLEAN : LoadAgent(k, owned)
  \/ AttachLoadConn(k)
  \/ AttachConnection(k)
  \/ DetachConnection(k)
  \/ SetAgentProject(k)
  \/ \E kind \in {"agents", "conns"} : ListMembers(k, kind)
  \/ DeleteProject(k)

Next ==
  \/ \E r \in Requests : ExecStep(r)
  \/ \E k \in Calls : CallStep(k)
  \/ \E c \in Conns, p \in Scope, ops \in OpSets : RegisterConnection(c, p, ops)
  \/ \E p \in Projects : CreateProject(p)
  \/ Crash
  \/ Tick

Spec == Init /\ [][Next]_vars

-----------------------------------------------------------------------------
(* Properties *)

\* What execute decides from the rows as they are now.
Entitled(a, c, op) ==
  /\ conn[c].live
  /\ SameProject(conn[c].project, agentProject[a])
  /\ Permits(conn[c].allowed, op)
  /\ WireAllows(a, c, op)

Reach(a) == {co \in Conns \X Ops : Entitled(a, co[1], co[2])}

(***************************************************************************)
(* Isolation at the platform call.  execute checks authority at three      *)
(* awaits, on an agent row read before all of them.  When it calls the     *)
(* platform, the agent is entitled by the rows as they are at that moment  *)
(* (project, both operation lists, wiring), unless an operator's write     *)
(* touched the agent, the connection or the wiring in between.             *)
(***************************************************************************)
CallsAreEntitled ==
  [][\A r \in Requests :
       ~exec[r].sent /\ exec'[r].sent
       => exec[r].touched \/ Entitled(exec[r].agent, exec[r].conn, exec[r].op)]_vars

(***************************************************************************)
(* The audit trail.  An execution answered with data was sent to the       *)
(* platform and has its entry; one that was sent and has no entry answered *)
(* with an error (the append itself failed); one recorded as denied never  *)
(* reached the platform.                                                   *)
(***************************************************************************)
AuditMatchesCalls ==
  \A r \in Requests :
    exec[r].pc = "done" =>
      /\ exec[r].reply = "ok" => exec[r].sent /\ exec[r].logged = "execute"
      /\ exec[r].sent /\ exec[r].logged = "none" => exec[r].reply = "error"
      /\ exec[r].logged = "denied" => ~exec[r].sent

(***************************************************************************)
(* Taking connector authorizations away from an agent (a detach, or the    *)
(* deletion of a connection with its cascade) lets it reach something new  *)
(* only when it takes away the last one, after which the agent counts as   *)
(* unrestricted.                                                           *)
(***************************************************************************)
OnlyLastDetachWidens ==
  [][\A a \in Agents :
       wire' # wire /\ Wired(a)' \subseteq Wired(a) /\ ~(Reach(a)' \subseteq Reach(a))
       => Wired(a)' = {} \/ Wired(a)' = Wired(a)]_vars

(***************************************************************************)
(* A project's connection becomes global only by an operator's update of   *)
(* that connection, or by a deleteProject that somebody overtook by joining*)
(* the project, or whose listing was cut off at PageSize rows.             *)
(***************************************************************************)
DeletionFreesNothing ==
  [][\A c \in Conns :
       conn[c].live /\ conn[c].project # None /\ conn'[c].project = None
       => \E k \in Calls :
            \/ CallAt(k, "write", "move") /\ call[k].conn = c
            \/ CallAt(k, "write", "deleteProject") /\ (call[k].raced \/ call[k].cut)]_vars

\* In one window a limited agent gets no more executions of a connection through
\* than the largest limit it was given, whatever is attached, swept or interleaved.
WindowIsCapped ==
  \A k \in Agents \X Conns : \A m \in Limits :
    (\A l \in Limits : l <= m) => passed[k].count <= m

=============================================================================
