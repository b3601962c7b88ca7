------------------------------- MODULE Grants -------------------------------
(***************************************************************************)
(* Capability grants and tasks: grantCapability, requestCapability,        *)
(* createTask and completeTask of identityService.ts, running concurrently *)
(* over the capability_grants and tasks tables.                            *)
(*                                                                         *)
(* CapabilityGrantRepository.upsert is a DELETE and then an INSERT, each a *)
(* transaction of its own (no caller wraps them in storage.transaction),   *)
(* so it is two actions and other calls run between them.  An agent's      *)
(* owner and project do not change here, so reading them is part of the    *)
(* action that admits the call; a call refused there changes nothing.      *)
(***************************************************************************)
EXTENDS Naturals, Sequences, FiniteSets

CONSTANTS
  Hosts, Agents, Caps,
  Owner,          \* Owner[a]: the host of agent a
  Connections,    \* connection ids that a request may name
  Stored,         \* the ids among them that are rows of the connections table
  Reachable,      \* <<a, x>>: stored x has no project, or the project of a
  NoConnection,   \* the null of connection_id
  Tasks, NoTask,  \* task ids, and the null of task_id
  Calls,          \* concurrent handler activations
  Ops,            \* the operations the environment invokes
  Lists,          \* the capability lists a request may carry
  Ttls,           \* the ttl_seconds a task may ask for, in ticks; 0 is no limit
  Standing,       \* <<a, k>>: granted without a task when the behaviour starts
  MaxTime,        \* bound on the clock
  Faults          \* TRUE: a call may die at any await

CapabilitySpec == [cap: Caps, connection: Connections \cup {NoConnection}]

ASSUME OwnerAssumption == Agents # {} /\ Owner \in [Agents -> Hosts]

ASSUME TableAssumption ==
  /\ Stored \subseteq Connections
  /\ Reachable \subseteq Agents \X Stored
  /\ Standing \subseteq Agents \X Caps
  /\ NoConnection \notin Connections
  /\ NoTask \notin Tasks

ASSUME InputAssumption ==
  /\ Lists \subseteq Seq(CapabilitySpec)
  /\ Ttls \subseteq Nat
  /\ MaxTime \in Nat
  /\ IsFiniteSet(Calls) /\ Calls # {}
  /\ Faults \in BOOLEAN

VARIABLES
  grants,  \* grants[a][k]: the rows of (a, k) in created_at order
  task,    \* task[t]: the row of task t
  call,    \* call[c]: where handler activation c stands
  now      \* Date.now(), in ticks; 0 is never a time

vars == <<grants, task, call, now>>

NoTime == 0

GrantStatus == {"active", "pending", "denied"}

Row == [status: GrantStatus, connection: Stored \cup {NoConnection},
        task: Tasks \cup {NoTask}, expires: Nat]

TaskRow == [status: {"absent", "active", "completed"}, agent: Agents, expires: Nat]

AllOps == {"grant", "request", "createTask", "completeTask"}

CallState ==
  [pc: {"idle", "find", "create", "delete", "insert", "revoke", "setStatus"},
   op: AllOps, agent: Agents,
   todo: Seq(CapabilitySpec),          \* what the loop over the capabilities has left
   task: Tasks \cup {NoTask},
   expires: Nat]

TypeOK ==
  /\ grants \in [Agents -> [Caps -> Seq(Row)]]
  /\ task \in [Tasks -> TaskRow]
  /\ call \in [Calls -> CallState]
  /\ now \in Nat \ {0}

-----------------------------------------------------------------------------
SomeAgent == CHOOSE a \in Agents : TRUE

Idle == [pc |-> "idle", op |-> "grant", agent |-> SomeAgent, todo |-> << >>,
         task |-> NoTask, expires |-> NoTime]

StandingRow == [status |-> "active", connection |-> NoConnection,
                task |-> NoTask, expires |-> NoTime]

Init ==
  /\ grants = [a \in Agents |-> [k \in Caps |->
                 IF <<a, k>> \in Standing THEN <<StandingRow>> ELSE << >>]]
  /\ task = [t \in Tasks |-> [status |-> "absent", agent |-> SomeAgent, expires |-> NoTime]]
  /\ call = [c \in Calls |-> Idle]
  /\ now = 1

At(c, pc) == call[c].pc = pc

Goto(c, pc) == call' = [call EXCEPT ![c].pc = pc]

\* The call answers its client, or throws, which the route turns into an answer.
Finish(c) == call' = [call EXCEPT ![c] = Idle]

Begin(c, pc, op, a, todo) ==
  /\ At(c, "idle")
  /\ op \in Ops
  /\ call' = [call EXCEPT ![c] =
                [Idle EXCEPT !.pc = pc, !.op = op, !.agent = a, !.todo = todo]]

\* The condition of findActive on a row.
Usable(row) == row.status = "active" /\ (row.expires = NoTime \/ row.expires > now)

\* findActive returns a row.
HasActive(a, k) == \E i \in DOMAIN grants[a][k] : Usable(grants[a][k][i])

-----------------------------------------------------------------------------
(* The four operations, up to their first write *)

\* A connection that is stored must be reachable; one that is not stored passes.
grantCapability(c, h, a, spec) ==
  /\ Owner[a] = h
  /\ spec.connection \in Stored => <<a, spec.connection>> \in Reachable
  /\ Begin(c, "delete", "grant", a, <<spec>>)
  /\ UNCHANGED <<grants, task, now>>

requestCapability(c, a, list) ==
  /\ list # << >>
  /\ Begin(c, "find", "request", a,
           [i \in DOMAIN list |-> [list[i] EXCEPT !.connection = NoConnection]])
  /\ UNCHANGED <<grants, task, now>>

ExpiresAt(ttl) == IF ttl > 0 THEN now + ttl ELSE NoTime

createTask(c, h, a, list, ttl) ==
  /\ At(c, "idle")
  /\ "createTask" \in Ops
  /\ Owner[a] = h
  /\ call' = [call EXCEPT ![c] =
                [Idle EXCEPT !.pc = "create", !.op = "createTask", !.agent = a,
                             !.todo = list, !.expires = ExpiresAt(ttl)]]
  /\ UNCHANGED <<grants, task, now>>

\* A client learns the id from the answer of createTask, or earlier from GET
\* /tasks, which shows it as soon as the row exists.
completeTask(c, h, t) ==
  /\ At(c, "idle")
  /\ "completeTask" \in Ops
  /\ task[t].status # "absent"
  /\ Owner[task[t].agent] = h
  /\ call' = [call EXCEPT ![c] =
                [Idle EXCEPT !.pc = "revoke", !.op = "completeTask", !.task = t]]
  /\ UNCHANGED <<grants, task, now>>

-----------------------------------------------------------------------------
(* requestCapability: the loop *)

\* Mutant of FindActive: what the agent has already is upserted as well.
FindActiveNot(c) ==
  /\ At(c, "find")
  /\ Goto(c, "delete")
  /\ UNCHANGED <<grants, task, now>>

\* An active capability is returned as it is, any other is upserted as pending.
FindActive(c) ==
  /\ At(c, "find")
  /\ IF HasActive(call[c].agent, Head(call[c].todo).cap)
     THEN IF Len(call[c].todo) = 1 THEN Finish(c)
          ELSE call' = [call EXCEPT ![c].todo = Tail(@)]
     ELSE Goto(c, "delete")
  /\ UNCHANGED <<grants, task, now>>

(* createTask: the task row *)

TaskCreate(c, t) ==
  /\ At(c, "create")
  /\ task[t].status = "absent"
  /\ task' = [task EXCEPT ![t] = [status |-> "active", agent |-> call[c].agent,
                                  expires |-> call[c].expires]]
  /\ IF call[c].todo = << >> THEN Finish(c)
     ELSE call' = [call EXCEPT ![c] = [@ EXCEPT !.pc = "delete", !.task = t]]
  /\ UNCHANGED <<grants, now>>

-----------------------------------------------------------------------------
(* upsert *)

\* Mutant of UpsertDelete: the DELETE spares active rows.
UpsertDeletePending(c) ==
  /\ At(c, "delete")
  /\ grants' = [grants EXCEPT ![call[c].agent][Head(call[c].todo).cap] =
                  SelectSeq(@, LAMBDA row : row.status = "active")]
  /\ Goto(c, "insert")
  /\ UNCHANGED <<task, now>>

UpsertDelete(c) ==
  /\ At(c, "delete")
  /\ grants' = [grants EXCEPT ![call[c].agent][Head(call[c].todo).cap] = << >>]
  /\ Goto(c, "insert")
  /\ UNCHANGED <<task, now>>

\* Mutant of NewRow: the expiry of the task is not passed on to its grants.
NewRowUnlimited(c) ==
  [status |-> IF call[c].op = "request" THEN "pending" ELSE "active",
   connection |-> Head(call[c].todo).connection, task |-> call[c].task,
   expires |-> NoTime]

\* The row that grantCapability, requestCapability and createTask insert.
NewRow(c) ==
  [status |-> IF call[c].op = "request" THEN "pending" ELSE "active",
   connection |-> Head(call[c].todo).connection, task |-> call[c].task,
   expires |-> call[c].expires]

\* connection_id references connections: an unknown id makes the INSERT fail.
UpsertInsert(c) ==
  /\ At(c, "insert")
  /\ IF Head(call[c].todo).connection \in Stored \cup {NoConnection}
     THEN /\ grants' = [grants EXCEPT ![call[c].agent][Head(call[c].todo).cap] =
                          Append(@, NewRow(c))]
          /\ IF Len(call[c].todo) = 1 THEN Finish(c)
             ELSE call' = [call EXCEPT ![c] =
                    [@ EXCEPT !.pc = IF call[c].op = "request" THEN "find" ELSE "delete",
                              !.todo = Tail(call[c].todo)]]
     ELSE Finish(c) /\ UNCHANGED grants
  /\ UNCHANGED <<task, now>>

-----------------------------------------------------------------------------
(* completeTask: the writes *)

\* Mutant of Denied: the UPDATE selects the pending rows of the task.
DeniedPendingOnly(row, t) ==
  IF row.task = t /\ row.status = "pending" THEN [row EXCEPT !.status = "denied"] ELSE row

Denied(row, t) == IF row.task = t THEN [row EXCEPT !.status = "denied"] ELSE row

RevokeByTask(c) ==
  /\ At(c, "revoke")
  /\ grants' = [a \in Agents |-> [k \in Caps |-> [i \in DOMAIN grants[a][k] |->
                  Denied(grants[a][k][i], call[c].task)]]]
  /\ Goto(c, "setStatus")
  /\ UNCHANGED <<task, now>>

SetCompleted(c) ==
  /\ At(c, "setStatus")
  /\ task' = [task EXCEPT ![call[c].task].status = "completed"]
  /\ Finish(c)
  /\ UNCHANGED <<grants, now>>

-----------------------------------------------------------------------------
(* The environment *)

\* A statement fails or the process dies: what the call committed stays.
Die(c) ==
  /\ Faults
  /\ ~At(c, "idle")
  /\ Finish(c)
  /\ UNCHANGED <<grants, task, now>>

Tick ==
  /\ now < MaxTime
  /\ now' = now + 1
  /\ UNCHANGED <<grants, task, call>>

Request(c) ==
  \/ \E h \in Hosts, a \in Agents, spec \in CapabilitySpec : grantCapability(c, h, a, spec)
  \/ \E a \in Agents, list \in Lists : requestCapability(c, a, list)
  \/ \E h \in Hosts, a \in Agents, list \in Lists, ttl \in Ttls :
       createTask(c, h, a, list, ttl)
  \/ \E h \in Hosts, t \in Tasks : completeTask(c, h, t)

Step(c) ==
  \/ FindActive(c)
  \/ \E t \in Tasks : TaskCreate(c, t)
  \/ UpsertDelete(c)
  \/ UpsertInsert(c)
  \/ RevokeByTask(c)
  \/ SetCompleted(c)

Next ==
  \/ \E c \in Calls : Request(c) \/ Step(c) \/ Die(c)
  \/ Tick

Spec == Init /\ [][Next]_vars

-----------------------------------------------------------------------------
(* Properties *)

\* The calls that deleted the rows of (a, k) and have not inserted theirs yet.
Inserting(a, k) ==
  {c \in Calls : At(c, "insert") /\ call[c].agent = a /\ Head(call[c].todo).cap = k}

\* upsert: a capability never has more rows than there were calls writing it at
\* the same time, so a duplicate is always the trace of a race and the next
\* upsert of the capability cleans it up.
DuplicatesNeedRaces ==
  \A a \in Agents, k \in Caps :
    Len(grants[a][k]) + Cardinality(Inserting(a, k)) <= Cardinality(Calls)

\* createTask: a grant that a task activated belongs to the task's agent and
\* expires when the task does, however late its row was written.
TaskGrantTimeBoxed ==
  \A a \in Agents, k \in Caps : \A i \in DOMAIN grants[a][k] :
    LET row == grants[a][k][i] IN
      row.task # NoTask => /\ task[row.task].status # "absent"
                           /\ task[row.task].agent = a
                           /\ task[row.task].expires = row.expires
=============================================================================
