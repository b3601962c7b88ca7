---------------------------- MODULE GrantsProofs ----------------------------
(***************************************************************************)
(* What holds of Grants for all sets of agents, capabilities, tasks and    *)
(* concurrent calls: type correctness, the bound on duplicate rows, when a *)
(* completed task leaves an active grant, that the grants of a task expire *)
(* with it, and what an agent may lose a capability to.                    *)
(***************************************************************************)
EXTENDS GrantLosses, SequenceTheorems, FiniteSetTheorems, TLAPS

\* The loops run while their list is not empty; completeTask holds a task.
CallsAreLoaded ==
  \A c \in Calls :
    /\ call[c].pc \in {"find", "delete", "insert"} => call[c].todo # << >>
    /\ call[c].pc \in {"revoke", "setStatus"} => call[c].task \in Tasks

TypeInv == TypeOK /\ CallsAreLoaded

-----------------------------------------------------------------------------
(* Lemmas about the operators *)

\* Denying the rows of a task keeps their number and changes only statuses.
LEMMA DenyRows ==
  ASSUME NEW s \in Seq(Row), NEW t
  PROVE  LET d == [i \in DOMAIN s |-> Denied(s[i], t)] IN
           /\ d \in Seq(Row)
           /\ Len(d) = Len(s)
           /\ DOMAIN d = DOMAIN s
  <1> DEFINE d == [i \in DOMAIN s |-> Denied(s[i], t)]
  <1>1. DOMAIN s = 1..Len(s) /\ Len(s) \in Nat
    BY LenProperties
  <1>2. ASSUME NEW i \in 1..Len(s) PROVE Denied(s[i], t) \in Row
    <2>1. s[i] \in Row
      BY ElementOfSeq
    <2>2. QED
      BY <2>1 DEF Denied, Row, GrantStatus
  <1>3. d \in [1..Len(s) -> Row]
    BY <1>1, <1>2
  <1>4. QED
    BY <1>1, <1>3

\* The list of a self-service request, its connections dropped, is a list.
LEMMA DropConnections ==
  ASSUME NEW list \in Seq(CapabilitySpec), list # << >>
  PROVE  LET l == [i \in DOMAIN list |-> [list[i] EXCEPT !.connection = NoConnection]] IN
           l \in Seq(CapabilitySpec) /\ l # << >>
  <1> DEFINE l == [i \in DOMAIN list |-> [list[i] EXCEPT !.connection = NoConnection]]
  <1>1. DOMAIN list = 1..Len(list) /\ Len(list) \in Nat \ {0}
    BY LenProperties, EmptySeq
  <1>2. ASSUME NEW i \in 1..Len(list)
        PROVE  [list[i] EXCEPT !.connection = NoConnection] \in CapabilitySpec
    <2>1. list[i] \in CapabilitySpec
      BY ElementOfSeq
    <2>2. QED
      BY <2>1 DEF CapabilitySpec
  <1>3. l \in [1..Len(list) -> CapabilitySpec]
    BY <1>1, <1>2
  <1>4. QED
    BY <1>1, <1>3

LEMMA IdleType == Idle \in CallState /\ Idle.pc = "idle"
  BY OwnerAssumption DEF Idle, CallState, SomeAgent, NoTime, AllOps

-----------------------------------------------------------------------------
(* Type correctness *)

LEMMA InitType == Init => TypeInv
  <1> SUFFICES ASSUME Init PROVE TypeInv
    OBVIOUS
  <1>1. StandingRow \in Row
    BY DEF StandingRow, Row, GrantStatus, NoTime
  <1>2. grants \in [Agents -> [Caps -> Seq(Row)]]
    BY <1>1 DEF Init
  <1>3. task \in [Tasks -> TaskRow]
    BY OwnerAssumption DEF Init, TaskRow, SomeAgent, NoTime
  <1>4. QED
    BY <1>2, <1>3, IdleType DEF Init, TypeInv, TypeOK, CallsAreLoaded

\* What the type invariant says of a call that stands in one of the loops.
LEMMA LoopType ==
  ASSUME TypeInv, NEW c \in Calls, call[c].pc \in {"find", "delete", "insert"}
  PROVE  /\ call[c] \in CallState
         /\ Head(call[c].todo) \in CapabilitySpec
         /\ Tail(call[c].todo) \in Seq(CapabilitySpec)
         /\ Len(call[c].todo) # 1 => Tail(call[c].todo) # << >>
  <1>1. call[c] \in CallState /\ call[c].todo \in Seq(CapabilitySpec) /\ call[c].todo # << >>
    BY DEF TypeInv, TypeOK, CallsAreLoaded, CallState
  <1>2. /\ Head(call[c].todo) \in CapabilitySpec
        /\ Tail(call[c].todo) \in Seq(CapabilitySpec)
        /\ Len(Tail(call[c].todo)) = Len(call[c].todo) - 1
    BY <1>1, HeadTailProperties
  <1>3. Len(call[c].todo) \in Nat \ {0}
    BY <1>1, EmptySeq
  <1>4. Tail(call[c].todo) = << >> => Len(Tail(call[c].todo)) = 0
    BY EmptySeq, Zenon
  <1>5. Len(call[c].todo) # 1 => Tail(call[c].todo) # << >>
    BY <1>2, <1>3, <1>4
  <1>6. QED
    BY <1>1, <1>2, <1>5

\* The record a call has after its step, in a form that types at once.
LEMMA CallUpdate ==
  ASSUME TypeInv, NEW c \in Calls, NEW r \in CallState,
         call' = [call EXCEPT ![c] = r],
         r.pc \in {"find", "delete", "insert"} => r.todo # << >>,
         r.pc \in {"revoke", "setStatus"} => r.task \in Tasks
  PROVE  call' \in [Calls -> CallState] /\ CallsAreLoaded'
  BY DEF TypeInv, TypeOK, CallsAreLoaded

LEMMA FinishType ==
  ASSUME TypeInv, NEW c \in Calls, Finish(c)
  PROVE  call' \in [Calls -> CallState] /\ CallsAreLoaded'
  BY IdleType, CallUpdate DEF Finish

LEMMA GotoType ==
  ASSUME TypeInv, NEW c \in Calls, NEW pc \in {"delete", "insert", "setStatus"}, Goto(c, pc),
         pc \in {"delete", "insert"} => call[c].pc \in {"find", "delete"},
         pc = "setStatus" => call[c].pc = "revoke"
  PROVE  call' \in [Calls -> CallState] /\ CallsAreLoaded'
  <1> DEFINE r == [call[c] EXCEPT !.pc = pc]
  <1>1. call[c] \in CallState
    BY DEF TypeInv, TypeOK
  <1>2. r \in CallState /\ r.pc = pc /\ r.todo = call[c].todo /\ r.task = call[c].task
    BY <1>1 DEF CallState
  <1>3. call' = [call EXCEPT ![c] = r]
    BY DEF Goto
  <1>4. /\ r.pc \in {"find", "delete", "insert"} => r.todo # << >>
        /\ r.pc \in {"revoke", "setStatus"} => r.task \in Tasks
    BY <1>2 DEF TypeInv, CallsAreLoaded
  <1> HIDE DEF r
  <1>5. QED
    BY <1>2, <1>3, <1>4, CallUpdate

LEMMA RequestType ==
  ASSUME TypeInv, NEW c \in Calls, Request(c)
  PROVE  TypeInv'
  <1>t. /\ Idle \in CallState
        /\ now \in Nat
        /\ UNCHANGED <<grants, task, now>>
    BY IdleType DEF TypeInv, TypeOK, Request, grantCapability, requestCapability,
                    createTask, completeTask
  <1> DEFINE Becomes(r) ==
               /\ r \in CallState
               /\ call' = [call EXCEPT ![c] = r]
               /\ r.pc \in {"find", "delete", "insert"} => r.todo # << >>
               /\ r.pc \in {"revoke", "setStatus"} => r.task \in Tasks
  <1>1. \E r : Becomes(r)
    <2>1. ASSUME NEW h \in Hosts, NEW a \in Agents, NEW spec \in CapabilitySpec,
                 grantCapability(c, h, a, spec)
          PROVE  \E r : Becomes(r)
      <3> DEFINE r == [Idle EXCEPT !.pc = "delete", !.op = "grant", !.agent = a, !.todo = <<spec>>]
      <3>0. <<spec>> \in Seq(CapabilitySpec) /\ <<spec>> # << >>
        OBVIOUS
      <3>1. r \in CallState /\ r.pc = "delete" /\ r.todo # << >>
        BY <1>t, <3>0 DEF CallState, AllOps
      <3>2. call' = [call EXCEPT ![c] = r]
        BY <2>1 DEF grantCapability, Begin
      <3> HIDE DEF r
      <3> QED
        BY <3>1, <3>2
    <2>2. ASSUME NEW a \in Agents, NEW list \in Lists, requestCapability(c, a, list)
          PROVE  \E r : Becomes(r)
      <3> DEFINE l == [i \in DOMAIN list |-> [list[i] EXCEPT !.connection = NoConnection]]
                 r == [Idle EXCEPT !.pc = "find", !.op = "request", !.agent = a, !.todo = l]
      <3>1. l \in Seq(CapabilitySpec) /\ l # << >>
        BY <2>2, DropConnections, InputAssumption DEF requestCapability
      <3>2. call' = [call EXCEPT ![c] = r]
        BY <2>2 DEF requestCapability, Begin
      <3> HIDE DEF l
      <3>3. r \in CallState /\ r.pc = "find" /\ r.todo # << >>
        BY <1>t, <3>1 DEF CallState, AllOps
      <3> HIDE DEF r
      <3> QED
        BY <3>2, <3>3
    <2>3. ASSUME NEW h \in Hosts, NEW a \in Agents, NEW list \in Lists, NEW ttl \in Ttls,
                 createTask(c, h, a, list, ttl)
          PROVE  \E r : Becomes(r)
      <3> DEFINE r == [Idle EXCEPT !.pc = "create", !.op = "createTask", !.agent = a,
                                   !.todo = list, !.expires = ExpiresAt(ttl)]
      <3>1. ExpiresAt(ttl) \in Nat
        BY <1>t, InputAssumption DEF ExpiresAt, NoTime
      <3>2. r \in CallState /\ r.pc = "create"
        BY <1>t, <3>1, InputAssumption DEF CallState, AllOps
      <3>3. call' = [call EXCEPT ![c] = r]
        BY <2>3 DEF createTask
      <3> HIDE DEF r
      <3> QED
        BY <3>2, <3>3
    <2>4. ASSUME NEW h \in Hosts, NEW t \in Tasks, completeTask(c, h, t)
          PROVE  \E r : Becomes(r)
      <3> DEFINE r == [Idle EXCEPT !.pc = "revoke", !.op = "completeTask", !.task = t]
      <3>1. r \in CallState /\ r.pc = "revoke" /\ r.task \in Tasks
        BY <1>t DEF CallState, AllOps
      <3>2. call' = [call EXCEPT ![c] = r]
        BY <2>4 DEF completeTask
      <3> HIDE DEF r
      <3> QED
        BY <3>1, <3>2
    <2> HIDE DEF Becomes
    <2>5. QED
      BY <2>1, <2>2, <2>3, <2>4 DEF Request
  <1>2. PICK r : Becomes(r)
    BY <1>1
  <1>3. call' \in [Calls -> CallState] /\ CallsAreLoaded'
    BY <1>2, CallUpdate
  <1>4. QED
    BY <1>t, <1>3 DEF TypeInv, TypeOK

LEMMA StepType ==
  ASSUME TypeInv, NEW c \in Calls, Step(c)
  PROVE  TypeInv'
  <1>t. /\ grants \in [Agents -> [Caps -> Seq(Row)]]
        /\ task \in [Tasks -> TaskRow]
        /\ call \in [Calls -> CallState]
        /\ now \in Nat \ {0}
        /\ call[c] \in CallState
        /\ call[c].agent \in Agents
    BY DEF TypeInv, TypeOK, CallState
  <1>1. CASE FindActive(c)
    <2>1. call[c].pc = "find" /\ UNCHANGED <<grants, task, now>>
      BY <1>1 DEF FindActive, At
    <2>2. CASE Finish(c)
      BY <1>t, <2>1, <2>2, FinishType DEF TypeInv, TypeOK
    <2>3. CASE Goto(c, "delete")
      BY <1>t, <2>1, <2>3, GotoType DEF TypeInv, TypeOK
    <2>4. CASE Len(call[c].todo) # 1 /\ call' = [call EXCEPT ![c].todo = Tail(@)]
      <3> DEFINE r == [call[c] EXCEPT !.todo = Tail(@)]
      <3>1. Tail(call[c].todo) \in Seq(CapabilitySpec) /\ Tail(call[c].todo) # << >>
        BY <2>1, <2>4, LoopType
      <3>2. r \in CallState /\ r.pc = "find" /\ r.todo # << >>
        BY <1>t, <2>1, <3>1 DEF CallState
      <3>3. call' = [call EXCEPT ![c] = r]
        BY <2>4
      <3> HIDE DEF r
      <3>4. call' \in [Calls -> CallState] /\ CallsAreLoaded'
        BY <3>2, <3>3, CallUpdate
      <3>5. QED
        BY <1>t, <2>1, <3>4 DEF TypeInv, TypeOK
    <2>5. QED
      BY <1>1, <2>2, <2>3, <2>4 DEF FindActive
  <1>2. ASSUME NEW t \in Tasks, TaskCreate(c, t) PROVE TypeInv'
    <2>1. task' \in [Tasks -> TaskRow]
      BY <1>t, <1>2 DEF TaskCreate, TaskRow, CallState
    <2>2. CASE Finish(c)
      BY <1>t, <1>2, <2>1, <2>2, FinishType DEF TaskCreate, TypeInv, TypeOK
    <2>3. CASE /\ call[c].todo # << >>
               /\ call' = [call EXCEPT ![c] = [@ EXCEPT !.pc = "delete", !.task = t]]
      <3> DEFINE r == [call[c] EXCEPT !.pc = "delete", !.task = t]
      <3>1. r \in CallState /\ r.pc = "delete" /\ r.todo # << >>
        BY <1>t, <2>3 DEF CallState
      <3>2. call' = [call EXCEPT ![c] = r]
        BY <2>3
      <3> HIDE DEF r
      <3>3. call' \in [Calls -> CallState] /\ CallsAreLoaded'
        BY <3>1, <3>2, CallUpdate
      <3>4. QED
        BY <1>t, <1>2, <2>1, <3>3 DEF TaskCreate, TypeInv, TypeOK
    <2>4. QED
      BY <1>2, <2>2, <2>3 DEF TaskCreate
  <1>3. CASE UpsertDelete(c)
    <2>1. call[c].pc = "delete" /\ Goto(c, "insert") /\ UNCHANGED <<task, now>>
      BY <1>3 DEF UpsertDelete, At
    <2>c. Head(call[c].todo).cap \in Caps /\ << >> \in Seq(Row)
      BY <2>1, LoopType DEF CapabilitySpec
    <2>2. grants' \in [Agents -> [Caps -> Seq(Row)]]
      BY <1>t, <1>3, <2>c DEF UpsertDelete
    <2>3. call' \in [Calls -> CallState] /\ CallsAreLoaded'
      BY <2>1, GotoType
    <2>4. QED
      BY <1>t, <2>1, <2>2, <2>3 DEF TypeInv, TypeOK
  <1>4. CASE UpsertInsert(c)
    <2>1. call[c].pc = "insert" /\ UNCHANGED <<task, now>>
      BY <1>4 DEF UpsertInsert, At
    <2>2. /\ Head(call[c].todo) \in CapabilitySpec
          /\ Tail(call[c].todo) \in Seq(CapabilitySpec)
          /\ Len(call[c].todo) # 1 => Tail(call[c].todo) # << >>
      BY <2>1, LoopType
    <2>3. CASE Head(call[c].todo).connection \in Stored \cup {NoConnection}
      <3>1. NewRow(c) \in Row
        BY <1>t, <2>2, <2>3 DEF NewRow, Row, GrantStatus, CallState
      <3>2. Head(call[c].todo).cap \in Caps
        BY <2>2 DEF CapabilitySpec
      <3>3. grants' = [grants EXCEPT ![call[c].agent][Head(call[c].todo).cap] =
                         Append(@, NewRow(c))]
        BY <1>4, <2>3 DEF UpsertInsert
      <3>4. Append(grants[call[c].agent][Head(call[c].todo).cap], NewRow(c)) \in Seq(Row)
        BY <1>t, <3>1, <3>2
      <3>5. grants' \in [Agents -> [Caps -> Seq(Row)]]
        BY <1>t, <3>2, <3>3, <3>4
      <3>6. CASE Finish(c)
        BY <1>t, <2>1, <3>5, <3>6, FinishType DEF TypeInv, TypeOK
      <3>7. CASE /\ Len(call[c].todo) # 1
                 /\ call' = [call EXCEPT ![c] =
                      [@ EXCEPT !.pc = IF call[c].op = "request" THEN "find" ELSE "delete",
                                !.todo = Tail(call[c].todo)]]
        <4> DEFINE r == [call[c] EXCEPT
                           !.pc = IF call[c].op = "request" THEN "find" ELSE "delete",
                           !.todo = Tail(call[c].todo)]
        <4>0. /\ IF call[c].op = "request" THEN r.pc = "find" ELSE r.pc = "delete"
              /\ r.todo = Tail(call[c].todo)
          BY <1>t DEF CallState
        <4>1. r \in CallState
          <5>1. CASE call[c].op = "request"
            BY <1>t, <2>2, <5>1 DEF CallState
          <5>2. CASE call[c].op # "request"
            BY <1>t, <2>2, <5>2 DEF CallState
          <5>3. QED
            BY <5>1, <5>2
        <4>2. call' = [call EXCEPT ![c] = r]
          BY <3>7
        <4> HIDE DEF r
        <4>a. r.todo # << >> /\ r.pc \notin {"revoke", "setStatus"}
          BY <2>2, <3>7, <4>0
        <4>3. call' \in [Calls -> CallState] /\ CallsAreLoaded'
          BY <4>1, <4>2, <4>a, CallUpdate
        <4>4. QED
          BY <1>t, <2>1, <3>5, <4>3 DEF TypeInv, TypeOK
      <3>8. QED
        BY <1>4, <2>3, <3>6, <3>7 DEF UpsertInsert
    <2>4. CASE Head(call[c].todo).connection \notin Stored \cup {NoConnection}
      <3>1. Finish(c) /\ UNCHANGED grants
        BY <1>4, <2>4 DEF UpsertInsert
      <3>2. QED
        BY <1>t, <2>1, <3>1, FinishType DEF TypeInv, TypeOK
    <2>5. QED
      BY <2>3, <2>4
  <1>5. CASE RevokeByTask(c)
    <2>1. call[c].pc = "revoke" /\ Goto(c, "setStatus") /\ UNCHANGED <<task, now>>
      BY <1>5 DEF RevokeByTask, At
    <2>2. ASSUME NEW a \in Agents, NEW k \in Caps
          PROVE  [i \in DOMAIN grants[a][k] |-> Denied(grants[a][k][i], call[c].task)] \in Seq(Row)
      BY <1>t, DenyRows
    <2>3. grants' \in [Agents -> [Caps -> Seq(Row)]]
      BY <1>5, <2>2 DEF RevokeByTask
    <2>4. call' \in [Calls -> CallState] /\ CallsAreLoaded'
      BY <2>1, GotoType
    <2>5. QED
      BY <1>t, <2>1, <2>3, <2>4 DEF TypeInv, TypeOK
  <1>6. CASE SetCompleted(c)
    <2>1. task' \in [Tasks -> TaskRow]
      BY <1>t, <1>6 DEF SetCompleted, TaskRow
    <2>2. QED
      BY <1>t, <1>6, <2>1, FinishType DEF SetCompleted, TypeInv, TypeOK
  <1>7. QED
    BY <1>1, <1>2, <1>3, <1>4, <1>5, <1>6 DEF Step

LEMMA NextType == TypeInv /\ [Next]_vars => TypeInv'
  <1> SUFFICES ASSUME TypeInv, [Next]_vars PROVE TypeInv'
    OBVIOUS
  <1>1. ASSUME NEW c \in Calls, Request(c) PROVE TypeInv'
    BY <1>1, RequestType
  <1>2. ASSUME NEW c \in Calls, Step(c) PROVE TypeInv'
    BY <1>2, StepType
  <1>3. ASSUME NEW c \in Calls, Die(c) PROVE TypeInv'
    BY <1>3, FinishType DEF Die, TypeInv, TypeOK
  <1>4. CASE Tick
    BY <1>4 DEF Tick, TypeInv, TypeOK, CallsAreLoaded
  <1>5. CASE UNCHANGED vars
    BY <1>5 DEF vars, TypeInv, TypeOK, CallsAreLoaded
  <1>6. QED
    BY <1>1, <1>2, <1>3, <1>4, <1>5 DEF Next

\* Every reachable state is well typed: in particular every row that an upsert
\* wrote names a stored connection or none, and no loop runs past its list.
THEOREM TypeCorrect == Spec => []TypeOK
  <1>1. Spec => []TypeInv
    BY InitType, NextType, PTL DEF Spec
  <1>2. TypeInv => TypeOK
    BY DEF TypeInv
  <1>3. QED
    BY <1>1, <1>2, PTL

-----------------------------------------------------------------------------
(* Duplicate rows *)

\* A call leaves Inserting(a, k), or nothing joins it.
LEMMA InsertingShrinks ==
  ASSUME TypeInv, NEW c \in Calls, call'[c].pc # "insert",
         \A d \in Calls \ {c} : call'[d] = call[d],
         NEW a \in Agents, NEW k \in Caps
  PROVE  Inserting(a, k)' \subseteq Inserting(a, k) \ {c}
  BY DEF Inserting, At

\* The three ways in which a step may change the rows of (a, k).
LEMMA DuplicateArithmetic ==
  ASSUME TypeInv, TypeInv', NEW a \in Agents, NEW k \in Caps,
         Len(grants[a][k]) + Cardinality(Inserting(a, k)) <= Cardinality(Calls),
         \/ Len(grants'[a][k]) = 0
         \/ /\ Len(grants'[a][k]) = Len(grants[a][k])
            /\ Inserting(a, k)' \subseteq Inserting(a, k)
         \/ /\ Len(grants'[a][k]) = Len(grants[a][k]) + 1
            /\ \E c \in Inserting(a, k) : Inserting(a, k)' \subseteq Inserting(a, k) \ {c}
  PROVE  Len(grants'[a][k]) + Cardinality(Inserting(a, k)') <= Cardinality(Calls)
  <1> DEFINE I == Inserting(a, k)
             J == Inserting(a, k)'
  <1>1. I \in SUBSET Calls /\ J \in SUBSET Calls
    BY DEF Inserting
  <1>2. IsFiniteSet(Calls) /\ Cardinality(Calls) \in Nat
    BY InputAssumption, FS_CardinalityType
  <1> HIDE DEF I, J
  <1>3. /\ IsFiniteSet(I) /\ Cardinality(I) \in Nat
        /\ IsFiniteSet(J) /\ Cardinality(J) \in Nat
        /\ Cardinality(J) <= Cardinality(Calls)
    BY <1>1, <1>2, FS_Subset, FS_CardinalityType
  <1>4. Len(grants[a][k]) \in Nat /\ Len(grants'[a][k]) \in Nat
    BY LenProperties DEF TypeInv, TypeOK
  <1>5. CASE Len(grants'[a][k]) = 0
    BY <1>2, <1>3, <1>5 DEF J
  <1>6. CASE Len(grants'[a][k]) = Len(grants[a][k]) /\ J \subseteq I
    <2>1. Cardinality(J) <= Cardinality(I)
      BY <1>3, <1>6, FS_Subset
    <2>2. QED
      BY <1>2, <1>3, <1>4, <1>6, <2>1 DEF I, J
  <1>7. CASE /\ Len(grants'[a][k]) = Len(grants[a][k]) + 1
             /\ \E c \in I : J \subseteq I \ {c}
    <2>1. PICK c \in I : J \subseteq I \ {c}
      BY <1>7
    <2>2. IsFiniteSet(I \ {c}) /\ Cardinality(I \ {c}) = Cardinality(I) - 1
      BY <1>3, FS_RemoveElement
    <2>3. Cardinality(J) <= Cardinality(I \ {c})
      BY <2>1, <2>2, FS_Subset
    <2>4. QED
      BY <1>2, <1>3, <1>4, <1>7, <2>2, <2>3 DEF I, J
  <1>8. QED
    BY <1>5, <1>6, <1>7 DEF I, J

\* How every action but the two of upsert leaves the rows and the inserters.
LEMMA QuietStep ==
  ASSUME TypeInv, NEW c \in Calls, call'[c].pc # "insert",
         \A d \in Calls \ {c} : call'[d] = call[d],
         \A a \in Agents, k \in Caps : Len(grants'[a][k]) = Len(grants[a][k]),
         TypeInv', DuplicatesNeedRaces
  PROVE  DuplicatesNeedRaces'
  <1> SUFFICES ASSUME NEW a \in Agents, NEW k \in Caps
               PROVE  Len(grants'[a][k]) + Cardinality(Inserting(a, k)') <= Cardinality(Calls)
    BY DEF DuplicatesNeedRaces
  <1>1. Inserting(a, k)' \subseteq Inserting(a, k)
    BY InsertingShrinks
  <1>2. Len(grants[a][k]) + Cardinality(Inserting(a, k)) <= Cardinality(Calls)
    BY DEF DuplicatesNeedRaces
  <1>3. QED
    BY <1>1, <1>2, DuplicateArithmetic

\* The frame of a step of call c: nobody else moves, and c's new place.
LEMMA StepFrame ==
  ASSUME TypeInv, NEW c \in Calls, Request(c) \/ Step(c) \/ Die(c)
  PROVE  /\ \A d \in Calls \ {c} : call'[d] = call[d]
         /\ ~UpsertDelete(c) => call'[c].pc # "insert"
  <1>t. /\ call \in [Calls -> CallState]
        /\ call[c] \in CallState
        /\ Idle.pc = "idle"
        /\ Idle \in CallState
    BY IdleType DEF TypeInv, TypeOK
  <1> DEFINE Frame == /\ \A d \in Calls \ {c} : call'[d] = call[d]
                      /\ ~UpsertDelete(c) => call'[c].pc # "insert"
  <1>1. CASE Request(c)
    <2>1. ASSUME NEW h \in Hosts, NEW a \in Agents, NEW spec \in CapabilitySpec,
                 grantCapability(c, h, a, spec)
          PROVE  Frame
      BY <1>t, <2>1 DEF grantCapability, Begin, CallState
    <2>2. ASSUME NEW a \in Agents, NEW list \in Lists, requestCapability(c, a, list)
          PROVE  Frame
      BY <1>t, <2>2 DEF requestCapability, Begin, CallState
    <2>3. ASSUME NEW h \in Hosts, NEW a \in Agents, NEW list \in Lists, NEW ttl \in Ttls,
                 createTask(c, h, a, list, ttl)
          PROVE  Frame
      BY <1>t, <2>3 DEF createTask, CallState
    <2>4. ASSUME NEW h \in Hosts, NEW t \in Tasks, completeTask(c, h, t) PROVE Frame
      BY <1>t, <2>4 DEF completeTask, CallState
    <2> HIDE DEF Frame
    <2>5. Frame
      BY <1>1, <2>1, <2>2, <2>3, <2>4 DEF Request
    <2>6. QED
      BY <2>5 DEF Frame
  <1>2. CASE FindActive(c)
    BY <1>2, <1>t DEF FindActive, Finish, Goto, At, CallState
  <1>3. ASSUME NEW t \in Tasks, TaskCreate(c, t) PROVE Frame
    <2>1. CASE Finish(c)
      BY <2>1, <1>t DEF Finish
    <2>2. CASE call' = [call EXCEPT ![c] = [@ EXCEPT !.pc = "delete", !.task = t]]
      BY <2>2, <1>t DEF CallState
    <2>3. QED
      BY <1>3, <2>1, <2>2 DEF TaskCreate
  <1>4. CASE UpsertDelete(c)
    BY <1>4, <1>t DEF UpsertDelete, Goto, CallState
  <1>5. CASE UpsertInsert(c)
    <2>1. CASE Finish(c)
      BY <2>1, <1>t DEF Finish
    <2>2. CASE call' = [call EXCEPT ![c] =
                   [@ EXCEPT !.pc = IF call[c].op = "request" THEN "find" ELSE "delete",
                             !.todo = Tail(call[c].todo)]]
      BY <2>2, <1>t DEF CallState
    <2>3. QED
      BY <1>5, <2>1, <2>2 DEF UpsertInsert
  <1>6. CASE RevokeByTask(c)
    BY <1>6, <1>t DEF RevokeByTask, Goto, CallState
  <1>7. CASE SetCompleted(c) \/ Die(c)
    BY <1>7, <1>t DEF SetCompleted, Die, Finish
  <1>8. QED
    BY <1>1, <1>2, <1>3, <1>4, <1>5, <1>6, <1>7 DEF Step

LEMMA NextDuplicates ==
  TypeInv /\ TypeInv' /\ DuplicatesNeedRaces /\ [Next]_vars => DuplicatesNeedRaces'
  <1> SUFFICES ASSUME TypeInv, TypeInv', DuplicatesNeedRaces, [Next]_vars
               PROVE  DuplicatesNeedRaces'
    OBVIOUS
  <1>t. /\ grants \in [Agents -> [Caps -> Seq(Row)]]
        /\ call \in [Calls -> CallState]
    BY DEF TypeInv, TypeOK
  <1>1. ASSUME NEW c \in Calls, Request(c) \/ Step(c) \/ Die(c)
        PROVE  DuplicatesNeedRaces'
    <2>f. /\ \A d \in Calls \ {c} : call'[d] = call[d]
          /\ ~UpsertDelete(c) => call'[c].pc # "insert"
      BY <1>1, StepFrame
    <2>1. CASE UpsertDelete(c)
      <3> SUFFICES ASSUME NEW a \in Agents, NEW k \in Caps
                   PROVE  Len(grants'[a][k]) + Cardinality(Inserting(a, k)')
                            <= Cardinality(Calls)
        BY DEF DuplicatesNeedRaces
      <3>1. Len(grants[a][k]) + Cardinality(Inserting(a, k)) <= Cardinality(Calls)
        BY DEF DuplicatesNeedRaces
      <3> DEFINE b == call[c].agent
                 m == Head(call[c].todo).cap
      <3>2. grants' = [grants EXCEPT ![b][m] = << >>]
        BY <2>1 DEF UpsertDelete
      <3>3. /\ call'[c].agent = b /\ call'[c].todo = call[c].todo
            /\ call[c].pc = "delete"
        BY <1>t, <2>1 DEF UpsertDelete, Goto, At, CallState
      <3>4. CASE a = b /\ k = m
        BY <1>t, <3>1, <3>2, <3>4, DuplicateArithmetic
      <3>5. CASE ~(a = b /\ k = m)
        <4>1. grants'[a][k] = grants[a][k]
          BY <1>t, <3>2, <3>5
        <4>2. Inserting(a, k)' \subseteq Inserting(a, k)
          BY <2>f, <3>3, <3>5 DEF Inserting, At
        <4>3. QED
          BY <3>1, <4>1, <4>2, DuplicateArithmetic
      <3>6. QED
        BY <3>4, <3>5
    <2>2. CASE UpsertInsert(c) /\ Head(call[c].todo).connection \in Stored \cup {NoConnection}
      <3> SUFFICES ASSUME NEW a \in Agents, NEW k \in Caps
                   PROVE  Len(grants'[a][k]) + Cardinality(Inserting(a, k)')
                            <= Cardinality(Calls)
        BY DEF DuplicatesNeedRaces
      <3>1. Len(grants[a][k]) + Cardinality(Inserting(a, k)) <= Cardinality(Calls)
        BY DEF DuplicatesNeedRaces
      <3> DEFINE b == call[c].agent
                 m == Head(call[c].todo).cap
      <3>2. grants' = [grants EXCEPT ![b][m] = Append(@, NewRow(c))]
        BY <2>2 DEF UpsertInsert
      <3>3. call[c].pc = "insert" /\ ~UpsertDelete(c)
        BY <2>2 DEF UpsertInsert, UpsertDelete, At
      <3>4. Inserting(a, k)' \subseteq Inserting(a, k) \ {c}
        BY <2>f, <3>3, InsertingShrinks
      <3>5. CASE a = b /\ k = m
        <4>1. c \in Inserting(a, k)
          BY <3>3, <3>5 DEF Inserting, At
        <4>2. grants'[a][k] = Append(grants[a][k], NewRow(c))
          BY <1>t, <3>2, <3>5
        <4>3. Len(grants'[a][k]) = Len(grants[a][k]) + 1
          <5>1. grants[a][k] \in Seq(Row)
            BY <1>t
          <5>2. QED
            BY <4>2, <5>1
        <4>4. QED
          BY <3>1, <3>4, <4>1, <4>3, DuplicateArithmetic
      <3>6. CASE ~(a = b /\ k = m)
        <4>1. grants'[a][k] = grants[a][k]
          BY <1>t, <3>2, <3>6
        <4>2. QED
          BY <3>1, <3>4, <4>1, DuplicateArithmetic
      <3>7. QED
        BY <3>5, <3>6
    <2>3. CASE RevokeByTask(c)
      <3>1. ASSUME NEW a \in Agents, NEW k \in Caps
            PROVE  Len(grants'[a][k]) = Len(grants[a][k])
        <4>1. grants'[a][k] = [i \in DOMAIN grants[a][k] |-> Denied(grants[a][k][i], call[c].task)]
          BY <2>3 DEF RevokeByTask
        <4>2. grants[a][k] \in Seq(Row)
          BY <1>t
        <4>3. QED
          BY <4>1, <4>2, DenyRows
      <3>2. ~UpsertDelete(c)
        BY <2>3 DEF RevokeByTask, UpsertDelete, At
      <3>3. QED
        BY <2>f, <3>1, <3>2, QuietStep
    <2>4. CASE UNCHANGED grants /\ ~UpsertDelete(c)
      BY <2>f, <2>4, QuietStep
    <2>5. QED
      <3>1. ASSUME NEW t \in Tasks, TaskCreate(c, t) PROVE UNCHANGED grants
        BY <3>1 DEF TaskCreate
      <3>2. Request(c) \/ Die(c) \/ FindActive(c) \/ SetCompleted(c) => UNCHANGED grants
        BY DEF Request, grantCapability, requestCapability, createTask, completeTask,
               Die, FindActive, SetCompleted
      <3>3. UpsertInsert(c) /\ Head(call[c].todo).connection \notin Stored \cup {NoConnection}
              => UNCHANGED grants
        BY DEF UpsertInsert
      <3>4. QED
        BY <1>1, <2>1, <2>2, <2>3, <2>4, <3>1, <3>2, <3>3 DEF Step
  <1>2. CASE Tick \/ UNCHANGED vars
    <2>1. UNCHANGED <<grants, call>>
      BY <1>2 DEF Tick, vars
    <2>2. QED
      BY <2>1 DEF DuplicatesNeedRaces, Inserting, At
  <1>3. QED
    BY <1>1, <1>2 DEF Next

LEMMA InitDuplicates == Init => DuplicatesNeedRaces
  <1> SUFFICES ASSUME Init, NEW a \in Agents, NEW k \in Caps
               PROVE  Len(grants[a][k]) + Cardinality(Inserting(a, k)) <= Cardinality(Calls)
    BY DEF DuplicatesNeedRaces
  <1>1. Inserting(a, k) = {}
    BY DEF Init, Inserting, At, Idle
  <1>2. Len(grants[a][k]) \in {0, 1}
    <2>1. grants[a][k] = <<StandingRow>> \/ grants[a][k] = << >>
      BY DEF Init
    <2>2. Len(<<StandingRow>>) = 1 /\ Len(<< >>) = 0
      OBVIOUS
    <2>3. CASE grants[a][k] = <<StandingRow>>
      BY <2>2, <2>3, Zenon
    <2>4. CASE grants[a][k] = << >>
      BY <2>2, <2>4, Zenon
    <2>5. QED
      BY <2>1, <2>3, <2>4
  <1>3. Cardinality(Calls) \in Nat \ {0}
    BY InputAssumption, FS_CardinalityType, FS_EmptySet
  <1>4. Cardinality(Inserting(a, k)) = 0
    BY <1>1, FS_EmptySet
  <1> DEFINE n == Cardinality(Calls)
             l == Len(grants[a][k])
  <1>5. l \in {0, 1} /\ n \in Nat \ {0}
    BY <1>2, <1>3
  <1> HIDE DEF n, l
  <1>6. l + 0 <= n
    BY <1>5
  <1>7. QED
    BY <1>4, <1>6, Zenon DEF n, l

\* upsert without a transaction: for any number of concurrent calls, a
\* capability has at most as many rows as there are calls, and one row when
\* nothing runs concurrently.
THEOREM DuplicatesAreBounded == Spec => []DuplicatesNeedRaces
  <1>1. Spec => []TypeInv
    BY InitType, NextType, PTL DEF Spec
  <1>2. Spec => []DuplicatesNeedRaces
    BY <1>1, InitDuplicates, NextDuplicates, PTL DEF Spec
  <1>3. QED
    BY <1>2

-----------------------------------------------------------------------------
(* Completed tasks *)

\* Which operation stands where, and that only tasks bind grants to a task.
OpsInPlace ==
  \A c \in Calls :
    /\ call[c].op \in {"grant", "request"} => call[c].task = NoTask
    /\ call[c].pc = "create" => call[c].task = NoTask /\ call[c].op = "createTask"
    /\ call[c].pc \in {"find", "create", "delete", "insert"} => call[c].op # "completeTask"
    /\ call[c].pc \in {"revoke", "setStatus"} => call[c].op = "completeTask"

Completing(t) == \E c \in Calls : call[c].op = "completeTask" /\ call[c].task = t

Sealed(t) ==
  task[t].status = "completed" \/ \E c \in Calls : call[c].pc = "setStatus" /\ call[c].task = t

\* A task that is completed, or about to be, exists, and its creation is over
\* when its grants were denied last.
CompletionAfterCreation ==
  \A t \in Tasks :
    /\ task[t].status = "completed" \/ Completing(t) => task[t].status # "absent"
    /\ Sealed(t) /\ t \notin early => ~Creating(t)

\* From a revokeByTask after the creation on, the task has no active grant.
SealedIsRevoked ==
  \A t \in Tasks : Sealed(t) /\ t \notin early =>
    \A a \in Agents, k \in Caps : \A i \in DOMAIN grants[a][k] :
      grants[a][k][i].task = t => grants[a][k][i].status # "active"

CompletionInv == OpsInPlace /\ CompletionAfterCreation /\ SealedIsRevoked

LEMMA InitCompletion == LossInit => CompletionInv
  <1> SUFFICES ASSUME LossInit PROVE CompletionInv
    OBVIOUS
  <1>1. OpsInPlace
    BY DEF LossInit, Init, OpsInPlace, Idle
  <1>2. \A t \in Tasks : task[t].status = "absent" /\ ~Completing(t) /\ ~Sealed(t)
    BY DEF LossInit, Init, Completing, Sealed, Idle
  <1>3. QED
    BY <1>1, <1>2 DEF CompletionInv, CompletionAfterCreation, SealedIsRevoked

\* Only revokeByTask changes the set of the early completions.
LEMMA EarlyIsKept ==
  ASSUME NEW c \in Calls, \A d \in Calls \ {c} : call'[d] = call[d],
         ~(call[c].pc = "revoke" /\ call'[c].pc = "setStatus"),
         early' = (early \ Denying) \cup {t \in Denying : Creating(t)}
  PROVE  early' = early
  <1>1. \A d \in Calls : ~(At(d, "revoke") /\ call'[d].pc = "setStatus")
    BY DEF At
  <1>2. Denying = {}
    BY <1>1 DEF Denying
  <1>3. QED
    BY <1>2

\* The frame of an action that changes call c only, and neither table.
LEMMA CallOnly ==
  ASSUME TypeInv, CompletionInv, NEW c \in Calls, NEW r \in CallState,
         call' = [call EXCEPT ![c] = r], UNCHANGED <<grants, task, early>>,
         r.op \in {"grant", "request"} => r.task = NoTask,
         r.pc = "create" => r.task = NoTask /\ r.op = "createTask",
         r.pc \in {"find", "create", "delete", "insert"} => r.op # "completeTask",
         r.pc \in {"revoke", "setStatus"} => r.op = "completeTask",
         r.pc # "setStatus",
         r.op = "createTask" => r.task = NoTask \/ (call[c].op = "createTask" /\ call[c].task = r.task),
         r.op = "completeTask" /\ r.task \in Tasks
           => task[r.task].status # "absent"
  PROVE  CompletionInv'
  <1>t. call \in [Calls -> CallState] /\ NoTask \notin Tasks
    BY TableAssumption DEF TypeInv, TypeOK
  <1>1. call'[c] = r /\ \A d \in Calls \ {c} : call'[d] = call[d]
    BY <1>t
  <1>2. OpsInPlace'
    BY <1>1 DEF CompletionInv, OpsInPlace
  <1>3. ASSUME NEW t \in Tasks PROVE Creating(t)' => Creating(t)
    BY <1>t, <1>1 DEF Creating
  <1>5. ASSUME NEW t \in Tasks PROVE Sealed(t)' => Sealed(t)
    BY <1>1 DEF Sealed
  <1>4. CompletionAfterCreation'
    <2>1. ASSUME NEW t \in Tasks, task[t].status = "completed" \/ Completing(t)'
          PROVE  task[t].status # "absent"
      <3>1. CASE task[t].status = "completed" \/ Completing(t)
        BY <3>1 DEF CompletionInv, CompletionAfterCreation
      <3>2. CASE Completing(t)' /\ ~Completing(t)
        <4>1. r.op = "completeTask" /\ r.task = t
          BY <1>1, <3>2 DEF Completing
        <4>2. QED
          BY <4>1
      <3>3. QED
        BY <2>1, <3>1, <3>2
    <2>2. ASSUME NEW t \in Tasks, Sealed(t)', t \notin early PROVE ~Creating(t)'
      BY <1>3, <1>5, <2>2 DEF CompletionInv, CompletionAfterCreation
    <2>3. QED
      BY <2>1, <2>2 DEF CompletionAfterCreation
  <1>6. SealedIsRevoked'
    BY <1>5 DEF CompletionInv, SealedIsRevoked
  <1>7. QED
    BY <1>2, <1>4, <1>6 DEF CompletionInv

LEMMA IdleCompletion ==
  ASSUME TypeInv, CompletionInv, NEW c \in Calls, Finish(c), UNCHANGED <<grants, task, early>>
  PROVE  CompletionInv'
  <1>1. /\ Idle \in CallState /\ Idle.pc = "idle" /\ Idle.op = "grant"
        /\ Idle.task = NoTask
    BY IdleType DEF Idle
  <1>2. QED
    BY <1>1, CallOnly DEF Finish

LEMMA RequestCompletion ==
  ASSUME TypeInv, TypeInv', CompletionInv, NEW c \in Calls, Request(c), UNCHANGED early
  PROVE  CompletionInv'
  <1>t. /\ Idle \in CallState /\ Idle.task = NoTask
        /\ call \in [Calls -> CallState]
        /\ call' \in [Calls -> CallState]
        /\ UNCHANGED <<grants, task>>
        /\ NoTask \notin Tasks
    BY IdleType, TableAssumption
       DEF TypeInv, TypeOK, Idle, Request, grantCapability, requestCapability,
           createTask, completeTask
  <1>1. ASSUME NEW h \in Hosts, NEW a \in Agents, NEW spec \in CapabilitySpec,
               grantCapability(c, h, a, spec)
        PROVE  CompletionInv'
    <2> DEFINE r == [Idle EXCEPT !.pc = "delete", !.op = "grant", !.agent = a, !.todo = <<spec>>]
    <2>1. call' = [call EXCEPT ![c] = r]
      BY <1>1 DEF grantCapability, Begin
    <2>2. r.pc = "delete" /\ r.op = "grant" /\ r.task = NoTask
      BY <1>t DEF CallState
    <2> HIDE DEF r
    <2>3. r \in CallState
      BY <1>t, <2>1
    <2>4. QED
      BY <1>t, <2>1, <2>2, <2>3, CallOnly
  <1>2. ASSUME NEW a \in Agents, NEW list \in Lists, requestCapability(c, a, list)
        PROVE  CompletionInv'
    <2> DEFINE r == [Idle EXCEPT !.pc = "find", !.op = "request", !.agent = a, !.todo =
                       [i \in DOMAIN list |-> [list[i] EXCEPT !.connection = NoConnection]]]
    <2>1. call' = [call EXCEPT ![c] = r]
      BY <1>2 DEF requestCapability, Begin
    <2>2. r.pc = "find" /\ r.op = "request" /\ r.task = NoTask
      BY <1>t DEF CallState
    <2> HIDE DEF r
    <2>3. r \in CallState
      BY <1>t, <2>1
    <2>4. QED
      BY <1>t, <2>1, <2>2, <2>3, CallOnly
  <1>3. ASSUME NEW h \in Hosts, NEW a \in Agents, NEW list \in Lists, NEW ttl \in Ttls,
               createTask(c, h, a, list, ttl)
        PROVE  CompletionInv'
    <2> DEFINE r == [Idle EXCEPT !.pc = "create", !.op = "createTask", !.agent = a,
                                 !.todo = list, !.expires = ExpiresAt(ttl)]
    <2>1. call' = [call EXCEPT ![c] = r]
      BY <1>3 DEF createTask
    <2>2. r.pc = "create" /\ r.op = "createTask" /\ r.task = NoTask
      BY <1>t DEF CallState
    <2> HIDE DEF r
    <2>3. r \in CallState
      BY <1>t, <2>1
    <2>4. QED
      BY <1>t, <2>1, <2>2, <2>3, CallOnly
  <1>4. ASSUME NEW h \in Hosts, NEW t \in Tasks, completeTask(c, h, t)
        PROVE  CompletionInv'
    <2> DEFINE r == [Idle EXCEPT !.pc = "revoke", !.op = "completeTask", !.task = t]
    <2>1. call' = [call EXCEPT ![c] = r] /\ task[t].status # "absent"
      BY <1>4 DEF completeTask
    <2>2. r.pc = "revoke" /\ r.op = "completeTask" /\ r.task = t
      BY <1>t DEF CallState
    <2> HIDE DEF r
    <2>3. r \in CallState
      BY <1>t, <2>1
    <2>4. QED
      BY <1>t, <2>1, <2>2, <2>3, CallOnly
  <1>5. QED
    BY <1>1, <1>2, <1>3, <1>4 DEF Request

\* The frame of a step inside a loop: the call keeps its task or ends.
LEMMA LoopStep ==
  ASSUME TypeInv, CompletionInv, NEW c \in Calls,
         call[c].pc \in {"find", "delete", "insert"},
         \A d \in Calls \ {c} : call'[d] = call[d],
         \/ call'[c] = Idle
         \/ /\ call'[c].op = call[c].op /\ call'[c].task = call[c].task
            /\ call'[c].pc \in {"find", "delete", "insert"},
         UNCHANGED <<task, early>>
  PROVE  /\ OpsInPlace' /\ CompletionAfterCreation'
         /\ \A t \in Tasks : Sealed(t)' => Sealed(t)
  <1>t. /\ Idle.pc = "idle" /\ Idle.op = "grant" /\ Idle.task = NoTask
        /\ NoTask \notin Tasks
    BY TableAssumption DEF Idle
  <1>1. OpsInPlace'
    BY <1>t DEF CompletionInv, OpsInPlace
  <1>2. ASSUME NEW t \in Tasks
        PROVE  /\ Creating(t)' => Creating(t)
               /\ Completing(t)' => Completing(t)
               /\ Sealed(t)' => Sealed(t)
    BY <1>t DEF Creating, Completing, Sealed
  <1>3. CompletionAfterCreation'
    BY <1>2 DEF CompletionInv, CompletionAfterCreation
  <1>4. QED
    BY <1>1, <1>2, <1>3

LEMMA StepCompletion ==
  ASSUME TypeInv, TypeInv', CompletionInv, NEW c \in Calls, Step(c),
         early' = (early \ Denying) \cup {t \in Denying : Creating(t)}
  PROVE  CompletionInv'
  <1>t. /\ grants \in [Agents -> [Caps -> Seq(Row)]]
        /\ task \in [Tasks -> TaskRow]
        /\ call \in [Calls -> CallState]
        /\ call[c] \in CallState
        /\ call[c].agent \in Agents
        /\ NoTask \notin Tasks
    BY TableAssumption DEF TypeInv, TypeOK, CallState
  <1>f. \A d \in Calls \ {c} : call'[d] = call[d]
    BY StepFrame
  <1>e. call[c].pc # "revoke" => early' = early
    BY <1>f, EarlyIsKept
  <1>1. CASE FindActive(c)
    <2>1. call[c].pc = "find" /\ UNCHANGED <<grants, task>>
      BY <1>1 DEF FindActive, At
    <2>2. \/ call'[c] = Idle
          \/ /\ call'[c].op = call[c].op /\ call'[c].task = call[c].task
             /\ call'[c].pc \in {"find", "delete", "insert"}
      BY <1>1, <1>t, <2>1 DEF FindActive, Finish, Goto, CallState
    <2>3. /\ OpsInPlace' /\ CompletionAfterCreation'
          /\ \A t \in Tasks : Sealed(t)' => Sealed(t)
      BY <1>e, <1>f, <2>1, <2>2, LoopStep
    <2>4. QED
      BY <1>e, <2>1, <2>3 DEF CompletionInv, SealedIsRevoked
  <1>2. ASSUME NEW t \in Tasks, TaskCreate(c, t) PROVE CompletionInv'
    <2>1. /\ call[c].pc = "create" /\ call[c].op = "createTask"
          /\ task[t].status = "absent" /\ UNCHANGED grants
      BY <1>2 DEF TaskCreate, At, CompletionInv, OpsInPlace
    <2>2. /\ task'[t].status = "active"
          /\ \A u \in Tasks \ {t} : task'[u] = task[u]
      BY <1>2, <1>t DEF TaskCreate
    <2>3. \/ call'[c] = Idle
          \/ call'[c].op = "createTask" /\ call'[c].task = t /\ call'[c].pc = "delete"
      <3>1. CASE Finish(c)
        BY <3>1, <1>t DEF Finish
      <3>2. CASE call' = [call EXCEPT ![c] = [@ EXCEPT !.pc = "delete", !.task = t]]
        BY <3>2, <1>t, <2>1 DEF CallState
      <3>3. QED
        BY <1>2, <3>1, <3>2 DEF TaskCreate
    <2>4. Idle.pc = "idle" /\ Idle.op = "grant" /\ Idle.task = NoTask
      BY DEF Idle
    <2>5. OpsInPlace'
      BY <1>f, <2>3, <2>4 DEF CompletionInv, OpsInPlace
    <2>6. ~Completing(t) /\ ~Completing(t)'
      BY <1>f, <2>1, <2>3, <2>4, <1>t DEF CompletionInv, CompletionAfterCreation, Completing
    <2>7. ASSUME NEW u \in Tasks \ {t}
          PROVE  /\ Creating(u)' => Creating(u)
                 /\ Completing(u)' => Completing(u)
                 /\ Sealed(u)' => Sealed(u)
      BY <1>f, <1>t, <2>2, <2>3, <2>4 DEF Creating, Completing, Sealed
    <2>8. ~Sealed(t)'
      BY <1>f, <2>2, <2>3, <2>4, <2>5, <2>6 DEF Sealed, OpsInPlace, Completing
    <2>9. CompletionAfterCreation'
      BY <1>e, <2>1, <2>2, <2>6, <2>7, <2>8 DEF CompletionInv, CompletionAfterCreation
    <2>10. SealedIsRevoked'
      BY <1>e, <2>1, <2>7, <2>8 DEF CompletionInv, SealedIsRevoked
    <2>11. QED
      BY <2>5, <2>9, <2>10 DEF CompletionInv
  <1>3. CASE UpsertDelete(c)
    <2>1. /\ call[c].pc = "delete" /\ UNCHANGED task
          /\ call'[c].op = call[c].op /\ call'[c].task = call[c].task
          /\ call'[c].pc = "insert"
      BY <1>3, <1>t DEF UpsertDelete, At, Goto, CallState
    <2>2. /\ OpsInPlace' /\ CompletionAfterCreation'
          /\ \A t \in Tasks : Sealed(t)' => Sealed(t)
      BY <1>e, <1>f, <2>1, LoopStep
    <2>3. ASSUME NEW a \in Agents, NEW k \in Caps
          PROVE  grants'[a][k] = grants[a][k] \/ grants'[a][k] = << >>
      BY <1>3, <1>t DEF UpsertDelete
    <2>4. SealedIsRevoked'
      <3> SUFFICES ASSUME NEW t \in Tasks, Sealed(t), t \notin early, NEW a \in Agents, NEW k \in Caps,
                          NEW i \in DOMAIN grants'[a][k], grants'[a][k][i].task = t
                   PROVE  grants'[a][k][i].status # "active"
        BY <1>e, <2>1, <2>2 DEF SealedIsRevoked
      <3>1. grants'[a][k] # << >>
        OBVIOUS
      <3>2. grants'[a][k] = grants[a][k]
        BY <2>3, <3>1
      <3>3. QED
        BY <3>2 DEF CompletionInv, SealedIsRevoked
    <2>5. QED
      BY <2>2, <2>4 DEF CompletionInv
  <1>4. CASE UpsertInsert(c)
    <2>1. call[c].pc = "insert" /\ UNCHANGED task
      BY <1>4 DEF UpsertInsert, At
    <2>2. \/ call'[c] = Idle
          \/ /\ call'[c].op = call[c].op /\ call'[c].task = call[c].task
             /\ call'[c].pc \in {"find", "delete", "insert"}
      <3>1. CASE Finish(c)
        BY <3>1, <1>t DEF Finish
      <3>2. CASE call' = [call EXCEPT ![c] =
                   [@ EXCEPT !.pc = IF call[c].op = "request" THEN "find" ELSE "delete",
                             !.todo = Tail(call[c].todo)]]
        BY <3>2, <1>t DEF CallState
      <3>3. QED
        BY <1>4, <3>1, <3>2 DEF UpsertInsert
    <2>3. /\ OpsInPlace' /\ CompletionAfterCreation'
          /\ \A t \in Tasks : Sealed(t)' => Sealed(t)
      BY <1>e, <1>f, <2>1, <2>2, LoopStep
    <2>4. NewRow(c).task = call[c].task
      BY DEF NewRow
    <2>5. ASSUME NEW a \in Agents, NEW k \in Caps
          PROVE  \/ grants'[a][k] = grants[a][k]
                 \/ grants'[a][k] = Append(grants[a][k], NewRow(c))
      <3> DEFINE b == call[c].agent
                 m == Head(call[c].todo).cap
      <3>1. grants' = grants \/ grants' = [grants EXCEPT ![b][m] = Append(@, NewRow(c))]
        BY <1>4 DEF UpsertInsert
      <3> HIDE DEF b, m
      <3>2. CASE grants' = grants
        BY <3>2
      <3>3. CASE grants' = [grants EXCEPT ![b][m] = Append(@, NewRow(c))]
        <4>1. CASE a = b /\ k = m
          BY <1>t, <3>3, <4>1
        <4>2. CASE ~(a = b /\ k = m)
          BY <1>t, <3>3, <4>2
        <4>3. QED
          BY <4>1, <4>2
      <3>4. QED
        BY <3>1, <3>2, <3>3
    <2>6. \A t \in Tasks : Sealed(t) /\ t \notin early => call[c].task # t
      <3> SUFFICES ASSUME NEW t \in Tasks, Sealed(t), t \notin early, call[c].task = t PROVE FALSE
        OBVIOUS
      <3>1. call[c].op = "createTask"
        BY <1>t, <2>1 DEF CompletionInv, OpsInPlace, CallState, AllOps
      <3>2. Creating(t)
        BY <3>1 DEF Creating
      <3>3. QED
        BY <3>2 DEF CompletionInv, CompletionAfterCreation
    <2>7. SealedIsRevoked'
      <3> SUFFICES ASSUME NEW t \in Tasks, Sealed(t), t \notin early, NEW a \in Agents, NEW k \in Caps,
                          NEW i \in DOMAIN grants'[a][k], grants'[a][k][i].task = t
                   PROVE  grants'[a][k][i].status # "active"
        BY <1>e, <2>1, <2>3 DEF SealedIsRevoked
      <3>1. CASE grants'[a][k] = grants[a][k]
        BY <3>1 DEF CompletionInv, SealedIsRevoked
      <3>2. CASE grants'[a][k] = Append(grants[a][k], NewRow(c))
        <4>1. grants[a][k] \in Seq(Row)
          BY <1>t
        <4>2. \/ i \in DOMAIN grants[a][k] /\ grants'[a][k][i] = grants[a][k][i]
              \/ grants'[a][k][i] = NewRow(c)
          BY <3>2, <4>1
        <4>3. grants'[a][k][i] # NewRow(c)
          BY <2>4, <2>6
        <4>4. QED
          BY <4>2, <4>3 DEF CompletionInv, SealedIsRevoked
      <3>3. QED
        BY <2>5, <3>1, <3>2
    <2>8. QED
      BY <2>3, <2>7 DEF CompletionInv
  <1>5. CASE RevokeByTask(c)
    <2>1. /\ call[c].pc = "revoke" /\ UNCHANGED task
          /\ call'[c].op = call[c].op /\ call'[c].task = call[c].task
          /\ call'[c].pc = "setStatus"
      BY <1>5, <1>t DEF RevokeByTask, At, Goto, CallState
    <2>2. OpsInPlace'
      BY <1>f, <2>1 DEF CompletionInv, OpsInPlace
    <2>4. \A t \in Tasks : Sealed(t)' => Sealed(t) \/ t = call[c].task
      BY <1>f, <2>1 DEF Sealed
    <2>a. \A t \in Tasks : /\ Creating(t)' => Creating(t)
                           /\ Completing(t)' => Completing(t)
      BY <1>f, <2>1 DEF Creating, Completing
    <2>b. Denying = {call[c].task}
      BY <1>f, <2>1 DEF Denying, At
    <2>c. \A t \in Tasks : t \notin early' =>
             IF t = call[c].task THEN ~Creating(t) ELSE t \notin early
      BY <2>b
    <2>3. CompletionAfterCreation'
      <3>1. ASSUME NEW t \in Tasks, Sealed(t)', t \notin early' PROVE ~Creating(t)'
        BY <2>4, <2>a, <2>c, <3>1 DEF CompletionInv, CompletionAfterCreation
      <3>2. QED
        BY <2>1, <2>a, <3>1 DEF CompletionInv, CompletionAfterCreation
    <2>5. ASSUME NEW a \in Agents, NEW k \in Caps
          PROVE  grants'[a][k] = [i \in DOMAIN grants[a][k] |->
                                    Denied(grants[a][k][i], call[c].task)]
      BY <1>5 DEF RevokeByTask
    <2>6. SealedIsRevoked'
      <3> SUFFICES ASSUME NEW t \in Tasks, Sealed(t)', t \notin early', NEW a \in Agents, NEW k \in Caps,
                          NEW i \in DOMAIN grants'[a][k], grants'[a][k][i].task = t
                   PROVE  grants'[a][k][i].status # "active"
        BY DEF SealedIsRevoked
      <3> DEFINE row == grants[a][k][i]
      <3>0. grants'[a][k] = [j \in DOMAIN grants[a][k] |-> Denied(grants[a][k][j], call[c].task)]
        BY <2>5, Zenon
      <3>1. i \in DOMAIN grants[a][k] /\ grants'[a][k][i] = Denied(row, call[c].task)
        BY <3>0
      <3>2. row \in Row
        BY <1>t, <3>1, LenProperties, ElementOfSeq
      <3> HIDE DEF row
      <3>3. CASE row.task = call[c].task
        BY <3>1, <3>2, <3>3 DEF Denied, Row
      <3>4. CASE row.task # call[c].task
        <4>1. grants'[a][k][i] = row /\ row.task = t
          BY <3>1, <3>4 DEF Denied
        <4>2. Sealed(t) /\ t \notin early
          BY <2>4, <2>c, <3>4, <4>1
        <4>3. QED
          BY <3>1, <4>1, <4>2 DEF CompletionInv, SealedIsRevoked, row
      <3>5. QED
        BY <3>3, <3>4
    <2>7. QED
      BY <2>2, <2>3, <2>6 DEF CompletionInv
  <1>6. CASE SetCompleted(c)
    <2>1. /\ call[c].pc = "setStatus" /\ call[c].op = "completeTask" /\ UNCHANGED grants
          /\ call[c].task \in Tasks
      BY <1>6 DEF SetCompleted, At, CompletionInv, OpsInPlace, TypeInv, CallsAreLoaded
    <2>2. /\ task'[call[c].task].status = "completed"
          /\ \A t \in Tasks \ {call[c].task} : task'[t] = task[t]
      BY <1>6, <1>t, <2>1 DEF SetCompleted, TaskRow
    <2>3. call'[c] = Idle /\ Idle.pc = "idle" /\ Idle.op = "grant" /\ Idle.task = NoTask
      BY <1>6, <1>t DEF SetCompleted, Finish, Idle
    <2>4. OpsInPlace'
      BY <1>f, <2>3 DEF CompletionInv, OpsInPlace
    <2>5. ASSUME NEW t \in Tasks
          PROVE  /\ Creating(t)' => Creating(t)
                 /\ Completing(t)' => Completing(t)
                 /\ Sealed(t)' => Sealed(t)
      BY <1>f, <2>1, <2>2, <2>3 DEF Creating, Completing, Sealed
    <2>6. Completing(call[c].task)
      BY <2>1 DEF Completing
    <2>7. CompletionAfterCreation'
      BY <1>e, <2>1, <2>2, <2>5, <2>6 DEF CompletionInv, CompletionAfterCreation
    <2>8. SealedIsRevoked'
      BY <1>e, <2>1, <2>5 DEF CompletionInv, SealedIsRevoked
    <2>9. QED
      BY <2>4, <2>7, <2>8 DEF CompletionInv
  <1>7. QED
    BY <1>1, <1>2, <1>3, <1>4, <1>5, <1>6 DEF Step

\* Requests and deaths touch their own call only, and none denies anything.
LEMMA CallFrame ==
  ASSUME TypeInv, NEW c \in Calls, Request(c) \/ Die(c)
  PROVE  /\ \A d \in Calls \ {c} : call'[d] = call[d]
         /\ ~(call[c].pc = "revoke" /\ call'[c].pc = "setStatus")
  <1>t. call \in [Calls -> CallState] /\ Idle.pc = "idle"
    BY IdleType DEF TypeInv, TypeOK
  <1>1. CASE Die(c)
    BY <1>1, <1>t DEF Die, Finish
  <1>2. CASE Request(c)
    <2>1. call[c].pc = "idle"
      BY <1>2 DEF Request, grantCapability, requestCapability, createTask, completeTask, Begin, At
    <2>2. \E r : call' = [call EXCEPT ![c] = r]
      BY <1>2 DEF Request, grantCapability, requestCapability, createTask, completeTask, Begin
    <2>3. QED
      BY <1>t, <2>1, <2>2
  <1>3. QED
    BY <1>1, <1>2

LEMMA NextCompletion ==
  TypeInv /\ TypeInv' /\ CompletionInv /\ [LossNext]_lossVars => CompletionInv'
  <1> SUFFICES ASSUME TypeInv, TypeInv', CompletionInv, [LossNext]_lossVars PROVE CompletionInv'
    OBVIOUS
  <1>1. CASE LossNext
    <2>0. early' = (early \ Denying) \cup {t \in Denying : Creating(t)}
      BY <1>1 DEF LossNext
    <2>1. ASSUME NEW c \in Calls, Request(c) \/ Die(c) PROVE UNCHANGED early
      <3>1. \A d \in Calls \ {c} : call'[d] = call[d]
        BY <2>1, CallFrame
      <3>2. ~(call[c].pc = "revoke" /\ call'[c].pc = "setStatus")
        BY <2>1, CallFrame
      <3>3. QED
        BY <2>0, <3>1, <3>2, EarlyIsKept
    <2>2. ASSUME NEW c \in Calls, Request(c) PROVE CompletionInv'
      BY <2>1, <2>2, RequestCompletion
    <2>3. ASSUME NEW c \in Calls, Step(c) PROVE CompletionInv'
      BY <2>0, <2>3, StepCompletion
    <2>4. ASSUME NEW c \in Calls, Die(c) PROVE CompletionInv'
      BY <2>1, <2>4, IdleCompletion DEF Die
    <2>5. CASE Tick
      <3>1. UNCHANGED <<grants, task, call>>
        BY <2>5 DEF Tick
      <3>2. Denying = {}
        BY <3>1 DEF Denying, At
      <3>3. early' = early
        BY <2>0, <3>2
      <3>4. QED
        BY <3>1, <3>3 DEF CompletionInv, OpsInPlace, CompletionAfterCreation, SealedIsRevoked,
                          Completing, Creating, Sealed
    <2>6. QED
      BY <1>1, <2>2, <2>3, <2>4, <2>5 DEF LossNext, Next
  <1>2. CASE UNCHANGED lossVars
    BY <1>2 DEF lossVars, CompletionInv, OpsInPlace, CompletionAfterCreation, SealedIsRevoked,
                Completing, Creating, Sealed
  <1>3. QED
    BY <1>1, <1>2

\* Each behaviour with the history variables is one of Grants, so that the theorems
\* about Grants hold of it too.
THEOREM LossesAreGrants == LossSpec => Spec
  <1>1. LossInit => Init
    BY DEF LossInit
  <1>2. [LossNext]_lossVars => [Next]_vars
    BY DEF LossNext, lossVars, vars
  <1>3. QED
    BY <1>1, <1>2, PTL DEF LossSpec, Spec

\* completeTask: whatever other calls interleave or die, a completed task has an
\* active grant only if its grants were denied last while createTask was still
\* inserting them, however early its id was used.
THEOREM CompletionRevokes == LossSpec => []CompletedTaskLeavesNothing
  <1>1. LossSpec => []TypeInv
    <2>1. Spec => []TypeInv
      BY InitType, NextType, PTL DEF Spec
    <2>2. QED
      BY <2>1, LossesAreGrants, PTL
  <1>2. LossSpec => []CompletionInv
    BY <1>1, InitCompletion, NextCompletion, PTL DEF LossSpec
  <1>3. TypeInv /\ CompletionInv => CompletedTaskLeavesNothing
    <2> SUFFICES ASSUME TypeInv, CompletionInv, NEW a \in Agents, NEW k \in Caps,
                        NEW i \in DOMAIN grants[a][k], grants[a][k][i].task # NoTask,
                        grants[a][k][i].status = "active",
                        task[grants[a][k][i].task].status = "completed"
                 PROVE  grants[a][k][i].task \in early
      BY DEF CompletedTaskLeavesNothing
    <2>1. grants[a][k] \in Seq(Row)
      BY DEF TypeInv, TypeOK
    <2>2. grants[a][k][i] \in Row
      BY <2>1, LenProperties, ElementOfSeq
    <2>3. grants[a][k][i].task \in Tasks
      BY <2>2 DEF Row
    <2>4. QED
      BY <2>3 DEF CompletionInv, SealedIsRevoked, Sealed
  <1>4. QED
    BY <1>1, <1>2, <1>3, PTL

-----------------------------------------------------------------------------
(* Grants of a task *)

\* The task row exists, belongs to a and expires at e.
Boxed(row, a, e) == row.status # "absent" /\ row.agent = a /\ row.expires = e

\* TaskGrantTimeBoxed is not inductive alone: the row that is inserted takes its
\* task and expiry from the call, so they must be those of the task by then.
CallsAreBoxed ==
  \A c \in Calls : call[c].pc \in {"find", "delete", "insert"} /\ call[c].task # NoTask
    => Boxed(task[call[c].task], call[c].agent, call[c].expires)

\* Owner and expiry of a task are written once.
LEMMA BoxIsKept ==
  ASSUME TypeInv, [Next]_vars, NEW t \in Tasks, NEW a, NEW e, Boxed(task[t], a, e)
  PROVE  Boxed(task'[t], a, e)
  <1>t. task \in [Tasks -> TaskRow]
    BY DEF TypeInv, TypeOK
  <1>1. ASSUME NEW c \in Calls, NEW u \in Tasks, TaskCreate(c, u) PROVE Boxed(task'[t], a, e)
    <2>1. u # t
      BY <1>1 DEF TaskCreate, Boxed
    <2>2. task'[t] = task[t]
      BY <1>t, <1>1, <2>1 DEF TaskCreate
    <2>3. QED
      BY <2>2 DEF Boxed
  <1>2. ASSUME NEW c \in Calls, SetCompleted(c) PROVE Boxed(task'[t], a, e)
    <2>1. task' = [task EXCEPT ![call[c].task].status = "completed"]
      BY <1>2 DEF SetCompleted
    <2>2. /\ task'[t].agent = task[t].agent /\ task'[t].expires = task[t].expires
          /\ task'[t].status \in {task[t].status, "completed"}
      BY <1>t, <2>1 DEF TaskRow
    <2>3. QED
      BY <2>2 DEF Boxed
  <1>3. CASE UNCHANGED task
    BY <1>3 DEF Boxed
  <1>4. QED
    BY <1>1, <1>2, <1>3
       DEF Next, Request, Step, Die, Tick, vars, grantCapability, requestCapability, createTask,
           completeTask, FindActive, UpsertDelete, UpsertInsert, RevokeByTask

\* What a step does to its call: it ends, enters without a task, keeps its task,
\* or has just created it.
LEMMA CallKeepsBox ==
  ASSUME TypeInv, NEW c \in Calls, Request(c) \/ Step(c) \/ Die(c),
         call'[c].pc \in {"find", "delete", "insert"}, call'[c].task # NoTask
  PROVE  \/ /\ call[c].pc \in {"find", "delete", "insert"}
            /\ call'[c].task = call[c].task /\ call'[c].agent = call[c].agent
            /\ call'[c].expires = call[c].expires
         \/ /\ call'[c].task \in Tasks
            /\ Boxed(task'[call'[c].task], call'[c].agent, call'[c].expires)
  <1> DEFINE Goal == \/ /\ call[c].pc \in {"find", "delete", "insert"}
                        /\ call'[c].task = call[c].task /\ call'[c].agent = call[c].agent
                        /\ call'[c].expires = call[c].expires
                     \/ /\ call'[c].task \in Tasks
                        /\ task'[call'[c].task].status # "absent"
                        /\ task'[call'[c].task].agent = call'[c].agent
                        /\ task'[call'[c].task].expires = call'[c].expires
  <1>t. /\ call \in [Calls -> CallState] /\ call[c] \in CallState
        /\ task \in [Tasks -> TaskRow]
        /\ Idle \in CallState /\ Idle.pc = "idle" /\ Idle.task = NoTask
    BY IdleType DEF TypeInv, TypeOK, Idle
  <1>i. call'[c] # Idle
    BY <1>t
  <1>f. ~Finish(c)
    BY <1>t, <1>i DEF Finish
  <1>s. SUFFICES Goal
    BY DEF Boxed
  <1>1. ASSUME NEW h \in Hosts, NEW a \in Agents, NEW spec \in CapabilitySpec,
               grantCapability(c, h, a, spec)
        PROVE  Goal
    BY <1>t, <1>1 DEF grantCapability, Begin, CallState
  <1>2. ASSUME NEW a \in Agents, NEW list \in Lists, requestCapability(c, a, list)
        PROVE  Goal
    BY <1>t, <1>2 DEF requestCapability, Begin, CallState
  <1>3. ASSUME NEW h \in Hosts, NEW a \in Agents, NEW list \in Lists, NEW ttl \in Ttls,
               createTask(c, h, a, list, ttl)
        PROVE  Goal
    BY <1>t, <1>3 DEF createTask, CallState
  <1>4. ASSUME NEW h \in Hosts, NEW t \in Tasks, completeTask(c, h, t) PROVE Goal
    BY <1>t, <1>4 DEF completeTask, CallState
  <1>5. CASE FindActive(c)
    BY <1>5, <1>f, <1>t DEF FindActive, Goto, At, CallState
  <1>6. ASSUME NEW t \in Tasks, TaskCreate(c, t) PROVE Goal
    <2>1. /\ call' = [call EXCEPT ![c] = [@ EXCEPT !.pc = "delete", !.task = t]]
          /\ task' = [task EXCEPT ![t] = [status |-> "active", agent |-> call[c].agent,
                                          expires |-> call[c].expires]]
      BY <1>6, <1>f DEF TaskCreate
    <2>2. /\ call'[c].task = t /\ call'[c].agent = call[c].agent
          /\ call'[c].expires = call[c].expires
      BY <1>t, <2>1 DEF CallState
    <2>3. /\ task'[t].status = "active" /\ task'[t].agent = call[c].agent
          /\ task'[t].expires = call[c].expires
      BY <1>t, <2>1
    <2>4. QED
      BY <2>2, <2>3
  <1>7. CASE UpsertDelete(c)
    BY <1>7, <1>t DEF UpsertDelete, Goto, At, CallState
  <1>8. CASE UpsertInsert(c)
    <2>1. /\ call[c].pc = "insert"
          /\ call' = [call EXCEPT ![c] =
                   [@ EXCEPT !.pc = IF call[c].op = "request" THEN "find" ELSE "delete",
                             !.todo = Tail(call[c].todo)]]
      BY <1>8, <1>f DEF UpsertInsert, At
    <2>2. QED
      BY <1>t, <2>1 DEF CallState
  <1>9. CASE RevokeByTask(c)
    BY <1>9, <1>t DEF RevokeByTask, Goto, CallState
  <1>10. CASE SetCompleted(c) \/ Die(c)
    BY <1>10, <1>f DEF SetCompleted, Die
  <1> HIDE DEF Goal
  <1>11. QED
    BY <1>1, <1>2, <1>3, <1>4, <1>5, <1>6, <1>7, <1>8, <1>9, <1>10 DEF Request, Step

LEMMA NextCallsAreBoxed ==
  TypeInv /\ CallsAreBoxed /\ [Next]_vars => CallsAreBoxed'
  <1> SUFFICES ASSUME TypeInv, CallsAreBoxed, [Next]_vars, NEW d \in Calls,
                      call'[d].pc \in {"find", "delete", "insert"}, call'[d].task # NoTask
               PROVE  Boxed(task'[call'[d].task], call'[d].agent, call'[d].expires)
    BY DEF CallsAreBoxed, Boxed
  <1> DEFINE Goal == Boxed(task'[call'[d].task], call'[d].agent, call'[d].expires)
  <1>t. call \in [Calls -> CallState]
    BY DEF TypeInv, TypeOK
  <1>k. ASSUME call[d].pc \in {"find", "delete", "insert"}, call'[d].task = call[d].task,
               call'[d].agent = call[d].agent, call'[d].expires = call[d].expires
        PROVE  Goal
    <2>1. call[d].task \in Tasks
      BY <1>t, <1>k DEF CallState
    <2>2. Boxed(task[call[d].task], call[d].agent, call[d].expires)
      BY <1>k DEF CallsAreBoxed
    <2>3. QED
      BY <1>k, <2>1, <2>2, BoxIsKept
  <1>1. ASSUME NEW c \in Calls, Request(c) \/ Step(c) \/ Die(c) PROVE Goal
    <2>1. CASE d = c
      BY <1>1, <1>k, <2>1, CallKeepsBox
    <2>2. CASE d # c
      BY <1>1, <1>k, <2>2, StepFrame
    <2>3. QED
      BY <2>1, <2>2
  <1>2. CASE UNCHANGED call
    BY <1>2, <1>k
  <1>3. QED
    BY <1>1, <1>2 DEF Next, Tick, vars

\* A row of (a, k) after a step was there before, with the same task and expiry,
\* or is the one that a call of agent a inserted.
LEMMA RowsComeFrom ==
  ASSUME TypeInv, [Next]_vars, NEW a \in Agents, NEW k \in Caps,
         NEW i \in DOMAIN grants'[a][k]
  PROVE  \/ \E j \in DOMAIN grants[a][k] :
              /\ grants'[a][k][i].task = grants[a][k][j].task
              /\ grants'[a][k][i].expires = grants[a][k][j].expires
         \/ \E c \in Calls :
              /\ call[c].pc = "insert" /\ call[c].agent = a
              /\ grants'[a][k][i].task = call[c].task
              /\ grants'[a][k][i].expires = call[c].expires
  <1> DEFINE Old == \E j \in DOMAIN grants[a][k] :
                      /\ grants'[a][k][i].task = grants[a][k][j].task
                      /\ grants'[a][k][i].expires = grants[a][k][j].expires
             New == \E c \in Calls :
                      /\ call[c].pc = "insert" /\ call[c].agent = a
                      /\ grants'[a][k][i].task = call[c].task
                      /\ grants'[a][k][i].expires = call[c].expires
  <1>t. grants \in [Agents -> [Caps -> Seq(Row)]] /\ grants[a][k] \in Seq(Row)
    BY DEF TypeInv, TypeOK
  <1>s. ASSUME grants'[a][k] = grants[a][k] PROVE Old
    BY <1>s
  <1>1. ASSUME NEW c \in Calls, UpsertDelete(c) PROVE Old
    <2>1. grants'[a][k] = grants[a][k] \/ grants'[a][k] = << >>
      BY <1>t, <1>1 DEF UpsertDelete
    <2>2. grants'[a][k] # << >>
      OBVIOUS
    <2>3. QED
      BY <1>s, <2>1, <2>2
  <1>2. ASSUME NEW c \in Calls, UpsertInsert(c) PROVE Old \/ New
    <2> DEFINE b == call[c].agent
               m == Head(call[c].todo).cap
    <2>1. /\ call[c].pc = "insert"
          /\ grants' = grants \/ grants' = [grants EXCEPT ![b][m] = Append(@, NewRow(c))]
      BY <1>2 DEF UpsertInsert, At
    <2>2. NewRow(c).task = call[c].task /\ NewRow(c).expires = call[c].expires
      BY DEF NewRow
    <2>3. \/ grants'[a][k] = grants[a][k]
          \/ a = b /\ grants'[a][k] = Append(grants[a][k], NewRow(c))
      <3> HIDE DEF b, m
      <3>1. CASE grants' = grants
        BY <3>1
      <3>2. CASE grants' = [grants EXCEPT ![b][m] = Append(@, NewRow(c))]
        <4>1. CASE a = b /\ k = m
          BY <1>t, <3>2, <4>1
        <4>2. CASE ~(a = b /\ k = m)
          BY <1>t, <3>2, <4>2
        <4>3. QED
          BY <4>1, <4>2
      <3>3. QED
        BY <2>1, <3>1, <3>2
    <2>4. CASE a = b /\ grants'[a][k] = Append(grants[a][k], NewRow(c))
      <3>1. \/ i \in DOMAIN grants[a][k] /\ grants'[a][k][i] = grants[a][k][i]
            \/ grants'[a][k][i] = NewRow(c)
        BY <1>t, <2>4
      <3>2. QED
        BY <2>1, <2>2, <2>4, <3>1
    <2>5. QED
      BY <1>s, <2>3, <2>4
  <1>3. ASSUME NEW c \in Calls, RevokeByTask(c) PROVE Old
    <2>0. grants' = [e \in Agents |-> [m \in Caps |-> [j \in DOMAIN grants[e][m] |->
                      Denied(grants[e][m][j], call[c].task)]]]
      BY <1>3 DEF RevokeByTask
    <2>1. grants'[a][k] = [j \in DOMAIN grants[a][k] |-> Denied(grants[a][k][j], call[c].task)]
      BY <2>0, Zenon
    <2>2. i \in DOMAIN grants[a][k] /\ grants'[a][k][i] = Denied(grants[a][k][i], call[c].task)
      BY <2>1
    <2>3. grants[a][k][i] \in Row
      BY <1>t, <2>2, LenProperties, ElementOfSeq
    <2>4. /\ Denied(grants[a][k][i], call[c].task).task = grants[a][k][i].task
          /\ Denied(grants[a][k][i], call[c].task).expires = grants[a][k][i].expires
      BY <2>3 DEF Denied, Row
    <2>5. QED
      BY <2>2, <2>4
  <1>4. ASSUME UNCHANGED grants PROVE Old
    BY <1>4, <1>s
  <1>5. \/ UNCHANGED grants
        \/ \E c \in Calls : UpsertDelete(c) \/ UpsertInsert(c) \/ RevokeByTask(c)
    BY DEF Next, Request, Step, Die, Tick, vars, grantCapability, requestCapability, createTask,
           completeTask, FindActive, TaskCreate, SetCompleted
  <1> HIDE DEF Old, New
  <1>6. Old \/ New
    BY <1>1, <1>2, <1>3, <1>4, <1>5
  <1>7. QED
    BY <1>6 DEF Old, New

LEMMA NextTaskGrants ==
  TypeInv /\ CallsAreBoxed /\ TaskGrantTimeBoxed /\ [Next]_vars => TaskGrantTimeBoxed'
  <1> SUFFICES ASSUME TypeInv, CallsAreBoxed, TaskGrantTimeBoxed, [Next]_vars,
                      NEW a \in Agents, NEW k \in Caps, NEW i \in DOMAIN grants'[a][k],
                      grants'[a][k][i].task # NoTask
               PROVE  Boxed(task'[grants'[a][k][i].task], a, grants'[a][k][i].expires)
    BY DEF TaskGrantTimeBoxed, Boxed
  <1> DEFINE t == grants'[a][k][i].task
             e == grants'[a][k][i].expires
  <1>t. grants[a][k] \in Seq(Row) /\ call \in [Calls -> CallState]
    BY DEF TypeInv, TypeOK
  <1>1. CASE \E j \in DOMAIN grants[a][k] : t = grants[a][k][j].task /\ e = grants[a][k][j].expires
    <2>1. PICK j \in DOMAIN grants[a][k] : t = grants[a][k][j].task /\ e = grants[a][k][j].expires
      BY <1>1
    <2>2. grants[a][k][j] \in Row
      BY <1>t, <2>1, LenProperties, ElementOfSeq
    <2>3. t \in Tasks
      BY <2>1, <2>2 DEF Row
    <2>4. Boxed(task[t], a, e)
      BY <2>1 DEF TaskGrantTimeBoxed, Boxed
    <2> HIDE DEF t, e
    <2>5. Boxed(task'[t], a, e)
      BY <2>3, <2>4, BoxIsKept
    <2>6. QED
      BY <2>5 DEF t, e
  <1>2. CASE \E c \in Calls : /\ call[c].pc = "insert" /\ call[c].agent = a
                              /\ t = call[c].task /\ e = call[c].expires
    <2>1. PICK c \in Calls : /\ call[c].pc = "insert" /\ call[c].agent = a
                             /\ t = call[c].task /\ e = call[c].expires
      BY <1>2
    <2>2. t \in Tasks
      BY <1>t, <2>1 DEF CallState
    <2>3. Boxed(task[t], a, e)
      BY <2>1 DEF CallsAreBoxed
    <2> HIDE DEF t, e
    <2>4. Boxed(task'[t], a, e)
      BY <2>2, <2>3, BoxIsKept
    <2>5. QED
      BY <2>4 DEF t, e
  <1>3. QED
    BY <1>1, <1>2, RowsComeFrom

\* createTask: for every number of concurrent calls, whichever of them die and
\* whenever the task is completed, a grant bound to a task belongs to the agent
\* of the task and expires with it.
THEOREM TaskGrantsExpire == Spec => []TaskGrantTimeBoxed
  <1>1. Init => CallsAreBoxed
    BY DEF Init, CallsAreBoxed, Idle
  <1>2. Init => TaskGrantTimeBoxed
    <2> SUFFICES ASSUME Init, NEW a \in Agents, NEW k \in Caps, NEW i \in DOMAIN grants[a][k]
                 PROVE  grants[a][k][i].task = NoTask
      BY DEF TaskGrantTimeBoxed
    <2>1. grants[a][k] = IF <<a, k>> \in Standing THEN <<StandingRow>> ELSE << >>
      BY DEF Init
    <2>2. grants[a][k] = <<StandingRow>>
      BY <2>1
    <2>3. grants[a][k][i] = StandingRow
      BY <2>2
    <2>4. QED
      BY <2>3 DEF StandingRow
  <1>3. Spec => [](TypeInv /\ CallsAreBoxed /\ TaskGrantTimeBoxed)
    BY <1>1, <1>2, InitType, NextType, NextCallsAreBoxed, NextTaskGrants, PTL DEF Spec
  <1>4. QED
    BY <1>3, PTL

-----------------------------------------------------------------------------
(***************************************************************************)
(* Losses.  The rows that are owed cannot be followed by HasActive: that a *)
(* request never deletes one needs to know that no request waiting at its  *)
(* DELETE has one in front of it, and a row of a task would go away by     *)
(* itself.  So OwedInv speaks of rows without task and expiry, of the      *)
(* calls that are about to insert again, and of the requests in between.   *)
(***************************************************************************)

\* Only createTask binds a grant to a task or an expiry.
PlainCalls ==
  \A c \in Calls :
    /\ call[c].op \in {"grant", "request"} => call[c].task = NoTask /\ call[c].expires = NoTime
    /\ call[c].pc = "create" => call[c].op = "createTask"
    /\ call[c].pc \in {"find", "delete", "insert"} => call[c].op # "completeTask"

LastingRow(row) == row.status = "active" /\ row.task = NoTask /\ row.expires = NoTime

Lasting(a, k) == \E i \in DOMAIN grants[a][k] : LastingRow(grants[a][k][i])

\* Somebody other than a request is about to insert.
Replacing(a, k) == \E c \in Inserting(a, k) : call[c].op # "request"

Kept(a, k) ==
  /\ Lasting(a, k) \/ Replacing(a, k)
  /\ Lasting(a, k) => Overtaken(a, k) = {}

OwedInv ==
  /\ owed \subseteq Agents \X Caps
  /\ \A a \in Agents, k \in Caps : <<a, k>> \in owed => Kept(a, k)

\* What a step does to its call, as far as PlainCalls and OwedInv look at it.
LEMMA CallPlaces ==
  ASSUME TypeInv, PlainCalls, NEW c \in Calls, Request(c) \/ Step(c) \/ Die(c)
  PROVE  /\ \A d \in Calls \ {c} : call'[d] = call[d]
         /\ PlainCalls'
         /\ call'[c].pc = "delete" /\ call'[c].op = "request"
              => FindActive(c) /\ call'[c].agent = call[c].agent /\ call'[c].todo = call[c].todo
         /\ UpsertDelete(c)
              => /\ call'[c].pc = "insert" /\ call'[c].op = call[c].op
                 /\ call'[c].agent = call[c].agent /\ call'[c].todo = call[c].todo
  <1> DEFINE Fits(x) ==
               /\ x.op \in {"grant", "request"} => x.task = NoTask /\ x.expires = NoTime
               /\ x.pc = "create" => x.op = "createTask"
               /\ x.pc \in {"find", "delete", "insert"} => x.op # "completeTask"
             Follows(x) ==
               /\ Fits(x)
               /\ x.pc = "delete" /\ x.op = "request"
                    => FindActive(c) /\ x.agent = call[c].agent /\ x.todo = call[c].todo
               /\ UpsertDelete(c)
                    => /\ x.pc = "insert" /\ x.op = call[c].op
                       /\ x.agent = call[c].agent /\ x.todo = call[c].todo
  <1>t. /\ call \in [Calls -> CallState] /\ call[c] \in CallState
        /\ Idle \in CallState /\ Idle.pc = "idle" /\ Idle.op = "grant"
        /\ Idle.task = NoTask /\ Idle.expires = NoTime
    BY IdleType DEF TypeInv, TypeOK, Idle
  <1>p. Fits(call[c])
    BY DEF PlainCalls
  <1>1. ASSUME Request(c) PROVE Follows(call'[c])
    <2>0. ~UpsertDelete(c)
      BY <1>1 DEF Request, grantCapability, requestCapability, createTask, completeTask, Begin,
                  At, UpsertDelete
    <2>1. ASSUME NEW h \in Hosts, NEW a \in Agents, NEW spec \in CapabilitySpec,
                 grantCapability(c, h, a, spec)
          PROVE  Follows(call'[c])
      BY <1>t, <2>0, <2>1 DEF grantCapability, Begin, CallState
    <2>2. ASSUME NEW a \in Agents, NEW list \in Lists, requestCapability(c, a, list)
          PROVE  Follows(call'[c])
      BY <1>t, <2>0, <2>2 DEF requestCapability, Begin, CallState
    <2>3. ASSUME NEW h \in Hosts, NEW a \in Agents, NEW list \in Lists, NEW ttl \in Ttls,
                 createTask(c, h, a, list, ttl)
          PROVE  Follows(call'[c])
      BY <1>t, <2>0, <2>3 DEF createTask, CallState
    <2>4. ASSUME NEW h \in Hosts, NEW t \in Tasks, completeTask(c, h, t)
          PROVE  Follows(call'[c])
      BY <1>t, <2>0, <2>4 DEF completeTask, CallState
    <2> HIDE DEF Follows
    <2>5. QED
      BY <1>1, <2>1, <2>2, <2>3, <2>4 DEF Request
  <1>f. ASSUME Finish(c), ~UpsertDelete(c) PROVE Follows(call'[c])
    BY <1>t, <1>f DEF Finish
  <1>2. ASSUME FindActive(c) PROVE Follows(call'[c])
    <2>0. ~UpsertDelete(c) /\ call[c].pc = "find"
      BY <1>2 DEF FindActive, UpsertDelete, At
    <2>1. CASE Goto(c, "delete")
      BY <1>2, <1>p, <1>t, <2>0, <2>1 DEF Goto, CallState
    <2>2. CASE call' = [call EXCEPT ![c].todo = Tail(@)]
      BY <1>p, <1>t, <2>0, <2>2 DEF CallState
    <2> HIDE DEF Follows
    <2>3. QED
      BY <1>2, <1>f, <2>0, <2>1, <2>2 DEF FindActive
  <1>3. ASSUME NEW t \in Tasks, TaskCreate(c, t) PROVE Follows(call'[c])
    <2>0. ~UpsertDelete(c) /\ call[c].pc = "create" /\ call[c].op = "createTask"
      BY <1>3, <1>p DEF TaskCreate, UpsertDelete, At
    <2>1. CASE call' = [call EXCEPT ![c] = [@ EXCEPT !.pc = "delete", !.task = t]]
      BY <1>t, <2>0, <2>1 DEF CallState
    <2> HIDE DEF Follows
    <2>2. QED
      BY <1>3, <1>f, <2>0, <2>1 DEF TaskCreate
  <1>4. ASSUME UpsertDelete(c) PROVE Follows(call'[c])
    <2>1. call[c].pc = "delete" /\ call' = [call EXCEPT ![c].pc = "insert"]
      BY <1>4 DEF UpsertDelete, At, Goto
    <2>2. QED
      BY <1>p, <1>t, <2>1 DEF CallState
  <1>5. ASSUME UpsertInsert(c) PROVE Follows(call'[c])
    <2>0. ~UpsertDelete(c) /\ call[c].pc = "insert"
      BY <1>5 DEF UpsertInsert, UpsertDelete, At
    <2>1. CASE call' = [call EXCEPT ![c] =
                   [@ EXCEPT !.pc = IF call[c].op = "request" THEN "find" ELSE "delete",
                             !.todo = Tail(call[c].todo)]]
      BY <1>p, <1>t, <2>0, <2>1 DEF CallState
    <2> HIDE DEF Follows
    <2>2. QED
      BY <1>5, <1>f, <2>0, <2>1 DEF UpsertInsert
  <1>6. ASSUME RevokeByTask(c) PROVE Follows(call'[c])
    <2>0. ~UpsertDelete(c) /\ call' = [call EXCEPT ![c].pc = "setStatus"]
      BY <1>6 DEF RevokeByTask, UpsertDelete, At, Goto
    <2>1. QED
      BY <1>p, <1>t, <2>0 DEF CallState
  <1>7. ASSUME SetCompleted(c) PROVE Follows(call'[c])
    BY <1>7, <1>f DEF SetCompleted, UpsertDelete, At
  <1>8. ASSUME Die(c) PROVE Follows(call'[c])
    <2>1. CASE UpsertDelete(c)
      BY <1>4, <2>1
    <2>2. QED
      BY <1>8, <1>f, <2>1 DEF Die
  <1>9. Follows(call'[c])
    <2> HIDE DEF Follows
    <2>1. QED
      BY <1>1, <1>2, <1>3, <1>4, <1>5, <1>6, <1>7, <1>8 DEF Step
  <1>10. \A d \in Calls \ {c} : call'[d] = call[d]
    BY StepFrame
  <1>11. PlainCalls'
    BY <1>9, <1>10 DEF PlainCalls
  <1>12. QED
    BY <1>9, <1>10, <1>11

\* A lasting row survives, and none appears, where the rows stay or a task is revoked.
LEMMA LastingUnderRevoke ==
  ASSUME TypeInv, NEW c \in Calls, RevokeByTask(c), NEW a \in Agents, NEW k \in Caps
  PROVE  Lasting(a, k)' <=> Lasting(a, k)
  <1>t. call[c].task # NoTask /\ grants[a][k] \in Seq(Row)
    BY TableAssumption DEF TypeInv, TypeOK, CallsAreLoaded, RevokeByTask, At
  <1>0. grants' = [e \in Agents |-> [m \in Caps |-> [j \in DOMAIN grants[e][m] |->
                    Denied(grants[e][m][j], call[c].task)]]]
    BY DEF RevokeByTask
  <1>1. grants'[a][k] = [j \in DOMAIN grants[a][k] |-> Denied(grants[a][k][j], call[c].task)]
    BY <1>0, Zenon
  <1>2. ASSUME NEW j \in DOMAIN grants[a][k]
        PROVE  LastingRow(grants'[a][k][j]) <=> LastingRow(grants[a][k][j])
    <2>1. grants[a][k][j] \in Row
      BY <1>t, LenProperties, ElementOfSeq
    <2>2. grants'[a][k][j] = Denied(grants[a][k][j], call[c].task)
      BY <1>1
    <2>3. QED
      BY <1>t, <2>1, <2>2 DEF Denied, LastingRow, Row
  <1>3. DOMAIN grants'[a][k] = DOMAIN grants[a][k]
    BY <1>1
  <1>4. QED
    BY <1>2, <1>3 DEF Lasting

\* Appending a row makes a capability lasting exactly if the row is.
LEMMA LastingUnderAppend ==
  ASSUME TypeInv, NEW a \in Agents, NEW k \in Caps, NEW row,
         grants'[a][k] = Append(grants[a][k], row)
  PROVE  Lasting(a, k)' <=> Lasting(a, k) \/ LastingRow(row)
  <1>1. grants[a][k] \in Seq(Row) /\ Len(grants[a][k]) \in Nat
    BY LenProperties DEF TypeInv, TypeOK
  <1> DEFINE s == grants[a][k]
             n == Len(s) + 1
  <1>2. /\ DOMAIN s = 1 .. Len(s) /\ DOMAIN grants'[a][k] = 1 .. n
        /\ grants'[a][k][n] = row
        /\ \A i \in 1 .. Len(s) : grants'[a][k][i] = s[i]
    BY <1>1
  <1>3. Lasting(a, k)' <=> \E i \in 1 .. n : LastingRow(grants'[a][k][i])
    BY <1>2 DEF Lasting
  <1>4. Lasting(a, k) <=> \E i \in 1 .. Len(s) : LastingRow(s[i])
    BY <1>2 DEF Lasting
  <1>5. \A i : i \in 1 .. n <=> i \in 1 .. Len(s) \/ i = n
    BY <1>1
  <1> HIDE DEF s, n
  <1>6. QED
    BY <1>2, <1>3, <1>4, <1>5, Zenon

\* The calls that wait in front of an INSERT or a DELETE of (a, k), when call c moves.
LEMMA WaitingCalls ==
  ASSUME TypeInv, PlainCalls, NEW c \in Calls, Request(c) \/ Step(c) \/ Die(c),
         NEW a \in Agents, NEW k \in Caps
  PROVE  /\ FindActive(c) \/ Overtaken(a, k)' \subseteq Overtaken(a, k)
         /\ Overtaken(a, k)' \subseteq Overtaken(a, k) \cup {c}
         /\ c \in Overtaken(a, k)' /\ FindActive(c)
              => call[c].agent = a /\ Head(call[c].todo).cap = k /\ ~HasActive(a, k)
         /\ c \notin Inserting(a, k) => (Replacing(a, k) => Replacing(a, k)')
         /\ call[c].op = "request" => (Replacing(a, k) => Replacing(a, k)')
  <1>1. /\ \A d \in Calls \ {c} : call'[d] = call[d]
        /\ call'[c].pc = "delete" /\ call'[c].op = "request"
             => FindActive(c) /\ call'[c].agent = call[c].agent /\ call'[c].todo = call[c].todo
    BY CallPlaces
  <1>2. \A d \in Calls \ {c} : /\ d \in Overtaken(a, k)' <=> d \in Overtaken(a, k)
                               /\ d \in Inserting(a, k)' <=> d \in Inserting(a, k)
    BY <1>1 DEF Overtaken, Inserting, At
  <1>3. Overtaken(a, k)' \subseteq Calls
    BY DEF Overtaken
  <1>4. c \in Overtaken(a, k)' =>
          FindActive(c) /\ call[c].agent = a /\ Head(call[c].todo).cap = k
    BY <1>1 DEF Overtaken, At
  <1>5. c \in Overtaken(a, k)' /\ FindActive(c) => ~HasActive(a, k)
    <2> SUFFICES ASSUME c \in Overtaken(a, k)', FindActive(c), HasActive(a, k) PROVE FALSE
      OBVIOUS
    <2>1. call'[c].pc = "delete"
      BY DEF Overtaken, At
    <2>2. call[c].pc = "find" /\ call[c] \in CallState /\ call \in [Calls -> CallState]
          /\ Idle.pc = "idle"
      BY IdleType DEF FindActive, At, TypeInv, TypeOK
    <2>3. Finish(c) \/ call' = [call EXCEPT ![c].todo = Tail(@)]
      BY <1>4 DEF FindActive
    <2>4. QED
      BY <2>1, <2>2, <2>3 DEF Finish, CallState
  <1>6. Replacing(a, k) /\ (c \notin Inserting(a, k) \/ call[c].op = "request")
          => Replacing(a, k)'
    <2> SUFFICES ASSUME Replacing(a, k), c \notin Inserting(a, k) \/ call[c].op = "request"
                 PROVE  Replacing(a, k)'
      OBVIOUS
    <2>1. PICK d \in Inserting(a, k) : call[d].op # "request"
      BY DEF Replacing
    <2>2. d \in Calls \ {c}
      BY <2>1 DEF Inserting
    <2>3. d \in Inserting(a, k)' /\ call'[d].op # "request"
      BY <1>1, <1>2, <2>1, <2>2
    <2>4. QED
      BY <2>3 DEF Replacing
  <1>7. QED
    BY <1>2, <1>3, <1>4, <1>5, <1>6

LEMMA LastingIsActive ==
  ASSUME NEW a \in Agents, NEW k \in Caps, Lasting(a, k)
  PROVE  HasActive(a, k)
  BY DEF Lasting, LastingRow, HasActive, Usable

\* A step that ends no INSERT keeps what is owed.
LEMMA QuietKeeps ==
  ASSUME TypeInv, PlainCalls, NEW c \in Calls, Request(c) \/ Step(c) \/ Die(c),
         ~Inserts(c), NEW a \in Agents, NEW k \in Caps, Kept(a, k)
  PROVE  Kept(a, k)'
  <1>t. grants \in [Agents -> [Caps -> Seq(Row)]] /\ call[c].agent \in Agents
    BY DEF TypeInv, TypeOK, CallState
  <1>1. CASE UpsertDelete(c)
    <2> DEFINE b == call[c].agent
               m == Head(call[c].todo).cap
    <2>0. call[c].pc = "delete" /\ grants' = [grants EXCEPT ![b][m] = << >>]
      BY <1>1 DEF UpsertDelete, At
    <2>n. c \notin Inserting(a, k) /\ ~FindActive(c)
      BY <2>0 DEF Inserting, At, FindActive
    <2>1. CASE b = a /\ m = k
      <3>1. ~Lasting(a, k)'
        <4>1. grants'[a][k] = << >>
          BY <1>t, <2>0, <2>1
        <4>2. DOMAIN << >> = {}
          OBVIOUS
        <4>3. QED
          BY <4>1, <4>2 DEF Lasting
      <3>2. CASE call[c].op = "request"
        <4>1. c \in Overtaken(a, k)
          BY <2>0, <2>1, <3>2 DEF Overtaken, At
        <4>2. Replacing(a, k)'
          BY <2>n, <4>1, WaitingCalls DEF Kept
        <4>3. QED
          BY <3>1, <4>2 DEF Kept
      <3>3. CASE call[c].op # "request"
        <4>1. c \in Inserting(a, k)' /\ call'[c].op # "request"
          BY <1>1, <2>1, <3>3, CallPlaces DEF Inserting, At
        <4>2. QED
          BY <3>1, <4>1 DEF Kept, Replacing
      <3>4. QED
        BY <3>2, <3>3
    <2>2. CASE ~(b = a /\ m = k)
      <3>1. grants'[a][k] = grants[a][k]
        <4> HIDE DEF b, m
        <4>1. QED
          BY <1>t, <2>0, <2>2
      <3>2. Lasting(a, k)' <=> Lasting(a, k)
        BY <3>1 DEF Lasting
      <3>3. QED
        BY <2>n, <3>2, WaitingCalls DEF Kept
    <2>3. QED
      BY <2>1, <2>2
  <1>2. CASE RevokeByTask(c)
    <2>1. c \notin Inserting(a, k) /\ ~FindActive(c)
      BY <1>2 DEF RevokeByTask, Inserting, At, FindActive
    <2>2. QED
      BY <1>2, <2>1, WaitingCalls, LastingUnderRevoke DEF Kept
  <1>3. CASE UNCHANGED grants
    <2>1. Lasting(a, k)' <=> Lasting(a, k)
      BY <1>3 DEF Lasting
    <2>2. CASE c \in Inserting(a, k)
      <3>1. call'[c].pc = "insert"
        BY <2>2 DEF Inserting, Inserts
      <3>2. UpsertDelete(c)
        BY <3>1, StepFrame
      <3>3. QED
        BY <2>2, <3>2 DEF UpsertDelete, Inserting, At
    <2>3. CASE c \notin Inserting(a, k) /\ FindActive(c)
      <3>1. Lasting(a, k) => Overtaken(a, k)' = {}
        BY <2>3, WaitingCalls, LastingIsActive DEF Kept
      <3>2. QED
        BY <2>1, <2>3, <3>1, WaitingCalls DEF Kept
    <2>4. CASE c \notin Inserting(a, k) /\ ~FindActive(c)
      BY <2>1, <2>4, WaitingCalls DEF Kept
    <2>5. QED
      BY <2>2, <2>3, <2>4
  <1>4. ~UpsertInsert(c) \/ Inserts(c) \/ UpsertDelete(c)
    BY StepFrame DEF UpsertInsert, Inserts
  <1>5. QED
    BY <1>1, <1>2, <1>3, <1>4
       DEF Request, Step, Die, grantCapability, requestCapability, createTask, completeTask,
           FindActive, TaskCreate, SetCompleted

\* The row of grantCapability is a lasting one, that of requestCapability is not.
LEMMA NewRowLasting ==
  ASSUME PlainCalls, NEW c \in Calls, call[c].pc = "insert"
  PROVE  /\ call[c].op = "grant" => LastingRow(NewRow(c))
         /\ call[c].op = "request" => ~LastingRow(NewRow(c))
  BY DEF PlainCalls, NewRow, LastingRow

\* A step that ends an INSERT keeps what is owed after it.
LEMMA InsertKeeps ==
  ASSUME TypeInv, PlainCalls, OwedInv, NEW c \in Calls, Request(c) \/ Step(c) \/ Die(c),
         Inserts(c), owed' = OwedAfter(c, call[c].agent, Head(call[c].todo).cap)
  PROVE  OwedInv'
  <1> DEFINE b == call[c].agent
             m == Head(call[c].todo).cap
  <1>t. /\ grants \in [Agents -> [Caps -> Seq(Row)]]
        /\ call[c].pc = "insert" /\ b \in Agents /\ m \in Caps
        /\ ~FindActive(c)
    BY LoopType DEF TypeInv, TypeOK, CallState, Inserts, At, CapabilitySpec, FindActive
  <1>1. UNCHANGED grants \/ (UpsertInsert(c) /\ grants' = [grants EXCEPT ![b][m] = Append(@, NewRow(c))])
    BY <1>t DEF Request, Step, Die, grantCapability, requestCapability, createTask, completeTask,
                Begin, At, FindActive, TaskCreate, UpsertDelete, UpsertInsert, RevokeByTask,
                SetCompleted
  <1>2. /\ owed' = owed \/ owed' = owed \cup {<<b, m>>} \/ owed' = owed \ {<<b, m>>}
        /\ <<b, m>> \in owed' =>
             /\ grants' # grants
             /\ \/ call[c].op = "request" /\ <<b, m>> \in owed
                \/ call[c].op = "grant" /\ Overtaken(b, m) = {}
    <2> DEFINE p == <<b, m>>
    <2>1. owed' = CASE grants' # grants /\ call[c].op = "request" -> owed
                    [] grants' # grants /\ call[c].op = "grant" /\ Overtaken(b, m) = {}
                         -> owed \cup {p}
                    [] OTHER -> owed \ {p}
      BY DEF OwedAfter
    <2> HIDE DEF b, m, p
    <2>2. CASE grants' # grants /\ call[c].op = "request"
      BY <2>1, <2>2 DEF p
    <2>3. CASE grants' # grants /\ call[c].op = "grant" /\ Overtaken(b, m) = {}
      BY <2>1, <2>3 DEF p
    <2>4. CASE /\ ~(grants' # grants /\ call[c].op = "request")
               /\ ~(grants' # grants /\ call[c].op = "grant" /\ Overtaken(b, m) = {})
      BY <2>1, <2>4 DEF p
    <2>5. QED
      BY <2>2, <2>3, <2>4
  <1> HIDE DEF b, m
  <1>3. owed' \subseteq Agents \X Caps
    BY <1>t, <1>2 DEF OwedInv
  <1>4. ASSUME NEW a \in Agents, NEW k \in Caps, <<a, k>> \in owed'
        PROVE  Kept(a, k)'
    <2>1. CASE ~(a = b /\ k = m)
      <3>1. <<a, k>> \in owed
        BY <1>2, <1>4, <2>1
      <3>2. grants'[a][k] = grants[a][k]
        BY <1>t, <1>1, <2>1
      <3>3. Lasting(a, k)' <=> Lasting(a, k)
        BY <3>2 DEF Lasting
      <3>4. c \notin Inserting(a, k)
        BY <2>1 DEF Inserting, b, m
      <3>5. QED
        BY <1>t, <3>1, <3>3, <3>4, WaitingCalls DEF Kept, OwedInv
    <2>2. CASE a = b /\ k = m
      <3>1. grants' = [grants EXCEPT ![b][m] = Append(@, NewRow(c))]
        BY <1>1, <1>2, <1>4, <2>2
      <3>2. grants'[a][k] = Append(grants[a][k], NewRow(c))
        BY <1>t, <2>2, <3>1
      <3>3. Lasting(a, k)' <=> Lasting(a, k) \/ LastingRow(NewRow(c))
        BY <3>2, LastingUnderAppend
      <3>4. Overtaken(a, k)' \subseteq Overtaken(a, k)
        BY <1>t, WaitingCalls
      <3>5. CASE call[c].op = "request" /\ <<b, m>> \in owed
        <4>1. Kept(a, k)
          BY <2>2, <3>5 DEF OwedInv
        <4>2. Replacing(a, k) => Replacing(a, k)'
          BY <3>5, WaitingCalls
        <4>3. QED
          BY <1>t, <3>3, <3>4, <3>5, <4>1, <4>2, NewRowLasting DEF Kept
      <3>6. CASE call[c].op = "grant" /\ Overtaken(b, m) = {}
        BY <1>t, <2>2, <3>3, <3>4, <3>6, NewRowLasting DEF Kept
      <3>7. QED
        BY <1>2, <1>4, <2>2, <3>5, <3>6
    <2>3. QED
      BY <2>1, <2>2
  <1>5. QED
    BY <1>3, <1>4 DEF OwedInv

LEMMA InitOwed == LossInit => PlainCalls /\ OwedInv
  <1> SUFFICES ASSUME LossInit PROVE PlainCalls /\ OwedInv
    OBVIOUS
  <1>1. PlainCalls
    BY DEF LossInit, Init, PlainCalls, Idle
  <1>2. owed \subseteq Agents \X Caps
    BY TableAssumption DEF LossInit
  <1>3. ASSUME NEW a \in Agents, NEW k \in Caps, <<a, k>> \in owed PROVE Kept(a, k)
    <2>1. grants[a][k] = <<StandingRow>>
      BY <1>3 DEF LossInit, Init
    <2>2. Lasting(a, k)
      <3>1. 1 \in DOMAIN grants[a][k] /\ grants[a][k][1] = StandingRow
        BY <2>1
      <3>2. QED
        BY <3>1 DEF Lasting, LastingRow, StandingRow
    <2>3. Overtaken(a, k) = {}
      BY DEF LossInit, Init, Overtaken, At, Idle
    <2>4. QED
      BY <2>2, <2>3 DEF Kept
  <1>4. QED
    BY <1>1, <1>2, <1>3 DEF OwedInv

LEMMA NextOwed ==
  TypeInv /\ PlainCalls /\ OwedInv /\ [LossNext]_lossVars => PlainCalls' /\ OwedInv'
  <1> SUFFICES ASSUME TypeInv, PlainCalls, OwedInv, [LossNext]_lossVars
               PROVE  PlainCalls' /\ OwedInv'
    OBVIOUS
  <1>1. ASSUME NEW c \in Calls, Request(c) \/ Step(c) \/ Die(c), LossNext
        PROVE  PlainCalls' /\ OwedInv'
    <2>1. PlainCalls' /\ \A d \in Calls \ {c} : call'[d] = call[d]
      BY <1>1, CallPlaces
    <2>2. CASE Inserts(c)
      <3>1. owed' = OwedAfter(c, call[c].agent, Head(call[c].todo).cap)
        BY <1>1, <2>2 DEF LossNext
      <3>2. QED
        BY <1>1, <2>1, <2>2, <3>1, InsertKeeps
    <2>3. CASE ~Inserts(c)
      <3>1. \A d \in Calls : ~Inserts(d)
        BY <2>1, <2>3 DEF Inserts, At
      <3>2. owed' = owed
        BY <1>1, <3>1 DEF LossNext
      <3>3. QED
        BY <1>1, <2>1, <2>3, <3>2, QuietKeeps DEF OwedInv
    <2>4. QED
      BY <2>2, <2>3
  <1>2. CASE UNCHANGED <<call, grants, owed>>
    BY <1>2 DEF PlainCalls, OwedInv, Kept, Lasting, Replacing, Inserting, Overtaken, At
  <1>3. CASE Tick /\ LossNext
    <2>1. UNCHANGED <<call, grants>>
      BY <1>3 DEF Tick
    <2>2. \A d \in Calls : ~Inserts(d)
      BY <2>1 DEF Inserts, At
    <2>3. QED
      BY <1>2, <1>3, <2>1, <2>2 DEF LossNext
  <1>4. QED
    BY <1>1, <1>2, <1>3 DEF LossNext, Next, lossVars

\* upsert and requestCapability: for any number of concurrent calls, whichever of
\* them fail or die, an agent loses a capability an operator gave it only to an
\* upsert that failed between its statements, to a request that looked before the
\* capability was given, or to a task that took it over.
THEOREM LossesAreExplained == LossSpec => []LossesHaveCauses
  <1>1. LossSpec => []TypeInv
    <2>1. Spec => []TypeInv
      BY InitType, NextType, PTL DEF Spec
    <2>2. QED
      BY <2>1, LossesAreGrants, PTL
  <1>2. LossSpec => [](PlainCalls /\ OwedInv)
    BY <1>1, InitOwed, NextOwed, PTL DEF LossSpec
  <1>3. OwedInv => LossesHaveCauses
    <2> SUFFICES ASSUME OwedInv, NEW p \in owed
                 PROVE  HasActive(p[1], p[2]) \/ Inserting(p[1], p[2]) # {}
      BY DEF LossesHaveCauses
    <2>1. PICK a \in Agents, k \in Caps : p = <<a, k>>
      BY DEF OwedInv
    <2>2. Lasting(a, k) \/ Replacing(a, k)
      BY <2>1 DEF OwedInv, Kept
    <2>3. HasActive(a, k) \/ Inserting(a, k) # {}
      BY <2>2, LastingIsActive DEF Replacing
    <2>4. QED
      BY <2>1, <2>3
  <1>4. QED
    BY <1>2, <1>3, PTL
=============================================================================
