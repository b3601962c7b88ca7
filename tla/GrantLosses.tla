----------------------------- MODULE GrantLosses ----------------------------
(***************************************************************************)
(* Grants with two history variables.  One is for the question when an     *)
(* agent loses a capability an operator gave it: upsert deletes before it  *)
(* inserts and requestCapability deletes on the strength of an earlier     *)
(* findActive, so a loss is possible; owed follows what could explain one. *)
(* The other is for the question when a completed task leaves an active    *)
(* grant behind: early follows which completions overtook the creation.    *)
(***************************************************************************)
EXTENDS Grants

VARIABLES
  owed,  \* history: <<a, k>> that grantCapability wrote and nothing below befell since
  early  \* history: tasks whose last revokeByTask ran while createTask was at work

lossVars == <<grants, task, call, now, owed, early>>

LossInit == Init /\ owed = Standing /\ early = {}

\* The requests of (a, k) that found no active grant and have not deleted yet.
Overtaken(a, k) ==
  {c \in Calls : /\ At(c, "delete") /\ call[c].op = "request"
                 /\ call[c].agent = a /\ Head(call[c].todo).cap = k}

\* The INSERT of an upsert is over, committed or not.
Inserts(c) == At(c, "insert") /\ call'[c].pc # "insert"

\* What is owed after c ended its INSERT of (a, k): the grant of an operator is,
\* unless a request that has not seen it is about to delete it.  A request
\* inserts beside what is owed.  A task takes the capability over, to end with
\* it, and an INSERT that failed has left the DELETE behind.
OwedAfter(c, a, k) ==
  LET committed == grants' # grants IN
    CASE committed /\ call[c].op = "request" -> owed
      [] committed /\ call[c].op = "grant" /\ Overtaken(a, k) = {} -> owed \cup {<<a, k>>}
      [] OTHER -> owed \ {<<a, k>>}

\* createTask has written the row of t and is not done with its grants.
Creating(t) == \E c \in Calls : call[c].op = "createTask" /\ call[c].task = t

\* The tasks whose grants this step denies.
Denying == {call[c].task : c \in {d \in Calls : At(d, "revoke") /\ call'[d].pc = "setStatus"}}

LossNext ==
  /\ Next
  /\ \A c \in Calls : Inserts(c) => owed' = OwedAfter(c, call[c].agent, Head(call[c].todo).cap)
  /\ (\A c \in Calls : ~Inserts(c)) => owed' = owed
  /\ early' = (early \ Denying) \cup {t \in Denying : Creating(t)}

LossSpec == LossInit /\ [][LossNext]_lossVars

-----------------------------------------------------------------------------
(* Properties *)

\* upsert and requestCapability: a capability that an operator gave is usable,
\* or is being replaced at this moment, unless an upsert of it failed between
\* its two statements, a request deleted it that had looked before it was
\* given, or a task took it over.  Nothing else takes a capability away.
LossesHaveCauses ==
  \A p \in owed : HasActive(p[1], p[2]) \/ Inserting(p[1], p[2]) # {}

\* completeTask: a completed task leaves an active grant behind only when the
\* last revokeByTask of the task ran while createTask was still inserting its
\* grants; completing the task once more then revokes them.
CompletedTaskLeavesNothing ==
  \A a \in Agents, k \in Caps : \A i \in DOMAIN grants[a][k] :
    LET row == grants[a][k][i] IN
      row.task # NoTask /\ row.status = "active" /\ task[row.task].status = "completed"
        => row.task \in early

\* identityService.ts: "Zero standing access: deny every grant the task activated,
\* then mark it completed".
ZeroStandingAccess ==
  \A a \in Agents, k \in Caps : \A i \in DOMAIN grants[a][k] :
    LET row == grants[a][k][i] IN
      row.task # NoTask /\ row.status = "active" => task[row.task].status # "completed"
=============================================================================
