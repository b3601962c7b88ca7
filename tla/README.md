# Agent Conduit in TLA+

Agent Conduit is a gateway between autonomous agents and the platforms they act on. A *host* (a
machine or a CI runner with a key pair) registers *agents*; an agent signs a short-lived JWT for every
request, passes a pipeline of checks and then executes *capabilities* it was granted, through
*connections* whose credentials never leave the gateway. State lives in PostgreSQL; one or several
Node.js gateway processes work on it.

This directory holds TLA+ modules for the parts of the gateway that decide who may do what, the TLC
configurations that check them on small instances, and proofs checked by TLAPS. Paths below are relative
to the repository root; `identity/`, `auth/`, `routes/`, `connections/`, `router/`, `policy/` and
`server/` are directories of `apps/server/src`, and the repositories are those of
`packages/storage/src/drivers/postgres`.

## 1. Inventory

| Component | State | Operations | Hard because | Must hold |
|---|---|---|---|---|
| Status tables and state machine (`identity/stateMachine.ts`) | `status` of hosts and agents | `transitionAgent`, `transitionHost` | SELECT and UPDATE of a transaction without a row lock | every change is an edge of the table; terminal is terminal |
| Agent and host lifecycle (`identity/identityService.ts`) | the three lifetime clocks, the key | register, revoke, reactivate, rotate key, revoke host | several commits per call, a cascade, crashes | the cascade reaches all agents; clocks are set and the absolute one stays |
| Grants and tasks (`identityService.ts`, `capabilityGrantRepository.ts`) | `capability_grants`, `tasks` | grant, request, create and complete task | upsert is two transactions; loops of upserts | task grants end with their task; a completed task leaves nothing, unless it was still being created |
| JWT pipeline (`auth/`) | `jti_cache`, the `AuthContext` of each request | five stages | decisions on rows read several awaits earlier | revoked is refused; no replay; lifetimes enforced |
| Constraint engine (`identity/constraintEngine.ts`) | none | validate, intersect | numeric and set corner cases | intersect admits exactly what both operands admit |
| Connections and proxy (`connections/`) | connections, connector grants, rate buckets, audit log | register, update, delete, test, attach, detach, execute | three reads before one external call; audit after it | no call without authority; every answer audited; limits hold |
| Projects (`identityService.ts`) | projects, `project_id` columns | create, delete, reassign | check and delete are separate; capped listings | deletion frees no credential |
| Token router (`router/`) | schema cache (memory), tools table | getToolSchema, register, flush | cache fill races re-registration | no schema without a grant; staleness only from overlap |
| Policy (`policy/`) | rules in runtime settings | evaluate, edit | first match, defaults, dropped conditions | a request a rule names is decided by it or an earlier one |
| Rate limiter, IP filter (`server/`) | buckets (memory) | check | windows, live limits and lazy sweep | no more than a limit per window |
| Runtime settings (`server/runtimeSettings.ts`) | one record (memory) | get, update | partial, untrusted patches | always valid; changes accounted for; can be undone |
| Process (`index.ts`, `server/gatewayApp.ts`) | server, pool | boot, serve, shut down | open streams, signals, late handlers | storage outlives clients; a drain ends |
| Security events | listeners (memory) | publish, subscribe | subscribers that throw | every subscriber hears every event |
| HTTP surface (`routes/`) | none | some fifty routes | which token and which fields each needs | every client call is one a route accepts |
| SDK, command line, dashboard | tokens, forms, the browser's cache | commands, methods, saves | one token for two calls, two tabs, lost answers | every call fits its route; replays only where a token is used twice; no half-done change but one |
| `conduit run` (`packages/cli`) | one agent, a local proxy, a child | start, signals, exit | cleanup runs once, best effort | an agent or a command is left behind only for a known cause |
| Manifest driver (`packages/connectors`) | 44 manifests | validate, test, execute | templates, derived fields, overrides | a form asks for what its platform needs; green means usable, with known exceptions |
| Listings (`postgres/`) | the tables | pages by keyset cursor | milliseconds against microseconds, late commits | no row twice; none skipped but within a millisecond |
| JWKS resolver (`auth/jwksResolver.ts`) | key cache (memory) | resolve | TTL against rotation | unused: no principal has a `jwks_url` |

The components meet in the database. A route authenticates through a pipeline, calls one service
function, and the service function performs a sequence of statements, each awaited. Node runs other
handlers at each `await`, and other gateway processes run all the time, so the only atomic units are
single statements and what PostgreSQL's READ COMMITTED makes of the two transactions in
`stateMachine.ts`. This is why every module below is a set of handler activations with a program
counter, one step per statement.

The hazards that follow from this are listed, each at its line, in `PROJECT.json`; the properties of
section 4 were chosen for them.

## 2. Modules

| Module | What it is |
|---|---|
| `TransitionTables` | `AGENT_TRANSITIONS`, `HOST_TRANSITIONS` and their predicates |
| `AapLifecycle` | abstract specification: statuses change atomically, along the tables |
| `Lifecycle` | the lifecycle calls over the hosts and agents tables |
| `Grants` | the grant and task calls over `capability_grants` and `tasks` |
| `GrantLosses` | `Grants` with two history variables: what may explain the loss of a capability, and which completions overtook the creation of their task (EXTENDS it) |
| `JwtPipeline` | stages 1 to 4 for agent requests, composed with `Lifecycle` (it EXTENDS it, and a step is a step of either) |
| `FixedWindow` | the bucket arithmetic that the limiters and the proxy share |
| `Connections` | stored connections, connector grants, projects and `POST /capability/execute` |
| `Gateway` | the process: boot, middleware, runtime settings, event stream, shutdown |
| `TokenRouter` | `GET /tools/:name`, the schema cache, tool registration and flush |
| `HttpApi` | the route table: order, token and required fields of every route, and what filter, pipeline and handler may answer |
| `ClientCalls` | the calls of every SDK method, command and dashboard form, as sequences |
| `Clients` | client programs running against `HttpApi`, with replay, refusals, throttling, loss, two tabs and restarts of the gateway (EXTENDS both) |
| `CliRun` | `conduit run` |
| `ConstraintEngine`, `PolicyEngine` | `validate`, `intersect`, stage 5; `sanitizeRules`, `evaluate` and the edits of the Policy view |
| `Listing` | keyset pages read while rows come and go |
| `Manifests`, `Connectors` | the bundled manifests as data; the manifest driver and the credential of one connection |
| `MC...` | finite sets, inputs and symmetry for TLC. `MCParts` puts six components side by side that share no variable; a behaviour exercises one of them (`focus`) |
| `LifecycleProofs`, `GrantsProofs`, `JwtPipelineProofs`, `TokenRouterProofs`, `ConnectionsProofs`, `GatewayProofs` | theorems about the module of that name |
| `ClientsProofs` | theorems about `Clients` and `CliRun` |
| `AlgorithmsProofs` | theorems about `ConstraintEngine`, `PolicyEngine`, `Listing` and `Connectors` |

Definitions called `<Name><Change>` next to `<Name>`, such as `NewRowUnlimited`, are the mutated forms
used to test that a property can fail.

### Lifecycle

`hostStatus`, `agent` are the two tables; `call[c]` is a handler activation: where it waits (`pc`), its
operation and what it holds in local variables (the agent, the absolute clock `reactivateAgent` read, the
time `at` from which the new clocks are computed, the agents the cascade has left).

| Action | Code |
|---|---|
| `Admit` | `requireJwt(hostPipeline)` and the route; the host was active when the pipeline read it |
| `RegisterLoad`, `RegisterCreate` | `registerAgent`: host check, INSERT as pending |
| `RevokeLoad`, `ReactivateLoad`, `RotateKeyLoad` | the reads and early returns of these functions |
| `RotateKeyWrite` | `updatePublicKey` |
| `RevokeHostLoad`, `HostSelect`, `HostUpdate` | `revokeHost` up to the commit of `transitionHost` |
| `ListAgents`, `NextTarget` | `listByHost` and the loop of the cascade, in creation order |
| `TxSelect`, `TxUpdate` | `transitionAgent`: SELECT with the table check; UPDATE with COMMIT |
| `ReadClock` | `Date.now()` and the clocks computed from it, before `applyLifetimes` is awaited |
| `Stamp` | the UPDATE of `applyLifetimes`, with the clocks computed then; time may have passed |
| `Die` | a statement fails or the process dies; an open transaction rolls back |
| `Tick` | time |

UPDATE and COMMIT are one action because the row is locked and its new value invisible in between.
A call that finds nothing to do or throws ends with `Finish`: the error handler answers and nothing is
retried. Hosts start active because `bootstrapHost.ts` creates them so; nothing in the gateway creates a
pending host. Agent ids are numbers in creation order because the cascade visits agents in that order.
Null clocks are 0 and times are positive.

### Grants

`grants[a][k]` is the sequence of rows of an agent and a capability in creation order: a sequence and not
a value because nothing in the table or in `upsert` keeps it to one. A request is read up to its first
write by the action named after the service function; an agent's owner and project do not change in this
module. `UpsertDelete` and `UpsertInsert` are the two statements of `upsert`; the INSERT fails on a
connection id that has no row (a foreign key of the migration). A task may be completed as soon as its row
exists, while `createTask` is still inserting its grants: `GET /tasks` shows the id.

`GrantLosses` adds `early`, the tasks whose grants were denied last while `createTask` was at work, and
`owed`, which no guard reads: the capabilities that `grantCapability` wrote and that no upsert failing after
its DELETE, no request that had looked before they were given and no task has met since. Each of the three is
needed: `LossesHaveCauses` fails if `owed` ignores any one of them.

### JwtPipeline

A request passes `TypCheck`, `VerifySignature` (it reads the agent row and keeps it), `ResolveHost` (it
reads the host row and keeps its status), `ValidateClaims`, `PutJti` (one atomic statement) and
`CheckState`, which judges the rows kept. `late` records what was revoked when the request arrived, `out` the
clocks of its agent that had run out then, and `used` the tokens that were let through; all three are history
and no guard reads them. The signature is
modelled by what it decides: the token's key is the key of the row. Claims compare whole seconds and the
cache and the clocks compare ticks; `TicksPerSecond` > 1 makes the two differ as milliseconds do.

### Connections

`exec[r]` is an execution; it reads the connection (`FindConn`: project and operation list), the agent's
connector grants (`ListWires`: wiring, its operation list, the rate bucket), the credential
(`GetCredential`), calls the platform (`PlatformAnswer`) and appends the audit entry (`AuditExecute`; a
refusal is recorded by `AuditDenied` from the route's catch). `call[k]` is an operator's request: the
registry functions and the three project functions, each up to its reads and then its write. `touched`,
`raced` and `cut` are history: a write came between an execution's reads and its call, somebody joined a
project while it was being deleted, the listing of members was shorter than the membership.

### Gateway

A request crosses the middleware in one step (`Arrive`: filter, limiter, registration limiter), awaits the
pipeline (`Pipeline`) and its handler (`Work`; for `PATCH /admin/config`, `update` and then `Audit`). An
answer that is a security event is published to the streams (`Hears`). `Signal` starts the drain,
`CloseStorage` is the callback of `server.close`, `ProcessExit` the end of the pool. An entry of an IP list
is the set of addresses it covers; the CIDR arithmetic is not modelled.

### TokenRouter

A schema is the number of the registration it was made from. `FindActive` reads the grant, `CacheGet` (at
once, no await) the cache, `FindByName` the table; `Fill` stores into the cache, `CacheSchema` into the
table, `AuditSchema` the audit row (it may fail, or commit and lose its answer), and `Serve`, after that await,
counts the call and answers. `Fill` also stands for a missing adapter and for one that throws. `Restart` is
the end of the process and a new one: cache and metrics are gone, the tables stay. `Upsert` and `Registered`
are the two halves of `POST /tools`: the statement, and the invalidation after its answer. `late`, `floor`,
`entitled` and `settled` are history.

### Clients and CliRun

A program is a sequence of calls with method, path, token, fields, and what a failure does. `Forwarded` is
the dashboard's own server, which strips the prefix and passes the rest. A token is the number of its
signature: the same number twice is the same `jti`. `Verdict` is what the gateway answers, in its order: the
filter, the route, the kind of token, what the pipeline finds wrong in the token, the replay check, and then
the live state check and the refusals of the handler (`Refusals` is chosen freely: which rows exist is not
followed here). `settings` keeps which policy rules are in force and whether they lock the operator out. A
Policy tab adds its rule, removes any rule it has loaded, or sends the rules back with another default; what it
sends is its own copy. A security panel sends no policy. `RestartGateway` seeds the settings again. `rules` and
`overwrote` are history.

In `CliRun` a signal, the end of the command, a crash and the answers of the gateway come in any order. The
proxy may fail to bind and `spawn` may throw: nobody handles the first, and the second ends in
`main().catch`, each with the agent already active.

### The algorithms

`ConstraintEngine` has integers, other scalars, absent values, unknown operators and null constraints;
`NarrowsExactly` is the reference definition for one use of `intersect`, and `Narrow` applies it again and
again to what it gave before, as server policy narrows what was narrowed already. In the gateway nothing calls
`intersect` (only its tests do); `validate` is what stage 5 uses. `PolicyEngine` evaluates rules as the
operator wrote them against the rules as stored; `Array.filter` is the entries at the positions that are kept.
`Listing` orders by rank, the number of rows that are not older, truncates the cursor to milliseconds as a
JavaScript `Date` does, and lets a row become visible after a younger one. `Manifests` has all 44 manifests:
for each the fields of its base URL, headers, query and operations, and whether it has a probe. In
`Connectors` a base URL is one of a few texts: missing (a blank override, or a template that cannot be filled:
`runOperation` throws), odd (`new URL` throws: no scheme, or nothing left once the slashes are stripped) and a
URL. A text that is a scheme and nothing else is outside these: the first segment of the path then becomes the
host, and the request goes there.

## 3. Bounds

Two concurrent calls are enough for every pairwise race, and the proofs cover any number for the properties
that are proved. Two or three agents give the cascade a first, a middle and a last target. Lifetimes of 1, 2
and 3 ticks with a clock of 3 let each clock run out, an agent be reactivated before and after, and time pass
between the reading of the clock and the stamp. Task lists are empty, name a capability once, or name it
twice: an empty loop, a loop, and a loop with a gap another call can use. In `MCGrantsSafety` requests and
tasks name the first of two capabilities and operators grant both, so the second shows what nothing disturbs.
`Skew` 1 and `TicksPerSecond` 2 end the window of the short token at tick 2, and at tick 3 it is still
accepted (whole seconds), so the clock of 3 reaches past its window. `MaxTime` bounds the clock and `Agents`
and `Tasks` the rows that can be created; these modules have no other bounded counter. Calls and requests are
interchangeable, so are hosts and tasks, and the safety runs use that symmetry; runs with a liveness property
use none. Deadlock is not checked: with every row revoked or used and the clock at its bound, a bounded
instance has nothing left to do, and a gateway that receives no request may stay idle for ever.

`Connections`: one agent, two connections that are there or not at the start, one project and two operations,
with one execution and two operator calls in flight, which write twice (`MaxWrites`): an execution meets writes
at its awaits, and a connection is put into the project between the listing of `deleteProject` and its DELETE.
Two executions in a row and a clock of 2 ticks with windows of 1 cross a window; `PageSize` 1 lets two members
exceed a listing. `Gateway`: three requests of one address, windows of 2 ticks and a clock of 3 give a full
window, a second one and a sweep; patches include a filter on the operator's own address, limits that are too
small, and fields of a wrong type. `TokenRouter`: two requests of two agents against two registrations, and
restarts at any time. `MCParts`: of two client programs one runs any program, the other one that edits the
settings, so two tabs edit at once; two argument names and values around each bound, narrowed up to three times
(`MaxLayers`); lists of up to three rules; three rows in two milliseconds of two microseconds; two overlapping
tests and a rotation. A row that is used, a request that is answered and a clock at its bound leave a bounded
instance without a step, so these runs do not check deadlock; what must go on is stated as liveness instead.
Every run ends within about two minutes on two cores.

## 4. What the runs check

Passing runs:

| Run | Properties | Shows |
|---|---|---|
| `MCJwtPipelineCascade` | `CascadeReachesAll`, `RevocationCascades` | with only host revocations and key rotations at the same time, and requests running, the cascade reaches every agent, and does so eventually |
| `MCGrantsSafety` | `LossesHaveCauses`, `TaskGrantTimeBoxed`, `CompletedTaskLeavesNothing`, `DuplicatesNeedRaces` | task grants expire with their task; a completed task has an active grant only when it was completed while it was being created; duplicates only from races; a capability an operator gave is lost only to an upsert that failed half-way, an overtaken request or a task |
| `MCJwtPipelineRevocation` | `PipelineTypeOK`, `RevokedIsRefused`, `RevokedIsFinal`, `ImplementsStateMachine` | without reactivation the unlocked transactions are as good as atomic: revocation is final and the composition implements `AapLifecycle`, crashes included; a request that arrives after a revocation is refused, also in the middle of a cascade |
| `MCJwtPipelineTime` | `ActiveHasClocks`, `AbsoluteNeverExtended`, `NoReplayInWindow`, `LifetimesEnforced` | registrations and reactivations that may die anywhere: only a death between the two commits leaves an active agent without clocks, and no absolute clock moves to another time; two parallel requests: one use per token and window, and a request that arrives after a clock of its agent ran out passes only if the agent got other clocks before its row was read |
| `MCConnectionsSafety` | `AuditMatchesCalls`, `WindowIsCapped`, `CallsAreEntitled`, `OnlyLastDetachWidens`, `DeletionFreesNothing` | at the platform call the agent is entitled by the rows of that moment unless a write overtook the reads; data is answered only with an audit entry; an agent's window is capped; authority grows by a removal only when the last connector goes; a deletion frees a connection only when overtaken or cut |
| `MCGatewaySafety` | `BurstIsBounded`, `SubscribersHearAll`, `PatchesAreAccounted`, `StorageOutlivesClients`, `DrainCompletes` | windows hold under changing limits; events reach every connected subscriber; a change without audit row is not reported as a success; a drain ends once streams are gone, with no client on a closed pool |
| `MCTokenRouterSafety` | `ServedWereEntitled`, `StaleNeedsOverlap`, `TelemetryMatchesServed` | the shared cache gives nobody a schema without a grant; old schemas survive a registration only through a fill that overlapped it; the metric counts what this process served, and the audit log exceeds it by what earlier processes served and by the requests that got no further than their row |
| `MCPartsSafety` | `Narrowing`, `NamedIsDecided`, `NoRowTwice`, `SkipsShareAMillisecond`, `FormsAreComplete`, `GreenMeansComplete` | the algorithms, over all small inputs and over all bundled manifests; a green light is about the credential in use, and where the platform has no probe it does not speak of the base URL |
| | `RefusalsAreReplays`, `PartialOnlyEdits`, `RulesLostToPolicyTabsOnly`, `LeftoversHaveCauses`, `SessionEnds` | every client call fits a route, and only the two forms that use a token twice meet the replay check; only the edit form leaves half a change; a policy rule goes only by a removal, an older copy or a restart; `conduit run` leaves an agent behind only for a listed cause |

`PipelineTypeOK` contains the type invariant of `Lifecycle`. Those of `Grants`, `TokenRouter`, `Connections`,
`Gateway`, `Clients` and `CliRun` say what their variables range over; they are proved (section 5) and no run
lists them, the other properties of these runs say more.

Runs that find a violation of something a comment or a test of the repository says (quoted in `PROJECT.json`):

| Run | What happens |
|---|---|
| `MCLifecycleLostUpdate` | register and reactivate both leave pending; a revocation between their UPDATEs is overwritten |
| `MCLifecycleReactivation` | the comments and a test say that reactivation revives an expired agent; nothing ever writes `expired`, a lapsed agent is still `active` in the table, and the call is refused |
| `MCClientsAutoTest` | the dashboard tests a new connection with the token it registered it with: refused as a replay, so the operator never learns whether it works |
| `MCClientsLockout` | `/admin/config` is exempt from the filters, the discovery request that every save of the dashboard makes first is not: once the browser's copy (an hour) is gone, the rule that blocks the operator stays |

Three further configurations are kept with the modules, each for one counterexample. They are no part of
the list above; `tlc -config <name>.cfg <module>` shows each in seconds.

| Configuration | Module | Property | What happens |
|---|---|---|---|
| `MCLifecycleCascadeVsRevoke` | `MCLifecycle` | `CascadeReachesAll` | a concurrent `revokeAgent` makes the cascade throw; later agents stay active |
| `MCGrantsEarlyComplete` | `MCGrants` | `ZeroStandingAccess` | completing a task during its creation leaves active grants |
| `MCJwtPipelineReplayTail` | `MCJwtPipeline` | `JtiSingleUse` | for less than a second after lifetime + skew a token is accepted again |

Further interleavings that the modules allow and that no property forbids, because the code permits them:
an agent whose registration overlaps `revokeHost` stays active; a reactivation that overlaps the registration
writes back a null absolute clock (`AbsoluteNeverExtended` allows NoTime for this reason); two concurrent
upserts leave two rows (`DuplicatesNeedRaces` bounds them); a self-service request deletes an approval that
arrived after its `findActive`, and an upsert that dies or names an unknown connection loses the old row
(`LossesHaveCauses` says that these, and tasks, are the only ways to lose one). `conduit run` installs its
handlers "so we never leave a live, unrevoked agent behind" (`packages/cli/src/index.ts:360`); each cause that
`LeftoversHaveCauses` lists leaves one, also without a kill: a proxy that cannot bind, a `spawn` that throws, a
gateway that does not answer, a second ending while the first revocation is on its way. A rotation keeps the
verdict of the last test, which is then about a credential that is gone; `GreenMeansComplete` speaks of verdicts
on the credential in use.

A revoked host stops its agents at the pipeline even where the cascade missed them: `RevokedIsRefused` is
checked with the same interleavings that break `CascadeReachesAll`. `LifetimesEnforced` speaks of requests that
arrive after a clock ran out. A request that reads the row between activation and `applyLifetimes` sees null
clocks and passes: before the stamp there is no clock to enforce.

**Fairness.** Always weak, and only of steps the program takes by itself. `RevocationCascades`: each call's
own steps; Node runs each pending continuation and the pool answers each query, and the run has no faults.
`DrainCompletes`: each request's steps, the callback of `server.close` and the end of the pool; clients are
not fair, an open stream may stay open, and the property says so. `SessionEnds`: the handlers of the child's end
and the revocation under way (it is answered or fails); the command, signals, crashes and the gateway's health
are not fair.

## 5. What is proved

For every value of the constants that the named assumptions allow (any sets of hosts, agents, calls,
requests, tokens, rows; any lifetimes and limits). Each invariant below was first checked by TLC on the
instance of a run.

**Lifecycle** (`LifecycleProofs`)

* `TypeCorrect`: `TypeOK`. Its inductive form adds that a call past `load` holds a real agent or host for as
  long as its program counter needs one.
* `RevocationIsFinal`, `StateMachineImplemented`: `RevokedIsFinal` and the refinement of `AapLifecycle`, when
  `reactivate` is not among the operations (with it TLC has the counterexample of `MCLifecycleLostUpdate`).
  The invariant says what makes a missing lock harmless: a pending agent has exactly one call that may move
  it, the registration that created it, because the table lets nobody else touch `pending`; so the status a
  registration selected is still there when it updates, and every other update is to `revoked` on an agent
  that was active when selected and can only have become revoked.
* `ActiveAgentsHaveClocks`: `ActiveHasClocks`, with all operations and deaths. The invariant says which call
  has the agent's stamp still to write, and that no step but a death takes it away.
* `AbsoluteClockIsFixed`: `AbsoluteNeverExtended`, with all operations and deaths. The copy that
  `reactivateAgent` holds equals the row's absolute clock or is null, because only the registration of the
  agent writes a new one, and it runs first.
* `CascadeIsExhaustive`: `CascadeReachesAll`, if no call dies and the operations are `rotateKey` and
  `revokeHost` (`MCLifecycleCascadeVsRevoke` has the counterexample otherwise). Of several cascades over one
  host one always leads: it stands at the first agent that is left, and when its transaction finds that
  another cascade was faster, that other one leads.
* `LapsedAgentsStayLapsed`: why `MCLifecycleReactivation` fails, for all operations and deaths: an agent whose
  session ran out with no activation under way never gets a new clock, by any sequence of calls. The statement
  is inductive as it stands, because it names the calls that the table has let through already: any later one
  meets `active` or `revoked` in its SELECT, and neither leads to `active`.

**Grants** (`GrantsProofs`)

* `TypeCorrect`, `DuplicatesAreBounded`: rows plus pending inserts of a capability never outnumber the calls.
  The argument counts the calls at `insert`: a DELETE trades all rows for one.
* `CompletionRevokes`: `CompletedTaskLeavesNothing`, with no assumption on when a task id is used. The
  invariant adds that once the grants of a task were denied with no creation at work they stay denied, since
  nobody else inserts for the task, and that a task is marked completed only after that or is in `early`.
* `TaskGrantsExpire`: `TaskGrantTimeBoxed`; what a call is about to insert already has the expiry of its task.
* `LossesAreGrants`: a behaviour with the history variables is one of `Grants`, so the theorems above hold of
  the specification that `MCGrantsSafety` checks.
* `LossesAreExplained`: `LossesHaveCauses`. `HasActive` is too weak to be kept by the steps: `OwedInv` asks
  for a row without task and expiry, or for a call other than a request that is about to insert one, and that
  no request which found nothing stands in front of its DELETE while such a row is there. The last part is
  what `findActive` is for, and what an insert that overtakes the request breaks.

**JWT pipeline** (`JwtPipelineProofs`)

* `PipelineTypeCorrect`, `RevocationIsImmediate`: a request that arrived late is refused. The invariant
  carries what the request read: since revocation is final, a row or a host status read after a revocation
  shows it, and the state check sees it.
* `NoReplay`: `NoReplayInWindow`. A token that was let through is in `jti_cache` until its lifetime and the
  skew are over, whichever of several tokens with that `jti` put it there.
* `LifetimesAreEnforced`: `LifetimesEnforced`, for all lifetimes. What had run out when a request arrived has
  still run out when the request is judged, so a request that read the same clocks is refused; one that read
  others owes it to a stamp that came between.
* `PipelineKeepsLifecycle`: the composition implements `Lifecycle`, since requests write neither table; with it
  `RevocationIsFinalForRequests` and `RequestsFindClocks` state `RevokedIsFinal`, `ImplementsStateMachine` and
  `ActiveHasClocks` of the specification that the two pipeline runs check.

**Token router** (`TokenRouterProofs`)

* `RouterTypeCorrect`, `AccessIsChecked`, `StalenessIsBounded`: the inductive invariant has one part per
  request, per cache entry and per registration: who holds a schema held the grant since it asked; a schema
  read from the table is no older than what was settled at the read, or the request is marked late; an entry
  is no older than what is settled, or was stored by a late fill; and what is settled never exceeds the
  table. The marks are needed because the code has no other bound.
* `TelemetryIsExact`: `TelemetryMatchesServed`; the requests at each of the steps that count move from one
  set to the next, one request at a time, and all of them at a restart.

**Connections** (`ConnectionsProofs`)

* `ConnectionsTypes`: `TypeOK`, on which the others rest.
* `AuditTrailIsTrue`: `AuditMatchesCalls`; the invariant says at each await whether the platform was called
  and what is recorded.
* `WindowCapHolds`: `WindowIsCapped`. While a window is open the bucket has it and counts at least what
  passed: a sweep removes only buckets whose window is over, and a change of the limit keeps the count.
* `CallsStayEntitled`: `CallsAreEntitled`. An execution that no write has touched may still rely, at each
  await, on every row it has judged.
* `LastDetachAloneWidens`: `OnlyLastDetachWidens`, an action property that needs the types only.
* `DeletionIsSafe`: `DeletionFreesNothing`. A `deleteProject` that has listed the connections, was not
  overtaken and not cut knows that the project has none.

**Gateway** (`GatewayProofs`)

* `GatewayTypes`: `TypeOK`; in particular the settings stay within their clamps whatever is patched.
* `StorageOutlives`, `SubscribersHear`, `PatchesAccounted`: one invariant: the pool is open from boot to the
  callback of `server.close`, at which no client waits; what is applied, audited and answered at each await
  of a PATCH; a subscriber has got what was published since it came.
* `BurstsAreBounded`: `BurstIsBounded`; the bucket is compared with the history of its address as in
  `WindowCapHolds`, but here refused hits count and the limit changes under it.

**Clients** (`ClientsProofs`)

* `WrapperTypes`, `WrapperCleansUp`: `LeftoversHaveCauses` of `conduit run`; the invariant says how many
  endings have begun when cleanup is under way, and that a revocation that returned has happened or met a
  gateway that did not answer.
* `ClientTypes`, `RulesSurvivePanels`: `RulesLostToPolicyTabsOnly`, for any users and any assignment of
  programs, through removals and restarts. Both rest on facts about the table of programs
  (`ProgramsAssumption`): the table is written with `:>` and `@@`, which the prover cannot expand. It is a
  constant of the module, and TLC evaluates the assumption completely.
* `OnlyReplaysAreRefused`, `FailuresLeaveNothing`: `RefusalsAreReplays` and `PartialOnlyEdits`. The invariant
  `HistoryInv` ties the signatures the gateway has seen and the changes it has made to where each program
  stands: a program has used only the signatures of calls it has sent, so a fresh one is unknown to the cache,
  and has changed something only at calls it has passed. What the tables add is assumed by name and evaluated
  completely by TLC: every forwarded call with a fresh token is accepted by its route (`RoutesAssumption`),
  only the two forms use a signature twice, and only the edit form can give up after a call that writes
  (`SignaturesAssumption`).

**The algorithms** (`AlgorithmsProofs`)

* `IntersectNarrowsExactly`: for all constraint sets and arguments, over any numbers and scalars, the result
  of `intersect` admits exactly what both operands admit, and where it throws no arguments satisfy both.
  The proof goes field by field: one lemma per operator, one for exact values.
* `NarrowingNeverWidens`: `Narrowing`, for any offered sets and any number of narrowings; the invariant keeps
  the result well formed, and each narrowing is one use of `IntersectNarrowsExactly`.
* `FormsSuffice`, `GreenIsComplete`: for each of the 44 manifests, its operations and its probe, and any number
  of tests and rotations. A
  result or a test in flight is about the credential in use only if it names its rotation, and none is about
  a later one.
* `NamedRequestsAreDecided`: `NamedIsDecided`. The stored list follows the written one position by position:
  same id, same effect, and it still matches whatever the written rule names. All written rules are usable,
  so sending the list again drops and moves none; the ids agree, so a removal takes the same positions.
* `ScansNeverRepeat`, `ScansSkipLittle`: `NoRowTwice`, `SkipsShareAMillisecond`. Between two pages no row
  that was returned is before the cursor, and every stable row was returned, or is before it, or shares a
  millisecond with the end of a page. Ranks are one to one (an injection between finite sets of one size),
  so a page is what `ORDER BY ... LIMIT` gives.

Where lists or sets of any size are involved the proofs need an induction, and the library's induction
theorems take an operator as a parameter, which the provers cannot instantiate. `LeastNat` (every set of
naturals has a least element, from the library's theorem on well-founded relations) and the theorems on
cardinalities take its place: `PositionIn` finds the position at which a count first reaches a number.

Only model-checked: liveness (`RevocationCascades`, `DrainCompletes`, `SessionEnds`; the provers do not do
fairness). Every invariant and every action property of the passing runs is proved.

## 6. Plan

In this order:

1. The host branch of the pipeline with `rotateHostKey`; `introspect` compared with the pipeline.
2. The identity proxy inside `conduit run`; the Slack and REST drivers.
3. Grants under the deletion of a connection (`connection_id` set to null).

Further hazards the code has and no property covers: a rate limit of 0 on a connector means none
(`connectionProxy.ts:101`); `cacheSchema` of a slow request overwrites `schema_cache`, which nobody reads
(`toolRepository.ts:69`); a `conduit run` that outlasts the session clock loses its agent; `validateCredential`
judges the manifest's base URL although `secret.baseUrl` replaces it (`manifestDriver.ts:74`); a GET argument
named like a manifest query parameter replaces it (`manifestDriver.ts:153`); `purgeExpired` has no caller, so
`jti_cache` only grows; a second signal runs the shutdown a second time (`index.ts:139`).

## 7. Not modelled

The credential cipher and the JWT signature itself (library cryptography, modelled by what they decide),
loading of the configuration file, logging, the static compliance report, rendering in the dashboard, the
schema adapters, the Slack, REST and mock drivers, the JWKS resolver (nothing stores a `jwks_url`), the MySQL
stub and the CIDR arithmetic of the IP filter. Names, descriptions, purposes and modes of rows are left out
where no guard of a modelled call reads them. `jti_cache` is never purged by the gateway, so the model has no
purge. Read-only listings appear as routes and client calls, not as states.
