---------------------------- MODULE TokenRouter -----------------------------
(***************************************************************************)
(* GET /tools/:name and what changes the schema it serves: the tools table,*)
(* the per-tool in-memory schema cache, registration (POST /tools) and     *)
(* POST /tools/flush.                                                      *)
(*                                                                         *)
(* A statement takes effect in the database at one step and its result is  *)
(* handled by the gateway at a later one.  A schema is modelled by the     *)
(* number of the registration it was normalised from; 0 is no schema.      *)
(***************************************************************************)
EXTENDS Naturals, FiniteSets

CONSTANTS
  Agents, Tools,
  Reqs,         \* GET requests, each made once
  Regs,         \* concurrent registrations
  TTL,          \* SCHEMA_CACHE_TTL_SECONDS; not positive: no caching
  MaxVersions,  \* bound on registrations of one tool
  MaxTime       \* bound on the clock

ASSUME RouterAssumption == {TTL, MaxVersions, MaxTime} \subseteq Nat

VARIABLES
  tool,     \* tools.adapter_config: registration in force, 0 when none
  saved,    \* tools.schema_cache
  cache,    \* SchemaCache.store
  granted,  \* active grants
  req,      \* requests for a schema
  reg,      \* registrations under way
  settled,  \* newest registration whose caller was answered
  audits,   \* 'tool.schema' rows of audit_log
  calls,    \* metrics.tokensByTool[tool].calls
  now

vars == <<tool, saved, cache, granted, req, reg, settled, audits, calls, now>>

NoEntry == [schema |-> 0, expiresAt |-> 0, late |-> FALSE]

Entry == [schema: Nat, expiresAt: Nat, late: BOOLEAN]

\* "recorded": the audit row is in, the request not answered yet; "lost": it never
\* will be; "earlier": answered by a process that died since.
\* floor is settled[tool] on arrival; entitled: the grant was active at some
\* time since then; late: the schema was read before a registration or a flush
\* emptied the cache and stored after it.
Request == [step: {"idle", "grant", "find", "fill", "save", "audit", "recorded", "served",
                   "failed", "lost", "earlier"},
            agent: Agents, tool: Tools, schema: Nat, floor: Nat,
            entitled: BOOLEAN, late: BOOLEAN]

Registration == [step: {"idle", "invalidate"}, tool: Tools, version: Nat]

TypeOK ==
  /\ tool \in [Tools -> 0..MaxVersions]
  /\ saved \in [Tools -> Nat]
  /\ cache \in [Tools -> Entry]
  /\ granted \subseteq Agents \X Tools
  /\ req \in [Reqs -> Request]
  /\ \A r \in Reqs : req[r].step \in {"fill", "save", "audit", "recorded", "served"} =>
       req[r].schema \in 1..MaxVersions
  /\ reg \in [Regs -> Registration]
  /\ settled \in [Tools -> Nat]
  /\ audits \in [Tools -> Nat] /\ calls \in [Tools -> Nat]
  /\ now \in Nat

Init ==
  /\ tool = [t \in Tools |-> 0] /\ saved = tool
  /\ cache = [t \in Tools |-> NoEntry]
  /\ granted = {}
  /\ req \in [Reqs -> {[step |-> "idle", agent |-> a, tool |-> t, schema |-> 0,
                        floor |-> 0, entitled |-> FALSE, late |-> FALSE] :
                       a \in Agents, t \in Tools}]
  /\ reg \in [Regs -> {[step |-> "idle", tool |-> t, version |-> 0] : t \in Tools}]
  /\ settled = tool /\ audits = tool /\ calls = tool
  /\ now = 1

Goto(r, step) == req' = [req EXCEPT ![r] = [@ EXCEPT !.step = step]]

-----------------------------------------------------------------------------
(* Who holds a grant: written by the operations of Grants.                 *)

Approve(a, t) ==
  /\ <<a, t>> \notin granted
  /\ granted' = granted \cup {<<a, t>>}
  /\ req' = [r \in Reqs |->
               IF req[r].agent = a /\ req[r].tool = t /\ req[r].step = "grant"
               THEN [req[r] EXCEPT !.entitled = TRUE] ELSE req[r]]
  /\ UNCHANGED <<tool, saved, cache, reg, settled, audits, calls, now>>

Withdraw(a, t) ==
  /\ granted' = granted \ {<<a, t>>}
  /\ UNCHANGED <<tool, saved, cache, req, reg, settled, audits, calls, now>>

-----------------------------------------------------------------------------
(* POST /tools, POST /tools/flush and the cache.                           *)

\* The upsert commits: a new configuration, no stored schema.
Upsert(g) ==
  LET t == reg[g].tool IN
  /\ reg[g].step = "idle" /\ tool[t] < MaxVersions
  /\ tool' = [tool EXCEPT ![t] = @ + 1]
  /\ saved' = [saved EXCEPT ![t] = 0]
  /\ reg' = [reg EXCEPT ![g] = [@ EXCEPT !.step = "invalidate", !.version = tool[t] + 1]]
  /\ UNCHANGED <<cache, granted, req, settled, audits, calls, now>>

\* The requests for the tools in ts that still hold what they read before.
Overtaken(ts) ==
  [r \in Reqs |-> IF req[r].tool \in ts /\ req[r].step = "fill"
                  THEN [req[r] EXCEPT !.late = TRUE] ELSE req[r]]

\* cache.invalidate forgotten after the upsert.
InvalidateNot(t) == cache

Invalidate(t) == [cache EXCEPT ![t] = NoEntry]

\* The upsert's result arrives: invalidate, answer 201.
Registered(g) ==
  LET t == reg[g].tool IN
  /\ reg[g].step = "invalidate"
  /\ cache' = Invalidate(t)
  /\ req' = Overtaken({t})
  /\ settled' = [settled EXCEPT ![t] = IF reg[g].version > @ THEN reg[g].version ELSE @]
  /\ reg' = [reg EXCEPT ![g] = [@ EXCEPT !.step = "idle", !.version = 0]]
  /\ UNCHANGED <<tool, saved, granted, audits, calls, now>>

Flush ==
  /\ cache' = [t \in Tools |-> NoEntry]
  /\ req' = Overtaken(Tools)
  /\ UNCHANGED <<tool, saved, granted, reg, settled, audits, calls, now>>

Live(t) == cache[t].expiresAt > now

-----------------------------------------------------------------------------
(* getToolSchema.                                                          *)

\* The pipeline has let the agent through.
Get(r) ==
  /\ req[r].step = "idle"
  /\ req' = [req EXCEPT ![r] =
               [@ EXCEPT !.step = "grant", !.floor = settled[req[r].tool],
                  !.entitled = <<req[r].agent, req[r].tool>> \in granted]]
  /\ UNCHANGED <<tool, saved, cache, granted, reg, settled, audits, calls, now>>

\* The request takes its schema from the cache; an expired entry is deleted.
CacheGet(r) ==
  LET t == req[r].tool IN
  /\ req' = [req EXCEPT ![r] =
       IF Live(t) THEN [@ EXCEPT !.step = "audit", !.schema = cache[t].schema,
                                 !.late = cache[t].late]
                  ELSE [@ EXCEPT !.step = "find"]]
  /\ cache' = IF Live(t) THEN cache ELSE [cache EXCEPT ![t] = NoEntry]

\* Cache first, and the access check only on a miss.
FindActiveAfterCache(r) ==
  /\ req[r].step = "grant"
  /\ \/ (Live(req[r].tool) \/ <<req[r].agent, req[r].tool>> \in granted) /\ CacheGet(r)
     \/ /\ ~Live(req[r].tool) /\ <<req[r].agent, req[r].tool>> \notin granted
        /\ Goto(r, "failed") /\ UNCHANGED cache
  /\ UNCHANGED <<tool, saved, granted, reg, settled, audits, calls, now>>

FindActive(r) ==
  /\ req[r].step = "grant"
  /\ \/ <<req[r].agent, req[r].tool>> \in granted /\ CacheGet(r)
     \/ /\ <<req[r].agent, req[r].tool>> \notin granted
        /\ Goto(r, "failed") /\ UNCHANGED cache
  /\ UNCHANGED <<tool, saved, granted, reg, settled, audits, calls, now>>

FindByName(r) ==
  LET t == req[r].tool IN
  /\ req[r].step = "find"
  /\ \/ tool[t] = 0 /\ Goto(r, "failed")
     \/ /\ tool[t] # 0
        /\ req' = [req EXCEPT ![r] = [@ EXCEPT !.step = "fill", !.schema = tool[t]]]
  /\ UNCHANGED <<tool, saved, cache, granted, reg, settled, audits, calls, now>>

\* The row arrives: its adapter fetches and normalises the schema, and the cache
\* is set; or there is no such adapter, or it throws.
Fill(r) ==
  LET t == req[r].tool IN
  /\ req[r].step = "fill"
  /\ \/ /\ Goto(r, "save")
        /\ cache' = IF TTL = 0 THEN cache
                    ELSE [cache EXCEPT ![t] = [schema |-> req[r].schema, expiresAt |-> now + TTL,
                                               late |-> req[r].late]]
     \/ Goto(r, "failed") /\ UNCHANGED cache
  /\ UNCHANGED <<tool, saved, granted, reg, settled, audits, calls, now>>

CacheSchema(r) ==
  LET t == req[r].tool IN
  /\ req[r].step = "save"
  /\ \/ saved' = [saved EXCEPT ![t] = req[r].schema] /\ Goto(r, "audit")
     \/ UNCHANGED saved /\ Goto(r, "failed")
  /\ UNCHANGED <<tool, cache, granted, reg, settled, audits, calls, now>>

\* The append is not awaited: whether it fails is not noticed.
AuditSchemaUnawaited(r) ==
  LET t == req[r].tool IN
  /\ req[r].step = "audit"
  /\ Goto(r, "recorded")
  /\ audits' = [audits EXCEPT ![t] = @ + 1] \/ UNCHANGED audits
  /\ UNCHANGED <<tool, saved, cache, granted, reg, settled, calls, now>>

\* auditLog.append takes effect, and its answer may be lost; or it fails.
AuditSchema(r) ==
  LET t == req[r].tool IN
  /\ req[r].step = "audit"
  /\ \/ /\ audits' = [audits EXCEPT ![t] = @ + 1]
        /\ Goto(r, "recorded") \/ Goto(r, "lost")
     \/ UNCHANGED audits /\ Goto(r, "failed")
  /\ UNCHANGED <<tool, saved, cache, granted, reg, settled, calls, now>>

\* The append's answer arrives: recordTokenEstimate, and the schema is returned.
Serve(r) ==
  LET t == req[r].tool IN
  /\ req[r].step = "recorded"
  /\ calls' = [calls EXCEPT ![t] = @ + 1]
  /\ Goto(r, "served")
  /\ UNCHANGED <<tool, saved, cache, granted, reg, settled, audits, now>>

\* What becomes of a request at this step when the process dies.
Orphaned(step) ==
  CASE step = "recorded" -> "lost"
    [] step = "served" -> "earlier"
    [] step \in {"idle", "lost", "earlier"} -> step
    [] OTHER -> "failed"

\* The process dies and starts again: cache and metrics are gone, the tables stay.
Restart ==
  /\ cache' = [t \in Tools |-> NoEntry]
  /\ calls' = [t \in Tools |-> 0]
  /\ req' = [r \in Reqs |-> [req[r] EXCEPT !.step = Orphaned(req[r].step)]]
  /\ reg' = [g \in Regs |-> [reg[g] EXCEPT !.step = "idle", !.version = 0]]
  /\ UNCHANGED <<tool, saved, granted, settled, audits, now>>

Tick ==
  /\ now < MaxTime /\ \E t \in Tools : Live(t)
  /\ now' = now + 1
  /\ UNCHANGED <<tool, saved, cache, granted, req, reg, settled, audits, calls>>

Next ==
  \/ \E a \in Agents, t \in Tools : Approve(a, t) \/ Withdraw(a, t)
  \/ \E g \in Regs : Upsert(g) \/ Registered(g)
  \/ Flush \/ Tick \/ Restart
  \/ \E r \in Reqs : \/ Get(r) \/ FindActive(r) \/ FindByName(r) \/ Fill(r)
                     \/ CacheSchema(r) \/ AuditSchema(r) \/ Serve(r)

Spec == Init /\ [][Next]_vars

-----------------------------------------------------------------------------
(* Properties.                                                             *)

\* tokenRouter.ts: "the agent NEVER sees the schema" of a capability it does
\* not hold, though the cache is shared by all agents: who is served held the
\* grant at some time since it asked.
ServedWereEntitled ==
  \A r \in Reqs : req[r].step \in {"audit", "recorded", "served"} => req[r].entitled

\* toolRoutes.ts: "registration changes invalidate the cached schema".  Who
\* asks after a registration was answered gets that schema or a newer one -
\* except when a fill that had read the table before the invalidation stored
\* its result after it.
StaleNeedsOverlap ==
  /\ \A r \in Reqs :
       req[r].step \in {"fill", "save", "audit", "recorded", "served"} =>
         req[r].schema >= req[r].floor \/ req[r].late
  /\ \A t \in Tools :
       Live(t) => cache[t].schema >= settled[t] \/ cache[t].late

\* Step 5 of the flow: the calls reported for a tool are the schemas this process
\* served, none without an audit row; the rows also hold what earlier processes
\* served and the requests that got no further than their row, because they are
\* still on the way, the append's answer was lost or the process died.
TelemetryMatchesServed ==
  \A t \in Tools :
    /\ calls[t] = Cardinality({r \in Reqs : req[r].tool = t /\ req[r].step = "served"})
    /\ audits[t] = calls[t]
         + Cardinality({r \in Reqs : req[r].tool = t
                                     /\ req[r].step \in {"recorded", "lost", "earlier"}})

=============================================================================
