---------------------------- MODULE JwtPipeline -----------------------------
(***************************************************************************)
(* The agent pipeline of apps/server/src/auth running against the changing *)
(* lifecycle: stages 1 to 4 (typ, signature, claims with the jti replay    *)
(* cache, state), which every agent request passes.  Requests interleave   *)
(* with each other and with the calls of Lifecycle at every await of a     *)
(* stage; the checks between two awaits are one action.  A stage that      *)
(* throws ends the request (Refuse).                                       *)
(*                                                                         *)
(* A tick is a fraction of a second: the claims are compared in whole      *)
(* seconds, the cache and the lifetime clocks in ticks.                    *)
(***************************************************************************)
EXTENDS Lifecycle

CONSTANTS
  Requests,        \* concurrent requests
  Tokens,          \* the JWTs that are presented, possibly more than once
  Skew,            \* clockSkewSeconds
  TicksPerSecond

\* A JWT: the claims the pipeline looks at, and the key that signed it.
Token == [typ: {"agent+jwt", "host+jwt"}, sub: Agents, key: Keys, aud: BOOLEAN,
          iat: Nat, exp: Nat, jti: Nat]

ASSUME TokenAssumption ==
  /\ Tokens \subseteq Token
  /\ Tokens # {}
  /\ Skew \in Nat
  /\ TicksPerSecond \in Nat \ {0}

VARIABLES
  req,       \* req[r]: the AuthContext of request r and where it stands
  jtiCache,  \* jtiCache[j]: expires_at of the row of jti j, NoTime without one
  used       \* history: the tokens that claim validation let through once

pipelineVars == <<req, jtiCache, used>>

allVars == <<hostStatus, agent, call, now, req, jtiCache, used>>

\* The three lifetime clocks of a row.
Clocks(row) == <<row.session, row.max, row.absolute>>

NoClocks == << >>

RequestState ==
  [pc: {"idle", "agent", "host", "claims", "put", "state", "passed"},
   token: Tokens,
   row: AgentRow,             \* ctx.agent, as stage 2 read it
   host: HostState,           \* ctx.host.status, as stage 2 read it
   out: {NoClocks} \cup (Nat \X Nat \X Nat),  \* history: clocks that had run out at arrival
   late: SUBSET {"agent", "host"}]  \* history: what was revoked at arrival

Jtis == {t.jti : t \in Tokens}

PipelineTypeOK ==
  /\ TypeOK
  /\ req \in [Requests -> RequestState]
  /\ jtiCache \in [Jtis -> Nat]
  /\ used \subseteq Tokens

NoRequest ==
  [pc |-> "idle", token |-> CHOOSE t \in Tokens : TRUE,
   row |-> AbsentRow(CHOOSE k \in Keys : TRUE), host |-> "pending", late |-> {},
   out |-> NoClocks]

PipelineInit ==
  /\ Init
  /\ req = [r \in Requests |-> NoRequest]
  /\ jtiCache = [j \in Jtis |-> NoTime]
  /\ used = {}

nowSec == now \div TicksPerSecond

TokenOf(r) == req[r].token

Refuse(r) == req' = [req EXCEPT ![r] = NoRequest]

Pass(r, pc) == req' = [req EXCEPT ![r].pc = pc]

-----------------------------------------------------------------------------
\* Mutant of Within: the session clock is not looked at.
WithinNoSession(row) ==
  \A clock \in {row.max, row.absolute} : clock # NoTime => now <= clock

\* The three lifetime clocks; a null clock never runs out.
Within(row) ==
  \A clock \in {row.session, row.max, row.absolute} : clock # NoTime => now <= clock

\* What is revoked already when a request for agent a arrives.
LateFor(a) ==
  {x \in {"agent", "host"} :
     \/ x = "agent" /\ agent[a].status = "revoked"
     \/ x = "host" /\ Exists(a) /\ hostStatus[agent[a].host] = "revoked"}

\* The clocks of a row, if one of them has run out.
OutFor(row) == IF \A clock \in {row.session, row.max, row.absolute} :
                     clock = NoTime \/ now <= clock
               THEN NoClocks ELSE Clocks(row)

\* The request arrives and passes the typ check, which reads no state.
TypCheck(r, t) ==
  /\ req[r].pc = "idle"
  /\ t.typ = "agent+jwt"
  /\ req' = [req EXCEPT ![r] = [NoRequest EXCEPT !.pc = "agent", !.token = t,
                                                 !.late = LateFor(t.sub),
                                                 !.out = OutFor(agent[t.sub])]]
  /\ UNCHANGED <<jtiCache, used>>

\* findBySubject, then the signature against the inline key of the row it read.
VerifySignature(r) ==
  /\ req[r].pc = "agent"
  /\ LET row == agent[TokenOf(r).sub] IN
       IF row.status # "absent" /\ row.key = TokenOf(r).key
       THEN req' = [req EXCEPT ![r] = [@ EXCEPT !.pc = "host", !.row = row]]
       ELSE Refuse(r)
  /\ UNCHANGED <<jtiCache, used>>

ResolveHost(r) ==
  /\ req[r].pc = "host"
  /\ req' = [req EXCEPT ![r] = [@ EXCEPT !.pc = "claims",
                                         !.host = hostStatus[req[r].row.host]]]
  /\ UNCHANGED <<jtiCache, used>>

ValidateClaims(r) ==
  /\ req[r].pc = "claims"
  /\ IF /\ TokenOf(r).aud
        /\ nowSec <= TokenOf(r).exp + Skew
        /\ TokenOf(r).iat <= nowSec + Skew
     THEN Pass(r, "put") ELSE Refuse(r)
  /\ UNCHANGED <<jtiCache, used>>

\* Mutant of JtiWindow: retained for the lifetime only.
JtiWindowUnskewed(t) == t.exp * TicksPerSecond

\* expires_at of the cache row of t.
JtiWindow(t) == (t.exp + Skew) * TicksPerSecond

\* jtiCache.put: one statement, which takes over a row that has expired.
PutJti(r) ==
  /\ req[r].pc = "put"
  /\ LET t == TokenOf(r) IN
       IF jtiCache[t.jti] = NoTime \/ jtiCache[t.jti] < now
       THEN /\ jtiCache' = [jtiCache EXCEPT ![t.jti] = JtiWindow(t)]
            /\ used' = used \cup {t}
            /\ Pass(r, "state")
       ELSE Refuse(r) /\ UNCHANGED <<jtiCache, used>>

\* Mutant of CheckState: the host is left to the cascade.
CheckStateAgentOnly(r) ==
  /\ req[r].pc = "state"
  /\ IF req[r].row.status = "active" /\ Within(req[r].row)
     THEN Pass(r, "passed") ELSE Refuse(r)
  /\ UNCHANGED <<jtiCache, used>>

CheckState(r) ==
  /\ req[r].pc = "state"
  /\ IF req[r].host = "active" /\ req[r].row.status = "active" /\ Within(req[r].row)
     THEN Pass(r, "passed") ELSE Refuse(r)
  /\ UNCHANGED <<jtiCache, used>>

\* The handler behind the pipeline answers.
Answer(r) ==
  /\ req[r].pc = "passed"
  /\ Refuse(r)
  /\ UNCHANGED <<jtiCache, used>>

RequestStep(r) ==
  \/ \E t \in Tokens : TypCheck(r, t)
  \/ VerifySignature(r)
  \/ ResolveHost(r)
  \/ ValidateClaims(r)
  \/ PutJti(r)
  \/ CheckState(r)
  \/ Answer(r)

PipelineNext ==
  \/ Next /\ UNCHANGED pipelineVars
  \/ (\E r \in Requests : RequestStep(r)) /\ UNCHANGED vars

PipelineSpec == PipelineInit /\ [][PipelineNext]_allVars

\* Node runs every pending continuation and the pool answers every query, so a
\* lifecycle call takes its next step, however many requests come and go.
FairPipelineSpec ==
  PipelineSpec /\ \A c \in Calls : WF_allVars(Step(c) /\ UNCHANGED pipelineVars)

-----------------------------------------------------------------------------
(* Properties *)

\* "revocation must take effect immediately": a request that arrives after its
\* agent or its agent's host was revoked is refused, while the cascade is still
\* under way and whatever the request read in between.
RevokedIsRefused == \A r \in Requests : req[r].pc = "passed" => req[r].late = {}

\* claimValidation: a token is let through a second time only once the whole
\* window (lifetime + skew) is over, also for requests in parallel.
NoReplayInWindow ==
  [][\A r \in Requests :
       req[r].pc = "put" /\ req'[r].pc = "state" /\ TokenOf(r) \in used
         => now > (TokenOf(r).exp + Skew) * TicksPerSecond]_allVars

\* "retains each jti for the full effective window": a token that claim
\* validation let through is never let through again.
JtiSingleUse ==
  [][\A r \in Requests :
       req[r].pc = "put" /\ req'[r].pc = "state" => TokenOf(r) \notin used]_allVars

\* stateCheck: a request that arrives after a lifetime clock of its agent ran
\* out is refused, whatever is read, stamped and let lapse while it waits at its
\* five awaits - unless the agent was given other clocks before the request read
\* its row.
LifetimesEnforced ==
  \A r \in Requests : req[r].pc = "passed" => Clocks(req[r].row) # req[r].out
=============================================================================
