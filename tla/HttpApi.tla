------------------------------ MODULE HttpApi -------------------------------
(***************************************************************************)
(* The gateway's HTTP surface: every route in the order createGatewayApp   *)
(* mounts it, with the token its handler demands and the fields it refuses *)
(* to go without, and how a request is dispatched, authenticated and       *)
(* validated.  What a handler then does is modelled by the component it    *)
(* calls (Lifecycle, Grants, Connections, TokenRouter, Gateway).           *)
(*                                                                         *)
(* A path is a sequence of segments; ":" is a parameter.                   *)
(***************************************************************************)
EXTENDS Naturals, Sequences, SequencesExt

\* auth: "none"; "host" or "agent" when requireJwt guards the route; "inline"
\* when the handler runs the agent pipeline itself, after looking at the body.
Route(method, path, auth, needs) ==
  [method |-> method, path |-> path, auth |-> auth, needs |-> needs]

Get(path) == Route("GET", path, "none", {})
HostPost(path, needs) == Route("POST", path, "host", needs)
AgentPost(path, needs) == Route("POST", path, "inline", needs)
AgentGet(path, needs) == Route("GET", path, "inline", needs)

WellKnownRoutes == << Get(<<".well-known", "agent-configuration">>), Get(<<".well-known", "jwks.json">>) >>

AgentRoutes ==
  << HostPost(<<"agent", "register">>, {"agent_public_key"}),
     HostPost(<<"agent", "revoke">>, {"agent_id"}),
     HostPost(<<"agent", "update">>, {"agent_id"}),
     HostPost(<<"agent", "reactivate">>, {"agent_id"}),
     HostPost(<<"agent", "rotate-key">>, {"agent_id", "agent_public_key"}) >>

HostRoutes ==
  << HostPost(<<"host", "revoke">>, {}),
     HostPost(<<"host", "rotate-key">>, {"host_public_key"}),
     HostPost(<<"agent", "introspect">>, {"token"}) >>

ProjectRoutes ==
  << Get(<<"projects">>),
     HostPost(<<"projects">>, {"name"}),
     Route("DELETE", <<"projects", ":">>, "host", {}),
     HostPost(<<"agent", "project">>, {"agent_id"}),
     Route("GET", <<"agent", "status">>, "agent", {}) >>

GrantRoutes ==
  << HostPost(<<"agent", "grant">>, {"agent_id", "capability"}),
     HostPost(<<"agent", "task">>, {"agent_id", "name"}),
     HostPost(<<"task", ":", "complete">>, {}),
     Get(<<"tasks">>) >>

CapabilityRoutes ==
  << AgentPost(<<"agent", "request-capability">>, {"capabilities"}),
     AgentGet(<<"capability", "list">>, {}),
     AgentGet(<<"capability", "describe">>, {"name"}),
     AgentPost(<<"capability", "execute">>, {"capability"}) >>

AgentListing == << Get(<<"agents">>) >>

ConnectionRoutes ==
  << HostPost(<<"connections">>, {"name", "platform", "secret"}),
     Route("PATCH", <<"connections", ":">>, "host", {}),
     Route("DELETE", <<"connections", ":">>, "host", {}),
     HostPost(<<"connections", ":", "test">>, {}) >>

VaultListings == << Get(<<"connections">>), Get(<<"audit">>) >>

WiringRoutes ==
  << Get(<<"agents", "risk">>),
     Get(<<"agents", ":", "connections">>),
     HostPost(<<"agents", ":", "connections">>, {"connection_id"}),
     Route("DELETE", <<"agents", ":", "connections", ":">>, "host", {}),
     Get(<<"agents", ":", "grants">>) >>

ConfigRoutes ==
  << Get(<<"compliance">>), Get(<<"connectors">>),
     Route("GET", <<"admin", "config">>, "host", {}),
     Route("PATCH", <<"admin", "config">>, "host", {}) >>

ToolRoutes ==
  << HostPost(<<"tools">>, {"name", "adapter_type"}),
     Get(<<"tools">>),
     HostPost(<<"tools", "flush">>, {}),
     AgentGet(<<"tools", ":">>, {}) >>

ObservabilityRoutes == << Get(<<"events">>), Get(<<"metrics">>) >>

HealthRoutes == << Get(<<"healthz">>), Get(<<"readyz">>), Get(<< >>) >>

Routes ==
  WellKnownRoutes \o AgentRoutes \o HostRoutes \o ProjectRoutes \o GrantRoutes
    \o CapabilityRoutes \o AgentListing \o ConnectionRoutes \o VaultListings
    \o WiringRoutes \o ConfigRoutes \o ToolRoutes \o ObservabilityRoutes \o HealthRoutes

-----------------------------------------------------------------------------
(* Dispatch: the first route mounted whose method and pattern fit.         *)

Fits(route, call) ==
  /\ route.method = call.method
  /\ Len(route.path) = Len(call.path)
  /\ \A i \in DOMAIN call.path : route.path[i] \in {":", call.path[i]}

Reached(call) == SelectInSeq(Routes, LAMBDA route : Fits(route, call))

\* skipInfra: the paths the IP filter and the limiter let through.
Exempt(path) == path \in {<<"healthz">>, <<"readyz">>, <<"events">>, <<"admin", "config">>}

TokenOf(auth) == CASE auth = "none" -> "none" [] auth = "host" -> "host"
                   [] OTHER -> "agent"

\* Why the gateway may refuse a call that is in order: what the pipeline finds in
\* the token itself (an unknown key, the signature, aud, exp, iat), or the live
\* state check and the handler (401, 403, 404, 409), which come after it.
Refusals == {"none", "token", "later"}

\* The answer to a call that reaches route number `to`, whose token was (spent)
\* or was not yet seen by the pipeline's replay check, from an address the IP
\* filter refuses (filtered).
Verdict(to, call, spent, filtered, refusal) ==
  LET route == Routes[to]
      bad == ~(route.needs \subseteq call.fields)
      handled == IF refusal = "later" THEN "refused" ELSE IF bad THEN "invalid" ELSE "ok" IN
  IF filtered /\ ~Exempt(call.path) THEN "filtered"
  ELSE IF to = 0 THEN "notFound"
  ELSE IF route.auth = "none" THEN handled
  ELSE IF call.typ = "none" THEN "unauthorized"
  ELSE IF route.auth = "inline" /\ bad THEN "invalid"
  ELSE IF call.typ # TokenOf(route.auth) THEN "unauthorized"
  ELSE IF refusal = "token" THEN "unverified"
  ELSE IF spent THEN "replayed"
  ELSE handled

\* Whether the pipeline stored the token's jti on the way to that answer.
Spends(to, verdict) ==
  LET auth == Routes[to].auth IN
  /\ verdict \in {"ok", "invalid", "refused"}
  /\ auth # "none"
  /\ ~(auth = "inline" /\ verdict = "invalid")
=============================================================================
