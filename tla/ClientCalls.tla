----------------------------- MODULE ClientCalls ----------------------------
(***************************************************************************)
(* What the client programs send: for every command of the CLI, method of  *)
(* the SDK, query and form of the dashboard and demo script, the HTTP calls *)
(* it makes, in order.                                                     *)
(*                                                                         *)
(* A call names the signature (key) it carries: two calls with one key     *)
(* carry one and the same JWT, signed once.  skip: where the program goes  *)
(* on when the call fails, 0 when it gives up.  The dashboard's paths start *)
(* with "api", which its own server takes off.                             *)
(***************************************************************************)
EXTENDS Naturals, Sequences, TLC

Call(method, path, typ, key, fields) ==
  [method |-> method, path |-> path, typ |-> typ, key |-> key, fields |-> fields, skip |-> 0]

ClientCall ==
  [method: {"GET", "POST", "PATCH", "DELETE"}, path: Seq(STRING), typ: {"none", "host", "agent"},
   key: 0..3, fields: SUBSET STRING, skip: 0..2]

Read(path) == Call("GET", path, "none", 0, {})
Host(method, path, key, fields) == Call(method, path, "host", key, fields)
Agent(method, path, key, fields) == Call(method, path, "agent", key, fields)
Caught(call, n) == [call EXCEPT !.skip = n]

Discover == Read(<<".well-known", "agent-configuration">>)

-----------------------------------------------------------------------------
(* conduit: hostJwt signs anew, after discovery, for every command.        *)

Signed(method, path, fields) == << Discover, Host(method, path, 1, fields) >>

CliAgents ==
  "agent:list" :> << Read(<<"agents">>) >>
  @@ "agent:register" :> Signed("POST", <<"agent", "register">>, {"agent_public_key", "mode"})
  @@ "agent:revoke" :> Signed("POST", <<"agent", "revoke">>, {"agent_id"})
  @@ "agent:rotate-key" :> Signed("POST", <<"agent", "rotate-key">>, {"agent_id", "agent_public_key"})
  @@ "grant:" :> Signed("POST", <<"agent", "grant">>, {"agent_id", "capability", "constraints"})

CliRegistry ==
  "connection:register" :> Signed("POST", <<"connections">>,
      {"name", "platform", "auth_method", "secret", "allowed_operations"})
  @@ "connection:list" :> << Read(<<"connections">>) >>
  @@ "tool:register" :> Signed("POST", <<"tools">>, {"name", "adapter_type", "adapter_config"})
  @@ "tool:list" :> << Read(<<"tools">>) >>
  @@ "project:list" :> << Read(<<"projects">>) >>
  @@ "project:create" :> Signed("POST", <<"projects">>, {"name"})
  @@ "audit:" :> << Read(<<"audit">>) >>
  @@ "metrics:" :> << Read(<<"metrics">>) >>

-----------------------------------------------------------------------------
(* ConduitClient: discovery is remembered, every call has a fresh JWT.     *)

connectAgent ==
  "connectAgent" :> Signed("POST", <<"agent", "register">>, {"agent_public_key", "mode", "capabilities"})

requestCapability ==
  "requestCapability" :> << Agent("POST", <<"agent", "request-capability">>, 1, {"capabilities"}) >>

SdkHost ==
  "disconnectAgent" :> << Host("POST", <<"agent", "revoke">>, 1, {"agent_id"}) >>
  @@ "reactivateAgent" :> << Host("POST", <<"agent", "reactivate">>, 1, {"agent_id"}) >>

SdkAgent ==
  "agentStatus" :> << Agent("GET", <<"agent", "status">>, 1, {}) >>
  @@ "executeCapability" :> << Agent("POST", <<"capability", "execute">>, 1, {"capability", "args"}) >>
  @@ "listCapabilities" :> << Agent("GET", <<"capability", "list">>, 1, {}) >>
  @@ "describeCapability" :> << Agent("GET", <<"capability", "describe">>, 1, {"name"}) >>
  @@ "getToolSchema" :> << Agent("GET", <<"tools", "some-tool">>, 1, {}) >>

\* The heartbeat agent: two turns of its loop.  The aud of its tokens comes
\* from configuration, not from discovery.
ExampleAgent ==
  "exampleAgent" :> << Host("POST", <<"agent", "register">>, 1, {"agent_public_key", "mode", "name"}),
                       Caught(Agent("GET", <<"agent", "status">>, 2, {}), 1),
                       Caught(Agent("GET", <<"agent", "status">>, 3, {}), 1) >>

\* The endpoints of the discovery document, called the way its readers do.
Advertised ==
  "endpoints.capabilities" :> << Discover, Agent("GET", <<"capability", "list">>, 1, {}) >>
  @@ "endpoints.describe_capability" :> << Discover, Agent("GET", <<"capability", "describe">>, 1, {"name"}) >>
  @@ "endpoints.revoke_host" :> Signed("POST", <<"host", "revoke">>, {})
  @@ "endpoints.rotate_host_key" :> Signed("POST", <<"host", "rotate-key">>, {"host_public_key"})
  @@ "endpoints.introspect" :> Signed("POST", <<"agent", "introspect">>, {"token"})
  @@ "endpoints.jwks_uri" :> << Discover, Read(<<".well-known", "jwks.json">>) >>

-----------------------------------------------------------------------------
(* The dashboard.  createDashboardApi: one operator per method.            *)

Api(path) == <<"api">> \o path

GetIssuer == Read(Api(<<".well-known", "agent-configuration">>))

ListOf(path) == << Read(Api(path)) >>

listAgents == ListOf(<<"agents">>)
listConnections == ListOf(<<"connections">>)
listAudit == ListOf(<<"audit">>)
listTools == ListOf(<<"tools">>)
listConnectors == ListOf(<<"connectors">>)
listAgentGrants == ListOf(<<"agents", "some-id", "grants">>)
listAgentRisk == ListOf(<<"agents", "risk">>)
listProjects == ListOf(<<"projects">>)
listAgentConnections == ListOf(<<"agents", "some-id", "connections">>)
getCompliance == ListOf(<<"compliance">>)
getMetrics == ListOf(<<"metrics">>)
useSecurityEvents == ListOf(<<"events">>)
useHealth == ListOf(<<"readyz">>)

\* The hooks of the views: what they poll, one query each.
Queries ==
  "agents" :> listAgents @@ "connections" :> listConnections @@ "audit" :> listAudit
  @@ "tools" :> listTools @@ "connectors" :> listConnectors @@ "grants" :> listAgentGrants
  @@ "agentRisk" :> listAgentRisk @@ "projects" :> listProjects
  @@ "agentConnections" :> listAgentConnections @@ "compliance" :> getCompliance
  @@ "metrics" :> getMetrics @@ "events" :> useSecurityEvents @@ "health" :> useHealth
  @@ "configuration" :> << GetIssuer >>

registerAgent(key) ==
  Host("POST", Api(<<"agent", "register">>), key, {"agent_public_key", "mode", "name", "description"})
revokeAgent(key) == Host("POST", Api(<<"agent", "revoke">>), key, {"agent_id"})
updateAgent(key) == Host("POST", Api(<<"agent", "update">>), key, {"agent_id", "name", "description"})
setAgentProject(key) == Host("POST", Api(<<"agent", "project">>), key, {"agent_id", "project_id"})
registerConnection(key) ==
  Host("POST", Api(<<"connections">>), key,
       {"name", "platform", "auth_method", "secret", "allowed_operations"})
updateConnection(key) ==
  Host("PATCH", Api(<<"connections", "some-id">>), key, {"name", "allowed_operations"})
deleteConnection(key) == Host("DELETE", Api(<<"connections", "some-id">>), key, {})
testConnection(key) == Host("POST", Api(<<"connections", "some-id", "test">>), key, {})
createProject(key) == Host("POST", Api(<<"projects">>), key, {"name", "description"})
deleteProject(key) == Host("DELETE", Api(<<"projects", "some-id">>), key, {})
attachConnection(key) == Host("POST", Api(<<"agents", "some-id", "connections">>), key, {"connection_id"})
detachConnection(key) == Host("DELETE", Api(<<"agents", "some-id", "connections", "some-id">>), key, {})
getSecuritySettings(key) == Host("GET", Api(<<"admin", "config">>), key, {})
updateSecuritySettings(key) == Host("PATCH", Api(<<"admin", "config">>), key, {"settings"})

\* The views' handlers.  Each signs one host JWT after asking for the issuer;
\* saving an agent's edit, and registering a connection, use theirs twice.
RegisterAgentForm == "register agent" :> << GetIssuer, registerAgent(1) >>
AgentsViewRevoke == "revoke agent" :> << GetIssuer, revokeAgent(1) >>

EditAgentForm ==
  "rename agent" :> << GetIssuer, updateAgent(1) >>
  @@ "edit agent" :> << GetIssuer, updateAgent(1), setAgentProject(1) >>

RegisterConnectionForm ==
  "register connection" :> << GetIssuer, registerConnection(1), Caught(testConnection(1), 1) >>

TestConnection == "test connection" :> << GetIssuer, testConnection(1) >>
DeleteConnection == "delete connection" :> << GetIssuer, deleteConnection(1) >>
EditConnection == "edit connection" :> << GetIssuer, updateConnection(1) >>

Attach == "attach" :> << GetIssuer, attachConnection(1) >>
Detach == "detach" :> << GetIssuer, detachConnection(1) >>

ProjectsView ==
  "create project" :> << GetIssuer, createProject(1) >> @@ "delete project" :> << GetIssuer, deleteProject(1) >>

\* The Policy tab and the security panel load once and may save again and
\* again; a save that fails leaves the tab as it was.
SettingsTab ==
  << GetIssuer, getSecuritySettings(1),
     Caught(GetIssuer, 2), Caught(updateSecuritySettings(2), 1),
     Caught(GetIssuer, 2), Caught(updateSecuritySettings(3), 1) >>

SettingsTabs == "policy" :> SettingsTab @@ "security" :> SettingsTab

Programs ==
  CliAgents @@ CliRegistry @@ connectAgent @@ requestCapability @@ SdkHost @@ SdkAgent @@ ExampleAgent @@ Advertised @@ Queries
    @@ RegisterAgentForm @@ AgentsViewRevoke @@ EditAgentForm @@ RegisterConnectionForm
    @@ TestConnection @@ DeleteConnection @@ EditConnection @@ Attach @@ Detach @@ ProjectsView
    @@ SettingsTabs

ASSUME ProgramsAssumption ==
  /\ \A run \in DOMAIN Programs :
       /\ Programs[run] \in Seq(ClientCall) /\ Len(Programs[run]) \in 1..6
       /\ \A i \in DOMAIN Programs[run] : Programs[run][i].typ # "none" => Programs[run][i].key > 0
  /\ \A run \in {"policy", "security"} : run \in DOMAIN Programs /\ Programs[run] = SettingsTab

\* Two forms alone send one signature twice, and only the edit form can give up
\* after a call that is not a read.
ASSUME SignaturesAssumption ==
  \A run \in DOMAIN Programs : \A i, j \in DOMAIN Programs[run] : i < j =>
    /\ run \notin {"edit agent", "register connection"} /\ Programs[run][j].typ # "none"
         => Programs[run][i].key # Programs[run][j].key
    /\ run # "edit agent" /\ Programs[run][j].skip = 0 => Programs[run][i].method = "GET"
=============================================================================
