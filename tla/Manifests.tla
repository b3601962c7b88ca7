----------------------------- MODULE Manifests ------------------------------
(***************************************************************************)
(* The connectors bundled with the gateway: for each platform the secret   *)
(* fields that its base URL, header and query templates name, and for each *)
(* operation how it is sent and the arguments its path names.              *)
(***************************************************************************)

Post(params) == [kind |-> "post", params |-> params]
Fetch(params) == [kind |-> "get", params |-> params]
GraphQL == [kind |-> "graphql", params |-> {}]
NoTest == [kind |-> "none", params |-> {}]

\* A manifest: templated fields, operations by name, and the probe.
Manifest(platform, base, headers, query, ops, test) ==
  [platform |-> platform, base |-> base, headers |-> headers, query |-> query,
   operations |-> ops, test |-> test]

\* The common case: a fixed base URL and one header made of the token.
Bearer(platform, ops, test) == Manifest(platform, {}, {"token"}, {}, ops, test)

Messaging ==
  { Bearer("discord", [send_message |-> Post({"channel_id"}),
      list_guilds |-> Fetch({})], Fetch({})),
    Manifest("telegram", {"token"}, {}, {}, [send_message |-> Post({}),
      get_updates |-> Fetch({})], Fetch({})),
    Bearer("whatsapp", [send_message |-> Post({"phone_number_id"})],
      Fetch({})),
    Bearer("teams", [send_channel_message |-> Post({"team_id", "channel_id"}),
      list_teams |-> Fetch({})], Fetch({})) }

DevTools ==
  { Bearer("github", [create_issue |-> Post({"owner", "repo"}),
      add_comment |-> Post({"owner", "repo", "issue_number"}),
      create_pull_request |-> Post({"owner", "repo"})], Fetch({})),
    Bearer("gitlab", [create_issue |-> Post({"id"}),
      list_projects |-> Fetch({})], Fetch({})),
    Bearer("sentry",
      [list_issues |-> Fetch({"organization_slug", "project_slug"}),
      get_issue |-> Fetch({"issue_id"})], Fetch({})),
    Bearer("vercel", [list_deployments |-> Fetch({}),
      list_projects |-> Fetch({})], Fetch({})) }

ProjectManagement ==
  { Bearer("notion", [create_page |-> Post({}),
      query_database |-> Post({"database_id"}), search |-> Post({})],
      Fetch({})),
    Bearer("linear", [create_issue |-> GraphQL, list_issues |-> GraphQL],
      GraphQL),
    Manifest("jira", {"site"}, {"basic"}, {}, [create_issue |-> Post({}),
      search |-> Fetch({})], Fetch({})),
    Manifest("confluence", {"site"}, {"basic"}, {}, [create_page |-> Post({}),
      get_page |-> Fetch({"id"})], Fetch({})),
    Bearer("asana", [create_task |-> Post({}), list_tasks |-> Fetch({})],
      Fetch({})) }

Productivity ==
  { Bearer("monday", [create_item |-> GraphQL, list_boards |-> GraphQL],
      GraphQL),
    Manifest("trello", {}, {}, {"key", "token"}, [create_card |-> Post({}),
      list_boards |-> Fetch({})], Fetch({})),
    Bearer("clickup", [create_task |-> Post({"list_id"}),
      get_tasks |-> Fetch({"list_id"})], Fetch({})),
    Bearer("todoist", [create_task |-> Post({}), list_tasks |-> Fetch({})],
      Fetch({})),
    Bearer("airtable", [list_records |-> Fetch({"baseId", "table"}),
      create_record |-> Post({"baseId", "table"})], Fetch({})),
    Bearer("miro", [create_board |-> Post({}), list_boards |-> Fetch({})],
      Fetch({})) }

Crm ==
  { Bearer("hubspot", [create_contact |-> Post({}),
      list_contacts |-> Fetch({})], Fetch({})),
    Manifest("salesforce", {"instance"}, {"token"}, {}, [query |-> Fetch({}),
      create_record |-> Post({"sobject"})], Fetch({})),
    Manifest("pipedrive", {"company"}, {}, {"token"},
      [create_deal |-> Post({}), list_deals |-> Fetch({})], Fetch({})),
    Bearer("intercom", [create_contact |-> Post({}),
      list_conversations |-> Fetch({})], Fetch({})),
    Manifest("zendesk", {"subdomain"}, {"basic"}, {},
      [create_ticket |-> Post({}), list_tickets |-> Fetch({})], Fetch({})),
    Bearer("stripe", [list_charges |-> Fetch({}),
      list_customers |-> Fetch({})], Fetch({})) }

GoogleWorkspace ==
  { Bearer("gmail", [list_messages |-> Fetch({}), send_message |-> Post({})],
      Fetch({})),
    Bearer("google_calendar", [list_events |-> Fetch({"calendarId"}),
      create_event |-> Post({"calendarId"})], Fetch({})),
    Bearer("google_docs", [get_document |-> Fetch({"documentId"}),
      create_document |-> Post({})], NoTest),
    Bearer("google_sheets", [get_values |-> Fetch({"spreadsheetId", "range"}),
      append_values |-> Post({"spreadsheetId", "range"})], NoTest),
    Bearer("google_meet", [list_conference_records |-> Fetch({})], Fetch({})) }

Meetings ==
  { Bearer("zoom", [create_meeting |-> Post({"userId"}),
      list_meetings |-> Fetch({"userId"})], Fetch({})),
    Bearer("webex", [create_meeting |-> Post({}),
      list_meetings |-> Fetch({})], Fetch({})) }

Design ==
  { Bearer("figma", [get_file |-> Fetch({"file_key"}),
      get_comments |-> Fetch({"file_key"})], Fetch({})) }

Observability ==
  { Manifest("datadog", {}, {"apiKey", "appKey"}, {},
      [post_event |-> Post({}), query_metrics |-> Fetch({})], Fetch({})),
    Bearer("pagerduty", [list_incidents |-> Fetch({}),
      create_incident |-> Post({})], Fetch({})) }

AutomationHubs ==
  { Manifest("zapier", {"webhookUrl"}, {}, {}, [trigger |-> Post({})], NoTest),
    Manifest("make", {"webhookUrl"}, {}, {}, [trigger |-> Post({})], NoTest),
    Manifest("n8n", {"webhookUrl"}, {}, {}, [trigger |-> Post({})], NoTest),
    Manifest("ifttt", {"event", "key"}, {}, {}, [trigger |-> Post({})],
      NoTest) }

LlmProviders ==
  { Bearer("openai", [chat |-> Post({}), embeddings |-> Post({}),
      list_models |-> Fetch({})], Fetch({})),
    Bearer("claude", [messages |-> Post({})], Fetch({})),
    Manifest("gemini", {}, {}, {"token"}, [generate |-> Post({"model"}),
      list_models |-> Fetch({})], Fetch({})),
    Manifest("ollama", {}, {}, {}, [generate |-> Post({}),
      list_models |-> Fetch({})], Fetch({})) }

Social ==
  { Bearer("linkedin", [get_profile |-> Fetch({}), create_post |-> Post({})],
      Fetch({})) }

\* Fields of base URLs that stand in the host, or for the whole URL.
HostFields == {"site", "instance", "company", "subdomain", "webhookUrl"}

BUNDLED_MANIFESTS ==
  UNION { Messaging, DevTools, ProjectManagement, Productivity, Crm, GoogleWorkspace,
    Meetings, Design, Observability, AutomationHubs, LlmProviders, Social }
=============================================================================
