------------------------------ MODULE Clients -------------------------------
(***************************************************************************)
(* The client programs at work on one gateway.  Each runs one of the       *)
(* programs of ClientCalls, call by call; a call is forwarded, handled and *)
(* answered, throttled, or lost on either way.  Of what the handlers change *)
(* only the runtime settings are kept: they are what two dashboard tabs    *)
(* edit at once, and what decides whether the next call gets in.           *)
(***************************************************************************)
EXTENDS HttpApi, ClientCalls

CONSTANTS
  Users,    \* running client programs
  Runs      \* which programs each may run

ASSUME ClientsAssumption ==
  "none" \notin Users /\ Runs \in [Users -> SUBSET DOMAIN Programs]

VARIABLES
  user,       \* the programs' progress
  spent,      \* signatures whose jti the gateway has stored
  acted,      \* calls that took effect: <<user, position>>
  settings,   \* RuntimeSettingsStore.current
  rules,      \* what became of the policy's rules since the gateway started
  overwrote,  \* who has since then replaced a policy without having seen it
  discovery   \* the browser's HTTP cache holds the discovery document

clientVars == <<user, spent, acted, settings, rules, overwrote, discovery>>

\* policy: the rules in force, one per user that may add one.  ipFilter: "shut"
\* when it refuses the operators' address.
Settings == [policy: SUBSET Users, ipFilter: {"open", "shut"}]

Boot == [policy |-> {}, ipFilter |-> "open"]

NotLoaded == [policy |-> {}, ipFilter |-> "unknown"]

\* The rules that were in force, and those of them a tab took out by hand.
NoRules == [enacted |-> {}, removed |-> {}]

Answers == {"ok", "notFound", "unauthorized", "unverified", "replayed", "refused",
            "invalid", "filtered", "throttled", "lost"}

User == [run: DOMAIN Programs \cup {"none"}, at: Nat,
         phase: {"idle", "ready", "sent", "done", "failed"},
         answer: Answers \cup {"none"}, copy: Settings \cup {NotLoaded}]

ClientsTypeOK ==
  /\ user \in [Users -> User]
  /\ \A u \in Users :
       /\ user[u].phase \in {"ready", "sent"} => user[u].at \in DOMAIN Programs[user[u].run]
       /\ user[u].phase \in {"ready", "sent"} /\ user[u].at > 2
            /\ user[u].run \in {"policy", "security"} => user[u].copy # NotLoaded
  /\ spent \subseteq Users \X (1..3)
  /\ acted \subseteq Users \X (1..6)
  /\ settings \in Settings
  /\ rules \in [enacted: SUBSET Users, removed: SUBSET Users]
  /\ overwrote \subseteq Users
  /\ discovery \in BOOLEAN

ClientsInit ==
  /\ user = [u \in Users |-> [run |-> "none", at |-> 0, phase |-> "idle",
                              answer |-> "none", copy |-> NotLoaded]]
  /\ spent = {} /\ acted = {}
  /\ settings = Boot /\ rules = NoRules /\ overwrote = {}
  /\ discovery = FALSE

CallOf(u) == Programs[user[u].run][user[u].at]

\* The dashboard's own server: /api goes to the gateway without its prefix,
\* anything else is the single-page application.
Forwarded(call) == [call EXCEPT !.path = IF @ # << >> /\ Head(@) = "api" THEN Tail(@) ELSE @]

\* The route that each call of each program reaches.
Targets ==
  [run \in DOMAIN Programs |->
     [i \in DOMAIN Programs[run] |-> Reached(Forwarded(Programs[run][i]))]]

\* Every call of every program names a route and has the token and the fields
\* that its handler demands.
ASSUME RoutesAssumption ==
  \A run \in DOMAIN Programs : \A i \in DOMAIN Programs[run] :
    Verdict(Targets[run][i], Forwarded(Programs[run][i]), FALSE, FALSE, "none") = "ok"

\* What a Policy tab makes of the rules it loaded: addRule, removeRule, or a
\* change of the switch and the default effect, which leaves them alone.
Edits(u) ==
  LET loaded == user[u].copy.policy IN
  {loaded} \cup IF user[u].run # "policy" THEN {}
                ELSE {loaded \cup {u}} \cup {loaded \ {rule} : rule \in loaded}

\* What PATCH /admin/config is sent.  The Policy tab sends back everything it
\* loaded with its edit; the security panel leaves the policy out.
PatchedWhole(u, edit, ipFilter) ==
  IF user[u].run = "policy"
  THEN [user[u].copy EXCEPT !.policy = edit]
  ELSE [policy |-> user[u].copy.policy, ipFilter |-> ipFilter]

Patched(u, edit, ipFilter) ==
  IF user[u].run = "policy"
  THEN [user[u].copy EXCEPT !.policy = edit]
  ELSE [policy |-> settings.policy, ipFilter |-> ipFilter]

\* The rules that a save takes out although its tab had loaded them.
Dropped(u, edit) == IF user[u].run = "policy" THEN user[u].copy.policy \ edit ELSE {}

\* The save changes a policy that is not the one its tab had loaded.
Overwrites(u, patched) ==
  patched.policy # settings.policy /\ settings.policy # user[u].copy.policy

Start(u, run) ==
  /\ user[u].phase = "idle"
  /\ user' = [user EXCEPT ![u] = [@ EXCEPT !.run = run, !.at = 1, !.phase = "ready"]]
  /\ UNCHANGED <<spent, acted, settings, rules, overwrote, discovery>>

\* The answer's body: GET and PATCH /admin/config return the settings.
Answered(u, answer, copy) ==
  user' = [user EXCEPT ![u] = [@ EXCEPT !.phase = "sent", !.answer = answer, !.copy = copy]]

\* The gateway takes the call; its answer may get lost.  (An error of a handler
\* that comes after its change is, for the client, an answer that got lost.)
Handle(u, edit, ipFilter, refusal, delivered) ==
  LET call == Forwarded(CallOf(u))
      to == Targets[user[u].run][user[u].at]
      key == <<u, call.key>>
      verdict == Verdict(to, call, key \in spent, settings.ipFilter = "shut", refusal)
      saves == verdict = "ok" /\ call.method = "PATCH" /\ call.path = <<"admin", "config">>
      loads == verdict = "ok" /\ call.method = "GET" /\ call.path = <<"admin", "config">> IN
  /\ user[u].phase = "ready"
  /\ ipFilter = "shut" => user[u].run = "security" /\ saves
  /\ spent' = IF Spends(to, verdict) THEN spent \cup {key} ELSE spent
  /\ acted' = IF verdict = "ok" /\ call.method # "GET"
              THEN acted \cup {<<u, user[u].at>>} ELSE acted
  /\ settings' = IF saves THEN Patched(u, edit, ipFilter) ELSE settings
  /\ rules' = IF saves
              THEN [enacted |-> rules.enacted \cup settings'.policy,
                    removed |-> (rules.removed \cup Dropped(u, edit)) \ settings'.policy]
              ELSE rules
  /\ overwrote' = IF saves /\ Overwrites(u, settings') THEN overwrote \cup {u} ELSE overwrote
  /\ discovery' = (discovery \/ (delivered /\ verdict = "ok" /\ CallOf(u) = GetIssuer))
  /\ IF delivered
     THEN Answered(u, verdict, IF loads \/ saves THEN settings' ELSE user[u].copy)
     ELSE Answered(u, "lost", user[u].copy)

\* Never reaches the gateway, or is turned away by the rate limiter.
Undelivered(u, answer) ==
  /\ user[u].phase = "ready"
  /\ answer = "throttled" => ~Exempt(Forwarded(CallOf(u)).path)
  /\ Answered(u, answer, user[u].copy)
  /\ UNCHANGED <<spent, acted, settings, rules, overwrote, discovery>>

\* Cache-Control: max-age=3600 on the discovery document.
FromCache(u) ==
  /\ user[u].phase = "ready" /\ CallOf(u) = GetIssuer /\ discovery
  /\ Answered(u, "ok", user[u].copy)
  /\ UNCHANGED <<spent, acted, settings, rules, overwrote, discovery>>

CacheExpires ==
  /\ discovery /\ discovery' = FALSE
  /\ UNCHANGED <<user, spent, acted, settings, rules, overwrote>>

\* The gateway restarts: its settings are seeded from the configuration again,
\* the replay cache is a table and stays.
RestartGateway ==
  /\ settings' = Boot /\ rules' = NoRules /\ overwrote' = {}
  /\ UNCHANGED <<user, spent, acted, discovery>>

\* The answer is read.  A settings tab keeps its copy only from an answer.
Advance(u, n) ==
  LET at == user[u].at + n IN
  user' = [user EXCEPT ![u] = [@ EXCEPT !.at = at, !.answer = "none",
             !.phase = IF at > Len(Programs[user[u].run]) THEN "done" ELSE "ready"]]

ReceiveRetrying(u) ==
  /\ user[u].phase = "sent"
  /\ \/ user[u].answer = "ok" /\ Advance(u, 1)
     \/ user[u].answer # "ok" /\ Advance(u, 0)
  /\ UNCHANGED <<spent, acted, settings, rules, overwrote, discovery>>

ReceiveUncaught(u) ==
  /\ user[u].phase = "sent"
  /\ \/ user[u].answer = "ok" /\ Advance(u, 1)
     \/ user[u].answer # "ok" /\ user' = [user EXCEPT ![u] = [@ EXCEPT !.phase = "failed", !.answer = "none"]]
  /\ UNCHANGED <<spent, acted, settings, rules, overwrote, discovery>>

Receive(u) ==
  /\ user[u].phase = "sent"
  /\ \/ user[u].answer = "ok" /\ Advance(u, 1)
     \/ user[u].answer # "ok" /\ CallOf(u).skip > 0 /\ Advance(u, CallOf(u).skip)
     \/ /\ user[u].answer # "ok" /\ CallOf(u).skip = 0
        /\ user' = [user EXCEPT ![u] = [@ EXCEPT !.phase = "failed", !.answer = "none"]]
  /\ UNCHANGED <<spent, acted, settings, rules, overwrote, discovery>>

ClientsNext ==
  \/ \E u \in Users : \/ \E run \in Runs[u] : Start(u, run)
                      \/ \E edit \in Edits(u), ipFilter \in {"open", "shut"},
                            refusal \in Refusals, delivered \in BOOLEAN :
                           Handle(u, edit, ipFilter, refusal, delivered)
                      \/ Undelivered(u, "lost") \/ Undelivered(u, "throttled")
                      \/ FromCache(u) \/ Receive(u)
  \/ CacheExpires \/ RestartGateway

ClientsSpec == ClientsInit /\ [][ClientsNext]_clientVars

-----------------------------------------------------------------------------

\* Every call of every client reaches a route that accepts its method, its kind
\* of token and its fields, and carries a signature the gateway has not seen,
\* whatever was lost, refused or retried before it; but for the two dashboard
\* forms that use one host JWT for two calls, where the second is refused as a
\* replay: the project change of an edit, the auto-test of a new connection.
\* (What is wrong with the token or the identity, what the handler objects to,
\* the IP filter and the limiter may refuse any call.)
RefusalsAreReplays ==
  \A u \in Users : user[u].phase = "sent" =>
    /\ user[u].answer \notin {"notFound", "unauthorized", "invalid"}
    /\ user[u].answer = "replayed" => user[u].run \in {"edit agent", "register connection"}

\* ConnectionsView.tsx: "Auto-test the freshly registered connection so the
\* operator immediately knows if it works": the gateway runs the test, unless it
\* has a reason that lies in the operator's identity or in the connection.
AutoTestRuns ==
  \A u \in Users :
    user[u].run = "register connection" /\ user[u].phase = "sent" /\ user[u].at = 3
      => user[u].answer # "replayed"

\* A program that reports failure leaves no earlier change of its own behind,
\* except the edit form: its rename stands when the project change is refused.
PartialOnlyEdits ==
  \A u \in Users : user[u].phase = "failed" /\ (\E i \in 1..6 : <<u, i>> \in acted /\ i # user[u].at)
    => user[u].run = "edit agent"

\* The security panel never replaces a policy it has not seen, and a rule that
\* was in force since the gateway started disappears only because a Policy tab
\* that had loaded it took it out, or because one saved a copy that is older
\* than the policy in force: another operator's, or its own after the answer to
\* its last save got lost.
RulesLostToPolicyTabsOnly ==
  /\ \A u \in Users : user[u].run = "security" => u \notin overwrote
  /\ rules.enacted \ (settings.policy \cup rules.removed) # {}
       => \E v \in overwrote : user[v].run = "policy"

\* gatewayApp.ts: a bad rule "can always be undone by the (host-authenticated)
\* operator": while one is in force, every call a settings tab has to make is
\* still answered, by the gateway or from the browser's cache.
RulesCanBeUndone ==
  settings.ipFilter = "shut" => \A i \in DOMAIN SettingsTab :
    \/ Verdict(Targets["policy"][i], Forwarded(SettingsTab[i]), FALSE, TRUE, "none") = "ok"
    \/ SettingsTab[i] = GetIssuer /\ discovery
=============================================================================
