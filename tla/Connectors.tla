----------------------------- MODULE Connectors -----------------------------
(***************************************************************************)
(* The manifest driver, and the credential of one connection through       *)
(* registration, rotation, testing and deletion.                           *)
(*                                                                         *)
(* A secret is the set of its fields that are not blank; what its values    *)
(* make of the manifest's base URL, a URL or an "odd" text that new URL    *)
(* rejects; and baseUrl, the override, which the driver also looks at when *)
(* it is blank: "unfillable" names a missing field, "odd" is no URL or, as *)
(* "/" is, nothing once its slashes are stripped.                          *)
(***************************************************************************)
EXTENDS Naturals, Manifests

CONSTANTS
  Testers,       \* test requests that may be in flight together
  MaxRotations   \* bound on the rotations of the credential

VARIABLES
  vault,   \* the connection's row: its credential and last_test
  tests    \* the test requests in flight

connectorVars == <<vault, tests>>

ASSUME ConnectorAssumption == MaxRotations \in Nat

Secret(fields, base, baseUrl) == [fields |-> fields, base |-> base, baseUrl |-> baseUrl]

-----------------------------------------------------------------------------
(* The driver.                                                             *)

\* fillTemplate: a template that names a missing field is missing.
Filled(template, secret) == template \subseteq secret.fields

normalizeSecretNot(secret) == secret

normalizeSecret(secret) ==
  IF "basic" \in secret.fields \/ "username" \notin secret.fields THEN secret
  ELSE [secret EXCEPT !.fields = @ \cup {"basic"}]

validateBaseOnly(m, raw) == Filled(m.base, normalizeSecret(raw))

validateCredential(m, raw) ==
  LET secret == normalizeSecret(raw)
  IN \A template \in {m.base, m.headers, m.query} : Filled(template, secret)

\* The base URL's text: "missing" when runOperation throws for it, "odd" when
\* new URL does.
BaseText(m, secret) ==
  CASE secret.baseUrl = "absent" -> IF Filled(m.base, secret) THEN secret.base ELSE "missing"
    [] secret.baseUrl \in {"", "unfillable"} -> "missing"
    [] secret.baseUrl \in {"odd", "url"} -> secret.baseUrl

\* The request of an operation: thrown away unless its base is a URL.  A header
\* that cannot be filled is left out, a query parameter is sent blank, and so is
\* a path parameter that is no argument.
runOperation(m, op, args, raw) ==
  LET secret == normalizeSecret(raw) IN
  [base |-> BaseText(m, secret),
   headers |-> m.headers \cap secret.fields,
   query |-> m.query \cap secret.fields,
   path |-> IF op.kind = "graphql" THEN {} ELSE op.params \cap args,
   inQuery |-> IF op.kind = "get" THEN args \ op.params ELSE {},
   inBody |-> CASE op.kind = "get" -> {}
                [] op.kind = "graphql" -> args
                [] OTHER -> args \ op.params]

\* send: what of the platform's answers is a success.
PlatformAnswers == {"success", "graphql errors", "http error", "unreachable"}
send(answer) == answer = "success"

\* deriveCredentialFields, and what the dashboard's form submits: every field
\* is required.  A platform without fields is registered with raw JSON.
deriveCredentialFields(m) ==
  LET keys == m.base \cup m.headers \cup m.query
  IN (keys \ {"basic"}) \cup (IF "basic" \in keys THEN {"username", "password"} ELSE {})

\* What a person may enter for the fields of the base URL: an odd text where
\* they name the host, anything where they are in its path.
Typed(m) == IF m.base \cap HostFields = {} THEN {"url"} ELSE {"url", "odd"}

\* Raw JSON may leave fields out and may name baseUrl.
RawSecrets(m) ==
  [fields: SUBSET (deriveCredentialFields(m) \cup (m.headers \cap {"basic"})),
   base: Typed(m), baseUrl: {"absent", "", "unfillable", "odd", "url"}]

-----------------------------------------------------------------------------
(* The connection.                                                         *)

NoVault == [status |-> "none"]
Deleted == [status |-> "deleted"]
Stored == vault.status = "stored"
Untested == [ok |-> FALSE, checked |-> "never", rotation |-> 0]
NoProbe == [step |-> "idle", ok |-> FALSE, checked |-> "never", rotation |-> 0]

ConnectorInit == vault = NoVault /\ tests = [t \in Testers |-> NoProbe]

Stores(m, secret, from) ==
  /\ vault = NoVault
  /\ vault' = [status |-> "stored", manifest |-> m, secret |-> secret, from |-> from,
               rotation |-> 0, last_test |-> Untested]
  /\ UNCHANGED tests

FormRegisters ==
  \E m \in BUNDLED_MANIFESTS : \E base \in Typed(m) :
    /\ deriveCredentialFields(m) # {}
    /\ Stores(m, Secret(deriveCredentialFields(m), base, "absent"), "form")

RawRegisters == \E m \in BUNDLED_MANIFESTS : \E secret \in RawSecrets(m) : Stores(m, secret, "raw")

\* updateConnection with a secret: last_test is left as it was.
Rotate ==
  /\ Stored
  /\ \E secret \in RawSecrets(vault.manifest) :
       /\ vault.rotation < MaxRotations
       /\ vault' = [vault EXCEPT !.secret = secret, !.rotation = @ + 1, !.from = "raw"]
  /\ UNCHANGED tests

DeleteVault ==
  /\ Stored
  /\ vault' = Deleted
  /\ UNCHANGED tests

\* testConnection reads the credential and runs testCredential up to its fetch.
TestStarts(t) ==
  LET m == vault.manifest
      whole == validateCredential(m, vault.secret)
      live == whole /\ m.test # NoTest
      sent == live /\ runOperation(m, m.test, {}, vault.secret).base = "url"
  IN /\ Stored /\ tests[t] = NoProbe
     /\ tests' = [tests EXCEPT ![t] =
          [step |-> IF sent THEN "fetch" ELSE "record", ok |-> whole /\ ~live,
           checked |-> IF live THEN "live" ELSE "structure", rotation |-> vault.rotation]]
     /\ UNCHANGED vault

TestAnswered(t) ==
  /\ tests[t].step = "fetch"
  /\ \E answer \in PlatformAnswers :
       tests' = [tests EXCEPT ![t].step = "record", ![t].ok = send(answer)]
  /\ UNCHANGED vault

\* recordTest updates the row if it is still there.
RecordTest(t) ==
  /\ tests[t].step = "record"
  /\ tests' = [tests EXCEPT ![t] = NoProbe]
  /\ vault' = IF Stored
              THEN [vault EXCEPT !.last_test = [ok |-> tests[t].ok, checked |-> tests[t].checked,
                                                rotation |-> tests[t].rotation]]
              ELSE vault

ConnectorNext ==
  \/ FormRegisters \/ RawRegisters \/ Rotate \/ DeleteVault
  \/ \E t \in Testers : TestStarts(t) \/ TestAnswered(t) \/ RecordTest(t)

ConnectorSpec == ConnectorInit /\ [][ConnectorNext]_connectorVars

-----------------------------------------------------------------------------
\* What the driver sends: the operations, and the probe where there is one.
Sendable(m) ==
  {m.operations[name] : name \in DOMAIN m.operations} \cup ({m.test} \ {NoTest})

\* Given every argument, the request lacks nothing that the manifest names.
Lacking(m, op, secret) ==
  LET req == runOperation(m, op, op.params, secret) IN
  req.base = "missing" \/ req.headers # m.headers \/ req.query # m.query \/ req.path # op.params

Whole(m, op, secret) ==
  ~Lacking(m, op, secret) /\ runOperation(m, op, op.params, secret).base = "url"

(***************************************************************************)
(* The fields the dashboard asks for are the fields the driver needs: a    *)
(* connection registered with the form and not rotated since lacks nothing *)
(* for any operation of its platform nor for its probe, for each of the    *)
(* bundled manifests (deriveCredentialFields expands `basic`, which        *)
(* normalizeSecret has to put together again); and each of them can be     *)
(* sent unless what was typed for the host is no part of a URL, which the  *)
(* form does not look at.                                                  *)
(***************************************************************************)
FormsAreComplete ==
  Stored /\ vault.from = "form" =>
    \A op \in Sendable(vault.manifest) :
      /\ ~Lacking(vault.manifest, op, vault.secret)
      /\ vault.secret.base = "url" => Whole(vault.manifest, op, vault.secret)

(***************************************************************************)
(* A green light in the vault that is about the credential in use means    *)
(* that every operation can be sent whole, whichever tests overlapped and  *)
(* although the probe exercises one operation only.  A platform without a  *)
(* probe is excepted: the structural test fills the manifest's base URL    *)
(* but looks neither at the override nor at whether the text is a URL, so  *)
(* a blank, unfillable or odd baseUrl, or an odd webhook URL, passes and   *)
(* every operation then throws.                                            *)
(***************************************************************************)
GreenMeansComplete ==
  Stored /\ vault.last_test.ok /\ vault.last_test.rotation = vault.rotation =>
    \/ /\ vault.last_test.checked = "structure"
       /\ \/ vault.secret.baseUrl \in {"", "unfillable", "odd"}
          \/ vault.secret.baseUrl = "absent" /\ vault.secret.base = "odd"
    \/ \A op \in Sendable(vault.manifest) : Whole(vault.manifest, op, vault.secret)
=============================================================================
