------------------------------ MODULE Gateway -------------------------------
(***************************************************************************)
(* The gateway process: start-up, the middleware every request crosses     *)
(* (IP filter, two fixed-window rate limiters), the runtime settings those *)
(* middlewares read live and PATCH /admin/config writes, the error handler *)
(* with the security event stream it publishes to, the SSE route, and the  *)
(* shutdown on a signal.                                                   *)
(*                                                                         *)
(* Node runs one callback at a time: what happens between two awaits is one*)
(* action.  A request crosses the whole middleware chain in its first step,*)
(* then awaits the JWT pipeline and then its handler's statement.  Its     *)
(* client may go away at any time; the handler goes on without it.         *)
(***************************************************************************)
EXTENDS FixedWindow, Integers, Sequences, FiniteSets

CONSTANTS
  Ips,            \* client addresses
  Reqs,           \* requests, each made once
  Static,         \* the settings that the static configuration seeds
  Patches,        \* bodies of PATCH /admin/config
  Other,          \* a patch field that is absent or has the wrong type
  IpWindow,       \* 60_000 ms
  RegisterWindow, \* 3_600_000 ms
  MaxTime         \* bound on the clock

VARIABLES
  phase,      \* where main() is
  pool,       \* the connection pool of the storage driver
  signals,    \* how often SIGTERM or SIGINT has arrived
  settings,   \* RuntimeSettings.current
  now,        \* Date.now
  bucket,     \* the Map of each rate limiter
  lastSweep,  \* when each limiter last swept its Map
  req,        \* what each request is doing
  listeners,  \* the subscribers of the event stream
  published,  \* number of events published
  admitted,   \* what each limiter let through: in which window, under which limit
  applied,    \* patches that changed the settings
  audited     \* patches with a row in audit_log

vars == <<phase, pool, signals, settings, now, bucket, lastSweep, req,
          listeners, published, admitted, applied, audited>>

Limiters == {"ip", "register"}

Paths == {"config", "events", "register", "api", "healthz"}

Settings == [limiting: BOOLEAN, ip: Nat, register: Nat, filtering: BOOLEAN,
             mode: {"allow", "deny"}, entries: SUBSET SUBSET Ips]

\* An entry of the IP list is modelled by the set of addresses it matches.
Patch == [limiting: BOOLEAN \cup {Other}, ip: Int \cup {Other},
          register: Int \cup {Other}, filtering: BOOLEAN \cup {Other},
          mode: {"allow", "deny", Other}, entries: {Other} \cup SUBSET SUBSET Ips]

ASSUME GatewayAssumption ==
  /\ Static \in Settings
  /\ Patches \subseteq Patch
  /\ Other \notin BOOLEAN /\ Other \notin Int
  /\ Other \notin {"allow", "deny"} /\ \A s \in SUBSET SUBSET Ips : Other # s
  /\ {IpWindow, RegisterWindow} \subseteq Nat \ {0}
  /\ MaxTime \in Nat

WindowMs(l) == IF l = "ip" THEN IpWindow ELSE RegisterWindow

Phases == {"config", "init", "migrate", "listen", "listening", "draining",
           "closing", "exited", "failed"}

Answers == {"none", "ok", "blocked", "limited", "refused", "failed"}

\* conn: the client is connected; since and got count the events of a stream.
Request == [step: {"idle", "pipeline", "work", "audit", "stream", "done"},
            path: Paths, conn: BOOLEAN, answer: Answers,
            body: Patches \cup {Other}, since: Nat, got: Nat]

Idle == [step |-> "idle", path |-> "api", conn |-> FALSE, answer |-> "none",
         body |-> Other, since |-> 0, got |-> 0]

Admission == [until: Nat, limit: Nat]

TypeOK ==
  /\ phase \in Phases
  /\ pool \in {"none", "open", "ending"}
  /\ signals \in 0..2
  /\ settings \in Settings
  /\ now \in 1..MaxTime + 1
  /\ bucket \in [Limiters -> [Ips -> Bucket]]
  /\ lastSweep \in [Limiters -> Nat]
  /\ req \in [Reqs -> Request]
  /\ listeners \subseteq Reqs
  /\ published \in Nat
  /\ admitted \in [Limiters -> [Ips -> Seq(Admission)]]
  /\ applied \subseteq Reqs
  /\ audited \subseteq applied

Init ==
  /\ phase = "config" /\ pool = "none" /\ signals = 0
  /\ settings = Static
  /\ now = 1
  /\ bucket = [l \in Limiters |-> [ip \in Ips |-> NoBucket]]
  /\ lastSweep = [l \in Limiters |-> 1]
  /\ req = [r \in Reqs |-> Idle]
  /\ listeners = {} /\ published = 0
  /\ admitted = [l \in Limiters |-> [ip \in Ips |-> <<>>]]
  /\ applied = {} /\ audited = {}

-----------------------------------------------------------------------------
(* main(): fails fast on any error of a step.                              *)

Boot ==
  /\ \/ phase = "config" /\ phase' \in {"init", "failed"} /\ UNCHANGED pool
     \/ phase = "init" /\ phase' \in {"migrate", "failed"} /\ pool' = "open"
     \/ phase = "migrate" /\ phase' \in {"listen", "failed"} /\ UNCHANGED pool
     \/ phase = "listen" /\ phase' \in {"listening", "failed"} /\ UNCHANGED pool
  /\ UNCHANGED <<signals, settings, now, bucket, lastSweep, req, listeners,
                 published, admitted, applied, audited>>

-----------------------------------------------------------------------------
(* The middleware chain.                                                   *)

skipInfra(path) == path \in {"healthz", "events", "config"}

Listed(ip) == \E e \in settings.entries : ip \in e

ipFilter(ip, path) ==
  /\ ~skipInfra(path)
  /\ settings.filtering /\ settings.entries # {}
  /\ IF settings.mode = "allow" THEN ~Listed(ip) ELSE Listed(ip)

\* A limiter counts the request: it is mounted on the path and not skipped.
Counts(l, path) ==
  /\ settings.limiting
  /\ IF l = "ip" THEN ~skipInfra(path) ELSE path = "register"

LimitOf(l) == IF l = "ip" THEN settings.ip ELSE settings.register

sweeps(l) == now - lastSweep[l] > WindowMs(l)

CheckSweepingAll(l, ip) ==
  [(IF sweeps(l) THEN [k \in Ips |-> NoBucket] ELSE bucket[l])
     EXCEPT ![ip] = Hit(@, now, WindowMs(l))]

\* The Map of limiter l after check(ip).
check(l, ip) ==
  [(IF sweeps(l) THEN Swept(bucket[l], now) ELSE bucket[l])
     EXCEPT ![ip] = Hit(@, now, WindowMs(l))]

allowed(l, ip) == check(l, ip)[ip].count <= LimitOf(l)

\* The register limiter only sees what the IP limiter lets through.
reaches(l, ip, path) ==
  /\ Counts(l, path)
  /\ l = "register" => allowed("ip", ip)

-----------------------------------------------------------------------------
(* Answers.  The error handler maps a code to an event, publishes it to    *)
(* every listener, isolating the ones that throw, and sends the envelope.  *)

\* A listener whose client has gone may throw when it is written to.
Broken(r) == ~req[r].conn

HearsUnisolated(r) == r \in listeners /\ \A q \in listeners : ~Broken(q)

Hears(r) == r \in listeners /\ ~Broken(r)

\* What is kept of an answered request: of a PATCH, how it was answered.
Answered(row, answer) ==
  [Idle EXCEPT !.step = "done",
     !.path = IF row.path = "config" THEN "config" ELSE @,
     !.answer = IF row.path = "config" THEN answer ELSE @]

\* The request r ends; its connection closes once the answer is sent.
Answer(r, row, answer, event) ==
  /\ req' = [q \in Reqs |->
               IF q = r
               THEN Answered(row, answer)
               ELSE IF event /\ Hears(q)
                    THEN [req[q] EXCEPT !.got = @ + 1] ELSE req[q]]
  /\ published' = IF event THEN published + 1 ELSE published

Goto(r, row) ==
  /\ req' = [req EXCEPT ![r] = row]
  /\ UNCHANGED published

\* express.json refuses the body before any middleware: a plain error, 500.
Malformed(r) ==
  /\ phase = "listening" /\ req[r].step = "idle"
  /\ Answer(r, Idle, "failed", FALSE)
  /\ UNCHANGED <<phase, pool, signals, settings, now, bucket, lastSweep,
                 listeners, admitted, applied, audited>>

\* A request and the chain up to its first await.
Arrive(r, ip, path, body) ==
  LET row == [Idle EXCEPT !.path = path, !.conn = TRUE, !.body = body]
      over == {l \in Limiters : reaches(l, ip, path) /\ ~allowed(l, ip)}
      hit == {l \in Limiters : ~ipFilter(ip, path) /\ reaches(l, ip, path)}
  IN
  /\ phase = "listening" /\ req[r].step = "idle"
  /\ path = "config" <=> body # Other
  /\ bucket' = [l \in Limiters |-> IF l \in hit THEN check(l, ip) ELSE bucket[l]]
  /\ lastSweep' = [l \in Limiters |->
                     IF l \in hit /\ sweeps(l) THEN now ELSE lastSweep[l]]
  /\ admitted' = [l \in Limiters |->
       IF l \in hit \ over
       THEN [admitted[l] EXCEPT ![ip] =
               Append(@, [until |-> check(l, ip)[ip].resetAt, limit |-> LimitOf(l)])]
       ELSE admitted[l]]
  /\ \/ ipFilter(ip, path) /\ Answer(r, row, "blocked", FALSE) /\ UNCHANGED listeners
     \/ /\ ~ipFilter(ip, path) /\ over # {}
        /\ Answer(r, row, "limited", TRUE) /\ UNCHANGED listeners
     \/ /\ ~ipFilter(ip, path) /\ over = {} /\ path = "healthz"
        /\ Answer(r, row, "ok", FALSE) /\ UNCHANGED listeners
     \/ /\ ~ipFilter(ip, path) /\ over = {} /\ path = "events"
        /\ Goto(r, [row EXCEPT !.step = "stream", !.since = published])
        /\ listeners' = listeners \cup {r}
     \/ /\ ~ipFilter(ip, path) /\ over = {} /\ path \notin {"healthz", "events"}
        /\ Goto(r, [row EXCEPT !.step = "pipeline"]) /\ UNCHANGED listeners
  /\ UNCHANGED <<phase, pool, signals, settings, now, applied, audited>>

-----------------------------------------------------------------------------
(* The rest of a request.                                                  *)

clampInt(v, fallback) == IF v \in Nat THEN v ELSE fallback

given(v, fallback) == IF v # Other THEN v ELSE fallback

\* RuntimeSettingsStore.update: what is missing or invalid keeps its value.
update(p) ==
  [limiting  |-> given(p.limiting, settings.limiting),
   ip        |-> clampInt(p.ip, settings.ip),
   register  |-> clampInt(p.register, settings.register),
   filtering |-> given(p.filtering, settings.filtering),
   mode      |-> given(p.mode, settings.mode),
   entries   |-> given(p.entries, settings.entries)]

\* The pipeline answers: refused, with or without a security event, or passed.
\* A PATCH then updates the settings at once and awaits the append.
Pipeline(r) ==
  /\ req[r].step = "pipeline"
  /\ \/ /\ \E event \in BOOLEAN : Answer(r, req[r], "refused", event)
        /\ UNCHANGED <<settings, applied>>
     \/ /\ pool # "open" /\ Answer(r, req[r], "failed", FALSE)
        /\ UNCHANGED <<settings, applied>>
     \/ /\ pool = "open" /\ req[r].path = "config"
        /\ settings' = update(req[r].body)
        /\ applied' = applied \cup {r}
        /\ Goto(r, [req[r] EXCEPT !.step = "audit"])
     \/ /\ pool = "open" /\ req[r].path # "config"
        /\ Goto(r, [req[r] EXCEPT !.step = "work"])
        /\ UNCHANGED <<settings, applied>>
  /\ UNCHANGED <<phase, pool, signals, now, bucket, lastSweep, listeners,
                 admitted, audited>>

\* The audit row of a PATCH: a failed append answers 500, the change stays.
AuditSwallowed(r) ==
  /\ req[r].step = "audit"
  /\ Answer(r, req[r], "ok", FALSE)
  /\ audited' \in {audited, audited \cup {r}}
  /\ UNCHANGED <<phase, pool, signals, settings, now, bucket, lastSweep, listeners,
                 admitted, applied>>

Audit(r) ==
  /\ req[r].step = "audit"
  /\ \/ /\ pool = "open" /\ audited' = audited \cup {r}
        /\ Answer(r, req[r], "ok", FALSE)
     \/ UNCHANGED audited /\ Answer(r, req[r], "failed", FALSE)
  /\ UNCHANGED <<phase, pool, signals, settings, now, bucket, lastSweep, listeners,
                 admitted, applied>>

WorkUnanswered(r) ==
  /\ req[r].step = "work"
  /\ \/ pool = "open" /\ Answer(r, req[r], "ok", FALSE)
     \/ Goto(r, [req[r] EXCEPT !.step = "done"])
  /\ UNCHANGED <<phase, pool, signals, settings, now, bucket, lastSweep, listeners,
                 admitted, applied, audited>>

\* The handler of any other route, its statements taken as one.
Work(r) ==
  /\ req[r].step = "work"
  /\ \/ pool = "open" /\ Answer(r, req[r], "ok", FALSE)
     \/ \E event \in BOOLEAN : Answer(r, req[r], "failed", event)
  /\ UNCHANGED <<phase, pool, signals, settings, now, bucket, lastSweep, listeners,
                 admitted, applied, audited>>

\* The client goes away: its handler does not notice.
Disconnect(r) ==
  /\ req[r].conn
  /\ Goto(r, [req[r] EXCEPT !.conn = FALSE])
  /\ UNCHANGED <<phase, pool, signals, settings, now, bucket, lastSweep, listeners,
                 admitted, applied, audited>>

\* req.on('close') of a stream: unsubscribe.
CloseStream(r) ==
  /\ req[r].step = "stream" /\ ~req[r].conn
  /\ listeners' = listeners \ {r}
  /\ Goto(r, Answered(req[r], "ok"))
  /\ UNCHANGED <<phase, pool, signals, settings, now, bucket, lastSweep,
                 admitted, applied, audited>>

-----------------------------------------------------------------------------
(* Shutdown.  server.close stops listening and calls back when the last    *)
(* connection has closed; each signal registers one more callback.         *)

Signal ==
  /\ phase \in {"listening", "draining"} /\ signals < 2
  /\ signals' = signals + 1
  /\ phase' = "draining"
  /\ UNCHANGED <<pool, settings, now, bucket, lastSweep, req, listeners, published,
                 admitted, applied, audited>>

CloseStorageAtOnce ==
  /\ phase = "draining"
  /\ phase' = "closing" /\ pool' = "ending"
  /\ UNCHANGED <<signals, settings, now, bucket, lastSweep, req, listeners,
                 published, admitted, applied, audited>>

CloseStorage ==
  /\ phase = "draining"
  /\ \A r \in Reqs : ~req[r].conn
  /\ phase' = "closing" /\ pool' = "ending"
  /\ UNCHANGED <<signals, settings, now, bucket, lastSweep, req, listeners,
                 published, admitted, applied, audited>>

\* storage.close() settles - with an error when a second callback ended the
\* pool again - and the process exits, handlers without a client or not.
ProcessExit ==
  /\ phase = "closing"
  /\ phase' = "exited"
  /\ UNCHANGED <<pool, signals, settings, now, bucket, lastSweep, req, listeners,
                 published, admitted, applied, audited>>

\* Time matters only while a window is open.
Tick ==
  /\ phase = "listening" /\ now <= MaxTime
  /\ \E l \in Limiters, ip \in Ips : bucket[l][ip].resetAt >= now
  /\ now' = now + 1
  /\ UNCHANGED <<phase, pool, signals, settings, bucket, lastSweep, req, listeners,
                 published, admitted, applied, audited>>

Running == phase \in {"listening", "draining", "closing"}

Step(r) ==
  /\ Running
  /\ \/ Pipeline(r) \/ Audit(r) \/ Work(r) \/ CloseStream(r)

Next ==
  \/ Boot \/ Signal \/ CloseStorage \/ ProcessExit \/ Tick
  \/ \E r \in Reqs :
       \/ Malformed(r)
       \/ \E ip \in Ips, path \in Paths, body \in Patches \cup {Other} :
            Arrive(r, ip, path, body)
       \/ Running /\ Disconnect(r)
       \/ Step(r)

\* A handler that may go on does, and so do the callbacks of the shutdown.
Fairness ==
  /\ \A r \in Reqs : WF_vars(Step(r))
  /\ WF_vars(CloseStorage) /\ WF_vars(ProcessExit)

Spec == Init /\ [][Next]_vars /\ Fairness

-----------------------------------------------------------------------------
(* Properties.                                                             *)

\* createRateLimiter: one window lets through no more than a limit that was in
\* force during it, and the windows of one address do not overlap - so no span
\* of one window's length lets through more than two windows' worth - although
\* limit and switch change at run time, refused hits count and the Map is
\* swept lazily.
BurstIsBounded ==
  \A l \in Limiters, ip \in Ips :
    LET adm == admitted[l][ip] IN
    \A i \in DOMAIN adm :
      LET same == {j \in DOMAIN adm : adm[j].until = adm[i].until} IN
      /\ \E j \in same : Cardinality(same) <= adm[j].limit
      /\ \A j \in 1 .. i - 1 : j \in same \/ adm[j].until + WindowMs(l) <= adm[i].until

\* securityEventStream.ts: "one bad subscriber can't break others": a
\* connected subscriber has got every event since it subscribed.
SubscribersHearAll ==
  \A r \in listeners : req[r].conn => req[r].got = published - req[r].since

\* PATCH /admin/config, "writes are audited": a change of the settings that
\* has no audit row is never reported as a success.
PatchesAreAccounted ==
  \A r \in applied :
    /\ req[r].step = "audit" \/ req[r].answer \in {"ok", "failed"}
    /\ r \in audited <=> req[r].answer = "ok"

\* index.ts: storage is closed in the callback of server.close: a request
\* whose client still waits never meets a closing pool.
StorageOutlivesClients ==
  phase \in {"listening", "draining"} \/ (\E r \in Reqs : req[r].conn) =>
    pool = "open"

\* A gateway that was told to stop stops, once the event streams are gone:
\* an open /events keeps server.close waiting for ever.
DrainCompletes ==
  (phase = "draining" /\ \A r \in Reqs : req[r].step = "stream" => ~req[r].conn)
    ~> phase = "exited"

=============================================================================
