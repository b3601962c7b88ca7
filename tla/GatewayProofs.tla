---------------------------- MODULE GatewayProofs ----------------------------
(***************************************************************************)
(* The gateway process, for any set of addresses and requests, any static  *)
(* settings and patches of them, and any two window lengths.               *)
(***************************************************************************)
EXTENDS Gateway, FiniteSetTheorems, TLAPS

-----------------------------------------------------------------------------
(* What the steps do to a request, field by field *)

LEMMA IdleType ==
  /\ Idle \in Request
  /\ Idle.step = "idle" /\ Idle.conn = FALSE /\ Idle.answer = "none"
  BY DEF Idle, Request, Paths, Answers

LEMMA AnsweredType ==
  ASSUME NEW row \in Request, NEW answer \in Answers
  PROVE  LET e == Answered(row, answer) IN
         /\ e \in Request /\ e.step = "done" /\ e.conn = FALSE
         /\ row.path = "config" => e.answer = answer
  <1> DEFINE p == IF row.path = "config" THEN "config" ELSE "api"
             y == IF row.path = "config" THEN answer ELSE "none"
             e == [Idle EXCEPT !.step = "done", !.path = p, !.answer = y]
  <1>1. Answered(row, answer) = e
    BY DEF Answered, Idle
  <1>2. p \in Paths /\ y \in Answers /\ (row.path = "config" => y = answer)
    BY DEF Paths, Answers
  <1> HIDE DEF p, y
  <1>3. e \in Request /\ e.step = "done" /\ e.conn = FALSE /\ e.answer = y
    BY <1>2 DEF Idle, Request
  <1>4. QED
    BY <1>1, <1>2, <1>3

\* The fields of a request that an event does not change.
SameButGot(e, f) ==
  /\ e.step = f.step /\ e.path = f.path /\ e.conn = f.conn /\ e.answer = f.answer
  /\ e.body = f.body /\ e.since = f.since

\* An answer ends r; an event is heard by every subscriber whose client is there.
AnswerDone(r, row, answer, event) ==
  /\ req' \in [Reqs -> Request] /\ published' \in Nat
  /\ req'[r].step = "done" /\ req'[r].conn = FALSE
  /\ row.path = "config" => req'[r].answer = answer
  /\ \A q \in Reqs : q # r =>
       /\ SameButGot(req'[q], req[q])
       /\ req'[q].got = IF event /\ q \in listeners /\ req[q].conn THEN req[q].got + 1
                                                                    ELSE req[q].got
  /\ published' = IF event THEN published + 1 ELSE published

LEMMA AnswerEffect ==
  ASSUME req \in [Reqs -> Request], published \in Nat, NEW r \in Reqs, NEW row \in Request,
         NEW answer \in Answers, NEW event \in BOOLEAN, Answer(r, row, answer, event)
  PROVE  AnswerDone(r, row, answer, event)
  <1> DEFINE e == Answered(row, answer)
             heard(q) == event /\ Hears(q)
             got(q) == [req[q] EXCEPT !.got = req[q].got + 1]
  <1>1. /\ e \in Request /\ e.step = "done" /\ e.conn = FALSE
        /\ row.path = "config" => e.answer = answer
    BY AnsweredType
  <1>2. ASSUME NEW q \in Reqs
        PROVE  /\ got(q) \in Request /\ SameButGot(got(q), req[q])
               /\ got(q).got = req[q].got + 1 /\ SameButGot(req[q], req[q])
    BY DEF Request, SameButGot
  <1>3. \A q \in Reqs : heard(q) <=> (event /\ q \in listeners /\ req[q].conn)
    BY DEF Hears, Broken
  <1>4. /\ req' = [q \in Reqs |-> IF q = r THEN e ELSE IF heard(q) THEN got(q) ELSE req[q]]
        /\ published' = IF event THEN published + 1 ELSE published
    BY DEF Answer
  <1>5. published' \in Nat
    BY <1>4
  <1> HIDE DEF e, heard, got
  <1>6. req' \in [Reqs -> Request] /\ req'[r] = e
    BY <1>1, <1>2, <1>4
  <1>7. ASSUME NEW q \in Reqs, q # r
        PROVE  /\ SameButGot(req'[q], req[q])
               /\ req'[q].got = IF event /\ q \in listeners /\ req[q].conn THEN req[q].got + 1
                                                                            ELSE req[q].got
    <2>1. req'[q] = IF heard(q) THEN got(q) ELSE req[q]
      BY <1>4, <1>7
    <2>2. QED
      BY <1>2, <1>3, <2>1
  <1>8. QED
    BY <1>1, <1>4, <1>5, <1>6, <1>7 DEF AnswerDone

LEMMA GotoEffect ==
  ASSUME req \in [Reqs -> Request], NEW r \in Reqs, NEW row \in Request, Goto(r, row)
  PROVE  /\ req' \in [Reqs -> Request] /\ req'[r] = row /\ published' = published
         /\ \A q \in Reqs : q # r => req'[q] = req[q]
  BY DEF Goto

\* The row of a request as it enters the chain.
Entering(path, body) == [Idle EXCEPT !.path = path, !.conn = TRUE, !.body = body]

\* ... as it goes on to the pipeline, and as it subscribes.
Passing(path, body) == [Entering(path, body) EXCEPT !.step = "pipeline"]

Subscribing(path, body) ==
  [Entering(path, body) EXCEPT !.step = "stream", !.since = published]

LEMMA EnteringType ==
  ASSUME NEW path \in Paths, NEW body \in Patches \cup {Other}, published \in Nat
  PROVE  /\ Entering(path, body) \in Request /\ Entering(path, body).path = path
         /\ Passing(path, body) \in Request /\ Passing(path, body).step = "pipeline"
         /\ Passing(path, body).path = path /\ Passing(path, body).body = body
         /\ Passing(path, body).answer = "none"
         /\ Subscribing(path, body) \in Request /\ Subscribing(path, body).step = "stream"
         /\ Subscribing(path, body).since = published /\ Subscribing(path, body).got = 0
  <1> DEFINE x == Entering(path, body)
             B == Patches \cup {Other}
  <1>1. body \in B /\ Request = [step: {"idle", "pipeline", "work", "audit", "stream", "done"},
                                 path: Paths, conn: BOOLEAN, answer: Answers,
                                 body: B, since: Nat, got: Nat]
    BY DEF Request
  <1> HIDE DEF B
  <1>2. /\ x \in Request /\ x.path = path /\ x.body = body /\ x.answer = "none"
        /\ x.got = 0
    BY <1>1 DEF Entering, Idle, Answers
  <1> HIDE DEF x
  <1>3. LET e == [x EXCEPT !.step = "pipeline"] IN
            /\ e \in Request /\ e.step = "pipeline" /\ e.path = path /\ e.body = body
            /\ e.answer = "none"
    BY <1>1, <1>2
  <1>4. LET e == [x EXCEPT !.step = "stream", !.since = published] IN
            /\ e \in Request /\ e.step = "stream" /\ e.since = published /\ e.got = 0
    BY <1>1, <1>2
  <1>5. QED
    BY <1>2, <1>3, <1>4 DEF x, Passing, Subscribing

-----------------------------------------------------------------------------
(* What the limiters do *)

\* One check: the entry of the address is counted on or opened anew, and
\* nothing but windows that are over is swept.
LEMMA CheckEffect ==
  ASSUME TypeOK, NEW l \in Limiters, NEW ip \in Ips
  PROVE  /\ check(l, ip) \in [Ips -> Bucket]
         /\ bucket[l][ip].resetAt > now =>
              /\ check(l, ip)[ip].count = bucket[l][ip].count + 1
              /\ check(l, ip)[ip].resetAt = bucket[l][ip].resetAt
         /\ bucket[l][ip].resetAt <= now =>
              /\ check(l, ip)[ip].count = 1
              /\ check(l, ip)[ip].resetAt = now + WindowMs(l)
         /\ \A q \in Ips : q # ip =>
              \/ check(l, ip)[q] = bucket[l][q]
              \/ bucket[l][q].resetAt <= now /\ check(l, ip)[q] = NoBucket
  <1> DEFINE m == bucket[l]
             s == IF sweeps(l) THEN Swept(m, now) ELSE m
             W == WindowMs(l)
             h == Hit(s[ip], now, W)
  <1>1. /\ m \in [Ips -> Bucket] /\ now \in Nat /\ W \in Nat /\ now > 0
        /\ NoBucket \in Bucket /\ NoBucket.resetAt = 0
    BY GatewayAssumption DEF TypeOK, Limiters, WindowMs, NoBucket, Bucket
  <1>2. check(l, ip) = [s EXCEPT ![ip] = h]
    BY DEF check
  <1> HIDE DEF m, W
  <1>3. /\ s \in [Ips -> Bucket]
        /\ \A q \in Ips : s[q] = m[q] \/ (m[q].resetAt <= now /\ s[q] = NoBucket)
    BY <1>1 DEF Swept
  <1> HIDE DEF s
  <1> DEFINE b == s[ip]
  <1>4. b \in Bucket /\ b.count \in Nat /\ b.resetAt \in Nat
    BY <1>3 DEF Bucket
  <1>5. h \in Bucket
        /\ (b.resetAt > now => h.count = b.count + 1 /\ h.resetAt = b.resetAt)
        /\ (b.resetAt <= now => h.count = 1 /\ h.resetAt = now + W)
    <2> HIDE DEF b
    <2>1. h = IF b.resetAt <= now THEN [count |-> 1, resetAt |-> now + W]
                                  ELSE [count |-> b.count + 1, resetAt |-> b.resetAt]
      BY DEF Hit, b
    <2> HIDE DEF h
    <2>2. QED
      BY <1>1, <1>4, <2>1 DEF Bucket
  <1>6. /\ b = m[ip] \/ (m[ip].resetAt <= now /\ b.resetAt = 0)
        /\ m[ip].resetAt \in Nat
    BY <1>1, <1>3 DEF Bucket
  <1> HIDE DEF h, b
  <1>7. check(l, ip) \in [Ips -> Bucket] /\ check(l, ip)[ip] = h
        /\ \A q \in Ips : q # ip => check(l, ip)[q] = s[q]
    BY <1>2, <1>3, <1>5
  <1>8. /\ m[ip].resetAt > now => h.count = m[ip].count + 1 /\ h.resetAt = m[ip].resetAt
        /\ m[ip].resetAt <= now => h.count = 1 /\ h.resetAt = now + W
    BY <1>1, <1>5, <1>6
  <1>9. QED
    BY <1>3, <1>7, <1>8 DEF m, W

LEMMA LimitType ==
  ASSUME TypeOK, NEW l \in Limiters
  PROVE  LimitOf(l) \in Nat
  BY DEF TypeOK, Limiters, LimitOf, Settings

\* A request is counted by the limiters in hit and let through by those not over.
LEMMA ArriveCounts ==
  ASSUME TypeOK, NEW r, NEW ip \in Ips, NEW path, NEW body, Arrive(r, ip, path, body),
         NEW l \in Limiters
  PROVE  /\ \/ bucket'[l] = bucket[l] /\ admitted'[l] = admitted[l]
            \/ /\ bucket'[l] = check(l, ip)
               /\ \/ admitted'[l] = admitted[l]
                  \/ /\ check(l, ip)[ip].count <= LimitOf(l)
                     /\ admitted'[l] = [admitted[l] EXCEPT ![ip] =
                          Append(admitted[l][ip],
                                 [until |-> check(l, ip)[ip].resetAt, limit |-> LimitOf(l)])]
         /\ lastSweep'[l] = lastSweep[l] \/ lastSweep'[l] = now
  <1> DEFINE over == {m \in Limiters : reaches(m, ip, path) /\ ~allowed(m, ip)}
             hit == {m \in Limiters : ~ipFilter(ip, path) /\ reaches(m, ip, path)}
  <1>1. /\ bucket' = [m \in Limiters |-> IF m \in hit THEN check(m, ip) ELSE bucket[m]]
        /\ lastSweep' = [m \in Limiters |-> IF m \in hit /\ sweeps(m) THEN now ELSE lastSweep[m]]
        /\ admitted' = [m \in Limiters |->
             IF m \in hit \ over
             THEN [admitted[m] EXCEPT ![ip] =
                     Append(admitted[m][ip],
                            [until |-> check(m, ip)[ip].resetAt, limit |-> LimitOf(m)])]
             ELSE admitted[m]]
    BY DEF Arrive
  <1>2. l \in hit /\ l \notin over => check(l, ip)[ip].count <= LimitOf(l)
    BY DEF allowed
  <1> HIDE DEF hit, over
  <1>3. QED
    BY <1>1, <1>2

LEMMA ArriveCountsType ==
  ASSUME TypeOK, NEW r, NEW ip \in Ips, NEW path, NEW body, Arrive(r, ip, path, body)
  PROVE  /\ bucket' \in [Limiters -> [Ips -> Bucket]]
         /\ lastSweep' \in [Limiters -> Nat]
         /\ admitted' \in [Limiters -> [Ips -> Seq(Admission)]]
  <1>1. /\ bucket' = [l \in Limiters |-> bucket'[l]]
        /\ lastSweep' = [l \in Limiters |-> lastSweep'[l]]
        /\ admitted' = [l \in Limiters |-> admitted'[l]]
    BY DEF Arrive
  <1>2. ASSUME NEW l \in Limiters
        PROVE  /\ bucket'[l] \in [Ips -> Bucket] /\ lastSweep'[l] \in Nat
               /\ admitted'[l] \in [Ips -> Seq(Admission)]
    <2> DEFINE adm == admitted[l][ip]
               x == [until |-> check(l, ip)[ip].resetAt, limit |-> LimitOf(l)]
    <2>1. /\ bucket[l] \in [Ips -> Bucket] /\ lastSweep[l] \in Nat /\ now \in Nat
          /\ admitted[l] \in [Ips -> Seq(Admission)]
          /\ check(l, ip) \in [Ips -> Bucket]
      BY CheckEffect DEF TypeOK
    <2>2. x \in Admission
      BY <2>1, LimitType DEF Admission, Bucket
    <2>3. adm \in Seq(Admission)
      BY <2>1
    <2> DEFINE more == Append(adm, x)
    <2>4. more \in Seq(Admission)
      BY <2>2, <2>3
    <2>5. \/ admitted'[l] = admitted[l] \/ admitted'[l] = [admitted[l] EXCEPT ![ip] = more]
      BY ArriveCounts
    <2> HIDE DEF more
    <2>6. QED
      BY <2>1, <2>4, <2>5, ArriveCounts
  <1>3. QED
    BY <1>1, <1>2

-----------------------------------------------------------------------------
(* The life of a request and the life of the process *)

(***************************************************************************)
(* What is known of a request at each of its awaits: a PATCH that waits    *)
(* for its handler has a body and has not been applied, one that awaits    *)
(* its audit row has none yet, and one that is over has an answer that     *)
(* agrees with the audit; a subscriber has heard what was published since. *)
(***************************************************************************)
RowOK(r) ==
  /\ req[r].step = "pipeline" =>
       req[r].answer = "none" /\ (req[r].path = "config" => req[r].body \in Patches)
  /\ r \in listeners => req[r].step = "stream"
  /\ req[r].step \notin {"audit", "done"} => r \notin applied
  /\ req[r].step = "audit" => /\ req[r].path = "config" /\ req[r].answer = "none"
                              /\ r \notin audited /\ r \in applied
  /\ r \in applied /\ req[r].step = "done" =>
       req[r].answer \in {"ok", "failed"} /\ (r \in audited <=> req[r].answer = "ok")
  /\ r \in listeners /\ req[r].conn => req[r].got = published - req[r].since

\* The pool is open from init() to the callback of server.close, which waits for
\* the clients; before listen and after that callback there are none.
PoolOK ==
  /\ phase \in {"migrate", "listen", "listening", "draining"} => pool = "open"
  /\ phase \notin {"listening", "draining"} => \A r \in Reqs : ~req[r].conn

GateInv == TypeOK /\ PoolOK /\ \A r \in Reqs : RowOK(r)

LEMMA InitGate == Init => GateInv
  <1> SUFFICES ASSUME Init PROVE GateInv
    OBVIOUS
  <1>1. req \in [Reqs -> Request] /\ \A r \in Reqs : req[r] = Idle
    BY IdleType DEF Init
  <1>2. PoolOK /\ \A r \in Reqs : RowOK(r)
    BY <1>1, IdleType DEF Init, PoolOK, RowOK
  <1>3. bucket \in [Limiters -> [Ips -> Bucket]]
    BY DEF Init, NoBucket, Bucket
  <1>4. admitted \in [Limiters -> [Ips -> Seq(Admission)]]
    <2>1. <<>> \in Seq(Admission)
      OBVIOUS
    <2> DEFINE none == <<>>
    <2>2. admitted = [l \in Limiters |-> [ip \in Ips |-> none]]
      BY DEF Init
    <2> HIDE DEF none
    <2>3. QED
      BY <2>1, <2>2 DEF none
  <1>5. now \in 1..MaxTime + 1 /\ Static \in Settings
    BY GatewayAssumption DEF Init
  <1>6. TypeOK
    BY <1>1, <1>3, <1>4, <1>5 DEF Init, TypeOK, Phases
  <1>7. QED
    BY <1>2, <1>6 DEF GateInv

\* The request r ends: the others lose nothing, and hear of it if it is an event.
LEMMA AnswerRows ==
  ASSUME GateInv, NEW r \in Reqs, NEW row \in Request, NEW answer \in Answers,
         NEW event \in BOOLEAN, Answer(r, row, answer, event),
         listeners' = listeners, applied' = applied, r \notin listeners,
         \A q \in Reqs : q # r => (q \in audited' <=> q \in audited),
         r \in applied => /\ row.path = "config" /\ answer \in {"ok", "failed"}
                          /\ r \in audited' <=> answer = "ok"
  PROVE  \A q \in Reqs : RowOK(q)'
  <1>1. req \in [Reqs -> Request] /\ published \in Nat
    BY DEF GateInv, TypeOK
  <1>2. /\ req'[r].step = "done" /\ req'[r].conn = FALSE
        /\ row.path = "config" => req'[r].answer = answer
    <2>1. AnswerDone(r, row, answer, event)
      BY <1>1, AnswerEffect
    <2>2. QED
      BY <2>1 DEF AnswerDone
  <1>3. RowOK(r)'
    <2>1. r \in applied => /\ req'[r].answer \in {"ok", "failed"}
                           /\ r \in audited' <=> req'[r].answer = "ok"
      BY <1>2
    <2>2. req'[r].step = "done" /\ ~req'[r].conn
      BY <1>2
    <2>3. QED
      BY <2>1, <2>2 DEF RowOK
  <1>4. ASSUME NEW q \in Reqs, q # r PROVE RowOK(q)'
    <2>1. /\ SameButGot(req'[q], req[q])
          /\ req'[q].got = IF event /\ q \in listeners /\ req[q].conn THEN req[q].got + 1
                                                                       ELSE req[q].got
          /\ published' = IF event THEN published + 1 ELSE published
      <3>1. AnswerDone(r, row, answer, event)
        BY <1>1, AnswerEffect
      <3>2. QED
        BY <1>4, <3>1 DEF AnswerDone
    <2>0. RowOK(q)
      BY DEF GateInv
    <2>2. RowOK(q) /\ req[q].got \in Nat /\ req[q].since \in Nat
      BY <1>1, <2>0 DEF Request
    <2>3. q \in listeners /\ req'[q].conn => req'[q].got = published' - req'[q].since
      <3> SUFFICES ASSUME q \in listeners, req'[q].conn
                   PROVE  req'[q].got = published' - req'[q].since
        OBVIOUS
      <3>1. req[q].conn /\ req'[q].since = req[q].since
        BY <2>1 DEF SameButGot
      <3>2. req[q].got = published - req[q].since
        BY <2>2, <3>1 DEF RowOK
      <3>3. QED
        BY <1>1, <2>1, <2>2, <3>1, <3>2
    <2>4. QED
      BY <1>4, <2>1, <2>2, <2>3 DEF RowOK, SameButGot
  <1>5. QED
    BY <1>3, <1>4

LEMMA GotoRows ==
  ASSUME GateInv, NEW r \in Reqs, NEW row \in Request, Goto(r, row),
         \A q \in Reqs : q # r => /\ q \in listeners' <=> q \in listeners
                                  /\ q \in applied' <=> q \in applied
                                  /\ q \in audited' <=> q \in audited,
         RowOK(r)'
  PROVE  \A q \in Reqs : RowOK(q)'
  <1>1. /\ published' = published /\ \A q \in Reqs : q # r => req'[q] = req[q]
    BY GotoEffect DEF GateInv, TypeOK
  <1>2. ASSUME NEW q \in Reqs, q # r PROVE RowOK(q)'
    BY <1>1, <1>2 DEF GateInv, RowOK
  <1>3. QED
    BY <1>2

\* No other request gains a client.
LEMMA PoolKept ==
  ASSUME GateInv, UNCHANGED <<phase, pool>>,
         \/ phase = "listening"
         \/ \A q \in Reqs : req'[q].conn => req[q].conn
  PROVE  PoolOK'
  BY DEF GateInv, PoolOK

\* What a request may do as it enters: end in the chain, subscribe, or go on.
LEMMA ArriveRows ==
  ASSUME GateInv, NEW r \in Reqs, NEW ip, NEW path \in Paths,
         NEW body \in Patches \cup {Other}, Arrive(r, ip, path, body)
  PROVE  /\ req' \in [Reqs -> Request] /\ published' \in Nat /\ listeners' \subseteq Reqs
         /\ \A q \in Reqs : RowOK(q)'
  <1> DEFINE row == Entering(path, body)
             s == Subscribing(path, body)
             g == Passing(path, body)
  <1>1. /\ req \in [Reqs -> Request] /\ published \in Nat /\ RowOK(r) /\ req[r].step = "idle"
        /\ UNCHANGED <<applied, audited>> /\ (path = "config" => body \in Patches)
        /\ listeners \subseteq Reqs
    BY DEF GateInv, TypeOK, Arrive
  <1>2. r \notin listeners /\ r \notin applied
    BY <1>1 DEF RowOK
  <1>3. /\ row \in Request /\ row.path = path
        /\ s \in Request /\ s.step = "stream" /\ s.since = published /\ s.got = 0
        /\ g \in Request /\ g.step = "pipeline" /\ g.path = path /\ g.body = body
        /\ g.answer = "none"
    BY <1>1, EnteringType
  <1>4. \/ /\ \E answer \in Answers, event \in BOOLEAN : Answer(r, row, answer, event)
           /\ listeners' = listeners
        \/ Goto(r, s) /\ listeners' = listeners \cup {r}
        \/ Goto(r, g) /\ listeners' = listeners
    BY DEF Arrive, Entering, Subscribing, Passing, Answers
  <1> HIDE DEF row, s, g
  <1>5. ASSUME NEW answer \in Answers, NEW event \in BOOLEAN, Answer(r, row, answer, event),
               listeners' = listeners
        PROVE  /\ req' \in [Reqs -> Request] /\ published' \in Nat
               /\ \A q \in Reqs : RowOK(q)'
    <2>1. AnswerDone(r, row, answer, event)
      BY <1>1, <1>3, <1>5, AnswerEffect
    <2>2. \A q \in Reqs : RowOK(q)'
      BY <1>1, <1>2, <1>3, <1>5, AnswerRows
    <2>3. QED
      BY <2>1, <2>2 DEF AnswerDone
  <1>6. ASSUME Goto(r, s), listeners' = listeners \cup {r}
        PROVE  /\ req' \in [Reqs -> Request] /\ published' \in Nat
               /\ \A q \in Reqs : RowOK(q)'
    <2>1. req' \in [Reqs -> Request] /\ req'[r] = s /\ published' = published
      BY <1>1, <1>3, <1>6, GotoEffect
    <2>2. s.got = published - s.since
      BY <1>1, <1>3
    <2>3. RowOK(r)'
      BY <1>1, <1>2, <1>3, <2>1, <2>2 DEF RowOK
    <2>4. QED
      BY <1>1, <1>3, <1>6, <2>1, <2>3, GotoRows
  <1>7. ASSUME Goto(r, g), listeners' = listeners
        PROVE  /\ req' \in [Reqs -> Request] /\ published' \in Nat
               /\ \A q \in Reqs : RowOK(q)'
    <2>1. req' \in [Reqs -> Request] /\ req'[r] = g /\ published' = published
      BY <1>1, <1>3, <1>7, GotoEffect
    <2>2. RowOK(r)'
      BY <1>1, <1>2, <1>3, <1>7, <2>1 DEF RowOK
    <2>3. QED
      BY <1>1, <1>3, <1>7, <2>1, <2>2, GotoRows
  <1>8. QED
    BY <1>1, <1>4, <1>5, <1>6, <1>7

LEMMA ArriveGate ==
  ASSUME GateInv, NEW r \in Reqs, NEW ip \in Ips, NEW path \in Paths,
         NEW body \in Patches \cup {Other}, Arrive(r, ip, path, body)
  PROVE  GateInv'
  <1>1. TypeOK /\ UNCHANGED <<phase, pool, signals, settings, now, applied, audited>>
        /\ phase = "listening"
    BY DEF GateInv, Arrive
  <1>2. /\ bucket' \in [Limiters -> [Ips -> Bucket]]
        /\ lastSweep' \in [Limiters -> Nat]
        /\ admitted' \in [Limiters -> [Ips -> Seq(Admission)]]
    BY <1>1, ArriveCountsType
  <1>3. /\ req' \in [Reqs -> Request] /\ published' \in Nat /\ listeners' \subseteq Reqs
        /\ \A q \in Reqs : RowOK(q)'
    BY ArriveRows
  <1>4. TypeOK'
    BY <1>1, <1>2, <1>3 DEF TypeOK
  <1>5. PoolOK'
    BY <1>1, PoolKept
  <1>6. QED
    BY <1>3, <1>4, <1>5 DEF GateInv

\* update keeps the settings well formed, whatever the patch.
LEMMA UpdateType ==
  ASSUME TypeOK, NEW p \in Patches
  PROVE  update(p) \in Settings
  <1>1. p \in Patch /\ settings \in Settings
    BY GatewayAssumption DEF TypeOK
  <1>2. /\ given(p.limiting, settings.limiting) \in BOOLEAN
        /\ given(p.filtering, settings.filtering) \in BOOLEAN
        /\ clampInt(p.ip, settings.ip) \in Nat
        /\ clampInt(p.register, settings.register) \in Nat
        /\ given(p.mode, settings.mode) \in {"allow", "deny"}
    BY <1>1 DEF Patch, Settings, given, clampInt
  <1>3. given(p.entries, settings.entries) \in SUBSET SUBSET Ips
    BY <1>1 DEF Patch, Settings, given
  <1>4. QED
    BY <1>2, <1>3 DEF update, Settings

\* The step of a request that ends it, or moves it on.
LEMMA EndGate ==
  ASSUME GateInv, NEW r \in Reqs, NEW answer \in Answers, NEW event \in BOOLEAN,
         Answer(r, req[r], answer, event), req[r].step \in {"pipeline", "audit", "work"},
         UNCHANGED <<phase, pool, signals, settings, now, bucket, lastSweep, listeners,
                     admitted, applied>>,
         audited' \subseteq applied,
         \A q \in Reqs : q # r => (q \in audited' <=> q \in audited),
         req[r].step = "audit" => answer \in {"ok", "failed"} /\ (r \in audited' <=> answer = "ok")
  PROVE  GateInv'
  <1>1. TypeOK /\ req \in [Reqs -> Request] /\ published \in Nat /\ RowOK(r) /\ req[r] \in Request
    BY DEF GateInv, TypeOK
  <1>2. r \notin listeners /\ (r \in applied => req[r].step = "audit" /\ req[r].path = "config")
    BY <1>1 DEF RowOK
  <1>3. AnswerDone(r, req[r], answer, event)
    BY <1>1, AnswerEffect
  <1>4. \A q \in Reqs : RowOK(q)'
    BY <1>1, <1>2, AnswerRows
  <1>5. \A q \in Reqs : req'[q].conn => req[q].conn
    BY <1>3 DEF AnswerDone, SameButGot
  <1>6. PoolOK'
    BY <1>5, PoolKept
  <1>7. req' \in [Reqs -> Request] /\ published' \in Nat
    BY <1>3 DEF AnswerDone
  <1>8. TypeOK'
    BY <1>1, <1>7 DEF TypeOK
  <1>9. QED
    BY <1>4, <1>6, <1>8 DEF GateInv

LEMMA MoveGate ==
  ASSUME GateInv, NEW r \in Reqs, NEW row \in Request, Goto(r, row),
         row.conn => req[r].conn,
         UNCHANGED <<phase, pool, signals, now, bucket, lastSweep, admitted, audited>>,
         settings' \in Settings, listeners' \subseteq listeners, applied' \subseteq Reqs,
         \A q \in Reqs : q # r => /\ q \in listeners' <=> q \in listeners
                                  /\ q \in applied' <=> q \in applied,
         applied \subseteq applied', RowOK(r)'
  PROVE  GateInv'
  <1>1. TypeOK /\ req \in [Reqs -> Request] /\ published \in Nat
    BY DEF GateInv, TypeOK
  <1>2. /\ req' \in [Reqs -> Request] /\ req'[r] = row /\ published' = published
        /\ \A q \in Reqs : q # r => req'[q] = req[q]
    BY <1>1, GotoEffect
  <1>3. \A q \in Reqs : RowOK(q)'
    BY <1>1, GotoRows
  <1>4. PoolOK'
    BY <1>2, PoolKept
  <1>5. TypeOK'
    BY <1>1, <1>2 DEF TypeOK
  <1>6. QED
    BY <1>3, <1>4, <1>5 DEF GateInv

LEMMA StepGate ==
  ASSUME GateInv, NEW r \in Reqs, Step(r) \/ Disconnect(r)
  PROVE  GateInv'
  <1>1. /\ TypeOK /\ RowOK(r) /\ req[r] \in Request /\ settings \in Settings
        /\ applied \subseteq Reqs /\ audited \subseteq applied /\ req \in [Reqs -> Request]
        /\ published \in Nat
    BY DEF GateInv, TypeOK
  <1>2. CASE Pipeline(r)
    <2>0. req[r].step = "pipeline" /\ UNCHANGED <<phase, pool, signals, now, bucket, lastSweep,
                                          listeners, admitted, audited>>
      BY <1>2 DEF Pipeline
    <2>1. ASSUME NEW answer \in Answers, NEW event \in BOOLEAN,
                 Answer(r, req[r], answer, event), UNCHANGED <<settings, applied>>
          PROVE  GateInv'
      BY <1>1, <2>0, <2>1, EndGate
    <2>2. ASSUME req[r].path = "config", settings' = update(req[r].body),
                 applied' = applied \cup {r}, Goto(r, [req[r] EXCEPT !.step = "audit"])
          PROVE  GateInv'
      <3> DEFINE row == [req[r] EXCEPT !.step = "audit"]
      <3>1. /\ row \in Request /\ row.step = "audit" /\ row.path = req[r].path
            /\ row.answer = req[r].answer /\ row.conn = req[r].conn
        BY <1>1 DEF Request
      <3>2. settings' \in Settings
        BY <1>1, <2>0, <2>2, UpdateType DEF RowOK
      <3>3. Goto(r, row)
        BY <2>2
      <3> HIDE DEF row
      <3>4. req'[r] = row /\ published' = published
        BY <1>1, <3>1, <3>3, GotoEffect
      <3>5. r \notin listeners /\ r \notin audited /\ req[r].answer = "none"
        BY <1>1, <2>0 DEF RowOK
      <3>6. RowOK(r)'
        BY <2>0, <2>2, <3>1, <3>4, <3>5 DEF RowOK
      <3>7. QED
        BY <1>1, <2>0, <2>2, <3>1, <3>2, <3>3, <3>6, MoveGate
    <2>3. ASSUME req[r].path # "config", Goto(r, [req[r] EXCEPT !.step = "work"]),
                 UNCHANGED <<settings, applied>>
          PROVE  GateInv'
      <3> DEFINE row == [req[r] EXCEPT !.step = "work"]
      <3>1. row \in Request /\ row.step = "work" /\ row.conn = req[r].conn
        BY <1>1 DEF Request
      <3>2. Goto(r, row)
        BY <2>3
      <3> HIDE DEF row
      <3>3. req'[r] = row /\ published' = published
        BY <1>1, <3>1, <3>2, GotoEffect
      <3>4. r \notin listeners /\ r \notin applied
        BY <1>1, <2>0 DEF RowOK
      <3>5. RowOK(r)'
        BY <2>0, <2>3, <3>1, <3>3, <3>4 DEF RowOK
      <3>6. QED
        BY <1>1, <2>0, <2>3, <3>1, <3>2, <3>5, MoveGate
    <2>4. QED
      BY <1>2, <2>1, <2>2, <2>3 DEF Pipeline, Answers
  <1>3. CASE Audit(r)
    <2>1. /\ req[r].step = "audit" /\ r \in applied /\ r \notin audited
          /\ UNCHANGED <<phase, pool, signals, settings, now, bucket, lastSweep, listeners,
                         admitted, applied>>
      BY <1>1, <1>3 DEF Audit, RowOK
    <2>2. \/ audited' = audited \cup {r} /\ Answer(r, req[r], "ok", FALSE)
          \/ audited' = audited /\ Answer(r, req[r], "failed", FALSE)
      BY <1>3 DEF Audit
    <2>3. "ok" \in Answers /\ "failed" \in Answers
      BY DEF Answers
    <2>4. CASE audited' = audited \cup {r} /\ Answer(r, req[r], "ok", FALSE)
      BY <1>1, <2>1, <2>3, <2>4, EndGate
    <2>5. CASE audited' = audited /\ Answer(r, req[r], "failed", FALSE)
      BY <1>1, <2>1, <2>3, <2>5, EndGate
    <2>6. QED
      BY <2>2, <2>4, <2>5
  <1>4. CASE Work(r)
    <2>1. /\ req[r].step = "work"
          /\ UNCHANGED <<phase, pool, signals, settings, now, bucket, lastSweep, listeners,
                         admitted, applied, audited>>
          /\ \E answer \in Answers, event \in BOOLEAN : Answer(r, req[r], answer, event)
      BY <1>4 DEF Work, Answers
    <2>2. QED
      BY <1>1, <2>1, EndGate
  <1>5. CASE Disconnect(r)
    <2> DEFINE row == [req[r] EXCEPT !.conn = FALSE]
    <2>1. /\ row \in Request /\ row.step = req[r].step /\ row.path = req[r].path
          /\ row.answer = req[r].answer /\ row.body = req[r].body /\ row.conn = FALSE
      BY <1>1 DEF Request
    <2>2. /\ Goto(r, row)
          /\ UNCHANGED <<phase, pool, signals, settings, now, bucket, lastSweep, listeners,
                         admitted, applied, audited>>
      BY <1>5 DEF Disconnect
    <2> HIDE DEF row
    <2>3. req'[r] = row /\ published' = published
      BY <1>1, <2>1, <2>2, GotoEffect
    <2>4. RowOK(r)'
      BY <1>1, <2>1, <2>2, <2>3 DEF RowOK
    <2>5. QED
      BY <1>1, <2>1, <2>2, <2>4, MoveGate
  <1>6. CASE CloseStream(r)
    <2> DEFINE row == Answered(req[r], "ok")
    <2>1. /\ row \in Request /\ row.step = "done" /\ row.conn = FALSE
      BY <1>1, AnsweredType DEF Answers
    <2>2. /\ Goto(r, row) /\ listeners' = listeners \ {r} /\ req[r].step = "stream"
          /\ UNCHANGED <<phase, pool, signals, settings, now, bucket, lastSweep,
                         admitted, applied, audited>>
      BY <1>6 DEF CloseStream
    <2> HIDE DEF row
    <2>3. req'[r] = row /\ published' = published
      BY <1>1, <2>1, <2>2, GotoEffect
    <2>4. r \notin applied
      BY <1>1, <2>2 DEF RowOK
    <2>5. RowOK(r)'
      BY <2>1, <2>2, <2>3, <2>4 DEF RowOK
    <2>6. QED
      BY <1>1, <2>1, <2>2, <2>5, MoveGate
  <1>7. QED
    BY <1>2, <1>3, <1>4, <1>5, <1>6 DEF Step

LEMMA MalformedGate ==
  ASSUME GateInv, NEW r \in Reqs, Malformed(r)
  PROVE  GateInv'
  <1>1. /\ TypeOK /\ RowOK(r) /\ req \in [Reqs -> Request] /\ published \in Nat
        /\ req[r].step = "idle" /\ phase = "listening" /\ Answer(r, Idle, "failed", FALSE)
        /\ UNCHANGED <<phase, pool, signals, settings, now, bucket, lastSweep, listeners,
                       admitted, applied, audited>>
        /\ "failed" \in Answers
    BY DEF GateInv, TypeOK, Malformed, Answers
  <1>2. r \notin listeners /\ r \notin applied
    BY <1>1 DEF RowOK
  <1>3. AnswerDone(r, Idle, "failed", FALSE)
    BY <1>1, IdleType, AnswerEffect
  <1>4. \A q \in Reqs : RowOK(q)'
    BY <1>1, <1>2, IdleType, AnswerRows
  <1>5. req' \in [Reqs -> Request] /\ published' \in Nat
    BY <1>3 DEF AnswerDone
  <1>6. TypeOK'
    BY <1>1, <1>5 DEF TypeOK
  <1>7. PoolOK'
    BY <1>1, PoolKept
  <1>8. QED
    BY <1>4, <1>6, <1>7 DEF GateInv

LEMMA ProcessGate ==
  ASSUME GateInv, Boot \/ Signal \/ CloseStorage \/ ProcessExit \/ Tick \/ UNCHANGED vars
  PROVE  GateInv'
  <1>1. UNCHANGED <<settings, bucket, lastSweep, req, listeners, published, admitted, applied,
                    audited>>
    BY DEF Boot, Signal, CloseStorage, ProcessExit, Tick, vars
  <1>2. \A r \in Reqs : RowOK(r)'
    BY <1>1 DEF GateInv, RowOK
  <1>3. phase' \in Phases /\ pool' \in {"none", "open", "ending"} /\ signals' \in 0..2
        /\ now' \in 1..MaxTime + 1
    <2>1. /\ phase \in Phases /\ pool \in {"none", "open", "ending"} /\ signals \in 0..2
          /\ now \in 1..MaxTime + 1 /\ MaxTime \in Nat
      BY GatewayAssumption DEF GateInv, TypeOK
    <2>2. CASE Boot
      BY <2>1, <2>2 DEF Boot, Phases
    <2>3. CASE Signal
      BY <2>1, <2>3 DEF Signal, Phases
    <2>4. CASE CloseStorage \/ ProcessExit
      BY <2>1, <2>4 DEF CloseStorage, ProcessExit, Phases
    <2>5. CASE Tick
      BY <2>1, <2>5 DEF Tick
    <2>6. CASE UNCHANGED vars
      BY <2>1, <2>6 DEF vars
    <2>7. QED
      BY <2>2, <2>3, <2>4, <2>5, <2>6
  <1>4. TypeOK'
    BY <1>1, <1>3 DEF GateInv, TypeOK
  <1>5. PoolOK'
    <2>1. PoolOK
      BY DEF GateInv
    <2>2. QED
      BY <1>1, <2>1 DEF PoolOK, Boot, Signal, CloseStorage, ProcessExit, Tick, vars
  <1>6. QED
    BY <1>2, <1>4, <1>5 DEF GateInv

LEMMA NextGate == GateInv /\ [Next]_vars => GateInv'
  BY ArriveGate, StepGate, MalformedGate, ProcessGate DEF Next

(***************************************************************************)
(* The process, the settings and the counters stay well formed; update     *)
(* keeps the settings so whatever a PATCH sends.                           *)
(***************************************************************************)
THEOREM GatewayTypes == Spec => []TypeOK
  <1>1. GateInv => TypeOK
    BY DEF GateInv
  <1>2. QED
    BY <1>1, InitGate, NextGate, PTL DEF Spec

(***************************************************************************)
(* Shutdown: however signals, requests and disconnections interleave, a    *)
(* request whose client still waits never meets a pool that is ending.     *)
(***************************************************************************)
THEOREM StorageOutlives == Spec => []StorageOutlivesClients
  <1>1. GateInv => StorageOutlivesClients
    BY DEF GateInv, PoolOK, StorageOutlivesClients
  <1>2. QED
    BY <1>1, InitGate, NextGate, PTL DEF Spec

(***************************************************************************)
(* Isolation of subscribers: one whose client is there has got every event *)
(* since it subscribed, whatever other subscribers do.                     *)
(***************************************************************************)
THEOREM SubscribersHear == Spec => []SubscribersHearAll
  <1>1. GateInv => SubscribersHearAll
    BY DEF GateInv, RowOK, SubscribersHearAll, TypeOK
  <1>2. QED
    BY <1>1, InitGate, NextGate, PTL DEF Spec

(***************************************************************************)
(* Auditing of PATCH /admin/config: a change that took effect is reported  *)
(* as a success exactly when it has its audit row.                         *)
(***************************************************************************)
THEOREM PatchesAccounted == Spec => []PatchesAreAccounted
  <1>1. GateInv => PatchesAreAccounted
    <2> SUFFICES ASSUME GateInv, NEW r \in applied
                 PROVE  /\ req[r].step = "audit" \/ req[r].answer \in {"ok", "failed"}
                        /\ r \in audited <=> req[r].answer = "ok"
      BY DEF PatchesAreAccounted
    <2>1. r \in Reqs /\ RowOK(r)
      BY DEF GateInv, TypeOK
    <2>2. QED
      BY <2>1 DEF RowOK
  <1>2. QED
    BY <1>1, InitGate, NextGate, PTL DEF Spec

-----------------------------------------------------------------------------
(* Bursts *)

\* The admissions of the window that ends at u.
Same(adm, u) == {j \in DOMAIN adm : adm[j].until = u}

\* Every window of adm is the one that ends at u, or over before that one began.
Apart(W, adm, u) == \A j \in DOMAIN adm : adm[j].until = u \/ adm[j].until + W <= u

\* Every window is within a limit that was in force in it.
Capped(adm) ==
  \A i \in DOMAIN adm :
    \E j \in Same(adm, adm[i].until) :
      Cardinality(Same(adm, adm[i].until)) <= adm[j].limit

\* Windows follow one another and do not overlap.
Ordered(W, adm) ==
  \A i \in DOMAIN adm : \A j \in 1 .. i - 1 :
    adm[j].until = adm[i].until \/ adm[j].until + W <= adm[i].until

(***************************************************************************)
(* An admission whose window is not over is counted in the Map: its window *)
(* is the open one, and the open one's counter is at least the number of   *)
(* its admissions, so a sweep or a new hit cannot start the window afresh. *)
(***************************************************************************)
BurstRow(W, adm, b, t) ==
  /\ \A i \in DOMAIN adm : adm[i].until > t => adm[i].until = b.resetAt
  /\ b.resetAt > t => Apart(W, adm, b.resetAt) /\ Cardinality(Same(adm, b.resetAt)) <= b.count
  /\ Capped(adm) /\ Ordered(W, adm)

BurstOK(l, ip) == BurstRow(WindowMs(l), admitted[l][ip], bucket[l][ip], now)

BurstInv == GateInv /\ \A l \in Limiters, ip \in Ips : BurstOK(l, ip)

LEMMA SameFinite ==
  ASSUME NEW adm \in Seq(Admission), NEW u
  PROVE  IsFiniteSet(Same(adm, u)) /\ Cardinality(Same(adm, u)) \in Nat
  <1>1. DOMAIN adm = 1..Len(adm) /\ Len(adm) \in Nat
    OBVIOUS
  <1>2. IsFiniteSet(1..Len(adm))
    BY <1>1, FS_Interval
  <1>3. Same(adm, u) \subseteq 1..Len(adm)
    BY <1>1 DEF Same
  <1>4. IsFiniteSet(Same(adm, u))
    BY <1>2, <1>3, FS_Subset
  <1>5. QED
    BY <1>4, FS_CardinalityType

LEMMA AppendFacts ==
  ASSUME NEW adm \in Seq(Admission), NEW x \in Admission
  PROVE  LET more == Append(adm, x)
             n == Len(adm)
         IN /\ more \in Seq(Admission) /\ n \in Nat
            /\ DOMAIN adm = 1..n /\ DOMAIN more = 1..(n + 1)
            /\ more[n + 1] = x /\ \A i \in 1..n : more[i] = adm[i]
  OBVIOUS

LEMMA SameAppend ==
  ASSUME NEW adm \in Seq(Admission), NEW x \in Admission, NEW u
  PROVE  /\ x.until # u => Same(Append(adm, x), u) = Same(adm, u)
         /\ x.until = u => /\ Same(Append(adm, x), u) = Same(adm, u) \cup {Len(adm) + 1}
                           /\ Cardinality(Same(Append(adm, x), u))
                                = Cardinality(Same(adm, u)) + 1
  <1> DEFINE more == Append(adm, x)
             n == Len(adm)
  <1>1. /\ n \in Nat /\ DOMAIN adm = 1..n /\ DOMAIN more = 1..(n + 1)
        /\ more[n + 1] = x /\ \A i \in 1..n : more[i] = adm[i]
    BY AppendFacts
  <1> HIDE DEF more, n
  <1>2. \A i : i \in 1..(n + 1) <=> i \in 1..n \/ i = n + 1
    BY <1>1
  <1>3. n + 1 \notin 1..n
    BY <1>1
  <1>4. x.until # u => Same(more, u) = Same(adm, u)
    BY <1>1, <1>2 DEF Same
  <1>5. x.until = u => Same(more, u) = Same(adm, u) \cup {n + 1}
    BY <1>1, <1>2, <1>3 DEF Same
  <1>6. n + 1 \notin Same(adm, u)
    BY <1>1, <1>3 DEF Same
  <1>7. x.until = u => Cardinality(Same(more, u)) = Cardinality(Same(adm, u)) + 1
    BY <1>5, <1>6, SameFinite, FS_AddElement
  <1>8. QED
    BY <1>4, <1>5, <1>7 DEF more, n

\* One more admission, in the last window and within the limit in force.
LEMMA AppendAdmission ==
  ASSUME NEW W \in Nat, NEW adm \in Seq(Admission), NEW x \in Admission,
         Capped(adm), Ordered(W, adm), Apart(W, adm, x.until),
         Cardinality(Same(adm, x.until)) + 1 <= x.limit
  PROVE  LET more == Append(adm, x) IN
         /\ Capped(more) /\ Ordered(W, more) /\ Apart(W, more, x.until)
         /\ Cardinality(Same(more, x.until)) = Cardinality(Same(adm, x.until)) + 1
  <1> DEFINE more == Append(adm, x)
             n == Len(adm)
  <1>1. /\ n \in Nat /\ DOMAIN adm = 1..n /\ DOMAIN more = 1..(n + 1)
        /\ more[n + 1] = x /\ \A i \in 1..n : more[i] = adm[i]
    BY AppendFacts
  <1>2. /\ Same(more, x.until) = Same(adm, x.until) \cup {n + 1}
        /\ Cardinality(Same(more, x.until)) = Cardinality(Same(adm, x.until)) + 1
    BY SameAppend
  <1>3. \A u : u # x.until => Same(more, u) = Same(adm, u)
    BY SameAppend
  <1> HIDE DEF more, n
  <1>4. \A i : i \in 1..(n + 1) <=> i \in 1..n \/ i = n + 1
    BY <1>1
  <1>5. Capped(more)
    <2> SUFFICES ASSUME NEW i \in DOMAIN more
                 PROVE  \E j \in Same(more, more[i].until) :
                          Cardinality(Same(more, more[i].until)) <= more[j].limit
      BY DEF Capped
    <2>1. CASE more[i].until = x.until
      <3>1. n + 1 \in Same(more, x.until)
        BY <1>2
      <3>2. Cardinality(Same(more, x.until)) <= more[n + 1].limit
        BY <1>1, <1>2
      <3>3. QED
        BY <2>1, <3>1, <3>2
    <2>2. CASE more[i].until # x.until
      <3>1. i \in 1..n /\ more[i] = adm[i]
        BY <1>1, <1>4, <2>2
      <3>2. PICK j \in Same(adm, adm[i].until) :
              Cardinality(Same(adm, adm[i].until)) <= adm[j].limit
        BY <1>1, <3>1 DEF Capped
      <3>3. Same(more, more[i].until) = Same(adm, adm[i].until)
        BY <1>3, <2>2, <3>1
      <3>4. j \in 1..n /\ more[j] = adm[j]
        BY <1>1, <3>2 DEF Same
      <3>5. QED
        BY <3>2, <3>3, <3>4
    <2>3. QED
      BY <2>1, <2>2
  <1>6. Apart(W, more, x.until)
    BY <1>1, <1>4 DEF Apart
  <1>7. Ordered(W, more)
    <2> SUFFICES ASSUME NEW i \in DOMAIN more, NEW j \in 1 .. i - 1
                 PROVE  more[j].until = more[i].until \/ more[j].until + W <= more[i].until
      BY DEF Ordered
    <2>1. i \in Nat /\ j \in DOMAIN more /\ (i \in 1..n => j \in 1..n)
      BY <1>1
    <2>2. CASE i = n + 1
      BY <1>1, <1>6, <2>1, <2>2 DEF Apart
    <2>3. CASE i \in 1..n
      BY <1>1, <2>1, <2>3 DEF Ordered
    <2>4. QED
      BY <1>1, <1>4, <2>2, <2>3
  <1>8. QED
    BY <1>2, <1>5, <1>6, <1>7 DEF more

\* Later, or with an entry whose window is over swept away, nothing is lost.
LEMMA BurstLater ==
  ASSUME NEW W \in Nat, NEW adm \in Seq(Admission), NEW b \in Bucket, NEW t \in Nat,
         NEW u \in Nat, t <= u, BurstRow(W, adm, b, t)
  PROVE  /\ BurstRow(W, adm, b, u)
         /\ b.resetAt <= u => BurstRow(W, adm, NoBucket, u)
  <1>1. b.resetAt \in Nat /\ \A i \in DOMAIN adm : adm[i].until \in Nat
    <2>1. \A i \in DOMAIN adm : adm[i] \in Admission
      OBVIOUS
    <2>2. QED
      BY <2>1 DEF Bucket, Admission
  <1>2. BurstRow(W, adm, b, u)
    BY <1>1 DEF BurstRow
  <1>3. ASSUME b.resetAt <= u PROVE BurstRow(W, adm, NoBucket, u)
    <2>1. \A i \in DOMAIN adm : ~(adm[i].until > u)
      BY <1>1, <1>2, <1>3 DEF BurstRow
    <2>2. ~(NoBucket.resetAt > u)
      BY DEF NoBucket
    <2>3. QED
      BY <1>2, <2>1, <2>2 DEF BurstRow
  <1>4. QED
    BY <1>2, <1>3

\* A hit goes to the open window, or opens one after all windows are over.
LEMMA BurstHit ==
  ASSUME NEW W \in Nat \ {0}, NEW adm \in Seq(Admission), NEW b \in Bucket, NEW t \in Nat,
         BurstRow(W, adm, b, t), NEW c \in Bucket,
         b.resetAt > t => c.count = b.count + 1 /\ c.resetAt = b.resetAt,
         b.resetAt <= t => c.count = 1 /\ c.resetAt = t + W
  PROVE  /\ BurstRow(W, adm, c, t)
         /\ Apart(W, adm, c.resetAt)
         /\ Cardinality(Same(adm, c.resetAt)) + 1 <= c.count
         /\ c.resetAt > t
  <1>1. /\ b.resetAt \in Nat /\ b.count \in Nat /\ c.resetAt \in Nat /\ c.count \in Nat
        /\ Cardinality(Same(adm, c.resetAt)) \in Nat
    BY SameFinite DEF Bucket
  <1>2. \A i \in DOMAIN adm : adm[i].until \in Nat
    <2>1. \A i \in DOMAIN adm : adm[i] \in Admission
      OBVIOUS
    <2>2. QED
      BY <2>1 DEF Admission
  <1>3. c.resetAt > t
    BY <1>1
  <1>4. CASE b.resetAt > t
    <2>1. /\ Apart(W, adm, c.resetAt) /\ Cardinality(Same(adm, c.resetAt)) <= b.count
      BY <1>4 DEF BurstRow
    <2>2. Cardinality(Same(adm, c.resetAt)) + 1 <= c.count
      BY <1>1, <1>4, <2>1
    <2>3. Cardinality(Same(adm, c.resetAt)) <= c.count
      BY <1>1, <2>2
    <2>4. BurstRow(W, adm, c, t)
      BY <1>4, <2>1, <2>3 DEF BurstRow
    <2>5. QED
      BY <1>3, <2>1, <2>2, <2>4
  <1>5. CASE b.resetAt <= t
    <2>1. \A i \in DOMAIN adm : adm[i].until <= t
      BY <1>1, <1>2, <1>5 DEF BurstRow
    <2>2. Apart(W, adm, c.resetAt)
      BY <1>2, <1>5, <2>1 DEF Apart
    <2>3. Same(adm, c.resetAt) = {}
      BY <1>1, <1>2, <1>3, <2>1 DEF Same
    <2>4. Cardinality(Same(adm, c.resetAt)) = 0
      BY <2>3, FS_EmptySet
    <2>5. BurstRow(W, adm, c, t)
      <3>1. \A i \in DOMAIN adm : ~(adm[i].until > t)
        BY <1>2, <2>1
      <3>2. Cardinality(Same(adm, c.resetAt)) <= c.count
        BY <1>1, <2>4
      <3>3. QED
        BY <2>2, <3>1, <3>2 DEF BurstRow
    <2>6. QED
      BY <1>3, <1>5, <2>2, <2>4, <2>5
  <1>6. QED
    BY <1>1, <1>4, <1>5

\* ... and an admission is within the limit in force.
LEMMA BurstAdmit ==
  ASSUME NEW W \in Nat \ {0}, NEW adm \in Seq(Admission), NEW c \in Bucket, NEW t \in Nat,
         BurstRow(W, adm, c, t), Apart(W, adm, c.resetAt), c.resetAt > t,
         Cardinality(Same(adm, c.resetAt)) + 1 <= c.count,
         NEW x \in Admission, x.until = c.resetAt, c.count <= x.limit
  PROVE  BurstRow(W, Append(adm, x), c, t)
  <1> DEFINE more == Append(adm, x)
             n == Len(adm)
  <1>1. /\ c.count \in Nat /\ x.limit \in Nat /\ W \in Nat
        /\ Cardinality(Same(adm, c.resetAt)) \in Nat
    BY SameFinite DEF Bucket, Admission
  <1>2. Cardinality(Same(adm, x.until)) + 1 <= x.limit
    BY <1>1
  <1>3. /\ Capped(more) /\ Ordered(W, more) /\ Apart(W, more, x.until)
        /\ Cardinality(Same(more, x.until)) = Cardinality(Same(adm, x.until)) + 1
    BY <1>1, <1>2, AppendAdmission DEF BurstRow
  <1>4. /\ n \in Nat /\ DOMAIN adm = 1..n /\ DOMAIN more = 1..(n + 1)
        /\ more[n + 1] = x /\ \A i \in 1..n : more[i] = adm[i]
    BY AppendFacts
  <1> HIDE DEF more, n
  <1>5. \A i : i \in 1..(n + 1) <=> i \in 1..n \/ i = n + 1
    BY <1>4
  <1>6. \A i \in DOMAIN more : more[i].until > t => more[i].until = c.resetAt
    BY <1>4, <1>5 DEF BurstRow
  <1>7. BurstRow(W, more, c, t)
    BY <1>3, <1>6 DEF BurstRow
  <1>8. QED
    BY <1>7 DEF more

LEMMA BurstArrive ==
  ASSUME BurstInv, NEW r, NEW ip \in Ips, NEW path, NEW body, Arrive(r, ip, path, body),
         NEW l \in Limiters, NEW q \in Ips
  PROVE  BurstOK(l, q)'
  <1> DEFINE W == WindowMs(l)
             b == bucket[l][q]
             c == check(l, ip)[q]
             adm == admitted[l][q]
             x == [until |-> check(l, ip)[ip].resetAt, limit |-> LimitOf(l)]
  <1>1. /\ TypeOK /\ BurstRow(W, adm, b, now) /\ W \in Nat \ {0} /\ now \in Nat
        /\ adm \in Seq(Admission) /\ b \in Bucket /\ now' = now
        /\ bucket[l] \in [Ips -> Bucket] /\ admitted[l] \in [Ips -> Seq(Admission)]
    <2>1. now' = now
      BY DEF Arrive
    <2>2. W \in Nat \ {0}
      BY GatewayAssumption DEF WindowMs, Limiters
    <2>3. TypeOK /\ BurstRow(W, adm, b, now)
      BY DEF BurstInv, BurstOK, GateInv
    <2>4. QED
      BY <2>1, <2>2, <2>3 DEF TypeOK
  <1>2. c \in Bucket /\ check(l, ip) \in [Ips -> Bucket]
    BY <1>1, CheckEffect
  <1>3. BurstRow(W, adm, c, now)
    <2>1. CASE q # ip
      <3>1. c = b \/ (b.resetAt <= now /\ c = NoBucket)
        BY <1>1, <2>1, CheckEffect
      <3>2. W \in Nat /\ now <= now
        BY <1>1
      <3> HIDE DEF W, adm, b, c
      <3>3. QED
        <4>1. BurstRow(W, adm, b, now)
          BY <1>1
        <4>2. b.resetAt <= now => BurstRow(W, adm, NoBucket, now)
          BY <1>1, <3>2, BurstLater
        <4>3. QED
          BY <3>1, <4>1, <4>2
    <2>2. CASE q = ip
      <3>1. /\ b.resetAt > now => c.count = b.count + 1 /\ c.resetAt = b.resetAt
            /\ b.resetAt <= now => c.count = 1 /\ c.resetAt = now + W
        BY <1>1, <2>2, CheckEffect
      <3> HIDE DEF W, adm, b, c
      <3>2. QED
        BY <1>1, <1>2, <3>1, BurstHit
    <2>3. QED
      BY <2>1, <2>2
  <1>4. ASSUME q = ip, c.count <= LimitOf(l) PROVE BurstRow(W, Append(adm, x), c, now)
    <2>1. /\ b.resetAt > now => c.count = b.count + 1 /\ c.resetAt = b.resetAt
          /\ b.resetAt <= now => c.count = 1 /\ c.resetAt = now + W
      BY <1>1, <1>4, CheckEffect
    <2>2. x \in Admission /\ x.until = c.resetAt /\ x.limit = LimitOf(l)
      BY <1>1, <1>2, <1>4, LimitType DEF Admission, Bucket
    <2> HIDE DEF W, adm, b, c, x
    <2>3. /\ Apart(W, adm, c.resetAt) /\ c.resetAt > now
          /\ Cardinality(Same(adm, c.resetAt)) + 1 <= c.count
      BY <1>1, <1>2, <2>1, BurstHit
    <2>4. QED
      BY <1>1, <1>2, <1>3, <1>4, <2>2, <2>3, BurstAdmit
  <1>5. \/ bucket'[l] = bucket[l] /\ admitted'[l] = admitted[l]
        \/ bucket'[l] = check(l, ip) /\ admitted'[l] = admitted[l]
        \/ /\ bucket'[l] = check(l, ip) /\ check(l, ip)[ip].count <= LimitOf(l)
           /\ admitted'[l] = [admitted[l] EXCEPT ![ip] = Append(admitted[l][ip], x)]
    BY <1>1, ArriveCounts
  <1>6. \/ bucket'[l][q] = b /\ admitted'[l][q] = adm
        \/ bucket'[l][q] = c /\ admitted'[l][q] = adm
        \/ /\ bucket'[l][q] = c /\ q = ip /\ c.count <= LimitOf(l)
           /\ admitted'[l][q] = Append(adm, x)
    BY <1>1, <1>2, <1>5
  <1> HIDE DEF x, adm, b, c
  <1>7. BurstRow(W, admitted'[l][q], bucket'[l][q], now)
    BY <1>1, <1>3, <1>4, <1>6
  <1>8. QED
    BY <1>1, <1>7 DEF BurstOK, WindowMs

LEMMA BurstStep == BurstInv /\ [Next]_vars => BurstInv'
  <1> SUFFICES ASSUME BurstInv, [Next]_vars, NEW l \in Limiters, NEW q \in Ips
               PROVE  BurstOK(l, q)'
    BY NextGate DEF BurstInv
  <1>1. ASSUME NEW r \in Reqs, NEW ip \in Ips, NEW path \in Paths,
               NEW body \in Patches \cup {Other}, Arrive(r, ip, path, body)
        PROVE  BurstOK(l, q)'
    BY <1>1, BurstArrive
  <1>2. ASSUME UNCHANGED <<bucket, admitted>>, now' = now \/ now' = now + 1
        PROVE  BurstOK(l, q)'
    <2> DEFINE W == WindowMs(l)
               b == bucket[l][q]
               adm == admitted[l][q]
    <2>1. /\ BurstRow(W, adm, b, now) /\ W \in Nat /\ now \in Nat
          /\ adm \in Seq(Admission) /\ b \in Bucket
      BY GatewayAssumption DEF BurstInv, BurstOK, GateInv, TypeOK, WindowMs, Limiters
    <2>2. now' \in Nat /\ now <= now'
      BY <1>2, <2>1
    <2>3. bucket'[l][q] = b /\ admitted'[l][q] = adm
      BY <1>2
    <2> HIDE DEF adm, b, W
    <2>4. BurstRow(W, adm, b, now')
      BY <2>1, <2>2, BurstLater
    <2>5. QED
      BY <2>3, <2>4 DEF BurstOK, W, WindowMs
  <1>3. \/ \E r \in Reqs, ip \in Ips, path \in Paths, body \in Patches \cup {Other} :
             Arrive(r, ip, path, body)
        \/ UNCHANGED <<bucket, admitted>> /\ (now' = now \/ now' = now + 1)
    BY DEF Next, Boot, Signal, CloseStorage, ProcessExit, Tick, Malformed, Disconnect, Step,
           Pipeline, Audit, Work, CloseStream, vars
  <1>4. QED
    BY <1>1, <1>2, <1>3

(***************************************************************************)
(* createRateLimiter, for any addresses, limits, windows and patches: each *)
(* window lets through no more than a limit that was in force in it, and   *)
(* an address's windows follow one another without overlapping.            *)
(***************************************************************************)
THEOREM BurstsAreBounded == Spec => []BurstIsBounded
  <1>1. Init => BurstInv
    <2> SUFFICES ASSUME Init, NEW l \in Limiters, NEW ip \in Ips PROVE BurstOK(l, ip)
      BY InitGate DEF BurstInv
    <2>1. admitted[l][ip] = <<>> /\ bucket[l][ip].resetAt = 0 /\ now = 1
      BY DEF Init, NoBucket
    <2>2. DOMAIN admitted[l][ip] = {}
      BY <2>1
    <2>3. QED
      BY <2>1, <2>2 DEF BurstOK, BurstRow, Capped, Ordered
  <1>2. BurstInv => BurstIsBounded
    <2> SUFFICES ASSUME BurstInv, NEW l \in Limiters, NEW ip \in Ips,
                        NEW i \in DOMAIN admitted[l][ip]
                 PROVE  LET adm == admitted[l][ip]
                            same == {j \in DOMAIN adm : adm[j].until = adm[i].until}
                        IN /\ \E j \in same : Cardinality(same) <= adm[j].limit
                           /\ \A j \in 1 .. i - 1 :
                                j \in same \/ adm[j].until + WindowMs(l) <= adm[i].until
      BY DEF BurstIsBounded
    <2> DEFINE adm == admitted[l][ip]
               same == {j \in DOMAIN adm : adm[j].until = adm[i].until}
    <2>1. Capped(adm) /\ Ordered(WindowMs(l), adm) /\ adm \in Seq(Admission)
      BY DEF BurstInv, BurstOK, BurstRow, GateInv, TypeOK
    <2>2. same = Same(adm, adm[i].until)
      BY DEF Same
    <2>3. \A j \in 1 .. i - 1 : j \in DOMAIN adm
      <3>1. DOMAIN adm = 1..Len(adm) /\ Len(adm) \in Nat
        BY <2>1
      <3> HIDE DEF adm
      <3>2. i \in 1..Len(adm)
        BY <3>1 DEF adm
      <3>3. QED
        BY <3>1, <3>2
    <2> HIDE DEF adm, same
    <2>4. \E j \in same : Cardinality(same) <= adm[j].limit
      BY <2>1, <2>2 DEF Capped, adm
    <2>5. \A j \in 1 .. i - 1 : adm[j].until = adm[i].until \/ adm[j].until + WindowMs(l) <= adm[i].until
      BY <2>1 DEF Ordered, adm
    <2>6. \A j \in 1 .. i - 1 : j \in same \/ adm[j].until + WindowMs(l) <= adm[i].until
      BY <2>3, <2>5 DEF same
    <2>7. QED
      BY <2>4, <2>6 DEF adm, same
  <1>3. QED
    BY <1>1, <1>2, BurstStep, PTL DEF Spec
=============================================================================
