-------------------------- MODULE TokenRouterProofs -------------------------
(***************************************************************************)
(* The schema a request is served is one that its agent was entitled to    *)
(* and, unless a fill overlapped a registration, as new as the newest      *)
(* registration answered before the request came in: for any numbers of    *)
(* agents, tools, requests and concurrent registrations.                   *)
(***************************************************************************)
EXTENDS TokenRouter, FiniteSetTheorems, TLAPS

HoldsSchema == {"fill", "save", "audit", "recorded", "served"}

\* What is known of a request q when s are the settled registrations and g the
\* active grants.
ReqInv(q, s, g) ==
  /\ q \in Request
  /\ q.step # "idle" => q.floor <= s[q.tool]
  /\ q.step = "fill" => q.late \/ q.schema >= s[q.tool]
  /\ q.step \in HoldsSchema => q.schema \in 1..MaxVersions
  /\ q.step \in HoldsSchema => q.late \/ q.schema >= q.floor
  /\ q.step = "grant" /\ <<q.agent, q.tool>> \in g => q.entitled
  /\ q.step \in HoldsSchema \cup {"find"} => q.entitled

\* A cache entry of a tool whose newest settled registration is n.
EntryInv(e, n) ==
  /\ e \in Entry
  /\ e.expiresAt # 0 => e.schema \in 1..MaxVersions /\ (e.late \/ e.schema >= n)

RegInv(x) ==
  /\ x \in Registration
  /\ x.step = "invalidate" => x.version <= tool[x.tool]

Types ==
  /\ tool \in [Tools -> 0..MaxVersions]
  /\ saved \in [Tools -> Nat]
  /\ granted \subseteq Agents \X Tools
  /\ settled \in [Tools -> Nat]
  /\ audits \in [Tools -> Nat] /\ calls \in [Tools -> Nat]
  /\ now \in Nat

IInv ==
  /\ Types
  /\ req \in [Reqs -> Request] /\ \A r \in Reqs : ReqInv(req[r], settled, granted)
  /\ cache \in [Tools -> Entry] /\ \A t \in Tools : EntryInv(cache[t], settled[t])
  /\ reg \in [Regs -> Registration] /\ \A g \in Regs : RegInv(reg[g])
  /\ \A t \in Tools : settled[t] <= tool[t]

-----------------------------------------------------------------------------
\* The empty entry says nothing.
LEMMA NoEntryInv == \A n \in Nat : NoEntry \in Entry /\ EntryInv(NoEntry, n)
  BY DEF NoEntry, Entry, EntryInv

\* A request that takes a step that needs no more than it already has.
LEMMA GotoInv ==
  ASSUME NEW q, NEW s \in [Tools -> Nat], NEW g, ReqInv(q, s, g),
         NEW step \in {"save", "audit", "recorded", "served", "failed", "lost", "earlier"},
         \/ step \in {"failed", "lost", "earlier"} /\ q.step # "idle"
         \/ q.step \in HoldsSchema
  PROVE  ReqInv([q EXCEPT !.step = step], s, g)
<1>. DEFINE p == [q EXCEPT !.step = step]
<1>1. q \in Request
  BY DEF ReqInv
<1>2. /\ p \in Request /\ p.step = step
      /\ p.agent = q.agent /\ p.tool = q.tool /\ p.schema = q.schema /\ p.floor = q.floor
      /\ p.entitled = q.entitled /\ p.late = q.late
  BY <1>1 DEF Request
<1>. HIDE DEF p
<1>3. ReqInv(p, s, g)
  BY <1>2 DEF ReqInv, HoldsSchema
<1>. QED BY <1>3 DEF p

\* What a request knows does not depend on the grants once it is past the check,
\* and more grants or newer registrations are covered by what its step says.
LEMMA ReqKept ==
  ASSUME NEW q, NEW s \in [Tools -> Nat], NEW g, NEW h, ReqInv(q, s, g), h \subseteq g
  PROVE  ReqInv(q, s, h)
  BY DEF ReqInv

\* The requests of other agents or tools keep their state when one is replaced.
LEMMA ReqReplaced ==
  ASSUME Types, req \in [Reqs -> Request], \A r \in Reqs : ReqInv(req[r], settled, granted),
         NEW r \in Reqs, NEW q, ReqInv(q, settled, granted), req' = [req EXCEPT ![r] = q]
  PROVE  req' \in [Reqs -> Request] /\ \A x \in Reqs : ReqInv(req'[x], settled, granted)
<1>1. q \in Request
  BY DEF ReqInv
<1>2. \A x \in Reqs : req'[x] = IF x = r THEN q ELSE req[x]
  OBVIOUS
<1>. QED BY <1>1, <1>2

\* TokenRouter starts in the invariant.
LEMMA InitInv == Init => IInv
<1>. SUFFICES ASSUME Init PROVE IInv
  OBVIOUS
<1>1. Types
  BY RouterAssumption DEF Init, Types
<1>2. \A r \in Reqs : req[r] \in Request /\ ReqInv(req[r], settled, granted)
  <2>. SUFFICES ASSUME NEW r \in Reqs PROVE req[r] \in Request /\ ReqInv(req[r], settled, granted)
    OBVIOUS
  <2>1. PICK a \in Agents, t \in Tools :
          req[r] = [step |-> "idle", agent |-> a, tool |-> t, schema |-> 0,
                    floor |-> 0, entitled |-> FALSE, late |-> FALSE]
    BY DEF Init
  <2>. QED BY <2>1 DEF Request, ReqInv, HoldsSchema
<1>3. \A t \in Tools : cache[t] \in Entry /\ EntryInv(cache[t], settled[t])
  BY <1>1, NoEntryInv DEF Init, Types
<1>4. \A g \in Regs : reg[g] \in Registration /\ RegInv(reg[g])
  <2>. SUFFICES ASSUME NEW g \in Regs PROVE reg[g] \in Registration /\ RegInv(reg[g])
    OBVIOUS
  <2>1. PICK t \in Tools : reg[g] = [step |-> "idle", tool |-> t, version |-> 0]
    BY DEF Init
  <2>. QED BY <2>1 DEF Registration, RegInv
<1>5. \A t \in Tools : settled[t] <= tool[t]
  BY RouterAssumption DEF Init
<1>6. req \in [Reqs -> Request] /\ cache \in [Tools -> Entry] /\ reg \in [Regs -> Registration]
  <2>1. DOMAIN req = Reqs /\ DOMAIN cache = Tools /\ DOMAIN reg = Regs
    BY DEF Init
  <2>2. req = [r \in Reqs |-> req[r]] /\ cache = [t \in Tools |-> cache[t]] /\ reg = [g \in Regs |-> reg[g]]
    BY <2>1 DEF Init
  <2>. QED BY <1>2, <1>3, <1>4, <2>2
<1>. QED BY <1>1, <1>2, <1>3, <1>4, <1>5, <1>6 DEF IInv

-----------------------------------------------------------------------------
(* Each action keeps the invariant.                                        *)

\* A grant appears: the requests that wait for the check become entitled.
LEMMA ApproveInv ==
  ASSUME IInv, NEW a \in Agents, NEW t \in Tools, Approve(a, t)
  PROVE  IInv'
<1>. DEFINE q(r) == [req[r] EXCEPT !.entitled = TRUE]
<1>1. Types'
  BY DEF IInv, Types, Approve
<1>2. \A r \in Reqs : req'[r] \in Request /\ ReqInv(req'[r], settled, granted')
  <2>. SUFFICES ASSUME NEW r \in Reqs PROVE req'[r] \in Request /\ ReqInv(req'[r], settled, granted')
    OBVIOUS
  <2>1. req[r] \in Request /\ ReqInv(req[r], settled, granted)
    BY DEF IInv
  <2>2. CASE req[r].agent = a /\ req[r].tool = t /\ req[r].step = "grant"
    <3>1. req'[r] = q(r)
      BY <2>2 DEF Approve
    <3>2. /\ q(r) \in Request /\ q(r).entitled = TRUE
          /\ q(r).step = "grant" /\ q(r).agent = req[r].agent /\ q(r).tool = req[r].tool
          /\ q(r).floor = req[r].floor
      BY <2>1, <2>2 DEF Request
    <3>. HIDE DEF q
    <3>3. ReqInv(q(r), settled, granted')
      BY <2>1, <2>2, <3>2 DEF ReqInv, HoldsSchema
    <3>. QED BY <3>1, <3>2, <3>3
  <2>3. CASE ~(req[r].agent = a /\ req[r].tool = t /\ req[r].step = "grant")
    <3>1. req'[r] = req[r]
      BY <2>3 DEF Approve
    <3>2. req[r].step = "grant" /\ <<req[r].agent, req[r].tool>> \in granted'
            => <<req[r].agent, req[r].tool>> \in granted
      BY <2>3 DEF Approve
    <3>3. ReqInv(req[r], settled, granted')
      BY <2>1, <3>2 DEF ReqInv
    <3>. QED BY <2>1, <3>1, <3>3
  <2>. QED BY <2>2, <2>3
<1>3. req' \in [Reqs -> Request]
  BY <1>2 DEF Approve
<1>4. UNCHANGED <<tool, cache, reg, settled>>
  BY DEF Approve
<1>. QED BY <1>1, <1>2, <1>3, <1>4 DEF IInv, RegInv

\* A grant goes: entitled is about the past.
LEMMA WithdrawInv ==
  ASSUME IInv, NEW a \in Agents, NEW t \in Tools, Withdraw(a, t)
  PROVE  IInv'
<1>1. Types'
  BY DEF IInv, Types, Withdraw
<1>2. granted' \subseteq granted /\ UNCHANGED <<tool, cache, req, reg, settled>>
  BY DEF Withdraw
<1>3. \A r \in Reqs : ReqInv(req[r], settled, granted')
  BY <1>2, ReqKept DEF IInv, Types
<1>. QED BY <1>1, <1>2, <1>3 DEF IInv, RegInv

\* A registration that has committed.
LEMMA RegUpdate ==
  ASSUME NEW z \in Registration, NEW n \in Nat
  PROVE  LET x == [z EXCEPT !.step = "invalidate", !.version = n]
         IN x \in Registration /\ x.tool = z.tool /\ x.version = n
  BY DEF Registration

\* A registration commits: nothing is settled yet.
LEMMA UpsertInv ==
  ASSUME IInv, NEW g \in Regs, Upsert(g)
  PROVE  IInv'
<1>. DEFINE t == reg[g].tool
            x == [reg[g] EXCEPT !.step = "invalidate", !.version = tool[t] + 1]
<1>1. reg[g] \in Registration /\ t \in Tools /\ tool[t] \in Nat /\ tool[t] < MaxVersions
  BY RouterAssumption DEF IInv, Types, Registration, Upsert
<1>2. tool' = [tool EXCEPT ![t] = @ + 1] /\ reg' = [reg EXCEPT ![g] = x]
  BY DEF Upsert
<1>3. x \in Registration /\ x.tool = t /\ x.version = tool[t] + 1
  <2>1. tool[t] + 1 \in Nat
    BY <1>1
  <2>. QED BY <1>1, <2>1, RegUpdate
<1>. HIDE DEF t, x
<1>4. tool' \in [Tools -> 0..MaxVersions] /\ \A u \in Tools : tool[u] <= tool'[u]
  BY <1>1, <1>2, RouterAssumption DEF IInv, Types
<1>5. Types'
  BY <1>1, <1>4 DEF IInv, Types, Upsert, t
<1>6. \A y \in Regs : reg'[y] \in Registration /\ RegInv(reg[y])'
  <2>. SUFFICES ASSUME NEW y \in Regs PROVE reg'[y] \in Registration /\ RegInv(reg[y])'
    OBVIOUS
  <2>1. CASE y = g
    <3>1. reg'[y] = x
      BY <1>2, <2>1 DEF IInv
    <3>2. tool'[t] = tool[t] + 1
      BY <1>1, <1>2 DEF IInv, Types
    <3>. QED BY <1>1, <1>3, <3>1, <3>2 DEF RegInv
  <2>2. CASE y # g
    <3>1. reg'[y] = reg[y]
      BY <1>2, <2>2 DEF IInv
    <3>2. reg[y] \in Registration /\ RegInv(reg[y])
      BY DEF IInv
    <3>3. reg[y].tool \in Tools /\ reg[y].version \in Nat
      BY <3>2 DEF Registration
    <3>4. tool[reg[y].tool] \in Nat /\ tool'[reg[y].tool] \in Nat /\ tool[reg[y].tool] <= tool'[reg[y].tool]
      BY <1>4, <3>3, RouterAssumption DEF IInv, Types
    <3>. QED BY <3>1, <3>2, <3>3, <3>4 DEF RegInv
  <2>. QED BY <2>1, <2>2
<1>7. reg' \in [Regs -> Registration]
  BY <1>2, <1>6 DEF IInv
<1>8. UNCHANGED <<cache, req, granted, settled>>
  BY DEF Upsert
<1>9. \A u \in Tools : settled'[u] <= tool'[u]
  <2>. SUFFICES ASSUME NEW u \in Tools PROVE settled[u] <= tool'[u]
    BY <1>8
  <2>1. settled[u] \in Nat /\ tool[u] \in Nat /\ tool'[u] \in Nat /\ settled[u] <= tool[u] /\ tool[u] <= tool'[u]
    BY <1>4, RouterAssumption DEF IInv, Types
  <2>. QED BY <2>1
<1>. QED BY <1>5, <1>6, <1>7, <1>8, <1>9 DEF IInv

\* What emptying the cache does to a request that is filling it: it is late.
LEMMA OvertakenInv ==
  ASSUME IInv, NEW ts \in SUBSET Tools, NEW s \in [Tools -> Nat],
         \A u \in Tools : s[u] >= settled[u],
         \A u \in Tools \ ts : s[u] = settled[u]
  PROVE  /\ Overtaken(ts) \in [Reqs -> Request]
         /\ \A r \in Reqs : ReqInv(Overtaken(ts)[r], s, granted)
<1>1. \A r \in Reqs : Overtaken(ts)[r] \in Request /\ ReqInv(Overtaken(ts)[r], s, granted)
  <2>. SUFFICES ASSUME NEW r \in Reqs
                PROVE  Overtaken(ts)[r] \in Request /\ ReqInv(Overtaken(ts)[r], s, granted)
    OBVIOUS
  <2>. DEFINE q == [req[r] EXCEPT !.late = TRUE]
  <2>1. req[r] \in Request /\ ReqInv(req[r], settled, granted)
    BY DEF IInv
  <2>2. req[r].tool \in Tools /\ req[r].floor \in Nat /\ req[r].schema \in Nat
    BY <2>1 DEF Request
  <2>3. s[req[r].tool] \in Nat /\ settled[req[r].tool] \in Nat /\ s[req[r].tool] >= settled[req[r].tool]
    BY <2>2 DEF IInv, Types
  <2>4. CASE req[r].tool \in ts /\ req[r].step = "fill"
    <3>1. Overtaken(ts)[r] = q
      BY <2>4 DEF Overtaken
    <3>2. /\ q \in Request /\ q.late = TRUE /\ q.step = "fill" /\ q.tool = req[r].tool
          /\ q.floor = req[r].floor /\ q.schema = req[r].schema /\ q.entitled = req[r].entitled
      BY <2>1, <2>4 DEF Request
    <3>. HIDE DEF q
    <3>3. ReqInv(q, s, granted)
      BY <2>1, <2>2, <2>3, <2>4, <3>2 DEF ReqInv, HoldsSchema
    <3>. QED BY <3>1, <3>2, <3>3
  <2>5. CASE ~(req[r].tool \in ts /\ req[r].step = "fill")
    <3>1. Overtaken(ts)[r] = req[r]
      BY <2>5 DEF Overtaken
    <3>2. req[r].step = "fill" => s[req[r].tool] = settled[req[r].tool]
      BY <2>2, <2>5
    <3>3. ReqInv(req[r], s, granted)
      BY <2>1, <2>2, <2>3, <3>2 DEF ReqInv
    <3>. QED BY <2>1, <3>1, <3>3
  <2>. QED BY <2>4, <2>5
<1>. QED BY <1>1 DEF Overtaken

\* A registration is answered: its tool's entry is gone, and who was filling is late.
LEMMA RegisteredInv ==
  ASSUME IInv, NEW g \in Regs, Registered(g)
  PROVE  IInv'
<1>. DEFINE t == reg[g].tool
            n == IF reg[g].version > settled[t] THEN reg[g].version ELSE settled[t]
            x == [reg[g] EXCEPT !.step = "idle", !.version = 0]
<1>1. /\ reg[g] \in Registration /\ t \in Tools /\ reg[g].version \in Nat /\ reg[g].version <= tool[t]
      /\ tool[t] \in Nat /\ settled[t] \in Nat /\ settled[t] <= tool[t]
  BY RouterAssumption DEF IInv, Types, Registration, RegInv, Registered
<1>2. /\ cache' = [cache EXCEPT ![t] = NoEntry] /\ req' = Overtaken({t})
      /\ settled' = [settled EXCEPT ![t] = n] /\ reg' = [reg EXCEPT ![g] = x]
      /\ UNCHANGED <<tool, saved, granted, audits, calls, now>>
  BY DEF Registered, Invalidate
<1>3. n \in Nat /\ n >= settled[t] /\ n <= tool[t]
  BY <1>1
<1>4. x \in Registration /\ x.step = "idle"
  BY <1>1 DEF Registration
<1>. HIDE DEF t, n, x
<1>5. /\ settled' \in [Tools -> Nat] /\ \A u \in Tools : settled'[u] >= settled[u]
      /\ \A u \in Tools \ {t} : settled'[u] = settled[u]
      /\ settled'[t] = n
  BY <1>1, <1>2, <1>3 DEF IInv, Types
<1>6. Types'
  BY <1>2, <1>5 DEF IInv, Types
<1>7. req' \in [Reqs -> Request] /\ \A r \in Reqs : ReqInv(req'[r], settled', granted')
  BY <1>1, <1>2, <1>5, OvertakenInv
<1>8. \A u \in Tools : cache'[u] \in Entry /\ EntryInv(cache'[u], settled'[u])
  <2>. SUFFICES ASSUME NEW u \in Tools PROVE cache'[u] \in Entry /\ EntryInv(cache'[u], settled'[u])
    OBVIOUS
  <2>1. CASE u = t
    <3>1. cache'[u] = NoEntry
      BY <1>2, <2>1 DEF IInv
    <3>. QED BY <1>5, <3>1, NoEntryInv
  <2>2. CASE u # t
    BY <1>2, <1>5, <2>2 DEF IInv
  <2>. QED BY <2>1, <2>2
<1>9. cache' \in [Tools -> Entry]
  BY <1>2, <1>8, NoEntryInv DEF IInv
<1>10. reg' \in [Regs -> Registration] /\ \A y \in Regs : RegInv(reg[y])'
  <2>1. reg' \in [Regs -> Registration]
    BY <1>2, <1>4 DEF IInv
  <2>2. \A y \in Regs : reg'[y] = IF y = g THEN x ELSE reg[y]
    BY <1>2 DEF IInv
  <2>. QED BY <1>2, <1>4, <2>1, <2>2 DEF IInv, RegInv
<1>11. \A u \in Tools : settled'[u] <= tool'[u]
  BY <1>2, <1>3, <1>5 DEF IInv
<1>. QED BY <1>6, <1>7, <1>8, <1>9, <1>10, <1>11 DEF IInv

\* All entries go, and every request that is filling is late.
LEMMA FlushInv ==
  ASSUME IInv, Flush
  PROVE  IInv'
<1>1. /\ cache' = [t \in Tools |-> NoEntry] /\ req' = Overtaken(Tools)
      /\ UNCHANGED <<tool, saved, granted, reg, settled, audits, calls, now>>
  BY DEF Flush
<1>2. settled \in [Tools -> Nat]
  BY DEF IInv, Types
<1>3. req' \in [Reqs -> Request] /\ \A r \in Reqs : ReqInv(req'[r], settled, granted)
  <2>1. \A u \in Tools : settled[u] >= settled[u]
    BY <1>2
  <2>. QED BY <1>1, <1>2, <2>1, OvertakenInv
<1>4. cache' \in [Tools -> Entry] /\ \A t \in Tools : EntryInv(cache'[t], settled[t])
  BY <1>1, <1>2, NoEntryInv
<1>5. Types'
  BY <1>1 DEF IInv, Types
<1>. QED BY <1>1, <1>3, <1>4, <1>5 DEF IInv, RegInv

\* Time passes: entries only expire.
LEMMA TickInv ==
  ASSUME IInv, Tick
  PROVE  IInv'
<1>1. UNCHANGED <<tool, saved, cache, granted, req, reg, settled, audits, calls>> /\ now' \in Nat
  BY DEF IInv, Types, Tick
<1>. QED BY <1>1 DEF IInv, Types, RegInv

\* The requests that change one request and maybe an entry, a counter or saved.
LEMMA ReqStepInv ==
  ASSUME IInv, NEW r \in Reqs, NEW q, ReqInv(q, settled, granted),
         req' = [req EXCEPT ![r] = q],
         cache' \in [Tools -> Entry], \A t \in Tools : EntryInv(cache'[t], settled[t]),
         saved' \in [Tools -> Nat], audits' \in [Tools -> Nat], calls' \in [Tools -> Nat],
         UNCHANGED <<tool, granted, reg, settled, now>>
  PROVE  IInv'
<1>1. req' \in [Reqs -> Request] /\ \A x \in Reqs : ReqInv(req'[x], settled, granted)
  BY ReqReplaced DEF IInv
<1>2. Types'
  BY DEF IInv, Types
<1>. QED BY <1>1, <1>2 DEF IInv, RegInv

\* A request as it arrives.
Arrived(z, n, e) == [z EXCEPT !.step = "grant", !.floor = n, !.entitled = e]

\* What arriving sets and what it leaves alone.
LEMMA ArrivedFields ==
  ASSUME NEW z \in Request, NEW n \in Nat, NEW e \in BOOLEAN
  PROVE  /\ Arrived(z, n, e) \in Request /\ Arrived(z, n, e).step = "grant"
         /\ Arrived(z, n, e).floor = n /\ Arrived(z, n, e).entitled = e
         /\ Arrived(z, n, e).agent = z.agent /\ Arrived(z, n, e).tool = z.tool
  BY DEF Request, Arrived

\* Get keeps the invariant: the newest settled registration is the floor.
LEMMA GetInv ==
  ASSUME IInv, NEW r \in Reqs, Get(r)
  PROVE  IInv'
<1>. DEFINE n == settled[req[r].tool]
            e == <<req[r].agent, req[r].tool>> \in granted
            q == Arrived(req[r], n, e)
<1>1. req[r] \in Request /\ req[r].tool \in Tools
  BY DEF IInv, Request
<1>2. n \in Nat /\ e \in BOOLEAN
  BY <1>1 DEF IInv, Types
<1>3. /\ q \in Request /\ q.step = "grant" /\ q.floor = n /\ q.entitled = e
      /\ q.agent = req[r].agent /\ q.tool = req[r].tool
  <2>. HIDE DEF n, e
  <2>. QED BY <1>1, <1>2, ArrivedFields
<1>4. req' = [req EXCEPT ![r] = q]
  BY DEF Get, Arrived
<1>5. UNCHANGED <<tool, saved, cache, granted, reg, settled, audits, calls, now>>
  BY DEF Get
<1>. HIDE DEF q
<1>6. <<q.agent, q.tool>> \in granted => q.entitled
  BY <1>3, Zenon
<1>7. q.floor <= settled[q.tool]
  BY <1>2, <1>3
<1>8. ReqInv(q, settled, granted)
  BY <1>3, <1>6, <1>7 DEF ReqInv, HoldsSchema
<1>. QED BY <1>4, <1>5, <1>8, ReqStepInv DEF IInv, Types

\* A request that finds its schema in the cache, or reads the tools table.
Hit(z, n, l) == [z EXCEPT !.step = "audit", !.schema = n, !.late = l]
Read(z, n) == [z EXCEPT !.step = "fill", !.schema = n]

\* What a hit sets and what it leaves alone.
LEMMA HitFields ==
  ASSUME NEW z \in Request, NEW n \in Nat, NEW l \in BOOLEAN
  PROVE  /\ Hit(z, n, l) \in Request /\ Hit(z, n, l).step = "audit"
         /\ Hit(z, n, l).schema = n /\ Hit(z, n, l).late = l
         /\ Hit(z, n, l).agent = z.agent /\ Hit(z, n, l).tool = z.tool
         /\ Hit(z, n, l).floor = z.floor /\ Hit(z, n, l).entitled = z.entitled
  BY DEF Request, Hit

\* The same for a read.
LEMMA ReadFields ==
  ASSUME NEW z \in Request, NEW n \in Nat
  PROVE  /\ Read(z, n) \in Request /\ Read(z, n).step = "fill" /\ Read(z, n).schema = n
         /\ Read(z, n).agent = z.agent /\ Read(z, n).tool = z.tool /\ Read(z, n).late = z.late
         /\ Read(z, n).floor = z.floor /\ Read(z, n).entitled = z.entitled
  BY DEF Request, Read

\* The access check, and on a grant the look into the cache.
LEMMA FindActiveInv ==
  ASSUME IInv, NEW r \in Reqs, FindActive(r)
  PROVE  IInv'
<1>. DEFINE t == req[r].tool
<1>1. /\ req[r] \in Request /\ t \in Tools /\ req[r].step = "grant" /\ req[r].floor \in Nat
      /\ ReqInv(req[r], settled, granted)
  BY DEF IInv, Request, FindActive
<1>2. UNCHANGED <<tool, saved, granted, reg, settled, audits, calls, now>>
  BY DEF FindActive
<1>3. /\ settled \in [Tools -> Nat] /\ settled[t] \in Nat /\ cache[t] \in Entry
      /\ EntryInv(cache[t], settled[t]) /\ now \in Nat
  BY <1>1 DEF IInv, Types
<1>4. CASE <<req[r].agent, req[r].tool>> \in granted /\ CacheGet(r) /\ Live(t)
  <2>. DEFINE q == Hit(req[r], cache[t].schema, cache[t].late)
  <2>1. cache[t].schema \in Nat /\ cache[t].late \in BOOLEAN /\ cache[t].expiresAt \in Nat
    BY <1>3 DEF Entry
  <2>2. /\ q \in Request /\ q.step = "audit" /\ q.schema = cache[t].schema /\ q.late = cache[t].late
        /\ q.agent = req[r].agent /\ q.tool = req[r].tool
        /\ q.floor = req[r].floor /\ q.entitled = req[r].entitled
    <3>. DEFINE n == cache[t].schema
                l == cache[t].late
    <3>1. n \in Nat /\ l \in BOOLEAN
      BY <2>1
    <3>. HIDE DEF n, l
    <3>2. /\ Hit(req[r], n, l) \in Request /\ Hit(req[r], n, l).step = "audit"
          /\ Hit(req[r], n, l).schema = n /\ Hit(req[r], n, l).late = l
          /\ Hit(req[r], n, l).agent = req[r].agent /\ Hit(req[r], n, l).tool = req[r].tool
          /\ Hit(req[r], n, l).floor = req[r].floor /\ Hit(req[r], n, l).entitled = req[r].entitled
      BY <1>1, <3>1, HitFields
    <3>. QED BY <3>2 DEF n, l
  <2>3. req' = [req EXCEPT ![r] = q] /\ cache' = cache
    BY <1>4 DEF CacheGet, Hit
  <2>. HIDE DEF q
  <2>4. cache[t].expiresAt # 0
    BY <1>3, <1>4, <2>1 DEF Live
  <2>5. req[r].floor <= settled[t] /\ req[r].entitled
    BY <1>1, <1>4 DEF ReqInv
  <2>6. cache[t].late \/ cache[t].schema >= req[r].floor
    BY <1>1, <1>3, <2>1, <2>4, <2>5 DEF EntryInv
  <2>7. ReqInv(q, settled, granted)
    BY <1>1, <1>3, <2>2, <2>4, <2>5, <2>6 DEF ReqInv, EntryInv, HoldsSchema
  <2>. QED BY <1>2, <2>3, <2>7, ReqStepInv DEF IInv, Types
<1>5. CASE <<req[r].agent, req[r].tool>> \in granted /\ CacheGet(r) /\ ~Live(t)
  <2>. DEFINE q == [req[r] EXCEPT !.step = "find"]
  <2>1. /\ q \in Request /\ q.step = "find" /\ q.tool = req[r].tool
        /\ q.floor = req[r].floor /\ q.entitled = req[r].entitled
    BY <1>1 DEF Request
  <2>2. req' = [req EXCEPT ![r] = q] /\ cache' = [cache EXCEPT ![t] = NoEntry]
    BY <1>5 DEF CacheGet
  <2>. HIDE DEF q
  <2>3. ReqInv(q, settled, granted)
    BY <1>1, <1>5, <2>1 DEF ReqInv, HoldsSchema
  <2>4. cache' \in [Tools -> Entry] /\ \A u \in Tools : EntryInv(cache'[u], settled[u])
    BY <1>3, <2>2, NoEntryInv DEF IInv
  <2>. QED BY <1>2, <2>2, <2>3, <2>4, ReqStepInv DEF IInv, Types
<1>6. CASE Goto(r, "failed") /\ UNCHANGED cache
  <2>. DEFINE q == [req[r] EXCEPT !.step = "failed"]
  <2>1. req' = [req EXCEPT ![r] = q]
    BY <1>6 DEF Goto
  <2>2. ReqInv(q, settled, granted)
    BY <1>1, <1>3, GotoInv
  <2>. HIDE DEF q
  <2>. QED BY <1>2, <1>6, <2>1, <2>2, ReqStepInv DEF IInv, Types
<1>. QED BY <1>4, <1>5, <1>6 DEF FindActive

\* The tools table is at least as new as what is settled.
LEMMA FindByNameInv ==
  ASSUME IInv, NEW r \in Reqs, FindByName(r)
  PROVE  IInv'
<1>. DEFINE t == req[r].tool
<1>1. /\ req[r] \in Request /\ t \in Tools /\ req[r].step = "find" /\ req[r].floor \in Nat
      /\ ReqInv(req[r], settled, granted)
  BY DEF IInv, Request, FindByName
<1>2. UNCHANGED <<tool, saved, cache, granted, reg, settled, audits, calls, now>>
  BY DEF FindByName
<1>3. /\ settled \in [Tools -> Nat] /\ settled[t] \in Nat /\ settled[t] <= tool[t]
      /\ tool[t] \in 0..MaxVersions /\ tool[t] \in Nat
  BY <1>1, RouterAssumption DEF IInv, Types
<1>4. CASE Goto(r, "failed")
  <2>. DEFINE q == [req[r] EXCEPT !.step = "failed"]
  <2>1. req' = [req EXCEPT ![r] = q]
    BY <1>4 DEF Goto
  <2>2. ReqInv(q, settled, granted)
    BY <1>1, <1>3, GotoInv
  <2>. HIDE DEF q
  <2>. QED BY <1>2, <2>1, <2>2, ReqStepInv DEF IInv, Types
<1>5. CASE tool[t] # 0 /\ req' = [req EXCEPT ![r] = [@ EXCEPT !.step = "fill", !.schema = tool[t]]]
  <2>. DEFINE q == Read(req[r], tool[t])
  <2>1. /\ q \in Request /\ q.step = "fill" /\ q.schema = tool[t] /\ q.late = req[r].late
        /\ q.agent = req[r].agent /\ q.tool = req[r].tool
        /\ q.floor = req[r].floor /\ q.entitled = req[r].entitled
    BY <1>1, <1>3, ReadFields
  <2>2. req' = [req EXCEPT ![r] = q]
    BY <1>5 DEF Read
  <2>. HIDE DEF q
  <2>3. req[r].floor <= settled[t] /\ req[r].entitled
    BY <1>1 DEF ReqInv
  <2>4. tool[t] >= req[r].floor /\ tool[t] \in 1..MaxVersions
    BY <1>1, <1>3, <1>5, <2>3
  <2>5. ReqInv(q, settled, granted)
    BY <1>1, <1>3, <2>1, <2>3, <2>4 DEF ReqInv, HoldsSchema
  <2>. QED BY <1>2, <2>2, <2>5, ReqStepInv DEF IInv, Types
<1>. QED BY <1>4, <1>5 DEF FindByName

\* What is stored in the cache is as good as what the request read.
LEMMA FillInv ==
  ASSUME IInv, NEW r \in Reqs, Fill(r)
  PROVE  IInv'
<1>. DEFINE t == req[r].tool
            q == [req[r] EXCEPT !.step = "save"]
            z == [req[r] EXCEPT !.step = "failed"]
            e == [schema |-> req[r].schema, expiresAt |-> now + TTL, late |-> req[r].late]
<1>1. /\ req[r] \in Request /\ t \in Tools /\ req[r].step = "fill"
      /\ req[r].schema \in Nat /\ req[r].late \in BOOLEAN
      /\ ReqInv(req[r], settled, granted)
  BY DEF IInv, Request, Fill
<1>2. /\ UNCHANGED <<tool, saved, granted, reg, settled, audits, calls, now>>
      /\ \/ /\ req' = [req EXCEPT ![r] = q]
            /\ cache' = IF TTL = 0 THEN cache ELSE [cache EXCEPT ![t] = e]
         \/ req' = [req EXCEPT ![r] = z] /\ cache' = cache
  BY DEF Fill, Goto
<1>3. settled \in [Tools -> Nat] /\ now \in Nat /\ TTL \in Nat
  BY RouterAssumption DEF IInv, Types
<1>4. ReqInv(q, settled, granted) /\ ReqInv(z, settled, granted)
  BY <1>1, <1>3, GotoInv DEF HoldsSchema
<1>5. e \in Entry /\ EntryInv(e, settled[t])
  <2>1. e \in Entry /\ e.schema = req[r].schema /\ e.late = req[r].late
    BY <1>1, <1>3 DEF Entry
  <2>. HIDE DEF e
  <2>. QED BY <1>1, <2>1 DEF ReqInv, EntryInv, HoldsSchema
<1>. HIDE DEF q, e, z
<1>6. cache' \in [Tools -> Entry] /\ \A u \in Tools : EntryInv(cache'[u], settled[u])
  BY <1>1, <1>2, <1>5 DEF IInv
<1>. QED BY <1>2, <1>4, <1>6, ReqStepInv DEF IInv, Types

\* The write to schema_cache, which nothing reads, the audit row and the metric.
LEMMA RestInv ==
  ASSUME IInv, NEW r \in Reqs, CacheSchema(r) \/ AuditSchema(r) \/ Serve(r)
  PROVE  IInv'
<1>1. /\ req[r] \in Request /\ req[r].tool \in Tools /\ req[r].schema \in Nat
      /\ req[r].step \in {"save", "audit", "recorded"} /\ ReqInv(req[r], settled, granted)
  BY DEF IInv, Request, CacheSchema, AuditSchema, Serve
<1>2. UNCHANGED <<tool, cache, granted, reg, settled, now>>
  BY DEF CacheSchema, AuditSchema, Serve
<1>3. saved' \in [Tools -> Nat] /\ audits' \in [Tools -> Nat] /\ calls' \in [Tools -> Nat]
  BY <1>1 DEF IInv, Types, CacheSchema, AuditSchema, Serve
<1>4. PICK step \in {"audit", "recorded", "served", "failed", "lost"} :
        req' = [req EXCEPT ![r] = [@ EXCEPT !.step = step]]
  BY DEF CacheSchema, AuditSchema, Serve, Goto
<1>. DEFINE q == [req[r] EXCEPT !.step = step]
<1>5. req' = [req EXCEPT ![r] = q]
  BY <1>4
<1>6. settled \in [Tools -> Nat]
  BY DEF IInv, Types
<1>7. ReqInv(q, settled, granted)
  BY <1>1, <1>6, GotoInv DEF HoldsSchema
<1>. HIDE DEF q
<1>. QED BY <1>2, <1>3, <1>5, <1>7, ReqStepInv DEF IInv

\* A restart empties the cache and leaves no request on its way.
LEMMA RestartInv ==
  ASSUME IInv, Restart
  PROVE  IInv'
<1>1. /\ cache' = [t \in Tools |-> NoEntry] /\ calls' = [t \in Tools |-> 0]
      /\ UNCHANGED <<tool, saved, granted, settled, audits, now>>
  BY DEF Restart
<1>2. settled \in [Tools -> Nat]
  BY DEF IInv, Types
<1>3. Types'
  BY <1>1 DEF IInv, Types
<1>4. cache' \in [Tools -> Entry] /\ \A t \in Tools : EntryInv(cache'[t], settled[t])
  BY <1>1, <1>2, NoEntryInv
<1>5. \A r \in Reqs : req'[r] \in Request /\ ReqInv(req'[r], settled, granted)
  <2>. SUFFICES ASSUME NEW r \in Reqs
                PROVE  req'[r] \in Request /\ ReqInv(req'[r], settled, granted)
    OBVIOUS
  <2>. DEFINE step == Orphaned(req[r].step)
              q == [req[r] EXCEPT !.step = step]
  <2>1. req'[r] = q /\ req[r] \in Request /\ ReqInv(req[r], settled, granted)
    BY DEF Restart, IInv
  <2>2. CASE req[r].step = "idle"
    BY <2>1, <2>2 DEF Orphaned, Request
  <2>3. CASE req[r].step # "idle"
    <3>1. step \in {"failed", "lost", "earlier"}
      BY <2>3 DEF Orphaned
    <3>2. ReqInv(q, settled, granted)
      BY <1>2, <2>1, <2>3, <3>1, GotoInv
    <3>. QED BY <2>1, <3>2 DEF ReqInv
  <2>. QED BY <2>2, <2>3
<1>6. req' \in [Reqs -> Request]
  BY <1>5 DEF Restart
<1>7. \A g \in Regs : reg'[g] \in Registration /\ reg'[g].step = "idle"
  BY DEF Restart, IInv, Registration
<1>8. reg' \in [Regs -> Registration] /\ \A g \in Regs : RegInv(reg[g])'
  BY <1>7 DEF Restart, RegInv
<1>. QED BY <1>1, <1>3, <1>4, <1>5, <1>6, <1>8 DEF IInv

\* The step relation of TokenRouter keeps the invariant.
LEMMA NextInv == IInv /\ [Next]_vars => IInv'
<1>. SUFFICES ASSUME IInv, [Next]_vars PROVE IInv'
  OBVIOUS
<1>1. CASE UNCHANGED vars
  BY <1>1 DEF vars, IInv, Types, RegInv
<1>2. CASE \E a \in Agents, t \in Tools : Approve(a, t) \/ Withdraw(a, t)
  BY <1>2, ApproveInv, WithdrawInv
<1>3. CASE \E g \in Regs : Upsert(g) \/ Registered(g)
  BY <1>3, UpsertInv, RegisteredInv
<1>4. CASE Flush \/ Tick \/ Restart
  BY <1>4, FlushInv, TickInv, RestartInv
<1>5. CASE \E r \in Reqs : \/ Get(r) \/ FindActive(r) \/ FindByName(r) \/ Fill(r)
                           \/ CacheSchema(r) \/ AuditSchema(r) \/ Serve(r)
  BY <1>5, GetInv, FindActiveInv, FindByNameInv, FillInv, RestInv
<1>. QED BY <1>1, <1>2, <1>3, <1>4, <1>5 DEF Next

-----------------------------------------------------------------------------
\* The token router's state keeps its types, and who holds a schema holds one
\* that was registered: getToolSchema never serves a tool that does not exist.
THEOREM RouterTypeCorrect == Spec => []TypeOK
<1>1. IInv => TypeOK
  BY DEF IInv, Types, ReqInv, TypeOK, HoldsSchema
<1>. QED BY <1>1, InitInv, NextInv, PTL DEF Spec

\* The access check of getToolSchema guards every schema served, from the table
\* or from the cache that all agents share.
THEOREM AccessIsChecked == Spec => []ServedWereEntitled
<1>1. IInv => ServedWereEntitled
  BY DEF IInv, ReqInv, ServedWereEntitled, HoldsSchema
<1>. QED BY <1>1, InitInv, NextInv, PTL DEF Spec

\* Registration invalidates what it replaces: only a fill that overlapped it can
\* leave an older schema behind.
THEOREM StalenessIsBounded == Spec => []StaleNeedsOverlap
<1>1. IInv => StaleNeedsOverlap
  <2>. SUFFICES ASSUME IInv PROVE StaleNeedsOverlap
    OBVIOUS
  <2>1. \A r \in Reqs : req[r].step \in {"fill", "save", "audit", "recorded", "served"} =>
          req[r].schema >= req[r].floor \/ req[r].late
    BY DEF IInv, ReqInv, HoldsSchema
  <2>2. \A t \in Tools : Live(t) => cache[t].expiresAt # 0
    <3>. SUFFICES ASSUME NEW t \in Tools, Live(t) PROVE cache[t].expiresAt # 0
      OBVIOUS
    <3>1. cache[t].expiresAt \in Nat /\ now \in Nat
      BY DEF IInv, Types, Entry
    <3>. QED BY <3>1 DEF Live
  <2>3. \A t \in Tools : Live(t) => cache[t].schema >= settled[t] \/ cache[t].late
    BY <2>2 DEF IInv, EntryInv
  <2>. QED BY <2>1, <2>3 DEF StaleNeedsOverlap
<1>. QED BY <1>1, InitInv, NextInv, PTL DEF Spec

-----------------------------------------------------------------------------
(* Telemetry                                                               *)

Served(t) == {r \in Reqs : req[r].tool = t /\ req[r].step = "served"}

Unserved == {"recorded", "lost", "earlier"}

\* The requests of which there is an audit row.
Recorded(t) == {r \in Reqs : req[r].tool = t /\ req[r].step \in Unserved \cup {"served"}}

\* The requests recorded so far are finitely many even if Reqs is not, so their
\* number is defined.
TelemetryInv ==
  \A t \in Tools : /\ IsFiniteSet(Served(t)) /\ IsFiniteSet(Recorded(t))
                   /\ calls[t] = Cardinality(Served(t))
                   /\ audits[t] = Cardinality(Recorded(t))

\* What a step that records and serves nobody leaves alone.
SameTelemetry ==
  \A x \in Reqs : /\ req'[x].tool = req[x].tool
                  /\ req'[x].step = "served" <=> req[x].step = "served"
                  /\ req'[x].step \in Unserved <=> req[x].step \in Unserved

LEMMA NobodyServed ==
  ASSUME TelemetryInv, UNCHANGED <<audits, calls>>, SameTelemetry
  PROVE  TelemetryInv'
<1>1. \A t \in Tools : Served(t)' = Served(t) /\ Recorded(t)' = Recorded(t)
  BY DEF Served, Recorded, SameTelemetry
<1>. QED BY <1>1 DEF TelemetryInv

\* The steps of requests before the audit row.
LEMMA UnservedSteps ==
  ASSUME IInv, NEW r \in Reqs,
         Get(r) \/ FindActive(r) \/ FindByName(r) \/ Fill(r) \/ CacheSchema(r)
  PROVE  SameTelemetry
<1>t. req \in [Reqs -> Request] /\ req[r] \in Request
  BY DEF IInv
<1>g. ASSUME NEW s, Goto(r, s), s \notin Unserved \cup {"served"},
             req[r].step \notin Unserved \cup {"served"}
      PROVE  SameTelemetry
  <2>1. /\ \A x \in Reqs : x # r => req'[x] = req[x]
        /\ req'[r].tool = req[r].tool /\ req'[r].step = s
    BY <1>t, <1>g DEF Goto, Request
  <2>. QED BY <1>g, <2>1 DEF SameTelemetry
<1>1. CASE Get(r)
  BY <1>1, <1>t DEF Get, Request, SameTelemetry, Unserved
<1>2. CASE FindActive(r)
  <2>1. CASE CacheGet(r)
    BY <1>2, <1>t, <2>1 DEF FindActive, CacheGet, Request, SameTelemetry, Unserved
  <2>. QED BY <1>2, <1>g, <2>1 DEF FindActive, Unserved
<1>3. CASE FindByName(r)
  <2>1. CASE req' = [req EXCEPT ![r] = [@ EXCEPT !.step = "fill", !.schema = tool[req[r].tool]]]
    BY <1>3, <1>t, <2>1 DEF FindByName, Request, SameTelemetry, Unserved
  <2>. QED BY <1>3, <1>g, <2>1 DEF FindByName, Unserved
<1>4. CASE Fill(r)
  BY <1>4, <1>g DEF Fill, Unserved
<1>5. CASE CacheSchema(r)
  BY <1>5, <1>g DEF CacheSchema, Unserved
<1>. QED BY <1>1, <1>2, <1>3, <1>4, <1>5

\* A counter and the set it counts grow together.
LEMMA CountedOnce ==
  ASSUME NEW S, NEW r, IsFiniteSet(S), r \notin S
  PROVE  IsFiniteSet(S \cup {r}) /\ Cardinality(S \cup {r}) = Cardinality(S) + 1
  BY FS_AddElement

\* The audit row, and after it the metric.
LEMMA AuditTelemetry ==
  ASSUME IInv, TelemetryInv, NEW r \in Reqs, AuditSchema(r)
  PROVE  TelemetryInv'
<1>. DEFINE u == req[r].tool
<1>t. /\ req \in [Reqs -> Request] /\ req[r] \in Request /\ u \in Tools
      /\ audits \in [Tools -> Nat] /\ calls \in [Tools -> Nat]
      /\ req[r].step = "audit" /\ UNCHANGED calls
  BY DEF IInv, Types, Request, AuditSchema
<1>1. CASE Goto(r, "failed") /\ UNCHANGED audits
  <2>1. /\ \A x \in Reqs : x # r => req'[x] = req[x]
        /\ req'[r].tool = u /\ req'[r].step = "failed"
    BY <1>t, <1>1 DEF Goto, Request
  <2>2. SameTelemetry
    BY <1>t, <2>1 DEF SameTelemetry, Unserved
  <2>. QED BY <1>t, <1>1, <2>2, NobodyServed
<1>2. ASSUME NEW s \in {"recorded", "lost"}, Goto(r, s), audits' = [audits EXCEPT ![u] = @ + 1]
      PROVE  TelemetryInv'
  <2>1. /\ \A x \in Reqs : x # r => req'[x] = req[x]
        /\ req'[r].tool = u /\ req'[r].step = s
    BY <1>t, <1>2 DEF Goto, Request
  <2>. SUFFICES ASSUME NEW t \in Tools
                PROVE  /\ IsFiniteSet(Served(t)') /\ IsFiniteSet(Recorded(t)')
                       /\ calls'[t] = Cardinality(Served(t)')
                       /\ audits'[t] = Cardinality(Recorded(t)')
    BY DEF TelemetryInv
  <2>2. /\ IsFiniteSet(Served(t)) /\ calls[t] = Cardinality(Served(t))
        /\ IsFiniteSet(Recorded(t)) /\ audits[t] = Cardinality(Recorded(t))
    BY DEF TelemetryInv
  <2>3. Served(t)' = Served(t)
    BY <1>t, <2>1 DEF Served
  <2>4. CASE t = u
    <3>1. Recorded(t)' = Recorded(t) \cup {r} /\ r \notin Recorded(t)
      BY <1>t, <2>1, <2>4 DEF Recorded, Unserved
    <3>2. audits'[t] = audits[t] + 1
      BY <1>t, <1>2, <2>4
    <3>. QED BY <1>t, <2>2, <2>3, <3>1, <3>2, CountedOnce
  <2>5. CASE t # u
    <3>1. Recorded(t)' = Recorded(t)
      BY <1>t, <2>1, <2>5 DEF Recorded
    <3>2. audits'[t] = audits[t]
      BY <1>t, <1>2, <2>5
    <3>. QED BY <1>t, <2>2, <2>3, <3>1, <3>2
  <2>. QED BY <2>4, <2>5
<1>. QED BY <1>1, <1>2 DEF AuditSchema

LEMMA ServeTelemetry ==
  ASSUME IInv, TelemetryInv, NEW r \in Reqs, Serve(r)
  PROVE  TelemetryInv'
<1>. DEFINE u == req[r].tool
<1>t. /\ req \in [Reqs -> Request] /\ req[r] \in Request /\ u \in Tools
      /\ calls \in [Tools -> Nat] /\ calls' = [calls EXCEPT ![u] = @ + 1]
      /\ req[r].step = "recorded" /\ UNCHANGED audits
  BY DEF IInv, Types, Request, Serve
<1>1. /\ \A x \in Reqs : x # r => req'[x] = req[x]
      /\ req'[r].tool = u /\ req'[r].step = "served"
  BY <1>t DEF Serve, Goto, Request
<1>. SUFFICES ASSUME NEW t \in Tools
              PROVE  /\ IsFiniteSet(Served(t)') /\ IsFiniteSet(Recorded(t)')
                     /\ calls'[t] = Cardinality(Served(t)')
                     /\ audits'[t] = Cardinality(Recorded(t)')
  BY DEF TelemetryInv
<1>2. /\ IsFiniteSet(Served(t)) /\ calls[t] = Cardinality(Served(t))
      /\ IsFiniteSet(Recorded(t)) /\ audits[t] = Cardinality(Recorded(t))
  BY DEF TelemetryInv
<1>3. Recorded(t)' = Recorded(t)
  BY <1>t, <1>1 DEF Recorded, Unserved
<1>4. CASE t = u
  <2>1. Served(t)' = Served(t) \cup {r} /\ r \notin Served(t)
    BY <1>t, <1>1, <1>4 DEF Served
  <2>2. calls'[t] = calls[t] + 1
    BY <1>t, <1>4
  <2>. QED BY <1>t, <1>2, <1>3, <2>1, <2>2, CountedOnce
<1>5. CASE t # u
  <2>1. Served(t)' = Served(t) /\ calls'[t] = calls[t]
    BY <1>t, <1>1, <1>5 DEF Served
  <2>. QED BY <1>t, <1>2, <1>3, <2>1
<1>. QED BY <1>4, <1>5

\* A restart forgets who was served and keeps what is recorded.
LEMMA RestartTelemetry ==
  ASSUME IInv, TelemetryInv, Restart
  PROVE  TelemetryInv'
<1>t. req \in [Reqs -> Request] /\ UNCHANGED audits /\ calls' = [t \in Tools |-> 0]
  BY DEF IInv, Restart
<1>1. \A x \in Reqs : req'[x].tool = req[x].tool /\ req'[x].step = Orphaned(req[x].step)
  BY <1>t DEF Restart, Request
<1>2. \A x \in Reqs : /\ req'[x].step # "served"
                      /\ req'[x].step \in Unserved <=> req[x].step \in Unserved \cup {"served"}
  BY <1>1 DEF Orphaned, Unserved
<1>3. \A t \in Tools : Served(t)' = {} /\ Recorded(t)' = Recorded(t)
  BY <1>1, <1>2 DEF Served, Recorded
<1>. QED BY <1>t, <1>3, FS_EmptySet DEF TelemetryInv

LEMMA NextTelemetry == IInv /\ TelemetryInv /\ [Next]_vars => TelemetryInv'
<1>. SUFFICES ASSUME IInv, TelemetryInv, [Next]_vars PROVE TelemetryInv'
  OBVIOUS
<1>t. req \in [Reqs -> Request]
  BY DEF IInv
<1>1. ASSUME NEW a \in Agents, NEW t \in Tools, Approve(a, t) PROVE TelemetryInv'
  <2>1. \A r \in Reqs : req'[r] \in {req[r], [req[r] EXCEPT !.entitled = TRUE]}
    BY <1>1 DEF Approve
  <2>2. \A r \in Reqs : req'[r].tool = req[r].tool /\ req'[r].step = req[r].step
    BY <1>t, <2>1 DEF Request
  <2>. QED BY <1>1, <2>2, NobodyServed DEF Approve, SameTelemetry
<1>2. ASSUME NEW ts, req' = Overtaken(ts), UNCHANGED <<audits, calls>> PROVE TelemetryInv'
  <2>1. \A r \in Reqs : req'[r] \in {req[r], [req[r] EXCEPT !.late = TRUE]}
    BY <1>2 DEF Overtaken
  <2>2. \A r \in Reqs : req'[r].tool = req[r].tool /\ req'[r].step = req[r].step
    BY <1>t, <2>1 DEF Request
  <2>. QED BY <1>2, <2>2, NobodyServed DEF SameTelemetry
<1>3. ASSUME NEW g \in Regs, Registered(g) PROVE TelemetryInv'
  BY <1>2, <1>3 DEF Registered
<1>4. CASE Flush
  BY <1>2, <1>4 DEF Flush
<1>5. ASSUME NEW r \in Reqs, \/ Get(r) \/ FindActive(r) \/ FindByName(r) \/ Fill(r)
                             \/ CacheSchema(r)
      PROVE  TelemetryInv'
  <2>1. UNCHANGED <<audits, calls>>
    BY <1>5 DEF Get, FindActive, FindByName, Fill, CacheSchema
  <2>. QED BY <1>5, <2>1, UnservedSteps, NobodyServed
<1>6. ASSUME NEW r \in Reqs, AuditSchema(r) \/ Serve(r) PROVE TelemetryInv'
  BY <1>6, AuditTelemetry, ServeTelemetry
<1>7. CASE UNCHANGED <<req, audits, calls>>
  BY <1>7, NobodyServed DEF SameTelemetry
<1>8. CASE Restart
  BY <1>8, RestartTelemetry
<1>. QED BY <1>1, <1>3, <1>4, <1>5, <1>6, <1>7, <1>8 DEF Next, Withdraw, Upsert, Tick, vars

\* For any number of concurrent requests, of which any may fail or lose its
\* process at any await, the calls reported for a tool are the schemas the
\* process served, and its audit rows are those and the requests recorded but
\* not served by it.
THEOREM TelemetryIsExact == Spec => []TelemetryMatchesServed
<1>1. Init => TelemetryInv
  <2>. SUFFICES ASSUME Init, NEW t \in Tools
                PROVE  /\ IsFiniteSet(Served(t)) /\ calls[t] = Cardinality(Served(t))
                       /\ IsFiniteSet(Recorded(t)) /\ audits[t] = Cardinality(Recorded(t))
    BY DEF TelemetryInv
  <2>1. \A r \in Reqs : req[r].step = "idle"
    BY DEF Init
  <2>2. Served(t) = {} /\ Recorded(t) = {}
    BY <2>1 DEF Served, Recorded, Unserved
  <2>. QED BY <2>2, FS_EmptySet DEF Init
<1>2. IInv /\ TelemetryInv => TelemetryMatchesServed
  <2>. SUFFICES ASSUME IInv, TelemetryInv, NEW t \in Tools
                PROVE  /\ calls[t] = Cardinality(Served(t))
                       /\ audits[t] = calls[t]
                            + Cardinality({r \in Reqs : req[r].tool = t /\ req[r].step \in Unserved})
    BY DEF TelemetryMatchesServed, Served, Unserved
  <2>. DEFINE P == {r \in Reqs : req[r].tool = t /\ req[r].step \in Unserved}
  <2>1. /\ IsFiniteSet(Served(t)) /\ IsFiniteSet(Recorded(t))
        /\ calls[t] = Cardinality(Served(t)) /\ audits[t] = Cardinality(Recorded(t))
    BY DEF TelemetryInv
  <2>2. P \subseteq Recorded(t) /\ P \cup Served(t) = Recorded(t) /\ P \cap Served(t) = {}
    BY DEF Recorded, Served, Unserved
  <2>. HIDE DEF P
  <2>3. IsFiniteSet(P)
    BY <2>1, <2>2, FS_Subset
  <2>4. Cardinality(P) \in Nat /\ Cardinality(Served(t)) \in Nat
    BY <2>1, <2>3, FS_CardinalityType
  <2>5. Cardinality(P \cup Served(t))
          = Cardinality(P) + Cardinality(Served(t)) - Cardinality(P \cap Served(t))
    BY <2>1, <2>3, FS_Union
  <2>6. Cardinality(P \cap Served(t)) = 0
    BY <2>2, FS_EmptySet
  <2>u. Cardinality(Recorded(t)) = Cardinality(P \cup Served(t))
    BY <2>2
  <2>7. audits[t] = calls[t] + Cardinality(P)
    <3>. DEFINE n == Cardinality(P)
                m == Cardinality(Served(t))
    <3>1. /\ n \in Nat /\ m \in Nat /\ calls[t] = m
          /\ audits[t] = n + m - Cardinality(P \cap Served(t))
      BY <2>1, <2>4, <2>5, <2>u
    <3>2. audits[t] = n + m - 0
      BY <2>6, <3>1
    <3>. HIDE DEF n, m
    <3>3. audits[t] = calls[t] + n
      BY <3>1, <3>2
    <3>. QED BY <3>3 DEF n
  <2>. QED BY <2>1, <2>7 DEF P
<1>. QED BY <1>1, <1>2, InitInv, NextInv, NextTelemetry, PTL DEF Spec
=============================================================================
