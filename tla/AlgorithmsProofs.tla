-------------------------- MODULE AlgorithmsProofs --------------------------
(***************************************************************************)
(* Four of the parts of MCParts, without their bounds.  intersect          *)
(* narrows exactly, for all constraint sets: any argument names, any       *)
(* numbers, any other scalars.  The credential of a connection, for any    *)
(* number of tests that overlap and of rotations.  The execution policy,   *)
(* for any rules and lists of any length.  The pages of a listing, for any *)
(* number of rows.  Least elements take the place of induction.            *)
(***************************************************************************)
EXTENDS ConstraintEngine, PolicyEngine, Listing, Connectors, WellFoundedInduction,
        FiniteSetTheorems, SequenceTheorems, TLAPS

Value == Scalar \cup {Missing}

\* The bound that intersectField keeps is the one that admits less.
LEMMA LowerBinds ==
  ASSUME NEW x \in Numbers \cup {Missing}, NEW y \in Numbers \cup {Missing}, NEW v \in Int
  PROVE  /\ Lower(x, y) = Missing <=> x = Missing /\ y = Missing
         /\ (Lower(x, y) # Missing => v <= Lower(x, y))
              <=> (x # Missing => v <= x) /\ (y # Missing => v <= y)
  BY ConstraintAssumption DEF Lower

\* The same for the lower bounds.
LEMMA HigherBinds ==
  ASSUME NEW x \in Numbers \cup {Missing}, NEW y \in Numbers \cup {Missing}, NEW v \in Int
  PROVE  /\ Higher(x, y) = Missing <=> x = Missing /\ y = Missing
         /\ (Higher(x, y) # Missing => v >= Higher(x, y))
              <=> (x # Missing => v >= x) /\ (y # Missing => v >= y)
  BY ConstraintAssumption DEF Higher

\* A value is on the combined `in` list iff it is on both lists that are given.
LEMMA BothBinds ==
  ASSUME NEW s \in (SUBSET Scalar) \cup {Missing}, NEW t \in (SUBSET Scalar) \cup {Missing}, NEW v
  PROVE  (Both(s, t) # Missing => v \in Both(s, t))
           <=> (s # Missing => v \in s) /\ (t # Missing => v \in t)
<1>1. CASE s # Missing /\ t # Missing
  <2>1. s \cap t \in SUBSET (Numbers \cup Scalars) /\ Both(s, t) = s \cap t
    BY <1>1 DEF Scalar, Both
  <2>2. Both(s, t) # Missing
    BY <2>1, ConstraintAssumption
  <2>. QED BY <1>1, <2>1, <2>2
<1>2. CASE ~(s # Missing /\ t # Missing)
  BY <1>2 DEF Both
<1>. QED BY <1>1, <1>2

\* A value is off the combined `not_in` list iff it is off both.
LEMMA EitherBinds ==
  ASSUME NEW s \in (SUBSET Scalar) \cup {Missing}, NEW t \in (SUBSET Scalar) \cup {Missing}, NEW v
  PROVE  (EitherUnlessEmpty(s, t) # Missing => v \notin EitherUnlessEmpty(s, t))
           <=> (s # Missing => v \notin s) /\ (t # Missing => v \notin t)
<1>. DEFINE S == IF s = Missing THEN {} ELSE s
            T == IF t = Missing THEN {} ELSE t
<1>1. S \cup T \in SUBSET (Numbers \cup Scalars)
  BY DEF Scalar
<1>2. S \cup T # Missing
  BY <1>1, ConstraintAssumption
<1>3. (v \notin S <=> (s # Missing => v \notin s)) /\ (v \notin T <=> (t # Missing => v \notin t))
  OBVIOUS
<1>4. EitherUnlessEmpty(s, t) = IF S \cup T = {} THEN Missing ELSE S \cup T
  BY DEF EitherUnlessEmpty
<1>. HIDE DEF S, T
<1>5. (EitherUnlessEmpty(s, t) # Missing => v \notin EitherUnlessEmpty(s, t)) <=> v \notin S \cup T
  BY <1>2, <1>4
<1>. QED BY <1>3, <1>5

\* The merged operator object admits what both objects admit.
LEMMA MergedNarrows ==
  ASSUME NEW a \in Operators, NEW b \in Operators, NEW v \in Value
  PROVE  satisfies(merged(a, b), v) <=> satisfies(a, v) /\ satisfies(b, v)
<1>. DEFINE m == merged(a, b)
<1>1. /\ m.kind = "ops" /\ m.max = Lower(a.max, b.max) /\ m.min = Higher(a.min, b.min)
      /\ m.in = Both(a.in, b.in) /\ m.not_in = EitherUnlessEmpty(a.not_in, b.not_in)
  BY DEF merged
<1>2. /\ a.kind = "ops" /\ b.kind = "ops"
      /\ a.max \in Numbers \cup {Missing} /\ b.max \in Numbers \cup {Missing}
      /\ a.min \in Numbers \cup {Missing} /\ b.min \in Numbers \cup {Missing}
      /\ a.in \in (SUBSET Scalar) \cup {Missing} /\ b.in \in (SUBSET Scalar) \cup {Missing}
      /\ a.not_in \in (SUBSET Scalar) \cup {Missing} /\ b.not_in \in (SUBSET Scalar) \cup {Missing}
  BY DEF Operators
<1>. DEFINE MaxOk(c) == c.max # Missing => v \in Int /\ v <= c.max
            MinOk(c) == c.min # Missing => v \in Int /\ v >= c.min
            InOk(c) == c.in # Missing => v \in c.in
            NotInOk(c) == c.not_in # Missing => v \notin c.not_in
<1>3. MaxOk(m) <=> MaxOk(a) /\ MaxOk(b)
  <2>1. CASE v \in Int
    BY <1>1, <1>2, <2>1, LowerBinds
  <2>2. CASE v \notin Int
    BY <1>1, <1>2, <2>2 DEF Lower
  <2>. QED BY <2>1, <2>2
<1>4. MinOk(m) <=> MinOk(a) /\ MinOk(b)
  <2>1. CASE v \in Int
    BY <1>1, <1>2, <2>1, HigherBinds
  <2>2. CASE v \notin Int
    BY <1>1, <1>2, <2>2 DEF Higher
  <2>. QED BY <2>1, <2>2
<1>5. InOk(m) <=> InOk(a) /\ InOk(b)
  <2>1. (Both(a.in, b.in) # Missing => v \in Both(a.in, b.in))
          <=> (a.in # Missing => v \in a.in) /\ (b.in # Missing => v \in b.in)
    BY <1>2, BothBinds
  <2>2. InOk(m) <=> (Both(a.in, b.in) # Missing => v \in Both(a.in, b.in))
    BY <1>1
  <2>. QED BY <2>1, <2>2
<1>6. NotInOk(m) <=> NotInOk(a) /\ NotInOk(b)
  <2>. DEFINE E == EitherUnlessEmpty(a.not_in, b.not_in)
  <2>1. (E # Missing => v \notin E)
          <=> (a.not_in # Missing => v \notin a.not_in) /\ (b.not_in # Missing => v \notin b.not_in)
    BY <1>2, EitherBinds
  <2>2. NotInOk(m) <=> (E # Missing => v \notin E)
    BY <1>1
  <2>. QED BY <2>1, <2>2
<1>7. \A c : c.kind = "ops" => (satisfies(c, v) <=> MaxOk(c) /\ MinOk(c) /\ InOk(c) /\ NotInOk(c))
  BY DEF satisfies
<1>8. /\ satisfies(m, v) <=> MaxOk(m) /\ MinOk(m) /\ InOk(m) /\ NotInOk(m)
      /\ satisfies(a, v) <=> MaxOk(a) /\ MinOk(a) /\ InOk(a) /\ NotInOk(a)
      /\ satisfies(b, v) <=> MaxOk(b) /\ MinOk(b) /\ InOk(b) /\ NotInOk(b)
  BY <1>1, <1>2, <1>7
<1>. HIDE DEF m, MaxOk, MinOk, InOk, NotInOk
<1>9. satisfies(m, v) <=> satisfies(a, v) /\ satisfies(b, v)
  BY <1>3, <1>4, <1>5, <1>6, <1>8
<1>. QED BY <1>9 DEF m

\* One argument: the combination of two readable constraints is readable, and
\* admits what both admit; where there is none, nothing satisfies both.
LEMMA FieldNarrows ==
  ASSUME NEW a \in Constraint, NEW b \in Constraint, NEW v \in Value, Readable(a), Readable(b)
  PROVE  IF intersectField(a, b) = Null
         THEN ~(satisfies(a, v) /\ satisfies(b, v))
         ELSE /\ Readable(intersectField(a, b))
              /\ satisfies(intersectField(a, b), v) <=> satisfies(a, v) /\ satisfies(b, v)
<1>1. /\ a \in Exact \/ (a \in Operators /\ ~a.other)
      /\ b \in Exact \/ (b \in Operators /\ ~b.other)
  BY DEF Constraint, Readable, Null, Exact, Operators
<1>2. CASE a \in Exact
  <2>1. a.kind = "exact" /\ a # Null
    BY <1>2 DEF Exact, Null
  <2>2. intersectField(a, b) = IF satisfies(b, a.value) THEN a ELSE Null
    BY <2>1 DEF intersectField
  <2>3. satisfies(a, v) <=> v = a.value
    BY <2>1 DEF satisfies
  <2>. QED BY <2>1, <2>2, <2>3 DEF Readable
<1>3. CASE a \in Operators /\ b \in Exact
  <2>1. a.kind # "exact" /\ b.kind = "exact" /\ b # Null
    BY <1>3 DEF Operators, Exact, Null
  <2>2. intersectField(a, b) = IF satisfies(a, b.value) THEN b ELSE Null
    BY <2>1 DEF intersectField
  <2>3. satisfies(b, v) <=> v = b.value
    BY <2>1 DEF satisfies
  <2>. QED BY <2>1, <2>2, <2>3 DEF Readable
<1>4. CASE a \in Operators /\ b \in Operators
  <2>1. a.kind # "exact" /\ b.kind # "exact"
    BY <1>4 DEF Operators
  <2>2. intersectField(a, b) = merged(a, b)
    BY <2>1 DEF intersectField
  <2>3. merged(a, b).kind = "ops" /\ ~merged(a, b).other /\ merged(a, b) # Null
    BY DEF merged, Null
  <2>4. satisfies(merged(a, b), v) <=> satisfies(a, v) /\ satisfies(b, v)
    BY <1>4, MergedNarrows
  <2>. QED BY <2>2, <2>3, <2>4 DEF Readable
<1>. QED BY <1>1, <1>2, <1>3, <1>4

\* What validate accepts, as a conjunction over the constrained arguments.
LEMMA AdmitsAll ==
  ASSUME NEW cs, NEW args
  PROVE  Admits(cs, args) <=>
           \A f \in DOMAIN cs : Readable(cs[f]) /\ satisfies(cs[f], args[f])
  BY DEF Admits, validate

\* The constraints of a set are constraints, and its arguments are argument names.
LEMMA SetMembers ==
  ASSUME NEW cs \in ConstraintSet, NEW f \in DOMAIN cs
  PROVE  cs[f] \in Constraint /\ f \in Fields
<1>1. PICK D \in SUBSET Fields : cs \in [D -> Constraint]
  BY DEF ConstraintSet
<1>. QED BY <1>1

\* intersect of constraintEngine.ts, for all constraint sets and arguments: what
\* it returns admits exactly what both sets admit, and where it throws, no
\* arguments satisfy both.
THEOREM IntersectNarrowsExactly ==
  \A as, bs \in ConstraintSet, args \in Args : NarrowsExactly(as, bs, args)
<1>. SUFFICES ASSUME NEW as \in ConstraintSet, NEW bs \in ConstraintSet, NEW args \in Args
              PROVE  NarrowsExactly(as, bs, args)
  OBVIOUS
<1>. DEFINE Ok(c, f) == Readable(c) /\ satisfies(c, args[f])
<1>1. /\ Admits(as, args) <=> \A f \in DOMAIN as : Ok(as[f], f)
      /\ Admits(bs, args) <=> \A f \in DOMAIN bs : Ok(bs[f], f)
  BY AdmitsAll
<1>2. \A f \in DOMAIN as : as[f] \in Constraint /\ args[f] \in Value
  <2>. SUFFICES ASSUME NEW f \in DOMAIN as PROVE as[f] \in Constraint /\ args[f] \in Value
    OBVIOUS
  <2>1. as[f] \in Constraint /\ f \in Fields
    BY SetMembers
  <2>. QED BY <2>1 DEF Args, Value
<1>3. \A f \in DOMAIN bs : bs[f] \in Constraint
  BY SetMembers
<1>4. CASE intersectThrows(as, bs)
  <2>1. PICK f \in DOMAIN as \cap DOMAIN bs :
               \/ ~Readable(as[f]) \/ ~Readable(bs[f])
               \/ intersectField(as[f], bs[f]) = Null
    BY <1>4 DEF intersectThrows
  <2>2. ~(Ok(as[f], f) /\ Ok(bs[f], f))
    BY <1>2, <1>3, <2>1, FieldNarrows
  <2>. QED BY <1>1, <1>4, <2>2 DEF NarrowsExactly
<1>5. CASE ~intersectThrows(as, bs)
  <2>. DEFINE cs == intersect(as, bs)
  <2>1. \A f \in DOMAIN as \cap DOMAIN bs :
          Readable(as[f]) /\ Readable(bs[f]) /\ intersectField(as[f], bs[f]) # Null
    BY <1>5 DEF intersectThrows
  <2>2. \A f \in DOMAIN as \cap DOMAIN bs :
          Ok(intersectField(as[f], bs[f]), f) <=> Ok(as[f], f) /\ Ok(bs[f], f)
    <3>. SUFFICES ASSUME NEW f \in DOMAIN as \cap DOMAIN bs
                  PROVE  Ok(intersectField(as[f], bs[f]), f) <=> Ok(as[f], f) /\ Ok(bs[f], f)
      OBVIOUS
    <3>1. /\ Readable(intersectField(as[f], bs[f]))
          /\ satisfies(intersectField(as[f], bs[f]), args[f])
               <=> satisfies(as[f], args[f]) /\ satisfies(bs[f], args[f])
      BY <1>2, <1>3, <2>1, FieldNarrows
    <3>. QED BY <2>1, <3>1
  <2>3. /\ DOMAIN cs = DOMAIN as \cup DOMAIN bs
        /\ \A f \in DOMAIN bs \ DOMAIN as : cs[f] = bs[f]
        /\ \A f \in DOMAIN as \ DOMAIN bs : cs[f] = as[f]
        /\ \A f \in DOMAIN as \cap DOMAIN bs : cs[f] = intersectField(as[f], bs[f])
    BY DEF intersect
  <2>4. Admits(cs, args) <=> \A f \in DOMAIN cs : Ok(cs[f], f)
    BY AdmitsAll
  <2>. HIDE DEF Ok, cs
  <2>5. (\A f \in DOMAIN cs : Ok(cs[f], f))
          <=> (\A f \in DOMAIN as : Ok(as[f], f)) /\ (\A f \in DOMAIN bs : Ok(bs[f], f))
    BY <2>2, <2>3
  <2>6. Admits(cs, args) <=> Admits(as, args) /\ Admits(bs, args)
    BY <1>1, <2>4, <2>5
  <2>. QED BY <1>5, <2>6 DEF NarrowsExactly, cs
<1>. QED BY <1>4, <1>5

\* The combination of two operator objects is one again.
LEMMA MergedType ==
  ASSUME NEW a \in Operators, NEW b \in Operators
  PROVE  merged(a, b) \in Operators
<1>1. /\ a.max \in Numbers \cup {Missing} /\ b.max \in Numbers \cup {Missing}
      /\ a.min \in Numbers \cup {Missing} /\ b.min \in Numbers \cup {Missing}
      /\ a.in \in (SUBSET Scalar) \cup {Missing} /\ b.in \in (SUBSET Scalar) \cup {Missing}
      /\ a.not_in \in (SUBSET Scalar) \cup {Missing} /\ b.not_in \in (SUBSET Scalar) \cup {Missing}
  BY DEF Operators
<1>2. Lower(a.max, b.max) \in Numbers \cup {Missing} /\ Higher(a.min, b.min) \in Numbers \cup {Missing}
  BY <1>1 DEF Lower, Higher
<1>3. Both(a.in, b.in) \in (SUBSET Scalar) \cup {Missing}
  BY <1>1 DEF Both
<1>4. EitherUnlessEmpty(a.not_in, b.not_in) \in (SUBSET Scalar) \cup {Missing}
  BY <1>1 DEF EitherUnlessEmpty
<1>. QED BY <1>2, <1>3, <1>4 DEF merged, Operators

\* So what intersect returns is a constraint set, and can be narrowed further.
LEMMA IntersectType ==
  ASSUME NEW as \in ConstraintSet, NEW bs \in ConstraintSet, ~intersectThrows(as, bs)
  PROVE  intersect(as, bs) \in ConstraintSet
<1>. DEFINE cs == intersect(as, bs)
            D == DOMAIN as \cup DOMAIN bs
<1>1. /\ \A f \in DOMAIN as : as[f] \in Constraint /\ f \in Fields
      /\ \A f \in DOMAIN bs : bs[f] \in Constraint /\ f \in Fields
  BY SetMembers
<1>2. ASSUME NEW a \in Constraint, NEW b \in Constraint, Readable(a), Readable(b)
      PROVE  intersectField(a, b) \in Constraint
  <2>1. /\ a \in Exact \/ a \in Operators
        /\ b \in Exact \/ b \in Operators
    BY <1>2 DEF Constraint, Readable, Null
  <2>2. CASE a \in Exact \/ b \in Exact
    BY <2>2, <2>1 DEF intersectField, Constraint, Exact, Operators
  <2>3. CASE a \in Operators /\ b \in Operators
    <3>1. a.kind # "exact" /\ b.kind # "exact"
      BY <2>3 DEF Operators
    <3>2. intersectField(a, b) = merged(a, b)
      BY <3>1 DEF intersectField
    <3>. QED BY <2>3, <3>2, MergedType DEF Constraint
  <2>. QED BY <2>1, <2>2, <2>3
<1>3. \A f \in DOMAIN as \cap DOMAIN bs : intersectField(as[f], bs[f]) \in Constraint
  <2>1. \A f \in DOMAIN as \cap DOMAIN bs : Readable(as[f]) /\ Readable(bs[f])
    BY DEF intersectThrows
  <2>. QED BY <1>1, <1>2, <2>1
<1>4. cs \in [D -> Constraint]
  BY <1>1, <1>3 DEF intersect
<1>5. D \in SUBSET Fields
  BY <1>1
<1>. QED BY <1>4, <1>5 DEF ConstraintSet

\* What was narrowed, and by what, are constraint sets.
HeldInv ==
  /\ held \in ConstraintSet /\ layers \subseteq ConstraintSet /\ clash \in BOOLEAN
  /\ Narrowing

LEMMA HeldStart == ConstraintInit => HeldInv
<1>. SUFFICES ASSUME ConstraintInit PROVE HeldInv
  OBVIOUS
<1>1. held \in [{} -> Constraint] /\ {} \in SUBSET Fields
  BY DEF ConstraintInit, Constraint
<1>2. held \in ConstraintSet
  BY <1>1 DEF ConstraintSet
<1>3. \A args \in Args : Admits(held, args)
  BY <1>1, AdmitsAll
<1>. QED BY <1>2, <1>3 DEF ConstraintInit, HeldInv, Narrowing

LEMMA HeldStep ==
  ASSUME HeldInv, NEW cs \in Offered, Narrow(cs)
  PROVE  HeldInv'
<1>1. cs \in ConstraintSet
  <2>1. DOMAIN cs \in SUBSET Fields /\ cs \in [DOMAIN cs -> Constraint]
    BY OfferedAssumption
  <2>. QED BY <2>1 DEF ConstraintSet
<1>2. /\ held \in ConstraintSet /\ layers \subseteq ConstraintSet /\ ~clash
      /\ clash' = intersectThrows(held, cs)
      /\ held' = IF clash' THEN held ELSE intersect(held, cs)
      /\ layers' = layers \cup {cs}
  BY DEF HeldInv, Narrow
<1>3. clash' \in BOOLEAN
  BY <1>2 DEF intersectThrows
<1>4. held' \in ConstraintSet
  BY <1>1, <1>2, IntersectType
<1>5. ASSUME NEW args \in Args
      PROVE  LET all == \A l \in layers' : Admits(l, args) IN
             IF clash' THEN ~all ELSE Admits(held', args) <=> all
  <2>1. Admits(held, args) <=> \A l \in layers : Admits(l, args)
    BY <1>2, <1>5 DEF HeldInv, Narrowing
  <2>2. (\A l \in layers' : Admits(l, args)) <=> Admits(held, args) /\ Admits(cs, args)
    <3>. HIDE DEF Admits
    <3>. QED BY <1>2, <2>1
  <2>3. NarrowsExactly(held, cs, args)
    BY <1>1, <1>2, <1>5, IntersectNarrowsExactly
  <2>4. CASE clash'
    BY <1>2, <2>2, <2>3, <2>4 DEF NarrowsExactly
  <2>5. CASE ~clash'
    BY <1>2, <2>2, <2>3, <2>5 DEF NarrowsExactly
  <2>. QED BY <2>4, <2>5
<1>6. Narrowing'
  BY <1>5 DEF Narrowing, Args
<1>. QED BY <1>1, <1>2, <1>3, <1>4, <1>6 DEF HeldInv

(***************************************************************************)
(* Any number of narrowings, by any constraint sets: what intersect has    *)
(* come to admits exactly the arguments that all of them admit, and it     *)
(* throws only when no arguments satisfy them all (intersect of            *)
(* constraintEngine.ts, "never widens").                                   *)
(***************************************************************************)
THEOREM NarrowingNeverWidens == ConstraintSpec => []Narrowing
<1>1. HeldInv /\ [ConstraintNext]_constraintVars => HeldInv'
  <2>. SUFFICES ASSUME HeldInv, [ConstraintNext]_constraintVars PROVE HeldInv'
    OBVIOUS
  <2>1. CASE ConstraintNext
    BY <2>1, HeldStep DEF ConstraintNext
  <2>2. CASE UNCHANGED constraintVars
    BY <2>2 DEF constraintVars, HeldInv, Narrowing
  <2>. QED BY <2>1, <2>2
<1>2. HeldInv => Narrowing
  BY DEF HeldInv
<1>. QED BY <1>1, <1>2, HeldStart, PTL DEF ConstraintSpec

-----------------------------------------------------------------------------
(* The bundled manifests                                                   *)

\* Nothing of a GraphQL operation is in its path.
ManifestOK(m) ==
  /\ \A name \in DOMAIN m.operations :
       m.operations[name].kind = "graphql" => m.operations[name].params = {}
  /\ m.test.kind = "graphql" => m.test.params = {}

LEMMA MessagingOK == \A m \in Messaging : ManifestOK(m)
  BY DEF Messaging, ManifestOK, Manifest, Bearer, Post, Fetch, GraphQL, NoTest

LEMMA DevToolsOK == \A m \in DevTools : ManifestOK(m)
  BY DEF DevTools, ManifestOK, Manifest, Bearer, Post, Fetch, GraphQL, NoTest

LEMMA ProjectManagementOK == \A m \in ProjectManagement : ManifestOK(m)
  BY DEF ProjectManagement, ManifestOK, Manifest, Bearer, Post, Fetch, GraphQL, NoTest

LEMMA ProductivityOK == \A m \in Productivity : ManifestOK(m)
  BY DEF Productivity, ManifestOK, Manifest, Bearer, Post, Fetch, GraphQL, NoTest

LEMMA CrmOK == \A m \in Crm : ManifestOK(m)
  BY DEF Crm, ManifestOK, Manifest, Bearer, Post, Fetch, GraphQL, NoTest

LEMMA GoogleWorkspaceOK == \A m \in GoogleWorkspace : ManifestOK(m)
  BY DEF GoogleWorkspace, ManifestOK, Manifest, Bearer, Post, Fetch, GraphQL, NoTest

LEMMA MeetingsOK == \A m \in Meetings : ManifestOK(m)
  BY DEF Meetings, ManifestOK, Manifest, Bearer, Post, Fetch, GraphQL, NoTest

LEMMA DesignOK == \A m \in Design : ManifestOK(m)
  BY DEF Design, ManifestOK, Manifest, Bearer, Post, Fetch, GraphQL, NoTest

LEMMA ObservabilityOK == \A m \in Observability : ManifestOK(m)
  BY DEF Observability, ManifestOK, Manifest, Bearer, Post, Fetch, GraphQL, NoTest

LEMMA AutomationHubsOK == \A m \in AutomationHubs : ManifestOK(m)
  BY DEF AutomationHubs, ManifestOK, Manifest, Bearer, Post, Fetch, GraphQL, NoTest

LEMMA LlmProvidersOK == \A m \in LlmProviders : ManifestOK(m)
  BY DEF LlmProviders, ManifestOK, Manifest, Bearer, Post, Fetch, GraphQL, NoTest

LEMMA SocialOK == \A m \in Social : ManifestOK(m)
  BY DEF Social, ManifestOK, Manifest, Bearer, Post, Fetch, GraphQL, NoTest

LEMMA BundledOK == \A m \in BUNDLED_MANIFESTS : ManifestOK(m)
  BY MessagingOK, DevToolsOK, ProjectManagementOK, ProductivityOK, CrmOK, GoogleWorkspaceOK,
     MeetingsOK, DesignOK, ObservabilityOK, AutomationHubsOK, LlmProvidersOK, SocialOK
     DEF BUNDLED_MANIFESTS

-----------------------------------------------------------------------------
(* The driver                                                              *)

SecretFields == {"basic"} \cup UNION {deriveCredentialFields(m) : m \in BUNDLED_MANIFESTS}

Secrets == [fields: SUBSET SecretFields, base: {"url", "odd"},
            baseUrl: {"absent", "", "unfillable", "odd", "url"}]

\* runOperation does not throw, whatever the operation.
BaseOK(m, raw) == BaseText(m, normalizeSecret(raw)) = "url"

LEMMA Normalized ==
  ASSUME NEW raw \in Secrets
  PROVE  LET secret == normalizeSecret(raw) IN
         /\ secret.baseUrl = raw.baseUrl /\ secret.base = raw.base /\ raw.fields \subseteq secret.fields
         /\ "username" \in raw.fields => "basic" \in secret.fields
  BY DEF normalizeSecret, Secrets

LEMMA BaseOfOperation ==
  ASSUME NEW m, NEW op, NEW args, NEW raw
  PROVE  runOperation(m, op, args, raw).base = BaseText(m, normalizeSecret(raw))
  BY DEF runOperation

\* A credential that validates leaves nothing out of any request, but for an
\* override of the base URL that cannot be filled.
LEMMA ValidIsWhole ==
  ASSUME NEW m, ManifestOK(m), NEW raw, validateCredential(m, raw),
         BaseText(m, normalizeSecret(raw)) # "missing", NEW op \in Sendable(m)
  PROVE  ~Lacking(m, op, raw) /\ (BaseOK(m, raw) => Whole(m, op, raw))
  <1> DEFINE secret == normalizeSecret(raw)
             req == runOperation(m, op, op.params, raw)
  <1>1. m.headers \subseteq secret.fields /\ m.query \subseteq secret.fields
    BY DEF validateCredential, Filled
  <1>2. req.headers = m.headers \cap secret.fields /\ req.query = m.query \cap secret.fields
    BY DEF runOperation
  <1>3. req.path = IF op.kind = "graphql" THEN {} ELSE op.params \cap op.params
    BY DEF runOperation
  <1>4. op.kind = "graphql" => op.params = {}
    BY DEF Sendable, ManifestOK
  <1>5. req.path = op.params
    BY <1>3, <1>4
  <1>6. req.base = BaseText(m, secret)
    BY BaseOfOperation
  <1>7. ~Lacking(m, op, raw)
    BY <1>1, <1>2, <1>5, <1>6 DEF Lacking
  <1>8. QED
    BY <1>6, <1>7 DEF Whole, BaseOK

LEMMA SecretTypes ==
  ASSUME NEW m \in BUNDLED_MANIFESTS
  PROVE  /\ RawSecrets(m) \subseteq Secrets
         /\ \A base \in Typed(m) : Secret(deriveCredentialFields(m), base, "absent") \in Secrets
  <1>1. deriveCredentialFields(m) \subseteq SecretFields /\ m.headers \cap {"basic"} \subseteq SecretFields
    BY DEF SecretFields
  <1>2. RawSecrets(m) \subseteq Secrets
    BY <1>1 DEF RawSecrets, Secrets, Typed
  <1>3. \A base \in Typed(m) : Secret(deriveCredentialFields(m), base, "absent") \in Secrets
    BY <1>1 DEF Secret, Secrets, Typed
  <1>4. QED
    BY <1>2, <1>3

\* deriveCredentialFields asks for what the templates need: `basic` is made of
\* the user name.
LEMMA FormIsValid ==
  ASSUME NEW m \in BUNDLED_MANIFESTS, NEW base \in Typed(m)
  PROVE  LET secret == Secret(deriveCredentialFields(m), base, "absent") IN
         validateCredential(m, secret) /\ BaseText(m, normalizeSecret(secret)) = base
  <1> DEFINE keys == m.base \cup m.headers \cup m.query
             raw == Secret(deriveCredentialFields(m), base, "absent")
             secret == normalizeSecret(raw)
  <1>1. raw \in Secrets /\ raw.fields = deriveCredentialFields(m)
        /\ raw.baseUrl = "absent" /\ raw.base = base
    BY SecretTypes DEF Secret
  <1>2. \A key \in keys \ {"basic"} : key \in raw.fields
    BY <1>1 DEF deriveCredentialFields
  <1>3. "basic" \in keys => "username" \in raw.fields
    BY <1>1 DEF deriveCredentialFields
  <1> HIDE DEF raw
  <1>4. keys \subseteq secret.fields
    BY <1>1, <1>2, <1>3, Normalized
  <1>5. validateCredential(m, raw)
    BY <1>4 DEF validateCredential, Filled
  <1>6. BaseText(m, secret) = base
    BY <1>1, <1>4, Normalized DEF BaseText, Filled
  <1>7. QED
    BY <1>5, <1>6 DEF raw

-----------------------------------------------------------------------------
(* The vault                                                               *)

Checks == {"never", "live", "structure"}
Results == [ok: BOOLEAN, checked: Checks, rotation: Nat]
Probes == [step: {"idle", "fetch", "record"}, ok: BOOLEAN, checked: Checks, rotation: Nat]

Rows ==
  [status: {"stored"}, manifest: BUNDLED_MANIFESTS, secret: Secrets, from: {"form", "raw"},
   rotation: Nat, last_test: Results]

\* What a test that ended well has established of the credential it read.
Passed(row, checked) ==
  /\ validateCredential(row.manifest, row.secret)
  /\ checked = "structure" \/ (checked = "live" /\ BaseOK(row.manifest, row.secret))

\* The result in the row, and the tests in flight, are about the credential in
\* use if they name its rotation; none is about a later one.
ResultOK(row) ==
  /\ row.last_test.rotation <= row.rotation
  /\ row.last_test.ok /\ row.last_test.rotation = row.rotation => Passed(row, row.last_test.checked)

ProbeOK(row, probe) ==
  probe.step # "idle" =>
    /\ probe.rotation <= row.rotation
    /\ probe.rotation = row.rotation /\ (probe.ok \/ probe.step = "fetch") => Passed(row, probe.checked)

RowFits(row) ==
  /\ row \in Rows /\ ResultOK(row)
  /\ row.from = "form" => \E base \in Typed(row.manifest) :
       row.secret = Secret(deriveCredentialFields(row.manifest), base, "absent")

VaultInv ==
  /\ tests \in [Testers -> Probes]
  /\ \/ vault = NoVault /\ \A t \in Testers : tests[t] = NoProbe
     \/ vault = Deleted
     \/ RowFits(vault) /\ \A t \in Testers : ProbeOK(vault, tests[t])

LEMMA StatusOfVault ==
  ASSUME VaultInv
  PROVE  /\ Stored => RowFits(vault) /\ \A t \in Testers : ProbeOK(vault, tests[t])
         /\ RowFits(vault) => Stored
         /\ NoVault.status # "stored" /\ Deleted.status # "stored"
  BY DEF VaultInv, Stored, NoVault, Deleted, RowFits, Rows

LEMMA NoProbeType == NoProbe \in Probes /\ NoProbe.step = "idle"
  BY DEF NoProbe, Probes, Checks

LEMMA RegisteredStep ==
  ASSUME VaultInv, NEW m \in BUNDLED_MANIFESTS, NEW secret \in Secrets, NEW from \in {"form", "raw"},
         from = "form" => \E base \in Typed(m) : secret = Secret(deriveCredentialFields(m), base, "absent"),
         Stores(m, secret, from)
  PROVE  VaultInv'
  <1> DEFINE row == [status |-> "stored", manifest |-> m, secret |-> secret, from |-> from,
                     rotation |-> 0, last_test |-> Untested]
  <1>1. Untested \in Results /\ Untested.ok = FALSE /\ Untested.rotation = 0
    BY DEF Untested, Results, Checks
  <1>2. /\ row \in Rows /\ row.rotation = 0 /\ row.last_test = Untested /\ row.from = from
        /\ row.manifest = m /\ row.secret = secret
    BY <1>1 DEF Rows
  <1>3. vault' = row /\ tests' = tests /\ vault = NoVault
    BY DEF Stores
  <1> HIDE DEF row
  <1>4. RowFits(row)
    BY <1>1, <1>2 DEF RowFits, ResultOK
  <1>5. ~RowFits(vault) /\ vault # Deleted
    BY <1>3, StatusOfVault DEF Stored, NoVault, Deleted
  <1>6. \A t \in Testers : tests[t] = NoProbe
    BY <1>5 DEF VaultInv
  <1>7. \A t \in Testers : ProbeOK(row, tests[t])
    BY <1>6, NoProbeType DEF ProbeOK
  <1>8. QED
    BY <1>3, <1>4, <1>7 DEF VaultInv

LEMMA RotateStep ==
  ASSUME VaultInv, Rotate
  PROVE  VaultInv'
  <1>1. RowFits(vault) /\ (\A t \in Testers : ProbeOK(vault, tests[t])) /\ tests' = tests
    BY StatusOfVault DEF Rotate
  <1>2. vault \in Rows /\ vault.manifest \in BUNDLED_MANIFESTS /\ vault.rotation \in Nat
        /\ vault.last_test \in Results /\ vault.last_test.rotation \in Nat
    BY <1>1 DEF RowFits, Rows, Results
  <1>3. PICK secret \in RawSecrets(vault.manifest) :
          vault' = [vault EXCEPT !.secret = secret, !.rotation = vault.rotation + 1, !.from = "raw"]
    BY DEF Rotate
  <1>4. secret \in Secrets
    BY <1>2, <1>3, SecretTypes
  <1>5. /\ vault' \in Rows /\ vault'.rotation = vault.rotation + 1 /\ vault'.from = "raw"
        /\ vault'.last_test = vault.last_test
    <2> DEFINE next == vault.rotation + 1
    <2>1. next \in Nat /\ vault' = [vault EXCEPT !.secret = secret, !.rotation = next, !.from = "raw"]
      BY <1>2, <1>3
    <2> HIDE DEF next
    <2>2. vault' \in Rows /\ vault'.rotation = next /\ vault'.from = "raw" /\ vault'.last_test = vault.last_test
      BY <1>2, <1>4, <2>1 DEF Rows
    <2>3. QED
      BY <2>2 DEF next
  <1>6. vault.last_test.rotation <= vault.rotation
    BY <1>1 DEF RowFits, ResultOK
  <1>7. RowFits(vault')
    BY <1>2, <1>5, <1>6 DEF RowFits, ResultOK
  <1>8. ASSUME NEW t \in Testers PROVE ProbeOK(vault', tests[t])
    <2>1. tests[t].rotation \in Nat /\ ProbeOK(vault, tests[t])
      BY <1>1 DEF VaultInv, Probes
    <2>2. QED
      BY <1>2, <1>5, <2>1 DEF ProbeOK
  <1>9. VaultInv'
    BY <1>1, <1>7, <1>8 DEF VaultInv
  <1>10. QED
    BY <1>9

LEMMA ProbeUpdate ==
  ASSUME VaultInv, RowFits(vault), NEW t \in Testers, NEW probe \in Probes,
         tests' = [tests EXCEPT ![t] = probe], vault' = vault, ProbeOK(vault, probe)
  PROVE  VaultInv'
  <1>1. \A s \in Testers : ProbeOK(vault, tests[s])
    BY StatusOfVault
  <1>2. tests' \in [Testers -> Probes] /\ \A s \in Testers : tests'[s] = IF s = t THEN probe ELSE tests[s]
    BY DEF VaultInv
  <1>3. \A s \in Testers : ProbeOK(vault, tests'[s])
    BY <1>1, <1>2
  <1>4. QED
    BY <1>2, <1>3 DEF VaultInv

\* The row is gone: a probe that is still under way goes on for itself.
LEMMA ProbeAfterDelete ==
  ASSUME VaultInv, vault = Deleted, NEW t \in Testers, NEW probe \in Probes,
         tests' = [tests EXCEPT ![t] = probe], vault' = vault
  PROVE  VaultInv'
  BY DEF VaultInv

LEMMA TestStartsStep ==
  ASSUME VaultInv, NEW t \in Testers, TestStarts(t)
  PROVE  VaultInv'
  <1> DEFINE m == vault.manifest
             whole == validateCredential(m, vault.secret)
             live == whole /\ m.test # NoTest
             sent == live /\ runOperation(m, m.test, {}, vault.secret).base = "url"
             probe == [step |-> IF sent THEN "fetch" ELSE "record", ok |-> whole /\ ~live,
                       checked |-> IF live THEN "live" ELSE "structure", rotation |-> vault.rotation]
  <1>1. RowFits(vault) /\ vault' = vault /\ tests' = [tests EXCEPT ![t] = probe]
    BY StatusOfVault DEF TestStarts
  <1>2. vault.secret \in Secrets /\ vault.rotation \in Nat
    BY <1>1 DEF RowFits, Rows
  <1>3. sent => BaseOK(m, vault.secret)
    BY <1>2, BaseOfOperation DEF BaseOK
  <1>4. probe \in Probes
    BY <1>2 DEF Probes, Checks
  <1>5. ProbeOK(vault, probe)
    <2>1. probe.step = "fetch" => whole /\ live /\ BaseOK(m, vault.secret) /\ probe.checked = "live"
      BY <1>3
    <2>2. probe.ok => whole /\ probe.checked = "structure"
      OBVIOUS
    <2>3. probe.rotation = vault.rotation
      OBVIOUS
    <2> HIDE DEF probe
    <2>4. QED
      BY <1>2, <2>1, <2>2, <2>3 DEF ProbeOK, Passed
  <1> HIDE DEF probe
  <1>6. QED
    BY <1>1, <1>4, <1>5, ProbeUpdate

LEMMA TestAnsweredStep ==
  ASSUME VaultInv, NEW t \in Testers, TestAnswered(t)
  PROVE  VaultInv'
  <1>1. PICK answer \in PlatformAnswers :
          tests' = [tests EXCEPT ![t] = [tests[t] EXCEPT !.step = "record", !.ok = send(answer)]]
    BY DEF TestAnswered, VaultInv, Probes
  <1> DEFINE probe == [tests[t] EXCEPT !.step = "record", !.ok = send(answer)]
  <1>2. tests[t] \in Probes /\ tests[t].step = "fetch" /\ vault' = vault
    BY DEF VaultInv, TestAnswered
  <1>3. /\ probe \in Probes /\ probe.step = "record" /\ probe.checked = tests[t].checked
        /\ probe.rotation = tests[t].rotation
    BY <1>2 DEF Probes, send
  <1>4. tests' = [tests EXCEPT ![t] = probe]
    BY <1>1
  <1> HIDE DEF probe
  <1>5. CASE Stored
    <2>1. RowFits(vault) /\ ProbeOK(vault, tests[t])
      BY <1>5, StatusOfVault
    <2>2. ProbeOK(vault, probe)
      BY <1>2, <1>3, <2>1 DEF ProbeOK
    <2>3. QED
      BY <1>2, <1>3, <1>4, <2>1, <2>2, ProbeUpdate
  <1>6. CASE ~Stored
    <2>1. vault = Deleted
      BY <1>2, <1>6, StatusOfVault, NoProbeType DEF VaultInv
    <2>2. QED
      BY <1>2, <1>3, <1>4, <2>1, ProbeAfterDelete
  <1>7. QED
    BY <1>5, <1>6

LEMMA RecordTestStep ==
  ASSUME VaultInv, NEW t \in Testers, RecordTest(t)
  PROVE  VaultInv'
  <1> DEFINE probe == tests[t]
             result == [ok |-> probe.ok, checked |-> probe.checked, rotation |-> probe.rotation]
  <1>1. probe \in Probes /\ probe.step = "record" /\ tests' = [tests EXCEPT ![t] = NoProbe]
    BY DEF VaultInv, RecordTest
  <1>2. CASE Stored
    <2>1. RowFits(vault) /\ \A s \in Testers : ProbeOK(vault, tests[s])
      BY <1>2, StatusOfVault
    <2>2. vault' = [vault EXCEPT !.last_test = result]
      BY <1>2 DEF RecordTest
    <2>3. result \in Results /\ result.ok = probe.ok /\ result.checked = probe.checked /\ result.rotation = probe.rotation
      BY <1>1 DEF Probes, Results
    <2> HIDE DEF result, probe
    <2>4. /\ vault' \in Rows /\ vault'.last_test = result /\ vault'.rotation = vault.rotation
          /\ vault'.manifest = vault.manifest /\ vault'.secret = vault.secret /\ vault'.from = vault.from
      BY <2>1, <2>2, <2>3 DEF RowFits, Rows
    <2>5. RowFits(vault')
      BY <1>1, <2>1, <2>3, <2>4 DEF RowFits, ResultOK, ProbeOK, Passed, probe
    <2>6. ASSUME NEW s \in Testers PROVE ProbeOK(vault', tests'[s])
      <3>1. tests'[s] = IF s = t THEN NoProbe ELSE tests[s]
        BY <1>1 DEF VaultInv
      <3>2. QED
        BY <2>1, <2>4, <3>1, NoProbeType DEF ProbeOK, Passed
    <2>7. tests' \in [Testers -> Probes]
      BY <1>1, NoProbeType DEF VaultInv
    <2>8. QED
      BY <2>5, <2>6, <2>7 DEF VaultInv
  <1>3. CASE ~Stored
    <2>1. vault = Deleted /\ vault' = vault
      BY <1>1, <1>3, StatusOfVault, NoProbeType DEF VaultInv, RecordTest
    <2>2. QED
      BY <1>1, <2>1, NoProbeType, ProbeAfterDelete
  <1>4. QED
    BY <1>2, <1>3

LEMMA VaultInvHolds == ConnectorSpec => []VaultInv
  <1>1. ConnectorInit => VaultInv
    BY NoProbeType DEF ConnectorInit, VaultInv
  <1>2. VaultInv /\ [ConnectorNext]_connectorVars => VaultInv'
    <2> SUFFICES ASSUME VaultInv, [ConnectorNext]_connectorVars PROVE VaultInv'
      OBVIOUS
    <2>1. CASE FormRegisters
      BY <2>1, RegisteredStep, SecretTypes DEF FormRegisters
    <2>2. CASE RawRegisters
      BY <2>2, RegisteredStep, SecretTypes DEF RawRegisters
    <2>3. CASE Rotate
      BY <2>3, RotateStep
    <2>4. CASE DeleteVault
      BY <2>4 DEF DeleteVault, VaultInv
    <2>5. ASSUME NEW t \in Testers, TestStarts(t) \/ TestAnswered(t) \/ RecordTest(t) PROVE VaultInv'
      BY <2>5, TestStartsStep, TestAnsweredStep, RecordTestStep
    <2>6. CASE UNCHANGED connectorVars
      BY <2>6 DEF connectorVars, VaultInv
    <2>7. QED
      BY <2>1, <2>2, <2>3, <2>4, <2>5, <2>6 DEF ConnectorNext
  <1>3. QED
    BY <1>1, <1>2, PTL DEF ConnectorSpec

(***************************************************************************)
(* For each of the bundled manifests, whatever tests run: a connection     *)
(* registered with the form lacks nothing for any operation of its         *)
(* platform nor for its probe, and can send them all unless the text typed *)
(* for the host is no part of a URL (deriveCredentialFields asks for all   *)
(* that fillTemplate needs).                                               *)
(***************************************************************************)
THEOREM FormsSuffice == ConnectorSpec => []FormsAreComplete
  <1>1. VaultInv => FormsAreComplete
    <2> SUFFICES ASSUME VaultInv, Stored, vault.from = "form", NEW op \in Sendable(vault.manifest)
                 PROVE  /\ ~Lacking(vault.manifest, op, vault.secret)
                        /\ vault.secret.base = "url" => Whole(vault.manifest, op, vault.secret)
      BY DEF FormsAreComplete
    <2> DEFINE m == vault.manifest
    <2>1. m \in BUNDLED_MANIFESTS /\ vault.secret \in Secrets
      BY StatusOfVault DEF RowFits, Rows
    <2>2. PICK base \in Typed(m) : vault.secret = Secret(deriveCredentialFields(m), base, "absent")
      BY StatusOfVault DEF RowFits
    <2>3. base \in {"url", "odd"} /\ vault.secret.base = base
      BY <2>2 DEF Typed, Secret
    <2>4. validateCredential(m, vault.secret) /\ BaseText(m, normalizeSecret(vault.secret)) = base
      BY <2>1, <2>2, FormIsValid
    <2>5. ManifestOK(m) /\ BaseText(m, normalizeSecret(vault.secret)) # "missing"
      BY <2>1, <2>3, <2>4, BundledOK
    <2>6. ~Lacking(m, op, vault.secret) /\ (BaseOK(m, vault.secret) => Whole(m, op, vault.secret))
      BY <2>4, <2>5, ValidIsWhole
    <2>7. QED
      BY <2>3, <2>4, <2>6 DEF BaseOK
  <1>2. QED
    BY <1>1, VaultInvHolds, PTL

(***************************************************************************)
(* For any number of tests that overlap and any number of rotations: when  *)
(* last_test is green and about the credential in use, every operation can *)
(* be sent whole; excepted is a structural test of a credential whose base *)
(* URL, typed or overridden, runOperation cannot fill or new URL rejects   *)
(* (recordTest stores whichever test ends last).                           *)
(***************************************************************************)
THEOREM GreenIsComplete == ConnectorSpec => []GreenMeansComplete
  <1>1. VaultInv => GreenMeansComplete
    <2> DEFINE m == vault.manifest
               secret == vault.secret
               Excused == /\ vault.last_test.checked = "structure"
                          /\ \/ secret.baseUrl \in {"", "unfillable", "odd"}
                             \/ secret.baseUrl = "absent" /\ secret.base = "odd"
    <2> SUFFICES ASSUME VaultInv, Stored, vault.last_test.ok, vault.last_test.rotation = vault.rotation,
                        ~Excused, NEW op \in Sendable(m)
                 PROVE  Whole(m, op, secret)
      BY DEF GreenMeansComplete
    <2>1. m \in BUNDLED_MANIFESTS /\ secret \in Secrets /\ Passed(vault, vault.last_test.checked)
      BY StatusOfVault DEF RowFits, Rows, ResultOK
    <2>2. /\ secret.baseUrl \in {"absent", "", "unfillable", "odd", "url"} /\ secret.base \in {"url", "odd"}
          /\ normalizeSecret(secret).baseUrl = secret.baseUrl /\ normalizeSecret(secret).base = secret.base
      BY <2>1, Normalized DEF Secrets
    <2>3. validateCredential(m, secret) /\ Filled(m.base, normalizeSecret(secret))
      BY <2>1 DEF Passed, validateCredential
    <2>4. BaseOK(m, secret)
      BY <2>1, <2>2, <2>3 DEF Passed, BaseOK, BaseText
    <2>5. ManifestOK(m) /\ BaseText(m, normalizeSecret(secret)) # "missing"
      BY <2>1, <2>4, BundledOK DEF BaseOK
    <2>6. QED
      BY <2>3, <2>4, <2>5, ValidIsWhole
  <1>2. QED
    BY <1>1, VaultInvHolds, PTL

-----------------------------------------------------------------------------
(* The execution policy.                                                   *)

\* A set of naturals has a least element.
LEMMA LeastNat ==
  ASSUME NEW T \in SUBSET Nat, T # {}
  PROVE  \E x \in T : \A y \in T : x <= y
<1> DEFINE R == OpToRel(<, Nat)
<1>1. IsWellFoundedOn(R, Nat)
  BY NatLessThanWellFounded
<1>2. \A x, y \in Nat : y < x => <<y, x>> \in R
  BY DEF OpToRel
<1> HIDE DEF R
<1>3. PICK x \in T : \A y \in T : ~(<<y, x>> \in R)
  BY <1>1, WFMin
<1>4. \A y \in T : x \in Nat /\ y \in Nat /\ ~(y < x)
  BY <1>2, <1>3
<1> QED
  BY <1>4

\* The j-th position that is kept is one of those that are kept.
LEMMA PositionIn ==
  ASSUME NEW n \in Nat, NEW K \in SUBSET (1..n), NEW j \in 1..Cardinality(K)
  PROVE  Position(K, j) \in K
<1> DEFINE Upto(i) == {k \in K : k <= i}
           Count(i) == Cardinality(Upto(i))
           T == {i \in 0..n : j <= Count(i)}
<1>a. \A k \in K : k \in Nat /\ 1 <= k /\ k <= n
  OBVIOUS
<1>b. IsFiniteSet(1..n)
  BY FS_Interval
<1>c. IsFiniteSet(K)
  BY <1>b, FS_Subset
<1>1. IsFiniteSet(K) /\ Cardinality(K) \in Nat
  BY <1>c, FS_CardinalityType
<1>2. \A i \in 0..n : IsFiniteSet(Upto(i)) /\ Count(i) \in Nat
  <2> TAKE i \in 0..n
  <2>1. Upto(i) \subseteq K
    OBVIOUS
  <2> HIDE DEF Upto
  <2> QED
    BY <1>1, <2>1, FS_Subset, FS_CardinalityType
<1>3. Upto(n) = K /\ Upto(0) = {}
  <2>1. \A k \in K : k <= n /\ ~(k <= 0)
    BY <1>a
  <2> QED
    BY <2>1, Zenon
<1>4. \A i \in 1..n :
        /\ i - 1 \in 0..n
        /\ i \notin K => Upto(i) = Upto(i - 1)
        /\ i \in K => Upto(i) = Upto(i - 1) \cup {i} /\ i \notin Upto(i - 1)
  <2> TAKE i \in 1..n
  <2>1. \A k \in K : k <= i <=> k <= i - 1 \/ k = i
    BY <1>a
  <2>2. ~(i <= i - 1) /\ i <= i /\ i - 1 \in 0..n
    OBVIOUS
  <2> QED
    BY <2>1, <2>2
<1> HIDE DEF Upto
<1>5. Count(n) = Cardinality(K) /\ Count(0) = 0
  BY <1>3, FS_EmptySet
<1>6. \A i \in 1..n : Count(i) = IF i \in K THEN Count(i - 1) + 1 ELSE Count(i - 1)
  BY <1>2, <1>4, FS_AddElement
<1> HIDE DEF Count
<1>7. T \in SUBSET Nat /\ T # {}
  BY <1>1, <1>5
<1>8. PICK i \in T : \A y \in T : i <= y
  BY <1>7, LeastNat
<1>9. i \in 1..n /\ i - 1 \in 0..n /\ i - 1 \notin T
  BY <1>2, <1>5, <1>8
<1>10. i \in K /\ Count(i) = j
  BY <1>1, <1>2, <1>6, <1>8, <1>9
<1> QED
  BY <1>10 DEF Position, Count, Upto

\* A list of n entries.
IsList(f, n) == n \in Nat /\ f = [i \in 1..n |-> f[i]]

\* A stored rule has the id and the effect of the rule as written, and still
\* matches whatever that one names.
Follows(rule, raw) ==
  /\ rule.id = raw.id /\ rule.effect = raw.effect
  /\ \A ctx \in Context, risk \in Risks : IsNamed(raw, ctx, risk) => ruleMatches(rule, ctx, risk)

\* Two lists of n rules, one following the other.
Mirrors(rules, raws, n) ==
  /\ IsList(rules, n) /\ IsList(raws, n)
  /\ \A i \in 1..n : Follows(rules[i], raws[i])

\* The stored list follows the written one, whose rules are all usable: sent
\* once more, none of them is dropped and none moves.
PolicyInv ==
  /\ "rules" \in DOMAIN policy
  /\ \E n \in Nat :
       /\ Mirrors(policy.rules, written, n)
       /\ \A i \in 1..n : usableRule(written[i])

\* A rule follows itself.
LEMMA FollowsItself ==
  ASSUME NEW raw
  PROVE  Follows(raw, raw)
  BY DEF Follows, IsNamed, ruleMatches, listMatches

\* Normalising a condition takes no name away from it.
LEMMA ArrayKeepsNames ==
  ASSUME NEW v, NEW name \in Names, listMatches(v, name)
  PROVE  listMatches(strArray(v), name)
<1>1. CASE v \in {Bad, Unset}
  BY <1>1 DEF listMatches, strArray
<1>2. CASE v \notin {Bad, Unset}
  <2>1. strArray(v) = v \ {Bad}
    BY <1>2 DEF strArray
  <2>2. v = {} \/ Star \in v \/ name \in v
    BY <1>2 DEF listMatches
  <2>3. Star # Bad /\ name # Bad
    BY PolicyAssumption
  <2> QED
    BY <2>1, <2>2, <2>3 DEF listMatches
<1> QED
  BY <1>1, <1>2

\* Normalising a rule takes no request away from it.
LEMMA SanitizedFollows ==
  ASSUME NEW rule, NEW raw, Follows(rule, raw)
  PROVE  Follows(sanitized(rule), raw) /\ (usableRule(rule) <=> usableRule(raw))
<1> DEFINE s == sanitized(rule)
<1>1. /\ s.id = rule.id /\ s.effect = rule.effect
      /\ \A c \in Conditions : s.when[c] = strArray(rule.when[c])
      /\ s.minRisk \in {Unset, rule.minRisk}
  BY DEF sanitized
<1> HIDE DEF s
<1>2. ASSUME NEW ctx \in Context, NEW risk \in Risks, ruleMatches(rule, ctx, risk)
      PROVE  ruleMatches(s, ctx, risk)
  <2>1. \A c \in Conditions : ctx[c] \in Names
    BY DEF Context
  <2>2. \A c \in Conditions : listMatches(rule.when[c], ctx[c])
    BY <1>2 DEF ruleMatches
  <2>3. \A c \in Conditions : listMatches(s.when[c], ctx[c])
    BY <1>1, <2>1, <2>2, ArrayKeepsNames
  <2>4. s.minRisk # Unset => RANK[risk] >= RANK[s.minRisk]
    BY <1>1, <1>2 DEF ruleMatches
  <2> QED
    BY <2>3, <2>4 DEF ruleMatches
<1>3. Follows(s, raw)
  BY <1>1, <1>2 DEF Follows
<1> QED
  BY <1>3 DEF s, usableRule, Follows

\* What the helpers on sequences do to a list.
LEMMA ListFacts ==
  ASSUME NEW f, NEW n, IsList(f, n)
  PROVE  Len(f) = n /\ DOMAIN f = 1..n
<1> DEFINE S == {f[i] : i \in 1..n}
<1>1. f \in [1..n -> S]
  BY DEF IsList
<1> HIDE DEF S
<1> QED
  BY <1>1 DEF IsList

\* The list h is the n entries of f and then e.
OneMore(h, f, n, e) ==
  /\ IsList(h, n + 1)
  /\ \A i \in 1..n : h[i] = f[i]
  /\ h[n + 1] = e

\* Append gives a list of one more.
LEMMA AppendIsList ==
  ASSUME NEW f, NEW n, IsList(f, n), NEW e
  PROVE  OneMore(Append(f, e), f, n, e)
<1> DEFINE S == {f[i] : i \in 1..n} \cup {e}
<1>1. f \in [1..n -> S] /\ e \in S /\ n \in Nat
  BY DEF IsList
<1> HIDE DEF S
<1>2. f \in Seq(S) /\ Len(f) = n
  BY <1>1
<1>3. /\ Append(f, e) \in Seq(S)
      /\ Len(Append(f, e)) = n + 1
      /\ \A i \in 1..n : Append(f, e)[i] = f[i]
      /\ Append(f, e)[n + 1] = e
  BY <1>1, <1>2, AppendProperties
<1>4. Append(f, e) = [i \in 1..n + 1 |-> Append(f, e)[i]]
  <2> DEFINE g == Append(f, e)
  <2>1. g \in Seq(S) /\ Len(g) = n + 1
    BY <1>3
  <2> HIDE DEF g
  <2>2. g \in [1..n + 1 -> S]
    BY <2>1
  <2>3. g = [i \in 1..n + 1 |-> g[i]]
    BY <2>2
  <2> QED
    BY <2>3 DEF g
<1> QED
  BY <1>1, <1>3, <1>4 DEF IsList, OneMore

\* Of two lists that are filtered at the same positions, one still follows the
\* other; and what is kept is an entry of the list.
LEMMA FilteredMirrors ==
  ASSUME NEW rules, NEW raws, NEW n, Mirrors(rules, raws, n), NEW K \in SUBSET (1..n)
  PROVE  /\ Cardinality(K) \in Nat
         /\ Mirrors(Filtered(rules, K), Filtered(raws, K), Cardinality(K))
<1>1. n \in Nat
  BY DEF Mirrors, IsList
<1>2. IsFiniteSet(1..n)
  BY <1>1, FS_Interval
<1>3. IsFiniteSet(K)
  BY <1>2, FS_Subset
<1>4. Cardinality(K) \in Nat
  BY <1>3, FS_CardinalityType
<1>5. \A j \in 1..Cardinality(K) : Position(K, j) \in 1..n
  BY <1>1, PositionIn
<1> DEFINE m == Cardinality(K)
<1> HIDE DEF m
<1>6. /\ Filtered(rules, K) = [j \in 1..m |-> rules[Position(K, j)]]
      /\ Filtered(raws, K) = [j \in 1..m |-> raws[Position(K, j)]]
      /\ m \in Nat
      /\ \A j \in 1..m : Follows(rules[Position(K, j)], raws[Position(K, j)])
  BY <1>4, <1>5 DEF Filtered, Mirrors, m
<1>7. Mirrors(Filtered(rules, K), Filtered(raws, K), m)
  <2> DEFINE f == Filtered(rules, K)
             g == Filtered(raws, K)
             p(j) == Position(K, j)
  <2>1. f = [j \in 1..m |-> rules[p(j)]] /\ g = [j \in 1..m |-> raws[p(j)]]
    BY <1>6
  <2>2. \A j \in 1..m : Follows(rules[p(j)], raws[p(j)])
    BY <1>6
  <2> HIDE DEF f, g, p
  <2>3. \A j \in 1..m : f[j] = rules[p(j)] /\ g[j] = raws[p(j)]
    BY <2>1
  <2>4. f = [j \in 1..m |-> f[j]] /\ g = [j \in 1..m |-> g[j]]
    BY <2>1
  <2>5. \A j \in 1..m : Follows(f[j], g[j])
    BY <2>2, <2>3
  <2> QED
    BY <1>6, <2>4, <2>5 DEF Mirrors, IsList, f, g
<1> QED
  BY <1>4, <1>7 DEF m

\* The list that the server stores follows the usable rules as written.
LEMMA SanitizedMirrors ==
  ASSUME NEW rules, NEW raws, NEW n, Mirrors(rules, raws, n)
  PROVE  \E m \in Nat :
           /\ Mirrors(sanitizeRules(rules), Usable(raws), m)
           /\ \A i \in 1..m : usableRule(Usable(raws)[i])
<1> DEFINE K == {i \in DOMAIN rules : usableRule(rules[i])}
           m == Cardinality(K)
           u == Usable(rules)
           s == sanitizeRules(rules)
<1>1. DOMAIN rules = 1..n /\ DOMAIN raws = 1..n
  BY ListFacts DEF Mirrors
<1>2. \A i \in 1..n : usableRule(rules[i]) <=> usableRule(raws[i])
  BY SanitizedFollows DEF Mirrors
<1>3. K \in SUBSET (1..n) /\ K = {i \in DOMAIN raws : usableRule(raws[i])}
  BY <1>1, <1>2
<1>4. u = Filtered(rules, K) /\ Usable(raws) = Filtered(raws, K)
  BY <1>3 DEF Usable
<1> HIDE DEF K
<1>5. m \in Nat /\ Mirrors(u, Usable(raws), m)
  BY <1>3, <1>4, FilteredMirrors
<1> HIDE DEF m
<1>6. s = [i \in DOMAIN u |-> sanitized(u[i])]
  BY DEF sanitizeRules
<1>7. DOMAIN u = 1..m
  BY <1>5, ListFacts DEF Mirrors
<1>8. s = [i \in 1..m |-> sanitized(u[i])]
  BY <1>6, <1>7
<1> HIDE DEF s, u
<1>9. IsList(s, m) /\ \A i \in 1..m : s[i] = sanitized(u[i])
  BY <1>5, <1>8 DEF IsList
<1>10. \A i \in 1..m : Follows(s[i], Usable(raws)[i])
  BY <1>5, <1>9, SanitizedFollows DEF Mirrors
<1>11. Mirrors(s, Usable(raws), m)
  BY <1>5, <1>9, <1>10 DEF Mirrors
<1>12. \A i \in 1..m : usableRule(Usable(raws)[i])
  <2>1. n \in Nat
    BY DEF Mirrors, IsList
  <2>2. \A i \in 1..m : Position(K, i) \in K
    BY <1>3, <2>1, PositionIn DEF m
  <2>3. \A i \in 1..m : Usable(raws)[i] = raws[Position(K, i)]
    BY <1>4 DEF Filtered, m
  <2>4. \A i \in K : usableRule(raws[i])
    BY <1>3
  <2> QED
    BY <2>2, <2>3, <2>4
<1> QED
  BY <1>5, <1>11, <1>12 DEF s

\* Where every position is kept, each stays where it is.
LEMMA AllKept ==
  ASSUME NEW f, NEW n, IsList(f, n)
  PROVE  Filtered(f, 1..n) = f
<1>1. n \in Nat /\ f = [i \in 1..n |-> f[i]]
  BY DEF IsList
<1>2. Cardinality(1..n) = n
  BY <1>1, FS_Interval
<1>3. ASSUME NEW j \in 1..n
      PROVE  Position(1..n, j) = j
  <2>1. \A i \in 1..n : {k \in 1..n : k <= i} = 1..i
    BY <1>1
  <2>2. ASSUME NEW i \in 1..n
        PROVE  Cardinality(1..i) = i
    <3>1. i \in Int /\ 1 \in Int /\ ~(1 > i) /\ i - 1 + 1 = i
      BY <1>1
    <3> QED
      BY <3>1, FS_Interval
  <2>3. \A i \in 1..n : Cardinality({k \in 1..n : k <= i}) = i
    BY <2>1, <2>2
  <2>4. \A i \in 1..n : Cardinality({k \in 1..n : k <= i}) = j <=> i = j
    BY <2>3
  <2> QED
    BY <2>4 DEF Position
<1>4. Filtered(f, 1..n) = [j \in 1..n |-> f[Position(1..n, j)]]
  BY <1>2 DEF Filtered
<1>5. [j \in 1..n |-> f[Position(1..n, j)]] = [j \in 1..n |-> f[j]]
  BY <1>3
<1> QED
  BY <1>1, <1>4, <1>5, Zenon

\* A list of usable rules is not filtered.
LEMMA UsableStays ==
  ASSUME NEW raws, NEW n, IsList(raws, n), \A i \in 1..n : usableRule(raws[i])
  PROVE  Usable(raws) = raws
<1>1. DOMAIN raws = 1..n
  BY ListFacts
<1>2. {i \in DOMAIN raws : usableRule(raws[i])} = 1..n
  BY <1>1
<1> QED
  BY <1>2, AllKept DEF Usable

\* The invariant holds at first.
LEMMA PolicyInitInv == PolicyInit => PolicyInv
<1> SUFFICES ASSUME PolicyInit
             PROVE  PolicyInv
  OBVIOUS
<1>1. "rules" \in DOMAIN policy /\ policy.rules = << >> /\ written = << >>
  BY DEF PolicyInit
<1>2. IsList(<< >>, 0)
  BY DEF IsList
<1>3. Mirrors(policy.rules, written, 0)
  BY <1>1, <1>2 DEF Mirrors
<1>4. \A i \in 1..0 : usableRule(written[i])
  OBVIOUS
<1> QED
  BY <1>1, <1>3, <1>4 DEF PolicyInv

\* A list that follows what is written is stored as one that follows it.
LEMMA RewriteInv ==
  ASSUME NEW rules, NEW raws, NEW n, Mirrors(rules, raws, n),
         PolicyInv, Rewrite(rules, raws)
  PROVE  PolicyInv'
<1>1. "rules" \in DOMAIN policy' /\ policy'.rules = sanitizeRules(rules) /\ written' = Usable(raws)
  BY DEF PolicyInv, Rewrite
<1>2. PICK m \in Nat : /\ Mirrors(sanitizeRules(rules), Usable(raws), m)
                       /\ \A i \in 1..m : usableRule(Usable(raws)[i])
  BY SanitizedMirrors
<1>3. Mirrors(policy'.rules, written', m) /\ \A i \in 1..m : usableRule(written'[i])
  BY <1>1, <1>2
<1> QED
  BY <1>1, <1>3 DEF PolicyInv

\* The switches send the list as it is stored.
LEMMA ResendInv ==
  ASSUME PolicyInv, UNCHANGED written,
         "rules" \in DOMAIN policy', policy'.rules = sanitizeRules(policy.rules)
  PROVE  PolicyInv'
<1>1. PICK n \in Nat : Mirrors(policy.rules, written, n) /\ \A i \in 1..n : usableRule(written[i])
  BY DEF PolicyInv
<1>2. Usable(written) = written
  BY <1>1, UsableStays DEF Mirrors
<1>3. PICK m \in Nat : /\ Mirrors(sanitizeRules(policy.rules), Usable(written), m)
                       /\ \A i \in 1..m : usableRule(Usable(written)[i])
  BY <1>1, SanitizedMirrors
<1>4. Mirrors(policy'.rules, written', m) /\ \A i \in 1..m : usableRule(written'[i])
  BY <1>2, <1>3
<1> QED
  BY <1>4 DEF PolicyInv

\* addRule preserves the invariant: the new rule follows itself.
LEMMA AddRuleInv ==
  ASSUME PolicyInv, NEW raw, addRule(raw)
  PROVE  PolicyInv'
<1>1. PICK n \in Nat : Mirrors(policy.rules, written, n)
  BY DEF PolicyInv
<1> DEFINE f == Append(policy.rules, raw)
           g == Append(written, raw)
<1>2. /\ IsList(f, n + 1) /\ IsList(g, n + 1)
      /\ \A i \in 1..n : f[i] = policy.rules[i] /\ g[i] = written[i]
      /\ f[n + 1] = raw /\ g[n + 1] = raw
  <2>1. IsList(policy.rules, n) /\ IsList(written, n)
    BY <1>1 DEF Mirrors
  <2>2. OneMore(f, policy.rules, n, raw) /\ OneMore(g, written, n, raw)
    BY <2>1, AppendIsList
  <2> HIDE DEF f, g
  <2> QED
    BY <2>2 DEF OneMore
<1>3. Rewrite(f, g)
  BY DEF addRule
<1> HIDE DEF f, g
<1>4. \A i \in 1..n + 1 : i \in 1..n \/ i = n + 1
  OBVIOUS
<1>5. \A i \in 1..n : Follows(f[i], g[i])
  BY <1>1, <1>2 DEF Mirrors
<1>6. Follows(f[n + 1], g[n + 1])
  BY <1>2, FollowsItself
<1>7. Mirrors(f, g, n + 1)
  BY <1>2, <1>4, <1>5, <1>6 DEF Mirrors
<1> QED
  BY <1>3, <1>7, RewriteInv

\* removeRule preserves the invariant: the ids agree, so the same positions go.
LEMMA RemoveRuleInv ==
  ASSUME PolicyInv, NEW id, removeRule(id)
  PROVE  PolicyInv'
<1>1. PICK n \in Nat : Mirrors(policy.rules, written, n)
  BY DEF PolicyInv
<1> DEFINE K == {i \in DOMAIN policy.rules : policy.rules[i].id # id}
<1>2. DOMAIN policy.rules = 1..n /\ DOMAIN written = 1..n
  BY <1>1, ListFacts DEF Mirrors
<1>3. \A i \in 1..n : policy.rules[i].id = written[i].id
  BY <1>1 DEF Mirrors, Follows
<1>4. K \in SUBSET (1..n) /\ K = {i \in DOMAIN written : written[i].id # id}
  BY <1>2, <1>3
<1>5. Rewrite(Filtered(policy.rules, K), Filtered(written, K))
  BY <1>4 DEF removeRule
<1> HIDE DEF K
<1>6. Mirrors(Filtered(policy.rules, K), Filtered(written, K), Cardinality(K))
  BY <1>1, <1>4, FilteredMirrors
<1> QED
  BY <1>5, <1>6, RewriteInv

\* Every edit preserves the invariant.
LEMMA PolicyStep == PolicyInv /\ [PolicyNext]_policyVars => PolicyInv'
<1> SUFFICES ASSUME PolicyInv, [PolicyNext]_policyVars
             PROVE  PolicyInv'
  OBVIOUS
<1>1. ASSUME NEW raw, addRule(raw)
      PROVE  PolicyInv'
  BY <1>1, AddRuleInv
<1>2. ASSUME NEW id, removeRule(id)
      PROVE  PolicyInv'
  BY <1>2, RemoveRuleInv
<1>3. CASE setEnabled
  <2>1. "rules" \in DOMAIN policy' /\ policy'.rules = sanitizeRules(policy.rules) /\ written' = written
    BY <1>3 DEF setEnabled, PolicyInv
  <2> QED
    BY <2>1, ResendInv
<1>4. CASE setDefault
  <2>1. "rules" \in DOMAIN policy' /\ policy'.rules = sanitizeRules(policy.rules) /\ written' = written
    BY <1>4 DEF setDefault, PolicyInv
  <2> QED
    BY <2>1, ResendInv
<1>5. CASE UNCHANGED policyVars
  BY <1>5 DEF policyVars, PolicyInv, Mirrors
<1> QED
  BY <1>1, <1>2, <1>3, <1>4, <1>5 DEF PolicyNext

\* A rule that matches is preceded by the one that decides, or decides.
LEMMA FirstMatchDecides ==
  ASSUME NEW rules, NEW n, IsList(rules, n), NEW ctx, NEW risk, NEW i \in 1..n,
         ruleMatches(rules[i], ctx, risk)
  PROVE  firstMatch(rules, ctx, risk) \in 1..i
<1> DEFINE I == {k \in 1..Len(rules) : ruleMatches(rules[k], ctx, risk)}
<1>1. Len(rules) = n /\ n \in Nat
  BY ListFacts DEF IsList
<1>2. i \in I /\ I \in SUBSET Nat /\ \A k \in I : k >= 1
  BY <1>1
<1>3. firstMatch(rules, ctx, risk) = IF I # {} THEN Min(I) ELSE 0
  BY DEF firstMatch, SelectInSeq
<1> HIDE DEF I
<1>4. \E x \in I : \A y \in I : x <= y
  BY <1>2, LeastNat
<1>5. Min(I) \in I /\ \A y \in I : Min(I) <= y
  BY <1>4 DEF Min
<1>6. firstMatch(rules, ctx, risk) = Min(I)
  BY <1>2, <1>3
<1>7. Min(I) \in Nat /\ 1 <= Min(I) /\ Min(I) <= i
  BY <1>2, <1>5
<1> QED
  BY <1>6, <1>7

\* PolicySpec => []NamedIsDecided: whatever lists of rules an operator writes,
\* adds to and removes from, and however often they are sent to and fro, a
\* request that a stored rule names as written is decided by it or by an
\* earlier one (policyEngine.evaluate after sanitizeRules).
THEOREM NamedRequestsAreDecided == PolicySpec => []NamedIsDecided
<1>1. PolicyInv => NamedIsDecided
  <2> SUFFICES ASSUME PolicyInv, NEW ctx \in Context, NEW risk \in Risks,
                      NEW i \in DOMAIN written,
                      policy.enabled, IsNamed(written[i], ctx, risk)
               PROVE  evaluate(policy, ctx, risk).rule \in 1..i
    BY DEF NamedIsDecided
  <2>1. PICK n \in Nat : Mirrors(policy.rules, written, n)
    BY DEF PolicyInv
  <2>2. i \in 1..n /\ IsList(policy.rules, n)
    BY <2>1, ListFacts DEF Mirrors
  <2>3. ruleMatches(policy.rules[i], ctx, risk)
    BY <2>1, <2>2 DEF Mirrors, Follows
  <2> DEFINE j == firstMatch(policy.rules, ctx, risk)
  <2>4. j \in 1..i
    BY <2>2, <2>3, FirstMatchDecides
  <2>5. j # 0
    BY <2>4
  <2>6. evaluate(policy, ctx, risk) = [effect |-> policy.rules[j].effect, rule |-> j]
    BY <2>5, Zenon DEF evaluate
  <2> HIDE DEF j
  <2> QED
    BY <2>4, <2>6
<1> QED
  BY <1>1, PolicyInitInv, PolicyStep, PTL DEF PolicySpec

-----------------------------------------------------------------------------
(* Keyset pagination.                                                      *)

\* A finite set of rows, each with the time it was created at.
Timed(ids) ==
  /\ IsFiniteSet(ids)
  /\ \A i \in ids : i \in Nat /\ created[i] \in Nat

\* The rows of which one is not older.
Ahead(ids, i) == {j \in ids : j = i \/ Newer(j, i)}

\* ORDER BY created_at DESC, id DESC is a total order.
LEMMA NewerIsTotal ==
  ASSUME NEW ids, Timed(ids), NEW i \in ids, NEW j \in ids
  PROVE  /\ i = j \/ Newer(i, j) \/ Newer(j, i)
         /\ ~Newer(i, i)
         /\ Newer(i, j) => ~Newer(j, i)
         /\ \A k \in ids : Newer(i, j) /\ Newer(j, k) => Newer(i, k)
<1>1. \A k \in ids : k \in Nat /\ created[k] \in Nat
  BY DEF Timed
<1> QED
  BY <1>1 DEF Newer

\* A row's rank is a number of rows, and grows with its age.
LEMMA RankGrows ==
  ASSUME NEW ids, Timed(ids), NEW i \in ids
  PROVE  /\ Rank(ids, i) \in 1..Cardinality(ids)
         /\ \A j \in ids : Newer(j, i) => Rank(ids, j) < Rank(ids, i)
<1>1. IsFiniteSet(ids)
  BY DEF Timed
<1>2. ASSUME NEW k \in ids
      PROVE  /\ Rank(ids, k) = Cardinality(Ahead(ids, k))
             /\ IsFiniteSet(Ahead(ids, k))
             /\ Rank(ids, k) \in Nat /\ Rank(ids, k) <= Cardinality(ids)
             /\ Rank(ids, k) # 0
  <2>1. Rank(ids, k) = Cardinality(Ahead(ids, k))
    BY DEF Rank, Ahead
  <2>2. Ahead(ids, k) \in SUBSET ids /\ k \in Ahead(ids, k) /\ Ahead(ids, k) # {}
    BY DEF Ahead
  <2>3. IsFiniteSet(Ahead(ids, k)) /\ Cardinality(Ahead(ids, k)) <= Cardinality(ids)
    BY <1>1, <2>2, FS_Subset
  <2>4. Cardinality(Ahead(ids, k)) \in Nat
    BY <2>3, FS_CardinalityType
  <2>5. Cardinality(Ahead(ids, k)) # 0
    BY <2>2, <2>3, FS_EmptySet
  <2> QED
    BY <2>1, <2>3, <2>4, <2>5
<1>3. Cardinality(ids) \in Nat
  BY <1>1, FS_CardinalityType
<1>4. ASSUME NEW j \in ids, Newer(j, i)
      PROVE  Rank(ids, j) < Rank(ids, i)
  <2>1. i \notin Ahead(ids, j) /\ i \in Ahead(ids, i)
    BY <1>4, NewerIsTotal DEF Ahead
  <2>2. Ahead(ids, j) \in SUBSET Ahead(ids, i)
    BY <1>4, NewerIsTotal DEF Ahead
  <2>3. /\ Cardinality(Ahead(ids, j)) <= Cardinality(Ahead(ids, i))
        /\ Cardinality(Ahead(ids, i)) # Cardinality(Ahead(ids, j))
    BY <1>2, <2>1, <2>2, FS_Subset
  <2> QED
    BY <1>2, <2>3
<1> QED
  BY <1>2, <1>3, <1>4

\* Every rank is taken, by one row.
LEMMA RankIsTaken ==
  ASSUME NEW ids, Timed(ids), NEW k \in 1..Cardinality(ids)
  PROVE  \E i \in ids : Rank(ids, i) = k
<1> DEFINE n == Cardinality(ids)
           r == [i \in ids |-> Rank(ids, i)]
<1>1. IsFiniteSet(ids) /\ n \in Nat
  BY FS_CardinalityType DEF Timed
<1>2. IsFiniteSet(1..n) /\ Cardinality(1..n) = n
  <2>1. n \in Int /\ 1 \in Int /\ (1 > n <=> n = 0) /\ n - 1 + 1 = n
    BY <1>1
  <2> HIDE DEF n
  <2> QED
    BY <2>1, FS_Interval
<1>3. \A i \in ids : Rank(ids, i) \in 1..n
  BY RankGrows
<1>4. \A i, j \in ids : Rank(ids, i) = Rank(ids, j) => i = j
  <2> TAKE i, j \in ids
  <2>1. i = j \/ Newer(i, j) \/ Newer(j, i)
    BY NewerIsTotal
  <2>2. /\ Newer(i, j) => Rank(ids, i) < Rank(ids, j)
        /\ Newer(j, i) => Rank(ids, j) < Rank(ids, i)
        /\ Rank(ids, i) \in Nat /\ Rank(ids, j) \in Nat
    BY <1>3, RankGrows
  <2> QED
    BY <2>1, <2>2
<1> HIDE DEF n
<1>5. r \in [ids -> 1..n] /\ \A i \in ids : r[i] = Rank(ids, i)
  BY <1>3
<1>6. r \in Injection(ids, 1..n)
  BY <1>4, <1>5 DEF Injection, IsInjective
<1> HIDE DEF r
<1>7. r \in Surjection(ids, 1..n)
  BY <1>1, <1>2, <1>6, FS_Injection DEF n
<1>8. \A t \in 1..n : \E i \in ids : r[i] = t
  BY <1>7 DEF Surjection
<1> QED
  BY <1>5, <1>8 DEF n

\* The cursor's time is the start of the row's millisecond.
LEMMA MilliFacts ==
  ASSUME NEW t \in Nat, NEW id
  PROVE  /\ encodeCursor(t, id).id = id
         /\ encodeCursor(t, id).ts \in Nat
         /\ encodeCursor(t, id).ts <= t
         /\ \A u \in Nat : encodeCursor(t, id).ts <= u /\ u <= t => u \div Micros = t \div Micros
<1> DEFINE M == Micros
<1>1. M \in Nat /\ M > 0
  BY ListingAssumption
<1>2. encodeCursor(t, id).id = id /\ encodeCursor(t, id).ts = t - (t % M)
  BY DEF encodeCursor
<1> HIDE DEF M
<1>3. ASSUME NEW u \in Nat
      PROVE  /\ u % M \in 0..(M - 1) /\ u \div M \in Nat
             /\ u = M * (u \div M) + (u % M)
  <2>1. u % M \in 0..(M - 1)
    BY <1>1
  <2>2. u \div M \in Int
    BY <1>1
  <2>3. u = M * (u \div M) + (u % M)
    BY <1>1
  <2>4. u \div M >= 0
    BY <1>1
  <2> QED
    BY <2>1, <2>2, <2>3, <2>4
<1>4. t - (t % M) = M * (t \div M) /\ t - (t % M) \in Nat /\ t - (t % M) <= t
  BY <1>1, <1>3
<1>5. ASSUME NEW u \in Nat, t - (t % M) <= u, u <= t
      PROVE  u \div M = t \div M
  <2> DEFINE q == t \div M
             p == u \div M
  <2>1. /\ q \in Nat /\ p \in Nat
        /\ M * p <= u /\ u < M * p + M
        /\ M * q <= t /\ t < M * q + M
    BY <1>1, <1>3
  <2>2. M * q <= u
    BY <1>4, <1>5
  <2> HIDE DEF p, q
  <2>3. ~(p >= q + 1)
    BY <1>1, <1>5, <2>1
  <2>4. ~(q >= p + 1)
    BY <1>1, <2>1, <2>2
  <2>5. p = q
    BY <2>1, <2>3, <2>4
  <2> QED
    BY <2>5 DEF p, q
<1> QED
  BY <1>2, <1>4, <1>5 DEF M

\* A page has room for one row at least.
LEMMA LimitIsPositive ==
  ASSUME NEW limit \in Nat
  PROVE  clampLimit(limit) \in Nat \ {0}
<1>1. MaxPageSize \in Nat \ {0}
  BY ListingAssumption
<1>2. \E x \in {limit, MaxPageSize} : \A y \in {limit, MaxPageSize} : x <= y
  BY <1>1
<1> DEFINE m == Min({limit, MaxPageSize})
<1>3. m \in Nat
  BY <1>1, <1>2 DEF Min
<1> HIDE DEF m
<1>4. \E x \in {1, m} : \A y \in {1, m} : x >= y
  BY <1>3
<1>5. Max({1, m}) \in Nat /\ Max({1, m}) >= 1
  BY <1>3, <1>4 DEF Max
<1> QED
  BY <1>5 DEF clampLimit, m

\* The rows of a page are the ones of its ranks.
LEMMA NewestFacts ==
  ASSUME NEW ids, Timed(ids), NEW n \in Nat, n <= Cardinality(ids)
  PROVE  /\ Newest(ids, n) \in [1..n -> ids]
         /\ \A k \in 1..n : Rank(ids, Newest(ids, n)[k]) = k
         /\ \A i \in ids : Rank(ids, i) \in 1..n => \E k \in 1..n : Newest(ids, n)[k] = i
<1>1. Cardinality(ids) \in Nat
  BY FS_CardinalityType DEF Timed
<1> DEFINE f == Newest(ids, n)
<1>2. f = [k \in 1..n |-> CHOOSE i \in ids : Rank(ids, i) = k]
  BY DEF Newest
<1> HIDE DEF f
<1>3. \A k \in 1..n : \E i \in ids : Rank(ids, i) = k
  BY <1>1, RankIsTaken
<1>4. \A k \in 1..n : f[k] \in ids /\ Rank(ids, f[k]) = k
  BY <1>2, <1>3
<1>5. f \in [1..n -> ids]
  BY <1>2, <1>4
<1>6. ASSUME NEW i \in ids, Rank(ids, i) \in 1..n
      PROVE  \E k \in 1..n : f[k] = i
  <2> DEFINE k == Rank(ids, i)
  <2>1. k \in 1..n /\ f[k] \in ids /\ Rank(ids, f[k]) = k
    BY <1>4, <1>6
  <2>2. f[k] = i \/ Newer(f[k], i) \/ Newer(i, f[k])
    BY <2>1, NewerIsTotal
  <2>3. /\ Newer(f[k], i) => Rank(ids, f[k]) < k
        /\ Newer(i, f[k]) => k < Rank(ids, f[k])
    BY <2>1, RankGrows
  <2>4. f[k] = i
    BY <2>1, <2>2, <2>3
  <2> QED
    BY <2>1, <2>4
<1> QED
  BY <1>4, <1>5, <1>6 DEF f

\* What the clock, the table and the client hold.
TableOK ==
  /\ clock \in Nat
  /\ DOMAIN created \subseteq Ids
  /\ \A i \in DOMAIN created : created[i] \in Nat
  /\ rows \subseteq DOMAIN created /\ IsFiniteSet(rows)
  /\ stable \subseteq rows

\* The rows that a page is taken from.
Found(cursor) == {i \in rows : cursor = NoCursor \/ Before(created[i], i, cursor)}

\* The row is on the page.
On(items, i) == \E k \in 1..Len(items) : items[k] = i

\* A page of found rows, none twice: all of them, or the newest ones, the last
\* of which the cursor is made of.
GoodPage(page, found) ==
  /\ page.items \in Seq(found)
  /\ \A k, l \in 1..Len(page.items) : page.items[k] = page.items[l] => k = l
  /\ page.next = NoCursor => \A i \in found : On(page.items, i)
  /\ page.next # NoCursor =>
       \E e \in found :
         /\ page.items # << >> /\ e = Last(page.items)
         /\ page.next = encodeCursor(created[e], e)
         /\ \A k \in 1..Len(page.items) : page.items[k] = e \/ Newer(page.items[k], e)
         /\ \A i \in found : On(page.items, i) \/ Newer(e, i)

\* list gives such a page.
LEMMA ListGivesPage ==
  ASSUME TableOK, NEW cursor, NEW limit \in Nat
  PROVE  GoodPage(list(cursor, limit), Found(cursor))
<1> DEFINE found == Found(cursor)
           total == Cardinality(found)
           n == clampLimit(limit)
           m == IF total < n THEN total ELSE n
           items == Newest(found, m)
           page == list(cursor, limit)
<1>1. found \in SUBSET rows
  BY DEF Found
<1>2. IsFiniteSet(found)
  BY <1>1, FS_Subset DEF TableOK
<1>3. Timed(found) /\ \A i \in found : i \in Nat \ {0} /\ created[i] \in Nat
  <2>1. \A i \in found : i \in Ids /\ created[i] \in Nat
    BY <1>1 DEF TableOK
  <2> HIDE DEF found
  <2> QED
    BY <1>2, <2>1, ListingAssumption DEF Timed
<1>4. total \in Nat /\ n \in Nat \ {0}
  BY <1>2, FS_CardinalityType, LimitIsPositive
<1>5. /\ page.items = items
      /\ page.next = IF total > n THEN encodeCursor(created[Last(items)], Last(items)) ELSE NoCursor
  <2> DEFINE last == encodeCursor(created[Last(items)], Last(items))
  <2>1. page = [items |-> items, next |-> IF total > n THEN last ELSE NoCursor]
    BY Zenon DEF list, Found
  <2> HIDE DEF page, items, last, total, n
  <2> QED
    BY <2>1 DEF last
<1> HIDE DEF found, page, n
<1>6. m \in Nat /\ m <= total
  BY <1>4
<1>7. (total > n => m = n) /\ (~(total > n) => m = total)
  BY <1>4
<1> HIDE DEF m
<1>9. /\ items \in [1..m -> found]
      /\ \A k \in 1..m : Rank(found, items[k]) = k
      /\ \A i \in found : Rank(found, i) \in 1..m => \E k \in 1..m : items[k] = i
  BY <1>3, <1>6, NewestFacts
<1>8. \A i \in found : Rank(found, i) \in 1..total
  BY <1>3, RankGrows
<1> HIDE DEF items, total
<1>10. items \in Seq(found) /\ Len(items) = m
  BY <1>6, <1>9
<1>11. \A k, l \in 1..m : items[k] = items[l] => k = l
  BY <1>9
<1>12. \A i \in found : Rank(found, i) \in 1..m => On(items, i)
  BY <1>9, <1>10 DEF On
<1>13. CASE ~(total > n)
  <2>1. page.next = NoCursor
    BY <1>5, <1>13
  <2>2. \A i \in found : On(items, i)
    BY <1>8, <1>7, <1>12, <1>13
  <2> QED
    BY <1>5, <1>10, <1>11, <2>1, <2>2 DEF GoodPage, found, page
<1>14. CASE total > n
  <2> DEFINE e == Last(items)
  <2>1. m \in 1..m /\ items # << >>
    BY <1>4, <1>7, <1>10, <1>14
  <2>2. e = items[m]
    BY <1>10 DEF Last
  <2>3. e \in found /\ Rank(found, e) = m
    BY <1>9, <2>1, <2>2
  <2> HIDE DEF e
  <2>4. page.next = encodeCursor(created[e], e)
    BY <1>5, <1>14 DEF e
  <2>5. page.next # NoCursor
    <3>1. page.next.id = e /\ e # 0
      BY <1>3, <2>3, <2>4, MilliFacts
    <3> QED
      BY <3>1 DEF NoCursor
  <2>6. ASSUME NEW k \in 1..m
        PROVE  items[k] = e \/ Newer(items[k], e)
    <3>1. items[k] \in found /\ Rank(found, items[k]) = k
      BY <1>9
    <3>2. items[k] = e \/ Newer(items[k], e) \/ Newer(e, items[k])
      BY <1>3, <2>3, <3>1, NewerIsTotal
    <3>3. Newer(e, items[k]) => m < k
      BY <1>3, <2>3, <3>1, RankGrows
    <3> QED
      BY <1>6, <3>2, <3>3
  <2>7. ASSUME NEW i \in found
        PROVE  On(items, i) \/ Newer(e, i)
    <3>1. i = e \/ Newer(e, i) \/ Newer(i, e)
      BY <1>3, <2>3, NewerIsTotal
    <3>2. Newer(i, e) => Rank(found, i) < m
      BY <1>3, <2>3, RankGrows
    <3>3. Newer(e, i) \/ Rank(found, i) \in 1..m
      BY <1>6, <1>8, <2>1, <2>3, <3>1, <3>2
    <3> QED
      BY <1>12, <3>3
  <2> QED
    BY <1>5, <1>10, <1>11, <2>1, <2>3, <2>4, <2>5, <2>6, <2>7 DEF GoodPage, found, page, e
<1> QED
  BY <1>13, <1>14

\* The row is on one of the pages; it shares a millisecond with the end of one
\* of the first m pages.
Got(i) == \E p \in 1..Len(scan.pages) : On(scan.pages[p], i)

EndsNear(i, m) == \E p \in 1..m : SameMilli(Last(scan.pages[p]), i)

\* What the client has got.
ScanOK ==
  /\ scan \in [step : {"idle", "paging", "done"}, cursor : [ts : Nat, id : Nat], pages : Seq(Seq(Ids))]
  /\ \A p \in 1..Len(scan.pages) : \A k \in 1..Len(scan.pages[p]) : scan.pages[p][k] \in DOMAIN created
  /\ \A p \in 1..Len(scan.pages) :
       p < Len(scan.pages) \/ scan.step = "paging" => Len(scan.pages[p]) > 0
  /\ scan.step = "idle" => Len(scan.pages) = 0
  /\ scan.step = "paging" <=> scan.cursor # NoCursor

\* No row is on two pages, nor twice on one.
AllDiffer(pages) ==
  \A p, q \in 1..Len(pages) :
    \A k \in 1..Len(pages[p]), l \in 1..Len(pages[q]) :
      pages[p][k] = pages[q][l] => p = q /\ k = l

NoneTwice == AllDiffer(scan.pages)

\* Between two pages, the cursor is behind every row that was returned, and
\* before every stable row that was not, unless it was skipped.
CursorBehind ==
  scan.step = "paging" => \A i : Got(i) => ~Before(created[i], i, scan.cursor)

CursorBefore ==
  scan.step = "paging" =>
    \A i \in stable :
      Got(i) \/ EndsNear(i, Len(scan.pages)) \/ Before(created[i], i, scan.cursor)

\* At the end, nothing else was skipped.
SkippedNear ==
  scan.step = "done" => \A i \in stable : Got(i) \/ EndsNear(i, Len(scan.pages) - 1)

ListingInv == TableOK /\ ScanOK /\ NoneTwice /\ CursorBehind /\ CursorBefore /\ SkippedNear

\* What was returned was created, and so was the end of a page that has one.
LEMMA GotIsCreated ==
  ASSUME ScanOK
  PROVE  /\ \A i : Got(i) => i \in DOMAIN created
         /\ \A p \in 1..Len(scan.pages) :
              Len(scan.pages[p]) > 0 => Last(scan.pages[p]) \in DOMAIN created
<1>1. \A i : Got(i) => i \in DOMAIN created
  BY DEF ScanOK, Got, On
<1>2. ASSUME NEW p \in 1..Len(scan.pages), Len(scan.pages[p]) > 0
      PROVE  Last(scan.pages[p]) \in DOMAIN created
  <2>1. Len(scan.pages[p]) \in Nat
    BY DEF ScanOK
  <2>2. Len(scan.pages[p]) \in 1..Len(scan.pages[p])
    BY <1>2, <2>1
  <2> QED
    BY <2>2 DEF ScanOK, Last
<1> QED
  BY <1>1, <1>2

\* Other clients leave the invariant of the scan alone: a row keeps the time it
\* was created at, and no row becomes stable.
LEMMA OthersKeepScan ==
  ASSUME ListingInv, scan' = scan, stable' \subseteq stable,
         DOMAIN created \subseteq DOMAIN created',
         \A i \in DOMAIN created : created'[i] = created[i]
  PROVE  ScanOK' /\ NoneTwice' /\ CursorBehind' /\ CursorBefore' /\ SkippedNear'
<1> USE DEF ListingInv
<1>1. ScanOK'
  BY DEF ScanOK
<1>2. NoneTwice'
  BY DEF NoneTwice
<1>3. \A i : Got(i)' <=> Got(i)
  BY DEF Got
<1>4. CursorBehind'
  <2>1. \A i : Got(i) => created'[i] = created[i]
    BY GotIsCreated
  <2> QED
    BY <1>3, <2>1 DEF CursorBehind, Before
<1>5. \A i \in stable : i \in DOMAIN created /\ created'[i] = created[i]
  BY DEF TableOK
<1>6. ASSUME NEW i \in stable, NEW m, EndsNear(i, m),
             \A p \in 1..m : p \in 1..Len(scan.pages) /\ Len(scan.pages[p]) > 0
      PROVE  EndsNear(i, m)'
  <2>1. \A p \in 1..m : created'[Last(scan.pages[p])] = created[Last(scan.pages[p])]
    BY <1>6, GotIsCreated
  <2> QED
    BY <1>5, <1>6, <2>1 DEF EndsNear, SameMilli
<1>7. Len(scan.pages) \in Nat
  BY DEF ScanOK
<1>8. CursorBefore'
  <2> SUFFICES ASSUME scan.step = "paging", NEW i \in stable
               PROVE  Got(i)' \/ EndsNear(i, Len(scan.pages))' \/ Before(created[i], i, scan.cursor)'
    BY DEF CursorBefore
  <2>1. \A p \in 1..Len(scan.pages) : Len(scan.pages[p]) > 0
    BY DEF ScanOK
  <2>2. EndsNear(i, Len(scan.pages)) => EndsNear(i, Len(scan.pages))'
    BY <1>6, <2>1
  <2>3. Before(created[i], i, scan.cursor) => Before(created[i], i, scan.cursor)'
    BY <1>5 DEF Before
  <2> QED
    BY <1>3, <2>2, <2>3 DEF CursorBefore
<1>9. SkippedNear'
  <2> SUFFICES ASSUME scan.step = "done", NEW i \in stable
               PROVE  Got(i)' \/ EndsNear(i, Len(scan.pages) - 1)'
    BY DEF SkippedNear
  <2> DEFINE m == Len(scan.pages) - 1
  <2>1. \A p \in 1..m : p \in 1..Len(scan.pages) /\ p < Len(scan.pages)
    BY <1>7
  <2>2. \A p \in 1..m : Len(scan.pages[p]) > 0
    BY <2>1 DEF ScanOK
  <2>3. EndsNear(i, m) => EndsNear(i, m)'
    BY <1>6, <2>1, <2>2
  <2> QED
    BY <1>3, <2>3 DEF SkippedNear
<1> QED
  BY <1>1, <1>2, <1>4, <1>8, <1>9

\* One more page.
LEMMA PageKeepsInv ==
  ASSUME ListingInv, NEW limit \in Limits, Page(limit)
  PROVE  ListingInv'
<1> USE DEF ListingInv
<1> DEFINE P == scan.pages
           N == Len(P)
           page == list(scan.cursor, limit)
           items == page.items
           L == Len(items)
           found == Found(scan.cursor)
           c == page.next
           Q == Append(P, items)
<1>1. GoodPage(page, found)
  BY ListGivesPage, ListingAssumption
<1>2. /\ scan.step \in {"idle", "paging"}
      /\ stable' = IF scan.step = "idle" THEN rows ELSE stable
      /\ scan' = [step |-> IF c = NoCursor THEN "done" ELSE "paging", cursor |-> c, pages |-> Q]
      /\ UNCHANGED <<clock, created, rows, gone>>
  BY DEF Page, ScanOK
<1>3. /\ found \in SUBSET rows
      /\ scan.step = "idle" => found = rows
      /\ scan.step = "paging" => found = {i \in rows : Before(created[i], i, scan.cursor)}
  BY DEF Found, ScanOK
<1> HIDE DEF page, found
<1>4. /\ items \in Seq(found)
      /\ \A k, l \in 1..L : items[k] = items[l] => k = l
      /\ c = NoCursor => \A i \in found : On(items, i)
  BY <1>1 DEF GoodPage
<1>5. ASSUME c # NoCursor
      PROVE  \E e \in found : /\ items # << >> /\ e = Last(items) /\ c = encodeCursor(created[e], e)
                              /\ \A k \in 1..L : items[k] = e \/ Newer(items[k], e)
                              /\ \A i \in found : On(items, i) \/ Newer(e, i)
  BY <1>1, <1>5 DEF GoodPage
<1> HIDE DEF items, c
<1>6. P \in Seq(Seq(Ids)) /\ N \in Nat /\ (scan.step = "idle" => N = 0)
  BY DEF ScanOK
<1>7. found \subseteq Ids /\ found \subseteq DOMAIN created /\ stable \subseteq rows
      /\ \A i \in DOMAIN created : i \in Nat \ {0} /\ created[i] \in Nat
  BY <1>3, ListingAssumption DEF TableOK
<1>8. items \in Seq(Ids) /\ L \in Nat /\ \A k \in 1..L : items[k] \in found
  BY <1>4, <1>7
<1> HIDE DEF L
<1>9. /\ Q \in Seq(Seq(Ids)) /\ Len(Q) = N + 1
      /\ \A p \in 1..N : Q[p] = P[p]
      /\ Q[N + 1] = items
  BY <1>6, <1>8, AppendProperties
<1>10. \A p \in 1..N + 1 : p \in 1..N \/ p = N + 1
  BY <1>6
<1>11. scan'.pages = Q /\ scan'.cursor = c /\ scan'.step = IF c = NoCursor THEN "done" ELSE "paging"
  BY <1>2
<1> HIDE DEF Q
<1>12. c \in [ts : Nat, id : Nat] /\ (c # NoCursor => items # << >> /\ L > 0)
  <2>1. CASE c = NoCursor
    BY <2>1 DEF NoCursor
  <2>2. CASE c # NoCursor
    <3>1. PICK e \in found : items # << >> /\ c = encodeCursor(created[e], e)
      BY <1>5, <2>2
    <3>2. c = [ts |-> c.ts, id |-> c.id] /\ c.ts \in Nat /\ c.id \in Nat
      <4>1. c = [ts |-> c.ts, id |-> c.id]
        BY <3>1 DEF encodeCursor
      <4>2. c.ts \in Nat /\ c.id = e
        BY <1>7, <3>1, MilliFacts
      <4> QED
        BY <1>7, <4>1, <4>2
    <3>3. L # 0
      BY <1>8, <3>1 DEF L
    <3> QED
      BY <1>8, <3>1, <3>2, <3>3
  <2> QED
    BY <2>1, <2>2
<1>13. TableOK'
  BY <1>2 DEF TableOK
<1>14. \A i : Got(i)' <=> Got(i) \/ On(items, i)
  <2>1. \A i : Got(i)' <=> \E p \in 1..N + 1 : On(Q[p], i)
    BY <1>9, <1>11 DEF Got
  <2>2. \A i : (\E p \in 1..N : On(Q[p], i)) <=> Got(i)
    BY <1>9 DEF Got
  <2>3. N + 1 \in 1..N + 1 /\ \A p \in 1..N : p \in 1..N + 1
    BY <1>6
  <2> HIDE DEF N
  <2> QED
    BY <1>9, <1>10, <2>1, <2>2, <2>3
<1>15. ScanOK'
  <2>1. scan' \in [step : {"idle", "paging", "done"}, cursor : [ts : Nat, id : Nat], pages : Seq(Seq(Ids))]
    BY <1>2, <1>9, <1>12 DEF Q
  <2>2. ASSUME NEW p \in 1..N + 1
        PROVE  /\ \A k \in 1..Len(Q[p]) : Q[p][k] \in DOMAIN created
               /\ p < N + 1 \/ c # NoCursor => Len(Q[p]) > 0
    <3>1. CASE p \in 1..N
      <4>1. p < N \/ scan.step = "paging"
        BY <1>2, <1>6, <3>1
      <4> QED
        BY <1>9, <3>1, <4>1 DEF ScanOK
    <3>2. CASE p = N + 1
      <4>1. Q[p] = items /\ Len(Q[p]) = L
        BY <1>9, <3>2 DEF L
      <4>2. ~(p < N + 1)
        BY <1>6, <3>2
      <4> QED
        BY <1>7, <1>8, <1>12, <4>1, <4>2
    <3> QED
      BY <1>10, <3>1, <3>2
  <2>3. Len(scan'.pages) = N + 1 /\ created' = created
    BY <1>2, <1>9, <1>11
  <2>4. scan'.step # "idle" /\ (scan'.step = "paging" <=> scan'.cursor # NoCursor)
        /\ (scan'.step = "paging" <=> c # NoCursor)
    BY <1>11
  <2> HIDE DEF N
  <2> QED
    BY <1>11, <2>1, <2>2, <2>3, <2>4 DEF ScanOK
<1>16. \A k \in 1..L : ~Got(items[k])
  <2>1. CASE scan.step = "idle"
    BY <1>6, <2>1 DEF Got
  <2>2. CASE scan.step = "paging"
    BY <1>3, <1>8, <2>2 DEF CursorBehind
  <2> QED
    BY <1>2, <2>1, <2>2
<1>17. AllDiffer(Q)
  <2> SUFFICES ASSUME NEW p \in 1..N + 1, NEW q \in 1..N + 1,
                      NEW k \in 1..Len(Q[p]), NEW l \in 1..Len(Q[q]), Q[p][k] = Q[q][l]
               PROVE  p = q /\ k = l
    BY <1>9 DEF AllDiffer
  <2>1. \A r \in 1..N : \A j \in 1..Len(Q[r]) : Got(Q[r][j])
    BY <1>9 DEF Got, On
  <2>2. Len(Q[N + 1]) = L /\ \A j \in 1..L : ~Got(Q[N + 1][j])
    <3>1. Q[N + 1] = items /\ Len(items) = L
      BY <1>9 DEF L
    <3> HIDE DEF N
    <3> QED
      BY <1>16, <3>1
  <2>3. CASE p \in 1..N /\ q \in 1..N
    <3>1. AllDiffer(P)
      BY DEF NoneTwice
    <3>2. Q[p] = P[p] /\ Q[q] = P[q]
      BY <1>9, <2>3
    <3> HIDE DEF P
    <3> QED
      BY <2>3, <3>1, <3>2 DEF AllDiffer
  <2>4. CASE p = N + 1 /\ q = N + 1
    BY <1>4, <1>9, <2>2, <2>4
  <2>5. CASE p \in 1..N /\ q = N + 1
    BY <2>1, <2>2, <2>5
  <2>6. CASE p = N + 1 /\ q \in 1..N
    BY <2>1, <2>2, <2>6
  <2> QED
    BY <1>10, <2>3, <2>4, <2>5, <2>6
<1>18. CursorBehind'
  <2> SUFFICES ASSUME c # NoCursor, NEW i, Got(i)'
               PROVE  ~Before(created[i], i, c)
    BY <1>2, <1>11 DEF CursorBehind
  <2>1. PICK e \in found : /\ c = encodeCursor(created[e], e)
                           /\ \A k \in 1..L : items[k] = e \/ Newer(items[k], e)
    BY <1>5
  <2>2. e \in Nat /\ created[e] \in Nat /\ c.id = e /\ c.ts \in Nat /\ c.ts <= created[e]
    BY <1>7, <2>1, MilliFacts
  <2>3. CASE On(items, i)
    <3>1. PICK k \in 1..L : items[k] = i
      BY <2>3 DEF On, L
    <3>2. i \in Nat /\ created[i] \in Nat /\ (i = e \/ Newer(i, e))
      BY <1>7, <1>8, <2>1, <3>1
    <3> QED
      BY <2>2, <3>2 DEF Before, Newer
  <2>4. CASE Got(i) /\ ~On(items, i)
    <3>1. scan.step = "paging"
      BY <1>2, <1>6, <2>4 DEF Got
    <3>2. i \in Nat /\ created[i] \in Nat
      BY <1>7, <2>4, GotIsCreated
    <3>3. ~Before(created[i], i, scan.cursor) /\ Before(created[e], e, scan.cursor)
      BY <1>3, <2>4, <3>1 DEF CursorBehind
    <3>4. scan.cursor.ts \in Nat /\ scan.cursor.id \in Nat
      BY DEF ScanOK
    <3> QED
      BY <2>2, <3>2, <3>3, <3>4 DEF Before
  <2> QED
    BY <1>14, <2>3, <2>4
<1>19. ASSUME NEW i \in stable'
       PROVE  Got(i) \/ EndsNear(i, N) \/ i \in found
  <2>1. CASE scan.step = "idle"
    BY <1>2, <1>3, <2>1
  <2>2. CASE scan.step = "paging"
    BY <1>2, <1>3, <1>7, <2>2 DEF CursorBefore
  <2> QED
    BY <1>2, <2>1, <2>2
<1>20. \A i : EndsNear(i, N) => \E p \in 1..N : SameMilli(Last(Q[p]), i)
  BY <1>9 DEF EndsNear
<1>21. \A i, j : SameMilli(i, j)' <=> SameMilli(i, j)
  BY <1>2 DEF SameMilli
<1>22. CursorBefore'
  <2> SUFFICES ASSUME c # NoCursor, NEW i \in stable'
               PROVE  \/ Got(i)' \/ Before(created[i], i, c)
                      \/ \E p \in 1..N + 1 : SameMilli(Last(Q[p]), i)
    <3>1. \A i : EndsNear(i, Len(scan.pages))' <=> \E p \in 1..N + 1 : SameMilli(Last(Q[p]), i)
      BY <1>9, <1>11, <1>21 DEF EndsNear
    <3> QED
      BY <1>2, <1>11, <3>1 DEF CursorBefore
  <2>1. \A p \in 1..N : p \in 1..N + 1
    BY <1>6
  <2>2. N + 1 \in 1..N + 1
    BY <1>6
  <2>3. CASE Got(i)
    BY <1>14, <2>3
  <2>4. CASE EndsNear(i, N)
    BY <1>20, <2>1, <2>4
  <2>5. CASE i \in found
    <3>1. PICK e \in found : /\ e = Last(items) /\ c = encodeCursor(created[e], e)
                             /\ On(items, i) \/ Newer(e, i)
      BY <1>5, <2>5
    <3>2. CASE On(items, i)
      BY <1>14, <3>2
    <3>3. CASE Newer(e, i)
      <4>1. /\ e \in Nat /\ created[e] \in Nat /\ i \in Nat /\ created[i] \in Nat
            /\ c.ts \in Nat /\ c.ts <= created[e]
            /\ \A u \in Nat : c.ts <= u /\ u <= created[e] => u \div Micros = created[e] \div Micros
        BY <1>7, <2>5, <3>1, MilliFacts
      <4>2. created[i] <= created[e]
        BY <3>3, <4>1 DEF Newer
      <4>3. CASE created[i] < c.ts
        BY <4>3 DEF Before
      <4>4. CASE c.ts <= created[i]
        <5>1. SameMilli(e, i)
          BY <4>1, <4>2, <4>4 DEF SameMilli
        <5> QED
          BY <1>9, <2>2, <3>1, <5>1
      <4> QED
        BY <4>1, <4>3, <4>4
    <3> QED
      BY <3>1, <3>2, <3>3
  <2> QED
    BY <1>19, <2>3, <2>4, <2>5
<1>23. SkippedNear'
  <2> SUFFICES ASSUME c = NoCursor, NEW i \in stable'
               PROVE  Got(i)' \/ \E p \in 1..N : SameMilli(Last(Q[p]), i)
    <3>1. (Len(scan.pages) - 1)' = N
      BY <1>6, <1>9, <1>11
    <3>2. \A i : EndsNear(i, Len(scan.pages) - 1)' <=> \E p \in 1..N : SameMilli(Last(Q[p]), i)
      BY <1>11, <1>21, <3>1 DEF EndsNear
    <3> QED
      BY <1>2, <1>11, <3>2 DEF SkippedNear
  <2> QED
    BY <1>4, <1>14, <1>19, <1>20
<1>24. NoneTwice'
  BY <1>11, <1>17 DEF NoneTwice
<1> QED
  BY <1>13, <1>15, <1>18, <1>22, <1>23, <1>24

\* Every step preserves the invariant.
LEMMA ListingStep == ListingInv /\ [ListingNext]_listingVars => ListingInv'
<1> SUFFICES ASSUME ListingInv, [ListingNext]_listingVars
             PROVE  ListingInv'
  OBVIOUS
<1>1. ASSUME NEW id \in Ids, InsertBegins(id)
      PROVE  ListingInv'
  <2>1. /\ id \notin DOMAIN created
        /\ created' = [i \in DOMAIN created \cup {id} |-> IF i = id THEN clock ELSE created[i]]
        /\ clock' = clock /\ rows' = rows /\ scan' = scan /\ stable' = stable
    BY <1>1 DEF InsertBegins
  <2>2. /\ DOMAIN created' = DOMAIN created \cup {id}
        /\ created'[id] = clock
        /\ \A i \in DOMAIN created : created'[i] = created[i]
    BY <2>1
  <2>3. TableOK'
    BY <2>1, <2>2 DEF ListingInv, TableOK
  <2>4. ScanOK' /\ NoneTwice' /\ CursorBehind' /\ CursorBefore' /\ SkippedNear'
    BY <2>1, <2>2, OthersKeepScan
  <2> QED
    BY <2>3, <2>4 DEF ListingInv
<1>2. ASSUME NEW id \in Ids, InsertCommits(id)
      PROVE  ListingInv'
  <2>1. TableOK'
    BY <1>2, FS_AddElement DEF InsertCommits, ListingInv, TableOK
  <2>2. ScanOK' /\ NoneTwice' /\ CursorBehind' /\ CursorBefore' /\ SkippedNear'
    BY <1>2, OthersKeepScan DEF InsertCommits
  <2> QED
    BY <2>1, <2>2 DEF ListingInv
<1>3. ASSUME NEW id \in Ids, Delete(id)
      PROVE  ListingInv'
  <2>1. TableOK'
    BY <1>3, FS_RemoveElement DEF Delete, ListingInv, TableOK
  <2>2. ScanOK' /\ NoneTwice' /\ CursorBehind' /\ CursorBefore' /\ SkippedNear'
    BY <1>3, OthersKeepScan DEF Delete
  <2> QED
    BY <2>1, <2>2 DEF ListingInv
<1>4. CASE Passes \/ UNCHANGED listingVars
  <2>1. TableOK'
    BY <1>4 DEF Passes, listingVars, ListingInv, TableOK
  <2>2. ScanOK' /\ NoneTwice' /\ CursorBehind' /\ CursorBefore' /\ SkippedNear'
    BY <1>4, OthersKeepScan DEF Passes, listingVars
  <2> QED
    BY <2>1, <2>2 DEF ListingInv
<1>5. ASSUME NEW limit \in Limits, Page(limit)
      PROVE  ListingInv'
  BY <1>5, PageKeepsInv
<1> QED
  BY <1>1, <1>2, <1>3, <1>4, <1>5 DEF ListingNext

\* The invariant holds throughout.
LEMMA ListingHolds == ListingSpec => []ListingInv
<1>1. ListingInit => ListingInv
  <2> SUFFICES ASSUME ListingInit
               PROVE  ListingInv
    OBVIOUS
  <2>1. scan = [step |-> "idle", cursor |-> NoCursor, pages |-> << >>]
    BY DEF ListingInit, NoScan
  <2>2. << >> \in Seq(Seq(Ids)) /\ Len(<< >>) = 0
    OBVIOUS
  <2>3. ScanOK
    BY <2>1, <2>2 DEF ScanOK, NoCursor
  <2>4. NoneTwice
    BY <2>1, <2>2 DEF NoneTwice, AllDiffer
  <2>5. CursorBehind /\ CursorBefore /\ SkippedNear
    BY <2>1 DEF CursorBehind, CursorBefore, SkippedNear
  <2>6. TableOK
    BY FS_EmptySet DEF ListingInit, TableOK
  <2> QED
    BY <2>3, <2>4, <2>5, <2>6 DEF ListingInv
<1> QED
  BY <1>1, ListingStep, PTL DEF ListingSpec

\* ListingSpec => []NoRowTwice: however many rows there are, whatever is
\* inserted, committed late and deleted between the pages and whatever the page
\* sizes, following next_cursor never returns a row twice (rowMappers:
\* encodeCursor truncates created_at, list asks for what is before it).
THEOREM ScansNeverRepeat == ListingSpec => []NoRowTwice
<1>1. ListingInv => NoRowTwice
  <2> SUFFICES ASSUME ListingInv
               PROVE  NoRowTwice
    OBVIOUS
  <2>1. scan.pages \in Seq(Seq(Ids))
    BY DEF ListingInv, ScanOK
  <2>2. DOMAIN scan.pages = 1..Len(scan.pages)
    BY <2>1
  <2>3. \A p \in 1..Len(scan.pages) : DOMAIN scan.pages[p] = 1..Len(scan.pages[p])
    BY <2>1
  <2>4. AllDiffer(scan.pages)
    BY DEF ListingInv, NoneTwice
  <2> DEFINE P == scan.pages
  <2>5. ASSUME NEW p \in DOMAIN P, NEW q \in DOMAIN P,
               NEW i \in DOMAIN P[p], NEW j \in DOMAIN P[q], P[p][i] = P[q][j]
        PROVE  p = q /\ i = j
    <3>1. p \in 1..Len(P) /\ q \in 1..Len(P) /\ i \in 1..Len(P[p]) /\ j \in 1..Len(P[q])
      BY <2>2, <2>3
    <3> HIDE DEF P
    <3> QED
      BY <2>4, <2>5, <3>1 DEF AllDiffer, P
  <2> QED
    BY <2>5 DEF NoRowTwice
<1> QED
  BY <1>1, ListingHolds, PTL

\* ListingSpec => []SkipsShareAMillisecond: a scan that came to its end has
\* returned every row that was there all the time, except for rows created in a
\* millisecond in which one of its pages ended.
THEOREM ScansSkipLittle == ListingSpec => []SkipsShareAMillisecond
<1>1. ListingInv => SkipsShareAMillisecond
  <2> SUFFICES ASSUME ListingInv, scan.step = "done", NEW id \in stable
               PROVE  id \in Returned \/ \E e \in PageEnds : SameMilli(e, id)
    BY DEF SkipsShareAMillisecond
  <2>1. scan.pages \in Seq(Seq(Ids))
    BY DEF ListingInv, ScanOK
  <2>2. DOMAIN scan.pages = 1..Len(scan.pages)
    BY <2>1
  <2>3. \A p \in 1..Len(scan.pages) : DOMAIN scan.pages[p] = 1..Len(scan.pages[p])
    BY <2>1
  <2>4. Got(id) \/ EndsNear(id, Len(scan.pages) - 1)
    BY DEF ListingInv, SkippedNear
  <2>5. CASE Got(id)
    <3>1. PICK p \in 1..Len(scan.pages) : On(scan.pages[p], id)
      BY <2>5 DEF Got
    <3>2. id \in ToSet(scan.pages[p])
      BY <2>3, <3>1 DEF On, ToSet
    <3> QED
      BY <2>2, <3>2 DEF Returned
  <2>6. CASE EndsNear(id, Len(scan.pages) - 1)
    BY <2>6 DEF EndsNear, PageEnds
  <2> QED
    BY <2>4, <2>5, <2>6
<1> QED
  BY <1>1, ListingHolds, PTL
=============================================================================
