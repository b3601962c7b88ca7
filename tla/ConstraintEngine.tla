-------------------------- MODULE ConstraintEngine --------------------------
(***************************************************************************)
(* The constraint engine and the stage of the pipeline that uses it: what  *)
(* a constraint on one argument admits, how two constraint sets are        *)
(* narrowed into one, and which execute requests pass.                     *)
(*                                                                         *)
(* Values are JSON scalars: integers, and anything else as model values.   *)
(* The lists of `in` and `not_in` are sets.  Constraints are stored as the *)
(* request gave them, so an object may have operators that do not exist    *)
(* and a constraint may be null.                                           *)
(***************************************************************************)
EXTENDS Integers, FiniteSets

CONSTANTS
  Numbers,   \* the numbers that occur
  Scalars,   \* the scalars that are not numbers
  Missing,   \* undefined: the argument, or the operator, is not there
  Fields,    \* argument names
  Offered,   \* the constraint sets that one is narrowed by
  MaxLayers  \* bound: how many of them, one after the other

ASSUME ConstraintAssumption ==
  /\ Numbers \subseteq Int
  /\ \A s \in Scalars \cup {Missing} : s \notin Int
  /\ \A list \in SUBSET (Numbers \cup Scalars) : Missing # list

Scalar == Numbers \cup Scalars

\* ConstraintObject.  other: it has a key outside KNOWN_OPS.
Operators == [kind: {"ops"}, max: Numbers \cup {Missing}, min: Numbers \cup {Missing},
              in: (SUBSET Scalar) \cup {Missing}, not_in: (SUBSET Scalar) \cup {Missing},
              other: BOOLEAN]

Exact == [kind: {"exact"}, value: Scalar]

\* A JSON null where a constraint is expected.
Null == [kind |-> "null"]

\* assertKnownOperators passes.
Readable(c) == c.kind = "exact" \/ (c.kind = "ops" /\ ~c.other)

-----------------------------------------------------------------------------
(* satisfies: the constraints on numbers refuse what is not a number.      *)

satisfies(c, v) ==
  IF c.kind = "exact" THEN v = c.value
  ELSE /\ c.max # Missing => v \in Int /\ v <= c.max
       /\ c.min # Missing => v \in Int /\ v >= c.min
       /\ c.in # Missing => v \in c.in
       /\ c.not_in # Missing => v \notin c.not_in

\* validate: the first unreadable constraint throws, whatever was found before.
validate(constraints, args) ==
  IF \E f \in DOMAIN constraints : ~Readable(constraints[f]) THEN "throws"
  ELSE IF \E f \in DOMAIN constraints : ~satisfies(constraints[f], args[f]) THEN "violated"
  ELSE "valid"

-----------------------------------------------------------------------------
(* intersect.                                                              *)

Lower(x, y) == IF x = Missing THEN y ELSE IF y = Missing THEN x ELSE IF x <= y THEN x ELSE y
Higher(x, y) == IF x = Missing THEN y ELSE IF y = Missing THEN x ELSE IF x >= y THEN x ELSE y

Both(s, t) == IF s = Missing THEN t ELSE IF t = Missing THEN s ELSE s \cap t

EitherUnlessEmpty(s, t) ==
  LET all == (IF s = Missing THEN {} ELSE s) \cup (IF t = Missing THEN {} ELSE t)
  IN IF all = {} THEN Missing ELSE all

\* Two operator objects: the narrower of each operator.
mergedWidest(a, b) ==
  [kind |-> "ops", max |-> Higher(a.max, b.max), min |-> Lower(a.min, b.min),
   in |-> Both(a.in, b.in), not_in |-> EitherUnlessEmpty(a.not_in, b.not_in), other |-> FALSE]

merged(a, b) ==
  [kind |-> "ops", max |-> Lower(a.max, b.max), min |-> Higher(a.min, b.min),
   in |-> Both(a.in, b.in), not_in |-> EitherUnlessEmpty(a.not_in, b.not_in), other |-> FALSE]

\* intersectField of two readable constraints; Null where it throws a conflict.
intersectField(a, b) ==
  CASE a.kind = "exact" -> IF satisfies(b, a.value) THEN a ELSE Null
    [] a.kind # "exact" /\ b.kind = "exact" -> IF satisfies(a, b.value) THEN b ELSE Null
    [] OTHER -> merged(a, b)

\* What is constrained on one side only is taken over, readable or not.
intersect(as, bs) ==
  [f \in DOMAIN as \cup DOMAIN bs |->
     IF f \notin DOMAIN as THEN bs[f]
     ELSE IF f \notin DOMAIN bs THEN as[f]
     ELSE intersectField(as[f], bs[f])]

intersectThrows(as, bs) ==
  \E f \in DOMAIN as \cap DOMAIN bs :
    \/ ~Readable(as[f]) \/ ~Readable(bs[f])
    \/ intersectField(as[f], bs[f]) = Null

-----------------------------------------------------------------------------
(* CapabilityConstraintStage on an execute request.                        *)

\* claim: the capabilities of the JWT, or Missing; grant: the constraints of
\* the active grant of the capability, or Missing.
stage(cap, claim, grant, args) ==
  CASE claim # Missing /\ cap \notin claim -> "not_granted"
    [] (claim # Missing => cap \in claim) /\ grant = Missing -> "not_granted"
    [] OTHER -> validate(grant, args)

-----------------------------------------------------------------------------
Constraint == Operators \cup Exact \cup {Null}

ConstraintSet == UNION {[D -> Constraint] : D \in SUBSET Fields}

Args == [Fields -> Scalar \cup {Missing}]

Admits(cs, args) == validate(cs, args) = "valid"

\* Narrowing a constraint set by another admits exactly the arguments that both
\* admit, and where it throws instead, no arguments satisfy both.
NarrowsExactly(as, bs, args) ==
  IF intersectThrows(as, bs)
  THEN ~(Admits(as, args) /\ Admits(bs, args))
  ELSE Admits(intersect(as, bs), args) <=> Admits(as, args) /\ Admits(bs, args)

-----------------------------------------------------------------------------
(* A constraint set narrowed step by step, each time from the result of    *)
(* the last.                                                               *)

ASSUME OfferedAssumption ==
  /\ \A cs \in Offered : DOMAIN cs \subseteq Fields /\ cs \in [DOMAIN cs -> Constraint]
  /\ MaxLayers \in Nat

VARIABLES
  held,    \* what the narrowing has come to
  layers,  \* the constraint sets that went into it
  clash    \* the last one was refused as a contradiction

constraintVars == <<held, layers, clash>>

ConstraintInit == held = [f \in {} |-> Null] /\ layers = {} /\ clash = FALSE

Narrow(cs) ==
  /\ ~clash /\ Cardinality(layers) < MaxLayers
  /\ clash' = intersectThrows(held, cs)
  /\ held' = IF clash' THEN held ELSE intersect(held, cs)
  /\ layers' = layers \cup {cs}

ConstraintNext == \E cs \in Offered : Narrow(cs)

ConstraintSpec == ConstraintInit /\ [][ConstraintNext]_constraintVars

(***************************************************************************)
(* "MAY narrow but MUST NOT widen", over any number of narrowings: the     *)
(* result admits exactly the arguments that every constraint set admits    *)
(* that went into it, and intersect throws only when no arguments satisfy  *)
(* them all.  It holds although intersect looks for unknown operators only *)
(* in fields that both sets constrain and copies the others as they are.   *)
(***************************************************************************)
Narrowing ==
  \A args \in Args :
    LET all == \A cs \in layers : Admits(cs, args) IN
    IF clash THEN ~all ELSE Admits(held, args) <=> all
=============================================================================
