---------------------------- MODULE PolicyEngine ----------------------------
(***************************************************************************)
(* The execution policy: how the rules of PATCH /admin/config are          *)
(* normalised, which rule decides a request, and how an operator edits the *)
(* list.  A rule's conditions are lists of names, here sets of model       *)
(* values; Star is "*", and Bad a field of the wrong type.                 *)
(***************************************************************************)
EXTENDS Naturals, Sequences, FiniteSets, SequencesExt

CONSTANTS
  Names,    \* capability, platform, operation and mode names
  Star,     \* the name "*"
  Bad,      \* a JSON value of the wrong type
  Unset,    \* the rule has no such field
  Raws,     \* the rules an operator may write
  MaxRules  \* bound on the length of the list

VARIABLES
  policy,   \* settings.policy
  written   \* the rules as the operator wrote them

policyVars == <<policy, written>>

ASSUME PolicyAssumption ==
  /\ Star \notin Names /\ Bad \notin Names /\ Unset \notin Names
  /\ Bad # Unset /\ Bad # Star
  /\ MaxRules \in Nat

Effects == {"allow", "deny", "require_approval"}

Conditions == {"agentModes", "capabilities", "platforms", "operations"}

RANK == [low |-> 1, med |-> 2, high |-> 3]

\* riskLevel: what the operation and capability names contain.
riskLevel(writes, reads) == IF writes THEN "high" ELSE IF reads THEN "low" ELSE "med"

Risks == {riskLevel(writes, reads) : writes, reads \in BOOLEAN}

\* What evaluate is asked about.
Context == [Conditions -> Names]

-----------------------------------------------------------------------------
(* sanitizeRules: a rule without a usable id or effect is dropped; of the  *)
(* rest, a condition that is no list is dropped, and so are list entries   *)
(* that are no strings.                                                    *)

strArray(v) == IF v \in {Bad, Unset} THEN Unset ELSE v \ {Bad}

sanitized(raw) ==
  [id |-> raw.id, effect |-> raw.effect,
   when |-> [c \in Conditions |-> strArray(raw.when[c])],
   minRisk |-> IF raw.minRisk \in DOMAIN RANK THEN raw.minRisk ELSE Unset]

usableRule(raw) == raw.id # Bad /\ raw.effect \in Effects

\* Array.filter: the entries at the positions that are kept, in their order.
Position(kept, j) == CHOOSE i \in kept : Cardinality({k \in kept : k <= i}) = j

Filtered(rules, kept) == [j \in 1..Cardinality(kept) |-> rules[Position(kept, j)]]

Usable(raws) == Filtered(raws, {i \in DOMAIN raws : usableRule(raws[i])})

sanitizeRules(raws) == [i \in DOMAIN Usable(raws) |-> sanitized(Usable(raws)[i])]

-----------------------------------------------------------------------------
(* evaluate.                                                               *)

listMatches(values, actual) ==
  values \in {Unset, {}} \/ Star \in values \/ actual \in values

ruleMatches(rule, ctx, risk) ==
  /\ \A c \in Conditions : listMatches(rule.when[c], ctx[c])
  /\ rule.minRisk # Unset => RANK[risk] >= RANK[rule.minRisk]

\* The first rule that matches, 0 if none does.
firstMatch(rules, ctx, risk) == SelectInSeq(rules, LAMBDA rule : ruleMatches(rule, ctx, risk))

decidesLast(config, ctx, risk) ==
  LET i == SelectLastInSeq(config.rules, LAMBDA rule : ruleMatches(rule, ctx, risk)) IN
  CASE ~config.enabled -> [effect |-> "allow", rule |-> 0]
    [] config.enabled /\ i # 0 -> [effect |-> config.rules[i].effect, rule |-> i]
    [] OTHER -> [effect |-> config.defaultEffect, rule |-> 0]

evaluate(config, ctx, risk) ==
  LET i == firstMatch(config.rules, ctx, risk) IN
  CASE ~config.enabled -> [effect |-> "allow", rule |-> 0]
    [] config.enabled /\ i # 0 -> [effect |-> config.rules[i].effect, rule |-> i]
    [] OTHER -> [effect |-> config.defaultEffect, rule |-> 0]

-----------------------------------------------------------------------------
(* Edits: PATCH /admin/config with a whole rule list.  The Policy tab      *)
(* sends the rules it got back, normalised, with one more (addRule) or     *)
(* without those of an id (removeRule), and has two switches.              *)

PolicyInit ==
  /\ policy = [enabled |-> FALSE, defaultEffect |-> "allow", rules |-> << >>]
  /\ written = << >>

Rewrite(rules, raws) ==
  /\ written' = Usable(raws)
  /\ policy' = [policy EXCEPT !.rules = sanitizeRules(rules)]

addRule(raw) ==
  /\ Len(written) < MaxRules
  /\ Rewrite(Append(policy.rules, raw), Append(written, raw))

removeRule(id) ==
  LET others(rules) == Filtered(rules, {i \in DOMAIN rules : rules[i].id # id})
  IN Rewrite(others(policy.rules), others(written))

setEnabled ==
  /\ policy' = [policy EXCEPT !.enabled = ~@, !.rules = sanitizeRules(@)]
  /\ UNCHANGED written

setDefault ==
  /\ policy' = [policy EXCEPT !.defaultEffect = IF @ = "deny" THEN "allow" ELSE "deny",
                              !.rules = sanitizeRules(@)]
  /\ UNCHANGED written

PolicyNext ==
  \/ \E raw \in Raws : addRule(raw)
  \/ \E raw \in ToSet(written) : removeRule(raw.id)
  \/ setEnabled \/ setDefault

PolicySpec == PolicyInit /\ [][PolicyNext]_policyVars

-----------------------------------------------------------------------------
\* The rule names the request, read literally: a condition of the wrong type
\* names nothing.
IsNamed(raw, ctx, risk) ==
  /\ \A c \in Conditions : raw.when[c] = Unset \/
       (raw.when[c] # Bad /\ (Star \in raw.when[c] \/ ctx[c] \in raw.when[c]))
  /\ raw.minRisk = Unset \/ (raw.minRisk # Bad /\ RANK[risk] >= RANK[raw.minRisk])

(***************************************************************************)
(* Normalising never takes a request away from a rule, however often the   *)
(* list is sent to and fro: one that a stored rule names, as the operator  *)
(* wrote it, is decided by that rule or an earlier one.  (The converse     *)
(* fails: a condition of the wrong type is left out, and the rule decides  *)
(* requests it does not name.)                                             *)
(***************************************************************************)
NamedIsDecided ==
  \A ctx \in Context, risk \in Risks, i \in DOMAIN written :
    policy.enabled /\ IsNamed(written[i], ctx, risk)
      => evaluate(policy, ctx, risk).rule \in 1..i
=============================================================================
