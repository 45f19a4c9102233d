---------------------------- MODULE PolicyEngine ----------------------------
(***************************************************************************)
(* policy.Engine: which action applies to a finding.  A rule names a value  *)
(* for some of the five dimensions of a scope and leaves the others open;   *)
(* the most specific rule that matches wins, except that a matching block   *)
(* is never downgraded.  An ASK nobody can answer becomes a block.          *)
(***************************************************************************)
EXTENDS Integers, Sequences

CONSTANTS
  Unset,    \* an open dimension: the empty string
  MaxRules  \* maxPolicyRules

\* Scope and the weights match adds up, most significant last.
Dimensions == {"agent", "workspace", "provider", "surface", "finding"}

Actions == {"allow", "ask", "redact", "block"}

Weighs(value, weight) == IF value = Unset THEN 0 ELSE weight

Specificity(scope) ==
  Weighs(scope["agent"], 1) + Weighs(scope["workspace"], 2) + Weighs(scope["provider"], 4)
    + Weighs(scope["surface"], 8) + Weighs(scope["finding"], 16)

Matches(scope, context) == \A d \in Dimensions : scope[d] \in {Unset, context[d]}

\* validateRules: two rules for one scope would be ambiguous.
ValidRules(rules) ==
  /\ Len(rules) <= MaxRules
  /\ \A i, j \in DOMAIN rules : rules[i].scope = rules[j].scope => i = j

-----------------------------------------------------------------------------

\* One turn of Decide's loop for a rule that matches.
Choose(best, rule) ==
  LET specificity == Specificity(rule.scope)
      blocked     == best.action = "block" /\ best.specificity >= 0
      better      == specificity > best.specificity
      taken       == [action |-> rule.action, specificity |-> specificity]
  IN  IF (rule.action = "block" /\ ~blocked) \/ (better /\ (blocked => rule.action = "block"))
      THEN taken
      ELSE best

\* Decide: the loop over the rules in the order they are stored, and the last
\* word for a caller that cannot be asked.
Decide(engine, context, interactive) ==
  LET best[n \in 0 .. Len(engine.rules)] ==
        IF n = 0 THEN [action |-> engine.default, specificity |-> -1]
        ELSE IF Matches(engine.rules[n].scope, context)
             THEN Choose(best[n - 1], engine.rules[n])
             ELSE best[n - 1]
      action == best[Len(engine.rules)].action
  IN  IF action = "ask" /\ ~interactive THEN "block" ELSE action

\* What the loop is for, without an order: some matching block, or else the
\* one matching rule no other is more specific than, or else the default.
Reference(engine, context, interactive) ==
  LET matching == {i \in DOMAIN engine.rules : Matches(engine.rules[i].scope, context)}
      top      == {i \in matching : \A j \in matching :
                     Specificity(engine.rules[j].scope) <= Specificity(engine.rules[i].scope)}
      actions  == {engine.rules[i].action : i \in matching}
      action   == IF "block" \in actions THEN "block"
                  ELSE IF matching = {} THEN engine.default
                  ELSE engine.rules[CHOOSE i \in top : TRUE].action
  IN  IF action = "ask" /\ ~interactive THEN "block" ELSE action

=============================================================================
