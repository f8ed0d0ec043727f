---------------------------- MODULE CitizenRules ----------------------------
(***************************************************************************)
(* The fixed rules of the citizen risk score and the policy that combines  *)
(* them with a model's probability.  Scores, probabilities and margins are *)
(* in hundredths: every weight and threshold of the code has two decimals, *)
(* and the float sums are rounded before they are compared.                *)
(***************************************************************************)
EXTENDS Integers

Modes   == {"DISABLED", "SHADOW", "ML_ASSISTED"}
Sources == {"ML", "RULE_BASED_FALLBACK", "BOTH"}
Reasons == {"none", "rollout_disabled", "ml_unavailable", "low_confidence",
            "low_confidence_shadow"}

\* What the model says when it cannot be asked.
NoMl == -1

-----------------------------------------------------------------------------
(* citizen_risk_rules.py                                                    *)

LateWeight(n) == IF n >= 5 THEN 35 ELSE IF n >= 2 THEN 15 ELSE 0

Weight(condition, w) == IF condition THEN w ELSE 0

\* Mutant: an elif where the code has an if.
RuleSumElif(f) ==
  LateWeight(f.late)
  + Weight(f.overdue >= 3, 25)
  + Weight(f.compliance >= 1, 20)
  + (IF f.pins >= 3 THEN 15 ELSE Weight(f.swap, 25))
  + Weight(f.location >= 8, 10)

RuleSum(f) ==
  LateWeight(f.late)
  + Weight(f.overdue >= 3, 25)
  + Weight(f.compliance >= 1, 20)
  + Weight(f.pins >= 3, 15)
  + Weight(f.swap, 25)
  + Weight(f.location >= 8, 10)

RuleScore(f) == IF RuleSum(f) > 100 THEN 100 ELSE RuleSum(f)

\* f is at least as risky as g in every respect.
AtLeastAsRisky(f, g) ==
  /\ f.late >= g.late /\ f.overdue >= g.overdue /\ f.compliance >= g.compliance
  /\ f.pins >= g.pins /\ f.location >= g.location /\ (g.swap => f.swap)

\* What member authentication knows of a citizen (main.py:162-175): the PIN
\* counter and the swap on file, which a telco's answer replaces, even if the
\* answer is that the telco cannot be reached.
MemberFeatures(pins, stored, telco) ==
  [late |-> 0, overdue |-> 0, service |-> 0, location |-> 1, compliance |-> 0,
   pins |-> pins, swap |-> IF telco = "unasked" THEN stored ELSE telco = "swap"]

-----------------------------------------------------------------------------
(* citizen_risk_policy.py                                                   *)

Levels == {"LOW", "MEDIUM", "HIGH"}

RiskLevelFor(score) ==
  IF score >= 70 THEN "HIGH" ELSE IF score >= 40 THEN "MEDIUM" ELSE "LOW"

Confidence(ml) == IF ml >= 50 THEN ml - 50 ELSE 50 - ml

\* Mutant: a model that is not sure decides all the same.
ConfidentAlways(ml, margin) == TRUE

Confident(ml, margin) == Confidence(ml) >= margin

Bundle(score, source, reason, mode, ml) ==
  [score |-> score, level |-> RiskLevelFor(score), source |-> source,
   reason |-> reason, mode |-> mode, ml |-> ml]

\* The answer under a rollout mode, from the rules' score and the model's.
Combine(mode, rules, ml, margin) ==
  LET Rules(source, reason) == Bundle(rules, source, reason, mode, ml)
  IN CASE mode = "DISABLED" -> Rules("RULE_BASED_FALLBACK", "rollout_disabled")
       [] mode # "DISABLED" /\ ml = NoMl ->
            Rules("RULE_BASED_FALLBACK", "ml_unavailable")
       [] mode = "SHADOW" /\ ml # NoMl ->
            Rules("BOTH", IF Confident(ml, margin) THEN "none"
                          ELSE "low_confidence_shadow")
       [] mode = "ML_ASSISTED" /\ ml # NoMl ->
            IF Confident(ml, margin)
            THEN Bundle(ml, "ML", "none", mode, ml)
            ELSE Rules("RULE_BASED_FALLBACK", "low_confidence")

=============================================================================
