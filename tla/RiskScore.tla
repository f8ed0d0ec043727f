----------------------------- MODULE RiskScore -----------------------------
(***************************************************************************)
(* The rule-weighted score of app/services/risk_service.py that decides    *)
(* what becomes of a payment.  The code adds binary floats and rounds the  *)
(* sum to four places before it compares it; every weight is a multiple of *)
(* 0.05, so the rounded sum is exact and is held here in hundredths.       *)
(***************************************************************************)
EXTENDS Integers

CONSTANTS
  BlockThreshold,    \* settings.RISK_SCORE_BLOCK_THRESHOLD, in hundredths
  ReviewThreshold    \* settings.RISK_SCORE_REVIEW_THRESHOLD, in hundredths

\* Both are deployment settings; nothing in the code relates one to the other.
ASSUME ThresholdAssumption ==
  /\ BlockThreshold \in Int
  /\ ReviewThreshold \in Int

Hours == 0..23

Decisions == {"authorized", "requires_review", "blocked"}

AmountWeight(amount) ==
  IF amount > 50000 THEN 45
  ELSE IF amount > 10000 THEN 25
  ELSE IF amount > 2000 THEN 10 ELSE 0

VelocityWeight(recent) ==
  IF recent >= 5 THEN 30 ELSE IF recent >= 3 THEN 15 ELSE 0

PayeeWeight(newReceiver) == IF newReceiver THEN 15 ELSE 0

\* The code also tests hour > 23, which no hour of the day satisfies.
HourWeight(hour) == IF hour < 5 \/ hour > 23 THEN 10 ELSE 0

ScoreTransaction(amount, recent, newReceiver, hour) ==
  LET sum == AmountWeight(amount) + VelocityWeight(recent)
               + PayeeWeight(newReceiver) + HourWeight(hour)
  IN  IF sum > 100 THEN 100 ELSE sum

DecisionForScore(score) ==
  IF score >= BlockThreshold THEN "blocked"
  ELSE IF score >= ReviewThreshold THEN "requires_review" ELSE "authorized"

Decision(amount, recent, newReceiver, hour) ==
  DecisionForScore(ScoreTransaction(amount, recent, newReceiver, hour))

=============================================================================
