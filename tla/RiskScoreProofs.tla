-------------------------- MODULE RiskScoreProofs --------------------------
(* The risk model is monotone, for every amount, count and threshold.      *)
EXTENDS RiskScore, TLAPS

\* How hard a decision is on the payer.
Severity(d) == IF d = "blocked" THEN 2 ELSE IF d = "requires_review" THEN 1 ELSE 0

\* A larger amount weighs at least as much.
LEMMA AmountMonotone ==
  ASSUME NEW a \in Nat, NEW b \in Nat, a <= b
  PROVE  AmountWeight(a) <= AmountWeight(b)
  BY DEF AmountWeight

\* More recent payments weigh at least as much.
LEMMA VelocityMonotone ==
  ASSUME NEW m \in Nat, NEW n \in Nat, m <= n
  PROVE  VelocityWeight(m) <= VelocityWeight(n)
  BY DEF VelocityWeight

\* So does the sum, in each argument at once.
LEMMA ScoreMonotone ==
  ASSUME NEW a \in Nat, NEW b \in Nat, a <= b,
         NEW m \in Nat, NEW n \in Nat, m <= n,
         NEW x \in BOOLEAN, NEW y \in BOOLEAN, x => y,
         NEW g \in Hours, NEW h \in Hours, g < 5 => h < 5
  PROVE  ScoreTransaction(a, m, x, g) <= ScoreTransaction(b, n, y, h)
<1>1. AmountWeight(a) <= AmountWeight(b) /\ VelocityWeight(m) <= VelocityWeight(n)
      BY AmountMonotone, VelocityMonotone
<1>2. PayeeWeight(x) <= PayeeWeight(y)
      BY DEF PayeeWeight
<1>3. HourWeight(g) <= HourWeight(h)
      BY DEF HourWeight, Hours
<1>4. /\ AmountWeight(a) \in Nat /\ AmountWeight(b) \in Nat
      /\ VelocityWeight(m) \in Nat /\ VelocityWeight(n) \in Nat
      /\ PayeeWeight(x) \in Nat /\ PayeeWeight(y) \in Nat
      /\ HourWeight(g) \in Nat /\ HourWeight(h) \in Nat
      BY DEF AmountWeight, VelocityWeight, PayeeWeight, HourWeight
<1>5. QED  BY <1>1, <1>2, <1>3, <1>4 DEF ScoreTransaction

\* The score lies in [0, 1] (risk_service.py:23).
LEMMA ScoreRange ==
  ASSUME NEW a \in Nat, NEW n \in Nat, NEW x \in BOOLEAN, NEW h \in Hours
  PROVE  ScoreTransaction(a, n, x, h) \in 0..100
<1>1. /\ AmountWeight(a) \in Nat /\ VelocityWeight(n) \in Nat
      /\ PayeeWeight(x) \in Nat /\ HourWeight(h) \in Nat
      BY DEF AmountWeight, VelocityWeight, PayeeWeight, HourWeight
<1> DEFINE sum == AmountWeight(a) + VelocityWeight(n) + PayeeWeight(x) + HourWeight(h)
<1>2. sum \in Nat
      BY <1>1
<1>3. ScoreTransaction(a, n, x, h) = IF sum > 100 THEN 100 ELSE sum
      BY DEF ScoreTransaction
<1> HIDE DEF sum
<1>4. QED  BY <1>2, <1>3

\* README.md:76-78: amount, velocity and a new payee raise the risk.  Amounts and
\* counts are banded and the sum is cut at two thresholds; whatever those are,
\* and in whatever order, a payment that is at least as risky in every respect is
\* never treated more mildly (risk_service.py:17-58).
THEOREM Monotone ==
  ASSUME NEW a \in Nat, NEW b \in Nat, a <= b,
         NEW m \in Nat, NEW n \in Nat, m <= n,
         NEW x \in BOOLEAN, NEW y \in BOOLEAN, x => y,
         NEW g \in Hours, NEW h \in Hours, g < 5 => h < 5
  PROVE  Severity(Decision(a, m, x, g)) <= Severity(Decision(b, n, y, h))
<1> DEFINE milder == ScoreTransaction(a, m, x, g)
           harder == ScoreTransaction(b, n, y, h)
<1>1. milder <= harder
      BY ScoreMonotone
<1>2. milder \in 0..100 /\ harder \in 0..100
      BY ScoreRange
<1>3. /\ Decision(a, m, x, g) = DecisionForScore(milder)
      /\ Decision(b, n, y, h) = DecisionForScore(harder)
      BY DEF Decision
<1> HIDE DEF milder, harder
<1>4. QED
      BY <1>1, <1>2, <1>3, ThresholdAssumption DEF DecisionForScore, Severity

=============================================================================
