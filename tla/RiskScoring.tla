---------------------------- MODULE RiskScoring ----------------------------
(***************************************************************************)
(* One risk evaluation, as RiskOrchestrator.evaluate runs it: eight rules  *)
(* score the transaction, the scorer aggregates them, the ML service is    *)
(* asked for an anomaly score, and the two are blended into a final score, *)
(* a level and a decision.                                                 *)
(*                                                                         *)
(* The code's floats are integers here, in units in which every step of    *)
(* the blend is exact:                                                     *)
(*   a rule's score    in thousandths     (1.0 is 1000)                    *)
(*   an anomaly score  in ten-thousandths (1.0 is 10000)                   *)
(*   a risk score      in 800000ths of a point, a score being 0-100 points *)
(*   an account's age  in tenths of a day, an amount in whole dollars.     *)
(*                                                                         *)
(* A rule that raises counts as not triggered (orchestrator.py:140-153);   *)
(* none does on a request that came through the typed gRPC message.        *)
(***************************************************************************)
EXTENDS Integers, FiniteSets

CONSTANTS
  Amounts, Ages, Hours, RecentCounts, FailedCounts,
  MlScores       \* the anomaly scores the ML service may answer

Anomalies == 0 .. 10000

ASSUME ScoringAssumption ==
  /\ Amounts \subseteq Nat
  /\ Ages \subseteq Nat
  /\ Hours \subseteq 0 .. 23
  /\ RecentCounts \subseteq Nat
  /\ FailedCounts \subseteq Nat
  /\ MlScores \subseteq Anomalies

(* What the rules and the pipeline read of a request, its sender's profile *)
(* and its velocity counters.                                              *)
Requests ==
  [amount   : Amounts,
   age      : Ages,
   hour     : Hours,
   corridor : {"domestic", "crossBorder", "highRisk"},
   device   : {"known", "new", "missing"},
   newReceiver : BOOLEAN,
   recent   : RecentCounts,
   failed   : FailedCounts]

Least(a, b) == IF a < b THEN a ELSE b

-----------------------------------------------------------------------------
(* The rules.  A rule is triggered exactly when its score is not zero.     *)

HighValue(t) ==
  IF t.amount < 10000 THEN 0
  ELSE 500 + ((Least(t.amount, 50000) - 10000) * 125) \div 10000

VelocitySpike(t) ==
  IF t.recent <= 3 THEN 0 ELSE IF t.recent - 3 >= 2 THEN 1000 ELSE 800

GeoMismatch(t) ==
  IF t.corridor = "domestic" THEN 0
  ELSE IF t.corridor = "highRisk"
       THEN IF t.amount < 200 THEN 400 ELSE IF t.amount < 1000 THEN 700 ELSE 900
       ELSE IF t.amount < 1000 THEN 200 ELSE 300

DeviceChange(t) == [known |-> 0, new |-> 600, missing |-> 400][t.device]

UnusualHour(t) == IF t.hour <= 5 THEN 500 ELSE 0

AccountAgeRisk(t) ==
  IF t.age >= 300 THEN 0
  ELSE IF t.amount <= 250 THEN 100
  ELSE IF t.amount <= 500 THEN 300
  ELSE 1000 - (t.age * 1000) \div 300

FailedBurst(t) == IF t.failed < 5 THEN 0 ELSE Least(1000, t.failed * 100)

NewReceiver(t) ==
  IF ~t.newReceiver THEN 0 ELSE IF t.age < 10 THEN 700 ELSE 500

RuleScores(t) ==
  [HIGH_VALUE       |-> HighValue(t),
   VELOCITY_SPIKE   |-> VelocitySpike(t),
   GEO_MISMATCH     |-> GeoMismatch(t),
   DEVICE_CHANGE    |-> DeviceChange(t),
   UNUSUAL_HOUR     |-> UnusualHour(t),
   ACCOUNT_AGE_RISK |-> AccountAgeRisk(t),
   FAILED_BURST     |-> FailedBurst(t),
   NEW_RECEIVER     |-> NewReceiver(t)]

Rules == {"HIGH_VALUE", "VELOCITY_SPIKE", "GEO_MISMATCH", "DEVICE_CHANGE",
          "UNUSUAL_HOUR", "ACCOUNT_AGE_RISK", "FAILED_BURST", "NEW_RECEIVER"}

Triggered(scores) == {r \in Rules : scores[r] > 0}

-----------------------------------------------------------------------------
(* The scorer.                                                             *)

Point   == 800000
Hundred == 100 * Point
Epsilon == Point \div 10000
Scores  == {s \in Nat : s <= Hundred}

RuleWeight == 6     \* tenths
MlWeight   == 4
SureThing  == 9000  \* an anomaly score of 0.90

Severity(score) ==
  IF score >= 800 THEN "HIGH" ELSE IF score >= 500 THEN "MEDIUM" ELSE "LOW"

(* The severity multipliers, in tenths.                                    *)
Multiplier == [HIGH |-> 25, MEDIUM |-> 12, LOW |-> 7]

Weighted(score) == score * Multiplier[Severity(score)]

WeightedTotal(s) ==
  Weighted(s["HIGH_VALUE"]) + Weighted(s["VELOCITY_SPIKE"])
    + Weighted(s["GEO_MISMATCH"]) + Weighted(s["DEVICE_CHANGE"])
    + Weighted(s["UNUSUAL_HOUR"]) + Weighted(s["ACCOUNT_AGE_RISK"])
    + Weighted(s["FAILED_BURST"]) + Weighted(s["NEW_RECEIVER"])

(* The boost for rules of high severity, in percent.                       *)
Boost(scores) ==
  LET high == {r \in Rules : Severity(scores[r]) = "HIGH"}
  IN  IF high = {} THEN 100 ELSE IF \E r \in high : high = {r} THEN 108 ELSE 120

(* Mutant of Aggregate: no bound at 100 points.                            *)
AggregateUnbounded(s) == WeightedTotal(s) * Boost(s) * 10

(* Mutant of Aggregate: normalised against the rules that triggered.       *)
AggregateOverTriggered(s) ==
  IF Triggered(s) = {} THEN 0
  ELSE Least(Hundred, (WeightedTotal(s) * Boost(s) * 80) \div Cardinality(Triggered(s)))

(* 8 rules that score 1.0 without a multiplier are 100 points: a rule's    *)
(* score is normalised against all the rules, not the triggered ones.      *)
Aggregate(scores) ==
  Least(Hundred, WeightedTotal(scores) * Boost(scores) * 10)

(* Mutant of MlContribution: every anomaly score at full volume.           *)
Undamped(m) == m * MlWeight * 800

(* An anomaly score below 0.90 is damped to a tenth.                       *)
MlContribution(ml) ==
  IF ml < SureThing THEN ml * MlWeight * 80 ELSE ml * MlWeight * 800

FinalScore(ruleScore, ml) ==
  IF ml = 0 THEN ruleScore
  ELSE Least(Hundred, (ruleScore * RuleWeight) \div 10 + MlContribution(ml))

(* A score below one point is taken for a fraction of 1.0.                 *)
Percent(score) == IF score < Point THEN score * 100 ELSE score

RiskLevel(score) ==
  LET pct == Percent(score)
  IN  IF pct >= 80 * Point - Epsilon THEN "CRITICAL"
      ELSE IF pct >= 60 * Point - Epsilon THEN "HIGH"
      ELSE IF pct >= 40 * Point - Epsilon THEN "MEDIUM"
      ELSE "LOW"

MakeDecision ==
  [LOW |-> "APPROVE", MEDIUM |-> "REVIEW", HIGH |-> "BLOCK", CRITICAL |-> "BLOCK"]

Decide(score) == MakeDecision[RiskLevel(score)]

(* Mutant of RiskFactors: the explanation lists rules only.                *)
RulesOnly(s, m) == Triggered(s)

(* What the explanation lists: the triggered rules, the ML score above 0.5.*)
RiskFactors(scores, ml) ==
  Triggered(scores) \cup (IF ml > 5000 THEN {"ML_ANOMALY_DETECTION"} ELSE {})

-----------------------------------------------------------------------------
VARIABLES
  phase,         \* the step evaluate is at
  request,
  scores,        \* rule_results: rule -> its score
  ml,            \* ml_result's anomaly score
  assessment     \* the RiskAssessment it returns

vars == <<phase, request, scores, ml, assessment>>

Unscored   == [r \in Rules |-> 0]
NotReached == [score |-> 0, decision |-> "APPROVE", factors |-> {}]

TypeOK ==
  /\ phase \in {"rules", "ml", "assess", "done"}
  /\ request \in Requests
  /\ scores \in [Rules -> 0 .. 1000]
  /\ ml \in Anomalies
  /\ assessment \in [score : Scores,
                     decision : {"APPROVE", "REVIEW", "BLOCK"},
                     factors : SUBSET (Rules \cup {"ML_ANOMALY_DETECTION"})]

Init ==
  /\ phase = "rules"
  /\ request \in Requests
  /\ scores = Unscored
  /\ ml = 0
  /\ assessment = NotReached

RunRules ==
  /\ phase = "rules"
  /\ phase' = "ml"
  /\ scores' = RuleScores(request)
  /\ UNCHANGED <<request, ml, assessment>>

(* The score of a brand new account's small payment is taken at a tenth.   *)
Onboarding == request.age < 1 /\ request.amount < 250

GetMlScore ==
  /\ phase = "ml"
  /\ phase' = "assess"
  /\ \E s \in MlScores : ml' = IF Onboarding THEN s \div 10 ELSE s
  /\ UNCHANGED <<request, scores, assessment>>

(* The ML service fails or times out: the rules decide alone.              *)
MlFallback ==
  /\ phase = "ml"
  /\ phase' = "assess"
  /\ ml' = 0
  /\ UNCHANGED <<request, scores, assessment>>

Assess ==
  /\ phase = "assess"
  /\ phase' = "done"
  /\ LET final == FinalScore(Aggregate(scores), ml)
     IN  assessment' = [score    |-> final,
                        decision |-> Decide(final),
                        factors  |-> RiskFactors(scores, ml)]
  /\ UNCHANGED <<request, scores, ml>>

Next == RunRules \/ GetMlScore \/ MlFallback \/ Assess

Spec == Init /\ [][Next]_vars

-----------------------------------------------------------------------------
(* Properties of the decision.                                             *)

Strictness == [APPROVE |-> 0, REVIEW |-> 1, BLOCK |-> 2]

StricterThan(d, e) == Strictness[d] > Strictness[e]

(* The scores that are not taken for fractions.                            *)
WholePoints(score) == score = 0 \/ score >= Point

(* An anomaly score moves a decision only the way its certainty allows:    *)
(* below 0.90 it never makes the decision stricter than the rules alone    *)
(* ("virtually ignore it"), from 0.90 on it never makes it laxer.          *)
MlRespectsThreshold ==
  phase = "done" =>
    LET alone == Aggregate(scores)
    IN  /\ ml < SureThing /\ WholePoints(assessment.score)
             => ~StricterThan(assessment.decision, Decide(alone))
        /\ ml >= SureThing /\ WholePoints(alone)
             => ~StricterThan(Decide(alone), assessment.decision)

(* No rule decides on its own: with one rule triggered and no sure anomaly *)
(* the transaction is approved, whichever rule it is and whatever it says. *)
OneRuleNeverBlocks ==
  phase = "done" /\ Cardinality(Triggered(scores)) <= 1 /\ ml < SureThing
    /\ WholePoints(assessment.score)
      => assessment.decision = "APPROVE"

(* Evidence only counts against a transaction: had one of the triggered    *)
(* rules not triggered, the decision would not have been stricter.         *)
EvidenceIsMonotone ==
  phase = "done" =>
    \A r \in Triggered(scores) :
      LET less == FinalScore(Aggregate([scores EXCEPT ![r] = 0]), ml)
      IN  WholePoints(less) => ~StricterThan(Decide(less), assessment.decision)

(* A transaction that is not approved has a risk factor that says why.     *)
FlagsAreExplained ==
  phase = "done" /\ WholePoints(assessment.score) /\ assessment.factors = {}
    => assessment.decision = "APPROVE"

(* The scorer's "LOW: 0-30": a score below 30 points is approved.  The     *)
(* code takes a score below one point for a fraction and multiplies it by  *)
(* a hundred.                                                              *)
LowScoreIsApproved ==
  phase = "done" /\ assessment.score < 30 * Point => assessment.decision = "APPROVE"

=============================================================================
