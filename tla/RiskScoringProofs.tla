------------------------- MODULE RiskScoringProofs -------------------------
(***************************************************************************)
(* What RiskScoring promises for every request and every anomaly score.    *)
(* All the scorer needs of the rules is the range of their scores; all the *)
(* decision needs of the scorer is the range of the aggregate.             *)
(***************************************************************************)
EXTENDS RiskScoring, FiniteSetTheorems, TLAPS

(* Every rule's score is between 0 and 1.0, whatever the request.          *)
LEMMA RuleScoreRange ==
  ASSUME NEW t \in Requests
  PROVE  RuleScores(t) \in [Rules -> 0 .. 1000]
<1> DEFINE S == 0 .. 1000
<1> SUFFICES RuleScores(t) \in [Rules -> S]
  OBVIOUS
<1>a. /\ t.amount \in Amounts /\ t.age \in Ages
      /\ t.recent \in RecentCounts /\ t.failed \in FailedCounts
      /\ t.corridor \in {"domestic", "crossBorder", "highRisk"}
      /\ t.device \in {"known", "new", "missing"}
  BY DEF Requests
<1>0. /\ t.amount \in Nat /\ t.age \in Nat /\ t.recent \in Nat /\ t.failed \in Nat
      /\ t.corridor \in {"domestic", "crossBorder", "highRisk"}
      /\ t.device \in {"known", "new", "missing"}
  BY <1>a, ScoringAssumption, Zenon
<1>1. HighValue(t) \in S
  <2>1. CASE t.amount < 10000
    BY <2>1 DEF HighValue
  <2>2. CASE t.amount >= 10000
    <3> DEFINE over == Least(t.amount, 50000) - 10000
    <3>1. over \in Nat /\ over <= 40000
      BY SMT, <1>0, <2>2 DEF Least
    <3>2. HighValue(t) = 500 + (over * 125) \div 10000
      BY SMT, <1>0, <2>2 DEF HighValue
    <3> HIDE DEF over
    <3> QED
      BY SMT, <3>1, <3>2
  <2> QED
    BY SMT, <1>0, <2>1, <2>2
<1>2. VelocitySpike(t) \in S
  BY SMTT(30), <1>0 DEF VelocitySpike
<1>3. GeoMismatch(t) \in S
  BY SMTT(30), <1>0 DEF GeoMismatch
<1>4. DeviceChange(t) \in S
  BY <1>0 DEF DeviceChange
<1>5. UnusualHour(t) \in S
  BY <1>0 DEF UnusualHour
<1>6. AccountAgeRisk(t) \in S
  BY SMTT(30), <1>0 DEF AccountAgeRisk
<1>7. FailedBurst(t) \in S
  BY SMTT(30), <1>0 DEF FailedBurst, Least
<1>8. NewReceiver(t) \in S
  BY <1>0 DEF NewReceiver
<1> HIDE DEF S
<1>9. QED
  BY SMTT(30), <1>1, <1>2, <1>3, <1>4, <1>5, <1>6, <1>7, <1>8 DEF RuleScores, Rules

(* A severity multiplier leaves a score a natural number.                  *)
LEMMA WeightedIsNat ==
  ASSUME NEW s \in 0 .. 1000 PROVE Weighted(s) \in Nat
<1>1. Severity(s) \in {"HIGH", "MEDIUM", "LOW"}
  BY DEF Severity
<1>2. QED
  BY <1>1 DEF Weighted, Multiplier

(* The aggregate is a score between 0 and 100 points.                      *)
LEMMA AggregateRange ==
  ASSUME NEW s \in [Rules -> 0 .. 1000] PROVE Aggregate(s) \in Scores
<1> DEFINE S == 0 .. 1000
<1>a. \A r \in Rules : s[r] \in S
  OBVIOUS
<1>b. \A k \in S : Weighted(k) \in Nat
  BY WeightedIsNat
<1> HIDE DEF S
<1>1. \A r \in Rules : Weighted(s[r]) \in Nat
  BY <1>a, <1>b
<1>2. WeightedTotal(s) \in Nat
  BY <1>1 DEF WeightedTotal, Rules
<1>3. Boost(s) \in {100, 108, 120}
  BY DEF Boost
<1>4. WeightedTotal(s) * Boost(s) * 10 \in Nat
  BY <1>2, <1>3
<1>5. QED
  BY SMT, <1>4 DEF Aggregate, Least, Hundred, Point, Scores

(* The blend is a score between 0 and 100 points; with an anomaly score    *)
(* the rules count six tenths, and the anomaly score at most 3.6 points    *)
(* below 0.90 and at least 36 from there on.                               *)
LEMMA FinalScoreRange ==
  ASSUME NEW r \in Scores, NEW m \in Anomalies
  PROVE  /\ FinalScore(r, m) \in Scores
         /\ m < SureThing
              => \/ FinalScore(r, m) = r
                 \/ 10 * FinalScore(r, m) <= 6 * r + 36 * Point
         /\ m >= SureThing
              => \/ FinalScore(r, m) = Hundred
                 \/ 10 * FinalScore(r, m) > 6 * r - 10 + 360 * Point
<1> DEFINE q == (r * RuleWeight) \div 10
<1>1. q \in Nat /\ 10 * q <= 6 * r /\ 6 * r < 10 * q + 10
  BY SMT DEF RuleWeight, Hundred, Point, Scores
<1> HIDE DEF q
<1>2. /\ MlContribution(m) \in Nat
      /\ m < SureThing => 10 * MlContribution(m) <= 36 * Point
      /\ m >= SureThing => 10 * MlContribution(m) >= 360 * Point
  BY SMT DEF Anomalies, MlContribution, MlWeight, SureThing, Point, Scores
<1>3. FinalScore(r, m) = IF m = 0 THEN r ELSE Least(Hundred, q + MlContribution(m))
  BY DEF FinalScore, q
<1>4. QED
  BY SMT, <1>1, <1>2, <1>3 DEF Least, Hundred, Point, SureThing, Scores

(* A decision is one of three, and is told from the score's percentage.    *)
LEMMA DecideByPercent ==
  ASSUME NEW s \in Scores
  PROVE  /\ Percent(s) \in Nat
         /\ Percent(s) >= 60 * Point - Epsilon => Decide(s) = "BLOCK"
         /\ Percent(s) >= 40 * Point - Epsilon /\ Percent(s) < 60 * Point - Epsilon
              => Decide(s) = "REVIEW"
         /\ Percent(s) < 40 * Point - Epsilon => Decide(s) = "APPROVE"
<1>1. Percent(s) \in Nat
  BY SMT DEF Percent, Hundred, Point, Scores
<1>2. Epsilon = 80
  BY SMT DEF Epsilon, Point, Scores
<1>3. QED
  BY SMT, <1>1, <1>2 DEF Decide, MakeDecision, RiskLevel, Point, Scores

-----------------------------------------------------------------------------
(* What was returned is what the scorer makes of the stored scores.        *)
AssessedFromScores ==
  phase = "done" =>
    /\ assessment.score = FinalScore(Aggregate(scores), ml)
    /\ assessment.decision = Decide(assessment.score)
    /\ assessment.factors = RiskFactors(scores, ml)

Inv == TypeOK /\ AssessedFromScores

LEMMA Initially == Init => Inv
<1>1. Unscored \in [Rules -> 0 .. 1000]
  BY DEF Unscored
<1>2. QED
  BY SMT, <1>1 DEF Init, Inv, TypeOK, Anomalies, AssessedFromScores, NotReached, Hundred, Point, Scores

LEMMA Step ==
  ASSUME Inv, [Next]_vars PROVE Inv'
<1> USE DEF Inv, TypeOK
<1>1. CASE RunRules
  <2>1. RuleScores(request) \in [Rules -> 0 .. 1000]
    BY RuleScoreRange
  <2>2. QED
    BY <1>1, <2>1 DEF RunRules, AssessedFromScores
<1>2. CASE GetMlScore
  <2>1. PICK s \in MlScores : ml' = IF Onboarding THEN s \div 10 ELSE s
    BY <1>2 DEF GetMlScore
  <2>2. s \in Anomalies
    BY ScoringAssumption
  <2>3. s \div 10 \in Anomalies
    BY <2>2 DEF Anomalies
  <2>4. ml' \in Anomalies
    BY <2>1, <2>2, <2>3
  <2>5. phase' = "assess" /\ UNCHANGED <<request, scores, assessment>>
    BY <1>2 DEF GetMlScore
  <2>6. QED
    BY <2>4, <2>5 DEF AssessedFromScores
<1>3. CASE MlFallback
  BY <1>3 DEF MlFallback, AssessedFromScores, Anomalies
<1>4. CASE Assess
  <2> DEFINE final == FinalScore(Aggregate(scores), ml)
  <2>1. final \in Scores
    <3>1. Aggregate(scores) \in Scores
      BY AggregateRange
    <3>2. QED
      BY <3>1, FinalScoreRange
  <2>2. Decide(final) \in {"APPROVE", "REVIEW", "BLOCK"}
    BY DEF Decide, MakeDecision, RiskLevel
  <2>3. RiskFactors(scores, ml) \in SUBSET (Rules \cup {"ML_ANOMALY_DETECTION"})
    BY DEF RiskFactors, Triggered
  <2>4. assessment' = [score |-> final, decision |-> Decide(final),
                       factors |-> RiskFactors(scores, ml)]
    BY <1>4 DEF Assess
  <2> HIDE DEF final
  <2>5. TypeOK'
    BY <1>4, <2>1, <2>2, <2>3, <2>4 DEF Assess
  <2>6. AssessedFromScores'
    BY <1>4, <2>4 DEF Assess, AssessedFromScores, final
  <2>7. QED
    BY <2>5, <2>6
<1>5. CASE UNCHANGED vars
  <2>1. TypeOK'
    BY <1>5 DEF vars
  <2>2. AssessedFromScores'
    BY <1>5 DEF vars, AssessedFromScores
  <2>3. QED
    BY <2>1, <2>2
<1> HIDE DEF Inv, TypeOK
<1>6. RunRules \/ GetMlScore \/ MlFallback \/ Assess \/ UNCHANGED vars
  BY DEF Next
<1>7. QED
  BY <1>1, <1>2, <1>3, <1>4, <1>5, <1>6

(* The invariant implies what is claimed of anomaly scores: below 0.90 six *)
(* tenths of the rules and 3.6 points are never in a higher band than the  *)
(* rules alone, from 0.90 on six tenths and 36 points never in a lower.    *)
LEMMA ThresholdFromInv ==
  ASSUME Inv PROVE MlRespectsThreshold
<1> SUFFICES ASSUME phase = "done" PROVE MlRespectsThreshold
  BY DEF MlRespectsThreshold
<1> DEFINE alone == Aggregate(scores)
           final == FinalScore(alone, ml)
<1>1. alone \in Scores
  BY AggregateRange DEF Inv, TypeOK
<1>2. /\ assessment.score = final
      /\ assessment.decision = Decide(final)
  BY DEF Inv, AssessedFromScores
<1>3. ml \in Anomalies
  BY DEF Inv, TypeOK
<1> HIDE DEF alone
<1>4. /\ final \in Scores
      /\ ml < SureThing => final = alone \/ 10 * final <= 6 * alone + 36 * Point
      /\ ml >= SureThing => final = Hundred \/ 10 * final > 6 * alone - 10 + 360 * Point
  BY <1>1, <1>3, FinalScoreRange
<1> HIDE DEF final
<1>5. ASSUME ml < SureThing, WholePoints(final)
      PROVE  ~StricterThan(Decide(final), Decide(alone))
  <2>1. final = alone \/ 10 * final <= 6 * alone + 36 * Point
    BY <1>4, <1>5
  <2>2. CASE final = alone
    BY SMT, <2>2, DecideByPercent, <1>1 DEF StricterThan, Strictness, Point, Epsilon, Scores
  <2>3. CASE 10 * final <= 6 * alone + 36 * Point
    <3>1. Percent(final) = final
      BY SMT, <1>4, <1>5 DEF Percent, WholePoints, Point, Scores
    <3>2. Percent(final) >= 40 * Point - Epsilon => Percent(alone) = alone
      BY SMT, <1>1, <1>4, <2>3, <3>1 DEF Percent, Point, Epsilon, Scores
    <3>3. /\ Percent(final) >= 60 * Point - Epsilon => Percent(alone) >= 60 * Point - Epsilon
          /\ Percent(final) >= 40 * Point - Epsilon => Percent(alone) >= 40 * Point - Epsilon
      BY SMT, <1>1, <1>4, <2>3, <3>1, <3>2 DEF Point, Epsilon, Scores
    <3>4. QED
      BY SMT, <1>1, <1>4, <3>3, DecideByPercent DEF StricterThan, Strictness, Point, Epsilon, Scores
  <2>4. QED
    BY <2>1, <2>2, <2>3
<1>6. ASSUME ml >= SureThing, WholePoints(alone)
      PROVE  ~StricterThan(Decide(alone), Decide(final))
  <2>1. 10 * final > 6 * alone - 10 + 360 * Point \/ final = Hundred
    BY <1>4, <1>6
  <2>2. Percent(alone) = alone
    BY SMT, <1>1, <1>6 DEF Percent, WholePoints, Point, Scores
  <2>3. Percent(final) = final
    BY SMT, <1>1, <1>4, <2>1 DEF Percent, Point, Hundred, Scores
  <2>4. /\ Percent(alone) >= 60 * Point - Epsilon => Percent(final) >= 60 * Point - Epsilon
        /\ Percent(alone) >= 40 * Point - Epsilon => Percent(final) >= 40 * Point - Epsilon
    BY SMT, <1>1, <1>4, <2>1, <2>2, <2>3 DEF Point, Epsilon, Hundred, Scores
  <2>5. QED
    BY SMT, <1>1, <1>4, <2>4, DecideByPercent DEF StricterThan, Strictness, Point, Epsilon, Scores
<1>7. QED
  BY <1>2, <1>5, <1>6 DEF MlRespectsThreshold, alone

LEMMA InvHolds == Spec => []Inv
<1>1. Init => Inv
  BY Initially
<1>2. Inv /\ [Next]_vars => Inv'
  BY Step
<1>3. QED
  BY <1>1, <1>2, PTL DEF Spec

(* Every evaluation stays within its types: in particular no request gets  *)
(* a score outside 0-100 points, and every one a decision.                 *)
THEOREM TypeInvariant == Spec => []TypeOK
<1>1. Inv => TypeOK
  BY DEF Inv
<1>2. QED
  BY <1>1, InvHolds, PTL

(* For every request and anomaly score: below 0.90 the ML service never    *)
(* makes a decision stricter, from 0.90 on never laxer, than the rules.    *)
THEOREM CertaintyGovernsMl == Spec => []MlRespectsThreshold
<1>1. Inv => MlRespectsThreshold
  BY ThresholdFromInv
<1>2. QED
  BY <1>1, InvHolds, PTL
-----------------------------------------------------------------------------
(* How the scorer's steps order the scores: what a rule adds.              *)

(* The scores of a rule, in thousandths. *)
RuleScale == 0 .. 1000

(* A score weighs at most 25 times itself, and nothing if it is zero.      *)
LEMMA WeightedRange ==
  \A s \in RuleScale : Weighted(s) \in Nat /\ Weighted(s) <= 25000 /\ (s = 0 => Weighted(s) = 0)
<1> TAKE s \in RuleScale
<1>0. s \in 0 .. 1000
  BY DEF RuleScale
<1>1. Multiplier[Severity(s)] \in {25, 12, 7}
  BY DEF Severity, Multiplier
<1>2. Weighted(s) \in {s * 25, s * 12, s * 7}
  BY <1>1 DEF Weighted
<1>3. QED
  BY SMT, <1>0, <1>2

(* One rule alone gives at most 33.75 points.                              *)
LEMMA AggregateOfOne ==
  ASSUME NEW s \in [Rules -> RuleScale], NEW x, Triggered(s) \subseteq {x}
  PROVE  4 * Aggregate(s) <= 135 * Point
<1> DEFINE w(r) == Weighted(s[r])
<1>0. \A r \in Rules : r # x => s[r] = 0
  BY DEF Triggered, RuleScale
<1>1. \A r \in Rules : w(r) \in Nat /\ w(r) <= 25000 /\ (r # x => w(r) = 0)
  BY SMT, <1>0, WeightedRange
<1>2. WeightedTotal(s) = w("HIGH_VALUE") + w("VELOCITY_SPIKE") + w("GEO_MISMATCH")
                           + w("DEVICE_CHANGE") + w("UNUSUAL_HOUR") + w("ACCOUNT_AGE_RISK")
                           + w("FAILED_BURST") + w("NEW_RECEIVER")
  BY DEF WeightedTotal
<1> HIDE DEF w
<1>3. WeightedTotal(s) \in Nat /\ WeightedTotal(s) <= 25000
  <2>1. /\ w("HIGH_VALUE") \in Nat /\ w("HIGH_VALUE") <= 25000
        /\ w("VELOCITY_SPIKE") \in Nat /\ w("VELOCITY_SPIKE") <= 25000
        /\ w("GEO_MISMATCH") \in Nat /\ w("GEO_MISMATCH") <= 25000
        /\ w("DEVICE_CHANGE") \in Nat /\ w("DEVICE_CHANGE") <= 25000
        /\ w("UNUSUAL_HOUR") \in Nat /\ w("UNUSUAL_HOUR") <= 25000
        /\ w("ACCOUNT_AGE_RISK") \in Nat /\ w("ACCOUNT_AGE_RISK") <= 25000
        /\ w("FAILED_BURST") \in Nat /\ w("FAILED_BURST") <= 25000
        /\ w("NEW_RECEIVER") \in Nat /\ w("NEW_RECEIVER") <= 25000
    BY SMT, <1>1 DEF Rules
  <2>2. CASE x = "HIGH_VALUE"
    <3>1. /\ w("VELOCITY_SPIKE") = 0 /\ w("GEO_MISMATCH") = 0
          /\ w("DEVICE_CHANGE") = 0 /\ w("UNUSUAL_HOUR") = 0
          /\ w("ACCOUNT_AGE_RISK") = 0 /\ w("FAILED_BURST") = 0
          /\ w("NEW_RECEIVER") = 0
      BY SMT, <1>1, <2>2 DEF Rules
    <3> QED
      BY SMT, <1>2, <2>1, <3>1
  <2>3. CASE x = "VELOCITY_SPIKE"
    <3>1. /\ w("HIGH_VALUE") = 0 /\ w("GEO_MISMATCH") = 0
          /\ w("DEVICE_CHANGE") = 0 /\ w("UNUSUAL_HOUR") = 0
          /\ w("ACCOUNT_AGE_RISK") = 0 /\ w("FAILED_BURST") = 0
          /\ w("NEW_RECEIVER") = 0
      BY SMT, <1>1, <2>3 DEF Rules
    <3> QED
      BY SMT, <1>2, <2>1, <3>1
  <2>4. CASE x = "GEO_MISMATCH"
    <3>1. /\ w("HIGH_VALUE") = 0 /\ w("VELOCITY_SPIKE") = 0
          /\ w("DEVICE_CHANGE") = 0 /\ w("UNUSUAL_HOUR") = 0
          /\ w("ACCOUNT_AGE_RISK") = 0 /\ w("FAILED_BURST") = 0
          /\ w("NEW_RECEIVER") = 0
      BY SMT, <1>1, <2>4 DEF Rules
    <3> QED
      BY SMT, <1>2, <2>1, <3>1
  <2>5. CASE x = "DEVICE_CHANGE"
    <3>1. /\ w("HIGH_VALUE") = 0 /\ w("VELOCITY_SPIKE") = 0
          /\ w("GEO_MISMATCH") = 0 /\ w("UNUSUAL_HOUR") = 0
          /\ w("ACCOUNT_AGE_RISK") = 0 /\ w("FAILED_BURST") = 0
          /\ w("NEW_RECEIVER") = 0
      BY SMT, <1>1, <2>5 DEF Rules
    <3> QED
      BY SMT, <1>2, <2>1, <3>1
  <2>6. CASE x = "UNUSUAL_HOUR"
    <3>1. /\ w("HIGH_VALUE") = 0 /\ w("VELOCITY_SPIKE") = 0
          /\ w("GEO_MISMATCH") = 0 /\ w("DEVICE_CHANGE") = 0
          /\ w("ACCOUNT_AGE_RISK") = 0 /\ w("FAILED_BURST") = 0
          /\ w("NEW_RECEIVER") = 0
      BY SMT, <1>1, <2>6 DEF Rules
    <3> QED
      BY SMT, <1>2, <2>1, <3>1
  <2>7. CASE x = "ACCOUNT_AGE_RISK"
    <3>1. /\ w("HIGH_VALUE") = 0 /\ w("VELOCITY_SPIKE") = 0
          /\ w("GEO_MISMATCH") = 0 /\ w("DEVICE_CHANGE") = 0
          /\ w("UNUSUAL_HOUR") = 0 /\ w("FAILED_BURST") = 0
          /\ w("NEW_RECEIVER") = 0
      BY SMT, <1>1, <2>7 DEF Rules
    <3> QED
      BY SMT, <1>2, <2>1, <3>1
  <2>8. CASE x = "FAILED_BURST"
    <3>1. /\ w("HIGH_VALUE") = 0 /\ w("VELOCITY_SPIKE") = 0
          /\ w("GEO_MISMATCH") = 0 /\ w("DEVICE_CHANGE") = 0
          /\ w("UNUSUAL_HOUR") = 0 /\ w("ACCOUNT_AGE_RISK") = 0
          /\ w("NEW_RECEIVER") = 0
      BY SMT, <1>1, <2>8 DEF Rules
    <3> QED
      BY SMT, <1>2, <2>1, <3>1
  <2>9. CASE x = "NEW_RECEIVER"
    <3>1. /\ w("HIGH_VALUE") = 0 /\ w("VELOCITY_SPIKE") = 0
          /\ w("GEO_MISMATCH") = 0 /\ w("DEVICE_CHANGE") = 0
          /\ w("UNUSUAL_HOUR") = 0 /\ w("ACCOUNT_AGE_RISK") = 0
          /\ w("FAILED_BURST") = 0
      BY SMT, <1>1, <2>9 DEF Rules
    <3> QED
      BY SMT, <1>2, <2>1, <3>1
  <2>10. CASE x \notin Rules
    BY SMT, <1>1, <1>2, <2>10 DEF Rules
  <2> QED
    BY SMT, <2>2, <2>3, <2>4, <2>5, <2>6, <2>7, <2>8, <2>9, <2>10 DEF Rules
<1>4. Boost(s) \in {100, 108}
  <2> DEFINE high == {r \in Rules : Severity(s[r]) = "HIGH"}
  <2>1. high \subseteq {x}
    BY <1>0 DEF Severity
  <2>2. high = {} \/ (x \in high /\ high = {x})
    BY <2>1
  <2> QED
    BY <2>2 DEF Boost
<1>5. WeightedTotal(s) * Boost(s) * 10 <= 27000000 /\ WeightedTotal(s) * Boost(s) * 10 \in Nat
  <2>1. CASE Boost(s) = 100
    BY SMT, <1>3, <2>1
  <2>2. CASE Boost(s) = 108
    BY SMT, <1>3, <2>2
  <2> QED
    BY SMT, <1>4, <2>1, <2>2
<1> QED
  BY SMT, <1>5 DEF Aggregate, Least, Hundred, Point

(* Weights and boosts that are not greater make no greater aggregate.      *)
LEMMA ProductMonotone ==
  ASSUME NEW a \in Nat, NEW b \in Nat, a <= b,
         NEW p \in {100, 108, 120}, NEW q \in {100, 108, 120}, p <= q
  PROVE  a * p * 10 <= b * q * 10
<1>1. CASE p = 100
  BY <1>1
<1>2. CASE p = 108
  BY <1>2
<1>3. CASE p = 120
  BY <1>3
<1> QED
  BY <1>1, <1>2, <1>3

(* Without some of the rules the aggregate is not greater.                 *)
LEMMA AggregateMonotone ==
  ASSUME NEW s \in [Rules -> RuleScale], NEW t \in [Rules -> RuleScale],
         \A r \in Rules : t[r] = s[r] \/ t[r] = 0
  PROVE  Aggregate(t) <= Aggregate(s)
<1> DEFINE v(r) == Weighted(t[r])
           w(r) == Weighted(s[r])
<1>1. \A r \in Rules : v(r) \in Nat /\ w(r) \in Nat /\ v(r) <= w(r)
  BY SMT, WeightedRange
<1>2. /\ WeightedTotal(s) = w("HIGH_VALUE") + w("VELOCITY_SPIKE") + w("GEO_MISMATCH")
                              + w("DEVICE_CHANGE") + w("UNUSUAL_HOUR") + w("ACCOUNT_AGE_RISK")
                              + w("FAILED_BURST") + w("NEW_RECEIVER")
      /\ WeightedTotal(t) = v("HIGH_VALUE") + v("VELOCITY_SPIKE") + v("GEO_MISMATCH")
                              + v("DEVICE_CHANGE") + v("UNUSUAL_HOUR") + v("ACCOUNT_AGE_RISK")
                              + v("FAILED_BURST") + v("NEW_RECEIVER")
  BY DEF WeightedTotal
<1> HIDE DEF v, w
<1>3. WeightedTotal(s) \in Nat /\ WeightedTotal(t) \in Nat /\ WeightedTotal(t) <= WeightedTotal(s)
  BY <1>1, <1>2 DEF Rules
<1>4. /\ Boost(s) \in {100, 108, 120} /\ Boost(t) \in {100, 108, 120}
      /\ Boost(t) <= Boost(s)
  <2> DEFINE highS == {r \in Rules : Severity(s[r]) = "HIGH"}
             highT == {r \in Rules : Severity(t[r]) = "HIGH"}
  <2>1. highT \subseteq highS
    BY DEF Severity
  <2>2. /\ Boost(s) = IF highS = {} THEN 100 ELSE IF \E r \in highS : highS = {r} THEN 108 ELSE 120
        /\ Boost(t) = IF highT = {} THEN 100 ELSE IF \E r \in highT : highT = {r} THEN 108 ELSE 120
    BY DEF Boost
  <2> HIDE DEF highS, highT
  <2>3. highS = {} => highT = {}
    BY <2>1
  <2>4. (\E r \in highS : highS = {r}) => highT = {} \/ \E r \in highT : highT = {r}
    BY <2>1
  <2> QED
    BY <2>2, <2>3, <2>4
<1>5. WeightedTotal(t) * Boost(t) * 10 <= WeightedTotal(s) * Boost(s) * 10
  BY <1>3, <1>4, ProductMonotone
<1>6. WeightedTotal(t) * Boost(t) * 10 \in Nat /\ WeightedTotal(s) * Boost(s) * 10 \in Nat
  BY <1>3, <1>4
<1> QED
  BY SMT, <1>5, <1>6 DEF Aggregate, Least, Hundred, Point

(* The blend with an anomaly score keeps the order of the rules' scores.   *)
LEMMA FinalScoreMonotone ==
  ASSUME NEW a \in Scores, NEW b \in Scores, a <= b, NEW m \in Anomalies
  PROVE  FinalScore(a, m) <= FinalScore(b, m)
<1> DEFINE p == (a * RuleWeight) \div 10
           q == (b * RuleWeight) \div 10
<1>1. p \in Nat /\ q \in Nat /\ p <= q
  BY SMT DEF RuleWeight, Hundred, Point, Scores
<1>2. MlContribution(m) \in Nat
  BY SMT DEF Anomalies, MlContribution, MlWeight, SureThing
<1>3. /\ FinalScore(a, m) = IF m = 0 THEN a ELSE Least(Hundred, p + MlContribution(m))
      /\ FinalScore(b, m) = IF m = 0 THEN b ELSE Least(Hundred, q + MlContribution(m))
  BY DEF FinalScore
<1> HIDE DEF p, q
<1> QED
  BY SMT, <1>1, <1>2, <1>3 DEF Least, Hundred, Point, Scores

(* A score of 36 points that is not taken for a fraction is approved.      *)
LEMMA LowWholeScore ==
  ASSUME NEW f \in Scores, WholePoints(f), f <= 36 * Point
  PROVE  Decide(f) = "APPROVE"
<1>1. Percent(f) < 40 * Point - Epsilon
  BY SMT DEF Percent, WholePoints, Point, Epsilon, Scores
<1> QED
  BY <1>1, DecideByPercent

(* Of two scores the lower one is not decided upon more strictly.          *)
LEMMA DecideMonotone ==
  ASSUME NEW f \in Scores, NEW g \in Scores, f <= g, WholePoints(f)
  PROVE  ~StricterThan(Decide(f), Decide(g))
<1>1. Decide(g) \in {"APPROVE", "REVIEW", "BLOCK"}
  BY DEF Decide, MakeDecision, RiskLevel
<1>2. CASE f = 0
  <2>1. Decide(f) = "APPROVE"
    BY SMT, <1>2, LowWholeScore DEF Point
  <2> QED
    BY <1>1, <2>1 DEF StricterThan, Strictness
<1>3. CASE f >= Point
  <2>1. Percent(f) <= Percent(g)
    BY SMT, <1>3 DEF Percent, Point, Scores
  <2> QED
    BY SMT, <2>1, DecideByPercent DEF StricterThan, Strictness, Point, Epsilon, Scores
<1> QED
  BY <1>2, <1>3 DEF WholePoints

(* With at most one rule and an anomaly score below 0.90 the blend is at   *)
(* most 33.75 points, or six tenths of that and 3.6 points.                *)
LEMMA OneRuleApproved ==
  ASSUME Inv, phase = "done", ml < SureThing, WholePoints(assessment.score),
         NEW x, Triggered(scores) \subseteq {x}
  PROVE  assessment.decision = "APPROVE"
<1> DEFINE alone == Aggregate(scores)
           final == FinalScore(alone, ml)
<1>0. scores \in [Rules -> 0 .. 1000]
  BY DEF Inv, TypeOK
<1>1. alone \in Scores /\ 4 * alone <= 135 * Point
  BY SMTT(30), <1>0, AggregateRange, AggregateOfOne DEF RuleScale
<1>2. assessment.score = final /\ assessment.decision = Decide(final) /\ ml \in Anomalies
  BY DEF Inv, AssessedFromScores, TypeOK
<1> HIDE DEF alone
<1>3. final \in Scores /\ (final = alone \/ 10 * final <= 6 * alone + 36 * Point)
  BY <1>1, <1>2, FinalScoreRange
<1> HIDE DEF final
<1>4. final <= 36 * Point
  BY SMT, <1>1, <1>3 DEF Point, Scores
<1> QED
  BY <1>2, <1>3, <1>4, LowWholeScore

LEMMA TriggeredOnce ==
  ASSUME Cardinality(Triggered(scores)) <= 1
  PROVE  \E x : Triggered(scores) \subseteq {x}
<1> DEFINE T == Triggered(scores)
<1>1. IsFiniteSet(Rules)
  <2> DEFINE A == {"HIGH_VALUE"}
             B == A \cup {"VELOCITY_SPIKE"}
             C == B \cup {"GEO_MISMATCH"}
             D == C \cup {"DEVICE_CHANGE"}
             E == D \cup {"UNUSUAL_HOUR"}
             F == E \cup {"ACCOUNT_AGE_RISK"}
             G == F \cup {"FAILED_BURST"}
             H == G \cup {"NEW_RECEIVER"}
  <2>1. IsFiniteSet(A)
    BY FS_Singleton
  <2> HIDE DEF A
  <2>2. IsFiniteSet(B)
    BY <2>1, FS_AddElement
  <2> HIDE DEF B
  <2>3. IsFiniteSet(C)
    BY <2>2, FS_AddElement
  <2> HIDE DEF C
  <2>4. IsFiniteSet(D)
    BY <2>3, FS_AddElement
  <2> HIDE DEF D
  <2>5. IsFiniteSet(E)
    BY <2>4, FS_AddElement
  <2> HIDE DEF E
  <2>6. IsFiniteSet(F)
    BY <2>5, FS_AddElement
  <2> HIDE DEF F
  <2>7. IsFiniteSet(G)
    BY <2>6, FS_AddElement
  <2> HIDE DEF G
  <2>8. IsFiniteSet(H)
    BY <2>7, FS_AddElement
  <2>9. H = Rules
    BY DEF A, B, C, D, E, F, G, Rules
  <2> QED
    BY <2>8, <2>9
<1>2. IsFiniteSet(T) /\ Cardinality(T) \in Nat
  <2>1. T \in SUBSET Rules
    BY DEF Triggered
  <2> QED
    BY <1>1, <2>1, FS_Subset, FS_CardinalityType
<1>3. Cardinality(T) = 0 \/ Cardinality(T) = 1
  BY <1>2
<1>4. T = {} \/ \E x : T = {x}
  BY <1>2, <1>3, FS_EmptySet, FS_Singleton
<1> QED
  BY <1>4

(* OneRuleNeverBlocks: whatever one rule says of whatever request, and     *)
(* whatever an unsure anomaly score adds, the transaction is approved.     *)
THEOREM OneRuleIsNotEnough == Spec => []OneRuleNeverBlocks
<1>1. Inv => OneRuleNeverBlocks
  <2> SUFFICES ASSUME Inv, phase = "done", Cardinality(Triggered(scores)) <= 1,
                      ml < SureThing, WholePoints(assessment.score)
               PROVE  assessment.decision = "APPROVE"
    BY DEF OneRuleNeverBlocks
  <2>1. PICK x : Triggered(scores) \subseteq {x}
    BY TriggeredOnce
  <2> QED
    BY <2>1, OneRuleApproved
<1>2. QED
  BY <1>1, InvHolds, PTL

(* FlagsAreExplained: a decision other than APPROVE has a risk factor: the *)
(* empty list means no rule and an anomaly score of at most 0.5.           *)
THEOREM DecisionsAreExplained == Spec => []FlagsAreExplained
<1>1. Inv => FlagsAreExplained
  <2> SUFFICES ASSUME Inv, phase = "done", WholePoints(assessment.score),
                      assessment.factors = {}
               PROVE  assessment.decision = "APPROVE"
    BY DEF FlagsAreExplained
  <2>1. RiskFactors(scores, ml) = {}
    BY DEF Inv, AssessedFromScores
  <2>2. Triggered(scores) \subseteq {0} /\ ~(ml > 5000) /\ ml \in Anomalies
    BY <2>1 DEF RiskFactors, Inv, TypeOK
  <2>3. ml < SureThing
    BY <2>2 DEF SureThing, Anomalies
  <2> QED
    BY <2>2, <2>3, OneRuleApproved
<1>2. QED
  BY <1>1, InvHolds, PTL

(* EvidenceIsMonotone: no rule that triggers makes a decision laxer, for   *)
(* the multipliers, the boost and the blend all keep the scores' order.    *)
THEOREM EvidenceOnlyAdds == Spec => []EvidenceIsMonotone
<1>1. Inv => EvidenceIsMonotone
  <2> SUFFICES ASSUME Inv, phase = "done", NEW r \in Triggered(scores),
                      WholePoints(FinalScore(Aggregate([scores EXCEPT ![r] = 0]), ml))
               PROVE  ~StricterThan(Decide(FinalScore(Aggregate([scores EXCEPT ![r] = 0]), ml)),
                                    assessment.decision)
    BY DEF EvidenceIsMonotone
  <2> DEFINE t == [scores EXCEPT ![r] = 0]
             less == FinalScore(Aggregate(t), ml)
             final == FinalScore(Aggregate(scores), ml)
  <2>1. scores \in [Rules -> 0 .. 1000] /\ ml \in Anomalies /\ r \in Rules
    BY DEF Inv, TypeOK, Triggered
  <2>2. t \in [Rules -> 0 .. 1000] /\ \A q \in Rules : t[q] = scores[q] \/ t[q] = 0
    BY <2>1
  <2> HIDE DEF t
  <2>3. /\ Aggregate(t) \in Scores /\ Aggregate(scores) \in Scores
        /\ Aggregate(t) <= Aggregate(scores)
    BY <2>1, <2>2, AggregateRange, AggregateMonotone DEF RuleScale
  <2>4. less \in Scores /\ final \in Scores /\ less <= final
    BY <2>1, <2>3, FinalScoreRange, FinalScoreMonotone
  <2>5. assessment.decision = Decide(final) /\ WholePoints(less)
    BY DEF Inv, AssessedFromScores, t
  <2>6. ~StricterThan(Decide(less), Decide(final))
    BY <2>4, <2>5, DecideMonotone
  <2> QED
    BY <2>5, <2>6 DEF t
<1>2. QED
  BY <1>1, InvHolds, PTL

=============================================================================
