--------------------------- MODULE IdentityProofs ---------------------------
(***************************************************************************)
(* Identities, bonds and hibernation, for every number of agents and every *)
(* bound, and the formulas their scores are made of.                       *)
(*                                                                         *)
(* First the trust score: its types and its range; that its logarithm and  *)
(* its factors are monotone, so that work never lowers a score; how far    *)
(* its caller can move it; and that a score that makes a juror or a        *)
(* sponsor was earned.  Then the inductive invariant of Identity with the  *)
(* theorems that rest on it, and last what MCFormulas checks over bounded  *)
(* inputs, here for all.                                                   *)
(***************************************************************************)
EXTENDS MCFormulas, Identity, SumLemmas

-----------------------------------------------------------------------------
(* The trust score *)

(* The provers compute one power at a time. *)
LEMMA PowersOfTen ==
    /\ 10 ^ 0 = 1
    /\ 10 ^ 1 = 10
    /\ 10 ^ 2 = 100
    /\ 10 ^ 3 = 1000
    /\ 10 ^ 4 = 10000
    /\ 10 ^ 5 = 100000
    /\ 10 ^ 6 = 1000000
    /\ 10 ^ 7 = 10000000
    /\ 10 ^ 8 = 100000000
    /\ 10 ^ 9 = 1000000000
    /\ 10 ^ 10 = 10000000000
<1>1. 10 ^ 0 = 1
    OBVIOUS
<1>2. 10 ^ 1 = 10
    OBVIOUS
<1>3. 10 ^ 2 = 100
    OBVIOUS
<1>4. 10 ^ 3 = 1000
    OBVIOUS
<1>5. 10 ^ 4 = 10000
    OBVIOUS
<1>6. 10 ^ 5 = 100000
    OBVIOUS
<1>7. 10 ^ 6 = 1000000
    OBVIOUS
<1>8. 10 ^ 7 = 10000000
    OBVIOUS
<1>9. 10 ^ 8 = 100000000
    OBVIOUS
<1>10. 10 ^ 9 = 1000000000
    OBVIOUS
<1>11. 10 ^ 10 = 10000000000
    OBVIOUS
<1> QED
    BY <1>1, <1>2, <1>3, <1>4, <1>5, <1>6, <1>7, <1>8, <1>9, <1>10, <1>11

LEMMA MantissaNat ==
    ASSUME NEW i \in 1..90
    PROVE  MantissaTable[i] \in Nat
BY DEF MantissaTable

LEMMA DigitsExist ==
    ASSUME NEW n \in Nat \ {0}, n < 10 ^ 10
    PROVE  \E k \in 0..9 : n \div 10 ^ k \in 1..9
<1>. n < 10000000000
    BY PowersOfTen
<1>1. CASE 1 <= n /\ n < 10
    <2>1. n \div 10 ^ 0 \in 1..9
        BY <1>1, PowersOfTen
    <2> QED
        BY <2>1
<1>2. CASE 10 <= n /\ n < 100
    <2>1. n \div 10 ^ 1 \in 1..9
        BY <1>2, PowersOfTen
    <2> QED
        BY <2>1
<1>3. CASE 100 <= n /\ n < 1000
    <2>1. n \div 10 ^ 2 \in 1..9
        BY <1>3, PowersOfTen
    <2> QED
        BY <2>1
<1>4. CASE 1000 <= n /\ n < 10000
    <2>1. n \div 10 ^ 3 \in 1..9
        BY <1>4, PowersOfTen
    <2> QED
        BY <2>1
<1>5. CASE 10000 <= n /\ n < 100000
    <2>1. n \div 10 ^ 4 \in 1..9
        BY <1>5, PowersOfTen
    <2> QED
        BY <2>1
<1>6. CASE 100000 <= n /\ n < 1000000
    <2>1. n \div 10 ^ 5 \in 1..9
        BY <1>6, PowersOfTen
    <2> QED
        BY <2>1
<1>7. CASE 1000000 <= n /\ n < 10000000
    <2>1. n \div 10 ^ 6 \in 1..9
        BY <1>7, PowersOfTen
    <2> QED
        BY <2>1
<1>8. CASE 10000000 <= n /\ n < 100000000
    <2>1. n \div 10 ^ 7 \in 1..9
        BY <1>8, PowersOfTen
    <2> QED
        BY <2>1
<1>9. CASE 100000000 <= n /\ n < 1000000000
    <2>1. n \div 10 ^ 8 \in 1..9
        BY <1>9, PowersOfTen
    <2> QED
        BY <2>1
<1>10. CASE 1000000000 <= n /\ n < 10000000000
    <2>1. n \div 10 ^ 9 \in 1..9
        BY <1>10, PowersOfTen
    <2> QED
        BY <2>1
<1> QED
    BY <1>1, <1>2, <1>3, <1>4, <1>5, <1>6, <1>7, <1>8, <1>9, <1>10

LEMMA OneDigitMore ==
    ASSUME NEW n \in Nat, NEW k \in 1..10, n \div 10 ^ k \in 1..9
    PROVE  n \div 10 ^ (k - 1) \in 10..99
<1>1. CASE k = 1
    <2>1. 10 ^ k = 10 /\ 10 ^ (k - 1) = 1
        BY <1>1, PowersOfTen
    <2> QED
        BY <2>1
<1>2. CASE k = 2
    <2>1. 10 ^ k = 100 /\ 10 ^ (k - 1) = 10
        BY <1>2, PowersOfTen
    <2> QED
        BY <2>1
<1>3. CASE k = 3
    <2>1. 10 ^ k = 1000 /\ 10 ^ (k - 1) = 100
        BY <1>3, PowersOfTen
    <2> QED
        BY <2>1
<1>4. CASE k = 4
    <2>1. 10 ^ k = 10000 /\ 10 ^ (k - 1) = 1000
        BY <1>4, PowersOfTen
    <2> QED
        BY <2>1
<1>5. CASE k = 5
    <2>1. 10 ^ k = 100000 /\ 10 ^ (k - 1) = 10000
        BY <1>5, PowersOfTen
    <2> QED
        BY <2>1
<1>6. CASE k = 6
    <2>1. 10 ^ k = 1000000 /\ 10 ^ (k - 1) = 100000
        BY <1>6, PowersOfTen
    <2> QED
        BY <2>1
<1>7. CASE k = 7
    <2>1. 10 ^ k = 10000000 /\ 10 ^ (k - 1) = 1000000
        BY <1>7, PowersOfTen
    <2> QED
        BY <2>1
<1>8. CASE k = 8
    <2>1. 10 ^ k = 100000000 /\ 10 ^ (k - 1) = 10000000
        BY <1>8, PowersOfTen
    <2> QED
        BY <2>1
<1>9. CASE k = 9
    <2>1. 10 ^ k = 1000000000 /\ 10 ^ (k - 1) = 100000000
        BY <1>9, PowersOfTen
    <2> QED
        BY <2>1
<1>10. CASE k = 10
    <2>1. 10 ^ k = 10000000000 /\ 10 ^ (k - 1) = 1000000000
        BY <1>10, PowersOfTen
    <2> QED
        BY <2>1
<1> QED
    BY <1>1, <1>2, <1>3, <1>4, <1>5, <1>6, <1>7, <1>8, <1>9, <1>10

LEMMA FloorLog10Is ==
    ASSUME NEW n \in Nat \ {0}, Leading(n, 18) < 10
    PROVE  FloorLog10(n) \in 0..19 /\ Leading(n, FloorLog10(n)) \in 1..9
<1> DEFINE high == n \div 10 ^ 9
<1>1. high \in Nat /\ (high = 0 => n < 10 ^ 10) /\ (high # 0 => high < 10 ^ 10)
    BY PowersOfTen DEF Leading
<1>2. \E k \in 0..19 : Leading(n, k) \in 1..9
    <2>1. CASE high = 0
        <3>1. PICK k \in 0..9 : n \div 10 ^ k \in 1..9
            BY <1>1, <2>1, DigitsExist
        <3> QED
            BY <3>1 DEF Leading
    <2>2. CASE high # 0
        <3> HIDE DEF high
        <3>1. PICK k \in 0..9 : high \div 10 ^ k \in 1..9
            BY <1>1, <2>2, DigitsExist
        <3>2. CASE k = 0
            <4>1. high \in 1..9
                BY <1>1, <3>1, <3>2, PowersOfTen
            <4> QED
                BY <4>1 DEF Leading, high
        <3>3. CASE k # 0
            <4>1. Leading(n, 9 + k) = high \div 10 ^ k
                <5>1. (9 + k) - 9 = k /\ ~ (9 + k <= 9)
                    BY <3>3
                <5> QED
                    BY <5>1 DEF Leading, high
            <4> QED
                BY <3>1, <4>1
        <3> QED
            BY <3>2, <3>3
    <2> QED
        BY <2>1, <2>2
<1> QED
    BY <1>2 DEF FloorLog10

LEMMA LeadingTwo ==
    ASSUME NEW n \in Nat, NEW k \in 1..19, Leading(n, k) \in 1..9
    PROVE  Leading(n, k - 1) \in 10..99
<1> DEFINE high == n \div 10 ^ 9
<1>1. high \in Nat
    BY PowersOfTen
<1>2. CASE k <= 9
    <2>1. n \div 10 ^ k \in 1..9 /\ Leading(n, k - 1) = n \div 10 ^ (k - 1)
        BY <1>2 DEF Leading
    <2>2. n \div 10 ^ (k - 1) \in 10..99
        <3>1. k \in 1..10
            BY <1>2
        <3> QED
            BY <2>1, <3>1, OneDigitMore
    <2> QED
        BY <2>1, <2>2
<1>3. CASE k > 9
    <2> DEFINE j == k - 9
    <2>1. j \in 1..10 /\ high \div 10 ^ j \in 1..9
        BY <1>3 DEF Leading
    <2>2. Leading(n, k - 1) = high \div 10 ^ (j - 1)
        <3>1. CASE k = 10
            BY <1>1, <3>1, PowersOfTen DEF Leading
        <3>2. CASE k # 10
            <4>1. (k - 1) - 9 = j - 1 /\ ~ (k - 1 <= 9)
                BY <1>3, <3>2
            <4> QED
                BY <4>1 DEF Leading
        <3> QED
            BY <3>1, <3>2
    <2>3. high \div 10 ^ (j - 1) \in 10..99
        <3> HIDE DEF high, j
        <3> QED
            BY <1>1, <2>1, OneDigitMore
    <2> QED
        BY <2>2, <2>3
<1> QED
    BY <1>2, <1>3

(* The logarithm is a natural number wherever the program computes one.    *)
LEMMA LogNat ==
    ASSUME NEW n \in Nat, Leading(n, 18) < 10
    PROVE  integer_log10_bps(n) \in Nat
<1> DEFINE k == FloorLog10(n)
           mantissa == IF k = 0 THEN 10 * n ELSE Leading(n, k - 1)
<1>1. CASE n = 0
    BY <1>1 DEF integer_log10_bps
<1>2. CASE n # 0
    <2>1. k \in 0..19 /\ Leading(n, k) \in 1..9
        BY <1>2, FloorLog10Is
    <2>3. integer_log10_bps(n) = k * 10000 + MantissaTable[mantissa - 9]
        BY <1>2 DEF integer_log10_bps
    <2> HIDE DEF k
    <2>2. mantissa \in 10..99
        <3>1. CASE k = 0
            <4>1. n \in 1..9
                BY <2>1, <3>1, PowersOfTen DEF Leading
            <4> QED
                BY <3>1, <4>1
        <3>2. CASE k # 0
            <4>1. k \in 1..19
                BY <2>1, <3>2
            <4> QED
                BY <2>1, <3>2, <4>1, LeadingTwo
        <3> QED
            BY <3>1, <3>2
    <2> HIDE DEF mantissa
    <2>4. mantissa - 9 \in 1..90
        BY <2>2
    <2>5. MantissaTable[mantissa - 9] \in Nat
        BY <2>4, MantissaNat
    <2> QED
        BY <2>1, <2>3, <2>5
<1> QED
    BY <1>1, <1>2

LEMMA DivNat ==
    ASSUME NEW x \in Nat, NEW y \in Nat \ {0}
    PROVE  x \div y \in Nat
OBVIOUS

(* A factor of the score, in basis points. *)
InBps(f) == f \in Nat /\ f <= 10000

(* What a score is computed from. *)
Scored(a) ==
    /\ a.tasks_completed \in Nat /\ a.disputes_lost \in Nat /\ a.tasks_abandoned \in Nat
    /\ a.volume_processed \in Nat /\ a.volume_sol \in Nat
    /\ a.total_deliveries \in Nat /\ a.corrections_received \in Nat
    /\ a.dispute_friction_total \in Nat /\ a.registered_at \in Nat
    /\ a.last_task_completed_at \in Nat

(* The logarithms of both factors do not overflow. *)
Computable(a, rate) ==
    /\ Leading(a.tasks_completed + 1, 18) < 10
    /\ Leading(TotalVolume(a, rate) + 1, 18) < 10

LEMMA WithinLogLimit ==
    ASSUME NEW n \in Nat, n < LogLimit
    PROVE  Leading(n + 1, 18) < 10
<1>1. Leading(LogLimit, 18) = (LogLimit \div 10 ^ 9) \div 10 ^ 9
    BY DEF Leading
<1>2. Leading(n + 1, 18) = ((n + 1) \div 10 ^ 9) \div 10 ^ 9
    BY DEF Leading
<1>3. LogLimit \in Nat /\ (LogLimit \div 10 ^ 9) \div 10 ^ 9 < 10
    BY <1>1, IdentityAssumption
<1> QED
    BY <1>2, <1>3, PowersOfTen, SMT

LEMMA IdentityScored ==
    ASSUME NEW a \in AgentIdentity, NEW rate \in Nat, ScoreIsComputable(a, rate)
    PROVE  Scored(a) /\ (a.fraud_flags > 0 \/ Computable(a, rate))
<1>1. Scored(a)
    BY DEF AgentIdentity, Scored
<1>2. TotalVolume(a, rate) \in Nat
    BY <1>1 DEF Scored, TotalVolume
<1>3. CASE a.tasks_completed < LogLimit /\ TotalVolume(a, rate) < LogLimit
    BY <1>1, <1>2, <1>3, WithinLogLimit DEF Scored, Computable
<1> QED
    BY <1>1, <1>3 DEF ScoreIsComputable

LEMMA LogFactors ==
    ASSUME NEW a, Scored(a), NEW rate \in Nat, Computable(a, rate)
    PROVE  InBps(TaskFactor(a)) /\ InBps(VolumeFactor(a, rate))
<1>1. a.tasks_completed \in Nat /\ a.volume_sol \in Nat /\ a.volume_processed \in Nat
    BY DEF Scored
<1>2. TotalVolume(a, rate) \in Nat
    BY <1>1 DEF TotalVolume
<1> DEFINE tasks == integer_log10_bps(a.tasks_completed + 1)
           volume == integer_log10_bps(TotalVolume(a, rate) + 1)
<1>3. tasks \in Nat /\ volume \in Nat
    BY <1>1, <1>2, LogNat DEF Computable
<1>4. /\ TaskFactor(a) = Least(tasks \div 3, 10000)
      /\ VolumeFactor(a, rate) = Least(volume \div 6, 10000)
    BY DEF TaskFactor, VolumeFactor
<1> HIDE DEF tasks, volume
<1> QED
    BY <1>3, <1>4 DEF Least, InBps

(* A ratio in basis points, capped at one.                                 *)
Ratio(x, y) == Least((x * 10000) \div y, 10000)

LEMMA RatioInBps == \A x \in Nat : \A y \in Nat \ {0} : InBps(Ratio(x, y))
<1> TAKE x \in Nat, y \in Nat \ {0}
<1> DEFINE ratio == (x * 10000) \div y
<1>1. ratio \in Nat
    BY DivNat
<1> HIDE DEF ratio
<1>2. InBps(Least(ratio, 10000))
    BY <1>1 DEF Least, InBps
<1> QED
    BY <1>2 DEF ratio, Ratio

LEMMA QualityInBps ==
    ASSUME NEW a, Scored(a)
    PROVE  InBps(QualityFactor(a))
<1> DEFINE corrections == Ratio(a.corrections_received, Most(a.total_deliveries, 1))
           losses == Ratio(a.disputes_lost, Most(a.tasks_completed, 1))
           ramp == Ratio(a.tasks_completed, 20)
           good == Monus(10000, 2 * corrections + 5 * losses)
<1>1. /\ a.total_deliveries \in Nat /\ a.tasks_completed \in Nat
      /\ a.corrections_received \in Nat /\ a.disputes_lost \in Nat
    BY DEF Scored
<1>2. Most(a.total_deliveries, 1) \in Nat \ {0} /\ Most(a.tasks_completed, 1) \in Nat \ {0}
    BY <1>1 DEF Most
<1>3. InBps(corrections) /\ InBps(losses) /\ InBps(ramp)
    BY <1>1, <1>2, RatioInBps
<1>4. QualityFactor(a) = (good * ramp) \div 10000
    BY DEF QualityFactor, Ratio
<1> HIDE DEF corrections, losses, ramp
<1>5. InBps(good)
    BY <1>3 DEF Monus, InBps
<1> HIDE DEF good
<1> DEFINE product == good * ramp
<1>6. product \in Nat /\ product <= 10000 * ramp /\ ramp \in Nat /\ ramp <= 10000
    BY <1>3, <1>5 DEF InBps
<1>7. InBps(product \div 10000)
    <2> HIDE DEF product
    <2>1. product \div 10000 \in Nat
        BY <1>6
    <2>2. product \div 10000 <= ramp
        BY <1>6
    <2> QED
        BY <1>6, <2>1, <2>2 DEF InBps
<1> QED
    BY <1>4, <1>7

LEMMA AgeInBps ==
    ASSUME NEW a, Scored(a), NEW t \in Nat
    PROVE  InBps(AgeFactor(a, t))
<1>1. a.registered_at \in Nat
    BY DEF Scored
<1>2. Most(t - a.registered_at, 0) \in Nat
    BY <1>1 DEF Most
<1>3. AgeFactor(a, t) = Ratio(Most(t - a.registered_at, 0), 24)
    BY DEF AgeFactor, Ratio
<1>4. 24 \in Nat \ {0}
    OBVIOUS
<1> QED
    BY <1>2, <1>3, <1>4, RatioInBps

LEMMA PenaltyNat ==
    ASSUME NEW a, Scored(a)
    PROVE  Penalty(a) \in Nat
<1> DEFINE tasks == Most(a.tasks_completed, 1)
           disputes == (50 * a.disputes_lost) \div tasks
           abandons == (150 * a.tasks_abandoned) \div tasks
           friction == a.dispute_friction_total \div 2
<1>1. /\ tasks \in Nat \ {0} /\ friction \in Nat
      /\ 50 * a.disputes_lost \in Nat /\ 150 * a.tasks_abandoned \in Nat
    BY DEF Scored, Most
<1>2. Penalty(a) = disputes + abandons + friction
    BY DEF Penalty
<1> HIDE DEF tasks
<1>3. disputes \in Nat /\ abandons \in Nat
    BY <1>1, DivNat
<1> HIDE DEF disputes, abandons, friction
<1> QED
    BY <1>1, <1>2, <1>3

LEMMA DecayNat ==
    ASSUME NEW a, Scored(a), NEW t \in Nat
    PROVE  Decay(a, t) \in Nat
BY DEF Scored, Decay, Most, Least

(* Whenever the program computes a score, it is between 0 and 100.         *)
LEMMA ScoreInRange ==
    ASSUME NEW a, Scored(a), NEW t \in Nat, NEW rate \in Nat,
           a.fraud_flags > 0 \/ Computable(a, rate)
    PROVE  calculate_trust_score(a, t, rate) \in 0..100
<1>1. CASE a.fraud_flags > 0
    BY <1>1 DEF calculate_trust_score
<1>2. CASE ~ (a.fraud_flags > 0)
    <2> DEFINE task == TaskFactor(a)
               volume == VolumeFactor(a, rate)
               quality == QualityFactor(a)
               age == AgeFactor(a, t)
               sponsor == SponsorFactor(a)
               factors == task * 30 + volume * 20 + quality * 25 + age * 20 + sponsor * 5
    <2>1. factors \in Nat
        <3>1. task \in Nat /\ volume \in Nat
            BY <1>2, LogFactors DEF InBps
        <3>2. quality \in Nat /\ age \in Nat
            BY QualityInBps, AgeInBps DEF InBps
        <3>3. sponsor \in Nat
            BY DEF SponsorFactor
        <3> HIDE DEF task, volume, quality, age, sponsor
        <3> QED
            BY <3>1, <3>2, <3>3
    <2>2. BaseScore(a, t, rate) = Least(factors \div 10000, 100)
        BY DEF BaseScore
    <2> HIDE DEF factors
    <2>3. BaseScore(a, t, rate) \in 0..100
        BY <2>1, <2>2 DEF Least
    <2>4. Penalty(a) \in Nat /\ Decay(a, t) \in Nat
        BY PenaltyNat, DecayNat
    <2>6. calculate_trust_score(a, t, rate)
            = Monus(Monus(BaseScore(a, t, rate), Penalty(a)), Decay(a, t))
        BY <1>2 DEF calculate_trust_score
    <2> DEFINE base == BaseScore(a, t, rate)
               penalty == Penalty(a)
               decay == Decay(a, t)
    <2>7. Monus(Monus(base, penalty), decay) \in 0..100
        <3> HIDE DEF base, penalty, decay
        <3>1. base \in 0..100 /\ penalty \in Nat /\ decay \in Nat
            BY <2>3, <2>4 DEF base, penalty, decay
        <3> QED
            BY <3>1 DEF Monus
    <2> QED
        BY <2>6, <2>7
<1> QED
    BY <1>1, <1>2

-----------------------------------------------------------------------------
(* Products and quotients *)

LEMMA ProductGrows ==
    ASSUME NEW m \in Nat, NEW n \in Nat, NEW p \in Nat, NEW q \in Nat, m <= n, p <= q
    PROVE  m * p <= n * q
<1>1. m * p <= n * p
    OBVIOUS
<1>2. n * p <= n * q
    OBVIOUS
<1>3. m * p \in Nat /\ n * p \in Nat /\ n * q \in Nat
    OBVIOUS
<1> QED
    BY <1>1, <1>2, <1>3

LEMMA QuotientIs ==
    ASSUME NEW n \in Nat, NEW d \in Nat \ {0}
    PROVE  n \div d \in Nat /\ d * (n \div d) <= n /\ n < d * (n \div d) + d
OBVIOUS

(* A quotient grows with what is divided and falls with the divisor.       *)
LEMMA QuotientGrows ==
    ASSUME NEW m \in Nat, NEW n \in Nat, m <= n, NEW c \in Nat \ {0}, NEW d \in Nat \ {0}, c <= d
    PROVE  m \div d <= n \div c
<1> DEFINE q == m \div d
           r == n \div c
<1>1. q \in Nat /\ d * q <= m
    BY QuotientIs
<1>2. r \in Nat /\ n < c * r + c
    BY QuotientIs
<1> HIDE DEF q, r
<1> SUFFICES ASSUME r < q PROVE FALSE
    BY <1>1, <1>2 DEF q, r
<1>3. r + 1 <= q
    BY <1>1, <1>2
<1>4. c * (r + 1) <= d * q
    BY <1>1, <1>2, <1>3, ProductGrows
<1>5. c * (r + 1) = c * r + c
    BY <1>2
<1>6. c * r \in Nat /\ d * q \in Nat
    BY <1>1, <1>2
<1> QED
    BY <1>1, <1>2, <1>4, <1>5, <1>6

LEMMA QuotientOrdered ==
    ASSUME NEW m \in Nat, NEW n \in Nat, m <= n, NEW d \in Nat \ {0}
    PROVE  m \div d <= n \div d
<1>1. d <= d
    OBVIOUS
<1> QED
    BY <1>1, QuotientGrows

-----------------------------------------------------------------------------
(* The logarithm grows *)

LEMMA PowerStep ==
    ASSUME NEW n \in Nat, NEW k \in 0..9
    PROVE  n \div 10 ^ (k + 1) = (n \div 10 ^ k) \div 10
<1>0. CASE k = 0
    <2>1. 10 ^ k = 1 /\ 10 ^ (k + 1) = 10
        BY <1>0, PowersOfTen
    <2> QED
        BY <2>1
<1>1. CASE k = 1
    <2>1. 10 ^ k = 10 /\ 10 ^ (k + 1) = 100
        BY <1>1, PowersOfTen
    <2> QED
        BY <2>1
<1>2. CASE k = 2
    <2>1. 10 ^ k = 100 /\ 10 ^ (k + 1) = 1000
        BY <1>2, PowersOfTen
    <2> QED
        BY <2>1
<1>3. CASE k = 3
    <2>1. 10 ^ k = 1000 /\ 10 ^ (k + 1) = 10000
        BY <1>3, PowersOfTen
    <2> QED
        BY <2>1
<1>4. CASE k = 4
    <2>1. 10 ^ k = 10000 /\ 10 ^ (k + 1) = 100000
        BY <1>4, PowersOfTen
    <2> QED
        BY <2>1
<1>5. CASE k = 5
    <2>1. 10 ^ k = 100000 /\ 10 ^ (k + 1) = 1000000
        BY <1>5, PowersOfTen
    <2> QED
        BY <2>1
<1>6. CASE k = 6
    <2>1. 10 ^ k = 1000000 /\ 10 ^ (k + 1) = 10000000
        BY <1>6, PowersOfTen
    <2> QED
        BY <2>1
<1>7. CASE k = 7
    <2>1. 10 ^ k = 10000000 /\ 10 ^ (k + 1) = 100000000
        BY <1>7, PowersOfTen
    <2> QED
        BY <2>1
<1>8. CASE k = 8
    <2>1. 10 ^ k = 100000000 /\ 10 ^ (k + 1) = 1000000000
        BY <1>8, PowersOfTen
    <2> QED
        BY <2>1
<1>9. CASE k = 9
    <2>1. 10 ^ k = 1000000000 /\ 10 ^ (k + 1) = 10000000000
        BY <1>9, PowersOfTen
    <2> QED
        BY <2>1
<1> QED
    BY <1>0, <1>1, <1>2, <1>3, <1>4, <1>5, <1>6, <1>7, <1>8, <1>9

LEMMA PowerNat ==
    ASSUME NEW k \in 0..10
    PROVE  10 ^ k \in Nat \ {0}
<1>0. CASE k = 0
    BY <1>0, PowersOfTen
<1>1. CASE k = 1
    BY <1>1, PowersOfTen
<1>2. CASE k = 2
    BY <1>2, PowersOfTen
<1>3. CASE k = 3
    BY <1>3, PowersOfTen
<1>4. CASE k = 4
    BY <1>4, PowersOfTen
<1>5. CASE k = 5
    BY <1>5, PowersOfTen
<1>6. CASE k = 6
    BY <1>6, PowersOfTen
<1>7. CASE k = 7
    BY <1>7, PowersOfTen
<1>8. CASE k = 8
    BY <1>8, PowersOfTen
<1>9. CASE k = 9
    BY <1>9, PowersOfTen
<1>10. CASE k = 10
    BY <1>10, PowersOfTen
<1> QED
    BY <1>0, <1>1, <1>2, <1>3, <1>4, <1>5, <1>6, <1>7, <1>8, <1>9, <1>10

(* Fewer digits of the same number, and the same digits of a larger one.   *)
LEMMA LeadingStep ==
    ASSUME NEW n \in Nat, NEW k \in 0..18
    PROVE  Leading(n, k + 1) = Leading(n, k) \div 10
<1> DEFINE high == n \div 10 ^ 9
<1>1. high \in Nat
    BY PowersOfTen
<1>2. CASE k <= 8
    <2>1. k \in 0..9 /\ k <= 9 /\ k + 1 <= 9
        BY <1>2
    <2>2. Leading(n, k + 1) = n \div 10 ^ (k + 1) /\ Leading(n, k) = n \div 10 ^ k
        BY <2>1 DEF Leading
    <2> QED
        BY <2>1, <2>2, PowerStep
<1>3. CASE k = 9
    <2>1. ~ (k + 1 <= 9) /\ k <= 9 /\ (k + 1) - 9 = 1
        BY <1>3
    <2>2. Leading(n, k + 1) = high \div 10 ^ 1 /\ Leading(n, k) = high
        BY <1>3, <2>1 DEF Leading
    <2> HIDE DEF high
    <2> QED
        BY <2>2, PowersOfTen
<1>4. CASE k > 9
    <2> DEFINE j == k - 9
    <2>1. ~ (k + 1 <= 9) /\ ~ (k <= 9) /\ (k + 1) - 9 = j + 1 /\ j \in 0..9
        BY <1>4
    <2>2. Leading(n, k + 1) = high \div 10 ^ (j + 1) /\ Leading(n, k) = high \div 10 ^ j
        BY <2>1 DEF Leading
    <2> HIDE DEF high, j
    <2> QED
        BY <1>1, <2>1, <2>2, PowerStep
<1> QED
    BY <1>2, <1>3, <1>4

LEMMA LeadingNat ==
    ASSUME NEW n \in Nat, NEW k \in 0..19
    PROVE  Leading(n, k) \in Nat
<1> DEFINE high == n \div 10 ^ 9
<1>1. high \in Nat
    BY PowersOfTen
<1>2. CASE k <= 9
    <2>1. Leading(n, k) = n \div 10 ^ k
        BY <1>2 DEF Leading
    <2>2. k \in 0..10
        BY <1>2
    <2>3. 10 ^ k \in Nat \ {0}
        BY <2>2, PowerNat
    <2> QED
        BY <2>1, <2>3, DivNat
<1>3. CASE k > 9
    <2> HIDE DEF high
    <2>1. k - 9 \in 0..10 /\ ~ (k <= 9)
        BY <1>3
    <2>2. Leading(n, k) = high \div 10 ^ (k - 9)
        BY <2>1 DEF Leading, high
    <2>3. 10 ^ (k - 9) \in Nat \ {0}
        BY <2>1, PowerNat
    <2> QED
        BY <1>1, <2>2, <2>3, DivNat
<1> QED
    BY <1>2, <1>3

LEMMA LeadingGrows ==
    ASSUME NEW m \in Nat, NEW n \in Nat, m <= n, NEW k \in 0..19
    PROVE  Leading(m, k) <= Leading(n, k)
<1> DEFINE low == m \div 10 ^ 9
           high == n \div 10 ^ 9
<1>1. low \in Nat /\ high \in Nat /\ low <= high
    BY PowersOfTen
<1>2. CASE k <= 9
    <2>1. Leading(m, k) = m \div 10 ^ k /\ Leading(n, k) = n \div 10 ^ k
        BY <1>2 DEF Leading
    <2>2. k \in 0..10
        BY <1>2
    <2>3. 10 ^ k \in Nat \ {0}
        BY <2>2, PowerNat
    <2> QED
        BY <2>1, <2>3, QuotientOrdered
<1>3. CASE k > 9
    <2> HIDE DEF low, high
    <2>1. k - 9 \in 0..10 /\ ~ (k <= 9)
        BY <1>3
    <2>2. /\ Leading(m, k) = low \div 10 ^ (k - 9)
          /\ Leading(n, k) = high \div 10 ^ (k - 9)
        BY <2>1 DEF Leading, low, high
    <2>3. 10 ^ (k - 9) \in Nat \ {0}
        BY <2>1, PowerNat
    <2> QED
        BY <1>1, <2>2, <2>3, QuotientOrdered
<1> QED
    BY <1>2, <1>3

LEMMA LeadingFalls ==
    ASSUME NEW n \in Nat, NEW i \in 0..19, NEW j \in 0..19, i < j
    PROVE  Leading(n, j) <= Leading(n, i) \div 10
<1> DEFINE Right(k) == Leading(n, k) <= Leading(n, i) \div 10
           Wrong == {k \in 0..19 : i < k /\ ~ Right(k)}
<1> SUFFICES ASSUME ~ Right(j) PROVE FALSE
    OBVIOUS
<1>1. Wrong \in SUBSET Nat /\ Wrong # {}
    OBVIOUS
<1>2. PICK k \in Wrong : \A l \in Wrong : k <= l
    <2> HIDE DEF Wrong
    <2> QED
        BY <1>1, LeastNumber
<1>3. k \in 0..19 /\ i < k /\ ~ Right(k)
    OBVIOUS
<1>4. k - 1 \in 0..18 /\ (k - 1) + 1 = k
    BY <1>3
<1>5. Leading(n, k) = Leading(n, k - 1) \div 10
    BY <1>4, LeadingStep
<1>6. k - 1 # i
    <2>1. Leading(n, i) \in Nat
        BY LeadingNat
    <2>2. k - 1 = i => Leading(n, k) = Leading(n, i) \div 10
        BY <1>5
    <2> QED
        BY <1>3, <2>1, <2>2
<1>7. Right(k - 1)
    <2>1. k - 1 \notin Wrong
        BY <1>2, <1>3
    <2>2. k - 1 \in 0..19 /\ i < k - 1
        BY <1>3, <1>4, <1>6
    <2> QED
        BY <2>1, <2>2
<1>8. Leading(n, k - 1) \in Nat /\ Leading(n, i) \div 10 \in Nat
    <2>1. k - 1 \in 0..19
        BY <1>4
    <2>2. Leading(n, k - 1) \in Nat
        BY <2>1, LeadingNat
    <2>3. Leading(n, i) \in Nat
        BY LeadingNat
    <2> QED
        BY <2>2, <2>3
<1> DEFINE tenth == Leading(n, i) \div 10
           one == Leading(n, k - 1)
<1>9. one \in Nat /\ tenth \in Nat /\ one <= tenth /\ ~ (one \div 10 <= tenth)
    BY <1>3, <1>5, <1>7, <1>8
<1> HIDE DEF one, tenth
<1> QED
    BY <1>9

LEMMA FloorLog10Only ==
    ASSUME NEW n \in Nat, NEW k \in 0..19, Leading(n, k) \in 1..9
    PROVE  FloorLog10(n) = k
<1> SUFFICES ASSUME NEW l \in 0..19, Leading(n, l) \in 1..9 PROVE l = k
    BY DEF FloorLog10
<1>1. ~ (l < k)
    <2>1. l < k => Leading(n, k) <= Leading(n, l) \div 10
        BY LeadingFalls
    <2> QED
        BY <2>1
<1>2. ~ (k < l)
    <2>1. k < l => Leading(n, l) <= Leading(n, k) \div 10
        BY LeadingFalls
    <2> QED
        BY <2>1
<1> QED
    BY <1>1, <1>2

LEMMA TableStep ==
    ASSUME NEW i \in 1..89
    PROVE  MantissaTable[i] <= MantissaTable[i + 1]
BY DEF MantissaTable

LEMMA TableBound ==
    ASSUME NEW i \in 1..90
    PROVE  MantissaTable[i] <= 9956
BY DEF MantissaTable

LEMMA TableGrows ==
    ASSUME NEW i \in 1..90, NEW j \in 1..90, i <= j
    PROVE  MantissaTable[i] <= MantissaTable[j]
<1> DEFINE Right(k) == MantissaTable[i] <= MantissaTable[k]
           Wrong == {k \in 1..90 : i <= k /\ ~ Right(k)}
<1> SUFFICES ASSUME ~ Right(j) PROVE FALSE
    OBVIOUS
<1>1. Wrong \in SUBSET Nat /\ Wrong # {}
    OBVIOUS
<1>2. PICK k \in Wrong : \A l \in Wrong : k <= l
    <2> HIDE DEF Wrong
    <2> QED
        BY <1>1, LeastNumber
<1>3. k \in 1..90 /\ i <= k /\ ~ Right(k)
    OBVIOUS
<1>4. MantissaTable[i] \in Nat
    BY MantissaNat
<1>5. k # i
    BY <1>3, <1>4
<1>6. k - 1 \in 1..89 /\ k - 1 \in 1..90 /\ i <= k - 1 /\ (k - 1) + 1 = k
    BY <1>3, <1>5
<1>7. Right(k - 1)
    <2>1. k - 1 \notin Wrong
        BY <1>2, <1>3
    <2> QED
        BY <1>6, <2>1
<1>8. MantissaTable[k - 1] <= MantissaTable[k]
    BY <1>6, TableStep
<1>9. MantissaTable[k - 1] \in Nat
    BY <1>6, MantissaNat
<1>10. MantissaTable[k] \in Nat
    BY <1>3, MantissaNat
<1> QED
    BY <1>3, <1>4, <1>7, <1>8, <1>9, <1>10

(* Of n # 0 with k + 1 digits: its first two digits, and its logarithm.    *)
TwoDigits(n) == IF FloorLog10(n) = 0 THEN 10 * n ELSE Leading(n, FloorLog10(n) - 1)

LEMMA LogIs ==
    ASSUME NEW n \in Nat \ {0}, Leading(n, 18) < 10
    PROVE  /\ TwoDigits(n) \in 10..99
           /\ integer_log10_bps(n) = FloorLog10(n) * 10000 + MantissaTable[TwoDigits(n) - 9]
<1> DEFINE k == FloorLog10(n)
<1>1. k \in 0..19 /\ Leading(n, k) \in 1..9
    BY FloorLog10Is
<1>2. integer_log10_bps(n) = FloorLog10(n) * 10000 + MantissaTable[TwoDigits(n) - 9]
    BY DEF integer_log10_bps, TwoDigits
<1>3. TwoDigits(n) = IF k = 0 THEN 10 * n ELSE Leading(n, k - 1)
    BY DEF TwoDigits
<1> HIDE DEF k
<1>4. CASE k = 0
    <2>1. n \in 1..9
        BY <1>1, <1>4, PowersOfTen DEF Leading
    <2> QED
        BY <1>2, <1>3, <1>4, <2>1
<1>5. CASE k # 0
    <2>1. k \in 1..19
        BY <1>1, <1>5
    <2>2. Leading(n, k - 1) \in 10..99
        BY <1>1, <2>1, LeadingTwo
    <2> QED
        BY <1>2, <1>3, <1>5, <2>2
<1> QED
    BY <1>4, <1>5

LEMMA LeadingSmall ==
    ASSUME NEW m \in Nat, NEW n \in Nat, m <= n, Leading(n, 18) < 10
    PROVE  Leading(m, 18) < 10
<1>1. 18 \in 0..19
    OBVIOUS
<1>2. Leading(m, 18) <= Leading(n, 18)
    BY <1>1, LeadingGrows
<1>3. Leading(m, 18) \in Nat
    BY <1>1, LeadingNat
<1>4. Leading(n, 18) \in Nat
    BY <1>1, LeadingNat
<1> QED
    BY <1>2, <1>3, <1>4

(* The logarithm grows wherever the program can compute it.                *)
LEMMA LogGrows ==
    ASSUME NEW m \in Nat, NEW n \in Nat, m <= n, Leading(n, 18) < 10
    PROVE  integer_log10_bps(m) <= integer_log10_bps(n)
<1>1. CASE m = 0
    BY <1>1, LogNat DEF integer_log10_bps
<1>2. CASE m # 0
    <2>1. m \in Nat \ {0} /\ n \in Nat \ {0}
        BY <1>2
    <2>2. Leading(m, 18) < 10
        BY LeadingSmall
    <2> DEFINE k == FloorLog10(m)
               l == FloorLog10(n)
               x == TwoDigits(m)
               y == TwoDigits(n)
    <2>3. k \in 0..19 /\ Leading(m, k) \in 1..9
        BY <2>1, <2>2, FloorLog10Is
    <2>4. l \in 0..19 /\ Leading(n, l) \in 1..9
        BY <2>1, FloorLog10Is
    <2>5. x \in 10..99 /\ integer_log10_bps(m) = k * 10000 + MantissaTable[x - 9]
        BY <2>1, <2>2, LogIs
    <2>6. y \in 10..99 /\ integer_log10_bps(n) = l * 10000 + MantissaTable[y - 9]
        BY <2>1, LogIs
    <2>7. /\ x = (IF k = 0 THEN 10 * m ELSE Leading(m, k - 1))
          /\ y = (IF l = 0 THEN 10 * n ELSE Leading(n, l - 1))
        BY DEF TwoDigits
    <2> HIDE DEF k, l, x, y
    <2>8. ~ (l < k)
        <3>1. Leading(m, k) <= Leading(n, k)
            BY <2>3, LeadingGrows
        <3>2. l < k => Leading(n, k) <= Leading(n, l) \div 10
            BY <2>3, <2>4, LeadingFalls
        <3>3. Leading(n, k) \in Nat
            BY <2>3, LeadingNat
        <3> QED
            BY <2>3, <2>4, <3>1, <3>2, <3>3
    <2>9. x - 9 \in 1..90 /\ y - 9 \in 1..90
        BY <2>5, <2>6
    <2> DEFINE p == MantissaTable[x - 9]
               q == MantissaTable[y - 9]
    <2>10. p \in Nat /\ p <= 9956
        BY <2>9, MantissaNat, TableBound
    <2>11. q \in Nat
        BY <2>9, MantissaNat
    <2>12. k = l => p <= q
        <3> SUFFICES ASSUME k = l PROVE p <= q
            OBVIOUS
        <3>1. x <= y
            <4>1. CASE k = 0
                BY <2>7, <4>1
            <4>2. CASE k # 0
                <5>1. k - 1 \in 0..19
                    BY <2>3, <4>2
                <5>2. Leading(m, k - 1) <= Leading(n, k - 1)
                    BY <5>1, LeadingGrows
                <5> QED
                    BY <2>7, <4>2, <5>2
            <4> QED
                BY <4>1, <4>2
        <3>2. x - 9 <= y - 9
            BY <2>5, <2>6, <3>1
        <3> QED
            BY <2>9, <3>2, TableGrows
    <2> HIDE DEF p, q
    <2>13. k * 10000 + p <= l * 10000 + q
        BY <2>3, <2>4, <2>8, <2>10, <2>11, <2>12
    <2> QED
        BY <2>5, <2>6, <2>13 DEF p, q
<1> QED
    BY <1>1, <1>2

LEMMA LeadingTenfold ==
    ASSUME NEW n \in Nat, NEW j \in 0..18
    PROVE  Leading(10 * n, j + 1) = Leading(n, j)
<1> DEFINE Right(k) == Leading(10 * n, k + 1) = Leading(n, k)
           Wrong == {k \in 0..18 : ~ Right(k)}
<1> SUFFICES ASSUME ~ Right(j) PROVE FALSE
    OBVIOUS
<1>1. Wrong \in SUBSET Nat /\ Wrong # {}
    OBVIOUS
<1>2. PICK k \in Wrong : \A l \in Wrong : k <= l
    <2> HIDE DEF Wrong
    <2> QED
        BY <1>1, LeastNumber
<1>3. k \in 0..18 /\ ~ Right(k)
    OBVIOUS
<1>4. k # 0
    <2>1. Leading(10 * n, 1) = n /\ Leading(n, 0) = n
        BY PowersOfTen DEF Leading
    <2>2. 0 + 1 = 1
        OBVIOUS
    <2> QED
        BY <1>3, <2>1, <2>2
<1>5. k - 1 \in 0..18 /\ (k - 1) + 1 = k /\ 10 * n \in Nat
    BY <1>3, <1>4
<1>6. Right(k - 1)
    <2>1. k - 1 \notin Wrong
        BY <1>2, <1>3
    <2> QED
        BY <1>5, <2>1
<1>7. Leading(10 * n, k) = Leading(n, k - 1)
    BY <1>5, <1>6
<1>8. Leading(n, k) = Leading(n, k - 1) \div 10
    BY <1>5, LeadingStep
<1>9. Leading(10 * n, k + 1) = Leading(10 * n, k) \div 10
    BY <1>3, <1>5, LeadingStep
<1> QED
    BY <1>3, <1>7, <1>8, <1>9

(* Wherever the program can compute it, the logarithm grows with its
   argument, and ten times the argument adds exactly 10000 (identity.rs,
   integer_log10_bps).                                                     *)
THEOREM LogOrdersAndScales ==
    ASSUME NEW m \in Nat, NEW n \in Nat, Leading(10 * n, 18) < 10
    PROVE  /\ m <= n => integer_log10_bps(m) <= integer_log10_bps(n)
           /\ n # 0 => integer_log10_bps(10 * n) = integer_log10_bps(n) + 10000
<1> DEFINE ten == 10 * n
           k == FloorLog10(n)
           x == TwoDigits(n)
           y == TwoDigits(ten)
<1>1. ten \in Nat /\ n <= ten /\ (n # 0 => ten # 0)
    OBVIOUS
<1>2. Leading(n, 18) < 10
    BY <1>1, LeadingSmall
<1>3. m <= n => integer_log10_bps(m) <= integer_log10_bps(n)
    BY <1>2, LogGrows
<1>4. ASSUME n # 0 PROVE integer_log10_bps(ten) = integer_log10_bps(n) + 10000
    <2>1. k \in 0..19 /\ Leading(n, k) \in 1..9
        BY <1>2, <1>4, FloorLog10Is
    <2>2. k <= 17
        <3>1. \A i \in 0..19 : i < k => Leading(n, k) <= Leading(n, i) \div 10
            BY <2>1, LeadingFalls
        <3>2. 17 \in 0..19 /\ 17 \in 0..18
            OBVIOUS
        <3>3. Leading(ten, 18) = Leading(n, 17)
            BY <3>2, LeadingTenfold
        <3>4. Leading(n, 17) \in Nat
            BY <3>2, LeadingNat
        <3>5. 17 < k => Leading(n, k) <= Leading(n, 17) \div 10
            BY <3>1, <3>2
        <3> HIDE DEF k, ten
        <3> QED
            BY <2>1, <3>3, <3>4, <3>5 DEF ten
    <2>3. Leading(ten, k + 1) = Leading(n, k)
        BY <2>1, <2>2, LeadingTenfold
    <2>4. FloorLog10(ten) = k + 1
        <3>1. k + 1 \in 0..19
            BY <2>1, <2>2
        <3> HIDE DEF k, ten
        <3> QED
            BY <1>1, <2>1, <2>3, <3>1, FloorLog10Only
    <2>5. x = (IF k = 0 THEN 10 * n ELSE Leading(n, k - 1))
        BY DEF TwoDigits
    <2>6. y = (IF FloorLog10(ten) = 0 THEN 10 * ten ELSE Leading(ten, FloorLog10(ten) - 1))
        BY DEF TwoDigits
    <2>7. x \in 10..99 /\ integer_log10_bps(n) = k * 10000 + MantissaTable[x - 9]
        BY <1>2, <1>4, LogIs
    <2>8. y \in 10..99 /\ integer_log10_bps(ten) = FloorLog10(ten) * 10000 + MantissaTable[y - 9]
        BY <1>1, <1>4, LogIs
    <2>9. x = y
        <3>1. y = Leading(ten, k)
            <4> HIDE DEF k, y, ten
            <4> QED
                BY <2>1, <2>4, <2>6
        <3>2. CASE k = 0
            <4>1. Leading(ten, 0) = ten
                BY <1>1, PowersOfTen DEF Leading
            <4> HIDE DEF k, x, y
            <4> QED
                BY <2>5, <3>1, <3>2, <4>1
        <3>3. CASE k # 0
            <4>1. k - 1 \in 0..18 /\ (k - 1) + 1 = k
                BY <2>1, <2>2, <3>3
            <4>2. Leading(ten, (k - 1) + 1) = Leading(n, k - 1)
                BY <4>1, LeadingTenfold
            <4> HIDE DEF k, x, y, ten
            <4> QED
                BY <2>5, <3>1, <3>3, <4>1, <4>2
        <3> QED
            BY <3>2, <3>3
    <2> DEFINE mantissa == MantissaTable[x - 9]
    <2>10. mantissa \in Nat
        <3> HIDE DEF x
        <3>1. x - 9 \in 1..90
            BY <2>7
        <3> QED
            BY <3>1, MantissaNat
    <2>11. /\ integer_log10_bps(n) = k * 10000 + mantissa
           /\ integer_log10_bps(ten) = (k + 1) * 10000 + mantissa
        BY <2>4, <2>7, <2>8, <2>9
    <2> HIDE DEF k, mantissa, x, y, ten
    <2> QED
        BY <2>1, <2>10, <2>11
<1> QED
    BY <1>3, <1>4

-----------------------------------------------------------------------------
(* A better record scores no less *)

(* b has done at least what a has, and has failed no more often.           *)
BetterRecord(a, b) ==
    /\ a.tasks_completed <= b.tasks_completed
    /\ a.volume_processed <= b.volume_processed /\ a.volume_sol <= b.volume_sol
    /\ a.total_deliveries <= b.total_deliveries
    /\ b.corrections_received <= a.corrections_received
    /\ b.disputes_lost <= a.disputes_lost
    /\ b.tasks_abandoned <= a.tasks_abandoned
    /\ b.dispute_friction_total <= a.dispute_friction_total
    /\ b.registered_at <= a.registered_at
    /\ a.last_task_completed_at <= b.last_task_completed_at
    /\ a.last_task_completed_at = 0 => b.last_task_completed_at = 0
    /\ a.sponsor_bonus > 0 => b.sponsor_bonus > 0
    /\ b.fraud_flags > 0 => a.fraud_flags > 0
    /\ a.is_hibernating => b.is_hibernating

LEMMA RatioGrows ==
    ASSUME NEW x \in Nat, NEW y \in Nat, x <= y, NEW c \in Nat \ {0}, NEW d \in Nat \ {0}, c <= d
    PROVE  Ratio(x, d) <= Ratio(y, c)
<1> DEFINE low == (x * 10000) \div d
           high == (y * 10000) \div c
<1>1. low \in Nat /\ high \in Nat /\ low <= high
    <2> DEFINE p == x * 10000
               q == y * 10000
    <2>1. p \in Nat /\ q \in Nat /\ p <= q
        OBVIOUS
    <2>2. low = p \div d /\ high = q \div c
        OBVIOUS
    <2> HIDE DEF p, q, low, high
    <2>3. p \div d <= q \div c
        BY <2>1, QuotientGrows
    <2> QED
        BY <2>1, <2>2, <2>3, DivNat
<1> HIDE DEF low, high
<1>2. Least(low, 10000) <= Least(high, 10000)
    BY <1>1 DEF Least
<1> QED
    BY <1>2 DEF Ratio, low, high

LEMMA VolumeGrows ==
    ASSUME NEW a, NEW b, Scored(a), Scored(b), NEW r \in Nat, NEW s \in Nat, r <= s,
           a.volume_processed <= b.volume_processed, a.volume_sol <= b.volume_sol
    PROVE  TotalVolume(a, r) \in Nat /\ TotalVolume(b, s) \in Nat
           /\ TotalVolume(a, r) <= TotalVolume(b, s)
<1>1. /\ a.volume_processed \in Nat /\ a.volume_sol \in Nat
      /\ b.volume_processed \in Nat /\ b.volume_sol \in Nat
    BY DEF Scored
<1>2. a.volume_sol * r <= b.volume_sol * s
    BY <1>1, ProductGrows
<1>3. a.volume_sol * r \in Nat /\ b.volume_sol * s \in Nat
    BY <1>1
<1> QED
    BY <1>1, <1>2, <1>3 DEF TotalVolume

(* Both factors that count digits grow with what they count.               *)
LEMMA LogFactorsGrow ==
    ASSUME NEW a, NEW b, Scored(a), Scored(b), NEW r \in Nat, NEW s \in Nat, r <= s,
           a.tasks_completed <= b.tasks_completed,
           a.volume_processed <= b.volume_processed, a.volume_sol <= b.volume_sol,
           Computable(b, s)
    PROVE  /\ Computable(a, r)
           /\ TaskFactor(a) <= TaskFactor(b) /\ VolumeFactor(a, r) <= VolumeFactor(b, s)
<1> DEFINE m == a.tasks_completed + 1
           n == b.tasks_completed + 1
           v == TotalVolume(a, r) + 1
           w == TotalVolume(b, s) + 1
<1>1. m \in Nat /\ n \in Nat /\ m <= n
    BY DEF Scored
<1>2. v \in Nat /\ w \in Nat /\ v <= w
    <2>1. /\ TotalVolume(a, r) \in Nat /\ TotalVolume(b, s) \in Nat
          /\ TotalVolume(a, r) <= TotalVolume(b, s)
        BY VolumeGrows
    <2> QED
        BY <2>1
<1>3. Leading(n, 18) < 10 /\ Leading(w, 18) < 10
    BY DEF Computable
<1> DEFINE lm == integer_log10_bps(m)
           ln == integer_log10_bps(n)
           lv == integer_log10_bps(v)
           lw == integer_log10_bps(w)
<1>4. /\ TaskFactor(a) = Least(lm \div 3, 10000) /\ TaskFactor(b) = Least(ln \div 3, 10000)
      /\ VolumeFactor(a, r) = Least(lv \div 6, 10000)
      /\ VolumeFactor(b, s) = Least(lw \div 6, 10000)
    BY DEF TaskFactor, VolumeFactor
<1>5. Computable(a, r) <=> Leading(m, 18) < 10 /\ Leading(v, 18) < 10
    BY DEF Computable
<1> HIDE DEF m, n, v, w
<1>6. Leading(m, 18) < 10
    BY <1>1, <1>3, LeadingSmall
<1>7. Leading(v, 18) < 10
    BY <1>2, <1>3, LeadingSmall
<1>8. lm \in Nat /\ ln \in Nat
    BY <1>1, <1>3, <1>6, LogNat
<1>9. lv \in Nat /\ lw \in Nat
    BY <1>2, <1>3, <1>7, LogNat
<1>10. lm <= ln
    BY <1>1, <1>3, LogGrows
<1>11. lv <= lw
    BY <1>2, <1>3, LogGrows
<1> HIDE DEF lm, ln, lv, lw
<1>12. /\ Least(lm \div 3, 10000) <= Least(ln \div 3, 10000)
       /\ Least(lv \div 6, 10000) <= Least(lw \div 6, 10000)
    BY <1>8, <1>9, <1>10, <1>11 DEF Least
<1> QED
    BY <1>4, <1>5, <1>6, <1>7, <1>12

LEMMA MostGrows ==
    ASSUME NEW m \in Nat, NEW n \in Nat, m <= n
    PROVE  Most(m, 1) \in Nat \ {0} /\ Most(n, 1) \in Nat \ {0} /\ Most(m, 1) <= Most(n, 1)
BY DEF Most

LEMMA QualityGrows ==
    ASSUME NEW a, NEW b, Scored(a), Scored(b), BetterRecord(a, b)
    PROVE  QualityFactor(a) <= QualityFactor(b)
<1> DEFINE ca == Ratio(a.corrections_received, Most(a.total_deliveries, 1))
           cb == Ratio(b.corrections_received, Most(b.total_deliveries, 1))
           la == Ratio(a.disputes_lost, Most(a.tasks_completed, 1))
           lb == Ratio(b.disputes_lost, Most(b.tasks_completed, 1))
           ra == Ratio(a.tasks_completed, 20)
           rb == Ratio(b.tasks_completed, 20)
           ga == Monus(10000, 2 * ca + 5 * la)
           gb == Monus(10000, 2 * cb + 5 * lb)
<1>1. /\ a.tasks_completed \in Nat /\ b.tasks_completed \in Nat
      /\ a.total_deliveries \in Nat /\ b.total_deliveries \in Nat
      /\ a.corrections_received \in Nat /\ b.corrections_received \in Nat
      /\ a.disputes_lost \in Nat /\ b.disputes_lost \in Nat
    BY DEF Scored
<1>2. /\ a.tasks_completed <= b.tasks_completed /\ a.total_deliveries <= b.total_deliveries
      /\ b.corrections_received <= a.corrections_received /\ b.disputes_lost <= a.disputes_lost
    BY DEF BetterRecord
<1>3. /\ Most(a.total_deliveries, 1) \in Nat \ {0} /\ Most(b.total_deliveries, 1) \in Nat \ {0}
      /\ Most(a.total_deliveries, 1) <= Most(b.total_deliveries, 1)
    BY <1>1, <1>2, MostGrows
<1>4. /\ Most(a.tasks_completed, 1) \in Nat \ {0} /\ Most(b.tasks_completed, 1) \in Nat \ {0}
      /\ Most(a.tasks_completed, 1) <= Most(b.tasks_completed, 1)
    BY <1>1, <1>2, MostGrows
<1>5. cb <= ca
    BY <1>1, <1>2, <1>3, RatioGrows
<1>6. lb <= la
    BY <1>1, <1>2, <1>4, RatioGrows
<1>7. ra <= rb
    <2>1. 20 \in Nat \ {0} /\ 20 <= 20
        OBVIOUS
    <2> QED
        BY <1>1, <1>2, <2>1, RatioGrows
<1>8. InBps(ca) /\ InBps(cb) /\ InBps(la) /\ InBps(lb)
    BY <1>1, <1>3, <1>4, RatioInBps
<1>9. InBps(ra) /\ InBps(rb)
    <2>1. 20 \in Nat \ {0}
        OBVIOUS
    <2> QED
        BY <1>1, <2>1, RatioInBps
<1>10. QualityFactor(a) = (ga * ra) \div 10000 /\ QualityFactor(b) = (gb * rb) \div 10000
    BY DEF QualityFactor, Ratio
<1> HIDE DEF ca, cb, la, lb, ra, rb
<1>11. ga \in Nat /\ gb \in Nat /\ ga <= gb /\ ra \in Nat /\ rb \in Nat
    BY <1>5, <1>6, <1>8, <1>9 DEF Monus, InBps
<1> HIDE DEF ga, gb
<1> DEFINE x == ga * ra
           y == gb * rb
<1>12. x \in Nat /\ y \in Nat
    BY <1>11
<1>13. x <= y
    BY <1>7, <1>11, ProductGrows
<1> HIDE DEF x, y
<1>14. x \div 10000 <= y \div 10000
    BY <1>12, <1>13
<1> QED
    BY <1>10, <1>14 DEF x, y

LEMMA AgeGrows ==
    ASSUME NEW a, NEW b, Scored(a), Scored(b), NEW t \in Nat, b.registered_at <= a.registered_at
    PROVE  AgeFactor(a, t) <= AgeFactor(b, t)
<1> DEFINE x == Most(t - a.registered_at, 0)
           y == Most(t - b.registered_at, 0)
<1>1. x \in Nat /\ y \in Nat /\ x <= y
    BY DEF Scored, Most
<1>2. AgeFactor(a, t) = Ratio(x, 24) /\ AgeFactor(b, t) = Ratio(y, 24)
    BY DEF AgeFactor, Ratio
<1>3. 24 \in Nat \ {0} /\ 24 <= 24
    OBVIOUS
<1> HIDE DEF x, y
<1> QED
    BY <1>1, <1>2, <1>3, RatioGrows

LEMMA PenaltyFalls ==
    ASSUME NEW a, NEW b, Scored(a), Scored(b), BetterRecord(a, b)
    PROVE  Penalty(a) \in Nat /\ Penalty(b) \in Nat /\ Penalty(b) <= Penalty(a)
<1> DEFINE ta == Most(a.tasks_completed, 1)
           tb == Most(b.tasks_completed, 1)
           da == 50 * a.disputes_lost
           db == 50 * b.disputes_lost
           aa == 150 * a.tasks_abandoned
           ab == 150 * b.tasks_abandoned
<1>1. /\ a.tasks_completed \in Nat /\ b.tasks_completed \in Nat
      /\ a.disputes_lost \in Nat /\ b.disputes_lost \in Nat
      /\ a.tasks_abandoned \in Nat /\ b.tasks_abandoned \in Nat
      /\ a.dispute_friction_total \in Nat /\ b.dispute_friction_total \in Nat
    BY DEF Scored
<1>2. /\ a.tasks_completed <= b.tasks_completed /\ b.disputes_lost <= a.disputes_lost
      /\ b.tasks_abandoned <= a.tasks_abandoned
      /\ b.dispute_friction_total <= a.dispute_friction_total
    BY DEF BetterRecord
<1>3. ta \in Nat \ {0} /\ tb \in Nat \ {0} /\ ta <= tb
    BY <1>1, <1>2, MostGrows
<1>4. /\ da \in Nat /\ db \in Nat /\ db <= da
      /\ aa \in Nat /\ ab \in Nat /\ ab <= aa
    BY <1>1, <1>2
<1> DEFINE fa == a.dispute_friction_total \div 2
           fb == b.dispute_friction_total \div 2
           qda == da \div ta
           qdb == db \div tb
           qaa == aa \div ta
           qab == ab \div tb
<1>5. fa \in Nat /\ fb \in Nat /\ fb <= fa
    BY <1>1, <1>2
<1>6. Penalty(a) = qda + qaa + fa /\ Penalty(b) = qdb + qab + fb
    BY DEF Penalty
<1> HIDE DEF ta, tb, da, db, aa, ab
<1>7. qdb <= qda
    BY <1>3, <1>4, QuotientGrows
<1>8. qab <= qaa
    BY <1>3, <1>4, QuotientGrows
<1>9. qda \in Nat /\ qdb \in Nat /\ qaa \in Nat /\ qab \in Nat
    BY <1>3, <1>4, DivNat
<1> HIDE DEF fa, fb, qda, qdb, qaa, qab
<1> QED
    BY <1>5, <1>6, <1>7, <1>8, <1>9

Factors(a, t, rate) ==
    TaskFactor(a) * 30 + VolumeFactor(a, rate) * 20 + QualityFactor(a) * 25
    + AgeFactor(a, t) * 20 + SponsorFactor(a) * 5

(* Each factor is a share of its weight.                                   *)
LEMMA FactorsAre ==
    ASSUME NEW a, Scored(a), NEW t \in Nat, NEW rate \in Nat, Computable(a, rate)
    PROVE  /\ InBps(TaskFactor(a)) /\ InBps(VolumeFactor(a, rate))
           /\ InBps(QualityFactor(a)) /\ InBps(AgeFactor(a, t)) /\ InBps(SponsorFactor(a))
           /\ Factors(a, t, rate) \in Nat
<1>1. InBps(TaskFactor(a)) /\ InBps(VolumeFactor(a, rate))
    BY LogFactors
<1>2. InBps(QualityFactor(a)) /\ InBps(AgeFactor(a, t)) /\ InBps(SponsorFactor(a))
    BY QualityInBps, AgeInBps DEF SponsorFactor, InBps
<1> DEFINE task == TaskFactor(a)
           volume == VolumeFactor(a, rate)
           quality == QualityFactor(a)
           age == AgeFactor(a, t)
           sponsor == SponsorFactor(a)
<1>3. Factors(a, t, rate) = task * 30 + volume * 20 + quality * 25 + age * 20 + sponsor * 5
    BY DEF Factors
<1>4. task \in Nat /\ volume \in Nat /\ quality \in Nat /\ age \in Nat /\ sponsor \in Nat
    BY <1>1, <1>2 DEF InBps
<1> HIDE DEF task, volume, quality, age, sponsor
<1>5. Factors(a, t, rate) \in Nat
    BY <1>3, <1>4
<1> QED
    BY <1>1, <1>2, <1>5

LEMMA ScoreNat ==
    ASSUME NEW a, Scored(a), NEW t \in Nat, NEW rate \in Nat, Computable(a, rate)
    PROVE  calculate_trust_score(a, t, rate) \in 0..100
BY ScoreInRange

(* How far the score of b may fall below that of a: d points of the base
   and e of the decay.                                                     *)
LEMMA ScoreFalls ==
    ASSUME NEW a, NEW b, Scored(a), Scored(b), NEW t \in Nat, NEW r \in Nat, NEW s \in Nat,
           Computable(a, r), Computable(b, s), NEW d \in Nat, NEW e \in Nat,
           Factors(a, t, r) <= Factors(b, t, s) + 10000 * d,
           Penalty(a) \in Nat, Penalty(b) \in Nat, Penalty(b) <= Penalty(a),
           Decay(b, t) <= Decay(a, t) + e,
           b.fraud_flags > 0 => a.fraud_flags > 0,
           calculate_trust_score(b, t, s) \in 0..100
    PROVE  calculate_trust_score(a, t, r) <= calculate_trust_score(b, t, s) + d + e
<1> DEFINE sa == calculate_trust_score(a, t, r)
           sb == calculate_trust_score(b, t, s)
<1>1. sb \in 0..100
    OBVIOUS
<1>2. CASE a.fraud_flags > 0
    <2>1. sa = 0
        BY <1>2 DEF calculate_trust_score
    <2> HIDE DEF sa, sb
    <2> QED
        BY <1>1, <2>1 DEF sa, sb
<1>3. CASE ~ (a.fraud_flags > 0)
    <2> DEFINE fa == Factors(a, t, r)
               fb == Factors(b, t, s)
               pa == Penalty(a)
               pb == Penalty(b)
               da == Decay(a, t)
               db == Decay(b, t)
    <2>1. fa \in Nat /\ fb \in Nat
        BY FactorsAre
    <2>2. da \in Nat /\ db \in Nat
        BY DecayNat
    <2>3. fa <= fb + 10000 * d /\ pb <= pa /\ db <= da + e /\ pa \in Nat /\ pb \in Nat
        OBVIOUS
    <2>4. /\ sa = Monus(Monus(Least(fa \div 10000, 100), pa), da)
          /\ sb = Monus(Monus(Least(fb \div 10000, 100), pb), db)
        BY <1>3 DEF calculate_trust_score, BaseScore, Factors
    <2> HIDE DEF fa, fb, pa, pb, da, db, sa, sb
    <2>5. sa <= sb + d + e
        <3>1. fa \div 10000 <= fb \div 10000 + d
            BY <2>1, <2>3
        <3> DEFINE x == fa \div 10000
                   y == fb \div 10000
        <3>2. x \in Nat /\ y \in Nat
            BY <2>1
        <3> HIDE DEF x, y
        <3>3. x <= y + d
            BY <3>1 DEF x, y
        <3> DEFINE u == Least(x, 100)
                   v == Least(y, 100)
        <3>4. u \in Nat /\ v \in Nat /\ u <= v + d
            BY <3>2, <3>3 DEF Least
        <3>5. sa = Monus(Monus(u, pa), da) /\ sb = Monus(Monus(v, pb), db)
            BY <2>4 DEF x, y
        <3> HIDE DEF u, v
        <3> QED
            BY <2>2, <2>3, <3>4, <3>5 DEF Monus
    <2> QED
        BY <2>5 DEF sa, sb
<1> QED
    BY <1>2, <1>3

(* Whatever two accounts a and b, the one with the better record never has
   the lower score, at any time and at no lower a rate.                    *)
THEOREM BetterRecordScoresNoLess ==
    ASSUME NEW a, NEW b, Scored(a), Scored(b), BetterRecord(a, b),
           NEW t \in Nat, NEW r \in Nat, NEW s \in Nat, r <= s, Computable(b, s)
    PROVE  calculate_trust_score(a, t, r) <= calculate_trust_score(b, t, s)
<1>1. /\ a.tasks_completed <= b.tasks_completed /\ a.volume_processed <= b.volume_processed
      /\ a.volume_sol <= b.volume_sol /\ b.registered_at <= a.registered_at
      /\ b.fraud_flags > 0 => a.fraud_flags > 0
    BY DEF BetterRecord
<1>2. /\ Computable(a, r)
      /\ TaskFactor(a) <= TaskFactor(b) /\ VolumeFactor(a, r) <= VolumeFactor(b, s)
    BY <1>1, LogFactorsGrow
<1>3. QualityFactor(a) <= QualityFactor(b)
    BY QualityGrows
<1>4. AgeFactor(a, t) <= AgeFactor(b, t)
    BY <1>1, AgeGrows
<1>5. SponsorFactor(a) <= SponsorFactor(b)
    BY DEF SponsorFactor, BetterRecord
<1>6. Factors(a, t, r) <= Factors(b, t, s) + 10000 * 0
    <2> DEFINE ta == TaskFactor(a)
               tb == TaskFactor(b)
               va == VolumeFactor(a, r)
               vb == VolumeFactor(b, s)
               qa == QualityFactor(a)
               qb == QualityFactor(b)
               aa == AgeFactor(a, t)
               ab == AgeFactor(b, t)
               na == SponsorFactor(a)
               nb == SponsorFactor(b)
    <2>1. InBps(ta) /\ InBps(va) /\ InBps(qa) /\ InBps(aa) /\ InBps(na)
        BY <1>2, FactorsAre
    <2>2. InBps(tb) /\ InBps(vb) /\ InBps(qb) /\ InBps(ab) /\ InBps(nb)
        BY FactorsAre
    <2>3. /\ Factors(a, t, r) = ta * 30 + va * 20 + qa * 25 + aa * 20 + na * 5
          /\ Factors(b, t, s) = tb * 30 + vb * 20 + qb * 25 + ab * 20 + nb * 5
        BY DEF Factors
    <2>4. ta <= tb /\ va <= vb /\ qa <= qb /\ aa <= ab /\ na <= nb
        BY <1>2, <1>3, <1>4, <1>5
    <2> HIDE DEF ta, tb, va, vb, qa, qb, aa, ab, na, nb
    <2> QED
        BY <2>1, <2>2, <2>3, <2>4 DEF InBps
<1>7. Penalty(a) \in Nat /\ Penalty(b) \in Nat /\ Penalty(b) <= Penalty(a)
    BY PenaltyFalls
<1>8. Decay(b, t) <= Decay(a, t) + 0
    <2>1. a.last_task_completed_at \in Nat /\ b.last_task_completed_at \in Nat
        BY DEF Scored
    <2>2. /\ a.last_task_completed_at <= b.last_task_completed_at
          /\ a.last_task_completed_at = 0 => b.last_task_completed_at = 0
          /\ a.is_hibernating => b.is_hibernating
        BY DEF BetterRecord
    <2> DEFINE x == Most(t - a.last_task_completed_at, 0)
               y == Most(t - b.last_task_completed_at, 0)
    <2>3. x \in Nat /\ y \in Nat /\ y <= x
        BY <2>1, <2>2 DEF Most
    <2>4. /\ Decay(a, t) = IF a.last_task_completed_at = 0 THEN 0
                           ELSE Least(IF a.is_hibernating THEN x \div 2 ELSE x * 2, 40)
          /\ Decay(b, t) = IF b.last_task_completed_at = 0 THEN 0
                           ELSE Least(IF b.is_hibernating THEN y \div 2 ELSE y * 2, 40)
        BY DEF Decay
    <2> HIDE DEF x, y
    <2> QED
        BY <2>2, <2>3, <2>4 DEF Least
<1> DEFINE sa == calculate_trust_score(a, t, r)
           sb == calculate_trust_score(b, t, s)
<1>9. sb \in 0..100
    BY ScoreNat
<1>10. sa <= sb + 0 + 0
    BY <1>1, <1>2, <1>6, <1>7, <1>8, <1>9, ScoreFalls
<1> HIDE DEF sa, sb
<1>11. sa <= sb
    BY <1>9, <1>10
<1> QED
    BY <1>11 DEF sa, sb

-----------------------------------------------------------------------------
(* What a caller or an agent can add *)

(* Two accounts that only differ in sponsors and hibernation.              *)
SameWork(a, b) ==
    /\ a.tasks_completed = b.tasks_completed /\ a.volume_processed = b.volume_processed
    /\ a.volume_sol = b.volume_sol /\ a.total_deliveries = b.total_deliveries
    /\ a.corrections_received = b.corrections_received /\ a.disputes_lost = b.disputes_lost
    /\ a.tasks_abandoned = b.tasks_abandoned
    /\ a.dispute_friction_total = b.dispute_friction_total
    /\ a.registered_at = b.registered_at
    /\ a.last_task_completed_at = b.last_task_completed_at
    /\ a.fraud_flags = b.fraud_flags

LEMMA SameFactors ==
    ASSUME NEW a, NEW b, SameWork(a, b), Scored(a), NEW t, NEW rate
    PROVE  /\ TaskFactor(a) = TaskFactor(b) /\ VolumeFactor(a, rate) = VolumeFactor(b, rate)
           /\ QualityFactor(a) = QualityFactor(b) /\ AgeFactor(a, t) = AgeFactor(b, t)
           /\ Penalty(a) = Penalty(b) /\ Scored(b)
           /\ Computable(a, rate) <=> Computable(b, rate)
<1>1. /\ TaskFactor(a) = TaskFactor(b) /\ VolumeFactor(a, rate) = VolumeFactor(b, rate)
      /\ AgeFactor(a, t) = AgeFactor(b, t)
    BY DEF SameWork, TaskFactor, VolumeFactor, TotalVolume, AgeFactor
<1>2. QualityFactor(a) = QualityFactor(b) /\ Penalty(a) = Penalty(b)
    BY DEF SameWork, QualityFactor, Penalty
<1>3. Scored(b) /\ (Computable(a, rate) <=> Computable(b, rate))
    BY DEF SameWork, Scored, Computable, TotalVolume
<1> QED
    BY <1>1, <1>2, <1>3

(* The rate at which a caller converts the SOL volume of an account moves
   its score by no more than the 20 points of the volume factor.           *)
THEOREM RateMovesScoreLittle ==
    ASSUME NEW a, Scored(a), NEW t \in Nat, NEW r \in Nat, NEW s \in Nat, Computable(a, r),
           Computable(a, s)
    PROVE  calculate_trust_score(a, t, s) <= calculate_trust_score(a, t, r) + 20
<1>1. Factors(a, t, s) <= Factors(a, t, r) + 10000 * 20
    <2> DEFINE v == VolumeFactor(a, r)
               w == VolumeFactor(a, s)
               task == TaskFactor(a)
               quality == QualityFactor(a)
               age == AgeFactor(a, t)
               sponsor == SponsorFactor(a)
    <2>1. InBps(v) /\ InBps(task) /\ InBps(quality) /\ InBps(age) /\ InBps(sponsor)
        BY FactorsAre
    <2>2. InBps(w)
        BY FactorsAre
    <2>3. /\ Factors(a, t, r) = task * 30 + v * 20 + quality * 25 + age * 20 + sponsor * 5
          /\ Factors(a, t, s) = task * 30 + w * 20 + quality * 25 + age * 20 + sponsor * 5
        BY DEF Factors
    <2> HIDE DEF v, w, task, quality, age, sponsor
    <2> QED
        BY <2>1, <2>2, <2>3 DEF InBps
<1>2. Penalty(a) \in Nat /\ Penalty(a) <= Penalty(a)
    BY PenaltyNat
<1>3. Decay(a, t) \in Nat /\ Decay(a, t) <= Decay(a, t) + 0
    BY DecayNat
<1> DEFINE low == calculate_trust_score(a, t, r)
           high == calculate_trust_score(a, t, s)
<1>4. low \in 0..100
    BY ScoreNat
<1>5. high <= low + 20 + 0
    <2>1. 20 \in Nat /\ 0 \in Nat
        OBVIOUS
    <2> QED
        BY <1>1, <1>2, <1>3, <1>4, <2>1, ScoreFalls
<1> HIDE DEF low, high
<1>6. high <= low + 20
    BY <1>4, <1>5
<1> QED
    BY <1>6 DEF low, high

(* The decay of all months since the last task is weighed by whether the
   agent hibernates when the score is computed, not by when it began: what
   that gives back is never negative and at most 30 points.                *)
THEOREM HibernationSparesLittle ==
    ASSUME NEW a, NEW b, Scored(a), SameWork(a, b), a.sponsor_bonus = b.sponsor_bonus,
           b.is_hibernating, NEW t \in Nat, NEW rate \in Nat, Computable(a, rate)
    PROVE  /\ calculate_trust_score(a, t, rate) <= calculate_trust_score(b, t, rate)
           /\ calculate_trust_score(b, t, rate) <= calculate_trust_score(a, t, rate) + 30
<1>1. /\ TaskFactor(a) = TaskFactor(b) /\ VolumeFactor(a, rate) = VolumeFactor(b, rate)
      /\ QualityFactor(a) = QualityFactor(b) /\ AgeFactor(a, t) = AgeFactor(b, t)
      /\ Penalty(a) = Penalty(b) /\ Scored(b) /\ Computable(b, rate)
    BY SameFactors
<1>2. Factors(a, t, rate) = Factors(b, t, rate) /\ Factors(a, t, rate) \in Nat
    BY <1>1, FactorsAre DEF Factors, SponsorFactor
<1>3. /\ Penalty(a) \in Nat /\ Penalty(b) \in Nat
      /\ Penalty(a) <= Penalty(b) /\ Penalty(b) <= Penalty(a)
    BY <1>1, PenaltyNat
<1> DEFINE months == Most(t - a.last_task_completed_at, 0)
           da == Decay(a, t)
           db == Decay(b, t)
           sa == calculate_trust_score(a, t, rate)
           sb == calculate_trust_score(b, t, rate)
           fa == Factors(a, t, rate)
           fb == Factors(b, t, rate)
<1>4. db <= da + 0 /\ da <= db + 30
    <2>1. months \in Nat
        BY DEF Scored, Most
    <2>2. /\ da = IF a.last_task_completed_at = 0 THEN 0
                  ELSE Least(IF a.is_hibernating THEN months \div 2 ELSE months * 2, 40)
          /\ db = IF a.last_task_completed_at = 0 THEN 0 ELSE Least(months \div 2, 40)
        BY DEF Decay, SameWork
    <2> HIDE DEF months, da, db
    <2> QED
        BY <2>1, <2>2 DEF Least
<1>5. fa <= fb + 10000 * 0 /\ fb <= fa + 10000 * 0
    <2> HIDE DEF fa, fb
    <2> QED
        BY <1>2 DEF fa, fb
<1>6. a.fraud_flags > 0 <=> b.fraud_flags > 0
    BY DEF SameWork
<1>7. sa \in 0..100
    BY ScoreNat
<1>8. sb \in 0..100
    BY <1>1, ScoreNat
<1>9. 0 \in Nat /\ 30 \in Nat
    OBVIOUS
<1>10. sa <= sb + 0 + 0
    BY <1>1, <1>3, <1>4, <1>5, <1>6, <1>8, <1>9, ScoreFalls
<1>11. sb <= sa + 0 + 30
    BY <1>1, <1>3, <1>4, <1>5, <1>6, <1>7, <1>9, ScoreFalls
<1> HIDE DEF sa, sb
<1>12. sa <= sb /\ sb <= sa + 30
    BY <1>7, <1>8, <1>10, <1>11
<1> QED
    BY <1>12 DEF sa, sb

(* Sponsors add no more than 5 points, whatever bonus they gave.           *)
THEOREM SponsorsAddLittle ==
    ASSUME NEW a, NEW b, Scored(a), SameWork(a, b), a.is_hibernating = b.is_hibernating,
           NEW t \in Nat, NEW rate \in Nat, Computable(a, rate)
    PROVE  calculate_trust_score(b, t, rate) <= calculate_trust_score(a, t, rate) + 5
<1>1. /\ TaskFactor(a) = TaskFactor(b) /\ VolumeFactor(a, rate) = VolumeFactor(b, rate)
      /\ QualityFactor(a) = QualityFactor(b) /\ AgeFactor(a, t) = AgeFactor(b, t)
      /\ Penalty(a) = Penalty(b) /\ Scored(b) /\ Computable(b, rate)
    BY SameFactors
<1>2. Factors(b, t, rate) <= Factors(a, t, rate) + 10000 * 5
    <2> DEFINE rest == TaskFactor(a) * 30 + VolumeFactor(a, rate) * 20 + QualityFactor(a) * 25
                       + AgeFactor(a, t) * 20
               na == SponsorFactor(a)
               nb == SponsorFactor(b)
    <2>1. Factors(a, t, rate) = rest + na * 5 /\ Factors(b, t, rate) = rest + nb * 5
        BY <1>1 DEF Factors
    <2>2. rest \in Nat
        <3> DEFINE task == TaskFactor(a)
                   volume == VolumeFactor(a, rate)
                   quality == QualityFactor(a)
                   age == AgeFactor(a, t)
        <3>1. InBps(task) /\ InBps(volume) /\ InBps(quality) /\ InBps(age)
            BY FactorsAre
        <3> HIDE DEF task, volume, quality, age
        <3>2. task * 30 + volume * 20 + quality * 25 + age * 20 \in Nat
            BY <3>1 DEF InBps
        <3> QED
            BY <3>2 DEF task, volume, quality, age
    <2>3. na \in 0..10000 /\ nb \in 0..10000
        BY DEF SponsorFactor
    <2> HIDE DEF rest, na, nb
    <2> QED
        BY <2>1, <2>2, <2>3
<1>3. /\ Penalty(a) \in Nat /\ Penalty(b) \in Nat /\ Penalty(a) <= Penalty(b)
    BY <1>1, PenaltyNat
<1>4. Decay(a, t) <= Decay(b, t) + 0
    <2>1. Decay(a, t) = Decay(b, t)
        BY DEF Decay, SameWork
    <2>2. Decay(a, t) \in Nat
        BY DecayNat
    <2> QED
        BY <2>1, <2>2
<1>5. a.fraud_flags > 0 => b.fraud_flags > 0
    BY DEF SameWork
<1> DEFINE sa == calculate_trust_score(a, t, rate)
           sb == calculate_trust_score(b, t, rate)
<1>6. sa \in 0..100
    BY ScoreNat
<1>7. 0 \in Nat /\ 5 \in Nat
    OBVIOUS
<1>8. sb <= sa + 5 + 0
    BY <1>1, <1>2, <1>3, <1>4, <1>5, <1>6, <1>7, ScoreFalls
<1> HIDE DEF sa, sb
<1>9. sb <= sa + 5
    BY <1>6, <1>8
<1> QED
    BY <1>9 DEF sa, sb

-----------------------------------------------------------------------------
(* Trust is earned by work *)

LEMMA SmallLogs == integer_log10_bps(2) = 3010 /\ integer_log10_bps(12) = 10792
<1>1. integer_log10_bps(2) = 3010
    <2>1. Leading(2, 0) = 2
        BY PowersOfTen DEF Leading
    <2>2. FloorLog10(2) = 0
        BY <2>1, FloorLog10Only
    <2>3. MantissaTable[11] = 3010
        BY DEF MantissaTable
    <2> QED
        BY <2>2, <2>3 DEF integer_log10_bps
<1>2. integer_log10_bps(12) = 10792
    <2>1. Leading(12, 1) = 1 /\ Leading(12, 0) = 12
        BY PowersOfTen DEF Leading
    <2>2. FloorLog10(12) = 1
        BY <2>1, FloorLog10Only
    <2>3. MantissaTable[3] = 792
        BY DEF MantissaTable
    <2> QED
        BY <2>1, <2>2, <2>3 DEF integer_log10_bps
<1> QED
    BY <1>1, <1>2

LEMMA SmallComputable ==
    ASSUME NEW n \in Nat, n < 1000000000
    PROVE  Leading(n, 18) < 10
<1>1. n \div 10 ^ 9 = 0
    BY PowersOfTen
<1>2. Leading(n, 18) = (n \div 10 ^ 9) \div 10 ^ 9
    BY DEF Leading
<1> QED
    BY <1>1, <1>2, PowersOfTen

(* A task is worth 5% of the quality, at most.                             *)
LEMMA QualityNeedsTasks ==
    ASSUME NEW a, Scored(a)
    PROVE  QualityFactor(a) <= 500 * a.tasks_completed
<1> DEFINE corrections == Ratio(a.corrections_received, Most(a.total_deliveries, 1))
           losses == Ratio(a.disputes_lost, Most(a.tasks_completed, 1))
           tasks == a.tasks_completed
           ramp == Ratio(tasks, 20)
           good == Monus(10000, 2 * corrections + 5 * losses)
<1>1. /\ a.total_deliveries \in Nat /\ tasks \in Nat
      /\ a.corrections_received \in Nat /\ a.disputes_lost \in Nat
    BY DEF Scored
<1>2. Most(a.total_deliveries, 1) \in Nat \ {0} /\ Most(tasks, 1) \in Nat \ {0}
    BY <1>1 DEF Most
<1>3. InBps(corrections) /\ InBps(losses)
    BY <1>1, <1>2, RatioInBps
<1>4. QualityFactor(a) = (good * ramp) \div 10000
    BY DEF QualityFactor, Ratio
<1> HIDE DEF tasks
<1>5. ramp \in Nat /\ ramp <= 500 * tasks
    BY <1>1 DEF Ratio, Least
<1> HIDE DEF corrections, losses, ramp
<1>6. good \in Nat /\ good <= 10000
    BY <1>3 DEF Monus, InBps
<1> HIDE DEF good
<1> DEFINE product == good * ramp
<1>7. product \in Nat /\ product <= 10000 * ramp
    BY <1>5, <1>6
<1> HIDE DEF product
<1>8. product \div 10000 <= ramp
    BY <1>5, <1>7
<1>9. product \div 10000 <= 500 * tasks
    BY <1>1, <1>5, <1>7, <1>8
<1> QED
    BY <1>4, <1>9 DEF product, tasks

LEMMA TaskFactorBelow ==
    ASSUME NEW a, Scored(a), NEW n \in Nat, a.tasks_completed + 1 <= n, n < 1000000000,
           NEW l \in Nat, integer_log10_bps(n) = l
    PROVE  TaskFactor(a) <= l \div 3
<1> DEFINE m == a.tasks_completed + 1
           log == integer_log10_bps(m)
<1>1. m \in Nat /\ m <= n
    BY DEF Scored
<1>2. TaskFactor(a) = Least(log \div 3, 10000)
    BY DEF TaskFactor
<1> HIDE DEF m
<1>3. Leading(n, 18) < 10
    BY SmallComputable
<1>4. Leading(m, 18) < 10
    BY <1>1, <1>3, LeadingSmall
<1>5. log \in Nat
    BY <1>1, <1>4, LogNat
<1>6. log <= l
    BY <1>1, <1>3, LogGrows
<1> HIDE DEF log
<1> QED
    BY <1>2, <1>5, <1>6 DEF Least

(* A juror's 70 points take 12 completed tasks and a sponsor's 50 take 2.  *)
Earned(tasks, score) ==
    /\ score >= 70 => tasks >= 12
    /\ score >= 50 => tasks >= 2

(* Neither age nor volume nor sponsors make up for completed tasks, for any
   account, at any time and at any rate.                                   *)
THEOREM ScoreIsEarned ==
    ASSUME NEW a, Scored(a), NEW t \in Nat, NEW rate \in Nat,
           a.fraud_flags > 0 \/ Computable(a, rate)
    PROVE  Earned(a.tasks_completed, calculate_trust_score(a, t, rate))
<1> DEFINE score == calculate_trust_score(a, t, rate)
           tasks == a.tasks_completed
<1>1. CASE a.fraud_flags > 0
    BY <1>1 DEF calculate_trust_score, Earned
<1>2. CASE ~ (a.fraud_flags > 0)
    <2> DEFINE task == TaskFactor(a)
               volume == VolumeFactor(a, rate)
               quality == QualityFactor(a)
               age == AgeFactor(a, t)
               sponsor == SponsorFactor(a)
               factors == Factors(a, t, rate)
               penalty == Penalty(a)
               decay == Decay(a, t)
    <2>1. InBps(task) /\ InBps(volume) /\ InBps(quality) /\ InBps(age) /\ InBps(sponsor)
        BY <1>2, FactorsAre
    <2>2. factors = task * 30 + volume * 20 + quality * 25 + age * 20 + sponsor * 5
        BY DEF Factors
    <2>3. penalty \in Nat
        BY PenaltyNat
    <2>4. decay \in Nat
        BY DecayNat
    <2>5. score = Monus(Monus(Least(factors \div 10000, 100), penalty), decay)
        BY <1>2 DEF calculate_trust_score, BaseScore, Factors
    <2>6. quality <= 500 * tasks
        BY QualityNeedsTasks
    <2>7. tasks \in Nat
        BY DEF Scored
    <2>8. tasks + 1 <= 12 => task <= 10792 \div 3
        BY SmallLogs, TaskFactorBelow
    <2>9. tasks + 1 <= 2 => task <= 3010 \div 3
        BY SmallLogs, TaskFactorBelow
    <2> HIDE DEF task, volume, quality, age, sponsor, factors, penalty, decay, tasks, score
    <2>10. factors \in Nat
        BY <2>1, <2>2 DEF InBps
    <2>11. score <= factors \div 10000
        <3> DEFINE base == factors \div 10000
        <3>1. base \in Nat
            BY <2>10
        <3> HIDE DEF base
        <3>2. score <= base
            BY <2>3, <2>4, <2>5, <3>1 DEF Monus, Least, base
        <3> QED
            BY <3>2 DEF base
    <2>12. score \in Nat
        BY <2>3, <2>4, <2>5, <2>10 DEF Monus, Least
    <2>13. score >= 70 => tasks >= 12
        <3> SUFFICES ASSUME tasks < 12 PROVE score < 70
            BY <2>7, <2>12
        <3>1. task <= 3597 /\ quality <= 5500
            BY <2>1, <2>6, <2>7, <2>8 DEF InBps
        <3>2. factors <= 695410
            BY <2>1, <2>2, <3>1 DEF InBps
        <3> QED
            BY <2>10, <2>11, <2>12, <3>2
    <2>14. score >= 50 => tasks >= 2
        <3> SUFFICES ASSUME tasks < 2 PROVE score < 50
            BY <2>7, <2>12
        <3>1. task <= 1003 /\ quality <= 500
            BY <2>1, <2>6, <2>7, <2>9 DEF InBps
        <3>2. factors <= 492590
            BY <2>1, <2>2, <3>1 DEF InBps
        <3> QED
            BY <2>10, <2>11, <2>12, <3>2
    <2>15. Earned(tasks, score)
        BY <2>13, <2>14 DEF Earned
    <2> QED
        BY <2>15 DEF tasks, score
<1> QED
    BY <1>1, <1>2

-----------------------------------------------------------------------------
(* What every step keeps *)

Bonded == [a \in Agents |-> agents[a].identity_bond]

VaultType == [mint : Mints \cup {"none"}, balance : Nat]

(* What the vaults hold and what left them, but for what is no bond. *)
Held == vaults[1].balance + vaults[2].balance + forgiven + claimed - received

(* The sum of the bonds as a fold over a function. *)
BondsAddUp == Held = SumOf(Bonded, Agents)

(* What a step may do to the vaults, unless an agent registers. *)
TreasuryKept ==
    /\ vaults' \in [1..2 -> VaultType]
    /\ forgiven' \in Nat /\ claimed' \in Nat /\ received' \in Nat
    /\ Held' = Held

(* An agent that has not registered has done nothing, and one that has not
   matured has no work, no proposal and no completed task.                 *)
Beginner(a) ==
    /\ agents[a].registered_at = 0 => agents[a] = Unregistered
    /\ ~ agents[a].matured =>
          agents[a].tasks_completed = 0 /\ agents[a].active_contracts = 0 /\ proposed[a] = 0

(* No agent keeps a score that its completed tasks do not account for.     *)
TrustIsEarned ==
    \A a \in Agents : Earned(agents[a].tasks_completed, agents[a].trust_score)

IdentityInv ==
    /\ IdentityTypeOK /\ BondsAddUp
    /\ \A a \in Agents : Beginner(a)
    /\ TrustIsEarned

(* What a step of a registered agent may do to it, whichever step it is.   *)
MayBecome(a, k) ==
    /\ k \in AgentIdentity
    /\ agents' = [agents EXCEPT ![a] = k]
    /\ k.registered_at # 0 /\ k.identity_bond = agents[a].identity_bond
    /\ ~ k.matured => k.tasks_completed = 0 /\ k.active_contracts = 0 /\ proposed'[a] = 0
    /\ agents[a].fraud_flags > 0 =>
          k.trust_score <= agents[a].trust_score /\ k.fraud_flags > 0
    /\ agents[a].is_hibernating =>
          k.active_contracts + proposed'[a] <= agents[a].active_contracts + proposed[a]
    /\ Earned(agents[a].tasks_completed, agents[a].trust_score) =>
          Earned(k.tasks_completed, k.trust_score)
    /\ proposed' \in [Agents -> 0..MaxProposals]
    /\ \A b \in Agents \ {a} : proposed'[b] = proposed[b]
    /\ rested' \subseteq Agents /\ TreasuryKept /\ UNCHANGED <<now, parameters>>

Steps(a) == \E k : MayBecome(a, k)

(* What the invariant says of one agent. *)
LEMMA OneAgent ==
    ASSUME IdentityInv, NEW a \in Agents
    PROVE  /\ agents \in [Agents -> AgentIdentity] /\ agents[a] \in AgentIdentity
           /\ agents[a] = Unregistered \/ agents[a].registered_at # 0
           /\ ~ agents[a].matured => /\ agents[a].tasks_completed = 0
                                     /\ agents[a].active_contracts = 0
                                     /\ proposed[a] = 0
           /\ proposed \in [Agents -> 0..MaxProposals] /\ proposed[a] \in 0..MaxProposals
           /\ rested \subseteq Agents /\ MaxProposals \in Nat /\ now \in Nat \ {0}
<1>1. MaxProposals \in Nat /\ MaxTime \in Nat
    BY IdentityAssumption
<1> QED
    BY <1>1 DEF IdentityInv, IdentityTypeOK, Beginner

(* An agent that has done something has registered. *)
LEMMA ActiveRegistered ==
    ASSUME IdentityInv, NEW a \in Agents,
           \/ agents[a].matured \/ agents[a].is_hibernating \/ agents[a].active_contracts > 0
           \/ agents[a].tasks_completed > 0 \/ proposed[a] > 0
    PROVE  agents[a].registered_at # 0
<1>1. agents[a] = Unregistered => ~ agents[a].matured
    BY DEF Unregistered
<1>2. agents[a] = Unregistered =>
          /\ ~ agents[a].is_hibernating /\ agents[a].active_contracts = 0
          /\ agents[a].tasks_completed = 0
    BY DEF Unregistered
<1> QED
    BY <1>1, <1>2, OneAgent

LEMMA VaultTypes ==
    ASSUME IdentityInv
    PROVE  /\ vaults \in [1..2 -> VaultType]
           /\ forgiven \in Nat /\ claimed \in Nat /\ received \in Nat
           /\ \A v \in 1..2 : vaults[v] \in VaultType /\ vaults[v].balance \in Nat
BY DEF IdentityInv, IdentityTypeOK, VaultType

LEMMA TreasuryStays ==
    ASSUME IdentityInv, UNCHANGED treasury
    PROVE  TreasuryKept
<1>1. vaults' = vaults /\ forgiven' = forgiven /\ claimed' = claimed /\ received' = received
    BY DEF treasury
<1> QED
    BY <1>1, VaultTypes DEF TreasuryKept, Held

(* A step that leaves proposals alone. *)
LEMMA ProposalsStay ==
    ASSUME IdentityInv, NEW a \in Agents, NEW k \in AgentIdentity,
           agents' = [agents EXCEPT ![a] = k],
           k.registered_at # 0, k.identity_bond = agents[a].identity_bond,
           ~ k.matured => k.tasks_completed = 0 /\ k.active_contracts = 0 /\ proposed[a] = 0,
           agents[a].fraud_flags > 0 =>
               k.trust_score <= agents[a].trust_score /\ k.fraud_flags > 0,
           agents[a].is_hibernating => k.active_contracts <= agents[a].active_contracts,
           Earned(agents[a].tasks_completed, agents[a].trust_score) =>
               Earned(k.tasks_completed, k.trust_score),
           TreasuryKept, UNCHANGED <<now, parameters, proposed>>, rested' \subseteq Agents
    PROVE  Steps(a)
<1> DEFINE work == k.active_contracts
           before == agents[a].active_contracts
           asked == proposed[a]
<1>1. work \in Nat /\ before \in Nat /\ asked \in Nat
    BY OneAgent DEF AgentIdentity
<1>2. work <= before => work + asked <= before + asked
    <2> HIDE DEF work, before, asked
    <2> QED
        BY <1>1
<1>3. proposed' \in [Agents -> 0..MaxProposals]
    BY OneAgent
<1> QED
    BY <1>2, <1>3 DEF Steps, MayBecome

(* And one that leaves the vaults alone as well. *)
LEMMA AccountMoves ==
    ASSUME IdentityInv, NEW a \in Agents, NEW k \in AgentIdentity,
           agents' = [agents EXCEPT ![a] = k],
           k.registered_at # 0, k.identity_bond = agents[a].identity_bond,
           ~ k.matured => k.tasks_completed = 0 /\ k.active_contracts = 0 /\ proposed[a] = 0,
           agents[a].fraud_flags > 0 =>
               k.trust_score <= agents[a].trust_score /\ k.fraud_flags > 0,
           agents[a].is_hibernating => k.active_contracts <= agents[a].active_contracts,
           Earned(agents[a].tasks_completed, agents[a].trust_score) =>
               Earned(k.tasks_completed, k.trust_score),
           UNCHANGED <<now, parameters, treasury, proposed>>, rested' \subseteq Agents
    PROVE  Steps(a)
<1>1. TreasuryKept
    BY TreasuryStays
<1> QED
    BY <1>1, ProposalsStay

LEMMA SponsorMoves ==
    ASSUME IdentityInv, NEW a \in Agents, NEW s \in Agents, SponsorAgent(s, a, 9)
    PROVE  Steps(a)
<1> DEFINE old == agents[a]
           k == [old EXCEPT !.sponsor_bonus = @ + 5]
<1>1. agents \in [Agents -> AgentIdentity] /\ old \in AgentIdentity
    BY OneAgent
<1>2. agents' = [agents EXCEPT ![a] = k]
    BY <1>1 DEF SponsorAgent
<1>3. old.registered_at # 0
    BY DEF SponsorAgent, IsRegistered
<1>4. ~ old.matured => old.tasks_completed = 0 /\ old.active_contracts = 0 /\ proposed[a] = 0
    BY OneAgent
<1>5. UNCHANGED <<now, parameters, treasury, proposed>> /\ rested' \subseteq Agents
    BY OneAgent DEF SponsorAgent
<1> HIDE DEF old
<1>6. k \in AgentIdentity /\ k.registered_at # 0 /\ k.identity_bond = old.identity_bond
    BY <1>1, <1>3 DEF AgentIdentity
<1>7. /\ ~ k.matured => k.tasks_completed = 0 /\ k.active_contracts = 0 /\ proposed[a] = 0
      /\ old.fraud_flags > 0 => k.trust_score <= old.trust_score /\ k.fraud_flags > 0
      /\ old.is_hibernating => k.active_contracts <= old.active_contracts
      /\ Earned(old.tasks_completed, old.trust_score) =>
            Earned(k.tasks_completed, k.trust_score)
    BY <1>1, <1>4 DEF AgentIdentity
<1> HIDE DEF k
<1> QED
    BY <1>2, <1>5, <1>6, <1>7, AccountMoves DEF old

LEMMA ForceMatureMoves ==
    ASSUME IdentityInv, NEW a \in Agents, ForceMature(a)
    PROVE  Steps(a)
<1> DEFINE old == agents[a]
           k == [old EXCEPT !.matured = TRUE]
<1>1. agents \in [Agents -> AgentIdentity] /\ old \in AgentIdentity
    BY OneAgent
<1>2. agents' = [agents EXCEPT ![a] = k]
    BY <1>1 DEF ForceMature
<1>3. old.registered_at # 0
    BY DEF ForceMature, IsRegistered
<1>4. ~ old.matured => old.tasks_completed = 0 /\ old.active_contracts = 0 /\ proposed[a] = 0
    BY OneAgent
<1>5. UNCHANGED <<now, parameters, treasury, proposed>> /\ rested' \subseteq Agents
    BY OneAgent DEF ForceMature
<1> HIDE DEF old
<1>6. k \in AgentIdentity /\ k.registered_at # 0 /\ k.identity_bond = old.identity_bond
    BY <1>1, <1>3 DEF AgentIdentity
<1>7. /\ ~ k.matured => k.tasks_completed = 0 /\ k.active_contracts = 0 /\ proposed[a] = 0
      /\ old.fraud_flags > 0 => k.trust_score <= old.trust_score /\ k.fraud_flags > 0
      /\ old.is_hibernating => k.active_contracts <= old.active_contracts
      /\ Earned(old.tasks_completed, old.trust_score) =>
            Earned(k.tasks_completed, k.trust_score)
    BY <1>1, <1>4 DEF AgentIdentity
<1> HIDE DEF k
<1> QED
    BY <1>2, <1>5, <1>6, <1>7, AccountMoves DEF old

LEMMA ScoreMoves ==
    ASSUME IdentityInv, NEW a \in Agents, NEW rate \in Rates, CalculateTrustScore(a, rate)
    PROVE  Steps(a)
<1> DEFINE old == agents[a]
           score == calculate_trust_score(old, now, rate)
           k == [old EXCEPT !.trust_score = score]
<1>1. agents \in [Agents -> AgentIdentity] /\ old \in AgentIdentity
    BY OneAgent
<1>2. agents' = [agents EXCEPT ![a] = k]
    BY <1>1 DEF CalculateTrustScore
<1>3. old.registered_at # 0
    BY DEF CalculateTrustScore, IsRegistered
<1>4. ~ old.matured => old.tasks_completed = 0 /\ old.active_contracts = 0 /\ proposed[a] = 0
    BY OneAgent
<1>5. UNCHANGED <<now, parameters, treasury, proposed>> /\ rested' \subseteq Agents
    BY OneAgent DEF CalculateTrustScore
<1>6. score \in 0..100 /\ Earned(old.tasks_completed, score)
    <2>1. ScoreIsComputable(old, rate)
        BY DEF CalculateTrustScore
    <2>2. rate \in Nat /\ now \in Nat
        BY OneAgent, IdentityAssumption
    <2>3. Scored(old) /\ (old.fraud_flags > 0 \/ Computable(old, rate))
        BY <1>1, <2>1, <2>2, IdentityScored
    <2> QED
        BY <2>2, <2>3, ScoreInRange, ScoreIsEarned
<1>7. old.fraud_flags > 0 => score = 0
    BY DEF calculate_trust_score
<1> HIDE DEF old, score
<1>8. k \in AgentIdentity /\ k.registered_at # 0 /\ k.identity_bond = old.identity_bond
    BY <1>1, <1>3, <1>6 DEF AgentIdentity
<1>9. /\ ~ k.matured => k.tasks_completed = 0 /\ k.active_contracts = 0 /\ proposed[a] = 0
      /\ old.fraud_flags > 0 => k.trust_score <= old.trust_score /\ k.fraud_flags > 0
      /\ old.is_hibernating => k.active_contracts <= old.active_contracts
      /\ Earned(old.tasks_completed, old.trust_score) =>
            Earned(k.tasks_completed, k.trust_score)
    BY <1>1, <1>4, <1>6, <1>7 DEF AgentIdentity
<1> HIDE DEF k
<1> QED
    BY <1>2, <1>5, <1>8, <1>9, AccountMoves DEF old

LEMMA HibernateMoves ==
    ASSUME IdentityInv, NEW a \in Agents, NEW months \in HibernationMonths, Hibernate(a, months)
    PROVE  Steps(a)
<1> DEFINE old == agents[a]
           k == [old EXCEPT !.is_hibernating = TRUE, !.hibernation_ends_at = now + months,
                            !.tasks_since_last_hibernation = 0]
<1>1. agents \in [Agents -> AgentIdentity] /\ old \in AgentIdentity
    BY OneAgent
<1>2. agents' = [agents EXCEPT ![a] = k]
    BY <1>1 DEF Hibernate
<1>3. old.registered_at # 0
    BY DEF Hibernate, IsRegistered
<1>4. ~ old.matured => old.tasks_completed = 0 /\ old.active_contracts = 0 /\ proposed[a] = 0
    BY OneAgent
<1>5. UNCHANGED <<now, parameters, treasury, proposed>> /\ rested' \subseteq Agents
    BY OneAgent DEF Hibernate
<1>6. now + months \in Nat
    BY OneAgent, IdentityAssumption
<1> HIDE DEF old
<1>7. k \in AgentIdentity /\ k.registered_at # 0 /\ k.identity_bond = old.identity_bond
    BY <1>1, <1>3, <1>6 DEF AgentIdentity
<1>8. /\ ~ k.matured => k.tasks_completed = 0 /\ k.active_contracts = 0 /\ proposed[a] = 0
      /\ old.fraud_flags > 0 => k.trust_score <= old.trust_score /\ k.fraud_flags > 0
      /\ old.is_hibernating => k.active_contracts <= old.active_contracts
      /\ Earned(old.tasks_completed, old.trust_score) =>
            Earned(k.tasks_completed, k.trust_score)
    BY <1>1, <1>4 DEF AgentIdentity
<1> HIDE DEF k
<1> QED
    BY <1>2, <1>5, <1>7, <1>8, AccountMoves DEF old

LEMMA AwokenMoves ==
    ASSUME IdentityInv, NEW a \in Agents, WakeAgent(a) \/ ExpireHibernation(a)
    PROVE  Steps(a)
<1> DEFINE old == agents[a]
           k == [old EXCEPT !.is_hibernating = FALSE, !.hibernation_ends_at = 0]
<1>1. agents \in [Agents -> AgentIdentity] /\ old \in AgentIdentity
    BY OneAgent
<1>2. agents' = [agents EXCEPT ![a] = k]
    BY <1>1 DEF WakeAgent, ExpireHibernation, Awoken
<1>3. old.registered_at # 0
    BY ActiveRegistered DEF WakeAgent, ExpireHibernation
<1>4. ~ old.matured => old.tasks_completed = 0 /\ old.active_contracts = 0 /\ proposed[a] = 0
    BY OneAgent
<1>5. UNCHANGED <<now, parameters, treasury, proposed>> /\ rested' \subseteq Agents
    BY OneAgent DEF WakeAgent, ExpireHibernation, Awoken
<1> HIDE DEF old
<1>6. k \in AgentIdentity /\ k.registered_at # 0 /\ k.identity_bond = old.identity_bond
    BY <1>1, <1>3 DEF AgentIdentity
<1>7. /\ ~ k.matured => k.tasks_completed = 0 /\ k.active_contracts = 0 /\ proposed[a] = 0
      /\ old.fraud_flags > 0 => k.trust_score <= old.trust_score /\ k.fraud_flags > 0
      /\ old.is_hibernating => k.active_contracts <= old.active_contracts
      /\ Earned(old.tasks_completed, old.trust_score) =>
            Earned(k.tasks_completed, k.trust_score)
    BY <1>1, <1>4 DEF AgentIdentity
<1> HIDE DEF k
<1> QED
    BY <1>2, <1>5, <1>6, <1>7, AccountMoves DEF old

LEMMA CreateMoves ==
    ASSUME IdentityInv, NEW a \in Agents, Create(a)
    PROVE  Steps(a)
<1> DEFINE old == agents[a]
           k == [old EXCEPT !.active_contracts = @ + 1]
<1>1. agents \in [Agents -> AgentIdentity] /\ old \in AgentIdentity
    BY OneAgent
<1>2. agents' = [agents EXCEPT ![a] = k]
    BY <1>1 DEF Create, MayBeAsked
<1>3. old.registered_at # 0
    BY ActiveRegistered DEF Create, MayBeAsked
<1>4. old.matured
    BY <1>1, OneAgent DEF Create, MayBeAsked, AgentIdentity
<1>5. ~ old.is_hibernating
    BY DEF Create, MayBeAsked
<1>6. UNCHANGED <<now, parameters, treasury, proposed>> /\ rested' \subseteq Agents
    BY OneAgent DEF Create, MayBeAsked
<1> HIDE DEF old
<1>7. k \in AgentIdentity /\ k.registered_at # 0 /\ k.identity_bond = old.identity_bond
    BY <1>1, <1>3 DEF AgentIdentity
<1>8. /\ ~ k.matured => k.tasks_completed = 0 /\ k.active_contracts = 0 /\ proposed[a] = 0
      /\ old.fraud_flags > 0 => k.trust_score <= old.trust_score /\ k.fraud_flags > 0
      /\ old.is_hibernating => k.active_contracts <= old.active_contracts
      /\ Earned(old.tasks_completed, old.trust_score) =>
            Earned(k.tasks_completed, k.trust_score)
    BY <1>1, <1>4, <1>5 DEF AgentIdentity
<1> HIDE DEF k
<1> QED
    BY <1>2, <1>6, <1>7, <1>8, AccountMoves DEF old

LEMMA FinishMoves ==
    ASSUME IdentityInv, NEW a \in Agents, NEW currency \in Currencies,
           NEW rework \in Reworks, Finish(a, currency, rework)
    PROVE  Steps(a)
<1> DEFINE old == agents[a]
           completed == old.tasks_completed + 1
           deliveries == old.total_deliveries + 1 + rework.redeliveries
           corrections == old.corrections_received + rework.corrections
           friction == old.dispute_friction_total + rework.rounds
           date == now
           left == old.active_contracts - 1
           since == old.tasks_since_last_hibernation + 1
           sol == IF currency = "Sol" THEN old.volume_sol + ContractValue ELSE old.volume_sol
           volume == IF currency = "Sol" THEN old.volume_processed
                     ELSE old.volume_processed + ContractValue
           k == [old EXCEPT !.tasks_completed = completed,
                            !.total_deliveries = deliveries,
                            !.corrections_received = corrections,
                            !.dispute_friction_total = friction,
                            !.last_task_completed_at = date,
                            !.active_contracts = left,
                            !.tasks_since_last_hibernation = since,
                            !.volume_sol = sol,
                            !.volume_processed = volume]
<1>1. agents \in [Agents -> AgentIdentity] /\ old \in AgentIdentity
    BY OneAgent
<1>2. agents' = [agents EXCEPT ![a] = k]
    BY <1>1 DEF Finish
<1>3. old.registered_at # 0
    BY ActiveRegistered DEF Finish
<1>4. old.matured
    BY <1>1, OneAgent DEF Finish, AgentIdentity
<1>5. UNCHANGED <<now, parameters, treasury, proposed>> /\ rested' \subseteq Agents
    BY OneAgent DEF Finish
<1>6. old.active_contracts > 0
    BY DEF Finish
<1>7. rework \in [redeliveries : Nat, corrections : Nat, rounds : Nat]
          /\ ContractValue \in Nat /\ now \in Nat
    BY OneAgent, IdentityAssumption
<1>8. /\ {completed, deliveries, corrections, friction, date, left, since, sol,
          volume} \subseteq Nat
      /\ left \in Nat /\ left <= old.active_contracts
    BY <1>1, <1>6, <1>7 DEF AgentIdentity
<1>11. Earned(old.tasks_completed, old.trust_score) => Earned(completed, old.trust_score)
    BY <1>1 DEF Earned, AgentIdentity
<1> HIDE DEF completed, deliveries, corrections, friction, date, left, since, sol, volume
<1> HIDE DEF old
<1>9. k \in AgentIdentity /\ k.registered_at # 0 /\ k.identity_bond = old.identity_bond
    BY <1>1, <1>3, <1>8 DEF AgentIdentity
<1>10. /\ ~ k.matured => k.tasks_completed = 0 /\ k.active_contracts = 0 /\ proposed[a] = 0
       /\ old.fraud_flags > 0 => k.trust_score <= old.trust_score /\ k.fraud_flags > 0
       /\ old.is_hibernating => k.active_contracts <= old.active_contracts
       /\ Earned(old.tasks_completed, old.trust_score) =>
             Earned(k.tasks_completed, k.trust_score)
    BY <1>1, <1>4, <1>8, <1>11 DEF AgentIdentity
<1> HIDE DEF k
<1> QED
    BY <1>2, <1>5, <1>9, <1>10, AccountMoves DEF old

LEMMA DisputeMoves ==
    ASSUME IdentityInv, NEW a \in Agents, NEW losses \in 0..2,
           NEW rework \in Reworks, Dispute(a, losses, rework)
    PROVE  Steps(a)
<1> DEFINE old == agents[a]
           deliveries == old.total_deliveries + 1 + rework.redeliveries
           corrections == old.corrections_received + rework.corrections
           left == old.active_contracts - 1
           friction == old.dispute_friction_total + rework.rounds
           lost == old.disputes_lost + losses
           date == IF losses = 0 THEN now ELSE old.last_task_completed_at
           k == [old EXCEPT !.total_deliveries = deliveries,
                            !.corrections_received = corrections,
                            !.active_contracts = left,
                            !.dispute_friction_total = friction,
                            !.disputes_lost = lost,
                            !.last_task_completed_at = date]
<1>1. agents \in [Agents -> AgentIdentity] /\ old \in AgentIdentity
    BY OneAgent
<1>2. agents' = [agents EXCEPT ![a] = k]
    BY <1>1 DEF Dispute
<1>3. old.registered_at # 0
    BY ActiveRegistered DEF Dispute
<1>4. old.matured
    BY <1>1, OneAgent DEF Dispute, AgentIdentity
<1>5. UNCHANGED <<now, parameters, treasury, proposed>> /\ rested' \subseteq Agents
    BY OneAgent DEF Dispute
<1>6. old.active_contracts > 0
    BY DEF Dispute
<1>7. rework \in [redeliveries : Nat, corrections : Nat, rounds : Nat]
          /\ ContractValue \in Nat /\ now \in Nat
    BY OneAgent, IdentityAssumption
<1>8. /\ {deliveries, corrections, left, friction, lost, date} \subseteq Nat
      /\ left \in Nat /\ left <= old.active_contracts
    BY <1>1, <1>6, <1>7 DEF AgentIdentity
<1> HIDE DEF deliveries, corrections, left, friction, lost, date
<1> HIDE DEF old
<1>9. k \in AgentIdentity /\ k.registered_at # 0 /\ k.identity_bond = old.identity_bond
    BY <1>1, <1>3, <1>8 DEF AgentIdentity
<1>10. /\ ~ k.matured => k.tasks_completed = 0 /\ k.active_contracts = 0 /\ proposed[a] = 0
       /\ old.fraud_flags > 0 => k.trust_score <= old.trust_score /\ k.fraud_flags > 0
       /\ old.is_hibernating => k.active_contracts <= old.active_contracts
       /\ Earned(old.tasks_completed, old.trust_score) =>
             Earned(k.tasks_completed, k.trust_score)
    BY <1>1, <1>4, <1>8 DEF AgentIdentity
<1> HIDE DEF k
<1> QED
    BY <1>2, <1>5, <1>9, <1>10, AccountMoves DEF old

LEMMA AsRequesterMoves ==
    ASSUME IdentityInv, NEW a \in Agents, NEW losses \in 0..2,
           NEW rework \in Reworks, AsRequester(a, losses, rework)
    PROVE  Steps(a)
<1> DEFINE old == agents[a]
           lost == old.disputes_lost + losses
           friction == old.dispute_friction_total + rework.rounds
           k == [old EXCEPT !.disputes_lost = lost, !.dispute_friction_total = friction]
<1>1. agents \in [Agents -> AgentIdentity] /\ old \in AgentIdentity
    BY OneAgent
<1>2. agents' = [agents EXCEPT ![a] = k]
    BY <1>1 DEF AsRequester
<1>3. old.registered_at # 0
    BY DEF AsRequester, IsRegistered
<1>4. ~ old.matured => old.tasks_completed = 0 /\ old.active_contracts = 0 /\ proposed[a] = 0
    BY OneAgent
<1>5. UNCHANGED <<now, parameters, treasury, proposed>> /\ rested' \subseteq Agents
    BY OneAgent DEF AsRequester
<1>6. lost \in Nat /\ friction \in Nat
    <2>1. rework \in [redeliveries : Nat, corrections : Nat, rounds : Nat]
        BY IdentityAssumption
    <2> QED
        BY <1>1, <2>1 DEF AgentIdentity
<1> HIDE DEF old, lost, friction
<1>7. k \in AgentIdentity /\ k.registered_at # 0 /\ k.identity_bond = old.identity_bond
    BY <1>1, <1>3, <1>6 DEF AgentIdentity
<1>8. /\ ~ k.matured => k.tasks_completed = 0 /\ k.active_contracts = 0 /\ proposed[a] = 0
      /\ old.fraud_flags > 0 => k.trust_score <= old.trust_score /\ k.fraud_flags > 0
      /\ old.is_hibernating => k.active_contracts <= old.active_contracts
      /\ Earned(old.tasks_completed, old.trust_score) =>
            Earned(k.tasks_completed, k.trust_score)
    BY <1>1, <1>4 DEF AgentIdentity
<1> HIDE DEF k
<1> QED
    BY <1>2, <1>5, <1>7, <1>8, AccountMoves DEF old

LEMMA AbandonMoves ==
    ASSUME IdentityInv, NEW a \in Agents, Abandon(a)
    PROVE  Steps(a)
<1> DEFINE old == agents[a]
           left == old.active_contracts - 1
           abandoned == old.tasks_abandoned + 1
           k == [old EXCEPT !.active_contracts = left,
                            !.tasks_abandoned = abandoned]
<1>1. agents \in [Agents -> AgentIdentity] /\ old \in AgentIdentity
    BY OneAgent
<1>2. agents' = [agents EXCEPT ![a] = k]
    BY <1>1 DEF Abandon
<1>3. old.registered_at # 0
    BY ActiveRegistered DEF Abandon
<1>4. old.matured
    BY <1>1, OneAgent DEF Abandon, AgentIdentity
<1>5. UNCHANGED <<now, parameters, treasury, proposed>> /\ rested' \subseteq Agents
    BY OneAgent DEF Abandon
<1>6. old.active_contracts > 0
    BY DEF Abandon
<1>7. /\ {left, abandoned} \subseteq Nat
      /\ left \in Nat /\ left <= old.active_contracts
    BY <1>1, <1>6 DEF AgentIdentity
<1> HIDE DEF left, abandoned
<1> HIDE DEF old
<1>8. k \in AgentIdentity /\ k.registered_at # 0 /\ k.identity_bond = old.identity_bond
    BY <1>1, <1>3, <1>7 DEF AgentIdentity
<1>9. /\ ~ k.matured => k.tasks_completed = 0 /\ k.active_contracts = 0 /\ proposed[a] = 0
      /\ old.fraud_flags > 0 => k.trust_score <= old.trust_score /\ k.fraud_flags > 0
      /\ old.is_hibernating => k.active_contracts <= old.active_contracts
      /\ Earned(old.tasks_completed, old.trust_score) =>
            Earned(k.tasks_completed, k.trust_score)
    BY <1>1, <1>4, <1>7 DEF AgentIdentity
<1> HIDE DEF k
<1> QED
    BY <1>2, <1>5, <1>8, <1>9, AccountMoves DEF old

LEMMA RewardMoves ==
    ASSUME IdentityInv, NEW a \in Agents, Reward(a)
    PROVE  Steps(a)
<1> DEFINE old == agents[a]
           k == [old EXCEPT !.tasks_since_last_hibernation = @ + 1]
<1>1. agents \in [Agents -> AgentIdentity] /\ old \in AgentIdentity
    BY OneAgent
<1>2. agents' = [agents EXCEPT ![a] = k]
    BY <1>1 DEF Reward
<1>3. old.registered_at # 0
    BY ActiveRegistered DEF Reward
<1>4. ~ old.matured => old.tasks_completed = 0 /\ old.active_contracts = 0 /\ proposed[a] = 0
    BY OneAgent
<1>5. UNCHANGED <<now, parameters, treasury, proposed>> /\ rested' \subseteq Agents
    BY OneAgent DEF Reward
<1> HIDE DEF old
<1>6. k \in AgentIdentity /\ k.registered_at # 0 /\ k.identity_bond = old.identity_bond
    BY <1>1, <1>3 DEF AgentIdentity
<1>7. /\ ~ k.matured => k.tasks_completed = 0 /\ k.active_contracts = 0 /\ proposed[a] = 0
      /\ old.fraud_flags > 0 => k.trust_score <= old.trust_score /\ k.fraud_flags > 0
      /\ old.is_hibernating => k.active_contracts <= old.active_contracts
      /\ Earned(old.tasks_completed, old.trust_score) =>
            Earned(k.tasks_completed, k.trust_score)
    BY <1>1, <1>4 DEF AgentIdentity
<1> HIDE DEF k
<1> QED
    BY <1>2, <1>5, <1>6, <1>7, AccountMoves DEF old

(* A claim that is approved is paid from the vault of the pool (0) or from
   one of the bonds: what it takes there is counted.                       *)
LEMMA ClaimKeepsTreasury ==
    ASSUME IdentityInv, NEW a \in Agents, NEW v \in 0..2, NEW amount \in Nat,
           ApproveClaim(a, v, amount)
    PROVE  TreasuryKept
<1>1. CASE v = 0
    BY <1>1, TreasuryStays DEF ApproveClaim, treasury
<1>2. CASE v # 0
    <2> DEFINE left == vaults[v].balance - amount
               paid == [vaults[v] EXCEPT !.balance = left]
    <2>1. v \in 1..2 /\ vaults[v] \in VaultType /\ vaults[v].balance \in Nat
        BY <1>2, VaultTypes
    <2>2. /\ vaults' = [vaults EXCEPT ![v] = paid] /\ vaults[v].balance >= amount
          /\ claimed' = claimed + amount /\ UNCHANGED <<forgiven, received>>
        BY <1>2, <2>1, VaultTypes DEF ApproveClaim, VaultType
    <2>3. left \in Nat
        BY <2>1, <2>2
    <2> HIDE DEF left
    <2>4. paid \in VaultType /\ paid.balance = left
        BY <2>1, <2>3 DEF VaultType
    <2> HIDE DEF paid
    <2>5. vaults' \in [1..2 -> VaultType] /\ vaults'[v] = paid
          /\ \A u \in 1..2 \ {v} : vaults'[u] = vaults[u]
        BY <2>1, <2>2, <2>4, VaultTypes
    <2>6. Held' = Held
        <3>1. v = 1 \/ v = 2
            BY <2>1
        <3>2. /\ vaults[1].balance \in Nat /\ vaults[2].balance \in Nat
              /\ forgiven \in Nat /\ claimed \in Nat /\ received \in Nat
            BY VaultTypes
        <3>3. vaults'[v].balance = vaults[v].balance - amount
            BY <2>4, <2>5 DEF left
        <3> QED
            BY <2>2, <2>5, <3>1, <3>2, <3>3 DEF Held
    <2> QED
        BY <2>2, <2>5, <2>6, VaultTypes DEF TreasuryKept
<1> QED
    BY <1>1, <1>2

LEMMA ApproveClaimMoves ==
    ASSUME IdentityInv, NEW a \in Agents, NEW v \in 0..2, NEW amount \in Nat,
           ApproveClaim(a, v, amount)
    PROVE  Steps(a)
<1> DEFINE old == agents[a]
           k == [old EXCEPT !.fraud_flags = @ + 1]
<1>1. agents \in [Agents -> AgentIdentity] /\ old \in AgentIdentity
    BY OneAgent
<1>2. agents' = [agents EXCEPT ![a] = k]
    BY <1>1 DEF ApproveClaim
<1>3. old.registered_at # 0
    BY DEF ApproveClaim, IsRegistered
<1>4. ~ old.matured => old.tasks_completed = 0 /\ old.active_contracts = 0 /\ proposed[a] = 0
    BY OneAgent
<1>5. UNCHANGED <<now, parameters, proposed>> /\ rested' \subseteq Agents
    BY OneAgent DEF ApproveClaim
<1>6. TreasuryKept
    BY ClaimKeepsTreasury
<1> HIDE DEF old
<1>7. k \in AgentIdentity /\ k.registered_at # 0 /\ k.identity_bond = old.identity_bond
    BY <1>1, <1>3 DEF AgentIdentity
<1>8. /\ ~ k.matured => k.tasks_completed = 0 /\ k.active_contracts = 0 /\ proposed[a] = 0
      /\ old.fraud_flags > 0 => k.trust_score <= old.trust_score /\ k.fraud_flags > 0
      /\ old.is_hibernating => k.active_contracts <= old.active_contracts
      /\ Earned(old.tasks_completed, old.trust_score) =>
            Earned(k.tasks_completed, k.trust_score)
    BY <1>1, <1>4 DEF AgentIdentity
<1> HIDE DEF k
<1> QED
    BY <1>2, <1>5, <1>6, <1>7, <1>8, ProposalsStay DEF old

LEMMA ProposeMoves ==
    ASSUME IdentityInv, NEW a \in Agents, Propose(a)
    PROVE  Steps(a)
<1> DEFINE old == agents[a]
           asked == proposed[a] + 1
<1>1. agents \in [Agents -> AgentIdentity] /\ old \in AgentIdentity /\ agents' = agents
    BY OneAgent DEF Propose
<1>2. agents' = [agents EXCEPT ![a] = old]
    BY <1>1
<1>3. old.registered_at # 0 /\ old.matured /\ ~ old.is_hibernating
    BY ActiveRegistered, OneAgent DEF Propose, MayBeAsked
<1>4. asked \in 0..MaxProposals
    BY OneAgent DEF Propose
<1>5. proposed' = [proposed EXCEPT ![a] = asked] /\ UNCHANGED <<now, parameters, treasury, rested>>
      /\ TreasuryKept
    BY TreasuryStays DEF Propose
<1> HIDE DEF asked
<1>6. /\ proposed' \in [Agents -> 0..MaxProposals]
      /\ \A b \in Agents \ {a} : proposed'[b] = proposed[b]
    BY <1>4, <1>5, OneAgent
<1>7. rested' \subseteq Agents
    BY <1>5, OneAgent
<1>8. old.trust_score <= old.trust_score
    BY <1>1 DEF AgentIdentity
<1> QED
    BY <1>1, <1>2, <1>3, <1>5, <1>6, <1>7, <1>8 DEF Steps, MayBecome

LEMMA AcceptMoves ==
    ASSUME IdentityInv, NEW a \in Agents, AcceptProposal(a)
    PROVE  Steps(a)
<1> DEFINE old == agents[a]
           more == old.active_contracts + 1
           asked == proposed[a] - 1
           k == [old EXCEPT !.active_contracts = more]
<1>1. agents \in [Agents -> AgentIdentity] /\ old \in AgentIdentity
    BY OneAgent
<1>2. agents' = [agents EXCEPT ![a] = k]
    BY <1>1 DEF AcceptProposal
<1>3. old.registered_at # 0 /\ old.matured
    BY ActiveRegistered, OneAgent DEF AcceptProposal, AgentIdentity
<1>4. asked \in 0..MaxProposals /\ asked + 1 = proposed[a]
    BY OneAgent DEF AcceptProposal
<1>5. proposed' = [proposed EXCEPT ![a] = asked] /\ UNCHANGED <<now, parameters, treasury, rested>>
      /\ TreasuryKept
    BY TreasuryStays DEF AcceptProposal
<1>6. more \in Nat /\ old.active_contracts \in Nat
    BY <1>1 DEF AgentIdentity
<1>7. more + asked = old.active_contracts + proposed[a]
    BY <1>4, <1>6, OneAgent
<1>8. more + asked <= old.active_contracts + proposed[a]
    BY <1>4, <1>6, <1>7, OneAgent
<1> HIDE DEF asked, more
<1>9. /\ proposed' \in [Agents -> 0..MaxProposals]
      /\ \A b \in Agents \ {a} : proposed'[b] = proposed[b]
      /\ proposed'[a] = asked
    BY <1>4, <1>5, OneAgent
<1>10. rested' \subseteq Agents
    BY <1>5, OneAgent
<1> HIDE DEF old
<1>11. k \in AgentIdentity /\ k.registered_at # 0 /\ k.identity_bond = old.identity_bond
    BY <1>1, <1>3, <1>6 DEF AgentIdentity
<1>12. /\ k.matured /\ k.active_contracts = more
       /\ old.fraud_flags > 0 => k.trust_score <= old.trust_score /\ k.fraud_flags > 0
       /\ Earned(old.tasks_completed, old.trust_score) =>
             Earned(k.tasks_completed, k.trust_score)
    BY <1>1, <1>3 DEF AgentIdentity
<1> HIDE DEF k
<1> QED
    BY <1>2, <1>5, <1>8, <1>9, <1>10, <1>11, <1>12 DEF Steps, MayBecome, old

LEMMA WorkerMoves ==
    ASSUME IdentityInv, NEW a \in Agents, AgentNext(a) \/ WorkNext(a)
    PROVE  Steps(a)
<1>1. CASE AgentNext(a)
    BY <1>1, SponsorMoves, ScoreMoves, HibernateMoves, AwokenMoves, ForceMatureMoves DEF AgentNext
<1>2. CASE WorkNext(a)
    BY <1>2, CreateMoves, ProposeMoves, AcceptMoves, FinishMoves, DisputeMoves,
       AsRequesterMoves, AbandonMoves, RewardMoves, ApproveClaimMoves DEF WorkNext
<1> QED
    BY <1>1, <1>2

-----------------------------------------------------------------------------
(* The sum of the bonds *)

LEMMA BondsInt ==
    ASSUME IdentityInv
    PROVE  \A a \in Agents : Bonded[a] \in Nat
BY OneAgent DEF Bonded, AgentIdentity

LEMMA BondsSame ==
    ASSUME IdentityInv, \A a \in Agents : agents'[a].identity_bond = agents[a].identity_bond
    PROVE  SumOf(Bonded, Agents)' = SumOf(Bonded, Agents)
<1>1. Bonded' = Bonded
    BY DEF Bonded
<1> QED
    BY <1>1

LEMMA BondAdded ==
    ASSUME IdentityInv, NEW a \in Agents, NEW bond \in Nat, agents[a].identity_bond = 0,
           agents'[a].identity_bond = bond,
           \A b \in Agents \ {a} : agents'[b].identity_bond = agents[b].identity_bond
    PROVE  SumOf(Bonded, Agents)' = SumOf(Bonded, Agents) + bond
<1> DEFINE f == Bonded
           g == [b \in Agents |-> agents'[b].identity_bond]
<1>1. Bonded' = g
    BY DEF Bonded
<1>2. \A b \in Agents : f[b] \in Nat
    BY BondsInt
<1>3. f[a] = 0 /\ g[a] = bond /\ \A b \in Agents \ {a} : f[b] = g[b]
    BY DEF Bonded
<1>4. \A b \in Agents : f[b] \in Int /\ g[b] \in Int
    <2> HIDE DEF f, g
    <2> QED
        BY <1>2, <1>3
<1>5. IsFiniteSet(Agents)
    BY IdentityAssumption
<1> HIDE DEF f, g
<1>6. SumOf(g, Agents) = SumOf(f, Agents) - f[a] + g[a]
    BY <1>3, <1>4, <1>5, SumShift
<1>7. SumOf(f, Agents) \in Int
    BY <1>4, <1>5, SumInt
<1>8. SumOf(g, Agents) = SumOf(f, Agents) + bond
    BY <1>3, <1>6, <1>7
<1> QED
    BY <1>1, <1>8 DEF f

LEMMA BondsAreSum ==
    SumOf(Bonded, Agents) = MapThenSumSet(LAMBDA a : agents[a].identity_bond, Agents)
<1> DEFINE body(g) == [s \in SUBSET Agents |-> IF s = {} THEN 0
                          ELSE agents[Pick(s)].identity_bond + g[s \ {Pick(s)}]]
<1>1. ASSUME NEW g PROVE IsSum(g, Bonded, Agents) <=> g = body(g)
    <2>1. \A s \in SUBSET Agents : s # {} => Bonded[Pick(s)] = agents[Pick(s)].identity_bond
        BY PickIn DEF Bonded
    <2> DEFINE other(h) == [s \in SUBSET Agents |-> IF s = {} THEN 0
                          ELSE Bonded[Pick(s)] + h[s \ {Pick(s)}]]
    <2>2. other(g) = body(g)
        BY <2>1
    <2> QED
        BY <2>2 DEF IsSum
<1>2. (CHOOSE g : IsSum(g, Bonded, Agents)) = (CHOOSE g : g = body(g))
    <2> HIDE DEF body
    <2> QED
        BY <1>1
<1>3. MapThenSumSet(LAMBDA a : agents[a].identity_bond, Agents) = (CHOOSE g : g = body(g))[Agents]
    BY DEF MapThenSumSet, MapThenFoldSet, Pick
<1> QED
    BY <1>2, <1>3 DEF SumOf, Folding

(* A bond of k for each of a set of agents, and nothing for the others.    *)
LEMMA SumOfEqual ==
    ASSUME NEW k \in Nat, IsFiniteSet(Agents), NEW Old \in SUBSET Agents
    PROVE  SumOf([a \in Agents |-> IF a \in Old THEN k ELSE 0], Agents) = k * Cardinality(Old)
<1> DEFINE f(S) == [a \in Agents |-> IF a \in S THEN k ELSE 0]
           Bad == {S \in SUBSET Agents : SumOf(f(S), Agents) # k * Cardinality(S)}
<1> SUFFICES ASSUME Old \in Bad PROVE FALSE
    OBVIOUS
<1>1. PICK S \in Bad : \A U \in SUBSET S : U # S => U \notin Bad
    <2>1. Bad # {} /\ Bad \in SUBSET (SUBSET Agents)
        OBVIOUS
    <2> HIDE DEF Bad
    <2> QED
        BY <2>1, Smallest
<1>2. S \in SUBSET Agents /\ SumOf(f(S), Agents) # k * Cardinality(S) /\ IsFiniteSet(S)
    BY <1>1, FS_Subset
<1>3. CASE S = {}
    <2>1. \A a \in Agents : f(S)[a] = 0
        BY <1>3
    <2>2. SumOf(f(S), Agents) = 0
        <3> HIDE DEF f
        <3> QED
            BY <2>1, SumZero
    <2>3. Cardinality(S) = 0
        BY <1>3, FS_EmptySet
    <2> QED
        BY <1>2, <2>2, <2>3
<1>4. CASE S # {}
    <2> DEFINE x == Pick(S)
               R == S \ {x}
    <2>1. x \in S
        BY <1>4, PickIn
    <2> HIDE DEF x
    <2>2. R \in SUBSET S /\ R # S /\ R \in SUBSET Agents /\ x \in Agents
        BY <1>2, <2>1
    <2>3. SumOf(f(R), Agents) = k * Cardinality(R)
        BY <1>1, <2>2
    <2>4. Cardinality(S) = Cardinality(R) + 1 /\ Cardinality(R) \in Nat
        BY <1>2, <2>1, FS_RemoveElement, FS_CardinalityType, FS_Subset
    <2>5. /\ \A a \in Agents : f(R)[a] \in Int /\ f(S)[a] \in Int
          /\ \A a \in Agents \ {x} : f(R)[a] = f(S)[a]
          /\ f(R)[x] = 0 /\ f(S)[x] = k
        BY <1>2, <2>1, <2>2
    <2> HIDE DEF f, R
    <2>6. SumOf(f(S), Agents) = SumOf(f(R), Agents) - f(R)[x] + f(S)[x]
        BY <2>2, <2>5, SumShift
    <2>7. SumOf(f(S), Agents) = k * Cardinality(R) + k
        BY <2>3, <2>4, <2>5, <2>6
    <2>8. k * Cardinality(S) = k * Cardinality(R) + k
        BY <2>4
    <2> QED
        BY <1>2, <2>7, <2>8
<1> QED
    BY <1>3, <1>4

-----------------------------------------------------------------------------
(* The invariant *)

LEMMA NewIdentityType ==
    ASSUME NEW bond \in Nat, NEW date \in Nat
    PROVE  NewIdentity(bond, date) \in AgentIdentity
<1> DEFINE blank == Unregistered
           k == [blank EXCEPT !.identity_bond = bond, !.registered_at = date]
<1>1. blank \in AgentIdentity
    BY DEF Unregistered, AgentIdentity
<1>2. NewIdentity(bond, date) = k
    BY DEF NewIdentity
<1> HIDE DEF blank
<1>3. k \in AgentIdentity
    BY <1>1 DEF AgentIdentity
<1> QED
    BY <1>2, <1>3

LEMMA InitInvariant ==
    ASSUME IdentityInit
    PROVE  IdentityInv
<1> DEFINE bond == limits[1]
<1>1. bond \in Nat /\ IsFiniteSet(Agents) /\ IsFiniteSet(OldAgents)
    BY IdentityAssumption, FS_Subset DEF IdentityInit
<1>2. /\ Unregistered \in AgentIdentity /\ NewIdentity(bond, 1) \in AgentIdentity
      /\ ~ Unregistered.matured /\ ~ NewIdentity(bond, 1).matured
      /\ Unregistered.tasks_completed = 0 /\ NewIdentity(bond, 1).tasks_completed = 0
      /\ Unregistered.active_contracts = 0 /\ NewIdentity(bond, 1).active_contracts = 0
      /\ NewIdentity(bond, 1).registered_at = 1
      /\ Earned(Unregistered.tasks_completed, Unregistered.trust_score)
      /\ Earned(NewIdentity(bond, 1).tasks_completed, NewIdentity(bond, 1).trust_score)
    <2> HIDE DEF bond
    <2>1. bond \in Nat
        BY <1>1
    <2>2. Unregistered \in AgentIdentity
        BY DEF Unregistered, AgentIdentity
    <2>3. NewIdentity(bond, 1) \in AgentIdentity
        BY <2>1, NewIdentityType
    <2> QED
        BY <2>2, <2>3 DEF Unregistered, NewIdentity, Earned
<1>3. agents \in [Agents -> AgentIdentity]
    <2> HIDE DEF bond
    <2> QED
        BY <1>2 DEF IdentityInit, bond
<1>4. Cardinality(OldAgents) \in Nat /\ bond * Cardinality(OldAgents) \in Nat
    BY <1>1, FS_CardinalityType
<1>5. vaults \in [1..2 -> VaultType] /\ NoVault \in VaultType
    BY <1>4, IdentityAssumption DEF IdentityInit, NoVault, VaultType
<1>6. IdentityTypeOK
    BY <1>3, <1>5, IdentityAssumption DEF IdentityInit, IdentityTypeOK, VaultType
<1>7. (\A a \in Agents : Beginner(a)) /\ TrustIsEarned
    <2>1. \A a \in Agents : agents[a] = Unregistered \/ agents[a] = NewIdentity(bond, 1)
        BY DEF IdentityInit
    <2>2. \A a \in Agents : proposed[a] = 0
        BY DEF IdentityInit
    <2> QED
        BY <1>2, <2>1, <2>2 DEF Beginner, TrustIsEarned
<1>8. BondsAddUp
    <2>1. CASE agents = [a \in Agents |-> Unregistered] /\ vaults = <<NoVault, NoVault>>
        <3>1. \A a \in Agents : Bonded[a] = 0
            BY <2>1 DEF Bonded, Unregistered
        <3>2. SumOf(Bonded, Agents) = 0
            BY <1>1, <3>1, SumZero
        <3> QED
            BY <2>1, <3>2 DEF BondsAddUp, Held, IdentityInit, NoVault
    <2>2. CASE ~ (agents = [a \in Agents |-> Unregistered] /\ vaults = <<NoVault, NoVault>>)
        <3>1. /\ agents = [a \in Agents |-> IF a \in OldAgents THEN NewIdentity(bond, 1)
                                            ELSE Unregistered]
              /\ vaults = <<[mint |-> FirstMint, balance |-> bond * Cardinality(OldAgents)],
                             NoVault>>
              /\ forgiven = 0 /\ claimed = 0 /\ received = 0
            BY <2>2 DEF IdentityInit
        <3>2. NewIdentity(bond, 1).identity_bond = bond /\ Unregistered.identity_bond = 0
            BY DEF NewIdentity, Unregistered
        <3>3. Bonded = [a \in Agents |-> IF a \in OldAgents THEN bond ELSE 0]
            BY <3>1, <3>2 DEF Bonded
        <3>4. SumOf(Bonded, Agents) = bond * Cardinality(OldAgents)
            <4>1. OldAgents \in SUBSET Agents
                BY IdentityAssumption
            <4> HIDE DEF bond
            <4> QED
                BY <1>1, <3>3, <4>1, SumOfEqual
        <3>5. /\ vaults[1].balance = bond * Cardinality(OldAgents) /\ vaults[2].balance = 0
              /\ forgiven = 0 /\ claimed = 0 /\ received = 0
            BY <3>1 DEF NoVault
        <3> DEFINE held == bond * Cardinality(OldAgents)
        <3>6. held + 0 + 0 + 0 - 0 = held
            <4> HIDE DEF held
            <4>1. held \in Nat
                BY <1>4 DEF held
            <4> QED
                BY <4>1
        <3> QED
            BY <3>4, <3>5, <3>6 DEF BondsAddUp, Held
    <2> QED
        BY <2>1, <2>2
<1> QED
    BY <1>6, <1>7, <1>8 DEF IdentityInv

(* A step of one agent keeps the invariant.                                *)
LEMMA StepsInvariant ==
    ASSUME IdentityInv, NEW a \in Agents, Steps(a)
    PROVE  IdentityInv'
<1>1. PICK k : MayBecome(a, k)
    BY DEF Steps
<1>2. /\ agents \in [Agents -> AgentIdentity] /\ k \in AgentIdentity
      /\ agents' = [agents EXCEPT ![a] = k]
    BY <1>1, OneAgent DEF MayBecome
<1>3. agents' \in [Agents -> AgentIdentity] /\ agents'[a] = k
      /\ \A b \in Agents \ {a} : agents'[b] = agents[b]
    BY <1>2
<1>4. IdentityTypeOK'
    BY <1>1, <1>3
    DEF IdentityTypeOK, IdentityInv, MayBecome, TreasuryKept, VaultType, parameters
<1>5. \A b \in Agents : agents'[b].identity_bond = agents[b].identity_bond
    BY <1>1, <1>3 DEF MayBecome
<1>6. BondsAddUp'
    BY <1>1, <1>5, BondsSame DEF BondsAddUp, IdentityInv, MayBecome, TreasuryKept
<1>7. (\A b \in Agents : Beginner(b)') /\ TrustIsEarned'
    BY <1>1, <1>3 DEF Beginner, TrustIsEarned, IdentityInv, MayBecome
<1> QED
    BY <1>4, <1>6, <1>7 DEF IdentityInv

LEMMA RegisterInvariant ==
    ASSUME IdentityInv, NEW a \in Agents, NEW bond \in Bonds, RegisterAgent(a, bond)
    PROVE  IdentityInv'
<1> DEFINE k == NewIdentity(bond, now)
           balance == vaults[2].balance
           v == [vaults[2] EXCEPT !.balance = balance + bond]
<1>1. /\ agents \in [Agents -> AgentIdentity] /\ bond \in Nat /\ now \in Nat \ {0}
      /\ vaults \in [1..2 -> VaultType] /\ agents[a] = Unregistered
      /\ forgiven \in Nat /\ claimed \in Nat /\ received \in Nat
    BY OneAgent, IdentityAssumption
    DEF IdentityInv, IdentityTypeOK, VaultType, RegisterAgent, IsRegistered, Beginner, AgentIdentity
<1>2. k \in AgentIdentity /\ k.identity_bond = bond /\ k.registered_at = now /\ ~ k.matured
      /\ k.tasks_completed = 0 /\ k.active_contracts = 0
    BY <1>1 DEF NewIdentity, Unregistered, AgentIdentity
<1>11. Earned(k.tasks_completed, k.trust_score)
    <2>1. k.trust_score = 0
        BY DEF NewIdentity, Unregistered
    <2> HIDE DEF k
    <2> QED
        BY <2>1 DEF Earned
<1>3. /\ agents' = [agents EXCEPT ![a] = k]
      /\ UNCHANGED <<now, parameters, forgiven, claimed, received, proposed, rested>>
    BY DEF RegisterAgent
<1>4. vaults' = [vaults EXCEPT ![2] = v]
    BY <1>1 DEF RegisterAgent, VaultType
<1>5. v \in VaultType /\ v.balance = balance + bond /\ balance \in Nat /\ vaults[1].balance \in Nat
    BY <1>1 DEF VaultType
<1> HIDE DEF k, v
<1>6. agents' \in [Agents -> AgentIdentity] /\ agents'[a] = k
      /\ \A b \in Agents \ {a} : agents'[b] = agents[b]
    BY <1>1, <1>2, <1>3
<1>7. vaults' \in [1..2 -> VaultType] /\ vaults'[1] = vaults[1] /\ vaults'[2] = v
    BY <1>1, <1>4, <1>5
<1>8. IdentityTypeOK'
    BY <1>3, <1>6, <1>7 DEF IdentityTypeOK, IdentityInv, parameters, VaultType
<1>9. BondsAddUp'
    <2>1. agents[a].identity_bond = 0
        BY <1>1 DEF Unregistered
    <2>2. SumOf(Bonded, Agents)' = SumOf(Bonded, Agents) + bond
        BY <1>1, <1>2, <1>6, <2>1, BondAdded
    <2>3. /\ vaults'[1].balance = vaults[1].balance /\ vaults'[2].balance = balance + bond
          /\ forgiven' = forgiven /\ claimed' = claimed /\ received' = received
        BY <1>3, <1>5, <1>7
    <2>4. vaults[1].balance + balance + forgiven + claimed - received = SumOf(Bonded, Agents)
        BY DEF IdentityInv, BondsAddUp, Held
    <2> DEFINE first == vaults[1].balance
               sum == SumOf(Bonded, Agents)
               sum2 == SumOf(Bonded, Agents)'
    <2>5. first + (balance + bond) + forgiven + claimed - received = sum2
        <3>1. /\ first \in Nat /\ balance \in Nat
              /\ first + balance + forgiven + claimed - received = sum /\ sum2 = sum + bond
            BY <1>5, <2>2, <2>4
        <3> HIDE DEF first, balance, sum, sum2
        <3> QED
            BY <1>1, <3>1
    <2> QED
        BY <2>3, <2>5 DEF BondsAddUp, Held
<1>10. (\A b \in Agents : Beginner(b)') /\ TrustIsEarned'
    <2>1. proposed[a] = 0
        BY <1>1, OneAgent DEF Unregistered
    <2> QED
        BY <1>1, <1>2, <1>3, <1>6, <1>11, <2>1 DEF Beginner, TrustIsEarned, IdentityInv
<1> QED
    BY <1>8, <1>9, <1>10 DEF IdentityInv

(* The administration moves bonds between the vaults and out of them.      *)
LEMMA AdminInvariant ==
    ASSUME IdentityInv, AdminNext
    PROVE  IdentityInv' /\ UNCHANGED <<now, agents, proposed>>
<1>1. /\ vaults \in [1..2 -> VaultType] /\ forgiven \in Nat /\ sworn_mint \in Mints
      /\ claimed \in Nat /\ received \in Nat
      /\ limits \in BondLimits /\ maturation \in MaturationPeriods
    BY VaultTypes DEF IdentityInv, IdentityTypeOK
<1> DEFINE Safe == /\ limits' \in BondLimits /\ maturation' \in MaturationPeriods
                   /\ sworn_mint' \in Mints /\ TreasuryKept
                   /\ UNCHANGED <<now, agents, proposed, rested>>
<1>2. ASSUME NEW bounds \in BondLimits, NEW period \in MaturationPeriods,
             UpdateConfig(bounds, period)
      PROVE  Safe
    BY <1>1, <1>2, TreasuryStays DEF UpdateConfig
<1>3. ASSUME SetupBondVault PROVE Safe
    <2>1. [mint |-> sworn_mint, balance |-> 0] \in VaultType
        BY <1>1 DEF VaultType
    <2>2. vaults[1].balance = 0
        BY <1>3 DEF SetupBondVault, Exists, NoVault
    <2>3. /\ vaults' = [vaults EXCEPT ![1] = [mint |-> sworn_mint, balance |-> 0]]
          /\ UNCHANGED <<now, parameters, agents, forgiven, claimed, received, proposed, rested>>
        BY <1>3 DEF SetupBondVault
    <2>4. vaults' \in [1..2 -> VaultType] /\ vaults'[1].balance = 0 /\ vaults'[2] = vaults[2]
        BY <1>1, <2>1, <2>3
    <2>5. TreasuryKept
        BY <1>1, <2>2, <2>3, <2>4 DEF TreasuryKept, Held
    <2> QED
        BY <1>1, <2>3, <2>5 DEF parameters
<1>4. ASSUME NEW mint \in Mints, UpdateSwornMint(mint) PROVE Safe
    BY <1>1, <1>4, TreasuryStays DEF UpdateSwornMint
<1>5. ASSUME NEW mint \in Mints, MigrateBondVault(mint) PROVE Safe
    <2>1. NoVault \in VaultType /\ [mint |-> mint, balance |-> 0] \in VaultType
        BY DEF VaultType, NoVault
    <2>2. vaults[2].balance = 0
        BY <1>5 DEF MigrateBondVault, Exists, NoVault
    <2>3. /\ vaults' = <<NoVault, [mint |-> mint, balance |-> 0]>>
          /\ forgiven' = forgiven + vaults[1].balance /\ sworn_mint' = mint
          /\ UNCHANGED <<now, limits, maturation, agents, claimed, received, proposed, rested>>
        BY <1>5 DEF MigrateBondVault, Drained
    <2>4. vaults' \in [1..2 -> VaultType] /\ vaults'[1].balance = 0 /\ vaults'[2].balance = 0
        BY <2>1, <2>3 DEF NoVault
    <2>5. vaults[1].balance \in Nat
        BY VaultTypes
    <2>6. Held' = Held
        BY <1>1, <2>2, <2>3, <2>4, <2>5 DEF Held
    <2>7. forgiven' \in Nat
        BY <1>1, <2>3, <2>5
    <2>8. TreasuryKept
        BY <1>1, <2>3, <2>4, <2>6, <2>7 DEF TreasuryKept
    <2> QED
        BY <1>1, <2>3, <2>8
<1>6. Safe
    <2> HIDE DEF Safe
    <2> QED
        BY <1>2, <1>3, <1>4, <1>5 DEF AdminNext
<1>7. IdentityTypeOK'
    BY <1>6 DEF IdentityTypeOK, IdentityInv, TreasuryKept, VaultType
<1>8. BondsAddUp'
    <2>1. SumOf(Bonded, Agents)' = SumOf(Bonded, Agents)
        BY <1>6, BondsSame
    <2> QED
        BY <1>6, <2>1 DEF BondsAddUp, TreasuryKept, IdentityInv
<1>9. (\A a \in Agents : Beginner(a)') /\ TrustIsEarned'
    BY <1>6 DEF Beginner, TrustIsEarned, IdentityInv
<1> QED
    BY <1>6, <1>7, <1>8, <1>9 DEF IdentityInv

LEMMA TimeInvariant ==
    ASSUME IdentityInv, TimeNext
    PROVE  IdentityInv' /\ UNCHANGED <<agents, proposed>>
<1>1. PICK months \in Holidays : PassMonths(months)
    BY DEF TimeNext
<1>2. now' \in 1..MaxTime
    BY <1>1, IdentityAssumption DEF PassMonths, IdentityInv, IdentityTypeOK
<1>3. UNCHANGED <<parameters, agents, treasury, proposed, rested>>
    BY <1>1 DEF PassMonths
<1>4. IdentityTypeOK'
    BY <1>2, <1>3 DEF IdentityInv, IdentityTypeOK, parameters, treasury
<1>5. BondsAddUp'
    <2>1. SumOf(Bonded, Agents)' = SumOf(Bonded, Agents)
        BY <1>3, BondsSame
    <2> QED
        BY <1>3, <2>1, TreasuryStays DEF BondsAddUp, TreasuryKept, IdentityInv
<1>6. (\A a \in Agents : Beginner(a)') /\ TrustIsEarned'
    BY <1>3 DEF Beginner, TrustIsEarned, IdentityInv
<1> QED
    BY <1>3, <1>4, <1>5, <1>6 DEF IdentityInv

LEMMA WorkersAreAgents == \A a \in Workers : a \in Agents
BY IdentityAssumption

(* What comes into a bond vault beside the bonds is counted.               *)
LEMMA ReceiveInvariant ==
    ASSUME IdentityInv, NEW v \in 1..2, NEW amount \in Nat, Receive(v, amount)
    PROVE  IdentityInv' /\ UNCHANGED <<agents, proposed>>
<1> DEFINE more == vaults[v].balance + amount
           full == [vaults[v] EXCEPT !.balance = more]
<1>1. vaults[v] \in VaultType /\ vaults[v].balance \in Nat
    BY VaultTypes
<1>2. /\ vaults' = [vaults EXCEPT ![v] = full] /\ received' = received + amount
      /\ UNCHANGED <<now, parameters, agents, forgiven, claimed, proposed, rested>>
    BY <1>1, VaultTypes DEF Receive, VaultType
<1>3. more \in Nat
    BY <1>1
<1> HIDE DEF more
<1>4. full \in VaultType /\ full.balance = more
    BY <1>1, <1>3 DEF VaultType
<1> HIDE DEF full
<1>5. vaults' \in [1..2 -> VaultType] /\ vaults'[v] = full
      /\ \A u \in 1..2 \ {v} : vaults'[u] = vaults[u]
    BY <1>2, <1>4, VaultTypes
<1>6. Held' = Held
    <2>1. v = 1 \/ v = 2
        OBVIOUS
    <2>2. /\ vaults[1].balance \in Nat /\ vaults[2].balance \in Nat
          /\ forgiven \in Nat /\ claimed \in Nat /\ received \in Nat
        BY VaultTypes
    <2>3. vaults'[v].balance = vaults[v].balance + amount
        BY <1>4, <1>5 DEF more
    <2> QED
        BY <1>2, <1>5, <2>1, <2>2, <2>3 DEF Held
<1>7. received' \in Nat
    BY <1>2, VaultTypes
<1>8. IdentityTypeOK'
    BY <1>2, <1>5, <1>7 DEF IdentityInv, IdentityTypeOK, VaultType, parameters
<1>9. BondsAddUp'
    <2>1. SumOf(Bonded, Agents)' = SumOf(Bonded, Agents)
        BY <1>2, BondsSame
    <2> QED
        BY <1>6, <2>1 DEF BondsAddUp, IdentityInv
<1>10. (\A a \in Agents : Beginner(a)') /\ TrustIsEarned'
    BY <1>2 DEF Beginner, TrustIsEarned, IdentityInv
<1> QED
    BY <1>2, <1>8, <1>9, <1>10 DEF IdentityInv

(* A step of VaultNext is a step of one agent or of none. *)
LEMMA VaultMoves ==
    ASSUME IdentityInv, VaultNext
    PROVE  \/ IdentityInv' /\ UNCHANGED <<agents, proposed>>
           \/ \E a \in Agents : Steps(a)
<1>1. PICK v \in 1..2, amount \in Payments :
          Receive(v, amount) \/ \E a \in Workers : ApproveClaim(a, v, amount)
    BY DEF VaultNext
<1>2. amount \in Nat /\ v \in 0..2
    BY IdentityAssumption
<1>3. CASE Receive(v, amount)
    BY <1>2, <1>3, ReceiveInvariant
<1>4. CASE \E a \in Workers : ApproveClaim(a, v, amount)
    BY <1>2, <1>4, WorkersAreAgents, ApproveClaimMoves
<1> QED
    BY <1>1, <1>3, <1>4

LEMMA IdentityStutter ==
    ASSUME IdentityInv, UNCHANGED identity
    PROVE  IdentityInv'
<1>1. UNCHANGED <<now, parameters, agents, treasury, proposed, rested>>
    BY DEF identity
<1>2. IdentityTypeOK'
    BY <1>1 DEF IdentityInv, IdentityTypeOK, parameters, treasury
<1>3. SumOf(Bonded, Agents)' = SumOf(Bonded, Agents)
    BY <1>1, BondsSame
<1>4. BondsAddUp'
    BY <1>1, <1>3, TreasuryStays DEF IdentityInv, BondsAddUp, TreasuryKept
<1>5. (\A a \in Agents : Beginner(a)') /\ TrustIsEarned'
    BY <1>1 DEF IdentityInv, Beginner, TrustIsEarned
<1> QED
    BY <1>2, <1>4, <1>5 DEF IdentityInv

LEMMA NextInvariant ==
    ASSUME IdentityInv, [IdentityNext]_identity
    PROVE  IdentityInv'
<1>1. CASE RegisterNext
    BY <1>1, RegisterInvariant DEF RegisterNext
<1>2. CASE AdminNext
    BY <1>2, AdminInvariant
<1>3. CASE TimeNext
    BY <1>3, TimeInvariant
<1>4. CASE \E a \in Workers : AgentNext(a) \/ WorkNext(a)
    BY <1>4, WorkersAreAgents, WorkerMoves, StepsInvariant
<1>5. CASE UNCHANGED identity
    BY <1>5, IdentityStutter
<1>6. CASE VaultNext
    BY <1>6, VaultMoves, StepsInvariant
<1> QED
    BY <1>1, <1>2, <1>3, <1>4, <1>5, <1>6 DEF IdentityNext

(* The identities, proposals, bonds and vaults keep this in every state.   *)
THEOREM IdentityInvariant == IdentitySpec => []IdentityInv
<1>1. IdentityInit => IdentityInv
    BY InitInvariant
<1>2. IdentityInv /\ [IdentityNext]_identity => IdentityInv'
    BY NextInvariant
<1> QED
    BY <1>1, <1>2, PTL DEF IdentitySpec

-----------------------------------------------------------------------------
(* In no state has an agent the 70 points of a juror without 12 completed
   tasks, or the 50 of a sponsor without 2, however old it is, whatever its
   volume, its sponsors and the rates of its callers.                      *)
THEOREM TrustStaysEarned == IdentitySpec => []TrustIsEarned
<1>1. IdentityInv => TrustIsEarned
    BY DEF IdentityInv
<1> QED
    BY <1>1, IdentityInvariant, PTL

(* Every field keeps its type, and the score of an agent stays in 0..100,
   at every rate a caller may choose (identity.rs, calculate_trust_score). *)
THEOREM IdentityTypes == IdentitySpec => []IdentityTypeOK
<1>1. IdentityInv => IdentityTypeOK
    BY DEF IdentityInv
<1> QED
    BY <1>1, IdentityInvariant, PTL

(* Bonds are accounted for, whatever the number of agents: beyond what a
   migration and claims paid out of the bond vaults took, and what came in
   beside them, register_agent, setup_bond_vault, update_sworn_mint and
   migrate_bond_vault keep the sum (identity.rs, admin.rs, insurance.rs).  *)
THEOREM BondsAccountedFor == IdentitySpec => []BondsAccounted
<1>1. IdentityInv => BondsAccounted
    <2> SUFFICES ASSUME IdentityInv PROVE BondsAccounted
        OBVIOUS
    <2> DEFINE sum == SumOf(Bonded, Agents)
               left == vaults[1].balance + vaults[2].balance + forgiven + claimed
    <2>1. sum \in Int
        <3>1. \A a \in Agents : Bonded[a] \in Int
            BY BondsInt
        <3> QED
            BY <3>1, SumInt, IdentityAssumption
    <2>2. left \in Nat /\ received \in Nat /\ left - received = sum
        BY VaultTypes DEF IdentityInv, BondsAddUp, Held
    <2> HIDE DEF sum, left
    <2>3. left = sum + received
        BY <2>1, <2>2
    <2> QED
        BY <2>3, BondsAreSum DEF BondsAccounted, sum, left
<1> QED
    BY <1>1, IdentityInvariant, PTL

(* check_maturation finds nobody to mature.                                *)
THEOREM MaturityIsForced == IdentitySpec => []NobodyMaturesAlone
<1>1. IdentityInv => NobodyMaturesAlone
    <2> SUFFICES ASSUME IdentityInv, NEW a \in Agents, MaturationIsDue(a) PROVE FALSE
        BY DEF NobodyMaturesAlone
    <2>1. ~ agents[a].matured /\ agents[a].tasks_completed >= MaturationTasks
        BY DEF MaturationIsDue
    <2>2. agents[a].tasks_completed = 0 /\ MaturationTasks > 0
        BY <2>1, OneAgent, IdentityAssumption
    <2> QED
        BY <2>1, <2>2, IdentityAssumption
<1> QED
    BY <1>1, IdentityInvariant, PTL

-----------------------------------------------------------------------------
(* What a step may do to an agent, whoever takes the step *)

FallsWhenFlagged(a) ==
    agents[a].fraud_flags > 0 =>
        agents'[a].trust_score <= agents[a].trust_score /\ agents'[a].fraud_flags > 0

RestsWhenAsleep(a) ==
    agents[a].is_hibernating =>
        agents'[a].active_contracts + proposed'[a] <= agents[a].active_contracts + proposed[a]

LEMMA SameAgent ==
    ASSUME IdentityInv, NEW a \in Agents, agents'[a] = agents[a], proposed'[a] = proposed[a]
    PROVE  FallsWhenFlagged(a) /\ RestsWhenAsleep(a)
<1> DEFINE score == agents[a].trust_score
           work == agents[a].active_contracts + proposed[a]
<1>1. score \in Nat /\ work \in Nat
    BY OneAgent DEF AgentIdentity
<1>2. score <= score /\ work <= work
    <2> HIDE DEF score, work
    <2> QED
        BY <1>1
<1> QED
    BY <1>2 DEF FallsWhenFlagged, RestsWhenAsleep

LEMMA NextBounds ==
    ASSUME IdentityInv, [IdentityNext]_identity, NEW b \in Agents
    PROVE  FallsWhenFlagged(b) /\ RestsWhenAsleep(b)
<1>1. CASE RegisterNext
    <2>1. PICK a \in Agents, bond \in Bonds : RegisterAgent(a, bond)
        BY <1>1 DEF RegisterNext
    <2>2. CASE a = b
        <3>1. agents[b] = Unregistered
            BY <2>1, <2>2, OneAgent DEF RegisterAgent, IsRegistered, AgentIdentity
        <3> QED
            BY <3>1 DEF Unregistered, FallsWhenFlagged, RestsWhenAsleep
    <2>3. CASE a # b
        <3>1. agents'[b] = agents[b] /\ proposed'[b] = proposed[b]
            BY <2>1, <2>3, OneAgent DEF RegisterAgent
        <3> QED
            BY <3>1, SameAgent
    <2> QED
        BY <2>2, <2>3
<1>2. CASE AdminNext
    BY <1>2, AdminInvariant, SameAgent
<1>3. CASE TimeNext
    BY <1>3, TimeInvariant, SameAgent
<1>4. ASSUME NEW a \in Agents, Steps(a)
      PROVE  FallsWhenFlagged(b) /\ RestsWhenAsleep(b)
    <2>1. PICK k : MayBecome(a, k)
        BY <1>4 DEF Steps
    <2>2. CASE a = b
        <3>1. agents'[b] = k
            BY <2>1, <2>2, OneAgent DEF MayBecome
        <3> QED
            BY <2>1, <2>2, <3>1 DEF MayBecome, FallsWhenFlagged, RestsWhenAsleep
    <2>3. CASE a # b
        <3>1. agents'[b] = agents[b] /\ proposed'[b] = proposed[b]
            BY <2>1, <2>3, OneAgent DEF MayBecome
        <3> QED
            BY <3>1, SameAgent
    <2> QED
        BY <2>2, <2>3
<1>5. CASE UNCHANGED identity
    BY <1>5, SameAgent DEF identity
<1>6. CASE \E a \in Workers : AgentNext(a) \/ WorkNext(a)
    BY <1>4, <1>6, WorkersAreAgents, WorkerMoves
<1>7. CASE VaultNext
    BY <1>4, <1>7, VaultMoves, SameAgent
<1> QED
    BY <1>1, <1>2, <1>3, <1>5, <1>6, <1>7 DEF IdentityNext

(* A flagged agent regains nothing by any step of any agent or the admin.  *)
THEOREM FlaggedFalls == IdentitySpec => FlaggedNeverRises
<1>1. IdentityInv /\ [IdentityNext]_identity =>
          [\A a \in Agents : agents[a].fraud_flags > 0 =>
              /\ agents'[a].trust_score <= agents[a].trust_score
              /\ agents'[a].fraud_flags > 0]_identity
    BY NextBounds DEF FallsWhenFlagged
<1> QED
    BY <1>1, IdentityInvariant, PTL DEF IdentitySpec, FlaggedNeverRises

(* A hibernating agent gets no work that had not been proposed to it.      *)
THEOREM AsleepRests == IdentitySpec => AsleepNoNewWork
<1>1. IdentityInv /\ [IdentityNext]_identity =>
          [\A a \in Agents : agents[a].is_hibernating =>
              agents'[a].active_contracts + proposed'[a]
                  <= agents[a].active_contracts + proposed[a]]_identity
    BY NextBounds DEF RestsWhenAsleep
<1> QED
    BY <1>1, IdentityInvariant, PTL DEF IdentitySpec, AsleepNoNewWork

-----------------------------------------------------------------------------
(* The formulas of stakes and escrows *)

(* s is the square root of n, rounded down. *)
IsRoot(s, n) == s * s <= n /\ n < (s + 1) * (s + 1)

LEMMA RootExists ==
    ASSUME NEW n \in Nat \ {0}
    PROVE  \E s \in 1 .. n : IsRoot(s, n)
<1> DEFINE T == {k \in Nat : k * k > n}
<1>1. n + 1 \in T
    <2>1. (n + 1) * (n + 1) = n * n + 2 * n + 1 /\ n * n \in Nat
        OBVIOUS
    <2> QED
        BY <2>1
<1>2. PICK k \in T : \A y \in T : k <= y
    BY <1>1, LeastNumber
<1>3. k \in Nat /\ k * k > n /\ k <= n + 1
    BY <1>1, <1>2
<1>4. k # 0 /\ k # 1
    BY <1>3
<1>5. k - 1 \notin T
    BY <1>2, <1>3
<1>6. (k - 1) * (k - 1) <= n
    BY <1>3, <1>4, <1>5
<1>7. k - 1 \in 1 .. n /\ (k - 1) + 1 = k
    BY <1>3, <1>4
<1>8. IsRoot(k - 1, n)
    BY <1>3, <1>6, <1>7 DEF IsRoot
<1> QED
    BY <1>7, <1>8

(* One round of the loop: above the root it goes down and not below it, at
   or below the root it does not go down.                                   *)
LEMMA NewtonStep ==
    ASSUME NEW n \in Nat \ {0}, NEW s \in 1 .. n, IsRoot(s, n), NEW x \in 1 .. n
    PROVE  LET y == (x + n \div x) \div 2
           IN  /\ y \in Int
               /\ x <= s => ~ (y < x)
               /\ x > s => y < x /\ s <= y
<1> DEFINE q == n \div x
           y == (x + q) \div 2
<1>1. q \in Nat /\ q * x <= n /\ n < (q + 1) * x
    OBVIOUS
<1> HIDE DEF q
<1>2. y \in Int /\ 2 * y <= x + q /\ x + q < 2 * y + 2
    BY <1>1
<1>3. ASSUME x <= s PROVE ~ (y < x)
    <2>1. x * x <= s * s
        BY <1>3
    <2>2. x * x < (q + 1) * x
        BY <1>1, <2>1 DEF IsRoot
    <2>3. x < q + 1
        BY <1>1, <2>2
    <2> QED
        BY <1>1, <1>2, <2>3
<1>4. ASSUME x > s PROVE y < x /\ s <= y
    <2>1. x * x >= (s + 1) * (s + 1)
        BY <1>4
    <2>2. q * x < x * x
        BY <1>1, <2>1 DEF IsRoot
    <2>3. q < x
        BY <1>1, <2>2
    <2>4. s * s < (q + 1) * x
        BY <1>1 DEF IsRoot
    <2>5. x + q >= 2 * s
        <3>1. CASE q >= s
            BY <1>1, <1>4, <3>1
        <3>2. CASE q < s
            <4> DEFINE a == s - q
                       b == x - s
            <4>1. a \in Nat /\ b \in Nat /\ q = s - a /\ x = s + b
                BY <1>1, <1>4, <3>2
            <4> HIDE DEF a, b
            <4>2. s * s < (s - a + 1) * (s + b)
                BY <2>4, <4>1
            <4>3. (s - a + 1) * (s + b) = s * s + s * b - (a - 1) * s - (a - 1) * b
                BY <4>1
            <4> QED
                BY <1>1, <4>1, <4>2, <4>3
        <3> QED
            BY <1>1, <3>1, <3>2
    <2> QED
        BY <1>1, <1>2, <2>3, <2>5
<1> QED
    BY <1>2, <1>3, <1>4 DEF q

(* The recursive function of the loop has one solution.                    *)
Descending(f, n) ==
    f = [x \in 1 .. n |->
            LET y == (x + n \div x) \div 2 IN IF y < x THEN f[y] ELSE x]

LEMMA DescentExists ==
    ASSUME NEW n \in Nat \ {0}
    PROVE  \E f : Descending(f, n)
<1>1. PICK s \in 1 .. n : IsRoot(s, n)
    BY RootExists
<1> DEFINE f == [x \in 1 .. n |-> IF x <= s THEN x ELSE s]
           round(x) == (x + n \div x) \div 2
<1>2. ASSUME NEW x \in 1 .. n
      PROVE  f[x] = IF round(x) < x THEN f[round(x)] ELSE x
    <2>1. round(x) \in Int /\ (x <= s => ~ (round(x) < x))
          /\ (x > s => round(x) < x /\ s <= round(x))
        BY <1>1, NewtonStep
    <2> HIDE DEF round
    <2>2. CASE x <= s
        BY <2>1, <2>2
    <2>3. CASE x > s
        <3>1. round(x) \in 1 .. n /\ f[round(x)] = s
            BY <2>1, <2>3
        <3> QED
            BY <2>1, <2>3, <3>1
    <2> QED
        BY <2>2, <2>3
<1>3. f = [x \in 1 .. n |-> IF round(x) < x THEN f[round(x)] ELSE x]
    BY <1>2
<1>4. Descending(f, n)
    BY <1>3 DEF Descending
<1> QED
    BY <1>4

(* From any estimate at or above the root it ends on the root: a least
   estimate from which it does not would have a lower one.                 *)
LEMMA DescentEndsOnRoot ==
    ASSUME NEW n \in Nat \ {0}, NEW f, Descending(f, n),
           NEW s \in 1 .. n, IsRoot(s, n), NEW x \in 1 .. n, s <= x
    PROVE  f[x] = s
<1> DEFINE round(z) == (z + n \div z) \div 2
           Bad == {z \in s .. n : f[z] # s}
<1>1. ASSUME Bad # {} PROVE FALSE
    <2>1. Bad \in SUBSET Nat
        OBVIOUS
    <2>2. PICK z \in Bad : \A y \in Bad : z <= y
        BY <1>1, <2>1, LeastNumber
    <2>3. z \in 1 .. n /\ s <= z /\ f[z] # s
        BY <2>2
    <2>4. round(z) \in Int /\ (z <= s => ~ (round(z) < z))
          /\ (z > s => round(z) < z /\ s <= round(z))
        BY <2>3, NewtonStep
    <2>5. f[z] = IF round(z) < z THEN f[round(z)] ELSE z
        BY <2>3 DEF Descending
    <2> HIDE DEF round
    <2>6. z > s
        BY <2>3, <2>4, <2>5
    <2>7. round(z) \notin Bad
        BY <2>2, <2>3, <2>4, <2>6
    <2>8. round(z) \in s .. n
        BY <2>3, <2>4, <2>6
    <2> QED
        BY <2>3, <2>4, <2>5, <2>6, <2>7, <2>8
<1> QED
    BY <1>1

(* integer_sqrt is the root, for every n: it starts no lower.              *)
LEMMA SqrtIsRoot ==
    ASSUME NEW n \in Nat
    PROVE  integer_sqrt(n) \in Nat /\ IsRoot(integer_sqrt(n), n)
<1>1. CASE n = 0
    BY <1>1 DEF integer_sqrt, IsRoot
<1>2. CASE n # 0
    <2> DEFINE f == CHOOSE g : Descending(g, n)
    <2>1. integer_sqrt(n) = IF (n + 1) \div 2 < n THEN f[(n + 1) \div 2] ELSE n
        BY <1>2 DEF integer_sqrt, Descending
    <2>2. Descending(f, n)
        BY <1>2, DescentExists
    <2> HIDE DEF f
    <2>3. PICK s \in 1 .. n : IsRoot(s, n)
        BY <1>2, RootExists
    <2>4. s <= (n + 1) \div 2
        <3>1. s * s <= n /\ (s - 1) * (s - 1) >= 0
            BY <2>3 DEF IsRoot
        <3>2. (s - 1) * (s - 1) = s * s - 2 * s + 1
            OBVIOUS
        <3> QED
            BY <3>1, <3>2
    <2>5. CASE (n + 1) \div 2 < n
        <3>1. (n + 1) \div 2 \in 1 .. n
            BY <1>2, <2>5
        <3>2. integer_sqrt(n) = s
            BY <1>2, <2>1, <2>2, <2>3, <2>4, <2>5, <3>1, DescentEndsOnRoot
        <3> QED
            BY <2>3, <3>2
    <2>6. CASE ~ ((n + 1) \div 2 < n)
        <3>1. n = 1
            BY <1>2, <2>6
        <3> QED
            BY <2>1, <3>1 DEF IsRoot
    <2> QED
        BY <2>5, <2>6
<1> QED
    BY <1>1, <1>2

LEMMA SqrtHolds == ASSUME input \in Nat PROVE SqrtIsFloor
<1>1. \A n \in {input} \cup (IF input <= 100 THEN {Cubed(input)} ELSE {}) : n \in Nat
    BY DEF Cubed
<1>2. \A n \in Nat : integer_sqrt(n) * integer_sqrt(n) <= n
                    /\ n < (integer_sqrt(n) + 1) * (integer_sqrt(n) + 1)
    BY SqrtIsRoot DEF IsRoot
<1> QED
    BY <1>1, <1>2 DEF SqrtIsFloor

LEMMA RootsGrow ==
    ASSUME NEW m \in Nat, NEW n \in Nat, m <= n
    PROVE  integer_sqrt(m) <= integer_sqrt(n)
<1> DEFINE r == integer_sqrt(m)
           s == integer_sqrt(n)
<1>1. r \in Nat /\ s \in Nat /\ IsRoot(r, m) /\ IsRoot(s, n)
    BY SqrtIsRoot
<1> HIDE DEF r, s
<1>2. r * r < (s + 1) * (s + 1)
    BY <1>1 DEF IsRoot
<1>3. ~ (s + 1 <= r)
    BY <1>1, <1>2
<1> QED
    BY <1>1, <1>3 DEF r, s

LEMMA CubesGrow ==
    ASSUME NEW m \in Nat, NEW n \in Nat, m <= n
    PROVE  Cubed(m) \in Nat /\ Cubed(n) \in Nat /\ Cubed(m) <= Cubed(n)
<1>1. m * m \in Nat /\ n * n \in Nat /\ m * m <= n * n
    OBVIOUS
<1>2. m * m * m <= n * n * m /\ n * n * m <= n * n * n
    BY <1>1
<1> QED
    BY <1>1, <1>2 DEF Cubed

(* What a curve has lost at a score: so many basis points per 1000 of the
   root of its cube.                                                       *)
Drop(steep, ts) == (steep * integer_sqrt(Cubed(ts))) \div 1000

LEMMA DropsGrow ==
    ASSUME NEW ts \in 0 .. 99, NEW us \in 0 .. 99, ts <= us, NEW steep \in {7000, 9500}
    PROVE  /\ Drop(steep, ts) \in Nat /\ Drop(steep, us) \in Nat
           /\ Drop(steep, ts) <= Drop(steep, us) /\ Drop(steep, us) <= steep
<1> DEFINE r == integer_sqrt(Cubed(ts))
           s == integer_sqrt(Cubed(us))
<1>1. Cubed(us) <= 970299
    <2>1. Cubed(us) <= Cubed(99)
        BY CubesGrow
    <2> QED
        BY <2>1 DEF Cubed
<1>2. Cubed(ts) \in Nat /\ Cubed(us) \in Nat /\ Cubed(ts) <= Cubed(us)
    BY CubesGrow
<1>3. r \in Nat /\ s \in Nat /\ r <= s /\ s * s <= Cubed(us)
    BY <1>2, RootsGrow, SqrtIsRoot DEF IsRoot
<1> HIDE DEF r, s
<1>4. s < 1000
    <2>1. s * s < 1000 * 1000
        BY <1>1, <1>2, <1>3
    <2> QED
        BY <1>3, <2>1
<1>5. /\ (steep * r) \div 1000 \in Nat /\ (steep * s) \div 1000 \in Nat
      /\ (steep * r) \div 1000 <= (steep * s) \div 1000 /\ (steep * s) \div 1000 <= steep
    <2>1. CASE steep = 7000
        BY <1>3, <1>4, <2>1
    <2>2. CASE steep = 9500
        BY <1>3, <1>4, <2>2
    <2> QED
        BY <2>1, <2>2
<1> QED
    BY <1>5 DEF Drop, r, s

(* Rounding takes less than 11 and 8 basis points off the real curves.     *)
LEMMA DropBetween ==
    ASSUME NEW ts \in 0 .. 99
    PROVE  /\ LET s == Drop(9500, ts)
              IN  4 * s * s <= 361 * Cubed(ts) /\ 4 * (s + 11) * (s + 11) > 361 * Cubed(ts)
           /\ LET e == Drop(7000, ts)
              IN  e * e <= 49 * Cubed(ts) /\ (e + 8) * (e + 8) > 49 * Cubed(ts)
<1> DEFINE r == integer_sqrt(Cubed(ts))
           c == Cubed(ts)
           s == (9500 * r) \div 1000
           e == (7000 * r) \div 1000
<1>1. c \in Nat /\ r \in Nat /\ r * r <= c /\ c < (r + 1) * (r + 1)
    <2>1. Cubed(ts) \in Nat
        BY CubesGrow
    <2> QED
        BY <2>1, SqrtIsRoot DEF IsRoot
<1> HIDE DEF c, r
<1>2. s \in Nat /\ 2 * s <= 19 * r /\ 2 * (s + 11) >= 19 * (r + 1)
    BY <1>1
<1>3. e = 7 * r
    BY <1>1
<1> HIDE DEF s
<1>4. (2 * s) * (2 * s) <= (19 * r) * (19 * r)
    BY <1>1, <1>2
<1>5. (19 * (r + 1)) * (19 * (r + 1)) <= (2 * (s + 11)) * (2 * (s + 11))
    BY <1>1, <1>2
<1>6. 4 * s * s <= 361 * c
    BY <1>1, <1>2, <1>4
<1>7. 4 * (s + 11) * (s + 11) > 361 * c
    BY <1>1, <1>2, <1>5
<1>8. e * e <= 49 * c /\ (e + 8) * (e + 8) > 49 * c
    BY <1>1, <1>3
<1> QED
    BY <1>6, <1>7, <1>8 DEF Drop, r, c, s

LEMMA FactorsAreDrops ==
    ASSUME NEW ts \in Nat
    PROVE  /\ ts < 100 => calculate_stake_factor(ts, 500) = Most(10000 - Drop(9500, ts), 500)
           /\ ts < 100 => calculate_escrow_factor(ts) = Most(10000 - Drop(7000, ts), 3000)
           /\ ts >= 100 => calculate_stake_factor(ts, 500) = 500
           /\ ts >= 100 => calculate_escrow_factor(ts) = 3000
<1>1. ts < 100 => Drop(9500, ts) \in Nat /\ Drop(7000, ts) \in Nat
    BY DropsGrow
<1>2. Drop(9500, 0) = 0 /\ Drop(7000, 0) = 0
    BY DEF Drop, Cubed, integer_sqrt
<1> QED
    BY <1>1, <1>2 DEF calculate_stake_factor, calculate_escrow_factor, Most, Drop

InRange(x, low, high) == x \in Int /\ low <= x /\ x <= high

LEMMA FactorsInRange ==
    ASSUME NEW ts \in Nat
    PROVE  /\ InRange(calculate_stake_factor(ts, 500), 500, 10000)
           /\ InRange(calculate_escrow_factor(ts), 3000, 10000)
<1>1. ASSUME NEW drop \in Nat
      PROVE  InRange(Most(10000 - drop, 500), 500, 10000)
             /\ InRange(Most(10000 - drop, 3000), 3000, 10000)
    BY DEF Most, InRange
<1>2. CASE ts < 100
    <2>1. Drop(9500, ts) \in Nat /\ Drop(7000, ts) \in Nat
        BY <1>2, DropsGrow
    <2>2. /\ InRange(Most(10000 - Drop(9500, ts), 500), 500, 10000)
          /\ InRange(Most(10000 - Drop(7000, ts), 3000), 3000, 10000)
        BY <1>1, <2>1
    <2> QED
        BY <1>2, <2>2, FactorsAreDrops
<1>3. CASE ~ (ts < 100)
    <2>1. calculate_stake_factor(ts, 500) = 500 /\ calculate_escrow_factor(ts) = 3000
        BY <1>3, FactorsAreDrops
    <2> QED
        BY <2>1 DEF InRange
<1> QED
    BY <1>2, <1>3

LEMMA FactorsHold == ASSUME input \in Nat PROVE FactorsAreConvexCurves
<1> DEFINE stake(ts) == calculate_stake_factor(ts, 500)
           escrow(ts) == calculate_escrow_factor(ts)
           s == 10000 - stake(input)
           e == 10000 - escrow(input)
<1>1. /\ input < 100 => /\ 4 * s * s <= 361 * Cubed(input)
                         /\ 4 * (s + 11) * (s + 11) > 361 * Cubed(input)
                         /\ e * e <= 49 * Cubed(input)
                         /\ (e + 8) * (e + 8) > 49 * Cubed(input)
    <2> SUFFICES ASSUME input < 100
                 PROVE  s = Drop(9500, input) /\ e = Drop(7000, input)
        BY DropBetween
    <2>1. /\ Drop(9500, input) \in Nat /\ Drop(9500, input) <= 9500
          /\ Drop(7000, input) \in Nat /\ Drop(7000, input) <= 7000
        BY DropsGrow
    <2>2. /\ stake(input) = Most(10000 - Drop(9500, input), 500)
          /\ escrow(input) = Most(10000 - Drop(7000, input), 3000)
        BY FactorsAreDrops
    <2> QED
        BY <2>1, <2>2 DEF Most
<1>2. InRange(stake(input), 500, 10000) /\ InRange(escrow(input), 3000, 10000)
    BY FactorsInRange
<1>3. stake(input) >= stake(input + 1) /\ escrow(input) >= escrow(input + 1)
    <2>1. CASE input + 1 < 100
        <3>1. /\ Drop(9500, input) \in Nat /\ Drop(7000, input) \in Nat
              /\ Drop(9500, input + 1) \in Nat /\ Drop(7000, input + 1) \in Nat
              /\ Drop(9500, input) <= Drop(9500, input + 1)
              /\ Drop(7000, input) <= Drop(7000, input + 1)
            <4>1. input \in 0 .. 99 /\ input + 1 \in 0 .. 99 /\ input <= input + 1
                BY <2>1
            <4>2. /\ Drop(9500, input) \in Nat /\ Drop(9500, input + 1) \in Nat
                  /\ Drop(9500, input) <= Drop(9500, input + 1)
                BY <4>1, DropsGrow
            <4>3. /\ Drop(7000, input) \in Nat /\ Drop(7000, input + 1) \in Nat
                  /\ Drop(7000, input) <= Drop(7000, input + 1)
                BY <4>1, DropsGrow
            <4> QED
                BY <4>2, <4>3
        <3>2. /\ stake(input) = Most(10000 - Drop(9500, input), 500)
              /\ stake(input + 1) = Most(10000 - Drop(9500, input + 1), 500)
              /\ escrow(input) = Most(10000 - Drop(7000, input), 3000)
              /\ escrow(input + 1) = Most(10000 - Drop(7000, input + 1), 3000)
            BY <2>1, FactorsAreDrops
        <3> QED
            BY <3>1, <3>2 DEF Most
    <2>2. CASE ~ (input + 1 < 100)
        <3>1. stake(input + 1) = 500 /\ escrow(input + 1) = 3000
            BY <2>2, FactorsAreDrops
        <3>2. stake(input) >= 500 /\ escrow(input) >= 3000
            BY <1>2 DEF InRange
        <3> QED
            BY <3>1, <3>2
    <2> QED
        BY <2>1, <2>2
<1>4. ASSUME NEW x, InRange(x, 500, 10000) PROVE x \in 500 .. 10000
    BY <1>4 DEF InRange
<1>5. ASSUME NEW x, InRange(x, 3000, 10000) PROVE x \in 3000 .. 10000
    BY <1>5 DEF InRange
<1>6. stake(input) \in 500 .. 10000
    BY <1>2, <1>4
<1>7. escrow(input) \in 3000 .. 10000
    BY <1>2, <1>5
<1> HIDE DEF s, e
<1> QED
    BY <1>1, <1>3, <1>6, <1>7 DEF FactorsAreConvexCurves, s, e

(* The inputs tried. *)
InputOK == input \in Nat /\ input <= MaxInput

LEMMA InputNat == Spec => []InputOK
<1>1. Init => InputOK
    BY InputAssumption DEF Init, InputOK
<1>2. InputOK /\ [Next]_input => InputOK'
    BY InputAssumption DEF Next, InputOK
<1> QED
    BY <1>1, <1>2, PTL DEF Spec

-----------------------------------------------------------------------------
(* The agents that the runs try *)

(* An agent of Profiles has as many tasks as the input, and its volume stays
   far from what the logarithm cannot take.                                *)
LEMMA ProfileScored ==
    ASSUME InputOK, NEW a \in Profiles, NEW rate \in Nat, rate <= 1000000
    PROVE  Scored(a) /\ a.tasks_completed = input /\ Computable(a, rate)
<1>1. input \in Nat /\ input <= MaxInput /\ MaxInput \in Nat /\ Leading(MaxInput + 2, 18) < 10
    BY InputAssumption DEF InputOK
<1>2. /\ a.tasks_completed = input
      /\ a.volume_processed \in {0, 1000000} /\ a.volume_sol \in {0, 40}
    <2>1. a.tasks_completed = input
        BY SMT DEF Profiles
    <2>2. a.volume_processed \in {0, 1000000}
        BY SMT DEF Profiles
    <2>3. a.volume_sol \in {0, 40}
        BY SMT DEF Profiles
    <2> QED
        BY <2>1, <2>2, <2>3, SMT
<1>3. Scored(a)
    BY <1>1, <1>2, SMT DEF Profiles, Scored
<1>4. Leading(input + 1, 18) < 10
    BY <1>1, LeadingSmall
<1> DEFINE volume == TotalVolume(a, rate) + 1
<1>5. volume \in Nat /\ volume < 1000000000
    BY <1>2, SMT DEF TotalVolume
<1> HIDE DEF volume
<1>6. Leading(volume, 18) < 10
    BY <1>5, SmallComputable
<1>7. Computable(a, rate)
    BY <1>2, <1>4, <1>6 DEF Computable, volume
<1> QED
    BY <1>2, <1>3, <1>7

LEMMA FlaggedScoresNothing ==
    ASSUME NEW a, a.fraud_flags = 1, NEW t, NEW rate
    PROVE  calculate_trust_score(a, t, rate) = 0
BY DEF calculate_trust_score

LEMMA WorkHolds == ASSUME InputOK PROVE WorkRaisesScore
<1> SUFFICES ASSUME NEW a \in Profiles
             PROVE  LET score == calculate_trust_score(a, Now, 1)
                    IN  /\ score \in 0..100
                        /\ calculate_trust_score([a EXCEPT !.tasks_completed = @ + 1], Now, 1) >= score
                        /\ calculate_trust_score([a EXCEPT !.disputes_lost = @ + 1], Now, 1) <= score
                        /\ calculate_trust_score([a EXCEPT !.tasks_abandoned = @ + 1], Now, 1) <= score
                        /\ calculate_trust_score([a EXCEPT !.fraud_flags = 1], Now, 1) = 0
    BY DEF WorkRaisesScore
<1> DEFINE score == calculate_trust_score(a, Now, 1)
           worked == [a EXCEPT !.tasks_completed = @ + 1]
           lost == [a EXCEPT !.disputes_lost = @ + 1]
           gone == [a EXCEPT !.tasks_abandoned = @ + 1]
           flagged == [a EXCEPT !.fraud_flags = 1]
<1>1. 1 \in Nat /\ Now \in Nat /\ 1 <= 1
    BY DEF Now
<1>2. Scored(a) /\ a.tasks_completed = input /\ Computable(a, 1)
    <2>1. 1 <= 1000000
        OBVIOUS
    <2> QED
        BY <1>1, <2>1, ProfileScored
<1>3. input \in Nat /\ input <= MaxInput /\ MaxInput \in Nat /\ Leading(MaxInput + 2, 18) < 10
    BY InputAssumption DEF InputOK
<1>4. Scored(worked) /\ Scored(lost) /\ Scored(gone) /\ flagged.fraud_flags = 1
    BY <1>3 DEF Profiles, Scored
<1>5. BetterRecord(a, worked) /\ BetterRecord(lost, a) /\ BetterRecord(gone, a)
    BY <1>3 DEF Profiles, BetterRecord
<1>6. Computable(worked, 1)
    <2>1. worked.tasks_completed + 1 = input + 2 /\ TotalVolume(worked, 1) = TotalVolume(a, 1)
        BY <1>3 DEF Profiles, TotalVolume
    <2>2. Leading(input + 2, 18) < 10
        BY <1>3, LeadingSmall
    <2> HIDE DEF worked
    <2> QED
        BY <1>2, <2>1, <2>2 DEF Computable
<1> HIDE DEF worked, lost, gone, flagged
<1>7. score \in 0..100
    BY <1>1, <1>2, ScoreNat
<1>8. score <= calculate_trust_score(worked, Now, 1)
    BY <1>1, <1>2, <1>4, <1>5, <1>6, BetterRecordScoresNoLess
<1>9. calculate_trust_score(lost, Now, 1) <= score
    BY <1>1, <1>2, <1>4, <1>5, BetterRecordScoresNoLess
<1>10. calculate_trust_score(gone, Now, 1) <= score
    BY <1>1, <1>2, <1>4, <1>5, BetterRecordScoresNoLess
<1>11. calculate_trust_score(worked, Now, 1) \in 0..100
    <2>1. Scored(worked)
        BY <1>4
    <2> QED
        BY <1>1, <1>6, <2>1, ScoreNat
<1>12. calculate_trust_score(flagged, Now, 1) = 0
    BY <1>4, FlaggedScoresNothing
<1> HIDE DEF score
<1>13. calculate_trust_score(worked, Now, 1) >= score
    BY <1>7, <1>8, <1>11
<1> QED
    BY <1>7, <1>9, <1>10, <1>12, <1>13 DEF score, worked, lost, gone, flagged

LEMMA JurorsHold == ASSUME InputOK PROVE JurorsHaveWorked
<1> SUFFICES ASSUME NEW a \in Profiles
             PROVE  Earned(input, calculate_trust_score(a, Now, 1000000))
    BY DEF JurorsHaveWorked, Earned
<1>1. 1000000 \in Nat /\ 1000000 <= 1000000 /\ Now \in Nat
    BY DEF Now
<1>2. Scored(a) /\ a.tasks_completed = input /\ Computable(a, 1000000)
    BY <1>1, ProfileScored
<1>3. a.fraud_flags > 0 \/ Computable(a, 1000000)
    BY <1>2
<1>4. Earned(a.tasks_completed, calculate_trust_score(a, Now, 1000000))
    BY <1>1, <1>2, <1>3, ScoreIsEarned
<1> QED
    BY <1>2, <1>4

LEMMA CallerHolds == ASSUME InputOK PROVE CallerMovesScoreLittle
<1> SUFFICES ASSUME NEW a \in Profiles
             PROVE  LET score == calculate_trust_score(a, Now, 0)
                    IN  /\ \A rate \in CallerRates :
                              calculate_trust_score(a, Now, rate) \in score .. score + 20
                        /\ calculate_trust_score([a EXCEPT !.sponsor_bonus = MaxSponsorBonus], Now, 0)
                               <= score + 5
    BY Zenon DEF CallerMovesScoreLittle
<1> DEFINE score == calculate_trust_score(a, Now, 0)
           sponsored == [a EXCEPT !.sponsor_bonus = MaxSponsorBonus]
<1>1. 0 \in Nat /\ Now \in Nat
    BY DEF Now
<1>2. Scored(a) /\ Computable(a, 0)
    <2>1. 0 <= 1000000
        OBVIOUS
    <2> QED
        BY <1>1, <2>1, ProfileScored
<1>3. score \in 0..100
    BY <1>1, <1>2, ScoreNat
<1>4. SameWork(a, sponsored) /\ a.is_hibernating = sponsored.is_hibernating
    BY DEF Profiles, SameWork
<1>5. \A rate \in CallerRates : calculate_trust_score(a, Now, rate) \in score .. score + 20
    <2> TAKE rate \in CallerRates
    <2> DEFINE other == calculate_trust_score(a, Now, rate)
    <2>1. rate \in Nat /\ 0 <= rate
        BY DEF CallerRates
    <2>2. Computable(a, rate)
        <3>1. rate <= 1000000
            BY DEF CallerRates
        <3> QED
            BY <2>1, <3>1, ProfileScored
    <2>3. other <= score + 20
        BY <1>1, <1>2, <2>1, <2>2, RateMovesScoreLittle
    <2>4. BetterRecord(a, a)
        BY <1>2 DEF BetterRecord, Scored
    <2>5. score <= other
        BY <1>1, <1>2, <2>1, <2>2, <2>4, BetterRecordScoresNoLess
    <2>6. other \in 0..100
        BY <1>1, <1>2, <2>1, <2>2, ScoreNat
    <2> HIDE DEF other, score
    <2> QED
        BY <1>3, <2>3, <2>5, <2>6 DEF other
<1> HIDE DEF sponsored
<1>6. calculate_trust_score(sponsored, Now, 0) <= score + 5
    BY <1>1, <1>2, <1>4, SponsorsAddLittle
<1> HIDE DEF score
<1> QED
    BY <1>5, <1>6 DEF score, sponsored

(* One more task never lowers the score of an agent of Profiles, one more
   lost dispute or abandoned contract never raises it, and a flag ends it
   (identity.rs, calculate_trust_score), for every number of tasks.        *)
THEOREM WorkPays == Spec => []WorkRaisesScore
<1>1. InputOK => WorkRaisesScore
    BY WorkHolds
<1> QED
    BY <1>1, InputNat, PTL

(* 70 points take 12 completed tasks and 50 take 2, of all the agents of
   Profiles.                                                               *)
THEOREM JurorsWork == Spec => []JurorsHaveWorked
<1>1. InputOK => JurorsHaveWorked
    BY JurorsHold
<1> QED
    BY <1>1, InputNat, PTL

(* The caller's rate and sponsors move the score of an agent of Profiles by
   no more than 20 and 5 points (identity.rs, calculate_trust_score).      *)
THEOREM CallersMoveLittle == Spec => []CallerMovesScoreLittle
<1>1. InputOK => CallerMovesScoreLittle
    BY CallerHolds
<1> QED
    BY <1>1, InputNat, PTL

(* Newton's loop in integer_sqrt (contract.rs) ends on the floor of the
   square root of every number.                                            *)
THEOREM SqrtExact == Spec => []SqrtIsFloor
<1>1. InputOK => SqrtIsFloor
    BY SqrtHolds DEF InputOK
<1> QED
    BY <1>1, InputNat, PTL

(* calculate_stake_factor and calculate_escrow_factor stay as close to their
   real curves and as high as is said of them, and fall, for every score.  *)
THEOREM FactorsConvex == Spec => []FactorsAreConvexCurves
<1>1. InputOK => FactorsAreConvexCurves
    BY FactorsHold DEF InputOK
<1> QED
    BY <1>1, InputNat, PTL
=============================================================================
