----------------------------- MODULE TrustScore -----------------------------
(***************************************************************************)
(* The trust score of an agent (identity.rs), as a function of its         *)
(* AgentIdentity account, of the clock in months of 30 days, and of the    *)
(* rate at which the caller converts SOL volume.                           *)
(***************************************************************************)
EXTENDS Amounts

(* 10000 log10(m / 10) for m = 10, 11, ..., 99.                            *)
MantissaTable ==
    <<0,  414,  792, 1139, 1461, 1761, 2041, 2304, 2553, 2788,
      3010, 3222, 3424, 3617, 3802, 3979, 4150, 4314, 4472, 4624,
      4771, 4914, 5051, 5185, 5315, 5441, 5563, 5682, 5798, 5911,
      6021, 6128, 6232, 6335, 6435, 6532, 6628, 6721, 6812, 6902,
      6990, 7076, 7160, 7243, 7324, 7404, 7482, 7559, 7634, 7709,
      7782, 7853, 7924, 7993, 8062, 8129, 8195, 8261, 8325, 8388,
      8451, 8513, 8573, 8633, 8692, 8751, 8808, 8865, 8921, 8976,
      9031, 9085, 9138, 9191, 9243, 9294, 9345, 9395, 9445, 9494,
      9542, 9590, 9638, 9685, 9731, 9777, 9823, 9868, 9912, 9956>>

(* n without its last k digits, in two steps so that the powers are small. *)
Leading(n, k) == IF k <= 9 THEN n \div 10 ^ k ELSE (n \div 10 ^ 9) \div 10 ^ (k - 9)

(* n has k + 1 decimal digits.                                             *)
FloorLog10(n) == CHOOSE k \in 0..19 : Leading(n, k) \in 1..9

(* Mutation: the number of digits is taken for the logarithm. *)
DigitCountLog(n) ==
    LET k == FloorLog10(n)
        mantissa == IF k = 0 THEN 10 * n ELSE Leading(n, k - 1)
    IN  IF n = 0 THEN 0 ELSE (k + 1) * 10000 + MantissaTable[mantissa - 9]

(* 10000 log10(n), from the first two digits of n.                         *)
integer_log10_bps(n) ==
    LET k == FloorLog10(n)
        mantissa == IF k = 0 THEN 10 * n ELSE Leading(n, k - 1)
    IN  IF n = 0 THEN 0 ELSE k * 10000 + MantissaTable[mantissa - 9]

(* The SOL volume counts as much as the caller's rate says.                *)
TotalVolume(a, rate) == a.volume_processed + a.volume_sol * rate

TaskFactor(a) == Least(integer_log10_bps(a.tasks_completed + 1) \div 3, 10000)

(* Mutation: the factor is not capped. *)
VolumeFactorUncapped(a, rate) == integer_log10_bps(TotalVolume(a, rate) + 1) \div 6

VolumeFactor(a, rate) == Least(integer_log10_bps(TotalVolume(a, rate) + 1) \div 6, 10000)

(* Mutation: the ramp is forgotten. *)
QualityFactorAtOnce(a) ==
    LET corrections == Least((a.corrections_received * 10000) \div Most(a.total_deliveries, 1), 10000)
        losses == Least((a.disputes_lost * 10000) \div Most(a.tasks_completed, 1), 10000)
    IN  Monus(10000, 2 * corrections + 5 * losses)

(* Full quality is reached after 20 tasks.                                 *)
QualityFactor(a) ==
    LET corrections == Least((a.corrections_received * 10000) \div Most(a.total_deliveries, 1), 10000)
        losses == Least((a.disputes_lost * 10000) \div Most(a.tasks_completed, 1), 10000)
        ramp == Least((a.tasks_completed * 10000) \div 20, 10000)
    IN  (Monus(10000, 2 * corrections + 5 * losses) * ramp) \div 10000

AgeFactor(a, now) == Least((Most(now - a.registered_at, 0) * 10000) \div 24, 10000)

SponsorFactor(a) == IF a.sponsor_bonus > 0 THEN 10000 ELSE 0

BaseScore(a, now, rate) ==
    Least((TaskFactor(a) * 30 + VolumeFactor(a, rate) * 20 + QualityFactor(a) * 25
           + AgeFactor(a, now) * 20 + SponsorFactor(a) * 5) \div 10000, 100)

(* Mutation: the penalties are weighed by all that was tried. *)
PenaltyByOutcomes(a) ==
    LET ended == Most(a.tasks_completed + a.disputes_lost + a.tasks_abandoned, 1)
    IN  (150 * a.disputes_lost) \div ended + (50 * a.tasks_abandoned) \div ended

Penalty(a) ==
    LET tasks == Most(a.tasks_completed, 1)
    IN  (50 * a.disputes_lost) \div tasks + (150 * a.tasks_abandoned) \div tasks
        + a.dispute_friction_total \div 2

(* Months since the last task weigh a quarter if the agent hibernates when
   the score is computed.                                                  *)
Decay(a, now) ==
    LET months == Most(now - a.last_task_completed_at, 0)
    IN  IF a.last_task_completed_at = 0 THEN 0
        ELSE Least(IF a.is_hibernating THEN months \div 2 ELSE months * 2, 40)

(* Mutation: the fraud flag is one more penalty. *)
FlagAsPenalty(a, now, rate) ==
    Monus(Monus(BaseScore(a, now, rate), Penalty(a) + a.fraud_flags), Decay(a, now))

(* Mutation: the penalties are not saturated. *)
ScoreUnsaturated(a, now, rate) ==
    IF a.fraud_flags > 0 THEN 0
    ELSE BaseScore(a, now, rate) - Penalty(a) - Decay(a, now)

calculate_trust_score(a, now, rate) ==
    IF a.fraud_flags > 0 THEN 0
    ELSE Monus(Monus(BaseScore(a, now, rate), Penalty(a)), Decay(a, now))
=============================================================================
