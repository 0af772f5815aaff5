----------------------------- MODULE MCFormulas -----------------------------
(***************************************************************************)
(* The formulas over a range of inputs, one state per input: a trust       *)
(* score or a number of tasks.  ts^3 is compared with squares, so *)
(* that the reference is exact.                                            *)
(***************************************************************************)
EXTENDS Formulas, TrustScore, FiniteSetsExt

CONSTANT MaxInput    \* bound: last input tried

(* Numbers of up to 19 digits: all whose logarithm the program can compute. *)
ASSUME InputAssumption == MaxInput \in Nat /\ Leading(MaxInput + 2, 18) < 10

VARIABLE input

Init == input = 0
Next == input < MaxInput /\ input' = input + 1
Spec == Init /\ [][Next]_input

(* Newton's loop of integer_sqrt ends on the floor of the square root, for
   every small input and for the cubes it is used on.                      *)
SqrtIsFloor ==
    \A n \in {input} \cup (IF input <= 100 THEN {Cubed(input)} ELSE {}) :
        LET s == integer_sqrt(n) IN s * s <= n /\ n < (s + 1) * (s + 1)

(* calculate_stake_factor is max(5%, 1 - 0.95 (ts/100)^1.5) to 11 basis
   points and calculate_escrow_factor max(30%, 1 - 0.70 (ts/100)^1.5) to 8,
   never below those floors; both fall with the score.                     *)
FactorsAreConvexCurves ==
    LET stake(ts) == calculate_stake_factor(ts, 500)
        escrow(ts) == calculate_escrow_factor(ts)
        s == 10000 - stake(input)
        e == 10000 - escrow(input)
    IN  /\ input < 100 => /\ 4 * s * s <= 361 * Cubed(input)
                          /\ 4 * (s + 11) * (s + 11) > 361 * Cubed(input)
                          /\ e * e <= 49 * Cubed(input)
                          /\ (e + 8) * (e + 8) > 49 * Cubed(input)
        /\ stake(input) \in 500..10000 /\ stake(input) >= stake(input + 1)
        /\ escrow(input) \in 3000..10000 /\ escrow(input) >= escrow(input + 1)

Difference(a, b) == IF a < b THEN b - a ELSE a - b

(* integer_log10_bps is a logarithm to two digits: it grows, ten times the
   argument adds exactly 10000, and a product adds up to 415 basis points. *)
LogIsLogarithm ==
    input > 0 =>
        LET log == integer_log10_bps(input)
        IN  /\ integer_log10_bps(10 * input) = log + 10000
            /\ integer_log10_bps(input + 1) >= log
            /\ \A b \in 1..99 :
                  Difference(integer_log10_bps(input * b), log + integer_log10_bps(b)) <= 415

(* Agents after `input` tasks: all of one age, with or without a sponsor,
   lost disputes, abandoned contracts, corrections and private rounds.     *)
Profiles ==
    [tasks_completed : {input}, volume_processed : {0, 1000000}, volume_sol : {0, 40},
     total_deliveries : {input + 3}, corrections_received : {0, 3}, disputes_lost : {0, 1, 2},
     tasks_abandoned : {0, 2}, dispute_friction_total : {0, 5}, registered_at : {1},
     sponsor_bonus : {0, 9}, fraud_flags : {0}, last_task_completed_at : {0, 20},
     is_hibernating : {FALSE}]

Now == 25    \* two years after registration

CallerRates == {1, 1000, 1000000}
MaxSponsorBonus == 65535

(* The score stays in 0..100, one more task never lowers it, one more lost
   dispute or abandoned contract never raises it, and a flagged agent has
   none, although four counters are divided by one another.                *)
WorkRaisesScore ==
    \A a \in Profiles :
        LET score == calculate_trust_score(a, Now, 1)
        IN  /\ score \in 0..100
            /\ calculate_trust_score([a EXCEPT !.tasks_completed = @ + 1], Now, 1) >= score
            /\ calculate_trust_score([a EXCEPT !.disputes_lost = @ + 1], Now, 1) <= score
            /\ calculate_trust_score([a EXCEPT !.tasks_abandoned = @ + 1], Now, 1) <= score
            /\ calculate_trust_score([a EXCEPT !.fraud_flags = 1], Now, 1) = 0

(* Age, volume and a sponsor alone do not make a juror: 70 points take 12
   completed tasks, and the 50 points of a sponsor take 2.                 *)
JurorsHaveWorked ==
    \A a \in Profiles :
        LET score == calculate_trust_score(a, Now, 1000000)
        IN  /\ score >= 70 => input >= 12
            /\ score >= 50 => input >= 2

(* Whoever calls calculate_trust_score chooses the rate of SOL volume: no
   choice moves the score by more than the 20 points of the volume factor.
   Sponsors, however many, add no more than 5.                             *)
CallerMovesScoreLittle ==
    \A a \in Profiles :
        LET score == calculate_trust_score(a, Now, 0)
        IN  /\ \A rate \in CallerRates :
                  calculate_trust_score(a, Now, rate) \in score .. score + 20
            /\ calculate_trust_score([a EXCEPT !.sponsor_bonus = MaxSponsorBonus], Now, 0) <= score + 5
=============================================================================
