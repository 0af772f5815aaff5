------------------------------ MODULE Formulas ------------------------------
(***************************************************************************)
(* The integer formulas of contract.rs and dispute.rs that turn a trust    *)
(* score or a contract value into rates and jury sizes.                    *)
(***************************************************************************)
EXTENDS Amounts

(* Mutation: the loop body runs once. *)
SingleNewtonStep(n) ==
    LET x == (n + 1) \div 2 IN IF n = 0 THEN 0 ELSE (x + n \div x) \div 2

(* Newton's method from above: the loop runs while the estimate decreases. *)
integer_sqrt(n) ==
    LET descend[x \in 1..n] ==
            LET y == (x + n \div x) \div 2
            IN  IF y < x THEN descend[y] ELSE x
    IN  IF n = 0 THEN 0
        ELSE IF (n + 1) \div 2 < n THEN descend[(n + 1) \div 2] ELSE n

Cubed(ts) == ts * ts * ts

(* Mutation: divided before it is multiplied. *)
StakeFactorRounded(trust_score, min_bps) ==
    IF trust_score >= 100 THEN min_bps
    ELSE Most(10000 - 9500 * (integer_sqrt(Cubed(trust_score)) \div 1000), min_bps)

(* 10000 at score 0, the floor min_bps at 100, convex between.             *)
calculate_stake_factor(trust_score, min_bps) ==
    IF trust_score >= 100 THEN min_bps
    ELSE IF trust_score = 0 THEN 10000
    ELSE Most(Most(10000 - (9500 * integer_sqrt(Cubed(trust_score))) \div 1000, 0), min_bps)

(* The share of the value a requester is told to escrow; never called by
   the program, the client passes its result as an argument.               *)
calculate_escrow_factor(trust_score) ==
    IF trust_score = 0 THEN 10000
    ELSE IF trust_score >= 100 THEN 3000
    ELSE Most(Most(10000 - (7000 * integer_sqrt(Cubed(trust_score))) \div 1000, 0), 3000)

(* Jurors of a public jury, by contract value in millionths of a token.    *)
PublicJurySize(value) ==
    IF value < 100000000 THEN 3 ELSE IF value < 1000000000 THEN 5 ELSE 7
=============================================================================
