------------------------------ MODULE MCClaims ------------------------------
(***************************************************************************)
(* The instances that refute the claims: one contract between few parties, *)
(* the scale of MCOneContract.                                             *)
(***************************************************************************)
EXTENDS Claims

F == INSTANCE Formulas

CONSTANTS r1, p1, j1, j2, j3

PartiesAndJurors == {r1, p1, j1, j2, j3}
MCScores == [a \in Registered |-> IF a \in Jurors THEN {70} ELSE {50}]
MCStakeFactor == [ts \in 0..100 |-> F!calculate_stake_factor(ts, 500)]
MCValues == {1000}
MCJurySize == [v \in MCValues \cup {0} |-> F!PublicJurySize(v)]
MCFees == [cur \in {"Sworn", "Sol"} |-> IF cur = "Sol" THEN 100 ELSE 50]
PayeesOnly == {Direct}

(* The insurance pool's share goes to another account. *)
UncheckedInsurance == {Direct, [Direct EXCEPT !.insurance = "elsewhere"]}

Limit2 == [max_corrections : {2}, deadline_validation : {1}, protocol_fee_bps : {MCFees}]
=============================================================================
