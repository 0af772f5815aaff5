----------------------------- MODULE MCProgress -----------------------------
(***************************************************************************)
(* One contract and a small jury, without symmetry.                        *)
(***************************************************************************)
EXTENDS Progress

F == INSTANCE Formulas

CONSTANTS r1, p1, j1, j2

MCAgents == {r1, p1, j1, j2}
MCScores == [a \in Registered |-> IF a \in Jurors THEN {70} ELSE {50}]
MCStakeFactor == [ts \in 0..100 |-> F!calculate_stake_factor(ts, 500)]
MCValues == {1000}
MCJurySize == [v \in MCValues \cup {0} |-> F!PublicJurySize(v)]
MCFees == [cur \in {"Sworn", "Sol"} |-> IF cur = "Sol" THEN 100 ELSE 50]
MCRoutes == {Direct, [Direct EXCEPT !.requester = "vault", !.provider = "vault"]}

MCConfigs == [max_corrections : {1}, deadline_validation : {1}, protocol_fee_bps : {MCFees}]
=============================================================================
