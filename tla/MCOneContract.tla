--------------------------- MODULE MCOneContract ---------------------------
(***************************************************************************)
(* One contract, all of its lifecycle and of its dispute, up to the        *)
(* decision of an appeal.  Time is scaled: one unit is the 72 hours of     *)
(* deadline_validation, and the dispute windows keep their order           *)
(* (3 < 5 < 7 < 10 days).  The juries are scaled with it, to 3 and 5.      *)
(***************************************************************************)
EXTENDS TrustProtocol, TLC

F == INSTANCE Formulas

CONSTANTS r1, u1, p1, j1, j2, j3, j4

MCParties == {r1, p1}
AllRequesters == {r1, u1}
WithUnregistered == MCParties \cup {u1}
MCAgents == MCParties \cup {j1, j2, j3, j4}
MCJurors == {j1, j2, j3, j4}
MCRequesters == {r1}
MCProviders == {p1}
MCScores == [a \in Registered |-> IF a \in MCJurors THEN {70} ELSE {50}]
MCStakeFactor == [ts \in 0..100 |-> F!calculate_stake_factor(ts, 500)]
MCValues == {1000}
MCJurySize == [v \in MCValues \cup {0} |-> F!PublicJurySize(v)]
MCFees == [cur \in {"Sworn", "Sol"} |-> IF cur = "Sol" THEN 100 ELSE 50]
SteadyConfig == [max_corrections : {2}, deadline_validation : {1}, protocol_fee_bps : {MCFees}]
HigherFees == [cur \in {"Sworn", "Sol"} |-> IF cur = "Sol" THEN 11000 ELSE 300]
ChangingConfig ==
    {[max_corrections |-> 1, deadline_validation |-> 1, protocol_fee_bps |-> MCFees],
     [max_corrections |-> 2, deadline_validation |-> 1, protocol_fee_bps |-> HigherFees]}

(* The escrow itself and a stranger's account instead of the payees'. *)
Astray ==
    [requester |-> "vault", provider |-> "vault",
     treasury |-> "vault", insurance |-> "elsewhere"]

MCRoutes == {Direct, Astray}

Symmetry == Permutations(MCJurors)
=============================================================================
