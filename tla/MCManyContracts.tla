-------------------------- MODULE MCManyContracts --------------------------
(***************************************************************************)
(* One provider, several contracts at once: exposure limit, a trust score  *)
(* that falls and rises, hibernation, maturation, and a provider that is   *)
(* its own requester.  Disputes are opened and resolved by the admin,      *)
(* never escalated, and only the provider hibernates, in the first period: *)
(* the product of two full disputes is out of reach.                       *)
(***************************************************************************)
EXTENDS TrustProtocol

F == INSTANCE Formulas

CONSTANTS r1, p1

MCAgents == {r1, p1}
MCProviders == {p1}
MCScores == [a \in Registered |-> IF a \in Providers THEN {0, 10} ELSE {50}]
MCStakeFactor == [ts \in 0..100 |-> F!calculate_stake_factor(ts, 500)]
MCValues == {1000}
MCJurySize == [v \in MCValues \cup {0} |-> F!PublicJurySize(v)]
MCFees == [cur \in {"Sworn", "Sol"} |-> IF cur = "Sol" THEN 100 ELSE 50]
PayeesOnly == {Direct}

MCConfigs == [max_corrections : {1}, deadline_validation : {1}, protocol_fee_bps : {MCFees}]

UnescalatedNext ==
    \/ LifecycleNext
    \/ \E c \in ContractIds : Initiate(c) \/ \E verdict \in BOOLEAN : Resolve(c, verdict)
    \/ \E a \in Providers :
          \/ CalculateTrustScore(a) \/ Wake(a) \/ ExpireHibernation(a) \/ ForceMature(a)
          \/ now = 1 /\ \E duration \in HibernationTimes : Hibernate(a, duration)
    \/ Tick

UnescalatedSpec == Init /\ [][UnescalatedNext]_vars
=============================================================================
