----------------------------- MODULE MCTreasury -----------------------------
(***************************************************************************)
(* Two contracts with claims on one pool; the cap of a claim is the whole  *)
(* pool instead of a 20th, so that two claims exhaust it, and the schedule *)
(* of rewards ends after a few halvings.  The pool and the incentives      *)
(* share no account: their steps commute, and all orders of them are       *)
(* covered by those in which one part moves and the other rests.           *)
(***************************************************************************)
EXTENDS InsurancePool, Incentives, TLC

Symmetry == Permutations(Contracts) \cup Permutations(Stakers)

Init == InsuranceInit /\ IncentivesInit

InsuranceRests == now = 1 /\ deposits = 0 /\ \A c \in Contracts : resolved_at[c] = 0

IncentivesRest == rewards.total_protocol_tasks = 0 /\ \A p \in Stakers : ~stakes[p].exists

Next ==
    \/ IncentivesRest /\ InsuranceNext /\ UNCHANGED incentives
    \/ InsuranceRests /\ IncentivesNext /\ UNCHANGED insurance

Spec == Init /\ [][Next]_<<insurance, incentives>>

(* Type invariant of both parts: no balance, stake or counter of the pool,
   its claims, the rewards and the stakes goes below zero.                 *)
TreasuryTypeOK == InsuranceTypeOK /\ IncentivesTypeOK
=============================================================================
