----------------------------- MODULE Incentives -----------------------------
(***************************************************************************)
(* The reserve that pays work rewards (work_rewards.rs) and the stakes of  *)
(* agents (stake_manager.rs), with the configuration they read.            *)
(***************************************************************************)
EXTENDS Amounts, FiniteSetsExt

CONSTANTS
    Stakers,            \* agents with an identity account
    StakeAmounts,       \* amounts an agent may stake
    Withdrawals,        \* amounts an agent may withdraw
    ReserveRatios,      \* values of reserve_ratio_bps
    BaseWorkReward, HalvingInterval,
    RewardCaps,         \* values of max_work_rewards
    RewardsReserve      \* tokens in the work rewards vault at the start

ASSUME IncentivesAssumption ==
    /\ StakeAmounts \subseteq Nat /\ Withdrawals \subseteq Nat
    /\ ReserveRatios \subseteq Nat /\ RewardCaps \subseteq Nat
    /\ BaseWorkReward \in Nat /\ RewardsReserve \in Nat /\ HalvingInterval \in Nat \ {0}

VARIABLES
    rewards,        \* the ProtocolConfig fields of work rewards
    stakes,         \* StakeManager accounts
    reserve_ratio   \* ProtocolConfig.reserve_ratio_bps

incentives == <<rewards, stakes, reserve_ratio>>

StakeManager == [exists : BOOLEAN, total_staked : Nat, liquid_reserve : Nat, lp_allocation : Nat]
NoStake == [exists |-> FALSE, total_staked |-> 0, liquid_reserve |-> 0, lp_allocation |-> 0]

WorkRewards ==
    [total_protocol_tasks : Nat, total_work_rewards_emitted : Nat, max_work_rewards : Nat]

-----------------------------------------------------------------------------
(* Work rewards *)

(* Mutation: the task under way is counted. *)
HalvingsEarly(tasks) == (tasks + 1) \div HalvingInterval

Halvings(tasks) == IF HalvingInterval > 0 THEN tasks \div HalvingInterval ELSE 0

WorkReward(tasks) == IF Halvings(tasks) >= 64 THEN 0 ELSE BaseWorkReward \div 2 ^ Halvings(tasks)

(* emit_work_reward.  A reward of zero is no error and changes nothing, so
   that the task counter stops with the last reward.                       *)
EmitWorkReward ==
    LET reward == WorkReward(rewards.total_protocol_tasks)
        emitted == rewards.total_work_rewards_emitted
        actual == Least(reward, Monus(rewards.max_work_rewards, emitted))
    IN  /\ actual > 0
        /\ emitted + actual <= RewardsReserve
        /\ rewards' = [rewards EXCEPT !.total_protocol_tasks = @ + 1,
                                      !.total_work_rewards_emitted = @ + actual]
        /\ UNCHANGED <<stakes, reserve_ratio>>

-----------------------------------------------------------------------------
(* Stakes: bookkeeping, the tokens do not move.  lp_fees_earned is never
   increased, so that harvest_lp_fees has nothing to harvest.              *)

(* Mutation: both parts are rounded down. *)
SplitRounded(amount) ==
    [liquid |-> Share(amount, reserve_ratio), lp |-> Share(amount, 10000 - reserve_ratio)]

Split(amount) == [liquid |-> Share(amount, reserve_ratio), lp |-> amount - Share(amount, reserve_ratio)]

(* deposit_stake: `init` makes the first deposit the only one.             *)
DepositStake(p, amount) ==
    /\ ~stakes[p].exists
    /\ amount > 0
    /\ Split(amount).lp >= 0
    /\ stakes' = [stakes EXCEPT ![p] =
           [exists |-> TRUE, total_staked |-> amount,
            liquid_reserve |-> Split(amount).liquid, lp_allocation |-> Split(amount).lp]]
    /\ UNCHANGED <<rewards, reserve_ratio>>

MayWithdraw(s, amount) == amount <= s.liquid_reserve /\ amount <= s.total_staked

WithdrawStake(p, amount) ==
    /\ stakes[p].exists
    /\ amount > 0
    /\ MayWithdraw(stakes[p], amount)
    /\ stakes' = [stakes EXCEPT ![p].liquid_reserve = @ - amount, ![p].total_staked = @ - amount]
    /\ UNCHANGED <<rewards, reserve_ratio>>

UpdateReserveRatio(ratio) ==
    /\ reserve_ratio' = ratio
    /\ UNCHANGED <<rewards, stakes>>

-----------------------------------------------------------------------------
IncentivesInit ==
    /\ \E cap \in RewardCaps :
          rewards = [total_protocol_tasks |-> 0, total_work_rewards_emitted |-> 0,
                     max_work_rewards |-> cap]
    /\ stakes = [p \in Stakers |-> NoStake]
    /\ reserve_ratio \in ReserveRatios

IncentivesNext ==
    \/ EmitWorkReward
    \/ \E p \in Stakers, amount \in StakeAmounts : DepositStake(p, amount)
    \/ \E p \in Stakers, amount \in Withdrawals : WithdrawStake(p, amount)
    \/ \E ratio \in ReserveRatios : UpdateReserveRatio(ratio)

IncentivesSpec == IncentivesInit /\ [][IncentivesNext]_incentives

-----------------------------------------------------------------------------
(* Type invariant: no field of a stake goes below zero. *)
IncentivesTypeOK ==
    /\ rewards \in WorkRewards
    /\ stakes \in [Stakers -> StakeManager]
    /\ reserve_ratio \in Nat

(* The rewards emitted are the schedule's: the reward halves after every
   HalvingInterval tasks, and the last one is cut at the cap.              *)
EmissionFollowsSchedule ==
    LET scheduled == MapThenSumSet(LAMBDA task : BaseWorkReward \div 2 ^ (task \div HalvingInterval),
                                   0 .. rewards.total_protocol_tasks - 1)
    IN  rewards.total_work_rewards_emitted = Least(scheduled, rewards.max_work_rewards)

(* A stake is always its liquid and its pooled part, and what was put into
   the pool cannot be withdrawn, whatever the ratio becomes later.         *)
StakeIsSplit ==
    \A p \in Stakers : stakes[p].total_staked = stakes[p].liquid_reserve + stakes[p].lp_allocation

=============================================================================
