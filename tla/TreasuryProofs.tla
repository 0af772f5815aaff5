--------------------------- MODULE TreasuryProofs ---------------------------
(***************************************************************************)
(* The insurance pool, the work rewards and the stakes, for every number   *)
(* of contracts, every amount and every bound: types, ClaimPaidOnce,       *)
(* BooksMatchVault, ActiveClaimsCounted, StakeIsSplit and                  *)
(* EmissionFollowsSchedule.                                                *)
(***************************************************************************)
EXTENDS MCTreasury, SumLemmas

LEMMA ShareNat ==
    ASSUME NEW amount \in Nat, NEW bps \in Nat
    PROVE  Share(amount, bps) \in Nat
<1>1. amount * bps \in Nat
    OBVIOUS
<1> DEFINE product == amount * bps
<1>2. product \div 10000 \in Nat
    <2> HIDE DEF product
    <2>1. product \in Nat
        BY <1>1 DEF product
    <2> QED
        BY <2>1
<1> QED
    BY <1>2 DEF Share

-----------------------------------------------------------------------------
(* Stakes *)

StakesInv == IncentivesTypeOK /\ StakeIsSplit

LEMMA InitStakes ==
    ASSUME IncentivesInit
    PROVE  StakesInv
<1>1. IncentivesTypeOK
    BY IncentivesAssumption DEF IncentivesInit, IncentivesTypeOK, WorkRewards, StakeManager, NoStake
<1>2. StakeIsSplit
    BY DEF IncentivesInit, StakeIsSplit, NoStake
<1> QED
    BY <1>1, <1>2 DEF StakesInv

LEMMA DepositSplit ==
    ASSUME StakesInv, NEW p \in Stakers, NEW amount \in StakeAmounts, DepositStake(p, amount)
    PROVE  StakesInv'
<1>1. amount \in Nat /\ reserve_ratio \in Nat
    BY IncentivesAssumption DEF StakesInv, IncentivesTypeOK
<1> DEFINE liquid == Share(amount, reserve_ratio)
           lp == amount - liquid
           s == [exists |-> TRUE, total_staked |-> amount, liquid_reserve |-> liquid,
                 lp_allocation |-> lp]
<1>2. liquid \in Nat
    BY <1>1, ShareNat
<1>3. Split(amount).liquid = liquid /\ Split(amount).lp = lp
    BY DEF Split
<1>4. stakes' = [stakes EXCEPT ![p] = s] /\ lp >= 0 /\ UNCHANGED <<rewards, reserve_ratio>>
    BY <1>3 DEF DepositStake
<1> HIDE DEF liquid
<1>5. lp \in Nat /\ amount = liquid + lp
    BY <1>1, <1>2, <1>4
<1> HIDE DEF lp
<1>6. s \in StakeManager
    BY <1>1, <1>2, <1>5 DEF StakeManager
<1>7. s.total_staked = s.liquid_reserve + s.lp_allocation
    BY <1>5
<1> HIDE DEF s
<1> QED
    BY <1>4, <1>6, <1>7 DEF StakesInv, IncentivesTypeOK, StakeIsSplit

LEMMA WithdrawSplit ==
    ASSUME StakesInv, NEW p \in Stakers, NEW amount \in Withdrawals, WithdrawStake(p, amount)
    PROVE  StakesInv'
<1> DEFINE old == stakes[p]
           s == [old EXCEPT !.liquid_reserve = @ - amount, !.total_staked = @ - amount]
<1>1. amount \in Nat /\ old \in StakeManager
    BY IncentivesAssumption DEF StakesInv, IncentivesTypeOK
<1>2. stakes' = [stakes EXCEPT ![p] = s] /\ UNCHANGED <<rewards, reserve_ratio>>
    BY <1>1 DEF WithdrawStake, StakesInv, IncentivesTypeOK
<1>3. /\ amount <= old.liquid_reserve /\ amount <= old.total_staked
      /\ old.total_staked = old.liquid_reserve + old.lp_allocation
    BY DEF WithdrawStake, MayWithdraw, StakesInv, StakeIsSplit
<1> HIDE DEF old
<1> DEFINE liquid == old.liquid_reserve - amount
           total == old.total_staked - amount
<1>6. liquid \in Nat /\ total \in Nat /\ total = liquid + old.lp_allocation
    BY <1>1, <1>3 DEF StakeManager
<1>7. s = [old EXCEPT !.liquid_reserve = liquid, !.total_staked = total]
    BY <1>1 DEF StakeManager
<1> HIDE DEF liquid, total, s
<1>4. s \in StakeManager
    BY <1>1, <1>6, <1>7 DEF StakeManager
<1>5. s.total_staked = s.liquid_reserve + s.lp_allocation
    BY <1>1, <1>6, <1>7 DEF StakeManager
<1> QED
    BY <1>2, <1>4, <1>5 DEF StakesInv, IncentivesTypeOK, StakeIsSplit

LEMMA NextStakes ==
    ASSUME StakesInv, [IncentivesNext]_incentives,
           ~ EmitWorkReward
    PROVE  StakesInv'
<1>1. CASE \E p \in Stakers, amount \in StakeAmounts : DepositStake(p, amount)
    BY <1>1, DepositSplit
<1>2. CASE \E p \in Stakers, amount \in Withdrawals : WithdrawStake(p, amount)
    BY <1>2, WithdrawSplit
<1>3. CASE \E ratio \in ReserveRatios : UpdateReserveRatio(ratio)
    BY <1>3, IncentivesAssumption
    DEF UpdateReserveRatio, StakesInv, IncentivesTypeOK, StakeIsSplit
<1>4. CASE UNCHANGED incentives
    BY <1>4 DEF incentives, StakesInv, IncentivesTypeOK, StakeIsSplit
<1> QED
    BY <1>1, <1>2, <1>3, <1>4 DEF IncentivesNext

-----------------------------------------------------------------------------
(* Work rewards *)

(* As many as there are sets of numbers up to n. *)
LEMMA PowerOfTwo ==
    ASSUME NEW n \in Nat
    PROVE  2 ^ n \in Nat \ {0}
<1> DEFINE S == 1..n
<1>1. IsFiniteSet(S) /\ Cardinality(S) = n
    BY FS_Interval
<1> HIDE DEF S
<1>2. IsFiniteSet(SUBSET S) /\ Cardinality(SUBSET S) = 2 ^ n
    BY <1>1, FS_SUBSET
<1>3. SUBSET S # {}
    OBVIOUS
<1> QED
    BY <1>2, <1>3, FS_CardinalityType, FS_EmptySet

(* The reward the schedule has for a task. *)
RewardOf(task) == BaseWorkReward \div 2 ^ (task \div HalvingInterval)

Schedule == [task \in Nat |-> RewardOf(task)]

Scheduled(tasks) == SumOf(Schedule, 0 .. tasks - 1)

LEMMA RewardNat ==
    ASSUME NEW task \in Nat
    PROVE  RewardOf(task) \in Nat
<1> DEFINE halvings == task \div HalvingInterval
           power == 2 ^ halvings
<1>1. halvings \in Nat
    BY IncentivesAssumption
<1>2. power \in Nat \ {0}
    BY <1>1, PowerOfTwo
<1> HIDE DEF power
<1>3. BaseWorkReward \div power \in Nat
    BY <1>2, IncentivesAssumption
<1> QED
    BY <1>3 DEF RewardOf, power

(* The sum as EmissionFollowsSchedule writes it.                           *)
LEMMA ScheduledIsSum ==
    ASSUME NEW tasks \in Nat
    PROVE  Scheduled(tasks) =
              MapThenSumSet(LAMBDA task : BaseWorkReward \div 2 ^ (task \div HalvingInterval),
                            0 .. tasks - 1)
<1> DEFINE T == 0 .. tasks - 1
           body(g) == [s \in SUBSET T |-> IF s = {} THEN 0
                          ELSE RewardOf(Pick(s)) + g[s \ {Pick(s)}]]
<1>1. ASSUME NEW g PROVE IsSum(g, Schedule, T) <=> g = body(g)
    <2>1. \A s \in SUBSET T : s # {} => Schedule[Pick(s)] = RewardOf(Pick(s))
        <3>1. T \subseteq Nat
            OBVIOUS
        <3> HIDE DEF T
        <3> QED
            BY <3>1, PickIn DEF Schedule
    <2> DEFINE other(h) == [s \in SUBSET T |-> IF s = {} THEN 0
                          ELSE Schedule[Pick(s)] + h[s \ {Pick(s)}]]
    <2>2. other(g) = body(g)
        <3> HIDE DEF T
        <3> QED
            BY <2>1
    <2> QED
        BY <2>2 DEF IsSum
<1>2. (CHOOSE g : IsSum(g, Schedule, T)) = (CHOOSE g : g = body(g))
    <2> HIDE DEF T, body
    <2> QED
        BY <1>1
<1>3. MapThenSumSet(LAMBDA task : BaseWorkReward \div 2 ^ (task \div HalvingInterval), T)
          = (CHOOSE g : g = body(g))[T]
    BY DEF MapThenSumSet, MapThenFoldSet, Pick, RewardOf
<1> QED
    BY <1>2, <1>3 DEF Scheduled, SumOf, Folding

LEMMA ScheduledFacts ==
    ASSUME NEW tasks \in Nat
    PROVE  /\ Scheduled(tasks) \in Nat
           /\ Scheduled(tasks + 1) = Scheduled(tasks) + RewardOf(tasks)
<1> DEFINE T == 0 .. tasks - 1
<1>1. IsFiniteSet(T) /\ tasks \notin T /\ T \cup {tasks} = 0 .. (tasks + 1) - 1 /\ T \subseteq Nat
    BY FS_Interval
<1>2. \A task \in Nat : Schedule[task] = RewardOf(task) /\ Schedule[task] \in Nat
    BY RewardNat DEF Schedule
<1> HIDE DEF T
<1>3. SumOf(Schedule, T) \in Nat
    BY <1>1, <1>2, SumNat
<1>4. SumOf(Schedule, T \cup {tasks}) = Schedule[tasks] + SumOf(Schedule, T)
    <2>1. \A y \in T \cup {tasks} : Schedule[y] \in Int
        BY <1>1, <1>2
    <2> QED
        BY <1>1, <2>1, SumInsert
<1>5. RewardOf(tasks) \in Nat
    BY RewardNat
<1>6. Scheduled(tasks) = SumOf(Schedule, T)
    BY DEF Scheduled, T
<1>7. Scheduled(tasks + 1) = SumOf(Schedule, T \cup {tasks})
    BY <1>1 DEF Scheduled
<1>8. Scheduled(tasks + 1) = RewardOf(tasks) + Scheduled(tasks)
    BY <1>2, <1>4, <1>6, <1>7
<1>9. Scheduled(tasks) \in Nat
    BY <1>3, <1>6
<1> DEFINE before == Scheduled(tasks)
           reward == RewardOf(tasks)
<1> HIDE DEF before, reward
<1>10. reward + before = before + reward
    BY <1>5, <1>9 DEF before, reward
<1> QED
    BY <1>8, <1>9, <1>10 DEF before, reward

RewardsInv ==
    /\ StakesInv
    /\ rewards.total_work_rewards_emitted
          = Least(Scheduled(rewards.total_protocol_tasks), rewards.max_work_rewards)

LEMMA EmitOnSchedule ==
    ASSUME RewardsInv, EmitWorkReward
    PROVE  RewardsInv'
<1> DEFINE tasks == rewards.total_protocol_tasks
           emitted == rewards.total_work_rewards_emitted
           limit == rewards.max_work_rewards
           reward == RewardOf(tasks)
           actual == Least(WorkReward(tasks), Monus(limit, emitted))
           before == Scheduled(tasks)
           after == Scheduled(tasks + 1)
<1>1. rewards \in WorkRewards /\ emitted = Least(before, limit)
    BY DEF RewardsInv, StakesInv, IncentivesTypeOK
<1>2. tasks \in Nat /\ emitted \in Nat /\ limit \in Nat
    BY <1>1 DEF WorkRewards
<1>3. /\ actual > 0
      /\ rewards' = [rewards EXCEPT !.total_protocol_tasks = tasks + 1,
                                    !.total_work_rewards_emitted = emitted + actual]
      /\ UNCHANGED <<stakes, reserve_ratio>>
    BY <1>1 DEF EmitWorkReward, WorkRewards
<1>4. reward \in Nat
    BY <1>2, RewardNat
<1>5. before \in Nat /\ after = before + reward
    BY <1>2, ScheduledFacts
<1>6. WorkReward(tasks) = 0 \/ WorkReward(tasks) = reward
    BY IncentivesAssumption DEF WorkReward, Halvings, RewardOf
<1> HIDE DEF reward, before, after, tasks, emitted, limit
<1>7. actual \in Nat
    BY <1>2, <1>4, <1>6 DEF Least, Monus
<1>8. WorkReward(tasks) = reward
    BY <1>2, <1>3, <1>6 DEF Least, Monus
<1>9. emitted < limit
    BY <1>2, <1>3, <1>4, <1>8 DEF Least, Monus
<1>10. emitted = before
    BY <1>1, <1>2, <1>5, <1>9 DEF Least
<1>11. emitted + actual = Least(after, limit)
    BY <1>2, <1>4, <1>5, <1>8, <1>9, <1>10 DEF Least, Monus
<1> HIDE DEF actual
<1> DEFINE total == emitted + actual
           count == tasks + 1
<1>12. total \in Nat /\ count \in Nat
    BY <1>2, <1>7
<1>13. after = Scheduled(count)
    BY DEF after
<1>14. rewards' = [rewards EXCEPT !.total_protocol_tasks = count,
                                 !.total_work_rewards_emitted = total]
    BY <1>3
<1>15. total = Least(after, limit)
    BY <1>11
<1> HIDE DEF total, count
<1>16. /\ rewards' \in WorkRewards /\ rewards'.max_work_rewards = limit
       /\ rewards'.total_protocol_tasks = count /\ rewards'.total_work_rewards_emitted = total
    BY <1>1, <1>12, <1>14 DEF WorkRewards, limit
<1>17. Scheduled(rewards'.total_protocol_tasks) = after
    BY <1>13, <1>16
<1>18. StakesInv'
    BY <1>3, <1>16 DEF RewardsInv, StakesInv, IncentivesTypeOK, StakeIsSplit
<1>19. RewardsInv'
       <=> /\ StakesInv'
           /\ rewards'.total_work_rewards_emitted
                 = Least(Scheduled(rewards'.total_protocol_tasks), rewards'.max_work_rewards)
    BY DEF RewardsInv, Scheduled, Schedule, RewardOf
<1> QED
    BY <1>15, <1>16, <1>17, <1>18, <1>19

LEMMA InitRewards ==
    ASSUME IncentivesInit
    PROVE  RewardsInv
<1>1. /\ rewards.total_protocol_tasks = 0 /\ rewards.total_work_rewards_emitted = 0
      /\ rewards.max_work_rewards \in Nat
    BY IncentivesAssumption DEF IncentivesInit
<1>2. 0 .. 0 - 1 = {}
    OBVIOUS
<1>3. Scheduled(0) = 0
    BY <1>2, SumEmpty DEF Scheduled
<1> QED
    BY <1>1, <1>3, InitStakes DEF RewardsInv, Least

LEMMA NextRewards ==
    ASSUME RewardsInv, [IncentivesNext]_incentives
    PROVE  RewardsInv'
<1>1. CASE EmitWorkReward
    BY <1>1, EmitOnSchedule
<1>2. CASE ~ EmitWorkReward
    <2>1. rewards' = rewards
        BY <1>2 DEF IncentivesNext, DepositStake, WithdrawStake, UpdateReserveRatio, incentives
    <2>2. StakesInv'
        BY <1>2, NextStakes DEF RewardsInv
    <2> QED
        BY <2>1, <2>2 DEF RewardsInv, Scheduled, Schedule, RewardOf
<1> QED
    BY <1>1, <1>2

(* A stake is the sum of its liquid and its pooled part at every moment:
   deposit_stake rounds one part down and gives the other the rest, for any
   amount and ratio, and withdraw_stake takes from both sides at once.     *)
THEOREM StakesSplit == IncentivesSpec => []StakeIsSplit
<1>1. RewardsInv => StakeIsSplit
    BY DEF RewardsInv, StakesInv
<1> QED
    BY <1>1, InitRewards, NextRewards, PTL DEF IncentivesSpec

(* What emit_work_reward pays is the halving schedule to the unit, cut at
   the cap, whatever the base reward, the interval and the cap: a reward
   that is refused or cut never moves the schedule.                        *)
THEOREM EmissionOnSchedule == IncentivesSpec => []EmissionFollowsSchedule
<1>1. ASSUME RewardsInv PROVE EmissionFollowsSchedule
    <2>1. rewards.total_protocol_tasks \in Nat
        BY <1>1 DEF RewardsInv, StakesInv, IncentivesTypeOK, WorkRewards
    <2> QED
        BY <1>1, <2>1, ScheduledIsSum DEF RewardsInv, EmissionFollowsSchedule
<1> QED
    BY <1>1, InitRewards, NextRewards, PTL DEF IncentivesSpec

-----------------------------------------------------------------------------
(* Claims *)

MostPaid == Share(ContractValue, MaxClaimPayoutBps)

(* What the requester of c gets at most: its collateral too, if it kept it. *)
MostGot(c) == MostPaid + (IF c \in kept THEN claims[c].collateral ELSE 0)

(* Accounts that may stand for the insurance vault. *)
Named == {"vault", "claimant", "other"}

(* What a claim has been through, as its accounts tell. *)
ClaimStands(c) ==
    /\ claims[c].status = "None" =>
          claims[c] = NoClaim /\ gain[c] = 0 /\ rulings[c] = 0 /\ c \notin kept
    /\ claims[c].status = "Filed" =>
          /\ gain[c] = IF c \in kept THEN 0 ELSE 0 - claims[c].collateral
          /\ claims[c].amount <= MostPaid /\ rulings[c] = 0
    /\ claims[c].status \in {"Approved", "Denied"} =>
          gain[c] + claims[c].collateral >= 0 /\ gain[c] <= MostGot(c) /\ rulings[c] > 0

(* What the vault would hold, had every transfer gone where the books show. *)
Held == vault + missing - surplus

ClaimsInv == InsuranceTypeOK /\ \A c \in Contracts : ClaimStands(c)

LEMMA MostPaidNat == MostPaid \in Nat
BY ShareNat, PoolAssumption DEF MostPaid

LEMMA InitClaims ==
    ASSUME InsuranceInit
    PROVE  ClaimsInv
<1>1. InsuranceTypeOK
    BY PoolAssumption
    DEF InsuranceInit, InsuranceTypeOK, InsuranceClaim, NoClaim, ClaimStatus, PoolAccount
<1>2. \A c \in Contracts : ClaimStands(c)
    BY DEF InsuranceInit, ClaimStands, NoClaim
<1> QED
    BY <1>1, <1>2 DEF ClaimsInv

(* A transfer into the pool leaves natural numbers. *)
LEMMA EntersNat ==
    ASSUME ClaimsInv, NEW amount \in Nat, NEW to, Enters(amount, to)
    PROVE  vault' \in Nat /\ missing' \in Nat /\ surplus' \in Nat
BY DEF Enters, ClaimsInv, InsuranceTypeOK

LEMMA FileClaimStands ==
    ASSUME ClaimsInv, NEW c \in Contracts, NEW amount \in ClaimAmounts, NEW to \in Named,
           FileClaim(c, amount, to)
    PROVE  ClaimsInv'
<1> DEFINE collateral == amount \div 10
           claim == [status |-> "Filed", amount |-> amount, collateral |-> collateral]
           active == pool.active_claims + 1
           lost == IF to = "claimant" THEN gain[c] ELSE gain[c] - collateral
<1>1. amount \in Nat
    BY PoolAssumption
<1>2. collateral \in Nat
    BY <1>1
<1>3. /\ claims[c].status = "None" /\ amount <= MostPaid
      /\ claims' = [claims EXCEPT ![c] = claim]
      /\ Enters(collateral, to)
      /\ gain' = [gain EXCEPT ![c] = lost]
      /\ kept' = IF to = "claimant" THEN kept \cup {c} ELSE kept
      /\ pool' = [pool EXCEPT !.active_claims = active]
      /\ UNCHANGED <<now, resolved_at, deposits, rulings, fraud_flags>>
    BY DEF FileClaim, FileAccounts, MostPaid, ClaimsInv, InsuranceTypeOK, PoolAccount
<1> HIDE DEF collateral
<1>11. vault' \in Nat /\ missing' \in Nat /\ surplus' \in Nat
    BY <1>2, <1>3, EntersNat
<1>4. claim \in InsuranceClaim
    BY <1>1, <1>2 DEF InsuranceClaim, ClaimStatus
<1>5. pool \in PoolAccount /\ gain[c] = 0 /\ rulings[c] = 0 /\ c \notin kept
    BY <1>3 DEF ClaimsInv, InsuranceTypeOK, ClaimStands
<1>6. /\ active \in Nat /\ lost \in Int
      /\ lost = IF c \in kept' THEN 0 ELSE 0 - collateral
    BY <1>2, <1>3, <1>5 DEF PoolAccount
<1> HIDE DEF active, lost
<1>7. pool' \in PoolAccount
    BY <1>3, <1>5, <1>6 DEF PoolAccount
<1>8. InsuranceTypeOK'
    <2> HIDE DEF claim
    <2> QED
        BY <1>3, <1>4, <1>6, <1>7, <1>11 DEF ClaimsInv, InsuranceTypeOK
<1>9. ClaimStands(c)'
    BY <1>3, <1>5, <1>6 DEF ClaimsInv, InsuranceTypeOK, ClaimStands
<1>10. \A x \in Contracts \ {c} : ClaimStands(x)'
    <2> HIDE DEF claim
    <2> QED
        BY <1>3 DEF ClaimsInv, InsuranceTypeOK, ClaimStands, MostGot
<1> QED
    BY <1>8, <1>9, <1>10 DEF ClaimsInv

LEMMA PayoutBounds ==
    ASSUME ClaimsInv, NEW c \in Contracts
    PROVE  /\ ClaimPayout(c) \in Nat
           /\ ClaimPayout(c) <= claims[c].amount
           /\ ClaimPayout(c) <= pool.total_balance
<1>1. claims[c].amount \in Nat /\ pool.total_balance \in Nat
    BY DEF ClaimsInv, InsuranceTypeOK, InsuranceClaim, PoolAccount
<1> QED
    BY <1>1 DEF ClaimPayout, Least

LEMMA ApproveClaimStands ==
    ASSUME ClaimsInv, NEW c \in Contracts, NEW p \in Providers, NEW from,
           ApproveClaim(c, p, from)
    PROVE  ClaimsInv'
<1> DEFINE payout == ClaimPayout(c)
           collateral == claims[c].collateral
           balance == Monus(pool.total_balance, payout)
           paid == pool.total_claims_paid + payout
           active == Monus(pool.active_claims, 1)
           got == gain[c] + payout + collateral
           ruled == rulings[c] + 1
           flags == fraud_flags[p] + 1
<1>1. /\ payout \in Nat /\ payout <= claims[c].amount
      /\ payout <= pool.total_balance
    BY PayoutBounds
<1> HIDE DEF payout
<1>2. /\ pool \in PoolAccount /\ claims[c] \in InsuranceClaim
      /\ vault \in Nat /\ missing \in Nat /\ surplus \in Nat
      /\ gain[c] \in Int /\ rulings[c] \in 0..MaxRulings /\ fraud_flags[p] \in Nat
    BY DEF ClaimsInv, InsuranceTypeOK
<1>3. /\ claims[c].status = "Filed" /\ rulings[c] < MaxRulings
      /\ claims' = [claims EXCEPT ![c].status = "Approved"]
      /\ Leaves(c, payout, from)
      /\ gain' = [gain EXCEPT ![c] = got]
      /\ pool' = [pool EXCEPT !.total_balance = balance, !.total_claims_paid = paid,
                              !.active_claims = active]
      /\ fraud_flags' = [fraud_flags EXCEPT ![p] = flags]
      /\ rulings' = [rulings EXCEPT ![c] = ruled]
      /\ UNCHANGED <<now, resolved_at, deposits, kept>>
    BY <1>2 DEF ApproveClaim, AwaitsRuling, payout, ClaimsInv, InsuranceTypeOK, PoolAccount
<1>4. /\ gain[c] = IF c \in kept THEN 0 ELSE 0 - collateral
      /\ claims[c].amount <= MostPaid /\ rulings[c] = 0
    BY <1>3 DEF ClaimsInv, ClaimStands
<1>5. collateral \in Nat /\ claims[c].amount \in Nat
    BY <1>2 DEF InsuranceClaim
<1>6. balance \in Nat /\ paid \in Nat /\ active \in Nat
    BY <1>1, <1>2 DEF PoolAccount, Monus
<1>7. vault' \in Nat /\ missing' \in Nat /\ surplus' \in Nat
    BY <1>1, <1>2, <1>3, <1>5 DEF Leaves, CanPay
<1>8. /\ got \in Int /\ got + collateral >= 0
      /\ got <= MostPaid + (IF c \in kept THEN collateral ELSE 0)
    BY <1>1, <1>2, <1>4, <1>5, MostPaidNat
<1>9. ruled \in 0..MaxRulings /\ ruled > 0 /\ flags \in Nat
    BY <1>2, <1>3, <1>4, PoolAssumption
<1> HIDE DEF balance, paid, active, got, ruled, flags
<1>10. pool' \in PoolAccount
    BY <1>2, <1>3, <1>6 DEF PoolAccount
<1>11. /\ claims' \in [Contracts -> InsuranceClaim] /\ claims'[c].status = "Approved"
       /\ claims'[c].collateral = collateral
       /\ \A x \in Contracts \ {c} : claims'[x] = claims[x]
    BY <1>2, <1>3 DEF ClaimsInv, InsuranceTypeOK, InsuranceClaim, ClaimStatus
<1> HIDE DEF collateral
<1>12. InsuranceTypeOK'
    BY <1>3, <1>7, <1>8, <1>9, <1>10, <1>11 DEF ClaimsInv, InsuranceTypeOK
<1>13. ClaimStands(c)'
    BY <1>3, <1>8, <1>9, <1>11 DEF ClaimsInv, InsuranceTypeOK, ClaimStands, MostGot
<1>14. \A x \in Contracts \ {c} : ClaimStands(x)'
    BY <1>3, <1>11 DEF ClaimsInv, InsuranceTypeOK, ClaimStands, MostGot
<1> QED
    BY <1>12, <1>13, <1>14 DEF ClaimsInv

LEMMA DenyClaimStands ==
    ASSUME ClaimsInv, NEW c \in Contracts, DenyClaim(c)
    PROVE  ClaimsInv'
<1> DEFINE collateral == claims[c].collateral
           balance == pool.total_balance + collateral
           active == Monus(pool.active_claims, 1)
           ruled == rulings[c] + 1
<1>1. /\ pool \in PoolAccount /\ claims[c] \in InsuranceClaim
      /\ gain[c] \in Int /\ rulings[c] \in 0..MaxRulings
    BY DEF ClaimsInv, InsuranceTypeOK
<1>2. /\ claims[c].status # "None" /\ rulings[c] < MaxRulings
      /\ claims' = [claims EXCEPT ![c].status = "Denied"]
      /\ pool' = [pool EXCEPT !.total_balance = balance, !.active_claims = active]
      /\ rulings' = [rulings EXCEPT ![c] = ruled]
      /\ UNCHANGED <<now, resolved_at, vault, deposits, gain, fraud_flags, kept, missing, surplus>>
    BY <1>1 DEF DenyClaim, transfers, AfterDenial, ClaimsInv, InsuranceTypeOK, PoolAccount
<1>3. collateral \in Nat
    BY <1>1 DEF InsuranceClaim
<1>4. balance \in Nat /\ active \in Nat
    BY <1>1, <1>3 DEF PoolAccount, Monus
<1>5. ruled \in 0..MaxRulings /\ ruled > 0
    BY <1>1, <1>2, PoolAssumption
<1> HIDE DEF balance, active, ruled
<1>6. pool' \in PoolAccount
    BY <1>1, <1>2, <1>4 DEF PoolAccount
<1>7. /\ claims' \in [Contracts -> InsuranceClaim] /\ claims'[c].status = "Denied"
      /\ claims'[c].collateral = collateral
      /\ \A x \in Contracts \ {c} : claims'[x] = claims[x]
    BY <1>1, <1>2 DEF ClaimsInv, InsuranceTypeOK, InsuranceClaim, ClaimStatus
<1>8. /\ gain[c] + collateral >= 0
      /\ gain[c] <= MostPaid + (IF c \in kept THEN collateral ELSE 0)
    <2>1. claims[c].status \in {"Filed", "Approved", "Denied"}
        BY <1>1, <1>2 DEF InsuranceClaim, ClaimStatus
    <2>2. \/ gain[c] = IF c \in kept THEN 0 ELSE 0 - collateral
          \/ gain[c] + collateral >= 0 /\ gain[c] <= MostGot(c)
        BY <2>1 DEF ClaimsInv, ClaimStands
    <2> QED
        BY <1>1, <1>3, <2>2, MostPaidNat DEF MostGot
<1> HIDE DEF collateral
<1>9. InsuranceTypeOK'
    BY <1>2, <1>5, <1>6, <1>7 DEF ClaimsInv, InsuranceTypeOK
<1>10. ClaimStands(c)'
    BY <1>2, <1>5, <1>7, <1>8 DEF ClaimsInv, InsuranceTypeOK, ClaimStands, MostGot
<1>11. \A x \in Contracts \ {c} : ClaimStands(x)'
    BY <1>2, <1>7 DEF ClaimsInv, InsuranceTypeOK, ClaimStands, MostGot
<1> QED
    BY <1>9, <1>10, <1>11 DEF ClaimsInv

LEMMA DepositStands ==
    ASSUME ClaimsInv, NEW amount \in Deposits, NEW to \in Named, DepositToPool(amount, to)
    PROVE  ClaimsInv'
<1> DEFINE balance == pool.total_balance + amount
           made == deposits + 1
<1>1. amount \in Nat /\ pool \in PoolAccount /\ deposits \in 0..MaxDeposits
    BY PoolAssumption DEF ClaimsInv, InsuranceTypeOK
<1>2. /\ pool' = [pool EXCEPT !.total_balance = balance] /\ Enters(amount, to)
      /\ deposits' = made /\ deposits < MaxDeposits
      /\ UNCHANGED <<now, resolved_at, claims, rulings, gain, fraud_flags, kept>>
    BY <1>1 DEF DepositToPool, PoolAccount
<1>3. balance \in Nat /\ made \in 0..MaxDeposits
    BY <1>1, <1>2, PoolAssumption DEF PoolAccount
<1>5. vault' \in Nat /\ missing' \in Nat /\ surplus' \in Nat
    BY <1>1, <1>2, EntersNat
<1> HIDE DEF balance, made
<1>4. pool' \in PoolAccount
    BY <1>1, <1>2, <1>3 DEF PoolAccount
<1> QED
    BY <1>2, <1>3, <1>4, <1>5 DEF ClaimsInv, InsuranceTypeOK, ClaimStands, MostGot

LEMMA GiftStands ==
    ASSUME ClaimsInv, NEW amount \in Deposits, Gift(amount)
    PROVE  /\ ClaimsInv'
           /\ UNCHANGED <<claims, pool, rulings>>
           /\ Held' = Held
<1>1. /\ amount \in Nat /\ deposits \in 0..MaxDeposits
      /\ vault \in Nat /\ missing \in Nat /\ surplus \in Nat
    BY PoolAssumption DEF ClaimsInv, InsuranceTypeOK
<1>2. vault' \in Nat /\ surplus' \in Nat /\ deposits' \in 0..MaxDeposits
    BY <1>1, PoolAssumption DEF Gift
<1>3. Held' = Held
    BY <1>1 DEF Gift, Held
<1> QED
    BY <1>2, <1>3 DEF Gift, ClaimsInv, InsuranceTypeOK, ClaimStands, MostGot

LEMMA OthersStand ==
    ASSUME ClaimsInv,
           \/ \E c \in Contracts : Complete(c)
           \/ \E exposure \in Exposures : UpdateExposure(exposure)
           \/ PassTime
           \/ UNCHANGED insurance
    PROVE  /\ ClaimsInv'
           /\ UNCHANGED <<claims, vault, missing, surplus, rulings>>
           /\ pool'.total_balance = pool.total_balance
           /\ pool'.active_claims = pool.active_claims
<1>1. pool \in PoolAccount /\ now \in 1..MaxTime
    BY DEF ClaimsInv, InsuranceTypeOK
<1>2. CASE \E c \in Contracts : Complete(c)
    <2>1. now \in 0..MaxTime
        BY <1>1, PoolAssumption
    <2> QED
        BY <1>2, <2>1 DEF Complete, ClaimsInv, InsuranceTypeOK, ClaimStands, MostGot, transfers
<1>3. ASSUME NEW exposure \in Exposures, UpdateExposure(exposure)
      PROVE  /\ ClaimsInv'
             /\ UNCHANGED <<claims, vault, missing, surplus, rulings>>
             /\ pool'.total_balance = pool.total_balance
             /\ pool'.active_claims = pool.active_claims
    <2>1. exposure \in Nat
        BY PoolAssumption
    <2>2. pool' = [pool EXCEPT !.total_active_exposure = exposure]
        BY <1>3 DEF UpdateExposure
    <2>3. /\ pool' \in PoolAccount
          /\ pool'.total_balance = pool.total_balance
          /\ pool'.active_claims = pool.active_claims
        BY <1>1, <2>1, <2>2 DEF PoolAccount
    <2> QED
        BY <1>3, <2>3
        DEF UpdateExposure, ClaimsInv, InsuranceTypeOK, ClaimStands, MostGot, transfers
<1>4. CASE PassTime
    <2>1. now + 1 \in 1..MaxTime
        BY <1>1, <1>4, PoolAssumption DEF PassTime
    <2> QED
        BY <1>4, <2>1 DEF PassTime, ClaimsInv, InsuranceTypeOK, ClaimStands, MostGot, transfers
<1>5. CASE UNCHANGED insurance
    BY <1>5 DEF insurance, transfers, ClaimsInv, InsuranceTypeOK, ClaimStands, MostGot
<1> QED
    BY <1>2, <1>3, <1>4, <1>5

LEMMA NextClaims ==
    ASSUME ClaimsInv, [InsuranceNext]_insurance
    PROVE  ClaimsInv'
BY FileClaimStands, ApproveClaimStands, DenyClaimStands, DepositStands, GiftStands, OthersStand
DEF InsuranceNext, Named

(* Whatever is ruled on a claim, in whatever order and however often, its
   requester gets at most the maximal payout, beside a collateral it paid to
   itself, and loses at most what it put up: approve_claim asks for a filed claim, deny_claim for nothing, and a
   denial after a payment takes nothing back.                              *)
THEOREM ClaimsPaidOnce == InsuranceSpec => []ClaimPaidOnce
<1>1. ASSUME ClaimsInv PROVE ClaimPaidOnce
    <2> SUFFICES ASSUME NEW c \in Contracts
                 PROVE  gain[c] >= -claims[c].collateral /\ gain[c] <= MostGot(c)
        BY DEF ClaimPaidOnce, MostPaid, MostGot
    <2> DEFINE collateral == claims[c].collateral
    <2>1. gain[c] \in Int /\ claims[c] \in InsuranceClaim
        BY <1>1 DEF ClaimsInv, InsuranceTypeOK
    <2>2. collateral \in Nat /\ claims[c].status \in ClaimStatus
        BY <2>1 DEF InsuranceClaim
    <2>3. gain[c] + collateral >= 0 /\ gain[c] <= MostGot(c)
        <3>1. CASE claims[c].status = "None"
            BY <1>1, <2>2, <3>1, MostPaidNat DEF ClaimsInv, ClaimStands, MostGot
        <3>2. CASE claims[c].status = "Filed"
            <4>1. gain[c] = IF c \in kept THEN 0 ELSE 0 - collateral
                BY <1>1, <3>2 DEF ClaimsInv, ClaimStands
            <4> QED
                BY <2>1, <2>2, <4>1, MostPaidNat DEF MostGot
        <3>3. CASE claims[c].status \in {"Approved", "Denied"}
            BY <1>1, <3>3 DEF ClaimsInv, ClaimStands
        <3> QED
            BY <2>2, <3>1, <3>2, <3>3 DEF ClaimStatus
    <2> HIDE DEF collateral
    <2>4. gain[c] >= -collateral
        BY <2>1, <2>2, <2>3
    <2> QED
        BY <2>3, <2>4 DEF collateral
<1> QED
    BY <1>1, InitClaims, NextClaims, PTL DEF InsuranceSpec

(* No balance, claim, stake or counter of the pool, the rewards and the
   stakes leaves its unsigned type, for any amounts, ratios and bounds.    *)
THEOREM TreasuryTypes == InsuranceSpec /\ IncentivesSpec => []TreasuryTypeOK
<1>1. ClaimsInv /\ RewardsInv => TreasuryTypeOK
    BY DEF ClaimsInv, RewardsInv, StakesInv, TreasuryTypeOK
<1> QED
    BY <1>1, InitClaims, NextClaims, InitRewards, NextRewards, PTL
    DEF InsuranceSpec, IncentivesSpec

-----------------------------------------------------------------------------
(* The pool's books and its counter of claims *)

CollateralOf == [c \in Contracts |-> claims[c].collateral]
RepeatedOf == [c \in Contracts |-> Repeated(c)]
CreditedAgain == [c \in Contracts |-> Repeated(c) * claims[c].collateral]

Opens(c) == claims[c].status = "Filed"
OpenCollateral(c) == IF Opens(c) THEN claims[c].collateral ELSE 0
OpenCount(c) == IF Opens(c) THEN 1 ELSE 0

BooksInv ==
    /\ ClaimsInv
    /\ Held + SumOf(CreditedAgain, Contracts)
          = pool.total_balance + SumOf(CollateralOf, OpenClaims)
    /\ pool.active_claims <= Cardinality(OpenClaims)
    /\ Cardinality(OpenClaims) <= pool.active_claims + SumOf(RepeatedOf, Contracts)

TermOf(c) ==
    /\ claims[c].collateral \in Nat /\ CollateralOf[c] = claims[c].collateral
    /\ RepeatedOf[c] = Repeated(c) /\ Repeated(c) \in Nat
    /\ CreditedAgain[c] = Repeated(c) * claims[c].collateral
    /\ CreditedAgain[c] \in Nat

LEMMA TermsNat == ClaimsInv => \A c \in Contracts : TermOf(c)
<1> SUFFICES ASSUME ClaimsInv, NEW c \in Contracts PROVE TermOf(c)
    OBVIOUS
<1> DEFINE collateral == claims[c].collateral
           repeated == Repeated(c)
<1>1. collateral \in Nat
    BY DEF ClaimsInv, InsuranceTypeOK, InsuranceClaim
<1>2. rulings[c] \in Nat
    BY PoolAssumption DEF ClaimsInv, InsuranceTypeOK
<1>3. repeated \in Nat
    BY <1>2 DEF Repeated, Monus
<1>4. CollateralOf[c] = collateral /\ RepeatedOf[c] = repeated
      /\ CreditedAgain[c] = repeated * collateral
    BY DEF CollateralOf, RepeatedOf, CreditedAgain
<1> HIDE DEF collateral, repeated
<1>5. repeated * collateral \in Nat
    BY <1>1, <1>3
<1> QED
    BY <1>1, <1>3, <1>4, <1>5 DEF collateral, repeated, TermOf

LEMMA TermsNatAfter == ClaimsInv' => (\A c \in Contracts : TermOf(c))'
BY TermsNat, PTL

LEMMA SumsNat ==
    ASSUME ClaimsInv
    PROVE  /\ SumOf(CreditedAgain, Contracts) \in Nat
           /\ SumOf(RepeatedOf, Contracts) \in Nat
           /\ SumOf(CollateralOf, OpenClaims) \in Nat
           /\ IsFiniteSet(OpenClaims) /\ Cardinality(OpenClaims) \in Nat
<1>1. \A c \in Contracts : /\ CreditedAgain[c] \in Nat /\ RepeatedOf[c] \in Nat
                            /\ CollateralOf[c] \in Nat
    BY TermsNat DEF TermOf
<1>2. IsFiniteSet(Contracts) /\ OpenClaims \in SUBSET Contracts
    BY PoolAssumption DEF OpenClaims
<1>3. IsFiniteSet(OpenClaims) /\ Cardinality(OpenClaims) \in Nat
    BY <1>2, FS_Subset, FS_CardinalityType
<1>4. SumOf(CreditedAgain, Contracts) \in Nat /\ SumOf(RepeatedOf, Contracts) \in Nat
    BY <1>1, <1>2, SumNat
<1>5. SumOf(CollateralOf, OpenClaims) \in Nat
    <2>1. \A c \in OpenClaims : CollateralOf[c] \in Nat
        BY <1>1, <1>2
    <2> QED
        BY <1>3, <2>1, SumNat
<1> QED
    BY <1>3, <1>4, <1>5

(* A step on one claim changes one term of each sum.                       *)
LEMMA SumsStep ==
    ASSUME ClaimsInv, ClaimsInv', NEW c \in Contracts,
           \A x \in Contracts \ {c} : claims'[x] = claims[x] /\ rulings'[x] = rulings[x]
    PROVE  /\ SumOf(CreditedAgain', Contracts)
                 = SumOf(CreditedAgain, Contracts) - CreditedAgain[c] + CreditedAgain'[c]
           /\ SumOf(RepeatedOf', Contracts)
                 = SumOf(RepeatedOf, Contracts) - RepeatedOf[c] + RepeatedOf'[c]
           /\ SumOf(CollateralOf', OpenClaims')
                 = SumOf(CollateralOf, OpenClaims) - OpenCollateral(c) + OpenCollateral(c)'
           /\ Cardinality(OpenClaims')
                 = Cardinality(OpenClaims) - OpenCount(c) + OpenCount(c)'
<1>1. \A x \in Contracts : /\ CreditedAgain[x] \in Nat /\ RepeatedOf[x] \in Nat
                            /\ CollateralOf[x] \in Nat
    BY TermsNat DEF TermOf
<1>20. (\A x \in Contracts : TermOf(x))'
    BY TermsNatAfter
<1>2. \A x \in Contracts : /\ CreditedAgain'[x] \in Nat /\ RepeatedOf'[x] \in Nat
                            /\ CollateralOf'[x] \in Nat
    BY <1>20 DEF TermOf
<1>3. \A x \in Contracts \ {c} : /\ CreditedAgain'[x] = CreditedAgain[x]
                                  /\ RepeatedOf'[x] = RepeatedOf[x]
                                  /\ CollateralOf'[x] = CollateralOf[x]
    BY DEF CreditedAgain, RepeatedOf, CollateralOf, Repeated
<1>4. IsFiniteSet(Contracts)
    BY PoolAssumption
<1>5. SumOf(CreditedAgain', Contracts)
          = SumOf(CreditedAgain, Contracts) - CreditedAgain[c] + CreditedAgain'[c]
    BY <1>1, <1>2, <1>3, <1>4, SumShift
<1>6. SumOf(RepeatedOf', Contracts)
          = SumOf(RepeatedOf, Contracts) - RepeatedOf[c] + RepeatedOf'[c]
    BY <1>1, <1>2, <1>3, <1>4, SumShift
<1> DEFINE others == OpenClaims \ {c}
<1>7. /\ OpenClaims \ {c} = others /\ OpenClaims' \ {c} = others /\ c \notin others /\ others \subseteq Contracts
      /\ OpenClaims \subseteq Contracts /\ OpenClaims' \subseteq Contracts
      /\ c \in OpenClaims <=> Opens(c)
      /\ c \in OpenClaims' <=> Opens(c)'
    BY DEF OpenClaims, Opens
<1>8. /\ IsFiniteSet(OpenClaims) /\ IsFiniteSet(OpenClaims')
      /\ Cardinality(OpenClaims) \in Nat /\ Cardinality(OpenClaims') \in Nat
    BY <1>4, <1>7, FS_Subset, FS_CardinalityType
<1>11. IsFiniteSet(others)
    BY <1>8, FS_Subset
<1> HIDE DEF others
<1>9. Cardinality(others) = Cardinality(OpenClaims) - OpenCount(c)
    <2>1. CASE c \in OpenClaims
        <3>1. Cardinality(OpenClaims \ {c}) = Cardinality(OpenClaims) - 1
            BY <1>8, <2>1, FS_RemoveElement
        <3> QED
            BY <1>7, <2>1, <3>1 DEF OpenCount
    <2>2. CASE c \notin OpenClaims
        <3>1. Cardinality(OpenClaims \ {c}) = Cardinality(OpenClaims)
            BY <1>8, <2>2, FS_RemoveElement
        <3>2. OpenCount(c) = 0
            BY <1>7, <2>2 DEF OpenCount
        <3>3. Cardinality(others) = Cardinality(OpenClaims)
            BY <1>7, <3>1
        <3> QED
            BY <1>8, <3>2, <3>3
    <2> QED
        BY <2>1, <2>2
<1>10. Cardinality(others) = Cardinality(OpenClaims') - OpenCount(c)'
    <2>1. CASE c \in OpenClaims'
        <3>1. Cardinality(OpenClaims' \ {c}) = Cardinality(OpenClaims') - 1
            BY <1>8, <2>1, FS_RemoveElement
        <3> QED
            BY <1>7, <2>1, <3>1 DEF OpenCount
    <2>2. CASE c \notin OpenClaims'
        <3>1. Cardinality(OpenClaims' \ {c}) = Cardinality(OpenClaims')
            BY <1>8, <2>2, FS_RemoveElement
        <3>2. OpenCount(c)' = 0
            BY <1>7, <2>2 DEF OpenCount
        <3>3. Cardinality(others) = Cardinality(OpenClaims')
            BY <1>7, <3>1
        <3> QED
            BY <1>8, <3>2, <3>3
    <2> QED
        BY <2>1, <2>2
<1>12. SumOf(CollateralOf, others) = SumOf(CollateralOf', others)
    BY <1>3, <1>7, <1>11, SumSame
<1>13. SumOf(CollateralOf, others) \in Int
    BY <1>1, <1>7, <1>11, SumInt
<1>14. SumOf(CollateralOf, OpenClaims) = OpenCollateral(c) + SumOf(CollateralOf, others)
    <2>1. CollateralOf[c] = claims[c].collateral
        BY TermsNat DEF TermOf
    <2>2. CASE c \in OpenClaims
        BY <1>1, <1>7, <1>8, <2>1, <2>2, SumRemove DEF OpenCollateral
    <2>3. CASE c \notin OpenClaims
        <3>1. OpenClaims = others /\ OpenCollateral(c) = 0
            BY <1>7, <2>3 DEF OpenCollateral
        <3> QED
            BY <1>13, <3>1
    <2> QED
        BY <2>2, <2>3
<1>15. SumOf(CollateralOf', OpenClaims') = OpenCollateral(c)' + SumOf(CollateralOf', others)
    <2>1. CollateralOf'[c] = claims'[c].collateral
        BY <1>20 DEF TermOf
    <2>2. CASE c \in OpenClaims'
        BY <1>2, <1>7, <1>8, <2>1, <2>2, SumRemove DEF OpenCollateral
    <2>3. CASE c \notin OpenClaims'
        <3>1. OpenClaims' = others /\ OpenCollateral(c)' = 0
            BY <1>7, <2>3 DEF OpenCollateral
        <3> QED
            BY <1>12, <1>13, <3>1
    <2> QED
        BY <2>2, <2>3
<1>16. OpenCollateral(c) \in Int /\ OpenCollateral(c)' \in Int
    BY <1>20, TermsNat DEF OpenCollateral, TermOf
<1>17. OpenCount(c) \in Int /\ OpenCount(c)' \in Int
    BY DEF OpenCount
<1>18. SumOf(CollateralOf', OpenClaims')
           = SumOf(CollateralOf, OpenClaims) - OpenCollateral(c) + OpenCollateral(c)'
    BY <1>12, <1>13, <1>14, <1>15, <1>16
<1>19. Cardinality(OpenClaims') = Cardinality(OpenClaims) - OpenCount(c) + OpenCount(c)'
    BY <1>8, <1>9, <1>10, <1>17
<1> QED
    BY <1>5, <1>6, <1>18, <1>19

(* The step moves the books with the terms of claim c. *)
BalanceFollows(c) ==
    Held' - Held + CreditedAgain'[c] - CreditedAgain[c]
        = pool'.total_balance - pool.total_balance + OpenCollateral(c)' - OpenCollateral(c)

CounterFollows(c) ==
    /\ \/ pool'.active_claims = 0
       \/ pool'.active_claims - pool.active_claims <= OpenCount(c)' - OpenCount(c)
    /\ OpenCount(c)' - OpenCount(c)
          <= pool'.active_claims - pool.active_claims + RepeatedOf'[c] - RepeatedOf[c]

LEMMA HeldInt ==
    /\ ClaimsInv => Held \in Int
    /\ ClaimsInv' => Held' \in Int
BY DEF Held, ClaimsInv, InsuranceTypeOK

(* A transfer counts for the books wherever it goes or comes from.         *)
LEMMA EntersHeld ==
    ASSUME ClaimsInv, NEW amount \in Nat, NEW to, Enters(amount, to)
    PROVE  Held' = Held + amount
BY DEF Enters, Held, ClaimsInv, InsuranceTypeOK

LEMMA LeavesHeld ==
    ASSUME ClaimsInv, NEW c \in Contracts, NEW payout \in Nat, NEW from,
           Leaves(c, payout, from)
    PROVE  Held' = Held - payout - claims[c].collateral
<1>1. claims[c].collateral \in Nat
    BY DEF ClaimsInv, InsuranceTypeOK, InsuranceClaim
<1> QED
    BY <1>1 DEF Leaves, Held, ClaimsInv, InsuranceTypeOK

LEMMA ClaimStepBooks ==
    ASSUME BooksInv, ClaimsInv', NEW c \in Contracts, BalanceFollows(c), CounterFollows(c),
           \A x \in Contracts \ {c} : claims'[x] = claims[x] /\ rulings'[x] = rulings[x]
    PROVE  BooksInv'
<1> DEFINE again == SumOf(CreditedAgain, Contracts)
           again1 == SumOf(CreditedAgain', Contracts)
           repeated == SumOf(RepeatedOf, Contracts)
           repeated1 == SumOf(RepeatedOf', Contracts)
           open == SumOf(CollateralOf, OpenClaims)
           open1 == SumOf(CollateralOf', OpenClaims')
           count == Cardinality(OpenClaims)
           count1 == Cardinality(OpenClaims')
<1>1. /\ again1 = again - CreditedAgain[c] + CreditedAgain'[c]
      /\ repeated1 = repeated - RepeatedOf[c] + RepeatedOf'[c]
      /\ open1 = open - OpenCollateral(c) + OpenCollateral(c)'
      /\ count1 = count - OpenCount(c) + OpenCount(c)'
    BY SumsStep DEF BooksInv
<1>2. /\ Held + again = pool.total_balance + open
      /\ pool.active_claims <= count /\ count <= pool.active_claims + repeated
    BY DEF BooksInv
<1>3. again \in Nat /\ repeated \in Nat /\ open \in Nat /\ count \in Nat
    BY SumsNat DEF BooksInv
<1>4. TermOf(c) /\ TermOf(c)'
    BY TermsNat, TermsNatAfter DEF BooksInv
<1>5. /\ CreditedAgain[c] \in Nat /\ CreditedAgain'[c] \in Nat
      /\ RepeatedOf[c] \in Nat /\ RepeatedOf'[c] \in Nat
      /\ OpenCollateral(c) \in Nat /\ OpenCollateral(c)' \in Nat
      /\ OpenCount(c) \in Nat /\ OpenCount(c)' \in Nat
    BY <1>4 DEF TermOf, OpenCollateral, OpenCount
<1>6. count1 \in Nat
    <2>1. OpenClaims' \in SUBSET Contracts
        BY DEF OpenClaims
    <2> QED
        BY <2>1, PoolAssumption, FS_Subset, FS_CardinalityType
<1>7. /\ pool.total_balance \in Nat /\ pool'.total_balance \in Nat
      /\ pool.active_claims \in Nat /\ pool'.active_claims \in Nat
    BY DEF BooksInv, ClaimsInv, InsuranceTypeOK, PoolAccount
<1>8. Held \in Int /\ Held' \in Int
    BY HeldInt DEF BooksInv
<1> HIDE DEF again, again1, repeated, repeated1, open, open1, count, count1
<1>9. Held' + again1 = pool'.total_balance + open1
    <2>1. again1 \in Int /\ open1 \in Int
        BY <1>1, <1>3, <1>5
    <2>2. (Held' - Held) + (again1 - again)
              = (pool'.total_balance - pool.total_balance) + (open1 - open)
        BY <1>1, <1>3, <1>5, <1>7, <1>8 DEF BalanceFollows
    <2> QED
        BY <1>2, <1>3, <1>7, <1>8, <2>1, <2>2
<1>10. pool'.active_claims <= count1
    BY <1>1, <1>2, <1>3, <1>5, <1>6, <1>7 DEF CounterFollows
<1>11. count1 <= pool'.active_claims + repeated1
    BY <1>1, <1>2, <1>3, <1>5, <1>7 DEF CounterFollows
<1> QED
    BY <1>9, <1>10, <1>11 DEF BooksInv, again1, repeated1, open1, count1

LEMMA FileClaimBooks ==
    ASSUME BooksInv, NEW c \in Contracts, NEW amount \in ClaimAmounts, NEW to \in Named,
           FileClaim(c, amount, to)
    PROVE  BooksInv'
<1> DEFINE collateral == amount \div 10
           claim == [status |-> "Filed", amount |-> amount, collateral |-> collateral]
<1>1. ClaimsInv'
    BY FileClaimStands DEF BooksInv
<1>2. /\ claims[c].status = "None" /\ claims' = [claims EXCEPT ![c] = claim]
      /\ Enters(collateral, to)
      /\ pool' = [pool EXCEPT !.active_claims = @ + 1]
      /\ rulings' = rulings
    BY DEF FileClaim, FileAccounts
<1>3. collateral \in Nat
    BY PoolAssumption
<1> HIDE DEF collateral
<1>14. Held' = Held + collateral /\ Held \in Int
    BY <1>2, <1>3, EntersHeld, HeldInt DEF BooksInv
<1>4. claims'[c] = claim /\ \A x \in Contracts \ {c} : claims'[x] = claims[x]
    BY <1>2 DEF BooksInv, ClaimsInv, InsuranceTypeOK
<1>5. TermOf(c) /\ TermOf(c)'
    BY <1>1, TermsNat, TermsNatAfter DEF BooksInv
<1>6. Repeated(c) = 0 /\ Repeated(c)' = 0
    BY <1>2 DEF BooksInv, ClaimsInv, ClaimStands, Repeated, Monus
<1>7. /\ CreditedAgain[c] = 0 /\ CreditedAgain'[c] = 0
      /\ RepeatedOf[c] = 0 /\ RepeatedOf'[c] = 0
    BY <1>5, <1>6 DEF TermOf
<1>8. /\ OpenCollateral(c) = 0 /\ OpenCollateral(c)' = collateral
      /\ OpenCount(c) = 0 /\ OpenCount(c)' = 1
    BY <1>2, <1>4 DEF OpenCollateral, OpenCount, Opens
<1>9. /\ pool'.total_balance = pool.total_balance
      /\ pool'.active_claims = pool.active_claims + 1
      /\ pool.total_balance \in Nat /\ pool.active_claims \in Nat
    BY <1>2 DEF BooksInv, ClaimsInv, InsuranceTypeOK, PoolAccount
<1>10. BalanceFollows(c)
    BY <1>3, <1>7, <1>8, <1>9, <1>14 DEF BalanceFollows
<1>11. pool'.active_claims - pool.active_claims = 1
    BY <1>9
<1>12. CounterFollows(c)
    BY <1>7, <1>8, <1>11 DEF CounterFollows
<1>13. \A x \in Contracts \ {c} : claims'[x] = claims[x] /\ rulings'[x] = rulings[x]
    BY <1>2, <1>4
<1> QED
    BY <1>1, <1>10, <1>12, <1>13, ClaimStepBooks

LEMMA ApproveClaimBooks ==
    ASSUME BooksInv, NEW c \in Contracts, NEW p \in Providers, NEW from,
           ApproveClaim(c, p, from)
    PROVE  BooksInv'
<1> DEFINE payout == ClaimPayout(c)
           collateral == claims[c].collateral
<1>1. ClaimsInv'
    BY ApproveClaimStands DEF BooksInv
<1>2. payout \in Nat /\ payout <= pool.total_balance
    BY PayoutBounds DEF BooksInv
<1>3. /\ claims[c].status = "Filed" /\ claims' = [claims EXCEPT ![c].status = "Approved"]
      /\ Leaves(c, payout, from)
      /\ pool' = [pool EXCEPT !.total_balance = Monus(@, payout),
                              !.total_claims_paid = @ + payout,
                              !.active_claims = Monus(@, 1)]
      /\ rulings' = [rulings EXCEPT ![c] = @ + 1]
    BY DEF ApproveClaim, AwaitsRuling
<1> HIDE DEF payout
<1>16. Held' = Held - payout - collateral /\ Held \in Int
    BY <1>2, <1>3, LeavesHeld, HeldInt DEF BooksInv
<1>4. collateral \in Nat
    BY DEF BooksInv, ClaimsInv, InsuranceTypeOK, InsuranceClaim
<1>5. /\ claims'[c].status = "Approved" /\ claims'[c].collateral = collateral
      /\ \A x \in Contracts \ {c} : claims'[x] = claims[x]
    BY <1>3 DEF BooksInv, ClaimsInv, InsuranceTypeOK, InsuranceClaim
<1> HIDE DEF collateral
<1>6. TermOf(c) /\ TermOf(c)'
    BY <1>1, TermsNat, TermsNatAfter DEF BooksInv
<1>7. rulings[c] = 0 /\ rulings'[c] = 1 /\ \A x \in Contracts \ {c} : rulings'[x] = rulings[x]
    BY <1>3 DEF BooksInv, ClaimsInv, ClaimStands, InsuranceTypeOK
<1>8. Repeated(c) = 0 /\ Repeated(c)' = 0
    BY <1>7 DEF Repeated, Monus
<1>9. /\ CreditedAgain[c] = 0 /\ CreditedAgain'[c] = 0
      /\ RepeatedOf[c] = 0 /\ RepeatedOf'[c] = 0
    BY <1>6, <1>8 DEF TermOf
<1>10. /\ OpenCollateral(c) = collateral /\ OpenCollateral(c)' = 0
       /\ OpenCount(c) = 1 /\ OpenCount(c)' = 0
    BY <1>3, <1>5 DEF OpenCollateral, OpenCount, Opens, collateral
<1>11. /\ pool.total_balance \in Nat /\ pool.active_claims \in Nat
       /\ pool'.total_balance = Monus(pool.total_balance, payout)
       /\ pool'.active_claims = Monus(pool.active_claims, 1)
    BY <1>3 DEF BooksInv, ClaimsInv, InsuranceTypeOK, PoolAccount
<1>12. pool'.total_balance - pool.total_balance = 0 - payout
    BY <1>2, <1>11 DEF Monus
<1>13. pool'.total_balance \in Nat
    BY <1>2, <1>11 DEF Monus
<1>14. BalanceFollows(c)
    BY <1>2, <1>4, <1>9, <1>10, <1>11, <1>12, <1>13, <1>16 DEF BalanceFollows
<1>15. CounterFollows(c)
    BY <1>9, <1>10, <1>11 DEF CounterFollows, Monus
<1> QED
    BY <1>1, <1>5, <1>7, <1>14, <1>15, ClaimStepBooks

LEMMA DenyClaimBooks ==
    ASSUME BooksInv, NEW c \in Contracts, DenyClaim(c)
    PROVE  BooksInv'
<1> DEFINE collateral == claims[c].collateral
           r == Repeated(c)
           r1 == Repeated(c)'
<1>1. ClaimsInv'
    BY DenyClaimStands DEF BooksInv
<1>2. /\ claims[c].status # "None" /\ claims' = [claims EXCEPT ![c].status = "Denied"]
      /\ pool' = [pool EXCEPT !.total_balance = @ + collateral, !.active_claims = Monus(@, 1)]
      /\ rulings' = [rulings EXCEPT ![c] = @ + 1] /\ Held' = Held
    BY DEF DenyClaim, AfterDenial, transfers, Held
<1>12. Held \in Int
    BY HeldInt DEF BooksInv
<1>3. /\ claims'[c].status = "Denied" /\ claims'[c].collateral = collateral
      /\ \A x \in Contracts \ {c} : claims'[x] = claims[x]
      /\ collateral \in Nat
    BY <1>2 DEF BooksInv, ClaimsInv, InsuranceTypeOK, InsuranceClaim
<1>4. /\ rulings[c] \in Nat /\ rulings'[c] = rulings[c] + 1
      /\ \A x \in Contracts \ {c} : rulings'[x] = rulings[x]
    BY <1>2, PoolAssumption DEF BooksInv, ClaimsInv, InsuranceTypeOK
<1>5. /\ pool.total_balance \in Nat /\ pool.active_claims \in Nat
      /\ pool'.total_balance = pool.total_balance + collateral
      /\ pool'.active_claims = Monus(pool.active_claims, 1)
    BY <1>2 DEF BooksInv, ClaimsInv, InsuranceTypeOK, PoolAccount
<1>6. TermOf(c) /\ TermOf(c)'
    BY <1>1, TermsNat, TermsNatAfter DEF BooksInv
<1>7. OpenCollateral(c)' = 0 /\ OpenCount(c)' = 0
    BY <1>3 DEF OpenCollateral, OpenCount, Opens
<1>8. /\ CreditedAgain[c] = r * collateral /\ CreditedAgain'[c] = r1 * collateral
      /\ RepeatedOf[c] = r /\ RepeatedOf'[c] = r1
    BY <1>3, <1>6 DEF TermOf
<1>9. \/ /\ r = 0 /\ r1 = 0 /\ OpenCollateral(c) = collateral /\ OpenCount(c) = 1
      \/ /\ r \in Nat /\ r1 = r + 1 /\ OpenCollateral(c) = 0 /\ OpenCount(c) = 0
    <2>1. CASE claims[c].status = "Filed"
        <3>1. rulings[c] = 0
            BY <2>1 DEF BooksInv, ClaimsInv, ClaimStands
        <3>2. r = 0 /\ r1 = 0
            BY <1>4, <3>1 DEF Repeated, Monus
        <3> QED
            BY <2>1, <3>2 DEF OpenCollateral, OpenCount, Opens
    <2>2. CASE claims[c].status # "Filed"
        <3>1. claims[c].status \in {"Approved", "Denied"}
            BY <1>2, <2>2 DEF BooksInv, ClaimsInv, InsuranceTypeOK, InsuranceClaim, ClaimStatus
        <3>2. rulings[c] > 0
            BY <3>1 DEF BooksInv, ClaimsInv, ClaimStands
        <3>3. r \in Nat /\ r1 = r + 1
            BY <1>4, <3>2 DEF Repeated, Monus
        <3> QED
            BY <2>2, <3>3 DEF OpenCollateral, OpenCount, Opens
    <2> QED
        BY <2>1, <2>2
<1> HIDE DEF collateral, r, r1
<1>10. BalanceFollows(c)
    <2>1. CASE r = 0 /\ r1 = 0 /\ OpenCollateral(c) = collateral
        <3>1. CreditedAgain[c] = 0 /\ CreditedAgain'[c] = 0
            BY <1>3, <1>8, <2>1
        <3> QED
            BY <1>2, <1>3, <1>5, <1>7, <1>12, <2>1, <3>1 DEF BalanceFollows
    <2>2. CASE r \in Nat /\ r1 = r + 1 /\ OpenCollateral(c) = 0
        <3>1. (r + 1) * collateral = r * collateral + collateral /\ r * collateral \in Nat
            BY <1>3, <2>2
        <3> DEFINE product == r * collateral
        <3>2. product \in Nat /\ CreditedAgain[c] = product
              /\ CreditedAgain'[c] = product + collateral
            BY <1>8, <2>2, <3>1
        <3> HIDE DEF product
        <3> QED
            BY <1>2, <1>3, <1>5, <1>7, <1>12, <2>2, <3>2 DEF BalanceFollows
    <2> QED
        BY <1>9, <2>1, <2>2
<1>11. CounterFollows(c)
    BY <1>5, <1>7, <1>8, <1>9 DEF CounterFollows, Monus
<1> QED
    BY <1>1, <1>3, <1>4, <1>10, <1>11, ClaimStepBooks

(* A step that touches no claim moves the books and the vault together.    *)
LEMMA QuietBooks ==
    ASSUME BooksInv, ClaimsInv', UNCHANGED <<claims, rulings>>,
           Held' - Held = pool'.total_balance - pool.total_balance,
           pool'.active_claims = pool.active_claims
    PROVE  BooksInv'
<1>1. /\ CreditedAgain' = CreditedAgain /\ RepeatedOf' = RepeatedOf
      /\ CollateralOf' = CollateralOf /\ OpenClaims' = OpenClaims
    BY DEF CreditedAgain, RepeatedOf, CollateralOf, OpenClaims, Repeated
<1> DEFINE again == SumOf(CreditedAgain, Contracts)
           open == SumOf(CollateralOf, OpenClaims)
<1>2. again \in Int /\ open \in Int
    BY SumsNat DEF BooksInv
<1>3. Held + again = pool.total_balance + open
    BY DEF BooksInv
<1>4. /\ Held \in Int /\ Held' \in Int
      /\ pool.total_balance \in Int /\ pool'.total_balance \in Int
    BY HeldInt DEF BooksInv, ClaimsInv, InsuranceTypeOK, PoolAccount
<1> HIDE DEF again, open
<1>5. Held' + again = pool'.total_balance + open
    BY <1>2, <1>3, <1>4
<1> QED
    BY <1>1, <1>5 DEF BooksInv, again, open

LEMMA InitBooks ==
    ASSUME InsuranceInit
    PROVE  BooksInv
<1>1. \A c \in Contracts : CreditedAgain[c] = 0 /\ RepeatedOf[c] = 0
    BY DEF InsuranceInit, CreditedAgain, RepeatedOf, Repeated, Monus, NoClaim
<1>2. OpenClaims = {}
    BY DEF InsuranceInit, OpenClaims, NoClaim
<1>3. SumOf(CollateralOf, OpenClaims) = 0 /\ Cardinality(OpenClaims) = 0
    BY <1>2, SumEmpty, FS_EmptySet
<1>4. SumOf(CreditedAgain, Contracts) = 0 /\ SumOf(RepeatedOf, Contracts) = 0
    BY <1>1, PoolAssumption, SumZero
<1>5. Held = 0 /\ pool.total_balance = 0 /\ pool.active_claims = 0
    BY DEF InsuranceInit, Held
<1> QED
    BY <1>3, <1>4, <1>5, InitClaims DEF BooksInv

LEMMA NextBooks ==
    ASSUME BooksInv, [InsuranceNext]_insurance
    PROVE  BooksInv'
<1>1. ClaimsInv'
    BY NextClaims DEF BooksInv
<1>2. CASE \E c \in Contracts, amount \in ClaimAmounts, to \in Named : FileClaim(c, amount, to)
    BY <1>2, FileClaimBooks
<1>3. CASE \E c \in Contracts, p \in Providers, from \in {"vault", "other"} :
              ApproveClaim(c, p, from)
    BY <1>3, ApproveClaimBooks
<1>4. CASE \E c \in Contracts : DenyClaim(c)
    BY <1>4, DenyClaimBooks
<1>5. ASSUME NEW amount \in Deposits, NEW to \in Named, DepositToPool(amount, to) PROVE BooksInv'
    <2>1. /\ amount \in Nat /\ Enters(amount, to) /\ UNCHANGED <<claims, rulings>>
          /\ pool' = [pool EXCEPT !.total_balance = @ + amount]
        BY <1>5, PoolAssumption DEF DepositToPool
    <2>4. Held' = Held + amount /\ Held \in Int
        BY <2>1, EntersHeld, HeldInt DEF BooksInv
    <2>2. /\ pool.total_balance \in Nat
          /\ pool'.total_balance = pool.total_balance + amount
          /\ pool'.active_claims = pool.active_claims
        BY <2>1 DEF BooksInv, ClaimsInv, InsuranceTypeOK, PoolAccount
    <2>3. Held' - Held = pool'.total_balance - pool.total_balance
        BY <2>1, <2>2, <2>4
    <2> QED
        BY <1>1, <2>1, <2>2, <2>3, QuietBooks
<1>7. ASSUME NEW amount \in Deposits, Gift(amount) PROVE BooksInv'
    <2>1. UNCHANGED <<claims, pool, rulings>> /\ Held' = Held
        BY <1>7, GiftStands DEF BooksInv
    <2>2. Held \in Int /\ pool.total_balance \in Nat
        BY HeldInt DEF BooksInv, ClaimsInv, InsuranceTypeOK, PoolAccount
    <2>3. Held' - Held = pool'.total_balance - pool.total_balance
        BY <2>1, <2>2
    <2> QED
        BY <1>1, <2>1, <2>3, QuietBooks
<1>6. CASE \/ \E c \in Contracts : Complete(c)
           \/ \E exposure \in Exposures : UpdateExposure(exposure)
           \/ PassTime
           \/ UNCHANGED insurance
    <2>1. /\ UNCHANGED <<claims, rulings>> /\ Held' = Held
          /\ pool'.total_balance = pool.total_balance
          /\ pool'.active_claims = pool.active_claims
        BY <1>6, OthersStand DEF BooksInv, Held
    <2>2. Held \in Int /\ pool.total_balance \in Nat
        BY HeldInt DEF BooksInv, ClaimsInv, InsuranceTypeOK, PoolAccount
    <2>3. Held' - Held = pool'.total_balance - pool.total_balance
        BY <2>1, <2>2
    <2> QED
        BY <1>1, <2>1, <2>3, QuietBooks
<1> QED
    BY <1>2, <1>3, <1>4, <1>5, <1>6, <1>7 DEF InsuranceNext, Named

(* The sums as BooksMatchVault and ActiveClaimsCounted write them.         *)
LEMMA CreditedIsSum == SumOf(CreditedAgain, Contracts) = MapThenSumSet(LAMBDA c : Repeated(c) * claims[c].collateral, Contracts)
<1> DEFINE body(g) == [s \in SUBSET Contracts |-> IF s = {} THEN 0
                          ELSE Repeated(Pick(s)) * claims[Pick(s)].collateral + g[s \ {Pick(s)}]]
<1>1. ASSUME NEW g PROVE IsSum(g, CreditedAgain, Contracts) <=> g = body(g)
    <2>1. \A s \in SUBSET Contracts : s # {} => CreditedAgain[Pick(s)] = Repeated(Pick(s)) * claims[Pick(s)].collateral
        BY PickIn DEF CreditedAgain
    <2> DEFINE other(h) == [s \in SUBSET Contracts |-> IF s = {} THEN 0
                          ELSE CreditedAgain[Pick(s)] + h[s \ {Pick(s)}]]
    <2>2. other(g) = body(g)
        BY <2>1
    <2> QED
        BY <2>2 DEF IsSum
<1>2. (CHOOSE g : IsSum(g, CreditedAgain, Contracts)) = (CHOOSE g : g = body(g))
    <2> HIDE DEF body
    <2> QED
        BY <1>1
<1>3. MapThenSumSet(LAMBDA c : Repeated(c) * claims[c].collateral, Contracts)
          = (CHOOSE g : g = body(g))[Contracts]
    BY DEF MapThenSumSet, MapThenFoldSet, Pick
<1> QED
    BY <1>2, <1>3 DEF SumOf, Folding

LEMMA CollateralIsSum == SumOf(CollateralOf, OpenClaims) = MapThenSumSet(LAMBDA c : claims[c].collateral, OpenClaims)
<1> DEFINE body(g) == [s \in SUBSET OpenClaims |-> IF s = {} THEN 0
                          ELSE claims[Pick(s)].collateral + g[s \ {Pick(s)}]]
<1>1. ASSUME NEW g PROVE IsSum(g, CollateralOf, OpenClaims) <=> g = body(g)
    <2>1. \A s \in SUBSET OpenClaims : s # {} => CollateralOf[Pick(s)] = claims[Pick(s)].collateral
        BY PickIn DEF CollateralOf, OpenClaims
    <2> DEFINE other(h) == [s \in SUBSET OpenClaims |-> IF s = {} THEN 0
                          ELSE CollateralOf[Pick(s)] + h[s \ {Pick(s)}]]
    <2>2. other(g) = body(g)
        BY <2>1
    <2> QED
        BY <2>2 DEF IsSum
<1>2. (CHOOSE g : IsSum(g, CollateralOf, OpenClaims)) = (CHOOSE g : g = body(g))
    <2> HIDE DEF body
    <2> QED
        BY <1>1
<1>3. MapThenSumSet(LAMBDA c : claims[c].collateral, OpenClaims)
          = (CHOOSE g : g = body(g))[OpenClaims]
    BY DEF MapThenSumSet, MapThenFoldSet, Pick
<1> QED
    BY <1>2, <1>3 DEF SumOf, Folding

LEMMA RepeatedIsSum == SumOf(RepeatedOf, Contracts) = MapThenSumSet(Repeated, Contracts)
<1> DEFINE body(g) == [s \in SUBSET Contracts |-> IF s = {} THEN 0
                          ELSE Repeated(Pick(s)) + g[s \ {Pick(s)}]]
<1>1. ASSUME NEW g PROVE IsSum(g, RepeatedOf, Contracts) <=> g = body(g)
    <2>1. \A s \in SUBSET Contracts : s # {} => RepeatedOf[Pick(s)] = Repeated(Pick(s))
        BY PickIn DEF RepeatedOf
    <2> DEFINE other(h) == [s \in SUBSET Contracts |-> IF s = {} THEN 0
                          ELSE RepeatedOf[Pick(s)] + h[s \ {Pick(s)}]]
    <2>2. other(g) = body(g)
        BY <2>1
    <2> QED
        BY <2>2 DEF IsSum
<1>2. (CHOOSE g : IsSum(g, RepeatedOf, Contracts)) = (CHOOSE g : g = body(g))
    <2> HIDE DEF body
    <2> QED
        BY <1>1
<1>3. MapThenSumSet(Repeated, Contracts)
          = (CHOOSE g : g = body(g))[Contracts]
    BY DEF MapThenSumSet, MapThenFoldSet, Pick
<1> QED
    BY <1>2, <1>3 DEF SumOf, Folding

(* The vault holds what the pool's books show and the collateral of the open
   claims, to the unit, but for the transfers whose caller named another
   account, tokens on no books, and the collaterals that deny_claim credits
   again each time it is called for a claim already ruled on: nothing else
   ever parts the two, whatever amounts, caps and exposures are.           *)
THEOREM BooksMatch == InsuranceSpec => []BooksMatchVault
<1>1. ASSUME BooksInv PROVE BooksMatchVault
    <2> DEFINE again == SumOf(CreditedAgain, Contracts)
               open == SumOf(CollateralOf, OpenClaims)
    <2>1. /\ Held + again = pool.total_balance + open
          /\ again \in Nat /\ open \in Nat /\ pool.total_balance \in Nat
          /\ vault \in Nat /\ missing \in Nat /\ surplus \in Nat
        BY <1>1, SumsNat DEF BooksInv, ClaimsInv, InsuranceTypeOK, PoolAccount
    <2> HIDE DEF again, open
    <2>2. vault + missing + again = pool.total_balance + surplus + open
        BY <2>1 DEF Held
    <2> QED
        BY <2>2, CreditedIsSum, CollateralIsSum DEF BooksMatchVault, again, open
<1> QED
    BY <1>1, InitBooks, NextBooks, PTL DEF InsuranceSpec

(* active_claims never counts a claim that is not open, and misses one open
   claim at most for every denial that was repeated.                       *)
THEOREM ActiveClaimsExact == InsuranceSpec => []ActiveClaimsCounted
<1>1. ASSUME BooksInv PROVE ActiveClaimsCounted
    <2> DEFINE open == Cardinality(OpenClaims)
               repeated == SumOf(RepeatedOf, Contracts)
    <2>1. /\ pool.active_claims <= open /\ open <= pool.active_claims + repeated
          /\ open \in Nat /\ repeated \in Nat /\ pool.active_claims \in Nat
        BY <1>1, SumsNat DEF BooksInv, ClaimsInv, InsuranceTypeOK, PoolAccount
    <2>2. repeated = MapThenSumSet(Repeated, Contracts)
        BY RepeatedIsSum
    <2> HIDE DEF open, repeated
    <2>3. pool.active_claims \in Monus(open, repeated) .. open
        BY <2>1 DEF Monus
    <2> QED
        BY <2>2, <2>3 DEF ActiveClaimsCounted, open
<1> QED
    BY <1>1, InitBooks, NextBooks, PTL DEF InsuranceSpec

(* Until a denial is repeated or a deposit or collateral goes elsewhere,
   every open claim can be paid in full from the vault: the collaterals of
   open claims are in it beside the pool's balance, which bounds the payout
   at the moment of the approval.                                          *)
THEOREM ClaimsCovered == InsuranceSpec => []OpenClaimsCovered
<1>1. ASSUME BooksInv PROVE OpenClaimsCovered
    <2> SUFFICES ASSUME SumOf(RepeatedOf, Contracts) = 0, missing = 0, NEW c \in OpenClaims
                 PROVE  CanPay(c, ClaimPayout(c))
        BY RepeatedIsSum DEF OpenClaimsCovered
    <2> DEFINE others == OpenClaims \ {c}
               payout == ClaimPayout(c)
    <2>1. /\ c \in Contracts /\ ClaimsInv /\ IsFiniteSet(Contracts)
          /\ OpenClaims \in SUBSET Contracts
        BY <1>1, PoolAssumption DEF OpenClaims, BooksInv
    <2>2. \A x \in Contracts : /\ RepeatedOf[x] \in Nat /\ RepeatedOf[x] = Repeated(x)
                              /\ CollateralOf[x] = claims[x].collateral
                              /\ CollateralOf[x] \in Nat
                              /\ CreditedAgain[x] = Repeated(x) * claims[x].collateral
        BY <2>1, TermsNat DEF TermOf
    <2>3. \A x \in Contracts : RepeatedOf[x] = 0
        <3> SUFFICES ASSUME NEW x \in Contracts PROVE RepeatedOf[x] = 0
            OBVIOUS
        <3>1. SumOf(RepeatedOf, Contracts) = RepeatedOf[x] + SumOf(RepeatedOf, Contracts \ {x})
            <4>1. \A y \in Contracts : RepeatedOf[y] \in Int
                BY <2>2
            <4>2. IsFiniteSet(Contracts)
                BY <2>1
            <4> QED
                BY ONLY x \in Contracts, <4>1, <4>2, SumRemove
        <3>2. SumOf(RepeatedOf, Contracts \ {x}) \in Nat
            BY <2>1, <2>2, FS_Subset, SumNat
        <3> QED
            BY <2>2, <3>1, <3>2
    <2>4. SumOf(CreditedAgain, Contracts) = 0
        <3>1. \A x \in Contracts : CreditedAgain[x] = 0
            BY <2>2, <2>3
        <3> QED
            BY <2>1, <3>1, SumZero
    <2>5. IsFiniteSet(OpenClaims) /\ IsFiniteSet(others) /\ others \in SUBSET Contracts
        BY <2>1, FS_Subset
    <2>6. SumOf(CollateralOf, OpenClaims) = CollateralOf[c] + SumOf(CollateralOf, others)
        <3>1. \A y \in OpenClaims : CollateralOf[y] \in Int
            BY <2>1, <2>2
        <3>2. IsFiniteSet(OpenClaims)
            BY <2>5
        <3> QED
            BY ONLY c \in OpenClaims, <3>1, <3>2, SumRemove
    <2>7. SumOf(CollateralOf, others) \in Nat
        BY <2>2, <2>5, SumNat
    <2>8. Held + SumOf(CreditedAgain, Contracts)
              = pool.total_balance + SumOf(CollateralOf, OpenClaims)
        BY <1>1 DEF BooksInv
    <2>9. payout \in Nat /\ payout <= pool.total_balance
        BY <2>1, PayoutBounds
    <2>10. vault \in Nat /\ surplus \in Nat /\ pool.total_balance \in Nat
        BY <2>1 DEF ClaimsInv, InsuranceTypeOK, PoolAccount
    <2>12. Held = vault - surplus
        BY <2>10 DEF Held
    <2> HIDE DEF others, payout
    <2>11. vault >= payout + claims[c].collateral
        BY <2>1, <2>2, <2>4, <2>6, <2>7, <2>8, <2>9, <2>10, <2>12
    <2> QED
        BY <2>11 DEF CanPay, payout
<1> QED
    BY <1>1, InitBooks, NextBooks, PTL DEF InsuranceSpec

(* The specification that the run checks, in which one part rests while the
   other moves, allows nothing that the two specifications do not.         *)
LEMMA TreasuryRunIsBoth == Spec => InsuranceSpec /\ IncentivesSpec
<1>1. Init => InsuranceInit /\ IncentivesInit
    BY DEF Init
<1>2. [Next]_<<insurance, incentives>> => [InsuranceNext]_insurance /\ [IncentivesNext]_incentives
    BY DEF Next
<1> QED
    BY <1>1, <1>2, PTL DEF Spec, InsuranceSpec, IncentivesSpec

=============================================================================
