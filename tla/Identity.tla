------------------------------ MODULE Identity ------------------------------
(***************************************************************************)
(* AgentIdentity accounts (identity.rs), the bond vaults and the mint      *)
(* (admin.rs).  The clock counts months of 30 days from 1.                 *)
(*                                                                         *)
(* Contracts are seen as the identity of their provider sees them: work is *)
(* taken, and it ends in one of a few ways.  `banned` is never set and is  *)
(* left out.                                                               *)
(***************************************************************************)
EXTENDS TrustScore, FiniteSetsExt

CONSTANTS
    Agents,
    Workers,            \* agents that do more than register
    OldAgents,          \* agents registered when the bonds were in the first vault
    Mints, FirstMint,   \* tokens that may be SWORN, and the one that is at first
    BondLimits,         \* values of <<min_identity_bond, max_identity_bond>>
    Bonds,              \* bonds an agent may offer
    MaturationPeriods,  \* values of maturation_period
    Rates,              \* rates at which a caller may convert SOL volume
    Currencies, ContractValue,
    Reworks,            \* redeliveries, corrections and private rounds of a contract
    HibernationMonths,  \* durations an agent may declare
    Holidays,           \* months that may pass at once
    Payments,           \* amounts that claims and transfers move
    MaxTime,            \* bound: last month of the clock
    MaxWork,            \* bound: contracts one agent takes
    MaxProposals,       \* bound: open proposals to one agent
    MaxLosses,          \* bound: disputes lost from which an agent is no requester
    MaxFriction,        \* bound: friction from which an agent is no requester
    MaxFlags,           \* bound: claims approved against one agent
    MaxReceived,        \* bound: tokens the bond vaults get that are no bonds
    MaxBonus            \* bound: sponsor bonus from which an agent is sponsored no more

CONSTANTS
    MaturationTasks,    \* 5
    CooldownTasks,      \* 5
    SponsorMinScore,    \* 50
    LogLimit            \* (2^64 - 1) \div 10, above which n * 10 overflows

ASSUME IdentityAssumption ==
    /\ IsFiniteSet(Agents) /\ Workers \subseteq Agents /\ OldAgents \subseteq Agents
    /\ FirstMint \in Mints
    /\ BondLimits \subseteq Nat \X Nat /\ Bonds \subseteq Nat /\ MaturationPeriods \subseteq Nat
    /\ Rates \subseteq Nat /\ Payments \subseteq Nat /\ HibernationMonths \subseteq Nat /\ Holidays \subseteq Nat
    /\ Reworks \subseteq [redeliveries : Nat, corrections : Nat, rounds : Nat]
    /\ MaxTime \in Nat \ {0} /\ MaturationTasks \in Nat \ {0} /\ SponsorMinScore \in Nat
    /\ {ContractValue, MaxWork, MaxProposals, MaxLosses, MaxFriction, MaxFlags, MaxReceived,
        MaxBonus, CooldownTasks} \subseteq Nat
    /\ LogLimit \in Nat /\ Leading(LogLimit, 18) < 10

VARIABLES
    now,
    limits,     \* ProtocolConfig.min_identity_bond, max_identity_bond
    maturation, \* ProtocolConfig.maturation_period
    sworn_mint, \* ProtocolConfig.sworn_mint
    agents,     \* AgentIdentity accounts
    vaults,     \* the token accounts bond-vault (1) and bond-vault-v2 (2)
    forgiven,   \* tokens the admin took out of the first vault
    claimed,    \* tokens that claims on the insurance pool took out of both
    received,   \* tokens that came into the vaults and are no bonds
    proposed,   \* open proposals to each agent
    rested      \* agents that have hibernated before

parameters == <<limits, maturation, sworn_mint>>
treasury == <<vaults, forgiven, claimed, received>>
identity == <<now, parameters, agents, treasury, proposed, rested>>

AgentIdentity ==
    [identity_bond : Nat, registered_at : Nat, matured : BOOLEAN, trust_score : 0..100,
     tasks_completed : Nat, volume_processed : Nat, volume_sol : Nat, disputes_lost : Nat,
     tasks_abandoned : Nat, fraud_flags : Nat, total_deliveries : Nat,
     corrections_received : Nat, active_contracts : Nat, last_task_completed_at : Nat,
     sponsor_bonus : Nat, is_hibernating : BOOLEAN, hibernation_ends_at : Nat,
     tasks_since_last_hibernation : Nat, dispute_friction_total : Nat]

Unregistered ==
    [identity_bond |-> 0, registered_at |-> 0, matured |-> FALSE, trust_score |-> 0,
     tasks_completed |-> 0, volume_processed |-> 0, volume_sol |-> 0, disputes_lost |-> 0,
     tasks_abandoned |-> 0, fraud_flags |-> 0, total_deliveries |-> 0,
     corrections_received |-> 0, active_contracts |-> 0, last_task_completed_at |-> 0,
     sponsor_bonus |-> 0, is_hibernating |-> FALSE, hibernation_ends_at |-> 0,
     tasks_since_last_hibernation |-> 0, dispute_friction_total |-> 0]

NewIdentity(bond, date) == [Unregistered EXCEPT !.identity_bond = bond, !.registered_at = date]

IsRegistered(a) == agents[a].registered_at > 0

NoVault == [mint |-> "none", balance |-> 0]
Exists(v) == vaults[v] # NoVault

-----------------------------------------------------------------------------
(* register_agent: the agent's tokens are of the mint of the configuration,
   and a transfer needs the vault to be of the same mint.                  *)
RegisterAgent(a, bond) ==
    /\ ~IsRegistered(a)
    /\ bond \in limits[1]..limits[2]
    /\ Exists(2) /\ vaults[2].mint = sworn_mint
    /\ vaults' = [vaults EXCEPT ![2].balance = @ + bond]
    /\ agents' = [agents EXCEPT ![a] = NewIdentity(bond, now)]
    /\ UNCHANGED <<now, parameters, forgiven, claimed, received, proposed, rested>>

(* sponsor_agent: five points at most in a call, any number of calls.  The
   sponsor may be the agent itself.                                        *)
SponsorAgent(s, a, bonus_points) ==
    /\ agents[a].sponsor_bonus < MaxBonus
    /\ IsRegistered(a) /\ agents[s].matured
    /\ agents[s].trust_score >= SponsorMinScore
    /\ agents' = [agents EXCEPT ![a].sponsor_bonus =
                      @ + (IF bonus_points < 5 THEN bonus_points ELSE 5)]
    /\ UNCHANGED <<now, parameters, treasury, proposed, rested>>

MaturationIsDue(a) ==
    /\ IsRegistered(a) /\ ~agents[a].matured
    /\ now - agents[a].registered_at >= maturation
    /\ agents[a].tasks_completed >= MaturationTasks

(* check_maturation, which Next leaves out: see NobodyMaturesAlone.        *)
CheckMaturation(a) ==
    /\ MaturationIsDue(a)
    /\ agents' = [agents EXCEPT ![a].matured = TRUE]
    /\ UNCHANGED <<now, parameters, treasury, proposed, rested>>

ForceMature(a) ==
    /\ IsRegistered(a)
    /\ agents' = [agents EXCEPT ![a].matured = TRUE]
    /\ UNCHANGED <<now, parameters, treasury, proposed, rested>>

(* The logarithms overflow, and the recalculation fails, from a rate on
   that the caller may choose.                                             *)
ScoreIsComputable(a, rate) ==
    a.fraud_flags > 0 \/ (a.tasks_completed < LogLimit /\ TotalVolume(a, rate) < LogLimit)

CalculateTrustScore(a, rate) ==
    /\ IsRegistered(a)
    /\ ScoreIsComputable(agents[a], rate)
    /\ agents' = [agents EXCEPT ![a].trust_score = calculate_trust_score(agents[a], now, rate)]
    /\ UNCHANGED <<now, parameters, treasury, proposed, rested>>

-----------------------------------------------------------------------------
(* Hibernation *)

(* The cooldown counts from the end of a hibernation, which waking clears. *)
CooldownIsOver(a) ==
    agents[a].tasks_since_last_hibernation >= CooldownTasks \/ agents[a].hibernation_ends_at = 0

Hibernate(a, months) ==
    /\ IsRegistered(a) /\ ~agents[a].is_hibernating
    /\ CooldownIsOver(a)
    /\ agents' = [agents EXCEPT ![a].is_hibernating = TRUE,
                                ![a].hibernation_ends_at = now + months,
                                ![a].tasks_since_last_hibernation = 0]
    /\ rested' = rested \cup {a}
    /\ UNCHANGED <<now, parameters, treasury, proposed>>

Awoken(a) == [agents EXCEPT ![a].is_hibernating = FALSE, ![a].hibernation_ends_at = 0]

(* wake_agent, and expire_hibernation: both by the agent itself.           *)
WakeAgent(a) ==
    /\ agents[a].is_hibernating
    /\ agents' = Awoken(a)
    /\ UNCHANGED <<now, parameters, treasury, proposed, rested>>

ExpireHibernation(a) ==
    /\ agents[a].is_hibernating
    /\ now > agents[a].hibernation_ends_at
    /\ agents' = Awoken(a)
    /\ UNCHANGED <<now, parameters, treasury, proposed, rested>>

-----------------------------------------------------------------------------
(* Contracts, as the provider's identity sees them *)

BelowExposureLimit(a) == agents[a].active_contracts < agents[a].trust_score \div 10 + 1

WorkTaken(a) == agents[a].total_deliveries + agents[a].tasks_abandoned + agents[a].active_contracts

(* Mutation: a hibernating agent can be asked. *)
MayBeAskedAsleep(a) == agents[a].matured

(* Mutation: an agent that has not matured can be asked. *)
MayBeAskedUnmatured(a) == IsRegistered(a) /\ ~agents[a].is_hibernating

MayBeAsked(a) == agents[a].matured /\ ~agents[a].is_hibernating

Create(a) ==
    /\ WorkTaken(a) < MaxWork
    /\ MayBeAsked(a) /\ BelowExposureLimit(a)
    /\ agents' = [agents EXCEPT ![a].active_contracts = @ + 1]
    /\ UNCHANGED <<now, parameters, treasury, proposed, rested>>

Propose(a) ==
    /\ MayBeAsked(a) /\ proposed[a] < MaxProposals
    /\ proposed' = [proposed EXCEPT ![a] = @ + 1]
    /\ UNCHANGED <<now, parameters, agents, treasury, rested>>

AcceptProposal(a) ==
    /\ WorkTaken(a) < MaxWork
    /\ proposed[a] > 0 /\ BelowExposureLimit(a)
    /\ proposed' = [proposed EXCEPT ![a] = @ - 1]
    /\ agents' = [agents EXCEPT ![a].active_contracts = @ + 1]
    /\ UNCHANGED <<now, parameters, treasury, rested>>

(* accept_contract and timeout_delivery, and accept_correction after rework. *)
Finish(a, currency, rework) ==
    /\ agents[a].active_contracts > 0
    /\ agents' = [agents EXCEPT
           ![a].tasks_completed = @ + 1,
           ![a].total_deliveries = @ + 1 + rework.redeliveries,
           ![a].corrections_received = @ + rework.corrections,
           ![a].dispute_friction_total = @ + rework.rounds,
           ![a].last_task_completed_at = now,
           ![a].active_contracts = @ - 1,
           ![a].tasks_since_last_hibernation = @ + 1,
           ![a].volume_sol = IF currency = "Sol" THEN @ + ContractValue ELSE @,
           ![a].volume_processed = IF currency = "Sol" THEN @ ELSE @ + ContractValue]
    /\ UNCHANGED <<now, parameters, treasury, proposed, rested>>

(* resolve_dispute: no loss for the winner, one for the loser, and one more
   if the loser had appealed; the corrections here are rejected deliveries. *)
Dispute(a, losses, rework) ==
    /\ agents[a].active_contracts > 0
    /\ agents' = [agents EXCEPT
           ![a].total_deliveries = @ + 1 + rework.redeliveries,
           ![a].corrections_received = @ + rework.corrections,
           ![a].active_contracts = @ - 1,
           ![a].dispute_friction_total = @ + rework.rounds,
           ![a].disputes_lost = @ + losses,
           ![a].last_task_completed_at = IF losses = 0 THEN now ELSE @]
    /\ UNCHANGED <<now, parameters, treasury, proposed, rested>>

(* The same for the requester, which also loses when it ignores a delivery
   (timeout_delivery) and shares the friction of accept_correction.        *)
AsRequester(a, losses, rework) ==
    /\ IsRegistered(a)
    /\ agents[a].disputes_lost < MaxLosses /\ agents[a].dispute_friction_total < MaxFriction
    /\ agents' = [agents EXCEPT ![a].disputes_lost = @ + losses,
                                ![a].dispute_friction_total = @ + rework.rounds]
    /\ UNCHANGED <<now, parameters, treasury, proposed, rested>>

(* timeout_contract.                                                       *)
Abandon(a) ==
    /\ agents[a].active_contracts > 0
    /\ agents' = [agents EXCEPT ![a].active_contracts = @ - 1, ![a].tasks_abandoned = @ + 1]
    /\ UNCHANGED <<now, parameters, treasury, proposed, rested>>

(* emit_work_reward counts a task for the cooldown as well.                *)
Reward(a) ==
    /\ agents[a].tasks_completed > 0
    /\ agents[a].tasks_since_last_hibernation < CooldownTasks
    /\ agents' = [agents EXCEPT ![a].tasks_since_last_hibernation = @ + 1]
    /\ UNCHANGED <<now, parameters, treasury, proposed, rested>>

(* approve_claim of the insurance pool: payout and collateral come from any
   account of pool-authority that the admin names: the insurance vault (0),
   or a bond vault, which has the same authority.                          *)
ApproveClaim(a, v, amount) ==
    /\ IsRegistered(a) /\ agents[a].fraud_flags < MaxFlags
    /\ agents' = [agents EXCEPT ![a].fraud_flags = @ + 1]
    /\ \/ v = 0 /\ UNCHANGED <<vaults, claimed>>
       \/ /\ v # 0 /\ vaults[v].balance >= amount
          /\ vaults' = [vaults EXCEPT ![v].balance = @ - amount]
          /\ claimed' = claimed + amount
    /\ UNCHANGED <<now, parameters, forgiven, received, proposed, rested>>

-----------------------------------------------------------------------------
(* Administration *)

(* deposit_to_pool, a settlement, or a transfer of anybody, with a bond vault
   for its destination.                                                    *)
Receive(v, amount) ==
    /\ Exists(v) /\ received + amount <= MaxReceived
    /\ vaults' = [vaults EXCEPT ![v].balance = @ + amount]
    /\ received' = received + amount
    /\ UNCHANGED <<now, parameters, agents, forgiven, claimed, proposed, rested>>

UpdateConfig(bounds, period) ==
    /\ limits' = bounds /\ maturation' = period
    /\ UNCHANGED <<now, sworn_mint, agents, treasury, proposed, rested>>

UpdateSwornMint(mint) ==
    /\ sworn_mint' = mint
    /\ UNCHANGED <<now, limits, maturation, agents, treasury, proposed, rested>>

(* setup_bond_vault creates the first vault, in which nothing is put.      *)
SetupBondVault ==
    /\ ~Exists(1)
    /\ vaults' = [vaults EXCEPT ![1] = [mint |-> sworn_mint, balance |-> 0]]
    /\ UNCHANGED <<now, parameters, agents, forgiven, claimed, received, proposed, rested>>

(* Mutation: the old tokens are closed in with their account. *)
DrainedToNobody == 0

Drained == vaults[1].balance

(* migrate_bond_vault: the old tokens go to a token account of the admin of
   the configured mint, so the old vault must be of it unless it is empty. *)
MigrateBondVault(mint) ==
    /\ Exists(1) /\ ~Exists(2)
    /\ vaults[1].balance = 0 \/ vaults[1].mint = sworn_mint
    /\ vaults' = <<NoVault, [mint |-> mint, balance |-> 0]>>
    /\ forgiven' = forgiven + Drained
    /\ sworn_mint' = mint
    /\ UNCHANGED <<now, limits, maturation, agents, claimed, received, proposed, rested>>

PassMonths(months) ==
    /\ now + months <= MaxTime
    /\ now' = now + months
    /\ UNCHANGED <<parameters, agents, treasury, proposed, rested>>

-----------------------------------------------------------------------------
IdentityInit ==
    /\ now = 1
    /\ limits \in BondLimits /\ maturation \in MaturationPeriods /\ sworn_mint = FirstMint
    /\ \/ /\ agents = [a \in Agents |-> Unregistered]
          /\ vaults = <<NoVault, NoVault>>
       \/ /\ agents = [a \in Agents |->
                          IF a \in OldAgents THEN NewIdentity(limits[1], 1) ELSE Unregistered]
          /\ vaults = <<[mint |-> FirstMint, balance |-> limits[1] * Cardinality(OldAgents)],
                        NoVault>>
    /\ forgiven = 0 /\ claimed = 0 /\ received = 0
    /\ proposed = [a \in Agents |-> 0]
    /\ rested = {}

WorkNext(a) ==
    \/ Create(a) \/ Propose(a) \/ AcceptProposal(a)
    \/ \E currency \in Currencies, rework \in Reworks : Finish(a, currency, rework)
    \/ \E losses \in 0..2, rework \in Reworks :
          Dispute(a, losses, rework) \/ AsRequester(a, losses, rework)
    \/ Abandon(a) \/ Reward(a) \/ ApproveClaim(a, 0, 0)

AgentNext(a) ==
    \/ \E s \in Agents : SponsorAgent(s, a, 9)
    \/ \E rate \in Rates : CalculateTrustScore(a, rate)
    \/ \E months \in HibernationMonths : Hibernate(a, months)
    \/ WakeAgent(a) \/ ExpireHibernation(a) \/ ForceMature(a)

AdminNext ==
    \/ \E bounds \in BondLimits, period \in MaturationPeriods : UpdateConfig(bounds, period)
    \/ SetupBondVault
    \/ \E mint \in Mints : UpdateSwornMint(mint) \/ MigrateBondVault(mint)

RegisterNext == \E a \in Agents, bond \in Bonds : RegisterAgent(a, bond)

VaultNext ==
    \E v \in 1..2, amount \in Payments :
        Receive(v, amount) \/ \E a \in Workers : ApproveClaim(a, v, amount)

TimeNext == \E months \in Holidays : PassMonths(months)

IdentityNext ==
    \/ RegisterNext \/ AdminNext \/ VaultNext \/ TimeNext
    \/ \E a \in Workers : AgentNext(a) \/ WorkNext(a)

IdentitySpec == IdentityInit /\ [][IdentityNext]_identity

-----------------------------------------------------------------------------
(* Type invariant: every field keeps its type, scores stay in 0..100. *)
IdentityTypeOK ==
    /\ now \in 1..MaxTime
    /\ limits \in BondLimits /\ maturation \in MaturationPeriods /\ sworn_mint \in Mints
    /\ {forgiven, claimed, received} \subseteq Nat /\ rested \subseteq Agents
    /\ proposed \in [Agents -> 0..MaxProposals]
    /\ vaults \in [1..2 -> [mint : Mints \cup {"none"}, balance : Nat]]
    /\ agents \in [Agents -> AgentIdentity]

(* Bonds are accounted for across changes of mint and vault: they leave the
   vaults by migrate_bond_vault and by claims paid out of a bond vault only,
   and what else came into a vault is beside them.                         *)
BondsAccounted ==
    vaults[1].balance + vaults[2].balance + forgiven + claimed
        = MapThenSumSet(LAMBDA a : agents[a].identity_bond, Agents) + received

(* No agent matures by check_maturation, after any time: only the work of a
   mature agent counts as completed, so the first maturity is the admin's. *)
NobodyMaturesAlone == \A a \in Agents : ~MaturationIsDue(a)

(* A flagged agent regains nothing: whatever it does, and whoever recomputes
   its score at whatever rate, the score never rises again.                *)
FlaggedNeverRises ==
    [][\A a \in Agents : agents[a].fraud_flags > 0 =>
          /\ agents'[a].trust_score <= agents[a].trust_score
          /\ agents'[a].fraud_flags > 0]_identity

(* While an agent hibernates its work does not grow beyond what it had and
   what had been proposed to it, although accept_proposal does not look.   *)
AsleepNoNewWork ==
    [][\A a \in Agents : agents[a].is_hibernating =>
          agents'[a].active_contracts + proposed'[a]
              <= agents[a].active_contracts + proposed[a]]_identity

(* After waking, an agent hibernates again only when it has completed the
   tasks of the cooldown.                                                  *)
CooldownRespected ==
    [][\A a \in Agents : (agents'[a].is_hibernating /\ ~agents[a].is_hibernating /\ a \in rested) =>
          agents[a].tasks_since_last_hibernation >= CooldownTasks]_identity
=============================================================================
