# The trust protocol in TLA+

A verification project for the Anchor program `programs/trust-protocol`: agents
hire each other, stake tokens on their work, and settle what goes wrong through
four levels of dispute. Paths below are relative to
`src/programs/trust-protocol/src/`.

## 1. Inventory: the parts of the system

All state is in on-chain accounts; an instruction is atomic (a failed check,
transfer or checked subtraction reverts all of it), and the instructions of
different callers interleave freely. The hard part is therefore not a race inside
a handler but the *order of handlers*: about thirty instructions share the same
accounts, several are permissionless, and each checks only some of the fields
that describe where a contract stands.

| part (source) | state | operations | what makes it correct |
|---|---|---|---|
| contract lifecycle (`instructions/proposal.rs`, `contract.rs`) | `Contract`, `ProofOfExecution`, the escrow vault (SWORN) or the contract's lamports (SOL) | create, propose, accept or cancel a proposal, deliver, accept or reject a delivery, two timeouts | until it is settled, the money of a contract is there; a settlement that pays its payees pays once and exactly; a settled contract stays settled; a provider that delivered is not treated as one that did not |
| disputes (`instructions/dispute.rs`) | `Dispute`, one `VoteRecord` per juror | initiate, respond, escalate, appeal with a stake, vote, resolve, redeliver, accept a correction | a verdict is what the votes say; levels only climb; the stake of an appeal goes to the right party; winners are made whole |
| identity (`instructions/identity.rs`) | `AgentIdentity`: bond, score, maturity, hibernation, counters | register, sponsor, mature, score, hibernate, wake, expire | counters are the true counts, as they gate new work and feed the score; the score does what its factors say; a flag is for ever |
| configuration (`initialize.rs`, `admin.rs`) | `ProtocolConfig`, mint, bond vaults | initialize, update_config, force_mature, mint and vault administration | a change in mid-contract breaks no payment; no bond is lost uncounted between two vaults that other instructions sign for as well |
| insurance pool (`insurance.rs`) | `InsurancePool`, `InsuranceClaim` | file, approve, deny, deposit, exposure | books and vault differ by nothing that is not accounted for; a claim is paid once; what may be approved can be paid |
| work rewards (`work_rewards.rs`) | counters of `ProtocolConfig` | emit | the schedule halves on time, and stops at the cap |
| stake manager (`stake_manager.rs`) | `StakeManager` | deposit, withdraw, harvest | parts add up (token movement is a stub) |
| bidding (`bidding.rs`) | `Bid` | place, withdraw, select | unreachable: no handler makes a contract public |
| migrations (`migrate.rs`, `admin.rs`, end of `dispute.rs`) | account bytes | resize accounts | every field is read after a migration as it was written |
| clients (`sdk/`, `scripts/`) | none | encode and decode | agreement with the program |

Interactions: contract and dispute instructions write the same `Contract`,
`ProofOfExecution` and escrow; both write the counters of the same
`AgentIdentity`; settlements credit the insurance pool and read fees and limits
from `ProtocolConfig` at the moment they run; anyone may recompute a trust score,
time out a contract or settle a jury's verdict, and whoever settles a SWORN contract names the token accounts
it pays. Time enters through deadlines in
`Contract`, `ProofOfExecution` and `Dispute`.

`PROJECT.json` lists, under `hazards`, each place where this can go wrong, with
the properties that would catch it.

## 2. Modules

    ProtocolState            accounts, amounts, shared steps; assumptions on the constants
      |-- ContractLifecycle  proposal.rs, contract.rs: one action per instruction
      |-- DisputeResolution  dispute.rs: one action per instruction
            \-- TrustProtocol   both on shared accounts, with clock, identity, configuration;
                 |              invariants and action properties; implements EscrowPromise
                 |-- Progress   fairness and liveness
                 |-- Claims     what comments say and the program does not do
                 |-- MCOneContract, MCManyContracts, MCProgress, MCClaims
                 \-- TypeProofs -> ContractProofs -> PromiseProofs -> SharedAccountProofs
    EscrowPromise            abstract: what the protocol promises about money
    Amounts                  shares, subtraction that stops at zero: extended by all modules with amounts
      |-- Formulas           integer_sqrt, stake and escrow factors, jury size
      \-- TrustScore         calculate_trust_score with its logarithm, factors and penalties
            |-- Identity     identity.rs and the bonds of admin.rs     -> MCIdentity, IdentityProofs
            \-- MCFormulas   Formulas and TrustScore against references  -> IdentityProofs
    InsurancePool            insurance.rs                     --|
    Incentives               work_rewards.rs, stake_manager.rs --|-> MCTreasury -> TreasuryProofs
    Migrations               migrate.rs and the migrations of admin.rs and dispute.rs -> MigrationProofs
    SumLemmas                the sum of a function over a finite set: used by three proof modules

### The core: contracts and disputes

- `contracts`, `poe`, `disputes`, `agents` are the accounts, field by field with
  the source's names. Status and level names are the enum variants; an account
  that does not exist has status `"None"` (a proof has `exists = FALSE`).
- `escrow[cur][c]` is what is held for contract c: the SWORN vault, or the lamports
  of the contract account above its rent.
- `net[c]` is a history variable: what each of requester, provider, treasury,
  insurance vault and burn got out of contract c minus what it put in. `astray`, another, is the set of contracts a
  payment of which missed its payee, or into whose escrow somebody else paid.
- `votes[c]` are the `VoteRecord` accounts; the level at which a vote was cast, which
  the program does not store, is kept with them.
- `config` holds the parameters `update_config` can change that contracts and disputes read.

A handler is one action. Its guard collects all checks wherever they stand in the
handler, since a failed one reverts the rest; account constraints (`init` of an
account that exists, identity accounts that must be there, the status constraint of an `Accept`
context) are guards too, as operators `...Accounts`. A signer is the party the
constraints ask for and is not written down.

Payments are records by payee. `Disburse` makes the transfers in their order and refuses one that exceeds what is held, as the token
program does. To whom they go: in SOL the settlements compare the payees' keys (contract.rs:635 and the like). In SWORN the accounts of `accept_contract`,
`timeout_contract`, `timeout_delivery`, `resolve_dispute` and `accept_correction` are `UncheckedAccount`s, and the token program asks only that they
have the mint. Their caller names them (`Route`): the payee's, another one, or the escrow vault itself, and a transfer from
an account to itself succeeds and moves nothing. `cancel_proposal` compares the owner of the account it refunds, so it
has no route. A contract is `Regular` as long as all its payments reached their payees, nobody
else added to its escrow (`Gift`, which a transfer can do at any time) and its deposit is not rounded to nothing (a value of at most 3).
What the handlers do to a contract that is not regular is modelled like any other: it can be resolved again if the escrow still holds enough, and then its status,
counters, friction and pool credit change again. Properties that a route can break say so in their hypothesis (`Regular(c)`, `OnlyRegular(a)`),
and keep outside of it what holds for every contract.

Left out: hashes, Arweave ids, events, `volume_*` and `last_task_completed_at` (they
feed only the score formula, which is an arbitrary new score here and a module of its own);
`banned`, which no instruction sets; unsettled rent. `deadline_validation` is signed in the source and
natural here. Amounts are unbounded (the source computes most shares in u128 and
reverts on overflow; the product of value and fee in u64, so that a settlement of more than 1.8e17 units fails). The SOL branch of
`escalate_to_appeal` debits a wallet the program does not own, which the runtime
refuses: the step has guard `currency = "Sworn"`. Two agents' accounts in one
instruction are written back in the order of the context (`WriteBack`), so that with one
agent on both sides the last copy wins, as it does in Anchor.

### The escrow promise

`EscrowPromise` knows no disputes, juries or deadlines. A contract is offered, worked on and
closed; money comes in when it is offered and when the provider takes it on, and goes
out all at once when it closes; closing charges nobody, except that a requester that accepts
tops the payment up; an appeal is a second deposit beside it; every step conserves the sum of
deposits and gains, and touches one contract. A contract may become void, in one step and for good, and then nothing is promised of
its money. `TrustProtocol!PromiseKept` is `Promise!Spec` under
the mapping: stage void for a contract that is not `Regular`, else from the contract's status (Proposed is offered, every live status is working, every
settled one closed), `held` = the escrow in both currencies less a pending appeal stake, `appeal` = that
stake, and the gains from `net` (all zero when void: `Accounted`). Votes, responses, configuration and time are stutters.

### Identity

`agents` has the account with the fields the score and the gates read; `vaults` are the token accounts
`bond-vault` and `bond-vault-v2`, `forgiven` what `migrate_bond_vault` paid out to the admin, `claimed` what claims on the insurance pool were paid out of them
(all three vaults have `pool-authority`, and `approve_claim` compares only that: insurance.rs:325, admin.rs:62, 190), `received` what came into them and is no bond, `proposed`
the open proposals to an agent, `rested` (history) those that hibernated before. The clock counts months of 30 days, the unit of
age and decay. One action per instruction of `identity.rs` (`RegisterAgent`, `SponsorAgent`, `CheckMaturation`,
`CalculateTrustScore`, `Hibernate`, `WakeAgent`, `ExpireHibernation`) and of `admin.rs` (`UpdateConfig`, `ForceMature`,
`UpdateSwornMint`, `SetupBondVault`, `MigrateBondVault`). What contracts, disputes, rewards and claims do to the identity of a provider
is in `Create`, `Propose`, `AcceptProposal`, `Finish`, `Dispute` (with zero to two losses: the party that loses an appeal it
staked loses twice), `AsRequester` (losses, rounds and rework of the other side), `Abandon`, `Reward`, `ApproveClaim` (a flag, and tokens if it names a bond vault);
`Receive` is a transfer into a vault. `CheckMaturation` is not in
the next-state relation, because it is never enabled: `NobodyMaturesAlone` is that fact, stated of its guard (`MaturationIsDue`).
`calculate_trust_score` multiplies its arguments by ten in u64, with overflow checks: for an agent with `LogLimit` tasks or units of volume or more the
instruction fails (`ScoreIsComputable`). The powers of ten of its logarithm are divided out in two steps (`Leading`), as neither TLC nor the provers take 10^18.

### Treasury

`InsurancePool`: `pool` and `claims` are the accounts, `vault` the tokens, `resolved_at` the completed contracts; `gain`
(history) is what a requester got out of its claim, `rulings` counts approvals and denials of one claim. The account that stands for the
insurance vault is any token account (insurance.rs:298, 325, 368): `FileClaim` pays the collateral to the vault, to the claimant itself or elsewhere, `DepositToPool` to the vault or elsewhere,
`ApproveClaim` draws on the vault or another account of `pool-authority`. Three histories account for it: `kept`, the contracts whose claimant kept its collateral; `missing`, tokens on
the books that went elsewhere; `surplus`, tokens in the vault that no book shows. The governance
phase is the 0 that `initialize` sets and nothing changes, so rulings are the admin's. `Incentives`: the counters of `emit_work_reward` and the
bookkeeping of stakes; in the source the stake manager's token transfers are stubs, and `lp_fees_earned`
is never increased, so that `harvest_lp_fees` always fails and has no step to model.

### Migrations

An account is a function from offsets to bytes, a byte names its field and its place in it, a layout is a sequence of fields
with the offsets where each begins and ends. A migration is what the handler does to the bytes, with its literal offsets. `AccountsKeepFields`
reads the result with the later layout.

## 3. Runs

Contracts have value 1000 and fees of 0.5% (SWORN) and 1% (SOL), so that every share is
positive and roundings differ. In the core one unit of time stands for three days, rounded down:
72 h, 5 d, 7 d, 10 d become 1, 1, 2, 3 units. Clocks stop at `MaxTime`, which is
why deadlock is not checked. Agents' counters start at zero;
initial scores stand for earlier history. Stake factors and the public jury size
come from `Formulas`.

| run | instance | shows |
|---|---|---|
| Jury | one SWORN contract, half escrow, four jurors (3 decide at L3, appeal jury of 5), `MaxTime` 4, settlements to the payees or to the escrow vault and a stranger's account; symmetry in the jurors | tallies agree with records across an appeal, verdicts follow the votes, the escrow holds what is owed until the settlement, exactly that if no payment missed its payee, appeal stake to the right party, winners whole, settled stays settled, promise kept |
| Corrections | one contract, SWORN or SOL, full or half escrow, expiring proposals, a requester with and one without identity, the same routes, gifts of 500, `MaxTime` 3, `update_config` switching the correction limit and the fees (SOL to 110%) | types, promise kept, the pool's books show what its vault was paid (in SOL up to the shares of a lost stake), friction charged once, levels climb one by one, no delivered contract is timed out as abandoned |
| Exposure | two contracts between two agents, the provider also its own requester, scores 0 and 10 (limits 1 and 2), hibernation in the first period, maturation; disputes decided by the admin; settlements pay their payees, as the three properties speak of agents for which they did | counters are the true counts, with the exception the self-dealing makes; the limit holds at the moment of acceptance |
| Progress | one contract, full dispute, two jurors, appeal jury of 3, no symmetry, settlements to the parties or to the escrow vault | the three liveness properties under weak fairness |
| Formulas | inputs 0..1000 | square root is the floor; both curves within 11 and 8 basis points of the real formula; the logarithm adds up to 415 basis points; more work never lowers a score, jurors have worked, the rate a caller picks moves it by 20 points at most and sponsors by 5 |
| Treasury | two claims of 10 or 50, two deposits or gifts of 60, two rulings per claim, every choice of accounts; six or so halvings to the cap or the end of the schedule; two stakes under three reserve ratios; symmetry | books and vault differ only by what is accounted for; counters, schedule and stakes agree; a claim pays once; what may be approved can be paid |
| Identity | a worker and a second identity, three contracts, 13 months in halves of a year, two mints, claims paid out of the bond vaults | types and scores, bonds accounted for across mints, vaults and claims, nobody matures alone, a flag is for ever, no new work asleep |
| Migrations | accounts of every layout in any combination, two disputes | fields survive; an old configuration blocks; amounts of disputes survive only as zero |
| RedeliveryAfterRejection, StrandedAppeal, UncheckedPayees, HibernationCooldown | see below | expected violations |

Why the bounds are enough. Contracts interact only through the two agents'
counters and the pool, so one contract shows all of the money and dispute behaviour
and two show the counters; the third would be blocked by the limit. `MaxTime` 4 (3 in Corrections, where nobody votes) lets
each deadline pass and what follows it happen: proposal expiry, delivery timeout, a
dispute up to the vote, and an appeal opened early and decided. Four jurors decide a
jury of 3 and an appeal jury of 5 (majority 3), tie either one, and leave one silent. The real
appeal jury is 9. A contract paid astray can be resolved any number of times: `MaxVerdicts` bounds the verdicts on one provider (2: the second one is what the single one of a
regular contract is compared with), `MaxEscrow` what gifts add. Exposure is restricted to `UnescalatedSpec` (disputes are opened and
decided by the admin but not escalated): the product of two complete disputes is beyond TLC.

`MCTreasury` and `MCIdentity` let one of two independent parts rest while the other moves: pool and incentives
share no account, nor do the work of a registered agent and the administration of bonds but for the registration itself, so every
order of their steps has the same effect as one of the checked. Some constants are scaled so that a few steps reach them: the cap
of a claim is the whole pool, not 1/20 of it (`PoolCapShare`), so that two claims are one more than the pool can serve; maturity and cooldown take 2 tasks, not 5 (in HibernationCooldown the cooldown
keeps its 5), a sponsor needs 10 points, not 50. `MaxRulings` 2 repeats a denial,
`MaxDeposits` 2 puts one after a claim. `MaxWork`, `MaxProposals`, `MaxLosses`, `MaxFriction`, `MaxFlags`, `MaxReceived` and `MaxBonus` (sponsor bonuses are capped per call and added up without bound) keep
counters finite; 13 months pass every declared hibernation and the caps of decay and age in part, the rest of which `Formulas` tries directly.
Which account versions exist on the chain the repository does not say: `MigrationsInit` takes any combination, an assumption.

Fairness (`Progress!FairSpec`). Nobody has to call an instruction. Only the clock and three
instructions any wallet may call are weakly fair: `timeout_contract`, `timeout_delivery` and
`resolve_dispute` at a jury level; a party that can call each gains by it. Whichever accounts the caller names, the contract ends. No fairness is
assumed of deliveries, answers, votes, the admin or the parties otherwise. `IgnoredDeliveryEnds` and `DecidedContractSettles` ask for a
registered requester, whose identity account those instructions need.

Every property of a passing run has a mutant: a plausible bug (an operator
commented "Mutation" next to the one it replaces) under which TLC finds it violated.

### What the text says and the program does not do

Each of these runs finds a behaviour of the code that breaks what a comment or an instruction's documentation promises (`PROJECT.json`, `findings`).

| run | promise | what happens |
|---|---|---|
| RedeliveryAfterRejection | a rejected delivery can be delivered again | the proof account already exists, `init` fails |
| StrandedAppeal | an appeal stake is returned or confiscated | neither, after the contract was settled otherwise |
| UncheckedPayees | the accounts a settlement pays are validated, in SWORN by the token CPI | that asks for the mint alone: the share of the insurance pool goes to an account that is not its vault |
| HibernationCooldown | five tasks between two hibernations | waking clears the date the cooldown looks at, so an agent hibernates again at once |

Smaller disagreements, visible in a guard or in an exception a property names:

- `reject_delivery` at the correction limit marks the contract Disputed without a Dispute account, which no instruction takes further
  (`ContractLifecycle!StatusAfterRejection`); below the limit it writes level 1 into a contract whose dispute may be at level 2.
- A redelivery leaves the contract Delivered while its dispute goes on, so an ignored delivery can time out although the requester went to a jury.
- `create_contract` takes a currency, and always moves SWORN; no SOL settlement pays it out.
- If one agent is requester and provider, the last copy of its account overwrites the other's changes: a settled contract stays on the count
  (`SettledWithItself` in the counters' invariants).
- `cancel_proposal` cancels proposals that have not expired; `accept_proposal` does not look at hibernation; SOL
  settlements credit the insurance pool without a transfer; parties with a juror's score may vote; an ignored delivery of a
  requester without identity account cannot be completed; the arbitration fee is recorded and never collected.
- `deny_claim` does not look at the claim's status; `BooksMatchVault` says by exactly how much the books then run ahead.
- `check_maturation` never succeeds before the admin's `force_mature_agent` (`NobodyMaturesAlone`).
- `expire_hibernation` is called permissionless and asks for the agent's signature.
- `migrate_config_v3` ends at 186 bytes, ten short of the present layout, which all other migrations must read (`OldConfigBlocks`); the migrations of
  disputes append what the layout has in its middle (`AmountsSurviveOnlyAsZero`); `migrate_dispute_v2` asks for 218 bytes, which no layout has.
- `file_claim`, `deposit_to_pool` and `approve_claim` do not compare the insurance vault either (`kept`, `missing` and `surplus` in `BooksMatchVault` and `ClaimPaidOnce`), so that `approve_claim` can pay out
  of the bond vaults (`claimed` in `BondsAccounted`).
- A jury's dispute is to be permissionless once its deadline passed (dispute.rs:340); without a vote it is not (348-353), and votes are closed then.
- Hibernation is "not retroactive" (identity.rs:457), but `calculate_trust_score` reads the flag as it is at the call (identity.rs:298): for an agent that hibernates after months of rest all of them decay at the lower rate, which spares at most
  30 points (`HibernationSparesLittle`).
- `update_config` checks no range. With a SWORN fee above 100% a timed-out delivery pays its fee out of a pending appeal stake, and
  `EscrowMatchesRecords` fails: hence the assumption `FeesBounded` below, and why Corrections exceeds 100% in SOL only, where there is no appeal.

## 4. What is proved

With TLAPS, for every value of the constants that the named assumptions (`PartiesAssumption`,
`BoundsAssumption`, `InputsAssumption`, `RatesAssumption`, `JuryAssumption`; `PoolAssumption`,
`IncentivesAssumption`, `IdentityAssumption`, `InputAssumption`) allow: any number of wallets, contracts, jurors and claims, any
values, rates, jury sizes and clock, any accounts in `Routes` and any `Gifts`. A theorem names the further hypothesis it has:

- *fees*: `FeesBounded`, no fee is above 100%. `update_config` checks no range; with a SWORN fee above that `EscrowMatchesRecords` is false.

No contract value is excluded. With a value of 3 or less the deposit (30% at least) rounds to zero, an empty escrow does not stop a second
resolution, and such a contract is not `Regular`: the properties say of it what they say of one that was paid astray.

| module, theorem | states | hypotheses |
|---|---|---|
| TypeProofs `TypeCorrect` | `TypeOK` | none |
| ContractProofs `EscrowInvariant`, `EscrowExact` | `EscrowMatchesRecords` | fees |
| ContractProofs `SettledFinal` | `SettledIsFinal` | fees |
| ContractProofs `DisputesInOrder`, `TallyExact`, `VerdictIsMajority`, `LevelsOnlyClimb`, `DeliveredKeepsStake` | `TallyMatchesVotes`, `VerdictFollowsVotes`, `LevelsClimb`, `DeliveredNeverAbandoned` | none |
| PromiseProofs `PromiseHolds` | `PromiseKept`: the protocol implements `EscrowPromise` | fees |
| PromiseProofs `PartiesAccounted`, `WinnerWhole` | `WinnerIsMadeWhole` | fees |
| SharedAccountProofs `CountersInvariant`, `ActiveContractsExact`, `OutcomesCounted`, `FrictionCounted`, `ExposureHolds` | `ActiveContractsAccurate`, `OutcomesCountedOnce`, `FrictionBounded`, `ExposureRespected` | fees |
| SharedAccountProofs `PoolBacked` | `PoolIsBacked` | fees |
| TreasuryProofs `TreasuryTypes`, `BooksMatch`, `ClaimsPaidOnce`, `ActiveClaimsExact`, `ClaimsCovered`, `EmissionOnSchedule`, `StakesSplit` | `TreasuryTypeOK`, `BooksMatchVault`, `ClaimPaidOnce`, `ActiveClaimsCounted`, `OpenClaimsCovered`, `EmissionFollowsSchedule`, `StakeIsSplit` | none |
| IdentityProofs `IdentityInvariant`, `IdentityTypes`, `BondsAccountedFor`, `MaturityIsForced`, `FlaggedFalls`, `AsleepRests` | `IdentityTypeOK`, `BondsAccounted`, `NobodyMaturesAlone`, `FlaggedNeverRises`, `AsleepNoNewWork` | none |
| IdentityProofs `TrustStaysEarned` | in every state of `Identity` a score of 50 has two completed tasks behind it, one of 70 twelve | none |
| IdentityProofs `LogOrdersAndScales`, `BetterRecordScoresNoLess`, `RateMovesScoreLittle`, `HibernationSparesLittle`, `SponsorsAddLittle`, `ScoreIsEarned` | the logarithm grows and gains 10000 with every digit; a better record has no lower a score; what rate, hibernation and sponsors can move; what a juror's score takes | for every account the program can score |
| IdentityProofs `WorkPays`, `CallersMoveLittle`, `JurorsWork` | `WorkRaisesScore`, `CallerMovesScoreLittle`, `JurorsHaveWorked`, for every input | none |
| IdentityProofs `SqrtExact`, `FactorsConvex` | `SqrtIsFloor`, `FactorsAreConvexCurves`, for every input | none |
| MigrationProofs `AccountsKept`, `OldConfigBlocksForever`, `AmountsLost` | `AccountsKeepFields`, `OldConfigBlocks`, `AmountsSurviveOnlyAsZero` | none |

### The inductive invariants

*Escrow.* `EscrowMatchesRecords` is not inductive: it allows accounts that no instruction could have made. `EscrowInv` adds
the type invariant; `Consistent` (no dispute on a contract that was not made, no appeal stake without a dispute, no provider
stake in a mere proposal, a value and an escrow share that create_contract or propose_contract accepted); `BlankExactly` (the contracts
not made yet are those from the counter on, so that `NewContract`, which sets the escrow of the next one, forgets nothing); that the
configuration is one of `Configs`; and that the balance is what the records say for a contract not in `astray`, and at least that until it is settled, for every contract. Each
instruction is a lemma of its own. `resolve_dispute` checks neither the contract's
status nor an earlier verdict. What keeps the balance exact is that on a settled contract that was not paid astray at most a pending appeal
stake is held, and the payment, which contains that stake and the deposit and the provider's stake again, exceeds it unless both
are zero: it goes through only if a transfer names the escrow itself, and then the contract is astray from that step on. `SettledIsFinal` rests on the same, with the positive deposit that
`Regular` asks for: a second payment always exceeds what is held, or misses a payee. That the escrow of a live contract suffices needs no such condition, because a settlement is the first step
that pays, and gifts only add.

*Promise.* `PromiseKept` is a step simulation. `PromiseInv` adds `Sound`: what a contract that was not paid astray holds and what its parties got
out of it add up to nothing, a contract that was not made has moved nothing, and a proposal has no dispute (else it could
be appealed, which the promise excludes). Each instruction is shown `Kept`: on its own contract a step of the promise or no
movement (`Unmoved`), and every other contract `Unmoved`. `OpeningKept`, `ClosingKept` (all six settlements) and `QuietKept`
(what moves no money) carry it. A settlement that takes a contract out of `Regular` is the step `Void`, and whatever happens to it later a stutter. For `WinnerIsMadeWhole`, `WinnerInv` adds what each party of a live contract has paid in, term by
term, and joins the dispute invariant, since whose appeal stake is returned depends on the level at which the verdict falls.

*Disputes.* `DisputeInv` says which states of a contract, its proof of execution and its dispute go together, that a party
answers in the private rounds once (`InOrder`, `OneRound`), and that the votes of a dispute are a finite set with one record per
juror, which the tallies count exactly at the level the dispute is at (`Tallied`). An appeal resets the tallies and keeps
the records: the count is exact because no vote has the new level yet. It needs no balance, hence no hypothesis.

*Counters.* `CounterInv` bounds the four counters of every registered agent by the cardinalities of the sets of contracts they
count (`Counted`). The lemmas follow a contract from one of these sets to another, twice in the case of two agents written
back in one instruction, where the last copy wins. They rest on `PromiseInv`, because a settlement that can run
twice counts twice: the bounds are for agents all of whose contracts are regular (`OnlyRegular`), which an agent, once it is not, never is again. `PoolInv` puts the pool's balance between two sums over
the contracts: what lost stakes and forfeited appeals paid into its vault, and that plus the shares of lost SOL stakes, which `resolve_dispute`
credits and pays to the requester. A fee share goes to the vault without being booked, so a completed contract counts for nothing. Each step moves
balance and sums alike (`Credited`) because a contract that is not settled has paid nothing, a contract settles once, and in SOL there is no
appeal (`Unbooked`). All of it holds as long as every contract is regular.

*Treasury.* `ClaimsInv` relates status, rulings and gain of each claim; `BooksInv` has the two sums over claims that
`BooksMatchVault` and `ActiveClaimsCounted` speak of, with the denials that were repeated and with `missing` and `surplus` on either side; `RewardsInv` has the schedule as a
sum over an interval. `SumLemmas` proves what these need: adding a member, changing a term, comparing two sums. The library's sum is a fold, a
recursive function on sets; it is shown equal to the CHOOSE of a function with that equation, by finite-set induction on a smallest
counterexample.

*Identity.* `IdentityInv` adds to the types the sum of the bonds (`BondsAddUp`: vaults, what the admin and what claims took out, against bonds and receipts) and `Beginner`: who has not
registered has done nothing, and who has not matured has no work, which is why maturation cannot come from work. One
formula, `MayBecome`, says what any step of a registered agent may do to it; `FlaggedNeverRises` and `AsleepNoNewWork` are read off it. That a score
stays in 0..100 for every account, clock and rate is lemma `ScoreInRange`. `TrustIsEarned` is a conjunct of the invariant as well: only
`calculate_trust_score` writes a score, and completed tasks never fall.

*Scores.* `integer_log10_bps` of a number is ten thousand times its length plus the entry of a table for its first two digits. That it grows is shown
in two cases: of two numbers of one length the smaller has no greater first digits, and the table grows (`TableGrows`); with a digit more the length
outweighs any entry. Each factor of the score is then monotone in what it is computed from, floor division by a divisor that moves included, and so is
the sum (`ScoreFalls` turns a distance in basis points into one in points). `ScoreIsEarned` adds up what all factors but that of the tasks can
give at most. The theorems about two accounts speak of any that the program can score (`Scored`, and `Computable`: the logarithm's product does not
overflow); those about a run's property instantiate them with the agents of `Profiles`. `InputAssumption` keeps the
inputs of that run to 19 digits, which no u64 that can be multiplied by ten exceeds.

*Migrations.* `MigrationsInv` says that each account has the size of a version and reads true in its layout. Every migration is a lemma on bytes by
ranges (`AgentToV2Bytes`, ...) and one that these are the fields of the next layout (`AgentToV2Reads`, ...). `AmountsLost` holds of whatever
bytes a dispute has: the present layout reads the amounts one byte further on than
they were written, so that to survive each byte must equal its neighbour, up to the zero appended behind the last.

*Formulas.* The loop of `integer_sqrt` is a recursive function whose solution is known: an estimate at or below the root is returned, one above ends
on the root. That gives its existence; a least estimate on which it differed would have a lower one (`LeastNumber`), which gives uniqueness. The curves follow
from the root's two inequalities, and fall because root and cube rise (`RootsGrow`, `CubesGrow`).

TLC finds `WinnerInv` (and in it `PromiseInv`, `EscrowInv` and `DisputeInv`) true in every state of the Jury and Corrections instances, the bound of `PoolInv` in those of
Corrections and `CounterInv` in those of Exposure.

### Only model-checked

- Liveness under fairness, which the prover does not do: `IgnoredDeliveryEnds`, `DecidedContractSettles` and `AbandonedContractEnds`.
- What needs ENABLED: the claims of `Claims`.
- `LogIsLogarithm`: that a product adds up to 415 basis points is a comparison of some 8900 pairs of table entries (the first two digits of the
  one factor, the other), which TLC makes and no shorter argument replaces, as 415 leaves no slack. Its other two parts are `LogOrdersAndScales`.
- The expected violations.

## 5. Not modelled, and the plan

Not modelled:

- Bidding: `place_bid` asks for a public contract and no handler makes one, so a model would have no step.
- Clients, scripts and tests: they keep no protocol state. Token and system programs are external: only balances are modelled.
- Rent, events, hashes; `banned` and the governance phase, which nothing sets.
- Overflows that fail an instruction: the u64 product of value and fee.
- The composition of `InsurancePool` and `Identity` with contracts is by what each sees of the other (completed contracts, a provider's counters, a flag), not
  a product of the modules; that product is out of TLC's reach.

What the plan has left: the product bound of `LogIsLogarithm`.
