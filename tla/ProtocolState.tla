--------------------------- MODULE ProtocolState ---------------------------
(***************************************************************************)
(* The on-chain accounts that the contract, proposal and dispute           *)
(* instructions of the trust protocol share, the clock, and the arithmetic *)
(* on amounts they have in common.                                         *)
(*                                                                         *)
(* An instruction is atomic: a failed `require!`, a failed token transfer  *)
(* or an arithmetic underflow reverts everything it did.  A handler is     *)
(* therefore one action, and every check it makes is a guard, wherever in  *)
(* the handler it stands.                                                  *)
(***************************************************************************)
EXTENDS Amounts, FiniteSets

CONSTANTS
    Agents,             \* wallets
    NoAgent,            \* the party of a contract account that does not exist
    Registered,         \* wallets that own an AgentIdentity account
    Requesters,         \* wallets that ask for work
    Providers,          \* wallets that are asked for work
    Jurors,             \* wallets that cast jury votes
    MaxContracts,       \* bound: contract accounts ever created
    MaxTime,            \* bound: last instant of the clock
    MaxVerdicts,        \* bound: verdicts on a provider, as a dispute can be resolved again
    MaxEscrow           \* bound: escrow that outside transfers may fill up to

CONSTANTS
    Values,             \* contract values a requester may name
    EscrowInputs,       \* escrow_factor_bps arguments, before they are clamped
    Expiries,           \* expiry_seconds arguments, 0 for a proposal that never expires
    CreateCurrencies,   \* currency arguments of create_contract
    ProposeCurrencies,  \* currency arguments of propose_contract
    Scores,             \* for each registered agent, the trust scores it may get
    HibernationTimes,   \* lengths of a declared hibernation
    Newcomers,          \* registered wallets that have not matured yet
    Configs,            \* values update_config may give the protocol configuration
    Routes,             \* accounts the caller of a settlement may name for its payees
    Gifts               \* amounts anybody may transfer into an escrow

CONSTANTS
    StakeFactor,        \* calculate_stake_factor: trust score -> basis points
    BurnRateBps, InsuranceRateBps,
    JurySize,           \* jurors of a public jury, by contract value: 3, 5 or 7
    AppealJurySize,     \* jurors of an appeal: 9
    JurorMinScore,      \* 70
    DirectWindow,       \* 7 days: correct the work, then answer
    PrivateWindow,      \* 5 days: private rounds
    JuryWindow,         \* 7 days: jury vote
    AppealWindow        \* 10 days: appeal vote

ContractIds == 0 .. MaxContracts - 1
TrustScores == 0 .. 100
Bps == 0 .. 10000
Currencies == {"Sworn", "Sol"}

ProtocolConfig ==
    [max_corrections : Nat, deadline_validation : Nat, protocol_fee_bps : [Currencies -> Nat]]

(* Whose account a payment names: its payee's, the escrow's own, another.  *)
Accounts == {"payee", "vault", "elsewhere"}
Route == [requester : Accounts, provider : Accounts, treasury : Accounts, insurance : Accounts]

Direct == [requester |-> "payee", provider |-> "payee",
           treasury |-> "payee", insurance |-> "payee"]

ASSUME PartiesAssumption ==
    /\ Registered \subseteq Agents
    /\ Requesters \subseteq Agents
    /\ Providers \subseteq Registered
    /\ Jurors \subseteq Registered
    /\ NoAgent \notin Agents

ASSUME BoundsAssumption ==
    /\ MaxContracts \in Nat
    /\ MaxTime \in Nat \ {0}
    /\ MaxVerdicts \in Nat
    /\ MaxEscrow \in Nat

ASSUME InputsAssumption ==
    /\ Values \subseteq Nat
    /\ EscrowInputs \subseteq Nat
    /\ Expiries \subseteq Nat
    /\ CreateCurrencies \subseteq Currencies
    /\ ProposeCurrencies \subseteq Currencies
    /\ Scores \in [Registered -> SUBSET TrustScores]
    /\ HibernationTimes \subseteq Nat \ {0}
    /\ Newcomers \subseteq Registered
    /\ Configs \subseteq ProtocolConfig
    /\ Routes \subseteq Route /\ Direct \in Routes
    /\ Gifts \subseteq Nat \ {0}

ASSUME RatesAssumption ==
    /\ StakeFactor \in [TrustScores -> Bps]
    /\ BurnRateBps \in Nat
    /\ InsuranceRateBps \in Nat
    /\ BurnRateBps + InsuranceRateBps <= 10000

ASSUME JuryAssumption ==
    /\ JurySize \in [Values \cup {0} -> Nat \ {0}]
    /\ AppealJurySize \in Nat \ {0}
    /\ JurorMinScore \in TrustScores
    /\ DirectWindow \in Nat \ {0}
    /\ PrivateWindow \in Nat \ {0}
    /\ JuryWindow \in Nat \ {0}
    /\ AppealWindow \in Nat \ {0}

VARIABLES
    now,            \* Clock::unix_timestamp
    config,         \* the ProtocolConfig fields that change: see update_config
    total_contracts,
    contracts,      \* Contract accounts
    poe,            \* ProofOfExecution accounts
    disputes,       \* Dispute accounts
    votes,          \* VoteRecord accounts of each dispute
    agents,         \* AgentIdentity accounts
    escrow,         \* per currency: SWORN vault, lamports above rent of the contract PDA
    net,            \* per contract, what each payee got out of it minus what it put in
    astray,         \* history: contracts a payment of which missed its payee, or whose
                    \* escrow anybody else paid into
    pool_balance    \* InsurancePool.total_balance

vars == <<now, config, total_contracts, contracts, poe, disputes, votes,
          agents, escrow, net, astray, pool_balance>>

-----------------------------------------------------------------------------
(* Account types *)

LiveStatuses == {"Active", "Delivered", "Disputed", "CorrectionRequested"}
SettledStatuses == {"Completed", "Cancelled", "ResolvedProvider", "ResolvedRequester"}
ContractStatus == {"None", "Proposed"} \cup LiveStatuses \cup SettledStatuses

DisputeLevels == {"DirectCorrection", "PrivateRounds", "PublicJury", "Appeal"}
ResolvedStatuses == {"ResolvedProvider", "ResolvedRequester"}
DisputeStatus == {"None", "Open", "Responded", "Voting", "JuryDecided"} \cup ResolvedStatuses

Contract ==
    [requester : Agents \cup {NoAgent}, provider : Agents \cup {NoAgent},
     value : Values \cup {0}, escrow_factor_bps : Bps, currency : Currencies,
     status : ContractStatus, provider_stake : Nat, provider_stake_required : Nat,
     created_at : Nat, proposal_expires_at : Nat, resolved_at : Nat,
     corrections_used : Nat, max_corrections_contract : Nat,
     deadline_validation_contract : Nat, dispute_level : 0..4]

NoContract ==
    [requester |-> NoAgent, provider |-> NoAgent,
     value |-> 0, escrow_factor_bps |-> 10000, currency |-> "Sworn",
     status |-> "None", provider_stake |-> 0, provider_stake_required |-> 0,
     created_at |-> 0, proposal_expires_at |-> 0, resolved_at |-> 0,
     corrections_used |-> 0, max_corrections_contract |-> 0,
     deadline_validation_contract |-> 0, dispute_level |-> 0]

ProofOfExecution == [exists : BOOLEAN, submitted_at : Nat, validated : BOOLEAN]

NoPoE == [exists |-> FALSE, submitted_at |-> 0, validated |-> FALSE]

Dispute ==
    [initiator : Agents \cup {NoAgent}, level : DisputeLevels, status : DisputeStatus,
     votes_provider : Nat, votes_requester : Nat, jury_size : Nat, deadline : Nat,
     corrections_count : Nat, private_rounds_count : Nat, appeal_stake : Nat,
     arbitration_fee : Nat]

NoDispute ==
    [initiator |-> NoAgent, level |-> "DirectCorrection", status |-> "None",
     votes_provider |-> 0, votes_requester |-> 0, jury_size |-> 0, deadline |-> 0,
     corrections_count |-> 0, private_rounds_count |-> 0, appeal_stake |-> 0,
     arbitration_fee |-> 0]

(* level is not a field of the account: it is read off voted_at.            *)
VoteRecord == [juror : Registered, vote_for_provider : BOOLEAN, level : DisputeLevels]

AgentIdentity ==
    [matured : BOOLEAN, trust_score : TrustScores, active_contracts : Nat,
     tasks_completed : Nat, tasks_abandoned : Nat, total_deliveries : Nat,
     corrections_received : Nat, disputes_won : Nat, disputes_lost : Nat,
     dispute_friction_total : Nat, is_hibernating : BOOLEAN,
     hibernation_ends_at : Nat, tasks_since_last_hibernation : Nat]

NewAgent(score, matured) ==
    [matured |-> matured, trust_score |-> score, active_contracts |-> 0,
     tasks_completed |-> 0, tasks_abandoned |-> 0, total_deliveries |-> 0,
     corrections_received |-> 0, disputes_won |-> 0, disputes_lost |-> 0,
     dispute_friction_total |-> 0, is_hibernating |-> FALSE,
     hibernation_ends_at |-> 0, tasks_since_last_hibernation |-> 0]

-----------------------------------------------------------------------------
(* Amounts.  A payment says what a handler takes out of escrow, by payee.  *)

Payment == [requester : Nat, provider : Nat, treasury : Nat, insurance : Nat, burn : Nat]
Flow == [requester : Int, provider : Int, treasury : Int, insurance : Int, burn : Int]

NoPayment == [requester |-> 0, provider |-> 0, treasury |-> 0, insurance |-> 0, burn |-> 0]

Total(pay) == pay.requester + pay.provider + pay.treasury + pay.insurance + pay.burn

PlusFlow(a, b) ==
    [requester |-> a.requester + b.requester, provider |-> a.provider + b.provider,
     treasury |-> a.treasury + b.treasury, insurance |-> a.insurance + b.insurance,
     burn |-> a.burn + b.burn]

(* The requester puts `paidIn` in, and `pay` is paid out.                  *)
Exchange(flow, paidIn, pay) == [PlusFlow(flow, pay) EXCEPT !.requester = @ - paidIn]

(* One of the two parties puts `amount` in.                                *)
Charge(flow, party, amount) ==
    IF party = "provider" THEN [flow EXCEPT !.provider = @ - amount]
    ELSE [flow EXCEPT !.requester = @ - amount]

PartOf(amount, bps) == (amount * bps) \div 10000

ClampEscrowFactor(input) ==
    IF input = 0 \/ input > 10000 THEN 10000
    ELSE IF input < 3000 THEN 3000 ELSE input

EscrowDeposit(k) == PartOf(k.value, k.escrow_factor_bps)

TopUp(k) == k.value - EscrowDeposit(k)

StakeRequired(value, score) == PartOf(value, StakeFactor[score])

MaxActive(score) == score \div 10 + 1

MajorityThreshold(size) == size \div 2 + 1

(* 70% treasury, 20% insurance, the rest burned; all to the treasury in SOL. *)
FeeSplit(fee, currency) ==
    LET treasury == (fee * 70) \div 100
        insurance == (fee * 20) \div 100
    IN  IF currency = "Sol"
        THEN [NoPayment EXCEPT !.treasury = fee]
        ELSE [NoPayment EXCEPT !.treasury = treasury, !.insurance = insurance,
                               !.burn = fee - treasury - insurance]

(* The provider is paid `base` less the protocol fee, and its stake.  The
   rate is the configuration's when the contract is settled.               *)
Payout(k, base) ==
    LET fee == PartOf(base, config.protocol_fee_bps[k.currency])
    IN  [FeeSplit(fee, k.currency) EXCEPT !.provider = Monus(base, fee) + k.provider_stake]

(* All of `amount` to one of the two parties.                              *)
PayTo(party, amount) ==
    IF party = "provider" THEN [NoPayment EXCEPT !.provider = amount]
    ELSE [NoPayment EXCEPT !.requester = amount]

(* Mutation: the burn is forgotten. *)
ConfiscationUnburned(stake, winner, currency) ==
    LET burn == PartOf(stake, BurnRateBps)
        insurance == PartOf(stake, InsuranceRateBps)
    IN  IF currency = "Sol" THEN PayTo(winner, stake - burn)
        ELSE [PayTo(winner, stake - burn - insurance) EXCEPT !.insurance = insurance]

(* A confiscated stake: 15% burned, 60% to insurance, the rest to `winner`;
   in SOL the winner gets it all.                                           *)
Confiscation(stake, winner, currency) ==
    LET burn == PartOf(stake, BurnRateBps)
        insurance == PartOf(stake, InsuranceRateBps)
    IN  IF currency = "Sol" THEN PayTo(winner, stake)
        ELSE [PayTo(winner, stake - burn - insurance) EXCEPT
                 !.insurance = insurance, !.burn = burn]

(* Mutation: the escrow is not refunded. *)
RefundOfStakeOnly(k) == Confiscation(k.provider_stake, "requester", k.currency)

(* Mutation: the full value is refunded, of which a share is escrowed. *)
RefundOfValue(k) ==
    LET seized == Confiscation(k.provider_stake, "requester", k.currency)
    IN  [seized EXCEPT !.requester = @ + k.value]

(* The requester is refunded its escrow, and wins from the confiscated stake. *)
Refund(k) ==
    LET seized == Confiscation(k.provider_stake, "requester", k.currency)
    IN  [seized EXCEPT !.requester = @ + EscrowDeposit(k)]

-----------------------------------------------------------------------------
(* Steps shared by the handlers *)

(* The legs of a payment that name an account of `places`; tokens are
   burned where they are.                                                  *)
Legs(pay, route, places) ==
    [requester |-> IF route.requester \in places THEN pay.requester ELSE 0,
     provider |-> IF route.provider \in places THEN pay.provider ELSE 0,
     treasury |-> IF route.treasury \in places THEN pay.treasury ELSE 0,
     insurance |-> IF route.insurance \in places THEN pay.insurance ELSE 0,
     burn |-> pay.burn]

Received(pay, route) == Legs(pay, route, {"payee"})

(* A transfer from the vault to itself succeeds and moves nothing.         *)
Leaving(pay, route) == Legs(pay, route, {"payee", "elsewhere"})

(* Each transfer is covered when its turn comes: the party, the treasury,
   the insurance pool, the burn.                                           *)
Solvent(balance, pay, route) ==
    LET out == Leaving(pay, route)
        party == out.requester + out.provider
    IN  /\ pay.requester + pay.provider <= balance
        /\ party + pay.treasury <= balance
        /\ party + out.treasury + pay.insurance <= balance
        /\ Total(out) <= balance

(* Pays `first`, then `second`, out of the escrow of c after the requester
   put `topUp` in.                                                         *)
Transfers(c, currency, topUp, first, second, route) ==
    LET balance == escrow[currency][c] + topUp
        left == balance - Total(Leaving(first, route))
        received == PlusFlow(Received(first, route), Received(second, route))
    IN  /\ Solvent(balance, first, route)
        /\ Solvent(left, second, route)
        /\ escrow' = [escrow EXCEPT ![currency][c] = left - Total(Leaving(second, route))]
        /\ net' = [net EXCEPT ![c] = Exchange(@, topUp, received)]
        /\ astray' = IF received = PlusFlow(first, second) THEN astray ELSE astray \cup {c}

(* Mutation: the balance is not checked. *)
DisburseUnchecked(c, currency, topUp, first, second) ==
    LET pay == PlusFlow(first, second)
    IN  /\ escrow' = [escrow EXCEPT ![currency][c] = @ + topUp - Total(pay)]
        /\ net' = [net EXCEPT ![c] = Exchange(@, topUp, pay)]
        /\ astray' = astray

(* The settlements check the accounts they are given in SOL only.          *)
Disburse(c, currency, topUp, first, second) ==
    \E route \in IF currency = "Sol" THEN {Direct} ELSE Routes :
        Transfers(c, currency, topUp, first, second, route)

(* Two AgentIdentity accounts are written back when the instruction ends,
   the provider's first: when both are one account, the second copy wins.  *)
WriteBack(p, provider, r, requester) == [[agents EXCEPT ![p] = provider] EXCEPT ![r] = requester]

(* Mutation: the task is not counted. *)
TaskDoneUncounted(a) ==
    [a EXCEPT !.active_contracts = Monus(@, 1), !.tasks_since_last_hibernation = @ + 1]

TaskDone(a) ==
    [a EXCEPT !.tasks_completed = @ + 1,
              !.active_contracts = Monus(@, 1),
              !.tasks_since_last_hibernation = @ + 1]

(* Mutation: the contract stays active. *)
NeverReleased(a) == a

Released(a) == [a EXCEPT !.active_contracts = Monus(@, 1)]

Abandoned(a) == [a EXCEPT !.tasks_abandoned = @ + 1, !.active_contracts = Monus(@, 1)]

DeadlineOf(k) ==
    IF k.deadline_validation_contract > 0 THEN k.deadline_validation_contract
    ELSE config.deadline_validation
=============================================================================
