------------------------- MODULE ContractLifecycle -------------------------
(***************************************************************************)
(* The instructions of proposal.rs and contract.rs: a requester proposes,  *)
(* a provider accepts and stakes, delivers, and the requester accepts,     *)
(* rejects, or lets a deadline pass.  Each signer is the party the         *)
(* handler's account constraints ask for.                                  *)
(***************************************************************************)
EXTENDS ProtocolState

(* init of the Contract and escrow PDAs: both are derived from
   total_contracts, which is then incremented.                             *)
NewContract(k, currency, provider_stake, deposit) ==
    LET c == total_contracts
    IN  /\ c < MaxContracts
        /\ total_contracts' = c + 1
        /\ contracts' = [contracts EXCEPT ![c] = k]
        /\ escrow' = [escrow EXCEPT ![currency][c] = provider_stake + deposit]
        /\ net' = [net EXCEPT ![c].requester = -deposit, ![c].provider = -provider_stake]

MayBeHired(p) == agents[p].matured /\ ~agents[p].is_hibernating

(* Mutation: off by one. *)
WithinExposureLimit(p) == agents[p].active_contracts <= MaxActive(agents[p].trust_score)

BelowExposureLimit(p) == agents[p].active_contracts < MaxActive(agents[p].trust_score)

Terms(r, p, value, input, currency) ==
    [NoContract EXCEPT
        !.requester = r, !.provider = p, !.value = value, !.currency = currency,
        !.escrow_factor_bps = ClampEscrowFactor(input), !.created_at = now,
        !.max_corrections_contract = config.max_corrections,
        !.deadline_validation_contract = config.deadline_validation]

(* create_contract: both parties' SWORN tokens move, whatever the currency. *)
Create(r, p, value, input, currency) ==
    LET stake == StakeRequired(value, agents[p].trust_score)
        k == [Terms(r, p, value, input, currency) EXCEPT
                 !.status = "Active", !.provider_stake = stake]
    IN  /\ MayBeHired(p)
        /\ BelowExposureLimit(p)
        /\ agents' = [agents EXCEPT ![p].active_contracts = @ + 1]
        /\ NewContract(k, "Sworn", stake, EscrowDeposit(k))
        /\ UNCHANGED <<now, config, poe, disputes, votes, astray, pool_balance>>

(* propose_contract *)
Propose(r, p, value, expiry, currency, input) ==
    LET k == [Terms(r, p, value, input, currency) EXCEPT
                 !.status = "Proposed",
                 !.provider_stake_required = StakeRequired(value, agents[p].trust_score),
                 !.proposal_expires_at = IF expiry > 0 THEN now + expiry ELSE 0]
    IN  /\ MayBeHired(p)
        /\ NewContract(k, currency, 0, EscrowDeposit(k))
        /\ UNCHANGED <<now, config, poe, disputes, votes, agents, astray, pool_balance>>

(* accept_proposal: the delivery window starts here, not at the proposal.  *)
AcceptProposal(c) ==
    LET k == contracts[c]
        p == k.provider
        stake == k.provider_stake_required
    IN  /\ k.status = "Proposed"
        /\ k.proposal_expires_at > 0 => now <= k.proposal_expires_at
        /\ BelowExposureLimit(p)
        /\ contracts' = [contracts EXCEPT ![c].provider_stake = stake,
                                          ![c].status = "Active", ![c].created_at = now]
        /\ agents' = [agents EXCEPT ![p].active_contracts = @ + 1]
        /\ escrow' = [escrow EXCEPT ![k.currency][c] = @ + stake]
        /\ net' = [net EXCEPT ![c].provider = @ - stake]
        /\ UNCHANGED <<now, config, total_contracts, poe, disputes, votes, astray, pool_balance>>

(* cancel_proposal: at any time while proposed, expired or not.  The only
   handler that compares the owner of the account it pays in SWORN.        *)
CancelProposal(c) ==
    LET k == contracts[c]
    IN  /\ k.status = "Proposed"
        /\ Transfers(c, k.currency, 0, PayTo("requester", EscrowDeposit(k)), NoPayment, Direct)
        /\ contracts' = [contracts EXCEPT ![c].status = "Cancelled", ![c].resolved_at = now]
        /\ UNCHANGED <<now, config, total_contracts, poe, disputes, votes, agents, pool_balance>>

(* `init` of the PoE account fails if it exists.                           *)
DeliverAccounts(c) == ~poe[c].exists

(* deliver_contract                                                        *)
Deliver(c) ==
    LET k == contracts[c]
    IN  /\ k.status \in {"Active", "CorrectionRequested"}
        /\ DeliverAccounts(c)
        /\ contracts' = [contracts EXCEPT ![c].status = "Delivered"]
        /\ poe' = [poe EXCEPT ![c] = [exists |-> TRUE, submitted_at |-> now, validated |-> FALSE]]
        /\ agents' = [agents EXCEPT ![k.provider].total_deliveries = @ + 1]
        /\ UNCHANGED <<now, config, total_contracts, disputes, votes, escrow, net, astray, pool_balance>>

AcceptAccounts(c) == contracts[c].status = "Delivered" /\ poe[c].exists

(* accept_contract: the requester tops the escrow up to the full value.    *)
Accept(c) ==
    LET k == contracts[c]
    IN  /\ AcceptAccounts(c)
        /\ Disburse(c, k.currency, TopUp(k), Payout(k, k.value), NoPayment)
        /\ contracts' = [contracts EXCEPT ![c].status = "Completed", ![c].resolved_at = now]
        /\ poe' = [poe EXCEPT ![c].validated = TRUE]
        /\ agents' = [agents EXCEPT ![k.provider] = TaskDone(@)]
        /\ UNCHANGED <<now, config, total_contracts, disputes, votes, pool_balance>>

(* Mutation: a rejected contract is active again. *)
StatusReactivated(atLimit) == IF atLimit THEN "Disputed" ELSE "Active"

StatusAfterRejection(atLimit) == IF atLimit THEN "Disputed" ELSE "CorrectionRequested"

(* reject_delivery: at the limit the contract is disputed, with no Dispute. *)
RejectDelivery(c) ==
    LET k == contracts[c]
        used == k.corrections_used + 1
        atLimit == used >= k.max_corrections_contract
    IN  /\ k.status = "Delivered"
        /\ contracts' = [contracts EXCEPT
               ![c].corrections_used = used,
               ![c].status = StatusAfterRejection(atLimit),
               ![c].dispute_level = IF atLimit THEN 1 ELSE @]
        /\ agents' = [agents EXCEPT ![k.provider].corrections_received = @ + 1]
        /\ UNCHANGED <<now, config, total_contracts, poe, disputes, votes,
                       escrow, net, astray, pool_balance>>

TimeoutAccounts(c) == contracts[c].status = "Active"

(* timeout_contract: permissionless; the provider did not deliver in time.
   In SOL the insurance share is credited to the pool but paid to the requester. *)
Timeout(c) ==
    LET k == contracts[c]
    IN  /\ TimeoutAccounts(c)
        /\ now > k.created_at + DeadlineOf(k)
        /\ Disburse(c, k.currency, 0, Refund(k), NoPayment)
        /\ contracts' = [contracts EXCEPT ![c].status = "ResolvedRequester",
                                          ![c].resolved_at = now]
        /\ agents' = [agents EXCEPT ![k.provider] = Abandoned(@)]
        /\ pool_balance' = pool_balance + PartOf(k.provider_stake, InsuranceRateBps)
        /\ UNCHANGED <<now, config, total_contracts, poe, disputes, votes>>

(* Both parties' AgentIdentity accounts are loaded; the requester's may
   not exist.                                                              *)
TimeoutDeliveryAccounts(c) ==
    /\ contracts[c].status = "Delivered"
    /\ poe[c].exists
    /\ contracts[c].requester \in Registered

(* Mutation: the full value is paid, without the top-up. *)
IgnoredPayoutOfValue(k) == Payout(k, k.value)

(* Without the requester there is no top-up: the provider is paid what is
   escrowed.                                                               *)
IgnoredPayout(k) == Payout(k, EscrowDeposit(k))

(* timeout_delivery: permissionless; the requester did not answer in time,
   which counts as a dispute it lost.                                      *)
TimeoutDelivery(c) ==
    LET k == contracts[c]
        p == k.provider
        r == k.requester
    IN  /\ TimeoutDeliveryAccounts(c)
        /\ now > poe[c].submitted_at + DeadlineOf(k)
        /\ Disburse(c, k.currency, 0, IgnoredPayout(k), NoPayment)
        /\ contracts' = [contracts EXCEPT ![c].status = "Completed", ![c].resolved_at = now]
        /\ poe' = [poe EXCEPT ![c].validated = TRUE]
        /\ agents' = WriteBack(p, TaskDone(agents[p]),
                               r, [agents[r] EXCEPT !.disputes_lost = @ + 1])
        /\ UNCHANGED <<now, config, total_contracts, disputes, votes, pool_balance>>

LifecycleOn(c) ==
    \/ AcceptProposal(c)
    \/ CancelProposal(c)
    \/ Deliver(c)
    \/ Accept(c)
    \/ RejectDelivery(c)
    \/ Timeout(c)
    \/ TimeoutDelivery(c)

LifecycleNext ==
    \/ \E r \in Requesters, p \in Providers, v \in Values, i \in EscrowInputs,
          cur \in CreateCurrencies : Create(r, p, v, i, cur)
    \/ \E r \in Requesters, p \in Providers, v \in Values, x \in Expiries,
          cur \in ProposeCurrencies, i \in EscrowInputs : Propose(r, p, v, x, cur, i)
    \/ \E c \in ContractIds : LifecycleOn(c)
=============================================================================
