------------------------- MODULE DisputeResolution -------------------------
(***************************************************************************)
(* The instructions of dispute.rs on a contract and its Dispute account:   *)
(* direct correction, private rounds, public jury, appeal.                 *)
(***************************************************************************)
EXTENDS ProtocolState

LevelNumber(level) ==
    CASE level = "DirectCorrection" -> 1
      [] level = "PrivateRounds" -> 2
      [] level = "PublicJury" -> 3
      [] level = "Appeal" -> 4

JuryLevel(d) == d.level \in {"PublicJury", "Appeal"}

Parties(k) == {k.requester, k.provider}

(* `init` of the Dispute account fails if it exists.                       *)
InitiateAccounts(c) == disputes[c].status = "None"

(* initiate_dispute                                                        *)
Initiate(c) ==
    LET k == contracts[c]
    IN  /\ k.status \in {"Delivered", "Active"}
        /\ InitiateAccounts(c)
        /\ contracts' = [contracts EXCEPT ![c].status = "Disputed", ![c].dispute_level = 1]
        /\ disputes' = [disputes EXCEPT ![c] =
               [NoDispute EXCEPT !.initiator = k.requester, !.status = "Open",
                                 !.deadline = now + DirectWindow]]
        /\ UNCHANGED <<now, config, total_contracts, poe, votes, agents, escrow, net, astray, pool_balance>>

(* Mutation: a dispute that was answered is answered again. *)
AwaitsAnyResponse(d) == d.status \in {"Open", "Responded"}

AwaitsResponse(d) == d.status = "Open"

(* respond_dispute, at any level.                                          *)
Respond(c) ==
    LET d == disputes[c]
        isRound == d.level = "PrivateRounds" /\ d.private_rounds_count < 5
    IN  /\ AwaitsResponse(d)
        /\ disputes' = [disputes EXCEPT
               ![c].status = "Responded",
               ![c].private_rounds_count = IF isRound THEN @ + 1 ELSE @]
        /\ UNCHANGED <<now, config, total_contracts, contracts, poe, votes, agents,
                       escrow, net, astray, pool_balance>>

MayEscalate(d) == now >= d.deadline \/ d.status = "Responded"

(* Mutation: private rounds are skipped. *)
StraightToJury(level) == "PublicJury"

NextLevel(level) == IF level = "PrivateRounds" THEN "PublicJury" ELSE "PrivateRounds"

(* escalate_dispute, L1 to L2 and L2 to L3, by either party: it looks at
   neither the contract's status nor whether the dispute is resolved.  The
   arbitration fee of 2% is recorded and never collected.                  *)
Escalate(c) ==
    LET d == disputes[c]
        k == contracts[c]
        toJury == d.level = "PrivateRounds"
    IN  /\ d.status # "None"
        /\ MayEscalate(d)
        /\ d.level \in {"DirectCorrection", "PrivateRounds"}
        /\ disputes' = [disputes EXCEPT ![c] =
               [d EXCEPT !.level = NextLevel(d.level),
                         !.status = "Open",
                         !.deadline = now + (IF toJury THEN JuryWindow ELSE PrivateWindow),
                         !.jury_size = IF toJury THEN JurySize[k.value] ELSE @,
                         !.arbitration_fee = IF toJury THEN PartOf(k.value, 200) ELSE @]]
        /\ contracts' = [contracts EXCEPT ![c].dispute_level = IF toJury THEN 3 ELSE 2]
        /\ UNCHANGED <<now, config, total_contracts, poe, votes, agents, escrow, net, astray, pool_balance>>

(* Its initiator is from now on who deposited the stake; the votes of the
   public jury no longer count.                                            *)
Appealed(d, by, stake) ==
    [d EXCEPT !.appeal_stake = stake, !.initiator = by, !.level = "Appeal",
              !.status = "Open", !.jury_size = AppealJurySize, !.deadline = now + AppealWindow,
              !.votes_provider = 0, !.votes_requester = 0]

(* escalate_to_appeal: a party stakes half the contract value.  In SOL the
   handler debits the party's wallet itself, which the runtime refuses.    *)
EscalateToAppeal(c, by) ==
    LET d == disputes[c]
        k == contracts[c]
        stake == k.value \div 2
    IN  /\ d.level = "PublicJury"
        /\ d.status \in {"Open", "Voting", "Responded"}
        /\ by \in Parties(k)
        /\ stake > 0
        /\ k.currency = "Sworn"
        /\ escrow' = [escrow EXCEPT !["Sworn"][c] = @ + stake]
        /\ net' = [net EXCEPT ![c] =
               Charge(@, IF by = k.provider THEN "provider" ELSE "requester", stake)]
        /\ disputes' = [disputes EXCEPT ![c] = Appealed(d, by, stake)]
        /\ contracts' = [contracts EXCEPT ![c].dispute_level = 4]
        /\ UNCHANGED <<now, config, total_contracts, poe, votes, agents, astray, pool_balance>>

(* Mutation: one vote at each level. *)
HasVotedAtLevel(j, c) == \E v \in votes[c] : v.juror = j /\ v.level = disputes[c].level

HasVoted(j, c) == \E v \in votes[c] : v.juror = j

AfterVote(d, forProvider) ==
    LET vp == d.votes_provider + (IF forProvider THEN 1 ELSE 0)
        vr == d.votes_requester + (IF forProvider THEN 0 ELSE 1)
        majority == MajorityThreshold(d.jury_size)
    IN  [d EXCEPT !.votes_provider = vp, !.votes_requester = vr,
                  !.status = IF vp >= majority \/ vr >= majority THEN "JuryDecided"
                             ELSE "Voting"]

VoteAccounts(j, c) == disputes[c].status # "None" /\ ~HasVoted(j, c)

(* jury_vote: one VoteRecord per juror and dispute, whatever the level.    *)
Vote(j, c, forProvider) ==
    LET d == disputes[c]
    IN  /\ JuryLevel(d)
        /\ d.status \in {"Open", "Voting"}
        /\ agents[j].trust_score >= JurorMinScore
        /\ agents[j].matured
        /\ now <= d.deadline
        /\ VoteAccounts(j, c)
        /\ votes' = [votes EXCEPT ![c] = @ \cup
               {[juror |-> j, vote_for_provider |-> forProvider, level |-> d.level]}]
        /\ disputes' = [disputes EXCEPT ![c] = AfterVote(d, forProvider)]
        /\ UNCHANGED <<now, config, total_contracts, contracts, poe, agents,
                       escrow, net, astray, pool_balance>>

-----------------------------------------------------------------------------
(* resolve_dispute *)

JuryMaySettle(d) ==
    /\ d.votes_provider + d.votes_requester > 0
    /\ d.status = "JuryDecided" \/ now > d.deadline

(* Mutation: a tie goes to the provider. *)
ProviderWinsTies(d, adminSaysProvider) ==
    IF JuryLevel(d) THEN d.votes_provider >= d.votes_requester ELSE adminSaysProvider

(* The jury's majority, the requester on a tie; the admin at L1 and L2.    *)
ProviderWins(d, adminSaysProvider) ==
    IF JuryLevel(d) THEN d.votes_provider > d.votes_requester ELSE adminSaysProvider

(* Mutation: the provider's stake is not returned. *)
DisputePaymentSansStake(k, providerWins) ==
    IF providerWins THEN PayTo("provider", EscrowDeposit(k)) ELSE Refund(k)

DisputePayment(k, providerWins) ==
    IF providerWins THEN PayTo("provider", EscrowDeposit(k) + k.provider_stake)
    ELSE Refund(k)

(* Mutation: the burn share is credited in either currency. *)
DisputeCreditWithBurn(k, providerWins) ==
    IF providerWins THEN 0
    ELSE PartOf(k.provider_stake, InsuranceRateBps) + PartOf(k.provider_stake, BurnRateBps)

(* What the insurance pool is credited with: in SOL the burn share too.    *)
DisputeCredit(k, providerWins) ==
    IF providerWins THEN 0
    ELSE PartOf(k.provider_stake, InsuranceRateBps)
         + (IF k.currency = "Sol" THEN PartOf(k.provider_stake, BurnRateBps) ELSE 0)

HasAppeal(d) == d.level = "Appeal" /\ d.appeal_stake > 0

(* Mutation: the opponent is taken for the depositor. *)
DepositorSwapped(k, d) == IF d.initiator = k.provider THEN "requester" ELSE "provider"

Depositor(k, d) == IF d.initiator = k.provider THEN "provider" ELSE "requester"

Opponent(party) == IF party = "provider" THEN "requester" ELSE "provider"

DepositorWins(k, d, providerWins) == (Depositor(k, d) = "provider") <=> providerWins

AppealPayment(k, d, providerWins) ==
    LET depositor == Depositor(k, d)
    IN  IF ~HasAppeal(d) THEN NoPayment
        ELSE IF DepositorWins(k, d, providerWins) THEN PayTo(depositor, d.appeal_stake)
        ELSE Confiscation(d.appeal_stake, Opponent(depositor), k.currency)

AppealLost(k, d, providerWins) == HasAppeal(d) /\ ~DepositorWins(k, d, providerWins)

AppealCredit(k, d, providerWins) ==
    IF AppealLost(k, d, providerWins) THEN PartOf(d.appeal_stake, InsuranceRateBps) ELSE 0

(* Lost disputes of a party: one for the verdict, one more for a lost appeal. *)
Losses(party, k, d, providerWins) ==
    (IF providerWins <=> party = "requester" THEN 1 ELSE 0)
    + (IF AppealLost(k, d, providerWins) /\ Depositor(k, d) = party THEN 1 ELSE 0)

Judged(a, party, k, d, providerWins) ==
    LET won == providerWins <=> party = "provider"
    IN  [a EXCEPT !.disputes_won = IF won THEN @ + 1 ELSE @,
                  !.disputes_lost = @ + Losses(party, k, d, providerWins),
                  !.dispute_friction_total = @ + d.private_rounds_count]

(* The Dispute account and both parties' AgentIdentity accounts exist.     *)
ResolveAccounts(c) == disputes[c].status # "None" /\ contracts[c].requester \in Registered

(* Neither the contract's status nor an earlier verdict is looked at: only
   the escrow balance stops a second resolution, and it does not if the
   first was paid back into the escrow, or paid nothing.                   *)
Resolve(c, adminSaysProvider) ==
    LET k == contracts[c]
        d == disputes[c]
        p == k.provider
        r == k.requester
        wins == ProviderWins(d, adminSaysProvider)
        outcome == IF wins THEN "ResolvedProvider" ELSE "ResolvedRequester"
    IN  /\ ResolveAccounts(c)
        /\ JuryLevel(d) => JuryMaySettle(d)
        /\ agents[p].disputes_won + agents[p].disputes_lost < MaxVerdicts
        /\ Disburse(c, k.currency, 0, DisputePayment(k, wins), AppealPayment(k, d, wins))
        /\ disputes' = [disputes EXCEPT ![c].status = outcome]
        /\ contracts' = [contracts EXCEPT ![c].status = outcome, ![c].resolved_at = now]
        /\ agents' = WriteBack(p, Judged(Released(agents[p]), "provider", k, d, wins),
                               r, Judged(agents[r], "requester", k, d, wins))
        /\ pool_balance' = pool_balance + DisputeCredit(k, wins) + AppealCredit(k, d, wins)
        /\ UNCHANGED <<now, config, total_contracts, poe, votes>>

-----------------------------------------------------------------------------
RedeliverAccounts(c) ==
    /\ contracts[c].status = "Disputed"
    /\ disputes[c].status # "None"
    /\ poe[c].exists

(* redeliver_in_dispute: the contract is Delivered again, the dispute stays
   open.  The limit is the configuration's, not the contract's copy.       *)
Redeliver(c) ==
    LET d == disputes[c]
        k == contracts[c]
        count == d.corrections_count + 1
        exhausted == count >= config.max_corrections
    IN  /\ RedeliverAccounts(c)
        /\ d.level = "DirectCorrection"
        /\ d.status \in {"Open", "Responded"}
        /\ poe' = [poe EXCEPT ![c].submitted_at = now, ![c].validated = FALSE]
        /\ agents' = [agents EXCEPT ![k.provider].total_deliveries = @ + 1]
        /\ disputes' = [disputes EXCEPT
               ![c].corrections_count = count,
               ![c].level = IF exhausted THEN "PrivateRounds" ELSE @,
               ![c].status = "Open",
               ![c].deadline = now + (IF exhausted THEN PrivateWindow ELSE DirectWindow)]
        /\ contracts' = [contracts EXCEPT
               ![c].status = "Delivered",
               ![c].dispute_level = IF exhausted THEN 2 ELSE @]
        /\ UNCHANGED <<now, config, total_contracts, votes, escrow, net, astray, pool_balance>>

Rounds(a, d) == [a EXCEPT !.dispute_friction_total = @ + d.private_rounds_count]

AcceptCorrectionAccounts(c) ==
    /\ disputes[c].status # "None"
    /\ poe[c].exists
    /\ contracts[c].requester \in Registered

CorrectionPayout(k) == Payout(k, k.value)

(* accept_correction, at L1 or L2, whatever the dispute's status.  Without
   private rounds the requester's account is written back unchanged.       *)
AcceptCorrection(c) ==
    LET k == contracts[c]
        d == disputes[c]
        p == k.provider
        r == k.requester
    IN  /\ AcceptCorrectionAccounts(c)
        /\ k.status = "Delivered"
        /\ d.level \in {"DirectCorrection", "PrivateRounds"}
        /\ Disburse(c, k.currency, TopUp(k), CorrectionPayout(k), NoPayment)
        /\ disputes' = [disputes EXCEPT ![c].status = "ResolvedProvider"]
        /\ contracts' = [contracts EXCEPT ![c].status = "Completed", ![c].resolved_at = now]
        /\ poe' = [poe EXCEPT ![c].validated = TRUE]
        /\ agents' = WriteBack(p, Rounds([TaskDone(agents[p]) EXCEPT
                                            !.corrections_received = @ + d.corrections_count], d),
                               r, Rounds(agents[r], d))
        /\ UNCHANGED <<now, config, total_contracts, votes, pool_balance>>

DisputeOn(c) ==
    \/ Initiate(c)
    \/ Respond(c)
    \/ Escalate(c)
    \/ \E by \in Agents : EscalateToAppeal(c, by)
    \/ \E j \in Jurors, forProvider \in BOOLEAN : Vote(j, c, forProvider)
    \/ \E adminSaysProvider \in BOOLEAN : Resolve(c, adminSaysProvider)
    \/ Redeliver(c)
    \/ AcceptCorrection(c)

DisputeNext == \E c \in ContractIds : DisputeOn(c)
=============================================================================
