--------------------------- MODULE TrustProtocol ---------------------------
(***************************************************************************)
(* The core of the protocol: contracts and disputes on shared accounts,    *)
(* the clock, and the identity and configuration instructions that change  *)
(* what they read.                                                         *)
(***************************************************************************)
EXTENDS ContractLifecycle, DisputeResolution, FiniteSetsExt

Tick ==
    /\ now < MaxTime
    /\ now' = now + 1
    /\ UNCHANGED <<config, total_contracts, contracts, poe, disputes, votes, agents,
                   escrow, net, astray, pool_balance>>

ChangeAgent(a, identity) ==
    /\ agents' = [agents EXCEPT ![a] = identity]
    /\ UNCHANGED <<now, config, total_contracts, contracts, poe, disputes, votes,
                   escrow, net, astray, pool_balance>>

(* calculate_trust_score: the formula is left open, any score of Scores[a]. *)
CalculateTrustScore(a) ==
    \E score \in Scores[a] : ChangeAgent(a, [agents[a] EXCEPT !.trust_score = score])

(* hibernate: five tasks after the last one, or no end date on record.     *)
Hibernate(a, duration) ==
    /\ ~agents[a].is_hibernating
    /\ agents[a].tasks_since_last_hibernation >= 5 \/ agents[a].hibernation_ends_at = 0
    /\ ChangeAgent(a, [agents[a] EXCEPT !.is_hibernating = TRUE,
                                        !.hibernation_ends_at = now + duration,
                                        !.tasks_since_last_hibernation = 0])

Awake(a) == [agents[a] EXCEPT !.is_hibernating = FALSE, !.hibernation_ends_at = 0]

(* wake, and expire_hibernation, which asks for the same signature and for
   a date that wake does not need: a step of expire is a step of wake.     *)
Wake(a) == agents[a].is_hibernating /\ ChangeAgent(a, Awake(a))

ExpireHibernation(a) ==
    /\ agents[a].is_hibernating
    /\ now > agents[a].hibernation_ends_at
    /\ ChangeAgent(a, Awake(a))

(* force_mature_agent, by the admin.                                       *)
ForceMature(a) == ChangeAgent(a, [agents[a] EXCEPT !.matured = TRUE])

UpdateConfig(settings) ==
    /\ config' = settings
    /\ UNCHANGED <<now, total_contracts, contracts, poe, disputes, votes, agents,
                   escrow, net, astray, pool_balance>>

IdentityOn(a) ==
    \/ CalculateTrustScore(a)
    \/ \E duration \in HibernationTimes : Hibernate(a, duration)
    \/ Wake(a)
    \/ ExpireHibernation(a)
    \/ ForceMature(a)

IdentityNext == \E a \in Registered : IdentityOn(a)

Held(c) == escrow["Sworn"][c] + escrow["Sol"][c]

(* Anybody may transfer tokens or lamports into an escrow.                 *)
Gift(c, currency, amount) ==
    /\ c < total_contracts
    /\ Held(c) + amount <= MaxEscrow
    /\ escrow' = [escrow EXCEPT ![currency][c] = @ + amount]
    /\ astray' = astray \cup {c}
    /\ UNCHANGED <<now, config, total_contracts, contracts, poe, disputes, votes, agents,
                   net, pool_balance>>

Init ==
    /\ now = 1
    /\ config \in Configs
    /\ total_contracts = 0
    /\ contracts = [c \in ContractIds |-> NoContract]
    /\ poe = [c \in ContractIds |-> NoPoE]
    /\ disputes = [c \in ContractIds |-> NoDispute]
    /\ votes = [c \in ContractIds |-> {}]
    /\ \E score \in [Registered -> UNION {Scores[a] : a \in Registered}] :
          /\ \A a \in Registered : score[a] \in Scores[a]
          /\ agents = [a \in Registered |-> NewAgent(score[a], a \notin Newcomers)]
    /\ escrow = [cur \in Currencies |-> [c \in ContractIds |-> 0]]
    /\ net = [c \in ContractIds |-> NoPayment]
    /\ astray = {}
    /\ pool_balance = 0

Next ==
    \/ LifecycleNext
    \/ DisputeNext
    \/ IdentityNext
    \/ \E settings \in Configs : UpdateConfig(settings)
    \/ \E c \in ContractIds, currency \in Currencies, amount \in Gifts : Gift(c, currency, amount)
    \/ Tick

Spec == Init /\ [][Next]_vars

-----------------------------------------------------------------------------
(* Type invariant: every account field keeps its type. *)
TypeOK ==
    /\ now \in 0..MaxTime
    /\ config \in ProtocolConfig
    /\ total_contracts \in 0..MaxContracts
    /\ contracts \in [ContractIds -> Contract]
    /\ poe \in [ContractIds -> ProofOfExecution]
    /\ disputes \in [ContractIds -> Dispute]
    /\ votes \in [ContractIds -> SUBSET VoteRecord]
    /\ agents \in [Registered -> AgentIdentity]
    /\ escrow \in [Currencies -> [ContractIds -> Nat]]
    /\ net \in [ContractIds -> Flow]
    /\ astray \subseteq ContractIds
    /\ pool_balance \in Nat

IsLive(c) == contracts[c].status \in LiveStatuses
IsSettled(c) == contracts[c].status \in SettledStatuses
IsDecided(c) == disputes[c].status \in ResolvedStatuses

(* The stake of an appeal that has not been decided. *)
PendingAppeal(c) ==
    IF HasAppeal(disputes[c]) /\ ~IsDecided(c) THEN disputes[c].appeal_stake ELSE 0

(* What the records of a contract and of its dispute say is escrowed for it. *)
Owed(c) ==
    PendingAppeal(c)
    + (IF contracts[c].status = "Proposed" \/ IsLive(c)
       THEN EscrowDeposit(contracts[c]) + contracts[c].provider_stake ELSE 0)

(* Everything paid for c reached its payee, nobody else paid into its
   escrow, and the escrow is not rounded to nothing: a value of at most 3. *)
Regular(c) ==
    /\ c \notin astray
    /\ contracts[c].status # "None" => EscrowDeposit(contracts[c]) > 0

OnlyRegular(a) == \A c \in ContractIds : a \in Parties(contracts[c]) => Regular(c)

(* What is escrowed for a contract is exactly what its records say is owed:
   no handler pays twice or pays less than it books, and a settlement leaves
   nothing behind but the stake of an appeal that was never decided.  This
   for contracts of which every payment reached its payee: a settlement may
   name the escrow itself, and leave the money there.  But until a contract
   is settled its money is there, whatever anybody names or transfers.     *)
EscrowMatchesRecords ==
    \A c \in ContractIds :
        /\ c \notin astray => Held(c) = Owed(c)
        /\ contracts[c].status = "Proposed" \/ IsLive(c) => Held(c) >= Owed(c)

LiveContractsOf(a) == {c \in ContractIds : IsLive(c) /\ contracts[c].provider = a}

SettledWithItself(a) ==
    {c \in ContractIds : IsSettled(c) /\ contracts[c].provider = a /\ contracts[c].requester = a}

(* A provider's active_contracts, incremented and decremented by seven
   handlers, is the number of its live contracts, unless one of them was
   paid astray: it can be resolved, and counted down, again.  An agent that
   is its own requester may keep some of those contracts on the count.     *)
ActiveContractsAccurate ==
    \A a \in Registered : OnlyRegular(a) =>
        LET live == Cardinality(LiveContractsOf(a))
        IN  agents[a].active_contracts \in live .. live + Cardinality(SettledWithItself(a))

(* A provider's completed tasks are its completed contracts, each counted
   once whichever of the three handlers completed it, save that some with
   itself are not counted; and it has no more abandoned tasks than contracts
   resolved against it.  An agent with a contract that was paid astray is
   left out: that contract can be settled a second time.                    *)
OutcomesCountedOnce ==
    \A a \in Registered : OnlyRegular(a) =>
        LET ended(status) == Cardinality({c \in ContractIds :
                                contracts[c].provider = a /\ contracts[c].status = status})
            completed == ended("Completed")
        IN  /\ agents[a].tasks_completed \in
                   completed - Cardinality(SettledWithItself(a)) .. completed
            /\ agents[a].tasks_abandoned <= ended("ResolvedRequester")

(* The counters a verdict is read from count the votes cast at the level
   the dispute is at, although an appeal resets them and keeps the records;
   and no juror votes on both juries of a dispute.                         *)
TallyMatchesVotes ==
    \A c \in ContractIds :
        LET d == disputes[c]
            cast(forProvider) == Cardinality({v \in votes[c] :
                                    v.level = d.level /\ v.vote_for_provider = forProvider})
        IN  /\ JuryLevel(d) => /\ d.votes_provider = cast(TRUE)
                               /\ d.votes_requester = cast(FALSE)
            /\ \A v, w \in votes[c] : v.juror = w.juror => v = w

(* A party pays the penalty of at most one private round per contract, and
   only once the contract is settled, if none of its contracts was paid
   astray.                                                                 *)
FrictionBounded ==
    \A a \in Registered : OnlyRegular(a) =>
        agents[a].dispute_friction_total <=
            Cardinality({c \in ContractIds : IsSettled(c) /\ a \in Parties(contracts[c])})

(* The verdict never costs its winner: a requester that wins gets back at
   least all it put in, a provider that wins its stake and the escrow, and
   a provider whose work was accepted is not out of pocket.  An appeal that
   is pending does not count.  That each payment reached its payee is in the
   hypothesis, as the settlements do not check it in SWORN; what holds is
   that the handlers, in any order, book no less to the winner.            *)
WinnerIsMadeWhole ==
    \A c \in ContractIds : Regular(c) /\ PendingAppeal(c) = 0 =>
        LET k == contracts[c]
        IN  /\ k.status = "ResolvedRequester" => net[c].requester >= 0
            /\ k.status = "ResolvedProvider" => net[c].provider >= EscrowDeposit(k)
            /\ k.status = "Completed" => net[c].provider >= 0

(* What c paid into the insurance pool's vault out of lost stakes.  The
   share of a fee goes there too, and is not booked.                       *)
LossPaid(c) == IF contracts[c].status = "Completed" THEN 0 ELSE net[c].insurance

(* What a lost SOL contract may have credited the pool with although it went
   to the requester: the shares for the pool and to burn.                  *)
CreditedUnpaid(c) ==
    LET k == contracts[c]
    IN  IF k.currency = "Sol" /\ k.status = "ResolvedRequester"
        THEN PartOf(k.provider_stake, InsuranceRateBps) + PartOf(k.provider_stake, BurnRateBps)
        ELSE 0

(* The balance on the insurance pool's books is to the unit what lost stakes
   and appeals paid into its vault, but that it may be ahead by the shares
   of lost SOL stakes; as long as no settlement named another account.     *)
PoolIsBacked ==
    (\A c \in ContractIds : Regular(c)) =>
    LET paid == MapThenSumSet(LossPaid, ContractIds)
        ahead == MapThenSumSet(CreditedUnpaid, ContractIds)
    IN  paid <= pool_balance /\ pool_balance <= paid + ahead

-----------------------------------------------------------------------------
(* Action properties *)

(* A settled contract stays settled; and it keeps its outcome and its date,
   and nothing leaves its escrow again, whatever happens to a dispute that
   outlived it, as long as its payments reached their payees.              *)
SettledIsFinal ==
    [][\A c \in ContractIds : IsSettled(c) =>
          /\ IsSettled(c)'
          /\ Regular(c)' => /\ contracts'[c].status = contracts[c].status
                            /\ contracts'[c].resolved_at = contracts[c].resolved_at
                            /\ Held(c)' >= Held(c)]_vars

Stage(c) ==
    IF ~Regular(c) THEN "void"
    ELSE CASE contracts[c].status = "None" -> "none"
           [] contracts[c].status = "Proposed" -> "offered"
           [] IsLive(c) -> "working"
           [] IsSettled(c) -> "closed"

Accounted(amount, c) == IF Regular(c) THEN amount ELSE 0

Promise == INSTANCE EscrowPromise WITH
    Contracts <- ContractIds,
    stage <- [c \in ContractIds |-> Stage(c)],
    held <- [c \in ContractIds |-> Accounted(Held(c) - PendingAppeal(c), c)],
    appeal <- [c \in ContractIds |-> Accounted(PendingAppeal(c), c)],
    requester <- [c \in ContractIds |-> Accounted(net[c].requester, c)],
    provider <- [c \in ContractIds |-> Accounted(net[c].provider, c)],
    others <- [c \in ContractIds |->
                  Accounted(net[c].treasury + net[c].insurance + net[c].burn, c)]

(* The protocol implements the escrow promise, whatever instructions are
   called on a contract, its dispute and the configuration, in any order,
   until a settlement pays an account that is not its payee's.             *)
PromiseKept == Promise!Spec

(* A provider that delivered never loses its stake as one that did not:
   timeout_contract does not reach a contract that came back from review.  *)
DeliveredNeverAbandoned ==
    [][\A c \in ContractIds : Timeout(c) => ~poe[c].exists]_vars

(* A provider that takes a contract on has, with it, no more live contracts
   than its trust score allows at that moment, if none was paid astray.    *)
ExposureRespected ==
    [][\A a \in Registered :
          OnlyRegular(a) /\ LiveContractsOf(a)' \ LiveContractsOf(a) # {} =>
              Cardinality(LiveContractsOf(a)') <= MaxActive(agents[a].trust_score)]_vars

(* A dispute before a jury is decided by votes, cast at that level, and as
   most of them said.                                                      *)
VerdictFollowsVotes ==
    [][\A c \in ContractIds : JuryLevel(disputes[c]) /\ ~IsDecided(c) /\ IsDecided(c)' =>
          LET cast(forProvider) == {v \in votes[c] :
                  v.level = disputes[c].level /\ v.vote_for_provider = forProvider}
          IN  /\ cast(TRUE) \cup cast(FALSE) # {}
              /\ (disputes'[c].status = "ResolvedProvider") <=>
                     (Cardinality(cast(TRUE)) > Cardinality(cast(FALSE)))]_vars

(* A dispute climbs one level at a time and never comes back down, by
   escalation or by exhausted corrections.                                 *)
LevelsClimb ==
    [][\A c \in ContractIds :
          LevelNumber(disputes'[c].level) - LevelNumber(disputes[c].level) \in {0, 1}]_vars
=============================================================================
