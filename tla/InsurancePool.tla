--------------------------- MODULE InsurancePool ---------------------------
(***************************************************************************)
(* The insurance pool and the claims on it (insurance.rs).  Contracts are  *)
(* seen from outside: they complete, and their requester may claim.        *)
(*                                                                         *)
(* The governance phase is the 0 that initialize sets and nothing changes: *)
(* the rulings on claims and the exposure are the admin's.                 *)
(*                                                                         *)
(* The account that stands for the insurance vault is not compared with    *)
(* one: whoever files, deposits or approves names it.  Two histories,      *)
(* missing and surplus, say how far the vault is from the books for that.  *)
(***************************************************************************)
EXTENDS Amounts, FiniteSetsExt

CONSTANTS
    Contracts,          \* contracts that may complete, all of value ContractValue
    ContractValue,
    Providers,          \* agents with an identity account
    ClaimAmounts,       \* amounts a requester may claim
    Deposits,           \* amounts a wallet may deposit
    Exposures,          \* exposures the admin may report
    MaxTime,            \* bound: last instant of the clock
    MaxDeposits,        \* bound: deposits into the pool and gifts to its vault
    MaxRulings          \* bound: approvals and denials of one claim

CONSTANTS
    ClaimWindow,        \* 90 days
    MaxClaimPayoutBps,  \* 80%
    PoolCapShare        \* 20: a claim takes at most a 20th of the pool

ASSUME PoolAssumption ==
    /\ IsFiniteSet(Contracts)
    /\ ClaimAmounts \subseteq Nat /\ Deposits \subseteq Nat /\ Exposures \subseteq Nat
    /\ ContractValue \in Nat /\ MaxClaimPayoutBps \in Nat /\ ClaimWindow \in Nat
    /\ MaxDeposits \in Nat /\ MaxRulings \in Nat
    /\ MaxTime \in Nat \ {0} /\ PoolCapShare \in Nat \ {0}

VARIABLES
    now,
    resolved_at,    \* of each contract, 0 if it is not completed
    claims,         \* InsuranceClaim accounts, one address per contract
    pool,           \* the InsurancePool account
    vault,          \* tokens in the insurance vault
    deposits,       \* deposits made
    rulings,        \* rulings made on each claim
    gain,           \* what each contract's requester got out of its claim
    fraud_flags,    \* of each provider's identity
    kept,           \* contracts whose requester paid the collateral to itself
    missing,        \* tokens on the books that were transferred elsewhere
    surplus         \* tokens of the vault on no books

transfers == <<kept, missing, surplus>>
insurance ==
    <<now, resolved_at, claims, pool, vault, deposits, rulings, gain, fraud_flags, transfers>>

ClaimStatus == {"None", "Filed", "Approved", "Denied"}
InsuranceClaim == [status : ClaimStatus, amount : Nat, collateral : Nat]
NoClaim == [status |-> "None", amount |-> 0, collateral |-> 0]

PoolAccount ==
    [total_balance : Nat, total_claims_paid : Nat, active_claims : Nat,
     total_active_exposure : Nat]

-----------------------------------------------------------------------------
Complete(c) ==
    /\ resolved_at[c] = 0
    /\ resolved_at' = [resolved_at EXCEPT ![c] = now]
    /\ UNCHANGED <<now, claims, pool, vault, deposits, rulings, gain, fraud_flags, transfers>>

(* `init`: one claim account per contract, whatever became of the claim.   *)
FileAccounts(c) == resolved_at[c] > 0 /\ claims[c].status = "None"

(* A transfer to the account named as the insurance vault.                 *)
Enters(amount, to) ==
    /\ vault' = IF to = "vault" THEN vault + amount ELSE vault
    /\ missing' = IF to = "vault" THEN missing ELSE missing + amount
    /\ surplus' = surplus

(* file_claim: the cap is taken of the balance at this moment.  The account
   named for the collateral may be one of the claimant itself.             *)
FileClaim(c, amount, to) ==
    LET collateral == amount \div 10
    IN  /\ FileAccounts(c)
        /\ now <= resolved_at[c] + ClaimWindow
        /\ amount <= Share(ContractValue, MaxClaimPayoutBps)
        /\ amount <= pool.total_balance \div PoolCapShare
        /\ collateral > 0
        /\ claims' = [claims EXCEPT ![c] =
               [status |-> "Filed", amount |-> amount, collateral |-> collateral]]
        /\ Enters(collateral, to)
        /\ gain' = IF to = "claimant" THEN gain ELSE [gain EXCEPT ![c] = @ - collateral]
        /\ kept' = IF to = "claimant" THEN kept \cup {c} ELSE kept
        /\ pool' = [pool EXCEPT !.active_claims = @ + 1]
        /\ UNCHANGED <<now, resolved_at, deposits, rulings, fraud_flags>>

(* Without exposure the pool counts as solvent.                            *)
SolvencyBps ==
    IF pool.total_active_exposure = 0 THEN 10000
    ELSE (pool.total_balance * 10000) \div pool.total_active_exposure

(* In a crisis only a provider with a fraud flag has its claims paid.      *)
PayoutIsPossible(p) == SolvencyBps >= 5000 \/ fraud_flags[p] > 0

(* Mutation: the payout is not limited by the balance. *)
ClaimPayoutUncapped(c) ==
    IF SolvencyBps < 10000 /\ SolvencyBps >= 5000 THEN claims[c].amount \div 2
    ELSE claims[c].amount

(* Half of the claim when the pool covers between 50% and 100% of exposure. *)
ClaimPayout(c) ==
    LET halved == SolvencyBps < 10000 /\ SolvencyBps >= 5000
        requested == IF halved THEN claims[c].amount \div 2 ELSE claims[c].amount
    IN  Least(requested, pool.total_balance)

(* Mutation: a claim that was ruled on is approved again. *)
AwaitsRulingAlways(c) == claims[c].status # "None"

(* UnderReview, which would do as well, is never set.                      *)
AwaitsRuling(c) == claims[c].status = "Filed"

CanPay(c, payout) == vault >= payout + claims[c].collateral

(* Mutation: the collateral is not returned. *)
LeavesWithoutCollateral(c, payout, from) ==
    /\ from = "vault" => CanPay(c, payout)
    /\ vault' = IF from = "vault" THEN vault - payout ELSE vault
    /\ surplus' = IF from = "vault" THEN surplus ELSE surplus + payout
    /\ missing' = missing

(* Two transfers from the account named as the insurance vault.            *)
Leaves(c, payout, from) ==
    LET amount == payout + claims[c].collateral
    IN  /\ from = "vault" => CanPay(c, payout)
        /\ vault' = IF from = "vault" THEN vault - amount ELSE vault
        /\ surplus' = IF from = "vault" THEN surplus ELSE surplus + amount
        /\ missing' = missing

(* approve_claim: the identity that is flagged is the one the admin names,
   and so is the account that pays, any that pool-authority signs for: the
   bond vaults have the same authority as the insurance vault.             *)
ApproveClaim(c, p, from) ==
    LET payout == ClaimPayout(c)
    IN  /\ rulings[c] < MaxRulings
        /\ AwaitsRuling(c)
        /\ PayoutIsPossible(p)
        /\ Leaves(c, payout, from)
        /\ gain' = [gain EXCEPT ![c] = @ + payout + claims[c].collateral]
        /\ claims' = [claims EXCEPT ![c].status = "Approved"]
        /\ pool' = [pool EXCEPT !.total_balance = Monus(@, payout),
                                !.total_claims_paid = @ + payout,
                                !.active_claims = Monus(@, 1)]
        /\ fraud_flags' = [fraud_flags EXCEPT ![p] = @ + 1]
        /\ rulings' = [rulings EXCEPT ![c] = @ + 1]
        /\ UNCHANGED <<now, resolved_at, deposits, kept>>

(* Mutation: a denied claim stays active. *)
AfterDenialStillActive(collateral) == [pool EXCEPT !.total_balance = @ + collateral]

(* Mutation: the counter is not saturated. *)
AfterDenialUnsaturated(collateral) ==
    [pool EXCEPT !.total_balance = @ + collateral, !.active_claims = @ - 1]

AfterDenial(collateral) ==
    [pool EXCEPT !.total_balance = @ + collateral, !.active_claims = Monus(@, 1)]

(* deny_claim, whatever the status: also of a claim paid or denied before. *)
DenyClaim(c) ==
    /\ rulings[c] < MaxRulings
    /\ claims[c].status # "None"
    /\ claims' = [claims EXCEPT ![c].status = "Denied"]
    /\ pool' = AfterDenial(claims[c].collateral)
    /\ rulings' = [rulings EXCEPT ![c] = @ + 1]
    /\ UNCHANGED <<now, resolved_at, vault, deposits, gain, fraud_flags, transfers>>

(* deposit_to_pool: dispute confiscations enter the pool the same way.     *)
DepositToPool(amount, to) ==
    /\ deposits < MaxDeposits
    /\ amount > 0
    /\ Enters(amount, to)
    /\ pool' = [pool EXCEPT !.total_balance = @ + amount]
    /\ deposits' = deposits + 1
    /\ UNCHANGED <<now, resolved_at, claims, rulings, gain, fraud_flags, kept>>

(* A transfer to the vault that no instruction of the pool makes.          *)
Gift(amount) ==
    /\ deposits < MaxDeposits
    /\ vault' = vault + amount /\ surplus' = surplus + amount
    /\ deposits' = deposits + 1
    /\ UNCHANGED <<now, resolved_at, claims, pool, rulings, gain, fraud_flags, kept, missing>>

UpdateExposure(exposure) ==
    /\ pool' = [pool EXCEPT !.total_active_exposure = exposure]
    /\ UNCHANGED <<now, resolved_at, claims, vault, deposits, rulings, gain, fraud_flags,
                   transfers>>

-----------------------------------------------------------------------------
PassTime ==
    /\ now < MaxTime
    /\ now' = now + 1
    /\ UNCHANGED <<resolved_at, claims, pool, vault, deposits, rulings, gain, fraud_flags,
                   transfers>>

InsuranceInit ==
    /\ now = 1
    /\ resolved_at = [c \in Contracts |-> 0]
    /\ claims = [c \in Contracts |-> NoClaim]
    /\ pool = [total_balance |-> 0, total_claims_paid |-> 0, active_claims |-> 0,
               total_active_exposure |-> 0]
    /\ vault = 0 /\ deposits = 0
    /\ rulings = [c \in Contracts |-> 0]
    /\ gain = [c \in Contracts |-> 0]
    /\ fraud_flags = [p \in Providers |-> 0]
    /\ kept = {} /\ missing = 0 /\ surplus = 0

InsuranceNext ==
    \/ \E c \in Contracts : Complete(c)
    \/ \E c \in Contracts, amount \in ClaimAmounts, to \in {"vault", "claimant", "other"} :
          FileClaim(c, amount, to)
    \/ \E c \in Contracts, p \in Providers, from \in {"vault", "other"} : ApproveClaim(c, p, from)
    \/ \E c \in Contracts : DenyClaim(c)
    \/ \E amount \in Deposits, to \in {"vault", "other"} : DepositToPool(amount, to)
    \/ \E amount \in Deposits : Gift(amount)
    \/ \E exposure \in Exposures : UpdateExposure(exposure)
    \/ PassTime

InsuranceSpec == InsuranceInit /\ [][InsuranceNext]_insurance

-----------------------------------------------------------------------------
(* Type invariant: every field of the pool and of a claim keeps its type. *)
InsuranceTypeOK ==
    /\ now \in 1..MaxTime
    /\ resolved_at \in [Contracts -> 0..MaxTime]
    /\ claims \in [Contracts -> InsuranceClaim]
    /\ pool \in PoolAccount
    /\ vault \in Nat
    /\ deposits \in 0..MaxDeposits
    /\ rulings \in [Contracts -> 0..MaxRulings]
    /\ gain \in [Contracts -> Int]
    /\ fraud_flags \in [Providers -> Nat]
    /\ kept \subseteq Contracts /\ missing \in Nat /\ surplus \in Nat

OpenClaims == {c \in Contracts : claims[c].status = "Filed"}

(* The rulings on a claim after the first: all of them are denials.        *)
Repeated(c) == Monus(rulings[c], 1)

(* The vault holds the balance on the pool's books and the collateral of
   the open claims, but for three differences that are accounted for to the
   unit: transfers whose caller named another account than the vault, tokens
   that no book shows, and repeated denials, each of which credits again a
   collateral that has left or was credited before.                        *)
BooksMatchVault ==
    vault + missing + MapThenSumSet(LAMBDA c : Repeated(c) * claims[c].collateral, Contracts)
        = pool.total_balance + surplus
              + MapThenSumSet(LAMBDA c : claims[c].collateral, OpenClaims)

(* A requester gets at most 80% of the value out of one contract, and the
   collateral if it had paid that to itself, and loses at most the
   collateral, however often its claim is ruled on.                        *)
ClaimPaidOnce ==
    \A c \in Contracts :
        /\ gain[c] >= -claims[c].collateral
        /\ gain[c] <= Share(ContractValue, MaxClaimPayoutBps)
                         + (IF c \in kept THEN claims[c].collateral ELSE 0)

(* active_claims never counts more than the open claims, and less only by
   the denials that were repeated.                                         *)
ActiveClaimsCounted ==
    LET open == Cardinality(OpenClaims)
    IN  pool.active_claims \in Monus(open, MapThenSumSet(Repeated, Contracts)) .. open

(* As long as no denial was repeated and what was filed and deposited went
   to the vault, it can pay every open claim, although the cap of a claim
   was taken of a balance that other claims have lowered since.            *)
OpenClaimsCovered ==
    MapThenSumSet(Repeated, Contracts) = 0 /\ missing = 0 =>
        \A c \in OpenClaims : CanPay(c, ClaimPayout(c))
=============================================================================
