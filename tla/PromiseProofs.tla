--------------------------- MODULE PromiseProofs ----------------------------
(***************************************************************************)
(* Spec => PromiseKept: every instruction, on whatever accounts, is one    *)
(* step of EscrowPromise or moves no money; a settlement that names another *)
(* account than a payee's is its step Void, and nothing is said of that    *)
(* contract after.  On top of EscrowInv, which says what is held, it needs *)
(* where the money came from: what a contract holds and what its parties   *)
(* got out of it add up to nothing.                                        *)
(*                                                                         *)
(* Spec => []WinnerIsMadeWhole, in the second part.  What a party gets     *)
(* when a contract closes is a payment; that it is made whole also needs   *)
(* what it had put in: the invariant says to the unit what each party of a *)
(* contract that is not closed is out of pocket, its appeal included.      *)
(***************************************************************************)
EXTENDS ContractProofs

Sound(c) ==
    /\ c \notin astray => Held(c) + Total(net[c]) = 0
    /\ contracts[c].status = "None" => net[c] = NoPayment
    /\ contracts[c].status = "Proposed" => disputes[c].status = "None"

(* The inductive invariant. *)
PromiseInv == EscrowInv /\ \A c \in ContractIds : Sound(c)

(* Nothing that the promise speaks of changed for x. *)
Unmoved(x) ==
    /\ Regular(x)' <=> Regular(x)
    /\ Stage(x)' = Stage(x)
    /\ Held(x)' = Held(x)
    /\ PendingAppeal(x)' = PendingAppeal(x)
    /\ net'[x] = net[x]

(* A step on c keeps the promise, and what the promise rests on. *)
Kept(c) ==
    /\ \A x \in ContractIds \ {c} : Unmoved(x) /\ Sound(x)'
    /\ Sound(c)'
    /\ Regular(c)' => Regular(c) /\ (Promise!Step(c) \/ Unmoved(c))

(* What was recorded for c when its money came in stays, and so its stage. *)
SameTerms(c) ==
    /\ contracts'[c].value = contracts[c].value
    /\ contracts'[c].escrow_factor_bps = contracts[c].escrow_factor_bps
    /\ contracts'[c].provider_stake = contracts[c].provider_stake
    /\ \/ contracts'[c].status = contracts[c].status
       \/ contracts'[c].status \in LiveStatuses /\ contracts[c].status \in LiveStatuses

-----------------------------------------------------------------------------
(* What is held for a contract is what its records say and the appeal.     *)
LEMMA Funds ==
    ASSUME EscrowInv, NEW c \in ContractIds
    PROVE  /\ Held(c) \in Nat /\ PendingAppeal(c) \in Nat /\ Escrowed(contracts[c]) \in Nat
           /\ c \notin astray => Held(c) = PendingAppeal(c) + Escrowed(contracts[c])
           /\ PendingAppeal(c) = Pending(disputes[c])
<1>1. Held(c) \in Nat
    BY HeldNat DEF EscrowInv
<1>2. PendingAppeal(c) = Pending(disputes[c])
    BY DEF PendingAppeal, Pending, IsDecided
<1>3. Pending(disputes[c]) \in Nat
    BY DisputeFacts DEF EscrowInv, Pending
<1>4. Escrowed(contracts[c]) \in Nat
    <2>1. EscrowDeposit(contracts[c]) \in Nat /\ contracts[c].provider_stake \in Nat
        BY ContractFacts DEF EscrowInv
    <2> QED
        BY <2>1 DEF Escrowed
<1> QED
    BY <1>1, <1>2, <1>3, <1>4 DEF EscrowInv, Balanced

(* The same of the next state.                                             *)
LEMMA FundsNext ==
    ASSUME EscrowInv', NEW c \in ContractIds
    PROVE  /\ Held(c)' \in Nat /\ PendingAppeal(c)' \in Nat /\ Escrowed(contracts'[c]) \in Nat
           /\ c \notin astray' => Held(c)' = PendingAppeal(c)' + Escrowed(contracts'[c])
           /\ PendingAppeal(c)' = Pending(disputes'[c])
<1>1. contracts'[c] \in Contract /\ disputes'[c] \in Dispute
    BY DEF EscrowInv, TypeOK
<1>2. PendingAppeal(c)' = Pending(disputes'[c])
    BY DEF PendingAppeal, Pending, IsDecided
<1>3. Pending(disputes'[c]) \in Nat
    BY <1>1 DEF Dispute, Pending
<1>4. Escrowed(contracts'[c]) \in Nat
    <2>1. EscrowDeposit(contracts'[c]) \in Nat /\ contracts'[c].provider_stake \in Nat
        BY <1>1, DepositWithinValue DEF Contract
    <2> QED
        BY <2>1 DEF Escrowed
<1>5. c \notin astray' => Held(c)' = Pending(disputes'[c]) + Escrowed(contracts'[c])
    BY DEF EscrowInv, Balanced
<1>6. Held(c)' \in Nat
    <2>1. escrow'["Sworn"][c] \in Nat /\ escrow'["Sol"][c] \in Nat
        BY DEF EscrowInv, TypeOK, Currencies
    <2> QED
        BY <2>1 DEF Held
<1> QED
    BY <1>2, <1>3, <1>4, <1>5, <1>6

(* Statuses are four disjoint stages.                                      *)
LEMMA StageOfStatus ==
    ASSUME NEW c \in ContractIds, Regular(c)
    PROVE  /\ contracts[c].status = "None" => Stage(c) = "none"
           /\ contracts[c].status = "Proposed" => Stage(c) = "offered"
           /\ contracts[c].status \in LiveStatuses => Stage(c) = "working"
           /\ contracts[c].status \in SettledStatuses => Stage(c) = "closed"
BY DEF Stage, IsLive, IsSettled, LiveStatuses, SettledStatuses

LEMMA StageOfStatusNext ==
    ASSUME NEW c \in ContractIds, Regular(c)'
    PROVE  /\ contracts'[c].status = "None" => Stage(c)' = "none"
           /\ contracts'[c].status = "Proposed" => Stage(c)' = "offered"
           /\ contracts'[c].status \in LiveStatuses => Stage(c)' = "working"
           /\ contracts'[c].status \in SettledStatuses => Stage(c)' = "closed"
BY DEF Stage, IsLive, IsSettled, LiveStatuses, SettledStatuses

(* A contract never becomes regular again: the terms that its deposit is
   computed from stay.                                                     *)
LEMMA RegularBefore ==
    ASSUME NEW c \in ContractIds, Regular(c)', c \notin astray' => c \notin astray,
           contracts'[c].value = contracts[c].value,
           contracts'[c].escrow_factor_bps = contracts[c].escrow_factor_bps,
           contracts'[c].status # "None" \/ contracts[c].status = "None"
    PROVE  Regular(c)
BY DEF Regular, EscrowDeposit

(* A contract whose accounts a step leaves alone keeps all.                *)
LEMMA ElsewhereKept ==
    ASSUME PromiseInv, NEW x \in ContractIds, Untouched(x), net'[x] = net[x]
    PROVE  Unmoved(x) /\ Sound(x)'
<1>1. Held(x)' = Held(x)
    BY DEF Held, Untouched, Currencies
<1>2. Regular(x)' <=> Regular(x)
    BY DEF Regular, Untouched
<1>3. Stage(x)' = Stage(x)
    <2>1. contracts'[x] = contracts[x]
        BY DEF Untouched
    <2>2. CASE Regular(x)
        <3>1. contracts[x].status \in {"None", "Proposed"} \cup LiveStatuses \cup SettledStatuses
            BY ContractFacts DEF PromiseInv, EscrowInv, Contract, ContractStatus
        <3> QED
            BY <1>2, <2>1, <2>2, <3>1, StageOfStatus, StageOfStatusNext
    <2>3. CASE ~Regular(x)
        BY <1>2, <2>3 DEF Stage
    <2> QED
        BY <2>2, <2>3
<1>4. PendingAppeal(x)' = PendingAppeal(x)
    BY DEF PendingAppeal, IsDecided, Untouched
<1>5. Sound(x)'
    BY <1>1 DEF PromiseInv, Sound, Untouched
<1> QED
    BY <1>1, <1>2, <1>3, <1>4, <1>5 DEF Unmoved

(* A step on c that moves no money.                                        *)
LEMMA QuietKept ==
    ASSUME PromiseInv, EscrowInv', NEW c \in ContractIds,
           escrow' = escrow, net' = net, astray' = astray, SameTerms(c),
           \A x \in ContractIds \ {c} : contracts'[x] = contracts[x] /\ disputes'[x] = disputes[x],
           contracts[c].status = "Proposed" => disputes'[c].status = disputes[c].status
    PROVE  Kept(c)
<1>1. \A x \in ContractIds \ {c} : Unmoved(x) /\ Sound(x)'
    BY ElsewhereKept DEF Untouched
<1>2. Held(c)' = Held(c)
    BY DEF Held
<1>3. "Proposed" \notin LiveStatuses /\ "None" \notin LiveStatuses
    BY DEF LiveStatuses
<1>4. Escrowed(contracts'[c]) = Escrowed(contracts[c])
    BY <1>3 DEF SameTerms, Escrowed, EscrowDeposit
<1>5. ASSUME Regular(c)' PROVE Regular(c) /\ Unmoved(c)
    <2>1. Regular(c)
        BY <1>3, <1>5, RegularBefore DEF SameTerms
    <2>2. PendingAppeal(c)' = PendingAppeal(c)
        BY <1>2, <1>4, <1>5, Funds, FundsNext DEF PromiseInv, Regular
    <2>3. Stage(c)' = Stage(c)
        <3>1. CASE contracts'[c].status = contracts[c].status
            BY <1>5, <2>1, <3>1 DEF Stage, IsLive, IsSettled
        <3>2. CASE contracts'[c].status \in LiveStatuses /\ contracts[c].status \in LiveStatuses
            BY <1>5, <2>1, <3>2, StageOfStatus, StageOfStatusNext
        <3> QED
            BY <3>1, <3>2 DEF SameTerms
    <2> QED
        BY <1>2, <1>5, <2>1, <2>2, <2>3 DEF Unmoved
<1>6. Sound(c)'
    BY <1>2, <1>3 DEF PromiseInv, Sound, SameTerms
<1> QED
    BY <1>1, <1>5, <1>6 DEF Kept

(* What a payment and a deposit of the requester change of the gains.      *)
LEMMA ExchangeGains ==
    ASSUME NEW flow \in Flow, NEW paidIn \in Nat, NEW pay \in Payment
    PROVE  LET after == Exchange(flow, paidIn, pay)
           IN  /\ after.requester = flow.requester + pay.requester - paidIn
               /\ after.provider = flow.provider + pay.provider
               /\ after.treasury = flow.treasury + pay.treasury
               /\ after.insurance = flow.insurance + pay.insurance
               /\ after.burn = flow.burn + pay.burn
               /\ Total(after) = Total(flow) - paidIn + Total(pay)
<1> DEFINE after == Exchange(flow, paidIn, pay)
<1>1. /\ after.requester = flow.requester + pay.requester - paidIn
      /\ after.provider = flow.provider + pay.provider
      /\ after.treasury = flow.treasury + pay.treasury
      /\ after.insurance = flow.insurance + pay.insurance
      /\ after.burn = flow.burn + pay.burn
    <2> DEFINE r == flow.requester + pay.requester
               p == flow.provider + pay.provider
               t == flow.treasury + pay.treasury
               i == flow.insurance + pay.insurance
               b == flow.burn + pay.burn
               rest == r - paidIn
    <2>1. after = [[requester |-> r, provider |-> p, treasury |-> t, insurance |-> i, burn |-> b]
                     EXCEPT !.requester = rest]
        BY DEF Exchange, PlusFlow
    <2> HIDE DEF after, r, p, t, i, b, rest
    <2>2. /\ after.requester = rest /\ after.provider = p /\ after.treasury = t
          /\ after.insurance = i /\ after.burn = b
        BY <2>1
    <2> QED
        BY <2>2 DEF r, p, t, i, b, rest, Flow, Payment
<1> HIDE DEF after
<1>2. Total(after) = Total(flow) - paidIn + Total(pay)
    BY <1>1 DEF Total, Flow, Payment
<1> QED
    BY <1>1, <1>2 DEF after

(* A payment out of the escrow of c, with or without a top-up.             *)
LEMMA DisburseGains ==
    ASSUME TypeOK, NEW c \in ContractIds, NEW currency \in Currencies, NEW topUp \in Nat,
           NEW first \in Payment, NEW second \in Payment,
           Disburse(c, currency, topUp, first, second)
    PROVE  /\ net[c] \in Flow
           /\ c \notin astray' => net'[c] = Exchange(net[c], topUp, PlusFlow(first, second))
           /\ \A x \in ContractIds \ {c} : net'[x] = net[x]
<1> DEFINE pay == PlusFlow(first, second)
<1>1. /\ escrow \in [Currencies -> [ContractIds -> Nat]]
      /\ net \in [ContractIds -> Flow]
      /\ astray \subseteq ContractIds
    BY DEF TypeOK
<1>2. /\ \E flow \in Flow : net' = [net EXCEPT ![c] = flow]
      /\ c \notin astray' => PaidInFull(c, currency, topUp, pay)
    BY <1>1, DisburseFacts
<1> HIDE DEF pay
<1>3. c \notin astray' => net'[c] = Exchange(net[c], topUp, pay)
    BY <1>1, <1>2 DEF PaidInFull
<1> QED
    BY <1>1, <1>2, <1>3 DEF pay

(* A settlement pays all that was recorded for c, and closes it.           *)
LEMMA ClosingKept ==
    ASSUME PromiseInv, EscrowInv', NEW c \in ContractIds,
           NEW status \in SettledStatuses, NEW topUp \in Nat,
           NEW first \in Payment, NEW second \in Payment,
           Disburse(c, contracts[c].currency, topUp, first, second),
           contracts' = [contracts EXCEPT ![c].status = status, ![c].resolved_at = now],
           \A x \in ContractIds \ {c} : disputes'[x] = disputes[x],
           Regular(c)' => contracts[c].status = "Proposed" \/ contracts[c].status \in LiveStatuses,
           PendingAppeal(c)' = 0 \/ PendingAppeal(c)' = PendingAppeal(c),
           \/ topUp = 0
           \/ /\ contracts[c].status \in LiveStatuses
              /\ PlusFlow(first, second).requester = 0
              /\ PendingAppeal(c)' = PendingAppeal(c)
    PROVE  Kept(c)
<1> DEFINE pay == PlusFlow(first, second)
<1>1. /\ TypeOK /\ contracts[c].currency \in Currencies
      /\ contracts[c] \in Contract
      /\ pay \in Payment
    BY ContractFacts, PlusPayment DEF PromiseInv, EscrowInv
<1>2. /\ Total(pay) \in Nat
      /\ c \notin astray' =>
            /\ c \notin astray
            /\ Held(c)' = Held(c) + topUp - Total(pay)
      /\ \A x \in ContractIds \ {c} :
            /\ x \in astray' <=> x \in astray
            /\ \A cur \in Currencies : escrow'[cur][x] = escrow[cur][x]
    BY <1>1, DisburseHeld
<1>3. /\ net[c] \in Flow
      /\ c \notin astray' => net'[c] = Exchange(net[c], topUp, pay)
      /\ \A x \in ContractIds \ {c} : net'[x] = net[x]
    BY <1>1, DisburseGains
<1> HIDE DEF pay
<1>4. /\ contracts'[c].status = status
      /\ contracts'[c].value = contracts[c].value
      /\ contracts'[c].escrow_factor_bps = contracts[c].escrow_factor_bps
      /\ \A x \in ContractIds \ {c} : contracts'[x] = contracts[x]
    BY <1>1 DEF TypeOK, Contract
<1>5. \A x \in ContractIds \ {c} : Unmoved(x) /\ Sound(x)'
    BY <1>2, <1>3, <1>4, ElsewhereKept DEF Untouched
<1>6. status # "None" /\ status # "Proposed" /\ status \notin LiveStatuses
    BY DEF SettledStatuses, LiveStatuses
<1> DEFINE before == net[c]
           after == net'[c]
<1>7. ASSUME c \notin astray'
      PROVE  /\ after.requester = before.requester + pay.requester - topUp
             /\ after.provider = before.provider + pay.provider
             /\ after.treasury = before.treasury + pay.treasury
             /\ after.insurance = before.insurance + pay.insurance
             /\ after.burn = before.burn + pay.burn
             /\ Total(after) = Total(before) - topUp + Total(pay)
    BY <1>1, <1>3, <1>7, ExchangeGains
<1>8. before \in Flow /\ Total(before) \in Int
    BY <1>3 DEF Flow, Total
<1>9. Sound(c)'
    <2>1. ASSUME c \notin astray' PROVE Held(c)' + Total(after) = 0
        <3>1. Held(c) + Total(before) = 0 /\ Held(c) \in Nat
            BY <1>2, <2>1, Funds DEF PromiseInv, Sound
        <3> HIDE DEF before, after
        <3> QED
            BY <1>2, <1>7, <1>8, <2>1, <3>1
    <2> QED
        BY <1>4, <1>6, <2>1 DEF Sound, after
<1>10. ASSUME Regular(c)' PROVE Regular(c) /\ Promise!Step(c)
    <2>1. Regular(c) /\ c \notin astray'
        BY <1>2, <1>4, <1>6, <1>10, RegularBefore DEF Regular
    <2>2. Stage(c)' = "closed" /\ (Stage(c) = "offered" \/ Stage(c) = "working")
        BY <1>4, <1>10, <2>1, StageOfStatus, StageOfStatusNext
    <2>3. Held(c)' - PendingAppeal(c)' = 0
        <3> DEFINE held == Held(c)'
                   appeal == PendingAppeal(c)'
        <3>1. Escrowed(contracts'[c]) = 0
            BY <1>4, <1>6 DEF Escrowed
        <3>2. held = appeal + 0 /\ appeal \in Nat
            BY <2>1, <3>1, FundsNext
        <3> HIDE DEF held, appeal
        <3>3. held - appeal = 0
            BY <3>2
        <3> QED
            BY <3>3 DEF held, appeal
    <2> DEFINE othersBefore == before.treasury + before.insurance + before.burn
               othersAfter == after.treasury + after.insurance + after.burn
    <2> HIDE DEF before, after
    <2>4. /\ after.provider >= before.provider
          /\ othersAfter >= othersBefore
          /\ topUp = 0 => after.requester >= before.requester
          /\ pay.requester = 0 => after.requester <= before.requester
        BY <1>1, <1>7, <1>8, <2>1 DEF Flow, Payment
    <2>5. CASE topUp = 0
        <3>1. Promise!Close(c)
            BY <1>10, <2>1, <2>2, <2>3, <2>4, <2>5
               DEF Promise!Close, Promise!Becomes, Accounted, before, after
        <3> QED
            BY <2>1, <3>1 DEF Promise!Step
    <2>6. CASE contracts[c].status \in LiveStatuses /\ pay.requester = 0
               /\ PendingAppeal(c)' = PendingAppeal(c)
        <3>1. Stage(c) = "working"
            BY <2>1, <2>6, StageOfStatus
        <3>2. Promise!Accept(c)
            BY <1>10, <2>1, <2>2, <2>3, <2>4, <2>6, <3>1
               DEF Promise!Accept, Promise!Becomes, Promise!NoAppealMoves, Accounted, before, after
        <3> QED
            BY <2>1, <3>2 DEF Promise!Step
    <2> QED
        BY <2>5, <2>6 DEF pay
<1> QED
    BY <1>5, <1>9, <1>10 DEF Kept

(* A settlement that pays once.                                            *)
LEMMA OneClosingKept ==
    ASSUME PromiseInv, EscrowInv', NEW c \in ContractIds,
           NEW status \in SettledStatuses, NEW topUp \in Nat, NEW pay \in Payment,
           contracts[c].status = "Proposed" \/ contracts[c].status \in LiveStatuses,
           Disburse(c, contracts[c].currency, topUp, pay, NoPayment),
           contracts' = [contracts EXCEPT ![c].status = status, ![c].resolved_at = now],
           \A x \in ContractIds \ {c} : disputes'[x] = disputes[x],
           PendingAppeal(c)' = 0 \/ PendingAppeal(c)' = PendingAppeal(c),
           \/ topUp = 0
           \/ /\ contracts[c].status \in LiveStatuses
              /\ pay.requester = 0
              /\ PendingAppeal(c)' = PendingAppeal(c)
    PROVE  Kept(c)
<1>1. NoPayment \in Payment /\ PlusFlow(pay, NoPayment) = pay
    BY PlusNothing
<1> HIDE DEF NoPayment
<1> QED
    BY <1>1, ClosingKept

-----------------------------------------------------------------------------
(* One lemma per instruction that moves money.                             *)

(* A new contract holds what its parties put in, and nothing before.       *)
LEMMA OpeningKept ==
    ASSUME PromiseInv, EscrowInv', NEW k \in Contract, NEW currency \in Currencies,
           NEW stake \in Nat,
           k.status \in {"Proposed", "Active"}, k.provider_stake = stake,
           k.status = "Proposed" => stake = 0,
           NewContract(k, currency, stake, EscrowDeposit(k)),
           disputes' = disputes, astray' = astray
    PROVE  \E c \in ContractIds : Kept(c)
<1> DEFINE deposit == EscrowDeposit(k)
<1>1. PICK c \in ContractIds : c = total_contracts
    <2>1. total_contracts \in ContractIds
        BY BoundsAssumption DEF PromiseInv, EscrowInv, TypeOK, NewContract, ContractIds
    <2> QED
        BY <2>1
<1>2. deposit \in Nat
    BY DepositWithinValue
<1>3. /\ contracts' = [contracts EXCEPT ![c] = k]
      /\ escrow' = [escrow EXCEPT ![currency][c] = stake + deposit]
      /\ net' = [net EXCEPT ![c].requester = -deposit, ![c].provider = -stake]
    BY <1>1 DEF NewContract
<1> HIDE DEF deposit
<1>4. /\ contracts[c].status = "None" /\ disputes[c].status = "None"
      /\ c \notin astray /\ c \notin astray'
    <2>1. c >= total_contracts
        BY <1>1 DEF ContractIds
    <2> QED
        BY <2>1 DEF PromiseInv, EscrowInv, BlankExactly, Consistent
<1>5. net[c] = NoPayment
    BY <1>4 DEF PromiseInv, Sound
<1>6. /\ net'[c].requester = -deposit /\ net'[c].provider = -stake
      /\ net'[c].treasury = 0 /\ net'[c].insurance = 0 /\ net'[c].burn = 0
      /\ \A x \in ContractIds \ {c} : net'[x] = net[x]
    BY <1>3, <1>5 DEF PromiseInv, EscrowInv, TypeOK, NoPayment
<1>7. contracts'[c] = k /\ \A x \in ContractIds \ {c} : contracts'[x] = contracts[x]
    BY <1>3 DEF PromiseInv, EscrowInv, TypeOK
<1>8. \A x \in ContractIds \ {c} : Unmoved(x) /\ Sound(x)'
    <2> SUFFICES ASSUME NEW x \in ContractIds \ {c} PROVE Unmoved(x) /\ Sound(x)'
        OBVIOUS
    <2>1. \A cur \in Currencies : escrow'[cur][x] = escrow[cur][x]
        <3> DEFINE amount == stake + deposit
        <3>1. escrow' = [escrow EXCEPT ![currency][c] = amount]
            BY <1>3
        <3> HIDE DEF amount
        <3> QED
            BY <3>1 DEF PromiseInv, EscrowInv, TypeOK
    <2>2. Untouched(x)
        BY <1>7, <2>1 DEF Untouched
    <2> QED
        BY <1>6, <2>2, ElsewhereKept
<1>9. PendingAppeal(c) = 0 /\ PendingAppeal(c)' = 0
    <2>1. Pending(disputes[c]) = 0
        BY <1>4 DEF PromiseInv, EscrowInv, Consistent, Pending
    <2> QED
        BY <2>1, Funds, FundsNext DEF PromiseInv
<1>10. Held(c)' = deposit + stake
    <2>1. Escrowed(contracts'[c]) = deposit + stake
        BY <1>7 DEF Escrowed, LiveStatuses, deposit
    <2> QED
        BY <1>2, <1>4, <1>9, <2>1, FundsNext
<1>11. Sound(c)'
    <2>1. Held(c)' + Total(net'[c]) = 0
        BY <1>2, <1>6, <1>10 DEF Total
    <2> QED
        BY <1>4, <1>7, <2>1 DEF Sound
<1>12. Regular(c)
    BY <1>4 DEF Regular
<1>13. ASSUME Regular(c)' PROVE Promise!Offer(c)
    <2>1. /\ Stage(c) = "none"
          /\ k.status = "Proposed" => Stage(c)' = "offered"
          /\ k.status = "Active" => Stage(c)' = "working"
        BY <1>4, <1>7, <1>12, <1>13, StageOfStatus, StageOfStatusNext DEF LiveStatuses
    <2>2. -deposit <= 0 /\ -stake <= 0 /\ (Stage(c)' = "offered" => -stake = 0)
        BY <1>2, <2>1
    <2>3. /\ net[c].treasury + net[c].insurance + net[c].burn = 0
          /\ net'[c].treasury + net'[c].insurance + net'[c].burn = 0
        BY <1>5, <1>6 DEF NoPayment
    <2> QED
        BY <1>6, <1>9, <1>12, <1>13, <2>1, <2>2, <2>3
           DEF Promise!Offer, Promise!Becomes, Promise!NoAppealMoves, Promise!NoFeeIsTaken,
               Accounted
<1> QED
    BY <1>8, <1>11, <1>12, <1>13 DEF Kept, Promise!Step

LEMMA CreateKept ==
    ASSUME PromiseInv, EscrowInv', NEW r \in Requesters, NEW p \in Providers, NEW v \in Values,
           NEW input \in EscrowInputs, NEW currency \in Currencies,
           Create(r, p, v, input, currency)
    PROVE  \E c \in ContractIds : Kept(c)
<1> DEFINE stake == StakeRequired(v, agents[p].trust_score)
           terms == Terms(r, p, v, input, currency)
           k1 == [terms EXCEPT !.status = "Active"]
           k2 == [k1 EXCEPT !.provider_stake = stake]
<1>1. terms \in Contract
    BY TermsType DEF PromiseInv, EscrowInv
<1>2. stake \in Nat
    <2>1. agents[p].trust_score \in TrustScores
        BY PartiesAssumption DEF PromiseInv, EscrowInv, TypeOK, AgentIdentity
    <2> QED
        BY <2>1, StakeRequiredNat
<1>3. /\ NewContract(k2, "Sworn", stake, EscrowDeposit(k2))
      /\ disputes' = disputes /\ astray' = astray
    BY DEF Create
<1> HIDE DEF terms, stake
<1>4. k1 \in Contract /\ k1.status = "Active"
    BY <1>1, ContractUpdate DEF ContractStatus, LiveStatuses, Contract
<1> HIDE DEF k1
<1>5. k2 \in Contract
    BY <1>2, <1>4, ContractUpdate
<1>6. k2.status = "Active" /\ k2.provider_stake = stake
    BY <1>4 DEF Contract
<1> HIDE DEF k2
<1> QED
    BY <1>2, <1>3, <1>5, <1>6, OpeningKept DEF Currencies

LEMMA ProposeKept ==
    ASSUME PromiseInv, EscrowInv', NEW r \in Requesters, NEW p \in Providers, NEW v \in Values,
           NEW expiry \in Expiries, NEW currency \in Currencies, NEW input \in EscrowInputs,
           Propose(r, p, v, expiry, currency, input)
    PROVE  \E c \in ContractIds : Kept(c)
<1> DEFINE stake == StakeRequired(v, agents[p].trust_score)
           expires == IF expiry > 0 THEN now + expiry ELSE 0
           terms == Terms(r, p, v, input, currency)
           k1 == [terms EXCEPT !.status = "Proposed"]
           k2 == [k1 EXCEPT !.provider_stake_required = stake]
           k3 == [k2 EXCEPT !.proposal_expires_at = expires]
<1>1. terms \in Contract /\ terms.provider_stake = 0
    <2>1. terms.provider_stake = 0
        BY DEF Terms, NoContract
    <2> QED
        BY <2>1, TermsType DEF PromiseInv, EscrowInv
<1>2. stake \in Nat /\ expires \in Nat
    <2>1. agents[p].trust_score \in TrustScores
        BY PartiesAssumption DEF PromiseInv, EscrowInv, TypeOK, AgentIdentity
    <2>2. expires \in Nat
        <3>1. now \in Nat /\ expiry \in Nat
            BY BoundsAssumption, InputsNat DEF PromiseInv, EscrowInv, TypeOK
        <3> QED
            BY <3>1
    <2> QED
        BY <2>1, <2>2, StakeRequiredNat
<1>3. /\ NewContract(k3, currency, 0, EscrowDeposit(k3))
      /\ disputes' = disputes /\ astray' = astray
    BY DEF Propose
<1> HIDE DEF terms, stake, expires
<1>4. k1 \in Contract /\ k1.status = "Proposed" /\ k1.provider_stake = 0
    BY <1>1, ContractUpdate DEF ContractStatus, Contract
<1> HIDE DEF k1
<1>5. k2 \in Contract
    BY <1>2, <1>4, ContractUpdate
<1>6. k2.status = "Proposed" /\ k2.provider_stake = 0
    BY <1>4 DEF Contract
<1> HIDE DEF k2
<1>7. k3 \in Contract
    BY <1>2, <1>5, ContractUpdate
<1>8. k3.status = "Proposed" /\ k3.provider_stake = 0
    BY <1>5, <1>6 DEF Contract
<1> HIDE DEF k3
<1> QED
    BY <1>3, <1>7, <1>8, OpeningKept

(* The provider of a proposal adds its stake.                              *)
LEMMA AcceptProposalKept ==
    ASSUME PromiseInv, EscrowInv', NEW c \in ContractIds, AcceptProposal(c)
    PROVE  Kept(c)
<1> DEFINE k == contracts[c]
           stake == k.provider_stake_required
           cur == k.currency
<1>1. /\ contracts' = [contracts EXCEPT ![c].provider_stake = stake,
                                        ![c].status = "Active", ![c].created_at = now]
      /\ escrow' = [escrow EXCEPT ![cur][c] = @ + stake]
      /\ net' = [net EXCEPT ![c].provider = @ - stake]
      /\ disputes' = disputes /\ astray' = astray
      /\ k.status = "Proposed"
    BY DEF AcceptProposal
<1>2. k \in Contract /\ stake \in Nat /\ cur \in Currencies /\ EscrowDeposit(k) \in Nat
    BY ContractFacts DEF PromiseInv, EscrowInv
<1> HIDE DEF stake, cur
<1>3. /\ contracts'[c].status = "Active"
      /\ contracts'[c].provider_stake = stake
      /\ contracts'[c].value = k.value
      /\ contracts'[c].escrow_factor_bps = k.escrow_factor_bps
      /\ \A x \in ContractIds \ {c} : contracts'[x] = contracts[x]
    BY <1>1, <1>2 DEF PromiseInv, EscrowInv, TypeOK, Contract
<1>4. \A x \in ContractIds \ {c} : \A m \in Currencies : escrow'[m][x] = escrow[m][x]
    BY <1>1, <1>2 DEF PromiseInv, EscrowInv, TypeOK
<1>5. net[c] \in Flow
    BY DEF PromiseInv, EscrowInv, TypeOK
<1>6. /\ net'[c].provider = net[c].provider - stake
      /\ net'[c].requester = net[c].requester
      /\ net'[c].treasury = net[c].treasury
      /\ net'[c].insurance = net[c].insurance
      /\ net'[c].burn = net[c].burn
      /\ \A x \in ContractIds \ {c} : net'[x] = net[x]
    BY <1>1, <1>5 DEF PromiseInv, EscrowInv, TypeOK, Flow
<1>7. \A x \in ContractIds \ {c} : Unmoved(x) /\ Sound(x)'
    BY <1>1, <1>3, <1>4, <1>6, ElsewhereKept DEF Untouched
<1>8. PendingAppeal(c)' = PendingAppeal(c)
    BY <1>1, Funds, FundsNext DEF PromiseInv
<1>9. c \notin astray => Held(c)' = Held(c) + stake /\ Held(c) \in Nat
    <2>1. k.provider_stake = 0
        BY <1>1 DEF PromiseInv, EscrowInv, Consistent
    <2>2. Escrowed(k) = EscrowDeposit(k) /\ Escrowed(contracts'[c]) = EscrowDeposit(k) + stake
        BY <1>1, <1>2, <1>3, <2>1 DEF Escrowed, EscrowDeposit, LiveStatuses
    <2> DEFINE before == Held(c)
               after == Held(c)'
               appeal == PendingAppeal(c)
               deposit == EscrowDeposit(k)
    <2>3. ASSUME c \notin astray
          PROVE  /\ before = appeal + deposit /\ before \in Nat /\ appeal \in Nat
                 /\ after = appeal + (deposit + stake)
        BY <1>1, <1>8, <2>2, <2>3, Funds, FundsNext DEF PromiseInv
    <2> HIDE DEF before, after, appeal, deposit
    <2>4. c \notin astray => after = before + stake /\ before \in Nat
        <3>1. deposit \in Nat
            BY <1>2 DEF deposit
        <3> QED
            BY <1>2, <2>3, <3>1
    <2> QED
        BY <2>4 DEF before, after
<1>10. Sound(c)'
    <2>1. c \notin astray => Held(c) + Total(net[c]) = 0
        BY DEF PromiseInv, Sound
    <2>2. c \notin astray => Held(c)' + Total(net'[c]) = 0
        BY <1>2, <1>5, <1>6, <1>9, <2>1 DEF Total, Flow
    <2> QED
        BY <1>1, <1>3, <2>2 DEF Sound
<1>11. ASSUME Regular(c)' PROVE Regular(c) /\ Promise!Hire(c)
    <2> Regular(c)
        BY <1>1, <1>3, <1>11, RegularBefore
    <2> Regular(c)'
        BY <1>11
    <2>1. Stage(c) = "offered" /\ Stage(c)' = "working"
        BY <1>1, <1>3, StageOfStatus, StageOfStatusNext DEF LiveStatuses
    <2>2. net'[c].provider <= net[c].provider
        BY <1>2, <1>5, <1>6 DEF Flow
    <2> QED
        BY <1>6, <1>8, <2>1, <2>2
           DEF Promise!Hire, Promise!Becomes, Promise!NoAppealMoves, Promise!NoFeeIsTaken, Accounted
<1> QED
    BY <1>7, <1>10, <1>11 DEF Kept, Promise!Step

(* A party adds the stake of its appeal.                                   *)
LEMMA EscalateToAppealKept ==
    ASSUME PromiseInv, EscrowInv', NEW c \in ContractIds, NEW by \in Agents,
           EscalateToAppeal(c, by)
    PROVE  Kept(c)
<1> DEFINE k == contracts[c]
           stake == k.value \div 2
           d2 == Appealed(disputes[c], by, stake)
           payer == IF by = k.provider THEN "provider" ELSE "requester"
<1>1. /\ disputes' = [disputes EXCEPT ![c] = d2]
      /\ contracts' = [contracts EXCEPT ![c].dispute_level = 4]
      /\ escrow' = [escrow EXCEPT !["Sworn"][c] = @ + stake]
      /\ net' = [net EXCEPT ![c] = Charge(@, payer, stake)] /\ astray' = astray
      /\ disputes[c].level = "PublicJury"
      /\ disputes[c].status # "None"
      /\ stake > 0
    BY DEF EscalateToAppeal
<1>2. disputes[c] \in Dispute /\ k \in Contract /\ stake \in Nat
    <2>1. disputes[c] \in Dispute /\ k \in Contract /\ k.value \in Nat
        BY DisputeFacts, ContractFacts DEF PromiseInv, EscrowInv
    <2>2. stake \in Nat
        BY <2>1
    <2> QED
        BY <2>1, <2>2
<1> HIDE DEF stake
<1>3. d2.status = "Open" /\ d2.level = "Appeal" /\ d2.appeal_stake = stake
    BY <1>2 DEF Appealed, Dispute
<1> HIDE DEF d2
<1>4. disputes'[c] = d2 /\ \A x \in ContractIds \ {c} : disputes'[x] = disputes[x]
    BY <1>1 DEF PromiseInv, EscrowInv, TypeOK
<1>5. /\ contracts'[c].status = k.status
      /\ contracts'[c].value = k.value
      /\ contracts'[c].escrow_factor_bps = k.escrow_factor_bps
      /\ contracts'[c].provider_stake = k.provider_stake
      /\ \A x \in ContractIds \ {c} : contracts'[x] = contracts[x]
    BY <1>1, <1>2 DEF PromiseInv, EscrowInv, TypeOK, Contract
<1>6. \A x \in ContractIds \ {c} : \A cur \in Currencies : escrow'[cur][x] = escrow[cur][x]
    BY <1>1 DEF PromiseInv, EscrowInv, TypeOK, Currencies
<1>7. net[c] \in Flow
    BY DEF PromiseInv, EscrowInv, TypeOK
<1>8. /\ net'[c] = Charge(net[c], payer, stake)
      /\ \A x \in ContractIds \ {c} : net'[x] = net[x]
    BY <1>1 DEF PromiseInv, EscrowInv, TypeOK
<1>9. /\ \/ /\ net'[c].requester = net[c].requester - stake
            /\ net'[c].provider = net[c].provider
         \/ /\ net'[c].provider = net[c].provider - stake
            /\ net'[c].requester = net[c].requester
      /\ net'[c].treasury = net[c].treasury
      /\ net'[c].insurance = net[c].insurance
      /\ net'[c].burn = net[c].burn
    BY <1>7, <1>8 DEF Charge, Flow
<1>10. \A x \in ContractIds \ {c} : Unmoved(x) /\ Sound(x)'
    BY <1>1, <1>4, <1>5, <1>6, <1>8, ElsewhereKept DEF Untouched
<1>11. PendingAppeal(c) = 0 /\ PendingAppeal(c)' = stake
    <2>1. Pending(disputes[c]) = 0 /\ Pending(disputes'[c]) = stake
        BY <1>1, <1>2, <1>3, <1>4 DEF Pending, HasAppeal, ResolvedStatuses
    <2> QED
        BY <2>1, Funds, FundsNext DEF PromiseInv
<1>12. Escrowed(contracts'[c]) = Escrowed(k)
    BY <1>5 DEF Escrowed, EscrowDeposit
<1>13. c \notin astray =>
          /\ Held(c)' = Held(c) + stake /\ Held(c) \in Nat
          /\ Held(c)' - PendingAppeal(c)' = Held(c) - PendingAppeal(c)
    BY <1>1, <1>2, <1>11, <1>12, Funds, FundsNext DEF PromiseInv
<1>14. k.status # "None" /\ k.status # "Proposed"
    BY <1>1 DEF PromiseInv, EscrowInv, Consistent, Sound
<1>15. Sound(c)'
    <2>1. c \notin astray => Held(c) + Total(net[c]) = 0
        BY DEF PromiseInv, Sound
    <2>2. c \notin astray => Held(c)' + Total(net'[c]) = 0
        BY <1>2, <1>7, <1>9, <1>13, <2>1 DEF Total, Flow
    <2> QED
        BY <1>1, <1>5, <1>14, <2>2 DEF Sound
<1>16. ASSUME Regular(c)' PROVE Regular(c) /\ Promise!Appeal(c)
    <2> Regular(c) /\ Regular(c)' /\ c \notin astray
        BY <1>1, <1>5, <1>14, <1>16, RegularBefore DEF Regular
    <2>1. Stage(c) \in {"working", "closed"} /\ Stage(c)' = Stage(c)
        <3>1. k.status \in LiveStatuses \cup SettledStatuses
            BY <1>2, <1>14 DEF Contract, ContractStatus
        <3> QED
            BY <1>5, <3>1, StageOfStatus, StageOfStatusNext
    <2> QED
        BY <1>1, <1>9, <1>11, <1>13, <2>1 DEF Promise!Appeal, Promise!NoFeeIsTaken, Accounted
<1> QED
    BY <1>10, <1>15, <1>16 DEF Kept, Promise!Step

LEMMA CancelProposalKept ==
    ASSUME PromiseInv, EscrowInv', NEW c \in ContractIds, CancelProposal(c)
    PROVE  Kept(c)
<1> DEFINE k == contracts[c]
           pay == PayTo("requester", EscrowDeposit(k))
<1>1. /\ k.status = "Proposed"
      /\ Disburse(c, k.currency, 0, pay, NoPayment)
      /\ contracts' = [contracts EXCEPT ![c].status = "Cancelled", ![c].resolved_at = now]
      /\ disputes' = disputes
    BY DirectDisburses DEF CancelProposal
<1>2. pay \in Payment
    BY ContractFacts, PayToWhole DEF PromiseInv, EscrowInv
<1> HIDE DEF pay
<1>3. PendingAppeal(c)' = PendingAppeal(c)
    BY <1>1, Funds, FundsNext DEF PromiseInv
<1> QED
    BY <1>1, <1>2, <1>3, OneClosingKept DEF SettledStatuses

(* The provider's payment leaves the requester nothing.                    *)
LEMMA PayoutNothingBack ==
    ASSUME NEW k \in Contract, NEW base \in Nat, config \in ProtocolConfig
    PROVE  Payout(k, base) \in Payment /\ Payout(k, base).requester = 0
<1> DEFINE fee == PartOf(base, config.protocol_fee_bps[k.currency])
           split == FeeSplit(fee, k.currency)
           earned == Monus(base, fee) + k.provider_stake
<1>1. split.requester = 0
    <2>1. CASE k.currency = "Sol"
        BY <2>1 DEF FeeSplit, NoPayment
    <2>2. CASE k.currency # "Sol"
        BY <2>2 DEF FeeSplit, NoPayment
    <2> QED
        BY <2>1, <2>2
<1>2. Payout(k, base) = [split EXCEPT !.provider = earned]
    BY DEF Payout
<1> HIDE DEF split, earned
<1>3. Payout(k, base).requester = split.requester
    BY <1>2
<1> QED
    BY <1>1, <1>3, PayoutWhole

LEMMA AcceptKept ==
    ASSUME PromiseInv, EscrowInv', NEW c \in ContractIds, Accept(c)
    PROVE  Kept(c)
<1> DEFINE k == contracts[c]
           topUp == TopUp(k)
           pay == Payout(k, k.value)
<1>1. /\ k.status = "Delivered"
      /\ Disburse(c, k.currency, topUp, pay, NoPayment)
      /\ contracts' = [contracts EXCEPT ![c].status = "Completed", ![c].resolved_at = now]
      /\ disputes' = disputes
    BY DEF Accept, AcceptAccounts
<1>2. topUp \in Nat /\ pay \in Payment /\ pay.requester = 0
    BY ContractFacts, PayoutNothingBack DEF PromiseInv, EscrowInv, TypeOK
<1> HIDE DEF topUp, pay
<1>3. PendingAppeal(c)' = PendingAppeal(c)
    BY <1>1, Funds, FundsNext DEF PromiseInv
<1> QED
    BY <1>1, <1>2, <1>3, OneClosingKept DEF SettledStatuses, LiveStatuses

LEMMA TimeoutKept ==
    ASSUME PromiseInv, EscrowInv', NEW c \in ContractIds, Timeout(c)
    PROVE  Kept(c)
<1> DEFINE k == contracts[c]
           pay == Refund(k)
<1>1. /\ k.status = "Active"
      /\ Disburse(c, k.currency, 0, pay, NoPayment)
      /\ contracts' = [contracts EXCEPT ![c].status = "ResolvedRequester",
                                        ![c].resolved_at = now]
      /\ disputes' = disputes
    BY DEF Timeout, TimeoutAccounts
<1>2. pay \in Payment
    BY ContractFacts DEF PromiseInv, EscrowInv
<1> HIDE DEF pay
<1>3. PendingAppeal(c)' = PendingAppeal(c)
    BY <1>1, Funds, FundsNext DEF PromiseInv
<1> QED
    BY <1>1, <1>2, <1>3, OneClosingKept DEF SettledStatuses, LiveStatuses

LEMMA TimeoutDeliveryKept ==
    ASSUME PromiseInv, EscrowInv', NEW c \in ContractIds, TimeoutDelivery(c)
    PROVE  Kept(c)
<1> DEFINE k == contracts[c]
           pay == IgnoredPayout(k)
<1>1. /\ k.status = "Delivered"
      /\ Disburse(c, k.currency, 0, pay, NoPayment)
      /\ contracts' = [contracts EXCEPT ![c].status = "Completed", ![c].resolved_at = now]
      /\ disputes' = disputes
    BY DEF TimeoutDelivery, TimeoutDeliveryAccounts
<1>2. pay \in Payment
    BY ContractFacts DEF PromiseInv, EscrowInv
<1> HIDE DEF pay
<1>3. PendingAppeal(c)' = PendingAppeal(c)
    BY <1>1, Funds, FundsNext DEF PromiseInv
<1> QED
    BY <1>1, <1>2, <1>3, OneClosingKept DEF SettledStatuses, LiveStatuses

(* No appeal is pending at L1 and L2, so none moves.                       *)
LEMMA AcceptCorrectionKept ==
    ASSUME PromiseInv, EscrowInv', NEW c \in ContractIds, AcceptCorrection(c)
    PROVE  Kept(c)
<1> DEFINE k == contracts[c]
           topUp == TopUp(k)
           pay == CorrectionPayout(k)
<1>1. /\ k.status = "Delivered"
      /\ disputes[c].level \in {"DirectCorrection", "PrivateRounds"}
      /\ Disburse(c, k.currency, topUp, pay, NoPayment)
      /\ disputes' = [disputes EXCEPT ![c].status = "ResolvedProvider"]
      /\ contracts' = [contracts EXCEPT ![c].status = "Completed", ![c].resolved_at = now]
    BY DEF AcceptCorrection
<1>2. topUp \in Nat /\ pay \in Payment /\ pay.requester = 0
    BY ContractFacts, PayoutNothingBack DEF PromiseInv, EscrowInv, TypeOK, CorrectionPayout
<1> HIDE DEF topUp, pay
<1>3. disputes[c] \in Dispute
    BY DisputeFacts DEF PromiseInv, EscrowInv
<1>4. /\ disputes'[c].level = disputes[c].level
      /\ \A x \in ContractIds \ {c} : disputes'[x] = disputes[x]
    BY <1>1, <1>3 DEF PromiseInv, EscrowInv, TypeOK, Dispute
<1>5. PendingAppeal(c)' = PendingAppeal(c)
    <2>1. Pending(disputes[c]) = 0 /\ Pending(disputes'[c]) = 0
        BY <1>1, <1>4 DEF Pending, HasAppeal
    <2> QED
        BY <2>1, Funds, FundsNext DEF PromiseInv
<1> QED
    BY <1>1, <1>2, <1>4, <1>5, OneClosingKept DEF SettledStatuses, LiveStatuses

(* A verdict closes the contract and the appeal.                           *)
LEMMA ResolveKept ==
    ASSUME PromiseInv, EscrowInv', NEW c \in ContractIds,
           NEW verdict \in BOOLEAN, Resolve(c, verdict)
    PROVE  Kept(c)
<1> DEFINE k == contracts[c]
           d == disputes[c]
           wins == ProviderWins(d, verdict)
           outcome == IF wins THEN "ResolvedProvider" ELSE "ResolvedRequester"
           first == DisputePayment(k, wins)
           second == AppealPayment(k, d, wins)
<1>1. wins \in BOOLEAN
    BY WinsBoolean DEF PromiseInv, EscrowInv
<1>2. first \in Payment /\ second \in Payment
    <2> HIDE DEF wins
    <2> QED
        BY <1>1, VerdictTypes DEF PromiseInv, EscrowInv
<1>3. /\ Disburse(c, k.currency, 0, first, second)
      /\ disputes' = [disputes EXCEPT ![c].status = outcome]
      /\ contracts' = [contracts EXCEPT ![c].status = outcome, ![c].resolved_at = now]
      /\ d.status # "None"
    BY DEF Resolve, ResolveAccounts
<1>4. outcome \in SettledStatuses /\ outcome \in ResolvedStatuses
    BY DEF SettledStatuses, ResolvedStatuses
<1>5. ASSUME Regular(c)' PROVE k.status \in LiveStatuses
    <2>1. ~IsSettled(c)
        BY <1>5, ResolveUnsettled DEF PromiseInv
    <2>2. k.status # "None" /\ k.status # "Proposed"
        BY <1>3 DEF PromiseInv, EscrowInv, Consistent, Sound
    <2>3. k.status \in ContractStatus
        BY ContractFacts DEF PromiseInv, EscrowInv, Contract
    <2> QED
        BY <2>1, <2>2, <2>3 DEF IsSettled, ContractStatus
<1> HIDE DEF first, second, outcome
<1>6. d \in Dispute
    BY DisputeFacts DEF PromiseInv, EscrowInv
<1>7. /\ disputes'[c].status = outcome
      /\ \A x \in ContractIds \ {c} : disputes'[x] = disputes[x]
    BY <1>3, <1>6 DEF PromiseInv, EscrowInv, TypeOK, Dispute
<1>8. PendingAppeal(c)' = 0
    <2>1. Pending(disputes'[c]) = 0
        BY <1>4, <1>7 DEF Pending
    <2> QED
        BY <2>1, FundsNext
<1> QED
    <2>1. outcome \in SettledStatuses /\ 0 \in Nat /\ first \in Payment /\ second \in Payment
        BY <1>2, <1>4
    <2>2. \A x \in ContractIds \ {c} : disputes'[x] = disputes[x]
        BY <1>7
    <2> HIDE DEF wins, d
    <2> QED
        BY <1>3, <1>5, <1>8, <2>1, <2>2, ClosingKept

-----------------------------------------------------------------------------
(* Instructions that move no money.                                        *)
LEMMA LifecycleQuietKept ==
    ASSUME PromiseInv, EscrowInv', NEW c \in ContractIds, Deliver(c) \/ RejectDelivery(c)
    PROVE  Kept(c)
<1>1. contracts[c] \in Contract
    BY ContractFacts DEF PromiseInv, EscrowInv
<1>2. contracts[c].status \in LiveStatuses
    BY DEF Deliver, RejectDelivery, LiveStatuses
<1>3. /\ contracts'[c].status \in LiveStatuses
      /\ contracts'[c].value = contracts[c].value
      /\ contracts'[c].escrow_factor_bps = contracts[c].escrow_factor_bps
      /\ contracts'[c].provider_stake = contracts[c].provider_stake
      /\ \A x \in ContractIds \ {c} : contracts'[x] = contracts[x]
    <2>1. CASE Deliver(c)
        <3>1. contracts' = [contracts EXCEPT ![c].status = "Delivered"]
            BY <2>1 DEF Deliver
        <3> QED
            BY <1>1, <3>1 DEF PromiseInv, EscrowInv, TypeOK, Contract, LiveStatuses
    <2>2. CASE RejectDelivery(c)
        <3> DEFINE used == contracts[c].corrections_used + 1
                   atLimit == used >= contracts[c].max_corrections_contract
                   status == StatusAfterRejection(atLimit)
        <3>1. contracts' = [contracts EXCEPT ![c].corrections_used = used,
                                             ![c].status = status,
                                             ![c].dispute_level = IF atLimit THEN 1 ELSE @]
            BY <2>2 DEF RejectDelivery
        <3>2. status \in LiveStatuses
            BY DEF StatusAfterRejection, LiveStatuses
        <3> HIDE DEF used, atLimit, status
        <3> QED
            BY <1>1, <3>1, <3>2 DEF PromiseInv, EscrowInv, TypeOK, Contract
    <2> QED
        BY <2>1, <2>2
<1>4. disputes' = disputes /\ escrow' = escrow /\ net' = net /\ astray' = astray
    BY DEF Deliver, RejectDelivery
<1> QED
    BY <1>2, <1>3, <1>4, QuietKept DEF SameTerms

(* A step on an open dispute, which a proposal does not have.              *)
LEMMA DisputeQuietKept ==
    ASSUME PromiseInv, EscrowInv', NEW c \in ContractIds,
           \/ Initiate(c) \/ Respond(c) \/ Escalate(c) \/ Redeliver(c)
           \/ \E j \in Jurors, forProvider \in BOOLEAN : Vote(j, c, forProvider)
    PROVE  Kept(c)
<1>1. /\ contracts[c] \in Contract
      /\ contracts \in [ContractIds -> Contract] /\ disputes \in [ContractIds -> Dispute]
    BY ContractFacts DEF PromiseInv, EscrowInv, TypeOK
<1>2. contracts[c].status # "Proposed"
    <2>1. CASE disputes[c].status = "None"
        BY <2>1 DEF Initiate, Respond, AwaitsResponse, Escalate, Redeliver, RedeliverAccounts,
                    Vote, VoteAccounts
    <2>2. CASE disputes[c].status # "None"
        BY <2>2 DEF PromiseInv, Sound
    <2> QED
        BY <2>1, <2>2
<1>3. SameTerms(c) /\ \A x \in ContractIds \ {c} : contracts'[x] = contracts[x]
    <2>1. CASE Initiate(c)
        BY <1>1, <2>1 DEF Initiate, SameTerms, Contract, LiveStatuses
    <2>2. CASE Escalate(c)
        <3> DEFINE level == IF disputes[c].level = "PrivateRounds" THEN 3 ELSE 2
        <3>1. contracts' = [contracts EXCEPT ![c].dispute_level = level]
            BY <2>2 DEF Escalate
        <3> HIDE DEF level
        <3> QED
            BY <1>1, <3>1 DEF SameTerms, Contract
    <2>3. CASE Redeliver(c)
        <3> DEFINE exhausted == disputes[c].corrections_count + 1 >= config.max_corrections
                   level == IF exhausted THEN 2 ELSE contracts[c].dispute_level
        <3>1. /\ contracts' = [contracts EXCEPT
                     ![c].status = "Delivered",
                     ![c].dispute_level = IF exhausted THEN 2 ELSE @]
              /\ contracts[c].status = "Disputed"
            BY <2>3 DEF Redeliver, RedeliverAccounts
        <3> HIDE DEF exhausted
        <3> QED
            BY <1>1, <3>1 DEF SameTerms, Contract, LiveStatuses
    <2>4. CASE Respond(c) \/ \E j \in Jurors, forProvider \in BOOLEAN : Vote(j, c, forProvider)
        <3>1. contracts' = contracts
            BY <2>4 DEF Respond, Vote
        <3> QED
            BY <3>1 DEF SameTerms
    <2> QED
        BY <2>1, <2>2, <2>3, <2>4
<1>4. \A x \in ContractIds \ {c} : disputes'[x] = disputes[x]
    <2>1. CASE Initiate(c)
        BY <1>1, <2>1 DEF Initiate
    <2>2. CASE Respond(c)
        BY <1>1, <2>2 DEF Respond
    <2>3. CASE Escalate(c)
        BY <1>1, <2>3 DEF Escalate
    <2>4. CASE Redeliver(c)
        <3> DEFINE exhausted == disputes[c].corrections_count + 1 >= config.max_corrections
                   deadline == now + (IF exhausted THEN PrivateWindow ELSE DirectWindow)
                   count == disputes[c].corrections_count + 1
        <3>1. disputes' = [disputes EXCEPT
                     ![c].corrections_count = count,
                     ![c].level = IF exhausted THEN "PrivateRounds" ELSE @,
                     ![c].status = "Open",
                     ![c].deadline = deadline]
            BY <2>4 DEF Redeliver
        <3> HIDE DEF exhausted, deadline, count
        <3> QED
            BY <1>1, <3>1
    <2>5. ASSUME NEW j \in Jurors, NEW forProvider \in BOOLEAN, Vote(j, c, forProvider)
          PROVE  \A x \in ContractIds \ {c} : disputes'[x] = disputes[x]
        BY <1>1, <2>5 DEF Vote
    <2> QED
        BY <2>1, <2>2, <2>3, <2>4, <2>5
<1>5. escrow' = escrow /\ net' = net /\ astray' = astray
    BY DEF Initiate, Respond, Escalate, Redeliver, Vote
<1> QED
    BY <1>2, <1>3, <1>4, <1>5, QuietKept

-----------------------------------------------------------------------------
(* Whatever runs on a contract or its dispute keeps the promise.           *)
LEMMA ActionKept ==
    ASSUME PromiseInv, EscrowInv', NEW c \in ContractIds,
           LifecycleOn(c) \/ DisputeOn(c)
    PROVE  Kept(c)
<1>1. CASE LifecycleOn(c)
    BY <1>1, AcceptProposalKept, CancelProposalKept, LifecycleQuietKept, AcceptKept,
       TimeoutKept, TimeoutDeliveryKept DEF LifecycleOn
<1>2. CASE DisputeOn(c)
    BY <1>2, DisputeQuietKept, EscalateToAppealKept, ResolveKept, AcceptCorrectionKept
       DEF DisputeOn
<1> QED
    BY <1>1, <1>2

(* Steps that touch no contract.                                           *)
LEMMA OtherKept ==
    ASSUME PromiseInv, UNCHANGED <<contracts, disputes, escrow, net, astray>>
    PROVE  \A x \in ContractIds : Unmoved(x) /\ Sound(x)'
BY ElsewhereKept DEF Untouched

(* A gift makes its contract void.                                         *)
LEMMA GiftKept ==
    ASSUME PromiseInv, EscrowInv', NEW c \in ContractIds, NEW currency \in Currencies,
           NEW amount \in Gifts, Gift(c, currency, amount)
    PROVE  Kept(c)
<1>1. /\ contracts' = contracts /\ disputes' = disputes /\ net' = net
      /\ astray' = astray \cup {c}
    BY DEF Gift
<1>2. \A x \in ContractIds \ {c} : Unmoved(x) /\ Sound(x)'
    BY <1>1, GiftHeld, ElsewhereKept DEF PromiseInv, EscrowInv, Untouched
<1>3. Sound(c)' /\ ~Regular(c)'
    BY <1>1 DEF PromiseInv, Sound, Regular
<1> QED
    BY <1>2, <1>3 DEF Kept

LEMMA NextKept ==
    ASSUME PromiseInv, EscrowInv', Next
    PROVE  \/ \E c \in ContractIds : Kept(c)
           \/ \A x \in ContractIds : Unmoved(x) /\ Sound(x)'
<1>1. CASE \E r \in Requesters, p \in Providers, v \in Values, i \in EscrowInputs,
              cur \in CreateCurrencies : Create(r, p, v, i, cur)
    BY <1>1, InputsAssumption, CreateKept
<1>2. CASE \E r \in Requesters, p \in Providers, v \in Values, x \in Expiries,
              cur \in ProposeCurrencies, i \in EscrowInputs : Propose(r, p, v, x, cur, i)
    BY <1>2, InputsAssumption, ProposeKept
<1>3. CASE \E c \in ContractIds : LifecycleOn(c) \/ DisputeOn(c)
    BY <1>3, ActionKept
<1>4. CASE IdentityNext \/ Tick \/ \E settings \in Configs : UpdateConfig(settings)
    <2>1. UNCHANGED <<contracts, disputes, escrow, net, astray>>
        BY <1>4 DEF IdentityNext, IdentityOn, CalculateTrustScore, Hibernate, Wake,
                    ExpireHibernation, ForceMature, ChangeAgent, Tick, UpdateConfig
    <2> QED
        BY <2>1, OtherKept
<1>5. CASE \E c \in ContractIds, currency \in Currencies, amount \in Gifts :
              Gift(c, currency, amount)
    BY <1>5, GiftKept
<1> QED
    BY <1>1, <1>2, <1>3, <1>4, <1>5 DEF Next, LifecycleNext, DisputeNext

LEMMA RegularNotVoid ==
    ASSUME EscrowInv, NEW c \in ContractIds, Regular(c)
    PROVE  Stage(c) # "void"
<1>1. contracts[c].status \in {"None", "Proposed"} \cup LiveStatuses \cup SettledStatuses
    BY ContractFacts DEF EscrowInv, Contract, ContractStatus
<1> QED
    BY <1>1, StageOfStatus

(* Every step is a step of the promise, or moves nothing it speaks of.     *)
LEMMA NextPromise ==
    ASSUME FeesBounded, PromiseInv, Next
    PROVE  PromiseInv' /\ [Promise!Next]_(Promise!accounts)
<1>1. EscrowInv'
    BY NextEscrow DEF PromiseInv
<1>2. CASE \E c \in ContractIds : Kept(c)
    <2>1. PICK c \in ContractIds : Kept(c)
        BY <1>2
    <2>2. PromiseInv'
        BY <1>1, <2>1 DEF PromiseInv, Kept
    <2>3. \A x \in ContractIds \ {c} : Promise!Account(x)' = Promise!Account(x)
        BY <2>1 DEF Kept, Unmoved, Promise!Account, Accounted
    <2>4. CASE Regular(c)' /\ Promise!Step(c)
        <3>1. Promise!Conserved(c)'
            <4>1. Held(c)' + Total(net'[c]) = 0 /\ net'[c] \in Flow
                BY <1>1, <2>1, <2>4 DEF Kept, Sound, Regular, EscrowInv, TypeOK
            <4>2. Held(c)' \in Nat /\ PendingAppeal(c)' \in Nat
                BY <1>1, FundsNext
            <4> QED
                BY <2>4, <4>1, <4>2 DEF Promise!Conserved, Accounted, Total, Flow
        <3>2. Promise!Next
            BY <2>3, <2>4, <3>1 DEF Promise!Next
        <3> QED
            BY <2>2, <3>2
    <2>5. CASE Regular(c) /\ ~Regular(c)'
        <3>1. Promise!Void(c)
            <4>1. Stage(c) # "void" /\ Stage(c)' = "void"
                BY <2>5, RegularNotVoid DEF PromiseInv, Stage
            <4> QED
                BY <2>5, <4>1
                   DEF Promise!Void, Promise!Becomes, Promise!Account, Accounted
        <3>2. Promise!Conserved(c)'
            BY <2>5 DEF Promise!Conserved, Accounted
        <3>3. Promise!Next
            BY <2>3, <3>1, <3>2 DEF Promise!Next, Promise!Step
        <3> QED
            BY <2>2, <3>3
    <2>6. CASE ~Regular(c) /\ ~Regular(c)'
        <3>1. Promise!Account(c)' = Promise!Account(c)
            BY <2>6 DEF Promise!Account, Accounted, Stage
        <3>2. UNCHANGED Promise!accounts
            BY <2>3, <3>1 DEF Promise!Account, Promise!accounts
        <3> QED
            BY <2>2, <3>2
    <2>7. CASE Unmoved(c)
        <3>1. \A x \in ContractIds : Unmoved(x)
            BY <2>1, <2>7 DEF Kept
        <3>2. UNCHANGED Promise!accounts
            BY <3>1 DEF Unmoved, Promise!accounts, Accounted
        <3> QED
            BY <2>2, <3>2
    <2> QED
        BY <2>1, <2>4, <2>5, <2>6, <2>7 DEF Kept
<1>3. CASE \A x \in ContractIds : Unmoved(x) /\ Sound(x)'
    <2>1. UNCHANGED Promise!accounts
        BY <1>3 DEF Unmoved, Promise!accounts, Accounted
    <2>2. PromiseInv'
        BY <1>1, <1>3 DEF PromiseInv
    <2> QED
        BY <2>1, <2>2
<1> QED
    BY <1>1, <1>2, <1>3, NextKept

LEMMA StutterPromise ==
    ASSUME PromiseInv, UNCHANGED vars
    PROVE  PromiseInv' /\ [Promise!Next]_(Promise!accounts)
<1>1. EscrowInv'
    BY StutterEscrow DEF PromiseInv
<1>2. \A x \in ContractIds : Unmoved(x) /\ Sound(x)'
    BY OtherKept DEF vars
<1>3. UNCHANGED Promise!accounts
    BY <1>2 DEF Unmoved, Promise!accounts, Accounted
<1> QED
    BY <1>1, <1>2, <1>3 DEF PromiseInv

LEMMA InitPromise ==
    ASSUME Init
    PROVE  PromiseInv /\ Promise!Init
<1>1. EscrowInv
    BY InitEscrow
<1>2. \A c \in ContractIds :
          /\ contracts[c] = NoContract /\ disputes[c] = NoDispute /\ net[c] = NoPayment
          /\ escrow["Sworn"][c] = 0 /\ escrow["Sol"][c] = 0
          /\ Regular(c)
    BY DEF Init, Currencies, Regular, NoContract
<1>3. \A c \in ContractIds : Held(c) = 0 /\ Stage(c) = "none" /\ PendingAppeal(c) = 0
    <2> SUFFICES ASSUME NEW c \in ContractIds
                 PROVE  Held(c) = 0 /\ Stage(c) = "none" /\ PendingAppeal(c) = 0
        OBVIOUS
    <2>1. contracts[c].status = "None" /\ ~HasAppeal(disputes[c])
        BY <1>2 DEF NoContract, NoDispute, HasAppeal
    <2> QED
        BY <1>2, <2>1, StageOfStatus DEF Held, PendingAppeal
<1>4. Total(NoPayment) = 0 /\ NoDispute.status = "None"
    BY DEF Total, NoPayment, NoDispute
<1>5. PromiseInv
    BY <1>1, <1>2, <1>3, <1>4 DEF PromiseInv, Sound
<1>6. Promise!Init
    <2> SUFFICES ASSUME NEW c \in ContractIds
                 PROVE  Promise!Account(c) = <<"none", 0, 0, 0, 0, 0>>
        BY DEF Promise!Init
    <2>1. /\ net[c].requester = 0 /\ net[c].provider = 0
          /\ net[c].treasury + net[c].insurance + net[c].burn = 0
        BY <1>2 DEF NoPayment
    <2> QED
        BY <1>2, <1>3, <2>1 DEF Promise!Account, Accounted
<1> QED
    BY <1>5, <1>6

(* The protocol implements EscrowPromise: money enters a contract with the
   offer, the hire and the appeal, leaves it at once and exactly once, is
   conserved by every instruction, and none moves the money of two; until a
   settlement names another account than a payee's.                        *)
THEOREM PromiseHolds == ASSUME FeesBounded PROVE Spec => PromiseKept
<1>1. Init => PromiseInv /\ Promise!Init
    BY InitPromise
<1>2. PromiseInv /\ [Next]_vars => PromiseInv' /\ [Promise!Next]_(Promise!accounts)
    BY NextPromise, StutterPromise
<1> QED
    BY <1>1, <1>2, PTL DEF Spec, PromiseKept, Promise!Spec

-----------------------------------------------------------------------------
(* What a party has at stake in an appeal that is not decided. *)
AtStake(party, c) ==
    IF Depositor(contracts[c], disputes[c]) = party THEN PendingAppeal(c) ELSE 0

Whole(c) ==
    /\ contracts[c].status = "ResolvedRequester" => net[c].requester >= 0
    /\ contracts[c].status = "ResolvedProvider" => net[c].provider >= EscrowDeposit(contracts[c])
    /\ contracts[c].status = "Completed" => net[c].provider >= 0

Charged(c) ==
    /\ contracts[c].status = "Proposed" =>
           /\ net[c].requester = -EscrowDeposit(contracts[c])
           /\ net[c].provider = 0
    /\ IsLive(c) =>
           /\ net[c].requester = -EscrowDeposit(contracts[c]) - AtStake("requester", c)
           /\ net[c].provider = -contracts[c].provider_stake - AtStake("provider", c)
    /\ PendingAppeal(c) = 0 => Whole(c)

(* The inductive invariant. *)
WinnerInv == PromiseInv /\ DisputeInv /\ \A c \in ContractIds : Regular(c) => Charged(c)

-----------------------------------------------------------------------------
(* The four stages exclude one another.                                    *)
LEMMA StagesDisjoint ==
    /\ "None" \notin LiveStatuses /\ "Proposed" \notin LiveStatuses
    /\ \A s \in LiveStatuses : /\ s # "ResolvedRequester" /\ s # "ResolvedProvider"
                               /\ s # "Completed" /\ s # "Cancelled"
                               /\ s # "None" /\ s # "Proposed"
BY DEF LiveStatuses

LEMMA UnmovedAccounted ==
    ASSUME NEW x \in ContractIds, Regular(x) => Charged(x), Unmoved(x),
           contracts'[x] = contracts[x], disputes'[x] = disputes[x]
    PROVE  Regular(x)' => Charged(x)'
BY DEF Charged, Unmoved, AtStake, Whole, IsLive

(* A step that moves no money and keeps the terms and the depositor.       *)
LEMMA QuietAccounted ==
    ASSUME WinnerInv, EscrowInv', NEW c \in ContractIds, Regular(c), Regular(c)',
           escrow' = escrow, net' = net, SameTerms(c),
           contracts'[c].provider = contracts[c].provider,
           PendingAppeal(c) # 0 => disputes'[c].initiator = disputes[c].initiator
    PROVE  Charged(c)'
<1>1. Held(c)' = Held(c)
    BY DEF Held
<1>2. Escrowed(contracts'[c]) = Escrowed(contracts[c])
    BY StagesDisjoint DEF SameTerms, Escrowed, EscrowDeposit
<1>3. PendingAppeal(c)' = PendingAppeal(c)
    BY <1>1, <1>2, Funds, FundsNext DEF WinnerInv, PromiseInv, Regular
<1>4. \A party : AtStake(party, c)' = AtStake(party, c)
    BY <1>3 DEF AtStake, Depositor
<1>5. EscrowDeposit(contracts'[c]) = EscrowDeposit(contracts[c])
    BY DEF EscrowDeposit, SameTerms
<1>6. Charged(c)
    BY DEF WinnerInv
<1>7. CASE contracts'[c].status = contracts[c].status
    BY <1>3, <1>4, <1>5, <1>6, <1>7 DEF Charged, Whole, IsLive, SameTerms
<1>8. CASE contracts'[c].status \in LiveStatuses /\ contracts[c].status \in LiveStatuses
    BY <1>3, <1>4, <1>5, <1>6, <1>8, StagesDisjoint DEF Charged, Whole, IsLive, SameTerms
<1> QED
    BY <1>7, <1>8 DEF SameTerms

(* What a new contract puts in is all that its parties are out of pocket.  *)
LEMMA OpeningAccounted ==
    ASSUME WinnerInv, EscrowInv', NEW k \in Contract, NEW currency, NEW stake \in Nat,
           k.status \in {"Proposed", "Active"}, k.provider_stake = stake,
           k.status = "Proposed" => stake = 0,
           NewContract(k, currency, stake, EscrowDeposit(k)),
           disputes' = disputes, astray' = astray
    PROVE  \A x \in ContractIds : Regular(x)' => Charged(x)'
<1>1. PICK c \in ContractIds : c = total_contracts
    <2>1. total_contracts \in ContractIds
        BY BoundsAssumption DEF WinnerInv, DisputeInv, TypeOK, NewContract, ContractIds
    <2> QED
        BY <2>1
<1> DEFINE deposit == EscrowDeposit(k)
<1>2. deposit \in Nat
    BY DepositWithinValue
<1>3. contracts[c].status = "None" /\ disputes[c].status = "None"
    <2>1. c >= total_contracts
        BY <1>1 DEF ContractIds
    <2> QED
        BY <2>1 DEF WinnerInv, PromiseInv, EscrowInv, BlankExactly, Consistent
<1>4. net[c] = NoPayment
    BY <1>3 DEF WinnerInv, PromiseInv, Sound
<1>5. net' = [net EXCEPT ![c].requester = -deposit, ![c].provider = -stake]
    BY <1>1 DEF NewContract
<1>6. contracts'[c] = k /\ \A x \in ContractIds \ {c} : contracts'[x] = contracts[x]
    BY <1>1 DEF NewContract, WinnerInv, DisputeInv, TypeOK
<1> HIDE DEF deposit
<1>7. /\ net'[c].requester = -deposit /\ net'[c].provider = -stake
      /\ \A x \in ContractIds \ {c} : net'[x] = net[x]
    BY <1>4, <1>5 DEF WinnerInv, DisputeInv, TypeOK, NoPayment
<1>8. PendingAppeal(c)' = 0
    <2>1. ~HasAppeal(disputes[c])
        BY <1>3 DEF WinnerInv, PromiseInv, EscrowInv, Consistent
    <2> QED
        BY <2>1 DEF PendingAppeal
<1>9. Charged(c)'
    <2>1. \A party : AtStake(party, c)' = 0
        BY <1>8 DEF AtStake
    <2>2. CASE k.status = "Proposed"
        <3>1. net'[c].requester = -deposit /\ net'[c].provider = 0
            <4>1. stake = 0
                BY <2>2
            <4> DEFINE owed == -stake
            <4>2. owed \in Int /\ owed <= 0 /\ owed >= 0
                BY <4>1
            <4> HIDE DEF owed
            <4>3. owed = 0
                BY <4>2
            <4> QED
                BY <1>7, <4>3 DEF owed
        <3> QED
            BY <1>6, <2>2, <3>1, StagesDisjoint DEF Charged, Whole, IsLive, deposit
    <2>3. CASE k.status = "Active"
        <3>1. /\ net'[c].requester = -deposit - AtStake("requester", c)'
              /\ net'[c].provider = -stake - AtStake("provider", c)'
            BY <1>2, <1>7, <2>1
        <3> QED
            BY <1>6, <2>3, <3>1 DEF Charged, Whole, IsLive, deposit
    <2> QED
        BY <2>2, <2>3
<1>10. ASSUME NEW x \in ContractIds \ {c} PROVE Regular(x)' => Charged(x)'
    <2>1. Regular(x)' => Regular(x)
        BY <1>6 DEF Regular, EscrowDeposit
    <2>2. PendingAppeal(x)' = PendingAppeal(x)
        BY DEF PendingAppeal, IsDecided
    <2>3. Regular(x) => Charged(x)
        BY DEF WinnerInv
    <2> QED
        BY <1>6, <1>7, <2>1, <2>2, <2>3 DEF Charged, Whole, IsLive, AtStake
<1> QED
    BY <1>9, <1>10

(* What each payment leaves the party it is for.                           *)
LEMMA PaymentShares ==
    ASSUME NEW k \in Contract, config \in ProtocolConfig
    PROVE  /\ Refund(k).requester >= EscrowDeposit(k) /\ Refund(k).provider = 0
           /\ \A base \in Nat : Payout(k, base).provider >= k.provider_stake
<1>1. EscrowDeposit(k) \in Nat /\ k.provider_stake \in Nat
    BY DepositWithinValue DEF Contract
<1>2. Refund(k).requester >= EscrowDeposit(k) /\ Refund(k).provider = 0
    <2> DEFINE seized == Confiscation(k.provider_stake, "requester", k.currency)
               back == seized.requester + EscrowDeposit(k)
    <2>1. seized \in Payment
        BY <1>1, ConfiscationWhole
    <2>2. seized.provider = 0
        BY DEF Confiscation, PayTo, NoPayment
    <2>3. Refund(k) = [seized EXCEPT !.requester = back]
        BY DEF Refund
    <2>4. seized.requester \in Nat
        BY <2>1 DEF Payment
    <2>5. back >= EscrowDeposit(k)
        BY <1>1, <2>4
    <2> HIDE DEF seized, back
    <2> QED
        BY <2>1, <2>2, <2>3, <2>5 DEF Payment
<1>3. ASSUME NEW base \in Nat PROVE Payout(k, base).provider >= k.provider_stake
    <2> DEFINE fee == PartOf(base, config.protocol_fee_bps[k.currency])
               split == FeeSplit(fee, k.currency)
               earned == Monus(base, fee)
               paid == earned + k.provider_stake
    <2>1. fee \in Nat
        BY PartOfNat DEF ProtocolConfig, Contract
    <2>2. split \in Payment
        BY <2>1, FeeSplitWhole
    <2>3. earned \in Nat
        <3> HIDE DEF fee
        <3> QED
            BY <2>1 DEF Monus
    <2>4. Payout(k, base) = [split EXCEPT !.provider = paid]
        BY DEF Payout
    <2> HIDE DEF split, earned
    <2>5. paid >= k.provider_stake
        BY <1>1, <2>3
    <2> HIDE DEF paid
    <2> QED
        BY <2>2, <2>4, <2>5 DEF Payment
<1> QED
    BY <1>2, <1>3

(* A contract that a payment closes, without a verdict on its dispute.     *)
LEMMA ClosingAccounted ==
    ASSUME WinnerInv, EscrowInv', NEW c \in ContractIds, Regular(c), Regular(c)',
           NEW status \in SettledStatuses,
           NEW topUp \in Nat, NEW pay \in Payment,
           contracts[c].status = "Proposed" \/ contracts[c].status \in LiveStatuses,
           Disburse(c, contracts[c].currency, topUp, pay, NoPayment),
           contracts' = [contracts EXCEPT ![c].status = status, ![c].resolved_at = now],
           PendingAppeal(c)' = PendingAppeal(c),
           \/ status = "Cancelled"
           \/ status = "Completed" /\ pay.provider >= contracts[c].provider_stake
           \/ status = "ResolvedRequester" /\ topUp = 0
              /\ pay.requester >= EscrowDeposit(contracts[c])
    PROVE  Charged(c)'
<1>1. /\ TypeOK /\ contracts[c] \in Contract
      /\ EscrowDeposit(contracts[c]) \in Nat /\ contracts[c].provider_stake \in Nat
      /\ contracts[c].currency \in Currencies
    BY ContractFacts DEF WinnerInv, DisputeInv, Contract
<1>2. net[c] \in Flow /\ net'[c] = Exchange(net[c], topUp, pay)
    <2>1. NoPayment \in Payment /\ PlusFlow(pay, NoPayment) = pay /\ c \notin astray'
        BY PlusNothing DEF Regular
    <2> HIDE DEF NoPayment
    <2> QED
        BY <1>1, <2>1, DisburseGains
<1>3. /\ net'[c].requester = net[c].requester + pay.requester - topUp
      /\ net'[c].provider = net[c].provider + pay.provider
    BY <1>2, ExchangeGains
<1>4. contracts'[c].status = status
    BY <1>1 DEF TypeOK, Contract
<1>5. PendingAppeal(c) = 0 => /\ net[c].requester = -EscrowDeposit(contracts[c])
                              /\ net[c].provider = 0 \/ net[c].provider = -contracts[c].provider_stake
    <2> SUFFICES ASSUME PendingAppeal(c) = 0
                 PROVE  /\ net[c].requester = -EscrowDeposit(contracts[c])
                        /\ net[c].provider = 0 \/ net[c].provider = -contracts[c].provider_stake
        OBVIOUS
    <2>1. \A party : AtStake(party, c) = 0
        BY DEF AtStake
    <2>2. Charged(c)
        BY DEF WinnerInv
    <2>3. /\ -EscrowDeposit(contracts[c]) - 0 = -EscrowDeposit(contracts[c])
          /\ -contracts[c].provider_stake - 0 = -contracts[c].provider_stake
        BY <1>1
    <2> QED
        BY <2>1, <2>2, <2>3 DEF Charged, IsLive
<1>6. PendingAppeal(c)' = 0 => Whole(c)'
    <2> SUFFICES ASSUME PendingAppeal(c) = 0 PROVE Whole(c)'
        OBVIOUS
    <2>1. pay.provider \in Nat /\ pay.requester \in Nat
        BY DEF Payment
    <2>2. status = "Completed" => net'[c].provider >= 0
        BY <1>1, <1>3, <1>5, <2>1
    <2>3. status = "ResolvedRequester" => net'[c].requester >= 0
        BY <1>1, <1>3, <1>5, <2>1
    <2>4. status # "ResolvedProvider"
        OBVIOUS
    <2> QED
        BY <1>4, <2>2, <2>3, <2>4 DEF Whole
<1>7. status \notin LiveStatuses /\ status # "Proposed"
    BY StagesDisjoint DEF SettledStatuses
<1> QED
    BY <1>4, <1>6, <1>7 DEF Charged, IsLive

(* The provider of a proposal is out of pocket by the stake it adds.       *)
LEMMA AcceptProposalAccounted ==
    ASSUME WinnerInv, EscrowInv', NEW c \in ContractIds, Regular(c), Regular(c)',
           AcceptProposal(c)
    PROVE  Charged(c)'
<1> DEFINE k == contracts[c]
           stake == k.provider_stake_required
<1>1. /\ contracts' = [contracts EXCEPT ![c].provider_stake = stake,
                                        ![c].status = "Active", ![c].created_at = now]
      /\ net' = [net EXCEPT ![c].provider = @ - stake]
      /\ disputes' = disputes
      /\ k.status = "Proposed"
    BY DEF AcceptProposal
<1>2. /\ k \in Contract /\ stake \in Nat /\ EscrowDeposit(k) \in Nat
      /\ contracts \in [ContractIds -> Contract]
      /\ net \in [ContractIds -> Flow] /\ net[c] \in Flow
    BY ContractFacts DEF WinnerInv, DisputeInv, TypeOK
<1> HIDE DEF stake
<1>3. /\ contracts'[c].status = "Active"
      /\ contracts'[c].provider_stake = stake
      /\ EscrowDeposit(contracts'[c]) = EscrowDeposit(k)
    <2>1. /\ contracts'[c].status = "Active"
          /\ contracts'[c].provider_stake = stake
          /\ contracts'[c].value = k.value
          /\ contracts'[c].escrow_factor_bps = k.escrow_factor_bps
        BY <1>1, <1>2 DEF Contract
    <2> QED
        BY <2>1 DEF EscrowDeposit
<1>4. net'[c].provider = net[c].provider - stake /\ net'[c].requester = net[c].requester
    BY <1>1, <1>2 DEF Flow
<1>5. /\ net[c].requester = -EscrowDeposit(k)
      /\ net[c].provider = 0
    BY <1>1 DEF WinnerInv, Charged
<1>6. PendingAppeal(c)' = 0
    <2>1. disputes[c].status = "None"
        BY <1>1 DEF WinnerInv, PromiseInv, Sound
    <2>2. ~HasAppeal(disputes[c])
        BY <2>1 DEF WinnerInv, PromiseInv, EscrowInv, Consistent
    <2> QED
        BY <1>1, <2>2 DEF PendingAppeal
<1>7. \A party : AtStake(party, c)' = 0
    BY <1>6 DEF AtStake
<1>8. /\ net'[c].requester = -EscrowDeposit(k) - 0
      /\ net'[c].provider = -stake - 0
    BY <1>2, <1>4, <1>5
<1> QED
    BY <1>3, <1>7, <1>8 DEF Charged, Whole, IsLive

(* Who deposits the stake of an appeal is who is out of pocket by it.      *)
LEMMA EscalateToAppealAccounted ==
    ASSUME WinnerInv, EscrowInv', NEW c \in ContractIds, Regular(c), Regular(c)', NEW by \in Agents,
           EscalateToAppeal(c, by)
    PROVE  Charged(c)'
<1> DEFINE k == contracts[c]
           stake == k.value \div 2
           d2 == Appealed(disputes[c], by, stake)
           payer == IF by = k.provider THEN "provider" ELSE "requester"
           deposit == EscrowDeposit(k)
<1>1. /\ disputes' = [disputes EXCEPT ![c] = d2]
      /\ contracts' = [contracts EXCEPT ![c].dispute_level = 4]
      /\ net' = [net EXCEPT ![c] = Charge(@, payer, stake)]
      /\ disputes[c].level = "PublicJury"
      /\ disputes[c].status # "None"
      /\ stake > 0
    BY DEF EscalateToAppeal
<1>2. /\ disputes[c] \in Dispute /\ k \in Contract /\ stake \in Nat
      /\ deposit \in Nat /\ k.provider_stake \in Nat
    <2>1. disputes[c] \in Dispute /\ k \in Contract /\ k.value \in Nat
        BY DisputeFacts, ContractFacts DEF WinnerInv, DisputeInv
    <2>2. stake \in Nat
        BY <2>1
    <2> QED
        BY <2>1, <2>2, ContractFacts DEF WinnerInv, DisputeInv
<1> HIDE DEF stake, deposit
<1>3. /\ d2.status = "Open" /\ d2.level = "Appeal" /\ d2.appeal_stake = stake
      /\ d2.initiator = by
    BY <1>2 DEF Appealed, Dispute
<1> HIDE DEF d2
<1>4. disputes'[c] = d2
    BY <1>1 DEF WinnerInv, DisputeInv, TypeOK
<1>5. /\ contracts'[c].status = k.status
      /\ contracts'[c].provider = k.provider
      /\ contracts'[c].provider_stake = k.provider_stake
      /\ EscrowDeposit(contracts'[c]) = deposit
    <2>1. /\ contracts'[c].status = k.status
          /\ contracts'[c].provider = k.provider
          /\ contracts'[c].value = k.value
          /\ contracts'[c].escrow_factor_bps = k.escrow_factor_bps
          /\ contracts'[c].provider_stake = k.provider_stake
        BY <1>1, <1>2 DEF WinnerInv, DisputeInv, TypeOK, Contract
    <2> QED
        BY <2>1 DEF EscrowDeposit, deposit
<1>6. PendingAppeal(c) = 0 /\ PendingAppeal(c)' = stake
    <2>1. Pending(disputes[c]) = 0 /\ Pending(disputes'[c]) = stake
        BY <1>1, <1>2, <1>3, <1>4 DEF Pending, HasAppeal, ResolvedStatuses
    <2> QED
        BY <2>1, Funds, FundsNext DEF WinnerInv, PromiseInv
<1>7. Depositor(contracts'[c], disputes'[c]) = payer
    BY <1>3, <1>4, <1>5 DEF Depositor
<1>8. net[c] \in Flow /\ net'[c] = Charge(net[c], payer, stake)
    BY <1>1 DEF WinnerInv, DisputeInv, TypeOK
<1>9. k.status # "Proposed"
    BY <1>1 DEF WinnerInv, PromiseInv, Sound
<1>10. ASSUME k.status \in LiveStatuses
       PROVE  /\ net'[c].requester = -deposit - AtStake("requester", c)'
              /\ net'[c].provider = -k.provider_stake - AtStake("provider", c)'
    <2>1. \A party : AtStake(party, c) = 0
        BY <1>6 DEF AtStake
    <2>2. net[c].requester = -deposit - 0 /\ net[c].provider = -k.provider_stake - 0
        BY <1>10, <2>1 DEF WinnerInv, Charged, IsLive, deposit
    <2>3. CASE payer = "provider"
        <3>1. AtStake("provider", c)' = stake /\ AtStake("requester", c)' = 0
            BY <1>6, <1>7, <2>3 DEF AtStake
        <3>2. net'[c].provider = net[c].provider - stake /\ net'[c].requester = net[c].requester
            BY <1>8, <2>3 DEF Charge, Flow
        <3> QED
            BY <1>2, <2>2, <3>1, <3>2
    <2>4. CASE payer = "requester"
        <3>1. AtStake("requester", c)' = stake /\ AtStake("provider", c)' = 0
            BY <1>6, <1>7, <2>4 DEF AtStake
        <3>2. net'[c].requester = net[c].requester - stake /\ net'[c].provider = net[c].provider
            BY <1>8, <2>4 DEF Charge, Flow
        <3> QED
            BY <1>2, <2>2, <3>1, <3>2
    <2> QED
        BY <2>3, <2>4
<1> QED
    BY <1>1, <1>5, <1>6, <1>9, <1>10 DEF Charged, IsLive, deposit

(* The ordinary ends of a contract.                                        *)
LEMMA LifecycleEndAccounted ==
    ASSUME WinnerInv, EscrowInv', NEW c \in ContractIds, Regular(c), Regular(c)',
           CancelProposal(c) \/ Accept(c) \/ Timeout(c) \/ TimeoutDelivery(c)
    PROVE  Charged(c)'
<1> DEFINE k == contracts[c]
<1>1. /\ k \in Contract /\ EscrowDeposit(k) \in Nat /\ TopUp(k) \in Nat /\ k.value \in Nat
      /\ config \in ProtocolConfig
    BY ContractFacts DEF WinnerInv, DisputeInv, TypeOK
<1>2. disputes' = disputes
    BY DEF CancelProposal, Accept, Timeout, TimeoutDelivery
<1>3. PendingAppeal(c)' = PendingAppeal(c)
    BY <1>2 DEF PendingAppeal, IsDecided
<1>4. CASE CancelProposal(c)
    <2> DEFINE pay == PayTo("requester", EscrowDeposit(k))
    <2>1. /\ k.status = "Proposed"
          /\ Disburse(c, k.currency, 0, pay, NoPayment)
          /\ contracts' = [contracts EXCEPT ![c].status = "Cancelled", ![c].resolved_at = now]
        BY <1>4, DirectDisburses DEF CancelProposal
    <2>2. pay \in Payment
        BY <1>1, PayToWhole
    <2> HIDE DEF pay
    <2> QED
        BY <1>3, <2>1, <2>2, ClosingAccounted DEF SettledStatuses
<1>5. CASE Accept(c)
    <2> DEFINE topUp == TopUp(k)
               pay == Payout(k, k.value)
    <2>1. /\ k.status = "Delivered"
          /\ Disburse(c, k.currency, topUp, pay, NoPayment)
          /\ contracts' = [contracts EXCEPT ![c].status = "Completed", ![c].resolved_at = now]
        BY <1>5 DEF Accept, AcceptAccounts
    <2>2. pay \in Payment /\ pay.provider >= k.provider_stake
        BY <1>1, PayoutWhole, PaymentShares
    <2>3. topUp \in Nat
        BY <1>1
    <2> HIDE DEF topUp, pay
    <2> QED
        BY <1>3, <2>1, <2>2, <2>3, ClosingAccounted DEF SettledStatuses, LiveStatuses
<1>6. CASE Timeout(c)
    <2> DEFINE pay == Refund(k)
    <2>1. /\ k.status = "Active"
          /\ Disburse(c, k.currency, 0, pay, NoPayment)
          /\ contracts' = [contracts EXCEPT ![c].status = "ResolvedRequester",
                                            ![c].resolved_at = now]
        BY <1>6 DEF Timeout, TimeoutAccounts
    <2>2. pay \in Payment /\ pay.requester >= EscrowDeposit(k)
        BY <1>1, RefundWhole, PaymentShares
    <2> HIDE DEF pay
    <2> QED
        BY <1>3, <2>1, <2>2, ClosingAccounted DEF SettledStatuses, LiveStatuses
<1>7. CASE TimeoutDelivery(c)
    <2> DEFINE pay == IgnoredPayout(k)
    <2>1. /\ k.status = "Delivered"
          /\ Disburse(c, k.currency, 0, pay, NoPayment)
          /\ contracts' = [contracts EXCEPT ![c].status = "Completed", ![c].resolved_at = now]
        BY <1>7 DEF TimeoutDelivery, TimeoutDeliveryAccounts
    <2>2. pay \in Payment /\ pay.provider >= k.provider_stake
        BY <1>1, PayoutWhole, PaymentShares DEF IgnoredPayout
    <2> HIDE DEF pay
    <2> QED
        BY <1>3, <2>1, <2>2, ClosingAccounted DEF SettledStatuses, LiveStatuses
<1> QED
    BY <1>4, <1>5, <1>6, <1>7

(* No appeal is pending at L1 and L2.                                      *)
LEMMA AcceptCorrectionAccounted ==
    ASSUME WinnerInv, EscrowInv', NEW c \in ContractIds, Regular(c), Regular(c)',
           AcceptCorrection(c)
    PROVE  Charged(c)'
<1> DEFINE k == contracts[c]
           topUp == TopUp(k)
           pay == CorrectionPayout(k)
<1>1. /\ k.status = "Delivered"
      /\ disputes[c].level \in {"DirectCorrection", "PrivateRounds"}
      /\ Disburse(c, k.currency, topUp, pay, NoPayment)
      /\ disputes' = [disputes EXCEPT ![c].status = "ResolvedProvider"]
      /\ contracts' = [contracts EXCEPT ![c].status = "Completed", ![c].resolved_at = now]
    BY DEF AcceptCorrection
<1>2. k \in Contract /\ topUp \in Nat /\ k.value \in Nat /\ config \in ProtocolConfig
    BY ContractFacts DEF WinnerInv, DisputeInv, TypeOK
<1>3. pay \in Payment /\ pay.provider >= k.provider_stake
    BY <1>2, PayoutWhole, PaymentShares DEF CorrectionPayout
<1>4. disputes'[c].level = disputes[c].level
    BY <1>1, DisputeFacts DEF WinnerInv, DisputeInv, TypeOK, Dispute
<1>5. PendingAppeal(c)' = PendingAppeal(c)
    BY <1>1, <1>4 DEF PendingAppeal, HasAppeal
<1> HIDE DEF topUp, pay
<1> QED
    BY <1>1, <1>2, <1>3, <1>5, ClosingAccounted DEF SettledStatuses, LiveStatuses

(* What a verdict pays its winner: at least what it has in escrow, with
   the stake of its appeal.                                                *)
LEMMA VerdictShares ==
    ASSUME DisputeInv, NEW c \in ContractIds, NEW wins \in BOOLEAN
    PROVE  LET k == contracts[c]
               d == disputes[c]
               pay == PlusFlow(DisputePayment(k, wins), AppealPayment(k, d, wins))
               appeal(party) == IF HasAppeal(d) /\ Depositor(k, d) = party
                                THEN d.appeal_stake ELSE 0
           IN  /\ wins => pay.provider >= EscrowDeposit(k) + k.provider_stake + appeal("provider")
               /\ ~wins => pay.requester >= EscrowDeposit(k) + appeal("requester")
<1> DEFINE k == contracts[c]
           d == disputes[c]
           first == DisputePayment(k, wins)
           second == AppealPayment(k, d, wins)
           pay == PlusFlow(first, second)
           due(party) == IF HasAppeal(d) /\ Depositor(k, d) = party THEN d.appeal_stake ELSE 0
<1>1. /\ k \in Contract /\ EscrowDeposit(k) \in Nat /\ k.provider_stake \in Nat
      /\ d.appeal_stake \in Nat /\ config \in ProtocolConfig
    BY ContractFacts, DisputeFacts DEF DisputeInv, TypeOK
<1>2. first \in Payment /\ second \in Payment
    BY VerdictTypes DEF DisputeInv
<1>3. wins => first.provider = EscrowDeposit(k) + k.provider_stake
    BY DEF DisputePayment, PayTo, NoPayment
<1>4. ~wins => first.requester >= EscrowDeposit(k)
    BY <1>1, PaymentShares DEF DisputePayment
<1>5. ASSUME NEW party \in {"provider", "requester"}, HasAppeal(d), Depositor(k, d) = party,
             wins <=> party = "provider"
      PROVE  second = PayTo(party, d.appeal_stake)
    BY <1>5 DEF AppealPayment, DepositorWins
<1>6. /\ wins => second.provider >= due("provider")
      /\ ~wins => second.requester >= due("requester")
    <2>1. \A amount \in Nat : /\ PayTo("provider", amount).provider = amount
                              /\ PayTo("requester", amount).requester = amount
        BY DEF PayTo, NoPayment
    <2>2. second.provider >= 0 /\ second.requester >= 0
        BY <1>2 DEF Payment
    <2>3. \A n \in Nat : n >= n
        OBVIOUS
    <2>4. wins => second.provider >= due("provider")
        <3>1. HasAppeal(d) /\ Depositor(k, d) = "provider" /\ wins
                  => second.provider = d.appeal_stake
            BY <1>1, <1>5, <2>1
        <3> HIDE DEF second
        <3> QED
            BY <1>1, <2>2, <2>3, <3>1
    <2>5. ~wins => second.requester >= due("requester")
        <3>1. HasAppeal(d) /\ Depositor(k, d) = "requester" /\ ~wins
                  => second.requester = d.appeal_stake
            BY <1>1, <1>5, <2>1
        <3> HIDE DEF second
        <3> QED
            BY <1>1, <2>2, <2>3, <3>1
    <2> QED
        BY <2>4, <2>5
<1>7. due("provider") \in Nat /\ due("requester") \in Nat
    BY <1>1
<1>8. /\ pay.provider = first.provider + second.provider
      /\ pay.requester = first.requester + second.requester
    BY DEF PlusFlow
<1>9. /\ first.provider \in Nat /\ second.provider \in Nat
      /\ first.requester \in Nat /\ second.requester \in Nat
    BY <1>2 DEF Payment
<1> HIDE DEF first, second, pay, due, k
<1>10. wins => pay.provider >= EscrowDeposit(k) + k.provider_stake + due("provider")
    BY <1>1, <1>3, <1>6, <1>7, <1>8, <1>9
<1>11. ~wins => pay.requester >= EscrowDeposit(k) + due("requester")
    BY <1>1, <1>4, <1>6, <1>7, <1>8, <1>9
<1> QED
    BY <1>10, <1>11 DEF first, second, pay, due, k

(* A verdict: the winner gets its own stake in the appeal back as well.    *)
LEMMA ResolveAccounted ==
    ASSUME WinnerInv, EscrowInv', NEW c \in ContractIds, Regular(c), Regular(c)',
           NEW verdict \in BOOLEAN, Resolve(c, verdict)
    PROVE  Charged(c)'
<1> DEFINE k == contracts[c]
           d == disputes[c]
           wins == ProviderWins(d, verdict)
           outcome == IF wins THEN "ResolvedProvider" ELSE "ResolvedRequester"
           first == DisputePayment(k, wins)
           second == AppealPayment(k, d, wins)
           pay == PlusFlow(first, second)
           deposit == EscrowDeposit(k)
           due(party) == IF HasAppeal(d) /\ Depositor(k, d) = party THEN d.appeal_stake ELSE 0
<1>1. wins \in BOOLEAN
    BY WinsBoolean DEF WinnerInv, DisputeInv
<1>2. /\ wins => pay.provider >= deposit + k.provider_stake + due("provider")
      /\ ~wins => pay.requester >= deposit + due("requester")
    <2> HIDE DEF wins
    <2> QED
        BY <1>1, VerdictShares DEF WinnerInv
<1>3. first \in Payment /\ second \in Payment /\ pay \in Payment
    <2> HIDE DEF wins
    <2> QED
        BY <1>1, VerdictTypes, PlusPayment DEF WinnerInv, DisputeInv
<1>4. /\ Disburse(c, k.currency, 0, first, second)
      /\ disputes' = [disputes EXCEPT ![c].status = outcome]
      /\ contracts' = [contracts EXCEPT ![c].status = outcome, ![c].resolved_at = now]
      /\ d.status # "None"
    BY DEF Resolve, ResolveAccounts
<1>5. /\ k \in Contract /\ contracts \in [ContractIds -> Contract] /\ TypeOK
      /\ deposit \in Nat /\ k.provider_stake \in Nat /\ d.appeal_stake \in Nat
      /\ k.currency \in Currencies
    BY ContractFacts, DisputeFacts DEF WinnerInv, DisputeInv, TypeOK, Contract
<1>6. IsLive(c)
    <2>1. ~IsSettled(c)
        BY ResolveUnsettled DEF WinnerInv, PromiseInv
    <2>2. k.status # "None" /\ k.status # "Proposed"
        BY <1>4 DEF WinnerInv, PromiseInv, EscrowInv, Consistent, Sound
    <2>3. k.status \in ContractStatus
        BY <1>5 DEF Contract
    <2> QED
        BY <2>1, <2>2, <2>3 DEF IsSettled, IsLive, ContractStatus
<1>7. AtStake("provider", c) = due("provider") /\ AtStake("requester", c) = due("requester")
    <2>1. PendingAppeal(c) = IF HasAppeal(d) THEN d.appeal_stake ELSE 0
        <3>1. Pending(d) = IF HasAppeal(d) THEN d.appeal_stake ELSE 0
            BY VerdictCovered DEF WinnerInv, PromiseInv, Regular
        <3> QED
            BY <3>1, Funds DEF WinnerInv, PromiseInv
    <2> QED
        BY <2>1 DEF AtStake
<1>8. /\ net[c].requester = -deposit - due("requester")
      /\ net[c].provider = -k.provider_stake - due("provider")
    BY <1>6, <1>7 DEF WinnerInv, Charged
<1>9. due("provider") \in Nat /\ due("requester") \in Nat
    BY <1>5
<1>10. /\ net[c] \in Flow /\ net'[c] = Exchange(net[c], 0, pay)
    <2> HIDE DEF first, second
    <2> QED
        BY <1>3, <1>4, <1>5, DisburseGains DEF Regular
<1>11. /\ net'[c].requester = net[c].requester + pay.requester - 0
       /\ net'[c].provider = net[c].provider + pay.provider
    <2> HIDE DEF pay
    <2> QED
        BY <1>3, <1>10, ExchangeGains
<1>12. pay.provider \in Nat /\ pay.requester \in Nat
    <2> HIDE DEF pay
    <2> QED
        BY <1>3 DEF Payment
<1> DEFINE gotRequester == pay.requester
           gotProvider == pay.provider
           dueRequester == due("requester")
           dueProvider == due("provider")
<1>13. /\ wins => net'[c].provider >= deposit
       /\ ~wins => net'[c].requester >= 0
    <2>1. /\ gotRequester \in Nat /\ gotProvider \in Nat
          /\ dueRequester \in Nat /\ dueProvider \in Nat
          /\ net'[c].requester = (-deposit - dueRequester) + gotRequester - 0
          /\ net'[c].provider = (-k.provider_stake - dueProvider) + gotProvider
          /\ wins => gotProvider >= deposit + k.provider_stake + dueProvider
          /\ ~wins => gotRequester >= deposit + dueRequester
        BY <1>2, <1>8, <1>9, <1>11, <1>12
    <2> HIDE DEF gotRequester, gotProvider, dueRequester, dueProvider, deposit, wins
    <2>2. wins => net'[c].provider >= deposit
        BY <1>5, <2>1
    <2>3. ~wins => net'[c].requester >= 0
        BY <1>5, <2>1
    <2> QED
        BY <2>2, <2>3
<1> HIDE DEF outcome
<1>14. contracts'[c].status = outcome /\ EscrowDeposit(contracts'[c]) = deposit
    <2>1. /\ contracts'[c].status = outcome
          /\ contracts'[c].value = k.value
          /\ contracts'[c].escrow_factor_bps = k.escrow_factor_bps
        BY <1>4, <1>5 DEF Contract
    <2> QED
        BY <2>1 DEF EscrowDeposit
<1>15. /\ wins => outcome = "ResolvedProvider"
       /\ ~wins => outcome = "ResolvedRequester"
    BY DEF outcome
<1>16. outcome \notin LiveStatuses /\ outcome # "Proposed"
    BY <1>15, StagesDisjoint
<1> HIDE DEF wins, deposit
<1>17. Whole(c)'
    BY <1>13, <1>14, <1>15 DEF Whole
<1> QED
    BY <1>14, <1>16, <1>17 DEF Charged, IsLive

(* Work that is delivered or sent back moves no money.                     *)
LEMMA WorkAccounted ==
    ASSUME WinnerInv, EscrowInv', NEW c \in ContractIds, Regular(c), Regular(c)',
           Deliver(c) \/ RejectDelivery(c)
    PROVE  Charged(c)'
<1>1. contracts[c] \in Contract /\ contracts \in [ContractIds -> Contract]
    BY ContractFacts DEF WinnerInv, DisputeInv, TypeOK
<1>2. \E status \in LiveStatuses : \E used, level :
          contracts' = [contracts EXCEPT ![c].corrections_used = used,
                                         ![c].status = status, ![c].dispute_level = level]
    <2>1. CASE Deliver(c)
        <3> DEFINE k == contracts[c]
        <3>1. contracts' = [contracts EXCEPT ![c].status = "Delivered"]
            BY <2>1 DEF Deliver
        <3>2. contracts' = [contracts EXCEPT ![c].corrections_used = k.corrections_used,
                                ![c].status = "Delivered", ![c].dispute_level = k.dispute_level]
            BY <1>1, <3>1 DEF Contract
        <3> QED
            BY <3>2 DEF LiveStatuses
    <2>2. CASE RejectDelivery(c)
        <3> DEFINE used == contracts[c].corrections_used + 1
                   atLimit == used >= contracts[c].max_corrections_contract
                   status == StatusAfterRejection(atLimit)
                   level == IF atLimit THEN 1 ELSE contracts[c].dispute_level
        <3>1. contracts' = [contracts EXCEPT ![c].corrections_used = used,
                                             ![c].status = status, ![c].dispute_level = level]
            BY <2>2 DEF RejectDelivery
        <3>2. status \in LiveStatuses
            BY DEF StatusAfterRejection, LiveStatuses
        <3> HIDE DEF used, atLimit, status, level
        <3> QED
            BY <3>1, <3>2
    <2> QED
        BY <2>1, <2>2
<1>3. /\ contracts'[c].status \in LiveStatuses
      /\ contracts'[c].value = contracts[c].value
      /\ contracts'[c].escrow_factor_bps = contracts[c].escrow_factor_bps
      /\ contracts'[c].provider_stake = contracts[c].provider_stake
      /\ contracts'[c].provider = contracts[c].provider
    BY <1>1, <1>2 DEF Contract
<1>4. contracts[c].status \in LiveStatuses
    BY DEF Deliver, RejectDelivery, LiveStatuses
<1>5. escrow' = escrow /\ net' = net /\ disputes' = disputes
    BY DEF Deliver, RejectDelivery
<1> QED
    BY <1>3, <1>4, <1>5, QuietAccounted DEF SameTerms

(* The steps of a dispute that move no money keep its depositor: only
   initiate_dispute names one, of a dispute without an appeal.             *)
LEMMA DisputeQuietAccounted ==
    ASSUME WinnerInv, EscrowInv', NEW c \in ContractIds, Regular(c), Regular(c)',
           \/ Initiate(c) \/ Respond(c) \/ Escalate(c) \/ Redeliver(c)
           \/ \E j \in Jurors, forProvider \in BOOLEAN : Vote(j, c, forProvider)
    PROVE  Charged(c)'
<1>1. /\ contracts[c] \in Contract /\ disputes[c] \in Dispute
      /\ contracts \in [ContractIds -> Contract] /\ disputes \in [ContractIds -> Dispute]
    BY ContractFacts, DisputeFacts DEF WinnerInv, DisputeInv, TypeOK
<1>2. escrow' = escrow /\ net' = net
    BY DEF Initiate, Respond, Escalate, Redeliver, Vote
<1>3. SameTerms(c) /\ contracts'[c].provider = contracts[c].provider
    <2>1. CASE Initiate(c)
        BY <1>1, <2>1 DEF Initiate, SameTerms, Contract, LiveStatuses
    <2>2. CASE Escalate(c)
        <3> DEFINE level == IF disputes[c].level = "PrivateRounds" THEN 3 ELSE 2
        <3>1. contracts' = [contracts EXCEPT ![c].dispute_level = level]
            BY <2>2 DEF Escalate
        <3> HIDE DEF level
        <3> QED
            BY <1>1, <3>1 DEF SameTerms, Contract
    <2>3. CASE Redeliver(c)
        <3> DEFINE exhausted == disputes[c].corrections_count + 1 >= config.max_corrections
                   level == IF exhausted THEN 2 ELSE contracts[c].dispute_level
        <3>1. /\ contracts' = [contracts EXCEPT ![c].status = "Delivered",
                                                ![c].dispute_level = level]
              /\ contracts[c].status = "Disputed"
            BY <2>3 DEF Redeliver, RedeliverAccounts
        <3> HIDE DEF level
        <3> QED
            BY <1>1, <3>1 DEF SameTerms, Contract, LiveStatuses
    <2>4. CASE Respond(c) \/ \E j \in Jurors, forProvider \in BOOLEAN : Vote(j, c, forProvider)
        BY <2>4 DEF Respond, Vote, SameTerms
    <2> QED
        BY <2>1, <2>2, <2>3, <2>4
<1>4. PendingAppeal(c) # 0 => disputes'[c].initiator = disputes[c].initiator
    <2>1. CASE Initiate(c)
        <3>1. ~HasAppeal(disputes[c])
            BY <2>1 DEF Initiate, InitiateAccounts, WinnerInv, PromiseInv, EscrowInv, Consistent
        <3> QED
            BY <3>1 DEF PendingAppeal
    <2>2. CASE Respond(c)
        <3> DEFINE rounds == IF /\ disputes[c].level = "PrivateRounds"
                                /\ disputes[c].private_rounds_count < 5
                             THEN disputes[c].private_rounds_count + 1
                             ELSE disputes[c].private_rounds_count
        <3>1. disputes' = [disputes EXCEPT ![c].status = "Responded",
                                           ![c].private_rounds_count = rounds]
            BY <2>2 DEF Respond
        <3> HIDE DEF rounds
        <3> QED
            BY <1>1, <3>1 DEF Dispute
    <2>3. CASE Escalate(c)
        <3> DEFINE toJury == disputes[c].level = "PrivateRounds"
                   level == NextLevel(disputes[c].level)
                   deadline == now + (IF toJury THEN JuryWindow ELSE PrivateWindow)
                   jury == IF toJury THEN JurySize[contracts[c].value] ELSE disputes[c].jury_size
                   fee == IF toJury THEN PartOf(contracts[c].value, 200)
                          ELSE disputes[c].arbitration_fee
                   d2 == [disputes[c] EXCEPT !.level = level, !.status = "Open",
                              !.deadline = deadline, !.jury_size = jury, !.arbitration_fee = fee]
        <3>1. disputes' = [disputes EXCEPT ![c] = d2]
            BY <2>3 DEF Escalate
        <3> HIDE DEF level, deadline, jury, fee
        <3>2. d2.initiator = disputes[c].initiator
            BY <1>1 DEF Dispute
        <3> HIDE DEF d2
        <3> QED
            BY <1>1, <3>1, <3>2
    <2>4. CASE Redeliver(c)
        <3> DEFINE count == disputes[c].corrections_count + 1
                   exhausted == count >= config.max_corrections
                   level == IF exhausted THEN "PrivateRounds" ELSE disputes[c].level
                   deadline == now + (IF exhausted THEN PrivateWindow ELSE DirectWindow)
        <3>1. disputes' = [disputes EXCEPT ![c].corrections_count = count, ![c].level = level,
                                           ![c].status = "Open", ![c].deadline = deadline]
            BY <2>4 DEF Redeliver
        <3> HIDE DEF count, level, deadline
        <3> QED
            BY <1>1, <3>1 DEF Dispute
    <2>5. ASSUME NEW j \in Jurors, NEW forProvider \in BOOLEAN, Vote(j, c, forProvider)
          PROVE  disputes'[c].initiator = disputes[c].initiator
        <3> DEFINE d2 == AfterVote(disputes[c], forProvider)
        <3>1. disputes' = [disputes EXCEPT ![c] = d2]
            BY <2>5 DEF Vote
        <3>2. d2.initiator = disputes[c].initiator
            BY <1>1 DEF AfterVote, Dispute
        <3> HIDE DEF d2
        <3> QED
            BY <1>1, <3>1, <3>2
    <2> QED
        BY <2>1, <2>2, <2>3, <2>4, <2>5
<1> QED
    BY <1>2, <1>3, <1>4, QuietAccounted

-----------------------------------------------------------------------------
LEMMA OnContractAccounted ==
    ASSUME WinnerInv, EscrowInv', NEW c \in ContractIds,
           LifecycleOn(c) \/ DisputeOn(c)
    PROVE  \A x \in ContractIds : Regular(x)' => Charged(x)'
<1>1. ASSUME Regular(c)' PROVE Charged(c)'
    <2> Regular(c) /\ Regular(c)'
        BY <1>1, ActionKept DEF WinnerInv, Kept
    <2>1. CASE LifecycleOn(c)
        BY <2>1, AcceptProposalAccounted, LifecycleEndAccounted, WorkAccounted DEF LifecycleOn
    <2>2. CASE DisputeOn(c)
        BY <2>2, DisputeQuietAccounted, EscalateToAppealAccounted, ResolveAccounted,
           AcceptCorrectionAccounted DEF DisputeOn
    <2> QED
        BY <2>1, <2>2
<1>2. ASSUME NEW x \in ContractIds \ {c} PROVE Regular(x)' => Charged(x)'
    <2>1. Unmoved(x)
        BY ActionKept DEF WinnerInv, Kept
    <2>2. Aside(x)
        BY Elsewhere DEF WinnerInv, DisputeInv
    <2>3. Regular(x) => Charged(x)
        BY DEF WinnerInv
    <2> QED
        BY <2>1, <2>2, <2>3, UnmovedAccounted DEF Aside
<1> QED
    BY <1>1, <1>2

LEMMA CreateAccounted ==
    ASSUME WinnerInv, EscrowInv', NEW r \in Requesters, NEW p \in Providers, NEW v \in Values,
           NEW input \in EscrowInputs, NEW currency \in Currencies,
           Create(r, p, v, input, currency)
    PROVE  \A x \in ContractIds : Regular(x)' => Charged(x)'
<1> DEFINE stake == StakeRequired(v, agents[p].trust_score)
           terms == Terms(r, p, v, input, currency)
           k1 == [terms EXCEPT !.status = "Active"]
           k2 == [k1 EXCEPT !.provider_stake = stake]
<1>1. terms \in Contract
    BY TermsType DEF WinnerInv, DisputeInv
<1>2. stake \in Nat
    <2>1. agents[p].trust_score \in TrustScores
        BY PartiesAssumption DEF WinnerInv, DisputeInv, TypeOK, AgentIdentity
    <2> QED
        BY <2>1, StakeRequiredNat
<1>3. /\ NewContract(k2, "Sworn", stake, EscrowDeposit(k2))
      /\ disputes' = disputes /\ astray' = astray
    BY DEF Create
<1> HIDE DEF terms, stake
<1>4. k1 \in Contract /\ k1.status = "Active"
    BY <1>1, ContractUpdate DEF ContractStatus, LiveStatuses, Contract
<1> HIDE DEF k1
<1>5. k2 \in Contract
    BY <1>2, <1>4, ContractUpdate
<1>6. k2.status = "Active" /\ k2.provider_stake = stake
    BY <1>4 DEF Contract
<1> HIDE DEF k2
<1> QED
    BY <1>2, <1>3, <1>5, <1>6, OpeningAccounted

LEMMA ProposeAccounted ==
    ASSUME WinnerInv, EscrowInv', NEW r \in Requesters, NEW p \in Providers, NEW v \in Values,
           NEW expiry \in Expiries, NEW currency \in Currencies, NEW input \in EscrowInputs,
           Propose(r, p, v, expiry, currency, input)
    PROVE  \A x \in ContractIds : Regular(x)' => Charged(x)'
<1> DEFINE stake == StakeRequired(v, agents[p].trust_score)
           expires == IF expiry > 0 THEN now + expiry ELSE 0
           terms == Terms(r, p, v, input, currency)
           k1 == [terms EXCEPT !.status = "Proposed"]
           k2 == [k1 EXCEPT !.provider_stake_required = stake]
           k3 == [k2 EXCEPT !.proposal_expires_at = expires]
<1>1. terms \in Contract /\ terms.provider_stake = 0
    <2>1. terms.provider_stake = 0
        BY DEF Terms, NoContract
    <2> QED
        BY <2>1, TermsType DEF WinnerInv, DisputeInv
<1>2. stake \in Nat /\ expires \in Nat
    <2>1. agents[p].trust_score \in TrustScores
        BY PartiesAssumption DEF WinnerInv, DisputeInv, TypeOK, AgentIdentity
    <2>2. expires \in Nat
        <3>1. now \in Nat /\ expiry \in Nat
            BY BoundsAssumption, InputsNat DEF WinnerInv, DisputeInv, TypeOK
        <3> QED
            BY <3>1
    <2> QED
        BY <2>1, <2>2, StakeRequiredNat
<1>3. /\ NewContract(k3, currency, 0, EscrowDeposit(k3))
      /\ disputes' = disputes /\ astray' = astray
    BY DEF Propose
<1> HIDE DEF terms, stake, expires
<1>4. k1 \in Contract /\ k1.status = "Proposed" /\ k1.provider_stake = 0
    BY <1>1, ContractUpdate DEF ContractStatus, Contract
<1> HIDE DEF k1
<1>5. k2 \in Contract
    BY <1>2, <1>4, ContractUpdate
<1>6. k2.status = "Proposed" /\ k2.provider_stake = 0
    BY <1>4 DEF Contract
<1> HIDE DEF k2
<1>7. k3 \in Contract
    BY <1>2, <1>5, ContractUpdate
<1>8. k3.status = "Proposed" /\ k3.provider_stake = 0
    BY <1>5, <1>6 DEF Contract
<1> HIDE DEF k3
<1> QED
    BY <1>3, <1>7, <1>8, OpeningAccounted

LEMMA OtherAccounted ==
    ASSUME WinnerInv, UNCHANGED <<contracts, disputes, escrow, net, astray>>
    PROVE  \A x \in ContractIds : Regular(x)' => Charged(x)'
<1> SUFFICES ASSUME NEW x \in ContractIds PROVE Regular(x)' => Charged(x)'
    OBVIOUS
<1>1. Unmoved(x)
    BY OtherKept DEF WinnerInv
<1>2. Regular(x) => Charged(x)
    BY DEF WinnerInv
<1> QED
    BY <1>1, <1>2, UnmovedAccounted

LEMMA NextAccounted ==
    ASSUME FeesBounded, WinnerInv, [Next]_vars
    PROVE  WinnerInv'
<1>1. PromiseInv' /\ EscrowInv'
    <2>1. PromiseInv'
        BY NextPromise, StutterPromise DEF WinnerInv
    <2> QED
        BY <2>1 DEF PromiseInv
<1>2. DisputeInv'
    BY NextProceeds DEF WinnerInv
<1>3. \A x \in ContractIds : Regular(x)' => Charged(x)'
    <2>1. CASE \E r \in Requesters, p \in Providers, v \in Values, i \in EscrowInputs,
                  cur \in CreateCurrencies : Create(r, p, v, i, cur)
        BY <1>1, <2>1, InputsAssumption, CreateAccounted
    <2>2. CASE \E r \in Requesters, p \in Providers, v \in Values, x \in Expiries,
                  cur \in ProposeCurrencies, i \in EscrowInputs : Propose(r, p, v, x, cur, i)
        BY <1>1, <2>2, InputsAssumption, ProposeAccounted
    <2>3. CASE \E c \in ContractIds : LifecycleOn(c) \/ DisputeOn(c)
        BY <1>1, <2>3, OnContractAccounted
    <2>4. CASE IdentityNext \/ Tick \/ (\E settings \in Configs : UpdateConfig(settings))
               \/ UNCHANGED vars
        <3>1. UNCHANGED <<contracts, disputes, escrow, net, astray>>
            BY <2>4 DEF IdentityNext, IdentityOn, CalculateTrustScore, Hibernate, Wake,
                ExpireHibernation, ForceMature, ChangeAgent, Tick, UpdateConfig, vars
        <3> QED
            BY <3>1, OtherAccounted
    <2>5. ASSUME NEW c \in ContractIds, NEW currency \in Currencies, NEW amount \in Gifts,
                 Gift(c, currency, amount), NEW x \in ContractIds, Regular(x)'
          PROVE  Charged(x)'
        <3>1. x # c
            BY <2>5 DEF Gift, Regular
        <3>2. Unmoved(x) /\ contracts'[x] = contracts[x] /\ disputes'[x] = disputes[x]
            BY <1>1, <2>5, <3>1, GiftKept DEF Gift, WinnerInv, Kept
        <3> QED
            BY <2>5, <3>2, UnmovedAccounted DEF WinnerInv
    <2> QED
        BY <2>1, <2>2, <2>3, <2>4, <2>5 DEF Next, LifecycleNext, DisputeNext
<1> QED
    BY <1>1, <1>2, <1>3 DEF WinnerInv

LEMMA InitAccounted == ASSUME Init PROVE WinnerInv
<1>1. PromiseInv /\ DisputeInv
    BY InitPromise, InitOrderly
<1>2. \A c \in ContractIds : contracts[c].status = "None"
    BY DEF Init, NoContract
<1> QED
    BY <1>1, <1>2, StagesDisjoint DEF WinnerInv, Charged, Whole, IsLive

THEOREM PartiesAccounted == ASSUME FeesBounded PROVE Spec => []WinnerInv
<1>1. Init => WinnerInv
    BY InitAccounted
<1>2. WinnerInv /\ [Next]_vars => WinnerInv'
    BY NextAccounted
<1> QED
    BY <1>1, <1>2, PTL DEF Spec

(* The verdict never costs its winner: resolve_dispute, the two timeouts
   and both acceptances give the winner at least what it had put in,
   whatever the contract's value, its escrow factor, the stake and the
   rates, once no appeal is pending.                                       *)
THEOREM WinnerWhole == ASSUME FeesBounded PROVE Spec => []WinnerIsMadeWhole
<1>1. WinnerInv => WinnerIsMadeWhole
    BY DEF WinnerInv, Charged, Whole, WinnerIsMadeWhole
<1> QED
    BY <1>1, PartiesAccounted, PTL
=============================================================================
