----------------------------- MODULE TypeProofs -----------------------------
(***************************************************************************)
(* Spec => []TypeOK: no handler takes an amount or a counter out of its    *)
(* unsigned type, whatever the parties, the amounts and the rates.  First, *)
(* what the arithmetic of ProtocolState returns: each split of an amount   *)
(* is made of natural numbers, and adds up to the amount it splits.        *)
(***************************************************************************)
EXTENDS TrustProtocol, TLAPS

(* A share in basis points is a natural number.                            *)
LEMMA BpsNat ==
    ASSUME NEW b, b \in Bps
    PROVE  b \in Nat /\ b <= 10000
BY DEF Bps

(* Contract values are amounts.                                            *)
LEMMA ValuesNat == \A v \in Values \cup {0} : v \in Nat
BY InputsAssumption

(* So are escrow factors, expiries and hibernation times.                  *)
LEMMA InputsNat ==
    /\ \A x \in EscrowInputs : x \in Nat
    /\ \A x \in Expiries : x \in Nat
    /\ \A x \in HibernationTimes : x \in Nat
BY InputsAssumption

(* The stake factor of any trust score is a share.                         *)
LEMMA StakeFactorNat == \A score \in TrustScores : StakeFactor[score] \in Nat
BY RatesAssumption, BpsNat

(* A share of an amount in basis points is a natural number, as in u64.    *)
LEMMA PartOfNat ==
    ASSUME NEW a, NEW b, a \in Nat, b \in Nat
    PROVE  PartOf(a, b) \in Nat
<1>1. a * b \in Nat
    OBVIOUS
<1>2. \A n \in Nat : n \div 10000 \in Nat
    OBVIOUS
<1> QED
    BY <1>1, <1>2 DEF PartOf

(* Two shares that are at most the whole together are at most the amount.  *)
LEMMA PartsWithinWhole ==
    ASSUME NEW a, NEW b, NEW d, a \in Nat, b \in Nat, d \in Nat, b + d <= 10000
    PROVE  PartOf(a, b) + PartOf(a, d) <= a
<1>1. a * b \in Nat /\ a * d \in Nat /\ a * (b + d) = a * b + a * d
    OBVIOUS
<1>2. a * (b + d) <= a * 10000
    OBVIOUS
<1>3. \A m, n \in Nat : m + n <= a * 10000 => m \div 10000 + n \div 10000 <= a
    OBVIOUS
<1> QED
    BY <1>1, <1>2, <1>3 DEF PartOf

(* A share of at most the whole is at most the amount.                     *)
LEMMA PartWithinWhole ==
    ASSUME NEW a, NEW b, a \in Nat, b \in Nat, b <= 10000
    PROVE  PartOf(a, b) <= a
<1>1. PartOf(a, b) + PartOf(a, 0) <= a
    BY PartsWithinWhole
<1> QED
    BY <1>1, PartOfNat

(* create_contract and propose_contract store a factor of 30% to 100%.     *)
LEMMA ClampedFactor ==
    ASSUME NEW input, input \in Nat
    PROVE  ClampEscrowFactor(input) \in Bps /\ ClampEscrowFactor(input) >= 3000
BY DEF ClampEscrowFactor, Bps

(* A requester escrows at most the value, so the top-up does not underflow. *)
LEMMA DepositWithinValue ==
    ASSUME NEW k \in Contract
    PROVE  /\ EscrowDeposit(k) \in Nat
           /\ TopUp(k) \in Nat
           /\ TopUp(k) + EscrowDeposit(k) = k.value
<1>1. k.value \in Values \cup {0}
    BY DEF Contract
<1>2. k.escrow_factor_bps \in Nat /\ k.escrow_factor_bps <= 10000
    <2>1. k.escrow_factor_bps \in Bps
        BY DEF Contract
    <2> QED
        BY <2>1, BpsNat
<1>3. k.value \in Nat
    BY <1>1, ValuesNat
<1>4. /\ PartOf(k.value, k.escrow_factor_bps) \in Nat
      /\ PartOf(k.value, k.escrow_factor_bps) <= k.value
    BY <1>2, <1>3, PartOfNat, PartWithinWhole
<1> QED
    BY <1>3, <1>4 DEF EscrowDeposit, TopUp

(* A stake is a share of the value between none and all of it.             *)
LEMMA StakeRequiredNat ==
    ASSUME NEW v \in Values, NEW score \in TrustScores
    PROVE  StakeRequired(v, score) \in Nat
<1>1. v \in Nat /\ StakeFactor[score] \in Nat
    BY ValuesNat, StakeFactorNat
<1> QED
    BY <1>1, PartOfNat DEF StakeRequired

(* The fee is distributed whole, in either currency.                       *)
LEMMA FeeSplitWhole ==
    ASSUME NEW fee \in Nat, NEW currency
    PROVE  /\ FeeSplit(fee, currency) \in Payment
           /\ FeeSplit(fee, currency).provider = 0
           /\ Total(FeeSplit(fee, currency)) = fee
<1> DEFINE treasury == (fee * 70) \div 100
           insurance == (fee * 20) \div 100
           rest == fee - treasury - insurance
<1>1. treasury \in Nat /\ insurance \in Nat /\ rest \in Nat
    OBVIOUS
<1>2. treasury + insurance + rest = fee
    BY <1>1
<1>3. CASE currency = "Sol"
    BY <1>3 DEF FeeSplit, Payment, NoPayment, Total
<1>4. CASE currency # "Sol"
    <2>1. FeeSplit(fee, currency) =
              [requester |-> 0, provider |-> 0,
               treasury |-> treasury, insurance |-> insurance, burn |-> rest]
        BY <1>4 DEF FeeSplit, NoPayment
    <2> HIDE DEF treasury, insurance, rest
    <2> QED
        BY <1>1, <1>2, <2>1 DEF Payment, Total
<1> QED
    BY <1>3, <1>4

(* A settlement for the provider pays `base` and its stake, no more, as long
   as the fee does not exceed the base.                                    *)
LEMMA PayoutWhole ==
    ASSUME NEW k \in Contract, NEW base \in Nat, config \in ProtocolConfig
    PROVE  /\ Payout(k, base) \in Payment
           /\ config.protocol_fee_bps[k.currency] <= 10000 =>
                  Total(Payout(k, base)) = base + k.provider_stake
<1> DEFINE fee == PartOf(base, config.protocol_fee_bps[k.currency])
           split == FeeSplit(fee, k.currency)
<1>1. k.provider_stake \in Nat /\ config.protocol_fee_bps[k.currency] \in Nat
    BY DEF Contract, ProtocolConfig
<1>2. fee \in Nat
    BY <1>1, PartOfNat
<1>3. split \in Payment /\ split.provider = 0 /\ Total(split) = fee
    BY <1>2, FeeSplitWhole
<1>4. Monus(base, fee) \in Nat
    BY <1>2 DEF Monus
<1>5. Payout(k, base) = [split EXCEPT !.provider = Monus(base, fee) + k.provider_stake]
    BY DEF Payout
<1> HIDE DEF fee, split
<1>6. Payout(k, base) \in Payment
    BY <1>1, <1>3, <1>4, <1>5 DEF Payment
<1>7. Total(Payout(k, base)) = fee + Monus(base, fee) + k.provider_stake
    BY <1>1, <1>2, <1>3, <1>4, <1>5 DEF Payment, Total
<1>8. ASSUME config.protocol_fee_bps[k.currency] <= 10000
      PROVE  Monus(base, fee) + fee = base
    <2>1. fee <= base
        BY <1>1, <1>8, PartWithinWhole DEF fee
    <2> QED
        BY <2>1, <1>2 DEF Monus
<1> QED
    BY <1>1, <1>2, <1>4, <1>6, <1>7, <1>8

(* Everything paid to one party is just that amount.                       *)
LEMMA PayToWhole ==
    ASSUME NEW party, NEW amount \in Nat
    PROVE  PayTo(party, amount) \in Payment /\ Total(PayTo(party, amount)) = amount
BY DEF PayTo, Payment, NoPayment, Total

(* A confiscated stake is distributed whole.                               *)
LEMMA ConfiscationWhole ==
    ASSUME NEW stake \in Nat, NEW winner, NEW currency
    PROVE  /\ Confiscation(stake, winner, currency) \in Payment
           /\ Total(Confiscation(stake, winner, currency)) = stake
<1> DEFINE burn == PartOf(stake, BurnRateBps)
           insurance == PartOf(stake, InsuranceRateBps)
<1>1. burn \in Nat /\ insurance \in Nat /\ stake - burn - insurance \in Nat
    BY RatesAssumption, PartOfNat, PartsWithinWhole
<1>2. CASE currency = "Sol"
    BY <1>2, PayToWhole DEF Confiscation
<1>3. CASE currency # "Sol"
    <2> DEFINE rest == stake - burn - insurance
    <2>1. rest + insurance + burn = stake
        BY <1>1
    <2>2. CASE winner = "provider"
        <3>1. Confiscation(stake, winner, currency) =
                  [requester |-> 0, provider |-> rest,
                   treasury |-> 0, insurance |-> insurance, burn |-> burn]
            BY <1>3, <2>2 DEF Confiscation, PayTo, NoPayment
        <3> HIDE DEF burn, insurance, rest
        <3> QED
            BY <1>1, <2>1, <3>1 DEF Payment, Total, rest
    <2>3. CASE winner # "provider"
        <3>1. Confiscation(stake, winner, currency) =
                  [requester |-> rest, provider |-> 0,
                   treasury |-> 0, insurance |-> insurance, burn |-> burn]
            BY <1>3, <2>3 DEF Confiscation, PayTo, NoPayment
        <3> HIDE DEF burn, insurance, rest
        <3> QED
            BY <1>1, <2>1, <3>1 DEF Payment, Total, rest
    <2> QED
        BY <2>2, <2>3
<1> QED
    BY <1>2, <1>3

(* A settlement for the requester pays its escrow and the stake, no more.  *)
LEMMA RefundWhole ==
    ASSUME NEW k \in Contract
    PROVE  Refund(k) \in Payment /\ Total(Refund(k)) = EscrowDeposit(k) + k.provider_stake
<1> DEFINE seized == Confiscation(k.provider_stake, "requester", k.currency)
<1>1. k.provider_stake \in Nat /\ EscrowDeposit(k) \in Nat
    BY DepositWithinValue DEF Contract
<1>2. seized \in Payment /\ Total(seized) = k.provider_stake
    BY <1>1, ConfiscationWhole
<1>3. Refund(k) = [seized EXCEPT !.requester = @ + EscrowDeposit(k)]
    BY DEF Refund
<1> HIDE DEF seized
<1> QED
    BY <1>1, <1>2, <1>3 DEF Payment, Total

-----------------------------------------------------------------------------
(* A record updated by a handler is still an AgentIdentity.                *)
LEMMA TaskDoneType ==
    ASSUME NEW a, a \in AgentIdentity
    PROVE  TaskDone(a) \in AgentIdentity /\ Released(a) \in AgentIdentity
<1> DEFINE b1 == [a EXCEPT !.tasks_completed = @ + 1]
           b2 == [b1 EXCEPT !.active_contracts = Monus(@, 1)]
           b3 == [b2 EXCEPT !.tasks_since_last_hibernation = @ + 1]
<1>1. \A x : x \in AgentIdentity => Monus(x.active_contracts, 1) \in Nat
    BY DEF AgentIdentity, Monus
<1>2. b1 \in AgentIdentity
    BY DEF AgentIdentity
<1>3. b2 \in AgentIdentity
    <2> HIDE DEF b1
    <2> QED
        BY <1>1, <1>2 DEF AgentIdentity
<1>4. b3 \in AgentIdentity
    <2> HIDE DEF b2
    <2> QED
        BY <1>3 DEF AgentIdentity
<1>5. TaskDone(a) = b3
    BY DEF TaskDone
<1>6. Released(a) \in AgentIdentity
    BY <1>1 DEF Released, AgentIdentity
<1> QED
    BY <1>4, <1>5, <1>6

LEMMA JudgedType ==
    ASSUME NEW a, NEW party, NEW k, NEW d, NEW wins, a \in AgentIdentity, d \in Dispute
    PROVE  Judged(a, party, k, d, wins) \in AgentIdentity
<1>1. Losses(party, k, d, wins) \in Nat
    BY DEF Losses
<1>2. d.private_rounds_count \in Nat
    BY DEF Dispute
<1> DEFINE won == wins <=> party = "provider"
           b1 == [a EXCEPT !.disputes_won = IF won THEN @ + 1 ELSE @]
           b2 == [b1 EXCEPT !.disputes_lost = @ + Losses(party, k, d, wins)]
           b3 == [b2 EXCEPT !.dispute_friction_total = @ + d.private_rounds_count]
<1>3. b1 \in AgentIdentity
    <2> HIDE DEF won
    <2> QED
        BY DEF AgentIdentity
<1>4. b2 \in AgentIdentity
    <2> HIDE DEF b1
    <2> QED
        BY <1>1, <1>3 DEF AgentIdentity
<1>5. b3 \in AgentIdentity
    <2> HIDE DEF b2
    <2> QED
        BY <1>2, <1>4 DEF AgentIdentity
<1> QED
    BY <1>5 DEF Judged

LEMMA RoundsType ==
    ASSUME NEW a, NEW d, a \in AgentIdentity, d \in Dispute
    PROVE  Rounds(a, d) \in AgentIdentity
<1>1. d.private_rounds_count \in Nat
    BY DEF Dispute
<1> QED
    BY <1>1 DEF Rounds, AgentIdentity

(* Both accounts are written back with their type.  Either party may own no
   account, which is then not written.                                     *)
LEMMA WriteBackType ==
    ASSUME NEW p, NEW provider, NEW r, NEW requester,
           agents \in [Registered -> AgentIdentity],
           p \in Registered => provider \in AgentIdentity,
           r \in Registered => requester \in AgentIdentity
    PROVE  WriteBack(p, provider, r, requester) \in [Registered -> AgentIdentity]
BY DEF WriteBack

(* What Disburse comes to when every leg reaches its payee.                *)
PaidInFull(c, currency, topUp, pay) ==
    /\ Total(pay) <= escrow[currency][c] + topUp
    /\ escrow' = [escrow EXCEPT ![currency][c] = @ + topUp - Total(pay)]
    /\ net' = [net EXCEPT ![c] = Exchange(@, topUp, pay)]

LEMMA LegsType ==
    ASSUME NEW pay \in Payment, NEW route, NEW places
    PROVE  /\ Legs(pay, route, places) \in Payment
           /\ Legs(pay, route, places).requester <= pay.requester
           /\ Legs(pay, route, places).provider <= pay.provider
           /\ Legs(pay, route, places).treasury <= pay.treasury
           /\ Legs(pay, route, places).insurance <= pay.insurance
           /\ Legs(pay, route, places).burn = pay.burn
BY DEF Payment, Legs

LEMMA TotalNat ==
    ASSUME NEW pay \in Payment
    PROVE  Total(pay) \in Nat
BY DEF Payment, Total

LEMMA PlusPayment ==
    ASSUME NEW first \in Payment, NEW second \in Payment
    PROVE  /\ PlusFlow(first, second) \in Payment
           /\ Total(PlusFlow(first, second)) = Total(first) + Total(second)
BY DEF Payment, PlusFlow, Total

LEMMA NothingPaid == NoPayment \in Payment
BY DEF Payment, NoPayment

LEMMA PlusNothing ==
    ASSUME NEW pay \in Payment
    PROVE  NoPayment \in Payment /\ PlusFlow(pay, NoPayment) = pay
BY DEF Payment, PlusFlow, NoPayment

(* A payment whose legs were all received left the escrow whole.           *)
LEMMA ReceivedWhole ==
    ASSUME NEW first \in Payment, NEW second \in Payment, NEW route,
           PlusFlow(Received(first, route), Received(second, route)) = PlusFlow(first, second)
    PROVE  Leaving(first, route) = first /\ Leaving(second, route) = second
<1> DEFINE f == Received(first, route)
           s == Received(second, route)
<1>1. /\ f.requester + s.requester = first.requester + second.requester
      /\ f.provider + s.provider = first.provider + second.provider
      /\ f.treasury + s.treasury = first.treasury + second.treasury
      /\ f.insurance + s.insurance = first.insurance + second.insurance
    BY DEF PlusFlow
<1>2. ASSUME NEW pay \in Payment,
             Received(pay, route).requester = pay.requester,
             Received(pay, route).provider = pay.provider,
             Received(pay, route).treasury = pay.treasury,
             Received(pay, route).insurance = pay.insurance
      PROVE  Leaving(pay, route) = pay
    <2>1. /\ route.requester # "payee" => pay.requester = 0
          /\ route.provider # "payee" => pay.provider = 0
          /\ route.treasury # "payee" => pay.treasury = 0
          /\ route.insurance # "payee" => pay.insurance = 0
        BY <1>2 DEF Received, Legs
    <2>2. /\ Leaving(pay, route).requester = pay.requester
          /\ Leaving(pay, route).provider = pay.provider
          /\ Leaving(pay, route).treasury = pay.treasury
          /\ Leaving(pay, route).insurance = pay.insurance
          /\ Leaving(pay, route).burn = pay.burn
        BY <2>1 DEF Leaving, Legs
    <2>3. Leaving(pay, route) \in Payment
        BY LegsType DEF Leaving
    <2> QED
        BY <2>2, <2>3 DEF Payment
<1>3. /\ f.requester <= first.requester /\ s.requester <= second.requester
      /\ f.provider <= first.provider /\ s.provider <= second.provider
      /\ f.treasury <= first.treasury /\ s.treasury <= second.treasury
      /\ f.insurance <= first.insurance /\ s.insurance <= second.insurance
      /\ f \in Payment /\ s \in Payment
    BY LegsType DEF Received
<1> HIDE DEF f, s
<1>4. /\ f.requester = first.requester /\ s.requester = second.requester
      /\ f.provider = first.provider /\ s.provider = second.provider
      /\ f.treasury = first.treasury /\ s.treasury = second.treasury
      /\ f.insurance = first.insurance /\ s.insurance = second.insurance
    BY <1>1, <1>3 DEF Payment
<1> QED
    BY <1>2, <1>4 DEF f, s

LEMMA SolventWhole ==
    ASSUME NEW balance \in Nat, NEW pay \in Payment, NEW route,
           Solvent(balance, pay, route)
    PROVE  /\ Leaving(pay, route) \in Payment
           /\ Total(Leaving(pay, route)) \in Nat
           /\ balance - Total(Leaving(pay, route)) \in Nat
<1>1. Leaving(pay, route) \in Payment
    BY LegsType DEF Leaving
<1>2. Total(Leaving(pay, route)) \in Nat
    BY <1>1, TotalNat
<1>3. Total(Leaving(pay, route)) <= balance
    BY DEF Solvent
<1> QED
    BY <1>1, <1>2, <1>3

(* Whatever accounts are named, only the escrow and the flows of c change,
   and keep their type; and unless c is astray, it was paid in full.       *)
LEMMA DisburseFacts ==
    ASSUME NEW c \in ContractIds, NEW currency \in Currencies, NEW topUp \in Nat,
           NEW first \in Payment, NEW second \in Payment,
           escrow \in [Currencies -> [ContractIds -> Nat]],
           net \in [ContractIds -> Flow],
           astray \subseteq ContractIds,
           Disburse(c, currency, topUp, first, second)
    PROVE  /\ \E balance \in Nat : escrow' = [escrow EXCEPT ![currency][c] = balance]
           /\ \E flow \in Flow : net' = [net EXCEPT ![c] = flow]
           /\ astray' \in {astray, astray \cup {c}}
           /\ c \notin astray' =>
                 /\ astray' = astray
                 /\ PaidInFull(c, currency, topUp, PlusFlow(first, second))
<1>1. PICK route : Transfers(c, currency, topUp, first, second, route)
    BY DEF Disburse
<1> DEFINE balance == escrow[currency][c] + topUp
           left == balance - Total(Leaving(first, route))
           after == left - Total(Leaving(second, route))
           received == PlusFlow(Received(first, route), Received(second, route))
<1>2. /\ Solvent(balance, first, route)
      /\ Solvent(left, second, route)
      /\ escrow' = [escrow EXCEPT ![currency][c] = after]
      /\ net' = [net EXCEPT ![c] = Exchange(net[c], topUp, received)]
      /\ astray' = IF received = PlusFlow(first, second) THEN astray ELSE astray \cup {c}
    BY <1>1 DEF Transfers
<1>3. balance \in Nat
    OBVIOUS
<1>4. left \in Nat /\ Total(Leaving(first, route)) \in Nat
    BY <1>2, <1>3, SolventWhole
<1>5. after \in Nat /\ Total(Leaving(second, route)) \in Nat
    BY <1>2, <1>4, SolventWhole
<1>6. received \in Payment
    <2>1. Received(first, route) \in Payment /\ Received(second, route) \in Payment
        BY LegsType DEF Received
    <2> QED
        BY <2>1, PlusPayment
<1>7. Exchange(net[c], topUp, received) \in Flow
    <2> HIDE DEF received
    <2>1. \A n : n \in Flow => PlusFlow(n, received) \in Flow
        BY <1>6 DEF Flow, Payment, PlusFlow
    <2>2. \A n : n \in Flow => [n EXCEPT !.requester = @ - topUp] \in Flow
        BY DEF Flow
    <2>3. net[c] \in Flow
        OBVIOUS
    <2> QED
        BY <2>1, <2>2, <2>3 DEF Exchange
<1>8. ASSUME c \notin astray'
      PROVE  /\ astray' = astray
             /\ PaidInFull(c, currency, topUp, PlusFlow(first, second))
    <2>1. received = PlusFlow(first, second) /\ astray' = astray
        BY <1>2, <1>8
    <2>2. Leaving(first, route) = first /\ Leaving(second, route) = second
        BY <2>1, ReceivedWhole
    <2>3. Total(PlusFlow(first, second)) = Total(first) + Total(second)
        BY PlusPayment
    <2>4. Total(PlusFlow(first, second)) <= balance /\ after = balance - Total(PlusFlow(first, second))
        BY <2>2, <2>3, <1>3, <1>4, <1>5
    <2>5. net' = [net EXCEPT ![c] = Exchange(net[c], topUp, PlusFlow(first, second))]
        BY <1>2, <2>1
    <2>6. escrow' = [escrow EXCEPT ![currency][c] =
                        escrow[currency][c] + topUp - Total(PlusFlow(first, second))]
        <3>1. escrow' = [escrow EXCEPT ![currency][c] = after]
            BY <1>2
        <3>2. after = escrow[currency][c] + topUp - Total(PlusFlow(first, second))
            <4>1. /\ escrow[currency][c] \in Nat
                  /\ Total(PlusFlow(first, second)) \in Nat
                BY PlusPayment, TotalNat
            <4> QED
                BY <2>4, <4>1
        <3> HIDE DEF after
        <3> QED
            BY <3>1, <3>2
    <2> QED
        BY <2>1, <2>4, <2>5, <2>6 DEF PaidInFull
<1>9. \E b \in Nat : escrow' = [escrow EXCEPT ![currency][c] = b]
    BY <1>2, <1>5
<1>10. \E flow \in Flow : net' = [net EXCEPT ![c] = flow]
    BY <1>2, <1>7
<1>11. astray' \in {astray, astray \cup {c}}
    BY <1>2
<1> QED
    BY <1>8, <1>9, <1>10, <1>11

(* The same of a settlement that pays once.                                *)
LEMMA DisburseOnce ==
    ASSUME NEW c \in ContractIds, NEW currency \in Currencies, NEW topUp \in Nat,
           NEW pay \in Payment,
           escrow \in [Currencies -> [ContractIds -> Nat]],
           net \in [ContractIds -> Flow],
           astray \subseteq ContractIds,
           Disburse(c, currency, topUp, pay, NoPayment)
    PROVE  /\ \E balance \in Nat : escrow' = [escrow EXCEPT ![currency][c] = balance]
           /\ \E flow \in Flow : net' = [net EXCEPT ![c] = flow]
           /\ astray' \in {astray, astray \cup {c}}
           /\ c \notin astray' =>
                 /\ astray' = astray
                 /\ PaidInFull(c, currency, topUp, pay)
<1>1. NoPayment \in Payment /\ PlusFlow(pay, NoPayment) = pay
    BY PlusNothing
<1>2. /\ \E balance \in Nat : escrow' = [escrow EXCEPT ![currency][c] = balance]
      /\ \E flow \in Flow : net' = [net EXCEPT ![c] = flow]
      /\ astray' \in {astray, astray \cup {c}}
      /\ c \notin astray' =>
            /\ astray' = astray
            /\ PaidInFull(c, currency, topUp, PlusFlow(pay, NoPayment))
    <2> HIDE DEF NoPayment
    <2> QED
        BY <1>1, DisburseFacts
<1> QED
    BY <1>1, <1>2

(* cancel_proposal pays as a settlement that names the requester's account. *)
LEMMA DirectDisburses ==
    ASSUME NEW c, NEW currency, NEW topUp, NEW first, NEW second,
           Transfers(c, currency, topUp, first, second, Direct)
    PROVE  Disburse(c, currency, topUp, first, second)
BY InputsAssumption DEF Disburse

(* A payment that the escrow covers leaves balances, and flows, of their type. *)
LEMMA DisburseType ==
    ASSUME NEW c \in ContractIds, NEW currency \in Currencies, NEW topUp \in Nat,
           NEW first \in Payment, NEW second \in Payment,
           escrow \in [Currencies -> [ContractIds -> Nat]],
           net \in [ContractIds -> Flow],
           astray \subseteq ContractIds,
           Disburse(c, currency, topUp, first, second)
    PROVE  /\ escrow' \in [Currencies -> [ContractIds -> Nat]]
           /\ net' \in [ContractIds -> Flow]
           /\ astray' \subseteq ContractIds
<1>1. PICK balance \in Nat : escrow' = [escrow EXCEPT ![currency][c] = balance]
    BY DisburseFacts
<1>2. PICK flow \in Flow : net' = [net EXCEPT ![c] = flow]
    BY DisburseFacts
<1>3. [escrow[currency] EXCEPT ![c] = balance] \in [ContractIds -> Nat]
    OBVIOUS
<1>4. escrow' = [escrow EXCEPT ![currency] = [escrow[currency] EXCEPT ![c] = balance]]
    BY <1>1
<1>5. astray' \in {astray, astray \cup {c}}
    BY DisburseFacts
<1> QED
    BY <1>2, <1>3, <1>4, <1>5

(* An amount paid in by a party leaves flows of their type.                *)
LEMMA ChargeType ==
    ASSUME NEW flow, NEW party, NEW amount, flow \in Flow, amount \in Nat
    PROVE  Charge(flow, party, amount) \in Flow
BY DEF Charge, Flow

LEMMA AbandonedType ==
    ASSUME NEW a, a \in AgentIdentity
    PROVE  Abandoned(a) \in AgentIdentity
<1> DEFINE b1 == [a EXCEPT !.tasks_abandoned = @ + 1]
           b2 == [b1 EXCEPT !.active_contracts = Monus(@, 1)]
<1>1. \A x : x \in AgentIdentity => Monus(x.active_contracts, 1) \in Nat
    BY DEF AgentIdentity, Monus
<1>2. b1 \in AgentIdentity
    BY DEF AgentIdentity
<1>3. b2 \in AgentIdentity
    <2> HIDE DEF b1
    <2> QED
        BY <1>1, <1>2 DEF AgentIdentity
<1> QED
    BY <1>3 DEF Abandoned

(* A Contract account of which one field is assigned.                      *)
LEMMA ContractUpdate ==
    ASSUME NEW k, k \in Contract
    PROVE  /\ \A x \in Agents : [k EXCEPT !.requester = x] \in Contract
           /\ \A x \in Agents : [k EXCEPT !.provider = x] \in Contract
           /\ \A x \in Values : [k EXCEPT !.value = x] \in Contract
           /\ \A x \in Currencies : [k EXCEPT !.currency = x] \in Contract
           /\ \A x \in Bps : [k EXCEPT !.escrow_factor_bps = x] \in Contract
           /\ \A x \in Nat : [k EXCEPT !.created_at = x] \in Contract
           /\ \A x \in Nat : [k EXCEPT !.max_corrections_contract = x] \in Contract
           /\ \A x \in Nat : [k EXCEPT !.deadline_validation_contract = x] \in Contract
           /\ \A x \in ContractStatus : [k EXCEPT !.status = x] \in Contract
           /\ \A x \in Nat : [k EXCEPT !.provider_stake = x] \in Contract
           /\ \A x \in Nat : [k EXCEPT !.provider_stake_required = x] \in Contract
           /\ \A x \in Nat : [k EXCEPT !.proposal_expires_at = x] \in Contract
           /\ \A x \in Nat : [k EXCEPT !.resolved_at = x] \in Contract
           /\ \A x \in Nat : [k EXCEPT !.corrections_used = x] \in Contract
           /\ \A x \in 0..4 : [k EXCEPT !.dispute_level = x] \in Contract
BY DEF Contract

(* The terms of a new contract are those of a Contract account.            *)
LEMMA TermsType ==
    ASSUME TypeOK, NEW r \in Requesters, NEW p \in Providers, NEW v \in Values,
           NEW input \in EscrowInputs, NEW currency \in Currencies
    PROVE  Terms(r, p, v, input, currency) \in Contract
<1>1. r \in Agents /\ p \in Agents
    BY PartiesAssumption
<1>2. ClampEscrowFactor(input) \in Bps
    <2>1. input \in Nat
        BY InputsNat
    <2> QED
        BY <2>1, ClampedFactor
<1>3. now \in Nat
    BY BoundsAssumption DEF TypeOK
<1>4. config.max_corrections \in Nat /\ config.deadline_validation \in Nat
    BY DEF TypeOK, ProtocolConfig
<1> DEFINE factor == ClampEscrowFactor(input)
           k1 == [NoContract EXCEPT !.requester = r]
           k2 == [k1 EXCEPT !.provider = p]
           k3 == [k2 EXCEPT !.value = v]
           k4 == [k3 EXCEPT !.currency = currency]
           k5 == [k4 EXCEPT !.escrow_factor_bps = factor]
           k6 == [k5 EXCEPT !.created_at = now]
           k7 == [k6 EXCEPT !.max_corrections_contract = config.max_corrections]
           k8 == [k7 EXCEPT !.deadline_validation_contract = config.deadline_validation]
<1>5. NoContract \in Contract
    BY DEF NoContract, Contract, ContractStatus, Currencies, Bps
<1>6. k4 \in Contract
    <2>1. k1 \in Contract
        BY <1>1, <1>5, ContractUpdate
    <2>2. k2 \in Contract
        BY <1>1, <2>1, ContractUpdate
    <2>3. k3 \in Contract
        BY <2>2, ContractUpdate
    <2> QED
        BY <2>3, ContractUpdate
<1>7. k8 \in Contract
    <2>1. k5 \in Contract
        BY <1>2, <1>6, ContractUpdate
    <2>2. k6 \in Contract
        BY <1>3, <2>1, ContractUpdate
    <2>3. k7 \in Contract
        BY <1>4, <2>2, ContractUpdate
    <2> QED
        BY <1>4, <2>3, ContractUpdate
<1>8. Terms(r, p, v, input, currency) = k8
    BY DEF Terms
<1> QED
    BY <1>7, <1>8

-----------------------------------------------------------------------------
(* One account replaced by one of its type.                                *)
LEMMA UpdateType ==
    ASSUME NEW S, NEW T, NEW f, NEW c, NEW x, f \in [S -> T], c \in S => x \in T
    PROVE  [f EXCEPT ![c] = x] \in [S -> T]
OBVIOUS

(* One balance replaced by another.                                        *)
LEMMA BalanceType ==
    ASSUME NEW f, NEW currency, NEW c, NEW x,
           f \in [Currencies -> [ContractIds -> Nat]], currency \in Currencies, x \in Nat
    PROVE  [f EXCEPT ![currency][c] = x] \in [Currencies -> [ContractIds -> Nat]]
<1>1. f[currency] \in [ContractIds -> Nat]
    OBVIOUS
<1>2. [f[currency] EXCEPT ![c] = x] \in [ContractIds -> Nat]
    BY <1>1, UpdateType
<1> QED
    BY <1>2, UpdateType

(* create_contract and propose_contract open an account of its type.       *)
LEMMA NewContractType ==
    ASSUME TypeOK, NEW k, NEW currency, NEW stake, NEW deposit,
           k \in Contract, currency \in Currencies, stake \in Nat, deposit \in Nat,
           NewContract(k, currency, stake, deposit)
    PROVE  /\ total_contracts' \in 0..MaxContracts
           /\ contracts' \in [ContractIds -> Contract]
           /\ escrow' \in [Currencies -> [ContractIds -> Nat]]
           /\ net' \in [ContractIds -> Flow]
<1> DEFINE c == total_contracts
<1>1. total_contracts' \in 0..MaxContracts
    BY BoundsAssumption DEF TypeOK, NewContract
<1>2. contracts' \in [ContractIds -> Contract]
    <2>1. contracts' = [contracts EXCEPT ![c] = k]
        BY DEF NewContract
    <2> QED
        BY <2>1, UpdateType DEF TypeOK
<1>3. escrow' \in [Currencies -> [ContractIds -> Nat]]
    <2>1. escrow' = [escrow EXCEPT ![currency][c] = stake + deposit]
        BY DEF NewContract
    <2> QED
        BY <2>1, BalanceType DEF TypeOK
<1>4. net' \in [ContractIds -> Flow]
    <2> DEFINE n1 == [net EXCEPT ![c] = [net[c] EXCEPT !.requester = -deposit]]
               n2 == [n1 EXCEPT ![c] = [n1[c] EXCEPT !.provider = -stake]]
    <2>1. \A f : f \in Flow => /\ [f EXCEPT !.requester = -deposit] \in Flow
                               /\ [f EXCEPT !.provider = -stake] \in Flow
        BY DEF Flow
    <2>2. n1 \in [ContractIds -> Flow]
        BY <2>1, UpdateType DEF TypeOK
    <2>3. n2 \in [ContractIds -> Flow]
        <3> HIDE DEF n1
        <3> QED
            BY <2>1, <2>2, UpdateType
    <2>4. net' = n2
        BY DEF NewContract
    <2> QED
        BY <2>3, <2>4
<1> QED
    BY <1>1, <1>2, <1>3, <1>4

(* An AgentIdentity account of which one field is assigned.                *)
LEMMA AgentUpdate ==
    ASSUME NEW a, a \in AgentIdentity
    PROVE  /\ [a EXCEPT !.active_contracts = @ + 1] \in AgentIdentity
           /\ [a EXCEPT !.total_deliveries = @ + 1] \in AgentIdentity
           /\ [a EXCEPT !.corrections_received = @ + 1] \in AgentIdentity
           /\ [a EXCEPT !.disputes_lost = @ + 1] \in AgentIdentity
           /\ [a EXCEPT !.matured = TRUE] \in AgentIdentity
           /\ \A x \in BOOLEAN : [a EXCEPT !.is_hibernating = x] \in AgentIdentity
           /\ \A x \in Nat : [a EXCEPT !.hibernation_ends_at = x] \in AgentIdentity
           /\ [a EXCEPT !.tasks_since_last_hibernation = 0] \in AgentIdentity
           /\ \A x \in TrustScores : [a EXCEPT !.trust_score = x] \in AgentIdentity
<1>1. [a EXCEPT !.active_contracts = @ + 1] \in AgentIdentity
    BY DEF AgentIdentity
<1>2. [a EXCEPT !.total_deliveries = @ + 1] \in AgentIdentity
    BY DEF AgentIdentity
<1>3. [a EXCEPT !.corrections_received = @ + 1] \in AgentIdentity
    BY DEF AgentIdentity
<1>4. [a EXCEPT !.disputes_lost = @ + 1] \in AgentIdentity
    BY DEF AgentIdentity
<1>5. [a EXCEPT !.matured = TRUE] \in AgentIdentity
    BY DEF AgentIdentity
<1>6. \A x \in BOOLEAN : [a EXCEPT !.is_hibernating = x] \in AgentIdentity
    BY DEF AgentIdentity
<1>7. \A x \in Nat : [a EXCEPT !.hibernation_ends_at = x] \in AgentIdentity
    BY DEF AgentIdentity
<1>8. [a EXCEPT !.tasks_since_last_hibernation = 0] \in AgentIdentity
    BY DEF AgentIdentity
<1>9. \A x \in TrustScores : [a EXCEPT !.trust_score = x] \in AgentIdentity
    BY DEF AgentIdentity
<1> QED
    BY <1>1, <1>2, <1>3, <1>4, <1>5, <1>6, <1>7, <1>8, <1>9

LEMMA CreateType ==
    ASSUME TypeOK, NEW r \in Requesters, NEW p \in Providers, NEW v \in Values,
           NEW input \in EscrowInputs, NEW currency \in Currencies,
           Create(r, p, v, input, currency)
    PROVE  TypeOK'
<1> DEFINE stake == StakeRequired(v, agents[p].trust_score)
           terms == Terms(r, p, v, input, currency)
           k1 == [terms EXCEPT !.status = "Active"]
           k2 == [k1 EXCEPT !.provider_stake = stake]
<1>1. agents[p] \in AgentIdentity
    BY PartiesAssumption DEF TypeOK
<1>2. stake \in Nat
    <2>1. agents[p].trust_score \in TrustScores
        BY <1>1 DEF AgentIdentity
    <2> QED
        BY <2>1, StakeRequiredNat
<1>3. k2 \in Contract
    <2>1. terms \in Contract
        BY TermsType
    <2> HIDE DEF terms, stake
    <2>2. k1 \in Contract
        BY <2>1, ContractUpdate DEF ContractStatus, LiveStatuses
    <2> QED
        BY <1>2, <2>2, ContractUpdate
<1>4. EscrowDeposit(k2) \in Nat
    BY <1>3, DepositWithinValue
<1>5. NewContract(k2, "Sworn", stake, EscrowDeposit(k2))
    BY DEF Create
<1> HIDE DEF k2, stake
<1>6. /\ total_contracts' \in 0..MaxContracts
      /\ contracts' \in [ContractIds -> Contract]
      /\ escrow' \in [Currencies -> [ContractIds -> Nat]]
      /\ net' \in [ContractIds -> Flow]
    BY <1>2, <1>3, <1>4, <1>5, NewContractType DEF Currencies
<1>7. agents' \in [Registered -> AgentIdentity]
    <2>1. agents' = [agents EXCEPT ![p] = [agents[p] EXCEPT !.active_contracts = @ + 1]]
        BY DEF Create
    <2> QED
        BY <1>1, <2>1, AgentUpdate, UpdateType DEF TypeOK
<1> QED
    BY <1>6, <1>7 DEF TypeOK, Create

LEMMA ProposeType ==
    ASSUME TypeOK, NEW r \in Requesters, NEW p \in Providers, NEW v \in Values,
           NEW expiry \in Expiries, NEW currency \in Currencies, NEW input \in EscrowInputs,
           Propose(r, p, v, expiry, currency, input)
    PROVE  TypeOK'
<1> DEFINE stake == StakeRequired(v, agents[p].trust_score)
           expires == IF expiry > 0 THEN now + expiry ELSE 0
           terms == Terms(r, p, v, input, currency)
           k1 == [terms EXCEPT !.status = "Proposed"]
           k2 == [k1 EXCEPT !.provider_stake_required = stake]
           k3 == [k2 EXCEPT !.proposal_expires_at = expires]
<1>1. stake \in Nat
    <2>1. agents[p] \in AgentIdentity
        BY PartiesAssumption DEF TypeOK
    <2>2. agents[p].trust_score \in TrustScores
        BY <2>1 DEF AgentIdentity
    <2> QED
        BY <2>2, StakeRequiredNat
<1>2. expires \in Nat
    <2>1. now \in Nat /\ expiry \in Nat
        BY BoundsAssumption, InputsNat DEF TypeOK
    <2> QED
        BY <2>1
<1>3. k3 \in Contract
    <2>1. terms \in Contract
        BY TermsType
    <2> HIDE DEF terms, stake, expires
    <2>2. k1 \in Contract
        BY <2>1, ContractUpdate DEF ContractStatus
    <2>3. k2 \in Contract
        BY <1>1, <2>2, ContractUpdate
    <2> QED
        BY <1>2, <2>3, ContractUpdate
<1>4. EscrowDeposit(k3) \in Nat
    BY <1>3, DepositWithinValue
<1>5. NewContract(k3, currency, 0, EscrowDeposit(k3))
    BY DEF Propose
<1> HIDE DEF k3
<1>6. /\ total_contracts' \in 0..MaxContracts
      /\ contracts' \in [ContractIds -> Contract]
      /\ escrow' \in [Currencies -> [ContractIds -> Nat]]
      /\ net' \in [ContractIds -> Flow]
    BY <1>3, <1>4, <1>5, NewContractType
<1> QED
    BY <1>6 DEF TypeOK, Propose

(* The types of what a handler reads of one contract.                      *)
LEMMA ContractFacts ==
    ASSUME TypeOK, NEW c \in ContractIds
    PROVE  /\ contracts[c] \in Contract
           /\ contracts[c].currency \in Currencies
           /\ contracts[c].value \in Values \cup {0}
           /\ contracts[c].value \in Nat
           /\ contracts[c].provider_stake \in Nat
           /\ contracts[c].provider_stake_required \in Nat
           /\ contracts[c].corrections_used \in Nat
           /\ EscrowDeposit(contracts[c]) \in Nat
           /\ TopUp(contracts[c]) \in Nat
           /\ Refund(contracts[c]) \in Payment
           /\ Payout(contracts[c], contracts[c].value) \in Payment
           /\ IgnoredPayout(contracts[c]) \in Payment
           /\ now \in Nat
<1>1. contracts[c] \in Contract
    BY DEF TypeOK
<1> DEFINE k == contracts[c]
<1> HIDE DEF k
<1>2. k \in Contract
    BY <1>1 DEF k
<1>3. /\ k.currency \in Currencies
      /\ k.value \in Values \cup {0}
      /\ k.provider_stake \in Nat
      /\ k.provider_stake_required \in Nat
      /\ k.corrections_used \in Nat
    BY <1>2 DEF Contract
<1>4. k.value \in Nat
    BY <1>3, ValuesNat
<1>5. EscrowDeposit(k) \in Nat /\ TopUp(k) \in Nat
    BY <1>2, DepositWithinValue
<1>6. Refund(k) \in Payment
    BY <1>2, RefundWhole
<1>7. config \in ProtocolConfig /\ now \in Nat
    BY BoundsAssumption DEF TypeOK
<1>8. Payout(k, k.value) \in Payment /\ IgnoredPayout(k) \in Payment
    BY <1>2, <1>4, <1>5, <1>7, PayoutWhole DEF IgnoredPayout
<1> QED
    BY <1>2, <1>3, <1>4, <1>5, <1>6, <1>7, <1>8 DEF k

LEMMA AcceptProposalType ==
    ASSUME TypeOK, NEW c \in ContractIds, AcceptProposal(c)
    PROVE  TypeOK'
<1> DEFINE k == contracts[c]
           stake == k.provider_stake_required
           f1 == [contracts EXCEPT ![c] = [contracts[c] EXCEPT !.provider_stake = stake]]
           f2 == [f1 EXCEPT ![c] = [f1[c] EXCEPT !.status = "Active"]]
           f3 == [f2 EXCEPT ![c] = [f2[c] EXCEPT !.created_at = now]]
<1>1. contracts' \in [ContractIds -> Contract]
    <2>1. f1 \in [ContractIds -> Contract]
        BY ContractFacts, ContractUpdate, UpdateType DEF TypeOK
    <2>2. f2 \in [ContractIds -> Contract]
        <3> HIDE DEF f1
        <3> QED
            BY <2>1, ContractUpdate, UpdateType DEF ContractStatus, LiveStatuses
    <2>3. f3 \in [ContractIds -> Contract]
        <3> HIDE DEF f2
        <3> QED
            BY <2>2, ContractFacts, ContractUpdate, UpdateType
    <2> QED
        BY <2>3 DEF AcceptProposal
<1>2. agents' \in [Registered -> AgentIdentity]
    <2>1. agents' = [agents EXCEPT ![k.provider] =
                        [agents[k.provider] EXCEPT !.active_contracts = @ + 1]]
        BY DEF AcceptProposal
    <2> QED
        BY <2>1, AgentUpdate, UpdateType DEF TypeOK
<1>3. escrow' \in [Currencies -> [ContractIds -> Nat]]
    <2>1. escrow[k.currency][c] + stake \in Nat
        BY ContractFacts DEF TypeOK
    <2>2. escrow' = [escrow EXCEPT ![k.currency][c] = escrow[k.currency][c] + stake]
        BY DEF AcceptProposal
    <2> QED
        BY <2>1, <2>2, ContractFacts, BalanceType DEF TypeOK
<1>4. net' \in [ContractIds -> Flow]
    <2>1. net' = [net EXCEPT ![c] = [net[c] EXCEPT !.provider = @ - stake]]
        BY DEF AcceptProposal
    <2>2. [net[c] EXCEPT !.provider = @ - stake] \in Flow
        BY ContractFacts DEF TypeOK, Flow
    <2> QED
        BY <2>1, <2>2, UpdateType DEF TypeOK
<1> QED
    BY <1>1, <1>2, <1>3, <1>4 DEF TypeOK, AcceptProposal

(* A contract that gets a status and a resolution date.                    *)
LEMMA ClosedType ==
    ASSUME TypeOK, NEW c \in ContractIds, NEW status, status \in ContractStatus
    PROVE  [contracts EXCEPT ![c].status = status, ![c].resolved_at = now]
               \in [ContractIds -> Contract]
<1> DEFINE f1 == [contracts EXCEPT ![c] = [contracts[c] EXCEPT !.status = status]]
           f2 == [f1 EXCEPT ![c] = [f1[c] EXCEPT !.resolved_at = now]]
<1>1. f1 \in [ContractIds -> Contract]
    BY ContractFacts, ContractUpdate, UpdateType DEF TypeOK
<1>2. f2 \in [ContractIds -> Contract]
    <2> HIDE DEF f1
    <2> QED
        BY <1>1, ContractFacts, ContractUpdate, UpdateType
<1> QED
    BY <1>2

(* The settlements of a contract by a party or by a deadline.              *)
LEMMA CancelProposalType ==
    ASSUME TypeOK, NEW c \in ContractIds, CancelProposal(c)
    PROVE  TypeOK'
<1> DEFINE pay == PayTo("requester", EscrowDeposit(contracts[c]))
<1>1. pay \in Payment
    BY ContractFacts, PayToWhole
<1>2. Disburse(c, contracts[c].currency, 0, pay, NoPayment)
    BY DirectDisburses DEF CancelProposal
<1> HIDE DEF pay
<1>3. /\ escrow' \in [Currencies -> [ContractIds -> Nat]]
      /\ net' \in [ContractIds -> Flow]
      /\ astray' \subseteq ContractIds
    BY <1>1, <1>2, ContractFacts, NothingPaid, DisburseType DEF TypeOK
<1>4. contracts' \in [ContractIds -> Contract]
    BY ClosedType DEF CancelProposal, ContractStatus, SettledStatuses
<1> QED
    BY <1>3, <1>4 DEF TypeOK, CancelProposal

LEMMA DeliverType ==
    ASSUME TypeOK, NEW c \in ContractIds, Deliver(c)
    PROVE  TypeOK'
<1>1. contracts' \in [ContractIds -> Contract]
    <2>1. contracts' = [contracts EXCEPT ![c] = [contracts[c] EXCEPT !.status = "Delivered"]]
        BY DEF Deliver
    <2> QED
        BY <2>1, ContractFacts, ContractUpdate, UpdateType
           DEF TypeOK, ContractStatus, LiveStatuses
<1>2. poe' \in [ContractIds -> ProofOfExecution]
    BY ContractFacts DEF TypeOK, Deliver, ProofOfExecution
<1>3. agents' \in [Registered -> AgentIdentity]
    <2> DEFINE p == contracts[c].provider
    <2>1. agents' = [agents EXCEPT ![p] = [agents[p] EXCEPT !.total_deliveries = @ + 1]]
        BY DEF Deliver
    <2> QED
        BY <2>1, AgentUpdate, UpdateType DEF TypeOK
<1> QED
    BY <1>1, <1>2, <1>3 DEF TypeOK, Deliver

LEMMA AcceptType ==
    ASSUME TypeOK, NEW c \in ContractIds, Accept(c)
    PROVE  TypeOK'
<1> DEFINE k == contracts[c]
           topUp == TopUp(k)
           pay == Payout(k, k.value)
<1>1. topUp \in Nat /\ pay \in Payment
    BY ContractFacts
<1>2. Disburse(c, k.currency, topUp, pay, NoPayment)
    BY DEF Accept
<1> HIDE DEF topUp, pay
<1>3. /\ escrow' \in [Currencies -> [ContractIds -> Nat]]
      /\ net' \in [ContractIds -> Flow]
      /\ astray' \subseteq ContractIds
    BY <1>1, <1>2, ContractFacts, NothingPaid, DisburseType DEF TypeOK
<1>4. contracts' \in [ContractIds -> Contract]
    BY ClosedType DEF Accept, ContractStatus, SettledStatuses
<1>5. poe' \in [ContractIds -> ProofOfExecution]
    BY DEF TypeOK, Accept, ProofOfExecution
<1>6. agents' \in [Registered -> AgentIdentity]
    BY TaskDoneType, UpdateType DEF TypeOK, Accept
<1> QED
    BY <1>3, <1>4, <1>5, <1>6 DEF TypeOK, Accept

LEMMA RejectDeliveryType ==
    ASSUME TypeOK, NEW c \in ContractIds, RejectDelivery(c)
    PROVE  TypeOK'
<1> DEFINE k == contracts[c]
           used == k.corrections_used + 1
           atLimit == used >= k.max_corrections_contract
           f1 == [contracts EXCEPT ![c] = [contracts[c] EXCEPT !.corrections_used = used]]
           f2 == [f1 EXCEPT ![c] = [f1[c] EXCEPT !.status = StatusAfterRejection(atLimit)]]
           f3 == [f2 EXCEPT ![c] = [f2[c] EXCEPT !.dispute_level = IF atLimit THEN 1 ELSE @]]
<1>1. contracts' \in [ContractIds -> Contract]
    <2>1. used \in Nat
        BY ContractFacts
    <2>2. StatusAfterRejection(atLimit) \in ContractStatus
        BY DEF StatusAfterRejection, ContractStatus, LiveStatuses
    <2>3. f1 \in [ContractIds -> Contract]
        BY <2>1, ContractFacts, ContractUpdate, UpdateType DEF TypeOK
    <2>4. f2 \in [ContractIds -> Contract]
        <3> HIDE DEF f1, atLimit
        <3> QED
            BY <2>2, <2>3, ContractUpdate, UpdateType
    <2>5. f3 \in [ContractIds -> Contract]
        <3> HIDE DEF f2, atLimit
        <3>1. f2[c] \in Contract
            BY <2>4
        <3>2. (IF atLimit THEN 1 ELSE f2[c].dispute_level) \in 0..4
            BY <3>1 DEF Contract
        <3> QED
            BY <2>4, <3>1, <3>2, ContractUpdate, UpdateType
    <2> QED
        BY <2>5 DEF RejectDelivery
<1>2. agents' \in [Registered -> AgentIdentity]
    <2> DEFINE p == contracts[c].provider
    <2>1. agents' = [agents EXCEPT ![p] = [agents[p] EXCEPT !.corrections_received = @ + 1]]
        BY DEF RejectDelivery
    <2> QED
        BY <2>1, AgentUpdate, UpdateType DEF TypeOK
<1> QED
    BY <1>1, <1>2 DEF TypeOK, RejectDelivery

LEMMA TimeoutType ==
    ASSUME TypeOK, NEW c \in ContractIds, Timeout(c)
    PROVE  TypeOK'
<1> DEFINE k == contracts[c]
           pay == Refund(k)
<1>1. pay \in Payment
    BY ContractFacts
<1>2. Disburse(c, k.currency, 0, pay, NoPayment)
    BY DEF Timeout
<1> HIDE DEF pay
<1>3. /\ escrow' \in [Currencies -> [ContractIds -> Nat]]
      /\ net' \in [ContractIds -> Flow]
      /\ astray' \subseteq ContractIds
    BY <1>1, <1>2, ContractFacts, NothingPaid, DisburseType DEF TypeOK
<1>4. contracts' \in [ContractIds -> Contract]
    BY ClosedType DEF Timeout, ContractStatus, SettledStatuses
<1>5. agents' \in [Registered -> AgentIdentity]
    BY AbandonedType, UpdateType DEF TypeOK, Timeout
<1>6. pool_balance' \in Nat
    BY ContractFacts, RatesAssumption, PartOfNat DEF TypeOK, Timeout
<1> QED
    BY <1>3, <1>4, <1>5, <1>6 DEF TypeOK, Timeout

LEMMA TimeoutDeliveryType ==
    ASSUME TypeOK, NEW c \in ContractIds, TimeoutDelivery(c)
    PROVE  TypeOK'
<1> DEFINE k == contracts[c]
           pay == IgnoredPayout(k)
<1>1. pay \in Payment
    BY ContractFacts
<1>2. Disburse(c, k.currency, 0, pay, NoPayment)
    BY DEF TimeoutDelivery
<1> HIDE DEF pay
<1>3. /\ escrow' \in [Currencies -> [ContractIds -> Nat]]
      /\ net' \in [ContractIds -> Flow]
      /\ astray' \subseteq ContractIds
    BY <1>1, <1>2, ContractFacts, NothingPaid, DisburseType DEF TypeOK
<1>4. contracts' \in [ContractIds -> Contract]
    BY ClosedType DEF TimeoutDelivery, ContractStatus, SettledStatuses
<1>5. poe' \in [ContractIds -> ProofOfExecution]
    BY DEF TypeOK, TimeoutDelivery, ProofOfExecution
<1>6. agents' \in [Registered -> AgentIdentity]
    <2> DEFINE p == k.provider
               r == k.requester
               provider == TaskDone(agents[p])
               requester == [agents[r] EXCEPT !.disputes_lost = @ + 1]
    <2>1. p \in Registered => provider \in AgentIdentity
        BY TaskDoneType DEF TypeOK
    <2>2. r \in Registered => requester \in AgentIdentity
        BY AgentUpdate DEF TypeOK
    <2>3. agents' = WriteBack(p, provider, r, requester)
        BY DEF TimeoutDelivery
    <2> HIDE DEF p, r, provider, requester
    <2> QED
        BY <2>1, <2>2, <2>3, WriteBackType DEF TypeOK
<1> QED
    BY <1>3, <1>4, <1>5, <1>6 DEF TypeOK, TimeoutDelivery

-----------------------------------------------------------------------------
(* A Dispute account of which one field is assigned.                       *)
LEMMA DisputeUpdate ==
    ASSUME NEW d, d \in Dispute
    PROVE  /\ \A x \in DisputeStatus : [d EXCEPT !.status = x] \in Dispute
           /\ \A x \in DisputeLevels : [d EXCEPT !.level = x] \in Dispute
           /\ \A x \in Nat : [d EXCEPT !.deadline = x] \in Dispute
           /\ \A x \in Nat : [d EXCEPT !.jury_size = x] \in Dispute
           /\ \A x \in Nat : [d EXCEPT !.arbitration_fee = x] \in Dispute
           /\ \A x \in Nat : [d EXCEPT !.corrections_count = x] \in Dispute
           /\ \A x \in Nat : [d EXCEPT !.private_rounds_count = x] \in Dispute
           /\ \A x \in Nat : [d EXCEPT !.appeal_stake = x] \in Dispute
           /\ \A x \in Nat : [d EXCEPT !.votes_provider = x] \in Dispute
           /\ \A x \in Nat : [d EXCEPT !.votes_requester = x] \in Dispute
           /\ \A x \in Agents \cup {NoAgent} : [d EXCEPT !.initiator = x] \in Dispute
BY DEF Dispute

(* The types of what a handler reads of one dispute.                       *)
LEMMA DisputeFacts ==
    ASSUME TypeOK, NEW c \in ContractIds
    PROVE  /\ disputes[c] \in Dispute
           /\ disputes[c].level \in DisputeLevels
           /\ disputes[c].status \in DisputeStatus
           /\ disputes[c].deadline \in Nat
           /\ disputes[c].jury_size \in Nat
           /\ disputes[c].arbitration_fee \in Nat
           /\ disputes[c].corrections_count \in Nat
           /\ disputes[c].private_rounds_count \in Nat
           /\ disputes[c].appeal_stake \in Nat
           /\ disputes[c].votes_provider \in Nat
           /\ disputes[c].votes_requester \in Nat
           /\ now \in Nat
<1>1. disputes[c] \in Dispute
    BY DEF TypeOK
<1>2. now \in Nat
    BY BoundsAssumption DEF TypeOK
<1> QED
    BY <1>1, <1>2 DEF Dispute

(* A contract whose dispute level is written.                              *)
LEMMA LevelWrittenType ==
    ASSUME TypeOK, NEW c \in ContractIds, NEW n, n \in 0..4
    PROVE  [contracts EXCEPT ![c].dispute_level = n] \in [ContractIds -> Contract]
BY ContractFacts, ContractUpdate, UpdateType DEF TypeOK

LEMMA DisputeStatuses ==
    /\ \A x \in {"Open", "Responded", "Voting", "JuryDecided"} : x \in DisputeStatus
    /\ "ResolvedProvider" \in DisputeStatus /\ "ResolvedRequester" \in DisputeStatus
BY DEF DisputeStatus, ResolvedStatuses

LEMMA WindowsNat ==
    /\ DirectWindow \in Nat
    /\ PrivateWindow \in Nat
    /\ JuryWindow \in Nat
    /\ AppealWindow \in Nat
    /\ AppealJurySize \in Nat
    /\ \A v \in Values \cup {0} : JurySize[v] \in Nat
BY JuryAssumption

LEMMA InitiateType ==
    ASSUME TypeOK, NEW c \in ContractIds, Initiate(c)
    PROVE  TypeOK'
<1> DEFINE f1 == [contracts EXCEPT ![c] = [contracts[c] EXCEPT !.status = "Disputed"]]
           f2 == [f1 EXCEPT ![c] = [f1[c] EXCEPT !.dispute_level = 1]]
           r == contracts[c].requester
           d1 == [NoDispute EXCEPT !.initiator = r]
           d2 == [d1 EXCEPT !.status = "Open"]
           d3 == [d2 EXCEPT !.deadline = now + DirectWindow]
<1>1. contracts' \in [ContractIds -> Contract]
    <2>1. f1 \in [ContractIds -> Contract]
        BY ContractFacts, ContractUpdate, UpdateType DEF TypeOK, ContractStatus, LiveStatuses
    <2>2. f2 \in [ContractIds -> Contract]
        <3> HIDE DEF f1
        <3>1. [f1[c] EXCEPT !.dispute_level = 1] \in Contract
            BY <2>1 DEF Contract
        <3> QED
            BY <2>1, <3>1, UpdateType
    <2> QED
        BY <2>2 DEF Initiate
<1>2. disputes' \in [ContractIds -> Dispute]
    <2>1. r \in Agents \cup {NoAgent}
        BY ContractFacts DEF Contract
    <2>2. NoDispute \in Dispute
        BY DEF NoDispute, Dispute, DisputeLevels, DisputeStatus
    <2>3. d1 \in Dispute
        BY <2>1, <2>2, DisputeUpdate
    <2>4. d2 \in Dispute
        <3> HIDE DEF d1
        <3> QED
            BY <2>3, DisputeUpdate, DisputeStatuses
    <2>5. d3 \in Dispute
        <3> HIDE DEF d2
        <3>1. now \in Nat /\ DirectWindow \in Nat
            BY DisputeFacts, WindowsNat
        <3>2. now + DirectWindow \in Nat
            BY <3>1
        <3> QED
            BY <2>4, <3>2, DisputeUpdate
    <2>6. disputes' = [disputes EXCEPT ![c] = d3]
        BY DEF Initiate
    <2> HIDE DEF d3
    <2> QED
        BY <2>5, <2>6, UpdateType DEF TypeOK
<1> QED
    BY <1>1, <1>2 DEF TypeOK, Initiate

LEMMA RespondType ==
    ASSUME TypeOK, NEW c \in ContractIds, Respond(c)
    PROVE  TypeOK'
<1> DEFINE d == disputes[c]
           isRound == d.level = "PrivateRounds" /\ d.private_rounds_count < 5
           f1 == [disputes EXCEPT ![c] = [disputes[c] EXCEPT !.status = "Responded"]]
           rounds == IF isRound THEN f1[c].private_rounds_count + 1 ELSE f1[c].private_rounds_count
           f2 == [f1 EXCEPT ![c] = [f1[c] EXCEPT !.private_rounds_count = rounds]]
<1>1. f1 \in [ContractIds -> Dispute]
    BY DisputeFacts, DisputeUpdate, DisputeStatuses, UpdateType DEF TypeOK
<1>2. f2 \in [ContractIds -> Dispute]
    <2> HIDE DEF f1, isRound
    <2>1. f1[c] \in Dispute
        BY <1>1
    <2>2. rounds \in Nat
        BY <2>1 DEF Dispute
    <2> QED
        BY <1>1, <2>1, <2>2, DisputeUpdate, UpdateType
<1>3. disputes' = f2
    BY DEF Respond
<1> QED
    BY <1>2, <1>3 DEF TypeOK, Respond

LEMMA EscalateType ==
    ASSUME TypeOK, NEW c \in ContractIds, Escalate(c)
    PROVE  TypeOK'
<1> DEFINE d == disputes[c]
           k == contracts[c]
           toJury == d.level = "PrivateRounds"
           deadline == now + (IF toJury THEN JuryWindow ELSE PrivateWindow)
           size == IF toJury THEN JurySize[k.value] ELSE d.jury_size
           fee == IF toJury THEN PartOf(k.value, 200) ELSE d.arbitration_fee
           d1 == [d EXCEPT !.level = NextLevel(d.level)]
           d2 == [d1 EXCEPT !.status = "Open"]
           d3 == [d2 EXCEPT !.deadline = deadline]
           d4 == [d3 EXCEPT !.jury_size = size]
           d5 == [d4 EXCEPT !.arbitration_fee = fee]
<1>1. deadline \in Nat
    <2>1. now \in Nat /\ JuryWindow \in Nat /\ PrivateWindow \in Nat
        BY DisputeFacts, WindowsNat
    <2> QED
        BY <2>1
<1>2. size \in Nat /\ fee \in Nat
    BY ContractFacts, DisputeFacts, WindowsNat, PartOfNat
<1>3. d5 \in Dispute
    <2> HIDE DEF deadline, size, fee
    <2>1. d1 \in Dispute
        BY DisputeFacts, DisputeUpdate DEF NextLevel, DisputeLevels
    <2>2. d2 \in Dispute
        <3> HIDE DEF d1
        <3> QED
            BY <2>1, DisputeUpdate, DisputeStatuses
    <2>3. d3 \in Dispute
        <3> HIDE DEF d2
        <3> QED
            BY <1>1, <2>2, DisputeUpdate
    <2>4. d4 \in Dispute
        <3> HIDE DEF d3
        <3> QED
            BY <1>2, <2>3, DisputeUpdate
    <2> HIDE DEF d4
    <2> QED
        BY <1>2, <2>4, DisputeUpdate
<1>4. disputes' = [disputes EXCEPT ![c] = d5]
    BY DEF Escalate
<1>5. disputes' \in [ContractIds -> Dispute]
    <2> HIDE DEF d5
    <2> QED
        BY <1>3, <1>4, UpdateType DEF TypeOK
<1>6. contracts' \in [ContractIds -> Contract]
    <2> DEFINE n == IF toJury THEN 3 ELSE 2
    <2>1. n \in 0..4
        OBVIOUS
    <2>2. contracts' = [contracts EXCEPT ![c].dispute_level = n]
        BY DEF Escalate
    <2> HIDE DEF n
    <2> QED
        BY <2>1, <2>2, LevelWrittenType
<1> QED
    BY <1>5, <1>6 DEF TypeOK, Escalate

LEMMA EscalateToAppealType ==
    ASSUME TypeOK, NEW c \in ContractIds, NEW by \in Agents, EscalateToAppeal(c, by)
    PROVE  TypeOK'
<1> DEFINE d == disputes[c]
           k == contracts[c]
           stake == k.value \div 2
           party == IF by = k.provider THEN "provider" ELSE "requester"
           d1 == [d EXCEPT !.appeal_stake = stake]
           d2 == [d1 EXCEPT !.initiator = by]
           d3 == [d2 EXCEPT !.level = "Appeal"]
           d4 == [d3 EXCEPT !.status = "Open"]
           d5 == [d4 EXCEPT !.jury_size = AppealJurySize]
           d6 == [d5 EXCEPT !.deadline = now + AppealWindow]
           d7 == [d6 EXCEPT !.votes_provider = 0]
           d8 == [d7 EXCEPT !.votes_requester = 0]
<1>1. stake \in Nat
    <2>1. k.value \in Nat
        BY ContractFacts
    <2> QED
        BY <2>1
<1>2. d8 \in Dispute
    <2> HIDE DEF stake
    <2>1. now + AppealWindow \in Nat
        <3>1. now \in Nat /\ AppealWindow \in Nat
            BY DisputeFacts, WindowsNat
        <3> QED
            BY <3>1
    <2>2. d2 \in Dispute
        <3>1. d1 \in Dispute
            BY <1>1, DisputeFacts, DisputeUpdate
        <3> HIDE DEF d1
        <3> QED
            BY <3>1, DisputeUpdate
    <2>3. d4 \in Dispute
        <3> HIDE DEF d2
        <3>1. d3 \in Dispute
            BY <2>2, DisputeUpdate DEF DisputeLevels
        <3> HIDE DEF d3
        <3> QED
            BY <3>1, DisputeUpdate, DisputeStatuses
    <2>4. d6 \in Dispute
        <3> HIDE DEF d4
        <3>1. d5 \in Dispute
            BY <2>3, DisputeUpdate, WindowsNat
        <3> HIDE DEF d5
        <3> QED
            BY <2>1, <3>1, DisputeUpdate
    <2> HIDE DEF d6
    <2>5. d7 \in Dispute
        BY <2>4 DEF Dispute
    <2> HIDE DEF d7
    <2> QED
        BY <2>5 DEF Dispute
<1>3. disputes' \in [ContractIds -> Dispute]
    <2>1. disputes' = [disputes EXCEPT ![c] = d8]
        BY DEF EscalateToAppeal, Appealed
    <2> HIDE DEF d8
    <2> QED
        BY <1>2, <2>1, UpdateType DEF TypeOK
<1>4. contracts' \in [ContractIds -> Contract]
    <2>1. contracts' = [contracts EXCEPT ![c] = [contracts[c] EXCEPT !.dispute_level = 4]]
        BY DEF EscalateToAppeal
    <2>2. [contracts[c] EXCEPT !.dispute_level = 4] \in Contract
        BY ContractFacts DEF Contract
    <2> QED
        BY <2>1, <2>2, UpdateType DEF TypeOK
<1>5. escrow' \in [Currencies -> [ContractIds -> Nat]]
    <2> DEFINE balance == escrow["Sworn"][c] + stake
    <2>1. balance \in Nat
        BY <1>1 DEF TypeOK, Currencies
    <2>2. escrow' = [escrow EXCEPT !["Sworn"][c] = balance]
        BY DEF EscalateToAppeal
    <2> HIDE DEF balance
    <2> QED
        BY <2>1, <2>2, BalanceType DEF TypeOK, Currencies
<1>6. net' \in [ContractIds -> Flow]
    <2>1. net' = [net EXCEPT ![c] = Charge(net[c], party, stake)]
        BY DEF EscalateToAppeal
    <2> HIDE DEF party, stake
    <2>2. Charge(net[c], party, stake) \in Flow
        BY <1>1, ChargeType DEF TypeOK
    <2> QED
        BY <2>1, <2>2, UpdateType DEF TypeOK
<1> QED
    BY <1>3, <1>4, <1>5, <1>6 DEF TypeOK, EscalateToAppeal

LEMMA VoteType ==
    ASSUME TypeOK, NEW c \in ContractIds, NEW j \in Jurors, NEW forProvider \in BOOLEAN,
           Vote(j, c, forProvider)
    PROVE  TypeOK'
<1> DEFINE d == disputes[c]
           vp == d.votes_provider + (IF forProvider THEN 1 ELSE 0)
           vr == d.votes_requester + (IF forProvider THEN 0 ELSE 1)
           majority == MajorityThreshold(d.jury_size)
           status == IF vp >= majority \/ vr >= majority THEN "JuryDecided" ELSE "Voting"
           d1 == [d EXCEPT !.votes_provider = vp]
           d2 == [d1 EXCEPT !.votes_requester = vr]
           d3 == [d2 EXCEPT !.status = status]
           record == [juror |-> j, vote_for_provider |-> forProvider, level |-> d.level]
<1>1. d3 \in Dispute
    <2>1. vp \in Nat /\ vr \in Nat
        <3>1. d.votes_provider \in Nat /\ d.votes_requester \in Nat
            BY DisputeFacts
        <3> QED
            BY <3>1
    <2>2. status \in DisputeStatus
        BY DEF DisputeStatus
    <2> HIDE DEF vp, vr, status
    <2>3. d1 \in Dispute
        BY <2>1, DisputeFacts, DisputeUpdate
    <2>4. d2 \in Dispute
        <3> HIDE DEF d1
        <3> QED
            BY <2>1, <2>3, DisputeUpdate
    <2> HIDE DEF d2
    <2> QED
        BY <2>2, <2>4, DisputeUpdate
<1>2. disputes' \in [ContractIds -> Dispute]
    <2>1. disputes' = [disputes EXCEPT ![c] = d3]
        BY DEF Vote, AfterVote
    <2> HIDE DEF d3
    <2> QED
        BY <1>1, <2>1, UpdateType DEF TypeOK
<1>3. votes' \in [ContractIds -> SUBSET VoteRecord]
    <2>1. record \in VoteRecord
        BY PartiesAssumption, DisputeFacts DEF VoteRecord
    <2>2. votes' = [votes EXCEPT ![c] = votes[c] \cup {record}]
        BY DEF Vote
    <2> HIDE DEF record
    <2>3. votes[c] \cup {record} \in SUBSET VoteRecord
        BY <2>1 DEF TypeOK
    <2> QED
        BY <2>2, <2>3, UpdateType DEF TypeOK
<1> QED
    BY <1>2, <1>3 DEF TypeOK, Vote

(* What a verdict takes out of escrow, and what it credits the pool with.  *)
LEMMA VerdictTypes ==
    ASSUME TypeOK, NEW c \in ContractIds, NEW wins \in BOOLEAN
    PROVE  /\ DisputePayment(contracts[c], wins) \in Payment
           /\ AppealPayment(contracts[c], disputes[c], wins) \in Payment
           /\ PlusFlow(DisputePayment(contracts[c], wins),
                       AppealPayment(contracts[c], disputes[c], wins)) \in Payment
           /\ DisputeCredit(contracts[c], wins) \in Nat
           /\ AppealCredit(contracts[c], disputes[c], wins) \in Nat
<1> DEFINE k == contracts[c]
           d == disputes[c]
<1>1. DisputePayment(k, wins) \in Payment
    <2>1. EscrowDeposit(k) \in Nat /\ k.provider_stake \in Nat /\ Refund(k) \in Payment
        BY ContractFacts
    <2>2. EscrowDeposit(k) + k.provider_stake \in Nat
        BY <2>1
    <2> HIDE DEF k
    <2> QED
        BY <2>1, <2>2, PayToWhole DEF DisputePayment
<1>2. AppealPayment(k, d, wins) \in Payment
    <2>1. d.appeal_stake \in Nat
        BY DisputeFacts
    <2>2. NoPayment \in Payment
        BY DEF NoPayment, Payment
    <2> HIDE DEF k, d
    <2> QED
        BY <2>1, <2>2, PayToWhole, ConfiscationWhole DEF AppealPayment
<1>3. \A a, b : a \in Payment /\ b \in Payment => PlusFlow(a, b) \in Payment
    BY DEF Payment, PlusFlow
<1>4. DisputeCredit(k, wins) \in Nat
    <2>1. /\ PartOf(k.provider_stake, InsuranceRateBps) \in Nat
          /\ PartOf(k.provider_stake, BurnRateBps) \in Nat
        BY ContractFacts, RatesAssumption, PartOfNat
    <2> HIDE DEF k
    <2> QED
        BY <2>1 DEF DisputeCredit
<1>5. AppealCredit(k, d, wins) \in Nat
    <2>1. PartOf(d.appeal_stake, InsuranceRateBps) \in Nat
        BY DisputeFacts, RatesAssumption, PartOfNat
    <2> HIDE DEF k, d
    <2> QED
        BY <2>1 DEF AppealCredit
<1> HIDE DEF k, d
<1>6. PlusFlow(DisputePayment(k, wins), AppealPayment(k, d, wins)) \in Payment
    BY <1>1, <1>2, <1>3
<1> QED
    BY <1>1, <1>2, <1>4, <1>5, <1>6 DEF k, d

LEMMA ResolveType ==
    ASSUME TypeOK, NEW c \in ContractIds, NEW verdict \in BOOLEAN, Resolve(c, verdict)
    PROVE  TypeOK'
<1> DEFINE k == contracts[c]
           d == disputes[c]
           p == k.provider
           r == k.requester
           wins == ProviderWins(d, verdict)
           outcome == IF wins THEN "ResolvedProvider" ELSE "ResolvedRequester"
           pay == DisputePayment(k, wins)
           appeal == AppealPayment(k, d, wins)
           provider == Judged(Released(agents[p]), "provider", k, d, wins)
           requester == Judged(agents[r], "requester", k, d, wins)
<1>1. wins \in BOOLEAN
    <2>1. CASE JuryLevel(d)
        <3>1. wins = (d.votes_provider > d.votes_requester)
            BY <2>1 DEF ProviderWins
        <3> QED
            BY <3>1
    <2>2. CASE ~JuryLevel(d)
        <3>1. wins = verdict
            BY <2>2 DEF ProviderWins
        <3> QED
            BY <3>1
    <2> QED
        BY <2>1, <2>2
<1>2. /\ pay \in Payment /\ appeal \in Payment
      /\ DisputeCredit(k, wins) \in Nat
      /\ AppealCredit(k, d, wins) \in Nat
    <2> HIDE DEF wins
    <2> QED
        BY <1>1, VerdictTypes
<1>3. Disburse(c, k.currency, 0, pay, appeal)
    BY DEF Resolve
<1>4. /\ escrow' \in [Currencies -> [ContractIds -> Nat]]
      /\ net' \in [ContractIds -> Flow]
      /\ astray' \subseteq ContractIds
    <2> HIDE DEF pay, appeal
    <2> QED
        BY <1>2, <1>3, ContractFacts, DisburseType DEF TypeOK
<1>5. disputes' \in [ContractIds -> Dispute]
    <2>1. disputes' = [disputes EXCEPT ![c] = [disputes[c] EXCEPT !.status = outcome]]
        BY DEF Resolve
    <2>2. outcome \in DisputeStatus
        BY DisputeStatuses
    <2> HIDE DEF outcome
    <2> QED
        BY <2>1, <2>2, DisputeFacts, DisputeUpdate, UpdateType DEF TypeOK
<1>6. contracts' \in [ContractIds -> Contract]
    <2>1. contracts' = [contracts EXCEPT ![c].status = outcome, ![c].resolved_at = now]
        BY DEF Resolve
    <2>2. outcome \in ContractStatus
        BY DEF ContractStatus, SettledStatuses
    <2> HIDE DEF outcome
    <2> QED
        BY <2>1, <2>2, ClosedType
<1>7. agents' \in [Registered -> AgentIdentity]
    <2>1. p \in Registered => provider \in AgentIdentity
        <3>1. p \in Registered => Released(agents[p]) \in AgentIdentity
            BY TaskDoneType DEF TypeOK
        <3> HIDE DEF p, k, wins
        <3> QED
            BY <3>1, DisputeFacts, JudgedType
    <2>2. r \in Registered => requester \in AgentIdentity
        <3>1. r \in Registered => agents[r] \in AgentIdentity
            BY DEF TypeOK
        <3> HIDE DEF r, k, wins
        <3> QED
            BY <3>1, DisputeFacts, JudgedType
    <2>3. agents' = WriteBack(p, provider, r, requester)
        BY DEF Resolve
    <2> HIDE DEF p, r, provider, requester
    <2> QED
        BY <2>1, <2>2, <2>3, WriteBackType DEF TypeOK
<1>8. pool_balance' \in Nat
    <2>1. pool_balance' = pool_balance + DisputeCredit(k, wins) + AppealCredit(k, d, wins)
        BY DEF Resolve
    <2> HIDE DEF wins, k, d
    <2> QED
        BY <1>2, <2>1 DEF TypeOK
<1> QED
    BY <1>4, <1>5, <1>6, <1>7, <1>8 DEF TypeOK, Resolve

LEMMA RedeliverType ==
    ASSUME TypeOK, NEW c \in ContractIds, Redeliver(c)
    PROVE  TypeOK'
<1> DEFINE d == disputes[c]
           count == d.corrections_count + 1
           exhausted == count >= config.max_corrections
           deadline == now + (IF exhausted THEN PrivateWindow ELSE DirectWindow)
           g1 == [disputes EXCEPT ![c] = [disputes[c] EXCEPT !.corrections_count = count]]
           g2 == [g1 EXCEPT ![c] = [g1[c] EXCEPT !.level = IF exhausted THEN "PrivateRounds" ELSE @]]
           g3 == [g2 EXCEPT ![c] = [g2[c] EXCEPT !.status = "Open"]]
           g4 == [g3 EXCEPT ![c] = [g3[c] EXCEPT !.deadline = deadline]]
           f1 == [contracts EXCEPT ![c] = [contracts[c] EXCEPT !.status = "Delivered"]]
           f2 == [f1 EXCEPT ![c] = [f1[c] EXCEPT !.dispute_level = IF exhausted THEN 2 ELSE @]]
<1>1. count \in Nat /\ deadline \in Nat
    <2>1. /\ d.corrections_count \in Nat /\ now \in Nat
          /\ PrivateWindow \in Nat /\ DirectWindow \in Nat
        BY DisputeFacts, WindowsNat
    <2> QED
        BY <2>1
<1>2. disputes' \in [ContractIds -> Dispute]
    <2>1. disputes' = g4
        BY DEF Redeliver
    <2> HIDE DEF count, deadline, exhausted
    <2>2. g1 \in [ContractIds -> Dispute]
        BY <1>1, DisputeFacts, DisputeUpdate, UpdateType DEF TypeOK
    <2>3. g2 \in [ContractIds -> Dispute]
        <3> HIDE DEF g1
        <3>1. g1[c] \in Dispute
            BY <2>2
        <3>2. (IF exhausted THEN "PrivateRounds" ELSE g1[c].level) \in DisputeLevels
            BY <3>1 DEF Dispute, DisputeLevels
        <3> QED
            BY <2>2, <3>1, <3>2, DisputeUpdate, UpdateType
    <2>4. g3 \in [ContractIds -> Dispute]
        <3> HIDE DEF g2
        <3> QED
            BY <2>3, DisputeUpdate, DisputeStatuses, UpdateType
    <2>5. g4 \in [ContractIds -> Dispute]
        <3> HIDE DEF g3
        <3> QED
            BY <1>1, <2>4, DisputeUpdate, UpdateType
    <2> QED
        BY <2>1, <2>5
<1>3. contracts' \in [ContractIds -> Contract]
    <2>1. contracts' = f2
        BY DEF Redeliver
    <2> HIDE DEF exhausted
    <2>2. f1 \in [ContractIds -> Contract]
        BY ContractFacts, ContractUpdate, UpdateType DEF TypeOK, ContractStatus, LiveStatuses
    <2>3. f2 \in [ContractIds -> Contract]
        <3> HIDE DEF f1
        <3>1. f1[c] \in Contract
            BY <2>2
        <3>2. (IF exhausted THEN 2 ELSE f1[c].dispute_level) \in 0..4
            BY <3>1 DEF Contract
        <3> QED
            BY <2>2, <3>1, <3>2, ContractUpdate, UpdateType
    <2> QED
        BY <2>1, <2>3
<1>4. poe' \in [ContractIds -> ProofOfExecution]
    BY DisputeFacts DEF TypeOK, Redeliver, ProofOfExecution
<1>5. agents' \in [Registered -> AgentIdentity]
    <2> DEFINE p == contracts[c].provider
    <2>1. agents' = [agents EXCEPT ![p] = [agents[p] EXCEPT !.total_deliveries = @ + 1]]
        BY DEF Redeliver
    <2> QED
        BY <2>1, AgentUpdate, UpdateType DEF TypeOK
<1> QED
    BY <1>2, <1>3, <1>4, <1>5 DEF TypeOK, Redeliver

LEMMA AcceptCorrectionType ==
    ASSUME TypeOK, NEW c \in ContractIds, AcceptCorrection(c)
    PROVE  TypeOK'
<1> DEFINE k == contracts[c]
           d == disputes[c]
           p == k.provider
           r == k.requester
           topUp == TopUp(k)
           pay == CorrectionPayout(k)
           done == TaskDone(agents[p])
           corrected == [done EXCEPT !.corrections_received = @ + d.corrections_count]
           provider == Rounds(corrected, d)
           requester == Rounds(agents[r], d)
<1>1. topUp \in Nat /\ pay \in Payment
    BY ContractFacts DEF CorrectionPayout
<1>2. Disburse(c, k.currency, topUp, pay, NoPayment)
    BY DEF AcceptCorrection
<1>3. /\ escrow' \in [Currencies -> [ContractIds -> Nat]]
      /\ net' \in [ContractIds -> Flow]
      /\ astray' \subseteq ContractIds
    <2> HIDE DEF topUp, pay
    <2> QED
        BY <1>1, <1>2, ContractFacts, NothingPaid, DisburseType DEF TypeOK
<1>4. contracts' \in [ContractIds -> Contract]
    BY ClosedType DEF AcceptCorrection, ContractStatus, SettledStatuses
<1>5. disputes' \in [ContractIds -> Dispute]
    <2>1. disputes' = [disputes EXCEPT ![c] = [disputes[c] EXCEPT !.status = "ResolvedProvider"]]
        BY DEF AcceptCorrection
    <2> QED
        BY <2>1, DisputeFacts, DisputeStatuses, DisputeUpdate, UpdateType DEF TypeOK
<1>6. poe' \in [ContractIds -> ProofOfExecution]
    BY DEF TypeOK, AcceptCorrection, ProofOfExecution
<1>7. agents' \in [Registered -> AgentIdentity]
    <2>1. p \in Registered => provider \in AgentIdentity
        <3>1. p \in Registered => done \in AgentIdentity
            BY TaskDoneType DEF TypeOK
        <3>2. d \in Dispute /\ d.corrections_count \in Nat
            BY DisputeFacts
        <3> HIDE DEF p, d, done
        <3>3. p \in Registered => corrected \in AgentIdentity
            BY <3>1, <3>2 DEF AgentIdentity
        <3> HIDE DEF corrected
        <3> QED
            BY <3>2, <3>3, RoundsType
    <2>2. r \in Registered => requester \in AgentIdentity
        BY DisputeFacts, RoundsType DEF TypeOK
    <2>3. agents' = WriteBack(p, provider, r, requester)
        BY DEF AcceptCorrection
    <2> HIDE DEF p, r, provider, requester
    <2> QED
        BY <2>1, <2>2, <2>3, WriteBackType DEF TypeOK
<1> QED
    BY <1>3, <1>4, <1>5, <1>6, <1>7 DEF TypeOK, AcceptCorrection

-----------------------------------------------------------------------------
(* The identity instructions and the admin's.                              *)
LEMMA IdentityType ==
    ASSUME TypeOK, NEW a \in Registered, IdentityOn(a)
    PROVE  TypeOK'
<1>1. agents[a] \in AgentIdentity
    BY DEF TypeOK
<1>2. \A x : x \in AgentIdentity /\ ChangeAgent(a, x) => TypeOK'
    <2> SUFFICES ASSUME NEW x, x \in AgentIdentity, ChangeAgent(a, x) PROVE TypeOK'
        OBVIOUS
    <2>1. agents' \in [Registered -> AgentIdentity]
        BY UpdateType DEF TypeOK, ChangeAgent
    <2> QED
        BY <2>1 DEF TypeOK, ChangeAgent
<1>3. CASE CalculateTrustScore(a)
    <2>1. PICK score \in Scores[a] : ChangeAgent(a, [agents[a] EXCEPT !.trust_score = score])
        BY <1>3 DEF CalculateTrustScore
    <2>2. score \in TrustScores
        BY InputsAssumption
    <2>3. [agents[a] EXCEPT !.trust_score = score] \in AgentIdentity
        BY <1>1, <2>2, AgentUpdate
    <2> QED
        BY <1>2, <2>1, <2>3
<1>4. ASSUME NEW duration \in HibernationTimes, Hibernate(a, duration)
      PROVE  TypeOK'
    <2> DEFINE b1 == [agents[a] EXCEPT !.is_hibernating = TRUE]
               b2 == [b1 EXCEPT !.hibernation_ends_at = now + duration]
               b3 == [b2 EXCEPT !.tasks_since_last_hibernation = 0]
    <2>1. now + duration \in Nat
        <3>1. now \in Nat /\ duration \in Nat
            BY BoundsAssumption, InputsNat DEF TypeOK
        <3> QED
            BY <3>1
    <2>2. b1 \in AgentIdentity
        BY <1>1, AgentUpdate
    <2>3. b2 \in AgentIdentity
        <3> HIDE DEF b1
        <3> QED
            BY <2>1, <2>2, AgentUpdate
    <2>4. b3 \in AgentIdentity
        <3> HIDE DEF b2
        <3> QED
            BY <2>3, AgentUpdate
    <2>5. ChangeAgent(a, b3)
        BY <1>4 DEF Hibernate
    <2> HIDE DEF b3
    <2> QED
        BY <1>2, <2>4, <2>5
<1>5. Awake(a) \in AgentIdentity
    <2> DEFINE b1 == [agents[a] EXCEPT !.is_hibernating = FALSE]
               b2 == [b1 EXCEPT !.hibernation_ends_at = 0]
    <2>1. b1 \in AgentIdentity
        BY <1>1, AgentUpdate
    <2>2. b2 \in AgentIdentity
        <3> HIDE DEF b1
        <3> QED
            BY <2>1 DEF AgentIdentity
    <2> QED
        BY <2>2 DEF Awake
<1>6. CASE Wake(a) \/ ExpireHibernation(a)
    BY <1>2, <1>5, <1>6 DEF Wake, ExpireHibernation
<1>7. CASE ForceMature(a)
    BY <1>1, <1>2, <1>7, AgentUpdate DEF ForceMature
<1> QED
    BY <1>3, <1>4, <1>6, <1>7 DEF IdentityOn

(* The program starts with accounts of their types.                        *)
LEMMA InitType == ASSUME Init PROVE TypeOK
<1>1. contracts \in [ContractIds -> Contract]
    BY DEF Init, NoContract, Contract, ContractStatus, Currencies, Bps
<1>2. poe \in [ContractIds -> ProofOfExecution]
    BY DEF Init, NoPoE, ProofOfExecution
<1>3. disputes \in [ContractIds -> Dispute]
    BY DEF Init, NoDispute, Dispute, DisputeLevels, DisputeStatus
<1>4. agents \in [Registered -> AgentIdentity]
    <2>1. PICK score \in [Registered -> UNION {Scores[a] : a \in Registered}] :
              /\ \A a \in Registered : score[a] \in Scores[a]
              /\ agents = [a \in Registered |-> NewAgent(score[a], a \notin Newcomers)]
        BY DEF Init
    <2>2. \A a \in Registered : score[a] \in TrustScores
        BY <2>1, InputsAssumption
    <2>3. \A a \in Registered : NewAgent(score[a], a \notin Newcomers) \in AgentIdentity
        BY <2>2 DEF NewAgent, AgentIdentity
    <2> QED
        BY <2>1, <2>3
<1>5. net \in [ContractIds -> Flow]
    BY DEF Init, NoPayment, Flow
<1>6. config \in ProtocolConfig
    BY InputsAssumption DEF Init
<1>7. now \in 0..MaxTime
    BY BoundsAssumption DEF Init
<1> QED
    BY <1>1, <1>2, <1>3, <1>4, <1>5, <1>6, <1>7, BoundsAssumption DEF Init, TypeOK

LEMMA GiftType ==
    ASSUME TypeOK, NEW c \in ContractIds, NEW currency \in Currencies, NEW amount \in Nat,
           Gift(c, currency, amount)
    PROVE  TypeOK'
<1> DEFINE balance == escrow[currency][c] + amount
<1>1. balance \in Nat
    BY DEF TypeOK
<1>2. escrow' \in [Currencies -> [ContractIds -> Nat]]
    <2>1. escrow' = [escrow EXCEPT ![currency] = [escrow[currency] EXCEPT ![c] = balance]]
        BY DEF Gift
    <2>2. [escrow[currency] EXCEPT ![c] = balance] \in [ContractIds -> Nat]
        BY <1>1 DEF TypeOK
    <2> HIDE DEF balance
    <2> QED
        BY <2>1, <2>2 DEF TypeOK
<1> QED
    BY <1>2 DEF TypeOK, Gift

(* Every step keeps the types; one case per action.                        *)
LEMMA NextType ==
    ASSUME TypeOK, Next
    PROVE  TypeOK'
<1>1. CASE \E r \in Requesters, p \in Providers, v \in Values, i \in EscrowInputs,
              cur \in CreateCurrencies : Create(r, p, v, i, cur)
    BY <1>1, InputsAssumption, CreateType
<1>2. CASE \E r \in Requesters, p \in Providers, v \in Values, x \in Expiries,
              cur \in ProposeCurrencies, i \in EscrowInputs : Propose(r, p, v, x, cur, i)
    BY <1>2, InputsAssumption, ProposeType
<1>3. ASSUME NEW c \in ContractIds, LifecycleOn(c)
      PROVE  TypeOK'
    BY <1>3, AcceptProposalType, CancelProposalType, DeliverType, AcceptType,
       RejectDeliveryType, TimeoutType, TimeoutDeliveryType DEF LifecycleOn
<1>4. ASSUME NEW c \in ContractIds, DisputeOn(c)
      PROVE  TypeOK'
    BY <1>4, InitiateType, RespondType, EscalateType, EscalateToAppealType, VoteType,
       ResolveType, RedeliverType, AcceptCorrectionType DEF DisputeOn
<1>5. ASSUME NEW a \in Registered, IdentityOn(a)
      PROVE  TypeOK'
    BY <1>5, IdentityType
<1>6. ASSUME NEW settings \in Configs, UpdateConfig(settings)
      PROVE  TypeOK'
    BY <1>6, InputsAssumption DEF UpdateConfig, TypeOK
<1>7. ASSUME NEW c \in ContractIds, NEW currency \in Currencies, NEW amount \in Gifts,
             Gift(c, currency, amount)
      PROVE  TypeOK'
    BY <1>7, InputsAssumption, GiftType
<1>8. CASE Tick
    BY <1>8, BoundsAssumption DEF Tick, TypeOK
<1> QED
    BY <1>1, <1>2, <1>3, <1>4, <1>5, <1>6, <1>7, <1>8
       DEF Next, LifecycleNext, DisputeNext, IdentityNext

(* Every account field keeps its type in every reachable state: amounts and
   counters never underflow, although handlers subtract fees, shares of
   stakes and payments from balances.                                      *)
THEOREM TypeCorrect == Spec => []TypeOK
<1>1. Init => TypeOK
    BY InitType
<1>2. TypeOK /\ [Next]_vars => TypeOK'
    <2>1. CASE Next
        BY <2>1, NextType
    <2>2. CASE UNCHANGED vars
        BY <2>2 DEF vars, TypeOK
    <2> QED
        BY <2>1, <2>2
<1> QED
    BY <1>1, <1>2, PTL DEF Spec
=============================================================================
