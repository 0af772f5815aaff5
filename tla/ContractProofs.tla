--------------------------- MODULE ContractProofs ---------------------------
(***************************************************************************)
(* Spec => []EscrowMatchesRecords.  The invariant is not inductive: it     *)
(* needs that accounts not yet created are blank and that a proposal       *)
(* carries no stake.  A settlement that names another account than a       *)
(* payee's puts its contract in `astray`; what is proved of the others is  *)
(* that the handlers, in any order, take out what they book, and of those  *)
(* too that the money is there until they are settled.                     *)
(*                                                                         *)
(* Spec => SettledIsFinal, in the second part.  resolve_dispute looks at   *)
(* neither the status of the contract nor an earlier verdict: a second one *)
(* is stopped by the empty escrow alone.  So finality rests on the escrow  *)
(* being exact, and the contract must be Regular: paid to its payees, and  *)
(* with a deposit that is more than nothing.                               *)
(*                                                                         *)
(* The order of a dispute and its votes, in the third: Spec =>             *)
(* LevelsClimb, DeliveredNeverAbandoned, TallyMatchesVotes and             *)
(* VerdictFollowsVotes.  The votes of a dispute are kept as one account    *)
(* per juror, its tally as two counters that an appeal resets and no       *)
(* handler recomputes; no assumption is made on values, fees or limits.    *)
(***************************************************************************)
EXTENDS TypeProofs, FiniteSetTheorems

(* No fee is above 100%: update_config does not check it.                  *)
FeesBounded ==
    \A settings \in Configs : \A cur \in Currencies : settings.protocol_fee_bps[cur] <= 10000

(* Owed(c), as functions of the two accounts. *)
Escrowed(k) ==
    IF k.status = "Proposed" \/ k.status \in LiveStatuses
    THEN EscrowDeposit(k) + k.provider_stake ELSE 0

Pending(d) == IF HasAppeal(d) /\ d.status \notin ResolvedStatuses THEN d.appeal_stake ELSE 0

(* Exactly that, unless c was paid astray; and until it is settled, enough. *)
Balanced(c) ==
    /\ c \notin astray => Held(c) = Pending(disputes[c]) + Escrowed(contracts[c])
    /\ contracts[c].status = "Proposed" \/ contracts[c].status \in LiveStatuses =>
           Held(c) >= Pending(disputes[c]) + Escrowed(contracts[c])

Consistent(c) ==
    /\ contracts[c].status = "None" => disputes[c].status = "None" /\ c \notin astray
    /\ disputes[c].status = "None" => ~HasAppeal(disputes[c])
    /\ contracts[c].status = "Proposed" => contracts[c].provider_stake = 0
    /\ contracts[c].status # "None" =>
           contracts[c].value \in Values /\ contracts[c].escrow_factor_bps >= 3000

BlankExactly == \A c \in ContractIds : contracts[c].status = "None" <=> c >= total_contracts

(* The inductive invariant. *)
EscrowInv ==
    /\ TypeOK
    /\ config \in Configs
    /\ BlankExactly
    /\ \A c \in ContractIds : Balanced(c) /\ Consistent(c)

(* Nothing happened to the accounts of x. *)
Untouched(x) ==
    /\ x \in astray' <=> x \in astray
    /\ contracts'[x] = contracts[x]
    /\ disputes'[x] = disputes[x]
    /\ \A cur \in Currencies : escrow'[cur][x] = escrow[cur][x]

LEMMA OwedByAccount ==
    ASSUME NEW c \in ContractIds
    PROVE  Pending(disputes[c]) + Escrowed(contracts[c]) = Owed(c)
BY DEF Owed, PendingAppeal, IsDecided, IsLive, Pending, Escrowed

(* The two balances of a contract are natural numbers.                     *)
LEMMA HeldNat ==
    ASSUME TypeOK, NEW c \in ContractIds
    PROVE  /\ escrow["Sworn"][c] \in Nat /\ escrow["Sol"][c] \in Nat
           /\ Held(c) \in Nat
<1>1. escrow["Sworn"][c] \in Nat /\ escrow["Sol"][c] \in Nat
    BY DEF TypeOK, Currencies
<1> QED
    BY <1>1 DEF Held

LEMMA UntouchedKeeps ==
    ASSUME NEW x \in ContractIds, Untouched(x), Balanced(x), Consistent(x)
    PROVE  Balanced(x)' /\ Consistent(x)'
<1>1. Held(x)' = Held(x)
    BY DEF Held, Untouched, Currencies
<1>2. Balanced(x)'
    BY <1>1 DEF Balanced, Untouched
<1>3. Consistent(x)'
    BY DEF Consistent, Untouched
<1> QED
    BY <1>2, <1>3

(* A payment moves what it says, out of one contract's escrow, unless the
   contract is paid astray.                                                *)
LEMMA DisburseHeld ==
    ASSUME TypeOK, NEW c \in ContractIds, NEW currency, NEW topUp, NEW first, NEW second,
           currency \in Currencies, topUp \in Nat, first \in Payment, second \in Payment,
           Disburse(c, currency, topUp, first, second)
    PROVE  LET amount == Total(PlusFlow(first, second))
           IN  /\ amount \in Nat
               /\ c \notin astray' =>
                      /\ c \notin astray
                      /\ Held(c)' = Held(c) + topUp - amount
                      /\ amount <= Held(c) + topUp
               /\ \A x \in ContractIds \ {c} :
                      /\ x \in astray' <=> x \in astray
                      /\ \A cur \in Currencies : escrow'[cur][x] = escrow[cur][x]
<1> DEFINE pay == PlusFlow(first, second)
           amount == Total(pay)
           balance == escrow[currency][c] + topUp - amount
<1>1. pay \in Payment /\ amount \in Nat
    <2>1. pay \in Payment
        BY PlusPayment
    <2> HIDE DEF pay
    <2> QED
        BY <2>1, TotalNat
<1>2. escrow["Sworn"][c] \in Nat /\ escrow["Sol"][c] \in Nat
    BY HeldNat
<1>3. /\ escrow \in [Currencies -> [ContractIds -> Nat]]
      /\ net \in [ContractIds -> Flow]
      /\ astray \subseteq ContractIds
    BY DEF TypeOK
<1>4. /\ \E b \in Nat : escrow' = [escrow EXCEPT ![currency][c] = b]
      /\ astray' \in {astray, astray \cup {c}}
      /\ c \notin astray' =>
            /\ astray' = astray
            /\ PaidInFull(c, currency, topUp, pay)
    BY <1>3, DisburseFacts
<1>5. \A x \in ContractIds \ {c} :
          /\ x \in astray' <=> x \in astray
          /\ \A cur \in Currencies : escrow'[cur][x] = escrow[cur][x]
    <2>1. PICK b \in Nat : escrow' = [escrow EXCEPT ![currency][c] = b]
        BY <1>4
    <2> QED
        BY <1>3, <1>4, <2>1
<1> HIDE DEF pay, amount
<1>6. ASSUME c \notin astray'
      PROVE  /\ c \notin astray
             /\ Held(c)' = Held(c) + topUp - amount
             /\ amount <= Held(c) + topUp
    <2>1. astray' = astray /\ amount <= escrow[currency][c] + topUp
        BY <1>4, <1>6 DEF PaidInFull, amount
    <2>2. escrow' = [escrow EXCEPT ![currency][c] = balance]
        BY <1>4, <1>6 DEF PaidInFull, amount
    <2>3. CASE currency = "Sworn"
        <3>1. escrow'["Sworn"][c] = escrow["Sworn"][c] + topUp - amount
            BY <1>3, <2>2, <2>3 DEF Currencies
        <3>2. escrow'["Sol"][c] = escrow["Sol"][c]
            BY <1>3, <2>2, <2>3 DEF Currencies
        <3>3. Held(c)' = Held(c) + topUp - amount /\ amount <= Held(c) + topUp
            BY <1>1, <1>2, <2>1, <2>3, <3>1, <3>2 DEF Held
        <3> QED
            BY <1>6, <2>1, <3>3
    <2>4. CASE currency = "Sol"
        <3>1. escrow'["Sol"][c] = escrow["Sol"][c] + topUp - amount
            BY <1>3, <2>2, <2>4 DEF Currencies
        <3>2. escrow'["Sworn"][c] = escrow["Sworn"][c]
            BY <1>3, <2>2, <2>4 DEF Currencies
        <3>3. Held(c)' = Held(c) + topUp - amount /\ amount <= Held(c) + topUp
            BY <1>1, <1>2, <2>1, <2>4, <3>1, <3>2 DEF Held
        <3> QED
            BY <1>6, <2>1, <3>3
    <2> QED
        BY <2>3, <2>4 DEF Currencies
<1> QED
    BY <1>1, <1>5, <1>6 DEF amount, pay

(* What each settlement takes out, in terms of what is recorded.           *)
LEMMA SettlementTotals ==
    ASSUME FeesBounded, EscrowInv, NEW c \in ContractIds
    PROVE  LET k == contracts[c]
               recorded == EscrowDeposit(k) + k.provider_stake
           IN  /\ Total(Refund(k)) = recorded
               /\ Total(IgnoredPayout(k)) = recorded
               /\ Total(Payout(k, k.value)) = TopUp(k) + recorded
<1> DEFINE k == contracts[c]
<1>1. k \in Contract /\ k.currency \in Currencies /\ k.provider_stake \in Nat /\ k.value \in Nat
    BY ContractFacts DEF EscrowInv
<1>2. config \in ProtocolConfig /\ config \in Configs
    BY DEF EscrowInv, TypeOK
<1>3. config.protocol_fee_bps[k.currency] <= 10000
    BY <1>1, <1>2 DEF FeesBounded
<1> HIDE DEF k
<1>4. EscrowDeposit(k) \in Nat /\ TopUp(k) \in Nat /\ TopUp(k) + EscrowDeposit(k) = k.value
    BY <1>1, DepositWithinValue
<1>5. Total(Payout(k, k.value)) = k.value + k.provider_stake
    BY <1>1, <1>2, <1>3, PayoutWhole
<1>6. Total(IgnoredPayout(k)) = EscrowDeposit(k) + k.provider_stake
    BY <1>1, <1>2, <1>3, <1>4, PayoutWhole DEF IgnoredPayout
<1>7. Total(Refund(k)) = EscrowDeposit(k) + k.provider_stake
    BY <1>1, RefundWhole
<1>8. Total(Payout(k, k.value)) = TopUp(k) + (EscrowDeposit(k) + k.provider_stake)
    <2> DEFINE t == Total(Payout(k, k.value))
               v == k.value
               u == TopUp(k)
               e == EscrowDeposit(k)
               q == k.provider_stake
    <2>1. t = v + q
        BY <1>5
    <2>2. u + e = v /\ u \in Nat /\ e \in Nat
        BY <1>4
    <2>3. q \in Nat
        BY <1>1
    <2> HIDE DEF t, v, u, e, q
    <2>4. t = u + (e + q)
        BY <2>1, <2>2, <2>3
    <2> QED
        BY <2>4 DEF t, u, e, q
<1> QED
    BY <1>6, <1>7, <1>8, <1>1, <1>4 DEF k

(* A contract that is closed by a payment of what is recorded for it, less
   what stays for an appeal, is balanced unless it is paid astray, and no
   other is touched.                                                       *)
LEMMA ClosingKeeps ==
    ASSUME EscrowInv, NEW c \in ContractIds, NEW status, NEW topUp, NEW first, NEW second,
           contracts[c].status # "None", status \in SettledStatuses, topUp \in Nat,
           first \in Payment, second \in Payment,
           Disburse(c, contracts[c].currency, topUp, first, second),
           contracts' = [contracts EXCEPT ![c].status = status, ![c].resolved_at = now],
           \A x \in ContractIds \ {c} : disputes'[x] = disputes[x],
           disputes'[c].status = "None" => ~HasAppeal(disputes'[c]),
           Pending(disputes'[c]) \in Nat,
           c \notin astray' =>
               Total(PlusFlow(first, second)) + Pending(disputes'[c]) =
                   topUp + Escrowed(contracts[c]) + Pending(disputes[c])
    PROVE  /\ \A x \in ContractIds : Balanced(x)' /\ Consistent(x)'
           /\ \A x \in ContractIds :
                  contracts'[x].status = "None" <=> contracts[x].status = "None"
<1> DEFINE t == Total(PlusFlow(first, second))
<1>1. TypeOK /\ Balanced(c) /\ Consistent(c) /\ contracts[c].currency \in Currencies
    BY ContractFacts DEF EscrowInv
<1>2. /\ t \in Nat
      /\ c \notin astray' =>
            /\ c \notin astray
            /\ Held(c)' = Held(c) + topUp - t
      /\ \A x \in ContractIds \ {c} :
            /\ x \in astray' <=> x \in astray
            /\ \A cur \in Currencies : escrow'[cur][x] = escrow[cur][x]
    BY <1>1, DisburseHeld
<1>3. /\ contracts'[c] = [contracts[c] EXCEPT !.status = status, !.resolved_at = now]
      /\ \A x \in ContractIds \ {c} : contracts'[x] = contracts[x]
    BY <1>1 DEF TypeOK
<1>4. \A x \in ContractIds \ {c} : Balanced(x)' /\ Consistent(x)'
    <2> SUFFICES ASSUME NEW x \in ContractIds \ {c} PROVE Balanced(x)' /\ Consistent(x)'
        OBVIOUS
    <2>1. Untouched(x)
        BY <1>2, <1>3 DEF Untouched
    <2> QED
        BY <2>1, UntouchedKeeps DEF EscrowInv
<1>5. /\ contracts'[c].status = status
      /\ contracts'[c].value = contracts[c].value
      /\ contracts'[c].escrow_factor_bps = contracts[c].escrow_factor_bps
      /\ contracts'[c].provider_stake = contracts[c].provider_stake
    BY <1>1, <1>3 DEF TypeOK, Contract
<1>6. status \notin LiveStatuses \cup {"Proposed", "None"}
    BY DEF SettledStatuses, LiveStatuses
<1>7. ASSUME c \notin astray' PROVE Held(c)' = Pending(disputes'[c])
    <2>1. Held(c) = Pending(disputes[c]) + Escrowed(contracts[c])
        BY <1>1, <1>2, <1>7 DEF Balanced
    <2>2. Held(c) \in Nat
        BY <1>1, HeldNat
    <2> DEFINE h == Held(c)
               e == Escrowed(contracts[c])
               q == Pending(disputes[c])
               q2 == Pending(disputes'[c])
               h2 == Held(c)'
    <2>3. q \in Nat /\ e \in Nat
        <3>1. q \in Nat
            BY <1>1, DisputeFacts DEF Pending
        <3>2. e \in Nat
            <4>1. EscrowDeposit(contracts[c]) \in Nat /\ contracts[c].provider_stake \in Nat
                BY <1>1, ContractFacts
            <4> QED
                BY <4>1 DEF Escrowed
        <3> QED
            BY <3>1, <3>2
    <2>4. /\ h = q + e /\ h2 = h + topUp - t /\ t + q2 = topUp + e + q
          /\ h \in Nat /\ t \in Nat /\ q2 \in Nat
        BY <1>2, <1>7, <2>1, <2>2
    <2> HIDE DEF h, t, e, q, q2, h2
    <2>5. h2 = q2
        BY <2>3, <2>4
    <2> QED
        BY <2>5 DEF h2, q2
<1>8. Escrowed(contracts'[c]) = 0
    BY <1>5, <1>6 DEF Escrowed
<1>9. Balanced(c)'
    BY <1>5, <1>6, <1>7, <1>8 DEF Balanced
<1>10. Consistent(c)'
    BY <1>1, <1>5, <1>6 DEF Consistent
<1>11. \A x \in ContractIds : contracts'[x].status = "None" <=> contracts[x].status = "None"
    BY <1>3, <1>5, <1>6
<1> QED
    BY <1>4, <1>9, <1>10, <1>11

(* A step that moves no money and does not close a contract.               *)
LEMMA QuietKeeps ==
    ASSUME EscrowInv, NEW c \in ContractIds,
           escrow' = escrow, astray' = astray,
           \A x \in ContractIds \ {c} : contracts'[x] = contracts[x] /\ disputes'[x] = disputes[x],
           contracts'[c].value = contracts[c].value,
           contracts'[c].escrow_factor_bps = contracts[c].escrow_factor_bps,
           contracts'[c].provider_stake = contracts[c].provider_stake,
           \/ contracts'[c].status = contracts[c].status
           \/ contracts'[c].status \in LiveStatuses /\ contracts[c].status \in LiveStatuses,
           contracts[c].status = "None" => disputes'[c].status = "None",
           disputes'[c].status = "None" => ~HasAppeal(disputes'[c]),
           Pending(disputes'[c]) = Pending(disputes[c])
    PROVE  /\ \A x \in ContractIds : Balanced(x)' /\ Consistent(x)'
           /\ \A x \in ContractIds :
                  contracts'[x].status = "None" <=> contracts[x].status = "None"
<1>1. \A x \in ContractIds \ {c} : Balanced(x)' /\ Consistent(x)'
    <2> SUFFICES ASSUME NEW x \in ContractIds \ {c} PROVE Balanced(x)' /\ Consistent(x)'
        OBVIOUS
    <2>1. Untouched(x)
        BY DEF Untouched
    <2> QED
        BY <2>1, UntouchedKeeps DEF EscrowInv
<1>2. "None" \notin LiveStatuses /\ "Proposed" \notin LiveStatuses
    BY DEF LiveStatuses
<1>3. Escrowed(contracts'[c]) = Escrowed(contracts[c])
    BY <1>2 DEF Escrowed, EscrowDeposit
<1>4. Balanced(c)'
    <2>1. Held(c)' = Held(c)
        BY DEF Held
    <2>2. Balanced(c)
        BY DEF EscrowInv
    <2> QED
        BY <1>2, <1>3, <2>1, <2>2 DEF Balanced
<1>5. Consistent(c)'
    BY <1>2 DEF EscrowInv, Consistent
<1>6. \A x \in ContractIds : contracts'[x].status = "None" <=> contracts[x].status = "None"
    BY <1>2
<1> QED
    BY <1>1, <1>4, <1>5, <1>6

LEMMA DeliverKeeps ==
    ASSUME EscrowInv, NEW c \in ContractIds, Deliver(c)
    PROVE  /\ \A x \in ContractIds : Balanced(x)' /\ Consistent(x)'
           /\ \A x \in ContractIds :
                  contracts'[x].status = "None" <=> contracts[x].status = "None"
<1>1. contracts' = [contracts EXCEPT ![c].status = "Delivered"]
    BY DEF Deliver
<1>2. contracts[c].status \in {"Active", "CorrectionRequested"} /\ contracts[c] \in Contract
    BY ContractFacts DEF Deliver, EscrowInv
<1>3. /\ contracts'[c] = [contracts[c] EXCEPT !.status = "Delivered"]
      /\ \A x \in ContractIds \ {c} : contracts'[x] = contracts[x]
    BY <1>1 DEF EscrowInv, TypeOK
<1>4. /\ contracts'[c].status = "Delivered"
      /\ contracts'[c].value = contracts[c].value
      /\ contracts'[c].escrow_factor_bps = contracts[c].escrow_factor_bps
      /\ contracts'[c].provider_stake = contracts[c].provider_stake
    BY <1>2, <1>3 DEF Contract
<1>5. contracts'[c].status \in LiveStatuses /\ contracts[c].status \in LiveStatuses
    BY <1>2, <1>4 DEF LiveStatuses
<1>6. disputes' = disputes /\ escrow' = escrow /\ astray' = astray
    BY DEF Deliver
<1>7. /\ contracts[c].status = "None" => disputes'[c].status = "None"
      /\ disputes'[c].status = "None" => ~HasAppeal(disputes'[c])
    BY <1>6 DEF EscrowInv, Consistent
<1> QED
    BY <1>3, <1>4, <1>5, <1>6, <1>7, QuietKeeps

LEMMA RejectDeliveryKeeps ==
    ASSUME EscrowInv, NEW c \in ContractIds, RejectDelivery(c)
    PROVE  /\ \A x \in ContractIds : Balanced(x)' /\ Consistent(x)'
           /\ \A x \in ContractIds :
                  contracts'[x].status = "None" <=> contracts[x].status = "None"
<1> DEFINE used == contracts[c].corrections_used + 1
           atLimit == used >= contracts[c].max_corrections_contract
           status == StatusAfterRejection(atLimit)
<1>1. contracts' = [contracts EXCEPT ![c].corrections_used = used,
                                     ![c].status = status,
                                     ![c].dispute_level = IF atLimit THEN 1 ELSE @]
    BY DEF RejectDelivery
<1>2. contracts[c].status \in LiveStatuses /\ contracts[c] \in Contract
    BY ContractFacts DEF RejectDelivery, EscrowInv, LiveStatuses
<1>3. status \in LiveStatuses
    BY DEF StatusAfterRejection, LiveStatuses
<1>4. /\ contracts'[c].status = status
      /\ contracts'[c].value = contracts[c].value
      /\ contracts'[c].escrow_factor_bps = contracts[c].escrow_factor_bps
      /\ contracts'[c].provider_stake = contracts[c].provider_stake
      /\ \A x \in ContractIds \ {c} : contracts'[x] = contracts[x]
    <2> HIDE DEF used, atLimit, status
    <2> QED
        BY <1>1, <1>2 DEF EscrowInv, TypeOK, Contract
<1>5. disputes' = disputes /\ escrow' = escrow /\ astray' = astray
    BY DEF RejectDelivery
<1>6. /\ contracts[c].status = "None" => disputes'[c].status = "None"
      /\ disputes'[c].status = "None" => ~HasAppeal(disputes'[c])
    BY <1>5 DEF EscrowInv, Consistent
<1> HIDE DEF status
<1> QED
    BY <1>2, <1>3, <1>4, <1>5, <1>6, QuietKeeps

(* A step on one dispute that moves no money, starts from a dispute that is
   not resolved or below the appeal, and leaves it open.                   *)
LEMMA InitiateKeeps ==
    ASSUME EscrowInv, NEW c \in ContractIds, Initiate(c)
    PROVE  /\ \A x \in ContractIds : Balanced(x)' /\ Consistent(x)'
           /\ \A x \in ContractIds :
                  contracts'[x].status = "None" <=> contracts[x].status = "None"
<1>1. /\ contracts' = [contracts EXCEPT ![c].status = "Disputed", ![c].dispute_level = 1]
      /\ disputes' = [disputes EXCEPT ![c] =
             [NoDispute EXCEPT !.initiator = contracts[c].requester, !.status = "Open",
                               !.deadline = now + DirectWindow]]
      /\ disputes[c].status = "None"
      /\ escrow' = escrow /\ astray' = astray
    BY DEF Initiate, InitiateAccounts
<1>2. contracts[c].status \in LiveStatuses /\ contracts[c] \in Contract
    BY ContractFacts DEF Initiate, EscrowInv, LiveStatuses
<1>3. /\ contracts'[c].status = "Disputed"
      /\ contracts'[c].value = contracts[c].value
      /\ contracts'[c].escrow_factor_bps = contracts[c].escrow_factor_bps
      /\ contracts'[c].provider_stake = contracts[c].provider_stake
      /\ \A x \in ContractIds \ {c} : contracts'[x] = contracts[x]
    BY <1>1, <1>2 DEF EscrowInv, TypeOK, Contract
<1>4. /\ disputes'[c].status = "Open"
      /\ disputes'[c].level = "DirectCorrection"
      /\ \A x \in ContractIds \ {c} : disputes'[x] = disputes[x]
    BY <1>1 DEF EscrowInv, TypeOK, NoDispute
<1>5. ~HasAppeal(disputes[c]) /\ ~HasAppeal(disputes'[c])
    BY <1>1, <1>4 DEF EscrowInv, Consistent, HasAppeal
<1>6. Pending(disputes'[c]) = Pending(disputes[c])
    BY <1>5 DEF Pending
<1>7. "Disputed" \in LiveStatuses /\ "None" \notin LiveStatuses
    BY DEF LiveStatuses
<1> QED
    BY <1>1, <1>2, <1>3, <1>4, <1>5, <1>6, <1>7, QuietKeeps

LEMMA RespondKeeps ==
    ASSUME EscrowInv, NEW c \in ContractIds, Respond(c)
    PROVE  /\ \A x \in ContractIds : Balanced(x)' /\ Consistent(x)'
           /\ \A x \in ContractIds :
                  contracts'[x].status = "None" <=> contracts[x].status = "None"
<1> DEFINE isRound == disputes[c].level = "PrivateRounds" /\ disputes[c].private_rounds_count < 5
<1>1. /\ disputes' = [disputes EXCEPT
             ![c].status = "Responded",
             ![c].private_rounds_count = IF isRound THEN @ + 1 ELSE @]
      /\ disputes[c].status = "Open"
      /\ contracts' = contracts
      /\ escrow' = escrow /\ astray' = astray
    BY DEF Respond, AwaitsResponse
<1>2. disputes[c] \in Dispute
    BY DisputeFacts DEF EscrowInv
<1>3. /\ disputes'[c].status = "Responded"
      /\ disputes'[c].level = disputes[c].level
      /\ disputes'[c].appeal_stake = disputes[c].appeal_stake
      /\ \A x \in ContractIds \ {c} : disputes'[x] = disputes[x]
    <2> HIDE DEF isRound
    <2> QED
        BY <1>1, <1>2 DEF EscrowInv, TypeOK, Dispute
<1>4. Pending(disputes'[c]) = Pending(disputes[c])
    BY <1>1, <1>3 DEF Pending, HasAppeal, ResolvedStatuses
<1>5. contracts[c].status # "None"
    BY <1>1 DEF EscrowInv, Consistent
<1> QED
    BY <1>1, <1>3, <1>4, <1>5, QuietKeeps

LEMMA EscalateKeeps ==
    ASSUME EscrowInv, NEW c \in ContractIds, Escalate(c)
    PROVE  /\ \A x \in ContractIds : Balanced(x)' /\ Consistent(x)'
           /\ \A x \in ContractIds :
                  contracts'[x].status = "None" <=> contracts[x].status = "None"
<1> DEFINE d == disputes[c]
           toJury == d.level = "PrivateRounds"
           deadline == now + (IF toJury THEN JuryWindow ELSE PrivateWindow)
           size == IF toJury THEN JurySize[contracts[c].value] ELSE d.jury_size
           fee == IF toJury THEN PartOf(contracts[c].value, 200) ELSE d.arbitration_fee
           level == IF toJury THEN 3 ELSE 2
<1>1. /\ disputes' = [disputes EXCEPT ![c] =
             [d EXCEPT !.level = NextLevel(d.level), !.status = "Open", !.deadline = deadline,
                       !.jury_size = size, !.arbitration_fee = fee]]
      /\ contracts' = [contracts EXCEPT ![c].dispute_level = level]
      /\ d.status # "None"
      /\ d.level \in {"DirectCorrection", "PrivateRounds"}
      /\ escrow' = escrow /\ astray' = astray
    BY DEF Escalate
<1>2. d \in Dispute /\ contracts[c] \in Contract
    BY DisputeFacts, ContractFacts DEF EscrowInv
<1>3. /\ disputes'[c].status = "Open"
      /\ disputes'[c].level = NextLevel(d.level)
      /\ \A x \in ContractIds \ {c} : disputes'[x] = disputes[x]
    <2> HIDE DEF deadline, size, fee
    <2> QED
        BY <1>1, <1>2 DEF EscrowInv, TypeOK, Dispute
<1>4. /\ contracts'[c].status = contracts[c].status
      /\ contracts'[c].value = contracts[c].value
      /\ contracts'[c].escrow_factor_bps = contracts[c].escrow_factor_bps
      /\ contracts'[c].provider_stake = contracts[c].provider_stake
      /\ \A x \in ContractIds \ {c} : contracts'[x] = contracts[x]
    <2> HIDE DEF level
    <2> QED
        BY <1>1, <1>2 DEF EscrowInv, TypeOK, Contract
<1>5. ~HasAppeal(d) /\ ~HasAppeal(disputes'[c])
    BY <1>1, <1>3 DEF HasAppeal, NextLevel
<1>6. Pending(disputes'[c]) = Pending(disputes[c])
    BY <1>5 DEF Pending
<1>7. contracts[c].status # "None"
    BY <1>1 DEF EscrowInv, Consistent
<1> QED
    BY <1>1, <1>3, <1>4, <1>5, <1>6, <1>7, QuietKeeps

LEMMA VoteKeeps ==
    ASSUME EscrowInv, NEW c \in ContractIds, NEW j \in Jurors, NEW forProvider \in BOOLEAN,
           Vote(j, c, forProvider)
    PROVE  /\ \A x \in ContractIds : Balanced(x)' /\ Consistent(x)'
           /\ \A x \in ContractIds :
                  contracts'[x].status = "None" <=> contracts[x].status = "None"
<1> DEFINE d == disputes[c]
           vp == d.votes_provider + (IF forProvider THEN 1 ELSE 0)
           vr == d.votes_requester + (IF forProvider THEN 0 ELSE 1)
           majority == MajorityThreshold(d.jury_size)
           status == IF vp >= majority \/ vr >= majority THEN "JuryDecided" ELSE "Voting"
<1>1. /\ disputes' = [disputes EXCEPT ![c] =
             [d EXCEPT !.votes_provider = vp, !.votes_requester = vr, !.status = status]]
      /\ d.status \in {"Open", "Voting"}
      /\ contracts' = contracts
      /\ escrow' = escrow /\ astray' = astray
    BY DEF Vote, AfterVote
<1>2. status \in {"JuryDecided", "Voting"} /\ d \in Dispute
    BY DisputeFacts DEF EscrowInv
<1>3. /\ disputes'[c].status = status
      /\ disputes'[c].level = d.level
      /\ disputes'[c].appeal_stake = d.appeal_stake
      /\ \A x \in ContractIds \ {c} : disputes'[x] = disputes[x]
    <2> HIDE DEF vp, vr, status
    <2> QED
        BY <1>1, <1>2 DEF EscrowInv, TypeOK, Dispute
<1> HIDE DEF status
<1>4. Pending(disputes'[c]) = Pending(disputes[c])
    BY <1>1, <1>2, <1>3 DEF Pending, HasAppeal, ResolvedStatuses
<1>5. contracts[c].status # "None"
    BY <1>1 DEF EscrowInv, Consistent
<1>6. disputes'[c].status # "None"
    BY <1>2, <1>3
<1> QED
    BY <1>1, <1>3, <1>4, <1>5, <1>6, QuietKeeps

LEMMA RedeliverKeeps ==
    ASSUME EscrowInv, NEW c \in ContractIds, Redeliver(c)
    PROVE  /\ \A x \in ContractIds : Balanced(x)' /\ Consistent(x)'
           /\ \A x \in ContractIds :
                  contracts'[x].status = "None" <=> contracts[x].status = "None"
<1> DEFINE count == disputes[c].corrections_count + 1
           exhausted == count >= config.max_corrections
           deadline == now + (IF exhausted THEN PrivateWindow ELSE DirectWindow)
<1>1. /\ disputes' = [disputes EXCEPT
             ![c].corrections_count = count,
             ![c].level = IF exhausted THEN "PrivateRounds" ELSE @,
             ![c].status = "Open",
             ![c].deadline = deadline]
      /\ contracts' = [contracts EXCEPT
             ![c].status = "Delivered",
             ![c].dispute_level = IF exhausted THEN 2 ELSE @]
      /\ disputes[c].level = "DirectCorrection"
      /\ contracts[c].status = "Disputed"
      /\ escrow' = escrow /\ astray' = astray
    BY DEF Redeliver, RedeliverAccounts
<1>2. disputes[c] \in Dispute /\ contracts[c] \in Contract
    BY DisputeFacts, ContractFacts DEF EscrowInv
<1> HIDE DEF count, exhausted, deadline
<1>3. /\ disputes'[c].status = "Open"
      /\ disputes'[c].level \in {"PrivateRounds", "DirectCorrection"}
      /\ \A x \in ContractIds \ {c} : disputes'[x] = disputes[x]
    BY <1>1, <1>2 DEF EscrowInv, TypeOK, Dispute
<1>4. /\ contracts'[c].status = "Delivered"
      /\ contracts'[c].value = contracts[c].value
      /\ contracts'[c].escrow_factor_bps = contracts[c].escrow_factor_bps
      /\ contracts'[c].provider_stake = contracts[c].provider_stake
      /\ \A x \in ContractIds \ {c} : contracts'[x] = contracts[x]
    BY <1>1, <1>2 DEF EscrowInv, TypeOK, Contract
<1>5. ~HasAppeal(disputes[c]) /\ ~HasAppeal(disputes'[c])
    BY <1>1, <1>3 DEF HasAppeal
<1>6. Pending(disputes'[c]) = Pending(disputes[c])
    BY <1>5 DEF Pending
<1>7. "Delivered" \in LiveStatuses /\ "Disputed" \in LiveStatuses
    BY DEF LiveStatuses
<1> QED
    BY <1>1, <1>3, <1>4, <1>5, <1>6, <1>7, QuietKeeps

(* The stake of an appeal is deposited, and recorded as pending.           *)
LEMMA EscalateToAppealKeeps ==
    ASSUME EscrowInv, NEW c \in ContractIds, NEW by \in Agents, EscalateToAppeal(c, by)
    PROVE  /\ \A x \in ContractIds : Balanced(x)' /\ Consistent(x)'
           /\ \A x \in ContractIds :
                  contracts'[x].status = "None" <=> contracts[x].status = "None"
<1> DEFINE stake == contracts[c].value \div 2
           d2 == Appealed(disputes[c], by, stake)
<1>1. /\ disputes' = [disputes EXCEPT ![c] = d2]
      /\ contracts' = [contracts EXCEPT ![c].dispute_level = 4]
      /\ escrow' = [escrow EXCEPT !["Sworn"][c] = @ + stake] /\ astray' = astray
      /\ disputes[c].level = "PublicJury"
      /\ disputes[c].status # "None"
      /\ stake > 0
    BY DEF EscalateToAppeal
<1>2. disputes[c] \in Dispute /\ contracts[c] \in Contract /\ stake \in Nat
    <2>1. disputes[c] \in Dispute /\ contracts[c] \in Contract /\ contracts[c].value \in Nat
        BY DisputeFacts, ContractFacts DEF EscrowInv
    <2>2. stake \in Nat
        BY <2>1
    <2> QED
        BY <2>1, <2>2
<1> HIDE DEF stake
<1>3. d2.status = "Open" /\ d2.level = "Appeal" /\ d2.appeal_stake = stake
    BY <1>2 DEF Appealed, Dispute
<1> HIDE DEF d2
<1>4. disputes'[c] = d2 /\ \A x \in ContractIds \ {c} : disputes'[x] = disputes[x]
    BY <1>1 DEF EscrowInv, TypeOK
<1>5. /\ contracts'[c].status = contracts[c].status
      /\ contracts'[c].value = contracts[c].value
      /\ contracts'[c].escrow_factor_bps = contracts[c].escrow_factor_bps
      /\ contracts'[c].provider_stake = contracts[c].provider_stake
      /\ \A x \in ContractIds \ {c} : contracts'[x] = contracts[x]
    BY <1>1, <1>2 DEF EscrowInv, TypeOK, Contract
<1>6. /\ escrow'["Sworn"][c] = escrow["Sworn"][c] + stake
      /\ escrow'["Sol"][c] = escrow["Sol"][c]
      /\ \A x \in ContractIds \ {c} : \A cur \in Currencies : escrow'[cur][x] = escrow[cur][x]
    BY <1>1 DEF EscrowInv, TypeOK, Currencies
<1>7. \A x \in ContractIds \ {c} : Balanced(x)' /\ Consistent(x)'
    <2> SUFFICES ASSUME NEW x \in ContractIds \ {c} PROVE Balanced(x)' /\ Consistent(x)'
        OBVIOUS
    <2>1. Untouched(x)
        BY <1>1, <1>4, <1>5, <1>6 DEF Untouched
    <2> QED
        BY <2>1, UntouchedKeeps DEF EscrowInv
<1>8. Pending(disputes[c]) = 0 /\ Pending(disputes'[c]) = stake
    BY <1>1, <1>2, <1>3, <1>4 DEF Pending, HasAppeal, ResolvedStatuses
<1>9. Escrowed(contracts'[c]) = Escrowed(contracts[c])
    BY <1>5 DEF Escrowed, EscrowDeposit
<1>10. Balanced(c)'
    <2>1. Held(c)' = Held(c) + stake
        <3>1. escrow["Sworn"][c] \in Nat /\ escrow["Sol"][c] \in Nat
            BY HeldNat DEF EscrowInv
        <3> QED
            BY <1>2, <1>6, <3>1 DEF Held
    <2>2. Held(c) \in Nat /\ Escrowed(contracts[c]) \in Nat
        <3>1. Held(c) \in Nat
            BY HeldNat DEF EscrowInv
        <3>2. EscrowDeposit(contracts[c]) \in Nat /\ contracts[c].provider_stake \in Nat
            BY ContractFacts DEF EscrowInv
        <3> QED
            BY <3>1, <3>2 DEF Escrowed
    <2> DEFINE h == Held(c)
               h2 == Held(c)'
               e == Escrowed(contracts[c])
    <2> HIDE DEF h, h2, e
    <2>3. (h = 0 + e => h2 = stake + e) /\ (h >= 0 + e => h2 >= stake + e)
        BY <1>2, <2>1, <2>2 DEF h, h2, e
    <2>4. /\ c \notin astray => h = 0 + e
          /\ contracts[c].status = "Proposed" \/ contracts[c].status \in LiveStatuses =>
                 h >= 0 + e
        BY <1>8 DEF EscrowInv, Balanced, h, e
    <2> QED
        BY <1>1, <1>5, <1>8, <1>9, <2>3, <2>4 DEF Balanced, h2, e
<1>11. Consistent(c)'
    BY <1>1, <1>3, <1>4, <1>5 DEF EscrowInv, Consistent
<1>12. \A x \in ContractIds : contracts'[x].status = "None" <=> contracts[x].status = "None"
    BY <1>5
<1> QED
    BY <1>7, <1>10, <1>11, <1>12

(* The provider's stake is deposited when it accepts, and recorded then.   *)
LEMMA AcceptProposalKeeps ==
    ASSUME EscrowInv, NEW c \in ContractIds, AcceptProposal(c)
    PROVE  /\ \A x \in ContractIds : Balanced(x)' /\ Consistent(x)'
           /\ \A x \in ContractIds :
                  contracts'[x].status = "None" <=> contracts[x].status = "None"
<1> DEFINE k == contracts[c]
           stake == k.provider_stake_required
           cur == k.currency
<1>1. /\ contracts' = [contracts EXCEPT ![c].provider_stake = stake,
                                        ![c].status = "Active", ![c].created_at = now]
      /\ escrow' = [escrow EXCEPT ![cur][c] = @ + stake] /\ astray' = astray
      /\ disputes' = disputes
      /\ k.status = "Proposed"
    BY DEF AcceptProposal
<1>2. k \in Contract /\ stake \in Nat /\ cur \in Currencies /\ EscrowDeposit(k) \in Nat
    BY ContractFacts DEF EscrowInv
<1> HIDE DEF stake, cur
<1>3. /\ contracts'[c].status = "Active"
      /\ contracts'[c].provider_stake = stake
      /\ contracts'[c].value = k.value
      /\ contracts'[c].escrow_factor_bps = k.escrow_factor_bps
      /\ \A x \in ContractIds \ {c} : contracts'[x] = contracts[x]
    BY <1>1, <1>2 DEF EscrowInv, TypeOK, Contract
<1>4. escrow["Sworn"][c] \in Nat /\ escrow["Sol"][c] \in Nat /\ Held(c) \in Nat
    BY HeldNat DEF EscrowInv
<1>5. \A x \in ContractIds \ {c} : \A m \in Currencies : escrow'[m][x] = escrow[m][x]
    BY <1>1, <1>2 DEF EscrowInv, TypeOK
<1>6. Held(c)' = Held(c) + stake
    <2>1. CASE cur = "Sworn"
        <3>1. /\ escrow'["Sworn"][c] = escrow["Sworn"][c] + stake
              /\ escrow'["Sol"][c] = escrow["Sol"][c]
            BY <1>1, <2>1 DEF EscrowInv, TypeOK, Currencies
        <3> QED
            BY <1>2, <1>4, <3>1 DEF Held
    <2>2. CASE cur = "Sol"
        <3>1. /\ escrow'["Sol"][c] = escrow["Sol"][c] + stake
              /\ escrow'["Sworn"][c] = escrow["Sworn"][c]
            BY <1>1, <2>2 DEF EscrowInv, TypeOK, Currencies
        <3> QED
            BY <1>2, <1>4, <3>1 DEF Held
    <2> QED
        BY <1>2, <2>1, <2>2 DEF Currencies
<1>7. \A x \in ContractIds \ {c} : Balanced(x)' /\ Consistent(x)'
    <2> SUFFICES ASSUME NEW x \in ContractIds \ {c} PROVE Balanced(x)' /\ Consistent(x)'
        OBVIOUS
    <2>1. Untouched(x)
        BY <1>1, <1>3, <1>5 DEF Untouched
    <2> QED
        BY <2>1, UntouchedKeeps DEF EscrowInv
<1>8. /\ k.provider_stake = 0
      /\ c \notin astray => Held(c) = Pending(disputes[c]) + Escrowed(k)
      /\ Held(c) >= Pending(disputes[c]) + Escrowed(k)
    BY <1>1 DEF EscrowInv, Consistent, Balanced
<1>9. Escrowed(k) = EscrowDeposit(k) /\ Escrowed(contracts'[c]) = EscrowDeposit(k) + stake
    BY <1>1, <1>2, <1>3, <1>8 DEF Escrowed, EscrowDeposit, LiveStatuses
<1>10. Balanced(c)'
    <2>1. Pending(disputes[c]) \in Nat
        BY DisputeFacts DEF Pending, EscrowInv
    <2> DEFINE h == Held(c)
               h2 == Held(c)'
               q == Pending(disputes[c])
               e == EscrowDeposit(k)
    <2> HIDE DEF h, h2, q, e
    <2>2. (h = q + e => h2 = q + (e + stake)) /\ (h >= q + e => h2 >= q + (e + stake))
        BY <1>2, <1>4, <1>6, <2>1 DEF h, h2, q, e
    <2>3. (c \notin astray => h = q + e) /\ h >= q + e
        BY <1>8, <1>9 DEF h, q, e
    <2> QED
        BY <1>1, <1>9, <2>2, <2>3 DEF Balanced, h2, q, e
<1>11. Consistent(c)'
    BY <1>1, <1>3 DEF EscrowInv, Consistent
<1>12. \A x \in ContractIds : contracts'[x].status = "None" <=> contracts[x].status = "None"
    BY <1>1, <1>3
<1> QED
    BY <1>7, <1>10, <1>11, <1>12

(* A new contract escrows what it records.                                 *)
LEMMA NewContractKeeps ==
    ASSUME EscrowInv, NEW k, NEW currency, NEW stake,
           k \in Contract, currency \in Currencies, stake \in Nat,
           k.status \in {"Proposed", "Active"}, k.provider_stake = stake,
           k.status = "Proposed" => stake = 0,
           k.value \in Values, k.escrow_factor_bps >= 3000,
           NewContract(k, currency, stake, EscrowDeposit(k)),
           disputes' = disputes, astray' = astray
    PROVE  /\ \A x \in ContractIds : Balanced(x)' /\ Consistent(x)'
           /\ BlankExactly'
<1>1. PICK c \in ContractIds : c = total_contracts
    <2>1. total_contracts \in ContractIds
        BY BoundsAssumption DEF EscrowInv, TypeOK, NewContract, ContractIds
    <2> QED
        BY <2>1
<1> DEFINE amount == stake + EscrowDeposit(k)
<1>2. EscrowDeposit(k) \in Nat
    BY DepositWithinValue
<1>3. contracts[c].status = "None" /\ disputes[c].status = "None" /\ c \notin astray
    <2>1. c >= total_contracts
        BY <1>1 DEF ContractIds
    <2> QED
        BY <2>1 DEF EscrowInv, BlankExactly, Consistent
<1>4. /\ contracts' = [contracts EXCEPT ![c] = k]
      /\ escrow' = [escrow EXCEPT ![currency][c] = amount] /\ astray' = astray
      /\ total_contracts' = c + 1
    BY <1>1 DEF NewContract
<1>5. escrow["Sworn"][c] = 0 /\ escrow["Sol"][c] = 0
    <2>1. Pending(disputes[c]) = 0
        BY <1>3 DEF EscrowInv, Consistent, Pending
    <2>2. Escrowed(contracts[c]) = 0
        BY <1>3 DEF Escrowed, LiveStatuses
    <2>3. Held(c) = 0
        BY <1>3, <2>1, <2>2 DEF EscrowInv, Balanced, Consistent
    <2>4. escrow["Sworn"][c] \in Nat /\ escrow["Sol"][c] \in Nat
        BY HeldNat DEF EscrowInv
    <2> QED
        BY <2>3, <2>4 DEF Held
<1>6. amount \in Nat
    BY <1>2
<1> HIDE DEF amount
<1>7. Held(c)' = amount
    <2>1. CASE currency = "Sworn"
        <3>1. escrow'["Sworn"][c] = amount /\ escrow'["Sol"][c] = 0
            BY <1>4, <1>5, <2>1 DEF EscrowInv, TypeOK, Currencies
        <3> QED
            BY <1>6, <3>1 DEF Held
    <2>2. CASE currency = "Sol"
        <3>1. escrow'["Sol"][c] = amount /\ escrow'["Sworn"][c] = 0
            BY <1>4, <1>5, <2>2 DEF EscrowInv, TypeOK, Currencies
        <3> QED
            BY <1>6, <3>1 DEF Held
    <2> QED
        BY <2>1, <2>2 DEF Currencies
<1>8. /\ contracts'[c] = k
      /\ \A x \in ContractIds \ {c} : contracts'[x] = contracts[x]
    BY <1>4 DEF EscrowInv, TypeOK
<1>9. \A x \in ContractIds \ {c} : Balanced(x)' /\ Consistent(x)'
    <2> SUFFICES ASSUME NEW x \in ContractIds \ {c} PROVE Balanced(x)' /\ Consistent(x)'
        OBVIOUS
    <2>1. \A cur \in Currencies : escrow'[cur][x] = escrow[cur][x]
        BY <1>4 DEF EscrowInv, TypeOK
    <2>2. Untouched(x)
        BY <1>4, <1>8, <2>1 DEF Untouched
    <2> QED
        BY <2>2, UntouchedKeeps DEF EscrowInv
<1>10. Balanced(c)'
    <2>1. Pending(disputes'[c]) = 0
        BY <1>3 DEF EscrowInv, Consistent, Pending
    <2>2. Escrowed(contracts'[c]) = EscrowDeposit(k) + stake
        BY <1>8 DEF Escrowed, LiveStatuses
    <2>3. Held(c)' = 0 + (EscrowDeposit(k) + stake) /\ Held(c)' \in Nat
        BY <1>2, <1>6, <1>7 DEF amount
    <2> QED
        BY <2>1, <2>2, <2>3 DEF Balanced
<1>11. Consistent(c)'
    BY <1>3, <1>8 DEF EscrowInv, Consistent
<1>12. BlankExactly'
    <2> SUFFICES ASSUME NEW x \in ContractIds
                 PROVE  contracts'[x].status = "None" <=> x >= c + 1
        BY <1>4 DEF BlankExactly
    <2>1. CASE x = c
        BY <1>8, <2>1 DEF ContractIds
    <2>2. CASE x # c
        <3>1. x >= c + 1 <=> x >= total_contracts
            BY <1>1, <2>2 DEF ContractIds
        <3> QED
            BY <1>8, <2>2, <3>1 DEF EscrowInv, BlankExactly
    <2> QED
        BY <2>1, <2>2
<1> QED
    BY <1>9, <1>10, <1>11, <1>12

LEMMA CreateKeeps ==
    ASSUME FeesBounded, EscrowInv, NEW r \in Requesters, NEW p \in Providers, NEW v \in Values,
           NEW input \in EscrowInputs, NEW currency \in Currencies,
           Create(r, p, v, input, currency)
    PROVE  (\A x \in ContractIds : Balanced(x)' /\ Consistent(x)') /\ BlankExactly'
<1> DEFINE stake == StakeRequired(v, agents[p].trust_score)
           terms == Terms(r, p, v, input, currency)
           k1 == [terms EXCEPT !.status = "Active"]
           k2 == [k1 EXCEPT !.provider_stake = stake]
<1>1. terms \in Contract
    BY TermsType DEF EscrowInv
<1>2. stake \in Nat
    <2>1. agents[p] \in AgentIdentity
        BY PartiesAssumption DEF EscrowInv, TypeOK
    <2>2. agents[p].trust_score \in TrustScores
        BY <2>1 DEF AgentIdentity
    <2> QED
        BY <2>2, StakeRequiredNat
<1>3. terms.value = v /\ terms.escrow_factor_bps >= 3000
    <2>1. terms.value = v /\ terms.escrow_factor_bps = ClampEscrowFactor(input)
        BY DEF Terms, NoContract
    <2>2. ClampEscrowFactor(input) >= 3000
        BY InputsNat, ClampedFactor
    <2> QED
        BY <2>1, <2>2
<1>4. /\ NewContract(k2, "Sworn", stake, EscrowDeposit(k2))
      /\ disputes' = disputes /\ astray' = astray
    BY DEF Create
<1> HIDE DEF terms, stake
<1>5. /\ k2 \in Contract
      /\ k2.status = "Active" /\ k2.provider_stake = stake
      /\ k2.value = v /\ k2.escrow_factor_bps >= 3000
    <2>1. k1 \in Contract
        BY <1>1, ContractUpdate DEF ContractStatus, LiveStatuses
    <2>2. k1.status = "Active" /\ k1.value = v /\ k1.escrow_factor_bps >= 3000
        BY <1>1, <1>3 DEF Contract
    <2> HIDE DEF k1
    <2>3. k2 \in Contract
        BY <1>2, <2>1, ContractUpdate
    <2>4. k2.provider_stake = stake /\ k2.status = k1.status /\ k2.value = k1.value
          /\ k2.escrow_factor_bps = k1.escrow_factor_bps
        BY <2>1 DEF Contract
    <2> QED
        BY <2>2, <2>3, <2>4
<1> HIDE DEF k2
<1> QED
    BY <1>2, <1>4, <1>5, NewContractKeeps DEF Currencies

LEMMA ProposeKeeps ==
    ASSUME FeesBounded, EscrowInv, NEW r \in Requesters, NEW p \in Providers, NEW v \in Values,
           NEW expiry \in Expiries, NEW currency \in Currencies, NEW input \in EscrowInputs,
           Propose(r, p, v, expiry, currency, input)
    PROVE  (\A x \in ContractIds : Balanced(x)' /\ Consistent(x)') /\ BlankExactly'
<1> DEFINE stake == StakeRequired(v, agents[p].trust_score)
           expires == IF expiry > 0 THEN now + expiry ELSE 0
           terms == Terms(r, p, v, input, currency)
           k1 == [terms EXCEPT !.status = "Proposed"]
           k2 == [k1 EXCEPT !.provider_stake_required = stake]
           k3 == [k2 EXCEPT !.proposal_expires_at = expires]
<1>1. terms \in Contract /\ terms.provider_stake = 0
    <2>1. terms.provider_stake = 0
        BY DEF Terms, NoContract
    <2> QED
        BY <2>1, TermsType DEF EscrowInv
<1>2. stake \in Nat /\ expires \in Nat
    <2>1. agents[p] \in AgentIdentity
        BY PartiesAssumption DEF EscrowInv, TypeOK
    <2>2. agents[p].trust_score \in TrustScores
        BY <2>1 DEF AgentIdentity
    <2>3. now \in Nat /\ expiry \in Nat
        BY BoundsAssumption, InputsNat DEF EscrowInv, TypeOK
    <2>4. expires \in Nat
        BY <2>3
    <2> QED
        BY <2>2, <2>4, StakeRequiredNat
<1>3. terms.value = v /\ terms.escrow_factor_bps >= 3000
    <2>1. terms.value = v /\ terms.escrow_factor_bps = ClampEscrowFactor(input)
        BY DEF Terms, NoContract
    <2>2. ClampEscrowFactor(input) >= 3000
        BY InputsNat, ClampedFactor
    <2> QED
        BY <2>1, <2>2
<1>4. /\ NewContract(k3, currency, 0, EscrowDeposit(k3))
      /\ disputes' = disputes /\ astray' = astray
    BY DEF Propose
<1> HIDE DEF terms, stake, expires
<1>5. /\ k3 \in Contract
      /\ k3.status = "Proposed" /\ k3.provider_stake = 0
      /\ k3.value = v /\ k3.escrow_factor_bps >= 3000
    <2>1. k1 \in Contract
        BY <1>1, ContractUpdate DEF ContractStatus
    <2>2. /\ k1.status = "Proposed" /\ k1.provider_stake = 0
          /\ k1.value = v /\ k1.escrow_factor_bps >= 3000
        BY <1>1, <1>3 DEF Contract
    <2> HIDE DEF k1
    <2>3. k2 \in Contract
        BY <1>2, <2>1, ContractUpdate
    <2>4. /\ k2.provider_stake = k1.provider_stake /\ k2.status = k1.status
          /\ k2.value = k1.value /\ k2.escrow_factor_bps = k1.escrow_factor_bps
        BY <2>1 DEF Contract
    <2> HIDE DEF k2
    <2>5. k3 \in Contract
        BY <1>2, <2>3, ContractUpdate
    <2>6. /\ k3.provider_stake = k2.provider_stake /\ k3.status = k2.status
          /\ k3.value = k2.value /\ k3.escrow_factor_bps = k2.escrow_factor_bps
        BY <2>3 DEF Contract
    <2> QED
        BY <2>2, <2>4, <2>5, <2>6
<1> HIDE DEF k3
<1> QED
    BY <1>4, <1>5, NewContractKeeps

(* A handler of a contract's ordinary end pays out what is recorded for it
   and the top-up, and leaves the disputes alone.                          *)
LEMMA SettlingKeeps ==
    ASSUME EscrowInv, NEW c \in ContractIds, NEW status, NEW topUp, NEW pay,
           contracts[c].status \in LiveStatuses \cup {"Proposed"},
           status \in SettledStatuses, topUp \in Nat, pay \in Payment,
           Total(pay) = topUp + (EscrowDeposit(contracts[c]) + contracts[c].provider_stake),
           Disburse(c, contracts[c].currency, topUp, pay, NoPayment),
           contracts' = [contracts EXCEPT ![c].status = status, ![c].resolved_at = now],
           disputes' = disputes
    PROVE  /\ \A x \in ContractIds : Balanced(x)' /\ Consistent(x)'
           /\ \A x \in ContractIds :
                  contracts'[x].status = "None" <=> contracts[x].status = "None"
<1>1. contracts[c].status # "None"
    BY DEF LiveStatuses
<1>2. Escrowed(contracts[c]) = EscrowDeposit(contracts[c]) + contracts[c].provider_stake
    BY DEF Escrowed
<1>3. Pending(disputes[c]) \in Nat
    BY DisputeFacts DEF Pending, EscrowInv
<1>4. disputes'[c].status = "None" => ~HasAppeal(disputes'[c])
    BY DEF EscrowInv, Consistent
<1>5. Total(pay) + Pending(disputes'[c]) =
          topUp + Escrowed(contracts[c]) + Pending(disputes[c])
    <2>1. EscrowDeposit(contracts[c]) \in Nat /\ contracts[c].provider_stake \in Nat
        BY ContractFacts DEF EscrowInv
    <2> QED
        BY <1>2, <1>3, <2>1
<1>6. NoPayment \in Payment /\ PlusFlow(pay, NoPayment) = pay
    BY PlusNothing
<1> QED
    BY <1>1, <1>3, <1>4, <1>5, <1>6, ClosingKeeps

LEMMA CancelProposalKeeps ==
    ASSUME EscrowInv, NEW c \in ContractIds, CancelProposal(c)
    PROVE  /\ \A x \in ContractIds : Balanced(x)' /\ Consistent(x)'
           /\ \A x \in ContractIds :
                  contracts'[x].status = "None" <=> contracts[x].status = "None"
<1> DEFINE k == contracts[c]
           pay == PayTo("requester", EscrowDeposit(k))
<1>1. /\ k.status = "Proposed"
      /\ Disburse(c, k.currency, 0, pay, NoPayment)
      /\ contracts' = [contracts EXCEPT ![c].status = "Cancelled", ![c].resolved_at = now]
      /\ disputes' = disputes
    BY DirectDisburses DEF CancelProposal
<1>2. EscrowDeposit(k) \in Nat /\ k.provider_stake = 0
    BY <1>1, ContractFacts DEF EscrowInv, Consistent
<1>3. pay \in Payment /\ Total(pay) = EscrowDeposit(k)
    BY <1>2, PayToWhole
<1>4. Total(pay) = 0 + (EscrowDeposit(k) + k.provider_stake)
    BY <1>2, <1>3
<1> HIDE DEF pay
<1> QED
    BY <1>1, <1>3, <1>4, SettlingKeeps DEF SettledStatuses

LEMMA AcceptKeeps ==
    ASSUME FeesBounded, EscrowInv, NEW c \in ContractIds, Accept(c)
    PROVE  /\ \A x \in ContractIds : Balanced(x)' /\ Consistent(x)'
           /\ \A x \in ContractIds :
                  contracts'[x].status = "None" <=> contracts[x].status = "None"
<1> DEFINE k == contracts[c]
           topUp == TopUp(k)
           pay == Payout(k, k.value)
<1>1. /\ k.status = "Delivered"
      /\ Disburse(c, k.currency, topUp, pay, NoPayment)
      /\ contracts' = [contracts EXCEPT ![c].status = "Completed", ![c].resolved_at = now]
      /\ disputes' = disputes
    BY DEF Accept, AcceptAccounts
<1>2. topUp \in Nat /\ pay \in Payment
    BY ContractFacts DEF EscrowInv
<1>3. Total(pay) = topUp + (EscrowDeposit(k) + k.provider_stake)
    BY SettlementTotals
<1> HIDE DEF topUp, pay
<1> QED
    BY <1>1, <1>2, <1>3, SettlingKeeps DEF SettledStatuses, LiveStatuses

LEMMA TimeoutKeeps ==
    ASSUME FeesBounded, EscrowInv, NEW c \in ContractIds, Timeout(c)
    PROVE  /\ \A x \in ContractIds : Balanced(x)' /\ Consistent(x)'
           /\ \A x \in ContractIds :
                  contracts'[x].status = "None" <=> contracts[x].status = "None"
<1> DEFINE k == contracts[c]
           pay == Refund(k)
           recorded == EscrowDeposit(k) + k.provider_stake
<1>1. /\ k.status = "Active"
      /\ Disburse(c, k.currency, 0, pay, NoPayment)
      /\ contracts' = [contracts EXCEPT ![c].status = "ResolvedRequester",
                                        ![c].resolved_at = now]
      /\ disputes' = disputes
    BY DEF Timeout, TimeoutAccounts
<1>2. pay \in Payment /\ recorded \in Nat
    BY ContractFacts DEF EscrowInv
<1>3. Total(pay) = recorded
    BY SettlementTotals
<1> HIDE DEF pay
<1>4. Total(pay) = 0 + recorded
    BY <1>2, <1>3
<1> QED
    BY <1>1, <1>2, <1>4, SettlingKeeps DEF SettledStatuses, LiveStatuses

LEMMA TimeoutDeliveryKeeps ==
    ASSUME FeesBounded, EscrowInv, NEW c \in ContractIds, TimeoutDelivery(c)
    PROVE  /\ \A x \in ContractIds : Balanced(x)' /\ Consistent(x)'
           /\ \A x \in ContractIds :
                  contracts'[x].status = "None" <=> contracts[x].status = "None"
<1> DEFINE k == contracts[c]
           pay == IgnoredPayout(k)
           recorded == EscrowDeposit(k) + k.provider_stake
<1>1. /\ k.status = "Delivered"
      /\ Disburse(c, k.currency, 0, pay, NoPayment)
      /\ contracts' = [contracts EXCEPT ![c].status = "Completed", ![c].resolved_at = now]
      /\ disputes' = disputes
    BY DEF TimeoutDelivery, TimeoutDeliveryAccounts
<1>2. pay \in Payment /\ recorded \in Nat
    BY ContractFacts DEF EscrowInv
<1>3. Total(pay) = recorded
    BY SettlementTotals
<1> HIDE DEF pay
<1>4. Total(pay) = 0 + recorded
    BY <1>2, <1>3
<1> QED
    BY <1>1, <1>2, <1>4, SettlingKeeps DEF SettledStatuses, LiveStatuses

(* No appeal is pending at L1 and L2, and none appears.                    *)
LEMMA AcceptCorrectionKeeps ==
    ASSUME FeesBounded, EscrowInv, NEW c \in ContractIds, AcceptCorrection(c)
    PROVE  /\ \A x \in ContractIds : Balanced(x)' /\ Consistent(x)'
           /\ \A x \in ContractIds :
                  contracts'[x].status = "None" <=> contracts[x].status = "None"
<1> DEFINE k == contracts[c]
           topUp == TopUp(k)
           pay == CorrectionPayout(k)
           recorded == EscrowDeposit(k) + k.provider_stake
<1>1. /\ k.status = "Delivered"
      /\ disputes[c].level \in {"DirectCorrection", "PrivateRounds"}
      /\ Disburse(c, k.currency, topUp, pay, NoPayment)
      /\ disputes' = [disputes EXCEPT ![c].status = "ResolvedProvider"]
      /\ contracts' = [contracts EXCEPT ![c].status = "Completed", ![c].resolved_at = now]
    BY DEF AcceptCorrection
<1>2. topUp \in Nat /\ pay \in Payment /\ recorded \in Nat
    BY ContractFacts DEF EscrowInv, CorrectionPayout
<1>3. Total(pay) = topUp + recorded
    BY SettlementTotals DEF CorrectionPayout
<1>4. disputes[c] \in Dispute
    BY DisputeFacts DEF EscrowInv
<1>5. /\ disputes'[c].level = disputes[c].level
      /\ disputes'[c].status = "ResolvedProvider"
      /\ \A x \in ContractIds \ {c} : disputes'[x] = disputes[x]
    BY <1>1, <1>4 DEF EscrowInv, TypeOK, Dispute
<1>6. ~HasAppeal(disputes[c]) /\ ~HasAppeal(disputes'[c])
    BY <1>1, <1>5 DEF HasAppeal
<1>7. Pending(disputes[c]) = 0 /\ Pending(disputes'[c]) = 0
    BY <1>6 DEF Pending
<1>8. Escrowed(k) = recorded
    BY <1>1 DEF Escrowed, LiveStatuses
<1> HIDE DEF topUp, pay, recorded
<1>9. Total(pay) + Pending(disputes'[c]) = topUp + Escrowed(k) + Pending(disputes[c])
    BY <1>2, <1>3, <1>7, <1>8
<1>10. /\ k.status # "None" /\ "Completed" \in SettledStatuses
       /\ Pending(disputes'[c]) \in Nat
       /\ disputes'[c].status = "None" => ~HasAppeal(disputes'[c])
    BY <1>1, <1>6, <1>7 DEF SettledStatuses
<1>11. NoPayment \in Payment /\ PlusFlow(pay, NoPayment) = pay
    BY <1>2, PlusNothing
<1> QED
    BY <1>1, <1>2, <1>5, <1>6, <1>7, <1>9, <1>10, <1>11, ClosingKeeps

(* A verdict pays out what the contract recorded and the appeal's stake.   *)
LEMMA VerdictTotal ==
    ASSUME TypeOK, NEW c \in ContractIds, NEW wins \in BOOLEAN
    PROVE  LET k == contracts[c]
               d == disputes[c]
           IN  Total(PlusFlow(DisputePayment(k, wins), AppealPayment(k, d, wins))) =
                   (EscrowDeposit(k) + k.provider_stake)
                   + (IF HasAppeal(d) THEN d.appeal_stake ELSE 0)
<1> DEFINE k == contracts[c]
           d == disputes[c]
           a == DisputePayment(k, wins)
           b == AppealPayment(k, d, wins)
           recorded == EscrowDeposit(k) + k.provider_stake
<1>1. k \in Contract /\ recorded \in Nat /\ d.appeal_stake \in Nat
    BY ContractFacts, DisputeFacts
<1>2. a \in Payment /\ Total(a) = recorded
    <2>1. CASE wins
        <3>1. a = PayTo("provider", recorded)
            BY <2>1 DEF DisputePayment
        <3> HIDE DEF a, recorded
        <3> QED
            BY <1>1, <3>1, PayToWhole
    <2>2. CASE ~wins
        <3>1. a = Refund(k)
            BY <2>2 DEF DisputePayment
        <3> QED
            BY <1>1, <3>1, RefundWhole
    <2> QED
        BY <2>1, <2>2
<1>3. CASE HasAppeal(d)
    <2>1. b \in Payment /\ Total(b) = d.appeal_stake
        <3>1. \/ b = PayTo(Depositor(k, d), d.appeal_stake)
              \/ b = Confiscation(d.appeal_stake, Opponent(Depositor(k, d)), k.currency)
            BY <1>3 DEF AppealPayment
        <3> HIDE DEF b
        <3> QED
            BY <1>1, <3>1, PayToWhole, ConfiscationWhole
    <2> HIDE DEF a, b, recorded
    <2>2. Total(PlusFlow(a, b)) = Total(a) + Total(b)
        BY <1>2, <2>1 DEF Payment, PlusFlow, Total
    <2> QED
        BY <1>2, <1>3, <2>1, <2>2 DEF a, b, recorded
<1>4. CASE ~HasAppeal(d)
    <2>1. b = NoPayment
        BY <1>4 DEF AppealPayment
    <2>2. b \in Payment /\ Total(b) = 0
        BY <2>1 DEF NoPayment, Payment, Total
    <2> HIDE DEF a, b, recorded
    <2>3. Total(PlusFlow(a, b)) = Total(a) + Total(b)
        BY <1>2, <2>2 DEF Payment, PlusFlow, Total
    <2> QED
        BY <1>2, <1>4, <2>2, <2>3 DEF a, b, recorded
<1> QED
    BY <1>3, <1>4

LEMMA WinsBoolean ==
    ASSUME TypeOK, NEW c \in ContractIds, NEW verdict \in BOOLEAN
    PROVE  ProviderWins(disputes[c], verdict) \in BOOLEAN
<1>1. CASE JuryLevel(disputes[c])
    <2>1. ProviderWins(disputes[c], verdict) =
              (disputes[c].votes_provider > disputes[c].votes_requester)
        BY <1>1 DEF ProviderWins
    <2> QED
        BY <2>1, DisputeFacts
<1>2. CASE ~JuryLevel(disputes[c])
    BY <1>2 DEF ProviderWins
<1> QED
    BY <1>1, <1>2

(* The escrow of a contract that is not paid astray holds enough for a
   verdict only if the contract and its appeal are both still recorded: this
   is all that stops a second verdict.                                     *)
LEMMA VerdictCovered ==
    ASSUME EscrowInv, NEW c \in ContractIds, NEW verdict \in BOOLEAN, Resolve(c, verdict),
           c \notin astray'
    PROVE  LET k == contracts[c]
               d == disputes[c]
           IN  /\ Escrowed(k) = EscrowDeposit(k) + k.provider_stake
               /\ Pending(d) = IF HasAppeal(d) THEN d.appeal_stake ELSE 0
<1> DEFINE k == contracts[c]
           d == disputes[c]
           wins == ProviderWins(d, verdict)
           first == DisputePayment(k, wins)
           second == AppealPayment(k, d, wins)
           pay == PlusFlow(first, second)
           recorded == EscrowDeposit(k) + k.provider_stake
           appealed == IF HasAppeal(d) THEN d.appeal_stake ELSE 0
           escrowed == Escrowed(k)
           pending == Pending(d)
<1>1. wins \in BOOLEAN
    BY WinsBoolean DEF EscrowInv
<1>2. first \in Payment /\ second \in Payment /\ Total(pay) = recorded + appealed
    <2> HIDE DEF wins
    <2> QED
        BY <1>1, VerdictTypes, VerdictTotal DEF EscrowInv
<1>3. Disburse(c, k.currency, 0, first, second)
    BY DEF Resolve
<1> HIDE DEF first, second
<1>4. Total(pay) <= Held(c) /\ Held(c) \in Nat /\ c \notin astray
    <2>1. Total(pay) <= Held(c) + 0 /\ Held(c) \in Nat /\ c \notin astray
        BY <1>2, <1>3, ContractFacts, DisburseHeld, HeldNat DEF EscrowInv
    <2> QED
        BY <2>1
<1>5. Held(c) = pending + escrowed
    BY <1>4 DEF EscrowInv, Balanced
<1>6. recorded \in Nat /\ escrowed \in {0, recorded}
    <2>1. recorded \in Nat
        BY ContractFacts DEF EscrowInv
    <2>2. escrowed \in {0, recorded}
        BY DEF Escrowed
    <2> QED
        BY <2>1, <2>2
<1>7. appealed \in Nat /\ pending \in {0, appealed}
    <2>1. appealed \in Nat
        BY DisputeFacts DEF EscrowInv
    <2>2. pending \in {0, appealed}
        BY DEF Pending
    <2> QED
        BY <2>1, <2>2
<1> HIDE DEF recorded, appealed, escrowed, pending
<1>8. escrowed = recorded /\ pending = appealed
    BY <1>2, <1>4, <1>5, <1>6, <1>7
<1> QED
    BY <1>8 DEF recorded, appealed, escrowed, pending

LEMMA ResolveKeeps ==
    ASSUME EscrowInv, NEW c \in ContractIds, NEW verdict \in BOOLEAN, Resolve(c, verdict)
    PROVE  /\ \A x \in ContractIds : Balanced(x)' /\ Consistent(x)'
           /\ \A x \in ContractIds :
                  contracts'[x].status = "None" <=> contracts[x].status = "None"
<1> DEFINE k == contracts[c]
           d == disputes[c]
           wins == ProviderWins(d, verdict)
           outcome == IF wins THEN "ResolvedProvider" ELSE "ResolvedRequester"
           first == DisputePayment(k, wins)
           second == AppealPayment(k, d, wins)
           pay == PlusFlow(first, second)
<1>1. wins \in BOOLEAN
    BY WinsBoolean DEF EscrowInv
<1>2. /\ first \in Payment /\ second \in Payment
      /\ Total(pay) = (EscrowDeposit(k) + k.provider_stake)
                      + (IF HasAppeal(d) THEN d.appeal_stake ELSE 0)
    <2> HIDE DEF wins
    <2> QED
        BY <1>1, VerdictTypes, VerdictTotal DEF EscrowInv
<1>3. /\ Disburse(c, k.currency, 0, first, second)
      /\ disputes' = [disputes EXCEPT ![c].status = outcome]
      /\ contracts' = [contracts EXCEPT ![c].status = outcome, ![c].resolved_at = now]
      /\ d.status # "None"
    BY DEF Resolve, ResolveAccounts
<1>4. outcome \in SettledStatuses /\ outcome \in ResolvedStatuses
    BY DEF SettledStatuses, ResolvedStatuses
<1> HIDE DEF first, second, outcome
<1>5. c \notin astray' =>
          Total(pay) = Escrowed(k) + Pending(d) /\ Escrowed(k) \in Nat /\ Pending(d) \in Nat
    <2>1. EscrowDeposit(k) + k.provider_stake \in Nat
        BY ContractFacts DEF EscrowInv
    <2>2. Pending(d) \in Nat
        BY DisputeFacts DEF EscrowInv, Pending
    <2> QED
        BY <1>2, <2>1, <2>2, VerdictCovered
<1>6. d \in Dispute
    BY DisputeFacts DEF EscrowInv
<1>7. /\ disputes'[c].status = outcome
      /\ \A x \in ContractIds \ {c} : disputes'[x] = disputes[x]
    BY <1>3, <1>6 DEF EscrowInv, TypeOK, Dispute
<1>8. Pending(disputes'[c]) = 0 /\ disputes'[c].status # "None"
    BY <1>4, <1>7 DEF Pending, ResolvedStatuses
<1>9. k.status # "None"
    BY <1>3 DEF EscrowInv, Consistent
<1>10. c \notin astray' =>
           Total(pay) + Pending(disputes'[c]) = 0 + Escrowed(k) + Pending(d)
    BY <1>5, <1>8
<1>11. Pending(disputes'[c]) \in Nat /\ (disputes'[c].status = "None" => ~HasAppeal(disputes'[c]))
    BY <1>8
<1> QED
    BY <1>2, <1>3, <1>4, <1>7, <1>9, <1>10, <1>11, ClosingKeeps

(* A step on one contract keeps what is known of all of them.              *)
LEMMA ActionKeeps ==
    ASSUME FeesBounded, EscrowInv, NEW c \in ContractIds, LifecycleOn(c) \/ DisputeOn(c)
    PROVE  /\ \A x \in ContractIds : Balanced(x)' /\ Consistent(x)'
           /\ BlankExactly'
<1>1. ASSUME LifecycleOn(c)
      PROVE  /\ \A x \in ContractIds : Balanced(x)' /\ Consistent(x)'
             /\ \A x \in ContractIds :
                    contracts'[x].status = "None" <=> contracts[x].status = "None"
    BY <1>1, AcceptProposalKeeps, CancelProposalKeeps, DeliverKeeps, AcceptKeeps,
       RejectDeliveryKeeps, TimeoutKeeps, TimeoutDeliveryKeeps DEF LifecycleOn
<1>2. ASSUME DisputeOn(c)
      PROVE  /\ \A x \in ContractIds : Balanced(x)' /\ Consistent(x)'
             /\ \A x \in ContractIds :
                    contracts'[x].status = "None" <=> contracts[x].status = "None"
    BY <1>2, InitiateKeeps, RespondKeeps, EscalateKeeps, EscalateToAppealKeeps, VoteKeeps,
       ResolveKeeps, RedeliverKeeps, AcceptCorrectionKeeps DEF DisputeOn
<1>3. total_contracts' = total_contracts
    BY DEF LifecycleOn, AcceptProposal, CancelProposal, Deliver, Accept, RejectDelivery, Timeout,
           TimeoutDelivery, DisputeOn, Initiate, Respond, Escalate, EscalateToAppeal, Vote,
           Resolve, Redeliver, AcceptCorrection
<1>4. BlankExactly'
    BY <1>1, <1>2, <1>3 DEF EscrowInv, BlankExactly
<1> QED
    BY <1>1, <1>2, <1>4

(* A step that leaves contracts, disputes and escrow alone.                *)
LEMMA OtherKeeps ==
    ASSUME EscrowInv, UNCHANGED <<total_contracts, contracts, disputes, escrow, astray>>
    PROVE  /\ \A x \in ContractIds : Balanced(x)' /\ Consistent(x)'
           /\ BlankExactly'
<1>1. BlankExactly'
    BY DEF EscrowInv, BlankExactly
<1> SUFFICES ASSUME NEW x \in ContractIds PROVE Balanced(x)' /\ Consistent(x)'
    BY <1>1
<1>2. Untouched(x)
    BY DEF Untouched
<1> QED
    BY <1>2, UntouchedKeeps DEF EscrowInv

(* A gift leaves more than enough, and the records alone.                  *)
LEMMA GiftHeld ==
    ASSUME TypeOK, NEW c \in ContractIds, NEW currency \in Currencies, NEW amount \in Gifts,
           Gift(c, currency, amount)
    PROVE  /\ Held(c)' >= Held(c)
           /\ \A x \in ContractIds \ {c} : \A cur \in Currencies : escrow'[cur][x] = escrow[cur][x]
<1>1. amount \in Nat
    BY InputsAssumption
<1>2. escrow["Sworn"][c] \in Nat /\ escrow["Sol"][c] \in Nat
    BY HeldNat
<1>3. /\ escrow \in [Currencies -> [ContractIds -> Nat]]
      /\ escrow' = [escrow EXCEPT ![currency][c] = @ + amount]
    BY DEF Gift, TypeOK
<1>4. escrow'["Sworn"][c] >= escrow["Sworn"][c] /\ escrow'["Sworn"][c] \in Nat
    BY <1>1, <1>2, <1>3 DEF Currencies
<1>5. escrow'["Sol"][c] >= escrow["Sol"][c] /\ escrow'["Sol"][c] \in Nat
    BY <1>1, <1>2, <1>3 DEF Currencies
<1>6. Held(c)' >= Held(c)
    BY <1>2, <1>4, <1>5 DEF Held
<1>7. \A x \in ContractIds \ {c} : \A cur \in Currencies : escrow'[cur][x] = escrow[cur][x]
    BY <1>3
<1> QED
    BY <1>6, <1>7

LEMMA GiftKeeps ==
    ASSUME EscrowInv, NEW c \in ContractIds, NEW currency \in Currencies, NEW amount \in Gifts,
           Gift(c, currency, amount)
    PROVE  /\ \A x \in ContractIds : Balanced(x)' /\ Consistent(x)'
           /\ BlankExactly'
<1>1. /\ total_contracts' = total_contracts /\ contracts' = contracts /\ disputes' = disputes
      /\ astray' = astray \cup {c} /\ c < total_contracts
    BY DEF Gift
<1>2. BlankExactly'
    BY <1>1 DEF EscrowInv, BlankExactly
<1>3. \A x \in ContractIds \ {c} : Balanced(x)' /\ Consistent(x)'
    <2> SUFFICES ASSUME NEW x \in ContractIds \ {c} PROVE Balanced(x)' /\ Consistent(x)'
        OBVIOUS
    <2>1. Untouched(x)
        BY <1>1, GiftHeld DEF EscrowInv, Untouched
    <2> QED
        BY <2>1, UntouchedKeeps DEF EscrowInv
<1>4. contracts[c].status # "None"
    BY <1>1, BoundsAssumption DEF EscrowInv, BlankExactly, TypeOK, ContractIds
<1>5. Consistent(c)'
    BY <1>1, <1>4 DEF EscrowInv, Consistent
<1>6. Balanced(c)'
    <2> DEFINE h == Held(c)
               h2 == Held(c)'
               owed == Pending(disputes[c]) + Escrowed(contracts[c])
    <2>1. h \in Nat /\ h2 \in Nat /\ h2 >= h
        <3>1. amount \in Nat
            BY InputsAssumption
        <3>2. TypeOK'
            BY <3>1, GiftType DEF EscrowInv
        <3>3. escrow'["Sworn"][c] \in Nat /\ escrow'["Sol"][c] \in Nat
            BY <3>2 DEF TypeOK, Currencies
        <3>4. h2 \in Nat
            BY <3>3 DEF Held
        <3> QED
            BY <3>4, HeldNat, GiftHeld DEF EscrowInv
    <2>2. owed \in Nat
        <3>1. EscrowDeposit(contracts[c]) \in Nat /\ contracts[c].provider_stake \in Nat
            BY ContractFacts DEF EscrowInv
        <3>2. Pending(disputes[c]) \in Nat
            BY DisputeFacts DEF EscrowInv, Pending
        <3> QED
            BY <3>1, <3>2 DEF Escrowed
    <2> HIDE DEF h, h2, owed
    <2>3. h >= owed => h2 >= owed
        BY <2>1, <2>2
    <2>4. contracts[c].status = "Proposed" \/ contracts[c].status \in LiveStatuses => h >= owed
        BY DEF EscrowInv, Balanced, h, owed
    <2> QED
        BY <1>1, <2>3, <2>4 DEF Balanced, h2, owed
<1> QED
    BY <1>2, <1>3, <1>5, <1>6

LEMMA InitEscrow == ASSUME Init PROVE EscrowInv
<1>1. TypeOK
    BY InitType
<1>2. config \in Configs
    BY DEF Init
<1>3. \A c \in ContractIds :
          contracts[c] = NoContract /\ disputes[c] = NoDispute /\ c \notin astray
    BY DEF Init
<1>4. NoContract.status = "None" /\ NoDispute.status = "None" /\ ~HasAppeal(NoDispute)
    BY DEF NoContract, NoDispute, HasAppeal
<1>5. BlankExactly
    BY <1>3, <1>4 DEF BlankExactly, Init, ContractIds
<1>6. \A c \in ContractIds : Consistent(c)
    BY <1>3, <1>4 DEF Consistent
<1>7. \A c \in ContractIds : Balanced(c)
    <2> SUFFICES ASSUME NEW c \in ContractIds PROVE Balanced(c)
        OBVIOUS
    <2>1. Held(c) = 0
        BY DEF Init, Held, Currencies
    <2>2. Escrowed(contracts[c]) = 0 /\ Pending(disputes[c]) = 0
        BY <1>3, <1>4 DEF Escrowed, Pending, LiveStatuses
    <2>3. Held(c) = Pending(disputes[c]) + Escrowed(contracts[c]) /\ Held(c) >= 0
        BY <2>1, <2>2
    <2> QED
        BY <2>1, <2>2, <2>3 DEF Balanced
<1> QED
    BY <1>1, <1>2, <1>5, <1>6, <1>7 DEF EscrowInv

LEMMA NextEscrow ==
    ASSUME FeesBounded, EscrowInv, Next
    PROVE  EscrowInv'
<1>1. TypeOK'
    BY NextType DEF EscrowInv
<1>2. config' \in Configs /\ (\A x \in ContractIds : Balanced(x)' /\ Consistent(x)') /\ BlankExactly'
    <2>1. CASE \E r \in Requesters, p \in Providers, v \in Values, i \in EscrowInputs,
                  cur \in CreateCurrencies : Create(r, p, v, i, cur)
        <3>1. config' = config
            BY <2>1 DEF Create
        <3> QED
            BY <2>1, <3>1, InputsAssumption, CreateKeeps DEF EscrowInv
    <2>2. CASE \E r \in Requesters, p \in Providers, v \in Values, x \in Expiries,
                  cur \in ProposeCurrencies, i \in EscrowInputs : Propose(r, p, v, x, cur, i)
        <3>1. config' = config
            BY <2>2 DEF Propose
        <3> QED
            BY <2>2, <3>1, InputsAssumption, ProposeKeeps DEF EscrowInv
    <2>3. ASSUME NEW c \in ContractIds, LifecycleOn(c) \/ DisputeOn(c)
          PROVE  config' \in Configs /\ (\A x \in ContractIds : Balanced(x)' /\ Consistent(x)')
                 /\ BlankExactly'
        <3>1. config' = config
            BY <2>3 DEF LifecycleOn, AcceptProposal, CancelProposal, Deliver, Accept,
                RejectDelivery, Timeout, TimeoutDelivery, DisputeOn, Initiate, Respond, Escalate,
                EscalateToAppeal, Vote, Resolve, Redeliver, AcceptCorrection
        <3> QED
            BY <2>3, <3>1, ActionKeeps DEF EscrowInv
    <2>4. ASSUME NEW a \in Registered, IdentityOn(a)
          PROVE  config' \in Configs /\ (\A x \in ContractIds : Balanced(x)' /\ Consistent(x)')
                 /\ BlankExactly'
        <3>1. UNCHANGED <<config, total_contracts, contracts, disputes, escrow, astray>>
            BY <2>4 DEF IdentityOn, CalculateTrustScore, Hibernate, Wake, ExpireHibernation,
                ForceMature, ChangeAgent
        <3> QED
            BY <3>1, OtherKeeps DEF EscrowInv
    <2>5. ASSUME NEW settings \in Configs, UpdateConfig(settings)
          PROVE  config' \in Configs /\ (\A x \in ContractIds : Balanced(x)' /\ Consistent(x)')
                 /\ BlankExactly'
        BY <2>5, OtherKeeps DEF UpdateConfig
    <2>6. CASE Tick
        BY <2>6, OtherKeeps DEF Tick, EscrowInv
    <2>7. ASSUME NEW c \in ContractIds, NEW currency \in Currencies, NEW amount \in Gifts,
                 Gift(c, currency, amount)
          PROVE  config' \in Configs /\ (\A x \in ContractIds : Balanced(x)' /\ Consistent(x)')
                 /\ BlankExactly'
        <3>1. config' = config
            BY <2>7 DEF Gift
        <3> QED
            BY <2>7, <3>1, GiftKeeps DEF EscrowInv
    <2> QED
        BY <2>1, <2>2, <2>3, <2>4, <2>5, <2>6, <2>7
           DEF Next, LifecycleNext, DisputeNext, IdentityNext
<1> QED
    BY <1>1, <1>2 DEF EscrowInv

LEMMA StutterEscrow ==
    ASSUME EscrowInv, UNCHANGED vars
    PROVE  EscrowInv'
<1>1. TypeOK'
    BY DEF EscrowInv, TypeOK, vars
<1>2. (\A x \in ContractIds : Balanced(x)' /\ Consistent(x)') /\ BlankExactly'
    BY OtherKeeps DEF vars
<1> QED
    BY <1>1, <1>2 DEF EscrowInv, vars

(* The inductive invariant holds in every reachable state.                 *)
THEOREM EscrowInvariant == ASSUME FeesBounded PROVE Spec => []EscrowInv
<1>1. Init => EscrowInv
    BY InitEscrow
<1>2. EscrowInv /\ [Next]_vars => EscrowInv'
    BY NextEscrow, StutterEscrow
<1> QED
    BY <1>1, <1>2, PTL DEF Spec

(* What is escrowed for a contract is at every moment what its records say,
   unless a settlement named another account than a payee's or somebody else
   paid into it, and no less until it is settled even then: whatever the
   values, the rates, the limits, and the order in which the instructions of
   contract.rs, proposal.rs and dispute.rs run.                            *)
THEOREM EscrowExact == ASSUME FeesBounded PROVE Spec => []EscrowMatchesRecords
<1>1. EscrowInv => EscrowMatchesRecords
    BY OwedByAccount DEF EscrowInv, EscrowMatchesRecords, Balanced, IsLive
<1> QED
    BY <1>1, EscrowInvariant, PTL

-----------------------------------------------------------------------------
Final(x) ==
    IsSettled(x) =>
        /\ IsSettled(x)'
        /\ Regular(x)' => /\ contracts'[x].status = contracts[x].status
                          /\ contracts'[x].resolved_at = contracts[x].resolved_at
                          /\ Held(x)' >= Held(x)

StaysPut(x) ==
    /\ contracts'[x] = contracts[x]
    /\ \A cur \in Currencies : escrow'[cur][x] = escrow[cur][x]

LEMMA StaysPutFinal ==
    ASSUME EscrowInv, NEW x \in ContractIds, StaysPut(x)
    PROVE  Final(x)
<1>1. Held(x) \in Nat
    BY HeldNat DEF EscrowInv
<1>2. Held(x)' = Held(x)
    BY DEF Held, StaysPut, Currencies
<1>3. Held(x)' >= Held(x)
    BY <1>1, <1>2
<1> QED
    BY <1>3 DEF Final, StaysPut, IsSettled

(* A step on a contract that is not settled touches no other.              *)
LEMMA UnsettledFinal ==
    ASSUME EscrowInv, NEW c \in ContractIds, ~IsSettled(c),
           \A x \in ContractIds \ {c} : StaysPut(x)
    PROVE  \A x \in ContractIds : Final(x)
<1> SUFFICES ASSUME NEW x \in ContractIds PROVE Final(x)
    OBVIOUS
<1>1. CASE x = c
    BY <1>1 DEF Final
<1>2. CASE x # c
    BY <1>2, StaysPutFinal
<1> QED
    BY <1>1, <1>2

LEMMA DisburseElsewhere ==
    ASSUME TypeOK, NEW c \in ContractIds, NEW currency, NEW topUp, NEW first, NEW second,
           Disburse(c, currency, topUp, first, second),
           NEW x \in ContractIds \ {c}, NEW cur \in Currencies
    PROVE  escrow'[cur][x] = escrow[cur][x]
<1>1. PICK route : Transfers(c, currency, topUp, first, second, route)
    BY DEF Disburse
<1> DEFINE balance == escrow[currency][c] + topUp
           left == balance - Total(Leaving(first, route))
           after == left - Total(Leaving(second, route))
<1>2. escrow' = [escrow EXCEPT ![currency][c] = after]
    BY <1>1 DEF Transfers
<1> HIDE DEF after
<1> QED
    BY <1>2 DEF TypeOK

(* The escrow of a settled contract cannot pay a verdict to its payees.    *)
LEMMA VerdictGiven ==
    ASSUME EscrowInv, NEW c \in ContractIds, NEW verdict \in BOOLEAN, Resolve(c, verdict)
    PROVE  /\ contracts'[c].status \in ResolvedStatuses
           /\ contracts'[c].status # "None"
           /\ contracts'[c].value = contracts[c].value
           /\ contracts'[c].escrow_factor_bps = contracts[c].escrow_factor_bps
           /\ \A x \in ContractIds \ {c} : contracts'[x] = contracts[x]
<1> DEFINE outcome == IF ProviderWins(disputes[c], verdict) THEN "ResolvedProvider"
                      ELSE "ResolvedRequester"
<1>1. contracts' = [contracts EXCEPT ![c].status = outcome, ![c].resolved_at = now]
    BY DEF Resolve
<1>2. outcome \in ResolvedStatuses /\ outcome # "None"
    BY DEF ResolvedStatuses
<1> HIDE DEF outcome
<1>3. contracts[c] \in Contract
    BY ContractFacts DEF EscrowInv
<1> QED
    BY <1>1, <1>2, <1>3 DEF EscrowInv, TypeOK, Contract

LEMMA ResolveUnsettled ==
    ASSUME EscrowInv, NEW c \in ContractIds, NEW verdict \in BOOLEAN,
           Resolve(c, verdict), Regular(c)'
    PROVE  ~IsSettled(c)
<1> DEFINE k == contracts[c]
<1>1. k \in Contract /\ EscrowDeposit(k) \in Nat /\ k.provider_stake \in Nat
    BY ContractFacts DEF EscrowInv
<1>2. Escrowed(k) = EscrowDeposit(k) + k.provider_stake
    BY VerdictCovered DEF Regular
<1>3. contracts'[c].status # "None" /\ EscrowDeposit(contracts'[c]) = EscrowDeposit(k)
    BY <1>1, VerdictGiven DEF EscrowDeposit
<1>4. EscrowDeposit(k) > 0
    BY <1>3 DEF Regular
<1>5. Escrowed(k) # 0
    BY <1>1, <1>2, <1>4
<1> QED
    BY <1>5 DEF Escrowed, IsSettled, LiveStatuses, SettledStatuses

LEMMA LifecycleFinal ==
    ASSUME EscrowInv, NEW c \in ContractIds, LifecycleOn(c)
    PROVE  \A x \in ContractIds : Final(x)
<1> USE DEF EscrowInv, StaysPut
<1>1. CASE AcceptProposal(c)
    <2>1. ~IsSettled(c)
        BY <1>1 DEF AcceptProposal, IsSettled, SettledStatuses
    <2>2. \A x \in ContractIds \ {c} : StaysPut(x)
        BY <1>1 DEF AcceptProposal, TypeOK
    <2> QED
        BY <2>1, <2>2, UnsettledFinal
<1>2. CASE CancelProposal(c)
    <2>1. ~IsSettled(c)
        BY <1>2 DEF CancelProposal, IsSettled, SettledStatuses
    <2>2. \A x \in ContractIds \ {c} : contracts'[x] = contracts[x]
        BY <1>2 DEF CancelProposal, TypeOK
    <2> QED
        BY <1>2, <2>1, <2>2, DirectDisburses, DisburseElsewhere, UnsettledFinal
           DEF CancelProposal
<1>3. CASE Deliver(c)
    <2>1. ~IsSettled(c)
        BY <1>3 DEF Deliver, IsSettled, SettledStatuses
    <2>2. \A x \in ContractIds \ {c} : StaysPut(x)
        BY <1>3 DEF Deliver, TypeOK
    <2> QED
        BY <2>1, <2>2, UnsettledFinal
<1>4. CASE Accept(c)
    <2>1. ~IsSettled(c)
        BY <1>4 DEF Accept, AcceptAccounts, IsSettled, SettledStatuses
    <2>2. \A x \in ContractIds \ {c} : contracts'[x] = contracts[x]
        BY <1>4 DEF Accept, TypeOK
    <2> QED
        BY <1>4, <2>1, <2>2, DisburseElsewhere, UnsettledFinal DEF Accept
<1>5. CASE RejectDelivery(c)
    <2>1. ~IsSettled(c)
        BY <1>5 DEF RejectDelivery, IsSettled, SettledStatuses
    <2>2. \A x \in ContractIds \ {c} : StaysPut(x)
        BY <1>5 DEF RejectDelivery, TypeOK
    <2> QED
        BY <2>1, <2>2, UnsettledFinal
<1>6. CASE Timeout(c)
    <2>1. ~IsSettled(c)
        BY <1>6 DEF Timeout, TimeoutAccounts, IsSettled, SettledStatuses
    <2>2. \A x \in ContractIds \ {c} : contracts'[x] = contracts[x]
        BY <1>6 DEF Timeout, TypeOK
    <2> QED
        BY <1>6, <2>1, <2>2, DisburseElsewhere, UnsettledFinal DEF Timeout
<1>7. CASE TimeoutDelivery(c)
    <2>1. ~IsSettled(c)
        BY <1>7 DEF TimeoutDelivery, TimeoutDeliveryAccounts, IsSettled, SettledStatuses
    <2>2. \A x \in ContractIds \ {c} : contracts'[x] = contracts[x]
        BY <1>7 DEF TimeoutDelivery, TypeOK
    <2> QED
        BY <1>7, <2>1, <2>2, DisburseElsewhere, UnsettledFinal DEF TimeoutDelivery
<1> QED
    BY <1>1, <1>2, <1>3, <1>4, <1>5, <1>6, <1>7 DEF LifecycleOn

(* Only the level of a settled contract is still written, and only the stake
   of an appeal still comes in.                                            *)
LEMMA EscalateToAppealFinal ==
    ASSUME EscrowInv, NEW c \in ContractIds, NEW by \in Agents, EscalateToAppeal(c, by)
    PROVE  \A x \in ContractIds : Final(x)
<1> DEFINE stake == contracts[c].value \div 2
<1>1. stake \in Nat
    <2>1. contracts[c].value \in Nat
        BY ContractFacts DEF EscrowInv
    <2> QED
        BY <2>1
<1>2. /\ escrow' = [escrow EXCEPT !["Sworn"][c] = @ + stake]
      /\ contracts' = [contracts EXCEPT ![c].dispute_level = 4]
    BY DEF EscalateToAppeal
<1> HIDE DEF stake
<1>3. \A x \in ContractIds \ {c} : Final(x)
    BY <1>2, StaysPutFinal DEF StaysPut, EscrowInv, TypeOK
<1>4. Final(c)
    <2>1. escrow["Sworn"][c] \in Nat /\ escrow["Sol"][c] \in Nat
        BY HeldNat DEF EscrowInv
    <2>2. escrow'["Sworn"][c] = escrow["Sworn"][c] + stake /\ escrow'["Sol"][c] = escrow["Sol"][c]
        BY <1>2 DEF EscrowInv, TypeOK, Currencies
    <2>3. Held(c)' >= Held(c)
        BY <1>1, <2>1, <2>2 DEF Held
    <2>4. contracts[c] \in Contract
        BY ContractFacts DEF EscrowInv
    <2>5. contracts'[c].status = contracts[c].status
          /\ contracts'[c].resolved_at = contracts[c].resolved_at
        BY <1>2, <2>4 DEF EscrowInv, TypeOK, Contract
    <2> QED
        BY <2>3, <2>5 DEF Final, IsSettled
<1> QED
    BY <1>3, <1>4

LEMMA EscalateFinal ==
    ASSUME EscrowInv, NEW c \in ContractIds, Escalate(c)
    PROVE  \A x \in ContractIds : Final(x)
<1>1. escrow' = escrow
    BY DEF Escalate
<1> DEFINE level == IF disputes[c].level = "PrivateRounds" THEN 3 ELSE 2
<1>2. contracts' = [contracts EXCEPT ![c].dispute_level = level]
    BY DEF Escalate
<1> HIDE DEF level
<1>3. contracts[c] \in Contract
    BY ContractFacts DEF EscrowInv
<1> SUFFICES ASSUME NEW x \in ContractIds PROVE Final(x)
    OBVIOUS
<1>4. Held(x)' = Held(x) /\ Held(x) \in Nat
    BY <1>1, HeldNat DEF EscrowInv, Held
<1>5. Held(x)' >= Held(x)
    BY <1>4
<1>6. contracts'[x].status = contracts[x].status
      /\ contracts'[x].resolved_at = contracts[x].resolved_at
    BY <1>2, <1>3 DEF EscrowInv, TypeOK, Contract
<1> QED
    BY <1>5, <1>6 DEF Final, IsSettled

LEMMA DisputeFinal ==
    ASSUME EscrowInv, NEW c \in ContractIds, DisputeOn(c)
    PROVE  \A x \in ContractIds : Final(x)
<1> USE DEF EscrowInv, StaysPut
<1>1. CASE Initiate(c)
    <2>1. ~IsSettled(c)
        BY <1>1 DEF Initiate, IsSettled, SettledStatuses
    <2>2. \A x \in ContractIds \ {c} : StaysPut(x)
        BY <1>1 DEF Initiate, TypeOK
    <2> QED
        BY <2>1, <2>2, UnsettledFinal
<1>2. CASE Respond(c)
    BY <1>2, StaysPutFinal DEF Respond
<1>3. CASE Escalate(c)
    BY <1>3, EscalateFinal
<1>4. CASE \E by \in Agents : EscalateToAppeal(c, by)
    BY <1>4, EscalateToAppealFinal
<1>5. CASE \E j \in Jurors, forProvider \in BOOLEAN : Vote(j, c, forProvider)
    BY <1>5, StaysPutFinal DEF Vote
<1>6. ASSUME NEW verdict \in BOOLEAN, Resolve(c, verdict)
      PROVE  \A x \in ContractIds : Final(x)
    <2>1. \A x \in ContractIds \ {c} : Final(x)
        BY <1>6, VerdictGiven, DisburseElsewhere, StaysPutFinal DEF Resolve
    <2>2. IsSettled(c)'
        BY <1>6, VerdictGiven DEF IsSettled, ResolvedStatuses, SettledStatuses
    <2>3. Final(c)
        BY <1>6, <2>2, ResolveUnsettled DEF Final
    <2> QED
        BY <2>1, <2>3
<1>7. CASE Redeliver(c)
    <2>1. ~IsSettled(c)
        BY <1>7 DEF Redeliver, RedeliverAccounts, IsSettled, SettledStatuses
    <2>2. \A x \in ContractIds \ {c} : StaysPut(x)
        BY <1>7 DEF Redeliver, TypeOK
    <2> QED
        BY <2>1, <2>2, UnsettledFinal
<1>8. CASE AcceptCorrection(c)
    <2>1. ~IsSettled(c)
        BY <1>8 DEF AcceptCorrection, IsSettled, SettledStatuses
    <2>2. \A x \in ContractIds \ {c} : contracts'[x] = contracts[x]
        BY <1>8 DEF AcceptCorrection, TypeOK
    <2> QED
        BY <1>8, <2>1, <2>2, DisburseElsewhere, UnsettledFinal DEF AcceptCorrection
<1> QED
    BY <1>1, <1>2, <1>3, <1>4, <1>5, <1>6, <1>7, <1>8 DEF DisputeOn

(* A new contract takes the place of none.                                 *)
LEMMA NewContractFinal ==
    ASSUME EscrowInv, NEW k, NEW currency, NEW stake, NEW deposit,
           NewContract(k, currency, stake, deposit)
    PROVE  \A x \in ContractIds : Final(x)
<1>1. PICK c \in ContractIds : c = total_contracts
    <2>1. total_contracts \in ContractIds
        BY BoundsAssumption DEF EscrowInv, TypeOK, NewContract, ContractIds
    <2> QED
        BY <2>1
<1>2. ~IsSettled(c)
    <2>1. contracts[c].status = "None"
        BY <1>1 DEF EscrowInv, BlankExactly, ContractIds
    <2> QED
        BY <2>1 DEF IsSettled, SettledStatuses
<1> DEFINE amount == stake + deposit
<1>3. contracts' = [contracts EXCEPT ![c] = k] /\ escrow' = [escrow EXCEPT ![currency][c] = amount]
    BY <1>1 DEF NewContract
<1> HIDE DEF amount
<1>4. \A x \in ContractIds \ {c} : StaysPut(x)
    BY <1>3 DEF StaysPut, EscrowInv, TypeOK
<1> QED
    BY <1>2, <1>4, UnsettledFinal

LEMMA NextFinal ==
    ASSUME EscrowInv, Next
    PROVE  \A x \in ContractIds : Final(x)
<1>1. CASE \E r \in Requesters, p \in Providers, v \in Values, i \in EscrowInputs,
              cur \in CreateCurrencies : Create(r, p, v, i, cur)
    BY <1>1, NewContractFinal DEF Create
<1>2. CASE \E r \in Requesters, p \in Providers, v \in Values, x \in Expiries,
              cur \in ProposeCurrencies, i \in EscrowInputs : Propose(r, p, v, x, cur, i)
    BY <1>2, NewContractFinal DEF Propose
<1>3. ASSUME NEW a \in Registered, IdentityOn(a)
      PROVE  \A x \in ContractIds : Final(x)
    BY <1>3, StaysPutFinal DEF StaysPut, IdentityOn, CalculateTrustScore, Hibernate, Wake,
        ExpireHibernation, ForceMature, ChangeAgent
<1>4. ASSUME NEW settings \in Configs, UpdateConfig(settings)
      PROVE  \A x \in ContractIds : Final(x)
    BY <1>4, StaysPutFinal DEF StaysPut, UpdateConfig
<1>5. CASE Tick
    BY <1>5, StaysPutFinal DEF StaysPut, Tick
<1>6. ASSUME NEW c \in ContractIds, NEW currency \in Currencies, NEW amount \in Gifts,
             Gift(c, currency, amount)
      PROVE  \A x \in ContractIds : Final(x)
    <2>1. contracts' = contracts
        BY <1>6 DEF Gift
    <2>2. \A x \in ContractIds \ {c} : StaysPut(x)
        BY <1>6, <2>1, GiftHeld DEF EscrowInv, StaysPut
    <2>3. Final(c)
        BY <1>6, <2>1, GiftHeld DEF EscrowInv, Final, IsSettled
    <2> QED
        BY <2>2, <2>3, StaysPutFinal
<1> QED
    BY <1>1, <1>2, <1>3, <1>4, <1>5, <1>6, LifecycleFinal, DisputeFinal
       DEF Next, LifecycleNext, DisputeNext, IdentityNext

(* A settled contract stays settled; and it keeps its outcome and its date
   and pays nothing more, whatever instructions its dispute still accepts,
   as long as its payments reach their payees.                             *)
THEOREM SettledFinal == ASSUME FeesBounded PROVE Spec => SettledIsFinal
<1>1. Spec => []EscrowInv
    BY EscrowInvariant
<1>2. EscrowInv /\ [Next]_vars =>
          [\A c \in ContractIds : IsSettled(c) =>
              /\ IsSettled(c)'
              /\ Regular(c)' => /\ contracts'[c].status = contracts[c].status
                                /\ contracts'[c].resolved_at = contracts[c].resolved_at
                                /\ Held(c)' >= Held(c)]_vars
    BY NextFinal DEF Final
<1> QED
    BY <1>1, <1>2, PTL DEF Spec, SettledIsFinal

-----------------------------------------------------------------------------
(* The order of a dispute and its votes *)

(* The votes cast at one level for one of the parties. *)
Cast(ballots, level, forProvider) ==
    {v \in ballots : v.level = level /\ v.vote_for_provider = forProvider}

(* The counters of d count the votes of its level, and no vote is cast
   before there is a jury, nor for an appeal before there is one.          *)
Tallied(d, ballots) ==
    /\ IsFiniteSet(ballots)
    /\ \A v, w \in ballots : v.juror = w.juror => v = w
    /\ d.votes_provider = Cardinality(Cast(ballots, d.level, TRUE))
    /\ d.votes_requester = Cardinality(Cast(ballots, d.level, FALSE))
    /\ ~JuryLevel(d) => ballots = {}
    /\ d.level = "PublicJury" => \A v \in ballots : v.level = "PublicJury"

(* A party answers in the private rounds at most once. *)
OneRound(d) ==
    /\ d.private_rounds_count \in {0, 1}
    /\ d.level = "DirectCorrection" => d.private_rounds_count = 0
    /\ d.level = "PrivateRounds" /\ d.status = "Open" => d.private_rounds_count = 0

(* What holds of the accounts of one contract. *)
InOrder(k, proof, d, ballots) ==
    /\ k.status = "None" => d.status = "None"
    /\ k.status \in {"None", "Proposed", "Active"} => ~proof.exists
    /\ d.status = "None" => d.level = "DirectCorrection"
    /\ OneRound(d)
    /\ Tallied(d, ballots)

Orderly(c) == InOrder(contracts[c], poe[c], disputes[c], votes[c])

BlankBeyond == \A c \in ContractIds : c >= total_contracts => contracts[c].status = "None"

(* The inductive invariant. *)
DisputeInv == TypeOK /\ BlankBeyond /\ \A c \in ContractIds : Orderly(c)

(* A step leaves the accounts of x alone. *)
Aside(x) ==
    /\ contracts'[x] = contracts[x]
    /\ poe'[x] = poe[x]
    /\ disputes'[x] = disputes[x]
    /\ votes'[x] = votes[x]

(* What the action properties ask of a step, for one contract. *)
Climbs(c) == LevelNumber(disputes'[c].level) - LevelNumber(disputes[c].level) \in {0, 1}

Follows(c) ==
    JuryLevel(disputes[c]) /\ ~IsDecided(c) /\ IsDecided(c)' =>
        LET level == disputes[c].level
        IN  /\ Cast(votes[c], level, TRUE) \cup Cast(votes[c], level, FALSE) # {}
            /\ (disputes'[c].status = "ResolvedProvider") <=>
                   (Cardinality(Cast(votes[c], level, TRUE))
                        > Cardinality(Cast(votes[c], level, FALSE)))

-----------------------------------------------------------------------------
LEMMA LevelNumbers ==
    /\ LevelNumber("DirectCorrection") = 1
    /\ LevelNumber("PrivateRounds") = 2
    /\ LevelNumber("PublicJury") = 3
    /\ LevelNumber("Appeal") = 4
BY DEF LevelNumber

LEMMA SameLevelClimbs ==
    ASSUME NEW level \in DisputeLevels
    PROVE  LevelNumber(level) - LevelNumber(level) \in {0, 1}
<1>1. LevelNumber(level) \in Int
    BY LevelNumbers DEF DisputeLevels
<1> QED
    BY <1>1

LEMMA AsideKeeps ==
    ASSUME TypeOK, NEW x \in ContractIds, Orderly(x), Aside(x)
    PROVE  Orderly(x)' /\ Climbs(x) /\ Follows(x)
<1>1. Orderly(x)'
    BY DEF Orderly, Aside
<1>2. Climbs(x)
    BY DisputeFacts, SameLevelClimbs DEF Climbs, Aside
<1>3. Follows(x)
    BY DEF Follows, Aside, IsDecided
<1> QED
    BY <1>1, <1>2, <1>3

-----------------------------------------------------------------------------
(* The tally *)

LEMMA CastFinite ==
    ASSUME NEW ballots, IsFiniteSet(ballots), NEW level, NEW forProvider
    PROVE  /\ IsFiniteSet(Cast(ballots, level, forProvider))
           /\ Cardinality(Cast(ballots, level, forProvider)) \in Nat
<1>1. Cast(ballots, level, forProvider) \in SUBSET ballots
    BY DEF Cast
<1>2. IsFiniteSet(Cast(ballots, level, forProvider))
    BY <1>1, FS_Subset
<1> QED
    BY <1>2, FS_CardinalityType

(* No votes, no count, whatever the level. *)
LEMMA NoVotes ==
    ASSUME NEW level, NEW forProvider
    PROVE  Cardinality(Cast({}, level, forProvider)) = 0
<1>1. Cast({}, level, forProvider) = {}
    BY DEF Cast
<1> QED
    BY <1>1, FS_EmptySet

(* The handlers that touch neither votes nor level keep the count.         *)
LEMMA TallySame ==
    ASSUME NEW d, NEW e, NEW ballots, Tallied(d, ballots), e.level = d.level,
           e.votes_provider = d.votes_provider, e.votes_requester = d.votes_requester
    PROVE  Tallied(e, ballots)
BY DEF Tallied, JuryLevel

(* Before the jury there is nothing to count.                              *)
LEMMA TallyBeforeJury ==
    ASSUME NEW d, NEW e, NEW ballots, Tallied(d, ballots), ~JuryLevel(d),
           e.votes_provider = 0, e.votes_requester = 0
    PROVE  Tallied(e, ballots)
<1>1. ballots = {}
    BY DEF Tallied
<1> QED
    BY <1>1, NoVotes, FS_EmptySet DEF Tallied

LEMMA ZeroBeforeJury ==
    ASSUME NEW d, NEW ballots, Tallied(d, ballots), ~JuryLevel(d)
    PROVE  d.votes_provider = 0 /\ d.votes_requester = 0
BY NoVotes DEF Tallied

(* The counters start from zero for the appeal, where nobody has voted.    *)
LEMMA TallyAppealed ==
    ASSUME NEW d, NEW e, NEW ballots, Tallied(d, ballots), d.level = "PublicJury",
           e.level = "Appeal", e.votes_provider = 0, e.votes_requester = 0
    PROVE  Tallied(e, ballots)
<1>1. \A forProvider \in BOOLEAN : Cast(ballots, "Appeal", forProvider) = {}
    BY DEF Tallied, Cast
<1>2. \A forProvider \in BOOLEAN : Cardinality(Cast(ballots, "Appeal", forProvider)) = 0
    BY <1>1, FS_EmptySet
<1> QED
    BY <1>2 DEF Tallied, JuryLevel

(* One more vote of a juror that has none is one more in its counter.      *)
LEMMA TallyVote ==
    ASSUME NEW d, NEW e, NEW ballots, Tallied(d, ballots), NEW vote,
           \A v \in ballots : v.juror # vote.juror,
           vote.level = d.level, vote.vote_for_provider \in BOOLEAN, JuryLevel(d),
           e.level = d.level,
           e.votes_provider = d.votes_provider + (IF vote.vote_for_provider THEN 1 ELSE 0),
           e.votes_requester = d.votes_requester + (IF vote.vote_for_provider THEN 0 ELSE 1)
    PROVE  Tallied(e, ballots \cup {vote})
<1> DEFINE cast(side) == Cast(ballots, d.level, side)
           after(side) == Cast(ballots \cup {vote}, d.level, side)
           provider == Cardinality(cast(TRUE))
           requester == Cardinality(cast(FALSE))
           providerAfter == Cardinality(after(TRUE))
           requesterAfter == Cardinality(after(FALSE))
<1>1. vote \notin ballots
    OBVIOUS
<1>2. IsFiniteSet(ballots \cup {vote})
    BY FS_AddElement DEF Tallied
<1>3. \A side \in BOOLEAN : IsFiniteSet(cast(side)) /\ Cardinality(cast(side)) \in Nat
    BY CastFinite DEF Tallied
<1>4. ASSUME NEW side \in BOOLEAN, vote.vote_for_provider = side
      PROVE  Cardinality(after(side)) = Cardinality(cast(side)) + 1
    <2>1. after(side) = cast(side) \cup {vote}
        BY <1>4 DEF Cast
    <2>2. vote \notin cast(side)
        BY <1>1 DEF Cast
    <2> HIDE DEF cast, after
    <2> QED
        BY <1>3, <2>1, <2>2, FS_AddElement
<1>5. ASSUME NEW side \in BOOLEAN, vote.vote_for_provider # side
      PROVE  Cardinality(after(side)) = Cardinality(cast(side))
    <2>1. after(side) = cast(side)
        BY <1>5 DEF Cast
    <2> QED
        BY <2>1
<1>6. e.votes_provider = providerAfter /\ e.votes_requester = requesterAfter
    <2>1. d.votes_provider = provider /\ d.votes_requester = requester
        BY DEF Tallied
    <2>2. provider \in Nat /\ requester \in Nat
        BY <1>3
    <2>3. CASE vote.vote_for_provider = TRUE
        <3>1. providerAfter = provider + 1 /\ requesterAfter = requester
            BY <1>4, <1>5, <2>3
        <3> HIDE DEF provider, requester, providerAfter, requesterAfter
        <3> QED
            BY <2>1, <2>2, <2>3, <3>1
    <2>4. CASE vote.vote_for_provider = FALSE
        <3>1. providerAfter = provider /\ requesterAfter = requester + 1
            BY <1>4, <1>5, <2>4
        <3> HIDE DEF provider, requester, providerAfter, requesterAfter
        <3> QED
            BY <2>1, <2>2, <2>4, <3>1
    <2> QED
        BY <2>3, <2>4
<1>7. \A v, w \in ballots \cup {vote} : v.juror = w.juror => v = w
    BY DEF Tallied
<1> QED
    BY <1>2, <1>6, <1>7 DEF Tallied, JuryLevel
-----------------------------------------------------------------------------
(* Every instruction works on the accounts of one contract.                *)
LEMMA Elsewhere ==
    ASSUME TypeOK, NEW c \in ContractIds, LifecycleOn(c) \/ DisputeOn(c),
           NEW x \in ContractIds \ {c}
    PROVE  Aside(x)
<1> USE DEF Aside, TypeOK
<1>1. CASE LifecycleOn(c)
    <2>1. ASSUME AcceptProposal(c) PROVE Aside(x)
        BY <2>1 DEF AcceptProposal
    <2>2. ASSUME CancelProposal(c) PROVE Aside(x)
        BY <2>2 DEF CancelProposal
    <2>3. ASSUME Deliver(c) PROVE Aside(x)
        BY <2>3 DEF Deliver
    <2>4. ASSUME Accept(c) PROVE Aside(x)
        BY <2>4 DEF Accept
    <2>5. ASSUME RejectDelivery(c) PROVE Aside(x)
        BY <2>5 DEF RejectDelivery
    <2>6. ASSUME Timeout(c) PROVE Aside(x)
        BY <2>6 DEF Timeout
    <2>7. ASSUME TimeoutDelivery(c) PROVE Aside(x)
        BY <2>7 DEF TimeoutDelivery
    <2> QED
        BY <1>1, <2>1, <2>2, <2>3, <2>4, <2>5, <2>6, <2>7 DEF LifecycleOn
<1>2. CASE DisputeOn(c)
    <2>1. ASSUME Initiate(c) PROVE Aside(x)
        BY <2>1 DEF Initiate
    <2>2. ASSUME Respond(c) PROVE Aside(x)
        BY <2>2 DEF Respond
    <2>3. ASSUME Escalate(c) PROVE Aside(x)
        BY <2>3 DEF Escalate
    <2>4. ASSUME NEW by \in Agents, EscalateToAppeal(c, by) PROVE Aside(x)
        BY <2>4 DEF EscalateToAppeal
    <2>5. ASSUME NEW j \in Jurors, NEW forProvider \in BOOLEAN, Vote(j, c, forProvider)
          PROVE  Aside(x)
        BY <2>5 DEF Vote
    <2>6. ASSUME NEW verdict \in BOOLEAN, Resolve(c, verdict) PROVE Aside(x)
        BY <2>6 DEF Resolve
    <2>7. ASSUME Redeliver(c) PROVE Aside(x)
        BY <2>7 DEF Redeliver
    <2>8. ASSUME AcceptCorrection(c) PROVE Aside(x)
        BY <2>8 DEF AcceptCorrection
    <2> QED
        BY <1>2, <2>1, <2>2, <2>3, <2>4, <2>5, <2>6, <2>7, <2>8 DEF DisputeOn
<1> QED
    BY <1>1, <1>2

(* No instruction takes the accounts of a contract back.                   *)
LEMMA StaysBlank ==
    ASSUME DisputeInv, NEW c \in ContractIds, LifecycleOn(c) \/ DisputeOn(c)
    PROVE  contracts[c].status # "None" /\ total_contracts' = total_contracts
<1>1. disputes[c].status # "None" => contracts[c].status # "None"
    BY DEF DisputeInv, Orderly, InOrder
<1>2. ASSUME DisputeOn(c)
      PROVE  contracts[c].status # "None" /\ total_contracts' = total_contracts
    <2>1. JuryLevel(disputes[c]) => disputes[c].status # "None"
        BY DEF DisputeInv, Orderly, InOrder, JuryLevel
    <2> QED
        BY <1>1, <1>2, <2>1 DEF DisputeOn, Initiate, Respond, AwaitsResponse, Escalate,
            EscalateToAppeal, Vote, Resolve, ResolveAccounts, Redeliver, RedeliverAccounts,
            AcceptCorrection, AcceptCorrectionAccounts, VoteAccounts
<1>3. ASSUME LifecycleOn(c)
      PROVE  contracts[c].status # "None" /\ total_contracts' = total_contracts
    BY <1>3 DEF LifecycleOn, AcceptProposal, CancelProposal, Deliver, Accept, AcceptAccounts,
        RejectDelivery, Timeout, TimeoutAccounts, TimeoutDelivery, TimeoutDeliveryAccounts
<1> QED
    BY <1>2, <1>3

-----------------------------------------------------------------------------
(* The instructions of proposal.rs and contract.rs leave the dispute alone. *)
LEMMA WorkOrderly ==
    ASSUME DisputeInv, NEW c \in ContractIds,
           disputes' = disputes, votes' = votes,
           contracts'[c].status # "None",
           contracts'[c].status \in {"Proposed", "Active"} => ~poe'[c].exists
    PROVE  Orderly(c)' /\ Climbs(c) /\ Follows(c)
<1>1. InOrder(contracts[c], poe[c], disputes[c], votes[c])
    BY DEF DisputeInv, Orderly
<1>2. InOrder(contracts'[c], poe'[c], disputes[c], votes[c])
    BY <1>1 DEF InOrder
<1>3. Climbs(c)
    BY DisputeFacts, SameLevelClimbs DEF Climbs, DisputeInv
<1>4. Follows(c)
    BY DEF Follows, IsDecided
<1> QED
    BY <1>2, <1>3, <1>4 DEF Orderly

LEMMA LifecycleOrderly ==
    ASSUME DisputeInv, NEW c \in ContractIds, LifecycleOn(c)
    PROVE  /\ Orderly(c)' /\ Climbs(c) /\ Follows(c)
           /\ Timeout(c) => ~poe[c].exists
<1> DEFINE k == contracts[c]
<1>1. k \in Contract /\ poe[c] \in ProofOfExecution /\ contracts \in [ContractIds -> Contract]
      /\ poe \in [ContractIds -> ProofOfExecution]
    BY DEF DisputeInv, TypeOK
<1>2. k.status \in {"Proposed", "Active"} => ~poe[c].exists
    BY DEF DisputeInv, Orderly, InOrder
<1>3. disputes' = disputes /\ votes' = votes
    BY DEF LifecycleOn, AcceptProposal, CancelProposal, Deliver, Accept, RejectDelivery, Timeout,
           TimeoutDelivery
<1>4. CASE AcceptProposal(c)
    <2>1. contracts'[c].status = "Active" /\ poe' = poe /\ k.status = "Proposed"
        BY <1>1, <1>4 DEF AcceptProposal, Contract
    <2> QED
        BY <1>2, <1>3, <2>1, WorkOrderly DEF Timeout, TimeoutAccounts
<1>5. CASE CancelProposal(c) \/ Accept(c) \/ TimeoutDelivery(c) \/ Timeout(c)
    <2>1. contracts'[c].status \in SettledStatuses
        BY <1>1, <1>5 DEF CancelProposal, Accept, TimeoutDelivery, Timeout, Contract, SettledStatuses
    <2> QED
        BY <1>2, <1>3, <2>1, WorkOrderly DEF Timeout, TimeoutAccounts, SettledStatuses
<1>6. CASE Deliver(c)
    <2>1. contracts'[c].status = "Delivered" /\ ~poe[c].exists
        BY <1>1, <1>6 DEF Deliver, DeliverAccounts, Contract
    <2> QED
        BY <1>3, <2>1, WorkOrderly
<1>7. CASE RejectDelivery(c)
    <2>1. contracts'[c].status \in {"Disputed", "CorrectionRequested"} /\ k.status = "Delivered"
        BY <1>1, <1>7 DEF RejectDelivery, StatusAfterRejection, Contract
    <2> QED
        BY <1>3, <2>1, WorkOrderly DEF Timeout, TimeoutAccounts
<1> QED
    BY <1>4, <1>5, <1>6, <1>7 DEF LifecycleOn

-----------------------------------------------------------------------------
(* A step of a dispute that is no verdict and brings no new contract.      *)
LEMMA DisputeOrderly ==
    ASSUME DisputeInv, NEW c \in ContractIds,
           contracts'[c].status # "None",
           contracts'[c].status \in {"Proposed", "Active"} => ~poe'[c].exists,
           disputes'[c].status # "None",
           OneRound(disputes'[c]), Tallied(disputes'[c], votes'[c])
    PROVE  Orderly(c)'
<1>1. InOrder(contracts[c], poe[c], disputes[c], votes[c])
    BY DEF DisputeInv, Orderly
<1>2. InOrder(contracts'[c], poe'[c], disputes'[c], votes'[c])
    BY <1>1 DEF InOrder
<1> QED
    BY <1>2 DEF Orderly

(* What the invariant says of the dispute.                                 *)
LEMMA DisputeInOrder ==
    ASSUME DisputeInv, NEW c \in ContractIds
    PROVE  /\ disputes[c] \in Dispute /\ contracts[c] \in Contract
           /\ disputes \in [ContractIds -> Dispute] /\ contracts \in [ContractIds -> Contract]
           /\ poe \in [ContractIds -> ProofOfExecution]
           /\ disputes[c].status = "None" => disputes[c].level = "DirectCorrection"
           /\ disputes[c].status # "None" => contracts[c].status # "None"
           /\ contracts[c].status \in {"None", "Proposed", "Active"} => ~poe[c].exists
           /\ OneRound(disputes[c])
           /\ Tallied(disputes[c], votes[c])
BY DEF DisputeInv, TypeOK, Orderly, InOrder

LEMMA InitiateOrderly ==
    ASSUME DisputeInv, NEW c \in ContractIds, Initiate(c)
    PROVE  Orderly(c)' /\ Climbs(c) /\ Follows(c)
<1> DEFINE d == disputes[c]
           by == contracts[c].requester
           deadline == now + DirectWindow
<1>1. /\ disputes' = [disputes EXCEPT ![c] =
             [NoDispute EXCEPT !.initiator = by, !.status = "Open", !.deadline = deadline]]
      /\ contracts' = [contracts EXCEPT ![c].status = "Disputed", ![c].dispute_level = 1]
      /\ votes' = votes
      /\ d.status = "None"
    BY DEF Initiate, InitiateAccounts
<1> HIDE DEF by, deadline
<1>2. /\ disputes'[c].level = "DirectCorrection" /\ disputes'[c].status = "Open"
      /\ disputes'[c].private_rounds_count = 0
      /\ disputes'[c].votes_provider = 0 /\ disputes'[c].votes_requester = 0
    BY <1>1, DisputeInOrder DEF NoDispute
<1>3. contracts'[c].status = "Disputed"
    BY <1>1, DisputeInOrder DEF Contract
<1>4. d.level = "DirectCorrection" /\ ~JuryLevel(d)
    BY <1>1, DisputeInOrder DEF JuryLevel
<1>5. Tallied(disputes'[c], votes'[c])
    BY <1>1, <1>2, <1>4, DisputeInOrder, TallyBeforeJury
<1>6. OneRound(disputes'[c])
    BY <1>2 DEF OneRound
<1>7. Climbs(c)
    BY <1>2, <1>4, LevelNumbers DEF Climbs
<1>8. Follows(c)
    BY <1>4 DEF Follows
<1>9. Orderly(c)'
    <2>1. contracts'[c].status \notin {"None", "Proposed", "Active"} /\ disputes'[c].status # "None"
        BY <1>2, <1>3
    <2> QED
        BY <1>5, <1>6, <2>1, DisputeOrderly
<1> QED
    BY <1>7, <1>8, <1>9

LEMMA RespondOrderly ==
    ASSUME DisputeInv, NEW c \in ContractIds, Respond(c)
    PROVE  Orderly(c)' /\ Climbs(c) /\ Follows(c)
<1> DEFINE d == disputes[c]
           isRound == d.level = "PrivateRounds" /\ d.private_rounds_count < 5
<1>1. /\ disputes' = [disputes EXCEPT
             ![c].status = "Responded",
             ![c].private_rounds_count = IF isRound THEN @ + 1 ELSE @]
      /\ contracts' = contracts /\ poe' = poe /\ votes' = votes
      /\ d.status = "Open"
    BY DEF Respond, AwaitsResponse
<1>2. /\ disputes'[c].status = "Responded"
      /\ disputes'[c].private_rounds_count =
             IF isRound THEN d.private_rounds_count + 1 ELSE d.private_rounds_count
      /\ disputes'[c].level = d.level
      /\ disputes'[c].votes_provider = d.votes_provider
      /\ disputes'[c].votes_requester = d.votes_requester
    <2> HIDE DEF isRound
    <2> QED
        BY <1>1, DisputeInOrder DEF Dispute
<1>3. OneRound(disputes'[c])
    BY <1>1, <1>2, DisputeInOrder DEF OneRound
<1>4. Tallied(disputes'[c], votes'[c])
    BY <1>1, <1>2, DisputeInOrder, TallySame
<1>5. Orderly(c)'
    BY <1>1, <1>2, <1>3, <1>4, DisputeInOrder, DisputeOrderly
<1>6. Climbs(c)
    BY <1>2, DisputeInOrder, SameLevelClimbs DEF Climbs, Dispute
<1>7. Follows(c)
    BY <1>2 DEF Follows, IsDecided, ResolvedStatuses
<1> QED
    BY <1>5, <1>6, <1>7

LEMMA EscalateOrderly ==
    ASSUME DisputeInv, NEW c \in ContractIds, Escalate(c)
    PROVE  Orderly(c)' /\ Climbs(c) /\ Follows(c)
<1> DEFINE d == disputes[c]
           toJury == d.level = "PrivateRounds"
           deadline == now + (IF toJury THEN JuryWindow ELSE PrivateWindow)
           size == IF toJury THEN JurySize[contracts[c].value] ELSE d.jury_size
           fee == IF toJury THEN PartOf(contracts[c].value, 200) ELSE d.arbitration_fee
           level == IF toJury THEN 3 ELSE 2
<1>1. /\ disputes' = [disputes EXCEPT ![c] =
             [d EXCEPT !.level = NextLevel(d.level), !.status = "Open", !.deadline = deadline,
                       !.jury_size = size, !.arbitration_fee = fee]]
      /\ contracts' = [contracts EXCEPT ![c].dispute_level = level]
      /\ d.status # "None"
      /\ d.level \in {"DirectCorrection", "PrivateRounds"}
      /\ poe' = poe /\ votes' = votes
    BY DEF Escalate
<1>2. /\ disputes'[c].status = "Open"
      /\ disputes'[c].level = NextLevel(d.level)
      /\ disputes'[c].private_rounds_count = d.private_rounds_count
      /\ disputes'[c].votes_provider = d.votes_provider
      /\ disputes'[c].votes_requester = d.votes_requester
    <2> HIDE DEF deadline, size, fee
    <2> QED
        BY <1>1, DisputeInOrder DEF Dispute
<1>3. contracts'[c].status = contracts[c].status
    <2> HIDE DEF level
    <2> QED
        BY <1>1, DisputeInOrder DEF Contract
<1>4. ~JuryLevel(d)
    BY <1>1 DEF JuryLevel
<1>5. OneRound(disputes'[c])
    BY <1>1, <1>2, DisputeInOrder DEF OneRound, NextLevel
<1>6. Tallied(disputes'[c], votes'[c])
    <2>1. d.votes_provider = 0 /\ d.votes_requester = 0
        BY <1>4, DisputeInOrder, ZeroBeforeJury
    <2>2. Tallied(d, votes[c]) /\ votes'[c] = votes[c]
        BY <1>1, DisputeInOrder
    <2>3. disputes'[c].votes_provider = 0 /\ disputes'[c].votes_requester = 0
        BY <1>2, <2>1
    <2> HIDE DEF d
    <2> QED
        BY <1>4, <2>2, <2>3, TallyBeforeJury
<1>7. Orderly(c)'
    BY <1>1, <1>2, <1>3, <1>5, <1>6, DisputeInOrder, DisputeOrderly
<1>8. Climbs(c)
    BY <1>1, <1>2, LevelNumbers DEF Climbs, NextLevel
<1>9. Follows(c)
    BY <1>4 DEF Follows
<1> QED
    BY <1>7, <1>8, <1>9

LEMMA EscalateToAppealOrderly ==
    ASSUME DisputeInv, NEW c \in ContractIds, NEW by \in Agents, EscalateToAppeal(c, by)
    PROVE  Orderly(c)' /\ Climbs(c) /\ Follows(c)
<1> DEFINE d == disputes[c]
           stake == contracts[c].value \div 2
           deadline == now + AppealWindow
<1>1. /\ disputes' = [disputes EXCEPT ![c] =
             [d EXCEPT !.appeal_stake = stake, !.initiator = by, !.level = "Appeal",
                       !.status = "Open", !.jury_size = AppealJurySize, !.deadline = deadline,
                       !.votes_provider = 0, !.votes_requester = 0]]
      /\ contracts' = [contracts EXCEPT ![c].dispute_level = 4]
      /\ d.level = "PublicJury"
      /\ d.status # "None"
      /\ poe' = poe /\ votes' = votes
    BY DEF EscalateToAppeal, Appealed
<1> HIDE DEF stake, deadline
<1>2. /\ disputes'[c].status = "Open" /\ disputes'[c].level = "Appeal"
      /\ disputes'[c].private_rounds_count = d.private_rounds_count
      /\ disputes'[c].votes_provider = 0 /\ disputes'[c].votes_requester = 0
    BY <1>1, DisputeInOrder DEF Dispute
<1>3. contracts'[c].status = contracts[c].status
    BY <1>1, DisputeInOrder DEF Contract
<1>4. OneRound(disputes'[c])
    BY <1>2, DisputeInOrder DEF OneRound
<1>5. Tallied(disputes'[c], votes'[c])
    BY <1>1, <1>2, DisputeInOrder, TallyAppealed
<1>6. Orderly(c)'
    BY <1>1, <1>2, <1>3, <1>4, <1>5, DisputeInOrder, DisputeOrderly
<1>7. Climbs(c)
    BY <1>1, <1>2, LevelNumbers DEF Climbs
<1>8. Follows(c)
    BY <1>2 DEF Follows, IsDecided, ResolvedStatuses
<1> QED
    BY <1>6, <1>7, <1>8

LEMMA VoteOrderly ==
    ASSUME DisputeInv, NEW c \in ContractIds, NEW j \in Jurors, NEW forProvider \in BOOLEAN,
           Vote(j, c, forProvider)
    PROVE  Orderly(c)' /\ Climbs(c) /\ Follows(c)
<1> DEFINE d == disputes[c]
           vp == d.votes_provider + (IF forProvider THEN 1 ELSE 0)
           vr == d.votes_requester + (IF forProvider THEN 0 ELSE 1)
           majority == MajorityThreshold(d.jury_size)
           status == IF vp >= majority \/ vr >= majority THEN "JuryDecided" ELSE "Voting"
           vote == [juror |-> j, vote_for_provider |-> forProvider, level |-> d.level]
<1>1. /\ disputes' = [disputes EXCEPT ![c] =
             [d EXCEPT !.votes_provider = vp, !.votes_requester = vr, !.status = status]]
      /\ votes' = [votes EXCEPT ![c] = votes[c] \cup {vote}]
      /\ JuryLevel(d)
      /\ d.status # "None"
      /\ \A v \in votes[c] : v.juror # j
      /\ contracts' = contracts /\ poe' = poe
    BY DEF Vote, AfterVote, VoteAccounts, HasVoted
<1>2. status \in {"JuryDecided", "Voting"}
    OBVIOUS
<1>3. /\ disputes'[c].status = status /\ disputes'[c].level = d.level
      /\ disputes'[c].private_rounds_count = d.private_rounds_count
      /\ disputes'[c].votes_provider = vp /\ disputes'[c].votes_requester = vr
    <2> HIDE DEF vp, vr, status, vote
    <2> QED
        BY <1>1, DisputeInOrder DEF Dispute
<1>4. votes'[c] = votes[c] \cup {vote}
    <2> HIDE DEF vote
    <2> QED
        BY <1>1 DEF DisputeInv, TypeOK
<1> HIDE DEF status
<1>5. OneRound(disputes'[c])
    BY <1>1, <1>2, <1>3, DisputeInOrder DEF OneRound, JuryLevel
<1>6. Tallied(disputes'[c], votes'[c])
    <2>1. /\ vote.juror = j /\ vote.level = d.level /\ vote.vote_for_provider = forProvider
          /\ vp = d.votes_provider + (IF vote.vote_for_provider THEN 1 ELSE 0)
          /\ vr = d.votes_requester + (IF vote.vote_for_provider THEN 0 ELSE 1)
        OBVIOUS
    <2>2. Tallied(d, votes[c])
        BY DisputeInOrder
    <2> HIDE DEF d, vote, vp, vr
    <2>3. Tallied(disputes'[c], votes[c] \cup {vote})
        BY <1>1, <1>3, <2>1, <2>2, TallyVote
    <2> QED
        BY <1>4, <2>3
<1>7. Orderly(c)'
    BY <1>1, <1>2, <1>3, <1>5, <1>6, DisputeInOrder, DisputeOrderly
<1>8. Climbs(c)
    BY <1>3, DisputeInOrder, SameLevelClimbs DEF Climbs, Dispute
<1>9. Follows(c)
    BY <1>2, <1>3 DEF Follows, IsDecided, ResolvedStatuses
<1> QED
    BY <1>7, <1>8, <1>9

(* The verdict of a jury: the counters it is read from are the votes.      *)
LEMMA ResolveFollows ==
    ASSUME DisputeInv, NEW c \in ContractIds, NEW verdict \in BOOLEAN, Resolve(c, verdict),
           JuryLevel(disputes[c]),
           disputes'[c].status =
               IF ProviderWins(disputes[c], verdict) THEN "ResolvedProvider" ELSE "ResolvedRequester"
    PROVE  Follows(c)
<1> DEFINE d == disputes[c]
           provider == Cardinality(Cast(votes[c], d.level, TRUE))
           requester == Cardinality(Cast(votes[c], d.level, FALSE))
<1>1. d.votes_provider = provider /\ d.votes_requester = requester
    BY DisputeInOrder DEF Tallied
<1>2. d.votes_provider + d.votes_requester > 0
    BY DEF Resolve, JuryMaySettle
<1>3. Cast(votes[c], d.level, TRUE) \cup Cast(votes[c], d.level, FALSE) # {}
    <2> SUFFICES ASSUME Cast(votes[c], d.level, TRUE) = {}, Cast(votes[c], d.level, FALSE) = {}
                 PROVE  FALSE
        OBVIOUS
    <2>1. provider = 0 /\ requester = 0
        BY FS_EmptySet
    <2> HIDE DEF provider, requester
    <2> QED
        BY <1>1, <1>2, <2>1
<1>4. (disputes'[c].status = "ResolvedProvider") <=> provider > requester
    <2> HIDE DEF provider, requester
    <2> QED
        BY <1>1 DEF ProviderWins
<1> QED
    BY <1>3, <1>4 DEF Follows

LEMMA ResolveOrderly ==
    ASSUME DisputeInv, NEW c \in ContractIds, NEW verdict \in BOOLEAN, Resolve(c, verdict)
    PROVE  Orderly(c)' /\ Climbs(c) /\ Follows(c)
<1> DEFINE d == disputes[c]
           outcome == IF ProviderWins(d, verdict) THEN "ResolvedProvider" ELSE "ResolvedRequester"
<1>1. /\ disputes' = [disputes EXCEPT ![c].status = outcome]
      /\ contracts' = [contracts EXCEPT ![c].status = outcome, ![c].resolved_at = now]
      /\ d.status # "None"
      /\ poe' = poe /\ votes' = votes
    BY DEF Resolve, ResolveAccounts
<1>2. outcome \in {"ResolvedProvider", "ResolvedRequester"}
    OBVIOUS
<1>3. /\ disputes'[c].status = outcome /\ disputes'[c].level = d.level
      /\ disputes'[c].private_rounds_count = d.private_rounds_count
      /\ disputes'[c].votes_provider = d.votes_provider
      /\ disputes'[c].votes_requester = d.votes_requester
      /\ contracts'[c].status = outcome
    <2> HIDE DEF outcome
    <2> QED
        BY <1>1, DisputeInOrder DEF Dispute, Contract
<1>4. Follows(c)
    <2>1. CASE JuryLevel(d)
        BY <1>3, <2>1, ResolveFollows
    <2>2. CASE ~JuryLevel(d)
        BY <2>2 DEF Follows
    <2> QED
        BY <2>1, <2>2
<1> HIDE DEF outcome
<1>5. OneRound(disputes'[c])
    BY <1>2, <1>3, DisputeInOrder DEF OneRound
<1>6. Tallied(disputes'[c], votes'[c])
    BY <1>1, <1>3, DisputeInOrder, TallySame
<1>7. Orderly(c)'
    <2>1. contracts'[c].status \notin {"None", "Proposed", "Active"} /\ disputes'[c].status # "None"
        BY <1>2, <1>3
    <2> QED
        BY <1>5, <1>6, <2>1, DisputeOrderly
<1>8. Climbs(c)
    BY <1>3, DisputeInOrder, SameLevelClimbs DEF Climbs, Dispute
<1> QED
    BY <1>4, <1>7, <1>8

LEMMA RedeliverOrderly ==
    ASSUME DisputeInv, NEW c \in ContractIds, Redeliver(c)
    PROVE  Orderly(c)' /\ Climbs(c) /\ Follows(c)
<1> DEFINE d == disputes[c]
           count == d.corrections_count + 1
           exhausted == count >= config.max_corrections
           deadline == now + (IF exhausted THEN PrivateWindow ELSE DirectWindow)
<1>1. /\ disputes' = [disputes EXCEPT
             ![c].corrections_count = count,
             ![c].level = IF exhausted THEN "PrivateRounds" ELSE @,
             ![c].status = "Open",
             ![c].deadline = deadline]
      /\ contracts' = [contracts EXCEPT
             ![c].status = "Delivered",
             ![c].dispute_level = IF exhausted THEN 2 ELSE @]
      /\ d.level = "DirectCorrection"
      /\ votes' = votes
    BY DEF Redeliver, RedeliverAccounts
<1> HIDE DEF count, exhausted, deadline
<1>2. /\ disputes'[c].status = "Open"
      /\ disputes'[c].level \in {"PrivateRounds", "DirectCorrection"}
      /\ disputes'[c].private_rounds_count = d.private_rounds_count
      /\ disputes'[c].votes_provider = d.votes_provider
      /\ disputes'[c].votes_requester = d.votes_requester
      /\ contracts'[c].status = "Delivered"
    BY <1>1, DisputeInOrder DEF Dispute, Contract
<1>3. ~JuryLevel(d)
    BY <1>1 DEF JuryLevel
<1>4. OneRound(disputes'[c])
    BY <1>1, <1>2, DisputeInOrder DEF OneRound
<1>5. Tallied(disputes'[c], votes'[c])
    <2>1. d.votes_provider = 0 /\ d.votes_requester = 0
        BY <1>3, DisputeInOrder, ZeroBeforeJury
    <2>2. Tallied(d, votes[c]) /\ votes'[c] = votes[c]
        BY <1>1, DisputeInOrder
    <2>3. disputes'[c].votes_provider = 0 /\ disputes'[c].votes_requester = 0
        BY <1>2, <2>1
    <2> HIDE DEF d
    <2> QED
        BY <1>3, <2>2, <2>3, TallyBeforeJury
<1>6. Orderly(c)'
    <2>1. contracts'[c].status \notin {"None", "Proposed", "Active"} /\ disputes'[c].status # "None"
        BY <1>2
    <2> QED
        BY <1>4, <1>5, <2>1, DisputeOrderly
<1>7. Climbs(c)
    BY <1>1, <1>2, LevelNumbers DEF Climbs
<1>8. Follows(c)
    BY <1>3 DEF Follows
<1> QED
    BY <1>6, <1>7, <1>8

LEMMA AcceptCorrectionOrderly ==
    ASSUME DisputeInv, NEW c \in ContractIds, AcceptCorrection(c)
    PROVE  Orderly(c)' /\ Climbs(c) /\ Follows(c)
<1> DEFINE d == disputes[c]
<1>1. /\ disputes' = [disputes EXCEPT ![c].status = "ResolvedProvider"]
      /\ contracts' = [contracts EXCEPT ![c].status = "Completed", ![c].resolved_at = now]
      /\ d.level \in {"DirectCorrection", "PrivateRounds"}
      /\ votes' = votes
    BY DEF AcceptCorrection
<1>2. /\ disputes'[c].status = "ResolvedProvider" /\ disputes'[c].level = d.level
      /\ disputes'[c].private_rounds_count = d.private_rounds_count
      /\ disputes'[c].votes_provider = d.votes_provider
      /\ disputes'[c].votes_requester = d.votes_requester
      /\ contracts'[c].status = "Completed"
    BY <1>1, DisputeInOrder DEF Dispute, Contract
<1>3. OneRound(disputes'[c])
    BY <1>2, DisputeInOrder DEF OneRound
<1>4. Tallied(disputes'[c], votes'[c])
    BY <1>1, <1>2, DisputeInOrder, TallySame
<1>5. Orderly(c)'
    <2>1. contracts'[c].status \notin {"None", "Proposed", "Active"} /\ disputes'[c].status # "None"
        BY <1>2
    <2> QED
        BY <1>3, <1>4, <2>1, DisputeOrderly
<1>6. Climbs(c)
    BY <1>2, DisputeInOrder, SameLevelClimbs DEF Climbs, Dispute
<1>7. Follows(c)
    BY <1>1 DEF Follows, JuryLevel
<1> QED
    BY <1>5, <1>6, <1>7

LEMMA DisputeOnOrderly ==
    ASSUME DisputeInv, NEW c \in ContractIds, DisputeOn(c)
    PROVE  Orderly(c)' /\ Climbs(c) /\ Follows(c)
BY InitiateOrderly, RespondOrderly, EscalateOrderly, EscalateToAppealOrderly, VoteOrderly,
   ResolveOrderly, RedeliverOrderly, AcceptCorrectionOrderly DEF DisputeOn

-----------------------------------------------------------------------------
(* What a step gives: the invariant again, and the three action properties. *)
Proceeds ==
    /\ BlankBeyond'
    /\ \A x \in ContractIds : Orderly(x)' /\ Climbs(x) /\ Follows(x) /\ (Timeout(x) => ~poe[x].exists)

(* A contract that a timeout could end has not been delivered. *)
LEMMA TimeoutUndelivered ==
    ASSUME DisputeInv, NEW x \in ContractIds, Timeout(x)
    PROVE  ~poe[x].exists
BY DisputeInOrder DEF Timeout, TimeoutAccounts

LEMMA OnContractProceeds ==
    ASSUME DisputeInv, NEW c \in ContractIds, LifecycleOn(c) \/ DisputeOn(c)
    PROVE  Proceeds
<1>1. \A x \in ContractIds \ {c} : Aside(x)
    BY Elsewhere DEF DisputeInv
<1>2. \A x \in ContractIds \ {c} : Orderly(x)' /\ Climbs(x) /\ Follows(x)
    BY <1>1, AsideKeeps DEF DisputeInv
<1>3. Orderly(c)' /\ Climbs(c) /\ Follows(c)
    BY LifecycleOrderly, DisputeOnOrderly
<1>4. BlankBeyond'
    <2>1. contracts[c].status # "None" /\ total_contracts' = total_contracts
        BY StaysBlank
    <2> SUFFICES ASSUME NEW x \in ContractIds, x >= total_contracts
                 PROVE  contracts'[x].status = "None"
        BY <2>1 DEF BlankBeyond
    <2>2. contracts[x].status = "None"
        BY DEF DisputeInv, BlankBeyond
    <2>3. x # c
        BY <2>1, <2>2
    <2> QED
        BY <1>1, <2>2, <2>3 DEF Aside
<1> QED
    BY <1>2, <1>3, <1>4, TimeoutUndelivered DEF Proceeds

LEMMA NewContractProceeds ==
    ASSUME DisputeInv, NEW k, k.status \in {"Active", "Proposed"},
           NEW currency, NEW stake, NEW deposit, NewContract(k, currency, stake, deposit),
           UNCHANGED <<poe, disputes, votes>>
    PROVE  Proceeds
<1>1. PICK c \in ContractIds : c = total_contracts
    <2>1. total_contracts \in ContractIds
        BY BoundsAssumption DEF DisputeInv, TypeOK, NewContract, ContractIds
    <2> QED
        BY <2>1
<1>2. contracts' = [contracts EXCEPT ![c] = k] /\ total_contracts' = c + 1
    BY <1>1 DEF NewContract
<1>3. contracts[c].status = "None"
    BY <1>1 DEF DisputeInv, BlankBeyond, ContractIds
<1>4. contracts'[c] = k /\ \A x \in ContractIds \ {c} : Aside(x)
    BY <1>2, DisputeInOrder DEF Aside
<1>5. \A x \in ContractIds \ {c} : Orderly(x)' /\ Climbs(x) /\ Follows(x)
    BY <1>4, AsideKeeps DEF DisputeInv
<1>6. Orderly(c)' /\ Climbs(c) /\ Follows(c)
    BY <1>3, <1>4, DisputeInOrder, WorkOrderly
<1>7. BlankBeyond'
    <2> SUFFICES ASSUME NEW x \in ContractIds, x >= c + 1
                 PROVE  contracts'[x].status = "None"
        BY <1>2 DEF BlankBeyond
    <2>1. x # c /\ x >= total_contracts
        BY <1>1 DEF ContractIds
    <2> QED
        BY <1>4, <2>1 DEF Aside, DisputeInv, BlankBeyond
<1> QED
    BY <1>5, <1>6, <1>7, TimeoutUndelivered DEF Proceeds

LEMMA OtherProceeds ==
    ASSUME DisputeInv, UNCHANGED <<total_contracts, contracts, poe, disputes, votes>>
    PROVE  Proceeds
<1>1. \A x \in ContractIds : Aside(x)
    BY DEF Aside
<1>2. \A x \in ContractIds : Orderly(x)' /\ Climbs(x) /\ Follows(x)
    BY <1>1, AsideKeeps DEF DisputeInv
<1>3. BlankBeyond'
    BY DEF DisputeInv, BlankBeyond
<1> QED
    BY <1>2, <1>3, TimeoutUndelivered DEF Proceeds

LEMMA NextProceeds ==
    ASSUME DisputeInv, [Next]_vars
    PROVE  DisputeInv' /\ Proceeds
<1>1. TypeOK'
    <2>1. CASE Next
        BY <2>1, NextType DEF DisputeInv
    <2>2. CASE UNCHANGED vars
        BY <2>2 DEF DisputeInv, TypeOK, vars
    <2> QED
        BY <2>1, <2>2
<1>2. ASSUME NEW r \in Requesters, NEW p \in Providers, NEW v \in Values, NEW i \in EscrowInputs,
             NEW cur \in CreateCurrencies, Create(r, p, v, i, cur)
      PROVE  Proceeds
    <2> DEFINE stake == StakeRequired(v, agents[p].trust_score)
               terms == Terms(r, p, v, i, cur)
               k == [terms EXCEPT !.status = "Active", !.provider_stake = stake]
    <2>1. /\ NewContract(k, "Sworn", stake, EscrowDeposit(k))
          /\ UNCHANGED <<poe, disputes, votes>>
        BY <1>2 DEF Create
    <2>2. k.status = "Active"
        BY DEF Terms, NoContract
    <2> HIDE DEF k, stake
    <2> QED
        BY <2>1, <2>2, NewContractProceeds
<1>3. ASSUME NEW r \in Requesters, NEW p \in Providers, NEW v \in Values, NEW x \in Expiries,
             NEW cur \in ProposeCurrencies, NEW i \in EscrowInputs, Propose(r, p, v, x, cur, i)
      PROVE  Proceeds
    <2> DEFINE stake == StakeRequired(v, agents[p].trust_score)
               terms == Terms(r, p, v, i, cur)
               k == [terms EXCEPT !.status = "Proposed", !.provider_stake_required = stake,
                                  !.proposal_expires_at = IF x > 0 THEN now + x ELSE 0]
    <2>1. /\ NewContract(k, cur, 0, EscrowDeposit(k))
          /\ UNCHANGED <<poe, disputes, votes>>
        BY <1>3 DEF Propose
    <2>2. k.status = "Proposed"
        BY DEF Terms, NoContract
    <2>3. k.status \in {"Active", "Proposed"}
        BY <2>2
    <2> HIDE DEF k, stake
    <2> QED
        BY <2>1, <2>3, NewContractProceeds
<1>4. ASSUME \/ IdentityNext \/ Tick \/ (\E settings \in Configs : UpdateConfig(settings))
             \/ \E c \in ContractIds, currency \in Currencies, amount \in Gifts :
                    Gift(c, currency, amount)
             \/ UNCHANGED vars
      PROVE  Proceeds
    <2>1. UNCHANGED <<total_contracts, contracts, poe, disputes, votes>>
        BY <1>4 DEF IdentityNext, IdentityOn, CalculateTrustScore, Hibernate, Wake,
            ExpireHibernation, ForceMature, ChangeAgent, Tick, UpdateConfig, Gift, vars
    <2> QED
        BY <2>1, OtherProceeds
<1>5. Proceeds
    BY <1>2, <1>3, <1>4, OnContractProceeds DEF Next, LifecycleNext, DisputeNext
<1> QED
    BY <1>1, <1>5 DEF DisputeInv, Proceeds

LEMMA InitOrderly == ASSUME Init PROVE DisputeInv
<1>1. TypeOK
    BY InitType
<1>2. \A c \in ContractIds :
          /\ contracts[c] = NoContract /\ poe[c] = NoPoE
          /\ disputes[c] = NoDispute /\ votes[c] = {}
    BY DEF Init
<1>3. BlankBeyond
    BY <1>2 DEF BlankBeyond, NoContract
<1>4. Tallied(NoDispute, {})
    <2>1. NoDispute.votes_provider = 0 /\ NoDispute.votes_requester = 0
        BY DEF NoDispute
    <2> QED
        BY <2>1, NoVotes, FS_EmptySet DEF Tallied
<1>5. OneRound(NoDispute) /\ NoDispute.status = "None" /\ NoDispute.level = "DirectCorrection"
    BY DEF OneRound, NoDispute
<1>6. InOrder(NoContract, NoPoE, NoDispute, {})
    BY <1>4, <1>5 DEF InOrder, NoPoE
<1> QED
    BY <1>1, <1>2, <1>3, <1>6 DEF DisputeInv, Orderly

(* The inductive invariant holds in every reachable state.                 *)
THEOREM DisputesInOrder == Spec => []DisputeInv
<1>1. Init => DisputeInv
    BY InitOrderly
<1>2. DisputeInv /\ [Next]_vars => DisputeInv'
    BY NextProceeds
<1> QED
    BY <1>1, <1>2, PTL DEF Spec

(* The counters of a dispute are the votes cast at its level, and a juror
   votes once per dispute: resets, escalations and verdicts included.      *)
THEOREM TallyExact == Spec => []TallyMatchesVotes
<1>1. DisputeInv => TallyMatchesVotes
    BY DEF DisputeInv, Orderly, InOrder, Tallied, Cast, TallyMatchesVotes
<1> QED
    BY <1>1, DisputesInOrder, PTL

(* A jury's verdict is the majority of the votes cast at that level, and
   there is none without a vote.                                           *)
THEOREM VerdictIsMajority == Spec => VerdictFollowsVotes
<1>1. DisputeInv /\ [Next]_vars =>
          [\A c \in ContractIds : JuryLevel(disputes[c]) /\ ~IsDecided(c) /\ IsDecided(c)' =>
              LET cast(forProvider) == {v \in votes[c] :
                      v.level = disputes[c].level /\ v.vote_for_provider = forProvider}
              IN  /\ cast(TRUE) \cup cast(FALSE) # {}
                  /\ (disputes'[c].status = "ResolvedProvider") <=>
                         (Cardinality(cast(TRUE)) > Cardinality(cast(FALSE)))]_vars
    BY NextProceeds DEF Proceeds, Follows, Cast
<1> QED
    BY <1>1, DisputesInOrder, PTL DEF Spec, VerdictFollowsVotes

(* Levels are climbed one at a time and never descended.                   *)
THEOREM LevelsOnlyClimb == Spec => LevelsClimb
<1>1. DisputeInv /\ [Next]_vars =>
          [\A c \in ContractIds :
              LevelNumber(disputes'[c].level) - LevelNumber(disputes[c].level) \in {0, 1}]_vars
    BY NextProceeds DEF Proceeds, Climbs
<1> QED
    BY <1>1, DisputesInOrder, PTL DEF Spec, LevelsClimb

(* timeout_contract never takes the stake of a provider that delivered.    *)
THEOREM DeliveredKeepsStake == Spec => DeliveredNeverAbandoned
<1>1. DisputeInv /\ [Next]_vars => [\A c \in ContractIds : Timeout(c) => ~poe[c].exists]_vars
    BY NextProceeds DEF Proceeds
<1> QED
    BY <1>1, DisputesInOrder, PTL DEF Spec, DeliveredNeverAbandoned
=============================================================================
