------------------------ MODULE SharedAccountProofs -------------------------
(***************************************************************************)
(* The accounts that contracts share, against the contracts.               *)
(*                                                                         *)
(* The counters of an agent: Spec => ActiveContractsAccurate,              *)
(* OutcomesCountedOnce, FrictionBounded and ExposureRespected.  Nine       *)
(* handlers keep these counters by adding and subtracting one; none of     *)
(* them ever looks at the contracts.  That no contract is counted twice    *)
(* rests on SettledIsFinal, and so on the escrow being exact, which it is  *)
(* for regular contracts: the counters of an agent are accounted for as    *)
(* long as all its contracts are, whatever happens to those of others.     *)
(* That a dispute costs one round at most rests on DisputeInv.             *)
(*                                                                         *)
(* The insurance pool: Spec => []PoolIsBacked.  Lost stakes and forfeited  *)
(* appeals are booked, fee shares are paid and not booked, and in SOL      *)
(* shares are booked that go to the requester; this as long as every       *)
(* contract is regular, as all of them pay into the one vault.             *)
(***************************************************************************)
EXTENDS PromiseProofs, SumLemmas

(* The contracts each counter is about. *)
Completed(a) == {c \in ContractIds : contracts[c].provider = a /\ contracts[c].status = "Completed"}
Lost(a) == {c \in ContractIds : contracts[c].provider = a /\ contracts[c].status = "ResolvedRequester"}
Ended(a) == {c \in ContractIds : IsSettled(c) /\ a \in Parties(contracts[c])}

(* The counters of a are those of its contracts. *)
Counted(a) ==
    LET live == Cardinality(LiveContractsOf(a))
        self == Cardinality(SettledWithItself(a))
    IN  /\ live <= agents[a].active_contracts
        /\ agents[a].active_contracts <= live + self
        /\ Cardinality(Completed(a)) - self <= agents[a].tasks_completed
        /\ agents[a].tasks_completed <= Cardinality(Completed(a))
        /\ agents[a].tasks_abandoned <= Cardinality(Lost(a))
        /\ agents[a].dispute_friction_total <= Cardinality(Ended(a))

(* The inductive invariant. *)
CounterInv == PromiseInv /\ DisputeInv /\ \A a \in Registered : OnlyRegular(a) => Counted(a)

(* What ExposureRespected asks of a step, for one agent. *)
Exposed(a) ==
    LiveContractsOf(a)' \ LiveContractsOf(a) # {} =>
        Cardinality(LiveContractsOf(a)') <= MaxActive(agents[a].trust_score)

(* The four counters did not change. *)
SameCounters(a) ==
    /\ agents'[a].active_contracts = agents[a].active_contracts
    /\ agents'[a].tasks_completed = agents[a].tasks_completed
    /\ agents'[a].tasks_abandoned = agents[a].tasks_abandoned
    /\ agents'[a].dispute_friction_total = agents[a].dispute_friction_total

(* Neither did what they count of x. *)
SameCase(x) ==
    /\ contracts'[x].provider = contracts[x].provider
    /\ contracts'[x].requester = contracts[x].requester
    /\ \/ contracts'[x].status = contracts[x].status
       \/ contracts'[x].status \in LiveStatuses /\ contracts[x].status \in LiveStatuses

-----------------------------------------------------------------------------
(* Sets of contracts that differ in one contract *)

LEMMA IdsFinite ==
    ASSUME NEW S \in SUBSET ContractIds
    PROVE  IsFiniteSet(S) /\ Cardinality(S) \in Nat
<1>1. 0 \in Int /\ MaxContracts - 1 \in Int
    BY BoundsAssumption
<1>2. IsFiniteSet(ContractIds)
    BY <1>1, FS_Interval DEF ContractIds
<1>3. IsFiniteSet(S)
    BY <1>2, FS_Subset
<1> QED
    BY <1>3, FS_CardinalityType

LEMMA OneApart ==
    ASSUME NEW S \in SUBSET ContractIds, NEW T \in SUBSET ContractIds, NEW c \in ContractIds,
           S \ {c} = T \ {c}
    PROVE  /\ Cardinality(S) \in Nat /\ Cardinality(T) \in Nat
           /\ (c \in S <=> c \in T) => Cardinality(T) = Cardinality(S)
           /\ c \in T /\ c \notin S => Cardinality(T) = Cardinality(S) + 1
           /\ c \in S /\ c \notin T => Cardinality(S) = Cardinality(T) + 1
<1>1. /\ IsFiniteSet(S) /\ Cardinality(S) \in Nat
      /\ IsFiniteSet(T) /\ Cardinality(T) \in Nat
    BY IdsFinite
<1>2. CASE c \in S <=> c \in T
    <2>1. S = T
        BY <1>2
    <2> QED
        BY <1>1, <1>2, <2>1
<1>3. CASE c \in T /\ c \notin S
    <2>1. T = S \cup {c}
        BY <1>3
    <2>2. Cardinality(T) = Cardinality(S) + 1
        BY <1>1, <1>3, <2>1, FS_AddElement
    <2> QED
        BY <1>1, <1>3, <2>2
<1>4. CASE c \in S /\ c \notin T
    <2>1. S = T \cup {c}
        BY <1>4
    <2>2. Cardinality(S) = Cardinality(T) + 1
        BY <1>1, <1>4, <2>1, FS_AddElement
    <2> QED
        BY <1>1, <1>4, <2>2
<1> QED
    BY <1>2, <1>3, <1>4

(* A contract that is live keeps its provider's counter above zero.        *)
LEMMA AtLeastOne ==
    ASSUME NEW S \in SUBSET ContractIds, NEW c \in S
    PROVE  Cardinality(S) >= 1
<1>1. IsFiniteSet(S) /\ Cardinality(S) \in Nat
    BY IdsFinite
<1>2. Cardinality(S) # 0
    BY <1>1, FS_EmptySet
<1> QED
    BY <1>1, <1>2

LEMMA Statuses ==
    /\ \A s \in LiveStatuses : s \notin SettledStatuses /\ s \notin {"None", "Proposed"}
    /\ {"Completed", "ResolvedRequester", "ResolvedProvider", "Cancelled"} = SettledStatuses
    /\ "None" \notin SettledStatuses /\ "Proposed" \notin SettledStatuses
    /\ "Active" \in LiveStatuses
BY DEF LiveStatuses, SettledStatuses

LEMMA CounterTypes ==
    ASSUME TypeOK, NEW a \in Registered
    PROVE  /\ agents[a] \in AgentIdentity
           /\ agents[a].active_contracts \in Nat
           /\ agents[a].tasks_completed \in Nat
           /\ agents[a].tasks_abandoned \in Nat
           /\ agents[a].dispute_friction_total \in Nat
           /\ agents[a].trust_score \in TrustScores
BY DEF TypeOK, AgentIdentity

(* A step whose contracts stay in their cases and that counts nothing.     *)
LEMMA QuietCounted ==
    ASSUME NEW a \in Registered, Counted(a), SameCounters(a),
           \A x \in ContractIds : SameCase(x)
    PROVE  Counted(a)' /\ Exposed(a)
<1>1. /\ LiveContractsOf(a)' = LiveContractsOf(a)
      /\ SettledWithItself(a)' = SettledWithItself(a)
      /\ Completed(a)' = Completed(a)
      /\ Lost(a)' = Lost(a)
      /\ Ended(a)' = Ended(a)
    BY Statuses DEF SameCase, LiveContractsOf, SettledWithItself, Completed, Lost, Ended, IsLive,
        IsSettled, Parties
<1>2. Exposed(a)
    BY <1>1 DEF Exposed
<1>3. Counted(a)'
    BY <1>1 DEF Counted, SameCounters
<1> QED
    BY <1>2, <1>3

(* The sets of a before and after a step on c. *)
LEMMA SetsApart ==
    ASSUME NEW a \in Registered, NEW c \in ContractIds,
           \A x \in ContractIds \ {c} : SameCase(x)
    PROVE  /\ LiveContractsOf(a) \in SUBSET ContractIds /\ LiveContractsOf(a)' \in SUBSET ContractIds
           /\ LiveContractsOf(a) \ {c} = LiveContractsOf(a)' \ {c}
           /\ SettledWithItself(a) \in SUBSET ContractIds
           /\ SettledWithItself(a)' \in SUBSET ContractIds
           /\ SettledWithItself(a) \ {c} = SettledWithItself(a)' \ {c}
           /\ Completed(a) \in SUBSET ContractIds /\ Completed(a)' \in SUBSET ContractIds
           /\ Completed(a) \ {c} = Completed(a)' \ {c}
           /\ Lost(a) \in SUBSET ContractIds /\ Lost(a)' \in SUBSET ContractIds
           /\ Lost(a) \ {c} = Lost(a)' \ {c}
           /\ Ended(a) \in SUBSET ContractIds /\ Ended(a)' \in SUBSET ContractIds
           /\ Ended(a) \ {c} = Ended(a)' \ {c}
<1>1. LiveContractsOf(a) \ {c} = LiveContractsOf(a)' \ {c}
    BY Statuses DEF SameCase, LiveContractsOf, IsLive
<1>2. SettledWithItself(a) \ {c} = SettledWithItself(a)' \ {c}
    BY Statuses DEF SameCase, SettledWithItself, IsSettled
<1>3. Completed(a) \ {c} = Completed(a)' \ {c}
    BY Statuses DEF SameCase, Completed
<1>4. Lost(a) \ {c} = Lost(a)' \ {c}
    BY Statuses DEF SameCase, Lost
<1>5. Ended(a) \ {c} = Ended(a)' \ {c}
    BY Statuses DEF SameCase, Ended, IsSettled, Parties
<1>6. /\ LiveContractsOf(a) \in SUBSET ContractIds /\ LiveContractsOf(a)' \in SUBSET ContractIds
      /\ SettledWithItself(a) \in SUBSET ContractIds /\ SettledWithItself(a)' \in SUBSET ContractIds
      /\ Completed(a) \in SUBSET ContractIds /\ Completed(a)' \in SUBSET ContractIds
      /\ Lost(a) \in SUBSET ContractIds /\ Lost(a)' \in SUBSET ContractIds
      /\ Ended(a) \in SUBSET ContractIds /\ Ended(a)' \in SUBSET ContractIds
    BY DEF LiveContractsOf, SettledWithItself, Completed, Lost, Ended
<1> QED
    BY <1>1, <1>2, <1>3, <1>4, <1>5, <1>6

(* A step on a contract that a is no party of, and on no account of a's.   *)
LEMMA BystanderCounted ==
    ASSUME NEW a \in Registered, Counted(a), SameCounters(a), NEW c \in ContractIds,
           \A x \in ContractIds \ {c} : SameCase(x),
           a \notin Parties(contracts[c]), a \notin Parties(contracts'[c])
    PROVE  Counted(a)' /\ Exposed(a)
<1>1. /\ c \notin LiveContractsOf(a) /\ c \notin LiveContractsOf(a)'
      /\ c \notin SettledWithItself(a) /\ c \notin SettledWithItself(a)'
      /\ c \notin Completed(a) /\ c \notin Completed(a)'
      /\ c \notin Lost(a) /\ c \notin Lost(a)'
      /\ c \notin Ended(a) /\ c \notin Ended(a)'
    BY DEF LiveContractsOf, SettledWithItself, Completed, Lost, Ended, Parties
<1>2. \A S, T : S \ {c} = T \ {c} /\ c \notin S /\ c \notin T => S = T
    OBVIOUS
<1>3. /\ LiveContractsOf(a)' = LiveContractsOf(a)
      /\ SettledWithItself(a)' = SettledWithItself(a)
      /\ Completed(a)' = Completed(a)
      /\ Lost(a)' = Lost(a)
      /\ Ended(a)' = Ended(a)
    BY <1>1, <1>2, SetsApart
<1>4. Counted(a)'
    BY <1>3 DEF Counted, SameCounters
<1> QED
    BY <1>3, <1>4 DEF Exposed

(* A proposal that is made or withdrawn: nothing is counted, but that one
   more contract of an agent with itself may be settled.                   *)
LEMMA OfferCounted ==
    ASSUME TypeOK, NEW a \in Registered, Counted(a), SameCounters(a), NEW c \in ContractIds,
           \A x \in ContractIds \ {c} : SameCase(x),
           contracts[c].status \in {"None", "Proposed"},
           contracts'[c].status \in {"Proposed", "Cancelled"}
    PROVE  Counted(a)' /\ Exposed(a)
<1>1. c \notin LiveContractsOf(a) /\ c \notin LiveContractsOf(a)'
    BY Statuses DEF LiveContractsOf, IsLive, LiveStatuses
<1>2. c \notin Completed(a) /\ c \notin Completed(a)' /\ c \notin Lost(a) /\ c \notin Lost(a)'
    BY DEF Completed, Lost
<1>3. c \notin SettledWithItself(a) /\ c \notin Ended(a)
    BY Statuses DEF SettledWithItself, Ended, IsSettled
<1>4. LiveContractsOf(a)' = LiveContractsOf(a) /\ Completed(a)' = Completed(a) /\ Lost(a)' = Lost(a)
    <2>1. \A S, T : S \ {c} = T \ {c} /\ c \notin S /\ c \notin T => S = T
        OBVIOUS
    <2> QED
        BY <1>1, <1>2, <2>1, SetsApart
<1>5. /\ Cardinality(SettledWithItself(a)) \in Nat /\ Cardinality(SettledWithItself(a)') \in Nat
      /\ Cardinality(SettledWithItself(a)') >= Cardinality(SettledWithItself(a))
    BY <1>3, SetsApart, OneApart
<1>6. /\ Cardinality(Ended(a)) \in Nat /\ Cardinality(Ended(a)') \in Nat
      /\ Cardinality(Ended(a)') >= Cardinality(Ended(a))
    BY <1>3, SetsApart, OneApart
<1>7. /\ Cardinality(LiveContractsOf(a)) \in Nat /\ Cardinality(Completed(a)) \in Nat
      /\ Cardinality(Lost(a)) \in Nat
    BY SetsApart, IdsFinite
<1>8. Counted(a)'
    BY <1>4, <1>5, <1>6, <1>7, CounterTypes DEF Counted, SameCounters
<1> QED
    BY <1>4, <1>8 DEF Exposed

(* A provider takes a contract on: with it, it is still within its limit.  *)
LEMMA HireCounted ==
    ASSUME TypeOK, NEW a \in Registered, Counted(a), NEW c \in ContractIds,
           \A x \in ContractIds \ {c} : SameCase(x),
           contracts[c].status \in {"None", "Proposed"},
           contracts'[c].status = "Active",
           a # contracts'[c].provider => SameCounters(a),
           a = contracts'[c].provider =>
               /\ agents[a].active_contracts < MaxActive(agents[a].trust_score)
               /\ agents'[a].active_contracts = agents[a].active_contracts + 1
               /\ agents'[a].tasks_completed = agents[a].tasks_completed
               /\ agents'[a].tasks_abandoned = agents[a].tasks_abandoned
               /\ agents'[a].dispute_friction_total = agents[a].dispute_friction_total
    PROVE  Counted(a)' /\ Exposed(a)
<1> DEFINE live == Cardinality(LiveContractsOf(a))
           liveNext == Cardinality(LiveContractsOf(a)')
<1>1. /\ c \notin LiveContractsOf(a)
      /\ c \in LiveContractsOf(a)' <=> a = contracts'[c].provider
    BY Statuses DEF LiveContractsOf, IsLive, LiveStatuses
<1>2. /\ c \notin Completed(a) /\ c \notin Completed(a)' /\ c \notin Lost(a) /\ c \notin Lost(a)'
      /\ c \notin SettledWithItself(a) /\ c \notin SettledWithItself(a)'
      /\ c \notin Ended(a) /\ c \notin Ended(a)'
    BY Statuses DEF Completed, Lost, SettledWithItself, Ended, IsSettled, SettledStatuses
<1>3. /\ Completed(a)' = Completed(a) /\ Lost(a)' = Lost(a)
      /\ SettledWithItself(a)' = SettledWithItself(a) /\ Ended(a)' = Ended(a)
    <2>1. \A S, T : S \ {c} = T \ {c} /\ c \notin S /\ c \notin T => S = T
        OBVIOUS
    <2> QED
        BY <1>2, <2>1, SetsApart
<1>4. live \in Nat /\ liveNext \in Nat /\ Cardinality(SettledWithItself(a)) \in Nat
    BY SetsApart, IdsFinite
<1>5. CASE a # contracts'[c].provider
    <2>1. LiveContractsOf(a)' = LiveContractsOf(a)
        <3>1. \A S, T : S \ {c} = T \ {c} /\ c \notin S /\ c \notin T => S = T
            OBVIOUS
        <3> QED
            BY <1>1, <1>5, <3>1, SetsApart
    <2>2. Counted(a)'
        BY <1>3, <1>5, <2>1 DEF Counted, SameCounters
    <2> QED
        BY <2>1, <2>2 DEF Exposed
<1>6. CASE a = contracts'[c].provider
    <2>1. liveNext = live + 1
        BY <1>1, <1>6, SetsApart, OneApart
    <2>2. live <= agents[a].active_contracts
        BY DEF Counted
    <2>3. MaxActive(agents[a].trust_score) \in Nat
        BY CounterTypes DEF MaxActive, TrustScores
    <2>4. liveNext <= MaxActive(agents[a].trust_score)
        <3> HIDE DEF live, liveNext
        <3> QED
            BY <1>4, <1>6, <2>1, <2>2, <2>3, CounterTypes
    <2>5. Exposed(a)
        BY <2>4 DEF Exposed
    <2>6. /\ liveNext <= agents'[a].active_contracts
          /\ agents'[a].active_contracts <= liveNext + Cardinality(SettledWithItself(a))
        <3>1. agents[a].active_contracts <= live + Cardinality(SettledWithItself(a))
            BY DEF Counted
        <3> HIDE DEF live, liveNext
        <3> QED
            BY <1>4, <1>6, <2>1, <2>2, <3>1, CounterTypes
    <2>7. Counted(a)'
        BY <1>3, <1>6, <2>6 DEF Counted
    <2> QED
        BY <2>5, <2>7
<1> QED
    BY <1>5, <1>6

(* What settling a contract may do to the counters of an agent: its
   provider's, unless it is its own requester, whose copy of the account
   is written back last.                                                   *)
SettlesFor(a, k, outcome) ==
    LET worked == a = k.provider
        self == worked /\ a = k.requester
    IN  /\ ~worked => /\ agents'[a].active_contracts = agents[a].active_contracts
                      /\ agents'[a].tasks_completed = agents[a].tasks_completed
                      /\ agents'[a].tasks_abandoned = agents[a].tasks_abandoned
        /\ worked =>
              /\ \/ agents'[a].active_contracts = Monus(agents[a].active_contracts, 1)
                 \/ self /\ agents'[a].active_contracts = agents[a].active_contracts
              /\ \/ outcome = "Completed"
                      /\ agents'[a].tasks_completed = agents[a].tasks_completed + 1
                 \/ (self \/ outcome # "Completed")
                      /\ agents'[a].tasks_completed = agents[a].tasks_completed
              /\ \/ agents'[a].tasks_abandoned = agents[a].tasks_abandoned
                 \/ outcome = "ResolvedRequester"
                      /\ agents'[a].tasks_abandoned = agents[a].tasks_abandoned + 1
        /\ \/ agents'[a].dispute_friction_total = agents[a].dispute_friction_total
           \/ /\ a \in Parties(k)
              /\ agents'[a].dispute_friction_total \in
                     {agents[a].dispute_friction_total, agents[a].dispute_friction_total + 1}

LEMMA SettleCounted ==
    ASSUME TypeOK, NEW a \in Registered, Counted(a), NEW c \in ContractIds,
           \A x \in ContractIds \ {c} : SameCase(x),
           IsLive(c),
           contracts'[c].status \in SettledStatuses,
           contracts'[c].provider = contracts[c].provider,
           contracts'[c].requester = contracts[c].requester,
           SettlesFor(a, contracts[c], contracts'[c].status)
    PROVE  Counted(a)' /\ Exposed(a)
<1> DEFINE k == contracts[c]
           outcome == contracts'[c].status
           live == Cardinality(LiveContractsOf(a))
           liveNext == Cardinality(LiveContractsOf(a)')
           self == Cardinality(SettledWithItself(a))
           selfNext == Cardinality(SettledWithItself(a)')
           done == Cardinality(Completed(a))
           doneNext == Cardinality(Completed(a)')
           lost == Cardinality(Lost(a))
           lostNext == Cardinality(Lost(a)')
           ended == Cardinality(Ended(a))
           endedNext == Cardinality(Ended(a)')
<1>1. k.status \in LiveStatuses /\ k.status \notin SettledStatuses
    BY Statuses DEF IsLive
<1>2. /\ c \in LiveContractsOf(a) <=> a = k.provider
      /\ c \notin LiveContractsOf(a)'
      /\ c \notin SettledWithItself(a)
      /\ c \in SettledWithItself(a)' <=> a = k.provider /\ a = k.requester
      /\ c \notin Completed(a)
      /\ c \in Completed(a)' <=> a = k.provider /\ outcome = "Completed"
      /\ c \notin Lost(a)
      /\ c \in Lost(a)' <=> a = k.provider /\ outcome = "ResolvedRequester"
      /\ c \notin Ended(a)
      /\ c \in Ended(a)' <=> a \in Parties(k)
    BY <1>1, Statuses DEF LiveContractsOf, IsLive, SettledWithItself, IsSettled, Completed, Lost,
        Ended, Parties
<1>3. /\ live \in Nat /\ liveNext \in Nat /\ self \in Nat /\ selfNext \in Nat
      /\ done \in Nat /\ doneNext \in Nat /\ lost \in Nat /\ lostNext \in Nat
      /\ ended \in Nat /\ endedNext \in Nat
    BY SetsApart, IdsFinite
<1>4. /\ live = IF a = k.provider THEN liveNext + 1 ELSE liveNext
      /\ selfNext = IF a = k.provider /\ a = k.requester THEN self + 1 ELSE self
      /\ doneNext = IF a = k.provider /\ outcome = "Completed" THEN done + 1 ELSE done
      /\ lostNext = IF a = k.provider /\ outcome = "ResolvedRequester" THEN lost + 1 ELSE lost
      /\ endedNext = IF a \in Parties(k) THEN ended + 1 ELSE ended
    <2>1. live = IF a = k.provider THEN liveNext + 1 ELSE liveNext
        BY <1>2, SetsApart, OneApart
    <2>2. selfNext = IF a = k.provider /\ a = k.requester THEN self + 1 ELSE self
        BY <1>2, SetsApart, OneApart
    <2>3. doneNext = IF a = k.provider /\ outcome = "Completed" THEN done + 1 ELSE done
        BY <1>2, SetsApart, OneApart
    <2>4. lostNext = IF a = k.provider /\ outcome = "ResolvedRequester" THEN lost + 1 ELSE lost
        BY <1>2, SetsApart, OneApart
    <2>5. endedNext = IF a \in Parties(k) THEN ended + 1 ELSE ended
        BY <1>2, SetsApart, OneApart
    <2> QED
        BY <2>1, <2>2, <2>3, <2>4, <2>5
<1>5. Exposed(a)
    <2>1. LiveContractsOf(a)' \ LiveContractsOf(a) = {}
        BY <1>2, SetsApart
    <2> QED
        BY <2>1 DEF Exposed
<1>6. /\ live <= agents[a].active_contracts /\ agents[a].active_contracts <= live + self
      /\ done - self <= agents[a].tasks_completed /\ agents[a].tasks_completed <= done
      /\ agents[a].tasks_abandoned <= lost
      /\ agents[a].dispute_friction_total <= ended
    BY DEF Counted
<1> DEFINE n == agents[a].active_contracts
           nNext == agents'[a].active_contracts
<1>7. liveNext <= nNext /\ nNext <= liveNext + selfNext
    <2>1. n \in Nat
        BY CounterTypes
    <2>2. CASE a # k.provider
        <3>1. nNext = n
            BY <2>2 DEF SettlesFor
        <3> HIDE DEF n, nNext, live, liveNext, self, selfNext
        <3> QED
            BY <1>3, <1>4, <1>6, <2>2, <3>1 DEF n
    <2>3. CASE a = k.provider
        <3>1. \/ nNext = Monus(n, 1)
              \/ a = k.requester /\ nNext = n
            BY <2>3 DEF SettlesFor
        <3>2. live <= n /\ n <= live + self
            BY <1>6
        <3> HIDE DEF n, nNext, live, liveNext, self, selfNext
        <3>3. n >= 1
            BY <1>3, <1>4, <2>1, <2>3, <3>2
        <3>4. Monus(n, 1) = n - 1
            BY <2>1, <3>3 DEF Monus
        <3> QED
            BY <1>3, <1>4, <2>1, <2>3, <3>1, <3>2, <3>4
    <2> QED
        BY <2>2, <2>3
<1>8. doneNext - selfNext <= agents'[a].tasks_completed /\ agents'[a].tasks_completed <= doneNext
    <2> DEFINE m == agents[a].tasks_completed
               mNext == agents'[a].tasks_completed
    <2>1. m \in Nat /\ done - self <= m /\ m <= done
        BY <1>6, CounterTypes
    <2>2. \/ a = k.provider /\ outcome = "Completed" /\ mNext = m + 1
          \/ (a = k.provider /\ a = k.requester) /\ mNext = m
          \/ ~(a = k.provider /\ outcome = "Completed") /\ mNext = m
        BY DEF SettlesFor
    <2> HIDE DEF m, mNext, done, doneNext, self, selfNext
    <2>3. doneNext - selfNext <= mNext /\ mNext <= doneNext
        BY <1>3, <1>4, <2>1, <2>2
    <2> QED
        BY <2>3 DEF mNext
<1>9. agents'[a].tasks_abandoned <= lostNext
    <2> DEFINE m == agents[a].tasks_abandoned
               mNext == agents'[a].tasks_abandoned
    <2>1. m \in Nat /\ m <= lost
        BY <1>6, CounterTypes
    <2>2. \/ mNext = m
          \/ a = k.provider /\ outcome = "ResolvedRequester" /\ mNext = m + 1
        BY DEF SettlesFor
    <2> HIDE DEF m, mNext, lost, lostNext
    <2>3. mNext <= lostNext
        BY <1>3, <1>4, <2>1, <2>2
    <2> QED
        BY <2>3 DEF mNext
<1>10. agents'[a].dispute_friction_total <= endedNext
    <2> DEFINE m == agents[a].dispute_friction_total
               mNext == agents'[a].dispute_friction_total
    <2>1. m \in Nat /\ m <= ended
        BY <1>6, CounterTypes
    <2>2. mNext = m \/ (a \in Parties(k) /\ mNext \in {m, m + 1})
        BY DEF SettlesFor
    <2> HIDE DEF m, mNext, ended, endedNext
    <2>3. mNext <= endedNext
        BY <1>3, <1>4, <2>1, <2>2
    <2> QED
        BY <2>3 DEF mNext
<1>11. Counted(a)'
    BY <1>7, <1>8, <1>9, <1>10 DEF Counted
<1> QED
    BY <1>5, <1>11

-----------------------------------------------------------------------------
(* What the handlers write to an agent's account *)

(* The four counters of two copies of an account. *)
SameCopy(i, j) ==
    /\ j.active_contracts = i.active_contracts
    /\ j.tasks_completed = i.tasks_completed
    /\ j.tasks_abandoned = i.tasks_abandoned
    /\ j.dispute_friction_total = i.dispute_friction_total

LEMMA CopyTaskDone ==
    ASSUME NEW i \in AgentIdentity
    PROVE  LET j == TaskDone(i)
           IN  /\ j.active_contracts = Monus(i.active_contracts, 1)
               /\ j.tasks_completed = i.tasks_completed + 1
               /\ j.tasks_abandoned = i.tasks_abandoned
               /\ j.dispute_friction_total = i.dispute_friction_total
               /\ j.corrections_received = i.corrections_received
BY DEF TaskDone, AgentIdentity

LEMMA CopyAbandoned ==
    ASSUME NEW i \in AgentIdentity
    PROVE  LET j == Abandoned(i)
           IN  /\ j.active_contracts = Monus(i.active_contracts, 1)
               /\ j.tasks_completed = i.tasks_completed
               /\ j.tasks_abandoned = i.tasks_abandoned + 1
               /\ j.dispute_friction_total = i.dispute_friction_total
BY DEF Abandoned, AgentIdentity

LEMMA CopyReleased ==
    ASSUME NEW i \in AgentIdentity
    PROVE  /\ Released(i) \in AgentIdentity
           /\ Released(i).active_contracts = Monus(i.active_contracts, 1)
           /\ Released(i).tasks_completed = i.tasks_completed
           /\ Released(i).tasks_abandoned = i.tasks_abandoned
           /\ Released(i).dispute_friction_total = i.dispute_friction_total
<1>1. Released(i) \in AgentIdentity
    BY TaskDoneType
<1> QED
    BY <1>1 DEF Released, AgentIdentity

LEMMA CopyJudged ==
    ASSUME NEW i \in AgentIdentity, NEW party, NEW k, NEW d, NEW wins
    PROVE  LET j == Judged(i, party, k, d, wins)
           IN  /\ j.active_contracts = i.active_contracts
               /\ j.tasks_completed = i.tasks_completed
               /\ j.tasks_abandoned = i.tasks_abandoned
               /\ j.dispute_friction_total = i.dispute_friction_total + d.private_rounds_count
<1> DEFINE won == wins <=> party = "provider"
           losses == Losses(party, k, d, wins)
           rounds == d.private_rounds_count
<1>1. Judged(i, party, k, d, wins) =
          [i EXCEPT !.disputes_won = IF won THEN @ + 1 ELSE @,
                    !.disputes_lost = @ + losses,
                    !.dispute_friction_total = @ + rounds]
    BY DEF Judged
<1> HIDE DEF won, losses
<1> QED
    BY <1>1 DEF AgentIdentity

LEMMA CopyRounds ==
    ASSUME NEW i \in AgentIdentity, NEW d
    PROVE  LET j == Rounds(i, d)
           IN  /\ j.active_contracts = i.active_contracts
               /\ j.tasks_completed = i.tasks_completed
               /\ j.tasks_abandoned = i.tasks_abandoned
               /\ j.dispute_friction_total = i.dispute_friction_total + d.private_rounds_count
BY DEF Rounds, AgentIdentity

(* When the parties are one agent, the requester's copy stays.             *)
LEMMA WrittenBack ==
    ASSUME TypeOK, NEW p, NEW x, NEW r, NEW y, NEW a \in Registered
    PROVE  WriteBack(p, x, r, y)[a] = IF a = r THEN y ELSE IF a = p THEN x ELSE agents[a]
BY DEF WriteBack, TypeOK

LEMMA RoundsWithinOne ==
    ASSUME DisputeInv, NEW c \in ContractIds
    PROVE  disputes[c].private_rounds_count \in {0, 1}
BY DisputeInOrder DEF OneRound

(* The settling handlers, one by one.                                      *)
LEMMA AcceptSettles ==
    ASSUME TypeOK, NEW c \in ContractIds, Accept(c), NEW a \in Registered
    PROVE  SettlesFor(a, contracts[c], "Completed")
<1> DEFINE p == contracts[c].provider
<1>1. agents' = [agents EXCEPT ![p] = TaskDone(agents[p])]
    BY DEF Accept
<1>2. agents'[a] = IF a = p THEN TaskDone(agents[a]) ELSE agents[a]
    BY <1>1 DEF TypeOK
<1> QED
    BY <1>2, CounterTypes, CopyTaskDone DEF SettlesFor

LEMMA TimeoutSettles ==
    ASSUME TypeOK, NEW c \in ContractIds, Timeout(c), NEW a \in Registered
    PROVE  SettlesFor(a, contracts[c], "ResolvedRequester")
<1> DEFINE p == contracts[c].provider
<1>1. agents' = [agents EXCEPT ![p] = Abandoned(agents[p])]
    BY DEF Timeout
<1>2. agents'[a] = IF a = p THEN Abandoned(agents[a]) ELSE agents[a]
    BY <1>1 DEF TypeOK
<1> QED
    BY <1>2, CounterTypes, CopyAbandoned DEF SettlesFor

LEMMA TimeoutDeliverySettles ==
    ASSUME TypeOK, NEW c \in ContractIds, TimeoutDelivery(c), NEW a \in Registered
    PROVE  SettlesFor(a, contracts[c], "Completed")
<1> DEFINE p == contracts[c].provider
           r == contracts[c].requester
           lost == [agents[r] EXCEPT !.disputes_lost = @ + 1]
<1>1. agents' = WriteBack(p, TaskDone(agents[p]), r, lost)
    BY DEF TimeoutDelivery
<1>2. agents'[a] = IF a = r THEN lost ELSE IF a = p THEN TaskDone(agents[a]) ELSE agents[a]
    BY <1>1, WrittenBack
<1>3. CASE a = r
    <2>1. SameCopy(agents[a], agents'[a])
        BY <1>2, <1>3, CounterTypes DEF SameCopy, AgentIdentity
    <2> QED
        BY <1>3, <2>1 DEF SameCopy, SettlesFor
<1>4. CASE a # r
    BY <1>2, <1>4, CounterTypes, CopyTaskDone DEF SettlesFor
<1> QED
    BY <1>3, <1>4

LEMMA ResolveSettles ==
    ASSUME DisputeInv, NEW c \in ContractIds, NEW verdict \in BOOLEAN, Resolve(c, verdict),
           NEW a \in Registered
    PROVE  SettlesFor(a, contracts[c],
               IF ProviderWins(disputes[c], verdict) THEN "ResolvedProvider" ELSE "ResolvedRequester")
<1> DEFINE k == contracts[c]
           d == disputes[c]
           p == k.provider
           r == k.requester
           wins == ProviderWins(d, verdict)
           worked == Judged(Released(agents[p]), "provider", k, d, wins)
           asked == Judged(agents[r], "requester", k, d, wins)
           rounds == d.private_rounds_count
<1>1. agents' = WriteBack(p, worked, r, asked)
    BY DEF Resolve
<1>2. TypeOK
    BY DEF DisputeInv
<1>3. agents'[a] = IF a = r THEN asked ELSE IF a = p THEN worked ELSE agents[a]
    <2> HIDE DEF worked, asked
    <2> QED
        BY <1>1, <1>2, WrittenBack
<1>4. rounds \in {0, 1}
    BY RoundsWithinOne
<1>5. agents[a] \in AgentIdentity /\ agents[a].dispute_friction_total \in Nat
    BY <1>2, CounterTypes
<1>6. /\ agents[a].dispute_friction_total + rounds \in
             {agents[a].dispute_friction_total, agents[a].dispute_friction_total + 1}
    BY <1>4, <1>5
<1>7. CASE a = r
    <2>1. /\ agents'[a].active_contracts = agents[a].active_contracts
          /\ agents'[a].tasks_completed = agents[a].tasks_completed
          /\ agents'[a].tasks_abandoned = agents[a].tasks_abandoned
          /\ agents'[a].dispute_friction_total = agents[a].dispute_friction_total + rounds
        <3> HIDE DEF wins
        <3> QED
            BY <1>3, <1>5, <1>7, CopyJudged
    <2> HIDE DEF wins, rounds
    <2> QED
        BY <1>6, <1>7, <2>1 DEF SettlesFor, Parties
<1>8. CASE a # r /\ a = p
    <2>1. /\ agents'[a].active_contracts = Monus(agents[a].active_contracts, 1)
          /\ agents'[a].tasks_completed = agents[a].tasks_completed
          /\ agents'[a].tasks_abandoned = agents[a].tasks_abandoned
          /\ agents'[a].dispute_friction_total = agents[a].dispute_friction_total + rounds
        <3> HIDE DEF wins
        <3> QED
            BY <1>3, <1>5, <1>8, CopyJudged, CopyReleased
    <2> HIDE DEF wins, rounds
    <2> QED
        BY <1>6, <1>8, <2>1 DEF SettlesFor, Parties
<1>9. CASE a # r /\ a # p
    <2> HIDE DEF wins
    <2> QED
        BY <1>3, <1>9 DEF SettlesFor
<1> QED
    BY <1>7, <1>8, <1>9

LEMMA AcceptCorrectionSettles ==
    ASSUME DisputeInv, NEW c \in ContractIds, AcceptCorrection(c), NEW a \in Registered
    PROVE  SettlesFor(a, contracts[c], "Completed")
<1> DEFINE k == contracts[c]
           d == disputes[c]
           p == k.provider
           r == k.requester
           corrected == [TaskDone(agents[p]) EXCEPT !.corrections_received = @ + d.corrections_count]
           worked == Rounds(corrected, d)
           asked == Rounds(agents[r], d)
           rounds == d.private_rounds_count
<1>1. agents' = WriteBack(p, worked, r, asked)
    BY DEF AcceptCorrection
<1>2. TypeOK
    BY DEF DisputeInv
<1>3. agents'[a] = IF a = r THEN asked ELSE IF a = p THEN worked ELSE agents[a]
    <2> HIDE DEF worked, asked
    <2> QED
        BY <1>1, <1>2, WrittenBack
<1>4. rounds \in {0, 1}
    BY RoundsWithinOne
<1>5. agents[a] \in AgentIdentity /\ agents[a].dispute_friction_total \in Nat
    BY <1>2, CounterTypes
<1>6. /\ agents[a].dispute_friction_total + rounds \in
             {agents[a].dispute_friction_total, agents[a].dispute_friction_total + 1}
    BY <1>4, <1>5
<1>7. CASE a = r
    <2>1. /\ agents'[a].active_contracts = agents[a].active_contracts
          /\ agents'[a].tasks_completed = agents[a].tasks_completed
          /\ agents'[a].tasks_abandoned = agents[a].tasks_abandoned
          /\ agents'[a].dispute_friction_total = agents[a].dispute_friction_total + rounds
        BY <1>3, <1>5, <1>7, CopyRounds
    <2> HIDE DEF rounds
    <2> QED
        BY <1>6, <1>7, <2>1 DEF SettlesFor, Parties
<1>8. CASE a # r /\ a = p
    <2>1. /\ agents'[a].active_contracts = Monus(agents[a].active_contracts, 1)
          /\ agents'[a].tasks_completed = agents[a].tasks_completed + 1
          /\ agents'[a].tasks_abandoned = agents[a].tasks_abandoned
          /\ agents'[a].dispute_friction_total = agents[a].dispute_friction_total + rounds
        <3>1. /\ TaskDone(agents[p]) \in AgentIdentity
              /\ d.corrections_count \in Nat
            BY <1>2, <1>5, <1>8, TaskDoneType, DisputeFacts
        <3>2. /\ corrected \in AgentIdentity
              /\ SameCopy(TaskDone(agents[p]), corrected)
            BY <3>1 DEF AgentIdentity, SameCopy
        <3>3. /\ TaskDone(agents[a]).active_contracts = Monus(agents[a].active_contracts, 1)
              /\ TaskDone(agents[a]).tasks_completed = agents[a].tasks_completed + 1
              /\ TaskDone(agents[a]).tasks_abandoned = agents[a].tasks_abandoned
              /\ TaskDone(agents[a]).dispute_friction_total = agents[a].dispute_friction_total
            BY <1>5, CopyTaskDone
        <3>4. TaskDone(agents[p]) = TaskDone(agents[a])
            BY <1>8
        <3> HIDE DEF corrected
        <3>5. /\ worked.active_contracts = corrected.active_contracts
              /\ worked.tasks_completed = corrected.tasks_completed
              /\ worked.tasks_abandoned = corrected.tasks_abandoned
              /\ worked.dispute_friction_total = corrected.dispute_friction_total + rounds
            BY <3>2, CopyRounds
        <3>6. agents'[a] = worked
            BY <1>3, <1>8
        <3> HIDE DEF worked, rounds
        <3> QED
            BY <3>2, <3>3, <3>4, <3>5, <3>6 DEF SameCopy
    <2> HIDE DEF rounds
    <2> QED
        BY <1>6, <1>8, <2>1 DEF SettlesFor, Parties
<1>9. CASE a # r /\ a # p
    BY <1>3, <1>9 DEF SettlesFor
<1> QED
    BY <1>7, <1>8, <1>9

-----------------------------------------------------------------------------
(* The cases of contracts *)

(* What a step gives for every contract and every agent. *)
AllCounted ==
    /\ \A x \in ContractIds :
          contracts[x].status = "None" \/ Parties(contracts'[x]) = Parties(contracts[x])
    /\ \A a \in Registered :
          OnlyRegular(a) => Exposed(a) /\ (OnlyRegular(a)' => Counted(a)')

(* What a handler writes of a contract, its parties left alone.            *)
LEMMA ElsewhereSame ==
    ASSUME TypeOK, NEW c \in ContractIds, LifecycleOn(c) \/ DisputeOn(c)
    PROVE  \A x \in ContractIds \ {c} : SameCase(x)
BY Elsewhere DEF Aside, SameCase

(* A contract that is settled again is not regular: it counts twice for its
   parties, and is nobody else's.                                          *)
LEMMA SettlingCounted ==
    ASSUME CounterInv, NEW c \in ContractIds, LifecycleOn(c) \/ DisputeOn(c),
           Regular(c)' => IsLive(c), NEW outcome \in SettledStatuses,
           contracts' = [contracts EXCEPT ![c].status = outcome, ![c].resolved_at = now],
           \A a \in Registered : SettlesFor(a, contracts[c], outcome)
    PROVE  AllCounted
<1>1. TypeOK
    BY DEF CounterInv, DisputeInv
<1>2. /\ contracts'[c].status = outcome
      /\ contracts'[c].provider = contracts[c].provider
      /\ contracts'[c].requester = contracts[c].requester
    BY <1>1, ContractFacts DEF TypeOK, Contract
<1>3. \A x \in ContractIds \ {c} : SameCase(x)
    BY <1>1, ElsewhereSame
<1>4. Parties(contracts'[c]) = Parties(contracts[c])
    BY <1>2 DEF Parties
<1> SUFFICES ASSUME NEW a \in Registered, OnlyRegular(a)
             PROVE  Exposed(a) /\ (OnlyRegular(a)' => Counted(a)')
    BY <1>3, <1>4 DEF AllCounted, SameCase, Parties
<1>5. Counted(a)
    BY DEF CounterInv
<1>6. SettlesFor(a, contracts[c], contracts'[c].status)
    BY <1>2
<1>7. CASE a \notin Parties(contracts[c])
    <2>1. SameCounters(a)
        BY <1>6, <1>7 DEF SettlesFor, SameCounters, Parties
    <2> QED
        BY <1>3, <1>4, <1>5, <1>7, <2>1, BystanderCounted
<1>8. CASE a \in Parties(contracts[c])
    <2>1. Exposed(a)
        <3>1. c \notin LiveContractsOf(a)'
            BY <1>2, Statuses DEF LiveContractsOf, IsLive
        <3>2. LiveContractsOf(a)' \ LiveContractsOf(a) = {}
            BY <1>3, <3>1, SetsApart
        <3> QED
            BY <3>2 DEF Exposed
    <2>2. ASSUME OnlyRegular(a)' PROVE Counted(a)'
        <3>1. IsLive(c)
            BY <1>4, <1>8, <2>2 DEF OnlyRegular
        <3> QED
            BY <1>1, <1>2, <1>3, <1>5, <1>6, <3>1, SettleCounted
    <2> QED
        BY <2>1, <2>2
<1> QED
    BY <1>7, <1>8

(* A handler that moves a live contract on, or leaves all as it was.       *)
LEMMA WorkingCounted ==
    ASSUME CounterInv, NEW c \in ContractIds, LifecycleOn(c) \/ DisputeOn(c), SameCase(c),
           \A a \in Registered : SameCounters(a)
    PROVE  AllCounted
<1>1. TypeOK
    BY DEF CounterInv, DisputeInv
<1>2. \A x \in ContractIds : SameCase(x)
    BY <1>1, ElsewhereSame
<1> QED
    BY <1>2, QuietCounted DEF CounterInv, AllCounted, SameCase, Parties

LEMMA AcceptProposalCounted ==
    ASSUME CounterInv, NEW c \in ContractIds, AcceptProposal(c)
    PROVE  AllCounted
<1> DEFINE k == contracts[c]
           p == k.provider
           stake == k.provider_stake_required
<1>1. TypeOK
    BY DEF CounterInv, DisputeInv
<1>2. /\ contracts' = [contracts EXCEPT ![c].provider_stake = stake,
                                        ![c].status = "Active", ![c].created_at = now]
      /\ agents' = [agents EXCEPT ![p].active_contracts = @ + 1]
      /\ BelowExposureLimit(p)
      /\ k.status = "Proposed"
    BY DEF AcceptProposal
<1>3. /\ contracts'[c].status = "Active" /\ contracts'[c].provider = p
      /\ contracts'[c].requester = k.requester
    <2> HIDE DEF stake, p
    <2>1. /\ contracts'[c].status = "Active"
          /\ contracts'[c].provider = contracts[c].provider
          /\ contracts'[c].requester = contracts[c].requester
        BY <1>1, <1>2, ContractFacts DEF TypeOK, Contract
    <2> QED
        BY <2>1 DEF p
<1>4. \A x \in ContractIds \ {c} : SameCase(x)
    BY <1>1, ElsewhereSame DEF LifecycleOn
<1> SUFFICES ASSUME NEW a \in Registered, OnlyRegular(a) PROVE Counted(a)' /\ Exposed(a)
    BY <1>3, <1>4 DEF AllCounted, SameCase, Parties
<1>5. Counted(a)
    BY DEF CounterInv
<1>6. a # p => SameCounters(a)
    BY <1>1, <1>2 DEF SameCounters, TypeOK
<1>7. a = p => /\ agents[a].active_contracts < MaxActive(agents[a].trust_score)
               /\ agents'[a].active_contracts = agents[a].active_contracts + 1
               /\ agents'[a].tasks_completed = agents[a].tasks_completed
               /\ agents'[a].tasks_abandoned = agents[a].tasks_abandoned
               /\ agents'[a].dispute_friction_total = agents[a].dispute_friction_total
    BY <1>1, <1>2, CounterTypes DEF BelowExposureLimit, TypeOK, AgentIdentity
<1> HIDE DEF k, p
<1> QED
    BY <1>1, <1>2, <1>3, <1>4, <1>5, <1>6, <1>7, HireCounted DEF k

LEMMA CancelProposalCounted ==
    ASSUME CounterInv, NEW c \in ContractIds, CancelProposal(c)
    PROVE  AllCounted
<1>1. TypeOK
    BY DEF CounterInv, DisputeInv
<1>2. /\ contracts'[c].status = "Cancelled" /\ contracts[c].status = "Proposed"
      /\ contracts'[c].provider = contracts[c].provider
      /\ contracts'[c].requester = contracts[c].requester
      /\ agents' = agents
    BY <1>1, ContractFacts DEF CancelProposal, TypeOK, Contract
<1>3. \A x \in ContractIds \ {c} : SameCase(x)
    BY <1>1, ElsewhereSame DEF LifecycleOn
<1> SUFFICES ASSUME NEW a \in Registered, OnlyRegular(a) PROVE Counted(a)' /\ Exposed(a)
    BY <1>2, <1>3 DEF AllCounted, SameCase, Parties
<1> QED
    BY <1>1, <1>2, <1>3, OfferCounted DEF CounterInv, SameCounters

LEMMA DeliverCounted ==
    ASSUME CounterInv, NEW c \in ContractIds, Deliver(c)
    PROVE  AllCounted
<1>1. TypeOK
    BY DEF CounterInv, DisputeInv
<1>2. SameCase(c)
    BY <1>1, ContractFacts DEF Deliver, TypeOK, Contract, SameCase, LiveStatuses
<1>3. \A a \in Registered : SameCounters(a)
    BY <1>1 DEF Deliver, TypeOK, AgentIdentity, SameCounters
<1> QED
    BY <1>2, <1>3, WorkingCounted DEF LifecycleOn

LEMMA RejectDeliveryCounted ==
    ASSUME CounterInv, NEW c \in ContractIds, RejectDelivery(c)
    PROVE  AllCounted
<1> DEFINE used == contracts[c].corrections_used + 1
           atLimit == used >= contracts[c].max_corrections_contract
           status == StatusAfterRejection(atLimit)
           p == contracts[c].provider
<1>1. TypeOK
    BY DEF CounterInv, DisputeInv
<1>2. /\ contracts' = [contracts EXCEPT
             ![c].corrections_used = used,
             ![c].status = status,
             ![c].dispute_level = IF atLimit THEN 1 ELSE @]
      /\ contracts[c].status = "Delivered"
      /\ agents' = [agents EXCEPT ![p].corrections_received = @ + 1]
    BY DEF RejectDelivery
<1>3. status \in LiveStatuses
    BY DEF StatusAfterRejection, LiveStatuses
<1> HIDE DEF used, atLimit, status, p
<1>4. SameCase(c)
    BY <1>1, <1>2, <1>3, ContractFacts DEF TypeOK, Contract, SameCase, LiveStatuses
<1>5. \A a \in Registered : SameCounters(a)
    BY <1>1, <1>2 DEF TypeOK, AgentIdentity, SameCounters
<1> QED
    BY <1>4, <1>5, WorkingCounted DEF LifecycleOn

LEMMA LifecycleCounted ==
    ASSUME CounterInv, NEW c \in ContractIds, LifecycleOn(c)
    PROVE  AllCounted
<1>1. TypeOK
    BY DEF CounterInv, DisputeInv
<1>2. "Completed" \in SettledStatuses /\ "ResolvedRequester" \in SettledStatuses
    BY DEF SettledStatuses
<1>3. "Delivered" \in LiveStatuses /\ "Active" \in LiveStatuses
    BY DEF LiveStatuses
<1>4. ASSUME Accept(c) PROVE AllCounted
    <2>1. /\ contracts' = [contracts EXCEPT ![c].status = "Completed", ![c].resolved_at = now]
          /\ IsLive(c)
        BY <1>3, <1>4 DEF Accept, AcceptAccounts, IsLive
    <2> QED
        BY <1>1, <1>2, <1>4, <2>1, AcceptSettles, SettlingCounted
<1>5. ASSUME Timeout(c) PROVE AllCounted
    <2>1. /\ contracts' = [contracts EXCEPT ![c].status = "ResolvedRequester", ![c].resolved_at = now]
          /\ IsLive(c)
        BY <1>3, <1>5 DEF Timeout, TimeoutAccounts, IsLive
    <2> QED
        BY <1>1, <1>2, <1>5, <2>1, TimeoutSettles, SettlingCounted
<1>6. ASSUME TimeoutDelivery(c) PROVE AllCounted
    <2>1. /\ contracts' = [contracts EXCEPT ![c].status = "Completed", ![c].resolved_at = now]
          /\ IsLive(c)
        BY <1>3, <1>6 DEF TimeoutDelivery, TimeoutDeliveryAccounts, IsLive
    <2> QED
        BY <1>1, <1>2, <1>6, <2>1, TimeoutDeliverySettles, SettlingCounted
<1> QED
    BY <1>4, <1>5, <1>6, AcceptProposalCounted, CancelProposalCounted, DeliverCounted,
       RejectDeliveryCounted DEF LifecycleOn

(* A verdict is given on a live contract.                                  *)
LEMMA ResolveLive ==
    ASSUME PromiseInv, NEW c \in ContractIds, NEW verdict \in BOOLEAN,
           Resolve(c, verdict), Regular(c)'
    PROVE  IsLive(c)
<1>1. EscrowInv
    BY DEF PromiseInv
<1>2. contracts[c].status \notin SettledStatuses
    BY <1>1, ResolveUnsettled DEF IsSettled
<1>3. contracts[c].status \notin {"None", "Proposed"}
    BY DEF Resolve, ResolveAccounts, PromiseInv, EscrowInv, Consistent, Sound
<1>4. contracts[c].status \in ContractStatus
    BY <1>1, ContractFacts DEF EscrowInv, Contract
<1> QED
    BY <1>2, <1>3, <1>4 DEF ContractStatus, IsLive

(* The instructions on a dispute that are no verdict.                      *)
LEMMA DisputeQuiet ==
    ASSUME TypeOK, NEW c \in ContractIds
    PROVE  /\ Initiate(c) => SameCase(c) /\ agents' = agents
           /\ Respond(c) => SameCase(c) /\ agents' = agents
           /\ Escalate(c) => SameCase(c) /\ agents' = agents
           /\ \A by \in Agents : EscalateToAppeal(c, by) => SameCase(c) /\ agents' = agents
           /\ \A j \in Jurors, side \in BOOLEAN : Vote(j, c, side) => SameCase(c) /\ agents' = agents
           /\ Redeliver(c) => SameCase(c) /\ \A a \in Registered : SameCounters(a)
<1> USE ContractFacts DEF TypeOK, Contract, SameCase
<1>1. ASSUME Initiate(c) PROVE SameCase(c) /\ agents' = agents
    BY <1>1 DEF Initiate, LiveStatuses
<1>2. ASSUME Respond(c) PROVE SameCase(c) /\ agents' = agents
    BY <1>2 DEF Respond
<1>3. ASSUME Escalate(c) PROVE SameCase(c) /\ agents' = agents
    <2> DEFINE level == IF disputes[c].level = "PrivateRounds" THEN 3 ELSE 2
    <2>1. contracts' = [contracts EXCEPT ![c].dispute_level = level] /\ agents' = agents
        BY <1>3 DEF Escalate
    <2> HIDE DEF level
    <2> QED
        BY <2>1
<1>4. ASSUME NEW by \in Agents, EscalateToAppeal(c, by) PROVE SameCase(c) /\ agents' = agents
    BY <1>4 DEF EscalateToAppeal
<1>5. ASSUME NEW j \in Jurors, NEW side \in BOOLEAN, Vote(j, c, side)
      PROVE  SameCase(c) /\ agents' = agents
    BY <1>5 DEF Vote
<1>6. ASSUME Redeliver(c) PROVE SameCase(c) /\ \A a \in Registered : SameCounters(a)
    <2> DEFINE exhausted == disputes[c].corrections_count + 1 >= config.max_corrections
               p == contracts[c].provider
    <2>1. /\ contracts' = [contracts EXCEPT
                 ![c].status = "Delivered",
                 ![c].dispute_level = IF exhausted THEN 2 ELSE @]
          /\ agents' = [agents EXCEPT ![p].total_deliveries = @ + 1]
          /\ contracts[c].status = "Disputed"
        BY <1>6 DEF Redeliver, RedeliverAccounts
    <2> HIDE DEF exhausted, p
    <2>2. SameCase(c)
        BY <2>1 DEF LiveStatuses
    <2>3. \A a \in Registered : SameCounters(a)
        BY <2>1 DEF AgentIdentity, SameCounters
    <2> QED
        BY <2>2, <2>3
<1> QED
    BY <1>1, <1>2, <1>3, <1>4, <1>5, <1>6

LEMMA DisputeCounted ==
    ASSUME CounterInv, NEW c \in ContractIds, DisputeOn(c)
    PROVE  AllCounted
<1>1. TypeOK /\ DisputeInv /\ PromiseInv
    BY DEF CounterInv, DisputeInv
<1>2. "Completed" \in SettledStatuses /\ "ResolvedRequester" \in SettledStatuses
      /\ "ResolvedProvider" \in SettledStatuses
    BY DEF SettledStatuses
<1>3. ASSUME NEW verdict \in BOOLEAN, Resolve(c, verdict) PROVE AllCounted
    <2> DEFINE outcome == IF ProviderWins(disputes[c], verdict) THEN "ResolvedProvider"
                          ELSE "ResolvedRequester"
    <2>1. contracts' = [contracts EXCEPT ![c].status = outcome, ![c].resolved_at = now]
        BY <1>3 DEF Resolve
    <2>2. outcome \in SettledStatuses
        BY <1>2
    <2>3. \A a \in Registered : SettlesFor(a, contracts[c], outcome)
        BY <1>1, <1>3, ResolveSettles
    <2>4. Regular(c)' => IsLive(c)
        BY <1>1, <1>3, ResolveLive
    <2> HIDE DEF outcome
    <2> QED
        BY <1>3, <2>1, <2>2, <2>3, <2>4, SettlingCounted
<1>4. ASSUME AcceptCorrection(c) PROVE AllCounted
    <2>1. /\ contracts' = [contracts EXCEPT ![c].status = "Completed", ![c].resolved_at = now]
          /\ IsLive(c)
        BY <1>4 DEF AcceptCorrection, IsLive, LiveStatuses
    <2> QED
        BY <1>1, <1>2, <1>4, <2>1, AcceptCorrectionSettles, SettlingCounted
<1>5. ASSUME SameCase(c), \A a \in Registered : SameCounters(a) PROVE AllCounted
    BY <1>5, WorkingCounted
<1>6. agents' = agents => \A a \in Registered : SameCounters(a)
    BY DEF SameCounters
<1> QED
    BY <1>1, <1>3, <1>4, <1>5, <1>6, DisputeQuiet DEF DisputeOn

-----------------------------------------------------------------------------
(* The account a new contract takes, and the parties it names.             *)
LEMMA NewCase ==
    ASSUME TypeOK, BlankBeyond, NEW k, NEW currency, NEW stake, NEW deposit,
           NewContract(k, currency, stake, deposit)
    PROVE  \E c \in ContractIds :
               /\ contracts[c].status = "None"
               /\ contracts'[c] = k
               /\ \A x \in ContractIds \ {c} : SameCase(x)
<1>1. PICK c \in ContractIds : c = total_contracts
    <2>1. total_contracts \in ContractIds
        BY BoundsAssumption DEF TypeOK, NewContract, ContractIds
    <2> QED
        BY <2>1
<1>2. contracts' = [contracts EXCEPT ![c] = k]
    BY <1>1 DEF NewContract
<1>3. contracts[c].status = "None"
    BY <1>1 DEF BlankBeyond, ContractIds
<1>4. contracts'[c] = k /\ \A x \in ContractIds \ {c} : SameCase(x)
    BY <1>2 DEF TypeOK, SameCase
<1> QED
    BY <1>3, <1>4

LEMMA CreateCounted ==
    ASSUME CounterInv, NEW r \in Requesters, NEW p \in Providers, NEW v \in Values,
           NEW i \in EscrowInputs, NEW cur \in CreateCurrencies, Create(r, p, v, i, cur)
    PROVE  AllCounted
<1> DEFINE stake == StakeRequired(v, agents[p].trust_score)
           terms == Terms(r, p, v, i, cur)
           k == [terms EXCEPT !.status = "Active", !.provider_stake = stake]
<1>1. /\ NewContract(k, "Sworn", stake, EscrowDeposit(k))
      /\ agents' = [agents EXCEPT ![p].active_contracts = @ + 1]
      /\ BelowExposureLimit(p)
    BY DEF Create
<1>2. k.status = "Active" /\ k.provider = p
    BY DEF Terms, NoContract
<1> HIDE DEF k, stake
<1>3. TypeOK /\ BlankBeyond
    BY DEF CounterInv, DisputeInv
<1>4. PICK c \in ContractIds : /\ contracts[c].status = "None"
                               /\ contracts'[c] = k
                               /\ \A x \in ContractIds \ {c} : SameCase(x)
    BY <1>1, <1>3, NewCase
<1> SUFFICES ASSUME NEW a \in Registered, OnlyRegular(a) PROVE Counted(a)' /\ Exposed(a)
    BY <1>4 DEF AllCounted, SameCase, Parties
<1>5. Counted(a)
    BY DEF CounterInv
<1>6. a # p => SameCounters(a)
    BY <1>1, <1>3 DEF SameCounters, TypeOK
<1>7. a = p => /\ agents[a].active_contracts < MaxActive(agents[a].trust_score)
               /\ agents'[a].active_contracts = agents[a].active_contracts + 1
               /\ agents'[a].tasks_completed = agents[a].tasks_completed
               /\ agents'[a].tasks_abandoned = agents[a].tasks_abandoned
               /\ agents'[a].dispute_friction_total = agents[a].dispute_friction_total
    BY <1>1, <1>3, CounterTypes DEF BelowExposureLimit, TypeOK, AgentIdentity
<1>8. contracts'[c].status = "Active" /\ contracts'[c].provider = p
    BY <1>2, <1>4
<1> QED
    BY <1>3, <1>4, <1>5, <1>6, <1>7, <1>8, HireCounted

LEMMA ProposeCounted ==
    ASSUME CounterInv, NEW r \in Requesters, NEW p \in Providers, NEW v \in Values,
           NEW expiry \in Expiries, NEW cur \in ProposeCurrencies, NEW i \in EscrowInputs,
           Propose(r, p, v, expiry, cur, i)
    PROVE  AllCounted
<1> DEFINE stake == StakeRequired(v, agents[p].trust_score)
           terms == Terms(r, p, v, i, cur)
           k == [terms EXCEPT !.status = "Proposed", !.provider_stake_required = stake,
                              !.proposal_expires_at = IF expiry > 0 THEN now + expiry ELSE 0]
<1>1. NewContract(k, cur, 0, EscrowDeposit(k)) /\ agents' = agents
    BY DEF Propose
<1>2. k.status = "Proposed"
    BY DEF Terms, NoContract
<1> HIDE DEF k
<1>3. TypeOK /\ BlankBeyond
    BY DEF CounterInv, DisputeInv
<1>4. PICK c \in ContractIds : /\ contracts[c].status = "None"
                               /\ contracts'[c] = k
                               /\ \A x \in ContractIds \ {c} : SameCase(x)
    BY <1>1, <1>3, NewCase
<1> SUFFICES ASSUME NEW a \in Registered, OnlyRegular(a) PROVE Counted(a)' /\ Exposed(a)
    BY <1>4 DEF AllCounted, SameCase, Parties
<1>5. Counted(a) /\ SameCounters(a)
    BY <1>1 DEF CounterInv, SameCounters
<1>6. contracts'[c].status = "Proposed"
    BY <1>2, <1>4
<1> QED
    BY <1>3, <1>4, <1>5, <1>6, OfferCounted

(* What an agent writes to its own account leaves the counters alone.      *)
LEMMA CopyOwn ==
    ASSUME NEW b \in Registered, agents[b] \in AgentIdentity
    PROVE  /\ \A score : SameCopy(agents[b], [agents[b] EXCEPT !.trust_score = score])
           /\ \A duration : SameCopy(agents[b],
                  [agents[b] EXCEPT !.is_hibernating = TRUE,
                                    !.hibernation_ends_at = now + duration,
                                    !.tasks_since_last_hibernation = 0])
           /\ SameCopy(agents[b], Awake(b))
           /\ SameCopy(agents[b], [agents[b] EXCEPT !.matured = TRUE])
<1>1. \A score : SameCopy(agents[b], [agents[b] EXCEPT !.trust_score = score])
    BY DEF SameCopy, AgentIdentity
<1>2. ASSUME NEW duration
      PROVE  SameCopy(agents[b], [agents[b] EXCEPT !.is_hibernating = TRUE,
                                    !.hibernation_ends_at = now + duration,
                                    !.tasks_since_last_hibernation = 0])
    BY DEF SameCopy, AgentIdentity
<1>3. SameCopy(agents[b], Awake(b))
    BY DEF SameCopy, Awake, AgentIdentity
<1>4. SameCopy(agents[b], [agents[b] EXCEPT !.matured = TRUE])
    BY DEF SameCopy, AgentIdentity
<1> QED
    BY <1>1, <1>2, <1>3, <1>4

LEMMA OtherCounted ==
    ASSUME CounterInv,
           \/ IdentityNext \/ Tick \/ (\E settings \in Configs : UpdateConfig(settings))
           \/ \E c \in ContractIds, currency \in Currencies, amount \in Gifts :
                 Gift(c, currency, amount)
           \/ UNCHANGED vars
    PROVE  AllCounted
<1>1. \A x \in ContractIds : SameCase(x)
    BY DEF IdentityNext, IdentityOn, CalculateTrustScore, Hibernate, Wake, ExpireHibernation,
        ForceMature, ChangeAgent, Tick, UpdateConfig, Gift, vars, SameCase
<1>2. \A a \in Registered : SameCounters(a)
    <2>1. TypeOK
        BY DEF CounterInv, DisputeInv
    <2>2. ASSUME NEW b \in Registered, IdentityOn(b)
          PROVE  \A a \in Registered : SameCounters(a)
        <3>1. agents[b] \in AgentIdentity /\ agents \in [Registered -> AgentIdentity]
            BY <2>1 DEF TypeOK
        <3>2. \E i : SameCopy(agents[b], i) /\ ChangeAgent(b, i)
            BY <2>2, <3>1, CopyOwn DEF IdentityOn, CalculateTrustScore, Hibernate, Wake,
                ExpireHibernation, ForceMature
        <3>3. PICK i : SameCopy(agents[b], i) /\ agents' = [agents EXCEPT ![b] = i]
            BY <3>2 DEF ChangeAgent
        <3> QED
            BY <3>1, <3>3 DEF SameCopy, SameCounters
    <2>3. ASSUME agents' = agents
          PROVE  \A a \in Registered : SameCounters(a)
        BY <2>3 DEF SameCounters
    <2> QED
        BY <2>2, <2>3 DEF IdentityNext, Tick, UpdateConfig, Gift, vars
<1> QED
    BY <1>1, <1>2, QuietCounted DEF CounterInv, AllCounted, SameCase, Parties

(* No contract becomes regular again.                                      *)
LEMMA RegularBackward ==
    ASSUME FeesBounded, PromiseInv, [Next]_vars, NEW x \in ContractIds, Regular(x)'
    PROVE  Regular(x)
<1>1. CASE Next
    <2>1. EscrowInv'
        BY <1>1, NextEscrow DEF PromiseInv
    <2> QED
        BY <1>1, <2>1, NextKept DEF Kept, Unmoved
<1>2. CASE UNCHANGED vars
    BY <1>2 DEF vars, Regular, EscrowDeposit
<1> QED
    BY <1>1, <1>2

LEMMA NextCounted ==
    ASSUME FeesBounded, CounterInv, [Next]_vars
    PROVE  CounterInv' /\ AllCounted
<1>1. PromiseInv'
    BY NextPromise, StutterPromise DEF CounterInv
<1>2. DisputeInv'
    BY NextProceeds DEF CounterInv
<1>3. AllCounted
    BY CreateCounted, ProposeCounted, LifecycleCounted, DisputeCounted, OtherCounted
       DEF Next, LifecycleNext, DisputeNext
<1>4. ASSUME NEW a \in Registered, OnlyRegular(a)' PROVE OnlyRegular(a)
    <2> SUFFICES ASSUME NEW x \in ContractIds, a \in Parties(contracts[x]) PROVE Regular(x)
        BY DEF OnlyRegular
    <2>1. CASE contracts[x].status = "None"
        BY <2>1 DEF CounterInv, PromiseInv, EscrowInv, Consistent, Regular
    <2>2. CASE Parties(contracts'[x]) = Parties(contracts[x])
        <3>1. Regular(x)'
            BY <1>4, <2>2 DEF OnlyRegular
        <3> QED
            BY <3>1, RegularBackward DEF CounterInv
    <2> QED
        BY <1>3, <2>1, <2>2 DEF AllCounted
<1> QED
    BY <1>1, <1>2, <1>3, <1>4 DEF CounterInv, AllCounted

LEMMA InitCounted == ASSUME Init PROVE CounterInv
<1>1. PromiseInv /\ DisputeInv
    BY InitPromise, InitOrderly
<1> SUFFICES ASSUME NEW a \in Registered PROVE Counted(a)
    BY <1>1 DEF CounterInv
<1>2. \A c \in ContractIds : contracts[c].status = "None"
    BY DEF Init, NoContract
<1>3. /\ LiveContractsOf(a) = {} /\ SettledWithItself(a) = {} /\ Completed(a) = {}
      /\ Lost(a) = {} /\ Ended(a) = {}
    BY <1>2, Statuses DEF LiveContractsOf, IsLive, SettledWithItself, IsSettled, Completed, Lost, Ended
<1>4. /\ agents[a].active_contracts = 0 /\ agents[a].tasks_completed = 0
      /\ agents[a].tasks_abandoned = 0 /\ agents[a].dispute_friction_total = 0
    BY DEF Init, NewAgent
<1>5. Cardinality({}) = 0
    BY FS_EmptySet
<1> QED
    BY <1>3, <1>4, <1>5 DEF Counted

(* The inductive invariant holds in every reachable state.                 *)
THEOREM CountersInvariant == ASSUME FeesBounded PROVE Spec => []CounterInv
<1>1. Init => CounterInv
    BY InitCounted
<1>2. CounterInv /\ [Next]_vars => CounterInv'
    BY NextCounted
<1> QED
    BY <1>1, <1>2, PTL DEF Spec

(* What the invariant says of one agent's counters and their ranges.       *)
LEMMA CountedRanges ==
    ASSUME CounterInv, NEW a \in Registered, OnlyRegular(a)
    PROVE  LET live == Cardinality(LiveContractsOf(a))
               self == Cardinality(SettledWithItself(a))
               done == Cardinality(Completed(a))
           IN  /\ agents[a].active_contracts \in live .. live + self
               /\ agents[a].tasks_completed \in done - self .. done
               /\ agents[a].tasks_abandoned <= Cardinality(Lost(a))
               /\ agents[a].dispute_friction_total <= Cardinality(Ended(a))
<1> DEFINE live == Cardinality(LiveContractsOf(a))
           self == Cardinality(SettledWithItself(a))
           done == Cardinality(Completed(a))
<1>1. live \in Nat /\ self \in Nat /\ done \in Nat
    BY IdsFinite DEF LiveContractsOf, SettledWithItself, Completed
<1>2. agents[a].active_contracts \in Nat /\ agents[a].tasks_completed \in Nat
    BY CounterTypes DEF CounterInv, DisputeInv
<1>3. /\ live <= agents[a].active_contracts /\ agents[a].active_contracts <= live + self
      /\ done - self <= agents[a].tasks_completed /\ agents[a].tasks_completed <= done
      /\ agents[a].tasks_abandoned <= Cardinality(Lost(a))
      /\ agents[a].dispute_friction_total <= Cardinality(Ended(a))
    BY DEF CounterInv, Counted
<1> HIDE DEF live, self, done
<1>4. /\ agents[a].active_contracts \in live .. live + self
      /\ agents[a].tasks_completed \in done - self .. done
    BY <1>1, <1>2, <1>3
<1> QED
    BY <1>3, <1>4 DEF live, self, done

(* A provider's active_contracts is the number of its live contracts, save
   for those with itself that were settled, if its contracts are regular.  *)
THEOREM ActiveContractsExact ==
    ASSUME FeesBounded PROVE Spec => []ActiveContractsAccurate
<1>1. CounterInv => ActiveContractsAccurate
    BY CountedRanges DEF ActiveContractsAccurate
<1> QED
    BY <1>1, CountersInvariant, PTL

(* Each completed contract is counted once, whichever of the three handlers
   completed it, and no contract is abandoned that was not lost.           *)
THEOREM OutcomesCounted == ASSUME FeesBounded PROVE Spec => []OutcomesCountedOnce
<1>1. CounterInv => OutcomesCountedOnce
    BY CountedRanges DEF OutcomesCountedOnce, Completed, Lost
<1> QED
    BY <1>1, CountersInvariant, PTL

(* A dispute costs each of its parties one private round at most.          *)
THEOREM FrictionCounted == ASSUME FeesBounded PROVE Spec => []FrictionBounded
<1>1. CounterInv => FrictionBounded
    BY CountedRanges DEF FrictionBounded, Ended
<1> QED
    BY <1>1, CountersInvariant, PTL

(* No provider takes on more contracts than its trust score allows, counted
   by its contracts and not by its counter.                                *)
THEOREM ExposureHolds == ASSUME FeesBounded PROVE Spec => ExposureRespected
<1>1. CounterInv /\ [Next]_vars =>
          [\A a \in Registered :
              OnlyRegular(a) /\ LiveContractsOf(a)' \ LiveContractsOf(a) # {} =>
                  Cardinality(LiveContractsOf(a)') <= MaxActive(agents[a].trust_score)]_vars
    BY NextCounted DEF AllCounted, Exposed
<1> QED
    BY <1>1, CountersInvariant, PTL DEF Spec, ExposureRespected

-----------------------------------------------------------------------------
(* The insurance pool.                                                     *)

(* The two sums of PoolIsBacked. *)
PaidSum == SumOf([c \in ContractIds |-> LossPaid(c)], ContractIds)
AheadSum == SumOf([c \in ContractIds |-> CreditedUnpaid(c)], ContractIds)

(* Contracts that are not settled paid the pool nothing, and there is no
   appeal in SOL.                                                          *)
Unbooked(c) ==
    /\ ~IsSettled(c) => net[c].insurance = 0
    /\ contracts[c].currency = "Sol" => ~HasAppeal(disputes[c])

AllRegular == \A c \in ContractIds : Regular(c)

Backing ==
    /\ PromiseInv
    /\ \A c \in ContractIds : Unbooked(c)
    /\ PaidSum <= pool_balance /\ pool_balance <= PaidSum + AheadSum

(* The inductive invariant. *)
PoolInv == PromiseInv /\ (AllRegular => Backing)

(* A step on c credits the pool with what c pays it out of a loss, and in
   SOL may with what it does not pay.                                      *)
Credited(c) ==
    LET paid == LossPaid(c)' - LossPaid(c)
        ahead == CreditedUnpaid(c)' - CreditedUnpaid(c)
        credit == pool_balance' - pool_balance
    IN  paid <= credit /\ credit <= paid + ahead

(* The sums as PoolIsBacked writes them.                                   *)
LEMMA PaidSumIsSum == PaidSum = MapThenSumSet(LossPaid, ContractIds)
<1> DEFINE f == [c \in ContractIds |-> LossPaid(c)]
           body(g) == [s \in SUBSET ContractIds |-> IF s = {} THEN 0
                          ELSE LossPaid(Pick(s)) + g[s \ {Pick(s)}]]
<1>1. ASSUME NEW g PROVE IsSum(g, f, ContractIds) <=> g = body(g)
    <2>1. \A s \in SUBSET ContractIds : s # {} => f[Pick(s)] = LossPaid(Pick(s))
        BY PickIn
    <2> DEFINE other(h) == [s \in SUBSET ContractIds |-> IF s = {} THEN 0
                          ELSE f[Pick(s)] + h[s \ {Pick(s)}]]
    <2> HIDE DEF f
    <2>2. other(g) = body(g)
        BY <2>1
    <2> QED
        BY <2>2 DEF IsSum
<1>2. (CHOOSE g : IsSum(g, f, ContractIds)) = (CHOOSE g : g = body(g))
    <2> HIDE DEF f, body
    <2> QED
        BY <1>1
<1>3. MapThenSumSet(LossPaid, ContractIds) = (CHOOSE g : g = body(g))[ContractIds]
    BY DEF MapThenSumSet, MapThenFoldSet, Pick
<1> QED
    BY <1>2, <1>3 DEF PaidSum, SumOf, Folding

LEMMA AheadSumIsSum == AheadSum = MapThenSumSet(CreditedUnpaid, ContractIds)
<1> DEFINE f == [c \in ContractIds |-> CreditedUnpaid(c)]
           body(g) == [s \in SUBSET ContractIds |-> IF s = {} THEN 0
                          ELSE CreditedUnpaid(Pick(s)) + g[s \ {Pick(s)}]]
<1>1. ASSUME NEW g PROVE IsSum(g, f, ContractIds) <=> g = body(g)
    <2>1. \A s \in SUBSET ContractIds : s # {} => f[Pick(s)] = CreditedUnpaid(Pick(s))
        BY PickIn
    <2> DEFINE other(h) == [s \in SUBSET ContractIds |-> IF s = {} THEN 0
                          ELSE f[Pick(s)] + h[s \ {Pick(s)}]]
    <2> HIDE DEF f
    <2>2. other(g) = body(g)
        BY <2>1
    <2> QED
        BY <2>2 DEF IsSum
<1>2. (CHOOSE g : IsSum(g, f, ContractIds)) = (CHOOSE g : g = body(g))
    <2> HIDE DEF f, body
    <2> QED
        BY <1>1
<1>3. MapThenSumSet(CreditedUnpaid, ContractIds) = (CHOOSE g : g = body(g))[ContractIds]
    BY DEF MapThenSumSet, MapThenFoldSet, Pick
<1> QED
    BY <1>2, <1>3 DEF AheadSum, SumOf, Folding

LEMMA IdsFiniteSet == IsFiniteSet(ContractIds)
BY IdsFinite

(* What a lost SOL stake credits the pool with at most. *)
LostShares(k) == PartOf(k.provider_stake, InsuranceRateBps) + PartOf(k.provider_stake, BurnRateBps)

LEMMA LossTypes ==
    ASSUME TypeOK
    PROVE  \A c \in ContractIds : /\ LossPaid(c) \in Int /\ CreditedUnpaid(c) \in Int
                                  /\ LostShares(contracts[c]) \in Nat
<1> SUFFICES ASSUME NEW c \in ContractIds
             PROVE  /\ LossPaid(c) \in Int /\ CreditedUnpaid(c) \in Int
                    /\ LostShares(contracts[c]) \in Nat
    OBVIOUS
<1> DEFINE insurance == PartOf(contracts[c].provider_stake, InsuranceRateBps)
           burn == PartOf(contracts[c].provider_stake, BurnRateBps)
<1>1. insurance \in Nat /\ burn \in Nat
    BY ContractFacts, RatesAssumption, PartOfNat
<1>2. net[c].insurance \in Int
    BY DEF TypeOK, Flow
<1>3. LostShares(contracts[c]) = insurance + burn
    BY DEF LostShares
<1>4. CreditedUnpaid(c) \in {0, insurance + burn}
    BY DEF CreditedUnpaid
<1> HIDE DEF insurance, burn
<1> QED
    BY <1>1, <1>2, <1>3, <1>4 DEF LossPaid

LEMMA LossTypesNext ==
    ASSUME TypeOK'
    PROVE  \A c \in ContractIds : LossPaid(c)' \in Int /\ CreditedUnpaid(c)' \in Int
<1> SUFFICES ASSUME NEW c \in ContractIds
             PROVE  LossPaid(c)' \in Int /\ CreditedUnpaid(c)' \in Int
    OBVIOUS
<1> DEFINE insurance == PartOf(contracts'[c].provider_stake, InsuranceRateBps)
           burn == PartOf(contracts'[c].provider_stake, BurnRateBps)
<1>1. contracts'[c].provider_stake \in Nat /\ net'[c].insurance \in Int
    BY DEF TypeOK, Flow, Contract
<1>2. insurance \in Nat /\ burn \in Nat
    BY <1>1, RatesAssumption, PartOfNat
<1>3. CreditedUnpaid(c)' \in {0, insurance + burn}
    BY DEF CreditedUnpaid
<1> HIDE DEF insurance, burn
<1> QED
    BY <1>1, <1>2, <1>3 DEF LossPaid

(* A step on c changes the sums by the terms of c.                         *)
LEMMA SumsShift ==
    ASSUME TypeOK, TypeOK', NEW c \in ContractIds,
           \A x \in ContractIds \ {c} : net'[x] = net[x] /\ contracts'[x] = contracts[x]
    PROVE  /\ PaidSum' = PaidSum - LossPaid(c) + LossPaid(c)'
           /\ AheadSum' = AheadSum - CreditedUnpaid(c) + CreditedUnpaid(c)'
           /\ PaidSum \in Int /\ AheadSum \in Int
<1> DEFINE f == [x \in ContractIds |-> LossPaid(x)]
           g == [x \in ContractIds |-> LossPaid(x)']
           u == [x \in ContractIds |-> CreditedUnpaid(x)]
           v == [x \in ContractIds |-> CreditedUnpaid(x)']
<1>1. \A x \in ContractIds : /\ f[x] \in Int /\ g[x] \in Int /\ u[x] \in Int /\ v[x] \in Int
                             /\ f[x] = LossPaid(x) /\ g[x] = LossPaid(x)'
                             /\ u[x] = CreditedUnpaid(x) /\ v[x] = CreditedUnpaid(x)'
    BY LossTypes, LossTypesNext
<1>2. \A x \in ContractIds \ {c} : LossPaid(x)' = LossPaid(x) /\ CreditedUnpaid(x)' = CreditedUnpaid(x)
    BY DEF LossPaid, CreditedUnpaid
<1>3. \A x \in ContractIds \ {c} : f[x] = g[x] /\ u[x] = v[x]
    BY <1>1, <1>2
<1>4. /\ PaidSum = SumOf(f, ContractIds) /\ PaidSum' = SumOf(g, ContractIds)
      /\ AheadSum = SumOf(u, ContractIds) /\ AheadSum' = SumOf(v, ContractIds)
    BY DEF PaidSum, AheadSum
<1> HIDE DEF f, g, u, v
<1>5. SumOf(g, ContractIds) = SumOf(f, ContractIds) - f[c] + g[c]
    BY <1>1, <1>3, IdsFiniteSet, SumShift
<1>6. SumOf(v, ContractIds) = SumOf(u, ContractIds) - u[c] + v[c]
    BY <1>1, <1>3, IdsFiniteSet, SumShift
<1>7. SumOf(f, ContractIds) \in Int /\ SumOf(u, ContractIds) \in Int
    BY <1>1, IdsFiniteSet, SumInt
<1> QED
    BY <1>1, <1>4, <1>5, <1>6, <1>7

LEMMA CreditedBacked ==
    ASSUME Backing, PromiseInv', NEW c \in ContractIds, Credited(c), Unbooked(c)',
           \A x \in ContractIds \ {c} : /\ net'[x] = net[x] /\ contracts'[x] = contracts[x]
                                        /\ disputes'[x] = disputes[x]
    PROVE  Backing'
<1>1. TypeOK /\ TypeOK'
    BY DEF Backing, PromiseInv, EscrowInv
<1>2. /\ PaidSum' = PaidSum - LossPaid(c) + LossPaid(c)'
      /\ AheadSum' = AheadSum - CreditedUnpaid(c) + CreditedUnpaid(c)'
      /\ PaidSum \in Int /\ AheadSum \in Int
    BY <1>1, SumsShift
<1>3. /\ LossPaid(c) \in Int /\ CreditedUnpaid(c) \in Int
      /\ LossPaid(c)' \in Int /\ CreditedUnpaid(c)' \in Int
    BY <1>1, LossTypes, LossTypesNext
<1>4. pool_balance \in Int /\ pool_balance' \in Int
    BY <1>1 DEF TypeOK
<1>5. PaidSum' <= pool_balance' /\ pool_balance' <= PaidSum' + AheadSum'
    <2>1. /\ PaidSum <= pool_balance /\ pool_balance <= PaidSum + AheadSum
          /\ LossPaid(c)' - LossPaid(c) <= pool_balance' - pool_balance
          /\ pool_balance' - pool_balance <= (LossPaid(c)' - LossPaid(c))
                                              + (CreditedUnpaid(c)' - CreditedUnpaid(c))
        BY DEF Backing, Credited
    <2> QED
        BY <1>2, <1>3, <1>4, <2>1
<1>6. \A x \in ContractIds : Unbooked(x)'
    BY DEF Backing, Unbooked, IsSettled
<1> QED
    BY <1>5, <1>6 DEF Backing

(* What a payment that settles c leaves the pool's vault.                  *)
LEMMA PaymentInsures ==
    ASSUME TypeOK, NEW c \in ContractIds, ~IsSettled(c), Unbooked(c), c \notin astray',
           NEW currency \in Currencies, NEW topUp \in Nat, NEW pay \in Payment,
           NEW first \in Payment, NEW second \in Payment, pay = PlusFlow(first, second),
           Disburse(c, currency, topUp, first, second),
           NEW status \in SettledStatuses,
           contracts' = [contracts EXCEPT ![c].status = status, ![c].resolved_at = now],
           NEW credit \in Nat, pool_balance' = pool_balance + credit,
           IF status = "Completed" THEN credit = 0
           ELSE /\ pay.insurance <= credit
                /\ credit <= pay.insurance
                      + (IF contracts[c].currency = "Sol" /\ status = "ResolvedRequester"
                         THEN LostShares(contracts[c]) ELSE 0)
    PROVE  Credited(c)
<1> DEFINE lost == IF contracts[c].currency = "Sol" /\ status = "ResolvedRequester"
                   THEN LostShares(contracts[c]) ELSE 0
<1>1. /\ net[c] \in Flow /\ net'[c] = Exchange(net[c], topUp, pay)
    BY DisburseGains
<1>2. net'[c].insurance = net[c].insurance + pay.insurance
    BY <1>1, ExchangeGains
<1>3. net[c].insurance = 0 /\ pay.insurance \in Nat /\ pool_balance \in Nat
    BY DEF TypeOK, Unbooked, Payment
<1>4. /\ contracts'[c].currency = contracts[c].currency /\ contracts'[c].status = status
      /\ contracts'[c].provider_stake = contracts[c].provider_stake
    BY DEF TypeOK, Contract
<1>5. LossPaid(c) = 0 /\ CreditedUnpaid(c) = 0
    BY <1>3 DEF LossPaid, CreditedUnpaid, IsSettled, SettledStatuses
<1>6. CreditedUnpaid(c)' = lost
    BY <1>4 DEF CreditedUnpaid, LostShares
<1>7. LossPaid(c)' = IF status = "Completed" THEN 0 ELSE pay.insurance
    BY <1>2, <1>3, <1>4 DEF LossPaid
<1>8. lost \in Nat /\ (status = "Completed" => lost = 0)
    BY LossTypes
<1>9. IF status = "Completed" THEN credit = 0
      ELSE pay.insurance <= credit /\ credit <= pay.insurance + lost
    OBVIOUS
<1> HIDE DEF lost
<1>10. pool_balance' - pool_balance = credit
    BY <1>3
<1>11. /\ LossPaid(c)' - LossPaid(c) <= credit
       /\ credit <= (LossPaid(c)' - LossPaid(c)) + (CreditedUnpaid(c)' - CreditedUnpaid(c))
    <2>1. CASE status = "Completed"
        BY <1>5, <1>6, <1>7, <1>8, <1>9, <2>1
    <2>2. CASE status # "Completed"
        BY <1>3, <1>5, <1>6, <1>7, <1>8, <1>9, <2>2
    <2> QED
        BY <2>1, <2>2
<1> QED
    BY <1>10, <1>11 DEF Credited

(* A step that moves neither and settles nothing.                          *)
LEMMA QuietCredited ==
    ASSUME TypeOK, NEW c \in ContractIds, net'[c].insurance = net[c].insurance,
           pool_balance' = pool_balance,
           contracts'[c].currency = contracts[c].currency,
           contracts'[c].provider_stake = contracts[c].provider_stake \/ ~IsSettled(c),
           \/ contracts'[c].status = contracts[c].status
           \/ ~IsSettled(c) /\ ~IsSettled(c)'
    PROVE  Credited(c)
<1>1. net[c].insurance \in Int /\ pool_balance \in Nat /\ CreditedUnpaid(c) \in Int
    BY LossTypes DEF TypeOK, Flow
<1>2. LossPaid(c)' = LossPaid(c) /\ CreditedUnpaid(c)' = CreditedUnpaid(c)
    <2>1. CASE ~IsSettled(c) /\ ~IsSettled(c)'
        BY <2>1 DEF LossPaid, CreditedUnpaid, IsSettled, SettledStatuses
    <2>2. CASE IsSettled(c) /\ contracts'[c].status = contracts[c].status
        BY <2>2 DEF LossPaid, CreditedUnpaid, IsSettled, SettledStatuses
    <2>3. CASE ~IsSettled(c) /\ contracts'[c].status = contracts[c].status
        BY <2>3 DEF LossPaid, CreditedUnpaid, IsSettled, SettledStatuses
    <2> QED
        BY <2>1, <2>2, <2>3
<1>3. LossPaid(c) \in Int
    BY <1>1 DEF LossPaid
<1>4. \A m, n \in Int : m - m = 0 /\ 0 <= 0 + 0 /\ n - n = 0
    OBVIOUS
<1> QED
    BY <1>1, <1>2, <1>3, <1>4 DEF Credited

(* What a confiscated stake pays the pool: nothing in SOL.                 *)
LEMMA ConfiscationInsures ==
    ASSUME NEW stake \in Nat, NEW winner, NEW currency
    PROVE  Confiscation(stake, winner, currency).insurance =
               IF currency = "Sol" THEN 0 ELSE PartOf(stake, InsuranceRateBps)
<1> DEFINE burn == PartOf(stake, BurnRateBps)
           insurance == PartOf(stake, InsuranceRateBps)
           share == stake - burn - insurance
           paid == PayTo(winner, share)
<1>1. CASE currency # "Sol"
    <2>1. Confiscation(stake, winner, currency)
              = [paid EXCEPT !.insurance = insurance, !.burn = burn]
        BY <1>1 DEF Confiscation
    <2>2. "insurance" \in DOMAIN paid
        BY DEF PayTo, NoPayment
    <2> HIDE DEF paid, insurance, burn
    <2>3. [paid EXCEPT !.insurance = insurance, !.burn = burn].insurance = insurance
        BY <2>2
    <2> QED
        BY <1>1, <2>1, <2>3 DEF insurance
<1>2. CASE currency = "Sol"
    <2>1. \A amount : PayTo(winner, amount).insurance = 0
        BY DEF PayTo, NoPayment
    <2>2. Confiscation(stake, winner, currency) = PayTo(winner, stake)
        BY <1>2 DEF Confiscation
    <2> QED
        BY <1>2, <2>1, <2>2
<1> QED
    BY <1>1, <1>2

LEMMA RefundInsures ==
    ASSUME NEW k \in Contract
    PROVE  Refund(k).insurance =
               IF k.currency = "Sol" THEN 0 ELSE PartOf(k.provider_stake, InsuranceRateBps)
<1> DEFINE seized == Confiscation(k.provider_stake, "requester", k.currency)
           back == seized.requester + EscrowDeposit(k)
           part == IF k.currency = "Sol" THEN 0 ELSE PartOf(k.provider_stake, InsuranceRateBps)
<1>1. seized \in Payment
    BY ConfiscationWhole DEF Contract
<1>2. seized.insurance = part
    BY ConfiscationInsures DEF Contract
<1>3. Refund(k) = [seized EXCEPT !.requester = back]
    BY DEF Refund
<1> HIDE DEF seized, back, part
<1>4. Refund(k).insurance = part
    BY <1>1, <1>2, <1>3 DEF Payment
<1> QED
    BY <1>4 DEF part

(* Contracts that are to be settled are not.                               *)
LEMMA EndsUnsettled ==
    ASSUME NEW c \in ContractIds
    PROVE  /\ AcceptProposal(c) \/ CancelProposal(c) \/ Deliver(c) \/ RejectDelivery(c) => ~IsSettled(c)
           /\ Accept(c) \/ Timeout(c) \/ TimeoutDelivery(c) \/ AcceptCorrection(c) => ~IsSettled(c)
           /\ Initiate(c) \/ Redeliver(c) => ~IsSettled(c)
<1>1. AcceptProposal(c) \/ CancelProposal(c) \/ Deliver(c) \/ RejectDelivery(c) => ~IsSettled(c)
    BY DEF AcceptProposal, CancelProposal, Deliver, RejectDelivery, IsSettled, SettledStatuses
<1>2. Accept(c) \/ Timeout(c) \/ TimeoutDelivery(c) \/ AcceptCorrection(c) => ~IsSettled(c)
    BY DEF Accept, AcceptAccounts, Timeout, TimeoutAccounts, TimeoutDelivery,
           TimeoutDeliveryAccounts, AcceptCorrection, IsSettled, SettledStatuses
<1>3. Initiate(c) \/ Redeliver(c) => ~IsSettled(c)
    BY DEF Initiate, Redeliver, RedeliverAccounts, IsSettled, SettledStatuses
<1> QED
    BY <1>1, <1>2, <1>3

(* The ordinary ends of a contract: only a timeout credits the pool.       *)
LEMMA LifecycleEndCredited ==
    ASSUME Backing, NEW c \in ContractIds, c \notin astray',
           CancelProposal(c) \/ Accept(c) \/ Timeout(c) \/ TimeoutDelivery(c)
    PROVE  Credited(c)
<1> DEFINE k == contracts[c]
<1>1. /\ k \in Contract /\ EscrowDeposit(k) \in Nat /\ TopUp(k) \in Nat /\ k.value \in Nat
      /\ config \in ProtocolConfig /\ TypeOK /\ pool_balance \in Nat
      /\ PartOf(k.provider_stake, InsuranceRateBps) \in Nat
      /\ PartOf(k.provider_stake, BurnRateBps) \in Nat
      /\ k.currency \in Currencies
    <2>1. TypeOK /\ config \in ProtocolConfig /\ pool_balance \in Nat
        BY DEF Backing, PromiseInv, EscrowInv, TypeOK
    <2>2. /\ k \in Contract /\ EscrowDeposit(k) \in Nat /\ TopUp(k) \in Nat /\ k.value \in Nat
          /\ k.provider_stake \in Nat /\ k.currency \in Currencies
        BY <2>1, ContractFacts DEF Contract
    <2>3. /\ PartOf(k.provider_stake, InsuranceRateBps) \in Nat
          /\ PartOf(k.provider_stake, BurnRateBps) \in Nat
        BY <2>2, RatesAssumption, PartOfNat
    <2> QED
        BY <2>1, <2>2, <2>3
<1>2. pool_balance = pool_balance + 0 /\ 0 \in Nat /\ 0 <= 0 + 0
    BY <1>1
<1>3. ~IsSettled(c) /\ Unbooked(c)
    BY EndsUnsettled DEF Backing
<1>4. /\ "Completed" \in SettledStatuses /\ "Cancelled" \in SettledStatuses
      /\ "ResolvedRequester" \in SettledStatuses
    BY DEF SettledStatuses
<1>0. NoPayment \in Payment /\ \A pay \in Payment : pay = PlusFlow(pay, NoPayment)
    <2>1. NoPayment \in Payment
        BY DEF NoPayment, Payment
    <2>2. \A pay \in Payment : pay = PlusFlow(pay, NoPayment)
        BY PlusNothing
    <2> QED
        BY <2>1, <2>2
<1> HIDE DEF NoPayment
<1>5. CASE CancelProposal(c)
    <2> DEFINE pay == PayTo("requester", EscrowDeposit(k))
    <2>1. /\ Disburse(c, k.currency, 0, pay, NoPayment)
          /\ contracts' = [contracts EXCEPT ![c].status = "Cancelled", ![c].resolved_at = now]
          /\ pool_balance' = pool_balance
        BY <1>5, DirectDisburses DEF CancelProposal
    <2>2. pay \in Payment
        BY <1>1, PayToWhole
    <2>3. pay.insurance = 0
        BY DEF PayTo, NoPayment
    <2> HIDE DEF pay
    <2> QED
        <3>1. /\ pay.insurance <= 0
              /\ 0 <= pay.insurance
                    + (IF contracts[c].currency = "Sol" /\ "Cancelled" = "ResolvedRequester"
                       THEN LostShares(contracts[c]) ELSE 0)
            BY <2>3
        <3> QED
            BY <1>0, <1>1, <1>2, <1>3, <1>4, <2>1, <2>2, <3>1, PaymentInsures
<1>6. CASE Accept(c)
    <2> DEFINE topUp == TopUp(k)
               pay == Payout(k, k.value)
    <2>1. /\ Disburse(c, k.currency, topUp, pay, NoPayment)
          /\ contracts' = [contracts EXCEPT ![c].status = "Completed", ![c].resolved_at = now]
          /\ pool_balance' = pool_balance
        BY <1>6 DEF Accept
    <2>2. pay \in Payment /\ topUp \in Nat
        BY <1>1, PayoutWhole
    <2> HIDE DEF topUp, pay
    <2> QED
        BY <1>0, <1>1, <1>2, <1>3, <1>4, <2>1, <2>2, PaymentInsures
<1>7. CASE Timeout(c)
    <2> DEFINE pay == Refund(k)
               credit == PartOf(k.provider_stake, InsuranceRateBps)
               burn == PartOf(k.provider_stake, BurnRateBps)
               ahead == IF k.currency = "Sol" THEN credit + burn ELSE 0
    <2>1. /\ Disburse(c, k.currency, 0, pay, NoPayment)
          /\ contracts' = [contracts EXCEPT ![c].status = "ResolvedRequester",
                                            ![c].resolved_at = now]
          /\ pool_balance' = pool_balance + credit
        BY <1>7 DEF Timeout
    <2>2. pay \in Payment /\ credit \in Nat /\ burn \in Nat
        BY <1>1, RefundWhole
    <2>3. pay.insurance = IF k.currency = "Sol" THEN 0 ELSE credit
        BY <1>1, RefundInsures
    <2>4. ahead = IF k.currency = "Sol" THEN LostShares(k) ELSE 0
        BY DEF LostShares
    <2>5. pay.insurance <= credit /\ credit <= pay.insurance + ahead
        <3> HIDE DEF pay, credit, burn
        <3> QED
            BY <2>2, <2>3
    <2> HIDE DEF pay, credit, ahead
    <2>6. pay.insurance <= credit
          /\ credit <= pay.insurance + (IF k.currency = "Sol" THEN LostShares(k) ELSE 0)
        BY <2>4, <2>5
    <2> QED
        BY <1>0, <1>1, <1>3, <1>4, <2>1, <2>2, <2>6, PaymentInsures
<1>8. CASE TimeoutDelivery(c)
    <2> DEFINE pay == IgnoredPayout(k)
    <2>1. /\ Disburse(c, k.currency, 0, pay, NoPayment)
          /\ contracts' = [contracts EXCEPT ![c].status = "Completed", ![c].resolved_at = now]
          /\ pool_balance' = pool_balance
        BY <1>8 DEF TimeoutDelivery
    <2>2. pay \in Payment
        BY <1>1, PayoutWhole DEF IgnoredPayout
    <2> HIDE DEF pay
    <2> QED
        BY <1>0, <1>1, <1>2, <1>3, <1>4, <2>1, <2>2, PaymentInsures
<1> QED
    BY <1>5, <1>6, <1>7, <1>8

LEMMA AcceptCorrectionCredited ==
    ASSUME Backing, NEW c \in ContractIds, c \notin astray', AcceptCorrection(c)
    PROVE  Credited(c)
<1> DEFINE k == contracts[c]
           topUp == TopUp(k)
           pay == CorrectionPayout(k)
<1>1. /\ Disburse(c, k.currency, topUp, pay, NoPayment)
      /\ contracts' = [contracts EXCEPT ![c].status = "Completed", ![c].resolved_at = now]
      /\ pool_balance' = pool_balance
    BY DEF AcceptCorrection
<1>2. /\ k \in Contract /\ topUp \in Nat /\ k.value \in Nat /\ config \in ProtocolConfig
      /\ TypeOK /\ pool_balance \in Nat /\ k.currency \in Currencies
    BY ContractFacts DEF Backing, PromiseInv, EscrowInv, TypeOK, Contract
<1>3. pay \in Payment
    BY <1>2, PayoutWhole DEF CorrectionPayout
<1>4. pool_balance = pool_balance + 0 /\ 0 \in Nat
    BY <1>2
<1>5. ~IsSettled(c) /\ Unbooked(c) /\ "Completed" \in SettledStatuses
    BY EndsUnsettled DEF Backing, SettledStatuses
<1>6. NoPayment \in Payment /\ pay = PlusFlow(pay, NoPayment)
    BY <1>3, PlusNothing
<1> HIDE DEF topUp, pay, NoPayment
<1> QED
    BY <1>1, <1>2, <1>3, <1>4, <1>5, <1>6, PaymentInsures

(* A verdict credits the pool with the insurance shares it pays: of the
   stake when the provider loses, of the appeal when its depositor does.
   In SOL it pays none, and credits those of the stake all the same.       *)
LEMMA VerdictInsures ==
    ASSUME TypeOK, NEW c \in ContractIds, Unbooked(c), NEW wins \in BOOLEAN
    PROVE  LET k == contracts[c]
               d == disputes[c]
               paid == PlusFlow(DisputePayment(k, wins), AppealPayment(k, d, wins)).insurance
               credit == DisputeCredit(k, wins) + AppealCredit(k, d, wins)
           IN  /\ paid <= credit
               /\ credit <= paid + (IF k.currency = "Sol" /\ ~wins THEN LostShares(k) ELSE 0)
<1> DEFINE k == contracts[c]
           d == disputes[c]
           first == DisputePayment(k, wins)
           second == AppealPayment(k, d, wins)
           share == PartOf(k.provider_stake, InsuranceRateBps)
           burn == PartOf(k.provider_stake, BurnRateBps)
           ahead == IF k.currency = "Sol" /\ ~wins THEN LostShares(k) ELSE 0
           credit == DisputeCredit(k, wins)
           appeal == AppealCredit(k, d, wins)
<1>1. /\ k \in Contract /\ d.appeal_stake \in Nat /\ share \in Nat /\ burn \in Nat
      /\ PartOf(d.appeal_stake, InsuranceRateBps) \in Nat
    BY ContractFacts, DisputeFacts, RatesAssumption, PartOfNat
<1>2. \A party, amount : PayTo(party, amount).insurance = 0
    BY DEF PayTo, NoPayment
<1>3. /\ first.insurance = IF wins \/ k.currency = "Sol" THEN 0 ELSE share
      /\ credit = IF wins THEN 0 ELSE share + (IF k.currency = "Sol" THEN burn ELSE 0)
      /\ ahead = IF k.currency = "Sol" /\ ~wins THEN share + burn ELSE 0
    <2>1. CASE wins
        BY <1>2, <2>1 DEF DisputePayment, DisputeCredit
    <2>2. CASE ~wins
        <3>1. first = Refund(k)
            BY <2>2 DEF DisputePayment
        <3>2. Refund(k).insurance = IF k.currency = "Sol" THEN 0 ELSE share
            BY <1>1, RefundInsures
        <3> HIDE DEF first
        <3> QED
            BY <2>2, <3>1, <3>2 DEF DisputeCredit, LostShares
    <2> QED
        BY <2>1, <2>2
<1>4. second.insurance = appeal /\ appeal \in Nat
    <2>1. CASE ~HasAppeal(d)
        BY <2>1 DEF AppealPayment, AppealCredit, AppealLost, NoPayment
    <2>2. CASE HasAppeal(d) /\ DepositorWins(k, d, wins)
        BY <1>2, <2>2 DEF AppealPayment, AppealCredit, AppealLost
    <2>3. CASE HasAppeal(d) /\ ~DepositorWins(k, d, wins)
        <3>1. second = Confiscation(d.appeal_stake, Opponent(Depositor(k, d)), k.currency)
            BY <2>3 DEF AppealPayment
        <3>2. appeal = PartOf(d.appeal_stake, InsuranceRateBps)
            BY <2>3 DEF AppealCredit, AppealLost
        <3>3. k.currency # "Sol"
            BY <2>3 DEF Unbooked
        <3> HIDE DEF second
        <3> QED
            BY <1>1, <3>1, <3>2, <3>3, ConfiscationInsures
    <2> QED
        BY <2>1, <2>2, <2>3
<1>5. PlusFlow(first, second).insurance = first.insurance + second.insurance
    BY DEF PlusFlow
<1> HIDE DEF first, second, share, burn, ahead, credit, appeal
<1>6. /\ first.insurance + second.insurance <= credit + appeal
      /\ credit + appeal <= first.insurance + second.insurance + ahead
    BY <1>1, <1>3, <1>4
<1>7. /\ PlusFlow(first, second).insurance <= credit + appeal
      /\ credit + appeal <= PlusFlow(first, second).insurance + ahead
    BY <1>5, <1>6
<1> QED
    BY <1>7 DEF first, second, ahead, credit, appeal

LEMMA ResolveCredited ==
    ASSUME Backing, NEW c \in ContractIds, NEW verdict \in BOOLEAN, Resolve(c, verdict), Regular(c)'
    PROVE  Credited(c)
<1> DEFINE k == contracts[c]
           d == disputes[c]
           wins == ProviderWins(d, verdict)
           outcome == IF wins THEN "ResolvedProvider" ELSE "ResolvedRequester"
           verdictPay == DisputePayment(k, wins)
           appealPay == AppealPayment(k, d, wins)
           pay == PlusFlow(verdictPay, appealPay)
           first == DisputeCredit(k, wins)
           second == AppealCredit(k, d, wins)
           credit == first + second
           ahead == IF k.currency = "Sol" /\ ~wins THEN LostShares(k) ELSE 0
<1>1. /\ TypeOK /\ pool_balance \in Nat /\ Unbooked(c) /\ EscrowInv
      /\ k.currency \in Currencies /\ c \notin astray'
    BY DEF Backing, PromiseInv, EscrowInv, TypeOK, Contract, Regular
<1>2. wins \in BOOLEAN /\ ~IsSettled(c)
    BY <1>1, WinsBoolean, ResolveUnsettled
<1>3. /\ Disburse(c, k.currency, 0, verdictPay, appealPay)
      /\ contracts' = [contracts EXCEPT ![c].status = outcome, ![c].resolved_at = now]
      /\ pool_balance' = pool_balance + first + second
    BY DEF Resolve
<1>4. /\ pay \in Payment /\ verdictPay \in Payment /\ appealPay \in Payment
      /\ pay = PlusFlow(verdictPay, appealPay)
      /\ first \in Nat /\ second \in Nat
      /\ pay.insurance <= credit /\ credit <= pay.insurance + ahead
    <2> HIDE DEF wins
    <2> QED
        BY <1>1, <1>2, PlusPayment, VerdictTypes, VerdictInsures
<1>5. /\ outcome \in SettledStatuses /\ outcome # "Completed"
      /\ (outcome = "ResolvedRequester") <=> ~wins
    BY DEF SettledStatuses
<1> HIDE DEF outcome, pay, verdictPay, appealPay, first, second
<1>6. credit \in Nat /\ pool_balance' = pool_balance + credit
    BY <1>1, <1>3, <1>4
<1>7. ahead = IF k.currency = "Sol" /\ outcome = "ResolvedRequester" THEN LostShares(k) ELSE 0
    BY <1>5
<1> HIDE DEF credit, ahead, wins
<1>8. /\ pay.insurance <= credit
      /\ credit <= pay.insurance
            + (IF contracts[c].currency = "Sol" /\ outcome = "ResolvedRequester"
               THEN LostShares(contracts[c]) ELSE 0)
    BY <1>4, <1>7
<1> QED
    BY <1>1, <1>2, <1>3, <1>4, <1>5, <1>6, <1>8, PaymentInsures

(* A step that pays nothing out settles nothing, and credits nothing.      *)
Quiet(c) ==
    /\ contracts'[c].currency = contracts[c].currency
    /\ contracts'[c].provider_stake = contracts[c].provider_stake \/ ~IsSettled(c)
    /\ \/ contracts'[c].status = contracts[c].status
       \/ ~IsSettled(c) /\ contracts'[c].status \notin SettledStatuses
    /\ net'[c].insurance = net[c].insurance
    /\ pool_balance' = pool_balance

LEMMA QuietIsCredited ==
    ASSUME TypeOK, NEW c \in ContractIds, Unbooked(c), Quiet(c)
    PROVE  Credited(c) /\ (~IsSettled(c)' => net'[c].insurance = 0)
BY QuietCredited DEF Quiet, Unbooked, IsSettled

LEMMA LifecycleQuiet ==
    ASSUME Backing, NEW c \in ContractIds,
           AcceptProposal(c) \/ Deliver(c) \/ RejectDelivery(c)
    PROVE  Quiet(c)
<1>1. /\ contracts[c] \in Contract /\ contracts \in [ContractIds -> Contract]
      /\ net[c] \in Flow /\ net \in [ContractIds -> Flow] /\ ~IsSettled(c)
    BY EndsUnsettled DEF Backing, PromiseInv, EscrowInv, TypeOK
<1>2. CASE AcceptProposal(c)
    <2> DEFINE stake == contracts[c].provider_stake_required
    <2>1. /\ contracts' = [contracts EXCEPT ![c].provider_stake = stake,
                                            ![c].status = "Active", ![c].created_at = now]
          /\ net' = [net EXCEPT ![c].provider = @ - stake]
          /\ pool_balance' = pool_balance
        BY <1>2 DEF AcceptProposal
    <2> HIDE DEF stake
    <2>2. contracts'[c].currency = contracts[c].currency /\ contracts'[c].status = "Active"
        BY <1>1, <2>1 DEF Contract
    <2>3. net'[c].insurance = net[c].insurance
        BY <1>1, <2>1 DEF Flow
    <2> QED
        BY <1>1, <2>1, <2>2, <2>3 DEF Quiet, SettledStatuses
<1>3. CASE Deliver(c)
    <2>1. /\ contracts' = [contracts EXCEPT ![c].status = "Delivered"]
          /\ UNCHANGED <<net, pool_balance>>
        BY <1>3 DEF Deliver
    <2>2. contracts'[c].currency = contracts[c].currency /\ contracts'[c].status = "Delivered"
        BY <1>1, <2>1 DEF Contract
    <2> QED
        BY <1>1, <2>1, <2>2 DEF Quiet, SettledStatuses
<1>4. CASE RejectDelivery(c)
    <2> DEFINE used == contracts[c].corrections_used + 1
               atLimit == used >= contracts[c].max_corrections_contract
               status == StatusAfterRejection(atLimit)
               level == IF atLimit THEN 1 ELSE contracts[c].dispute_level
    <2>1. /\ contracts' = [contracts EXCEPT ![c].corrections_used = used, ![c].status = status,
                                            ![c].dispute_level = level]
          /\ UNCHANGED <<net, pool_balance>>
        BY <1>4 DEF RejectDelivery
    <2>2. status \notin SettledStatuses
        BY DEF StatusAfterRejection, SettledStatuses
    <2> HIDE DEF used, status, level
    <2>3. contracts'[c].currency = contracts[c].currency /\ contracts'[c].status = status
        BY <1>1, <2>1 DEF Contract
    <2> QED
        BY <1>1, <2>1, <2>2, <2>3 DEF Quiet
<1> QED
    BY <1>2, <1>3, <1>4

LEMMA DisputeIsQuiet ==
    ASSUME Backing, NEW c \in ContractIds,
           \/ Initiate(c) \/ Respond(c) \/ Escalate(c) \/ Redeliver(c)
           \/ \E by \in Agents : EscalateToAppeal(c, by)
           \/ \E j \in Jurors, forProvider \in BOOLEAN : Vote(j, c, forProvider)
    PROVE  Quiet(c)
<1>1. /\ TypeOK /\ contracts[c] \in Contract /\ contracts \in [ContractIds -> Contract]
      /\ net[c] \in Flow /\ net \in [ContractIds -> Flow]
    BY ContractFacts DEF Backing, PromiseInv, EscrowInv, TypeOK
<1>2. pool_balance' = pool_balance
    BY DEF Initiate, Respond, Escalate, Redeliver, EscalateToAppeal, Vote
<1>3. net'[c].insurance = net[c].insurance
    <2>1. ASSUME NEW by \in Agents, EscalateToAppeal(c, by)
          PROVE  net'[c].insurance = net[c].insurance
        <3> DEFINE payer == IF by = contracts[c].provider THEN "provider" ELSE "requester"
                   stake == contracts[c].value \div 2
        <3>1. net'[c] = Charge(net[c], payer, stake)
            BY <1>1, <2>1 DEF EscalateToAppeal
        <3> HIDE DEF payer, stake
        <3> QED
            BY <1>1, <3>1 DEF Charge, Flow
    <2> QED
        BY <2>1 DEF Initiate, Respond, Escalate, Redeliver, Vote
<1> DEFINE Same == /\ contracts'[c].currency = contracts[c].currency
                   /\ contracts'[c].provider_stake = contracts[c].provider_stake
           Goal == Same /\ \/ contracts'[c].status = contracts[c].status
                           \/ ~IsSettled(c) /\ contracts'[c].status \notin SettledStatuses
<1>4. Goal
    <2>1. CASE Respond(c) \/ \E j \in Jurors, forProvider \in BOOLEAN : Vote(j, c, forProvider)
        BY <2>1 DEF Respond, Vote
    <2>2. ASSUME NEW status, status \notin SettledStatuses, NEW level, ~IsSettled(c),
                 contracts' = [contracts EXCEPT ![c].status = status, ![c].dispute_level = level]
          PROVE  Goal
        BY <1>1, <2>2 DEF Contract
    <2>3. ASSUME \E level : contracts' = [contracts EXCEPT ![c].dispute_level = level]
          PROVE  Goal
        BY <1>1, <2>3 DEF Contract
    <2>4. "Disputed" \notin SettledStatuses /\ "Delivered" \notin SettledStatuses
        BY DEF SettledStatuses
    <2> HIDE DEF Goal
    <2>5. CASE Initiate(c)
        <3>1. contracts' = [contracts EXCEPT ![c].status = "Disputed", ![c].dispute_level = 1]
            BY <2>5 DEF Initiate
        <3> QED
            BY <2>2, <2>4, <2>5, <3>1, EndsUnsettled
    <2>6. CASE Redeliver(c)
        <3> DEFINE level == IF disputes[c].corrections_count + 1 >= config.max_corrections
                            THEN 2 ELSE contracts[c].dispute_level
        <3>1. contracts' = [contracts EXCEPT ![c].status = "Delivered",
                                             ![c].dispute_level = level]
            BY <2>6 DEF Redeliver
        <3> HIDE DEF level
        <3> QED
            BY <2>2, <2>4, <2>6, <3>1, EndsUnsettled
    <2>7. CASE Escalate(c)
        <3> DEFINE level == IF disputes[c].level = "PrivateRounds" THEN 3 ELSE 2
        <3>1. contracts' = [contracts EXCEPT ![c].dispute_level = level]
            BY <2>7 DEF Escalate
        <3> HIDE DEF level
        <3> QED
            BY <2>3, <3>1
    <2>8. ASSUME NEW by \in Agents, EscalateToAppeal(c, by)
          PROVE  Goal
        BY <2>3, <2>8 DEF EscalateToAppeal
    <2> QED
        BY <2>1, <2>5, <2>6, <2>7, <2>8
<1> QED
    BY <1>2, <1>3, <1>4 DEF Quiet

(* An appeal is in SWORN, and nothing else makes one.                      *)
LEMMA NoSolAppeal ==
    ASSUME TypeOK, NEW c \in ContractIds, LifecycleOn(c) \/ DisputeOn(c),
           contracts'[c].currency = contracts[c].currency,
           contracts[c].currency = "Sol", ~HasAppeal(disputes[c])
    PROVE  ~HasAppeal(disputes'[c])
<1> DEFINE d == disputes[c]
           e == disputes'[c]
<1>1. d \in Dispute /\ disputes \in [ContractIds -> Dispute]
    BY DisputeFacts DEF TypeOK
<1>2. ASSUME e.appeal_stake = d.appeal_stake, e.level = d.level \/ e.level # "Appeal"
      PROVE  ~HasAppeal(e)
    BY <1>2 DEF HasAppeal
<1>3. CASE UNCHANGED disputes
    BY <1>2, <1>3
<1>4. CASE Initiate(c)
    BY <1>1, <1>4 DEF Initiate, NoDispute, HasAppeal
<1>5. CASE Respond(c)
    <2>1. e.appeal_stake = d.appeal_stake /\ e.level = d.level
        BY <1>1, <1>5 DEF Respond, Dispute
    <2> QED
        BY <1>2, <2>1
<1>6. CASE Escalate(c)
    <2> DEFINE deadline == now + (IF d.level = "PrivateRounds" THEN JuryWindow ELSE PrivateWindow)
               size == IF d.level = "PrivateRounds" THEN JurySize[contracts[c].value] ELSE d.jury_size
               fee == IF d.level = "PrivateRounds" THEN PartOf(contracts[c].value, 200)
                      ELSE d.arbitration_fee
               level == NextLevel(d.level)
    <2>1. e = [d EXCEPT !.level = level, !.status = "Open", !.deadline = deadline,
                        !.jury_size = size, !.arbitration_fee = fee]
        BY <1>1, <1>6 DEF Escalate
    <2>2. level # "Appeal"
        BY DEF NextLevel
    <2> HIDE DEF deadline, size, fee, level
    <2>3. e.appeal_stake = d.appeal_stake /\ e.level = level
        BY <1>1, <2>1 DEF Dispute
    <2> QED
        BY <1>2, <2>2, <2>3
<1>7. ASSUME NEW by \in Agents, EscalateToAppeal(c, by) PROVE FALSE
    BY <1>7 DEF EscalateToAppeal
<1>8. ASSUME NEW j \in Jurors, NEW side \in BOOLEAN, Vote(j, c, side) PROVE ~HasAppeal(e)
    <2>1. e = AfterVote(d, side)
        BY <1>1, <1>8 DEF Vote
    <2>2. e.appeal_stake = d.appeal_stake /\ e.level = d.level
        BY <1>1, <2>1 DEF AfterVote, Dispute
    <2> QED
        BY <1>2, <2>2
<1>9. ASSUME NEW verdict \in BOOLEAN, Resolve(c, verdict) PROVE ~HasAppeal(e)
    <2> DEFINE outcome == IF ProviderWins(d, verdict) THEN "ResolvedProvider" ELSE "ResolvedRequester"
    <2>1. disputes' = [disputes EXCEPT ![c].status = outcome]
        BY <1>9 DEF Resolve
    <2> HIDE DEF outcome
    <2>2. e.appeal_stake = d.appeal_stake /\ e.level = d.level
        BY <1>1, <2>1 DEF Dispute
    <2> QED
        BY <1>2, <2>2
<1>10. CASE Redeliver(c)
    <2> DEFINE count == d.corrections_count + 1
               exhausted == count >= config.max_corrections
               level == IF exhausted THEN "PrivateRounds" ELSE d.level
               deadline == now + (IF exhausted THEN PrivateWindow ELSE DirectWindow)
    <2>1. disputes' = [disputes EXCEPT ![c].corrections_count = count, ![c].level = level,
                                       ![c].status = "Open", ![c].deadline = deadline]
        BY <1>10 DEF Redeliver
    <2>2. level = d.level \/ level # "Appeal"
        OBVIOUS
    <2> HIDE DEF count, exhausted, level, deadline
    <2>3. e.appeal_stake = d.appeal_stake /\ e.level = level
        BY <1>1, <2>1 DEF Dispute
    <2> QED
        BY <1>2, <2>2, <2>3
<1>11. CASE AcceptCorrection(c)
    <2>1. disputes' = [disputes EXCEPT ![c].status = "ResolvedProvider"]
        BY <1>11 DEF AcceptCorrection
    <2>2. e.appeal_stake = d.appeal_stake /\ e.level = d.level
        BY <1>1, <2>1 DEF Dispute
    <2> QED
        BY <1>2, <2>2
<1>12. LifecycleOn(c) => UNCHANGED disputes
    BY DEF LifecycleOn, AcceptProposal, CancelProposal, Deliver, Accept, RejectDelivery, Timeout,
           TimeoutDelivery
<1> QED
    BY <1>3, <1>4, <1>5, <1>6, <1>7, <1>8, <1>9, <1>10, <1>11, <1>12 DEF DisputeOn

(* A settled contract keeps its currency.                                  *)
LEMMA SettlingKeepsCurrency ==
    ASSUME TypeOK, NEW c \in ContractIds, NEW status, status \in SettledStatuses,
           contracts' = [contracts EXCEPT ![c].status = status, ![c].resolved_at = now]
    PROVE  contracts'[c].currency = contracts[c].currency /\ IsSettled(c)'
BY DEF TypeOK, Contract, IsSettled

LEMMA EndsSettle ==
    ASSUME TypeOK, NEW c \in ContractIds,
           \/ CancelProposal(c) \/ Accept(c) \/ Timeout(c) \/ TimeoutDelivery(c)
           \/ AcceptCorrection(c) \/ \E verdict \in BOOLEAN : Resolve(c, verdict)
    PROVE  contracts'[c].currency = contracts[c].currency /\ IsSettled(c)'
<1>1. /\ "Completed" \in SettledStatuses /\ "Cancelled" \in SettledStatuses
      /\ "ResolvedRequester" \in SettledStatuses /\ "ResolvedProvider" \in SettledStatuses
    BY DEF SettledStatuses
<1>2. CASE CancelProposal(c)
    BY <1>1, <1>2, SettlingKeepsCurrency DEF CancelProposal
<1>3. CASE Accept(c)
    BY <1>1, <1>3, SettlingKeepsCurrency DEF Accept
<1>4. CASE Timeout(c)
    BY <1>1, <1>4, SettlingKeepsCurrency DEF Timeout
<1>5. CASE TimeoutDelivery(c)
    BY <1>1, <1>5, SettlingKeepsCurrency DEF TimeoutDelivery
<1>6. CASE AcceptCorrection(c)
    BY <1>1, <1>6, SettlingKeepsCurrency DEF AcceptCorrection
<1>7. ASSUME NEW verdict \in BOOLEAN, Resolve(c, verdict)
      PROVE  contracts'[c].currency = contracts[c].currency /\ IsSettled(c)'
    <2> DEFINE outcome == IF ProviderWins(disputes[c], verdict) THEN "ResolvedProvider"
                          ELSE "ResolvedRequester"
    <2>1. contracts' = [contracts EXCEPT ![c].status = outcome, ![c].resolved_at = now]
        BY <1>7 DEF Resolve
    <2>2. outcome \in SettledStatuses
        BY <1>1
    <2> HIDE DEF outcome
    <2> QED
        BY <2>1, <2>2, SettlingKeepsCurrency
<1> QED
    BY <1>2, <1>3, <1>4, <1>5, <1>6, <1>7

LEMMA OnContractBacked ==
    ASSUME Backing, PromiseInv', NEW c \in ContractIds, Regular(c)',
           LifecycleOn(c) \/ DisputeOn(c)
    PROVE  Backing'
<1>1. TypeOK /\ EscrowInv' /\ Unbooked(c)
    BY DEF Backing, PromiseInv, EscrowInv
<1> DEFINE Ends == \/ CancelProposal(c) \/ Accept(c) \/ Timeout(c) \/ TimeoutDelivery(c)
                   \/ AcceptCorrection(c) \/ \E verdict \in BOOLEAN : Resolve(c, verdict)
<1>2. /\ Credited(c) /\ contracts'[c].currency = contracts[c].currency
      /\ ~IsSettled(c)' => net'[c].insurance = 0
    <2>1. CASE Ends
        <3>1. Credited(c)
            BY <2>1, LifecycleEndCredited, AcceptCorrectionCredited, ResolveCredited DEF Regular
        <3> QED
            BY <1>1, <2>1, <3>1, EndsSettle
    <2>2. CASE ~Ends
        <3>1. Quiet(c)
            BY <2>2, LifecycleQuiet, DisputeIsQuiet DEF LifecycleOn, DisputeOn
        <3> QED
            BY <1>1, <3>1, QuietIsCredited DEF Quiet
    <2> QED
        BY <2>1, <2>2
<1>3. Unbooked(c)'
    BY <1>1, <1>2, NoSolAppeal DEF Unbooked
<1>4. \A x \in ContractIds \ {c} : /\ net'[x] = net[x] /\ contracts'[x] = contracts[x]
                                   /\ disputes'[x] = disputes[x]
    <2>1. Kept(c)
        BY <1>1, ActionKept DEF Backing
    <2>2. \A x \in ContractIds \ {c} : Aside(x)
        BY <1>1, Elsewhere
    <2> QED
        BY <2>1, <2>2 DEF Kept, Unmoved, Aside
<1> QED
    BY <1>2, <1>3, <1>4, CreditedBacked

LEMMA NewContractBacked ==
    ASSUME Backing, PromiseInv', NEW k, k.status \in {"Active", "Proposed"}, NEW currency,
           NEW stake, NEW deposit, NewContract(k, currency, stake, deposit),
           pool_balance' = pool_balance, disputes' = disputes
    PROVE  Backing'
<1>1. /\ TypeOK /\ contracts \in [ContractIds -> Contract] /\ net \in [ContractIds -> Flow]
      /\ pool_balance \in Nat
    BY DEF Backing, PromiseInv, EscrowInv, TypeOK
<1>2. PICK c \in ContractIds : c = total_contracts
    <2>1. total_contracts \in ContractIds
        BY <1>1, BoundsAssumption DEF TypeOK, NewContract, ContractIds
    <2> QED
        BY <2>1
<1>3. /\ contracts' = [contracts EXCEPT ![c] = k]
      /\ net' = [net EXCEPT ![c].requester = -deposit, ![c].provider = -stake]
    BY <1>2 DEF NewContract
<1>4. net'[c].insurance = net[c].insurance /\ contracts'[c].status = k.status
    BY <1>1, <1>3 DEF Flow
<1>5. \A x \in ContractIds \ {c} : /\ net'[x] = net[x] /\ contracts'[x] = contracts[x]
                                   /\ disputes'[x] = disputes[x]
    BY <1>1, <1>3
<1>6. contracts[c].status = "None" /\ ~HasAppeal(disputes[c])
    <2>1. BlankExactly /\ Consistent(c)
        BY DEF Backing, PromiseInv, EscrowInv
    <2>2. c >= total_contracts
        BY <1>1, <1>2 DEF TypeOK
    <2> QED
        BY <2>1, <2>2 DEF BlankExactly, Consistent
<1>7. net[c].insurance = 0
    BY <1>6 DEF Backing, Unbooked, IsSettled, SettledStatuses
<1>8. /\ LossPaid(c) = 0 /\ LossPaid(c)' = 0 /\ CreditedUnpaid(c) = 0 /\ CreditedUnpaid(c)' = 0
    BY <1>4, <1>6, <1>7 DEF LossPaid, CreditedUnpaid
<1>9. Credited(c)
    <2>1. pool_balance' - pool_balance = 0 /\ 0 - 0 = 0 /\ 0 + 0 = 0
        BY <1>1
    <2> QED
        BY <1>8, <2>1 DEF Credited
<1>10. Unbooked(c)'
    BY <1>4, <1>6, <1>7 DEF Unbooked
<1> QED
    BY <1>5, <1>9, <1>10, CreditedBacked

LEMMA NewContractsBacked ==
    ASSUME Backing, PromiseInv',
           \/ \E r \in Requesters, p \in Providers, v \in Values, i \in EscrowInputs,
                 cur \in CreateCurrencies : Create(r, p, v, i, cur)
           \/ \E r \in Requesters, p \in Providers, v \in Values, x \in Expiries,
                 cur \in ProposeCurrencies, i \in EscrowInputs : Propose(r, p, v, x, cur, i)
    PROVE  Backing'
<1>1. \A r, p, v, i, cur : "status" \in DOMAIN Terms(r, p, v, i, cur)
    BY DEF Terms, NoContract
<1>2. ASSUME NEW r \in Requesters, NEW p \in Providers, NEW v \in Values,
             NEW i \in EscrowInputs, NEW cur \in CreateCurrencies, Create(r, p, v, i, cur)
      PROVE  Backing'
    <2> DEFINE terms == Terms(r, p, v, i, cur)
               stake == StakeRequired(v, agents[p].trust_score)
               k == [terms EXCEPT !.status = "Active", !.provider_stake = stake]
    <2>1. /\ NewContract(k, "Sworn", stake, EscrowDeposit(k))
          /\ pool_balance' = pool_balance /\ disputes' = disputes
        BY <1>2 DEF Create
    <2>2. "status" \in DOMAIN terms
        BY <1>1
    <2> HIDE DEF terms, stake
    <2>3. k.status = "Active"
        BY <2>2
    <2> HIDE DEF k
    <2> QED
        BY <2>1, <2>3, NewContractBacked
<1>3. ASSUME NEW r \in Requesters, NEW p \in Providers, NEW v \in Values, NEW x \in Expiries,
             NEW cur \in ProposeCurrencies, NEW i \in EscrowInputs, Propose(r, p, v, x, cur, i)
      PROVE  Backing'
    <2> DEFINE terms == Terms(r, p, v, i, cur)
               stake == StakeRequired(v, agents[p].trust_score)
               expires == IF x > 0 THEN now + x ELSE 0
               k == [terms EXCEPT !.status = "Proposed", !.provider_stake_required = stake,
                                  !.proposal_expires_at = expires]
    <2>1. /\ NewContract(k, cur, 0, EscrowDeposit(k))
          /\ pool_balance' = pool_balance /\ disputes' = disputes
        BY <1>3 DEF Propose
    <2>2. "status" \in DOMAIN terms
        BY <1>1
    <2> HIDE DEF terms, stake, expires
    <2>3. k.status = "Proposed"
        BY <2>2
    <2> HIDE DEF k
    <2> QED
        BY <2>1, <2>3, NewContractBacked
<1> QED
    BY <1>2, <1>3

LEMMA NextBacked ==
    ASSUME FeesBounded, PoolInv, [Next]_vars
    PROVE  PoolInv'
<1>1. PromiseInv'
    BY NextPromise, StutterPromise DEF PoolInv
<1> SUFFICES ASSUME AllRegular' PROVE Backing'
    BY <1>1 DEF PoolInv
<1> Backing
    BY RegularBackward DEF PoolInv, AllRegular
<1>2. CASE \/ \E r \in Requesters, p \in Providers, v \in Values, i \in EscrowInputs,
                 cur \in CreateCurrencies : Create(r, p, v, i, cur)
           \/ \E r \in Requesters, p \in Providers, v \in Values, x \in Expiries,
                 cur \in ProposeCurrencies, i \in EscrowInputs : Propose(r, p, v, x, cur, i)
    BY <1>1, <1>2, NewContractsBacked
<1>3. CASE \E c \in ContractIds : LifecycleOn(c) \/ DisputeOn(c)
    BY <1>1, <1>3, OnContractBacked DEF AllRegular
<1>4. CASE IdentityNext \/ Tick \/ (\E settings \in Configs : UpdateConfig(settings))
           \/ UNCHANGED vars
    <2>1. UNCHANGED <<contracts, disputes, net, pool_balance>>
        BY <1>4 DEF IdentityNext, IdentityOn, CalculateTrustScore, Hibernate, Wake,
            ExpireHibernation, ForceMature, ChangeAgent, Tick, UpdateConfig, vars
    <2>2. PaidSum' = PaidSum /\ AheadSum' = AheadSum
        BY <2>1 DEF PaidSum, AheadSum, LossPaid, CreditedUnpaid
    <2>3. \A c \in ContractIds : Unbooked(c)'
        BY <2>1 DEF Backing, Unbooked, IsSettled
    <2> QED
        BY <1>1, <2>1, <2>2, <2>3 DEF Backing
<1>5. ASSUME NEW c \in ContractIds, NEW currency \in Currencies, NEW amount \in Gifts,
             Gift(c, currency, amount)
      PROVE  FALSE
    BY <1>5 DEF Gift, AllRegular, Regular
<1> QED
    BY <1>2, <1>3, <1>4, <1>5 DEF Next, LifecycleNext, DisputeNext

LEMMA InitBacked == ASSUME Init PROVE PoolInv
<1>1. PromiseInv
    BY InitPromise
<1>2. \A c \in ContractIds : contracts[c] = NoContract /\ net[c] = NoPayment /\ disputes[c] = NoDispute
    BY DEF Init
<1>3. \A c \in ContractIds : Unbooked(c) /\ LossPaid(c) = 0 /\ CreditedUnpaid(c) = 0
    BY <1>2 DEF Unbooked, HasAppeal, NoContract, NoPayment, NoDispute, LossPaid, CreditedUnpaid
<1>4. PaidSum = 0 /\ AheadSum = 0
    BY <1>3, IdsFiniteSet, SumZero DEF PaidSum, AheadSum
<1>5. pool_balance = 0 /\ 0 <= 0 /\ 0 <= 0 + 0
    BY DEF Init
<1> QED
    BY <1>1, <1>3, <1>4, <1>5 DEF PoolInv, Backing

(* The pool's books show to the unit what lost stakes and appeals paid into
   its vault: timeout_contract and resolve_dispute credit it with the shares
   they transfer, whatever stakes, rates and appeals are, while all contracts
   are regular.  In SOL, where they transfer none, the books are ahead by no
   more than those shares.                                                 *)
THEOREM PoolBacked ==
    ASSUME FeesBounded
    PROVE  Spec => []PoolIsBacked
<1>1. Init => PoolInv
    BY InitBacked
<1>2. PoolInv /\ [Next]_vars => PoolInv'
    BY NextBacked
<1>3. PoolInv => PoolIsBacked
    BY PaidSumIsSum, AheadSumIsSum DEF PoolInv, AllRegular, Backing, PoolIsBacked
<1> QED
    BY <1>1, <1>2, <1>3, PTL DEF Spec
=============================================================================
