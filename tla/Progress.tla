------------------------------ MODULE Progress ------------------------------
(***************************************************************************)
(* What the permissionless instructions guarantee.  Nobody is obliged to   *)
(* call anything; but timeout_contract, timeout_delivery and the           *)
(* settlement of a jury's verdict are open to every wallet, and one party  *)
(* is paid by them.  They are assumed to be called if they stay possible,  *)
(* and the clock to advance.  Nothing is assumed of any other instruction. *)
(***************************************************************************)
EXTENDS TrustProtocol

SettleVerdict(c) == JuryLevel(disputes[c]) /\ \E verdict \in BOOLEAN : Resolve(c, verdict)

FairSpec ==
    /\ Spec
    /\ WF_vars(Tick)
    /\ \A c \in ContractIds : /\ WF_vars(Timeout(c))
                              /\ WF_vars(TimeoutDelivery(c))
                              /\ WF_vars(SettleVerdict(c))

(* A contract nobody delivers does not stay active past its deadline.      *)
AbandonedContractEnds ==
    \A c \in ContractIds :
        (contracts[c].status = "Active" /\ contracts[c].created_at + DeadlineOf(contracts[c]) < MaxTime)
            ~> contracts[c].status # "Active"

(* A delivery nobody answers does not wait past its deadline, if its
   requester is registered.                                                *)
IgnoredDeliveryEnds ==
    \A c \in ContractIds :
        (/\ contracts[c].status = "Delivered"
         /\ poe[c].submitted_at + DeadlineOf(contracts[c]) < MaxTime
         /\ contracts[c].requester \in Registered)
            ~> contracts[c].status # "Delivered"

(* A contract on which a jury reached its majority is settled.             *)
DecidedContractSettles ==
    \A c \in ContractIds :
        (IsLive(c) /\ disputes[c].status = "JuryDecided" /\ contracts[c].requester \in Registered)
            ~> IsSettled(c)
=============================================================================
