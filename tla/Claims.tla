------------------------------- MODULE Claims -------------------------------
(***************************************************************************)
(* What comments and messages of the program say of it, and the program    *)
(* does not do.  Each claim is refuted by one run.                         *)
(***************************************************************************)
EXTENDS TrustProtocol

(* A provider whose delivery was rejected can deliver again: deliver_contract
   allows the status CorrectionRequested.                                  *)
RejectedCanBeRedelivered ==
    \A c \in ContractIds : contracts[c].status = "CorrectionRequested" => ENABLED Deliver(c)

(* An appeal its jury has decided can be resolved, which returns the stake
   or confiscates it.                                                      *)
DecidedAppealIsSettled ==
    \A c \in ContractIds :
        HasAppeal(disputes[c]) /\ disputes[c].status = "JuryDecided" =>
            \E verdict \in BOOLEAN : ENABLED Resolve(c, verdict)

(* The destination of each settlement is validated: what is not in escrow
   any more was paid to one of the parties, the treasury or the insurance
   pool, or burned.                                                        *)
SettlementsReachPayees ==
    \A c \in ContractIds :
        LET flow == net[c]
        IN  Held(c) + flow.requester + flow.provider
                + flow.treasury + flow.insurance + flow.burn = 0
=============================================================================
