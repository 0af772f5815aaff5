----------------------------- MODULE MCIdentity -----------------------------
(***************************************************************************)
(* One agent that works and one that only registers.  The tasks that make  *)
(* an agent mature and end a cooldown are 2 instead of 5, the score of a   *)
(* sponsor 10 instead of 50, so that a few contracts reach them.           *)
(*                                                                         *)
(* The work of a registered agent and the administration of bonds share    *)
(* nothing but the registration: their steps commute, and all orders are   *)
(* covered by those in which the one moves and the other rests.            *)
(***************************************************************************)
EXTENDS Identity

MCBondLimits == {<<2, 5>>, <<3, 4>>}
MCReworks ==
    {[redeliveries |-> 0, corrections |-> 0, rounds |-> 0],
     [redeliveries |-> 1, corrections |-> 1, rounds |-> 1]}

(* An agent that has done nothing, but that a claim may have been approved
   against, which is also a step of the work.                              *)
WorkRests ==
    \A a \in Agents :
        LET k == agents[a]
        IN  k \in {Unregistered, [NewIdentity(k.identity_bond, k.registered_at)
                                      EXCEPT !.fraud_flags = k.fraud_flags]}

BondsRest ==
    /\ limits = <<2, 5>> /\ ~Exists(2) /\ Exists(1) /\ sworn_mint = FirstMint
    /\ claimed = 0 /\ received = 0

Next ==
    \/ BondsRest /\ \E a \in Workers : AgentNext(a) \/ WorkNext(a)
    \/ WorkRests /\ (AdminNext \/ RegisterNext \/ VaultNext)
    \/ TimeNext

Spec == IdentityInit /\ [][Next]_identity
=============================================================================
