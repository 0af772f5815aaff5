--------------------------- MODULE EscrowPromise ---------------------------
(***************************************************************************)
(* What the protocol promises about the money of its contracts, without    *)
(* saying how disputes, juries or deadlines go.  Money enters when a       *)
(* contract is offered and when the provider takes it on; it leaves all at *)
(* once, exactly once, when the contract closes; and only a requester that *)
(* accepts the work pays more than it escrowed.  An appeal is a second,    *)
(* separate deposit: it leaves with the contract or stays where it is.  No *)
(* step touches the money of two contracts.  All this of a contract until  *)
(* it is void: until a payment went to an account its caller chose, which  *)
(* the protocol does not rule out, or its escrow was rounded to nothing.   *)
(***************************************************************************)
EXTENDS Integers

CONSTANT Contracts

VARIABLES
    stage,      \* of each contract: "none", "offered", "working", "closed", "void"
    held,       \* escrowed for the contract
    appeal,     \* escrowed for an appeal that is not decided
    requester,  \* what the requester got out of it, less what it put in
    provider,   \* the same for the provider
    others      \* what treasury, insurance pool and burn got

accounts == <<stage, held, appeal, requester, provider, others>>

Account(c) == <<stage[c], held[c], appeal[c], requester[c], provider[c], others[c]>>

Conserved(c) == held[c] + appeal[c] + requester[c] + provider[c] + others[c] = 0

Becomes(c, next) == stage[c] # next /\ stage'[c] = next

NoAppealMoves(c) == appeal'[c] = appeal[c]

NoFeeIsTaken(c) == others'[c] = others[c]

Init == \A c \in Contracts : Account(c) = <<"none", 0, 0, 0, 0, 0>>

(* The requester's deposit, alone or together with the provider's.         *)
Offer(c) ==
    /\ stage[c] = "none"
    /\ Becomes(c, "offered") \/ Becomes(c, "working")
    /\ requester'[c] <= 0 /\ provider'[c] <= 0
    /\ stage'[c] = "offered" => provider'[c] = 0
    /\ NoAppealMoves(c) /\ NoFeeIsTaken(c)

Hire(c) ==
    /\ stage[c] = "offered"
    /\ Becomes(c, "working")
    /\ requester'[c] = requester[c] /\ provider'[c] <= provider[c]
    /\ NoAppealMoves(c) /\ NoFeeIsTaken(c)

(* A party adds the stake of an appeal, also after the contract is closed. *)
Appeal(c) ==
    /\ stage[c] \in {"working", "closed"}
    /\ stage'[c] = stage[c] /\ held'[c] = held[c]
    /\ appeal[c] = 0 /\ appeal'[c] > 0
    /\ \/ requester'[c] = requester[c] - appeal'[c] /\ provider'[c] = provider[c]
       \/ provider'[c] = provider[c] - appeal'[c] /\ requester'[c] = requester[c]
    /\ NoFeeIsTaken(c)

(* Everything is paid out, and nobody is charged.                          *)
Close(c) ==
    /\ stage[c] \in {"offered", "working"}
    /\ Becomes(c, "closed")
    /\ held'[c] = 0
    /\ appeal'[c] \in {0, appeal[c]}
    /\ requester'[c] >= requester[c] /\ provider'[c] >= provider[c] /\ others'[c] >= others[c]

(* The requester accepts: it tops the payment up, the provider is paid.    *)
Accept(c) ==
    /\ stage[c] = "working"
    /\ Becomes(c, "closed")
    /\ held'[c] = 0
    /\ requester'[c] <= requester[c] /\ provider'[c] >= provider[c] /\ others'[c] >= others[c]
    /\ NoAppealMoves(c)

(* The promise is off: nothing is said of the money any more.              *)
Void(c) == Becomes(c, "void") /\ Account(c)' = <<"void", 0, 0, 0, 0, 0>>

Step(c) == Offer(c) \/ Hire(c) \/ Appeal(c) \/ Close(c) \/ Accept(c) \/ Void(c)

Next ==
    \E c \in Contracts :
        /\ Step(c)
        /\ Conserved(c)'
        /\ \A x \in Contracts \ {c} : Account(x)' = Account(x)

Spec == Init /\ [][Next]_accounts
=============================================================================
