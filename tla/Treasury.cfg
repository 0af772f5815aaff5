SPECIFICATION Spec
CONSTANTS
    Contracts = {c1, c2}
    ContractValue = 100
    Providers = {p1}
    ClaimAmounts = {10, 50}
    Deposits = {60}
    Stakers = {a1, a2}
    StakeAmounts = {1, 99, 100}
    Exposures = {0, 150, 400}
    ReserveRatios = {4000, 8000, 12000}
    Withdrawals = {20, 39, 40}
    RewardCaps = {13, 100}
    MaxTime = 3
    MaxDeposits = 2
    MaxRulings = 2
    ClaimWindow = 1
    MaxClaimPayoutBps = 8000
    PoolCapShare = 1
    BaseWorkReward = 5
    HalvingInterval = 2
    RewardsReserve = 20
SYMMETRY Symmetry
CHECK_DEADLOCK FALSE
INVARIANTS
    TreasuryTypeOK
    BooksMatchVault
    ClaimPaidOnce
    ActiveClaimsCounted
    EmissionFollowsSchedule
    StakeIsSplit
    OpenClaimsCovered
