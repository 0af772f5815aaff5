SPECIFICATION Spec
CONSTANTS
    r1 = r1
    p1 = p1
    j1 = j1
    j2 = j2
    j3 = j3
    NoAgent = NoAgent
    Agents <- PartiesAndJurors
    Registered <- PartiesAndJurors
    Requesters = {r1}
    Providers = {p1}
    Jurors = {}
    Newcomers = {}
    MaxContracts = 1
    MaxTime = 4
    MaxVerdicts = 9
    MaxEscrow = 0
    Values <- MCValues
    EscrowInputs = {5000}
    Expiries = {0}
    CreateCurrencies = {"Sworn"}
    ProposeCurrencies = {"Sworn"}
    Scores <- MCScores
    HibernationTimes = {}
    Configs <- Limit2
    Routes <- UncheckedInsurance
    Gifts = {}
    StakeFactor <- MCStakeFactor
    BurnRateBps = 1500
    InsuranceRateBps = 6000
    JurySize <- MCJurySize
    AppealJurySize = 5
    JurorMinScore = 70
    DirectWindow = 2
    PrivateWindow = 1
    JuryWindow = 2
    AppealWindow = 3
CHECK_DEADLOCK FALSE
INVARIANT
    SettlementsReachPayees
