SPECIFICATION Spec
CONSTANTS
    r1 = r1
    u1 = u1
    p1 = p1
    j1 = j1
    j2 = j2
    j3 = j3
    j4 = j4
    NoAgent = NoAgent
    Agents <- MCAgents
    Registered <- MCAgents
    Requesters <- MCRequesters
    Providers <- MCProviders
    Jurors <- MCJurors
    Newcomers = {}
    MaxContracts = 1
    MaxTime = 4
    MaxVerdicts = 2
    MaxEscrow = 0
    Values <- MCValues
    EscrowInputs = {5000}
    Expiries = {0}
    CreateCurrencies = {"Sworn"}
    ProposeCurrencies = {}
    Scores <- MCScores
    HibernationTimes = {}
    Configs <- SteadyConfig
    Routes <- MCRoutes
    Gifts = {}
    StakeFactor <- MCStakeFactor
    BurnRateBps = 1500
    InsuranceRateBps = 6000
    JurySize <- MCJurySize
    AppealJurySize = 5
    JurorMinScore = 70
    DirectWindow = 2
    PrivateWindow = 1
    JuryWindow = 2
    AppealWindow = 3
SYMMETRY Symmetry
CHECK_DEADLOCK FALSE
INVARIANTS
    TallyMatchesVotes
    EscrowMatchesRecords
    WinnerIsMadeWhole
PROPERTIES
    VerdictFollowsVotes
    PromiseKept
    SettledIsFinal
