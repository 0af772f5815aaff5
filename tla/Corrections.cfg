SPECIFICATION Spec
CONSTANTS
    r1 = r1
    u1 = u1
    p1 = p1
    j1 = j1
    j2 = j2
    j3 = j3
    j4 = j4
    NoAgent = NoAgent
    Agents <- WithUnregistered
    Registered <- MCParties
    Requesters <- AllRequesters
    Providers <- MCProviders
    Jurors = {}
    Newcomers = {}
    MaxContracts = 1
    MaxTime = 3
    MaxVerdicts = 2
    MaxEscrow = 1000
    Values <- MCValues
    EscrowInputs = {0, 5000}
    Expiries = {0, 1}
    CreateCurrencies = {"Sworn", "Sol"}
    ProposeCurrencies = {"Sworn", "Sol"}
    Scores <- MCScores
    HibernationTimes = {}
    Configs <- ChangingConfig
    Routes <- MCRoutes
    Gifts = {500}
    StakeFactor <- MCStakeFactor
    BurnRateBps = 1500
    InsuranceRateBps = 6000
    JurySize <- MCJurySize
    AppealJurySize = 5
    JurorMinScore = 70
    DirectWindow = 2
    PrivateWindow = 1
    JuryWindow = 2
    AppealWindow = 3
CHECK_DEADLOCK FALSE
INVARIANTS
    TypeOK
    
    PoolIsBacked
PROPERTIES
    LevelsClimb
    PromiseKept
    DeliveredNeverAbandoned
