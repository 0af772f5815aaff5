SPECIFICATION UnescalatedSpec
CONSTANTS
    r1 = r1
    p1 = p1
    NoAgent = NoAgent
    Agents <- MCAgents
    Registered <- MCAgents
    Requesters = {r1, p1}
    Providers <- MCProviders
    Jurors = {}
    Newcomers = {p1}
    MaxContracts = 2
    MaxTime = 3
    MaxVerdicts = 2
    MaxEscrow = 0
    Values <- MCValues
    EscrowInputs = {0}
    Expiries = {0}
    CreateCurrencies = {"Sworn"}
    ProposeCurrencies = {"Sworn"}
    Scores <- MCScores
    HibernationTimes = {1}
    Configs <- MCConfigs
    Routes <- PayeesOnly
    Gifts = {}
    StakeFactor <- MCStakeFactor
    BurnRateBps = 1500
    InsuranceRateBps = 6000
    JurySize <- MCJurySize
    AppealJurySize = 5
    JurorMinScore = 70
    DirectWindow = 2
    PrivateWindow = 1
    JuryWindow = 2
    AppealWindow = 3
CHECK_DEADLOCK FALSE
INVARIANTS
    ActiveContractsAccurate
    OutcomesCountedOnce
PROPERTIES
    ExposureRespected
