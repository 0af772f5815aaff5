SPECIFICATION Spec
CONSTANTS
    Agents = {a1, a2}
    Workers = {a1}
    OldAgents = {a1}
    Mints = {m1, m2}
    FirstMint = m1
    BondLimits <- MCBondLimits
    Bonds = {2, 3}
    MaturationPeriods = {1}
    Rates = {0, 1000}
    Currencies = {"Sol"}
    ContractValue = 1000
    Reworks <- MCReworks
    HibernationMonths = {1}
    Holidays = {6}
    MaxTime = 13
    MaxWork = 3
    MaxProposals = 1
    MaxLosses = 1
    MaxFriction = 1
    MaxFlags = 1
    MaxReceived = 3
    Payments = {1, 3}
    MaxBonus = 1
    MaturationTasks = 2
    CooldownTasks = 2
    SponsorMinScore = 10
    LogLimit = 2000000
INVARIANTS
    IdentityTypeOK
    BondsAccounted
    NobodyMaturesAlone
PROPERTIES
    FlaggedNeverRises
    AsleepNoNewWork
CHECK_DEADLOCK FALSE
