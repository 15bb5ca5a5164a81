\* Removal of chains with a cleanup budget smaller than the roster.
SPECIFICATION FairSpec
CONSTANTS
    None = None
    Chains = {1, 2}
    Stashes = {s1}
    Controllers = {1, 2}
    Keys = {k1}
    MaxEra = 0
    BondingDuration = 1
    MaxUnlockingChunks = 2
    MaxRetired = 2
    CleanupBudget = 1
    MaxAttestationNodes = 2
    AttestorLimits = {}
    MinBonds = {}
    DefaultMinBond = 1
    ExistentialDeposit = 0
    Funding = 1
    Endowment = 4
    Policies = {}
    InvulnerableIds = {1}
    AuthorizedIds = {}
    Removable = {1, 2}
    Amounts = {2}
INVARIANTS
    RemovedChainQuiet
    StakeBacked
PROPERTIES
    RemovalDrains
    LeavingEnds
