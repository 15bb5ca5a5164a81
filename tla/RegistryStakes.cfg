\* Keys and bonds of two stashes through registration, rotation, retirement, return.
SPECIFICATION StakesSpec
CONSTANTS
    None = None
    Chains = {1}
    Stashes = {s1, s2}
    Controllers = {1, 2}
    Keys = {k1, k2}
    MaxEra = 2
    BondingDuration = 2
    MaxUnlockingChunks = 2
    MaxRetired = 2
    CleanupBudget = 1
    MaxAttestationNodes = 2
    AttestorLimits = {}
    MinBonds = {0, 1}
    DefaultMinBond = 1
    ExistentialDeposit = 0
    Funding = 0
    Endowment = 3
    Policies = {}
    InvulnerableIds = {}
    AuthorizedIds = {}
    Removable = {}
    Amounts = {}
SYMMETRY Symmetry
INVARIANTS
    TypeOK
    OneKeyOneAttestor
    RetiredIndexExact
    CommitteeExact
    LedgerAccounts
    UnbondingNeverBlocked
    ClosedStashIsDone
PROPERTIES
    KeyKeptThroughUnbonding
    BondHeldUntilMature
