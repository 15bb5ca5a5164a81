\* Elections into a committee of up to four under changing limits and policies.
SPECIFICATION Spec
CONSTANTS
    None = None
    Chains = {1}
    Stashes = {s1}
    Controllers = {1, 2, 3, 4}
    Keys = {k1, k2, k3, k4}
    MaxEra = 1
    BondingDuration = 1
    MaxUnlockingChunks = 2
    MaxRetired = 4
    CleanupBudget = 1
    MaxAttestationNodes = 4
    AttestorLimits = {3, 4}
    MinBonds = {}
    DefaultMinBond = 1
    ExistentialDeposit = 0
    Funding = 0
    Endowment = 4
    Policies = {"AuthorizedOnly", "DeniedToAll"}
    InvulnerableIds = {}
    AuthorizedIds = {1}
    Removable = {}
    Amounts = {}
SYMMETRY Symmetry
INVARIANTS
    CommitteeCanCommit
    QuorumsOverlap
    RosterWithinLimit
