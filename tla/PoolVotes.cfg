\* Three attestors, two committees, thresholds 1 and 2, a height after genesis.
SPECIFICATION Spec
CONSTANTS
    None = None
    a1 = a1
    a2 = a2
    a3 = a3
    d1 = d1
    d2 = d2
    Attestors <- MCTrio
    Heights <- MCTwoHeights
    Digests <- MCDigests
    StartHeight = 1
    Targets = {1, 2}
    Windows = {1}
    Committees <- MCGrow
INVARIANTS OneVotePerHeight IndexExact NoMissedWake
PROPERTIES DeliveredQuorumIsCurrent DeferKeepsNewVotes ReadyQuorumSeen
CHECK_DEADLOCK FALSE
