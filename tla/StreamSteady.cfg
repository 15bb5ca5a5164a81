\* Finality, settings and reversions between the polls of the stream.
SPECIFICATION Spec
CONSTANTS
    None = None
    MaxHeight = 7
    Intervals = {1, 2}
    Catchups = {1, 3, 4}
    Boots = {0, 2}
    MaxRebuilds = 1
INVARIANTS AssertsHold ProofIsAnchored EachHeightOnce
PROPERTY DueEmitted
