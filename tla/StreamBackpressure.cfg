\* A last attestation that is not on the schedule of the interval.
SPECIFICATION Spec
CONSTANTS
    None = None
    MaxHeight = 7
    Intervals = {2}
    Catchups = {4}
    Boots = {1}
    MaxRebuilds = 0
INVARIANT BackpressureHasCause
