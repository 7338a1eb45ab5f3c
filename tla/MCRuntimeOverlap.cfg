SPECIFICATION Spec
CONSTANTS
    None = None
    r1 = r1
    r2 = r2
    Run = {r1, r2}
    Candidate = {"world100", "us40", "us60", "eu10"}
    Region <- MCRegion
    TrafficPct <- MCTraffic
    FirstProposals = {"world100"}
    BoundedProposals = {"us40", "us60"}
    UsEligiblePct = 40
    Overlapping = TRUE
    MaxFaults = 1
INVARIANT JournalIsTruthful
SYMMETRY RunSymmetry
VIEW JournalView
CHECK_DEADLOCK FALSE
