SPECIFICATION Spec
CONSTANTS
    None = None
    r1 = r1
    Run = {r1}
    Candidate = {"world100", "us40", "us60", "eu10"}
    Region <- MCRegion
    TrafficPct <- MCTraffic
    FirstProposals = {"world100"}
    BoundedProposals = {"us40"}
    UsEligiblePct = 40
    Overlapping = FALSE
    MaxFaults = 1
INVARIANT NoEventIsLost
CHECK_DEADLOCK FALSE
