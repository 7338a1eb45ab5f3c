SPECIFICATION AuditSpec
CONSTANTS
    None = None
    r1 = r1
    Run = {r1}
    Candidate = {"world100", "us40", "us60", "eu10"}
    Region <- MCRegion
    TrafficPct <- MCTraffic
    FirstProposals = {"world100"}
    BoundedProposals = {"world100", "us40", "us60", "eu10"}
    UsEligiblePct = 40
    Overlapping = TRUE
    MaxFaults = 2
    TamperedNumbers = {2, 3}
    MaxTampered = 1
INVARIANTS TypeOK CommitsOnlyWhatWasApproved ReportsAccountForEveryEvent IntactReplaysAreTrue TamperingIsReported ExplanationsNameTheJudged
PROPERTIES EveryRunFinishes ImplementsGovernance
CHECK_DEADLOCK FALSE
