SPECIFICATION Spec
CONSTANTS
    Null = Null
    CaseOf <- PrimaryCases
    CandidateOf <- PrimaryCandidates
    Content = {"payment_failover_001"}
    Candidate = {"bounded", "unsafe"}
    Registry <- Stages
    State = {"incident"}
    Nonce = {"n1"}
    Assertion <- PrimaryAssertion
    RequiredEvidence <- PrimaryRequired
    AuthorizedObjective <- PrimaryObjectives
    ConstraintReport <- PrimaryReports
    RehearsalOutcome <- PrimaryOutcomes
    VerificationOutcome <- PrimaryOutcomes
    MaxChanges = 1
    MaxTime = 1
    MaxLifetime = 1
    MaxAdmissions = 1
INVARIANT BoundedCandidateIsNotBlocked
CHECK_DEADLOCK FALSE
