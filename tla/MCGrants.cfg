SPECIFICATION Spec
CONSTANTS
    Null = Null
    CaseOf <- MCCaseOf
    CandidateOf <- MCCandidateOf
    Content = {"severe", "mild"}
    Candidate = {"bounded", "unsafe"}
    Registry <- LateStages
    State = {"nominal", "degraded"}
    Nonce = {"n1"}
    Assertion <- TrustingOnly
    RequiredEvidence <- Required
    AuthorizedObjective <- Objectives
    ConstraintReport <- Reports
    RehearsalOutcome <- Outcomes
    VerificationOutcome <- Outcomes
    MaxChanges = 2
    MaxTime = 2
    MaxLifetime = 2
    MaxAdmissions = 2
INVARIANTS TypeOK GrantsAreExact AdmissionsWereApproved SealInv
PROPERTY ImplementsAuthorization
CHECK_DEADLOCK FALSE
