SPECIFICATION Spec
CONSTANTS
    Null = Null
    CaseOf <- MCCaseOf
    CandidateOf <- MCCandidateOf
    Content = {"severe"}
    Candidate = {"bounded"}
    Registry <- LateStages
    State = {"nominal", "degraded"}
    Nonce = {"n1"}
    Assertion <- TrustingOnly
    RequiredEvidence <- Required
    AuthorizedObjective <- Objectives
    ConstraintReport <- Reports
    RehearsalOutcome <- Outcomes
    VerificationOutcome <- Outcomes
    MaxChanges = 0
    MaxTime = 1
    MaxLifetime = 1
    MaxAdmissions = 2
INVARIANT EachApprovalIsUsedOnce
CHECK_DEADLOCK FALSE
