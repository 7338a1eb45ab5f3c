SPECIFICATION Spec
CONSTANTS
    Null = Null
    CaseOf <- MCCaseOf
    CandidateOf <- MCCandidateOf
    Content = {"severe", "mild"}
    Candidate = {"bounded", "other"}
    Registry <- LateStages
    State = {"nominal", "degraded"}
    Nonce = {}
    Assertion <- AnyAssertion
    RequiredEvidence <- Required
    AuthorizedObjective <- Objectives
    ConstraintReport <- Reports
    RehearsalOutcome <- Outcomes
    VerificationOutcome <- Outcomes
    MaxChanges = 2
    MaxTime = 0
    MaxLifetime = 0
    MaxAdmissions = 0
INVARIANTS PermitsOnlyTheJustified WeakerEvidenceNeverHelps EnvelopeInv
CHECK_DEADLOCK FALSE
