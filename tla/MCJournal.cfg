SPECIFICATION Spec
CONSTANTS
    None = None
    e1 = e1
    e2 = e2
    r1 = r1
    r2 = r2
    e3 = e3
    EventId = {e1, e2, e3}
    CaseId = {"case"}
    RunId = {r1, r2}
    EventType = {"event"}
    Payload = {"payload"}
    MaxChainEvents = 3
    MaxSigned = 3
    MaxAlterations = 2
INVARIANTS TypeOK ValidChainsAreHistories AnchoredChainsAreComplete IntactHistoriesVerify CheckedEventsAreHistories
SYMMETRY JournalSymmetry
CHECK_DEADLOCK FALSE
