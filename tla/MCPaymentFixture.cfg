SPECIFICATION Spec
CONSTANTS
    None = None
    Total = 5
    IncidentSuccess = 1
    RecoverySuccess = 3
    BaselineSuccess = 4
    Country = {"US"}
    Network = {"visa", "amex"}
    Amount = {4999, 9000}
    Evidence <- MCEvidence
    MaxGenerations = 2
    MaxAlterations = 2
    MaxStops = 1
INVARIANTS TypeOK GeneratedFixturesAreValid ImportedRoutesAreExact PassedImportsAreComplete EventsHaveTheirCase
PROPERTIES RerunsConverge
CHECK_DEADLOCK FALSE
