SPECIFICATION Spec
CONSTANTS
    Container <- MCContainer
    ScalarOf <- MCScalarOf
    KeyBytes <- MCKeyBytes
    Inputs <- MCInputs
    MaxNestingDepth = 4
    MaxCanonicalNodes = 29
    MaxStringBytes = 5
    MaxTotalStringBytes = 45
INVARIANTS TypeOK AcceptsExactlyTheBounded ResultIsCanonical WorkIsBounded NormalFormsAreValid
CHECK_DEADLOCK FALSE
