SPECIFICATION Spec
CONSTANTS
    Plaintexts <- Ten
    Keys <- KeyPairs
    ScalarField = 5
    RoundConstant <- RoundConstants
CHECK_DEADLOCK FALSE
INVARIANT RoundTrip
