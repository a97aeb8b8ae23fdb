SPECIFICATION Spec
CONSTANTS
    Plaintexts <- AllLengths
    Keys <- KeyPairs
    ScalarField = 5
    RoundConstant <- RoundConstants
INVARIANT TypeOK
INVARIANT ShortTrip
INVARIANT CircuitAgrees
INVARIANT LongEnough
CHECK_DEADLOCK FALSE
