SPECIFICATION Spec
CONSTANTS
    Graph <- T1
    FieldPrime = 69623
    Numbers <- TwoNibbles
    Moves <- AnyMove
    MaxChanges = 3
    VariableValues = {0}
    MessageValues = {0}
    BalanceValues = {0}
    Amounts = {0}
    Randomness = {0, 1}
    Upstream <- Lanes
INVARIANT DigitsAreStates
