SPECIFICATION Spec
CONSTANTS
    Graph <- TwoLanes
    FieldPrime = 16777259
    Numbers <- Nibbles
    Moves <- Failing
    MaxChanges = 3
    VariableValues = {0}
    MessageValues = {0, 1}
    BalanceValues = {0}
    Amounts = {0}
    Randomness = {0, 1}
    Upstream <- Lanes
INVARIANT NoTokenForged
INVARIANT NoTokenLost
INVARIANT NoTaskStuck
