SPECIFICATION Spec
CONSTANTS
    Graph <- T8
    FieldPrime = 65537
    Numbers <- Nibbles
    Moves <- FirstPass
    MaxChanges = 4
    VariableValues = {0}
    MessageValues = {0}
    BalanceValues = {0}
    Amounts = {0}
    Randomness = {0, 1}
    Upstream <- Lanes
INVARIANT NoTaskStuck
