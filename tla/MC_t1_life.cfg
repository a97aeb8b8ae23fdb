SPECIFICATION Spec
CONSTANTS
    Graph <- T1
    FieldPrime = 4099
    Numbers <- Nibbles
    Moves <- AnyMove
    MaxChanges = 3
    VariableValues = {0}
    MessageValues = {0}
    BalanceValues = {0}
    Amounts = {0}
    Randomness = {0, 1}
    Upstream <- Lanes
INVARIANT TypeOK
INVARIANT LaneInv
INVARIANT NoTaskStuck
PROPERTY StoppedForGood
