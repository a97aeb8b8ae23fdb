SPECIFICATION Spec
CONSTANTS
    Graph <- TwoChoices
    FieldPrime = 16777259
    Numbers <- Nibbles
    Moves <- FirstPass
    MaxChanges = 3
    VariableValues = {0, 1}
    MessageValues = {0}
    BalanceValues = {0}
    Amounts = {0}
    Randomness = {0, 1}
    Upstream <- Lanes
INVARIANT NoTokenForged
INVARIANT NoTokenLost
PROPERTY OneTrueBranch
