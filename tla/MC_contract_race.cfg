SPECIFICATION FairSpec
CONSTANTS
    Graph <- T9
    FieldPrime = 257
    Numbers <- Nibbles
    Moves <- HandOver
    MaxChanges = 2
    VariableValues = {0}
    MessageValues = {0}
    BalanceValues = {0}
    Amounts = {0}
    Randomness = {0, 1, 2}
    Upstream <- T9Lane
    Client = {c1, c2}
    TxValues = {0}
    Ether = 2
PROPERTY OneExecution
PROPERTY SomeoneWins
