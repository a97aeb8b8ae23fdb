SPECIFICATION Spec
CONSTANTS
    Graph <- T7
    FieldPrime = 17
    Numbers <- Nibbles
    Moves <- LastMove
    MaxChanges = 0
    VariableValues = {0}
    MessageValues = {0}
    BalanceValues = {0, 1, 16}
    Amounts = {0, 1}
    Randomness = {0, 1}
    Upstream = {}
    Client = {c1, c2}
    TxValues = {0, 1}
    Ether = 1
SYMMETRY Clients
INVARIANT TypeOK
INVARIANT AccountsMatch
