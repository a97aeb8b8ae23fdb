SPECIFICATION FairSpec
CONSTANTS
    Variables = {"x", "y"}
    Messages = {"m"}
    Balances = {"p"}
    Maps <- NamedValues
    Steps <- TaskSteps
    Salts = {1, 2, 3}
    MaxPending = 2
INVARIANT StoredOpens
INVARIANT TasksReadBack
PROPERTY NoReplay
PROPERTY StepTaken
