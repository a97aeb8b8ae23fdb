SPECIFICATION Spec
CONSTANT N = 4
CONSTRAINT InTurn
INVARIANT SecretsAgree
CHECK_DEADLOCK FALSE
