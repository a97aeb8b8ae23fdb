SPECIFICATION FairSpec
CONSTANT N = 3
INVARIANT TypeOK
INVARIANT SecretOfAll
INVARIANT SecretNeedsAll
PROPERTY TimelyHandshake
CHECK_DEADLOCK FALSE
