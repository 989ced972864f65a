\* A Ping and two statements, every way to authenticate, one breakdown.
SPECIFICATION DbFairSpec
CONSTANTS
    MaxStmts = 3
    MaxBreaks = 1
    MaxRows = 1
    MaxPackets = 6
    MaxFailures = 3
    Configs <- MCConfigs
    Accounts <- MCAccounts
    UsualConfig <- MCUsualConfig
    UsualAccount <- MCUsualAccount
    DBConnects <- MCDBConnects
    Zones <- MCZones
    Spans <- MCSpans
    Numerals <- MCNumerals
INVARIANTS SettingsKept OwnAnswers InStep Lockstep RightPasswordConnects
           ClearOnlyWhereAllowed
PROPERTIES ImplementsDbSpec StatementEnds
\* The bounds end the sequence of statements.
CHECK_DEADLOCK FALSE
