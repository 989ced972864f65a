\* Bytes of three bits; packets of 7; buffers of 3 to 6.
SPECIFICATION Spec
CONSTANTS
    ByteBits = 3
    LenBytes = 1
    MaxAllowed = 16
    MinLong = 3
    DefaultBufSize = 3
    MaxCachedBufSize = 6
    Statements <- MCStatements
    MaxExecutions = 2
INVARIANTS ParametersArrive RowsIntact NoFalseAlarm MisnumberedRefused
           NoMutualWait
\* The bound MaxExecutions ends the sequence of calls.
CHECK_DEADLOCK FALSE
