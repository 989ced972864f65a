\* What the README draws for a failing configuration.
SPECIFICATION Spec
CONSTANTS
    NFiles = 1
    MaxRuns = 1
PROPERTIES FailureExitsNotify
\* The bound MaxRuns ends the sequence of runs.
CHECK_DEADLOCK FALSE
