\* Four requests cut at any place.
SPECIFICATION Spec
CONSTANTS
    Requests <- MixedRequests
    Block = 2
    InitialSize = 6
    MaxSize = 30
INVARIANTS
    HandledRight
    NothingForgotten
    BufferFits
\* The requests end the behaviour.
CHECK_DEADLOCK FALSE
