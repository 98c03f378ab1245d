\* Three requests over a ring of two; replies shorter and longer than
\* their header, a receive buffer that has to grow.
SPECIFICATION MrqSpec
CONSTANTS
    RingSize = 2
    MaxAsked = 3
    ReplySizes = {1, 6}
    RBufSize = 6
INVARIANTS
    RepliesHandedOver
PROPERTIES
    ReceivedFits
\* Nothing need happen once the connection is lost.
CHECK_DEADLOCK FALSE
