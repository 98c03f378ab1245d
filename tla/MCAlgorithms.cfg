\* Bounds: all paths and queries of up to five pieces behind the first "/",
\* so that a route, both kinds of escape and two arguments fit; the other
\* inputs are as long as it takes for three things to interact.
CONSTANTS
    Pieces <- MCPieces
    MaxPieces <- MCMaxPieces
    Routes <- MCRoutes
    NumDigits = 3
    LongMax = 10
    Lasts = {0, 31}
    WordSize = 4096
    KeyLength = 8
    MaxCut = 12
    MaxDepth = 3
    Block = 3
SPECIFICATION InputSpec
CHECK_DEADLOCK FALSE
INVARIANTS
    TextRight
    HeadersRight
    SessionKeyRight
    RepliesRight
    FormRight
    UnpackRight
    SendsFit
