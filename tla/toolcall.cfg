SPECIFICATION FairToolSpec
CONSTANTS
    Threads = {a, b}
    NoThread = NoThread
    MaxToolCalls = 2
    MaxDepth = 3
INVARIANTS ToolTypeOK CancelledIsInert QuietAfterDestroy
CHECK_DEADLOCK FALSE
PROPERTY CallsReturn
