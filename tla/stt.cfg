SPECIFICATION FairSttSpec
CONSTANTS
    Threads = {a, b, c}
    Sessions = {s1}
    Feeders = {a, b}
    Enders = {b, c}
    Loaders = {c}
    Owners = {b}
    NoThread = NoThread
    NoSession = NoSession
    NoStream = NoStream
    MaxChunks = 2
    MaxTeardowns = 1
INVARIANTS SttTypeOK OneKeeper Silent NoSessionInTeardown
CHECK_DEADLOCK FALSE
PROPERTY EndsReturn
