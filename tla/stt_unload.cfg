SPECIFICATION SttSpec
CONSTANTS
    Threads = {a, b, c}
    Sessions = {s1}
    Feeders = {a}
    Enders = {b}
    Loaders = {c}
    Owners = {}
    NoThread = NoThread
    NoSession = NoSession
    NoStream = NoStream
    MaxChunks = 1
    MaxTeardowns = 1
INVARIANT TeardownDrains
CHECK_DEADLOCK FALSE
