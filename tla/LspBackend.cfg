SPECIFICATION FairSpec
CONSTANTS
    Docs = {a, b}
    Texts = {"one", "two"}
    Concurrency = 3
    OutboxSize = 1
    MaxMessages = 3
    None = None
INVARIANTS
    HandlersAreConsistent
    ServerHasBuffers
    ShownIsCurrent
PROPERTIES
    DiagnosticsNeverGoBack
    ServerSettles
CHECK_DEADLOCK FALSE
