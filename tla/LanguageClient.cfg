SPECIFICATION FairSpec
CONSTANTS
    Paths = {"a", "b"}
    Texts <- MCTexts
    Normal <- MCNormal
    NewText = "one"
    Orders <- MCOrders
    UriOrder <- MCUriOrder
    Examples <- MCExamples
    MaxGestures = 2
    None = None
INVARIANTS
    MirrorsAgree
    RenameKeepsEdits
PROPERTY
    ClientSettles
CHECK_DEADLOCK FALSE
