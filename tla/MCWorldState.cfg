SPECIFICATION Spec
CONSTANTS
    Uris <- MCUris
    ClientUris <- MCUris
    Folders <- MCFolders
    UriRank <- MCRank
    Texts = {"one", "two"}
    PragmaTexts = {"one", "two"}
    ListedTexts = {"one"}
    MaxVirtual = 1
    None = None
INVARIANT
    WorldIsConsistent
PROPERTIES
    BuffersAreTheClients
    PathsAreStable
