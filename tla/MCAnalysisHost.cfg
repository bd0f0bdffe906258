SPECIFICATION Spec
CONSTANTS
    Paths <- MCPaths
    ExtNames <- MCExtNames
    Contents <- MCContents
    Refs <- MCRefs
    Namespaces <- MCNamespaces
    NoContent = NoContent
    NoFile = NoFile
    NoPath = NoPath
    NoAnswer = NoAnswer
    MaxGenerations = 2
    MaxBatch = 2
INVARIANTS
    SnapshotsCurrent
    FilesAreExact
PROPERTIES
    IdentityIsStable
    ImplementsVirtualTree
