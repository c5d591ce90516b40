SPECIFICATION LibrarySpec
CONSTANTS
    MaxVersion = 2
    MaxMoves = 1
    MaxTries = 2
    MaxFailures = 2
    MaxFaults = 2
INVARIANTS
    UsableArtifactKept
    NoOrphan
    ServedTextExists
    OldTextsRemoved
    ChangeTracked
PROPERTIES
    MirrorImplemented
CHECK_DEADLOCK FALSE
