SPECIFICATION Spec
CONSTANTS
    Rows = {r1, r2}
    MaxRows = 1
    MaxLives = 3

    
PROPERTIES
    OnlyDoubtedSnapshotsAreLost
    ImplementsCheckpointStore
