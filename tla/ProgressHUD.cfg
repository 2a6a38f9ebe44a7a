SPECIFICATION Spec
CONSTANTS
    ring = ring
    pie = pie
    ShowModes = {"fade", "cut"}
    Indicators = {ring, pie}
    MaxTimers = 1
    MaxBlocks = 1
INVARIANTS
    TypeOK
    UpCovers
    NoBlockLeft
PROPERTIES
    IsAFlag
    ShownIfWanted
