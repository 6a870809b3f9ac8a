\* An extract of another server, three records in one window: a way's node leaves
\* the rectangle, the way lets go of it, and it comes back.
SPECIFICATION PartSpec
CONSTANTS
    mover = mover
    far = far
    w1 = w1
    r1 = r1
    Nodes = {mover, far}
    Ways = {w1}
    Relations = {}
    Shapes <- MovedShapes
    Movers = {mover}
    Retagged = {}
    Deletable = {}
    MaxVersion <- SmallVersions
    Start <- MovedStart
    Extracts = {1}
    Initial <- MovedInitial
    Commands = {cmd1}
    Pages = {}
    ByRecords = {1}
    OldRows = 0
    Window = 3
    PageRows = 3
    MaxRows <- MovedRows
    MaxUnusual = 0
    None = None
    Uploads = {}
    Readers = {}
    Steps = {1, 2}
    Fan = 2
    Offset = 3
    Epoch = 2
    MaximumSeconds = 2
    MaxTime = 10
    MaxBlocks = 2
    MaxAnswers = 1
    Nobody = Nobody
INVARIANT FilterLeavesNothingOut
CHECK_DEADLOCK FALSE
