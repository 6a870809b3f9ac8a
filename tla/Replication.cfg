\* An upload and a reader of diffs, in steps of one and two seconds with catalogs
\* of two entries, so that pages, entries and catalogs all end; or two extracts, two runs of the command and
\* a request of the page, and three records, asked for one at a time.
SPECIFICATION PartSpec
CONSTANTS
    mover = mover
    far = far
    w1 = w1
    r1 = r1
    Nodes = {mover, far}
    Ways = {w1}
    Relations = {r1}
    Shapes <- SmallShapes
    Movers = {mover}
    Retagged = {far}
    Deletable = {w1}
    MaxVersion <- SmallVersions
    Start <- SmallStart
    Extracts = {1, 2}
    Initial <- SmallInitial
    Commands = {cmd1, cmd2}
    Pages = {page}
    ByRecords = {1}
    OldRows = 1
    Window = 1
    PageRows = 1
    MaxRows <- SmallRows
    MaxUnusual = 1
    None = None
    Uploads = {up1}
    Readers = {rd1}
    Steps = {1, 2}
    Fan = 2
    Offset = 3
    Epoch = 2
    MaximumSeconds = 2
    MaxTime = 10
    MaxBlocks = 2
    MaxAnswers = 1
    Nobody = Nobody
INVARIANTS
    TypesOK
    CurrentToCheckpoint
    WholeEdits
    PagesComplete
    DiffsFinal
    PagesFitTimes
PROPERTIES
    CatchesUp
    GoesForward
\* With no extract stored, and no more that may happen, there is nothing to do.
CHECK_DEADLOCK FALSE
