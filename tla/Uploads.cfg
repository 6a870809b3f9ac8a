\* Two uploads of one user, one changeset, two nodes, a way and three relations; no
\* upload of more than two elements, no version past the second.
SPECIFICATION Spec
CONSTANTS
    n1 = n1
    n2 = n2
    w1 = w1
    r1 = r1
    r2 = r2
    r3 = r3
    p1 = p1
    p2 = p2
    c1 = c1
    q1 = q1
    q2 = q2
    u1 = u1
    Nodes = {n1, n2}
    Ways = {w1}
    Relations = {r1, r2, r3}
    Places = {p1, p2}
    Shapes <- SmallShapes
    Starts <- SmallStarts
    Changesets = {c1}
    Requests <- TwoRequests
    UserOf <- OneUser
    MaxElements = 2
    MaxVersion = 2
    None = None
SYMMETRY Alike
INVARIANTS
    TypeOK
    Integrity
PROPERTIES
    UploadsAtomic
    OnlyOpenChangesets
    VersionsStoredOnce
    BoxHasChanges
\* With every changeset closed, and no more to open, there is nothing to write.
CHECK_DEADLOCK FALSE
