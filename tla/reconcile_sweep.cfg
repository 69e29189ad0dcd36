SPECIFICATION FairSpec
CONSTANTS
    p1 = p1
    p2 = p2
    a = a
    b = b
    other = other
    n = n
    f = f
    x = x
    y = y
    doc = doc
    k = k
    l = l
    None = None
    Package = {p1, p2}
    Repo = {a, b, other}
    Tag = {n, f}
    Digest = {x, y, doc}
    Manifest = {k, l}
    Pinned = {n}
    ImageIndex = {x, y}
    Manifests <- MCManifests
    Foreign <- MCForeign
    Allowed = {a, b}
    Private = {}
    Reserved = {}
    Trees <- MCTrees
    FirstServes <- MCFirstServes
    MaxMoves = 2
    MaxFailures = 1
INVARIANTS FindingsAreTrue SteadyIsReported
PROPERTIES WrongIsFiled
CHECK_DEADLOCK FALSE
