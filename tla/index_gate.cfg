SPECIFICATION Spec
CONSTANTS
    p = p
    q = q
    pub = pub
    priv = priv
    v = v
    x = x
    y = y
    doc = doc
    k = k
    l = l
    None = None
    Package = {p, q}
    Repo = {pub, priv}
    Tag = {v}
    Digest = {x, y, doc}
    Manifest = {k, l}
    Pinned = {v}
    ImageIndex = {x, y}
    Manifests <- MCManifests
    Foreign <- MCForeign
    Allowed = {pub, priv}
    Private = {priv}
    Reserved = {p, q}
    Request = {1, 2}
    Forks = {1}
    BaseRefs = {"tip", "merge-base"}
    FirstTree <- MCFirstTree
    FirstServes <- MCFirstServes
    MaxMoves = 1
INVARIANTS GreenBreaksNothing ClosedUnlessCrossed ClaimsWereServed ServedIsClosed ToolsPassTheGate
CHECK_DEADLOCK FALSE
