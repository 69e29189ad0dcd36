SPECIFICATION FairSpec
CONSTANTS
    tool = tool
    stray = stray
    ghcr = ghcr
    lost = lost
    harbor = harbor
    corp = corp
    d1 = d1
    d2 = d2
    Repos = {tool, corp, stray}
    Hosts = {ghcr, harbor, lost}
    HostOf <- MCHostOf
    Clients = {ghcr, harbor}
    Auth <- MCAuth
    Digests = {d1, d2}
    NoDigest = NoDigest
    Names <- MCNames
    Indices = {d1}
    Layers <- MCLayers
    MaxListed = 2
    MaxAttempts = 3
    BaseDelay = 1
    MaxDelay = 3
    Jitters = {0, 99}
    RetryAfters = {0, 5}
    MaxRedirects = 2
    MaxPages = 2
INVARIANTS RenewalIsSpared ExhaustedByFaults WaitsAsAsked GoneIsProven ProbeIsOfTheDesc
PROPERTIES EveryReadEnds
CHECK_DEADLOCK FALSE
