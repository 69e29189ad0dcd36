SPECIFICATION FairSpec
CONSTANTS
    Sweeps = {s1, s2}
    Forges = {"github", "gitlab"}
    PageSize = 2
    MaxPages = 2
    MaxOpened = 5
    MaxClosed = 1
    MaxFaults = 1
PROPERTIES OneReport AnomalyIsReported
CHECK_DEADLOCK FALSE
