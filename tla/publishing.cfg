SPECIFICATION FairSpec
CONSTANTS
    amy = amy
    bob = bob
    image = image
    Publishers = {amy, bob}
    Paths = {image}
    MainFiles = {}
    Forges = {"github", "gitlab"}
    MaxForeign = 1
    MaxFaults = 1
INVARIANTS NothingLost RebasedOnlyInTheWindow DoneIsOffered
PROPERTIES AnnouncementsEnd
CHECK_DEADLOCK FALSE
