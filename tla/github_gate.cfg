SPECIFICATION FairSpec
CONSTANTS
    tags = tags
    again = again
    own = own
    worse = worse
    ann = ann
    mia = mia
    pkg = pkg
    Packages = {pkg}
    NoRoot = NoRoot
    BaseRoot <- MCBaseRoot
    AutoMerge = "owners"
    Revisions = {tags, again, own, worse}
    FirstHead = tags
    Content <- MCContent
    GoneTags = {}
    Accounts = {ann, mia}
    Author = ann
    Writers = {mia}
    Maintainers = {ann, mia}
    Reviewers = {mia}
    FromFork = FALSE
    AllowRewind = FALSE
    MaxEvents = 2
    MaxFailures = 1
    NotMerged = NotMerged
INVARIANTS GreenIsEarned ArmedWasGreen ArmedIsCurrent
PROPERTIES NoStaleArm GreenEndsInMerge
CHECK_DEADLOCK FALSE
