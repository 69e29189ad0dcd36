SPECIFICATION Spec
CONSTANTS
    tags = tags
    own = own
    ci = ci
    bad = bad
    worse = worse
    ann = ann
    mia = mia
    pkg = pkg
    Packages = {pkg}
    NoRoot = NoRoot
    BaseRoot <- MCBaseRoot
    AutoMerge = "owners"
    MRs = {1}
    Sweeps = {s1}
    Revisions = {tags, own, ci, worse}
    FirstHead <- MCFirstHead
    Content <- MCContent
    GoneTags = {}
    Accounts = {ann, mia}
    Author <- MCAuthor
    Maintainers = {ann, mia}
    Forks = {}
    Reviewers <- MCOneReviewer
    AllowRewind = FALSE
    MaxPushes <- MCMaxPushes
    MaxFailures = 1
    NotMerged = NotMerged
INVARIANTS MergedIsEarned PendingIsBlocked MergedLabelTellsLane JudgedOneRevision
PROPERTIES ImplementsMergeGate
CHECK_DEADLOCK FALSE
