SPECIFICATION FairSpec
CONSTANTS
    tags = tags
    own = own
    ci = ci
    bad = bad
    worse = worse
    ann = ann
    mia = mia
    pkg = pkg
    Packages = {pkg}
    NoRoot = NoRoot
    BaseRoot <- MCBaseRoot
    AutoMerge = "owners"
    MRs = {1, 2, 3}
    Sweeps = {s1}
    Revisions = {tags, own, bad}
    FirstHead <- MCFirstHeads
    Content <- MCContent
    GoneTags = {}
    Accounts = {ann, mia}
    Author <- MCAuthors
    Maintainers = {mia}
    Forks = {3}
    Reviewers <- MCReviewersOfThird
    AllowRewind = FALSE
    MaxPushes <- MCNoPushes
    MaxFailures = 1
    NotMerged = NotMerged
PROPERTIES EveryMergeRequestGated ApprovalReleases OwnedRefreshMerges
CHECK_DEADLOCK FALSE
