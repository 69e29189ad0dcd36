SPECIFICATION Spec
CONSTANTS
    tags = tags
    own = own
    ci = ci
    bad = bad
    worse = worse
    ann = ann
    mia = mia
    pkg = pkg
    Packages = {pkg}
    NoRoot = NoRoot
    BaseRoot <- MCBaseRoot
    AutoMerge = "always"
    MRs = {1}
    Sweeps = {s1, s2}
    Revisions = {tags, own}
    FirstHead <- MCFirstHead
    Content <- MCContent
    GoneTags = {}
    Accounts = {ann, mia}
    Author <- MCAuthor
    Maintainers = {ann, mia}
    Forks = {1}
    Reviewers <- MCOneReviewer
    AllowRewind = FALSE
    MaxPushes <- MCMaxPushes
    MaxFailures = 0
    NotMerged = NotMerged
INVARIANTS GreenIsEarned ArmedWasGreen
PROPERTIES ReleasedOnceGreen
SYMMETRY SweepSymmetry
CHECK_DEADLOCK FALSE
