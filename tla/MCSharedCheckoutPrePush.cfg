SPECIFICATION Spec
CONSTANTS
    t1 = t1
    x = x
    y = y
    Task = {t1, t2}
    Worker = {w1}
    Commit = {x, y}
    Want <- TwoCommits
    Mixed = Mixed
    Unseen = Unseen
INVARIANT PrePushIsExact
CHECK_DEADLOCK FALSE
