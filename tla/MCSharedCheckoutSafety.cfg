SPECIFICATION Spec
CONSTANTS
    t1 = t1
    x = x
    y = y
    Task = {t1, t2}
    Worker = {w1, w2}
    Commit = {x, y}
    Want <- TwoCommits
    Mixed = Mixed
    Unseen = Unseen
INVARIANT TypeOK
INVARIANT ExactInOneProcess
INVARIANT PushedOnApprovedParent
CHECK_DEADLOCK FALSE
