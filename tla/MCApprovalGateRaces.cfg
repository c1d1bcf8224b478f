SPECIFICATION FairSpec
CONSTANTS
    Approval = {a1}
    Click = {c1, c2, c3}
    CanLose = {c2, c3}
INVARIANT TypeOK
INVARIANT OneWinner
INVARIANT AnswersAreTrue
INVARIANT CardIsTrue
INVARIANT ResumedOnce
PROPERTY ImplementsLatch
PROPERTY EveryClickAnswered
PROPERTY WinningApprovalResumes
CHECK_DEADLOCK FALSE
