SPECIFICATION Spec
CONSTANTS
    FileName <- MCFileName
    UpName <- MCUpName
    Logs <- MCLogs
    RepoName = "repo"
    Tree <- MCTree
    Answers <- MCAnswers
    DiagnosisTargets <- MCDiagnosisTargets
    Confidence = {0, 1, 2}
    MinConfidence = 1
    MaxWindow = 4
    MaxFileSize = 20
    MaxEvidenceFiles = 2
    MaxChars = 7
    MaxTargetFiles = 2
    MaxPatchLines = 13
    MaxPatchChars = 50
    LargePatch = 8
    ProtectedFiles <- MCProtected
    TestFiles <- MCTests
    DependencyFiles <- MCDependencies
INVARIANT EvidenceIsPatchable
CHECK_DEADLOCK FALSE
