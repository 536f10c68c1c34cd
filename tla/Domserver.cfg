CONSTANTS
    s1 = s1
    s2 = s2
    Parts = {"rejudging", "priority", "errors"}
    Submission <- MCSubmission
    NumRejudgings = 2
    NumRuns <- MCNumRuns
    Kinds <- MCKinds
    Jury = {m1}
    SnapshotReads = FALSE
    CreationFirst = TRUE
    JuryWaits = TRUE
    NumSubmissions = 4
    Recent = 60
    TimeSteps <- MCTimeSteps
    MaxTime = 120
    OneAtATime = TRUE
    SubmissionId = {e1, e2}
    MaxJudgings = 2
    ErrorHost = {h1, h2}
    Description = {"a"}
    MaxErrors = 2
    JuryRejudges = TRUE
SPECIFICATION DomserverSpec
SYMMETRY ErrorSymmetry
CHECK_DEADLOCK FALSE
INVARIANTS
    DomserverTypeOK
    OneValidJudging
    RepeatedInTurn
    NotInEndedRejudging
    InOneRejudging
    LastOneEnds
    OutcomeInEffect
    InOrderOfSubmission
    NoStarvation
    OneValidAfterErrors
    NobodyForgotten
