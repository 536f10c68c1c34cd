SPECIFICATION Spec
CONSTANTS
    t1 = t1  t2 = t2  p1 = p1  w1 = w1  w2 = w2
    wrongAnswer = wrongAnswer  Correct = Correct  CompilerError = CompilerError
    Pending = Pending  None = None
    OtherResult = {wrongAnswer}
    Team = {t1}  Problem = {p1}  Submission = {1, 2, 3, 4}  FirstFrozen = 3
    TeamOf <- MCOneTeam  ProblemOf <- MCOneProblem
    AfterFreeze <- MCAfterFreeze
    CompilePenalty = FALSE  VerificationRequired = TRUE
    Worker = {w1}
    Operations = {"compileError", "verify", "unverify", "status"}
SYMMETRY MCSymmetry
INVARIANTS FreezeHides LoopComputesRow
CHECK_DEADLOCK FALSE
