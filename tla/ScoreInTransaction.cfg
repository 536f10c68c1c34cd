SPECIFICATION Spec
CONSTANTS
    t1 = t1  t2 = t2  p1 = p1  w1 = w1  w2 = w2
    wrongAnswer = wrongAnswer  Correct = Correct  CompilerError = CompilerError
    Pending = Pending  None = None
    OtherResult = {wrongAnswer}
    Team = {t1}  Problem = {p1}  Submission = {1, 2}  FirstFrozen = 3
    TeamOf <- MCOneTeam  ProblemOf <- MCOneProblem
    AfterFreeze <- MCAfterFreeze
    CompilePenalty = FALSE  VerificationRequired = FALSE
    Worker = {w1, w2}
    Operations = {"compileError"}
SYMMETRY MCSymmetry
INVARIANTS RowsCurrent
CHECK_DEADLOCK FALSE
