SPECIFICATION Spec
CONSTANTS
    h1 = h1  h2 = h2  j1 = j1  j2 = j2
    correct = correct  wrongAnswer = wrongAnswer  timelimit = timelimit
    Pending = Pending  NoHost = NoHost  NoJob = NoJob
    RunResult = {correct, wrongAnswer, timelimit}
    ResultsPrio <- MCResultsPrio
    Correct = correct  CompilerError = CompilerError
    Host = {h1, h2}
    Job = {j1}  NumTests = 2  BatchSize = 2
    Outcome <- MCLateFailure  Compiles <- MCCompiles
    EvalFull = FALSE  ParallelJudging = TRUE
    Faults = {"crash"}  JuryWaits = TRUE
SYMMETRY MCSymmetry
INVARIANTS HeldIsWorkedOn
