SPECIFICATION Spec
CONSTANTS
    correct = correct
    wrongAnswer = wrongAnswer
    timelimit = timelimit
    noOutput = noOutput
    Pending = Pending
    RunResult = {correct, wrongAnswer, timelimit, noOutput}
    ResultsPrio <- MCResultsPrio
    NumTests = 4
INVARIANT LoopComputesFinalResult
PROPERTY VerdictFinal
CHECK_DEADLOCK FALSE
