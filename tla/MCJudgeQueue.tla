---------------------------- MODULE MCJudgeQueue ----------------------------
(****************************************************************************)
(* Small instances of JudgeQueue: two judgehosts, one or two judgings of    *)
(* two or three test cases.                                                 *)
(****************************************************************************)
EXTENDS JudgeRefinement, TLC

CONSTANTS h1, h2, j1, j2, correct, wrongAnswer, timelimit

(* The default results_prio: every error has the same, highest priority.    *)
MCResultsPrio == correct :> 1 @@ wrongAnswer :> 99 @@ timelimit :> 99

(* The tests fail differently.                                              *)
MCFailures ==
    [j \in Job |-> [t \in Test |-> IF t = 1 THEN {wrongAnswer} ELSE {timelimit}]]

(* The first test is correct, the others fail differently.                  *)
MCMixed ==
    [j \in Job |-> [t \in Test |->
        CASE t = 1 -> {correct} [] t = 2 -> {wrongAnswer} [] t > 2 -> {timelimit}]]

(* The first test only fails.                                               *)
MCEarlyFailure ==
    [j \in Job |-> [t \in Test |-> IF t = 1 THEN {wrongAnswer} ELSE {correct}]]

(* The first test only is correct.                                          *)
MCLateFailure ==
    [j \in Job |-> [t \in Test |-> IF t = 1 THEN {correct} ELSE {wrongAnswer}]]

MCCompiles == [j \in Job |-> {TRUE}]

(* Of two submissions one does not compile.                                 *)
MCOneCompiles == [j \in Job |-> {j = j1}]

MCSymmetry == Permutations(Host)
=============================================================================
