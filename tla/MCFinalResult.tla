---------------------------- MODULE MCFinalResult ----------------------------
EXTENDS FinalResultLoop, TLC

CONSTANTS correct, wrongAnswer, timelimit, noOutput

(* Priorities with a tie at the top, a tie below it and a lowest result.    *)
MCResultsPrio == correct :> 1 @@ noOutput :> 50 @@ wrongAnswer :> 99 @@ timelimit :> 99

=============================================================================
