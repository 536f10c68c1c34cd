-------------------------- MODULE JudgeRefinement ---------------------------
(****************************************************************************)
(* JudgeQueue implements AbstractJudging: the judgings that exist are the   *)
(* accepted ones, the column result is the verdict, and the verdict the     *)
(* score row was calculated from is the one shown.                          *)
(****************************************************************************)
EXTENDS JudgeQueue

(* The verdicts that judging all test cases in order on one judgehost may   *)
(* give.                                                                    *)
AllowedVerdicts ==
    [j \in Job |-> {v \in {SequentialVerdict(j)} : TRUE \in Compiles[j]} \union
                   {v \in {CompilerError} : FALSE \in Compiles[j]}]

Abstract == INSTANCE AbstractJudging WITH
    Entry <- Job, NoVerdict <- Pending, Allowed <- AllowedVerdicts,
    accepted <- submitted, verdict <- result, shown <- scorerow

(* Every step of daemons, handlers, jury and failures is a step of the      *)
(* abstract judging or leaves what teams see unchanged: verdicts go to      *)
(* submissions that were accepted, are allowed, are given once, and the     *)
(* score row is never made from anything but the verdict.                   *)
ImplementsJudging == Abstract!Spec

(* As long as daemons and domserver go on working and nothing fails, also   *)
(* the promises are kept: every accepted submission is judged and shown.    *)
ImplementsFairJudging == Abstract!FairSpec
=============================================================================
