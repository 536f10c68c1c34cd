----------------------------- MODULE FinalResult -----------------------------
(****************************************************************************)
(* SubmissionService::getFinalResult: the verdict of a judging, computed    *)
(* from the results of its runs in test case order.  A run that has not     *)
(* been judged yet is Pending (NULL in the code).                           *)
(****************************************************************************)
EXTENDS Integers

CONSTANTS
    RunResult,    \* run results a judgehost can report, after results_remap
    ResultsPrio,  \* the results_prio setting: a priority for every result
    Pending       \* a run without a result, a judging without a verdict

ASSUME FinalResultAssumption ==
    /\ Pending \notin RunResult
    /\ ResultsPrio \in [RunResult -> Nat \ {0}]

RunOrPending == RunResult \union {Pending}

(* Mutant: the loop skips a run without a result instead of stopping.       *)
KnownPrefixSkipping(runs) == {i \in DOMAIN runs : runs[i] # Pending}

(* The loop stops at the first run without a result: only the runs before   *)
(* it count.                                                                *)
KnownPrefix(runs) == {i \in DOMAIN runs : \A k \in 1..i : runs[k] # Pending}

(* A later run replaces the best result so far only with a strictly higher  *)
(* priority: the first run of the greatest priority wins.                   *)
IsBestRun(runs, i) ==
    /\ i \in KnownPrefix(runs)
    /\ \A k \in KnownPrefix(runs) :
           IF k < i THEN ResultsPrio[runs[k]] < ResultsPrio[runs[i]]
                    ELSE ResultsPrio[runs[k]] <= ResultsPrio[runs[i]]

HasMaximalPriority(r) == \A q \in RunResult : ResultsPrio[q] <= ResultsPrio[r]

(* Some run decides the verdict: the best one, if all runs are known or if  *)
(* nothing can beat its priority.                                           *)
Decides(runs, i) ==
    /\ IsBestRun(runs, i)
    /\ \/ \A k \in DOMAIN runs : runs[k] # Pending
       \/ HasMaximalPriority(runs[i])

getFinalResult(runs) ==
    IF \E i \in DOMAIN runs : Decides(runs, i)
    THEN runs[CHOOSE i \in DOMAIN runs : Decides(runs, i)]
    ELSE Pending

=============================================================================
