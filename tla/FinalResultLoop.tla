--------------------------- MODULE FinalResultLoop ---------------------------
(****************************************************************************)
(* getFinalResult as the loop of the code computes it, for comparison with  *)
(* the definition the other modules use.                                    *)
(****************************************************************************)
EXTENDS RunArrival, Sequences, FiniteSets, SequencesExt

(* results_prio is an array of finitely many results.                       *)
ASSUME FinalResultLoopAssumption == IsFiniteSet(RunResult)

(* The local variables of the loop: bestRunResult, bestPriority,            *)
(* haveNullResult.                                                          *)
LoopStart == [best |-> Pending, priority |-> -1, null |-> FALSE]

(* Mutant: a later result of equal priority replaces the first one.         *)
LoopStepLastWins(acc, r) ==
    CASE acc.null                        -> acc
      [] ~acc.null /\ r = Pending        -> [acc EXCEPT !.null = TRUE]
      [] ~acc.null /\ r # Pending        ->
            IF ResultsPrio[r] >= acc.priority
            THEN [acc EXCEPT !.best = r, !.priority = ResultsPrio[r]]
            ELSE acc

LoopStep(acc, r) ==
    CASE acc.null                        -> acc
      [] ~acc.null /\ r = Pending        -> [acc EXCEPT !.null = TRUE]
      [] ~acc.null /\ r # Pending        ->
            IF ResultsPrio[r] > acc.priority
            THEN [acc EXCEPT !.best = r, !.priority = ResultsPrio[r]]
            ELSE acc

MaxPriority == Max({ResultsPrio[r] : r \in RunResult})

LoopResult(rs) ==
    LET end == FoldLeft(LoopStep, LoopStart, rs)
    IN  IF end.null /\ end.priority < MaxPriority THEN Pending ELSE end.best

(* The loop computes what getFinalResult is defined to be, for every        *)
(* combination of known and pending runs.                                   *)
LoopComputesFinalResult == LoopResult(runs) = getFinalResult(runs)

=============================================================================
