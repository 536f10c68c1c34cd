---------------------------- MODULE ScoreRowLoop ----------------------------
(****************************************************************************)
(* The loop of calculateScoreRow over the submissions of a cell, for        *)
(* comparison with the definition that module ScoreRow gives.               *)
(****************************************************************************)
EXTENDS ScoreCache, FiniteSetsExt, Folds

(* Submissions are numbered by their times, and the freeze has no end.      *)
ASSUME ScoreRowLoopAssumption ==
    \A r, s \in Submission : AfterFreeze[r] /\ r < s => AfterFreeze[s]

(* The local variables before the loop.                                     *)
NoSubmissions == [submissions |-> 0, pending |-> 0, solvedBy |-> {}, runtimeOf |-> {}]
LoopStart == [jury |-> NoSubmissions, public |-> NoSubmissions]

(* Step 1: the fastest runtime among the correct submissions.               *)
Runtimes(acc, s) ==
    IF db.verdict[s] # Correct THEN acc
    ELSE [acc EXCEPT !.jury.runtimeOf = @ \union {s},
                     !.public.runtimeOf = IF AfterFreeze[s] THEN @ ELSE @ \union {s}]

(* Step 2 for a submission without a visible result.                        *)
CountPending(acc, s) ==
    [acc EXCEPT !.jury.pending = IF acc.jury.solvedBy = {} THEN @ + 1 ELSE @,
                !.public.pending = @ + 1]

(* Step 2 for the others.                                                   *)
Count(acc, s) ==
    LET counts == IF CountSubmission(db, s) THEN 1 ELSE 0 IN
    [acc EXCEPT !.jury.submissions = IF acc.jury.solvedBy = {} THEN @ + counts ELSE @,
                !.public.pending = IF AfterFreeze[s] THEN @ + 1 ELSE @,
                !.public.submissions = IF AfterFreeze[s] THEN @ ELSE @ + counts]

(* Step 3: the first correct submission.                                    *)
Solve(acc, s) ==
    IF acc.jury.solvedBy # {} \/ db.verdict[s] # Correct THEN acc
    ELSE [acc EXCEPT !.jury.solvedBy = {s},
                     !.public.solvedBy = IF AfterFreeze[s] THEN {} ELSE {s}]

(* Mutant: counting goes on after a public, correct submission.             *)
LoopStepOn(acc, s) ==
    LET fast == Runtimes(acc, s) IN
    IF ~Visible(db, s) THEN CountPending(fast, s)
    ELSE Solve(Count(fast, s), s)

LoopStep(acc, s) ==
    LET fast == Runtimes(acc, s) IN
    IF fast.public.solvedBy # {} THEN fast
    ELSE IF ~Visible(db, s) THEN CountPending(fast, s)
    ELSE Solve(Count(fast, s), s)

(* The loop takes the submissions in the order of their times: the greatest *)
(* number last.                                                             *)
LoopRow(c) ==
    LET Step(s, acc) == LoopStep(acc, s)
        Itself(s) == s
    IN MapThenFoldSet(Step, LoopStart, Itself, Max, Submissions(db, c))

(* The loop computes the row that ScoreRow defines.                         *)
LoopComputesRow == \A c \in Cell : LoopRow(c) = Row(db, c)

=============================================================================
