---------------------------- MODULE MCScoreCache ----------------------------
(****************************************************************************)
(* Small instances of the scoreboard cache: submissions 1, 2, ... of two    *)
(* teams for one problem, the last ones after the freeze.                   *)
(****************************************************************************)
EXTENDS ScoreRowLoop, TLC

CONSTANTS t1, t2, p1, w1, w2, wrongAnswer, FirstFrozen

MCAfterFreeze == [s \in Submission |-> s >= FirstFrozen]

(* All for one problem; the teams take turns.                               *)
MCTurns == [s \in Submission |-> IF s % 2 = 1 THEN t1 ELSE t2]
MCOneProblem == [s \in Submission |-> p1]

MCOneTeam == [s \in Submission |-> t1]

MCSymmetry == Permutations(Worker)
=============================================================================
