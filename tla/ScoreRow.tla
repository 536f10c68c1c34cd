------------------------------- MODULE ScoreRow -------------------------------
(****************************************************************************)
(* ScoreboardService::calculateScoreRow as a function of the database: the  *)
(* cell of the scoreboard for one team and one problem, as the jury and as  *)
(* the public see it.                                                       *)
(*                                                                          *)
(* Submissions are numbered in the order of their submit times.  db is the  *)
(* part of the database that the calculation reads: the submissions that    *)
(* exist, their column valid, and result and verified of their valid        *)
(* judging.                                                                 *)
(****************************************************************************)
EXTENDS Integers, FiniteSets

CONSTANTS
    Team, Problem,
    Submission,      \* submissions within contest time, by submit time
    TeamOf, ProblemOf,
    AfterFreeze,     \* Submission::isAfterFreeze
    OtherResult,     \* results other than correct and compiler-error
    Correct, CompilerError, Pending,
    CompilePenalty,       \* the setting compile_penalty
    VerificationRequired  \* the setting verification_required

ASSUME ScoreRowAssumption ==
    /\ Submission \subseteq Nat /\ IsFiniteSet(Submission)
    /\ TeamOf \in [Submission -> Team]
    /\ ProblemOf \in [Submission -> Problem]
    /\ AfterFreeze \in [Submission -> BOOLEAN]
    /\ CompilePenalty \in BOOLEAN /\ VerificationRequired \in BOOLEAN
    /\ Correct # CompilerError /\ Pending \notin {Correct, CompilerError}
    /\ OtherResult \intersect {Correct, CompilerError, Pending} = {}

Result == OtherResult \union {Correct, CompilerError}
Cell == Team \X Problem

Database ==
    [submitted : SUBSET Submission,
     valid     : [Submission -> BOOLEAN],
     verdict   : [Submission -> Result \union {Pending}],
     verified  : [Submission -> BOOLEAN]]

(* The columns of scorecache for one audience: numbers of submissions, the *)
(* submission whose time is the solve time (none, or one), the submissions  *)
(* of whose run times runtime is the least.                                 *)
ViewRow == [submissions : Nat, pending : Nat, solvedBy : SUBSET Submission,
            runtimeOf : SUBSET Submission]

(* The submissions of a cell that the query finds.                          *)
Submissions(db, c) ==
    {s \in db.submitted : c = <<TeamOf[s], ProblemOf[s]>> /\ db.valid[s]}

(* A submission with a visible judging result.                              *)
Visible(db, s) ==
    db.verdict[s] # Pending /\ (VerificationRequired => db.verified[s])

CountSubmission(db, s) == CompilePenalty \/ db.verdict[s] # CompilerError

Solving(db, c) ==
    {s \in Submissions(db, c) : Visible(db, s) /\ db.verdict[s] = Correct}

(* The solving submissions the public knows of.                             *)
SolvingPublic(db, c) == {s \in Solving(db, c) : ~AfterFreeze[s]}

(* Submissions are counted up to and including the first solving one.       *)
UpToFirst(S, solving) == {s \in S : \A r \in solving : s <= r}

First(S) == {s \in S : \A r \in S : s <= r}

JuryRow(db, c) ==
    LET S == UpToFirst(Submissions(db, c), Solving(db, c)) IN
    [submissions |-> Cardinality({s \in S : Visible(db, s) /\ CountSubmission(db, s)}),
     pending     |-> Cardinality({s \in S : ~Visible(db, s)}),
     solvedBy    |-> First(Solving(db, c)),
     runtimeOf   |-> {s \in Submissions(db, c) : db.verdict[s] = Correct}]

(* Mutant: a judged submission after the freeze is not pending.             *)
PendingPublicJudged(db, s) == ~Visible(db, s)

(* To the public every submission after the freeze is pending.              *)
PendingPublic(db, s) == ~Visible(db, s) \/ AfterFreeze[s]

PublicRow(db, c) ==
    LET S == UpToFirst(Submissions(db, c), SolvingPublic(db, c)) IN
    [submissions |-> Cardinality({s \in S : /\ Visible(db, s) /\ CountSubmission(db, s)
                                            /\ ~AfterFreeze[s]}),
     pending     |-> Cardinality({s \in S : PendingPublic(db, s)}),
     solvedBy    |-> First(SolvingPublic(db, c)),
     runtimeOf   |-> {s \in Submissions(db, c) : db.verdict[s] = Correct /\ ~AfterFreeze[s]}]

Row(db, c) == [jury |-> JuryRow(db, c), public |-> PublicRow(db, c)]

(* Mutant: submissions that wait for their verdict are forgotten.           *)
MaySolveJudged(db, s) ==
    \/ db.verdict[s] = Correct
    \/ VerificationRequired /\ ~db.verified[s]

(* An earlier submission for the problem, by whichever team, that is or may *)
(* turn out to be correct.                                                  *)
MaySolve(db, s) ==
    \/ db.verdict[s] \in {Pending, Correct}
    \/ VerificationRequired /\ ~db.verified[s]

(* The first-to-solve query, for a cell solved by the submission in by.     *)
FirstToSolve(db, c, by) ==
    /\ by # {}
    /\ \A s \in by, r \in db.submitted :
           db.valid[r] /\ ProblemOf[r] = c[2] /\ r < s => ~MaySolve(db, r)

(* The database without the results that the freeze hides.                  *)
Frozen(db) ==
    [db EXCEPT !.verdict = [s \in Submission |->
        IF AfterFreeze[s] THEN Pending ELSE db.verdict[s]]]

=============================================================================
