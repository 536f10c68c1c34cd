------------------------------ MODULE ScoreCache ------------------------------
(****************************************************************************)
(* The scoreboard cache, tables scorecache and rankcache, and the handlers  *)
(* that keep it up to date while teams submit, judgehosts report verdicts   *)
(* and the jury verifies, invalidates and rejudges.                         *)
(*                                                                          *)
(* A worker is a PHP process handling one such request.  It changes the     *)
(* database and then calls calculateScoreRow and updateRankCache, each      *)
(* under an advisory lock of its own (GET_LOCK).  A missing row of either   *)
(* table stands for the row of a team that has not submitted.               *)
(****************************************************************************)
EXTENDS ScoreRow

CONSTANTS
    Worker,
    None,         \* no submission, no cell, an unset variable
    Operations    \* what may happen besides submissions and their judging

OperationKinds == {
    "compileError",  \* a judgehost reports a compiler error
    "verify",        \* the jury verifies a judging
    "unverify",      \* the jury withdraws a verification
    "status",        \* the jury marks a submission invalid, or valid again
    "rejudge",       \* a rejudging of one submission is applied
    "refresh"}       \* an administrator refreshes the scoreboard cache

ASSUME ScoreCacheAssumption ==
    /\ None \notin Submission \union Cell
    /\ Operations \subseteq OperationKinds

VARIABLES
    db,           \* submissions and judgings, see ScoreRow
    scorecache,   \* by team and problem
    rankcache,    \* by team
    pc,           \* what the worker does next
    todo,         \* cells the worker still has to calculate
    ranks,        \* teams the worker still has to call updateRankCache for
    updateRank,   \* the parameter $updateRankCache of calculateScoreRow
    cell,         \* the cell the worker calculates
    row,          \* its new content
    rank,         \* team and new content of the row of rankcache
    txsub,        \* the submission a transactional handler is about
    view          \* the snapshot its transaction reads

workerVars == <<pc, todo, ranks, updateRank, cell, row, rank, txsub, view>>
vars == <<db, scorecache, rankcache, workerVars>>

WithFirst(r, first) == [jury |-> r.jury, public |-> r.public, first |-> first]

(* The contribution of the solved problems of a team to its rank: the       *)
(* columns points, totaltime, totalruntime and the sort keys are computed   *)
(* from these.                                                              *)
Solved(cache, t, variant) == {p \in Problem : cache[<<t, p>>][variant].solvedBy # {}}

RankRow(cache, t) ==
    [variant \in {"jury", "public"} |->
        {[problem |-> p, submissions |-> cache[<<t, p>>][variant].submissions,
          solvedBy |-> cache[<<t, p>>][variant].solvedBy,
          runtimeOf |-> cache[<<t, p>>][variant].runtimeOf] :
            p \in Solved(cache, t, variant)}]

Init ==
    /\ db = [submitted |-> {},
             valid     |-> [s \in Submission |-> TRUE],
             verdict   |-> [s \in Submission |-> Pending],
             verified  |-> [s \in Submission |-> FALSE]]
    /\ scorecache = [c \in Cell |-> WithFirst(Row(db, c), FALSE)]
    /\ rankcache = [t \in Team |-> RankRow(scorecache, t)]
    /\ pc = [w \in Worker |-> "idle"]
    /\ todo = [w \in Worker |-> {}]
    /\ ranks = [w \in Worker |-> {}]
    /\ updateRank = [w \in Worker |-> TRUE]
    /\ cell = [w \in Worker |-> None]
    /\ row = [w \in Worker |-> None]
    /\ rank = [w \in Worker |-> None]
    /\ txsub = [w \in Worker |-> None]
    /\ view = [w \in Worker |-> None]

CellOf(s) == <<TeamOf[s], ProblemOf[s]>>

(* A request changes the database, committed, and goes on to recalculate    *)
(* some cells and then the ranks of some teams.                             *)
Recalculate(w, cells, teams, withRank) ==
    /\ pc[w] = "idle"
    /\ pc' = [pc EXCEPT ![w] = "row"]
    /\ todo' = [todo EXCEPT ![w] = cells]
    /\ ranks' = [ranks EXCEPT ![w] = teams]
    /\ updateRank' = [updateRank EXCEPT ![w] = withRank]
    /\ UNCHANGED <<scorecache, rankcache, cell, row, rank, txsub, view>>

(* submitSolution.  Submissions are stored in the order of their times.     *)
Submit(w, s) ==
    /\ s \notin db.submitted
    /\ \A r \in Submission : r < s => r \in db.submitted
    /\ db' = [db EXCEPT !.submitted = @ \union {s}]
    /\ Recalculate(w, {CellOf(s)}, {}, TRUE)

Unjudged(s) ==
    /\ s \in db.submitted /\ db.verdict[s] = Pending
    /\ \A w \in Worker : txsub[w] # s

(* addSingleJudgingRun finds the verdict.                                   *)
Judged(w, s, v) ==
    /\ Unjudged(s) /\ v # CompilerError
    /\ db' = [db EXCEPT !.verdict[s] = v]
    /\ Recalculate(w, {CellOf(s)}, {}, TRUE)

(* updateJudgingAction with a compiler error: all of it, the recalculation  *)
(* of the score row included, is one transaction, which reads the database  *)
(* as it is now with its own changes.                                       *)
CompileError(w, s) ==
    /\ "compileError" \in Operations
    /\ Unjudged(s) /\ pc[w] = "idle"
    /\ pc' = [pc EXCEPT ![w] = "row"]
    /\ todo' = [todo EXCEPT ![w] = {CellOf(s)}]
    /\ updateRank' = [updateRank EXCEPT ![w] = TRUE]
    /\ txsub' = [txsub EXCEPT ![w] = s]
    /\ view' = [view EXCEPT ![w] =
                    [db |-> [db EXCEPT !.verdict[s] = CompilerError], cache |-> scorecache]]
    /\ UNCHANGED <<db, scorecache, rankcache, ranks, cell, row, rank>>

(* verifyAction.  With verification_required the cells of all teams for the *)
(* problem are recalculated, otherwise nothing is.                          *)
Verify(w, s, value) ==
    /\ (IF value THEN "verify" ELSE "unverify") \in Operations
    /\ s \in db.submitted /\ db.verdict[s] # Pending /\ db.verified[s] # value
    /\ pc[w] = "idle"
    /\ db' = [db EXCEPT !.verified[s] = value]
    /\ IF VerificationRequired
       THEN Recalculate(w, Team \X {ProblemOf[s]}, {}, TRUE)
       ELSE UNCHANGED <<scorecache, rankcache, workerVars>>

(* updateStatusAction.                                                      *)
UpdateStatus(w, s, value) ==
    /\ "status" \in Operations
    /\ s \in db.submitted /\ db.valid[s] # value
    /\ db' = [db EXCEPT !.valid[s] = value]
    /\ Recalculate(w, {CellOf(s)}, {}, TRUE)

(* Mutant: a rank is updated only by the recalculation of a solved cell.    *)
RankedIfSolved(s) == {}

(* finishRejudging updates the ranks of all teams in any case.              *)
RankedAfterRejudging(s) == Team

(* finishRejudging, applying a rejudging of one judged submission: another  *)
(* judging, not verified, becomes the valid one.                            *)
ApplyRejudging(w, s, v) ==
    /\ "rejudge" \in Operations
    /\ s \in db.submitted /\ db.verdict[s] \notin {Pending, v}
    /\ db' = [db EXCEPT !.verdict[s] = v, !.verified[s] = FALSE]
    /\ Recalculate(w, Team \X {ProblemOf[s]}, RankedAfterRejudging(s), TRUE)

RefreshCache(w) ==
    /\ "refresh" \in Operations
    /\ UNCHANGED db
    /\ Recalculate(w, Cell, Team, FALSE)

-----------------------------------------------------------------------------
InTransaction(w) == txsub[w] # None

(* What the queries of a worker see.                                        *)
ReadDb(w) == IF InTransaction(w) THEN view[w].db ELSE db

ReadCache(w) ==
    IF ~InTransaction(w) THEN scorecache
    ELSE [view[w].cache EXCEPT ![cell[w]] = row[w]]

HoldsCell(w, c) == pc[w] \in {"first", "replace"} /\ cell[w] = c

HoldsRank(w, t) == pc[w] = "rankwrite" /\ rank[w].team = t

(* Mutant: the advisory lock is not respected.                              *)
CellFreeAlways(c) == TRUE

CellFree(c) == \A w \in Worker : ~HoldsCell(w, c)

RankFree(t) == \A w \in Worker : ~HoldsRank(w, t)

(* calculateScoreRow: the lock, and the query for the submissions.          *)
ReadSubmissions(w, c) ==
    /\ pc[w] = "row" /\ c \in todo[w]
    /\ CellFree(c)
    /\ todo' = [todo EXCEPT ![w] = @ \ {c}]
    /\ cell' = [cell EXCEPT ![w] = c]
    /\ row' = [row EXCEPT ![w] = WithFirst(Row(ReadDb(w), c), FALSE)]
    /\ pc' = [pc EXCEPT ![w] = "first"]
    /\ UNCHANGED <<db, scorecache, rankcache, ranks, updateRank, rank, txsub, view>>

(* The query whether the team was the first to solve the problem.           *)
ReadFirst(w) ==
    /\ pc[w] = "first"
    /\ row' = [row EXCEPT ![w] =
                  WithFirst(@, FirstToSolve(ReadDb(w), cell[w], @.jury.solvedBy))]
    /\ pc' = [pc EXCEPT ![w] = "replace"]
    /\ UNCHANGED <<db, scorecache, rankcache, todo, ranks, updateRank, cell, rank,
                   txsub, view>>

(* A row written by a transaction is locked until it commits.               *)
CellWritten(c) ==
    \E w \in Worker : /\ InTransaction(w) /\ cell[w] = c
                      /\ pc[w] \in {"rank", "rankwrite", "commit"}

(* After a part of the calculation.                                         *)
Continue(w) == IF InTransaction(w) THEN "commit" ELSE "row"

RankAffected(w) ==
    updateRank[w] /\ (row[w].jury.solvedBy # {} \/ row[w].public.solvedBy # {})

RankWritten(t) ==
    \E w \in Worker : /\ InTransaction(w) /\ pc[w] = "commit"
                      /\ RankAffected(w) /\ rank[w].team = t

(* REPLACE INTO scorecache, and the lock is released.                       *)
Replace(w) ==
    /\ pc[w] = "replace"
    /\ ~CellWritten(cell[w])
    /\ scorecache' = IF InTransaction(w) THEN scorecache
                     ELSE [scorecache EXCEPT ![cell[w]] = row[w]]
    /\ pc' = [pc EXCEPT ![w] = IF RankAffected(w) THEN "rank" ELSE Continue(w)]
    /\ UNCHANGED <<db, rankcache, todo, ranks, updateRank, cell, row, rank, txsub, view>>

(* updateRankCache: the lock, and the query for the cells of the team.      *)
ReadCells(w, t) ==
    /\ RankFree(t)
    /\ rank' = [rank EXCEPT ![w] = [team |-> t, value |-> RankRow(ReadCache(w), t)]]
    /\ pc' = [pc EXCEPT ![w] = "rankwrite"]
    /\ UNCHANGED <<db, scorecache, rankcache, todo, updateRank, cell, row, txsub, view>>

(* Called by calculateScoreRow ...                                          *)
UpdateRankOfCell(w) ==
    /\ pc[w] = "rank"
    /\ ReadCells(w, cell[w][1])
    /\ UNCHANGED ranks

(* ... or by refreshCache and finishRejudging after the cells of a team.    *)
UpdateRankOfTeam(w, t) ==
    /\ pc[w] = "row" /\ t \in ranks[w]
    /\ \A c \in todo[w] : c[1] # t
    /\ ReadCells(w, t)
    /\ ranks' = [ranks EXCEPT ![w] = @ \ {t}]

WriteRank(w) ==
    /\ pc[w] = "rankwrite"
    /\ ~RankWritten(rank[w].team)
    /\ rankcache' = IF InTransaction(w) THEN rankcache
                    ELSE [rankcache EXCEPT ![rank[w].team] = rank[w].value]
    /\ pc' = [pc EXCEPT ![w] = Continue(w)]
    /\ UNCHANGED <<db, scorecache, todo, ranks, updateRank, cell, row, rank, txsub, view>>

(* The request has been answered.                                           *)
Done(w) ==
    /\ pc' = [pc EXCEPT ![w] = "idle"]
    /\ cell' = [cell EXCEPT ![w] = None]
    /\ row' = [row EXCEPT ![w] = None]
    /\ rank' = [rank EXCEPT ![w] = None]
    /\ txsub' = [txsub EXCEPT ![w] = None]
    /\ view' = [view EXCEPT ![w] = None]
    /\ UNCHANGED <<todo, ranks, updateRank>>

Finish(w) ==
    /\ pc[w] = "row" /\ todo[w] = {} /\ ranks[w] = {}
    /\ Done(w)
    /\ UNCHANGED <<db, scorecache, rankcache>>

(* The transaction of a compiler error becomes visible.                     *)
Commit(w) ==
    /\ pc[w] = "commit"
    /\ db' = [db EXCEPT !.verdict[txsub[w]] = CompilerError]
    /\ scorecache' = [scorecache EXCEPT ![cell[w]] = row[w]]
    /\ rankcache' = IF RankAffected(w)
                    THEN [rankcache EXCEPT ![rank[w].team] = rank[w].value]
                    ELSE rankcache
    /\ Done(w)

WorkerStep(w) ==
    \/ \E c \in Cell : ReadSubmissions(w, c)
    \/ ReadFirst(w) \/ Replace(w)
    \/ UpdateRankOfCell(w) \/ \E t \in Team : UpdateRankOfTeam(w, t)
    \/ WriteRank(w) \/ Finish(w) \/ Commit(w)

Request(w) ==
    \/ \E s \in Submission :
          \/ Submit(w, s) \/ CompileError(w, s)
          \/ \E v \in Result : Judged(w, s, v) \/ ApplyRejudging(w, s, v)
          \/ \E value \in BOOLEAN : Verify(w, s, value) \/ UpdateStatus(w, s, value)
    \/ RefreshCache(w)

Next == \E w \in Worker : Request(w) \/ WorkerStep(w)

Spec == Init /\ [][Next]_vars

-----------------------------------------------------------------------------
CellRow == [jury : ViewRow, public : ViewRow, first : BOOLEAN]
RankValue ==
    [{"jury", "public"} -> SUBSET [problem : Problem, submissions : Nat,
                                   solvedBy : SUBSET Submission,
                                   runtimeOf : SUBSET Submission]]
RankEntry == [team : Team, value : RankValue]
Snapshot == [db : Database, cache : [Cell -> CellRow]]

TypeOK ==
    /\ db \in Database
    /\ scorecache \in [Cell -> CellRow]
    /\ rankcache \in [Team -> RankValue]
    /\ pc \in [Worker -> {"idle", "row", "first", "replace", "rank", "rankwrite", "commit"}]
    /\ todo \in [Worker -> SUBSET Cell]
    /\ ranks \in [Worker -> SUBSET Team]
    /\ updateRank \in [Worker -> BOOLEAN]
    /\ cell \in [Worker -> Cell \union {None}]
    /\ row \in [Worker -> CellRow \union {None}]
    /\ rank \in [Worker -> RankEntry \union {None}]
    /\ txsub \in [Worker -> Submission \union {None}]
    /\ view \in [Worker -> Snapshot \union {None}]

WithoutFirst(r) == [jury |-> r.jury, public |-> r.public]

Untouched(c) == \A w \in Worker : c \notin todo[w] /\ ~HoldsCell(w, c)

(* "Whenever a submission has completed judging, the scorecache is updated  *)
(* for that team and problem": when no handler is about to recalculate it,  *)
(* a cell shows the database as it is, whatever handlers ran concurrently.  *)
RowsCurrent ==
    \A c \in Cell : Untouched(c) /\ ~CellWritten(c)
        => WithoutFirst(scorecache[c]) = Row(db, c)

AllIdle == \A w \in Worker : pc[w] = "idle"

(* "The scorecache table is then used to compute the rankcache table": when *)
(* all requests have been answered, the rank of every team is the one its   *)
(* cells give.                                                              *)
RanksCurrent == AllIdle => \A t \in Team : rankcache[t] = RankRow(scorecache, t)

(* At most one team is shown as the first to solve a problem.               *)
OneFirst ==
    AllIdle => \A p \in Problem, t, u \in Team :
        scorecache[<<t, p>>].first /\ scorecache[<<u, p>>].first => t = u

(* "Is this the first solution to this problem?": a solution before which   *)
(* no other may turn out to be correct is marked as the first.              *)
FirstIsMarked ==
    AllIdle => \A c \in Cell :
        FirstToSolve(db, c, First(Solving(db, c))) => scorecache[c].first

(* "To not leak any info": what the public sees of a cell does not depend   *)
(* on any result of a submission after the freeze.                          *)
FreezeHides == \A c \in Cell : PublicRow(db, c) = PublicRow(Frozen(db), c)

=============================================================================
