--------------------------- MODULE ScoreCacheProofs ---------------------------
(****************************************************************************)
(* Proofs about the scoreboard cache, for any number of teams, problems,    *)
(* submissions and concurrent requests.                                     *)
(****************************************************************************)
EXTENDS ScoreRowLoop, FoldLemmas

----------------------------------------------------------------------------
(* What the row of a cell depends on.                                       *)

(* The rows that calculateScoreRow computes have the types of the columns.  *)
LEMMA RowType ==
    ASSUME NEW d \in Database, NEW c
    PROVE  Row(d, c) \in [jury : ViewRow, public : ViewRow]
<1>1. Submissions(d, c) \subseteq Submission
  BY DEF Submissions, Database
<1>2. \A S : S \subseteq Submission => Cardinality(S) \in Nat
  BY ScoreRowAssumption, FS_Subset, FS_CardinalityType
<1>3. JuryRow(d, c) \in ViewRow
  BY <1>1, <1>2 DEF JuryRow, ViewRow, UpToFirst, First, Solving
<1>4. PublicRow(d, c) \in ViewRow
  BY <1>1, <1>2 DEF PublicRow, ViewRow, UpToFirst, First, Solving, SolvingPublic
<1> QED BY <1>3, <1>4 DEF Row

(* The row of a cell is a function of its own submissions: their results    *)
(* and which of them are visible.                                           *)
LEMMA RowLocal ==
    ASSUME NEW d \in Database, NEW e \in Database, NEW c,
           Submissions(d, c) = Submissions(e, c),
           \A s \in Submissions(d, c) :
               d.verdict[s] = e.verdict[s] /\ (Visible(d, s) <=> Visible(e, s))
    PROVE  Row(d, c) = Row(e, c)
<1> DEFINE S == Submissions(d, c)
<1>1. Solving(d, c) = Solving(e, c)
  BY DEF Solving
<1>2. SolvingPublic(d, c) = SolvingPublic(e, c)
  BY <1>1 DEF SolvingPublic
<1>3. \A s \in S : CountSubmission(d, s) <=> CountSubmission(e, s)
  BY DEF CountSubmission
<1>4. JuryRow(d, c) = JuryRow(e, c)
  <2> DEFINE U == UpToFirst(S, Solving(d, c))
  <2>1. U \subseteq S
    BY DEF UpToFirst
  <2>2. {s \in U : Visible(d, s) /\ CountSubmission(d, s)}
          = {s \in U : Visible(e, s) /\ CountSubmission(e, s)}
    BY <2>1, <1>3
  <2>3. {s \in U : ~Visible(d, s)} = {s \in U : ~Visible(e, s)}
    BY <2>1
  <2>4. {s \in S : d.verdict[s] = Correct} = {s \in S : e.verdict[s] = Correct}
    OBVIOUS
  <2> HIDE DEF U
  <2> QED BY <2>2, <2>3, <2>4, <1>1 DEF JuryRow, U
<1>5. PublicRow(d, c) = PublicRow(e, c)
  <2> DEFINE U == UpToFirst(S, SolvingPublic(d, c))
  <2>1. U \subseteq S
    BY DEF UpToFirst
  <2>2. {s \in U : Visible(d, s) /\ CountSubmission(d, s) /\ ~AfterFreeze[s]}
          = {s \in U : Visible(e, s) /\ CountSubmission(e, s) /\ ~AfterFreeze[s]}
    BY <2>1, <1>3
  <2>3. {s \in U : PendingPublic(d, s)} = {s \in U : PendingPublic(e, s)}
    BY <2>1 DEF PendingPublic
  <2>4. {s \in S : d.verdict[s] = Correct /\ ~AfterFreeze[s]}
          = {s \in S : e.verdict[s] = Correct /\ ~AfterFreeze[s]}
    OBVIOUS
  <2> HIDE DEF U
  <2> QED BY <2>2, <2>3, <2>4, <1>2 DEF PublicRow, U
<1> QED BY <1>4, <1>5 DEF Row

(* Two databases that differ in one submission have equal rows for all      *)
(* cells but the one of this submission.                                    *)
LEMMA OtherCells ==
    ASSUME NEW d \in Database, NEW e \in Database, NEW s \in Submission,
           \A r \in Submission \ {s} :
               /\ r \in d.submitted <=> r \in e.submitted
               /\ d.valid[r] = e.valid[r]
               /\ d.verdict[r] = e.verdict[r]
               /\ d.verified[r] = e.verified[r],
           NEW c, c # <<TeamOf[s], ProblemOf[s]>>
    PROVE  Row(d, c) = Row(e, c)
<1>1. Submissions(d, c) \subseteq Submission \ {s}
  BY DEF Submissions, Database
<1>2. Submissions(d, c) = Submissions(e, c)
  BY DEF Submissions, Database
<1>3. \A r \in Submissions(d, c) :
          d.verdict[r] = e.verdict[r] /\ (Visible(d, r) <=> Visible(e, r))
  BY <1>1 DEF Visible
<1> QED BY <1>2, <1>3, RowLocal

(* The public row of a cell is the one of the database without the results  *)
(* after the freeze: calculateScoreRow leaks nothing that the freeze hides. *)
THEOREM PublicRowFrozen ==
    ASSUME NEW d \in Database, NEW c
    PROVE  PublicRow(d, c) = PublicRow(Frozen(d), c)
<1> DEFINE e == Frozen(d)
<1>1. /\ e.submitted = d.submitted /\ e.valid = d.valid /\ e.verified = d.verified
      /\ e.verdict = [s \in Submission |->
                         IF AfterFreeze[s] THEN Pending ELSE d.verdict[s]]
  BY DEF Frozen, Database
<1>2. Submissions(e, c) = Submissions(d, c) /\ Submissions(d, c) \subseteq Submission
  BY <1>1 DEF Submissions, Database
<1> HIDE DEF e
<1>3. \A s \in Submission : ~AfterFreeze[s] =>
          /\ e.verdict[s] = d.verdict[s]
          /\ Visible(e, s) <=> Visible(d, s)
          /\ CountSubmission(e, s) <=> CountSubmission(d, s)
  BY <1>1 DEF Visible, CountSubmission
<1>4. \A s \in Submission : PendingPublic(e, s) <=> PendingPublic(d, s)
  BY <1>3 DEF PendingPublic
<1>5. SolvingPublic(e, c) = SolvingPublic(d, c)
  BY <1>2, <1>3 DEF SolvingPublic, Solving
<1> DEFINE S == Submissions(d, c)
           U == UpToFirst(S, SolvingPublic(d, c))
<1>6. U \subseteq Submission
  BY <1>2 DEF UpToFirst
<1>7. {s \in U : Visible(d, s) /\ CountSubmission(d, s) /\ ~AfterFreeze[s]}
        = {s \in U : Visible(e, s) /\ CountSubmission(e, s) /\ ~AfterFreeze[s]}
  BY <1>6, <1>3
<1>8. {s \in U : PendingPublic(d, s)} = {s \in U : PendingPublic(e, s)}
  BY <1>6, <1>4
<1>9. {s \in S : d.verdict[s] = Correct /\ ~AfterFreeze[s]}
        = {s \in S : e.verdict[s] = Correct /\ ~AfterFreeze[s]}
  BY <1>2, <1>3
<1> HIDE DEF U, S
<1>10. PublicRow(d, c) = PublicRow(e, c)
  BY <1>2, <1>5, <1>7, <1>8, <1>9 DEF PublicRow, U, S
<1> QED BY <1>10 DEF e

----------------------------------------------------------------------------
(* The requests that maintain the cache.                                    *)
(* What the local variables of a request hold at each of its steps.         *)
WorkerOK(w) ==
    /\ pc[w] \in {"first", "replace", "rank", "commit"} =>
           cell[w] \in Cell /\ row[w] \in CellRow
    /\ pc[w] = "idle" => txsub[w] = None /\ ranks[w] = {}
    /\ pc[w] = "commit" => txsub[w] # None /\ (RankAffected(w) => rank[w] \in RankEntry)
    /\ pc[w] = "rankwrite" => rank[w] \in RankEntry
    /\ txsub[w] # None =>
           /\ view[w] \in Snapshot
           /\ ranks[w] = {}
           /\ pc[w] = "rankwrite" => cell[w] \in Cell /\ row[w] \in CellRow

WorkerInv == \A w \in Worker : WorkerOK(w)

IInv == TypeOK /\ WorkerInv

LEMMA WithFirstType ==
    ASSUME NEW d \in Database, NEW c, NEW first \in BOOLEAN
    PROVE  WithFirst(Row(d, c), first) \in CellRow
BY RowType DEF WithFirst, CellRow

LEMMA RankRowType ==
    ASSUME NEW cache \in [Cell -> CellRow], NEW t \in Team
    PROVE  RankRow(cache, t) \in RankValue
<1>1. ASSUME NEW variant \in {"jury", "public"}, NEW p \in Solved(cache, t, variant)
      PROVE  p \in Problem /\ cache[<<t, p>>][variant] \in ViewRow
  BY <1>1 DEF Solved, Cell, CellRow
<1> DEFINE Part == [problem : Problem, submissions : Nat,
                    solvedBy : SUBSET Submission, runtimeOf : SUBSET Submission]
           part(variant, p) ==
               [problem |-> p, submissions |-> cache[<<t, p>>][variant].submissions,
                solvedBy |-> cache[<<t, p>>][variant].solvedBy,
                runtimeOf |-> cache[<<t, p>>][variant].runtimeOf]
           parts(variant) == {part(variant, p) : p \in Solved(cache, t, variant)}
<1>2. ASSUME NEW variant \in {"jury", "public"}, NEW p \in Solved(cache, t, variant)
      PROVE  part(variant, p) \in Part
  BY <1>1, <1>2 DEF ViewRow
<1> HIDE DEF Part, part
<1>3. ASSUME NEW variant \in {"jury", "public"} PROVE parts(variant) \in SUBSET Part
  BY <1>2, <1>3
<1>4. RankRow(cache, t) = [variant \in {"jury", "public"} |-> parts(variant)]
  BY DEF RankRow, part
<1> HIDE DEF parts
<1>5. RankValue = [{"jury", "public"} -> SUBSET Part]
  BY DEF RankValue, Part
<1> QED BY <1>3, <1>4, <1>5

LEMMA InitIInv == Init => IInv
<1> SUFFICES ASSUME Init PROVE IInv
  OBVIOUS
<1>1. db \in Database
  BY DEF Init, Database
<1>2. scorecache \in [Cell -> CellRow]
  BY <1>1, WithFirstType DEF Init
<1>3. rankcache \in [Team -> RankValue]
  BY <1>2, RankRowType DEF Init
<1> QED BY <1>1, <1>2, <1>3 DEF Init, IInv, TypeOK, WorkerInv, WorkerOK

(* A change of the database by a request, which goes on to recalculate.     *)
LEMMA RecalculateIInv ==
    ASSUME IInv, NEW w \in Worker, NEW cells \in SUBSET Cell, NEW teams \in SUBSET Team,
           NEW withRank \in BOOLEAN, Recalculate(w, cells, teams, withRank),
           db' \in Database
    PROVE  IInv'
<1> USE DEF IInv, Recalculate
<1>1. TypeOK'
  BY DEF TypeOK
<1>2. ASSUME NEW x \in Worker PROVE WorkerOK(x)'
  BY DEF TypeOK, WorkerInv, WorkerOK, RankAffected
<1> QED BY <1>1, <1>2 DEF WorkerInv

LEMMA CellOfType == \A s \in Submission : {CellOf(s)} \in SUBSET Cell
BY ScoreRowAssumption DEF CellOf, Cell

LEMMA SubmitType ==
    ASSUME IInv, NEW s \in Submission, NEW w \in Worker, Submit(w, s)
    PROVE  db' \in Database
BY DEF Submit, IInv, TypeOK, Database

LEMMA VerdictType ==
    ASSUME IInv, NEW s \in Submission, NEW v \in Result
    PROVE  [db EXCEPT !.verdict[s] = v] \in Database
BY DEF IInv, TypeOK, Database

LEMMA VerifiedType ==
    ASSUME IInv, NEW s \in Submission, NEW value \in BOOLEAN
    PROVE  [db EXCEPT !.verified[s] = value] \in Database
BY DEF IInv, TypeOK, Database

LEMMA ValidType ==
    ASSUME IInv, NEW s \in Submission, NEW value \in BOOLEAN
    PROVE  [db EXCEPT !.valid[s] = value] \in Database
BY DEF IInv, TypeOK, Database

LEMMA RejudgedType ==
    ASSUME IInv, NEW s \in Submission, NEW v \in Result
    PROVE  [db EXCEPT !.verdict[s] = v, !.verified[s] = FALSE] \in Database
BY DEF IInv, TypeOK, Database

LEMMA RequestIInv ==
    ASSUME IInv, NEW w \in Worker, Request(w)
    PROVE  IInv'
<1>1. ASSUME NEW s \in Submission, Submit(w, s) PROVE IInv'
  BY <1>1, SubmitType, RecalculateIInv, CellOfType DEF Submit
<1>2. ASSUME NEW s \in Submission, CompileError(w, s) PROVE IInv'
  <2>1. [db |-> [db EXCEPT !.verdict[s] = CompilerError], cache |-> scorecache] \in Snapshot
    BY VerdictType DEF IInv, TypeOK, Snapshot, Result
  <2> DEFINE snap == [db |-> [db EXCEPT !.verdict[s] = CompilerError], cache |-> scorecache]
  <2>2. view' = [view EXCEPT ![w] = snap]
    BY <1>2 DEF CompileError
  <2> HIDE DEF snap
  <2>3. TypeOK'
    BY <1>2, <2>1, <2>2, CellOfType DEF CompileError, IInv, TypeOK, snap
  <2>4. ASSUME NEW x \in Worker PROVE WorkerOK(x)'
    BY <1>2, <2>1, <2>2 DEF CompileError, IInv, TypeOK, WorkerInv, WorkerOK, RankAffected, snap
  <2> QED BY <2>3, <2>4 DEF IInv, WorkerInv
<1>3. ASSUME NEW s \in Submission, NEW v \in Result, Judged(w, s, v) PROVE IInv'
  BY <1>3, VerdictType, RecalculateIInv, CellOfType DEF Judged
<1>4. ASSUME NEW s \in Submission, NEW v \in Result, ApplyRejudging(w, s, v) PROVE IInv'
  <2>1. Team \X {ProblemOf[s]} \in SUBSET Cell
    BY ScoreRowAssumption DEF Cell
  <2> QED BY <1>4, <2>1, RejudgedType, RecalculateIInv DEF ApplyRejudging, RankedAfterRejudging
<1>5. ASSUME NEW s \in Submission, NEW value \in BOOLEAN, Verify(w, s, value) PROVE IInv'
  <2>1. Team \X {ProblemOf[s]} \in SUBSET Cell
    BY ScoreRowAssumption DEF Cell
  <2>2. db' \in Database
    BY <1>5, VerifiedType DEF Verify
  <2>3. CASE VerificationRequired
    BY <1>5, <2>1, <2>2, <2>3, RecalculateIInv DEF Verify
  <2>4. CASE ~VerificationRequired
    BY <1>5, <2>2, <2>4 DEF Verify, workerVars, IInv, TypeOK, WorkerInv, WorkerOK, RankAffected
  <2> QED BY <2>3, <2>4
<1>6. ASSUME NEW s \in Submission, NEW value \in BOOLEAN, UpdateStatus(w, s, value)
      PROVE  IInv'
  BY <1>6, ValidType, RecalculateIInv, CellOfType DEF UpdateStatus
<1>7. CASE RefreshCache(w)
  <2>1. db' \in Database
    BY <1>7 DEF RefreshCache, IInv, TypeOK
  <2> QED BY <1>7, <2>1, RecalculateIInv DEF RefreshCache
<1> QED BY <1>1, <1>2, <1>3, <1>4, <1>5, <1>6, <1>7 DEF Request

(* A step of the recalculation.                                             *)
LEMMA StepIInv ==
    ASSUME IInv, NEW w \in Worker, WorkerStep(w)
    PROVE  IInv'
<1>1. ReadDb(w) \in Database
  BY DEF ReadDb, InTransaction, IInv, TypeOK, WorkerInv, WorkerOK, Snapshot
<1>2. ASSUME NEW c \in Cell, ReadSubmissions(w, c) PROVE IInv'
  <2> DEFINE new == WithFirst(Row(ReadDb(w), c), FALSE)
  <2>1. new \in CellRow
    BY <1>1, WithFirstType
  <2>2. row' = [row EXCEPT ![w] = new]
    BY <1>2 DEF ReadSubmissions
  <2> HIDE DEF new
  <2>3. TypeOK'
    <3>1. /\ UNCHANGED <<db, scorecache, rankcache, ranks, updateRank, rank, txsub, view>>
          /\ todo' = [todo EXCEPT ![w] = @ \ {c}]
          /\ cell' = [cell EXCEPT ![w] = c]
          /\ pc' = [pc EXCEPT ![w] = "first"]
      BY <1>2 DEF ReadSubmissions
    <3> QED BY <2>1, <2>2, <3>1 DEF IInv, TypeOK
  <2>4. ASSUME NEW x \in Worker PROVE WorkerOK(x)'
    BY <1>2, <2>1, <2>2 DEF ReadSubmissions, IInv, TypeOK, WorkerInv, WorkerOK, RankAffected
  <2> QED BY <2>3, <2>4 DEF IInv, WorkerInv
<1>3. CASE ReadFirst(w)
  <2> DEFINE new == WithFirst(row[w], FirstToSolve(ReadDb(w), cell[w], row[w].jury.solvedBy))
  <2>1. row[w] \in CellRow
    BY <1>3 DEF ReadFirst, IInv, WorkerInv, WorkerOK
  <2>2. new \in CellRow
    BY <2>1 DEF WithFirst, CellRow, FirstToSolve
  <2>3. row' = [row EXCEPT ![w] = new]
    BY <1>3 DEF ReadFirst
  <2> HIDE DEF new
  <2>4. TypeOK'
    BY <1>3, <2>2, <2>3 DEF ReadFirst, IInv, TypeOK
  <2>5. ASSUME NEW x \in Worker PROVE WorkerOK(x)'
    BY <1>3, <2>2, <2>3 DEF ReadFirst, IInv, TypeOK, WorkerInv, WorkerOK, RankAffected
  <2> QED BY <2>4, <2>5 DEF IInv, WorkerInv
<1>4. CASE Replace(w)
  <2>1. cell[w] \in Cell /\ row[w] \in CellRow
    BY <1>4 DEF Replace, IInv, WorkerInv, WorkerOK
  <2>2. scorecache' \in [Cell -> CellRow]
    BY <1>4, <2>1 DEF Replace, IInv, TypeOK
  <2>3. TypeOK'
    <3>1. Continue(w) \in {"row", "commit"}
      BY DEF Continue
    <3> QED BY <1>4, <2>2, <3>1 DEF Replace, IInv, TypeOK
  <2>4. ASSUME NEW x \in Worker PROVE WorkerOK(x)'
    BY <1>4, <2>1 DEF Replace, Continue, InTransaction, RankAffected, IInv, TypeOK,
                      WorkerInv, WorkerOK
  <2> QED BY <2>3, <2>4 DEF IInv, WorkerInv
<1>5. ASSUME NEW t \in Team, ReadCells(w, t),
             ranks' = ranks \/ ranks' = [ranks EXCEPT ![w] = @ \ {t}],
             pc[w] \in {"rank", "row"},
             txsub[w] # None => pc[w] = "rank"
      PROVE  IInv'
  <2>1. ReadCache(w) \in [Cell -> CellRow]
    <3>1. CASE txsub[w] = None
      BY <3>1 DEF ReadCache, InTransaction, IInv, TypeOK
    <3>2. CASE txsub[w] # None
      <4>1. view[w].cache \in [Cell -> CellRow] /\ cell[w] \in Cell /\ row[w] \in CellRow
        BY <1>5, <3>2 DEF IInv, WorkerInv, WorkerOK, Snapshot
      <4> QED BY <3>2, <4>1 DEF ReadCache, InTransaction
    <3> QED BY <3>1, <3>2
  <2> DEFINE new == [team |-> t, value |-> RankRow(ReadCache(w), t)]
  <2>2. new \in RankEntry
    BY <2>1, RankRowType DEF RankEntry
  <2>3. rank' = [rank EXCEPT ![w] = new]
    BY <1>5 DEF ReadCells
  <2> HIDE DEF new
  <2>4. TypeOK'
    BY <1>5, <2>2, <2>3 DEF ReadCells, IInv, TypeOK
  <2>5. ASSUME NEW x \in Worker PROVE WorkerOK(x)'
    BY <1>5, <2>2, <2>3 DEF ReadCells, IInv, TypeOK, WorkerInv, WorkerOK, RankAffected
  <2> QED BY <2>4, <2>5 DEF IInv, WorkerInv
<1>6. CASE UpdateRankOfCell(w)
  <2>1. cell[w] \in Cell
    BY <1>6 DEF UpdateRankOfCell, IInv, WorkerInv, WorkerOK
  <2>2. cell[w][1] \in Team
    BY <2>1 DEF Cell
  <2> QED BY <1>5, <1>6, <2>2 DEF UpdateRankOfCell
<1>7. ASSUME NEW t \in Team, UpdateRankOfTeam(w, t) PROVE IInv'
  <2>1. txsub[w] = None
    BY <1>7 DEF UpdateRankOfTeam, IInv, WorkerInv, WorkerOK
  <2> QED BY <1>5, <1>7, <2>1 DEF UpdateRankOfTeam
<1>8. CASE WriteRank(w)
  <2>1. rank[w] \in RankEntry
    BY <1>8 DEF WriteRank, IInv, WorkerInv, WorkerOK
  <2>2. TypeOK'
    BY <1>8, <2>1 DEF WriteRank, Continue, IInv, TypeOK, RankEntry
  <2>3. ASSUME NEW x \in Worker PROVE WorkerOK(x)'
    BY <1>8, <2>1 DEF WriteRank, Continue, InTransaction, RankAffected, IInv, TypeOK,
                      WorkerInv, WorkerOK
  <2> QED BY <2>2, <2>3 DEF IInv, WorkerInv
<1>9. ASSUME Done(w), db' \in Database, scorecache' \in [Cell -> CellRow],
             rankcache' \in [Team -> RankValue], ranks[w] = {}
      PROVE  IInv'
  <2>1. TypeOK'
    BY <1>9 DEF Done, IInv, TypeOK
  <2>2. ASSUME NEW x \in Worker PROVE WorkerOK(x)'
    BY <1>9 DEF Done, RankAffected, IInv, TypeOK, WorkerInv, WorkerOK
  <2> QED BY <2>1, <2>2 DEF IInv, WorkerInv
<1>10. CASE Finish(w)
  BY <1>9, <1>10 DEF Finish, IInv, TypeOK
<1>11. CASE Commit(w)
  <2>1. /\ cell[w] \in Cell /\ row[w] \in CellRow /\ txsub[w] \in Submission
        /\ ranks[w] = {}
        /\ RankAffected(w) => rank[w] \in RankEntry
    BY <1>11 DEF Commit, IInv, TypeOK, WorkerInv, WorkerOK
  <2>2. db' \in Database
    BY <1>11, <2>1, VerdictType DEF Commit, Result
  <2>3. scorecache' \in [Cell -> CellRow]
    BY <1>11, <2>1 DEF Commit, IInv, TypeOK
  <2>4. rankcache' \in [Team -> RankValue]
    BY <1>11, <2>1 DEF Commit, IInv, TypeOK, RankEntry
  <2> QED BY <1>9, <1>11, <2>1, <2>2, <2>3, <2>4 DEF Commit
<1> QED BY <1>2, <1>3, <1>4, <1>6, <1>7, <1>8, <1>10, <1>11 DEF WorkerStep

LEMMA NextIInv == IInv /\ [Next]_vars => IInv'
<1>1. ASSUME IInv, Next PROVE IInv'
  BY <1>1, RequestIInv, StepIInv DEF Next
<1>2. ASSUME IInv, UNCHANGED vars PROVE IInv'
  BY <1>2 DEF vars, workerVars, IInv, TypeOK, WorkerInv, WorkerOK, RankAffected
<1> QED BY <1>1, <1>2

(* The scoreboard cache keeps its types.                                    *)
THEOREM TypeCorrect == Spec => []TypeOK
<1>1. IInv => TypeOK
  BY DEF IInv
<1> QED BY InitIInv, NextIInv, <1>1, PTL DEF Spec

(* The freeze hides what it must, in every reachable state.                 *)
THEOREM FreezeLeaksNothing == Spec => []FreezeHides
<1>1. IInv => FreezeHides
  BY PublicRowFrozen DEF IInv, TypeOK, FreezeHides
<1> QED BY InitIInv, NextIInv, <1>1, PTL DEF Spec

-----------------------------------------------------------------------------
(* Concurrent requests and the current content of the score rows.  Without  *)
(* the transactional handler of compiler errors, the advisory locks make    *)
(* the last writer of a row the one that read last.                         *)

Due(c) == \E w \in Worker : c \in todo[w]

Settled(c) ==
    /\ CellFree(c) => WithoutFirst(scorecache[c]) = Row(db, c)
    /\ \A w \in Worker : HoldsCell(w, c) => WithoutFirst(row[w]) = Row(db, c)

LockExclusive ==
    \A w, x \in Worker, c \in Cell : HoldsCell(w, c) /\ HoldsCell(x, c) => w = x

RInv ==
    /\ \A w \in Worker : txsub[w] = None
    /\ \A w \in Worker : pc[w] = "idle" => todo[w] = {}
    /\ LockExclusive
    /\ \A c \in Cell : Due(c) \/ Settled(c)

LEMMA WithoutFirstOf ==
    ASSUME NEW d, NEW c, NEW first
    PROVE  WithoutFirst(WithFirst(Row(d, c), first)) = Row(d, c)
BY DEF WithoutFirst, WithFirst, Row

LEMMA InitRInv == Init => RInv
<1> SUFFICES ASSUME Init PROVE RInv
  OBVIOUS
<1>1. /\ \A w \in Worker : pc[w] = "idle" /\ txsub[w] = None /\ todo[w] = {}
      /\ scorecache = [c \in Cell |-> WithFirst(Row(db, c), FALSE)]
  BY DEF Init
<1>2. \A w \in Worker, c \in Cell : ~HoldsCell(w, c)
  BY <1>1 DEF HoldsCell
<1>3. \A c \in Cell : WithoutFirst(scorecache[c]) = Row(db, c)
  BY <1>1, WithoutFirstOf
<1> QED BY <1>1, <1>2, <1>3 DEF RInv, LockExclusive, Settled

(* A request that recalculates all the cells it may have changed.           *)
LEMMA RecalculateRInv ==
    ASSUME IInv, RInv, NEW w \in Worker, NEW cells \in SUBSET Cell, NEW teams,
           NEW withRank, Recalculate(w, cells, teams, withRank),
           \A c \in Cell \ cells : Row(db', c) = Row(db, c)
    PROVE  RInv'
<1> USE DEF Recalculate
<1>1. /\ pc' = [pc EXCEPT ![w] = "row"] /\ pc[w] = "idle"
      /\ pc \in [Worker -> {"idle", "row", "first", "replace", "rank", "rankwrite", "commit"}]
  BY DEF IInv, TypeOK
<1>2. \A x \in Worker, c \in Cell : HoldsCell(x, c)' <=> HoldsCell(x, c)
  BY <1>1 DEF HoldsCell
<1>3. LockExclusive'
  BY <1>2 DEF LockExclusive, RInv
<1>4. todo \in [Worker -> SUBSET Cell] /\ todo[w] = {}
  BY <1>1 DEF IInv, TypeOK, RInv
<1>5. ASSUME NEW c \in Cell PROVE Due(c)' \/ Settled(c)'
  <2>1. CASE c \in cells
    BY <2>1, <1>4 DEF Due
  <2>2. CASE Due(c)
    BY <2>2, <1>4 DEF Due
  <2>3. CASE c \notin cells /\ Settled(c)
    <3>1. Row(db', c) = Row(db, c)
      BY <2>3
    <3>2. CellFree(c)' <=> CellFree(c)
      BY <1>2 DEF CellFree
    <3> QED BY <2>3, <3>1, <3>2, <1>2 DEF Settled
  <2> QED BY <2>1, <2>2, <2>3 DEF RInv
<1> QED BY <1>1, <1>3, <1>4, <1>5 DEF RInv

(* A change of one submission in the database.                              *)
Changes(s) ==
    \A r \in Submission \ {s} :
        /\ r \in db.submitted <=> r \in db'.submitted
        /\ db.valid[r] = db'.valid[r]
        /\ db.verdict[r] = db'.verdict[r]
        /\ db.verified[r] = db'.verified[r]

LEMMA ChangesOneCell ==
    ASSUME db \in Database, db' \in Database, NEW s \in Submission, Changes(s)
    PROVE  \A c \in Cell : c # CellOf(s) => Row(db', c) = Row(db, c)
BY OtherCells DEF Changes, CellOf

LEMMA RequestRInv ==
    ASSUME IInv, RInv, "compileError" \notin Operations, NEW w \in Worker, Request(w)
    PROVE  RInv'
<1>1. db \in Database
  BY DEF IInv, TypeOK
<1>2. ASSUME NEW s \in Submission, Submit(w, s) PROVE RInv'
  <2>1. db' \in Database
    BY <1>2, SubmitType
  <2>2. Changes(s)
    BY <1>1, <1>2 DEF Submit, Changes, Database
  <2>3. \A c \in Cell \ {CellOf(s)} : Row(db', c) = Row(db, c)
    BY <1>1, <2>1, <2>2, ChangesOneCell
  <2> QED BY <1>2, <2>3, CellOfType, RecalculateRInv DEF Submit
<1>3. ASSUME NEW s \in Submission, NEW v \in Result, Judged(w, s, v) PROVE RInv'
  <2>1. db' \in Database
    BY <1>3, VerdictType DEF Judged
  <2>2. Changes(s)
    BY <1>1, <1>3 DEF Judged, Changes, Database
  <2>3. \A c \in Cell \ {CellOf(s)} : Row(db', c) = Row(db, c)
    BY <1>1, <2>1, <2>2, ChangesOneCell
  <2> QED BY <1>3, <2>3, CellOfType, RecalculateRInv DEF Judged
<1>4. ASSUME NEW s \in Submission, NEW v \in Result, ApplyRejudging(w, s, v) PROVE RInv'
  <2>1. db' \in Database
    BY <1>4, RejudgedType DEF ApplyRejudging
  <2>2. /\ Team \X {ProblemOf[s]} \in SUBSET Cell
        /\ \A c \in Cell \ (Team \X {ProblemOf[s]}) : c # CellOf(s)
    BY ScoreRowAssumption DEF Cell, CellOf
  <2>3. Changes(s)
    BY <1>1, <1>4 DEF ApplyRejudging, Changes, Database
  <2>4. \A c \in Cell \ (Team \X {ProblemOf[s]}) : Row(db', c) = Row(db, c)
    BY <1>1, <2>1, <2>2, <2>3, ChangesOneCell
  <2> QED BY <1>4, <2>2, <2>4, RecalculateRInv DEF ApplyRejudging
<1>5. ASSUME NEW s \in Submission, NEW value \in BOOLEAN, Verify(w, s, value) PROVE RInv'
  <2>1. db' \in Database
    BY <1>5, VerifiedType DEF Verify
  <2>2. CASE VerificationRequired
    <3>1. /\ Team \X {ProblemOf[s]} \in SUBSET Cell
          /\ \A c \in Cell \ (Team \X {ProblemOf[s]}) : c # CellOf(s)
      BY ScoreRowAssumption DEF Cell, CellOf
    <3>2. Changes(s)
      BY <1>1, <1>5 DEF Verify, Changes, Database
    <3>3. \A c \in Cell \ (Team \X {ProblemOf[s]}) : Row(db', c) = Row(db, c)
      BY <1>1, <2>1, <3>1, <3>2, ChangesOneCell
    <3> QED BY <1>5, <2>2, <3>1, <3>3, RecalculateRInv DEF Verify
  <2>3. CASE ~VerificationRequired
    <3>1. /\ db'.submitted = db.submitted /\ db'.valid = db.valid
          /\ db'.verdict = db.verdict
      BY <1>1, <1>5 DEF Verify, Database
    <3>2. \A c \in Cell : Row(db', c) = Row(db, c)
      <4> TAKE c \in Cell
      <4>1. Submissions(db', c) = Submissions(db, c)
        BY <3>1 DEF Submissions
      <4>2. \A r : Visible(db', r) <=> Visible(db, r)
        BY <2>3, <3>1 DEF Visible
      <4> QED BY <1>1, <2>1, <3>1, <4>1, <4>2, RowLocal
    <3>3. UNCHANGED <<scorecache, pc, todo, cell, row, txsub>>
      BY <1>5, <2>3 DEF Verify, workerVars
    <3>4. \A x \in Worker, c \in Cell : HoldsCell(x, c)' <=> HoldsCell(x, c)
      BY <3>3 DEF HoldsCell
    <3> QED BY <3>2, <3>3, <3>4 DEF RInv, LockExclusive, Due, Settled, CellFree
  <2> QED BY <2>2, <2>3
<1>6. ASSUME NEW s \in Submission, NEW value \in BOOLEAN, UpdateStatus(w, s, value)
      PROVE  RInv'
  <2>1. db' \in Database
    BY <1>6, ValidType DEF UpdateStatus
  <2>2. Changes(s)
    BY <1>1, <1>6 DEF UpdateStatus, Changes, Database
  <2>3. \A c \in Cell \ {CellOf(s)} : Row(db', c) = Row(db, c)
    BY <1>1, <2>1, <2>2, ChangesOneCell
  <2> QED BY <1>6, <2>3, CellOfType, RecalculateRInv DEF UpdateStatus
<1>7. CASE RefreshCache(w)
  <2>1. \A c \in Cell \ Cell : Row(db', c) = Row(db, c)
    OBVIOUS
  <2> QED BY <1>7, <2>1, RecalculateRInv DEF RefreshCache
<1> QED BY <1>2, <1>3, <1>4, <1>5, <1>6, <1>7 DEF Request, CompileError

(* A step of the recalculation of any cell.                                 *)
LEMMA StepRInv ==
    ASSUME IInv, RInv, NEW w \in Worker, WorkerStep(w)
    PROVE  RInv'
<1> DEFINE PC == {"idle", "row", "first", "replace", "rank", "rankwrite", "commit"}
<1>1. /\ pc \in [Worker -> PC] /\ todo \in [Worker -> SUBSET Cell]
      /\ row \in [Worker -> CellRow \union {None}]
      /\ cell \in [Worker -> Cell \union {None}]
      /\ scorecache \in [Cell -> CellRow]
      /\ txsub \in [Worker -> Submission \union {None}]
      /\ \A x \in Worker : txsub[x] = None
  BY DEF IInv, TypeOK, RInv
<1>2. ReadDb(w) = db /\ ~InTransaction(w) /\ Continue(w) = "row"
  BY <1>1 DEF ReadDb, InTransaction, Continue
<1>3. pc[w] # "commit"
  BY <1>1 DEF IInv, WorkerInv, WorkerOK
(* Steps that neither touch the rows nor hold or take a lock of a cell.     *)
<1>4. ASSUME UNCHANGED <<db, scorecache, todo>>, txsub' \in [Worker -> {None}],
             \A x \in Worker, c \in Cell : HoldsCell(x, c)' <=> HoldsCell(x, c),
             \A x \in Worker, c \in Cell : HoldsCell(x, c) => row'[x] = row[x],
             \A x \in Worker : pc'[x] = "idle" => todo[x] = {}
      PROVE  RInv'
  <2>1. LockExclusive'
    BY <1>4 DEF LockExclusive, RInv
  <2>2. ASSUME NEW c \in Cell PROVE Due(c)' \/ Settled(c)'
    <3>1. CellFree(c)' <=> CellFree(c)
      BY <1>4 DEF CellFree
    <3>2. CASE Due(c)
      BY <1>4, <3>2 DEF Due
    <3>3. CASE Settled(c)
      BY <1>4, <3>1, <3>3 DEF Settled
    <3> QED BY <3>2, <3>3 DEF RInv
  <2> QED BY <1>4, <2>1, <2>2 DEF RInv
<1>5. ASSUME NEW c \in Cell, ReadSubmissions(w, c) PROVE RInv'
  <2> DEFINE new == WithFirst(Row(db, c), FALSE)
  <2>1. /\ row' = [row EXCEPT ![w] = new]
        /\ UNCHANGED <<db, scorecache, txsub>>
        /\ todo' = [todo EXCEPT ![w] = @ \ {c}]
        /\ cell' = [cell EXCEPT ![w] = c]
        /\ pc' = [pc EXCEPT ![w] = "first"] /\ pc[w] = "row"
        /\ CellFree(c)
    BY <1>2, <1>5 DEF ReadSubmissions
  <2>2. WithoutFirst(new) = Row(db, c)
    BY WithoutFirstOf
  <2> HIDE DEF new
  <2>3. /\ \A x \in Worker, d \in Cell :
               HoldsCell(x, d)' <=> HoldsCell(x, d) \/ (x = w /\ d = c)
        /\ \A d \in Cell : ~HoldsCell(w, d)
    BY <1>1, <2>1 DEF HoldsCell
  <2>4. LockExclusive'
    BY <2>1, <2>3 DEF LockExclusive, RInv, CellFree
  <2>5. Settled(c)'
    BY <1>1, <2>1, <2>2, <2>3 DEF Settled, CellFree
  <2>6. ASSUME NEW d \in Cell, d # c PROVE Due(d)' \/ Settled(d)'
    <3>1. CASE Due(d)
      BY <1>1, <2>1, <2>6, <3>1 DEF Due
    <3>2. CASE Settled(d)
      <4>1. CellFree(d)' <=> CellFree(d)
        BY <2>3, <2>6 DEF CellFree
      <4> QED BY <1>1, <2>1, <2>3, <2>6, <3>2, <4>1 DEF Settled
    <3> QED BY <3>1, <3>2 DEF RInv
  <2>7. \A x \in Worker : pc'[x] = "idle" => todo'[x] = {}
    BY <1>1, <2>1 DEF RInv
  <2> QED BY <1>1, <2>1, <2>4, <2>5, <2>6, <2>7 DEF RInv
<1>6. CASE ReadFirst(w)
  <2> DEFINE first == FirstToSolve(ReadDb(w), cell[w], row[w].jury.solvedBy)
  <2>1. /\ row' = [row EXCEPT ![w] = WithFirst(row[w], first)]
        /\ UNCHANGED <<db, scorecache, todo, cell, txsub>>
        /\ pc' = [pc EXCEPT ![w] = "replace"] /\ pc[w] = "first"
    BY <1>6 DEF ReadFirst
  <2> HIDE DEF first
  <2>2. WithoutFirst(WithFirst(row[w], first)) = WithoutFirst(row[w])
    BY DEF WithoutFirst, WithFirst
  <2>3. \A x \in Worker, c \in Cell : HoldsCell(x, c)' <=> HoldsCell(x, c)
    BY <1>1, <2>1 DEF HoldsCell
  <2>4. \A x \in Worker : WithoutFirst(row'[x]) = WithoutFirst(row[x])
    BY <1>1, <2>1, <2>2
  <2>5. LockExclusive'
    BY <2>3 DEF LockExclusive, RInv
  <2>6. ASSUME NEW c \in Cell PROVE Due(c)' \/ Settled(c)'
    <3>1. CellFree(c)' <=> CellFree(c)
      BY <2>3 DEF CellFree
    <3>2. CASE Due(c)
      BY <2>1, <3>2 DEF Due
    <3>3. CASE Settled(c)
      BY <2>1, <2>3, <2>4, <3>1, <3>3 DEF Settled
    <3> QED BY <3>2, <3>3 DEF RInv
  <2>7. \A x \in Worker : pc'[x] = "idle" => todo'[x] = {}
    BY <1>1, <2>1 DEF RInv
  <2> QED BY <1>1, <2>1, <2>5, <2>6, <2>7 DEF RInv
<1>7. CASE Replace(w)
  <2> DEFINE c == cell[w]
  <2>1. c \in Cell /\ HoldsCell(w, c)
    BY <1>7 DEF Replace, IInv, WorkerInv, WorkerOK, HoldsCell
  <2>2. /\ UNCHANGED <<db, row, todo, cell, txsub>>
        /\ scorecache' = [scorecache EXCEPT ![c] = row[w]]
        /\ \E next \in {"rank", "row"} : pc' = [pc EXCEPT ![w] = next]
    BY <1>2, <1>7 DEF Replace
  <2>3. \A x \in Worker, d \in Cell : HoldsCell(x, d)' <=> HoldsCell(x, d) /\ x # w
    BY <1>1, <2>2 DEF HoldsCell
  <2>4. LockExclusive'
    BY <2>3 DEF LockExclusive, RInv
  <2>5. ASSUME NEW d \in Cell PROVE Due(d)' \/ Settled(d)'
    <3>1. CASE Due(d)
      BY <2>2, <3>1 DEF Due
    <3>2. CASE Settled(d) /\ d = c
      <4>1. WithoutFirst(scorecache'[c]) = Row(db, c)
        BY <1>1, <2>1, <2>2, <3>2 DEF Settled
      <4> QED BY <2>2, <2>3, <3>2, <4>1 DEF Settled
    <3>3. CASE Settled(d) /\ d # c
      <4>1. ~HoldsCell(w, d)
        BY <3>3 DEF HoldsCell
      <4>2. CellFree(d)' <=> CellFree(d)
        BY <2>3, <4>1 DEF CellFree
      <4>3. scorecache'[d] = scorecache[d]
        BY <1>1, <2>2, <3>3
      <4> QED BY <2>2, <2>3, <3>3, <4>2, <4>3 DEF Settled
    <3> QED BY <3>1, <3>2, <3>3 DEF RInv
  <2>6. \A x \in Worker : pc'[x] = "idle" => todo'[x] = {}
    BY <1>1, <2>2 DEF RInv
  <2> QED BY <1>1, <2>2, <2>4, <2>5, <2>6 DEF RInv
<1>8. ASSUME NEW t, ReadCells(w, t), pc[w] \in {"rank", "row"} PROVE RInv'
  <2>1. /\ UNCHANGED <<db, scorecache, todo, cell, row, txsub>>
        /\ pc' = [pc EXCEPT ![w] = "rankwrite"]
    BY <1>8 DEF ReadCells
  <2>2. \A x \in Worker, c \in Cell : HoldsCell(x, c)' <=> HoldsCell(x, c)
    BY <1>1, <1>8, <2>1 DEF HoldsCell
  <2>3. \A x \in Worker : pc'[x] = "idle" => todo[x] = {}
    BY <1>1, <2>1 DEF RInv
  <2> QED BY <1>1, <1>4, <2>1, <2>2, <2>3
<1>9. CASE WriteRank(w)
  <2>1. /\ UNCHANGED <<db, scorecache, todo, cell, row, txsub>>
        /\ pc' = [pc EXCEPT ![w] = "row"] /\ pc[w] = "rankwrite"
    BY <1>2, <1>9 DEF WriteRank
  <2>2. \A x \in Worker, c \in Cell : HoldsCell(x, c)' <=> HoldsCell(x, c)
    BY <1>1, <2>1 DEF HoldsCell
  <2>3. \A x \in Worker : pc'[x] = "idle" => todo[x] = {}
    BY <1>1, <2>1 DEF RInv
  <2> QED BY <1>1, <1>4, <2>1, <2>2, <2>3
<1>10. CASE Finish(w)
  <2>1. /\ UNCHANGED <<db, scorecache, todo>>
        /\ cell' = [cell EXCEPT ![w] = None] /\ row' = [row EXCEPT ![w] = None]
        /\ txsub' = [txsub EXCEPT ![w] = None]
        /\ pc' = [pc EXCEPT ![w] = "idle"] /\ pc[w] = "row" /\ todo[w] = {}
    BY <1>10 DEF Finish, Done
  <2>2. \A x \in Worker, c \in Cell : HoldsCell(x, c)' <=> HoldsCell(x, c)
    BY <1>1, <2>1 DEF HoldsCell
  <2>3. \A x \in Worker, c \in Cell : HoldsCell(x, c) => row'[x] = row[x]
    BY <1>1, <2>1 DEF HoldsCell
  <2>4. \A x \in Worker : pc'[x] = "idle" => todo[x] = {}
    BY <1>1, <2>1 DEF RInv
  <2> QED BY <1>1, <1>4, <2>1, <2>2, <2>3, <2>4
<1> QED BY <1>3, <1>5, <1>6, <1>7, <1>8, <1>9, <1>10
        DEF WorkerStep, UpdateRankOfCell, UpdateRankOfTeam, Commit

LEMMA NextRInv ==
    ASSUME "compileError" \notin Operations
    PROVE  IInv /\ RInv /\ [Next]_vars => RInv'
<1>1. ASSUME IInv, RInv, Next PROVE RInv'
  BY <1>1, RequestRInv, StepRInv DEF Next
<1>2. ASSUME RInv, UNCHANGED vars PROVE RInv'
  BY <1>2 DEF vars, workerVars, RInv, LockExclusive, Due, Settled, CellFree, HoldsCell
<1> QED BY <1>1, <1>2

(* Without compiler errors, whichever requests change the database and      *)
(* recalculate at the same time, a cell that no request is about to         *)
(* recalculate shows the database as it is: the locks of calculateScoreRow  *)
(* lose no update.                                                          *)
THEOREM RowsStayCurrent ==
    ASSUME "compileError" \notin Operations
    PROVE  Spec => []RowsCurrent
<1>1. IInv /\ RInv => RowsCurrent
  BY DEF RInv, RowsCurrent, Untouched, Due, Settled, CellFree
<1>2. IInv /\ RInv /\ [Next]_vars => RInv'
  BY NextRInv
<1> QED BY InitIInv, InitRInv, NextIInv, <1>1, <1>2, PTL DEF Spec

-----------------------------------------------------------------------------
(* The ranks.  A row of rankcache has to change only with the solved cells  *)
(* of its team.  calculateScoreRow updates it when the new row is solved;   *)
(* that is enough as long as no solved cell becomes unsolved, or the        *)
(* request that makes it so updates all ranks at its end.                   *)

(* A set of submissions has a first one.                                    *)
LEMMA FirstExists ==
    ASSUME NEW S, S \subseteq Submission, S # {}
    PROVE  First(S) # {}
<1> DEFINE R == OpToRel(<, Nat)
<1>1. IsWellFoundedOn(R, Nat)
  BY NatLessThanWellFounded
<1>2. S \subseteq Nat
  BY ScoreRowAssumption
<1> HIDE DEF R
<1>3. PICK s \in S : \A r \in S : ~(<<r, s>> \in R)
  BY <1>1, <1>2, WFMin
<1>4. \A r \in S : ~(r < s)
  BY <1>2, <1>3 DEF R, OpToRel
<1> QED BY <1>2, <1>4 DEF First

(* Whoever has solved by r has solved by q.                                 *)
KeepsSolved(r, q) ==
    \A variant \in {"jury", "public"} : r[variant].solvedBy # {} => q[variant].solvedBy # {}

LEMMA MoreSolved ==
    ASSUME NEW d \in Database, NEW e \in Database, NEW c,
           Solving(d, c) \subseteq Solving(e, c)
    PROVE  KeepsSolved(Row(d, c), Row(e, c))
<1>1. Solving(e, c) \subseteq Submission /\ SolvingPublic(e, c) \subseteq Submission
  BY DEF SolvingPublic, Solving, Submissions, Database
<1>2. SolvingPublic(d, c) \subseteq SolvingPublic(e, c)
  BY DEF SolvingPublic
<1>3. First(Solving(d, c)) # {} => First(Solving(e, c)) # {}
  BY <1>1, FirstExists DEF First
<1>4. First(SolvingPublic(d, c)) # {} => First(SolvingPublic(e, c)) # {}
  BY <1>1, <1>2, FirstExists DEF First
<1>5. \A f \in {d, e} : /\ Row(f, c)["jury"].solvedBy = First(Solving(f, c))
                        /\ Row(f, c)["public"].solvedBy = First(SolvingPublic(f, c))
  BY DEF Row, JuryRow, PublicRow
<1> QED BY <1>3, <1>4, <1>5 DEF KeepsSolved

(* The row of rankcache is a function of the solved cells of its team.      *)
LEMMA RankRowLocal ==
    ASSUME NEW a, NEW b, NEW t,
           \A p \in Problem : \/ a[<<t, p>>] = b[<<t, p>>]
                              \/ \A variant \in {"jury", "public"} :
                                    /\ a[<<t, p>>][variant].solvedBy = {}
                                    /\ b[<<t, p>>][variant].solvedBy = {}
    PROVE  RankRow(a, t) = RankRow(b, t)
<1> DEFINE part(cache, variant, p) ==
               [problem |-> p, submissions |-> cache[<<t, p>>][variant].submissions,
                solvedBy |-> cache[<<t, p>>][variant].solvedBy,
                runtimeOf |-> cache[<<t, p>>][variant].runtimeOf]
           parts(cache, variant) == {part(cache, variant, p) : p \in Solved(cache, t, variant)}
<1>1. ASSUME NEW variant \in {"jury", "public"}
      PROVE  parts(a, variant) = parts(b, variant)
  <2>1. Solved(a, t, variant) = Solved(b, t, variant)
    BY <1>1 DEF Solved
  <2>2. \A p \in Solved(a, t, variant) : part(a, variant, p) = part(b, variant, p)
    BY <1>1 DEF Solved
  <2> HIDE DEF part
  <2> QED BY <2>1, <2>2
<1>2. /\ RankRow(a, t) = [variant \in {"jury", "public"} |-> parts(a, variant)]
      /\ RankRow(b, t) = [variant \in {"jury", "public"} |-> parts(b, variant)]
  BY DEF RankRow
<1> HIDE DEF parts
<1> QED BY <1>1, <1>2

(* A request that recalculates the cell, and the rank of its team later.    *)
Ranked(w, c) == c[1] \in ranks[w] /\ (c \in todo[w] \/ HoldsCell(w, c))

SomeRanked(c) == \E x \in Worker : Ranked(x, c)

DueAndRanked(c) == \E x \in Worker : c \in todo[x] /\ c[1] \in ranks[x]

(* Whether a cell is solved is lost only by requests that update all ranks. *)
SolvedInv ==
    /\ \A c \in Cell : KeepsSolved(scorecache[c], Row(db, c)) \/ SomeRanked(c)
    /\ \A w \in Worker, c \in Cell : HoldsCell(w, c) =>
          /\ KeepsSolved(scorecache[c], row[w]) \/ SomeRanked(c)
          /\ KeepsSolved(row[w], Row(db, c)) \/ DueAndRanked(c)
    /\ \A w \in Worker, c \in Cell :
          (c \in todo[w] \/ HoldsCell(w, c)) => updateRank[w] \/ c[1] \in ranks[w]

RankDue(t) == \E w \in Worker : t \in ranks[w] \/ (pc[w] = "rank" /\ cell[w][1] = t)

RankSettled(t) ==
    /\ RankFree(t) => rankcache[t] = RankRow(scorecache, t)
    /\ \A w \in Worker : HoldsRank(w, t) => rank[w].value = RankRow(scorecache, t)

(* Every rank is to be updated, or the one of the rows of the team, or      *)
(* about to be overwritten by it.                                           *)
RankInv ==
    /\ \A w, x \in Worker, t \in Team : HoldsRank(w, t) /\ HoldsRank(x, t) => w = x
    /\ \A t \in Team : RankDue(t) \/ RankSettled(t)

LEMMA InitRankInv == Init => SolvedInv /\ RankInv
<1> SUFFICES ASSUME Init PROVE SolvedInv /\ RankInv
  OBVIOUS
<1>1. /\ \A w \in Worker : pc[w] = "idle" /\ todo[w] = {}
      /\ scorecache = [c \in Cell |-> WithFirst(Row(db, c), FALSE)]
      /\ rankcache = [t \in Team |-> RankRow(scorecache, t)]
  BY DEF Init
<1>2. \A w \in Worker : (\A c \in Cell : ~HoldsCell(w, c)) /\ \A t \in Team : ~HoldsRank(w, t)
  BY <1>1 DEF HoldsCell, HoldsRank
<1>3. ASSUME NEW c \in Cell PROVE KeepsSolved(scorecache[c], Row(db, c))
  <2>1. scorecache[c] = WithFirst(Row(db, c), FALSE)
    BY <1>1
  <2> QED BY <2>1 DEF KeepsSolved, WithFirst, Row
<1>4. SolvedInv
  BY <1>1, <1>2, <1>3 DEF SolvedInv
<1>5. RankInv
  BY <1>1, <1>2 DEF RankInv, RankSettled
<1> QED BY <1>4, <1>5

(* A request that keeps all solved cells solved, but for those whose teams  *)
(* get new ranks at its end.                                                *)
LEMMA RecalculateRank ==
    ASSUME IInv, RInv, SolvedInv, RankInv, NEW w \in Worker, NEW cells \in SUBSET Cell,
           NEW teams \in SUBSET Team, NEW withRank,
           Recalculate(w, cells, teams, withRank),
           withRank \/ \A c \in cells : c[1] \in teams,
           \A c \in Cell : \/ KeepsSolved(Row(db, c), Row(db', c))
                           \/ c \in cells /\ c[1] \in teams
    PROVE  SolvedInv' /\ RankInv'
<1>1. /\ pc' = [pc EXCEPT ![w] = "row"] /\ pc[w] = "idle"
      /\ todo' = [todo EXCEPT ![w] = cells] /\ todo[w] = {}
      /\ ranks' = [ranks EXCEPT ![w] = teams] /\ ranks[w] = {}
      /\ updateRank' = [updateRank EXCEPT ![w] = withRank]
      /\ UNCHANGED <<scorecache, rankcache, cell, row, rank>>
      /\ pc \in [Worker -> {"idle", "row", "first", "replace", "rank", "rankwrite", "commit"}]
      /\ todo \in [Worker -> SUBSET Cell] /\ ranks \in [Worker -> SUBSET Team]
      /\ updateRank \in [Worker -> BOOLEAN]
  BY DEF Recalculate, IInv, TypeOK, RInv, WorkerInv, WorkerOK
<1>2. /\ \A x \in Worker, c \in Cell : HoldsCell(x, c)' <=> HoldsCell(x, c)
      /\ \A c \in Cell : ~HoldsCell(w, c)
      /\ \A x \in Worker, t \in Team : HoldsRank(x, t)' <=> HoldsRank(x, t)
  BY <1>1 DEF HoldsCell, HoldsRank
<1>3. \A x \in Worker, c \in Cell : Ranked(x, c) => Ranked(x, c)'
  BY <1>1, <1>2 DEF Ranked
<1>4. \A c \in Cell : /\ SomeRanked(c) => SomeRanked(c)'
                      /\ DueAndRanked(c) => DueAndRanked(c)'
                      /\ c \in cells /\ c[1] \in teams => SomeRanked(c)' /\ DueAndRanked(c)'
  BY <1>1, <1>3 DEF SomeRanked, DueAndRanked, Ranked
<1>5. SolvedInv'
  <2>1. ASSUME NEW c \in Cell PROVE (KeepsSolved(scorecache[c], Row(db, c)) \/ SomeRanked(c))'
    <3>1. KeepsSolved(scorecache[c], Row(db, c)) \/ SomeRanked(c)
      BY DEF SolvedInv
    <3> QED BY <1>1, <1>4, <3>1 DEF KeepsSolved
  <2>2. ASSUME NEW x \in Worker, NEW c \in Cell, HoldsCell(x, c)'
        PROVE  /\ (KeepsSolved(scorecache[c], row[x]) \/ SomeRanked(c))'
               /\ (KeepsSolved(row[x], Row(db, c)) \/ DueAndRanked(c))'
    <3>1. /\ KeepsSolved(scorecache[c], row[x]) \/ SomeRanked(c)
          /\ KeepsSolved(row[x], Row(db, c)) \/ DueAndRanked(c)
      BY <1>2, <2>2 DEF SolvedInv
    <3> QED BY <1>1, <1>4, <3>1 DEF KeepsSolved
  <2>3. ASSUME NEW x \in Worker, NEW c \in Cell, (c \in todo[x] \/ HoldsCell(x, c))'
        PROVE  (updateRank[x] \/ c[1] \in ranks[x])'
    BY <1>1, <1>2, <2>3 DEF SolvedInv
  <2> QED BY <2>1, <2>2, <2>3 DEF SolvedInv
<1>6. RankInv'
  <2>1. ASSUME NEW t \in Team PROVE (RankDue(t) \/ RankSettled(t))'
    <3>1. CASE RankDue(t)
      BY <1>1, <3>1 DEF RankDue
    <3>2. CASE RankSettled(t)
      BY <1>1, <1>2, <3>2 DEF RankSettled, RankFree
    <3> QED BY <3>1, <3>2 DEF RankInv
  <2> QED BY <1>2, <2>1 DEF RankInv
<1> QED BY <1>5, <1>6

LEMMA SameKeepsSolved == \A r : KeepsSolved(r, r)
BY DEF KeepsSolved

(* Requests that do not take solutions away from the cells: submissions     *)
(* stay valid and, where verification is required, verified.                *)
LEMMA RequestRank ==
    ASSUME IInv, RInv, SolvedInv, RankInv,
           Operations \intersect {"compileError", "status"} = {},
           VerificationRequired => "unverify" \notin Operations,
           NEW w \in Worker, Request(w)
    PROVE  SolvedInv' /\ RankInv'
<1>1. db \in Database
  BY DEF IInv, TypeOK
<1>2. ASSUME NEW s \in Submission, Submit(w, s) PROVE SolvedInv' /\ RankInv'
  <2>1. db' \in Database
    BY <1>2, SubmitType
  <2>2. \A c \in Cell : Solving(db, c) \subseteq Solving(db', c)
    BY <1>1, <1>2 DEF Submit, Solving, Submissions, Visible, Database
  <2>3. \A c \in Cell : KeepsSolved(Row(db, c), Row(db', c))
    BY <1>1, <2>1, <2>2, MoreSolved
  <2> QED BY <1>2, <2>3, CellOfType, RecalculateRank DEF Submit
<1>3. ASSUME NEW s \in Submission, NEW v \in Result, Judged(w, s, v)
      PROVE  SolvedInv' /\ RankInv'
  <2>1. db' \in Database
    BY <1>3, VerdictType DEF Judged
  <2>2. /\ db'.submitted = db.submitted /\ db'.valid = db.valid
        /\ db'.verified = db.verified
        /\ db'.verdict = [db.verdict EXCEPT ![s] = v] /\ db.verdict[s] = Pending
    BY <1>1, <1>3 DEF Judged, Unjudged, Database
  <2>3. \A c \in Cell : Solving(db, c) \subseteq Solving(db', c)
    BY <1>1, <2>2, ScoreRowAssumption DEF Solving, Submissions, Visible, Database
  <2>4. \A c \in Cell : KeepsSolved(Row(db, c), Row(db', c))
    BY <1>1, <2>1, <2>3, MoreSolved
  <2> QED BY <1>3, <2>4, CellOfType, RecalculateRank DEF Judged
<1>4. ASSUME NEW s \in Submission, NEW v \in Result, ApplyRejudging(w, s, v)
      PROVE  SolvedInv' /\ RankInv'
  <2>1. db' \in Database
    BY <1>4, RejudgedType DEF ApplyRejudging
  <2>2. /\ Team \X {ProblemOf[s]} \in SUBSET Cell
        /\ \A c \in Cell \ (Team \X {ProblemOf[s]}) : c # CellOf(s)
        /\ \A c \in Cell : c[1] \in Team
    BY ScoreRowAssumption DEF Cell, CellOf
  <2>3. Changes(s)
    BY <1>1, <1>4 DEF ApplyRejudging, Changes, Database
  <2>4. \A c \in Cell \ (Team \X {ProblemOf[s]}) : Row(db', c) = Row(db, c)
    BY <1>1, <2>1, <2>2, <2>3, ChangesOneCell
  <2>5. \A c \in Cell : \/ KeepsSolved(Row(db, c), Row(db', c))
                        \/ c \in Team \X {ProblemOf[s]} /\ c[1] \in Team
    BY <2>2, <2>4, SameKeepsSolved
  <2> QED BY <1>4, <2>2, <2>5, RecalculateRank DEF ApplyRejudging, RankedAfterRejudging
<1>5. ASSUME NEW s \in Submission, NEW value \in BOOLEAN, Verify(w, s, value)
      PROVE  SolvedInv' /\ RankInv'
  <2>1. db' \in Database
    BY <1>5, VerifiedType DEF Verify
  <2>2. /\ db'.submitted = db.submitted /\ db'.valid = db.valid
        /\ db'.verdict = db.verdict
        /\ db'.verified = [db.verified EXCEPT ![s] = value]
    BY <1>1, <1>5 DEF Verify, Database
  <2>3. VerificationRequired => value
    BY <1>5 DEF Verify
  <2>4. \A c \in Cell : Solving(db, c) \subseteq Solving(db', c)
    BY <1>1, <2>2, <2>3 DEF Solving, Submissions, Visible, Database
  <2>5. \A c \in Cell : KeepsSolved(Row(db, c), Row(db', c))
    BY <1>1, <2>1, <2>4, MoreSolved
  <2>6. CASE VerificationRequired
    <3>1. Team \X {ProblemOf[s]} \in SUBSET Cell
      BY ScoreRowAssumption DEF Cell
    <3> QED BY <1>5, <2>5, <2>6, <3>1, RecalculateRank DEF Verify
  <2>7. CASE ~VerificationRequired
    <3>1. UNCHANGED <<scorecache, rankcache, pc, todo, ranks, updateRank, cell, row, rank>>
      BY <1>5, <2>7 DEF Verify, workerVars
    <3>2. /\ \A x \in Worker, c \in Cell : HoldsCell(x, c)' <=> HoldsCell(x, c)
          /\ \A x \in Worker, t \in Team : HoldsRank(x, t)' <=> HoldsRank(x, t)
      BY <3>1 DEF HoldsCell, HoldsRank
    <3>3. \A c \in Cell : (SomeRanked(c)' <=> SomeRanked(c)) /\ (DueAndRanked(c)' <=> DueAndRanked(c))
      BY <3>1, <3>2 DEF SomeRanked, Ranked, DueAndRanked
    <3>4. ASSUME NEW c \in Cell, NEW r, KeepsSolved(r, Row(db, c))
          PROVE  KeepsSolved(r, Row(db', c))
      BY <2>5, <3>4 DEF KeepsSolved
    <3>5. SolvedInv'
      BY <3>1, <3>2, <3>3, <3>4 DEF SolvedInv
    <3>6. RankInv'
      BY <3>1, <3>2 DEF RankInv, RankDue, RankSettled, RankFree
    <3> QED BY <3>5, <3>6
  <2> QED BY <2>6, <2>7
<1>6. CASE RefreshCache(w)
  <2>1. \A c \in Cell : c[1] \in Team /\ KeepsSolved(Row(db, c), Row(db', c))
    BY <1>6, SameKeepsSolved DEF RefreshCache, Cell
  <2> QED BY <1>6, <2>1, RecalculateRank DEF RefreshCache
<1> QED BY <1>2, <1>3, <1>4, <1>5, <1>6 DEF Request, CompileError, UpdateStatus

(* The recalculation of a cell.                                             *)
LEMMA StepSolved ==
    ASSUME IInv, RInv, SolvedInv, NEW w \in Worker, WorkerStep(w)
    PROVE  SolvedInv'
<1> DEFINE PC == {"idle", "row", "first", "replace", "rank", "rankwrite", "commit"}
<1>1. /\ pc \in [Worker -> PC] /\ todo \in [Worker -> SUBSET Cell]
      /\ ranks \in [Worker -> SUBSET Team]
      /\ row \in [Worker -> CellRow \union {None}]
      /\ cell \in [Worker -> Cell \union {None}]
      /\ scorecache \in [Cell -> CellRow]
      /\ \A x \in Worker : txsub[x] = None
  BY DEF IInv, TypeOK, RInv
<1>2. ReadDb(w) = db /\ ~InTransaction(w) /\ Continue(w) = "row"
  BY <1>1 DEF ReadDb, InTransaction, Continue
<1>3. pc[w] # "commit"
  BY <1>1 DEF IInv, WorkerInv, WorkerOK
(* Steps that change no row, lock of a cell or plan of a request, but that  *)
(* a request may be done with the ranks of a team it has no cells of.       *)
<1>4. ASSUME UNCHANGED <<db, scorecache, todo, updateRank>>,
             \A x \in Worker, c \in Cell : HoldsCell(x, c)' <=> HoldsCell(x, c),
             \A x \in Worker, c \in Cell : HoldsCell(x, c) =>
                 \A r : /\ KeepsSolved(row'[x], r) <=> KeepsSolved(row[x], r)
                        /\ KeepsSolved(r, row'[x]) <=> KeepsSolved(r, row[x]),
             \A x \in Worker, c \in Cell : (c \in todo[x] \/ HoldsCell(x, c))
                 => (c[1] \in ranks'[x] <=> c[1] \in ranks[x])
      PROVE  SolvedInv'
  <2>1. \A c \in Cell : (SomeRanked(c)' <=> SomeRanked(c)) /\ (DueAndRanked(c)' <=> DueAndRanked(c))
    BY <1>4 DEF SomeRanked, Ranked, DueAndRanked
  <2>2. \A c \in Cell : (KeepsSolved(scorecache[c], Row(db, c)) \/ SomeRanked(c))'
    BY <1>4, <2>1 DEF SolvedInv
  <2>3. ASSUME NEW x \in Worker, NEW c \in Cell, HoldsCell(x, c)'
        PROVE  /\ (KeepsSolved(scorecache[c], row[x]) \/ SomeRanked(c))'
               /\ (KeepsSolved(row[x], Row(db, c)) \/ DueAndRanked(c))'
    BY <1>4, <2>1, <2>3 DEF SolvedInv
  <2>4. ASSUME NEW x \in Worker, NEW c \in Cell, (c \in todo[x] \/ HoldsCell(x, c))'
        PROVE  (updateRank[x] \/ c[1] \in ranks[x])'
    BY <1>4, <2>4 DEF SolvedInv
  <2> QED BY <2>2, <2>3, <2>4 DEF SolvedInv
<1>5. ASSUME NEW c \in Cell, ReadSubmissions(w, c) PROVE SolvedInv'
  <2> DEFINE new == WithFirst(Row(db, c), FALSE)
  <2>1. /\ row' = [row EXCEPT ![w] = new]
        /\ UNCHANGED <<db, scorecache, ranks, updateRank>>
        /\ todo' = [todo EXCEPT ![w] = @ \ {c}] /\ c \in todo[w]
        /\ cell' = [cell EXCEPT ![w] = c]
        /\ pc' = [pc EXCEPT ![w] = "first"] /\ pc[w] = "row"
        /\ CellFree(c)
    BY <1>2, <1>5 DEF ReadSubmissions
  <2>2. /\ KeepsSolved(new, Row(db, c))
        /\ \A r : KeepsSolved(r, Row(db, c)) => KeepsSolved(r, new)
    BY DEF KeepsSolved, WithFirst, Row
  <2> HIDE DEF new
  <2>3. /\ \A x \in Worker, d \in Cell :
               HoldsCell(x, d)' <=> HoldsCell(x, d) \/ (x = w /\ d = c)
        /\ \A d \in Cell : ~HoldsCell(w, d)
        /\ \A x \in Worker : ~HoldsCell(x, c)
    BY <1>1, <2>1 DEF HoldsCell, CellFree
  <2>4. \A d \in Cell : SomeRanked(d) => SomeRanked(d)'
    BY <1>1, <2>1, <2>3 DEF SomeRanked, Ranked
  <2>5. \A d \in Cell : d # c /\ DueAndRanked(d) => DueAndRanked(d)'
    BY <1>1, <2>1 DEF DueAndRanked
  <2>6. \A d \in Cell : (KeepsSolved(scorecache[d], Row(db, d)) \/ SomeRanked(d))'
    BY <2>1, <2>4 DEF SolvedInv
  <2>7. ASSUME NEW x \in Worker, NEW d \in Cell, HoldsCell(x, d)'
        PROVE  /\ (KeepsSolved(scorecache[d], row[x]) \/ SomeRanked(d))'
               /\ (KeepsSolved(row[x], Row(db, d)) \/ DueAndRanked(d))'
    <3>1. CASE x = w /\ d = c
      <4>1. row'[w] = new
        BY <1>1, <2>1
      <4> QED BY <2>1, <2>2, <2>4, <3>1, <4>1 DEF SolvedInv
    <3>2. CASE HoldsCell(x, d)
      <4>1. x # w /\ d # c /\ row'[x] = row[x]
        BY <1>1, <2>1, <2>3, <3>2
      <4> QED BY <2>1, <2>4, <2>5, <3>2, <4>1 DEF SolvedInv
    <3> QED BY <2>3, <2>7, <3>1, <3>2
  <2>8. ASSUME NEW x \in Worker, NEW d \in Cell, (d \in todo[x] \/ HoldsCell(x, d))'
        PROVE  (updateRank[x] \/ d[1] \in ranks[x])'
    BY <1>1, <2>1, <2>3, <2>8 DEF SolvedInv
  <2> QED BY <2>6, <2>7, <2>8 DEF SolvedInv
<1>6. CASE ReadFirst(w)
  <2> DEFINE first == FirstToSolve(ReadDb(w), cell[w], row[w].jury.solvedBy)
  <2>1. /\ row' = [row EXCEPT ![w] = WithFirst(row[w], first)]
        /\ UNCHANGED <<db, scorecache, todo, ranks, updateRank, cell>>
        /\ pc' = [pc EXCEPT ![w] = "replace"] /\ pc[w] = "first"
    BY <1>6 DEF ReadFirst
  <2> HIDE DEF first
  <2>2. /\ WithFirst(row[w], first)["jury"] = row[w]["jury"]
        /\ WithFirst(row[w], first)["public"] = row[w]["public"]
    BY DEF WithFirst
  <2>3. \A x \in Worker, c \in Cell : HoldsCell(x, c)' <=> HoldsCell(x, c)
    BY <1>1, <2>1 DEF HoldsCell
  <2>4. ASSUME NEW x \in Worker, NEW r
        PROVE  /\ KeepsSolved(row'[x], r) <=> KeepsSolved(row[x], r)
               /\ KeepsSolved(r, row'[x]) <=> KeepsSolved(r, row[x])
    BY <1>1, <2>1, <2>2 DEF KeepsSolved
  <2> QED BY <1>4, <2>1, <2>3, <2>4
<1>7. CASE Replace(w)
  <2> DEFINE c == cell[w]
  <2>1. c \in Cell /\ HoldsCell(w, c)
    BY <1>7 DEF Replace, IInv, WorkerInv, WorkerOK, HoldsCell
  <2>2. /\ UNCHANGED <<db, row, todo, ranks, updateRank, cell>>
        /\ scorecache' = [scorecache EXCEPT ![c] = row[w]]
        /\ \E next \in {"rank", "row"} : pc' = [pc EXCEPT ![w] = next]
    BY <1>2, <1>7 DEF Replace
  <2>3. \A x \in Worker, d \in Cell : HoldsCell(x, d)' <=> HoldsCell(x, d) /\ x # w
    BY <1>1, <2>2 DEF HoldsCell
  <2>4. \A d \in Cell : d # c => ~HoldsCell(w, d)
    BY DEF HoldsCell
  <2>5. \A x \in Worker : x # w => ~HoldsCell(x, c)
    BY <2>1 DEF RInv, LockExclusive
  <2> HIDE DEF c
  <2>6. \A d \in Cell : DueAndRanked(d) => DueAndRanked(d)' /\ SomeRanked(d)'
    BY <2>2 DEF DueAndRanked, SomeRanked, Ranked
  <2>7. \A d \in Cell : d # c /\ SomeRanked(d) => SomeRanked(d)'
    BY <2>2, <2>3, <2>4 DEF SomeRanked, Ranked
  <2>8. ASSUME NEW d \in Cell
        PROVE  (KeepsSolved(scorecache[d], Row(db, d)) \/ SomeRanked(d))'
    <3>1. CASE d = c
      <4>1. scorecache'[c] = row[w]
        BY <1>1, <2>1, <2>2
      <4> QED BY <2>1, <2>2, <2>6, <3>1, <4>1 DEF SolvedInv
    <3>2. CASE d # c
      <4>1. scorecache'[d] = scorecache[d]
        BY <1>1, <2>2, <3>2
      <4> QED BY <2>2, <2>7, <3>2, <4>1 DEF SolvedInv
    <3> QED BY <3>1, <3>2
  <2>9. ASSUME NEW x \in Worker, NEW d \in Cell, HoldsCell(x, d)'
        PROVE  /\ (KeepsSolved(scorecache[d], row[x]) \/ SomeRanked(d))'
               /\ (KeepsSolved(row[x], Row(db, d)) \/ DueAndRanked(d))'
    <3>1. HoldsCell(x, d) /\ x # w /\ d # c
      BY <2>3, <2>5, <2>9
    <3>2. scorecache'[d] = scorecache[d]
      BY <1>1, <2>2, <3>1
    <3> QED BY <2>2, <2>6, <2>7, <3>1, <3>2 DEF SolvedInv
  <2>10. ASSUME NEW x \in Worker, NEW d \in Cell, (d \in todo[x] \/ HoldsCell(x, d))'
         PROVE  (updateRank[x] \/ d[1] \in ranks[x])'
    BY <2>2, <2>3, <2>10 DEF SolvedInv
  <2> QED BY <2>8, <2>9, <2>10 DEF SolvedInv
<1>8. ASSUME NEW t \in Team, ReadCells(w, t), pc[w] \in {"rank", "row"},
             \/ UNCHANGED ranks
             \/ ranks' = [ranks EXCEPT ![w] = @ \ {t}] /\ \A c \in todo[w] : c[1] # t
      PROVE  SolvedInv'
  <2>1. /\ UNCHANGED <<db, scorecache, todo, updateRank, cell, row>>
        /\ pc' = [pc EXCEPT ![w] = "rankwrite"]
    BY <1>8 DEF ReadCells
  <2>2. \A x \in Worker, c \in Cell : /\ HoldsCell(x, c)' <=> HoldsCell(x, c)
                                      /\ HoldsCell(x, c) => x # w
    BY <1>1, <1>8, <2>1 DEF HoldsCell
  <2>3. \A x \in Worker, c \in Cell : (c \in todo[x] \/ HoldsCell(x, c))
            => (c[1] \in ranks'[x] <=> c[1] \in ranks[x])
    BY <1>1, <1>8, <2>2
  <2> QED BY <1>4, <2>1, <2>2, <2>3
<1>9. CASE UpdateRankOfCell(w)
  <2>1. cell[w][1] \in Team
    BY <1>9 DEF UpdateRankOfCell, IInv, WorkerInv, WorkerOK, Cell
  <2> QED BY <1>8, <1>9, <2>1 DEF UpdateRankOfCell
<1>10. ASSUME NEW t \in Team, UpdateRankOfTeam(w, t) PROVE SolvedInv'
  BY <1>8, <1>10 DEF UpdateRankOfTeam
<1>11. CASE WriteRank(w)
  <2>1. /\ UNCHANGED <<db, scorecache, todo, ranks, updateRank, cell, row>>
        /\ pc' = [pc EXCEPT ![w] = "row"] /\ pc[w] = "rankwrite"
    BY <1>2, <1>11 DEF WriteRank
  <2>2. \A x \in Worker, c \in Cell : HoldsCell(x, c)' <=> HoldsCell(x, c)
    BY <1>1, <2>1 DEF HoldsCell
  <2> QED BY <1>4, <2>1, <2>2
<1>12. CASE Finish(w)
  <2>1. /\ UNCHANGED <<db, scorecache, todo, ranks, updateRank>>
        /\ cell' = [cell EXCEPT ![w] = None] /\ row' = [row EXCEPT ![w] = None]
        /\ pc' = [pc EXCEPT ![w] = "idle"] /\ pc[w] = "row"
    BY <1>12 DEF Finish, Done
  <2>2. /\ \A x \in Worker, c \in Cell : HoldsCell(x, c)' <=> HoldsCell(x, c)
        /\ \A x \in Worker, c \in Cell : HoldsCell(x, c) => row'[x] = row[x]
    BY <1>1, <2>1 DEF HoldsCell
  <2> QED BY <1>4, <2>1, <2>2
<1> QED BY <1>3, <1>5, <1>6, <1>7, <1>9, <1>10, <1>11, <1>12 DEF WorkerStep, Commit

(* The rank of a team, while cells and ranks are written.                   *)
LEMMA StepRank ==
    ASSUME IInv, RInv, SolvedInv, RankInv, NEW w \in Worker, WorkerStep(w)
    PROVE  RankInv'
<1> DEFINE PC == {"idle", "row", "first", "replace", "rank", "rankwrite", "commit"}
<1>1. /\ pc \in [Worker -> PC] /\ ranks \in [Worker -> SUBSET Team]
      /\ cell \in [Worker -> Cell \union {None}]
      /\ rank \in [Worker -> RankEntry \union {None}]
      /\ scorecache \in [Cell -> CellRow]
      /\ rankcache \in [Team -> RankValue]
      /\ \A x \in Worker : txsub[x] = None
  BY DEF IInv, TypeOK, RInv
<1>2. ~InTransaction(w) /\ Continue(w) = "row" /\ ReadCache(w) = scorecache
  BY <1>1 DEF InTransaction, Continue, ReadCache
<1>3. pc[w] # "commit"
  BY <1>1 DEF IInv, WorkerInv, WorkerOK
(* Steps that leave the caches, the locks of ranks and what is due alone.   *)
<1>4. ASSUME UNCHANGED <<rankcache, ranks>>,
             \A x \in Worker, t \in Team : HoldsRank(x, t)' <=> HoldsRank(x, t),
             \A x \in Worker, t \in Team : HoldsRank(x, t) => rank'[x] = rank[x],
             \A x \in Worker : pc[x] = "rank" => pc'[x] = "rank" /\ cell'[x] = cell[x],
             \A t \in Team : RankDue(t)' \/ RankRow(scorecache', t) = RankRow(scorecache, t)
      PROVE  RankInv'
  <2>1. ASSUME NEW t \in Team PROVE (RankDue(t) \/ RankSettled(t))'
    <3>1. CASE RankDue(t)
      BY <1>4, <3>1 DEF RankDue
    <3>2. CASE RankSettled(t) /\ RankRow(scorecache', t) = RankRow(scorecache, t)
      BY <1>4, <3>2 DEF RankSettled, RankFree
    <3> QED BY <1>4, <3>1, <3>2 DEF RankInv
  <2> QED BY <1>4, <2>1 DEF RankInv
<1>5. ASSUME NEW c \in Cell, ReadSubmissions(w, c) PROVE RankInv'
  <2>1. /\ UNCHANGED <<rankcache, scorecache, ranks, rank>>
        /\ cell' = [cell EXCEPT ![w] = c]
        /\ pc' = [pc EXCEPT ![w] = "first"] /\ pc[w] = "row"
    BY <1>5 DEF ReadSubmissions
  <2>2. \A x \in Worker, t \in Team : HoldsRank(x, t)' <=> HoldsRank(x, t)
    BY <1>1, <2>1 DEF HoldsRank
  <2> QED BY <1>1, <1>4, <2>1, <2>2
<1>6. CASE ReadFirst(w)
  <2>1. /\ UNCHANGED <<rankcache, scorecache, ranks, rank, cell>>
        /\ pc' = [pc EXCEPT ![w] = "replace"] /\ pc[w] = "first"
    BY <1>6 DEF ReadFirst
  <2>2. \A x \in Worker, t \in Team : HoldsRank(x, t)' <=> HoldsRank(x, t)
    BY <1>1, <2>1 DEF HoldsRank
  <2> QED BY <1>1, <1>4, <2>1, <2>2
<1>7. CASE Replace(w)
  <2> DEFINE c == cell[w]
  <2>1. /\ c \in Cell /\ HoldsCell(w, c) /\ c[1] \in Team
        /\ row[w] \in CellRow
    BY <1>7 DEF Replace, IInv, WorkerInv, WorkerOK, HoldsCell, Cell
  <2>2. /\ UNCHANGED <<rankcache, ranks, rank, cell>>
        /\ scorecache' = [scorecache EXCEPT ![c] = row[w]]
        /\ pc' = [pc EXCEPT ![w] = IF RankAffected(w) THEN "rank" ELSE "row"]
        /\ pc[w] = "replace"
    BY <1>2, <1>7 DEF Replace
  <2>3. \A x \in Worker, t \in Team : HoldsRank(x, t)' <=> HoldsRank(x, t)
    BY <1>1, <2>2 DEF HoldsRank
  <2>4. ASSUME NEW t \in Team
        PROVE  RankDue(t)' \/ RankRow(scorecache', t) = RankRow(scorecache, t)
    <3>1. CASE t # c[1]
      <4>1. \A p \in Problem : scorecache'[<<t, p>>] = scorecache[<<t, p>>]
        BY <1>1, <2>2, <3>1
      <4> QED BY <4>1, RankRowLocal
    <3>2. CASE t = c[1] /\ RankAffected(w)
      BY <1>1, <2>2, <3>2 DEF RankDue
    <3>3. CASE t = c[1] /\ \E x \in Worker : t \in ranks[x]
      BY <2>2, <3>3 DEF RankDue
    <3>4. CASE t = c[1] /\ ~RankAffected(w) /\ \A x \in Worker : t \notin ranks[x]
      <4>1. updateRank[w]
        BY <2>1, <3>4 DEF SolvedInv
      <4>2. KeepsSolved(scorecache[c], row[w])
        BY <2>1, <3>4 DEF SolvedInv, SomeRanked, Ranked
      <4>3. row[w]["jury"].solvedBy = {} /\ row[w]["public"].solvedBy = {}
        BY <3>4, <4>1 DEF RankAffected
      <4>4. \A variant \in {"jury", "public"} :
                row[w][variant].solvedBy = {} /\ scorecache[c][variant].solvedBy = {}
        BY <4>2, <4>3 DEF KeepsSolved
      <4>5. \A d \in Cell : d = c \/ scorecache'[d] = scorecache[d]
        BY <1>1, <2>2
      <4>6. scorecache'[c] = row[w]
        BY <1>1, <2>1, <2>2
      <4>7. \A p \in Problem : <<t, p>> \in Cell
        BY DEF Cell
      <4> HIDE DEF c
      <4>8. \A p \in Problem :
                \/ scorecache'[<<t, p>>] = scorecache[<<t, p>>]
                \/ \A variant \in {"jury", "public"} :
                      /\ scorecache'[<<t, p>>][variant].solvedBy = {}
                      /\ scorecache[<<t, p>>][variant].solvedBy = {}
        BY <4>4, <4>5, <4>6, <4>7
      <4> QED BY <4>8, RankRowLocal
    <3> QED BY <3>1, <3>2, <3>3, <3>4
  <2> QED BY <1>1, <1>4, <2>2, <2>3, <2>4
<1>8. ASSUME NEW t \in Team, ReadCells(w, t),
             \/ pc[w] = "rank" /\ cell[w][1] = t /\ UNCHANGED ranks
             \/ pc[w] = "row" /\ ranks' = [ranks EXCEPT ![w] = @ \ {t}]
      PROVE  RankInv'
  <2> DEFINE new == [team |-> t, value |-> RankRow(scorecache, t)]
  <2>1. /\ UNCHANGED <<rankcache, scorecache, cell>>
        /\ rank' = [rank EXCEPT ![w] = new]
        /\ pc' = [pc EXCEPT ![w] = "rankwrite"]
        /\ RankFree(t)
    BY <1>2, <1>8 DEF ReadCells
  <2>2. new.team = t /\ new.value = RankRow(scorecache, t)
    OBVIOUS
  <2> HIDE DEF new
  <2>3. rank'[w] = new /\ \A x \in Worker : x # w => rank'[x] = rank[x]
    BY <1>1, <2>1
  <2>4. /\ \A x \in Worker, u \in Team :
               HoldsRank(x, u)' <=> HoldsRank(x, u) \/ (x = w /\ u = t)
        /\ \A u \in Team : ~HoldsRank(w, u)
        /\ \A x \in Worker : ~HoldsRank(x, t)
    BY <1>1, <1>8, <2>1, <2>2, <2>3 DEF HoldsRank, RankFree
  <2>5. RankSettled(t)'
    BY <2>1, <2>2, <2>3, <2>4 DEF RankSettled, RankFree
  <2>6. ASSUME NEW u \in Team, u # t PROVE (RankDue(u) \/ RankSettled(u))'
    <3>1. CASE RankDue(u)
      BY <1>1, <1>8, <2>1, <2>6, <3>1 DEF RankDue
    <3>2. CASE RankSettled(u)
      <4>1. RankFree(u)' <=> RankFree(u)
        BY <2>4, <2>6 DEF RankFree
      <4> QED BY <2>1, <2>3, <2>4, <2>6, <3>2, <4>1 DEF RankSettled
    <3> QED BY <3>1, <3>2 DEF RankInv
  <2> QED BY <2>4, <2>5, <2>6 DEF RankInv
<1>9. CASE UpdateRankOfCell(w)
  <2>1. cell[w][1] \in Team
    BY <1>9 DEF UpdateRankOfCell, IInv, WorkerInv, WorkerOK, Cell
  <2> QED BY <1>8, <1>9, <2>1 DEF UpdateRankOfCell
<1>10. ASSUME NEW t \in Team, UpdateRankOfTeam(w, t) PROVE RankInv'
  BY <1>8, <1>10 DEF UpdateRankOfTeam
<1>11. CASE WriteRank(w)
  <2> DEFINE t == rank[w].team
  <2>1. t \in Team /\ HoldsRank(w, t)
    BY <1>11 DEF WriteRank, IInv, WorkerInv, WorkerOK, RankEntry, HoldsRank
  <2>2. /\ UNCHANGED <<scorecache, ranks, cell, rank>>
        /\ rankcache' = [rankcache EXCEPT ![t] = rank[w].value]
        /\ pc' = [pc EXCEPT ![w] = "row"] /\ pc[w] = "rankwrite"
    BY <1>2, <1>11 DEF WriteRank
  <2>3. \A x \in Worker, u \in Team : HoldsRank(x, u)' <=> HoldsRank(x, u) /\ x # w
    BY <1>1, <2>2 DEF HoldsRank
  <2>4. \A u \in Team : u # t => ~HoldsRank(w, u)
    BY DEF HoldsRank
  <2> HIDE DEF t
  <2>5. ASSUME NEW u \in Team PROVE (RankDue(u) \/ RankSettled(u))'
    <3>1. CASE RankDue(u)
      BY <1>1, <2>2, <3>1 DEF RankDue
    <3>2. CASE RankSettled(u) /\ u = t
      <4>1. rankcache'[t] = RankRow(scorecache, t)
        BY <1>1, <2>1, <2>2, <3>2 DEF RankSettled
      <4> QED BY <2>2, <2>3, <3>2, <4>1 DEF RankSettled
    <3>3. CASE RankSettled(u) /\ u # t
      <4>1. RankFree(u)' <=> RankFree(u)
        BY <2>3, <2>4, <3>3 DEF RankFree
      <4>2. rankcache'[u] = rankcache[u]
        BY <1>1, <2>2, <3>3
      <4> QED BY <2>2, <2>3, <3>3, <4>1, <4>2 DEF RankSettled
    <3> QED BY <3>1, <3>2, <3>3 DEF RankInv
  <2> QED BY <2>3, <2>5 DEF RankInv
<1>12. CASE Finish(w)
  <2>1. /\ UNCHANGED <<rankcache, scorecache, ranks>>
        /\ cell' = [cell EXCEPT ![w] = None] /\ rank' = [rank EXCEPT ![w] = None]
        /\ pc' = [pc EXCEPT ![w] = "idle"] /\ pc[w] = "row"
    BY <1>12 DEF Finish, Done
  <2>2. /\ \A x \in Worker, t \in Team : HoldsRank(x, t)' <=> HoldsRank(x, t)
        /\ \A x \in Worker, t \in Team : HoldsRank(x, t) => rank'[x] = rank[x]
    BY <1>1, <2>1 DEF HoldsRank
  <2> QED BY <1>1, <1>4, <2>1, <2>2
<1> QED BY <1>3, <1>5, <1>6, <1>7, <1>9, <1>10, <1>11, <1>12 DEF WorkerStep, Commit

LEMMA NextRankInv ==
    ASSUME Operations \intersect {"compileError", "status"} = {},
           VerificationRequired => "unverify" \notin Operations
    PROVE  IInv /\ RInv /\ SolvedInv /\ RankInv /\ [Next]_vars => SolvedInv' /\ RankInv'
<1>1. ASSUME IInv, RInv, SolvedInv, RankInv, Next PROVE SolvedInv' /\ RankInv'
  BY <1>1, RequestRank, StepSolved, StepRank DEF Next
<1>2. ASSUME SolvedInv, RankInv, UNCHANGED vars PROVE SolvedInv' /\ RankInv'
  <2>1. UNCHANGED <<db, scorecache, rankcache, pc, todo, ranks, updateRank, cell, row, rank>>
    BY <1>2 DEF vars, workerVars
  <2>2. SolvedInv'
    BY <1>2, <2>1 DEF SolvedInv, SomeRanked, Ranked, DueAndRanked, HoldsCell
  <2>3. RankInv'
    BY <1>2, <2>1 DEF RankInv, RankDue, RankSettled, RankFree, HoldsRank
  <2> QED BY <2>2, <2>3
<1> QED BY <1>1, <1>2

(* If no submission is made invalid and no required verification is         *)
(* withdrawn, the row of rankcache of every team is the one its cells give  *)
(* once all requests are answered: updating it only after solved cells, and *)
(* after rejudgings and refreshes, is enough.                               *)
THEOREM RanksStayCurrent ==
    ASSUME Operations \intersect {"compileError", "status"} = {},
           VerificationRequired => "unverify" \notin Operations
    PROVE  Spec => []RanksCurrent
<1>1. "compileError" \notin Operations
  OBVIOUS
<1>2. IInv /\ RankInv => RanksCurrent
  <2> SUFFICES ASSUME IInv, RankInv, AllIdle, NEW t \in Team
               PROVE  rankcache[t] = RankRow(scorecache, t)
    BY DEF RanksCurrent
  <2>1. ~RankDue(t) /\ RankFree(t)
    BY DEF AllIdle, RankDue, RankFree, HoldsRank, IInv, WorkerInv, WorkerOK
  <2> QED BY <2>1 DEF RankInv, RankSettled
<1>3. IInv /\ RInv /\ [Next]_vars => RInv'
  BY <1>1, NextRInv
<1>4. IInv /\ RInv /\ SolvedInv /\ RankInv /\ [Next]_vars => SolvedInv' /\ RankInv'
  BY NextRankInv
<1> QED BY InitIInv, InitRInv, InitRankInv, NextIInv, <1>2, <1>3, <1>4, PTL DEF Spec

-----------------------------------------------------------------------------
(* The first to solve a problem.  The flag is computed by a query of its    *)
(* own, over the submissions of all teams.  Once true for a submission, it  *)
(* stays true for it until a request has all cells of the problem           *)
(* recalculated: a submission that was no obstacle cannot become one.       *)

FirstSettled(c) ==
    /\ CellFree(c) /\ scorecache[c].first =>
          FirstToSolve(db, c, scorecache[c].jury.solvedBy)
    /\ \A w \in Worker : HoldsCell(w, c) /\ row[w].first =>
          FirstToSolve(db, c, row[w].jury.solvedBy)

InOrder == \A s \in db.submitted, r \in Submission : r < s => r \in db.submitted

FirstInv ==
    /\ InOrder
    /\ \A c \in Cell : scorecache[c].jury.solvedBy \subseteq db.submitted
    /\ \A w \in Worker, c \in Cell : HoldsCell(w, c) =>
          /\ row[w].jury.solvedBy \subseteq db.submitted
          /\ pc[w] = "first" => ~row[w].first
    /\ \A c \in Cell : Due(c) \/ FirstSettled(c)

LEMMA SolvedBySubmitted ==
    ASSUME NEW d, NEW c, NEW first
    PROVE  /\ WithFirst(Row(d, c), first).jury.solvedBy = First(Solving(d, c))
           /\ First(Solving(d, c)) \subseteq d.submitted
BY DEF WithFirst, Row, JuryRow, First, Solving, Submissions

LEMMA InitFirstInv == Init => FirstInv
<1> SUFFICES ASSUME Init PROVE FirstInv
  OBVIOUS
<1>1. /\ \A w \in Worker : pc[w] = "idle"
      /\ scorecache = [c \in Cell |-> WithFirst(Row(db, c), FALSE)]
      /\ db.submitted = {}
  BY DEF Init
<1>2. \A w \in Worker, c \in Cell : ~HoldsCell(w, c)
  BY <1>1 DEF HoldsCell
<1>3. ASSUME NEW c \in Cell
      PROVE  scorecache[c].jury.solvedBy \subseteq db.submitted /\ ~scorecache[c].first
  <2>1. scorecache[c] = WithFirst(Row(db, c), FALSE)
    BY <1>1
  <2>2. WithFirst(Row(db, c), FALSE).first = FALSE
    BY DEF WithFirst
  <2> QED BY <2>1, <2>2, SolvedBySubmitted
<1> QED BY <1>1, <1>2, <1>3 DEF FirstInv, InOrder, FirstSettled

(* A change of the database after which each cell is due, or still has the  *)
(* first solution it had.                                                   *)
LEMMA DatabaseFirst ==
    ASSUME FirstInv, UNCHANGED <<scorecache, row>>, db.submitted \subseteq db'.submitted,
           InOrder',
           \A x \in Worker, c \in Cell : HoldsCell(x, c)' <=> HoldsCell(x, c),
           \A x \in Worker, c \in Cell : HoldsCell(x, c) => pc'[x] = pc[x],
           \A c \in Cell : Due(c) => Due(c)',
           \A c \in Cell : \/ Due(c)'
                           \/ \A by \in SUBSET db.submitted :
                                 FirstToSolve(db, c, by) => FirstToSolve(db', c, by)
    PROVE  FirstInv'
<1>1. ASSUME NEW c \in Cell PROVE scorecache'[c].jury.solvedBy \subseteq db'.submitted
  BY DEF FirstInv
<1>2. ASSUME NEW x \in Worker, NEW c \in Cell, HoldsCell(x, c)'
      PROVE  row'[x].jury.solvedBy \subseteq db'.submitted /\ (pc'[x] = "first" => ~row'[x].first)
  BY <1>2 DEF FirstInv
<1>3. ASSUME NEW c \in Cell PROVE (Due(c) \/ FirstSettled(c))'
  <2>1. CASE Due(c)'
    BY <2>1
  <2>2. CASE FirstSettled(c) /\ ~Due(c)'
    <3>1. CellFree(c)' <=> CellFree(c)
      BY DEF CellFree
    <3>2. \A by \in SUBSET db.submitted : FirstToSolve(db, c, by) => FirstToSolve(db', c, by)
      BY <2>2
    <3>3. CellFree(c)' /\ scorecache'[c].first =>
              FirstToSolve(db', c, scorecache'[c].jury.solvedBy)
      BY <2>2, <3>1, <3>2 DEF FirstInv, FirstSettled
    <3>4. \A x \in Worker : HoldsCell(x, c)' /\ row'[x].first =>
              FirstToSolve(db', c, row'[x].jury.solvedBy)
      BY <2>2, <3>2 DEF FirstInv, FirstSettled
    <3> QED BY <3>3, <3>4 DEF FirstSettled
  <2> QED BY <2>1, <2>2 DEF FirstInv
<1> QED BY <1>1, <1>2, <1>3 DEF FirstInv

LEMMA RecalculateFirst ==
    ASSUME IInv, RInv, FirstInv, NEW w \in Worker, NEW cells \in SUBSET Cell, NEW teams,
           NEW withRank, Recalculate(w, cells, teams, withRank),
           db.submitted \subseteq db'.submitted, InOrder',
           \A c \in Cell \ cells, by \in SUBSET db.submitted :
               FirstToSolve(db, c, by) => FirstToSolve(db', c, by)
    PROVE  FirstInv'
<1>1. /\ pc' = [pc EXCEPT ![w] = "row"] /\ pc[w] = "idle"
      /\ todo' = [todo EXCEPT ![w] = cells] /\ todo[w] = {}
      /\ UNCHANGED <<scorecache, cell, row>>
      /\ pc \in [Worker -> {"idle", "row", "first", "replace", "rank", "rankwrite", "commit"}]
      /\ todo \in [Worker -> SUBSET Cell]
  BY DEF Recalculate, IInv, TypeOK, RInv
<1>2. /\ \A x \in Worker, c \in Cell : HoldsCell(x, c)' <=> HoldsCell(x, c)
      /\ \A x \in Worker, c \in Cell : HoldsCell(x, c) => pc'[x] = pc[x]
  BY <1>1 DEF HoldsCell
<1>3. /\ \A c \in Cell : Due(c) => Due(c)'
      /\ \A c \in cells : Due(c)'
  BY <1>1 DEF Due
<1> QED BY <1>1, <1>2, <1>3, DatabaseFirst

LEMMA RequestFirst ==
    ASSUME IInv, RInv, FirstInv, Operations \intersect {"compileError", "status"} = {},
           NEW w \in Worker, Request(w)
    PROVE  FirstInv'
<1>1. db \in Database /\ InOrder /\ Submission \subseteq Nat
  BY ScoreRowAssumption DEF IInv, TypeOK, FirstInv
<1>2. ASSUME NEW s \in Submission, Submit(w, s) PROVE FirstInv'
  <2>1. /\ db'.submitted = db.submitted \union {s} /\ s \notin db.submitted
        /\ db'.valid = db.valid /\ db'.verdict = db.verdict /\ db'.verified = db.verified
        /\ \A r \in Submission : r < s => r \in db.submitted
        /\ db.submitted \subseteq Submission
    BY <1>1, <1>2 DEF Submit, Database
  <2>2. InOrder'
    BY <1>1, <2>1 DEF InOrder
  <2>3. \A r : MaySolve(db', r) <=> MaySolve(db, r)
    BY <2>1 DEF MaySolve
  <2>4. ASSUME NEW c \in Cell, NEW by \in SUBSET db.submitted, FirstToSolve(db, c, by)
        PROVE  FirstToSolve(db', c, by)
    <3>1. \A r \in by : ~(s < r)
      BY <1>1, <2>1 DEF InOrder
    <3> QED BY <2>1, <2>3, <2>4, <3>1 DEF FirstToSolve
  <2> QED BY <1>2, <2>1, <2>2, <2>4, CellOfType, RecalculateFirst DEF Submit
<1>3. ASSUME NEW s \in Submission, NEW v \in Result, Judged(w, s, v) PROVE FirstInv'
  <2>1. /\ db'.submitted = db.submitted /\ db'.valid = db.valid
        /\ db'.verified = db.verified
        /\ db'.verdict = [db.verdict EXCEPT ![s] = v] /\ db.verdict[s] = Pending
    BY <1>1, <1>3 DEF Judged, Unjudged, Database
  <2>2. \A r \in db.submitted : MaySolve(db', r) => MaySolve(db, r)
    BY <1>1, <2>1 DEF MaySolve, Database
  <2>3. \A c \in Cell, by \in SUBSET db.submitted :
            FirstToSolve(db, c, by) => FirstToSolve(db', c, by)
    BY <2>1, <2>2 DEF FirstToSolve
  <2>4. InOrder'
    BY <1>1, <2>1 DEF InOrder
  <2> QED BY <1>3, <2>1, <2>3, <2>4, CellOfType, RecalculateFirst DEF Judged
(* A changed submission matters to the cells of its problem only.           *)
<1>4. ASSUME NEW s \in Submission, Changes(s),
             db'.submitted = db.submitted /\ db'.valid = db.valid,
             NEW teams, NEW withRank,
             Recalculate(w, Team \X {ProblemOf[s]}, teams, withRank)
      PROVE  FirstInv'
  <2>1. Team \X {ProblemOf[s]} \in SUBSET Cell
    BY ScoreRowAssumption DEF Cell
  <2>2. \A r \in Submission \ {s} : MaySolve(db', r) <=> MaySolve(db, r)
    BY <1>4 DEF Changes, MaySolve
  <2>3. \A c \in Cell \ (Team \X {ProblemOf[s]}) : c[2] # ProblemOf[s]
    BY DEF Cell
  <2>4. db.submitted \subseteq Submission
    BY <1>1 DEF Database
  <2>5. \A c \in Cell \ (Team \X {ProblemOf[s]}), by \in SUBSET db.submitted :
            FirstToSolve(db, c, by) => FirstToSolve(db', c, by)
    BY <1>4, <2>2, <2>3, <2>4 DEF FirstToSolve
  <2>6. InOrder'
    BY <1>1, <1>4 DEF InOrder
  <2> QED BY <1>4, <2>1, <2>5, <2>6, RecalculateFirst
<1>5. ASSUME NEW s \in Submission, NEW v \in Result, ApplyRejudging(w, s, v) PROVE FirstInv'
  <2>1. Changes(s) /\ db'.submitted = db.submitted /\ db'.valid = db.valid
    BY <1>1, <1>5 DEF ApplyRejudging, Changes, Database
  <2> QED BY <1>4, <1>5, <2>1 DEF ApplyRejudging
<1>6. ASSUME NEW s \in Submission, NEW value \in BOOLEAN, Verify(w, s, value) PROVE FirstInv'
  <2>1. /\ Changes(s) /\ db'.submitted = db.submitted /\ db'.valid = db.valid
        /\ db'.verdict = db.verdict
    BY <1>1, <1>6 DEF Verify, Changes, Database
  <2>2. CASE VerificationRequired
    BY <1>4, <1>6, <2>1, <2>2 DEF Verify
  <2>3. CASE ~VerificationRequired
    <3>1. UNCHANGED <<scorecache, pc, todo, cell, row>>
      BY <1>6, <2>3 DEF Verify, workerVars
    <3>2. \A x \in Worker, c \in Cell : HoldsCell(x, c)' <=> HoldsCell(x, c)
      BY <3>1 DEF HoldsCell
    <3>3. \A c \in Cell, by \in SUBSET db.submitted :
              FirstToSolve(db, c, by) => FirstToSolve(db', c, by)
      BY <2>1, <2>3 DEF FirstToSolve, MaySolve
    <3>4. InOrder'
      BY <1>1, <2>1 DEF InOrder
    <3>5. \A c \in Cell : Due(c) => Due(c)'
      BY <3>1 DEF Due
    <3> QED BY <2>1, <3>1, <3>2, <3>3, <3>4, <3>5, DatabaseFirst
  <2> QED BY <2>2, <2>3
<1>7. CASE RefreshCache(w)
  <2>1. UNCHANGED db /\ InOrder'
    BY <1>1, <1>7 DEF RefreshCache, InOrder
  <2> QED BY <1>7, <2>1, RecalculateFirst DEF RefreshCache
<1> QED BY <1>2, <1>3, <1>5, <1>6, <1>7 DEF Request, CompileError, UpdateStatus

LEMMA StepFirst ==
    ASSUME IInv, RInv, FirstInv, NEW w \in Worker, WorkerStep(w)
    PROVE  FirstInv'
<1> DEFINE PC == {"idle", "row", "first", "replace", "rank", "rankwrite", "commit"}
<1>1. /\ pc \in [Worker -> PC] /\ todo \in [Worker -> SUBSET Cell]
      /\ row \in [Worker -> CellRow \union {None}]
      /\ cell \in [Worker -> Cell \union {None}]
      /\ scorecache \in [Cell -> CellRow]
      /\ \A x \in Worker : txsub[x] = None
  BY DEF IInv, TypeOK, RInv
<1>2. ReadDb(w) = db /\ ~InTransaction(w) /\ Continue(w) = "row"
  BY <1>1 DEF ReadDb, InTransaction, Continue
<1>3. pc[w] # "commit"
  BY <1>1 DEF IInv, WorkerInv, WorkerOK
(* Steps that neither touch the rows nor hold or take a lock of a cell.     *)
<1>4. ASSUME UNCHANGED <<db, scorecache, todo>>,
             \A x \in Worker, c \in Cell : HoldsCell(x, c)' <=> HoldsCell(x, c),
             \A x \in Worker, c \in Cell : HoldsCell(x, c) => row'[x] = row[x] /\ pc'[x] = pc[x]
      PROVE  FirstInv'
  <2>1. InOrder'
    BY <1>4 DEF FirstInv, InOrder
  <2>2. ASSUME NEW c \in Cell PROVE (Due(c) \/ FirstSettled(c))'
    <3>1. CellFree(c)' <=> CellFree(c)
      BY <1>4 DEF CellFree
    <3>2. CASE Due(c)
      BY <1>4, <3>2 DEF Due
    <3>3. CASE FirstSettled(c)
      BY <1>4, <3>1, <3>3 DEF FirstSettled
    <3> QED BY <3>2, <3>3 DEF FirstInv
  <2> QED BY <1>4, <2>1, <2>2 DEF FirstInv
<1>5. ASSUME NEW c \in Cell, ReadSubmissions(w, c) PROVE FirstInv'
  <2> DEFINE new == WithFirst(Row(db, c), FALSE)
  <2>1. /\ row' = [row EXCEPT ![w] = new]
        /\ UNCHANGED <<db, scorecache>>
        /\ todo' = [todo EXCEPT ![w] = @ \ {c}]
        /\ cell' = [cell EXCEPT ![w] = c]
        /\ pc' = [pc EXCEPT ![w] = "first"] /\ pc[w] = "row"
        /\ CellFree(c)
    BY <1>2, <1>5 DEF ReadSubmissions
  <2>2. new.first = FALSE /\ new.jury.solvedBy \subseteq db.submitted
    BY SolvedBySubmitted DEF WithFirst
  <2> HIDE DEF new
  <2>3. /\ \A x \in Worker, d \in Cell :
               HoldsCell(x, d)' <=> HoldsCell(x, d) \/ (x = w /\ d = c)
        /\ \A d \in Cell : ~HoldsCell(w, d)
        /\ \A x \in Worker : ~HoldsCell(x, c)
    BY <1>1, <2>1 DEF HoldsCell, CellFree
  <2>4. /\ row'[w] = new
        /\ \A x \in Worker : x # w => row'[x] = row[x] /\ pc'[x] = pc[x]
    BY <1>1, <2>1
  <2>5. InOrder'
    BY <2>1 DEF FirstInv, InOrder
  <2>6. ASSUME NEW x \in Worker, NEW d \in Cell, HoldsCell(x, d)'
        PROVE  /\ row'[x].jury.solvedBy \subseteq db'.submitted
               /\ pc'[x] = "first" => ~row'[x].first
    BY <2>1, <2>2, <2>3, <2>4, <2>6 DEF FirstInv
  <2>7. FirstSettled(c)'
    BY <2>1, <2>2, <2>3, <2>4 DEF FirstSettled, CellFree
  <2>8. ASSUME NEW d \in Cell, d # c PROVE (Due(d) \/ FirstSettled(d))'
    <3>1. CASE Due(d)
      BY <1>1, <2>1, <2>8, <3>1 DEF Due
    <3>2. CASE FirstSettled(d)
      <4>1. CellFree(d)' <=> CellFree(d)
        BY <2>3, <2>8 DEF CellFree
      <4> QED BY <2>1, <2>3, <2>4, <2>8, <3>2, <4>1 DEF FirstSettled
    <3> QED BY <3>1, <3>2 DEF FirstInv
  <2> QED BY <2>1, <2>5, <2>6, <2>7, <2>8 DEF FirstInv
<1>6. CASE ReadFirst(w)
  <2> DEFINE first == FirstToSolve(db, cell[w], row[w].jury.solvedBy)
             new == WithFirst(row[w], first)
  <2>1. /\ row' = [row EXCEPT ![w] = new]
        /\ UNCHANGED <<db, scorecache, todo, cell>>
        /\ pc' = [pc EXCEPT ![w] = "replace"] /\ pc[w] = "first"
    BY <1>2, <1>6 DEF ReadFirst
  <2>2. new.jury = row[w].jury /\ new.first = first
    BY DEF WithFirst
  <2>3. \A c \in Cell : HoldsCell(w, c) => c = cell[w]
    BY DEF HoldsCell
  <2> HIDE DEF new
  <2>4. \A x \in Worker, c \in Cell : HoldsCell(x, c)' <=> HoldsCell(x, c)
    BY <1>1, <2>1 DEF HoldsCell
  <2>5. /\ row'[w] = new /\ pc'[w] = "replace"
        /\ \A x \in Worker : x # w => row'[x] = row[x] /\ pc'[x] = pc[x]
    BY <1>1, <2>1
  <2>6. InOrder'
    BY <2>1 DEF FirstInv, InOrder
  <2>7. ASSUME NEW x \in Worker, NEW c \in Cell, HoldsCell(x, c)'
        PROVE  /\ row'[x].jury.solvedBy \subseteq db'.submitted
               /\ pc'[x] = "first" => ~row'[x].first
    BY <2>1, <2>2, <2>4, <2>5, <2>7 DEF FirstInv
  <2>8. ASSUME NEW c \in Cell PROVE (Due(c) \/ FirstSettled(c))'
    <3>1. CASE Due(c)
      BY <2>1, <3>1 DEF Due
    <3>2. CASE FirstSettled(c)
      <4>1. CellFree(c)' <=> CellFree(c)
        BY <2>4 DEF CellFree
      <4>2. HoldsCell(w, c)' /\ row'[w].first => FirstToSolve(db', c, row'[w].jury.solvedBy)
        BY <2>1, <2>2, <2>3, <2>4, <2>5
      <4> QED BY <2>1, <2>4, <2>5, <3>2, <4>1, <4>2 DEF FirstSettled
    <3> QED BY <3>1, <3>2 DEF FirstInv
  <2> QED BY <2>1, <2>6, <2>7, <2>8 DEF FirstInv
<1>7. CASE Replace(w)
  <2> DEFINE c == cell[w]
  <2>1. c \in Cell /\ HoldsCell(w, c)
    BY <1>7 DEF Replace, IInv, WorkerInv, WorkerOK, HoldsCell
  <2>2. /\ UNCHANGED <<db, row, todo, cell>>
        /\ scorecache' = [scorecache EXCEPT ![c] = row[w]]
        /\ \E next \in {"rank", "row"} : pc' = [pc EXCEPT ![w] = next]
    BY <1>2, <1>7 DEF Replace
  <2>3. /\ \A x \in Worker, d \in Cell : HoldsCell(x, d)' <=> HoldsCell(x, d) /\ x # w
        /\ \A x \in Worker : x # w => pc'[x] = pc[x]
    BY <1>1, <2>2 DEF HoldsCell
  <2>4. \A d \in Cell : d # c => ~HoldsCell(w, d)
    BY DEF HoldsCell
  <2> HIDE DEF c
  <2>5. scorecache'[c] = row[w] /\ \A d \in Cell : d # c => scorecache'[d] = scorecache[d]
    BY <1>1, <2>1, <2>2
  <2>6. InOrder'
    BY <2>2 DEF FirstInv, InOrder
  <2>7. \A d \in Cell : scorecache'[d].jury.solvedBy \subseteq db'.submitted
    BY <2>1, <2>2, <2>5 DEF FirstInv
  <2>8. ASSUME NEW x \in Worker, NEW d \in Cell, HoldsCell(x, d)'
        PROVE  /\ row'[x].jury.solvedBy \subseteq db'.submitted
               /\ pc'[x] = "first" => ~row'[x].first
    BY <2>2, <2>3, <2>8 DEF FirstInv
  <2>9. ASSUME NEW d \in Cell PROVE (Due(d) \/ FirstSettled(d))'
    <3>1. CASE Due(d)
      BY <2>2, <3>1 DEF Due
    <3>2. CASE FirstSettled(d) /\ d = c
      BY <2>1, <2>2, <2>3, <2>5, <3>2 DEF FirstSettled
    <3>3. CASE FirstSettled(d) /\ d # c
      <4>1. CellFree(d)' <=> CellFree(d)
        BY <2>3, <2>4, <3>3 DEF CellFree
      <4> QED BY <2>2, <2>3, <2>5, <3>3, <4>1 DEF FirstSettled
    <3> QED BY <3>1, <3>2, <3>3 DEF FirstInv
  <2> QED BY <2>6, <2>7, <2>8, <2>9 DEF FirstInv
<1>8. ASSUME NEW t, ReadCells(w, t), pc[w] \in {"rank", "row"} PROVE FirstInv'
  <2>1. /\ UNCHANGED <<db, scorecache, todo, cell, row>>
        /\ pc' = [pc EXCEPT ![w] = "rankwrite"]
    BY <1>8 DEF ReadCells
  <2>2. /\ \A x \in Worker, c \in Cell : HoldsCell(x, c)' <=> HoldsCell(x, c)
        /\ \A x \in Worker, c \in Cell : HoldsCell(x, c) => pc'[x] = pc[x]
    BY <1>1, <1>8, <2>1 DEF HoldsCell
  <2> QED BY <1>4, <2>1, <2>2
<1>9. CASE WriteRank(w)
  <2>1. /\ UNCHANGED <<db, scorecache, todo, cell, row>>
        /\ pc' = [pc EXCEPT ![w] = "row"] /\ pc[w] = "rankwrite"
    BY <1>2, <1>9 DEF WriteRank
  <2>2. /\ \A x \in Worker, c \in Cell : HoldsCell(x, c)' <=> HoldsCell(x, c)
        /\ \A x \in Worker, c \in Cell : HoldsCell(x, c) => pc'[x] = pc[x]
    BY <1>1, <2>1 DEF HoldsCell
  <2> QED BY <1>4, <2>1, <2>2
<1>10. CASE Finish(w)
  <2>1. /\ UNCHANGED <<db, scorecache, todo>>
        /\ cell' = [cell EXCEPT ![w] = None] /\ row' = [row EXCEPT ![w] = None]
        /\ pc' = [pc EXCEPT ![w] = "idle"] /\ pc[w] = "row"
    BY <1>10 DEF Finish, Done
  <2>2. /\ \A x \in Worker, c \in Cell : HoldsCell(x, c)' <=> HoldsCell(x, c)
        /\ \A x \in Worker, c \in Cell : HoldsCell(x, c) => row'[x] = row[x] /\ pc'[x] = pc[x]
    BY <1>1, <2>1 DEF HoldsCell
  <2> QED BY <1>4, <2>1, <2>2
<1> QED BY <1>3, <1>5, <1>6, <1>7, <1>8, <1>9, <1>10
        DEF WorkerStep, UpdateRankOfCell, UpdateRankOfTeam, Commit

LEMMA NextFirstInv ==
    ASSUME Operations \intersect {"compileError", "status"} = {}
    PROVE  IInv /\ RInv /\ FirstInv /\ [Next]_vars => FirstInv'
<1>1. ASSUME IInv, RInv, FirstInv, Next PROVE FirstInv'
  BY <1>1, RequestFirst, StepFirst DEF Next
<1>2. ASSUME FirstInv, UNCHANGED vars PROVE FirstInv'
  BY <1>2 DEF vars, workerVars, FirstInv, InOrder, FirstSettled, CellFree, HoldsCell, Due
<1> QED BY <1>1, <1>2

(* If no submission is made invalid or valid again, at most one team is     *)
(* shown as the first to solve a problem once all requests are answered,    *)
(* although each cell is calculated with a query at a time of its own: the  *)
(* earlier of two solutions is an obstacle for the later one until both     *)
(* cells are recalculated.                                                  *)
THEOREM FirstIsUnique ==
    ASSUME Operations \intersect {"compileError", "status"} = {}
    PROVE  Spec => []OneFirst
<1>1. "compileError" \notin Operations
  OBVIOUS
<1>2. IInv /\ RInv /\ FirstInv => OneFirst
  <2> SUFFICES ASSUME IInv, RInv, FirstInv, AllIdle, NEW p \in Problem,
                      NEW t \in Team, NEW u \in Team,
                      scorecache[<<t, p>>].first, scorecache[<<u, p>>].first
               PROVE  t = u
    BY DEF OneFirst
  <2>1. \A c \in Cell : ~Due(c) /\ CellFree(c)
    BY DEF AllIdle, RInv, Due, CellFree, HoldsCell
  <2>2. <<t, p>> \in Cell /\ <<u, p>> \in Cell /\ db \in Database
    BY DEF Cell, IInv, TypeOK
(* What a cell that shows a first solution says of the database.            *)
  <2>3. ASSUME NEW c \in Cell, scorecache[c].first
        PROVE  \E s \in Solving(db, c) :
                   \A r \in db.submitted :
                       db.valid[r] /\ ProblemOf[r] = c[2] /\ r < s => ~MaySolve(db, r)
    <3>1. WithoutFirst(scorecache[c]) = Row(db, c)
      BY <2>1 DEF RInv, Settled
    <3>2. scorecache[c].jury = Row(db, c).jury
      BY <3>1 DEF WithoutFirst, Row
    <3>3. scorecache[c].jury.solvedBy = First(Solving(db, c))
      BY <3>2 DEF Row, JuryRow
    <3>4. FirstToSolve(db, c, First(Solving(db, c)))
      BY <2>1, <2>3, <3>3 DEF FirstInv, FirstSettled
    <3> QED BY <3>4 DEF FirstToSolve, First
  <2>4. PICK s \in Solving(db, <<t, p>>) :
            \A r \in db.submitted :
                db.valid[r] /\ ProblemOf[r] = p /\ r < s => ~MaySolve(db, r)
    BY <2>2, <2>3
  <2>5. PICK q \in Solving(db, <<u, p>>) :
            \A r \in db.submitted :
                db.valid[r] /\ ProblemOf[r] = p /\ r < q => ~MaySolve(db, r)
    BY <2>2, <2>3
  <2>6. /\ s \in db.submitted /\ db.valid[s] /\ ProblemOf[s] = p /\ TeamOf[s] = t
        /\ q \in db.submitted /\ db.valid[q] /\ ProblemOf[q] = p /\ TeamOf[q] = u
        /\ MaySolve(db, s) /\ MaySolve(db, q)
    BY DEF Solving, Submissions, MaySolve
  <2>7. ~(s < q) /\ ~(q < s)
    BY <2>4, <2>5, <2>6
  <2>8. s \in Nat /\ q \in Nat
    BY <2>2, <2>6, ScoreRowAssumption DEF Database
  <2>9. s = q
    BY <2>7, <2>8
  <2> QED BY <2>6, <2>9
<1>3. IInv /\ RInv /\ [Next]_vars => RInv'
  BY <1>1, NextRInv
<1>4. IInv /\ RInv /\ FirstInv /\ [Next]_vars => FirstInv'
  BY NextFirstInv
<1> QED BY InitIInv, InitRInv, InitFirstInv, NextIInv, <1>2, <1>3, <1>4, PTL DEF Spec

-----------------------------------------------------------------------------
(* The loop of calculateScoreRow and the row that ScoreRow defines.         *)

(* The local variables of the loop.                                         *)
LoopRows == [jury : ViewRow, public : ViewRow]

(* What each step of the loop body leaves in the variables.                 *)
LEMMA RuntimesFields ==
    ASSUME db \in Database, NEW a \in LoopRows, NEW s \in Submission
    PROVE  /\ Runtimes(a, s) \in LoopRows
           /\ Runtimes(a, s).jury.submissions = a.jury.submissions
           /\ Runtimes(a, s).jury.pending = a.jury.pending
           /\ Runtimes(a, s).jury.solvedBy = a.jury.solvedBy
           /\ Runtimes(a, s).jury.runtimeOf
                = IF db.verdict[s] = Correct THEN a.jury.runtimeOf \union {s}
                  ELSE a.jury.runtimeOf
           /\ Runtimes(a, s).public.submissions = a.public.submissions
           /\ Runtimes(a, s).public.pending = a.public.pending
           /\ Runtimes(a, s).public.solvedBy = a.public.solvedBy
           /\ Runtimes(a, s).public.runtimeOf
                = IF db.verdict[s] = Correct /\ ~AfterFreeze[s]
                  THEN a.public.runtimeOf \union {s} ELSE a.public.runtimeOf
  BY DEF Runtimes, LoopRows, ViewRow

LEMMA CountPendingFields ==
    ASSUME NEW a \in LoopRows, NEW s \in Submission
    PROVE  /\ CountPending(a, s) \in LoopRows
           /\ CountPending(a, s).jury.submissions = a.jury.submissions
           /\ CountPending(a, s).jury.pending
                = IF a.jury.solvedBy = {} THEN a.jury.pending + 1 ELSE a.jury.pending
           /\ CountPending(a, s).jury.solvedBy = a.jury.solvedBy
           /\ CountPending(a, s).jury.runtimeOf = a.jury.runtimeOf
           /\ CountPending(a, s).public.submissions = a.public.submissions
           /\ CountPending(a, s).public.pending = a.public.pending + 1
           /\ CountPending(a, s).public.solvedBy = a.public.solvedBy
           /\ CountPending(a, s).public.runtimeOf = a.public.runtimeOf
<1> DEFINE j == IF a.jury.solvedBy = {} THEN a.jury.pending + 1 ELSE a.jury.pending
           p == a.public.pending + 1
           b == [a EXCEPT !.jury.pending = j, !.public.pending = p]
<1>1. a.jury \in ViewRow /\ a.public \in ViewRow
  BY DEF LoopRows
<1>2. j \in Nat /\ p \in Nat
  BY <1>1 DEF ViewRow
<1>3. CountPending(a, s) = b
  BY DEF CountPending, LoopRows, ViewRow
<1>4. /\ j = IF a.jury.solvedBy = {} THEN a.jury.pending + 1 ELSE a.jury.pending
      /\ p = a.public.pending + 1
  OBVIOUS
<1> HIDE DEF j, p
<1>5. /\ b \in LoopRows
      /\ b.jury.submissions = a.jury.submissions /\ b.jury.pending = j
      /\ b.jury.solvedBy = a.jury.solvedBy /\ b.jury.runtimeOf = a.jury.runtimeOf
      /\ b.public.submissions = a.public.submissions /\ b.public.pending = p
      /\ b.public.solvedBy = a.public.solvedBy /\ b.public.runtimeOf = a.public.runtimeOf
  BY <1>2 DEF LoopRows, ViewRow
<1> QED  BY <1>3, <1>4, <1>5

LEMMA CountFields ==
    ASSUME NEW a \in LoopRows, NEW s \in Submission
    PROVE  /\ Count(a, s) \in LoopRows
           /\ Count(a, s).jury.submissions
                = IF a.jury.solvedBy = {} /\ CountSubmission(db, s)
                  THEN a.jury.submissions + 1 ELSE a.jury.submissions
           /\ Count(a, s).jury.pending = a.jury.pending
           /\ Count(a, s).jury.solvedBy = a.jury.solvedBy
           /\ Count(a, s).jury.runtimeOf = a.jury.runtimeOf
           /\ Count(a, s).public.submissions
                = IF ~AfterFreeze[s] /\ CountSubmission(db, s)
                  THEN a.public.submissions + 1 ELSE a.public.submissions
           /\ Count(a, s).public.pending
                = IF AfterFreeze[s] THEN a.public.pending + 1 ELSE a.public.pending
           /\ Count(a, s).public.solvedBy = a.public.solvedBy
           /\ Count(a, s).public.runtimeOf = a.public.runtimeOf
<1> DEFINE n == IF CountSubmission(db, s) THEN 1 ELSE 0
           j == IF a.jury.solvedBy = {} THEN a.jury.submissions + n ELSE a.jury.submissions
           p == IF AfterFreeze[s] THEN a.public.pending + 1 ELSE a.public.pending
           q == IF AfterFreeze[s] THEN a.public.submissions ELSE a.public.submissions + n
           b == [a EXCEPT !.jury.submissions = j, !.public.pending = p,
                          !.public.submissions = q]
<1>1. a.jury \in ViewRow /\ a.public \in ViewRow
  BY DEF LoopRows
<1>2. /\ a.jury.submissions \in Nat
      /\ a.public.pending \in Nat /\ a.public.submissions \in Nat
  BY <1>1 DEF ViewRow
<1>3. n \in Nat
  OBVIOUS
<1>4. j \in Nat /\ p \in Nat /\ q \in Nat
  BY <1>2, <1>3
<1>5. Count(a, s) = b
  BY DEF Count, LoopRows, ViewRow
<1>6. /\ j = IF a.jury.solvedBy = {} /\ CountSubmission(db, s)
              THEN a.jury.submissions + 1 ELSE a.jury.submissions
      /\ q = IF ~AfterFreeze[s] /\ CountSubmission(db, s)
              THEN a.public.submissions + 1 ELSE a.public.submissions
  BY <1>2
<1>7. p = IF AfterFreeze[s] THEN a.public.pending + 1 ELSE a.public.pending
  OBVIOUS
<1> HIDE DEF n, j, p, q
<1>8. /\ b \in LoopRows
      /\ b.jury.submissions = j /\ b.jury.pending = a.jury.pending
      /\ b.jury.solvedBy = a.jury.solvedBy /\ b.jury.runtimeOf = a.jury.runtimeOf
      /\ b.public.submissions = q /\ b.public.pending = p
      /\ b.public.solvedBy = a.public.solvedBy /\ b.public.runtimeOf = a.public.runtimeOf
  BY <1>4 DEF LoopRows, ViewRow
<1> QED  BY <1>5, <1>6, <1>7, <1>8

LEMMA SolveFields ==
    ASSUME NEW a \in LoopRows, NEW s \in Submission
    PROVE  /\ Solve(a, s) \in LoopRows
           /\ Solve(a, s).jury.submissions = a.jury.submissions
           /\ Solve(a, s).jury.pending = a.jury.pending
           /\ Solve(a, s).jury.solvedBy
                = IF a.jury.solvedBy = {} /\ db.verdict[s] = Correct THEN {s}
                  ELSE a.jury.solvedBy
           /\ Solve(a, s).jury.runtimeOf = a.jury.runtimeOf
           /\ Solve(a, s).public.submissions = a.public.submissions
           /\ Solve(a, s).public.pending = a.public.pending
           /\ Solve(a, s).public.solvedBy
                = IF a.jury.solvedBy # {} \/ db.verdict[s] # Correct
                  THEN a.public.solvedBy
                  ELSE IF AfterFreeze[s] THEN {} ELSE {s}
           /\ Solve(a, s).public.runtimeOf = a.public.runtimeOf
  BY DEF Solve, LoopRows, ViewRow

(* S and a later submission.                                                *)
Later(S, s) ==
    /\ S \subseteq Submission /\ s \in Submission
    /\ \A r \in S : r < s

LEMMA LaterNumbers ==
    ASSUME NEW S, NEW s, Later(S, s)
    PROVE  S \subseteq Nat /\ s \in Nat /\ s \notin S /\ IsFiniteSet(S)
<1>1. S \subseteq Nat /\ s \in Nat
  BY ScoreRowAssumption DEF Later
<1>2. s \notin S
  BY <1>1 DEF Later
<1>3. IsFiniteSet(S)
  BY ScoreRowAssumption, FS_Subset DEF Later
<1> QED  BY <1>1, <1>2, <1>3

(* A are the solving submissions among S, and B those among S and s.        *)
SolvingStep(S, s, A, B) == A \subseteq S /\ (B = A \/ B = A \union {s})

FirstStep(S, s, A, B) ==
    /\ A # {} => UpToFirst(S \union {s}, B) = UpToFirst(S, A) /\ First(B) = First(A)
    /\ A = {} => /\ UpToFirst(S \union {s}, B) = S \union {s}
                 /\ UpToFirst(S, A) = S /\ First(B) = B

(* A last submission may be the first solving one, or come after it.        *)
LEMMA UpToFirstStep ==
    ASSUME NEW S, NEW s, Later(S, s), NEW A, NEW B, SolvingStep(S, s, A, B)
    PROVE  FirstStep(S, s, A, B)
<1> S \subseteq Nat /\ s \in Nat /\ \A r \in S : r < s
  BY LaterNumbers DEF Later
<1> A \subseteq S /\ (B = A \/ B = A \union {s})
  BY DEF SolvingStep
<1>1. \A r \in S : r \in Nat /\ r <= s /\ ~(s <= r)
  OBVIOUS
<1>2. ASSUME A # {}
      PROVE  UpToFirst(S \union {s}, B) = UpToFirst(S, A) /\ First(B) = First(A)
  <2>1. PICK q \in A : TRUE
    BY <1>2
  <2>2. q \in B /\ ~(s <= q)
    BY <1>1
  <2>3. ASSUME NEW r \in S PROVE (\A t \in B : r <= t) <=> (\A t \in A : r <= t)
    BY <1>1
  <2>4. UpToFirst(S \union {s}, B) = UpToFirst(S, A)
    BY <2>2, <2>3 DEF UpToFirst
  <2>5. First(B) = First(A)
    BY <2>2, <2>3 DEF First
  <2> QED  BY <2>4, <2>5
<1>3. ASSUME A = {}
      PROVE  /\ UpToFirst(S \union {s}, B) = S \union {s}
             /\ UpToFirst(S, A) = S /\ First(B) = B
  <2>1. \A t \in B : t = s
    BY <1>3
  <2>2. s <= s
    OBVIOUS
  <2> QED  BY <1>1, <1>3, <2>1, <2>2 DEF UpToFirst, First
<1> QED  BY <1>2, <1>3 DEF FirstStep

(* The solving submissions among S, and those before the freeze.            *)
SolvingIn(S) == {s \in S : Visible(db, s) /\ db.verdict[s] = Correct}
SolvingPublicIn(S) == {s \in SolvingIn(S) : ~AfterFreeze[s]}

(* The submissions that the columns submissions and pending count.          *)
JuryCounted(S) ==
    {s \in UpToFirst(S, SolvingIn(S)) : Visible(db, s) /\ CountSubmission(db, s)}
JuryPending(S) == {s \in UpToFirst(S, SolvingIn(S)) : ~Visible(db, s)}
PublicCounted(S) ==
    {s \in UpToFirst(S, SolvingPublicIn(S)) :
        Visible(db, s) /\ CountSubmission(db, s) /\ ~AfterFreeze[s]}
PublicPending(S) == {s \in UpToFirst(S, SolvingPublicIn(S)) : PendingPublic(db, s)}

(* The loop invariant: a is what the loop has computed after the            *)
(* submissions in S.                                                        *)
JuryInv(S, v) ==
    /\ v.submissions = Cardinality(JuryCounted(S))
    /\ v.pending = Cardinality(JuryPending(S))
    /\ v.solvedBy = First(SolvingIn(S))
    /\ v.runtimeOf = {s \in S : db.verdict[s] = Correct}

PublicInv(S, v) ==
    /\ v.submissions = Cardinality(PublicCounted(S))
    /\ v.pending = Cardinality(PublicPending(S))
    /\ v.solvedBy = First(SolvingPublicIn(S))
    /\ v.runtimeOf = {s \in S : db.verdict[s] = Correct /\ ~AfterFreeze[s]}

RowLoopInv(S, a) == JuryInv(S, a.jury) /\ PublicInv(S, a.public)

(* Which submissions count, with one more submission, for the jury ...      *)
LEMMA JurySetsStep ==
    ASSUME NEW S, NEW s, Later(S, s)
    PROVE  LET T == S \union {s} IN
           /\ SolvingIn(S) = {} =>
                /\ First(SolvingIn(T))
                     = IF Visible(db, s) /\ db.verdict[s] = Correct THEN {s} ELSE {}
                /\ JuryCounted(T) = IF Visible(db, s) /\ CountSubmission(db, s)
                                    THEN JuryCounted(S) \union {s} ELSE JuryCounted(S)
                /\ JuryPending(T) = IF Visible(db, s) THEN JuryPending(S)
                                    ELSE JuryPending(S) \union {s}
           /\ SolvingIn(S) # {} =>
                /\ First(SolvingIn(T)) = First(SolvingIn(S))
                /\ JuryCounted(T) = JuryCounted(S)
                /\ JuryPending(T) = JuryPending(S)
<1> DEFINE T == S \union {s}
           A == SolvingIn(S)
           B == SolvingIn(T)
<1>1. S \subseteq Nat /\ s \in Nat /\ s \notin S /\ \A r \in S : r < s
  BY LaterNumbers DEF Later
<1>2. A \subseteq S /\ B = IF Visible(db, s) /\ db.verdict[s] = Correct
                           THEN A \union {s} ELSE A
  BY DEF SolvingIn
<1> HIDE DEF A, B
<1>3. /\ A # {} => UpToFirst(T, B) = UpToFirst(S, A) /\ First(B) = First(A)
      /\ A = {} => /\ UpToFirst(T, B) = T
                   /\ UpToFirst(S, A) = S /\ First(B) = B
  <2>1. SolvingStep(S, s, A, B)
    BY <1>2 DEF SolvingStep
  <2>2. FirstStep(S, s, A, B)
    BY <2>1, UpToFirstStep
  <2> QED  BY <2>2 DEF FirstStep
<1>4. ASSUME A = {}
      PROVE  /\ First(B) = IF Visible(db, s) /\ db.verdict[s] = Correct THEN {s} ELSE {}
             /\ JuryCounted(T) = IF Visible(db, s) /\ CountSubmission(db, s)
                                 THEN JuryCounted(S) \union {s} ELSE JuryCounted(S)
             /\ JuryPending(T) = IF Visible(db, s) THEN JuryPending(S)
                                 ELSE JuryPending(S) \union {s}
  <2>1. UpToFirst(T, B) = T /\ UpToFirst(S, A) = S /\ First(B) = B
    BY <1>3, <1>4
  <2>2. /\ JuryCounted(T) = {r \in T : Visible(db, r) /\ CountSubmission(db, r)}
        /\ JuryCounted(S) = {r \in S : Visible(db, r) /\ CountSubmission(db, r)}
        /\ JuryPending(T) = {r \in T : ~Visible(db, r)}
        /\ JuryPending(S) = {r \in S : ~Visible(db, r)}
    BY <2>1 DEF JuryCounted, JuryPending, A, B
  <2>3. First(B) = IF Visible(db, s) /\ db.verdict[s] = Correct THEN {s} ELSE {}
    BY <1>2, <1>4, <2>1
  <2>4. JuryCounted(T) = IF Visible(db, s) /\ CountSubmission(db, s)
                         THEN JuryCounted(S) \union {s} ELSE JuryCounted(S)
    BY <2>2
  <2>5. JuryPending(T) = IF Visible(db, s) THEN JuryPending(S)
                         ELSE JuryPending(S) \union {s}
    BY <2>2
  <2> QED  BY <2>3, <2>4, <2>5
<1>5. ASSUME A # {}
      PROVE  First(B) = First(A) /\ JuryCounted(T) = JuryCounted(S)
             /\ JuryPending(T) = JuryPending(S)
  BY <1>3, <1>5 DEF JuryCounted, JuryPending, A, B
<1> QED  BY <1>4, <1>5 DEF A, B

(* ... and for the public.                                                  *)
LEMMA PublicSetsStep ==
    ASSUME NEW S, NEW s, Later(S, s)
    PROVE  LET T == S \union {s} IN
           /\ SolvingPublicIn(S) = {} =>
                /\ First(SolvingPublicIn(T))
                     = IF Visible(db, s) /\ db.verdict[s] = Correct /\ ~AfterFreeze[s]
                       THEN {s} ELSE {}
                /\ PublicCounted(T)
                     = IF Visible(db, s) /\ CountSubmission(db, s) /\ ~AfterFreeze[s]
                       THEN PublicCounted(S) \union {s} ELSE PublicCounted(S)
                /\ PublicPending(T) = IF PendingPublic(db, s)
                                      THEN PublicPending(S) \union {s} ELSE PublicPending(S)
           /\ SolvingPublicIn(S) # {} =>
                /\ First(SolvingPublicIn(T)) = First(SolvingPublicIn(S))
                /\ PublicCounted(T) = PublicCounted(S)
                /\ PublicPending(T) = PublicPending(S)
<1> DEFINE T == S \union {s}
           A == SolvingPublicIn(S)
           B == SolvingPublicIn(T)
<1>1. S \subseteq Nat /\ s \in Nat /\ s \notin S /\ \A r \in S : r < s
  BY LaterNumbers DEF Later
<1>2. A \subseteq S /\ B = IF Visible(db, s) /\ db.verdict[s] = Correct /\ ~AfterFreeze[s]
                           THEN A \union {s} ELSE A
  BY DEF SolvingIn, SolvingPublicIn
<1> HIDE DEF A, B
<1>3. /\ A # {} => UpToFirst(T, B) = UpToFirst(S, A) /\ First(B) = First(A)
      /\ A = {} => /\ UpToFirst(T, B) = T
                   /\ UpToFirst(S, A) = S /\ First(B) = B
  <2>1. SolvingStep(S, s, A, B)
    BY <1>2 DEF SolvingStep
  <2>2. FirstStep(S, s, A, B)
    BY <2>1, UpToFirstStep
  <2> QED  BY <2>2 DEF FirstStep
<1>4. ASSUME A = {}
      PROVE  /\ First(B) = IF Visible(db, s) /\ db.verdict[s] = Correct /\ ~AfterFreeze[s]
                           THEN {s} ELSE {}
             /\ PublicCounted(T)
                  = IF Visible(db, s) /\ CountSubmission(db, s) /\ ~AfterFreeze[s]
                    THEN PublicCounted(S) \union {s} ELSE PublicCounted(S)
             /\ PublicPending(T) = IF PendingPublic(db, s)
                                   THEN PublicPending(S) \union {s} ELSE PublicPending(S)
  <2>1. UpToFirst(T, B) = T /\ UpToFirst(S, A) = S /\ First(B) = B
    BY <1>3, <1>4
  <2>2. /\ PublicCounted(T)
             = {r \in T : Visible(db, r) /\ CountSubmission(db, r) /\ ~AfterFreeze[r]}
        /\ PublicCounted(S)
             = {r \in S : Visible(db, r) /\ CountSubmission(db, r) /\ ~AfterFreeze[r]}
        /\ PublicPending(T) = {r \in T : PendingPublic(db, r)}
        /\ PublicPending(S) = {r \in S : PendingPublic(db, r)}
    BY <2>1 DEF PublicCounted, PublicPending, A, B
  <2>3. First(B) = IF Visible(db, s) /\ db.verdict[s] = Correct /\ ~AfterFreeze[s]
                   THEN {s} ELSE {}
    BY <1>2, <1>4, <2>1
  <2>4. PublicCounted(T)
          = IF Visible(db, s) /\ CountSubmission(db, s) /\ ~AfterFreeze[s]
            THEN PublicCounted(S) \union {s} ELSE PublicCounted(S)
    BY <2>2
  <2>5. PublicPending(T) = IF PendingPublic(db, s)
                           THEN PublicPending(S) \union {s} ELSE PublicPending(S)
    BY <2>2
  <2> QED  BY <2>3, <2>4, <2>5
<1>5. ASSUME A # {}
      PROVE  First(B) = First(A) /\ PublicCounted(T) = PublicCounted(S)
             /\ PublicPending(T) = PublicPending(S)
  BY <1>3, <1>5 DEF PublicCounted, PublicPending, A, B
<1> QED  BY <1>4, <1>5 DEF A, B

(* The columns are not solved exactly when there is no solving submission.  *)
LEMMA SolvedOrNot ==
    ASSUME NEW S, S \subseteq Submission
    PROVE  /\ First(SolvingIn(S)) = {} <=> SolvingIn(S) = {}
           /\ First(SolvingPublicIn(S)) = {} <=> SolvingPublicIn(S) = {}
           /\ SolvingPublicIn(S) # {} => SolvingIn(S) # {}
<1>1. SolvingIn(S) \subseteq Submission /\ SolvingPublicIn(S) \subseteq SolvingIn(S)
  BY DEF SolvingIn, SolvingPublicIn
<1>2. First({}) = {}
  BY DEF First
<1> QED  BY <1>1, <1>2, FirstExists

(* The numbers of these submissions.                                        *)
LEMMA CountsStep ==
    ASSUME NEW S, NEW s, Later(S, s)
    PROVE  LET T == S \union {s} IN
           /\ Cardinality(JuryCounted(T))
                = IF SolvingIn(S) = {} /\ Visible(db, s) /\ CountSubmission(db, s)
                  THEN Cardinality(JuryCounted(S)) + 1 ELSE Cardinality(JuryCounted(S))
           /\ Cardinality(JuryPending(T))
                = IF SolvingIn(S) = {} /\ ~Visible(db, s)
                  THEN Cardinality(JuryPending(S)) + 1 ELSE Cardinality(JuryPending(S))
           /\ Cardinality(PublicCounted(T))
                = IF /\ SolvingPublicIn(S) = {}
                     /\ Visible(db, s) /\ CountSubmission(db, s) /\ ~AfterFreeze[s]
                  THEN Cardinality(PublicCounted(S)) + 1 ELSE Cardinality(PublicCounted(S))
           /\ Cardinality(PublicPending(T))
                = IF SolvingPublicIn(S) = {} /\ PendingPublic(db, s)
                  THEN Cardinality(PublicPending(S)) + 1 ELSE Cardinality(PublicPending(S))
<1> DEFINE T == S \union {s}
<1>1. s \notin S /\ IsFiniteSet(S)
  BY LaterNumbers
<1>2. ASSUME NEW F, F \subseteq S
      PROVE  /\ Cardinality(F \union {s}) = Cardinality(F) + 1
  <2>1. IsFiniteSet(F) /\ s \notin F
    BY <1>1, <1>2, FS_Subset
  <2> QED  BY <2>1, FS_AddElement
<1>3. /\ JuryCounted(S) \subseteq S /\ JuryPending(S) \subseteq S
      /\ PublicCounted(S) \subseteq S /\ PublicPending(S) \subseteq S
  BY DEF JuryCounted, JuryPending, PublicCounted, PublicPending, UpToFirst
<1>4. /\ Cardinality(JuryCounted(S) \union {s}) = Cardinality(JuryCounted(S)) + 1
      /\ Cardinality(JuryPending(S) \union {s}) = Cardinality(JuryPending(S)) + 1
      /\ Cardinality(PublicCounted(S) \union {s}) = Cardinality(PublicCounted(S)) + 1
      /\ Cardinality(PublicPending(S) \union {s}) = Cardinality(PublicPending(S)) + 1
  BY <1>2, <1>3
<1>5. /\ JuryCounted(T) = IF SolvingIn(S) = {} /\ Visible(db, s) /\ CountSubmission(db, s)
                          THEN JuryCounted(S) \union {s} ELSE JuryCounted(S)
      /\ JuryPending(T) = IF SolvingIn(S) = {} /\ ~Visible(db, s)
                          THEN JuryPending(S) \union {s} ELSE JuryPending(S)
  <2>1. CASE SolvingIn(S) = {}
    BY <2>1, JurySetsStep
  <2>2. CASE SolvingIn(S) # {}
    BY <2>2, JurySetsStep
  <2> QED  BY <2>1, <2>2
<1>6. /\ PublicCounted(T)
           = IF /\ SolvingPublicIn(S) = {}
                /\ Visible(db, s) /\ CountSubmission(db, s) /\ ~AfterFreeze[s]
             THEN PublicCounted(S) \union {s} ELSE PublicCounted(S)
      /\ PublicPending(T) = IF SolvingPublicIn(S) = {} /\ PendingPublic(db, s)
                            THEN PublicPending(S) \union {s} ELSE PublicPending(S)
  <2>1. CASE SolvingPublicIn(S) = {}
    BY <2>1, PublicSetsStep
  <2>2. CASE SolvingPublicIn(S) # {}
    BY <2>2, PublicSetsStep
  <2> QED  BY <2>1, <2>2
<1> HIDE DEF T
<1> QED  BY <1>4, <1>5, <1>6 DEF T

(* The loop body keeps the invariant.                                       *)
LEMMA RowLoopStep ==
    ASSUME db \in Database, NEW S, NEW s, Later(S, s), NEW a \in LoopRows,
           RowLoopInv(S, a)
    PROVE  LoopStep(a, s) \in LoopRows /\ RowLoopInv(S \union {s}, LoopStep(a, s))
<1> DEFINE T == S \union {s}
           fast == Runtimes(a, s)
           b == LoopStep(a, s)
<1>1. s \in Submission /\ S \subseteq Submission
  BY DEF Later
<1>2. /\ fast \in LoopRows
      /\ fast.jury.submissions = Cardinality(JuryCounted(S))
      /\ fast.jury.pending = Cardinality(JuryPending(S))
      /\ fast.jury.solvedBy = First(SolvingIn(S))
      /\ fast.public.submissions = Cardinality(PublicCounted(S))
      /\ fast.public.pending = Cardinality(PublicPending(S))
      /\ fast.public.solvedBy = First(SolvingPublicIn(S))
  BY <1>1, RuntimesFields DEF RowLoopInv, JuryInv, PublicInv
<1>3. fast.jury.runtimeOf = {r \in T : db.verdict[r] = Correct}
  <2>1. fast.jury.runtimeOf = IF db.verdict[s] = Correct THEN a.jury.runtimeOf \union {s}
                              ELSE a.jury.runtimeOf
    BY <1>1, RuntimesFields
  <2>2. a.jury.runtimeOf = {r \in S : db.verdict[r] = Correct}
    BY DEF RowLoopInv, JuryInv
  <2> HIDE DEF fast
  <2> QED  BY <2>1, <2>2
<1>4. fast.public.runtimeOf = {r \in T : db.verdict[r] = Correct /\ ~AfterFreeze[r]}
  <2>1. fast.public.runtimeOf = IF db.verdict[s] = Correct /\ ~AfterFreeze[s]
                                THEN a.public.runtimeOf \union {s} ELSE a.public.runtimeOf
    BY <1>1, RuntimesFields
  <2>2. a.public.runtimeOf = {r \in S : db.verdict[r] = Correct /\ ~AfterFreeze[r]}
    BY DEF RowLoopInv, PublicInv
  <2> HIDE DEF fast
  <2> QED  BY <2>1, <2>2
<1>5. /\ fast.jury.solvedBy = {} <=> SolvingIn(S) = {}
      /\ fast.public.solvedBy = {} <=> SolvingPublicIn(S) = {}
      /\ SolvingPublicIn(S) # {} => SolvingIn(S) # {}
  BY <1>1, <1>2, SolvedOrNot
<1>6. SolvingIn(S) # {} /\ SolvingPublicIn(S) = {} => AfterFreeze[s]
  <2> SUFFICES ASSUME SolvingIn(S) # {}, SolvingPublicIn(S) = {} PROVE AfterFreeze[s]
    OBVIOUS
  <2>1. PICK r \in SolvingIn(S) : TRUE
    OBVIOUS
  <2>2. AfterFreeze[r]
    BY <2>1 DEF SolvingPublicIn
  <2>3. r \in Submission /\ r < s
    BY DEF SolvingIn, Later
  <2> QED  BY <1>1, <2>2, <2>3, ScoreRowLoopAssumption
<1>7. b = IF fast.public.solvedBy # {} THEN fast
          ELSE IF ~Visible(db, s) THEN CountPending(fast, s)
          ELSE Solve(Count(fast, s), s)
  BY DEF LoopStep
<1> HIDE DEF fast, b
<1>8. CASE SolvingPublicIn(S) # {}
  <2>1. b = fast /\ SolvingIn(S) # {}
    BY <1>5, <1>7, <1>8
  <2>2. /\ First(SolvingIn(T)) = First(SolvingIn(S))
        /\ First(SolvingPublicIn(T)) = First(SolvingPublicIn(S))
    BY <1>8, <2>1, JurySetsStep, PublicSetsStep
  <2>3. JuryInv(T, b.jury)
    BY <1>2, <1>3, <2>1, <2>2, CountsStep DEF JuryInv
  <2>4. PublicInv(T, b.public)
    BY <1>2, <1>4, <1>8, <2>1, <2>2, CountsStep DEF PublicInv
  <2> QED  BY <1>2, <2>1, <2>3, <2>4 DEF RowLoopInv, b
<1>9. CASE SolvingPublicIn(S) = {} /\ ~Visible(db, s)
  <2>1. b = CountPending(fast, s)
    BY <1>5, <1>7, <1>9
  <2>2. /\ First(SolvingIn(T)) = First(SolvingIn(S))
        /\ First(SolvingPublicIn(T)) = First(SolvingPublicIn(S))
    <3>1. SolvingIn(T) = SolvingIn(S)
      BY <1>9 DEF SolvingIn
    <3> QED  BY <3>1 DEF SolvingPublicIn
  <2>3. PendingPublic(db, s)
    BY <1>9 DEF PendingPublic
  <2>4. JuryInv(T, b.jury)
    <3>1. /\ b.jury.submissions = fast.jury.submissions
          /\ b.jury.pending = IF fast.jury.solvedBy = {} THEN fast.jury.pending + 1
                             ELSE fast.jury.pending
          /\ b.jury.solvedBy = fast.jury.solvedBy
          /\ b.jury.runtimeOf = fast.jury.runtimeOf
      BY <1>1, <1>2, <2>1, CountPendingFields
    <3>2. /\ Cardinality(JuryCounted(T)) = Cardinality(JuryCounted(S))
          /\ Cardinality(JuryPending(T)) = IF SolvingIn(S) = {}
                                           THEN Cardinality(JuryPending(S)) + 1
                                           ELSE Cardinality(JuryPending(S))
      BY <1>9, CountsStep
    <3> QED  BY <1>2, <1>3, <1>5, <2>2, <3>1, <3>2 DEF JuryInv
  <2>5. PublicInv(T, b.public)
    <3>1. /\ b.public.submissions = fast.public.submissions
          /\ b.public.pending = fast.public.pending + 1
          /\ b.public.solvedBy = fast.public.solvedBy
          /\ b.public.runtimeOf = fast.public.runtimeOf
      BY <1>1, <1>2, <2>1, CountPendingFields
    <3>2. /\ Cardinality(PublicCounted(T)) = Cardinality(PublicCounted(S))
          /\ Cardinality(PublicPending(T)) = Cardinality(PublicPending(S)) + 1
      BY <1>9, <2>3, CountsStep
    <3> QED  BY <1>2, <1>4, <2>2, <3>1, <3>2 DEF PublicInv
  <2>6. b \in LoopRows
    BY <1>1, <1>2, <2>1, CountPendingFields
  <2> QED  BY <2>4, <2>5, <2>6 DEF RowLoopInv, b
<1>10. CASE SolvingPublicIn(S) = {} /\ Visible(db, s)
  <2> DEFINE n == Count(fast, s)
  <2>1. b = Solve(n, s) /\ n \in LoopRows
    BY <1>1, <1>2, <1>5, <1>7, <1>10, CountFields
  <2>2. PendingPublic(db, s) <=> AfterFreeze[s]
    BY <1>10 DEF PendingPublic
  <2>3. /\ n.jury.submissions = Cardinality(JuryCounted(T))
        /\ n.jury.pending = Cardinality(JuryPending(T))
    <3>1. /\ n.jury.submissions
               = IF fast.jury.solvedBy = {} /\ CountSubmission(db, s)
                 THEN fast.jury.submissions + 1 ELSE fast.jury.submissions
          /\ n.jury.pending = fast.jury.pending
      BY <1>1, <1>2, CountFields
    <3>2. /\ Cardinality(JuryCounted(T))
               = IF SolvingIn(S) = {} /\ CountSubmission(db, s)
                 THEN Cardinality(JuryCounted(S)) + 1 ELSE Cardinality(JuryCounted(S))
          /\ Cardinality(JuryPending(T)) = Cardinality(JuryPending(S))
      BY <1>10, CountsStep
    <3> HIDE DEF n, T
    <3> QED  BY <1>2, <1>5, <3>1, <3>2
  <2>4. /\ n.public.submissions = Cardinality(PublicCounted(T))
        /\ n.public.pending = Cardinality(PublicPending(T))
    <3>1. /\ n.public.submissions
               = IF ~AfterFreeze[s] /\ CountSubmission(db, s)
                 THEN fast.public.submissions + 1 ELSE fast.public.submissions
          /\ n.public.pending = IF AfterFreeze[s] THEN fast.public.pending + 1
                                ELSE fast.public.pending
      BY <1>1, <1>2, CountFields
    <3>2. /\ Cardinality(PublicCounted(T))
               = IF ~AfterFreeze[s] /\ CountSubmission(db, s)
                 THEN Cardinality(PublicCounted(S)) + 1 ELSE Cardinality(PublicCounted(S))
          /\ Cardinality(PublicPending(T))
               = IF AfterFreeze[s] THEN Cardinality(PublicPending(S)) + 1
                 ELSE Cardinality(PublicPending(S))
      BY <1>10, <2>2, CountsStep
    <3> HIDE DEF n, T
    <3> QED  BY <1>2, <3>1, <3>2
  <2>5. /\ n.jury.solvedBy = First(SolvingIn(S))
        /\ n.public.solvedBy = First(SolvingPublicIn(S))
        /\ n.jury.runtimeOf = {r \in T : db.verdict[r] = Correct}
        /\ n.public.runtimeOf = {r \in T : db.verdict[r] = Correct /\ ~AfterFreeze[r]}
    BY <1>1, <1>2, <1>3, <1>4, CountFields
  <2> HIDE DEF n
  <2>6. /\ b \in LoopRows
        /\ b.jury.submissions = n.jury.submissions /\ b.jury.pending = n.jury.pending
        /\ b.jury.runtimeOf = n.jury.runtimeOf
        /\ b.public.submissions = n.public.submissions
        /\ b.public.pending = n.public.pending
        /\ b.public.runtimeOf = n.public.runtimeOf
    BY <1>1, <2>1, SolveFields
  <2>7. b.jury.solvedBy = First(SolvingIn(T))
    <3>1. b.jury.solvedBy = IF n.jury.solvedBy = {} /\ db.verdict[s] = Correct THEN {s}
                            ELSE n.jury.solvedBy
      BY <1>1, <2>1, SolveFields
    <3>2. CASE SolvingIn(S) = {}
      <4>1. n.jury.solvedBy = {}
        BY <1>2, <1>5, <2>5, <3>2
      <4>2. First(SolvingIn(T)) = IF Visible(db, s) /\ db.verdict[s] = Correct
                                  THEN {s} ELSE {}
        BY <3>2, JurySetsStep
      <4> QED  BY <1>10, <3>1, <4>1, <4>2
    <3>3. CASE SolvingIn(S) # {}
      <4>1. n.jury.solvedBy # {}
        BY <1>2, <1>5, <2>5, <3>3
      <4>2. First(SolvingIn(T)) = First(SolvingIn(S))
        BY <3>3, JurySetsStep
      <4> QED  BY <2>5, <3>1, <4>1, <4>2
    <3> QED  BY <3>2, <3>3
  <2>8. b.public.solvedBy = First(SolvingPublicIn(T))
    <3>1. b.public.solvedBy = IF n.jury.solvedBy # {} \/ db.verdict[s] # Correct
                              THEN n.public.solvedBy
                              ELSE IF AfterFreeze[s] THEN {} ELSE {s}
      BY <1>1, <2>1, SolveFields
    <3>2. n.public.solvedBy = {} /\ (n.jury.solvedBy = {} <=> SolvingIn(S) = {})
      BY <1>2, <1>5, <1>10, <2>5
    <3>3. First(SolvingPublicIn(T))
            = IF Visible(db, s) /\ db.verdict[s] = Correct /\ ~AfterFreeze[s]
              THEN {s} ELSE {}
      BY <1>10, PublicSetsStep
    <3> QED  BY <1>6, <1>10, <3>1, <3>2, <3>3
  <2>9. JuryInv(T, b.jury)
    BY <2>3, <2>5, <2>6, <2>7 DEF JuryInv
  <2>10. PublicInv(T, b.public)
    BY <2>4, <2>5, <2>6, <2>8 DEF PublicInv
  <2> QED  BY <2>6, <2>9, <2>10 DEF RowLoopInv, b
<1> QED  BY <1>8, <1>9, <1>10

LEMMA RowLoopStepType ==
    ASSUME db \in Database, NEW a \in LoopRows, NEW s \in Submission
    PROVE  LoopStep(a, s) \in LoopRows
<1>1. Runtimes(a, s) \in LoopRows
  BY RuntimesFields
<1>2. CountPending(Runtimes(a, s), s) \in LoopRows
  BY <1>1, CountPendingFields
<1>3. Count(Runtimes(a, s), s) \in LoopRows
  BY <1>1, CountFields
<1>4. Solve(Count(Runtimes(a, s), s), s) \in LoopRows
  BY <1>3, SolveFields
<1> QED  BY <1>1, <1>2, <1>4 DEF LoopStep

(* The last of some submissions.                                            *)
LEMMA LastSubmission ==
    ASSUME NEW S, S \subseteq Submission, S # {}
    PROVE  /\ Max(S) \in S
           /\ Later(S \ {Max(S)}, Max(S))
           /\ (S \ {Max(S)}) \union {Max(S)} = S
<1>1. S \subseteq Nat /\ IsFiniteSet(S)
  BY ScoreRowAssumption, FS_Subset
<1>2. PICK n \in S : \A y \in S : y <= n
  <2> DEFINE id == [y \in S |-> y]
  <2>1. id \in [S -> Nat]
    BY <1>1
  <2>2. PICK x \in S : \A y \in S : id[y] <= id[x]
    <3> HIDE DEF id
    <3> QED  BY <1>1, <2>1, GreatestExists
  <2> QED  BY <2>2
<1>3. n \in Nat /\ S \subseteq 0..n
  BY <1>1, <1>2
<1>4. Max(S) \in S /\ \A y \in S : y <= Max(S)
  BY <1>3, BoundedHasMax
<1>5. \A r \in S \ {Max(S)} : r < Max(S)
  <2> DEFINE m == Max(S)
  <2>1. m \in Nat /\ \A y \in S : y \in Nat /\ y <= m
    BY <1>1, <1>4
  <2> HIDE DEF m
  <2>2. \A r \in S : r # m => r < m
    BY <2>1
  <2> QED  BY <2>2 DEF m
<1>6. Later(S \ {Max(S)}, Max(S))
  BY <1>4, <1>5 DEF Later
<1> QED  BY <1>4, <1>6

(* f[d] is what the loop computes for the submissions in d.                 *)
IsRowLoop(f, S) ==
    f = [d \in SUBSET S |-> IF d = {} THEN LoopStart
                            ELSE LoopStep(f[d \ {Max(d)}], Max(d))]

LEMMA RowLoopRuns ==
    ASSUME db \in Database, NEW c
    PROVE  \E f : /\ IsRowLoop(f, Submissions(db, c))
                  /\ LoopRow(c) = f[Submissions(db, c)]
<1> DEFINE S == Submissions(db, c)
           h == [s \in S |-> [a \in LoopRows |-> LoopStep(a, s)]]
           F == CHOOSE f : IsRowLoop(f, S)
<1>1. LoopRow(c) = F[S]
  BY DEF LoopRow, MapThenFoldSet, IsRowLoop
<1>2. S \subseteq Submission
  BY DEF Submissions, Database
<1> HIDE DEF S, F
<1>3. LoopStart \in LoopRows
  BY DEF LoopStart, NoSubmissions, LoopRows, ViewRow
<1>4. /\ h \in Steps(S, LoopRows)
      /\ \A s \in S : \A a \in LoopRows : h[s][a] = LoopStep(a, s)
  BY <1>2, RowLoopStepType DEF Steps
<1> HIDE DEF h
<1>5. \E n \in Nat : S \in SUBSET (0..n)
  <2>1. CASE S = {}
    BY <2>1
  <2>2. CASE S # {}
    <3>1. /\ Max(S) \in S /\ Max(S) \in Nat /\ S \subseteq Nat
          /\ \A r \in S : r = Max(S) \/ r < Max(S)
      BY <1>2, <2>2, LastSubmission, ScoreRowAssumption DEF Later
    <3>2. S \in SUBSET (0..Max(S))
      BY <3>1
    <3> QED  BY <3>1, <3>2
  <2> QED  BY <2>1, <2>2
<1>6. PICK f : IsFold(f, S, LoopRows, LoopStart, h)
  BY <1>3, <1>4, <1>5, FoldExists
<1>7. IsRowLoop(f, S)
  <2>1. ASSUME NEW d \in SUBSET S, d # {}
        PROVE  f[d] = LoopStep(f[d \ {Max(d)}], Max(d))
    <3>1. Max(d) \in S
      BY <1>2, <2>1, LastSubmission
    <3>2. f[d \ {Max(d)}] \in LoopRows
      BY <1>6 DEF IsFold
    <3>3. f[d] = h[Max(d)][f[d \ {Max(d)}]]
      BY <1>6, <2>1 DEF IsFold
    <3> QED  BY <1>4, <3>1, <3>2, <3>3
  <2>2. f = [d \in SUBSET S |-> f[d]] /\ f[{}] = LoopStart
    BY <1>6 DEF IsFold
  <2> QED  BY <2>1, <2>2 DEF IsRowLoop
<1>8. IsRowLoop(F, S)
  BY <1>7 DEF F
<1> QED  BY <1>1, <1>8 DEF S

(* By least counterexample: the invariant holds after any submissions.      *)
LEMMA RowLoopInvHolds ==
    ASSUME db \in Database, NEW S, S \subseteq Submission, NEW f, IsRowLoop(f, S)
    PROVE  f[S] \in LoopRows /\ RowLoopInv(S, f[S])
<1> DEFINE Holds(d) == f[d] \in LoopRows /\ RowLoopInv(d, f[d])
           C == {k \in Nat : \E d \in SUBSET S : Cardinality(d) = k /\ ~Holds(d)}
<1> SUFFICES ASSUME ~Holds(S) PROVE FALSE
  OBVIOUS
<1>1. \A d \in SUBSET S : IsFiniteSet(d) /\ Cardinality(d) \in Nat
  BY ScoreRowAssumption, FS_Subset, FS_CardinalityType
<1>2. Holds({})
  <2>1. f[{}] = LoopStart
    BY DEF IsRowLoop
  <2>2. LoopStart \in LoopRows
    BY DEF LoopStart, NoSubmissions, LoopRows, ViewRow
  <2>3. /\ JuryCounted({}) = {} /\ JuryPending({}) = {} /\ PublicCounted({}) = {}
        /\ PublicPending({}) = {} /\ SolvingIn({}) = {} /\ SolvingPublicIn({}) = {}
    BY DEF JuryCounted, JuryPending, PublicCounted, PublicPending, SolvingIn,
           SolvingPublicIn, UpToFirst
  <2>4. First({}) = {}
    BY DEF First
  <2>5. /\ LoopStart.jury = NoSubmissions /\ LoopStart.public = NoSubmissions
        /\ NoSubmissions.submissions = 0 /\ NoSubmissions.pending = 0
        /\ NoSubmissions.solvedBy = {} /\ NoSubmissions.runtimeOf = {}
    BY DEF LoopStart, NoSubmissions
  <2>6. Cardinality({}) = 0
    BY FS_EmptySet
  <2>7. JuryInv({}, NoSubmissions) /\ PublicInv({}, NoSubmissions)
    BY <2>3, <2>4, <2>5, <2>6 DEF JuryInv, PublicInv
  <2>8. RowLoopInv({}, LoopStart)
    BY <2>5, <2>7 DEF RowLoopInv
  <2> QED  BY <2>1, <2>2, <2>8
<1>3. ASSUME NEW d \in SUBSET S, d # {}, Holds(d \ {Max(d)})
      PROVE  Holds(d)
  <2> DEFINE m == Max(d)
             e == d \ {m}
  <2>1. /\ m \in d /\ Later(e, m) /\ e \union {m} = d
    BY <1>3, LastSubmission
  <2>2. f[d] = LoopStep(f[e], m)
    BY <1>3 DEF IsRowLoop
  <2>3. f[e] \in LoopRows /\ RowLoopInv(e, f[e])
    BY <1>3
  <2> HIDE DEF Holds, m, e
  <2>4. LoopStep(f[e], m) \in LoopRows /\ RowLoopInv(e \union {m}, LoopStep(f[e], m))
    BY <2>1, <2>3, RowLoopStep
  <2> QED  BY <2>1, <2>2, <2>4 DEF Holds
<1> HIDE DEF Holds
<1>4. Cardinality(S) \in C
  BY <1>1
<1>5. PICK k \in C : \A j \in C : ~(<<j, k>> \in OpToRel(<, Nat))
  BY <1>4, NatLessThanWellFounded, WFMin
<1>6. PICK d \in SUBSET S : Cardinality(d) = k /\ ~Holds(d)
  OBVIOUS
<1>7. d # {}
  BY <1>2, <1>6
<1>8. Max(d) \in d
  BY <1>7, LastSubmission
<1> DEFINE e == d \ {Max(d)}
<1>9. e \in SUBSET S /\ Cardinality(e) = k - 1 /\ k \in Nat /\ Cardinality(e) \in Nat
  BY <1>1, <1>6, <1>8, FS_RemoveElement
<1>10. Holds(e)
  <2>1. SUFFICES ASSUME ~Holds(e) PROVE FALSE
    OBVIOUS
  <2>2. k - 1 \in C
    BY <1>9, <2>1
  <2>3. <<k - 1, k>> \in OpToRel(<, Nat)
    BY <1>9 DEF OpToRel
  <2> QED  BY <1>5, <2>2, <2>3
<1> QED  BY <1>3, <1>6, <1>7, <1>10

(* The loop of calculateScoreRow computes the row that ScoreRow defines,    *)
(* for any submissions of a cell.                                           *)
THEOREM RowLoopComputesRow ==
    ASSUME db \in Database, NEW c
    PROVE  LoopRow(c) = Row(db, c)
<1> DEFINE S == Submissions(db, c)
           a == LoopRow(c)
<1>1. S \subseteq Submission
  BY DEF Submissions, Database
<1>2. PICK f : IsRowLoop(f, S) /\ a = f[S]
  BY RowLoopRuns
<1> HIDE DEF S, a
<1>3. a \in LoopRows /\ RowLoopInv(S, a)
  BY <1>1, <1>2, RowLoopInvHolds
<1>4. SolvingIn(S) = Solving(db, c) /\ SolvingPublicIn(S) = SolvingPublic(db, c)
  BY DEF S, SolvingIn, SolvingPublicIn, Solving, SolvingPublic
<1>5. a.jury = JuryRow(db, c)
  <2>1. a.jury = [submissions |-> a.jury.submissions, pending |-> a.jury.pending,
                  solvedBy |-> a.jury.solvedBy, runtimeOf |-> a.jury.runtimeOf]
    BY <1>3 DEF LoopRows, ViewRow
  <2>2. JuryInv(S, a.jury)
    BY <1>3 DEF RowLoopInv
  <2> QED  BY <1>4, <2>1, <2>2 DEF JuryInv, JuryCounted, JuryPending, JuryRow, S
<1>6. a.public = PublicRow(db, c)
  <2>1. a.public = [submissions |-> a.public.submissions, pending |-> a.public.pending,
                    solvedBy |-> a.public.solvedBy, runtimeOf |-> a.public.runtimeOf]
    BY <1>3 DEF LoopRows, ViewRow
  <2>2. PublicInv(S, a.public)
    BY <1>3 DEF RowLoopInv
  <2> QED  BY <1>4, <2>1, <2>2 DEF PublicInv, PublicCounted, PublicPending, PublicRow, S
<1>7. a = [jury |-> a.jury, public |-> a.public]
  BY <1>3 DEF LoopRows
<1> QED  BY <1>5, <1>6, <1>7 DEF Row, a

(* In every reachable state the loop of calculateScoreRow computes, for     *)
(* every cell, the row that the other theorems are about.                   *)
THEOREM LoopAlwaysComputesRow == Spec => []LoopComputesRow
<1>1. TypeOK => LoopComputesRow
  BY RowLoopComputesRow DEF TypeOK, LoopComputesRow
<1> QED  BY TypeCorrect, <1>1, PTL

=============================================================================
