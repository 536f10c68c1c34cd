# A TLA+ development of DOMjudge: judging, scoring and the web client

DOMjudge runs programming contests.  Teams submit programs to the *domserver*
(a PHP web application with a MariaDB/MySQL database, `webapp/`), *judgehosts*
(machines running `judge/judgedaemon.main.php`) fetch work from its API,
compile and run the programs and report results, and the domserver computes
verdicts and the scoreboard.  Nothing coordinates the domserver's PHP processes
except the database: a handler is a sequence of transactions, and handlers of
several judgehosts, teams and jury members interleave between them.

This directory models that core: how a judging is queued, claimed, judged in
parallel, decided and scored, how it is judged again, and what happens when
daemons die, answers are lost, scripts are broken and handlers fail half-way.
It also models the *web client*, `webapp/public/js/domjudge.js`, whose timers,
answers and clicks the browser runs in any order and in several tabs.

## 1. Inventory

| Component | State | Operations | Interacts with |
|---|---|---|---|
| Submission intake (`SubmissionService::submitSolution`) | submission, judging | check, store, queue, score | judge queue, scoreboard cache |
| Judge queue and judgehost API (`JudgehostController`, `DOMJudgeService::maybeCreateJudgeTasks`, `JudgeRemainingTrait`) | queuetask, judgetask, judging, judging_run, judgehost | fetch-work, update-judging, add-judging-run, register, internal-error, enable/disable, judge remaining | judgedaemons by HTTP, scoreboard by calls |
| Judgedaemon (`judgedaemon.main.php`) | work directory, current batch, background uploads | fetch, compile, run, upload, return work | judgehost API |
| Final result (`SubmissionService::getFinalResult`) | none | verdict of a sequence of run results | judge queue |
| Scoreboard cache (`ScoreboardService`) | scorecache, rankcache, advisory locks | calculateScoreRow, updateRankCache, refreshCache | all handlers that change verdicts |
| Rejudging (`RejudgingService`) | rejudging, a second judging per submission | create, cancel, apply, repeat | judge queue, scoreboard |
| Internal errors (`internalErrorAction`, `InternalErrorController`) | internal_error, disabled executables, hosts, languages | report, give back, resolve, ignore | judge queue, rejudging |
| Web client (`domjudge.js`) | timers, handlers, boxes of a page; cookies and localStorage shared by tabs | refresh, favourites, notifications, shortcuts, theme, preview, clock, graph | the domserver by requests, other tabs by localStorage |
| Balloons, event log, awards, statistics | balloon, event, none | derive from judgings | scoreboard, API clients |
| Shadow contest source (`ExternalContestSourceService`) | read position, pending events | import events of another system | submissions, external judgements |
| Contest state, freeze, ranks | contest times, rank cache | read-only computation | scoreboard display |
| `runguard`, `runpipe`, shell scripts | processes, pipes | run programs within limits | judgedaemon |
| Import/export, configuration, web interface, submit client | settings, files | parsing and rendering | all |

What is hard in it:

* **Concurrency.** Two fetch-work requests select the same tasks; runs of one
  judging are stored and evaluated by several handlers at once; score rows are
  recalculated by several handlers at once; the jury acts in between.
* **Order.** Correct runs are uploaded by background processes, others
  synchronously; runs arrive in any order, also after the verdict.
* **Failure.** Daemons die with claimed tasks, answers are lost and requests
  sent again, handlers fail between two transactions, locks time out.
* **Stale reads.** A handler decides with values it read some transactions ago;
  a REPEATABLE-READ transaction reads a snapshot; a tab of the browser acts on
  rows and lists that another tab has changed.

What makes it correct: a verdict does not depend on order, parallelism or
failures and never changes; a task is judged by one judgehost at a time and is
not lost; every submission is judged; lazy evaluation stops and can be resumed;
a submission has one valid judging, whatever rejudgings and errors it went
through, and is not forgotten; the scoreboard shows the database and hides what
the freeze hides; what the user clicks, types and is told is what happens.

## 2. Modules

| Module | Models |
|---|---|
| `FinalResult` | `getFinalResult` as a definition: the first best run of the known prefix, if nothing can beat it |
| `RunArrival` | the runs of one judging arriving in any order |
| `FinalResultLoop` | `getFinalResult` as the loop of the code, for comparison |
| `JudgeQueue` | domserver tables and handlers of the judging, and the judgedaemons |
| `ScoreRow` | `calculateScoreRow` as a function of the database |
| `ScoreRowLoop` | its loop, for comparison |
| `ScoreCache` | scorecache and rankcache and the concurrent requests that maintain them |
| `AbstractJudging` | what teams are promised: accepted, then one verdict, then shown |
| `JudgeRefinement` | the mapping under which `JudgeQueue` implements it |
| `Rejudging` | `RejudgingService`, and `maybeUpdateActiveJudging` of the judgehost API |
| `TeamPriority` | the order of one team's submissions in the queue (`maybeCreateJudgeTasks`) |
| `InternalErrors` | errors of scripts: report, disabling, giving back, ignoring, resolving |
| `PageRefresh` | `enableRefresh`, `disableRefresh`, `toggleRefresh`, `processAjaxResponse` |
| `Favourites` | `toggle`, `initFavouriteTeams` |
| `Notifications` | `sendNotification`, `updateMenuAlerts` and what they call |
| `Shortcuts` | `initializeKeyboardShortcuts`, `enableKeys`, `disableKeys` |
| `JuryForms` | `applyEditorTheme`, `previewClarification` and their callers |
| `Clock`, `SubmissionGraph` | `updateClock`; buckets and ticks of `createSubmissionGraph` |
| `MCFinalResult`, `MCJudgeQueue`, `MCScoreCache`, `MCDomserver`, `MCBrowser` | the instances that TLC checks |
| `FinalResultLemmas`, `FinalResultProofs`, `JudgeQueueProofs`, `ScoreCacheProofs`, `RejudgingProofs`, `DomserverProofs`, `BrowserProofs` | theorems and proofs |
| `FoldLemmas` | lemmas about loops, for the proofs: greatest elements, and what a fold over a set of places computes |

`JudgeQueue` extends `FinalResult`, `JudgeRefinement` extends `JudgeQueue`;
`ScoreCache` extends `ScoreRow`.  `MCDomserver` and `MCBrowser` put modules side
by side that share no variables: the first state chooses the part that moves.
The functions of `domjudge.js` really share none; `Rejudging`, `TeamPriority`
and `InternalErrors` each keep the part of the database that they are about,
and their products with `JudgeQueue` are far beyond enumeration.  Where a
definition is meant to be broken to test a property, the plausible bug stands
before it as an operator marked *Mutant*; nothing uses these.

### JudgeQueue

A *job* is a judging; it has one judgetask and one judging_run per test case.
The variables are the columns that handlers read: `queuetask` (rows of a job as
records of priority and started), `judgehost` and `valid` of the tasks,
`runresult`, `result`, `endtime`, `outputCompile`, `judgeCompletely`, `enabled`;
`scorerow` is the verdict from which the score cell was last calculated.
`requests` holds the add-judging-run requests on the way or being handled, each
with what its handler has read so far.  Per daemon there are `pc`, `job`,
`tasks`, `strategy` and the compiled jobs.

| Code | Actions |
|---|---|
| `getJudgeTasksAction` (fetch-work), case 1 | `FetchContinue`, `FetchNew` |
| case 2a, 2b, nothing | `FetchStart`, `MarkStarted`, `FetchShare`, `FetchNothing` |
| `getJudgetasks`, `serializeJudgeTasks` | `SelectTasks`, `DeleteQueueTask`, `ClaimTasks` |
| `compile`, `updateJudgingAction` | `CompileSuccess`, `CompileError` |
| `judge` | `RunTest` |
| `addSingleJudgingRun` | `StoreRun`, `ReadRuns`, `FlushVerdict`, `PostVerdict` |
| `createJudgehostAction` | `Register` |
| `internalErrorAction`, `giveBackJudging` | `HostError` |
| `judgeRemainingJudgings` | `JudgeRemaining` |
| enable/disable | `Enable`, `Disable` |
| failures | `Crash`, `GiveUp`, and the branches guarded by `Faults` |

Decisions of the abstraction:

* All judgings are valid and belong to no rejudging.  `Submit` is one step
  because the queue row is inserted last.
* `judgehostid` and `starttime` of a task are set and cleared together and are
  one variable.
* Team priority, the order of tasks within a job and "the job I started last"
  are left open: any choice is allowed.
* The runs and the judging are read in one step (`ReadRuns`); the report of a
  successful compilation is one step.
* Contradicting compile reports create internal errors in the code that have no
  effect on the queue and are left out.
* A crash during fetch-work is the same as one after it, as the handler runs to
  its end.  `Register` is possible from idle when answers may be lost, as the
  daemon registers again at an endpoint marked as errorred.
* `HostError` stands for an internal error not reported before.
* Retries are unlimited (`GiveUp` is the end of one).
* Left out: signals for a graceful exit, debug packages, prefetch tasks, disk
  space, version checks, internal errors of executables and test cases, the
  result "aborted".

### ScoreRow and ScoreCache

`db` is what the calculation reads: the submissions, their column `valid`, and
result and verification of their valid judging.  Submissions are numbers in the
order of their submit times; solve times are represented by the solving
submission, run times by the set of correct submissions, the columns of
rankcache by the solved cells they are computed from.

A *worker* is one PHP request: it changes `db` (`Submit`, `Judged`, `Verify`,
`UpdateStatus`, `ApplyRejudging`, or nothing in `RefreshCache`) and then
recalculates cells and ranks: `ReadSubmissions` (GET_LOCK and the first query),
`ReadFirst` (the first-to-solve query), `Replace` (REPLACE INTO and
RELEASE_LOCK), then `UpdateRankOfCell` or `UpdateRankOfTeam` and `WriteRank`
under the lock of the team.  `CompileError` is different in the code and in the
model: the whole handler is one transaction.  It reads a snapshot (`view`) with
its own changes, the rows it wrote stay locked, and all becomes visible with
`Commit`.

Decisions of the abstraction: all teams are in one sort order; submissions are
within contest time and stored in the order of their times; a missing cache row
is an empty row; locks are waited for without limit (the timeout is the fault
"exception" of `JudgeQueue`); the order of cells within a request is left open;
a judging is verified only when it has a result, as the jury interface offers
it; a rejudging that is applied is one of a single submission; external
judgements (shadow mode) are left out.

### AbstractJudging and JudgeRefinement

`AbstractJudging` has three variables: the accepted submissions, their verdicts
and what the scoreboard shows.  A submission is accepted, gets one of its
allowed verdicts once, and the scoreboard shows that verdict with it or later.
The mapping takes `submitted`, `result` and `scorerow` for them; the allowed
verdict is that of judging all tests in order on one judgehost, or a compiler
error if the program does not compile.  `ImplementsJudging` is the safety part
and holds with all failures; `ImplementsFairJudging` adds the promise that
everything accepted is judged and shown, and holds without failures.

### Rejudging

Judging `<<s, r>>` is the one of submission `s` in rejudging `r`; `<<s, 0>>` is
the first one.  `Create`, `CreateJudging` and `CreateEnd` are `createRejudging`,
with one step per submission; `StartFinish`, `Apply`, `Cancel`, `EndFinish` are
`finishRejudging`.  The judging of a judging is its `handler`: `Claim`,
`AddRun`, `ReadResult`, `Flush` are the transactions of `addSingleJudgingRun`,
and `Count`, `ResetSubmissions`, `Repeat` the statements of
`maybeUpdateActiveJudging` that follow.  A compiler error is one transaction
(`CompileBegin`, `CompileCommit`, `CompileRepeat`).

Three constants say what is assumed of the surroundings.  `JuryWaits`: jury
members wait for their own requests, for automatic rejudgings and, before they
create a rejudging, until no other one is being finished or about to be
repeated.
`CreationFirst`: judgehosts get to a rejudging after its creation has ended.
`SnapshotReads`: whether the transaction of a compiler error sees a snapshot.
Section 4 says what happens without them.

### TeamPriority and InternalErrors

`TeamPriority` numbers the submissions of one team.  `ReadQueue` is the query
for the highest team priority and the number of recent tasks, `InsertQueueTask`
the insertion; tasks leave the queue in any order, as other teams' do not
matter; a submission may be blocked at first and unblocked later.

`InternalErrors` has one script that all submissions use, with one replacement.
The steps of `internalErrorAction` are the early returns (`ReportIgnored`), the
query for duplicates (`ReportError`), `InsertError`, `InvalidateTasks`,
`DisableExecutable` and `GiveBackJudging`; the jury ignores (`IgnoreError`) or
resolves an error (`ResolveError`, then `RejudgeAffected` for each judging).
The jury acts when the reports that were made have been handled.

### The web client

A callback of JavaScript runs to its end, so it is one step; what interleaves
are callbacks: timers, answers, keys and clicks.  Only `Notifications` splits a
callback in two, as another tab may write to localStorage between its read and
its write.

* `PageRefresh` counts timers that `refreshHandler` no longer denotes.
* `Favourites` keeps the rows of each tab with the number that the heart passes
  to `toggle`.  `rendering` are tabs whose request was not answered yet.
* `Notifications` has the tags as sets; `seen` records what the user saw.
* `Shortcuts` keeps the list of handlers that jQuery has for `keydown`; an event
  is handled by all that were attached when it was dispatched.
* `JuryForms` has the requests under way as sets, answered in any order.
* `Clock` and `SubmissionGraph` are computations over seconds.  In the graph,
  `maxTicks` is a quotient of floating-point numbers in the code; the model
  takes the exact one.

Flags such as `toggledMeanwhile`, `staleClick`, `together` or `typedInField`
are history: they record that a situation has occurred in which the code is
known not to keep the property, and each property says so.

## 3. Runs

Each run is `tlc -config <cfg> <module>`.

| Run | Configuration | Result | Shows |
|---|---|---|---|
| `final_result` | `MCFinalResult.cfg` | pass | the loop computes the definition for all 625 combinations of four runs; verdicts are final |
| `judge_faults` | `JudgeFaults.cfg` | pass | with all failures, lazy evaluation: awaited answers, no double work, no "internal bug", `AbstractJudging` is implemented |
| `judge_lazy` | `JudgeLazy.cfg` | pass | no failures, three test cases: nothing undecided outside the queue, lazy evaluation stops and is resumed on request, `AbstractJudging` is implemented with its promises |
| `judge_full` | `JudgeFull.cfg` | pass | no failures, two judgings of which one does not compile, full evaluation: every run is judged, an end time means that all runs are there |
| `score_rows` | `ScoreRows.cfg` | pass | the loop computes `ScoreRow!Row`; the freeze hides results |
| `score_board` | `ScoreBoard.cfg` | pass | concurrent recalculations lose no update; at most one first team per problem; the rank cache follows the score cache |
| `domserver` | `Domserver.cfg` | pass | rejudgings: one valid judging, repetitions in turn, the last judging ends it, outcomes take effect; queue order of a team; errors: one valid judging, nobody forgotten |
| `browser` | `Browser.cfg` | pass | the properties of the seven modules of the web client |
| `register_gives_back` | `RegisterGivesBack.cfg` | violation | finding 1 |
| `score_in_transaction` | `ScoreInTransaction.cfg` | violation | finding 2 |
| `giving_back` | `GivingBack.cfg` | violation | finding 3 |
| `balloons_are_shown` | `BalloonsAreShown.cfg` | violation | finding 4 |

What the properties of the passing runs say:

* *Verdicts.*  `LoopComputesFinalResult`, `VerdictFinal`: the loop over the runs
  gives the result of the definition, and later runs do not change it.
* *Queue, with failures.*  `AnswerAwaited`: a request whose answer decides
  about the rest of a batch is the only one its daemon waits for.  `NoDoubleWork`: no test is judged by two
  daemons at once.  `NoInternalBug`: no handler is about to overwrite a verdict
  with another one.  `ImplementsJudging`: the refinement.
* *Queue, without failures.*  `UndecidedIsQueued`: an unclaimed task of a
  judging without a verdict can be found through the queue.  `LazyStops`: nothing is
  left to claim after the verdict unless requested.  `EndtimeMeansDone`: a judging with
  an end time has its runs.  `EventuallyComplete`, `ImplementsFairJudging`:
  what was submitted is judged and shown.
* *Scoreboard.*  `RowsCurrent`: a row no request is about to
  recalculate is that of the database.  `RanksCurrent`: with all requests
  answered, ranks are those of the rows.  `OneFirst`: one first team.
  `FreezeHides`: public rows do not depend on results after the freeze.
  `LoopComputesRow`: the loop computes the row of the definition.
* *Domserver.*  `OneValidJudging`, `RepeatedInTurn`, `NotInEndedRejudging`,
  `InOneRejudging`, `LastOneEnds`, `OutcomeInEffect` are about rejudgings;
  `InOrderOfSubmission` and `NoStarvation` about the order within a team and
  between teams; `OneValidAfterErrors` and `NobodyForgotten` about internal
  errors.
* *Web client.*  `OneRefreshChain`, `QuietWhenDisabled`, `RefreshGoesOn`
  (refresh); `NotifiedOnce` (every alert but of a balloon is shown, and once);
  `ShortcutsInOrder` (a key acts once, and for the box the user began);
  `FormsSettle` (forms show the last choice once all is answered);
  `ClockIsRight`; `SubmissionsInBuckets`, `TicksMatchBuckets` (the graph);
  `TogglesClickedTeam` (hearts).

The exact statement and its conditions are in the comment above each definition.

**Bounds.**  Two judgehosts suffice for every race between claims, uploads and
handlers of one job.  Two test cases give one claimed or judged run and another
that is not; three with batches of two (`judge_lazy`) make the judgehosts share
a judging and leave one task unclaimed while others are judged.  Two jobs
(`judge_full`) are needed for the choice between continuing, starting and
sharing.  The set of requests is bounded by the tasks, so no counter needs a
cap.  `MCFailures` and `MCMixed` make the tests of a job fail differently, so
that a wrong choice of the deciding run shows.  The background uploads of
correct runs happen in `judge_lazy` and `judge_full`; together with all failures
at once they exceed what TLC can enumerate here (`judge_faults` has 1.8 million
states without them) and are covered by the proofs.  For the scoreboard, two
workers give every race on one cell; four submissions, two of them frozen
(`score_rows`), give each shape of a row: pending, wrong, solved before and
after the freeze; two teams are needed for first-to-solve.  Judgehosts and
workers are symmetric in runs without liveness.

`domserver`: two submissions, one with two test cases and one with one, and two
rejudgings (automatic, or repeated twice) give every race between the last runs
of a rejudging, its repetition and the jury.  Four submissions within two
minutes, at steps of 20 seconds, give bursts, gaps and tasks that leave the
queue in between.  Two judgehosts, two submissions with two judgings each and
two errors give duplicates, an error about a judging another one works on, and
resolution with a rejudging.

`browser`: three chains of timers are one more than any property allows; two
tabs, three teams and three boards (one without a team, two in another order)
give every difference between the rows shown and the stored list; a judgehost
that fails twice gives two alerts that differ in their time only; three boxes
allow a shortcut left behind, one begun after it and another one.  The clock
passes more than a day before the start, and whole hours and days.  The graph
is drawn for all durations up to 20 minutes, and around multiples of five
minutes and of a day beyond, up to 40 days.

**Deadlock** is checked except in `final_result` (all runs have arrived),
`score_rows`, the violation run of the scoreboard, where the contest may simply
be over, `domserver` and its violation run (all rejudgings and errors the bounds
allow have been made) and `browser` and its violation run (the contest of the
clock is over).

**Fairness.**  `LiveSpec` assumes weak fairness of the steps of each daemon
(it polls in an endless loop) and of the handling of requests (PHP processes
run to their end).  Teams, jury and failures owe nothing.  The liveness runs
have no failures: with them the code does lose work (finding 1 and the
observations about it).  The modules of the web client and of rejudging state no
fairness: users, the jury and the network owe nothing, and their properties are
invariants and action properties.
`JuryWaits` restricts the request for remaining runs to judgings nobody is
working on; without it the second observation about judging below is reachable, so the
passing runs keep it.

## 4. Findings

Each of these is a run that TLC ends with a counterexample.

1. **Registration does not give back undecided work.**  The query of
   `createJudgehostAction` has `j.result != :compiler_error`, which is not true
   for NULL.
2. **`calculateScoreRow` inside a transaction** (compiler errors) loses a
   concurrent update of the same row.
3. **An error during a rejudging gives a submission two valid judgings.**
   `giveBackJudging` makes the judging of the report invalid and a new one
   valid, but the judging of a rejudging was not the valid one.
4. **Only the first balloon is notified.**  `updateMenuBalloons` reads
   `baloonid`, which is undefined, so all balloons have the same tag.

### Observations

They delimit what the passing runs assume, or are known from the models without
a run of their own.  Those with a property and constants in brackets can be seen
by changing the configuration (with that property as its only one, and
`SPECIFICATION Spec` for `JudgeLazy.cfg`).

*Judging.*

* The exception "internal bug: the evaluated result changed during judging" is
  reachable when judgehosts disagree about the compilation (`JudgeLazy.cfg`,
  `Compiles` defined as `[j \in Job |-> BOOLEAN]`, `NoInternalBug`); the verdict
  has been overwritten by then.
* A request for the remaining runs can be lost between the storing of the
  verdict and the invalidation of the tasks (`JuryWaits = FALSE`,
  `RemainingHonoured`).
* A failed recalculation is never repeated: the retried request finds the
  verdict unchanged (`Faults = {"exception"}`, `ScoreRowCurrent`).  The lock
  timeout of `calculateScoreRow` is one such exception.  For the same reason the
  remaining tasks of the judging stay valid and are judged (`Faults =
  {"exception"}`, `LazyStops`).
* Work given back after the internal error of a judgehost may be unreachable:
  the queue task is deleted when no task is unclaimed, and `giveBackJudging`
  does not restore it (`JudgeFaults.cfg`, `UndecidedIsQueued`).

*Scoreboard.*

* The rank cache keeps a solution that was marked invalid, as it is updated only
  when the new row is solved (`ScoreBoard.cfg`, `Operations = {"status"}`,
  `RanksCurrent`).  The same holds for a verification that is withdrawn
  (`VerificationRequired = TRUE`, `Operations = {"verify", "unverify"}`).
* Two teams are shown as the first to solve a problem when the first solution is
  marked invalid, a later one is judged, and the first is marked valid again, as
  only the cell of the submission is recalculated (`ScoreBoard.cfg`,
  `Operations = {"status"}`, `OneFirst`).
* First to solve may stay unmarked when an earlier submission of another team is
  judged wrong later (`ScoreBoard.cfg`, `FirstIsMarked`).

*Rejudgings.*

* A judgehost that is done with the first submissions of an automatic rejudging
  while it is still being created ends it, and what is created later stays part
  of a rejudging that is over (`CreationFirst = FALSE`, `NotInEndedRejudging`).
* Under REPEATABLE-READ, two judgehosts whose compiler errors are the last
  results of a rejudging do not see each other's, and neither ends it
  (`SnapshotReads = TRUE`, `LastOneEnds`), although `calculateTodo` says "Make
  sure we have the most recent data".
* When two jury members finish a rejudging at once, or one finishes a rejudging
  that is applied automatically, the last write decides what the rejudging says
  of itself, and the judgings may say something else (`JuryWaits = FALSE`,
  `OutcomeInEffect`).
* A rejudging that is created while another one is being finished, or between
  the end of one repetition and the creation of the next, selects submissions
  that this request is about to release or to take: two open rejudgings may then
  contain the same submission (`JuryWaits = FALSE`, `InOneRejudging`).  The
  attempt to prove the property with a weaker `JuryWaits` showed it.

*Queue and internal errors.*

* Two submissions of a team handled at once may get the same team priority
  (`OneAtATime = FALSE`, `InOrderOfSubmission`); a submission that was blocked
  comes after those submitted later.
* A report that is taken for a duplicate, or that is ignored because the script
  was replaced meanwhile, leaves the tasks of the judgehost claimed, and by
  finding 1 registration does not give them back.  `NobodyForgotten` excepts
  these submissions, and those that are skipped as they are part of another
  rejudging, of which the jury is told.
* Two judgehosts that report different errors about one judging create two
  valid judgings, as in finding 3.

*Web client.*

* A refresh switched off and on during a request leaves two chains of timers; one
  switched off only goes on.  A request that fails ends refreshing for good.
* A heart clicked in a tab that does not show the stored favourites may store
  another team, or one twice; from then on the count of copies is wrong and
  hearts of all tabs toggle other teams.
* A shortcut that was begun and left by typing in a field stays attached and
  takes part in the next one.
* The answer to an earlier choice of theme or an earlier preview may arrive last
  and stay.  An emptied field keeps its last preview.
* By reading: `updateMenuExternalContest` removes the mark from
  `#menu_shadow_differences` (`domjudge.js:824`) and sets that of another
  element; `isDiffSideBySide` compares the result of `getItem` with undefined,
  though it is null when nothing is stored.

`PROJECT.json` quotes the line of code, comment or manual that each finding contradicts.

## 5. Proofs

The theorems hold for all numbers of judgehosts, jobs, tests, teams, problems,
submissions and concurrent requests, under the named assumptions of the modules
(disjoint special values, positive priorities, typed tables of outcomes).  A few
are there for the proofs and hold of the code: there are finitely many results of
a run (`FinalResultLoop`); the digits and the other keys of a shortcut differ
(`Shortcuts`); no scoreboard lists a team twice (`Favourites`); a submission
later than one after the freeze is after the freeze (`ScoreRowLoop`, from
`Submission::isAfterFreeze`); the bound on the time is not before the start of
the contest (`Clock`).

* **Loops** (`FoldLemmas`).  A loop of the code is a fold of the community
  modules: a function, chosen by its recursion equation, of the set of places
  done so far.  Induction over data cannot be cited here, as its
  theorems have an operator as a parameter, but its first-order core can: every set of numbers has a
  least element (`WFMin` with `NatLessThanWellFounded`).  Each argument takes the
  least number of places for which the claim fails and leads it to a
  contradiction.  `FoldExists` shows in this way that the recursion equation has
  a solution, without which nothing could be said of the chosen function;
  `FoldSteps` turns the fold over a list into the values after each place.  A
  loop invariant then does the rest, one place at a time.
* **Verdicts of runs** (`FinalResultLemmas`, `FinalResultProofs`).
  `VerdictStable`: if the runs that were known keep their results, a verdict
  stays.  Either all runs were known, or the best run of the known prefix has
  the greatest priority; then it is still the first run of that priority in
  any longer prefix.  `VerdictNeverChanges` is the action property `VerdictFinal`.
  `LoopComputesVerdict`: the loop of the code returns what the definition says, for
  any number of runs.  `LoopInv` says of the loop variables after `k` runs: a
  pending one was met or not, and the best result so far is the first of the
  greatest priority among the runs before the first pending one.
* **Ownership** (`JudgeQueueProofs`).  `Inv` is the conjunction of `TypeOK`,
  `AnswerAwaited` and `HeldByOwner`.  They need each other: an answer changes
  the state of the daemon that waits for it, which is harmless only if exactly
  that daemon waits; ownership survives registration only because a daemon that
  registers holds nothing.  `NoDoubleWork` follows.
* **Lazy evaluation** (`JudgeQueueProofs`).  `LazyEvaluationStops`, unless a
  handler fails between its transactions (an observation shows why).  The
  handler that stores a verdict and the one that invalidates the remaining tasks
  are the same, but others write in between.  `WrittenVerdicts`: a handler that
  goes on writes a verdict, and one that found an old verdict found it in a
  judging that still has one.  `NoneLeftValid`: a judging with a verdict has no
  valid task left, or the jury asked for them, or some handler is about to
  invalidate them.
* **Nothing is lost from the queue** (`JudgeQueueProofs`).
  `UndecidedStaysQueued`, unless a judgehost reports an internal error of its own
  (an observation shows why).  The queue task is deleted in a statement after the
  one that found no task left.  `NotCleaned`: while a request is about to delete
  the queue task of an undecided judging, the judging has no unclaimed task, and
  tasks of an undecided judging are only ever claimed (`UnclaimedShrinks`).
* **Verdicts of judgings** (`JudgeQueueProofs`), assuming that each run
  and each compilation has one outcome.  `VerdictInv` adds: a stored or
  travelling result is the outcome of its test, a verdict a handler carries is
  the sequential one, and what it read as the old verdict is what is stored or
  nothing.  With `VerdictStable` the verdict of any known part is the one of the
  whole, hence `VerdictsAreSequential`, `InternalBugImpossible`, `VerdictsStay`.
  The first observation shows that the assumption on compilations is needed.
  `EndedJudgingsAreDone`, under the same assumptions: `EndInv` adds `KnownStays`,
  that the verdict of the runs and "all runs are known", as a handler has read
  them, still hold when it writes, whatever others have stored since.
* **Refinement** (`JudgeQueueProofs`).  `JudgingIsImplemented`: under the same
  assumptions, every step of `JudgeQueue` is a step of `AbstractJudging` or
  leaves its variables unchanged.  `AbstractInv` adds to `VerdictInv` that the
  score row shows the verdict or nothing, and uses `OnlySubmitted`: only
  submitted judgings have verdicts; a step that stores a verdict is `Decide`, one
  that recalculates the row `Show`, and a step that stores the same verdict again
  stutters.
* **Score rows** (`ScoreCacheProofs`).  `RowLocal` and `OtherCells`: a row
  depends on the cell's own submissions only.  `PublicRowFrozen`: the public row
  is the same for the database without the results after the freeze.
  `RowLoopComputesRow`: the loop of `calculateScoreRow`, with its early exits,
  computes the row that the other theorems are about, for any submissions.
  `RowLoopInv` is the row of the submissions done so far.  Its step
  (`RowLoopStep`) has three cases: the public knows a solution, and only run times
  change; the submission has no visible result; or it has, and then a solution
  that only the jury knows was after the freeze, so this submission is, too.
* **Score cache** (`ScoreCacheProofs`).  `IInv` (types, and what a request's
  local variables hold at each step) gives `TypeCorrect` and, with
  `PublicRowFrozen`, `FreezeLeaksNothing`.  `RowsStayCurrent`, without the
  transactional handler of finding 2, rests on `RInv`: the locks of cells are
  exclusive, and every cell is either due in some request or *settled*: its row,
  or the new row of the request that holds its lock, is the one of the current
  database.  A request that changes the database has the affected cell due
  until it reads again.
* **Ranks** (`ScoreCacheProofs`).  `RanksStayCurrent`, under the assumption of
  `RowsStayCurrent` and when no submission is marked invalid and no required
  verification withdrawn (an observation shows that both are needed).  `RankInv` has
  the form of `RInv`: the rank of a team is due, or settled in rankcache or in
  the request that holds its lock.  It is not inductive alone, as a rank is
  updated only for a row that is solved.  `SolvedInv` therefore says that a
  solved cell stays solved (`MoreSolved`), in the cache, in the rows that requests
  hold and in the database, unless a request will recalculate the cell and
  update the rank of its team afterwards, as rejudgings and refreshes do.
* **First to solve** (`ScoreCacheProofs`).  `FirstIsUnique`, when no submission is
  marked invalid or valid again, and without the handler of finding 2.
  `FirstInv`: a cell shows a first solution only if the query would still say so,
  or the cell is due.  The query stays true because submissions arrive in
  the order of their times, a verdict can only remove an obstacle, and all that
  could add one has the cells of all teams recalculated.  Two first solutions
  would be obstacles of each other.
* **Rejudgings** (`RejudgingProofs`), for any number of submissions, tests,
  rejudgings and jury members.  The invariants form a chain, each using the
  ones before it; a theorem assumes only what its part of the chain needs.
    * `ValidInv` (types; what a handler, a queue entry or a finish refers to
      exists; `OneValidJudging` as "some judging is the only valid one") gives
      `ExactlyOneValid` for all values of the three constants.
    * `RowInv` gives `RepetitionsInTurn`, also for all values: rejudgings are
      numbered in the order of creation, one that is about to be repeated has
      ended, and a chain has one open rejudging or one handler about to repeat
      it, never both.  The guard that lets only one of two last handlers go on
      keeps this.
    * `JudgedInv` and `WaitInv` (`CreationFirst`, `JuryWaits`) give
      `NoneInEndedRejudging`: a rejudging in creation is open, and the jury
      finishes only created ones, so all that is taken is released.
    * `CountInv` (`CreationFirst`, current reads) gives `LastHandlerEnds`:
      while no judging is left to do and the rejudging is open, some handler has
      yet to count, and will find none left.
    * `ApplyInv`, `HoldInv` and `OutcomeInv` (all three assumptions) give
      `SubmissionsInOneRejudging` and `OutcomeStaysInEffect`.  A submission that
      has a judging in a rejudging the jury decides about is associated with it,
      and a creation that has not skipped a submission has it for itself; hence
      a judging of an ended rejudging is never made valid afterwards.
  The observations on rejudgings show that each assumption is needed.
* **Order within a team** (`DomserverProofs`), when the requests of a team are
  handled one by one (`OneAtATime`; without it the first observation on the
  queue violates both).  `StageInv`: the submission being handled is the last
  one.  `PlaceInv`: a priority is not before the time of its submission, grows
  with the submissions, and of two tasks submitted within a minute one has a
  priority a minute later than its submission.  `QueueKeepsOrder` and `TeamsDoNotStarve` follow; the
  second turns "at most one" into a statement about cardinalities at the end.
* **Internal errors** (`DomserverProofs`), without further assumption.
  `ErrorInv`: rows of errors are filled in order, and `WorkInv` says of each
  handler's step what it has done so far: which judging it is about, that its
  error is open, which tasks are invalid.  `ErrorsLeaveOneValid` and
  `ErrorsForgetNobody` are not inductive without it, as a report is handled in
  five steps, and between them a submission is held by the handler alone.
* **Web client** (`BrowserProofs`).
    * Refresh, for any number of chains: `RefreshInv` adds to the three
      properties `NothingLeftBehind`: a page on which nothing was switched during
      a request has no timer that `refreshHandler` does not denote.  Without it,
      a timer that cannot be cleared would survive `disableRefresh`.
    * Notifications, for any number of tabs and alerts: `TagsDiffer` (alerts that
      are no balloons have different tags) and `NotifiedInv`: what is stored as
      notified was handled, what was sent is stored or in the hand of the one tab
      that sends, and what was shown is stored.
    * Forms: `ThemeInv` and `PreviewInv` say that the request under way, or if
      none is the form itself, has the user's last choice.
    * Clock: `FieldsAddUp` (days, hours, minutes and seconds are the time they
      were computed from) for all times, and `ClockInv` for the calls between.
    * Graph: `AllSubmissionsCounted` and `TicksAreBuckets` for every duration,
      every list of units and every limit.  They rest on `CeilEnough`,
      `QuotientBound` and on the existence of a greatest unit that fits.
    * Shortcuts: `ShortcutsInv` has the list of handlers as one of the few it can
      be: the outer handler alone (`NothingBegun`), or the outer and then the inner
      handler of one box (`BegunWith`), which is the box shown as long as no key
      was typed in a field.  The dispatch of an event to such a list is computed
      (`DispatchToOne`, `DispatchToTwo`), and every key keeps the form.
    * Favourites, for any boards and tabs: `CopiedEntries` (the copying loop keeps
      exactly the entries asked for, as many times as they occur) gives
      what a tab shows, and `ClickedRow` that the row which `toggle` looks up is
      the one of the heart.  `FavouritesInv` says that the rows of every tab were
      rendered from some board, and that the stored list has no team twice, which
      only clicks in a stale tab can break.
* **Compositions** (`BrowserProofs`, `DomserverProofs`).
  `BrowserImplementsParts` and `DomserverImplementsParts`: the side-by-side
  specifications of the runs are, for each part, specifications of this part;
  so the theorems about a part hold of them.  `BrowserTypeCorrect` and
  `DomserverTypeCorrect` combine the types of the parts in this way.

Only model-checked: liveness under fairness (`EventuallyComplete`) and the fair
refinement (`ImplementsFairJudging`), which this prover does not reach.  Every
other property of a passing run is also a theorem, some under assumptions that
the theorem names.

`HeldByOwner`, `VerdictIsSequential` and `VerdictStays` are proved and not
listed in a run, as `NoDoubleWork` and `ImplementsJudging` say the same of an
instance.

## 6. Not modelled, and the plan

**Vendored code.**  Of the 55 512 lines of JavaScript in the repository, 97 % are
a minified copy of the Monaco editor (`webapp/public/js/monaco`).  It is not
DOMjudge's code and nothing here stands for it.  DOMjudge's own JavaScript is
`domjudge.js` (1 294 lines, of which the modules here cover about 60 %) and
`versionswitcher.js` (37 lines, a menu of the manual).  Most of the system is
PHP; the modules cover about 3 600 lines of it.

**Not modelled for a reason**

* The rest of `domjudge.js`: formatting of sizes and times, dialogs, widths,
  badges of the menu, the form for iCAT.  It is straight-line code without state
  that two callbacks would share.
* Balloons: one row under a unique key, inserted after the verdict; every order
  of two insertions has the same outcome.
* Event log and shadow contest source: serialisation and comparison of entities;
  their order is that of the database's numbers.
* Contest state and display of ranks, awards, statistics: read-only.
* `runguard`, `runpipe` and the shell scripts: calls of the operating system;
  their outcomes are inputs of `JudgeQueue`.
* Import, export, configuration, templates, the submit client: parsing,
  rendering, settings.
* A jury request that dies half-way through applying a rejudging, several
  endpoints of a judgedaemon, prefetch and debug tasks.

**Next**: a composition of `JudgeQueue` with `ScoreCache`, of which each is
proved alone, and rejudgings that die half-way.
