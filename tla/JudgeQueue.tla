----------------------------- MODULE JudgeQueue -----------------------------
(****************************************************************************)
(* The judging of submissions: the domserver's tables queuetask, judgetask, *)
(* judging and judging_run, the API handlers of JudgehostController that    *)
(* work on them, and the judgedaemons that call these handlers.             *)
(*                                                                          *)
(* A job is a judging (judgetask.jobid); every job has one judgetask and    *)
(* one judging_run for each test case.  All judgings here are valid and     *)
(* belong to no rejudging.  An action is one database transaction of a      *)
(* handler, or one step of a daemon, so that handlers of several judgehosts *)
(* interleave as concurrent HTTP requests do.                               *)
(****************************************************************************)
EXTENDS FinalResult, FiniteSets

CONSTANTS
    Host,            \* the judgehosts
    NoHost,          \* judgetask.judgehostid IS NULL
    Job,             \* the judgings
    NoJob,           \* a daemon without work
    NumTests,        \* test cases of a problem
    Correct,         \* the run result 'correct'
    CompilerError,   \* Judging::RESULT_COMPILER_ERROR
    Outcome,         \* the results a run of a test case may have
    Compiles,        \* the results the compilation of a job may have
    EvalFull,        \* lazy_eval_results is EVAL_FULL (else EVAL_LAZY)
    ParallelJudging, \* the setting enable_parallel_judging
    BatchSize,       \* max_batchsize of fetch-work
    Faults,          \* the failures that may happen, see FaultKinds
    JuryWaits        \* jury asks for remaining runs only of quiet judgings

Test == 1..NumTests

FaultKinds == {
    "crash",         \* a judgedaemon dies and is started again
    "lost",          \* the response of an API call is lost
    "giveup",        \* an upload of a run fails in all its attempts
    "hosterror",     \* a judgedaemon reports an internal error of its host
    "disable",       \* the jury disables a judgehost
    "exception"}     \* a handler fails between two of its transactions

ASSUME JudgeQueueAssumption ==
    /\ NumTests \in Nat \ {0} /\ BatchSize \in Nat \ {0}
    /\ NoHost \notin Host /\ NoJob \notin Job
    /\ Correct \in RunResult
    /\ CompilerError \notin RunResult /\ CompilerError # Pending
    /\ Outcome \in [Job -> [Test -> SUBSET RunResult]]
    /\ Compiles \in [Job -> SUBSET BOOLEAN]
    /\ EvalFull \in BOOLEAN /\ ParallelJudging \in BOOLEAN
    /\ JuryWaits \in BOOLEAN
    /\ Faults \subseteq FaultKinds

VARIABLES
    \* domserver
    submitted,       \* the judgings that exist
    queuetask,       \* the rows of table queuetask of each job
    judgehost,       \* judgetask.judgehostid, by job and test
    valid,           \* judgetask.valid
    runresult,       \* judging_run.runresult
    result,          \* judging.result
    endtime,         \* judging.endtime IS NOT NULL
    outputCompile,   \* judging.output_compile IS NOT NULL
    judgeCompletely, \* judging.judge_completely
    scorerow,        \* the verdict of the job the scorecache was made from
    enabled,         \* judgehost.enabled
    requests,        \* add-judging-run requests being handled or on the way
    \* judgedaemon
    pc,              \* what the daemon, or its fetch-work request, does next
    strategy,        \* the case of fetch-work being tried
    job,             \* the job it fetches or works on
    tasks,           \* tests selected (fetching) or still to judge (judging)
    compiled         \* jobs with a compile.success in their work directory

taskVars    == <<submitted, queuetask, judgehost, valid>>
judgingVars == <<runresult, result, endtime, outputCompile, judgeCompletely, scorerow>>
daemonVars  == <<pc, strategy, job, tasks, compiled>>
vars == <<taskVars, judgingVars, enabled, requests, daemonVars>>

Verdict  == RunOrPending \union {CompilerError}
Priority == {0, 10}    \* JudgeTask::PRIORITY_DEFAULT and PRIORITY_LOW
QueueTask == [priority : Priority, started : BOOLEAN]

(* A request to add a judging run.  The fields after pc are what the        *)
(* handler has read: the verdict of the runs, whether all runs are known,   *)
(* and the columns result and judge_completely of the judging.              *)
Request ==
    [host : Host, job : Job, test : Test, res : RunResult, sync : BOOLEAN,
     pc : {"store", "read", "flush", "post"},
     verdict : RunOrPending, allKnown : BOOLEAN,
     old : Verdict, complete : BOOLEAN]

NewRequest(h, t, r) ==
    [host |-> h, job |-> job[h], test |-> t, res |-> r, sync |-> r # Correct,
     pc |-> "store", verdict |-> Pending, allKnown |-> FALSE,
     old |-> Pending, complete |-> FALSE]

(* The same request, sent again.                                            *)
Resent(q) ==
    [q EXCEPT !.pc = "store", !.verdict = Pending, !.allKnown = FALSE,
              !.old = Pending, !.complete = FALSE]

DaemonState == {"off", "idle", "new", "mark", "select", "claim", "clean",
                "judge", "wait", "return"}

(* The states of a daemon in which it, or its request, is about a job.      *)
WorkState == {"mark", "select", "claim", "clean", "judge", "wait"}

TypeOK ==
    /\ submitted \subseteq Job
    /\ queuetask \in [Job -> SUBSET QueueTask]
    /\ judgehost \in [Job -> [Test -> Host \union {NoHost}]]
    /\ valid \in [Job -> [Test -> BOOLEAN]]
    /\ runresult \in [Job -> [Test -> RunOrPending]]
    /\ result \in [Job -> Verdict]
    /\ endtime \in [Job -> BOOLEAN]
    /\ outputCompile \in [Job -> BOOLEAN]
    /\ judgeCompletely \in [Job -> BOOLEAN]
    /\ scorerow \in [Job -> Verdict]
    /\ enabled \in [Host -> BOOLEAN]
    /\ requests \subseteq Request
    /\ pc \in [Host -> DaemonState]
    /\ strategy \in [Host -> {"continue", "start", "share"}]
    /\ job \in [Host -> Job \union {NoJob}]
    /\ \A h \in Host : pc[h] \in WorkState => job[h] \in Job
    /\ tasks \in [Host -> SUBSET Test]
    /\ compiled \in [Host -> SUBSET Job]

(* No submission yet; the judgehosts are registered and enabled.            *)
Init ==
    /\ submitted = {}
    /\ queuetask = [j \in Job |-> {}]
    /\ judgehost = [j \in Job |-> [t \in Test |-> NoHost]]
    /\ valid = [j \in Job |-> [t \in Test |-> FALSE]]
    /\ runresult = [j \in Job |-> [t \in Test |-> Pending]]
    /\ result = [j \in Job |-> Pending]
    /\ endtime = [j \in Job |-> FALSE]
    /\ outputCompile = [j \in Job |-> FALSE]
    /\ judgeCompletely = [j \in Job |-> FALSE]
    /\ scorerow = [j \in Job |-> Pending]
    /\ enabled = [h \in Host |-> TRUE]
    /\ requests = {}
    /\ pc = [h \in Host |-> "idle"]
    /\ strategy = [h \in Host |-> "start"]
    /\ job = [h \in Host |-> NoJob]
    /\ tasks = [h \in Host |-> {}]
    /\ compiled = [h \in Host |-> {}]

-----------------------------------------------------------------------------
(* SubmissionService::submitSolution: the judging, its judgetasks and runs, *)
(* and the row that puts it in the queue (maybeCreateJudgeTasks).           *)
Submit(j) ==
    /\ j \notin submitted
    /\ submitted' = submitted \union {j}
    /\ valid' = [valid EXCEPT ![j] = [t \in Test |-> TRUE]]
    /\ queuetask' = [queuetask EXCEPT ![j] = {[priority |-> 0, started |-> FALSE]}]
    /\ UNCHANGED <<judgehost, judgingVars, enabled, requests, daemonVars>>

-----------------------------------------------------------------------------
(* fetch-work.  The daemon goes back to polling.                            *)
Idle(h) ==
    /\ pc' = [pc EXCEPT ![h] = "idle"]
    /\ job' = [job EXCEPT ![h] = NoJob]
    /\ tasks' = [tasks EXCEPT ![h] = {}]
    /\ strategy' = [strategy EXCEPT ![h] = "start"]

Fetching(h, step, case, j) ==
    /\ pc' = [pc EXCEPT ![h] = step]
    /\ job' = [job EXCEPT ![h] = j]
    /\ strategy' = [strategy EXCEPT ![h] = case]
    /\ UNCHANGED <<taskVars, judgingVars, enabled, requests, tasks, compiled>>

(* Case 1: a job in the queue to which this judgehost contributed.  Of      *)
(* several, the code takes the one it started last.                         *)
CanContinue(h, j) == queuetask[j] # {} /\ \E t \in Test : judgehost[j][t] = h

FetchContinue(h, j) ==
    /\ pc[h] = "idle" /\ enabled[h]
    /\ CanContinue(h, j)
    /\ Fetching(h, "select", "continue", j)

(* Mutant: fetch-work does not notice that its query found no job.          *)
FetchNewUnchecked(h) ==
    /\ pc[h] = "idle" /\ enabled[h]
    /\ Fetching(h, "mark", "start", NoJob)

FetchNew(h) ==
    /\ pc[h] = "idle" /\ enabled[h]
    /\ ~\E j \in Job : CanContinue(h, j)
    /\ Fetching(h, "new", "start", NoJob)

(* The first row of the queue among some rows: lowest priority value; rows  *)
(* of equal priority are ordered by team priority, which is left open.      *)
First(rows, j) ==
    \E q \in rows[j] : \A i \in Job : \A r \in rows[i] : q.priority <= r.priority

Unstarted == [j \in Job |-> {q \in queuetask[j] : ~q.started}]

(* Case 2a: a job nobody has started.                                       *)
FetchStart(h, j) ==
    /\ pc[h] = "new"
    /\ First(Unstarted, j)
    /\ Fetching(h, "mark", "start", j)

(* Case 2b: a job that somebody else has started.                           *)
FetchShare(h, j) ==
    /\ pc[h] = "new"
    /\ \A i \in Job : Unstarted[i] = {}
    /\ ParallelJudging
    /\ First(queuetask, j)
    /\ Fetching(h, "select", "share", j)

FetchNothing(h) ==
    /\ pc[h] = "new"
    /\ \A i \in Job : Unstarted[i] = {}
    /\ ParallelJudging => \A j \in Job : queuetask[j] = {}
    /\ Idle(h)
    /\ UNCHANGED <<taskVars, judgingVars, enabled, requests, compiled>>

(* The conditional update of queuetask.starttime: one judgehost succeeds,   *)
(* the others are told to try again.                                        *)
MarkStarted(h) ==
    /\ pc[h] = "mark"
    /\ IF Unstarted[job[h]] # {}
       THEN /\ queuetask' = [queuetask EXCEPT ![job[h]] =
                                {[q EXCEPT !.started = TRUE] : q \in @}]
            /\ pc' = [pc EXCEPT ![h] = "select"]
            /\ UNCHANGED <<job, tasks, strategy>>
       ELSE Idle(h) /\ UNCHANGED queuetask
    /\ UNCHANGED <<submitted, judgehost, valid, judgingVars, enabled, requests, compiled>>

(* getJudgetasks: at most BatchSize unclaimed tasks of the job.  Their order *)
(* (priority, id) is left open.                                             *)
Unclaimed(j) == {t \in Test : judgehost[j][t] = NoHost /\ valid[j][t]}

IsBatch(B, T) ==
    /\ B # {} /\ B \subseteq T
    /\ Cardinality(B) = BatchSize \/ (B = T /\ Cardinality(T) <= BatchSize)

(* Mutant: a job is taken for finished as soon as one of its tasks is       *)
(* claimed.                                                                 *)
ExhaustedWhenClaimed(j) == \E t \in Test : judgehost[j][t] # NoHost

Exhausted(j) == Unclaimed(j) = {}

SelectTasks(h) ==
    /\ pc[h] = "select"
    /\ \/ \E B \in SUBSET Unclaimed(job[h]) :
            /\ IsBatch(B, Unclaimed(job[h]))
            /\ tasks' = [tasks EXCEPT ![h] = B]
            /\ pc' = [pc EXCEPT ![h] = "claim"]
       \/ /\ Exhausted(job[h])
          /\ pc' = [pc EXCEPT ![h] = "clean"]
          /\ UNCHANGED tasks
    /\ UNCHANGED <<taskVars, judgingVars, enabled, requests, strategy, job, compiled>>

(* No task left: the queue rows of the job are deleted.  In case 1 the      *)
(* handler goes on to look for new work.                                    *)
DeleteQueueTask(h) ==
    /\ pc[h] = "clean"
    /\ queuetask' = [queuetask EXCEPT ![job[h]] = {}]
    /\ IF strategy[h] = "continue"
       THEN /\ pc' = [pc EXCEPT ![h] = "new"]
            /\ job' = [job EXCEPT ![h] = NoJob]
            /\ strategy' = [strategy EXCEPT ![h] = "start"]
            /\ UNCHANGED tasks
       ELSE Idle(h)
    /\ UNCHANGED <<submitted, judgehost, valid, judgingVars, enabled, requests, compiled>>

(* Mutant: the update lacks the condition that nobody has claimed the task. *)
ClaimableUnconditionally(h) == {t \in tasks[h] : valid[job[h]][t]}

(* serializeJudgeTasks: one conditional update claims those of the selected *)
(* tasks that are still free, and these are sent to the daemon.             *)
Claimable(h) == tasks[h] \intersect Unclaimed(job[h])

ClaimTasks(h) ==
    /\ pc[h] = "claim"
    /\ judgehost' = [judgehost EXCEPT ![job[h]] =
                        [t \in Test |-> IF t \in Claimable(h) THEN h ELSE @[t]]]
    /\ \/ /\ Claimable(h) # {}
          /\ tasks' = [tasks EXCEPT ![h] = Claimable(h)]
          /\ pc' = [pc EXCEPT ![h] = "judge"]
          /\ UNCHANGED <<job, strategy>>
       \/ /\ Claimable(h) = {} \/ "lost" \in Faults
          /\ Idle(h)
    /\ UNCHANGED <<submitted, queuetask, valid, judgingVars, enabled, requests, compiled>>

-----------------------------------------------------------------------------
(* The rest of the batch is abandoned: judge() returned false and the       *)
(* daemon will return its unfinished tasks.                                 *)
Abandon(h) ==
    /\ pc' = [pc EXCEPT ![h] = "return"]
    /\ job' = [job EXCEPT ![h] = NoJob]
    /\ tasks' = [tasks EXCEPT ![h] = {}]
    /\ strategy' = [strategy EXCEPT ![h] = "start"]

(* compile() with success, and update-judging: the first report is stored.  *)
CompileSuccess(h) ==
    /\ pc[h] = "judge" /\ job[h] \notin compiled[h]
    /\ TRUE \in Compiles[job[h]]
    /\ outputCompile' = [outputCompile EXCEPT ![job[h]] = TRUE]
    /\ compiled' = [compiled EXCEPT ![h] = @ \union {job[h]}]
    /\ UNCHANGED <<taskVars, runresult, result, endtime, judgeCompletely, scorerow,
                   enabled, requests, pc, strategy, job, tasks>>

(* The first report of a compiler error invalidates all tasks of the job.   *)
ValidAfterCompilerError(j) == [t \in Test |-> outputCompile[j] /\ valid[j][t]]

(* compile() with a compiler error, and update-judging: unless another      *)
(* judgehost reported first, the judging gets its verdict and its tasks     *)
(* become invalid.  The score row is recalculated in any case.              *)
CompileError(h) ==
    /\ pc[h] = "judge" /\ job[h] \notin compiled[h]
    /\ FALSE \in Compiles[job[h]]
    /\ LET j == job[h]
           first == ~outputCompile[j]
       IN /\ outputCompile' = [outputCompile EXCEPT ![j] = TRUE]
          /\ result' = [result EXCEPT ![j] = IF first THEN CompilerError ELSE @]
          /\ endtime' = [endtime EXCEPT ![j] = first \/ @]
          /\ valid' = [valid EXCEPT ![j] = ValidAfterCompilerError(j)]
          /\ scorerow' = [scorerow EXCEPT ![j] = result'[j]]
    /\ Abandon(h)
    /\ UNCHANGED <<submitted, queuetask, judgehost, runresult, judgeCompletely,
                   enabled, requests, compiled>>

(* judge() runs one test case of the batch.  A correct run is uploaded by a *)
(* background process; the daemon waits for the answer on any other run.    *)
RunTest(h, t, r) ==
    /\ pc[h] = "judge" /\ job[h] \in compiled[h]
    /\ t \in tasks[h] /\ r \in Outcome[job[h]][t]
    /\ requests' = requests \union {NewRequest(h, t, r)}
    /\ IF r = Correct /\ tasks[h] = {t}
       THEN Idle(h)
       ELSE /\ tasks' = [tasks EXCEPT ![h] = @ \ {t}]
            /\ pc' = [pc EXCEPT ![h] = IF r = Correct THEN "judge" ELSE "wait"]
            /\ UNCHANGED <<job, strategy>>
    /\ UNCHANGED <<taskVars, judgingVars, enabled, compiled>>

(* createJudgehostAction as the code has it: judgings whose result is NULL  *)
(* do not satisfy "result != 'compiler-error'" in SQL and keep their tasks. *)
GivenBackAtRegistration(h, j) ==
    {t \in Test : /\ judgehost[j][t] = h
                  /\ runresult[j][t] = Pending
                  /\ result[j] \notin {Pending, CompilerError}}

Register(h) ==
    /\ \/ pc[h] \in {"off", "return"}
       \/ pc[h] = "idle" /\ "lost" \in Faults  \* the endpoint was "errorred"
    /\ judgehost' = [j \in Job |-> [t \in Test |->
            IF t \in GivenBackAtRegistration(h, j) THEN NoHost ELSE judgehost[j][t]]]
    /\ Idle(h)
    /\ UNCHANGED <<submitted, queuetask, valid, judgingVars, enabled, requests, compiled>>

(* disable('judgehost', ...) and internalErrorAction: the host is disabled  *)
(* and its unfinished runs of this job are given back.                      *)
HostError(h) ==
    /\ "hosterror" \in Faults
    /\ pc[h] = "judge"
    /\ enabled' = [enabled EXCEPT ![h] = FALSE]
    /\ judgehost' = [judgehost EXCEPT ![job[h]] = [t \in Test |->
            IF @[t] = h /\ runresult[job[h]][t] = Pending THEN NoHost ELSE @[t]]]
    /\ Abandon(h)
    /\ UNCHANGED <<submitted, queuetask, valid, judgingVars, requests, compiled>>

(* The jury disables a judgehost, or enables it again.  Only the start of   *)
(* fetch-work looks at this: what the daemon has fetched it judges.         *)
SetEnabled(h, value) ==
    /\ enabled[h] # value
    /\ enabled' = [enabled EXCEPT ![h] = value]
    /\ UNCHANGED <<taskVars, judgingVars, requests, daemonVars>>

Enable(h)  == SetEnabled(h, TRUE)
Disable(h) == "disable" \in Faults /\ SetEnabled(h, FALSE)

(* Mutant: an answer to a daemon that died is given to the one started after *)
(* it.                                                                       *)
OrphanedNot(q, h) == q

(* The daemon dies.  The uploads on the way, and a request it waits for, go  *)
(* on without it.  A fetch-work request that is being handled also runs to   *)
(* its end, as if the daemon died after it.                                  *)
Orphaned(q, h) == IF q.host = h THEN [q EXCEPT !.sync = FALSE] ELSE q

Crash(h) ==
    /\ "crash" \in Faults
    /\ pc[h] \in {"idle", "judge", "wait", "return"}
    /\ pc' = [pc EXCEPT ![h] = "off"]
    /\ job' = [job EXCEPT ![h] = NoJob]
    /\ tasks' = [tasks EXCEPT ![h] = {}]
    /\ strategy' = [strategy EXCEPT ![h] = "start"]
    /\ compiled' = [compiled EXCEPT ![h] = {}]
    /\ requests' = {Orphaned(q, h) : q \in requests}
    /\ UNCHANGED <<taskVars, judgingVars, enabled>>

-----------------------------------------------------------------------------
(* addSingleJudgingRun, in four steps.  First transaction: the run.         *)
StoreRun(q) ==
    /\ q.pc = "store"
    /\ runresult' = [runresult EXCEPT ![q.job][q.test] = q.res]
    /\ requests' = (requests \ {q}) \union {[q EXCEPT !.pc = "read"]}
    /\ UNCHANGED <<taskVars, result, endtime, outputCompile, judgeCompletely, scorerow,
                   enabled, daemonVars>>

(* The answer: whether the judging needs more work.  It matters only to a   *)
(* daemon that waits for it; a lost answer makes the client send the        *)
(* request again.                                                           *)
Resume(q, more) ==
    IF ~q.sync THEN UNCHANGED <<pc, job, tasks, strategy>>
    ELSE IF ~more THEN Abandon(q.host)
    ELSE IF tasks[q.host] = {} THEN Idle(q.host)
    ELSE /\ pc' = [pc EXCEPT ![q.host] = "judge"]
         /\ UNCHANGED <<job, tasks, strategy>>

Retry(q) ==
    /\ requests' = (requests \ {q}) \union {Resent(q)}
    /\ UNCHANGED <<pc, job, tasks, strategy>>

Answer(q, more) ==
    \/ requests' = requests \ {q} /\ Resume(q, more)
    \/ "lost" \in Faults /\ Retry(q)

(* Without a final result, more work is needed unless the judging already   *)
(* has one.                                                                 *)
NeedsMoreRuns(j) == result[j] = Pending \/ judgeCompletely[j]

(* The runs and the judging are read.  Without a final result nothing else  *)
(* happens.                                                                 *)
ReadRuns(q) ==
    LET j == q.job
        verdict == getFinalResult(runresult[j])
    IN  /\ q.pc = "read"
        /\ \/ /\ verdict = Pending
              /\ Answer(q, NeedsMoreRuns(j))
           \/ /\ verdict # Pending
              /\ requests' = (requests \ {q}) \union
                     {[q EXCEPT !.pc = "flush", !.verdict = verdict,
                                !.allKnown = \A t \in Test : runresult[j][t] # Pending,
                                !.old = result[j],
                                !.complete = judgeCompletely[j]]}
              /\ UNCHANGED <<pc, job, tasks, strategy>>
        /\ UNCHANGED <<taskVars, judgingVars, enabled, compiled>>

(* Mutant: full evaluation is forgotten.                                    *)
NeedsMoreWorkOnRequest(q) == q.complete

NeedsMoreWork(q) == q.complete \/ EvalFull

(* The verdict is written; what was read before decides what follows.  A    *)
(* verdict different from the one before is an "internal bug": the handler  *)
(* throws, the client tries again.                                          *)
VerdictChanged(q) == q.old \notin {Pending, q.verdict}

(* Mutant: the end time is set with the verdict, though runs are missing.   *)
EndsWithVerdict(q) == TRUE

(* The judging ends when all runs are known or no more will be judged.      *)
Ends(q) == q.allKnown \/ ~EvalFull

FlushVerdict(q) ==
    /\ q.pc = "flush"
    /\ result' = [result EXCEPT ![q.job] = IF q.old = q.verdict THEN @ ELSE q.verdict]
    /\ endtime' = [endtime EXCEPT ![q.job] = @ \/ Ends(q)]
    /\ \/ /\ q.old = q.verdict
          /\ Answer(q, NeedsMoreWork(q))
       \/ /\ VerdictChanged(q)
          /\ Retry(q)
       \/ /\ q.old = Pending
          /\ requests' = (requests \ {q}) \union {[q EXCEPT !.pc = "post"]}
          /\ UNCHANGED <<pc, job, tasks, strategy>>
    /\ UNCHANGED <<taskVars, runresult, outputCompile, judgeCompletely, scorerow,
                   enabled, compiled>>

(* Mutant: only tasks nobody has claimed become invalid.                    *)
InvalidatedUnclaimed(j) ==
    [t \in Test |-> valid[j][t] /\ (EvalFull \/ judgehost[j][t] # NoHost)]

(* valid of the tasks of a job that got its verdict: lazy evaluation        *)
(* invalidates all of them, full evaluation only lowers their priority.     *)
Invalidated(j) == [t \in Test |-> valid[j][t] /\ EvalFull]

(* Mutant: the score row is recalculated only for a complete set of runs.   *)
ScoredWhenComplete(j) ==
    IF \E t \in Test : runresult[j][t] = Pending THEN scorerow[j] ELSE result[j]

(* calculateScoreRow reads the verdict from the database.                   *)
Scored(j) == result[j]

(* A new verdict: with lazy evaluation no further task of the job is handed *)
(* out; the score row is recalculated from the database.  Each of the two   *)
(* may fail, for one because the lock of the score row is not obtained.     *)
PostVerdict(q) ==
    /\ q.pc = "post"
    /\ \/ /\ valid' = [valid EXCEPT ![q.job] = Invalidated(q.job)]
          /\ scorerow' = [scorerow EXCEPT ![q.job] = Scored(q.job)]
          /\ Answer(q, NeedsMoreWork(q))
       \/ /\ "exception" \in Faults
          /\ valid' \in {valid, [valid EXCEPT ![q.job] = Invalidated(q.job)]}
          /\ Retry(q)
          /\ UNCHANGED scorerow
    /\ UNCHANGED <<submitted, queuetask, judgehost, runresult, result, endtime,
                   outputCompile, judgeCompletely, enabled, compiled>>

(* All attempts to send the run fail.  A daemon that waits for the answer   *)
(* treats this as "no more work".                                           *)
GiveUp(q) ==
    /\ "giveup" \in Faults
    /\ q.pc = "store"
    /\ requests' = requests \ {q}
    /\ Resume(q, FALSE)
    /\ UNCHANGED <<taskVars, judgingVars, enabled, compiled>>

-----------------------------------------------------------------------------
(* Nobody works on the job: no daemon holds or fetches a task of it and no  *)
(* run of it is on the way.                                                 *)
Quiet(j) ==
    /\ \A h \in Host : job[h] # j /\ pc[h] # "return"
    /\ \A q \in requests : q.job # j

(* Mutant: the tasks are not made valid again.                              *)
RevalidatedNot(j) == valid[j]

(* Tasks nobody has claimed become valid again.                             *)
Revalidated(j) == [t \in Test |-> judgehost[j][t] = NoHost \/ valid[j][t]]

(* judgeRemainingJudgings, for one judging.                                 *)
JudgeRemaining(j) ==
    /\ result[j] # Pending /\ ~judgeCompletely[j]
    /\ JuryWaits => Quiet(j)
    /\ valid' = [valid EXCEPT ![j] = Revalidated(j)]
    /\ judgeCompletely' = [judgeCompletely EXCEPT ![j] = TRUE]
    /\ queuetask' = [queuetask EXCEPT ![j] = @ \union {[priority |-> 10, started |-> FALSE]}]
    /\ UNCHANGED <<submitted, judgehost, runresult, result, endtime, outputCompile,
                   scorerow, enabled, requests, daemonVars>>

-----------------------------------------------------------------------------
(* What a judgedaemon, with its fetch-work requests, does.                  *)
DaemonStep(h) ==
    \/ \E j \in Job : FetchContinue(h, j) \/ FetchStart(h, j) \/ FetchShare(h, j)
    \/ FetchNew(h) \/ FetchNothing(h)
    \/ MarkStarted(h) \/ SelectTasks(h) \/ DeleteQueueTask(h) \/ ClaimTasks(h)
    \/ CompileSuccess(h) \/ CompileError(h)
    \/ \E t \in Test, r \in RunResult : RunTest(h, t, r)
    \/ Register(h)

(* What the handler of an add-judging-run request does.                     *)
RequestStep(q) == StoreRun(q) \/ ReadRuns(q) \/ FlushVerdict(q) \/ PostVerdict(q)

Next ==
    \/ \E j \in Job : Submit(j) \/ JudgeRemaining(j)
    \/ \E h \in Host : DaemonStep(h) \/ HostError(h) \/ Enable(h) \/ Disable(h) \/ Crash(h)
    \/ \E q \in requests : RequestStep(q) \/ GiveUp(q)

Spec == Init /\ [][Next]_vars

(* The daemons and the domserver go on working; jury, teams and failures    *)
(* owe nothing.                                                             *)
Fairness ==
    /\ \A h \in Host : WF_vars(DaemonStep(h))
    /\ WF_vars(\E q \in requests : RequestStep(q))

LiveSpec == Spec /\ Fairness

-----------------------------------------------------------------------------
Judging(h) == pc[h] \in {"judge", "wait"}

(* A daemon waits for the answer to at most one of its requests, and every  *)
(* request whose answer decides about the rest of a batch has a daemon that *)
(* waits for it, also across crashes and retries.                           *)
AnswerAwaited ==
    \A q \in requests : q.sync =>
        /\ pc[q.host] = "wait"
        /\ \A p \in requests : p.sync /\ p.host = q.host => p = q

(* A task is judged by one judgehost at a time: the tasks that a daemon     *)
(* still has to judge are its own in the judgetask table, whatever crashes, *)
(* lost answers and returned tasks there were.                              *)
HeldByOwner ==
    \A h \in Host : Judging(h) => \A t \in tasks[h] : judgehost[job[h]][t] = h

(* Two judgehosts never have the same test case of a judging to judge.      *)
NoDoubleWork ==
    \A g, h \in Host : g # h /\ Judging(g) /\ Judging(h) /\ job[g] = job[h]
                           => tasks[g] \intersect tasks[h] = {}

(* The verdict of judging all test cases in order on one judgehost without  *)
(* failures, for a submission whose runs have definite results.             *)
TheOutcome(j, t) == CHOOSE r \in Outcome[j][t] : TRUE
SequentialVerdict(j) == getFinalResult([t \in Test |-> TheOutcome(j, t)])

(* Neither parallel judging nor lazy evaluation nor any failure, retry or   *)
(* reordering of uploads changes a verdict: it is the one of a sequential,  *)
(* complete judging, or a compiler error that some judgehost saw.           *)
VerdictIsSequential ==
    \A j \in Job : \/ result[j] \in {Pending, SequentialVerdict(j)}
                   \/ result[j] = CompilerError /\ FALSE \in Compiles[j]

(* A verdict, once stored, stays: teams never see it change without a       *)
(* rejudging.                                                               *)
VerdictStays == [][\A j \in Job : result[j] # Pending => result'[j] = result[j]]_vars

(* The assertion of addSingleJudgingRun: no handler finds that the verdict  *)
(* it computed differs from one computed before.                            *)
NoInternalBug == \A q \in requests : q.pc = "flush" => ~VerdictChanged(q)

(* When no handler is about to recalculate it, the score row reflects the   *)
(* verdict in the database.                                                 *)
ScoreRowCurrent ==
    \A j \in Job : \/ scorerow[j] = result[j]
                   \/ \E q \in requests : q.job = j /\ q.pc = "post"

(* A judging has an end time only when its verdict is known, agrees with    *)
(* its runs and, with full evaluation, no run is missing.                   *)
EndtimeMeansDone ==
    \A j \in Job : endtime[j] =>
        \/ result[j] = CompilerError
        \/ /\ result[j] # Pending /\ result[j] = getFinalResult(runresult[j])
           /\ EvalFull => \A t \in Test : runresult[j][t] # Pending

(* Lazy evaluation: once the handler that found the verdict has finished,   *)
(* no task of the judging can be claimed unless the jury asked for it.      *)
LazyStops ==
    \A j \in Job :
        /\ ~EvalFull /\ result[j] # Pending /\ ~judgeCompletely[j]
        /\ ~\E q \in requests : q.job = j /\ q.pc = "post"
        => Unclaimed(j) = {}

(* "If there is no more queue task, there is also no more work to be done": *)
(* an unclaimed task of an undecided judging can be found through a queue   *)
(* task.                                                                    *)
UndecidedIsQueued ==
    \A j \in submitted : result[j] = Pending /\ Unclaimed(j) # {} => queuetask[j] # {}

(* "If there are any unfinished judgings in the queue in my name [...] give *)
(* them back": a claimed run of an undecided judging is being judged by its *)
(* judgehost, its result is on the way, or the judgehost has yet to         *)
(* register again.                                                          *)
HeldIsWorkedOn ==
    \A j \in submitted, t \in Test :
        LET h == judgehost[j][t] IN
        result[j] = Pending /\ runresult[j][t] = Pending /\ h # NoHost =>
            \/ Judging(h) /\ job[h] = j /\ t \in tasks[h]
            \/ pc[h] \in {"off", "return"}
            \/ \E q \in requests : q.job = j /\ q.test = t

(* A judging "explicitly requested to be judged completely" is not dropped  *)
(* from the queue before all of its runs have been judged.                  *)
RemainingHonoured ==
    \A j \in Job :
        judgeCompletely[j] /\ result[j] # CompilerError /\ Quiet(j) /\ queuetask[j] = {}
            => \A t \in Test : runresult[j][t] # Pending

(* With full evaluation, or when the jury asks for it, every run of a       *)
(* submission is judged.                                                    *)
EventuallyComplete ==
    \A j \in Job :
        (j \in submitted /\ (EvalFull \/ judgeCompletely[j])) ~>
            (result[j] = CompilerError \/ \A t \in Test : runresult[j][t] # Pending)

=============================================================================
