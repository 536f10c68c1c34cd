-------------------------- MODULE JudgeQueueProofs --------------------------
(****************************************************************************)
(* Theorems about JudgeQueue for any number of judgehosts, judgings and     *)
(* test cases, any batch size, any settings and any of the failures.        *)
(****************************************************************************)
EXTENDS JudgeRefinement, FinalResultLemmas

-----------------------------------------------------------------------------
(* Requests.                                                                *)

LEMMA NewRequestType ==
    ASSUME NEW h \in Host, NEW t \in Test, NEW r \in RunResult, job[h] \in Job
    PROVE  /\ NewRequest(h, t, r) \in Request
           /\ NewRequest(h, t, r).host = h /\ NewRequest(h, t, r).job = job[h]
           /\ NewRequest(h, t, r).sync = (r # Correct)
  BY DEF NewRequest, Request, RunOrPending, Verdict

LEMMA ResentType ==
    ASSUME NEW q \in Request
    PROVE  Resent(q) \in Request /\ Resent(q).sync = q.sync /\ Resent(q).host = q.host
  BY DEF Resent, Request, RunOrPending, Verdict

(* A handler that goes on to its next step keeps the answer awaited.        *)
LEMMA ReplaceAwaited ==
    ASSUME TypeOK, AnswerAwaited, NEW q \in requests,
           NEW r \in Request, r.sync = q.sync, r.host = q.host,
           requests' = (requests \ {q}) \union {r}, UNCHANGED pc
    PROVE  AnswerAwaited'
  BY DEF TypeOK, AnswerAwaited, Request

(* The effect of an answer on the daemons: only the one that waits for it   *)
(* moves, and if it goes on with its batch, nothing else of it changes.     *)
LEMMA ResumeEffect ==
    ASSUME TypeOK, AnswerAwaited, NEW q \in requests, NEW more \in BOOLEAN,
           Resume(q, more)
    PROVE  /\ pc' \in [Host -> DaemonState]
           /\ strategy' \in [Host -> {"continue", "start", "share"}]
           /\ job' \in [Host -> Job \union {NoJob}]
           /\ tasks' \in [Host -> SUBSET Test]
           /\ \A h \in Host : pc'[h] \in WorkState => job'[h] \in Job
           /\ \A h \in Host : ~q.sync \/ h # q.host => pc'[h] = pc[h]
           /\ \A h \in Host : pc'[h] \in {"judge", "wait"} =>
                  /\ pc[h] \in {"judge", "wait"}
                  /\ job'[h] = job[h] /\ tasks'[h] = tasks[h]
<1> DEFINE ResumeGoal ==
      /\ pc' \in [Host -> DaemonState]
      /\ strategy' \in [Host -> {"continue", "start", "share"}]
      /\ job' \in [Host -> Job \union {NoJob}]
      /\ tasks' \in [Host -> SUBSET Test]
      /\ \A h \in Host : pc'[h] \in WorkState => job'[h] \in Job
      /\ \A h \in Host : ~q.sync \/ h # q.host => pc'[h] = pc[h]
      /\ \A h \in Host : pc'[h] \in {"judge", "wait"} =>
             /\ pc[h] \in {"judge", "wait"}
             /\ job'[h] = job[h] /\ tasks'[h] = tasks[h]
<1>1. q.host \in Host /\ (q.sync => pc[q.host] = "wait")
  BY DEF TypeOK, Request, AnswerAwaited
<1>2. CASE ~q.sync
  BY <1>2 DEF Resume, TypeOK
<1>3. ASSUME NEW state \in {"return", "idle"}, q.sync,
             pc' = [pc EXCEPT ![q.host] = state],
             job' = [job EXCEPT ![q.host] = NoJob],
             tasks' = [tasks EXCEPT ![q.host] = {}],
             strategy' = [strategy EXCEPT ![q.host] = "start"]
      PROVE  ResumeGoal
  <2>1. /\ pc' \in [Host -> DaemonState]
        /\ strategy' \in [Host -> {"continue", "start", "share"}]
        /\ job' \in [Host -> Job \union {NoJob}]
        /\ tasks' \in [Host -> SUBSET Test]
    BY <1>1, <1>3 DEF TypeOK, DaemonState
  <2>2. pc'[q.host] = state /\ state \notin WorkState /\ state \notin {"judge", "wait"}
    BY <1>1, <1>3 DEF TypeOK, WorkState
  <2>3. \A h \in Host : h # q.host =>
            pc'[h] = pc[h] /\ job'[h] = job[h] /\ tasks'[h] = tasks[h]
    BY <1>1, <1>3 DEF TypeOK
  <2> QED  BY <2>1, <2>2, <2>3, <1>3 DEF TypeOK
<1>4. CASE q.sync /\ ~more
  BY <1>3, <1>4 DEF Resume, Abandon
<1>5. CASE q.sync /\ more /\ tasks[q.host] = {}
  BY <1>3, <1>5 DEF Resume, Idle
<1>6. CASE q.sync /\ more /\ tasks[q.host] # {}
  BY <1>1, <1>6 DEF Resume, TypeOK, DaemonState, WorkState
<1> QED  BY <1>2, <1>4, <1>5, <1>6

(* The same for an answer that may get lost.                                *)
LEMMA AnswerEffect ==
    ASSUME TypeOK, AnswerAwaited, NEW q \in requests, NEW more \in BOOLEAN,
           Answer(q, more)
    PROVE  /\ requests' \subseteq Request
           /\ pc' \in [Host -> DaemonState]
           /\ strategy' \in [Host -> {"continue", "start", "share"}]
           /\ job' \in [Host -> Job \union {NoJob}]
           /\ tasks' \in [Host -> SUBSET Test]
           /\ \A h \in Host : pc'[h] \in WorkState => job'[h] \in Job
           /\ \A h \in Host : pc'[h] \in {"judge", "wait"} =>
                  /\ pc[h] \in {"judge", "wait"}
                  /\ job'[h] = job[h] /\ tasks'[h] = tasks[h]
           /\ AnswerAwaited'
<1>1. q \in Request /\ Resent(q) \in Request
      /\ Resent(q).sync = q.sync /\ Resent(q).host = q.host
  BY ResentType DEF TypeOK
<1>2. CASE requests' = requests \ {q} /\ Resume(q, more)
  <2>1. AnswerAwaited'
    BY <1>1, <1>2, ResumeEffect DEF AnswerAwaited, TypeOK, Request
  <2> QED  BY <1>2, <2>1, ResumeEffect DEF TypeOK
<1>3. CASE Retry(q)
  <2>1. AnswerAwaited'
    BY <1>1, <1>3, ReplaceAwaited DEF Retry
  <2> QED  BY <1>1, <1>3, <2>1 DEF Retry, TypeOK
<1> QED  BY <1>2, <1>3 DEF Answer

-----------------------------------------------------------------------------
(* The inductive invariant: the types, who waits for an answer, and who     *)
(* holds a task.                                                            *)
Inv == TypeOK /\ AnswerAwaited /\ HeldByOwner

LEMMA InitInv == Init => Inv
  BY JudgeQueueAssumption
  DEF Init, Inv, TypeOK, AnswerAwaited, HeldByOwner, Judging, Verdict, RunOrPending,
      DaemonState, WorkState

LEMMA SubmitInv == ASSUME Inv, NEW j \in Job, Submit(j) PROVE Inv'
  BY DEF Inv, TypeOK, AnswerAwaited, HeldByOwner, Judging, Submit, judgingVars,
         daemonVars, QueueTask, Priority

LEMMA FetchingInv ==
    ASSUME Inv, NEW h \in Host, pc[h] \in {"idle", "new"}, NEW step, NEW case, NEW j,
           \/ step \in {"mark", "select"} /\ j \in Job
           \/ step = "new" /\ j = NoJob,
           case \in {"continue", "start", "share"},
           Fetching(h, step, case, j)
    PROVE  Inv'
  BY DEF Inv, TypeOK, AnswerAwaited, HeldByOwner, Judging, Fetching, taskVars,
         judgingVars, DaemonState, WorkState

(* The daemon goes back to polling and no task changes hands.               *)
LEMMA IdleInv ==
    ASSUME Inv, NEW h \in Host, pc[h] # "wait", Idle(h),
           UNCHANGED <<submitted, judgehost, valid, judgingVars, enabled, requests, compiled>>,
           queuetask' \in [Job -> SUBSET QueueTask]
    PROVE  Inv'
  BY DEF Inv, TypeOK, AnswerAwaited, HeldByOwner, Judging, Idle, judgingVars,
         DaemonState, WorkState

LEMMA MarkStartedInv == ASSUME Inv, NEW h \in Host, MarkStarted(h) PROVE Inv'
<1>1. job[h] \in Job /\ queuetask[job[h]] \in SUBSET QueueTask /\ pc[h] = "mark"
  BY DEF Inv, TypeOK, WorkState, MarkStarted
<1>2. {[q EXCEPT !.started = TRUE] : q \in queuetask[job[h]]} \in SUBSET QueueTask
  BY <1>1 DEF QueueTask
<1>3. queuetask' \in [Job -> SUBSET QueueTask]
  BY <1>1, <1>2 DEF Inv, TypeOK, MarkStarted
<1>4. CASE Idle(h)
  BY <1>1, <1>3, <1>4, IdleInv DEF MarkStarted
<1>5. CASE pc' = [pc EXCEPT ![h] = "select"] /\ UNCHANGED <<job, tasks, strategy>>
  BY <1>1, <1>3, <1>5
  DEF Inv, TypeOK, AnswerAwaited, HeldByOwner, Judging, MarkStarted, judgingVars,
      DaemonState, WorkState
<1> QED  BY <1>4, <1>5 DEF MarkStarted

LEMMA SelectTasksInv == ASSUME Inv, NEW h \in Host, SelectTasks(h) PROVE Inv'
<1>1. Unclaimed(job[h]) \subseteq Test
  BY DEF Unclaimed
<1>2. tasks' \in [Host -> SUBSET Test]
  BY <1>1 DEF Inv, TypeOK, SelectTasks
<1>3. PICK step \in {"claim", "clean"} : pc' = [pc EXCEPT ![h] = step]
  BY DEF SelectTasks
<1>4. /\ pc' \in [Host -> DaemonState] /\ pc[h] = "select" /\ job[h] \in Job
      /\ pc'[h] = step /\ \A g \in Host : g # h => pc'[g] = pc[g] /\ tasks'[g] = tasks[g]
  BY <1>3 DEF Inv, TypeOK, SelectTasks, DaemonState, WorkState
<1>5. UNCHANGED <<taskVars, judgingVars, enabled, requests, strategy, job, compiled>>
  BY DEF SelectTasks
<1>6. TypeOK'
  BY <1>2, <1>4, <1>5 DEF Inv, TypeOK, taskVars, judgingVars
<1>7. AnswerAwaited'
  BY <1>4, <1>5 DEF Inv, TypeOK, AnswerAwaited, Request
<1>8. HeldByOwner'
  BY <1>4, <1>5 DEF Inv, HeldByOwner, Judging, taskVars
<1> QED  BY <1>6, <1>7, <1>8 DEF Inv

LEMMA DeleteQueueTaskInv == ASSUME Inv, NEW h \in Host, DeleteQueueTask(h) PROVE Inv'
<1>1. pc[h] = "clean" /\ queuetask' \in [Job -> SUBSET QueueTask]
  BY DEF Inv, TypeOK, DeleteQueueTask
<1>2. CASE Idle(h)
  BY <1>1, <1>2, IdleInv DEF DeleteQueueTask
<1>3. CASE /\ pc' = [pc EXCEPT ![h] = "new"]
           /\ job' = [job EXCEPT ![h] = NoJob]
           /\ strategy' = [strategy EXCEPT ![h] = "start"]
           /\ UNCHANGED tasks
  BY <1>1, <1>3
  DEF Inv, TypeOK, AnswerAwaited, HeldByOwner, Judging, DeleteQueueTask, judgingVars,
      DaemonState, WorkState
<1> QED  BY <1>2, <1>3 DEF DeleteQueueTask

(* The claim is conditional: a task that some daemon has to judge is not    *)
(* free, so no other daemon can claim it.                                   *)
LEMMA ClaimTasksInv == ASSUME Inv, NEW h \in Host, ClaimTasks(h) PROVE Inv'
<1>1. /\ pc[h] = "claim" /\ job[h] \in Job
      /\ Claimable(h) \subseteq Test
      /\ \A t \in Claimable(h) : judgehost[job[h]][t] = NoHost
  BY DEF ClaimTasks, Inv, TypeOK, WorkState, Claimable, Unclaimed
<1>2. judgehost' \in [Job -> [Test -> Host \union {NoHost}]]
  BY <1>1 DEF ClaimTasks, Inv, TypeOK
<1>3. /\ \A t \in Claimable(h) : judgehost'[job[h]][t] = h
      /\ \A j \in Job : \A t \in Test :
             judgehost[j][t] # NoHost => judgehost'[j][t] = judgehost[j][t]
  BY <1>1 DEF ClaimTasks, Inv, TypeOK
<1>4. PICK step \in {"judge", "idle"} :
          /\ pc' = [pc EXCEPT ![h] = step]
          /\ step = "judge" => job' = job /\ tasks' = [tasks EXCEPT ![h] = Claimable(h)]
          /\ step = "idle" => /\ job' = [job EXCEPT ![h] = NoJob]
                              /\ tasks' = [tasks EXCEPT ![h] = {}]
          /\ strategy' \in [Host -> {"continue", "start", "share"}]
  BY DEF ClaimTasks, Idle, Inv, TypeOK
<1>5. /\ pc' \in [Host -> DaemonState] /\ job' \in [Host -> Job \union {NoJob}]
      /\ tasks' \in [Host -> SUBSET Test]
      /\ \A g \in Host : g # h =>
             pc'[g] = pc[g] /\ job'[g] = job[g] /\ tasks'[g] = tasks[g]
      /\ pc'[h] = step
  BY <1>1, <1>4 DEF Inv, TypeOK, DaemonState
<1>6. step = "judge" => job'[h] = job[h] /\ tasks'[h] = Claimable(h)
  BY <1>1, <1>4 DEF Inv, TypeOK
<1>7. UNCHANGED <<submitted, queuetask, valid, judgingVars, enabled, requests, compiled>>
  BY DEF ClaimTasks
<1>8. \A g \in Host : pc'[g] \in WorkState => job'[g] \in Job
  BY <1>1, <1>4, <1>5, <1>6 DEF Inv, TypeOK, WorkState
<1>9. TypeOK'
  BY <1>2, <1>4, <1>5, <1>7, <1>8 DEF Inv, TypeOK, judgingVars
<1>10. AnswerAwaited'
  BY <1>1, <1>5, <1>7 DEF Inv, TypeOK, AnswerAwaited, Request
<1>11. ASSUME NEW g \in Host, Judging(g)', NEW t \in tasks'[g]
       PROVE  judgehost'[job'[g]][t] = g
  <2>1. CASE g = h
    BY <1>3, <1>4, <1>5, <1>6, <1>11, <2>1 DEF Judging
  <2>2. CASE g # h
    <3>1. Judging(g) /\ t \in tasks[g] /\ job'[g] = job[g] /\ t \in Test /\ job[g] \in Job
      BY <1>5, <1>11, <2>2 DEF Judging, Inv, TypeOK, WorkState
    <3>2. judgehost[job[g]][t] = g /\ g # NoHost
      BY <3>1, JudgeQueueAssumption DEF Inv, HeldByOwner
    <3> QED  BY <1>3, <3>1, <3>2
  <2> QED  BY <2>1, <2>2
<1>12. HeldByOwner'
  BY <1>11 DEF HeldByOwner
<1> QED  BY <1>9, <1>10, <1>12 DEF Inv

(* A daemon that leaves its work gives up only tasks of its own.            *)
LEMMA LeaveInv ==
    ASSUME Inv, NEW h \in Host, NEW state \in {"off", "idle", "return"},
           pc' = [pc EXCEPT ![h] = state],
           job' = [job EXCEPT ![h] = NoJob],
           tasks' = [tasks EXCEPT ![h] = {}],
           strategy' = [strategy EXCEPT ![h] = "start"],
           judgehost' \in [Job -> [Test -> Host \union {NoHost}]],
           \A j \in Job : \A t \in Test :
               judgehost[j][t] # h => judgehost'[j][t] = judgehost[j][t]
    PROVE  /\ pc' \in [Host -> DaemonState]
           /\ strategy' \in [Host -> {"continue", "start", "share"}]
           /\ job' \in [Host -> Job \union {NoJob}]
           /\ tasks' \in [Host -> SUBSET Test]
           /\ \A g \in Host : pc'[g] \in WorkState => job'[g] \in Job
           /\ pc'[h] = state /\ \A g \in Host : g # h => pc'[g] = pc[g]
           /\ HeldByOwner'
<1>1. /\ pc' \in [Host -> DaemonState]
      /\ strategy' \in [Host -> {"continue", "start", "share"}]
      /\ job' \in [Host -> Job \union {NoJob}]
      /\ tasks' \in [Host -> SUBSET Test]
      /\ pc'[h] = state
      /\ \A g \in Host : g # h =>
             pc'[g] = pc[g] /\ job'[g] = job[g] /\ tasks'[g] = tasks[g]
  BY DEF Inv, TypeOK, DaemonState
<1>2. state \notin WorkState /\ state \notin {"judge", "wait"}
  BY DEF WorkState
<1>3. \A g \in Host : pc'[g] \in WorkState => job'[g] \in Job
  BY <1>1, <1>2 DEF Inv, TypeOK
<1>4. ASSUME NEW g \in Host, Judging(g)', NEW t \in tasks'[g]
      PROVE  judgehost'[job'[g]][t] = g
  <2>1. g # h
    BY <1>1, <1>2, <1>4 DEF Judging
  <2>2. Judging(g) /\ t \in tasks[g] /\ job'[g] = job[g] /\ t \in Test /\ job[g] \in Job
    BY <1>1, <1>4, <2>1 DEF Judging, Inv, TypeOK, WorkState
  <2>3. judgehost[job[g]][t] = g
    BY <2>2 DEF Inv, HeldByOwner
  <2> QED  BY <2>1, <2>2, <2>3
<1> QED  BY <1>1, <1>3, <1>4 DEF HeldByOwner

LEMMA FetchNothingInv == ASSUME Inv, NEW h \in Host, FetchNothing(h) PROVE Inv'
  BY IdleInv DEF FetchNothing, taskVars, Inv, TypeOK

LEMMA RegisterInv == ASSUME Inv, NEW h \in Host, Register(h) PROVE Inv'
<1>1. judgehost' \in [Job -> [Test -> Host \union {NoHost}]]
  BY DEF Register, Inv, TypeOK
<1>2. \A j \in Job : \A t \in Test :
          judgehost[j][t] # h => judgehost'[j][t] = judgehost[j][t]
  BY DEF Register, GivenBackAtRegistration, Inv, TypeOK
<1>3. pc[h] # "wait" /\ Idle(h)
      /\ UNCHANGED <<submitted, queuetask, valid, judgingVars, enabled, requests, compiled>>
  BY DEF Register
<1>4. /\ pc' \in [Host -> DaemonState]
      /\ strategy' \in [Host -> {"continue", "start", "share"}]
      /\ job' \in [Host -> Job \union {NoJob}]
      /\ tasks' \in [Host -> SUBSET Test]
      /\ \A g \in Host : pc'[g] \in WorkState => job'[g] \in Job
      /\ \A g \in Host : g # h => pc'[g] = pc[g]
      /\ HeldByOwner'
  BY <1>1, <1>2, <1>3, LeaveInv DEF Idle
<1>5. TypeOK'
  BY <1>1, <1>3, <1>4 DEF Inv, TypeOK, judgingVars
<1>6. AnswerAwaited'
  BY <1>3, <1>4 DEF Inv, TypeOK, AnswerAwaited, Request
<1> QED  BY <1>4, <1>5, <1>6 DEF Inv

LEMMA HostErrorInv == ASSUME Inv, NEW h \in Host, HostError(h) PROVE Inv'
<1>1. pc[h] = "judge" /\ job[h] \in Job
  BY DEF HostError, Inv, TypeOK, WorkState
<1>2. judgehost' \in [Job -> [Test -> Host \union {NoHost}]]
  BY <1>1 DEF HostError, Inv, TypeOK
<1>3. \A j \in Job : \A t \in Test :
          judgehost[j][t] # h => judgehost'[j][t] = judgehost[j][t]
  BY <1>1 DEF HostError, Inv, TypeOK
<1>4. Abandon(h) /\ enabled' \in [Host -> BOOLEAN]
      /\ UNCHANGED <<submitted, queuetask, valid, judgingVars, requests, compiled>>
  BY DEF HostError, Inv, TypeOK
<1>5. /\ pc' \in [Host -> DaemonState]
      /\ strategy' \in [Host -> {"continue", "start", "share"}]
      /\ job' \in [Host -> Job \union {NoJob}]
      /\ tasks' \in [Host -> SUBSET Test]
      /\ \A g \in Host : pc'[g] \in WorkState => job'[g] \in Job
      /\ \A g \in Host : g # h => pc'[g] = pc[g]
      /\ HeldByOwner'
  BY <1>2, <1>3, <1>4, LeaveInv DEF Abandon
<1>6. TypeOK'
  BY <1>2, <1>4, <1>5 DEF Inv, TypeOK, judgingVars
<1>7. AnswerAwaited'
  BY <1>1, <1>4, <1>5 DEF Inv, TypeOK, AnswerAwaited, Request
<1> QED  BY <1>5, <1>6, <1>7 DEF Inv

LEMMA EnableInv == ASSUME Inv, NEW h \in Host, Enable(h) \/ Disable(h) PROVE Inv'
  BY DEF Enable, Disable, SetEnabled, Inv, TypeOK, AnswerAwaited, HeldByOwner, Judging,
         taskVars, judgingVars, daemonVars

LEMMA CompileSuccessInv == ASSUME Inv, NEW h \in Host, CompileSuccess(h) PROVE Inv'
<1>1. job[h] \in Job
  BY DEF CompileSuccess, Inv, TypeOK, WorkState
<1>2. outputCompile' \in [Job -> BOOLEAN] /\ compiled' \in [Host -> SUBSET Job]
  BY <1>1 DEF CompileSuccess, Inv, TypeOK
<1> QED
  BY <1>2 DEF CompileSuccess, Inv, TypeOK, AnswerAwaited, HeldByOwner, Judging, taskVars

LEMMA CompileErrorInv == ASSUME Inv, NEW h \in Host, CompileError(h) PROVE Inv'
<1>1. /\ pc[h] = "judge" /\ job[h] \in Job /\ Abandon(h)
      /\ UNCHANGED <<submitted, queuetask, judgehost, runresult, judgeCompletely,
                     enabled, requests, compiled>>
  BY DEF CompileError, Inv, TypeOK, WorkState
<1>2. /\ result' \in [Job -> Verdict] /\ result'[job[h]] \in Verdict
      /\ outputCompile' \in [Job -> BOOLEAN] /\ endtime' \in [Job -> BOOLEAN]
  BY <1>1 DEF CompileError, Inv, TypeOK, Verdict
<1>3. scorerow' \in [Job -> Verdict]
  BY <1>1, <1>2 DEF CompileError, Inv, TypeOK
<1>4. ValidAfterCompilerError(job[h]) \in [Test -> BOOLEAN]
  BY <1>1 DEF ValidAfterCompilerError, Inv, TypeOK
<1>5. valid' \in [Job -> [Test -> BOOLEAN]]
  BY <1>1, <1>4 DEF CompileError, Inv, TypeOK
<1>6. judgehost' \in [Job -> [Test -> Host \union {NoHost}]]
  BY <1>1 DEF Inv, TypeOK
<1>7. /\ pc' \in [Host -> DaemonState]
      /\ strategy' \in [Host -> {"continue", "start", "share"}]
      /\ job' \in [Host -> Job \union {NoJob}]
      /\ tasks' \in [Host -> SUBSET Test]
      /\ \A g \in Host : pc'[g] \in WorkState => job'[g] \in Job
      /\ \A g \in Host : g # h => pc'[g] = pc[g]
      /\ HeldByOwner'
  BY <1>1, <1>6, LeaveInv DEF Abandon
<1>8. TypeOK'
  BY <1>1, <1>2, <1>3, <1>5, <1>6, <1>7 DEF Inv, TypeOK
<1>9. AnswerAwaited'
  BY <1>1, <1>7 DEF Inv, TypeOK, AnswerAwaited, Request
<1> QED  BY <1>7, <1>8, <1>9 DEF Inv

LEMMA RunTestInv ==
    ASSUME Inv, NEW h \in Host, NEW t \in Test, NEW r \in RunResult, RunTest(h, t, r)
    PROVE  Inv'
<1> DEFINE q == NewRequest(h, t, r)
<1>1. /\ pc[h] = "judge" /\ job[h] \in Job /\ requests' = requests \union {q}
      /\ UNCHANGED <<taskVars, judgingVars, enabled, compiled>>
  BY DEF RunTest, Inv, TypeOK, WorkState
<1>2. q \in Request /\ q.host = h /\ q.sync = (r # Correct)
  BY <1>1, NewRequestType
<1>3. \A p \in requests : p.sync => p.host # h
  BY <1>1 DEF Inv, AnswerAwaited
<1>4. CASE Idle(h) /\ r = Correct
  <2>1. judgehost' \in [Job -> [Test -> Host \union {NoHost}]]
    BY <1>1 DEF Inv, TypeOK, taskVars
  <2>2. /\ pc' \in [Host -> DaemonState]
        /\ strategy' \in [Host -> {"continue", "start", "share"}]
        /\ job' \in [Host -> Job \union {NoJob}]
        /\ tasks' \in [Host -> SUBSET Test]
        /\ \A g \in Host : pc'[g] \in WorkState => job'[g] \in Job
        /\ \A g \in Host : g # h => pc'[g] = pc[g]
        /\ HeldByOwner'
    BY <1>1, <1>4, <2>1, LeaveInv DEF Idle, taskVars
  <2>3. TypeOK'
    BY <1>1, <1>2, <2>2 DEF Inv, TypeOK, taskVars, judgingVars
  <2>4. AnswerAwaited'
    BY <1>1, <1>2, <1>3, <1>4, <2>2 DEF Inv, TypeOK, AnswerAwaited, Request
  <2> QED  BY <2>2, <2>3, <2>4 DEF Inv
<1>5. CASE /\ tasks' = [tasks EXCEPT ![h] = @ \ {t}]
           /\ pc' = [pc EXCEPT ![h] = IF r = Correct THEN "judge" ELSE "wait"]
           /\ UNCHANGED <<job, strategy>>
  <2>1. /\ pc' \in [Host -> DaemonState] /\ tasks' \in [Host -> SUBSET Test]
        /\ pc'[h] = (IF r = Correct THEN "judge" ELSE "wait")
        /\ \A g \in Host : tasks'[g] \subseteq tasks[g]
        /\ \A g \in Host : g # h => pc'[g] = pc[g]
    BY <1>5 DEF Inv, TypeOK, DaemonState
  <2>2. TypeOK'
    BY <1>1, <1>2, <1>5, <2>1 DEF Inv, TypeOK, taskVars, judgingVars, WorkState
  <2>3. AnswerAwaited'
    BY <1>1, <1>2, <1>3, <2>1 DEF Inv, TypeOK, AnswerAwaited, Request
  <2>4. HeldByOwner'
    BY <1>1, <1>5, <2>1 DEF Inv, HeldByOwner, Judging, taskVars
  <2> QED  BY <2>2, <2>3, <2>4 DEF Inv
<1> QED  BY <1>4, <1>5 DEF RunTest

(* The uploads of a daemon that died are awaited by nobody.                 *)
LEMMA CrashInv == ASSUME Inv, NEW h \in Host, Crash(h) PROVE Inv'
<1>1. /\ requests' = {Orphaned(q, h) : q \in requests}
      /\ UNCHANGED <<taskVars, judgingVars, enabled>>
      /\ compiled' \in [Host -> SUBSET Job]
  BY DEF Crash, Inv, TypeOK
<1>2. judgehost' \in [Job -> [Test -> Host \union {NoHost}]]
  BY <1>1 DEF Inv, TypeOK, taskVars
<1>3. /\ pc' \in [Host -> DaemonState]
      /\ strategy' \in [Host -> {"continue", "start", "share"}]
      /\ job' \in [Host -> Job \union {NoJob}]
      /\ tasks' \in [Host -> SUBSET Test]
      /\ \A g \in Host : pc'[g] \in WorkState => job'[g] \in Job
      /\ \A g \in Host : g # h => pc'[g] = pc[g]
      /\ HeldByOwner'
  BY <1>1, <1>2, LeaveInv DEF Crash, taskVars
<1>4. \A q \in requests : /\ q \in Request /\ Orphaned(q, h) \in Request
                          /\ Orphaned(q, h).host = q.host
                          /\ Orphaned(q, h).sync = (q.sync /\ q.host # h)
                          /\ q.host # h => Orphaned(q, h) = q
  BY DEF Inv, TypeOK, Request, Orphaned
<1>5. TypeOK'
  BY <1>1, <1>2, <1>3, <1>4 DEF Inv, TypeOK, taskVars, judgingVars
<1>6. ASSUME NEW q \in requests, Orphaned(q, h).sync
      PROVE  /\ pc'[Orphaned(q, h).host] = "wait"
             /\ \A p \in requests :
                    Orphaned(p, h).sync /\ Orphaned(p, h).host = Orphaned(q, h).host
                        => Orphaned(p, h) = Orphaned(q, h)
  <2>1. q.sync /\ q.host # h /\ q.host \in Host
    BY <1>4, <1>6 DEF Request
  <2> QED  BY <1>3, <1>4, <2>1 DEF Inv, AnswerAwaited
<1>7. AnswerAwaited'
  BY <1>1, <1>6 DEF AnswerAwaited
<1> QED  BY <1>3, <1>5, <1>7 DEF Inv

LEMMA JudgeRemainingInv == ASSUME Inv, NEW j \in Job, JudgeRemaining(j) PROVE Inv'
<1>1. Revalidated(j) \in [Test -> BOOLEAN]
  BY DEF Revalidated, Inv, TypeOK
<1>2. valid' \in [Job -> [Test -> BOOLEAN]] /\ judgeCompletely' \in [Job -> BOOLEAN]
  BY <1>1 DEF JudgeRemaining, Inv, TypeOK
<1>3. [priority |-> 10, started |-> FALSE] \in QueueTask
  BY DEF QueueTask, Priority
<1>4. queuetask' \in [Job -> SUBSET QueueTask]
  BY <1>3 DEF JudgeRemaining, Inv, TypeOK
<1>5. UNCHANGED <<submitted, judgehost, runresult, result, endtime, outputCompile,
                  scorerow, enabled, requests, daemonVars>>
  BY DEF JudgeRemaining
<1> QED
  BY <1>2, <1>4, <1>5 DEF Inv, TypeOK, AnswerAwaited, HeldByOwner, Judging, daemonVars

-----------------------------------------------------------------------------
(* The handler of a run.                                                    *)

LEMMA AnsweredInv ==
    ASSUME Inv, NEW q \in requests, NEW more \in BOOLEAN, Answer(q, more),
           UNCHANGED <<submitted, queuetask, judgehost, runresult, outputCompile,
                       judgeCompletely, enabled, compiled>>,
           valid' \in [Job -> [Test -> BOOLEAN]], result' \in [Job -> Verdict],
           endtime' \in [Job -> BOOLEAN], scorerow' \in [Job -> Verdict]
    PROVE  Inv'
<1>1. /\ requests' \subseteq Request
      /\ pc' \in [Host -> DaemonState]
      /\ strategy' \in [Host -> {"continue", "start", "share"}]
      /\ job' \in [Host -> Job \union {NoJob}]
      /\ tasks' \in [Host -> SUBSET Test]
      /\ \A h \in Host : pc'[h] \in WorkState => job'[h] \in Job
      /\ \A h \in Host : pc'[h] \in {"judge", "wait"} =>
             /\ pc[h] \in {"judge", "wait"}
             /\ job'[h] = job[h] /\ tasks'[h] = tasks[h]
      /\ AnswerAwaited'
  BY AnswerEffect DEF Inv
<1>2. TypeOK'
  BY <1>1 DEF Inv, TypeOK
<1>3. HeldByOwner'
  BY <1>1 DEF Inv, HeldByOwner, Judging
<1> QED  BY <1>1, <1>2, <1>3 DEF Inv

LEMMA ContinuedInv ==
    ASSUME Inv, NEW q \in requests, NEW r \in Request, r.sync = q.sync, r.host = q.host,
           requests' = (requests \ {q}) \union {r},
           UNCHANGED <<submitted, queuetask, judgehost, outputCompile, judgeCompletely,
                       scorerow, enabled, daemonVars>>,
           valid' \in [Job -> [Test -> BOOLEAN]],
           runresult' \in [Job -> [Test -> RunOrPending]],
           result' \in [Job -> Verdict], endtime' \in [Job -> BOOLEAN]
    PROVE  Inv'
<1>1. AnswerAwaited'
  BY ReplaceAwaited DEF Inv, daemonVars
<1>2. TypeOK'
  BY DEF Inv, TypeOK, taskVars, daemonVars
<1>3. HeldByOwner'
  BY DEF Inv, HeldByOwner, Judging, taskVars, daemonVars
<1> QED  BY <1>1, <1>2, <1>3 DEF Inv

LEMMA StoreRunInv == ASSUME Inv, NEW q \in requests, StoreRun(q) PROVE Inv'
<1>1. q \in Request /\ [q EXCEPT !.pc = "read"] \in Request
      /\ [q EXCEPT !.pc = "read"].sync = q.sync /\ [q EXCEPT !.pc = "read"].host = q.host
  BY DEF Inv, TypeOK, Request
<1>2. runresult' \in [Job -> [Test -> RunOrPending]]
  BY <1>1 DEF StoreRun, Inv, TypeOK, Request, RunOrPending
<1> QED  BY <1>1, <1>2, ContinuedInv DEF StoreRun, taskVars, Inv, TypeOK

LEMMA FinalResultType ==
    ASSUME NEW rs \in [Test -> RunOrPending]
    PROVE  getFinalResult(rs) \in RunOrPending
  BY DEF getFinalResult, RunOrPending

LEMMA ReadRunsInv == ASSUME Inv, NEW q \in requests, ReadRuns(q) PROVE Inv'
<1> DEFINE verdict == getFinalResult(runresult[q.job])
           known == \A t \in Test : runresult[q.job][t] # Pending
           r == [q EXCEPT !.pc = "flush", !.verdict = verdict, !.allKnown = known,
                          !.old = result[q.job], !.complete = judgeCompletely[q.job]]
<1>1. /\ q \in Request /\ q.job \in Job /\ verdict \in RunOrPending
      /\ UNCHANGED <<taskVars, judgingVars, enabled, compiled>>
  BY FinalResultType DEF ReadRuns, Inv, TypeOK, Request
<1>2. known \in BOOLEAN /\ NeedsMoreRuns(q.job) \in BOOLEAN
  BY <1>1 DEF NeedsMoreRuns, Inv, TypeOK
<1>3. CASE Answer(q, NeedsMoreRuns(q.job))
  BY <1>1, <1>2, <1>3, AnsweredInv DEF Inv, TypeOK, taskVars, judgingVars
<1>4. CASE requests' = (requests \ {q}) \union {r} /\ UNCHANGED <<pc, job, tasks, strategy>>
  <2>1. r \in Request /\ r.sync = q.sync /\ r.host = q.host
    BY <1>1, <1>2 DEF Inv, TypeOK, Request
  <2> QED
    BY <1>1, <1>4, <2>1, ContinuedInv DEF Inv, TypeOK, taskVars, judgingVars, daemonVars
<1> QED  BY <1>3, <1>4 DEF ReadRuns

(* A lost answer is a special case of an answer: the request is sent again. *)
LEMMA RetriedInv ==
    ASSUME Inv, NEW q \in requests, Retry(q),
           UNCHANGED <<submitted, queuetask, judgehost, runresult, outputCompile,
                       judgeCompletely, scorerow, enabled, compiled>>,
           valid' \in [Job -> [Test -> BOOLEAN]],
           result' \in [Job -> Verdict], endtime' \in [Job -> BOOLEAN]
    PROVE  Inv'
<1>1. Resent(q) \in Request /\ Resent(q).sync = q.sync /\ Resent(q).host = q.host
  BY ResentType DEF Inv, TypeOK
<1> QED  BY <1>1, ContinuedInv DEF Retry, daemonVars, Inv, TypeOK

LEMMA FlushVerdictInv == ASSUME Inv, NEW q \in requests, FlushVerdict(q) PROVE Inv'
<1>1. /\ q \in Request /\ q.job \in Job /\ Ends(q) \in BOOLEAN /\ NeedsMoreWork(q) \in BOOLEAN
      /\ q.verdict \in Verdict
      /\ UNCHANGED <<taskVars, runresult, outputCompile, judgeCompletely, scorerow,
                     enabled, compiled>>
  BY JudgeQueueAssumption
  DEF FlushVerdict, Ends, NeedsMoreWork, Inv, TypeOK, Request, Verdict
<1>2. result' \in [Job -> Verdict] /\ endtime' \in [Job -> BOOLEAN]
  BY <1>1 DEF FlushVerdict, Inv, TypeOK
<1>3. CASE Answer(q, NeedsMoreWork(q))
  BY <1>1, <1>2, <1>3, AnsweredInv DEF Inv, TypeOK, taskVars
<1>4. CASE Retry(q)
  BY <1>1, <1>2, <1>4, RetriedInv DEF taskVars, Inv, TypeOK
<1>5. CASE /\ requests' = (requests \ {q}) \union {[q EXCEPT !.pc = "post"]}
           /\ UNCHANGED <<pc, job, tasks, strategy>>
  <2>1. [q EXCEPT !.pc = "post"] \in Request /\ [q EXCEPT !.pc = "post"].sync = q.sync
        /\ [q EXCEPT !.pc = "post"].host = q.host
    BY <1>1 DEF Request
  <2>2. runresult' \in [Job -> [Test -> RunOrPending]] /\ UNCHANGED daemonVars
    BY <1>1, <1>5 DEF daemonVars, Inv, TypeOK
  <2> QED  BY <1>1, <1>2, <1>5, <2>1, <2>2, ContinuedInv DEF taskVars, Inv, TypeOK
<1> QED  BY <1>3, <1>4, <1>5 DEF FlushVerdict

LEMMA PostVerdictInv == ASSUME Inv, NEW q \in requests, PostVerdict(q) PROVE Inv'
<1>1. /\ q \in Request /\ q.job \in Job /\ NeedsMoreWork(q) \in BOOLEAN
      /\ UNCHANGED <<submitted, queuetask, judgehost, runresult, result, endtime,
                     outputCompile, judgeCompletely, enabled, compiled>>
  BY JudgeQueueAssumption DEF PostVerdict, NeedsMoreWork, Inv, TypeOK, Request
<1>2. Invalidated(q.job) \in [Test -> BOOLEAN] /\ Scored(q.job) \in Verdict
  BY <1>1, JudgeQueueAssumption DEF Invalidated, Scored, Inv, TypeOK
<1>3. valid' \in {valid, [valid EXCEPT ![q.job] = Invalidated(q.job)]}
  BY DEF PostVerdict
<1>4. valid' \in [Job -> [Test -> BOOLEAN]]
  BY <1>1, <1>2, <1>3 DEF Inv, TypeOK
<1>5. result' \in [Job -> Verdict] /\ endtime' \in [Job -> BOOLEAN]
  BY <1>1 DEF Inv, TypeOK
<1>6. CASE /\ scorerow' = [scorerow EXCEPT ![q.job] = Scored(q.job)]
           /\ Answer(q, NeedsMoreWork(q))
  <2>1. scorerow' \in [Job -> Verdict]
    BY <1>1, <1>2, <1>6 DEF Inv, TypeOK
  <2> QED  BY <1>1, <1>4, <1>5, <1>6, <2>1, AnsweredInv
<1>7. CASE Retry(q) /\ UNCHANGED scorerow
  BY <1>1, <1>4, <1>5, <1>7, RetriedInv
<1> QED  BY <1>6, <1>7 DEF PostVerdict

LEMMA GiveUpInv == ASSUME Inv, NEW q \in requests, GiveUp(q) PROVE Inv'
<1>1. Answer(q, FALSE)
  BY DEF GiveUp, Answer
<1> QED  BY <1>1, AnsweredInv DEF GiveUp, taskVars, judgingVars, Inv, TypeOK

-----------------------------------------------------------------------------
LEMMA NextInv == Inv /\ [Next]_vars => Inv'
<1> SUFFICES ASSUME Inv, [Next]_vars PROVE Inv'
  OBVIOUS
<1>1. CASE UNCHANGED vars
  BY <1>1 DEF Inv, TypeOK, AnswerAwaited, HeldByOwner, Judging, vars, taskVars,
              judgingVars, daemonVars
<1>2. ASSUME NEW j \in Job, Submit(j) \/ JudgeRemaining(j) PROVE Inv'
  BY <1>2, SubmitInv, JudgeRemainingInv
<1>3. ASSUME NEW h \in Host, HostError(h) \/ Enable(h) \/ Disable(h) \/ Crash(h)
      PROVE  Inv'
  BY <1>3, HostErrorInv, EnableInv, CrashInv
<1>4. ASSUME NEW q \in requests, RequestStep(q) \/ GiveUp(q) PROVE Inv'
  BY <1>4, StoreRunInv, ReadRunsInv, FlushVerdictInv, PostVerdictInv, GiveUpInv
  DEF RequestStep
<1>5. ASSUME NEW h \in Host, DaemonStep(h) PROVE Inv'
  <2>1. ASSUME NEW j \in Job, FetchContinue(h, j) PROVE Inv'
    BY <2>1, FetchingInv DEF FetchContinue
  <2>2. ASSUME NEW j \in Job, FetchStart(h, j) PROVE Inv'
    BY <2>2, FetchingInv DEF FetchStart
  <2>3. ASSUME NEW j \in Job, FetchShare(h, j) PROVE Inv'
    BY <2>3, FetchingInv DEF FetchShare
  <2>4. CASE FetchNew(h)
    BY <2>4, FetchingInv DEF FetchNew
  <2> QED
    BY <1>5, <2>1, <2>2, <2>3, <2>4, FetchNothingInv, MarkStartedInv, SelectTasksInv,
       DeleteQueueTaskInv, ClaimTasksInv, CompileSuccessInv, CompileErrorInv, RunTestInv,
       RegisterInv
    DEF DaemonStep
<1> QED  BY <1>1, <1>2, <1>3, <1>4, <1>5 DEF Next

(* Every reachable state of the queue, the judgings and the daemons is well *)
(* typed; in particular a daemon past the look-up of fetch-work always has  *)
(* a job.                                                                   *)
THEOREM TypeCorrect == Spec => []TypeOK
<1>1. Spec => []Inv
  BY InitInv, NextInv, PTL DEF Spec
<1>2. Inv => TypeOK
  BY DEF Inv
<1> QED  BY <1>1, <1>2, PTL

(* addSingleJudgingRun's answer, which decides about the rest of a batch,   *)
(* reaches at most one waiting daemon.                                      *)
THEOREM AnswersAreAwaited == Spec => []AnswerAwaited
<1>1. Spec => []Inv
  BY InitInv, NextInv, PTL DEF Spec
<1>2. Inv => AnswerAwaited
  BY DEF Inv
<1> QED  BY <1>1, <1>2, PTL

(* The conditional update of serializeJudgeTasks suffices: the tasks in a   *)
(* daemon's hands are its own in the judgetask table.                       *)
THEOREM HeldTasksAreOwn == Spec => []HeldByOwner
<1>1. Spec => []Inv
  BY InitInv, NextInv, PTL DEF Spec
<1>2. Inv => HeldByOwner
  BY DEF Inv
<1> QED  BY <1>1, <1>2, PTL

(* No test case of a judging is in the hands of two judgehosts, for any     *)
(* number of judgehosts, whatever crashes, losses and returns happen.       *)
THEOREM NoTestJudgedTwiceAtOnce == Spec => []NoDoubleWork
<1>1. Spec => []Inv
  BY InitInv, NextInv, PTL DEF Spec
<1>2. Inv => NoDoubleWork
  <2> SUFFICES ASSUME Inv, NEW g \in Host, NEW h \in Host, g # h,
                      Judging(g), Judging(h), job[g] = job[h],
                      NEW t \in tasks[g], t \in tasks[h]
               PROVE  FALSE
    BY DEF NoDoubleWork
  <2> QED  BY DEF Inv, HeldByOwner
<1> QED  BY <1>1, <1>2, PTL

-----------------------------------------------------------------------------
(* Whatever is queued, worked on, on the way or judged was submitted.       *)
OnlySubmitted ==
    /\ \A j \in Job : queuetask[j] # {} \/ result[j] # Pending => j \in submitted
    /\ \A h \in Host : job[h] # NoJob => job[h] \in submitted
    /\ \A q \in requests : q.job \in submitted

(* What an answer leaves: jobs only disappear.                              *)
LEMMA AnswerSubmitted ==
    ASSUME TypeOK, OnlySubmitted, NEW q \in requests, NEW more, Answer(q, more) \/ Retry(q),
           UNCHANGED submitted
    PROVE  /\ \A h \in Host : job'[h] # NoJob => job'[h] \in submitted'
           /\ \A r \in requests' : r.job \in submitted'
<1>1. q \in Request /\ q.host \in Host /\ Resent(q).job = q.job
  BY DEF TypeOK, Request, Resent
<1>2. \A r \in requests' : r.job \in submitted'
  BY <1>1 DEF OnlySubmitted, Answer, Retry
<1>3. \A h \in Host : job'[h] \in {job[h], NoJob}
  BY <1>1 DEF TypeOK, Answer, Retry, Resume, Abandon, Idle
<1> QED  BY <1>2, <1>3 DEF OnlySubmitted

(* A step that changes no verdict keeps this if it brings in no job but     *)
(* submitted ones.                                                          *)
LEMMA FrameOnlySubmitted ==
    ASSUME OnlySubmitted, submitted \subseteq submitted',
           \A j \in Job : queuetask'[j] # {} => queuetask[j] # {} \/ j \in submitted',
           \A h \in Host : job'[h] # NoJob => job'[h] = job[h] \/ job'[h] \in submitted',
           \A q \in requests' : q.job \in submitted',
           UNCHANGED result
    PROVE  OnlySubmitted'
  BY DEF OnlySubmitted

(* The daemons and their fetch-work requests, but for compiler errors,      *)
(* change no verdict and no score row.                                      *)
LEMMA DaemonSubmitted ==
    ASSUME TypeOK, OnlySubmitted, NEW h \in Host, DaemonStep(h), ~CompileError(h)
    PROVE  OnlySubmitted' /\ UNCHANGED <<submitted, result, scorerow>>
<1>1. ASSUME NEW j \in Job, FetchContinue(h, j) \/ FetchStart(h, j) \/ FetchShare(h, j)
      PROVE  OnlySubmitted' /\ UNCHANGED <<submitted, result, scorerow>>
  <2>1. queuetask[j] # {}
    <3>1. CASE FetchContinue(h, j)
      BY <3>1 DEF FetchContinue, CanContinue
    <3>2. CASE FetchStart(h, j)
      <4>1. \E q \in Unstarted[j] : TRUE
        BY <3>2 DEF FetchStart, First
      <4> QED  BY <4>1 DEF Unstarted
    <3>3. CASE FetchShare(h, j)
      BY <3>3 DEF FetchShare, First
    <3> QED  BY <1>1, <3>1, <3>2, <3>3
  <2>2. /\ job' = [job EXCEPT ![h] = j]
        /\ UNCHANGED <<submitted, queuetask, requests, result, scorerow>>
    BY <1>1 DEF FetchContinue, FetchStart, FetchShare, Fetching, taskVars, judgingVars
  <2>3. j \in submitted
    BY <2>1 DEF OnlySubmitted
  <2> QED  BY <2>2, <2>3, FrameOnlySubmitted DEF TypeOK, OnlySubmitted
<1>2. CASE FetchNew(h)
  BY <1>2, FrameOnlySubmitted
  DEF FetchNew, Fetching, taskVars, judgingVars, TypeOK, OnlySubmitted
<1>3. CASE FetchNothing(h)
  BY <1>3, FrameOnlySubmitted DEF FetchNothing, Idle, taskVars, judgingVars, TypeOK, OnlySubmitted
<1>4. CASE MarkStarted(h)
  <2>1. job[h] \in Job
    BY <1>4 DEF MarkStarted, TypeOK, WorkState
  <2>2. \A j \in Job : queuetask'[j] # {} => queuetask[j] # {}
    <3> SUFFICES ASSUME NEW j \in Job, queuetask[j] = {} PROVE queuetask'[j] = {}
      OBVIOUS
    <3>1. \/ queuetask' = queuetask
          \/ queuetask' = [queuetask EXCEPT ![job[h]] =
                               {[q EXCEPT !.started = TRUE] : q \in queuetask[job[h]]}]
      BY <1>4 DEF MarkStarted
    <3>2. {[q EXCEPT !.started = TRUE] : q \in {}} = {}
      OBVIOUS
    <3>3. CASE job[h] = j
      BY <2>1, <3>1, <3>2, <3>3 DEF TypeOK
    <3>4. CASE job[h] # j
      BY <2>1, <3>1, <3>4 DEF TypeOK
    <3> QED  BY <3>3, <3>4
  <2>3. /\ \A g \in Host : job'[g] \in {job[g], NoJob}
        /\ UNCHANGED <<submitted, requests, result, scorerow>>
    BY <1>4 DEF MarkStarted, Idle, TypeOK, judgingVars
  <2> QED  BY <2>2, <2>3, FrameOnlySubmitted DEF OnlySubmitted
<1>5. CASE SelectTasks(h)
  BY <1>5, FrameOnlySubmitted DEF SelectTasks, taskVars, judgingVars, OnlySubmitted
<1>6. CASE DeleteQueueTask(h)
  <2>1. job[h] \in Job
    BY <1>6 DEF DeleteQueueTask, TypeOK, WorkState
  <2>2. \A j \in Job : queuetask'[j] # {} => queuetask[j] # {}
    BY <1>6, <2>1 DEF DeleteQueueTask, TypeOK
  <2>3. /\ \A g \in Host : job'[g] \in {job[g], NoJob}
        /\ UNCHANGED <<submitted, requests, result, scorerow>>
    BY <1>6 DEF DeleteQueueTask, Idle, TypeOK, judgingVars
  <2> QED  BY <2>2, <2>3, FrameOnlySubmitted DEF OnlySubmitted
<1>7. CASE ClaimTasks(h) \/ Register(h)
  <2>1. /\ \A g \in Host : job'[g] \in {job[g], NoJob}
        /\ UNCHANGED <<submitted, queuetask, requests, result, scorerow>>
    BY <1>7 DEF ClaimTasks, Register, Idle, TypeOK, judgingVars
  <2> QED  BY <2>1, FrameOnlySubmitted DEF OnlySubmitted
<1>8. CASE CompileSuccess(h)
  BY <1>8, FrameOnlySubmitted DEF CompileSuccess, taskVars, OnlySubmitted
<1>9. ASSUME NEW t \in Test, NEW r \in RunResult, RunTest(h, t, r)
      PROVE  OnlySubmitted' /\ UNCHANGED <<submitted, result, scorerow>>
  <2>1. job[h] \in Job /\ job[h] \in submitted
    BY <1>9, JudgeQueueAssumption DEF RunTest, TypeOK, WorkState, OnlySubmitted
  <2>2. NewRequest(h, t, r).job = job[h]
    BY DEF NewRequest
  <2>3. /\ \A g \in Host : job'[g] \in {job[g], NoJob}
        /\ requests' = requests \union {NewRequest(h, t, r)}
        /\ UNCHANGED <<submitted, queuetask, result, scorerow>>
    BY <1>9 DEF RunTest, Idle, TypeOK, taskVars, judgingVars
  <2> QED  BY <2>1, <2>2, <2>3, FrameOnlySubmitted DEF OnlySubmitted
<1> QED
  BY <1>1, <1>2, <1>3, <1>4, <1>5, <1>6, <1>7, <1>8, <1>9 DEF DaemonStep

(* The handler of a run touches its own job only.                           *)
LEMMA RequestEffect ==
    ASSUME TypeOK, NEW q \in requests, RequestStep(q) \/ GiveUp(q)
    PROVE  /\ q.job \in Job
           /\ \A r \in requests' : r \in requests \/ r.job = q.job
           /\ \A h \in Host : job'[h] \in {job[h], NoJob}
           /\ \A h \in Host : pc'[h] = "clean" => pc[h] = "clean" /\ job'[h] = job[h]
           /\ \A j \in Job : j # q.job => result'[j] = result[j]
           /\ UNCHANGED <<submitted, queuetask, judgehost, judgeCompletely>>
<1>1. q \in Request /\ q.job \in Job /\ q.host \in Host /\ Resent(q).job = q.job
  BY DEF TypeOK, Request, Resent
<1>2. ASSUME NEW more, Answer(q, more) \/ Retry(q) \/ Resume(q, more)
      PROVE  /\ \A h \in Host : job'[h] \in {job[h], NoJob}
             /\ \A h \in Host : pc'[h] = "clean" => pc[h] = "clean" /\ job'[h] = job[h]
  BY <1>1, <1>2 DEF TypeOK, Answer, Retry, Resume, Abandon, Idle
<1>3. ASSUME NEW more, Answer(q, more) \/ Retry(q)
      PROVE  \A r \in requests' : r \in requests \/ r.job = q.job
  BY <1>1, <1>3 DEF Answer, Retry
<1>4. CASE StoreRun(q)
  BY <1>1, <1>4 DEF StoreRun, taskVars, daemonVars, Request
<1>5. CASE ReadRuns(q)
  <2>1. UNCHANGED <<submitted, queuetask, judgehost, judgeCompletely, result>>
    BY <1>5 DEF ReadRuns, taskVars, judgingVars
  <2>2. CASE \E more \in BOOLEAN : Answer(q, more)
    BY <1>1, <1>2, <1>3, <2>1, <2>2
  <2>3. CASE ~\E more \in BOOLEAN : Answer(q, more)
    <3> DEFINE v == getFinalResult(runresult[q.job])
               k == \A t \in Test : runresult[q.job][t] # Pending
               r == [q EXCEPT !.pc = "flush", !.verdict = v, !.allKnown = k,
                              !.old = result[q.job], !.complete = judgeCompletely[q.job]]
    <3>1. UNCHANGED <<pc, job>> /\ requests' = (requests \ {q}) \union {r}
      BY <1>1, <1>5, <2>3 DEF ReadRuns, NeedsMoreRuns, TypeOK
    <3>2. r.job = q.job
      BY <1>1 DEF Request
    <3> QED  BY <1>1, <2>1, <3>1, <3>2
  <2> QED  BY <2>2, <2>3
<1>6. CASE FlushVerdict(q)
  <2>1. UNCHANGED <<submitted, queuetask, judgehost, judgeCompletely>>
    BY <1>6 DEF FlushVerdict, taskVars
  <2>2. \A j \in Job : j # q.job => result'[j] = result[j]
    BY <1>6 DEF FlushVerdict, TypeOK
  <2>3. CASE (\E more \in BOOLEAN : Answer(q, more)) \/ Retry(q)
    BY <1>1, <1>2, <1>3, <2>1, <2>2, <2>3
  <2>4. CASE ~((\E more \in BOOLEAN : Answer(q, more)) \/ Retry(q))
    <3>1. UNCHANGED <<pc, job>>
      BY <1>1, <1>6, <2>4, JudgeQueueAssumption DEF FlushVerdict, NeedsMoreWork, Request
    <3>2. \A r \in requests' : r \in requests \/ r.job = q.job
      BY <1>1, <1>6, <2>4, JudgeQueueAssumption DEF FlushVerdict, NeedsMoreWork, Request
    <3> QED  BY <1>1, <2>1, <2>2, <3>1, <3>2
  <2> QED  BY <2>3, <2>4
<1>7. CASE PostVerdict(q)
  <2>1. UNCHANGED <<submitted, queuetask, judgehost, judgeCompletely, result>>
    BY <1>7 DEF PostVerdict
  <2>2. (\E more \in BOOLEAN : Answer(q, more)) \/ Retry(q)
    BY <1>7, JudgeQueueAssumption, <1>1 DEF PostVerdict, NeedsMoreWork, Request
  <2> QED  BY <1>1, <1>2, <1>3, <2>1, <2>2
<1>8. CASE GiveUp(q)
  <2>1. UNCHANGED <<submitted, queuetask, judgehost, judgeCompletely, result>>
    BY <1>8 DEF GiveUp, taskVars, judgingVars
  <2>2. requests' \subseteq requests /\ Resume(q, FALSE)
    BY <1>8 DEF GiveUp
  <2> QED  BY <1>1, <1>2, <2>1, <2>2
<1> QED  BY <1>4, <1>5, <1>6, <1>7, <1>8 DEF RequestStep

(* The steps of jury, failures and teams, and compiler errors.              *)
LEMMA OtherEffect ==
    ASSUME TypeOK, NEW h \in Host,
           HostError(h) \/ Enable(h) \/ Disable(h) \/ Crash(h) \/ CompileError(h)
    PROVE  /\ \A r \in requests' : \E q \in requests :
                  r.job = q.job /\ r.pc = q.pc /\ r.old = q.old /\ r.verdict = q.verdict
           /\ \A q \in requests : \E r \in requests' : r.job = q.job /\ r.pc = q.pc
           /\ \A g \in Host : job'[g] \in {job[g], NoJob}
           /\ \A g \in Host : pc'[g] = "clean" => pc[g] = "clean" /\ job'[g] = job[g]
           /\ UNCHANGED <<submitted, queuetask, judgeCompletely>>
<1>1. UNCHANGED <<submitted, queuetask, judgeCompletely>>
  BY DEF HostError, Enable, Disable, SetEnabled, Crash, CompileError, taskVars, judgingVars
<1>2. /\ \A g \in Host : job'[g] \in {job[g], NoJob}
      /\ \A g \in Host : pc'[g] = "clean" => pc[g] = "clean" /\ job'[g] = job[g]
  <2>1. ASSUME Abandon(h)
        PROVE  /\ \A g \in Host : job'[g] \in {job[g], NoJob}
               /\ \A g \in Host : pc'[g] = "clean" => pc[g] = "clean" /\ job'[g] = job[g]
    BY <2>1 DEF Abandon, TypeOK
  <2>2. CASE Enable(h) \/ Disable(h) \/ Crash(h)
    BY <2>2 DEF Enable, Disable, SetEnabled, Crash, daemonVars, TypeOK
  <2> QED  BY <2>1, <2>2 DEF HostError, CompileError
<1>3. CASE Crash(h)
  <2>1. requests' = {Orphaned(q, h) : q \in requests}
    BY <1>3 DEF Crash
  <2>2. \A q \in requests : /\ Orphaned(q, h).job = q.job /\ Orphaned(q, h).pc = q.pc
                            /\ Orphaned(q, h).old = q.old /\ Orphaned(q, h).verdict = q.verdict
    BY DEF Orphaned, TypeOK, Request
  <2> QED  BY <1>1, <1>2, <2>1, <2>2
<1>4. CASE ~Crash(h)
  <2>1. requests' = requests
    BY <1>4 DEF HostError, Enable, Disable, SetEnabled, CompileError
  <2> QED  BY <1>1, <1>2, <2>1
<1> QED  BY <1>3, <1>4

LEMMA NextSubmitted == TypeOK /\ OnlySubmitted /\ [Next]_vars => OnlySubmitted'
<1> SUFFICES ASSUME TypeOK, OnlySubmitted, [Next]_vars PROVE OnlySubmitted'
  OBVIOUS
<1>1. CASE UNCHANGED vars
  BY <1>1, FrameOnlySubmitted DEF vars, taskVars, judgingVars, daemonVars, OnlySubmitted
<1>2. ASSUME NEW j \in Job, Submit(j) \/ JudgeRemaining(j) PROVE OnlySubmitted'
  <2>1. /\ j \in submitted' /\ submitted \subseteq submitted'
        /\ \A i \in Job : queuetask'[i] # {} => queuetask[i] # {} \/ i = j
        /\ UNCHANGED <<result, job, requests>>
    BY <1>2 DEF Submit, JudgeRemaining, TypeOK, OnlySubmitted, judgingVars, daemonVars
  <2> QED  BY <2>1, FrameOnlySubmitted DEF OnlySubmitted
<1>3. ASSUME NEW h \in Host, HostError(h) \/ Enable(h) \/ Disable(h) \/ Crash(h)
      PROVE  OnlySubmitted'
  <2>1. UNCHANGED result
    BY <1>3 DEF HostError, Enable, Disable, SetEnabled, Crash, judgingVars
  <2> QED  BY <1>3, <2>1, OtherEffect, FrameOnlySubmitted DEF OnlySubmitted
<1>4. ASSUME NEW h \in Host, DaemonStep(h) PROVE OnlySubmitted'
  <2>1. CASE CompileError(h)
    <3>1. job[h] \in Job /\ job[h] \in submitted
      BY <2>1, JudgeQueueAssumption DEF CompileError, TypeOK, WorkState, OnlySubmitted
    <3>2. \A j \in Job : j # job[h] => result'[j] = result[j]
      BY <2>1 DEF CompileError, TypeOK
    <3> QED  BY <2>1, <3>1, <3>2, OtherEffect DEF OnlySubmitted
  <2> QED  BY <1>4, <2>1, DaemonSubmitted
<1>5. ASSUME NEW q \in requests, RequestStep(q) \/ GiveUp(q) PROVE OnlySubmitted'
  BY <1>5, RequestEffect DEF OnlySubmitted
<1> QED  BY <1>1, <1>2, <1>3, <1>4, <1>5 DEF Next

-----------------------------------------------------------------------------
(* A handler writes a verdict, and one that found an old verdict found it   *)
(* in a judging that still has one.                                         *)
WrittenVerdicts ==
    \A q \in requests : /\ q.pc = "flush" => q.verdict # Pending
                        /\ q.old # Pending => result[q.job] # Pending

VerdictKept == \A j \in Job : result[j] # Pending => result'[j] # Pending

LEMMA FrameWritten ==
    ASSUME TypeOK, WrittenVerdicts, VerdictKept,
           \A r \in requests' : \/ r.pc # "flush" /\ r.old = Pending
                                \/ \E q \in requests : /\ r.job = q.job /\ r.old = q.old
                                                       /\ r.pc = "flush" => q.pc = "flush"
                                                       /\ r.verdict = q.verdict
    PROVE  WrittenVerdicts'
<1> SUFFICES ASSUME NEW r \in requests'
             PROVE  /\ r.pc = "flush" => r.verdict # Pending
                    /\ r.old # Pending => result'[r.job] # Pending
  BY DEF WrittenVerdicts
<1>1. CASE r.pc # "flush" /\ r.old = Pending
  BY <1>1
<1>2. ASSUME NEW q \in requests, r.job = q.job, r.old = q.old,
             r.pc = "flush" => q.pc = "flush", r.verdict = q.verdict
      PROVE  /\ r.pc = "flush" => r.verdict # Pending
             /\ r.old # Pending => result'[r.job] # Pending
  BY <1>2 DEF WrittenVerdicts, VerdictKept, TypeOK, Request
<1> QED  BY <1>1, <1>2

(* What the handler of a run leaves of itself: nothing, the request sent    *)
(* again, or itself at its next step.                                       *)
LEMMA RequestWritten ==
    ASSUME TypeOK, WrittenVerdicts, NEW q \in requests, RequestStep(q) \/ GiveUp(q)
    PROVE  WrittenVerdicts' /\ VerdictKept
<1>1. /\ q \in Request /\ q.job \in Job
      /\ Resent(q).pc = "store" /\ Resent(q).old = Pending
  BY DEF TypeOK, Request, Resent
<1>2. VerdictKept
  <2>1. CASE FlushVerdict(q)
    BY <1>1, <2>1 DEF FlushVerdict, VerdictKept, WrittenVerdicts, TypeOK
  <2>2. CASE ~FlushVerdict(q)
    BY <2>2 DEF RequestStep, StoreRun, ReadRuns, PostVerdict, GiveUp, judgingVars, VerdictKept
  <2> QED  BY <2>1, <2>2
<1>3. ASSUME (\E more \in BOOLEAN : Answer(q, more)) \/ Retry(q) PROVE WrittenVerdicts'
  BY <1>1, <1>2, <1>3, FrameWritten DEF Answer, Retry
<1>4. CASE StoreRun(q)
  BY <1>1, <1>2, <1>4, FrameWritten DEF StoreRun, Request
<1>5. CASE ReadRuns(q)
  <2> DEFINE v == getFinalResult(runresult[q.job])
             k == \A t \in Test : runresult[q.job][t] # Pending
             r == [q EXCEPT !.pc = "flush", !.verdict = v, !.allKnown = k,
                            !.old = result[q.job], !.complete = judgeCompletely[q.job]]
  <2>1. ASSUME v # Pending, requests' = (requests \ {q}) \union {r} PROVE WrittenVerdicts'
    <3>1. r.verdict = v /\ r.old = result[q.job] /\ r.job = q.job
      BY <1>1 DEF Request
    <3>2. result' = result
      BY <1>5 DEF ReadRuns, judgingVars
    <3> HIDE DEF r, v
    <3> QED  BY <1>1, <2>1, <3>1, <3>2 DEF WrittenVerdicts
  <2>2. CASE ~\E more \in BOOLEAN : Answer(q, more)
    BY <1>1, <1>2, <1>5, <2>1, <2>2 DEF ReadRuns, NeedsMoreRuns, TypeOK
  <2> QED  BY <1>2, <1>3, <2>2
<1>6. CASE FlushVerdict(q)
  <2>1. ASSUME requests' = (requests \ {q}) \union {[q EXCEPT !.pc = "post"]}
        PROVE  WrittenVerdicts'
    BY <1>1, <1>2, <2>1, FrameWritten DEF Request
  <2>2. CASE ~((\E more \in BOOLEAN : Answer(q, more)) \/ Retry(q))
    BY <1>1, <1>2, <1>6, <2>1, <2>2, JudgeQueueAssumption DEF FlushVerdict, NeedsMoreWork, Request
  <2> QED  BY <1>2, <1>3, <2>2
<1>7. CASE PostVerdict(q)
  <2>1. (\E more \in BOOLEAN : Answer(q, more)) \/ Retry(q)
    BY <1>1, <1>7, JudgeQueueAssumption DEF PostVerdict, NeedsMoreWork, Request
  <2> QED  BY <1>2, <1>3, <2>1
<1>8. CASE GiveUp(q)
  BY <1>2, <1>8, FrameWritten DEF GiveUp
<1> QED  BY <1>2, <1>4, <1>5, <1>6, <1>7, <1>8 DEF RequestStep

LEMMA NextWritten ==
    TypeOK /\ WrittenVerdicts /\ [Next]_vars => WrittenVerdicts' /\ VerdictKept
<1> SUFFICES ASSUME TypeOK, WrittenVerdicts, [Next]_vars
             PROVE  WrittenVerdicts' /\ VerdictKept
  OBVIOUS
<1>1. ASSUME UNCHANGED <<result, requests>> PROVE WrittenVerdicts' /\ VerdictKept
  BY <1>1 DEF WrittenVerdicts, VerdictKept
<1>2. CASE UNCHANGED vars
  BY <1>1, <1>2 DEF vars, judgingVars
<1>3. ASSUME NEW j \in Job, Submit(j) \/ JudgeRemaining(j)
      PROVE  WrittenVerdicts' /\ VerdictKept
  BY <1>1, <1>3 DEF Submit, JudgeRemaining, judgingVars
<1>4. ASSUME NEW h \in Host,
             HostError(h) \/ Enable(h) \/ Disable(h) \/ Crash(h) \/ CompileError(h)
      PROVE  WrittenVerdicts' /\ VerdictKept
  <2>1. VerdictKept
    <3>1. CASE CompileError(h)
      BY <3>1, JudgeQueueAssumption DEF CompileError, TypeOK, VerdictKept
    <3>2. CASE ~CompileError(h)
      BY <1>4, <3>2 DEF HostError, Enable, Disable, SetEnabled, Crash, judgingVars, VerdictKept
    <3> QED  BY <3>1, <3>2
  <2>2. \A r \in requests' : \E q \in requests :
            r.job = q.job /\ r.pc = q.pc /\ r.old = q.old /\ r.verdict = q.verdict
    BY <1>4, OtherEffect
  <2> QED  BY <2>1, <2>2, FrameWritten
<1>5. ASSUME NEW h \in Host, DaemonStep(h), ~CompileError(h)
      PROVE  WrittenVerdicts' /\ VerdictKept
  <2>1. ASSUME NEW t \in Test, NEW r \in RunResult, RunTest(h, t, r)
        PROVE  WrittenVerdicts' /\ VerdictKept
    <3>1. VerdictKept
      BY <2>1 DEF RunTest, judgingVars, VerdictKept
    <3>2. NewRequest(h, t, r).pc = "store" /\ NewRequest(h, t, r).old = Pending
      BY DEF NewRequest
    <3>3. requests' = requests \union {NewRequest(h, t, r)}
      BY <2>1 DEF RunTest
    <3> QED  BY <3>1, <3>2, <3>3, FrameWritten
  <2>2. CASE ~\E t \in Test, r \in RunResult : RunTest(h, t, r)
    BY <1>1, <1>5, <2>2 DEF DaemonStep, FetchContinue, FetchStart, FetchShare, FetchNew,
       FetchNothing, Fetching, MarkStarted, SelectTasks, DeleteQueueTask, ClaimTasks,
       CompileSuccess, Register, judgingVars
  <2> QED  BY <2>1, <2>2
<1> QED  BY <1>2, <1>3, <1>4, <1>5, RequestWritten DEF Next

-----------------------------------------------------------------------------
(* Lazy evaluation.  A judging with a verdict has no valid task left,       *)
(* unless a handler is about to invalidate them or the jury wants all runs. *)
NoneLeft(j) ==
    /\ result[j] # Pending /\ ~judgeCompletely[j]
    /\ ~\E q \in requests : q.job = j /\ q.pc = "post"
    => \A t \in Test : ~valid[j][t]

NoneLeftValid == \A j \in Job : NoneLeft(j)

LEMMA FrameNoneLeft ==
    ASSUME NEW j \in Job, NoneLeft(j),
           \A t \in Test : valid'[j][t] => valid[j][t],
           result'[j] # Pending => result[j] # Pending,
           judgeCompletely[j] => judgeCompletely'[j],
           \A q \in requests : q.job = j /\ q.pc = "post" =>
               \E r \in requests' : r.job = j /\ r.pc = "post"
    PROVE  NoneLeft(j)'
  BY DEF NoneLeft

LEMMA CompileErrorNoneLeft ==
    ASSUME TypeOK, NoneLeftValid, NEW h \in Host, CompileError(h), NEW j \in Job
    PROVE  NoneLeft(j)'
<1>1. job[h] \in Job /\ UNCHANGED <<requests, judgeCompletely>>
  BY DEF CompileError, TypeOK, WorkState
<1>2. NoneLeft(j)
  BY DEF NoneLeftValid
<1>3. CASE j = job[h] /\ ~outputCompile[j]
  <2>1. \A t \in Test : ~valid'[j][t]
    BY <1>1, <1>3 DEF CompileError, ValidAfterCompilerError, TypeOK
  <2> QED  BY <2>1 DEF NoneLeft
<1>4. CASE ~(j = job[h] /\ ~outputCompile[j])
  <2>1. result'[j] = result[j]
    BY <1>1, <1>4 DEF CompileError, TypeOK
  <2>2. \A t \in Test : valid'[j][t] => valid[j][t]
    BY <1>1 DEF CompileError, ValidAfterCompilerError, TypeOK
  <2> QED  BY <1>1, <1>2, <2>1, <2>2, FrameNoneLeft
<1> QED  BY <1>3, <1>4

LEMMA RequestNoneLeft ==
    ASSUME ~EvalFull, "exception" \notin Faults,
           TypeOK, WrittenVerdicts, NoneLeftValid,
           NEW q \in requests, RequestStep(q) \/ GiveUp(q), NEW j \in Job
    PROVE  NoneLeft(j)'
<1>1. /\ q \in Request /\ q.job \in Job /\ NoneLeft(j)
      /\ UNCHANGED judgeCompletely /\ (j # q.job => result'[j] = result[j])
  BY RequestEffect DEF TypeOK, NoneLeftValid
<1>2. requests \ {q} \subseteq requests'
  BY DEF RequestStep, StoreRun, ReadRuns, FlushVerdict, PostVerdict, GiveUp, Answer, Retry
<1>3. CASE q.pc # "post" /\ (j # q.job \/ result[j] # Pending \/ ~FlushVerdict(q))
  <2>1. valid' = valid
    BY <1>3 DEF RequestStep, StoreRun, ReadRuns, FlushVerdict, PostVerdict, GiveUp, taskVars
  <2>2. result'[j] # Pending => result[j] # Pending
    <3>1. CASE ~FlushVerdict(q)
      BY <1>3, <3>1 DEF RequestStep, StoreRun, ReadRuns, PostVerdict, GiveUp, judgingVars
    <3> QED  BY <1>1, <1>3, <3>1
  <2>3. \A r \in requests : r.job = j /\ r.pc = "post" =>
            \E p \in requests' : p.job = j /\ p.pc = "post"
    BY <1>2, <1>3
  <2> QED  BY <1>1, <2>1, <2>2, <2>3, FrameNoneLeft
<1>4. CASE j = q.job /\ result[j] = Pending /\ FlushVerdict(q)
  <2>1. q.old = Pending /\ q.verdict # Pending
    BY <1>1, <1>4 DEF FlushVerdict, WrittenVerdicts
  <2>2. requests' = (requests \ {q}) \union {[q EXCEPT !.pc = "post"]}
    BY <1>4, <2>1 DEF FlushVerdict, VerdictChanged
  <2>3. [q EXCEPT !.pc = "post"].job = j /\ [q EXCEPT !.pc = "post"].pc = "post"
    BY <1>1, <1>4 DEF Request
  <2> QED  BY <2>2, <2>3 DEF NoneLeft
<1>5. CASE q.pc = "post"
  <2>1. PostVerdict(q)
    BY <1>5 DEF RequestStep, StoreRun, ReadRuns, FlushVerdict, GiveUp
  <2>2. valid' = [valid EXCEPT ![q.job] = Invalidated(q.job)] /\ result' = result
    BY <2>1 DEF PostVerdict
  <2>3. CASE j = q.job
    <3>1. \A t \in Test : ~valid'[j][t]
      BY <1>1, <2>2, <2>3 DEF Invalidated, TypeOK
    <3> QED  BY <3>1 DEF NoneLeft
  <2>4. CASE j # q.job
    <3>1. valid'[j] = valid[j]
      BY <1>1, <2>2, <2>4 DEF TypeOK
    <3>2. \A r \in requests : r.job = j /\ r.pc = "post" =>
              \E p \in requests' : p.job = j /\ p.pc = "post"
      BY <1>2, <2>4
    <3> QED  BY <1>1, <2>2, <3>1, <3>2, FrameNoneLeft
  <2> QED  BY <2>3, <2>4
<1> QED  BY <1>3, <1>4, <1>5 DEF FlushVerdict

LEMMA NextNoneLeft ==
    ASSUME ~EvalFull, "exception" \notin Faults
    PROVE  TypeOK /\ OnlySubmitted /\ WrittenVerdicts /\ NoneLeftValid /\ [Next]_vars =>
               NoneLeftValid'
<1> SUFFICES ASSUME TypeOK, OnlySubmitted, WrittenVerdicts, NoneLeftValid, [Next]_vars,
                    NEW j \in Job
             PROVE  NoneLeft(j)'
  BY DEF NoneLeftValid
<1>1. NoneLeft(j)
  BY DEF NoneLeftValid
<1>2. ASSUME UNCHANGED <<valid, result, judgeCompletely>>, requests \subseteq requests'
      PROVE  NoneLeft(j)'
  BY <1>1, <1>2, FrameNoneLeft
<1>3. CASE UNCHANGED vars
  BY <1>2, <1>3 DEF vars, taskVars, judgingVars
<1>4. ASSUME NEW i \in Job, Submit(i) PROVE NoneLeft(j)'
  <2>1. /\ UNCHANGED <<result, judgeCompletely, requests>>
        /\ i # j => valid'[j] = valid[j]
        /\ i = j => result[j] = Pending
    BY <1>4 DEF Submit, judgingVars, TypeOK, OnlySubmitted
  <2>2. CASE i = j
    BY <2>1, <2>2 DEF NoneLeft
  <2>3. CASE i # j
    BY <1>1, <2>1, <2>3, FrameNoneLeft
  <2> QED  BY <2>2, <2>3
<1>5. ASSUME NEW i \in Job, JudgeRemaining(i) PROVE NoneLeft(j)'
  <2>1. /\ UNCHANGED <<result, requests>>
        /\ i # j => valid'[j] = valid[j] /\ judgeCompletely'[j] = judgeCompletely[j]
        /\ i = j => judgeCompletely'[j]
    BY <1>5 DEF JudgeRemaining, TypeOK
  <2>2. CASE i = j
    BY <2>1, <2>2 DEF NoneLeft
  <2>3. CASE i # j
    BY <1>1, <2>1, <2>3, FrameNoneLeft
  <2> QED  BY <2>2, <2>3
<1>6. ASSUME NEW h \in Host, HostError(h) \/ Enable(h) \/ Disable(h) \/ Crash(h)
      PROVE  NoneLeft(j)'
  <2>1. UNCHANGED <<valid, result, judgeCompletely>>
    BY <1>6 DEF HostError, Enable, Disable, SetEnabled, Crash, taskVars, judgingVars
  <2>2. \A q \in requests : \E r \in requests' : r.job = q.job /\ r.pc = q.pc
    BY <1>6, OtherEffect
  <2> QED  BY <1>1, <2>1, <2>2, FrameNoneLeft
<1>7. ASSUME NEW h \in Host, DaemonStep(h), ~CompileError(h) PROVE NoneLeft(j)'
  <2>1. UNCHANGED <<valid, result, judgeCompletely>> /\ requests \subseteq requests'
    BY <1>7 DEF DaemonStep, FetchContinue, FetchStart, FetchShare, FetchNew, FetchNothing,
       Fetching, MarkStarted, SelectTasks, DeleteQueueTask, ClaimTasks, CompileSuccess,
       RunTest, Register, taskVars, judgingVars
  <2> QED  BY <1>2, <2>1
<1> QED
  BY <1>3, <1>4, <1>5, <1>6, <1>7, CompileErrorNoneLeft, RequestNoneLeft DEF Next

LEMMA InitQueueInv ==
    Init => OnlySubmitted /\ WrittenVerdicts /\ NoneLeftValid
  BY DEF Init, OnlySubmitted, WrittenVerdicts, NoneLeftValid, NoneLeft

(* Lazy evaluation stops: with no handler failing between its transactions, *)
(* no task of a judging with a verdict can be claimed once the handler that *)
(* found the verdict has finished, unless the jury asked for the remaining  *)
(* runs; crashes, lost answers and errors of judgehosts change nothing.     *)
THEOREM LazyEvaluationStops ==
    ASSUME "exception" \notin Faults
    PROVE  Spec => []LazyStops
<1>1. TypeOK /\ OnlySubmitted /\ [Next]_vars => OnlySubmitted'
  BY NextSubmitted
<1>2. TypeOK /\ WrittenVerdicts /\ [Next]_vars => WrittenVerdicts'
  BY NextWritten
<1>3. CASE ~EvalFull
  <2>1. TypeOK /\ OnlySubmitted /\ WrittenVerdicts /\ NoneLeftValid /\ [Next]_vars =>
            NoneLeftValid'
    BY <1>3, NextNoneLeft
  <2>2. NoneLeftValid => LazyStops
    BY DEF NoneLeftValid, NoneLeft, LazyStops, Unclaimed
  <2> QED  BY <1>1, <1>2, <2>1, <2>2, InitQueueInv, TypeCorrect, PTL DEF Spec
<1>4. CASE EvalFull
  <2>1. LazyStops
    BY <1>4 DEF LazyStops
  <2> QED  BY <2>1, PTL
<1> QED  BY <1>3, <1>4

-----------------------------------------------------------------------------
(* Work that can be found.  A request that is about to delete the queue     *)
(* task of an undecided judging has seen its last free task taken, and none *)
(* becomes free again.                                                      *)
NotCleaned ==
    \A h \in Host : pc[h] = "clean" /\ result[job[h]] = Pending => Unclaimed(job[h]) = {}

(* The tasks of an undecided judging are claimed or become invalid, never   *)
(* the other way round.                                                     *)
LEMMA UnclaimedShrinks ==
    ASSUME "hosterror" \notin Faults, TypeOK, [Next]_vars,
           NEW j \in submitted, result[j] = Pending
    PROVE  Unclaimed(j)' \subseteq Unclaimed(j)
<1>1. j \in Job
  BY DEF TypeOK
<1>2. ASSUME \A t \in Test : /\ valid'[j][t] => valid[j][t]
                             /\ judgehost'[j][t] = NoHost => judgehost[j][t] = NoHost
      PROVE  Unclaimed(j)' \subseteq Unclaimed(j)
  BY <1>2 DEF Unclaimed
<1>3. CASE UNCHANGED vars
  BY <1>2, <1>3 DEF vars, taskVars
<1>4. ASSUME NEW i \in Job, Submit(i) \/ JudgeRemaining(i)
      PROVE  Unclaimed(j)' \subseteq Unclaimed(j)
  <2>1. i # j
    BY <1>4 DEF Submit, JudgeRemaining
  <2>2. valid'[j] = valid[j] /\ judgehost' = judgehost
    BY <1>1, <1>4, <2>1 DEF Submit, JudgeRemaining, TypeOK
  <2> QED  BY <1>2, <2>2
<1>5. ASSUME NEW h \in Host, HostError(h) \/ Enable(h) \/ Disable(h) \/ Crash(h)
      PROVE  Unclaimed(j)' \subseteq Unclaimed(j)
  BY <1>2, <1>5 DEF HostError, Enable, Disable, SetEnabled, Crash, taskVars
<1>6. ASSUME NEW h \in Host, DaemonStep(h) PROVE Unclaimed(j)' \subseteq Unclaimed(j)
  <2>1. CASE ClaimTasks(h)
    <3>1. job[h] \in Job /\ valid' = valid
      BY <2>1 DEF ClaimTasks, TypeOK, WorkState
    <3>2. \A t \in Test : judgehost'[j][t] \in {judgehost[j][t], h}
      BY <1>1, <2>1, <3>1 DEF ClaimTasks, TypeOK
    <3> QED  BY <1>2, <3>1, <3>2, JudgeQueueAssumption
  <2>2. CASE Register(h)
    <3>1. \A t \in Test : t \notin GivenBackAtRegistration(h, j)
      BY DEF GivenBackAtRegistration
    <3>2. \A t \in Test : judgehost'[j][t] = judgehost[j][t]
      BY <1>1, <2>2, <3>1 DEF Register
    <3> QED  BY <1>2, <2>2, <3>2 DEF Register
  <2>3. CASE CompileError(h)
    <3>1. job[h] \in Job /\ judgehost' = judgehost
      BY <2>3 DEF CompileError, TypeOK, WorkState
    <3>2. \A t \in Test : valid'[j][t] => valid[j][t]
      BY <1>1, <2>3, <3>1 DEF CompileError, ValidAfterCompilerError, TypeOK
    <3> QED  BY <1>2, <3>1, <3>2
  <2>4. CASE ~(ClaimTasks(h) \/ Register(h) \/ CompileError(h))
    <3>1. UNCHANGED <<valid, judgehost>>
      BY <1>6, <2>4 DEF DaemonStep, FetchContinue, FetchStart, FetchShare, FetchNew,
         FetchNothing, Fetching, MarkStarted, SelectTasks, DeleteQueueTask,
         CompileSuccess, RunTest, taskVars
    <3> QED  BY <1>2, <3>1
  <2> QED  BY <2>1, <2>2, <2>3, <2>4
<1>7. ASSUME NEW q \in requests, RequestStep(q) \/ GiveUp(q)
      PROVE  Unclaimed(j)' \subseteq Unclaimed(j)
  <2>1. judgehost' = judgehost /\ q.job \in Job
    BY <1>7, RequestEffect
  <2>2. \/ valid' = valid
        \/ valid' = [valid EXCEPT ![q.job] = Invalidated(q.job)]
    BY <1>7 DEF RequestStep, StoreRun, ReadRuns, FlushVerdict, PostVerdict, GiveUp, taskVars
  <2>3. \A t \in Test : valid'[j][t] => valid[j][t]
    <3>1. CASE valid'[j] = valid[j]
      BY <3>1
    <3>2. CASE valid'[j] = Invalidated(j)
      BY <3>2 DEF Invalidated
    <3> QED  BY <1>1, <2>1, <2>2, <3>1, <3>2 DEF TypeOK
  <2> QED  BY <1>2, <2>1, <2>3
<1> QED  BY <1>3, <1>4, <1>5, <1>6, <1>7 DEF Next

(* A request gets to delete a queue task after it found no task.            *)
LEMMA CleanAfterSelect ==
    ASSUME TypeOK, [Next]_vars, NEW h \in Host, pc'[h] = "clean"
    PROVE  /\ job'[h] = job[h] /\ job[h] \in Job
           /\ \/ pc[h] = "clean"
              \/ Unclaimed(job[h]) = {}
<1> DEFINE Selected == pc[h] = "select" /\ Unclaimed(job[h]) = {}
           Before == job'[h] = job[h] /\ (pc[h] = "clean" \/ Selected)
<1>1. Before
  <2>1. ASSUME UNCHANGED vars PROVE Before
    BY <2>1 DEF vars, daemonVars
  <2>2. ASSUME NEW i \in Job, Submit(i) \/ JudgeRemaining(i)
        PROVE  Before
    BY <2>2 DEF Submit, JudgeRemaining, daemonVars
  <2>3. ASSUME NEW g \in Host,
               HostError(g) \/ Enable(g) \/ Disable(g) \/ Crash(g) \/ CompileError(g)
        PROVE  Before
    BY <2>3, OtherEffect
  <2>4. ASSUME NEW g \in Host, SelectTasks(g)
        PROVE  Before
    <3>1. CASE g = h
      <4>1. pc[h] = "select" /\ job' = job
        BY <2>4, <3>1 DEF SelectTasks
      <4>2. CASE Exhausted(job[h])
        BY <4>1, <4>2 DEF Exhausted
      <4>3. CASE ~Exhausted(job[h])
        <5>1. pc' = [pc EXCEPT ![h] = "claim"]
          BY <2>4, <3>1, <4>3 DEF SelectTasks
        <5> QED  BY <5>1 DEF TypeOK
      <4> QED  BY <4>2, <4>3
    <3>2. CASE g # h
      BY <2>4, <3>2 DEF SelectTasks, TypeOK
    <3> QED  BY <3>1, <3>2
  <2>5. ASSUME NEW g \in Host, DaemonStep(g), ~SelectTasks(g), ~CompileError(g)
        PROVE  Before
    <3>1. g # h => pc'[h] = pc[h] /\ job'[h] = job[h]
      <4>1. CASE \E j \in Job : FetchContinue(g, j) \/ FetchStart(g, j) \/ FetchShare(g, j)
        BY <4>1 DEF FetchContinue, FetchStart, FetchShare, Fetching, TypeOK
      <4>2. CASE FetchNew(g) \/ FetchNothing(g)
        BY <4>2 DEF FetchNew, FetchNothing, Fetching, Idle, TypeOK
      <4>3. CASE MarkStarted(g) \/ DeleteQueueTask(g) \/ ClaimTasks(g) \/ Register(g)
        BY <4>3 DEF MarkStarted, DeleteQueueTask, ClaimTasks, Register, Idle, TypeOK
      <4>4. CASE CompileSuccess(g) \/ \E t \in Test, r \in RunResult : RunTest(g, t, r)
        BY <4>4 DEF CompileSuccess, RunTest, Idle, TypeOK
      <4> QED  BY <2>5, <4>1, <4>2, <4>3, <4>4 DEF DaemonStep
    <3>2. g = h => pc'[h] # "clean"
      <4>1. CASE \E j \in Job : FetchContinue(g, j) \/ FetchStart(g, j) \/ FetchShare(g, j)
        BY <4>1 DEF FetchContinue, FetchStart, FetchShare, Fetching, TypeOK
      <4>2. CASE FetchNew(g) \/ FetchNothing(g)
        BY <4>2 DEF FetchNew, FetchNothing, Fetching, Idle, TypeOK
      <4>3. CASE MarkStarted(g) \/ DeleteQueueTask(g) \/ ClaimTasks(g) \/ Register(g)
        BY <4>3 DEF MarkStarted, DeleteQueueTask, ClaimTasks, Register, Idle, TypeOK
      <4>4. CASE CompileSuccess(g) \/ \E t \in Test, r \in RunResult : RunTest(g, t, r)
        BY <4>4 DEF CompileSuccess, RunTest, Idle, TypeOK
      <4> QED  BY <2>5, <4>1, <4>2, <4>3, <4>4 DEF DaemonStep
    <3> QED  BY <3>1, <3>2
  <2>6. ASSUME NEW q \in requests, RequestStep(q) \/ GiveUp(q)
        PROVE  Before
    BY <2>6, RequestEffect
  <2> HIDE DEF Before
  <2> QED  BY <2>1, <2>2, <2>3, <2>4, <2>5, <2>6 DEF Next
<1>2. job[h] \in Job
  BY <1>1 DEF TypeOK, WorkState
<1> QED  BY <1>1, <1>2

(* The queue task of a job goes when it is deleted, and only then.          *)
LEMMA QueueTaskStays ==
    ASSUME TypeOK, [Next]_vars, NEW j \in Job, queuetask[j] # {}, queuetask'[j] = {}
    PROVE  \E h \in Host : pc[h] = "clean" /\ job[h] = j
<1>1. ASSUME UNCHANGED queuetask PROVE FALSE
  BY <1>1
<1>2. ASSUME NEW i \in Job, Submit(i) \/ JudgeRemaining(i) PROVE FALSE
  <2>1. \E row, old : queuetask' = [queuetask EXCEPT ![i] = old \union {row}]
    <3>1. CASE Submit(i)
      <4>1. queuetask' = [queuetask EXCEPT ![i] = {} \union {[priority |-> 0, started |-> FALSE]}]
        BY <3>1 DEF Submit
      <4> QED  BY <4>1
    <3>2. CASE JudgeRemaining(i)
      BY <3>2 DEF JudgeRemaining, TypeOK
    <3> QED  BY <1>2, <3>1, <3>2
  <2>2. i = j
    BY <2>1 DEF TypeOK
  <2> QED  BY <2>1, <2>2 DEF TypeOK
<1>3. ASSUME NEW h \in Host,
             HostError(h) \/ Enable(h) \/ Disable(h) \/ Crash(h) \/ CompileError(h)
      PROVE  FALSE
  BY <1>1, <1>3, OtherEffect
<1>4. ASSUME NEW q \in requests, RequestStep(q) \/ GiveUp(q) PROVE FALSE
  BY <1>1, <1>4, RequestEffect
<1>5. ASSUME NEW h \in Host, MarkStarted(h) PROVE FALSE
  <2>1. job[h] \in Job
    BY <1>5 DEF MarkStarted, TypeOK, WorkState
  <2>2. PICK q \in queuetask[j] : TRUE
    OBVIOUS
  <2>3. CASE queuetask' = [queuetask EXCEPT ![job[h]] =
                               {[p EXCEPT !.started = TRUE] : p \in queuetask[job[h]]}]
    <3>1. job[h] = j
      BY <2>1, <2>3 DEF TypeOK
    <3>2. queuetask'[j] = {[p EXCEPT !.started = TRUE] : p \in queuetask[j]}
      BY <2>3, <3>1 DEF TypeOK
    <3>3. [q EXCEPT !.started = TRUE] \in queuetask'[j]
      BY <2>2, <3>2
    <3> QED  BY <3>3
  <2> QED  BY <1>1, <1>5, <2>3 DEF MarkStarted
<1>6. ASSUME NEW h \in Host, DeleteQueueTask(h) PROVE pc[h] = "clean" /\ job[h] = j
  BY <1>6 DEF DeleteQueueTask, TypeOK, WorkState
<1>7. ASSUME NEW h \in Host, DaemonStep(h), ~CompileError(h), ~MarkStarted(h),
             ~DeleteQueueTask(h)
      PROVE  UNCHANGED queuetask
  BY <1>7 DEF DaemonStep, FetchContinue, FetchStart, FetchShare, FetchNew, FetchNothing,
     Fetching, SelectTasks, ClaimTasks, CompileSuccess, RunTest, Register, taskVars
<1>8. CASE UNCHANGED vars
  BY <1>1, <1>8 DEF vars, taskVars
<1> QED  BY <1>1, <1>2, <1>3, <1>4, <1>5, <1>6, <1>7, <1>8 DEF Next

LEMMA NextQueued ==
    ASSUME "hosterror" \notin Faults
    PROVE  TypeOK /\ OnlySubmitted /\ WrittenVerdicts /\ UndecidedIsQueued /\ NotCleaned
               /\ [Next]_vars => UndecidedIsQueued' /\ NotCleaned'
<1> SUFFICES ASSUME TypeOK, OnlySubmitted, WrittenVerdicts, UndecidedIsQueued, NotCleaned,
                    [Next]_vars
             PROVE  UndecidedIsQueued' /\ NotCleaned'
  OBVIOUS
<1>1. VerdictKept
  BY NextWritten
<1>2. NotCleaned'
  <2> SUFFICES ASSUME NEW h \in Host, pc'[h] = "clean", result'[job'[h]] = Pending
               PROVE  {t \in Test : judgehost'[job'[h]][t] = NoHost /\ valid'[job'[h]][t]} = {}
    BY DEF NotCleaned, Unclaimed
  <2>1. /\ job'[h] = job[h] /\ job[h] \in Job /\ result[job[h]] = Pending
        /\ Unclaimed(job[h]) = {}
    BY <1>1, CleanAfterSelect DEF VerdictKept, NotCleaned
  <2>2. job[h] \in submitted
    BY <2>1, JudgeQueueAssumption DEF OnlySubmitted
  <2>3. PICK j \in submitted : j = job[h]
    BY <2>2
  <2>4. Unclaimed(j)' \subseteq Unclaimed(j)
    BY <2>1, <2>3, UnclaimedShrinks
  <2> QED  BY <2>1, <2>3, <2>4 DEF Unclaimed
<1>3. UndecidedIsQueued'
  <2> SUFFICES ASSUME NEW j \in submitted', result'[j] = Pending, Unclaimed(j)' # {},
                      queuetask'[j] = {}
               PROVE  FALSE
    BY DEF UndecidedIsQueued
  <2>1. j \in Job /\ (j \notin submitted => Submit(j))
    <3>1. ASSUME UNCHANGED submitted PROVE j \in submitted
      BY <3>1
    <3>2. ASSUME NEW i \in Job, Submit(i) PROVE j \in submitted \/ j = i
      BY <3>2 DEF Submit
    <3>3. ASSUME NEW i \in Job, JudgeRemaining(i) PROVE j \in submitted
      BY <3>3 DEF JudgeRemaining
    <3>4. ASSUME NEW h \in Host,
                 HostError(h) \/ Enable(h) \/ Disable(h) \/ Crash(h) \/ CompileError(h)
          PROVE  j \in submitted
      BY <3>1, <3>4, OtherEffect
    <3>5. ASSUME NEW h \in Host, DaemonStep(h), ~CompileError(h) PROVE j \in submitted
      BY <3>1, <3>5, DaemonSubmitted
    <3>6. ASSUME NEW q \in requests, RequestStep(q) \/ GiveUp(q) PROVE j \in submitted
      BY <3>1, <3>6, RequestEffect
    <3>7. CASE UNCHANGED vars
      BY <3>7 DEF vars, taskVars, TypeOK
    <3> QED  BY <3>2, <3>3, <3>4, <3>5, <3>6, <3>7 DEF Next, TypeOK
  <2>2. CASE j \in submitted
    <3>1. result[j] = Pending
      BY <1>1, <2>1 DEF VerdictKept
    <3>2. Unclaimed(j) # {}
      BY <2>2, <3>1, UnclaimedShrinks
    <3>3. queuetask[j] # {}
      BY <2>2, <3>1, <3>2 DEF UndecidedIsQueued
    <3> QED  BY <2>1, <3>1, <3>2, <3>3, QueueTaskStays DEF NotCleaned
  <2>3. CASE j \notin submitted
    <3>1. queuetask'[j] = {[priority |-> 0, started |-> FALSE]}
      BY <2>1, <2>3 DEF Submit, TypeOK
    <3> QED  BY <3>1
  <2> QED  BY <2>2, <2>3
<1> QED  BY <1>2, <1>3

(* "If there is no more queue task, there is also no more work to be done": *)
(* unless a judgehost reports an internal error of its own, an unclaimed    *)
(* task of an undecided judging can be found through a queue task, however  *)
(* many fetch-work requests select, claim and delete at the same time, and  *)
(* with crashes, lost answers and failing handlers.                         *)
THEOREM UndecidedStaysQueued ==
    ASSUME "hosterror" \notin Faults
    PROVE  Spec => []UndecidedIsQueued
<1>1. TypeOK /\ OnlySubmitted /\ [Next]_vars => OnlySubmitted'
  BY NextSubmitted
<1>2. TypeOK /\ WrittenVerdicts /\ [Next]_vars => WrittenVerdicts'
  BY NextWritten
<1>3. TypeOK /\ OnlySubmitted /\ WrittenVerdicts /\ UndecidedIsQueued /\ NotCleaned
          /\ [Next]_vars => UndecidedIsQueued' /\ NotCleaned'
  BY NextQueued
<1>4. Init => UndecidedIsQueued /\ NotCleaned
  BY DEF Init, UndecidedIsQueued, NotCleaned
<1> QED  BY <1>1, <1>2, <1>3, <1>4, InitQueueInv, TypeCorrect, PTL DEF Spec

-----------------------------------------------------------------------------
(* Verdicts: which verdict a judging gets, and that it keeps it.            *)

(* The runs of a submission have definite results: a solution that is       *)
(* sometimes just within the time limit has none.                           *)
Deterministic == \A j \in Job : \A t \in Test : \E r \in RunResult : Outcome[j][t] = {r}

(* All judgehosts agree on whether a submission compiles.                   *)
UniformCompilers == \A j \in Job : ~(TRUE \in Compiles[j] /\ FALSE \in Compiles[j])

LEMMA OutcomeType ==
    ASSUME Deterministic, NEW j \in Job, NEW t \in Test
    PROVE  TheOutcome(j, t) \in RunResult /\ Outcome[j][t] = {TheOutcome(j, t)}
  BY DEF Deterministic, TheOutcome

(* What the runs known so far decide is the verdict of all runs.            *)
LEMMA PartialVerdict ==
    ASSUME Deterministic, NEW j \in Job, NEW rs \in [Test -> RunOrPending],
           \A t \in Test : rs[t] \in {Pending, TheOutcome(j, t)},
           getFinalResult(rs) # Pending
    PROVE  getFinalResult(rs) = SequentialVerdict(j)
<1> DEFINE all == [t \in Test |-> TheOutcome(j, t)]
<1>1. all \in [1..NumTests -> RunOrPending] /\ rs \in [1..NumTests -> RunOrPending]
  BY OutcomeType DEF Test, RunOrPending
<1>2. Extends(all, rs)
  BY DEF Extends
<1>3. NumTests \in Nat
  BY JudgeQueueAssumption
<1>4. getFinalResult(all) = getFinalResult(rs)
  <2> HIDE DEF all
  <2> QED  BY <1>1, <1>2, <1>3, VerdictStable
<1> QED  BY <1>4 DEF SequentialVerdict

-----------------------------------------------------------------------------
(* The inductive invariant.  A stored run has the result of its test case;  *)
(* so has the run a request carries, and a verdict a handler has computed   *)
(* is the sequential one; only a judging that compiles on some judgehost    *)
(* has runs.                                                                *)
RunsDefinite ==
    \A j \in Job : \A t \in Test : runresult[j][t] \in {Pending, TheOutcome(j, t)}

CompiledCompile == \A h \in Host : \A j \in compiled[h] : TRUE \in Compiles[j]

RequestDefinite(q) ==
    /\ q.res = TheOutcome(q.job, q.test) /\ TRUE \in Compiles[q.job]
    /\ q.verdict \in {Pending, SequentialVerdict(q.job)}
    /\ q.pc = "flush" => q.verdict # Pending
    /\ \/ q.old \in {Pending, SequentialVerdict(q.job)}
       \/ q.old = CompilerError /\ FALSE \in Compiles[q.job]

RequestsDefinite == \A q \in requests : RequestDefinite(q)

VerdictDefinite ==
    \A j \in Job : \/ result[j] = Pending
                   \/ result[j] = SequentialVerdict(j) /\ TRUE \in Compiles[j]
                   \/ result[j] = CompilerError /\ FALSE \in Compiles[j]

VerdictInv == RunsDefinite /\ CompiledCompile /\ RequestsDefinite /\ VerdictDefinite

LEMMA InitVerdictInv == Init => VerdictInv
  BY DEF Init, VerdictInv, RunsDefinite, CompiledCompile, RequestsDefinite, VerdictDefinite

LEMMA FrameVerdictInv ==
    ASSUME VerdictInv, UNCHANGED <<runresult, compiled, requests, result>>
    PROVE  VerdictInv'
  BY DEF VerdictInv, RunsDefinite, CompiledCompile, RequestsDefinite, VerdictDefinite

(* An answer leaves no request but those there were, or the same one sent   *)
(* again.                                                                   *)
LEMMA AnswerDefinite ==
    ASSUME TypeOK, RequestsDefinite, NEW q \in requests, NEW more, Answer(q, more) \/ Retry(q)
    PROVE  RequestsDefinite'
<1>1. RequestDefinite(Resent(q))
  BY DEF TypeOK, Request, RequestsDefinite, RequestDefinite, Resent
<1>2. requests' \subseteq requests \union {Resent(q)}
  BY DEF Answer, Retry
<1> QED  BY <1>1, <1>2 DEF RequestsDefinite

LEMMA RunTestDefinite ==
    ASSUME Deterministic, TypeOK, VerdictInv,
           NEW h \in Host, NEW t \in Test, NEW r \in RunResult, RunTest(h, t, r)
    PROVE  VerdictInv'
<1>1. job[h] \in Job /\ TRUE \in Compiles[job[h]] /\ r = TheOutcome(job[h], t)
  <2>1. job[h] \in Job /\ job[h] \in compiled[h] /\ r \in Outcome[job[h]][t]
    BY DEF RunTest, TypeOK, WorkState
  <2>2. Outcome[job[h]][t] = {TheOutcome(job[h], t)}
    BY <2>1, OutcomeType
  <2> QED  BY <2>1, <2>2 DEF VerdictInv, CompiledCompile
<1>2. RequestDefinite(NewRequest(h, t, r))
  BY <1>1 DEF RequestDefinite, NewRequest
<1>3. /\ requests' = requests \union {NewRequest(h, t, r)}
      /\ UNCHANGED <<runresult, result, compiled>>
  BY DEF RunTest, judgingVars
<1> QED
  BY <1>2, <1>3
  DEF VerdictInv, RunsDefinite, CompiledCompile, RequestsDefinite, VerdictDefinite

LEMMA CompileDefinite ==
    ASSUME TypeOK, VerdictInv, NEW h \in Host, CompileSuccess(h) \/ CompileError(h)
    PROVE  VerdictInv'
<1>1. job[h] \in Job
  BY DEF TypeOK, WorkState, CompileSuccess, CompileError
<1>2. CASE CompileSuccess(h)
  <2>1. CompiledCompile'
    BY <1>2 DEF CompileSuccess, TypeOK, VerdictInv, CompiledCompile
  <2> QED
    BY <1>2, <2>1
    DEF CompileSuccess, VerdictInv, RunsDefinite, RequestsDefinite, VerdictDefinite
<1>3. CASE CompileError(h)
  <2>1. VerdictDefinite'
    BY <1>1, <1>3 DEF CompileError, TypeOK, VerdictInv, VerdictDefinite
  <2> QED
    BY <1>3, <2>1
    DEF CompileError, VerdictInv, RunsDefinite, CompiledCompile, RequestsDefinite
<1> QED  BY <1>2, <1>3

LEMMA CrashDefinite ==
    ASSUME TypeOK, VerdictInv, NEW h \in Host, Crash(h)
    PROVE  VerdictInv'
<1>1. CompiledCompile'
  BY DEF Crash, TypeOK, VerdictInv, CompiledCompile
<1>2. \A q \in requests : RequestDefinite(Orphaned(q, h))
  BY DEF TypeOK, Request, Orphaned, VerdictInv, RequestsDefinite, RequestDefinite
<1>3. RequestsDefinite'
  BY <1>2 DEF Crash, RequestsDefinite
<1> QED
  BY <1>1, <1>3 DEF Crash, judgingVars, VerdictInv, RunsDefinite, VerdictDefinite

(* The handler of a run: the store, the verdict read from partial runs, and *)
(* its write.                                                               *)
LEMMA RequestStepDefinite ==
    ASSUME Deterministic, TypeOK, VerdictInv, NEW q \in requests,
           RequestStep(q) \/ GiveUp(q)
    PROVE  VerdictInv'
<1>1. /\ q \in Request /\ q.job \in Job /\ q.test \in Test
      /\ RequestsDefinite /\ RequestDefinite(q)
  BY DEF TypeOK, Request, VerdictInv, RequestsDefinite
<1>2. CASE StoreRun(q)
  <2>1. RunsDefinite'
    BY <1>1, <1>2 DEF StoreRun, TypeOK, VerdictInv, RunsDefinite, RequestDefinite
  <2>2. RequestDefinite([q EXCEPT !.pc = "read"])
    BY <1>1 DEF Request, RequestDefinite
  <2>3. RequestsDefinite'
    BY <1>2, <2>2, <1>1 DEF StoreRun, RequestsDefinite
  <2> QED
    BY <1>2, <2>1, <2>3 DEF StoreRun, daemonVars, VerdictInv, CompiledCompile, VerdictDefinite
<1>3. CASE ReadRuns(q)
  <2> DEFINE verdict == getFinalResult(runresult[q.job])
             known == \A t \in Test : runresult[q.job][t] # Pending
             r == [q EXCEPT !.pc = "flush", !.verdict = verdict, !.allKnown = known,
                            !.old = result[q.job], !.complete = judgeCompletely[q.job]]
  <2>1. ASSUME verdict # Pending, requests' = (requests \ {q}) \union {r}
        PROVE  RequestsDefinite'
    <3>1. verdict = SequentialVerdict(q.job)
      BY <1>1, <2>1, PartialVerdict DEF TypeOK, VerdictInv, RunsDefinite
    <3>2. /\ r.res = q.res /\ r.job = q.job /\ r.test = q.test
          /\ r.verdict = verdict /\ r.old = result[q.job]
      BY <1>1 DEF Request
    <3>3. RequestDefinite(r)
      <4>1. \/ result[q.job] \in {Pending, SequentialVerdict(q.job)}
            \/ result[q.job] = CompilerError /\ FALSE \in Compiles[q.job]
        BY <1>1 DEF VerdictInv, VerdictDefinite
      <4> HIDE DEF r, verdict
      <4> QED  BY <1>1, <2>1, <3>1, <3>2, <4>1 DEF RequestDefinite
    <3> HIDE DEF r
    <3> QED  BY <1>1, <2>1, <3>3 DEF RequestsDefinite
  <2>2. RequestsDefinite'
    BY <1>1, <1>3, <2>1, AnswerDefinite DEF ReadRuns
  <2> QED
    BY <1>3, <2>2
    DEF ReadRuns, judgingVars, VerdictInv, RunsDefinite, CompiledCompile, VerdictDefinite
<1>4. CASE FlushVerdict(q)
  <2>1. VerdictDefinite'
    BY <1>1, <1>4 DEF FlushVerdict, TypeOK, VerdictInv, VerdictDefinite, RequestDefinite
  <2>2. RequestDefinite([q EXCEPT !.pc = "post"])
    BY <1>1 DEF Request, RequestDefinite
  <2>3. ASSUME requests' = (requests \ {q}) \union {[q EXCEPT !.pc = "post"]}
        PROVE  RequestsDefinite'
    BY <1>1, <2>2, <2>3 DEF RequestsDefinite
  <2>4. RequestsDefinite'
    BY <1>1, <1>4, <2>3, AnswerDefinite DEF FlushVerdict
  <2> QED
    BY <1>4, <2>1, <2>4 DEF FlushVerdict, VerdictInv, RunsDefinite, CompiledCompile
<1>5. CASE PostVerdict(q)
  <2>1. RequestsDefinite'
    BY <1>1, <1>5, AnswerDefinite DEF PostVerdict
  <2> QED
    BY <1>5, <2>1
    DEF PostVerdict, VerdictInv, RunsDefinite, CompiledCompile, VerdictDefinite
<1>6. CASE GiveUp(q)
  <2>1. RequestsDefinite'
    BY <1>1, <1>6 DEF GiveUp, RequestsDefinite
  <2> QED
    BY <1>6, <2>1
    DEF GiveUp, judgingVars, VerdictInv, RunsDefinite, CompiledCompile, VerdictDefinite
<1> QED  BY <1>2, <1>3, <1>4, <1>5, <1>6 DEF RequestStep

LEMMA NextVerdictInv ==
    ASSUME Deterministic
    PROVE  TypeOK /\ VerdictInv /\ [Next]_vars => VerdictInv'
<1> SUFFICES ASSUME TypeOK, VerdictInv, [Next]_vars PROVE VerdictInv'
  OBVIOUS
<1>1. CASE UNCHANGED vars
  BY <1>1, FrameVerdictInv DEF vars, judgingVars, daemonVars
<1>2. ASSUME NEW j \in Job, Submit(j) \/ JudgeRemaining(j) PROVE VerdictInv'
  BY <1>2, FrameVerdictInv DEF Submit, JudgeRemaining, judgingVars, daemonVars
<1>3. ASSUME NEW h \in Host, HostError(h) \/ Enable(h) \/ Disable(h) PROVE VerdictInv'
  BY <1>3, FrameVerdictInv DEF HostError, Enable, Disable, SetEnabled, judgingVars, daemonVars
<1>4. ASSUME NEW h \in Host, DaemonStep(h) PROVE VerdictInv'
  <2>1. ASSUME NEW j \in Job, FetchContinue(h, j) \/ FetchStart(h, j) \/ FetchShare(h, j)
        PROVE  VerdictInv'
    BY <2>1, FrameVerdictInv
    DEF FetchContinue, FetchStart, FetchShare, Fetching, judgingVars
  <2>2. CASE FetchNew(h) \/ FetchNothing(h)
    BY <2>2, FrameVerdictInv DEF FetchNew, FetchNothing, Fetching, judgingVars
  <2>3. CASE MarkStarted(h) \/ SelectTasks(h) \/ DeleteQueueTask(h)
    BY <2>3, FrameVerdictInv DEF MarkStarted, SelectTasks, DeleteQueueTask, judgingVars
  <2>4. CASE ClaimTasks(h) \/ Register(h)
    BY <2>4, FrameVerdictInv DEF ClaimTasks, Register, judgingVars
  <2> QED
    BY <1>4, <2>1, <2>2, <2>3, <2>4, CompileDefinite, RunTestDefinite DEF DaemonStep
<1> QED  BY <1>1, <1>2, <1>3, <1>4, CrashDefinite, RequestStepDefinite DEF Next

-----------------------------------------------------------------------------
(* Judging in parallel, lazily, with any batch size, in any order and with  *)
(* any failures gives each judging the verdict of a sequential judging of   *)
(* all its test cases, or a compiler error some judgehost reported.         *)
THEOREM VerdictsAreSequential ==
    ASSUME Deterministic
    PROVE  Spec => []VerdictIsSequential
<1>1. TypeOK /\ VerdictInv /\ [Next]_vars => VerdictInv'
  BY NextVerdictInv
<1>2. VerdictInv => VerdictIsSequential
  BY DEF VerdictInv, VerdictDefinite, VerdictIsSequential
<1> QED  BY <1>1, <1>2, InitVerdictInv, TypeCorrect, PTL DEF Spec

(* When the judgehosts agree on what compiles, no handler of a run finds a  *)
(* verdict that contradicts a stored one: the "internal bug" exception of   *)
(* addSingleJudgingRun is not thrown.                                       *)
THEOREM InternalBugImpossible ==
    ASSUME Deterministic, UniformCompilers
    PROVE  Spec => []NoInternalBug
<1>1. TypeOK /\ VerdictInv /\ [Next]_vars => VerdictInv'
  BY NextVerdictInv
<1>2. TypeOK /\ VerdictInv => NoInternalBug
  <2> SUFFICES ASSUME TypeOK, VerdictInv, NEW q \in requests, q.pc = "flush"
               PROVE  q.old \in {Pending, q.verdict}
    BY DEF NoInternalBug, VerdictChanged
  <2>1. q.job \in Job /\ RequestDefinite(q)
    BY DEF TypeOK, Request, VerdictInv, RequestsDefinite
  <2> QED  BY <2>1 DEF RequestDefinite, UniformCompilers
<1> QED  BY <1>1, <1>2, InitVerdictInv, TypeCorrect, PTL DEF Spec

(* Under the same assumptions a stored verdict never changes.               *)
THEOREM VerdictsStay ==
    ASSUME Deterministic, UniformCompilers
    PROVE  Spec => VerdictStays
<1>1. TypeOK /\ VerdictInv /\ [Next]_vars => VerdictInv'
  BY NextVerdictInv
<1>2. TypeOK /\ VerdictInv /\ [Next]_vars =>
          [\A j \in Job : result[j] # Pending => result'[j] = result[j]]_vars
  <2> SUFFICES ASSUME TypeOK, VerdictInv, Next, NEW j \in Job, result[j] # Pending
               PROVE  result'[j] = result[j]
    OBVIOUS
  <2>1. ASSUME NEW h \in Host, CompileError(h) PROVE result'[j] = result[j]
    <3>1. job[h] \in Job /\ FALSE \in Compiles[job[h]]
      BY <2>1 DEF CompileError, TypeOK, WorkState
    <3>2. job[h] = j => result[j] = CompilerError
      BY <3>1 DEF UniformCompilers, VerdictInv, VerdictDefinite
    <3> QED  BY <2>1, <3>1, <3>2 DEF CompileError, TypeOK
  <2>2. ASSUME NEW q \in requests, FlushVerdict(q) PROVE result'[j] = result[j]
    <3>1. /\ q.job \in Job /\ TRUE \in Compiles[q.job]
          /\ q.verdict = SequentialVerdict(q.job)
      BY <2>2 DEF FlushVerdict, TypeOK, Request, VerdictInv, RequestsDefinite, RequestDefinite
    <3>2. q.job = j => result[j] = q.verdict
      BY <3>1 DEF UniformCompilers, VerdictInv, VerdictDefinite
    <3> QED  BY <2>2, <3>1, <3>2 DEF FlushVerdict, TypeOK
  <2>3. ASSUME UNCHANGED result PROVE result'[j] = result[j]
    BY <2>3
  <2>4. ASSUME NEW i \in Job, Submit(i) \/ JudgeRemaining(i) PROVE UNCHANGED result
    BY <2>4 DEF Submit, JudgeRemaining, judgingVars
  <2>5. ASSUME NEW h \in Host, HostError(h) \/ Enable(h) \/ Disable(h) \/ Crash(h)
        PROVE  UNCHANGED result
    BY <2>5 DEF HostError, Enable, Disable, SetEnabled, Crash, judgingVars
  <2>6. ASSUME NEW q \in requests, StoreRun(q) \/ ReadRuns(q) \/ PostVerdict(q) \/ GiveUp(q)
        PROVE  UNCHANGED result
    BY <2>6 DEF StoreRun, ReadRuns, PostVerdict, GiveUp, judgingVars
  <2>7. ASSUME NEW h \in Host, DaemonStep(h), ~CompileError(h) PROVE UNCHANGED result
    BY <2>7 DEF DaemonStep, FetchContinue, FetchStart, FetchShare, FetchNew, FetchNothing,
       Fetching, MarkStarted, SelectTasks, DeleteQueueTask, ClaimTasks, CompileSuccess,
       RunTest, Register, judgingVars
  <2> QED  BY <2>1, <2>2, <2>3, <2>4, <2>5, <2>6, <2>7 DEF Next, RequestStep
<1>3. Spec => []VerdictInv
  BY <1>1, InitVerdictInv, TypeCorrect, PTL DEF Spec
<1> QED  BY <1>2, <1>3, TypeCorrect, PTL DEF Spec, VerdictStays

-----------------------------------------------------------------------------
(* The refinement.  Beyond the verdicts it rests on two facts: whatever is  *)
(* judged was submitted, and the score row was made from the verdict.       *)
ShownIsVerdict == \A j \in Job : scorerow[j] \in {Pending, result[j]}

AbstractInv == TypeOK /\ VerdictInv /\ OnlySubmitted /\ ShownIsVerdict

(* A compiler error decides the judging and shows it in one step; a second  *)
(* report at most shows it.                                                 *)
LEMMA CompileErrorAbstract ==
    ASSUME UniformCompilers, AbstractInv, NEW h \in Host, CompileError(h)
    PROVE  /\ ShownIsVerdict'
           /\ [Abstract!Next]_(Abstract!vars)
<1> DEFINE j == job[h]
<1>1. /\ j \in Job /\ j \in submitted /\ FALSE \in Compiles[j]
      /\ result[j] \in {Pending, CompilerError} /\ scorerow[j] \in {Pending, result[j]}
  <2>1. j \in Job /\ FALSE \in Compiles[j]
    BY DEF CompileError, AbstractInv, TypeOK, WorkState
  <2>2. j \in submitted
    BY <2>1, JudgeQueueAssumption DEF AbstractInv, OnlySubmitted
  <2> QED
    BY <2>1, <2>2
    DEF AbstractInv, VerdictInv, VerdictDefinite, UniformCompilers, ShownIsVerdict
<1>2. PICK v \in {result[j], CompilerError} :
          /\ result' = [result EXCEPT ![j] = v]
          /\ scorerow' = [scorerow EXCEPT ![j] = v]
          /\ UNCHANGED submitted
  <2>1. PICK v : v = IF ~outputCompile[j] THEN CompilerError ELSE result[j]
    OBVIOUS
  <2>2. result' = [result EXCEPT ![j] = v] /\ result'[j] = v
    BY <2>1, <1>1 DEF CompileError, AbstractInv, TypeOK
  <2>3. scorerow' = [scorerow EXCEPT ![j] = v] /\ UNCHANGED submitted
    BY <2>2 DEF CompileError
  <2> QED  BY <2>1, <2>2, <2>3
<1>3. \A i \in Job : /\ result'[i] = IF i = j THEN v ELSE result[i]
                     /\ scorerow'[i] = IF i = j THEN v ELSE scorerow[i]
  BY <1>1, <1>2 DEF AbstractInv, TypeOK
<1> HIDE DEF j
<1>4. ShownIsVerdict'
  BY <1>1, <1>2, <1>3 DEF AbstractInv, ShownIsVerdict
<1>5. CASE v = result[j] /\ scorerow[j] = result[j]
  <2>1. result' = result /\ scorerow' = scorerow
    BY <1>2, <1>5, <1>1 DEF AbstractInv, TypeOK
  <2> QED  BY <1>2, <1>4, <2>1 DEF Abstract!vars
<1>6. CASE v = result[j] /\ scorerow[j] # result[j]
  <2>1. result' = result /\ result[j] # Pending /\ scorerow[j] = Pending
    BY <1>1, <1>2, <1>6 DEF AbstractInv, TypeOK
  <2>2. Abstract!Show(j)
    BY <1>2, <1>6, <2>1 DEF Abstract!Show
  <2> QED  BY <1>1, <1>4, <2>2 DEF Abstract!Next
<1>7. CASE v # result[j]
  <2>1. v = CompilerError /\ result[j] = Pending
    BY <1>1, <1>2, <1>7
  <2>2. CompilerError \in AllowedVerdicts[j]
    BY <1>1 DEF AllowedVerdicts
  <2>3. Abstract!Decide(j)
    BY <1>1, <1>2, <2>1, <2>2 DEF Abstract!Decide
  <2> QED  BY <1>1, <1>4, <2>3 DEF Abstract!Next
<1> QED  BY <1>2, <1>5, <1>6, <1>7

(* The handler of a run: FlushVerdict decides, PostVerdict shows.           *)
LEMMA RequestAbstract ==
    ASSUME UniformCompilers, AbstractInv, NEW q \in requests,
           RequestStep(q) \/ GiveUp(q)
    PROVE  /\ ShownIsVerdict'
           /\ [Abstract!Next]_(Abstract!vars)
<1>1. /\ q \in Request /\ q.job \in Job /\ q.job \in submitted
      /\ TypeOK /\ RequestDefinite(q) /\ UNCHANGED submitted
  BY RequestEffect DEF AbstractInv, TypeOK, Request, OnlySubmitted, VerdictInv, RequestsDefinite
<1>2. CASE UNCHANGED <<result, scorerow>>
  BY <1>1, <1>2 DEF AbstractInv, ShownIsVerdict, Abstract!vars
<1>3. CASE StoreRun(q) \/ ReadRuns(q) \/ GiveUp(q)
  BY <1>2, <1>3 DEF StoreRun, ReadRuns, GiveUp, judgingVars
<1>4. CASE FlushVerdict(q)
  <2>1. q.verdict = SequentialVerdict(q.job) /\ q.verdict # Pending /\ TRUE \in Compiles[q.job]
    BY <1>1, <1>4 DEF FlushVerdict, RequestDefinite
  <2>2. result[q.job] \in {Pending, q.verdict}
    BY <1>1, <2>1 DEF AbstractInv, VerdictInv, VerdictDefinite, UniformCompilers
  <2>3. UNCHANGED scorerow
    BY <1>4 DEF FlushVerdict
  <2>4. result' \in {result, [result EXCEPT ![q.job] = q.verdict]}
    BY <1>1, <1>4 DEF FlushVerdict, TypeOK
  <2>5. CASE result' # result
    <3>1. result' = [result EXCEPT ![q.job] = q.verdict] /\ result[q.job] = Pending
      BY <1>1, <2>2, <2>4, <2>5 DEF TypeOK
    <3>2. q.verdict \in AllowedVerdicts[q.job]
      BY <1>1, <2>1 DEF AllowedVerdicts
    <3>3. Abstract!Decide(q.job)
      BY <1>1, <2>3, <3>1, <3>2 DEF Abstract!Decide
    <3>4. \A i \in Job : result'[i] = IF i = q.job THEN q.verdict ELSE result[i]
      BY <1>1, <3>1 DEF TypeOK
    <3>5. ShownIsVerdict'
      BY <1>1, <2>3, <3>1, <3>4 DEF AbstractInv, ShownIsVerdict
    <3> QED  BY <1>1, <3>3, <3>5 DEF Abstract!Next
  <2> QED  BY <1>2, <2>3, <2>5
<1>5. CASE PostVerdict(q)
  <2>1. UNCHANGED result
    BY <1>5 DEF PostVerdict
  <2>2. CASE scorerow' # scorerow
    <3>1. scorerow' = [scorerow EXCEPT ![q.job] = result[q.job]]
      BY <1>5, <2>2 DEF PostVerdict, Scored
    <3>2. result[q.job] # Pending /\ scorerow[q.job] = Pending
      BY <1>1, <2>2, <3>1 DEF AbstractInv, ShownIsVerdict, TypeOK
    <3>3. Abstract!Show(q.job)
      BY <1>1, <2>1, <3>1, <3>2 DEF Abstract!Show
    <3>4. ShownIsVerdict'
      BY <1>1, <2>1, <3>1 DEF AbstractInv, ShownIsVerdict, TypeOK
    <3> QED  BY <1>1, <3>3, <3>4 DEF Abstract!Next
  <2> QED  BY <1>2, <2>1, <2>2
<1> QED  BY <1>3, <1>4, <1>5 DEF RequestStep

LEMMA NextAbstract ==
    ASSUME UniformCompilers
    PROVE  AbstractInv /\ [Next]_vars => /\ ShownIsVerdict'
                                        /\ [Abstract!Next]_(Abstract!vars)
<1> SUFFICES ASSUME AbstractInv, [Next]_vars
             PROVE  ShownIsVerdict' /\ [Abstract!Next]_(Abstract!vars)
  OBVIOUS
<1> USE DEF AbstractInv
<1>1. ASSUME UNCHANGED <<submitted, result, scorerow>>
      PROVE  ShownIsVerdict' /\ [Abstract!Next]_(Abstract!vars)
  BY <1>1 DEF ShownIsVerdict, Abstract!vars
<1>2. CASE UNCHANGED vars
  BY <1>1, <1>2 DEF vars, taskVars, judgingVars
<1>3. ASSUME NEW j \in Job, Submit(j)
      PROVE  ShownIsVerdict' /\ [Abstract!Next]_(Abstract!vars)
  <2>1. /\ submitted' = submitted \union {j}
        /\ UNCHANGED <<result, scorerow>>
    BY <1>3 DEF Submit, judgingVars
  <2>2. Abstract!Accept(j)
    BY <1>3, <2>1 DEF Submit, Abstract!Accept
  <2> QED  BY <2>1, <2>2 DEF ShownIsVerdict, Abstract!Next
<1>4. ASSUME NEW j \in Job, JudgeRemaining(j)
      PROVE  ShownIsVerdict' /\ [Abstract!Next]_(Abstract!vars)
  BY <1>1, <1>4 DEF JudgeRemaining
<1>5. ASSUME NEW h \in Host, HostError(h) \/ Enable(h) \/ Disable(h) \/ Crash(h)
      PROVE  ShownIsVerdict' /\ [Abstract!Next]_(Abstract!vars)
  BY <1>1, <1>5 DEF HostError, Enable, Disable, SetEnabled, Crash, taskVars, judgingVars
<1>6. ASSUME NEW h \in Host, DaemonStep(h)
      PROVE  ShownIsVerdict' /\ [Abstract!Next]_(Abstract!vars)
  BY <1>1, <1>6, DaemonSubmitted, CompileErrorAbstract
<1> QED  BY <1>2, <1>3, <1>4, <1>5, <1>6, RequestAbstract DEF Next

(* Under the same assumptions the judging system implements what teams are  *)
(* promised: one allowed verdict for each accepted submission, given once   *)
(* and the only thing the score row is ever made from.                      *)
THEOREM JudgingIsImplemented ==
    ASSUME Deterministic, UniformCompilers
    PROVE  Spec => ImplementsJudging
<1>1. Init => Abstract!Init
  BY DEF Init, Abstract!Init
<1>2. TypeOK /\ VerdictInv /\ [Next]_vars => VerdictInv'
  BY NextVerdictInv
<1>3. Init => OnlySubmitted /\ ShownIsVerdict
  BY InitQueueInv DEF Init, ShownIsVerdict
<1>4. TypeOK /\ OnlySubmitted /\ [Next]_vars => OnlySubmitted'
  BY NextSubmitted
<1>5. TypeOK /\ VerdictInv /\ OnlySubmitted /\ ShownIsVerdict /\ [Next]_vars =>
          /\ ShownIsVerdict'
          /\ [Abstract!Next]_(Abstract!vars)
  BY NextAbstract DEF AbstractInv
<1> QED
  BY <1>1, <1>2, <1>3, <1>4, <1>5, InitVerdictInv, TypeCorrect, PTL
  DEF Spec, ImplementsJudging, Abstract!Spec

-----------------------------------------------------------------------------
(* The end of a judging.  What a handler that is about to write a verdict   *)
(* has read of the runs still holds when it writes.                         *)
KnownStays ==
    \A q \in requests : q.pc = "flush" =>
        /\ getFinalResult(runresult[q.job]) = q.verdict
        /\ q.allKnown => \A t \in Test : runresult[q.job][t] # Pending

EndInv == KnownStays /\ EndtimeMeansDone

(* A run that is stored does not change what the other runs say.            *)
LEMMA StoredRunsExtend ==
    ASSUME Deterministic, TypeOK, VerdictInv, NEW q \in requests, StoreRun(q), NEW j \in Job
    PROVE  /\ getFinalResult(runresult[j]) # Pending =>
                  getFinalResult(runresult'[j]) = getFinalResult(runresult[j])
           /\ \A t \in Test : runresult[j][t] # Pending => runresult'[j][t] # Pending
<1>1. /\ q \in Request /\ q.job \in Job /\ q.test \in Test
      /\ q.res = TheOutcome(q.job, q.test) /\ q.res \in RunResult
  BY DEF TypeOK, Request, VerdictInv, RequestsDefinite, RequestDefinite
<1>2. runresult' = [runresult EXCEPT ![q.job][q.test] = q.res]
  BY DEF StoreRun
<1>3. \A t \in Test : runresult'[j][t] = runresult[j][t] \/ runresult[j][t] = Pending
  BY <1>1, <1>2 DEF TypeOK, VerdictInv, RunsDefinite
<1>4. /\ runresult[j] \in [1..NumTests -> RunOrPending]
      /\ runresult'[j] \in [1..NumTests -> RunOrPending]
  BY <1>1, <1>2 DEF TypeOK, Test, RunOrPending
<1>5. Extends(runresult'[j], runresult[j])
  BY <1>3, <1>4 DEF Extends, Test
<1>6. getFinalResult(runresult[j]) # Pending =>
          getFinalResult(runresult'[j]) = getFinalResult(runresult[j])
  <2> DEFINE before == runresult[j]
             after == runresult'[j]
  <2>1. before \in [1..NumTests -> RunOrPending] /\ after \in [1..NumTests -> RunOrPending]
    BY <1>4
  <2>2. Extends(after, before) /\ NumTests \in Nat
    BY <1>5, JudgeQueueAssumption
  <2>3. getFinalResult(before) # Pending => getFinalResult(after) = getFinalResult(before)
    <3> HIDE DEF before, after
    <3> QED  BY <2>1, <2>2, VerdictStable
  <2> QED  BY <2>3
<1> QED  BY <1>3, <1>6

LEMMA FrameEnd ==
    ASSUME EndInv, UNCHANGED <<runresult, result, endtime>>,
           \A r \in requests' : r.pc = "flush" => r \in requests
    PROVE  EndInv'
<1>1. KnownStays'
  BY DEF EndInv, KnownStays
<1>2. EndtimeMeansDone'
  BY DEF EndInv, EndtimeMeansDone
<1> QED  BY <1>1, <1>2 DEF EndInv

LEMMA RequestEnd ==
    ASSUME Deterministic, UniformCompilers, TypeOK, VerdictInv, WrittenVerdicts, EndInv,
           NEW q \in requests, RequestStep(q) \/ GiveUp(q)
    PROVE  EndInv'
<1>1. /\ q \in Request /\ q.job \in Job /\ RequestDefinite(q)
      /\ Resent(q).pc = "store"
  BY DEF TypeOK, Request, Resent, VerdictInv, RequestsDefinite
<1>2. ASSUME (\E more \in BOOLEAN : Answer(q, more)) \/ Retry(q)
      PROVE  \A r \in requests' : r.pc = "flush" => r \in requests
  BY <1>1, <1>2 DEF Answer, Retry
<1>3. CASE StoreRun(q)
  <2>1. UNCHANGED <<result, endtime>>
    BY <1>3 DEF StoreRun
  <2>2. \A r \in requests' : r.pc = "flush" => r \in requests /\ r.verdict # Pending /\ r.job \in Job
    BY <1>1, <1>3 DEF StoreRun, Request, WrittenVerdicts, TypeOK
  <2>3. KnownStays'
    <3> SUFFICES ASSUME NEW r \in requests', r.pc = "flush"
                 PROVE  /\ getFinalResult(runresult'[r.job]) = r.verdict
                        /\ r.allKnown => \A t \in Test : runresult'[r.job][t] # Pending
      BY DEF KnownStays
    <3>1. /\ r \in requests /\ r.verdict # Pending /\ r.job \in Job
          /\ getFinalResult(runresult[r.job]) = r.verdict
          /\ r.allKnown => \A t \in Test : runresult[r.job][t] # Pending
      BY <2>2 DEF EndInv, KnownStays
    <3> QED  BY <1>3, <3>1, StoredRunsExtend
  <2>4. EndtimeMeansDone'
    <3> SUFFICES ASSUME NEW j \in Job, endtime[j], result[j] # CompilerError
                 PROVE  /\ result[j] # Pending /\ result[j] = getFinalResult(runresult'[j])
                        /\ EvalFull => \A t \in Test : runresult'[j][t] # Pending
      BY <2>1 DEF EndtimeMeansDone
    <3>1. /\ result[j] # Pending /\ result[j] = getFinalResult(runresult[j])
          /\ EvalFull => \A t \in Test : runresult[j][t] # Pending
      BY DEF EndInv, EndtimeMeansDone
    <3> QED  BY <1>3, <3>1, StoredRunsExtend
  <2> QED  BY <2>3, <2>4 DEF EndInv
<1>4. CASE ReadRuns(q)
  <2> DEFINE v == getFinalResult(runresult[q.job])
             k == \A t \in Test : runresult[q.job][t] # Pending
             r == [q EXCEPT !.pc = "flush", !.verdict = v, !.allKnown = k,
                            !.old = result[q.job], !.complete = judgeCompletely[q.job]]
  <2>1. UNCHANGED <<runresult, result, endtime>>
    BY <1>4 DEF ReadRuns, judgingVars
  <2>2. ASSUME requests' = (requests \ {q}) \union {r} PROVE EndInv'
    <3>1. r.verdict = v /\ r.allKnown = k /\ r.job = q.job
      BY <1>1 DEF Request
    <3>2. /\ getFinalResult(runresult[r.job]) = r.verdict
          /\ r.allKnown => \A t \in Test : runresult[r.job][t] # Pending
      BY <3>1
    <3> HIDE DEF r
    <3>3. KnownStays'
      BY <2>1, <2>2, <3>2 DEF EndInv, KnownStays
    <3> QED  BY <2>1, <3>3 DEF EndInv, EndtimeMeansDone
  <2>3. CASE ~\E more \in BOOLEAN : Answer(q, more)
    BY <1>1, <1>4, <2>2, <2>3 DEF ReadRuns, NeedsMoreRuns, TypeOK
  <2> QED  BY <1>2, <2>1, <2>3, FrameEnd
<1>5. CASE FlushVerdict(q)
  <2>1. /\ q.verdict = SequentialVerdict(q.job) /\ q.verdict # Pending
        /\ TRUE \in Compiles[q.job] /\ UNCHANGED runresult
    BY <1>1, <1>5 DEF FlushVerdict, RequestDefinite
  <2>2. /\ getFinalResult(runresult[q.job]) = q.verdict
        /\ q.allKnown => \A t \in Test : runresult[q.job][t] # Pending
    BY <1>5 DEF FlushVerdict, EndInv, KnownStays
  <2>3. result[q.job] \in {Pending, q.verdict}
    BY <1>1, <2>1 DEF VerdictInv, VerdictDefinite, UniformCompilers
  <2>4. /\ result'[q.job] = q.verdict
        /\ \A j \in Job : j # q.job => result'[j] = result[j] /\ endtime'[j] = endtime[j]
        /\ endtime'[q.job] => endtime[q.job] \/ q.allKnown \/ ~EvalFull
    <3>1. q.old = q.verdict => result[q.job] = q.verdict
      BY <2>1, <2>3 DEF WrittenVerdicts
    <3> QED  BY <1>1, <1>5, <3>1 DEF FlushVerdict, Ends, TypeOK
  <2>5. EndtimeMeansDone'
    <3> SUFFICES ASSUME NEW j \in Job, endtime'[j], result'[j] # CompilerError
                 PROVE  /\ result'[j] # Pending /\ result'[j] = getFinalResult(runresult[j])
                        /\ EvalFull => \A t \in Test : runresult[j][t] # Pending
      BY <2>1 DEF EndtimeMeansDone
    <3>1. CASE j # q.job
      BY <2>4, <3>1 DEF EndInv, EndtimeMeansDone
    <3>2. CASE j = q.job
      <4>1. endtime[j] /\ EvalFull => \A t \in Test : runresult[j][t] # Pending
        BY JudgeQueueAssumption, <2>3, <2>4, <3>2 DEF EndInv, EndtimeMeansDone
      <4> QED  BY <2>1, <2>2, <2>4, <3>2, <4>1
    <3> QED  BY <3>1, <3>2
  <2>6. KnownStays'
    <3>1. \A r \in requests' : r.pc = "flush" => r \in requests
      <4>1. ASSUME requests' = (requests \ {q}) \union {[q EXCEPT !.pc = "post"]}
            PROVE  \A r \in requests' : r.pc = "flush" => r \in requests
        BY <1>1, <4>1 DEF Request
      <4>2. CASE ~((\E more \in BOOLEAN : Answer(q, more)) \/ Retry(q))
        BY <1>1, <1>5, <4>1, <4>2, JudgeQueueAssumption DEF FlushVerdict, NeedsMoreWork, Request
      <4> QED  BY <1>2, <4>2
    <3> QED  BY <2>1, <3>1 DEF EndInv, KnownStays
  <2> QED  BY <2>5, <2>6 DEF EndInv
<1>6. CASE PostVerdict(q)
  <2>1. UNCHANGED <<runresult, result, endtime>>
    BY <1>6 DEF PostVerdict
  <2>2. (\E more \in BOOLEAN : Answer(q, more)) \/ Retry(q)
    BY <1>1, <1>6, JudgeQueueAssumption DEF PostVerdict, NeedsMoreWork, Request
  <2> QED  BY <1>2, <2>1, <2>2, FrameEnd
<1>7. CASE GiveUp(q)
  BY <1>7, FrameEnd DEF GiveUp, judgingVars
<1> QED  BY <1>3, <1>4, <1>5, <1>6, <1>7 DEF RequestStep

LEMMA CompileErrorEnd ==
    ASSUME TypeOK, EndInv, NEW h \in Host, CompileError(h)
    PROVE  EndInv'
<1>1. job[h] \in Job /\ UNCHANGED <<requests, runresult>>
  BY DEF CompileError, TypeOK, WorkState
<1>2. KnownStays'
  BY <1>1 DEF EndInv, KnownStays
<1>3. \A j \in Job : \/ result'[j] = CompilerError
                     \/ result'[j] = result[j] /\ endtime'[j] = endtime[j]
  BY <1>1 DEF CompileError, TypeOK
<1>4. EndtimeMeansDone'
  BY <1>1, <1>3 DEF EndInv, EndtimeMeansDone
<1> QED  BY <1>2, <1>4 DEF EndInv

LEMMA NextEnd ==
    ASSUME Deterministic, UniformCompilers
    PROVE  TypeOK /\ VerdictInv /\ WrittenVerdicts /\ EndInv /\ [Next]_vars => EndInv'
<1> SUFFICES ASSUME TypeOK, VerdictInv, WrittenVerdicts, EndInv, [Next]_vars PROVE EndInv'
  OBVIOUS
<1>1. CASE UNCHANGED vars
  BY <1>1, FrameEnd DEF vars, judgingVars
<1>2. ASSUME NEW j \in Job, Submit(j) \/ JudgeRemaining(j) PROVE EndInv'
  BY <1>2, FrameEnd DEF Submit, JudgeRemaining, judgingVars
<1>3. ASSUME NEW h \in Host, HostError(h) \/ Enable(h) \/ Disable(h) PROVE EndInv'
  BY <1>3, FrameEnd DEF HostError, Enable, Disable, SetEnabled, judgingVars
<1>4. ASSUME NEW h \in Host, Crash(h) PROVE EndInv'
  <2>1. UNCHANGED <<runresult, result, endtime>> /\ requests' = {Orphaned(q, h) : q \in requests}
    BY <1>4 DEF Crash, judgingVars
  <2>2. \A q \in requests : /\ Orphaned(q, h).job = q.job /\ Orphaned(q, h).pc = q.pc
                            /\ Orphaned(q, h).verdict = q.verdict
                            /\ Orphaned(q, h).allKnown = q.allKnown
    BY DEF Orphaned, TypeOK, Request
  <2>3. KnownStays'
    BY <2>1, <2>2 DEF EndInv, KnownStays
  <2> QED  BY <2>1, <2>3 DEF EndInv, EndtimeMeansDone
<1>5. ASSUME NEW h \in Host, DaemonStep(h), ~CompileError(h) PROVE EndInv'
  <2>1. UNCHANGED <<runresult, result, endtime>>
    BY <1>5 DEF DaemonStep, FetchContinue, FetchStart, FetchShare, FetchNew, FetchNothing,
       Fetching, MarkStarted, SelectTasks, DeleteQueueTask, ClaimTasks, CompileSuccess,
       RunTest, Register, judgingVars
  <2>2. \A r \in requests' : r.pc = "flush" => r \in requests
    <3>1. \/ requests' = requests
          \/ \E t \in Test, r \in RunResult : requests' = requests \union {NewRequest(h, t, r)}
      BY <1>5 DEF DaemonStep, FetchContinue, FetchStart, FetchShare, FetchNew, FetchNothing,
         Fetching, MarkStarted, SelectTasks, DeleteQueueTask, ClaimTasks, CompileSuccess,
         RunTest, Register
    <3> QED  BY <3>1 DEF NewRequest
  <2> QED  BY <2>1, <2>2, FrameEnd
<1> QED  BY <1>1, <1>2, <1>3, <1>4, <1>5, CompileErrorEnd, RequestEnd DEF Next

(* A judging has an end time only when its verdict is known and agrees with *)
(* its runs and, with full evaluation, when no run is missing, whatever     *)
(* handlers write in between and with all failures.                         *)
THEOREM EndedJudgingsAreDone ==
    ASSUME Deterministic, UniformCompilers
    PROVE  Spec => []EndtimeMeansDone
<1>1. TypeOK /\ VerdictInv /\ [Next]_vars => VerdictInv'
  BY NextVerdictInv
<1>2. TypeOK /\ WrittenVerdicts /\ [Next]_vars => WrittenVerdicts'
  BY NextWritten
<1>3. TypeOK /\ VerdictInv /\ WrittenVerdicts /\ EndInv /\ [Next]_vars => EndInv'
  BY NextEnd
<1>4. Init => WrittenVerdicts /\ EndInv
  BY InitQueueInv DEF Init, EndInv, KnownStays, EndtimeMeansDone
<1>5. EndInv => EndtimeMeansDone
  BY DEF EndInv
<1> QED  BY <1>1, <1>2, <1>3, <1>4, <1>5, InitVerdictInv, TypeCorrect, PTL DEF Spec

=============================================================================
