--------------------------- MODULE InternalErrors ---------------------------
(****************************************************************************)
(* Internal errors of an executable (a compile, run or compare script):     *)
(* internalErrorAction with setInternalError and giveBackJudging, and what  *)
(* the jury does about an error (handleAction of InternalErrorController).  *)
(*                                                                          *)
(* One executable is used by all submissions.  Judging <<s, n>> is the n-th *)
(* one of submission s.  Judgetasks of a judging that judgehosts have       *)
(* claimed are known by the judgehosts at work; "tasks" is about the others.*)
(****************************************************************************)
EXTENDS Naturals, FiniteSets

CONSTANTS
    SubmissionId,
    MaxJudgings,        \* bound on the judgings of a submission
    ErrorHost,          \* the judgehosts
    Description,        \* descriptions that judgehosts give of errors
    MaxErrors,          \* bound on the rows of table internal_error
    JuryRejudges        \* whether submissions may be part of a rejudging

ASSUME InternalErrorsAssumption ==
    /\ MaxJudgings \in Nat \ {0} /\ MaxErrors \in Nat /\ JuryRejudges \in BOOLEAN

ErrorId == 1..MaxErrors
ErrorJudging == SubmissionId \X (1..MaxJudgings)
NoWork == [job |-> <<>>, step |-> "idle"]

VARIABLES
    made,               \* number of judgings of a submission
    validJudgings,      \* judgings whose column valid is 1
    tasks,              \* the judgetasks of a judging that nobody has claimed
    decided,            \* judgings with a result
    rejudged,           \* submissions that are part of a rejudging
    scriptOf,           \* the version of the executable that the tasks name
    version,            \* the version of the executable now
    allowJudge,         \* of the languages or problems that use the executable
    errors,             \* table internal_error
    internalError,      \* of a judging; 0 is NULL
    work,               \* what a judgehost works on or reports
    resolving,          \* an error being resolved, with the affected judgings
    abandoned,          \* submissions a judgehost left though its report did nothing
    skipped,            \* submissions skipped by the rejudging of resolved errors
    notValid            \* submissions of which a judging was given back that was not valid

jobVars == <<made, validJudgings, tasks, decided, rejudged, scriptOf>>
jurySideVars == <<version, allowJudge, resolving, skipped>>
errorVars == <<jobVars, jurySideVars, errors, internalError, work, abandoned, notValid>>

Made == {j \in ErrorJudging : j[2] <= made[j[1]]}
NotResolving == [id |-> 0, judgings |-> {}]

InternalErrorsTypeOK ==
    /\ made \in [SubmissionId -> 0..MaxJudgings]
    /\ validJudgings \subseteq Made /\ decided \subseteq Made
    /\ tasks \in [ErrorJudging -> {"none", "free", "claimed", "invalid"}]
    /\ scriptOf \in [ErrorJudging -> 0..1] /\ version \in 0..1
    /\ {rejudged, abandoned, skipped, notValid} \subseteq SUBSET SubmissionId
    /\ allowJudge \in BOOLEAN
    /\ errors \in [ErrorId -> [status : {"none", "open", "resolved", "ignored"},
                               description : Description \union {"none"}]]
    /\ internalError \in [ErrorJudging -> 0..MaxErrors]
    /\ resolving.id \in 0..MaxErrors /\ resolving.judgings \subseteq Made
    /\ \A h \in ErrorHost : work[h].job \in Made \union {<<>>}

InternalErrorsInit ==
    /\ made = [s \in SubmissionId |-> 0] /\ validJudgings = {} /\ decided = {}
    /\ tasks = [j \in ErrorJudging |-> "none"]
    /\ scriptOf = [j \in ErrorJudging |-> 0] /\ version = 0
    /\ rejudged = {} /\ abandoned = {} /\ skipped = {} /\ notValid = {}
    /\ allowJudge = TRUE
    /\ errors = [e \in ErrorId |-> [status |-> "none", description |-> "none"]]
    /\ internalError = [j \in ErrorJudging |-> 0]
    /\ work = [h \in ErrorHost |-> NoWork]
    /\ resolving = NotResolving

----------------------------------------------------------------------------
(* A submission is judged for the first time, or rejudged by the jury.  A   *)
(* judging that may not be judged gets no judgetasks.                       *)
NextJudging(s) == <<s, made[s] + 1>>

SubmitOrRejudge(s) ==
    LET j == NextJudging(s)
    IN /\ \/ made[s] = 0
          \/ JuryRejudges /\ s \notin rejudged /\ allowJudge /\ made[s] < MaxJudgings
       /\ made' = [made EXCEPT ![s] = @ + 1]
       /\ validJudgings' = IF made[s] = 0 THEN validJudgings \union {j} ELSE validJudgings
       /\ rejudged' = IF made[s] = 0 THEN rejudged ELSE rejudged \union {s}
       /\ tasks' = [tasks EXCEPT ![j] = IF allowJudge THEN "free" ELSE "none"]
       /\ scriptOf' = [scriptOf EXCEPT ![j] = version]
       /\ UNCHANGED <<decided, jurySideVars, errors, internalError, work, abandoned, notValid>>

(* fetch-work: some of the free judgetasks, or all of them.                 *)
ClaimSome(h, j) ==
    /\ work[h] = NoWork /\ tasks[j] = "free"
    /\ work' = [work EXCEPT ![h] = [job |-> j, step |-> "judge"]]
    /\ \E rest \in {"free", "claimed"} : tasks' = [tasks EXCEPT ![j] = rest]
    /\ UNCHANGED <<made, validJudgings, decided, rejudged, scriptOf, jurySideVars, errors,
                   internalError, abandoned, notValid>>

WorkingOn(j) == {h \in ErrorHost : work[h].job = j}
Doing(h, step) == work[h].step = step

(* A judgehost is done with its runs.  The last runs give a result, others  *)
(* may give one too and the rest is then not judged.                        *)
FinishWork(h) ==
    LET j == work[h].job
    IN /\ Doing(h, "judge")
       /\ work' = [work EXCEPT ![h] = NoWork]
       /\ \/ decided' = decided \union {j} /\ tasks' = [tasks EXCEPT ![j] = "invalid"]
          \/ /\ tasks[j] = "free" \/ WorkingOn(j) # {h}
             /\ UNCHANGED <<decided, tasks>>
       /\ UNCHANGED <<made, validJudgings, rejudged, scriptOf, jurySideVars, errors,
                      internalError, abandoned, notValid>>

----------------------------------------------------------------------------
OpenError(d) == \E e \in ErrorId : errors[e] = [status |-> "open", description |-> d]

(* internalErrorAction() up to its early returns: the executable was        *)
(* changed meanwhile, or an open error has the same description.  The       *)
(* judgehost keeps its judgetasks, see GivenBackAtRegistration.             *)
ReportIgnored(h, d) ==
    /\ Doing(h, "judge")
    /\ scriptOf[work[h].job] # version \/ OpenError(d)
    /\ work' = [work EXCEPT ![h] = NoWork]
    /\ abandoned' = abandoned \union {work[h].job[1]}
    /\ UNCHANGED <<jobVars, jurySideVars, errors, internalError, notValid>>

ReportError(h, d) ==
    /\ Doing(h, "judge")
    /\ scriptOf[work[h].job] = version /\ ~OpenError(d)
    /\ work' = [work EXCEPT ![h] = [job |-> @.job, step |-> "insert", description |-> d]]
    /\ UNCHANGED <<jobVars, jurySideVars, errors, internalError, abandoned, notValid>>

(* The error is inserted, and the judging is marked.                        *)
InsertError(h, e) ==
    /\ Doing(h, "insert")
    /\ errors[e].status = "none" /\ \A i \in ErrorId : i < e => errors[i].status # "none"
    /\ errors' = [errors EXCEPT ![e] =
                      [status |-> "open", description |-> work[h].description]]
    /\ internalError' = [internalError EXCEPT ![work[h].job] = e]
    /\ work' = [work EXCEPT ![h] = [job |-> @.job, step |-> "invalidate", error |-> e]]
    /\ UNCHANGED <<jobVars, jurySideVars, abandoned, notValid>>

(* Judgings with judgetasks that nobody has claimed and that use the script.*)
Outstanding(j) == {i \in Made : tasks[i] = "free" /\ scriptOf[i] = scriptOf[j]}

(* Mutant: only the judging of the report is marked.                        *)
MarkedNot(j) == {}

Marked(j) == Outstanding(j)

(* The transaction that marks these judgings and invalidates their tasks.   *)
InvalidateTasks(h) ==
    LET j == work[h].job
    IN /\ Doing(h, "invalidate")
       /\ internalError' = [i \in ErrorJudging |->
              IF i \in Marked(j) THEN work[h].error ELSE internalError[i]]
       /\ tasks' = [i \in ErrorJudging |->
              IF i \in Outstanding(j) THEN "invalid" ELSE tasks[i]]
       /\ work' = [work EXCEPT ![h] = [job |-> j, step |-> "disable"]]
       /\ UNCHANGED <<made, validJudgings, decided, rejudged, scriptOf, jurySideVars, errors,
                      abandoned, notValid>>

(* setInternalError(): what uses the executable is not judged any more.     *)
DisableExecutable(h) ==
    /\ Doing(h, "disable")
    /\ allowJudge' = FALSE
    /\ work' = [work EXCEPT ![h] = [job |-> @.job, step |-> "giveback"]]
    /\ UNCHANGED <<jobVars, version, resolving, skipped, errors, internalError, abandoned,
                   notValid>>

(* Mutant: the old judging stays valid.                                     *)
GivenBackToo(j) == validJudgings \union {NextJudging(j[1])}

(* The old judging is invalid and a new one valid.                          *)
GivenBack(j) == (validJudgings \ {j}) \union {NextJudging(j[1])}

(* Mutant: the new judging is not inserted.                                 *)
GiveBackJudgingUnflushed(h) ==
    LET j == work[h].job
    IN /\ Doing(h, "giveback") /\ made[j[1]] < MaxJudgings
       /\ tasks' = [tasks EXCEPT ![j] = "invalid"]
       /\ validJudgings' = GivenBack(j)
       /\ work' = [work EXCEPT ![h] = NoWork]
       /\ UNCHANGED <<made, decided, rejudged, scriptOf, jurySideVars, errors, internalError,
                      abandoned, notValid>>

(* giveBackJudging(): the new judging gets no judgetasks yet.               *)
GiveBackJudging(h) ==
    LET j == work[h].job
        s == j[1]
    IN /\ Doing(h, "giveback") /\ made[s] < MaxJudgings
       /\ tasks' = [tasks EXCEPT ![j] = "invalid"]
       /\ validJudgings' = GivenBack(j)
       /\ made' = [made EXCEPT ![s] = @ + 1]
       /\ notValid' = IF j \in validJudgings THEN notValid ELSE notValid \union {s}
       /\ work' = [work EXCEPT ![h] = NoWork]
       /\ UNCHANGED <<decided, rejudged, scriptOf, jurySideVars, errors, internalError,
                      abandoned>>

----------------------------------------------------------------------------
(* The jury uploads another version of the executable.                      *)
ReplaceExecutable ==
    /\ version = 0 /\ version' = 1
    /\ UNCHANGED <<jobVars, allowJudge, resolving, skipped, errors, internalError, work,
                   abandoned, notValid>>

(* The jury acts on errors whose reports have been handled.                 *)
Handled == \A h \in ErrorHost : work[h] = NoWork \/ Doing(h, "judge")

IgnoreError(e) ==
    /\ errors[e].status = "open" /\ Handled
    /\ errors' = [errors EXCEPT ![e].status = "ignored"]
    /\ UNCHANGED <<jobVars, jurySideVars, internalError, work, abandoned, notValid>>

(* Judgings without judgetasks.                                             *)
Unblocked == {j \in Made : tasks[j] = "none"}

(* The error is resolved: the affected judgings are loaded, judging is      *)
(* allowed again, and judgings without judgetasks get theirs.               *)
ResolveError(e) ==
    /\ errors[e].status = "open" /\ Handled /\ resolving = NotResolving
    /\ errors' = [errors EXCEPT ![e].status = "resolved"]
    /\ allowJudge' = TRUE
    /\ tasks' = [j \in ErrorJudging |-> IF j \in Unblocked THEN "free" ELSE tasks[j]]
    /\ scriptOf' = [j \in ErrorJudging |-> IF j \in Unblocked THEN version ELSE scriptOf[j]]
    /\ resolving' = [id |-> e, judgings |-> {j \in Made : internalError[j] = e}]
    /\ UNCHANGED <<made, validJudgings, decided, rejudged, version, skipped, internalError,
                   work, abandoned, notValid>>

(* createRejudging() for an affected judging.                               *)
RejudgeAffected(j) ==
    LET s == j[1]
        new == NextJudging(s)
    IN /\ j \in resolving.judgings
       /\ resolving' = IF resolving.judgings = {j} THEN NotResolving
                       ELSE [resolving EXCEPT !.judgings = @ \ {j}]
       /\ IF s \in rejudged \/ ~allowJudge
          THEN /\ skipped' = skipped \union {s}
               /\ UNCHANGED <<made, rejudged, tasks, scriptOf>>
          ELSE /\ made[s] < MaxJudgings
               /\ made' = [made EXCEPT ![s] = @ + 1]
               /\ rejudged' = rejudged \union {s}
               /\ tasks' = [tasks EXCEPT ![new] = "free"]
               /\ scriptOf' = [scriptOf EXCEPT ![new] = version]
               /\ UNCHANGED skipped
       /\ UNCHANGED <<validJudgings, decided, version, allowJudge, errors, internalError, work,
                      abandoned, notValid>>

JudgehostStep(h) ==
    \/ \E j \in Made : ClaimSome(h, j)
    \/ FinishWork(h) \/ InvalidateTasks(h) \/ DisableExecutable(h) \/ GiveBackJudging(h)
    \/ \E d \in Description : ReportIgnored(h, d) \/ ReportError(h, d)
    \/ \E e \in ErrorId : InsertError(h, e)

InternalErrorsNext ==
    \/ \E s \in SubmissionId : SubmitOrRejudge(s)
    \/ \E h \in ErrorHost : JudgehostStep(h)
    \/ ReplaceExecutable
    \/ \E e \in ErrorId : IgnoreError(e) \/ ResolveError(e)
    \/ \E j \in ErrorJudging : RejudgeAffected(j)

InternalErrorsSpec == InternalErrorsInit /\ [][InternalErrorsNext]_errorVars

----------------------------------------------------------------------------
ValidOf(s) == {j \in validJudgings : j[1] = s}

(* A submission has exactly one valid judging, unless a judging was given   *)
(* back that was not valid: one that another judgehost had given back with  *)
(* another description of the error, or the judging of a rejudging.         *)
OneValidAfterErrors ==
    \A s \in SubmissionId \ notValid : made[s] > 0 => Cardinality(ValidOf(s)) = 1

(* "Invalidate old judging and create a new one": this leaves a submission  *)
(* with one valid judging, whichever of its judgings is given back.         *)
GivingBackKeepsOneValid ==
    \A s \in SubmissionId : Cardinality(ValidOf(s)) <= 1

(* A judging will get a result, or has one, or the jury has it on a list.   *)
InGoodHands(j) ==
    \/ j \in decided \/ tasks[j] = "free" \/ WorkingOn(j) # {}
    \/ tasks[j] = "none" /\ ~allowJudge
    \/ internalError[j] # 0 /\ errors[internalError[j]].status \in {"open", "ignored"}
    \/ j \in resolving.judgings

(* No submission is forgotten because of an error: it is judged, queued,    *)
(* blocked, affected by an error that is not resolved, or about to be       *)
(* rejudged.  Forgotten are submissions that a judgehost left as its report *)
(* was taken for a duplicate; of those skipped the jury is told.            *)
NobodyForgotten ==
    \A s \in SubmissionId \ (abandoned \union skipped) :
        made[s] > 0 => \E j \in Made : j[1] = s /\ InGoodHands(j)
=============================================================================
