----------------------------- MODULE Rejudging -----------------------------
(****************************************************************************)
(* Rejudgings: RejudgingService (create, apply, cancel), and what           *)
(* add-judging-run does for a judging that belongs to a rejudging           *)
(* (maybeUpdateActiveJudging: automatic application and repetition).        *)
(*                                                                          *)
(* Rejudgings are numbered in the order of their creation; judging <<s, r>> *)
(* is the one of submission s in rejudging r, and <<s, 0>> the first one.   *)
(* Every database statement or transaction is a step, but for the four      *)
(* statements that cancel a rejudging for a submission, which commute.      *)
(****************************************************************************)
EXTENDS Naturals, FiniteSets

CONSTANTS
    Submission,
    NumRejudgings,      \* bound on the number of rejudgings
    NumRuns,            \* number of test cases of each submission
    Kinds,              \* values of <<auto_apply, repeat>> the jury asks for
    Jury,               \* jury members that apply or cancel rejudgings
    SnapshotReads,      \* whether a transaction sees only what was committed
                        \* before it, as the database is set up
    CreationFirst,      \* whether judgehosts wait for the end of a creation
    JuryWaits           \* whether the jury waits for its own requests, for
                        \* rejudgings that are applied automatically, and for
                        \* the next repetition of one that has just ended

ASSUME RejudgingAssumption ==
    /\ NumRejudgings \in Nat /\ NumRuns \in [Submission -> Nat \ {0}]
    /\ Kinds \subseteq BOOLEAN \X (Nat \ {0})
    /\ {SnapshotReads, CreationFirst, JuryWaits} \subseteq BOOLEAN

RejudgingId == 1..NumRejudgings
JudgingId == Submission \X (0..NumRejudgings)

(* A row of the table rejudging; "first" is repeat_rejudgingid.             *)
RejudgingRow ==
    [state : {"none", "creating", "created", "removed"}, ended : BOOLEAN, valid : BOOLEAN,
     autoApply : BOOLEAN, repeat : Nat, first : 0..NumRejudgings]

NoRejudging ==
    [state |-> "none", ended |-> FALSE, valid |-> TRUE, autoApply |-> FALSE,
     repeat |-> 1, first |-> 0]

VARIABLES
    rejudging,      \* the table rejudging
    rejudgingid,    \* of a submission; 0 is NULL
    judgings,       \* the judgings that exist
    valid,          \* the judgings whose column valid is 1
    result,         \* "null", "judged" or "aborted"
    endtime,        \* the judgings that have an end time
    handler,        \* where the judging of a judging is
    left,           \* runs that have not been reported
    aborted,        \* judgings whose handler read the result "aborted"
    todoSeen,       \* what the transaction of a compiler error sees of others
    creating,       \* submissions a creation has still to handle
    taken,          \* submissions it has read to be in a rejudging
    finish          \* what a jury member is finishing

judgingVars == <<judgings, valid, result, endtime>>
handlerVars == <<handler, left, aborted, todoSeen>>
createVars == <<creating, taken>>
rejudgingVars == <<rejudging, rejudgingid, judgingVars, handlerVars, createVars, finish>>

NotFinishing == [rejudging |-> 0, apply |-> FALSE, submissions |-> {}]

RejudgingTypeOK ==
    /\ rejudging \in [RejudgingId -> RejudgingRow]
    /\ rejudgingid \in [Submission -> 0..NumRejudgings]
    /\ judgings \subseteq JudgingId /\ valid \subseteq judgings /\ endtime \subseteq judgings
    /\ result \in [JudgingId -> {"null", "judged", "aborted"}]
    /\ handler \in [JudgingId -> {"none", "queued", "work", "read", "flush", "count",
                                  "repeat", "create", "compile", "over"}]
    /\ left \in [JudgingId -> Nat]
    /\ aborted \subseteq judgings
    /\ todoSeen \in [JudgingId -> SUBSET JudgingId]
    /\ creating \in [RejudgingId -> SUBSET Submission]
    /\ taken \in [RejudgingId -> SUBSET Submission]
    /\ finish \in [Jury -> [rejudging : 0..NumRejudgings, apply : BOOLEAN,
                            submissions : SUBSET Submission]]

RejudgingInit ==
    /\ rejudging = [r \in RejudgingId |-> NoRejudging]
    /\ rejudgingid = [s \in Submission |-> 0]
    /\ judgings = Submission \X {0} /\ valid = judgings /\ endtime = judgings
    /\ result = [j \in JudgingId |-> IF j[2] = 0 THEN "judged" ELSE "null"]
    /\ handler = [j \in JudgingId |-> IF j[2] = 0 THEN "over" ELSE "none"]
    /\ left = [j \in JudgingId |-> IF j[2] = 0 THEN 0 ELSE NumRuns[j[1]]]
    /\ aborted = {}
    /\ todoSeen = [j \in JudgingId |-> {}]
    /\ creating = [r \in RejudgingId |-> {}]
    /\ taken = [r \in RejudgingId |-> {}]
    /\ finish = [m \in Jury |-> NotFinishing]

Exists(r) == rejudging[r].state \in {"creating", "created"}
Open(r) == Exists(r) /\ ~rejudging[r].ended
JudgingsOf(r) == {j \in judgings : j[2] = r}
JudgingsFor(s) == {j \in judgings : j[1] = s}

(* calculateTodo(): the judgings of a rejudging without an end time.        *)
Todo(r) == JudgingsOf(r) \ endtime

(* A judging of the rejudging has to be judged or is being judged.          *)
AtWork(r) == \E j \in JudgingsOf(r) : handler[j] # "over"

Finishing(r) == \E m \in Jury : finish[m].rejudging = r

----------------------------------------------------------------------------
(* createRejudging(): the judgings have been selected and their submissions *)
(* loaded, and the row of the rejudging is inserted.                        *)
NextId(r) ==
    /\ rejudging[r].state = "none"
    /\ \A q \in RejudgingId : q < r => rejudging[q].state # "none"

NewRow(r, auto, repeat, first) ==
    [state |-> "creating", ended |-> FALSE, valid |-> TRUE, autoApply |-> auto,
     repeat |-> repeat,
     first |-> IF repeat = 1 THEN 0 ELSE IF first = 0 THEN r ELSE first]

NewRejudging(r, S, auto, repeat, first) ==
    /\ NextId(r)
    /\ rejudging' = [rejudging EXCEPT ![r] = NewRow(r, auto, repeat, first)]
    /\ creating' = [creating EXCEPT ![r] = S]

(* The jury selects submissions with a result.                              *)
Create(r, S, auto, repeat) ==
    /\ \A s \in S : \E j \in JudgingsFor(s) \intersect valid : result[j] # "null"
    /\ JuryWaits => \A q \in RejudgingId :
           /\ rejudging[q].state # "creating" /\ ~Finishing(q)
           /\ ~(rejudging[q].autoApply /\ AtWork(q))
           /\ \A j \in JudgingsOf(q) : handler[j] \notin {"repeat", "create"}
    /\ NewRejudging(r, S, auto, repeat, 0)
    /\ taken' = [taken EXCEPT ![r] = {s \in S : rejudgingid[s] # 0}]
    /\ UNCHANGED <<rejudgingid, judgingVars, handlerVars, finish>>

(* Mutant: a submission that is part of a rejudging is not skipped.         *)
SkippedNever(r, s) == FALSE

Skipped(r, s) == s \in taken[r]

(* One submission in the loop of createRejudging(): the rejudging of the    *)
(* submission is set if it has none, a judging is inserted and queued.      *)
CreateJudging(r, s) ==
    /\ rejudging[r].state = "creating" /\ s \in creating[r]
    /\ creating' = [creating EXCEPT ![r] = @ \ {s}]
    /\ IF Skipped(r, s)
       THEN UNCHANGED <<rejudgingid, judgings, handler>>
       ELSE /\ rejudgingid' = [rejudgingid EXCEPT ![s] = IF @ = 0 THEN r ELSE @]
            /\ judgings' = judgings \union {<<s, r>>}
            /\ handler' = [handler EXCEPT ![<<s, r>>] = "queued"]
    /\ UNCHANGED <<rejudging, valid, result, endtime, left, aborted, todoSeen, taken, finish>>

(* After the loop: a rejudging of which everything was skipped is removed.  *)
CreateEnd(r) ==
    /\ rejudging[r].state = "creating" /\ creating[r] = {}
    /\ rejudging' = [rejudging EXCEPT ![r].state =
                         IF JudgingsOf(r) = {} THEN "removed" ELSE "created"]
    /\ taken' = [taken EXCEPT ![r] = {}]
    /\ UNCHANGED <<rejudgingid, judgingVars, handlerVars, creating, finish>>

----------------------------------------------------------------------------
(* A judgehost fetches a queued judging.                                    *)
Claim(j) ==
    /\ handler[j] = "queued"
    /\ CreationFirst => rejudging[j[2]].state = "created"
    /\ handler' = [handler EXCEPT ![j] = "work"]
    /\ UNCHANGED <<rejudging, rejudgingid, judgingVars, left, aborted, todoSeen, createVars,
                   finish>>

(* Mutant: the judging that was valid stays valid.                          *)
MadeValidToo(j) == valid \union {j}

(* All judgings of the submission become invalid and this one valid.        *)
MadeValid(j) == (valid \ JudgingsFor(j[1])) \union {j}

(* The first part of maybeUpdateActiveJudging().                            *)
ApplyAutomatically(j) ==
    IF rejudging[j[2]].autoApply
    THEN /\ valid' = MadeValid(j)
         /\ rejudgingid' = [rejudgingid EXCEPT ![j[1]] = 0]
    ELSE UNCHANGED <<valid, rejudgingid>>

(* addSingleJudgingRun(): the transaction that stores a run.  The check for *)
(* the end of the rejudging is repeated by Count if it can be met here.     *)
AddRun(j) ==
    /\ handler[j] = "work" /\ left[j] > 0
    /\ left' = [left EXCEPT ![j] = @ - 1]
    /\ handler' = [handler EXCEPT ![j] = "read"]
    /\ ApplyAutomatically(j)
    /\ UNCHANGED <<rejudging, judgings, result, endtime, aborted, todoSeen, createVars, finish>>

(* The old result and the runs are read: they give a verdict or not yet.    *)
ReadResult(j, known) ==
    /\ handler[j] = "read"
    /\ (left[j] = 0 \/ j \in endtime) => known
    /\ aborted' = IF result[j] = "aborted" THEN aborted \union {j} ELSE aborted
    /\ handler' = [handler EXCEPT ![j] = IF known THEN "flush" ELSE "work"]
    /\ UNCHANGED <<rejudging, rejudgingid, judgingVars, left, todoSeen, createVars, finish>>

(* The verdict is flushed, whatever the old result was.  The end time is    *)
(* set with it, unless all runs are wanted and some are missing.            *)
Flush(j) ==
    /\ handler[j] = "flush"
    /\ result' = [result EXCEPT ![j] = "judged"]
    /\ \/ /\ endtime' = endtime \union {j}
          /\ ApplyAutomatically(j)
          /\ handler' = [handler EXCEPT ![j] = "count"]
       \/ /\ left[j] > 0
          /\ handler' = [handler EXCEPT ![j] = IF j \in aborted THEN "over" ELSE "work"]
          /\ UNCHANGED <<endtime, valid, rejudgingid>>
    /\ UNCHANGED <<rejudging, judgings, left, aborted, todoSeen, createVars, finish>>

(* The handler goes on: it throws its work away when the judging was        *)
(* aborted, and lazy evaluation may stop here.                              *)
After(j, next) ==
    next \in IF j \in aborted \/ left[j] = 0 THEN {"over"} ELSE {"work", "over"}

(* Mutant: the repetition is not tied to the end time of the rejudging.     *)
RepetitionDueAgain(r, todo) ==
    /\ todo = {} /\ rejudging[r].repeat > 1
    /\ Cardinality({q \in RejudgingId : Exists(q) /\ rejudging[q].first = rejudging[r].first})
           < rejudging[r].repeat

(* All judgings of an open rejudging are done, and it is to be repeated.    *)
RepetitionDue(r, todo) ==
    /\ Open(r) /\ todo = {} /\ rejudging[r].repeat > 1
    /\ Cardinality({q \in RejudgingId : Exists(q) /\ rejudging[q].first = rejudging[r].first})
           < rejudging[r].repeat

(* The rest of maybeUpdateActiveJudging(), up to the UPDATE that ends the   *)
(* rejudging unless another judgehost was faster.                           *)
EndForRepetition(r, todo) ==
    /\ ~rejudging[r].autoApply /\ RepetitionDue(r, todo)
    /\ rejudging' = [rejudging EXCEPT ![r].ended = TRUE, ![r].valid = FALSE]

EndAutomatically(r, todo) ==
    IF rejudging[r].autoApply /\ Open(r) /\ todo = {}
    THEN rejudging' = [rejudging EXCEPT ![r].ended = TRUE]
    ELSE /\ rejudging[r].autoApply \/ ~RepetitionDue(r, todo)
         /\ UNCHANGED rejudging

EndRejudging(j, next) ==
    \/ EndForRepetition(j[2], Todo(j[2])) /\ next = "repeat"
    \/ EndAutomatically(j[2], Todo(j[2])) /\ After(j, next)

(* Mutant: the end is only looked for after the last run of a judging.      *)
CountLastRun(j, next) ==
    /\ handler[j] = "count"
    /\ IF left[j] = 0 THEN EndRejudging(j, next) ELSE UNCHANGED rejudging /\ After(j, next)
    /\ handler' = [handler EXCEPT ![j] = next]
    /\ UNCHANGED <<rejudgingid, judgingVars, left, aborted, todoSeen, createVars, finish>>

Count(j, next) ==
    /\ handler[j] = "count"
    /\ EndRejudging(j, next)
    /\ handler' = [handler EXCEPT ![j] = next]
    /\ UNCHANGED <<rejudgingid, judgingVars, left, aborted, todoSeen, createVars, finish>>

(* Mutant: the association with the submissions is kept.                    *)
ResetSubmissionsNot(j) ==
    /\ handler[j] = "repeat"
    /\ handler' = [handler EXCEPT ![j] = "create"]
    /\ UNCHANGED <<rejudging, rejudgingid, judgingVars, left, aborted, todoSeen, createVars,
                   finish>>

(* The association with the submissions is reset.                           *)
ResetSubmissions(j) ==
    /\ handler[j] = "repeat"
    /\ rejudgingid' = [s \in Submission |-> IF rejudgingid[s] = j[2] THEN 0 ELSE rejudgingid[s]]
    /\ handler' = [handler EXCEPT ![j] = "create"]
    /\ UNCHANGED <<rejudging, judgingVars, left, aborted, todoSeen, createVars, finish>>

(* The same judgings are rejudged again.                                    *)
Repeat(j, r, next) ==
    /\ handler[j] = "create"
    /\ LET S == {i[1] : i \in JudgingsOf(j[2])}
       IN /\ NewRejudging(r, S, FALSE, rejudging[j[2]].repeat, rejudging[j[2]].first)
          /\ taken' = [taken EXCEPT ![r] = {s \in S : rejudgingid[s] # 0}]
    /\ After(j, next)
    /\ handler' = [handler EXCEPT ![j] = next]
    /\ UNCHANGED <<rejudgingid, judgingVars, left, aborted, todoSeen, finish>>

(* updateJudgingAction() with a compiler error is one transaction, the      *)
(* creation of the next repetition included.                                *)
CompileBegin(j) ==
    /\ handler[j] = "work" /\ left[j] = NumRuns[j[1]]
    /\ todoSeen' = [todoSeen EXCEPT ![j] = IF SnapshotReads THEN Todo(j[2]) \ {j} ELSE {}]
    /\ handler' = [handler EXCEPT ![j] = "compile"]
    /\ UNCHANGED <<rejudging, rejudgingid, judgingVars, left, aborted, createVars, finish>>

TodoInTransaction(j) == IF SnapshotReads THEN todoSeen[j] ELSE Todo(j[2]) \ {j}

CompileFlush(j) ==
    /\ handler[j] = "compile"
    /\ result' = [result EXCEPT ![j] = "judged"]
    /\ endtime' = endtime \union {j}
    /\ left' = [left EXCEPT ![j] = 0]
    /\ todoSeen' = [todoSeen EXCEPT ![j] = {}]

CompileCommit(j) ==
    /\ CompileFlush(j)
    /\ ApplyAutomatically(j)
    /\ EndAutomatically(j[2], TodoInTransaction(j))
    /\ handler' = [handler EXCEPT ![j] = "over"]
    /\ UNCHANGED <<judgings, aborted, createVars, finish>>

CompileRepeat(j, r) ==
    LET q == j[2]
        S == {s \in {i[1] : i \in JudgingsOf(q)} : rejudgingid[s] \in {0, q}}
    IN /\ CompileFlush(j)
       /\ ~rejudging[q].autoApply /\ RepetitionDue(q, TodoInTransaction(j))
       /\ NextId(r)
       /\ rejudging' = [rejudging EXCEPT
              ![q].ended = TRUE, ![q].valid = FALSE,
              ![r] = [NewRow(r, FALSE, rejudging[q].repeat, rejudging[q].first) EXCEPT
                          !.state = IF S = {} THEN "removed" ELSE "created"]]
       /\ rejudgingid' = [s \in Submission |-> IF s \in S THEN r
                              ELSE IF rejudgingid[s] = q THEN 0 ELSE rejudgingid[s]]
       /\ judgings' = judgings \union (S \X {r})
       /\ handler' = [i \in JudgingId |-> IF i = j THEN "over"
                          ELSE IF i \in S \X {r} THEN "queued" ELSE handler[i]]
       /\ UNCHANGED <<valid, aborted, createVars, finish>>

----------------------------------------------------------------------------
(* finishRejudging(): the checks, and the submissions to go through.        *)
StartFinish(m, r, apply) ==
    /\ finish[m].rejudging = 0
    /\ Open(r)
    /\ apply => Todo(r) = {}
    /\ JuryWaits =>
           /\ rejudging[r].state = "created" /\ ~rejudging[r].autoApply /\ ~Finishing(r)
           /\ apply => \A j \in JudgingsOf(r) : handler[j] \in {"work", "over"}
    /\ finish' = [finish EXCEPT ![m] =
           [rejudging |-> r, apply |-> apply,
            submissions |-> {s \in Submission : rejudgingid[s] = r}]]
    /\ UNCHANGED <<rejudging, rejudgingid, judgingVars, handlerVars, createVars>>

(* The transaction that applies the rejudging for a submission.             *)
Apply(m, s) ==
    /\ finish[m].apply /\ s \in finish[m].submissions
    /\ valid' = MadeValid(<<s, finish[m].rejudging>>) \intersect judgings
    /\ rejudgingid' = [rejudgingid EXCEPT ![s] = 0]
    /\ finish' = [finish EXCEPT ![m].submissions = @ \ {s}]
    /\ UNCHANGED <<rejudging, judgings, result, endtime, handlerVars, createVars>>

(* Tasks nobody claimed become invalid and the queue task is deleted.       *)
CancelledHandler(j) == IF handler[j] = "queued" THEN "over" ELSE handler[j]

(* Cancelling for a submission.                                             *)
Cancel(m, s) ==
    LET r == finish[m].rejudging
        j == <<s, r>>
    IN /\ r # 0 /\ ~finish[m].apply /\ s \in finish[m].submissions
       /\ rejudgingid' = [rejudgingid EXCEPT ![s] = IF @ = r THEN 0 ELSE @]
       /\ handler' = [handler EXCEPT ![j] = CancelledHandler(j)]
       /\ result' = [result EXCEPT ![j] = IF @ = "null" THEN "aborted" ELSE @]
       /\ finish' = [finish EXCEPT ![m].submissions = @ \ {s}]
       /\ UNCHANGED <<rejudging, judgings, valid, endtime, left, aborted, todoSeen, createVars>>

(* Mutant: a cancelled rejudging keeps the default of column valid.         *)
EndFinishValid(m) ==
    LET r == finish[m].rejudging
    IN /\ r # 0 /\ finish[m].submissions = {}
       /\ rejudging' = [rejudging EXCEPT ![r].ended = TRUE]
       /\ finish' = [finish EXCEPT ![m] = NotFinishing]
       /\ UNCHANGED <<rejudgingid, judgingVars, handlerVars, createVars>>

(* The rejudging itself is updated at the end.                              *)
EndFinish(m) ==
    LET r == finish[m].rejudging
    IN /\ r # 0 /\ finish[m].submissions = {}
       /\ rejudging' = [rejudging EXCEPT ![r].ended = TRUE, ![r].valid = finish[m].apply]
       /\ finish' = [finish EXCEPT ![m] = NotFinishing]
       /\ UNCHANGED <<rejudgingid, judgingVars, handlerVars, createVars>>

----------------------------------------------------------------------------
Progress == {"work", "over", "repeat"}

HandlerStep(j) ==
    \/ Claim(j) \/ AddRun(j) \/ Flush(j) \/ ResetSubmissions(j) \/ CompileBegin(j)
    \/ \E known \in BOOLEAN : ReadResult(j, known)
    \/ \E next \in Progress : Count(j, next)
    \/ \E next \in Progress, r \in RejudgingId : Repeat(j, r, next)
    \/ CompileCommit(j) \/ \E r \in RejudgingId : CompileRepeat(j, r)

CreateStep(r) == CreateEnd(r) \/ \E s \in Submission : CreateJudging(r, s)

FinishStep(m) == EndFinish(m) \/ \E s \in Submission : Apply(m, s) \/ Cancel(m, s)

RejudgingNext ==
    \/ \E j \in JudgingId : HandlerStep(j)
    \/ \E r \in RejudgingId : CreateStep(r)
    \/ \E m \in Jury : FinishStep(m)
    \/ \E r \in RejudgingId, S \in SUBSET Submission \ {{}}, k \in Kinds :
          Create(r, S, k[1], k[2])
    \/ \E m \in Jury, r \in RejudgingId, apply \in BOOLEAN : StartFinish(m, r, apply)

RejudgingSpec == RejudgingInit /\ [][RejudgingNext]_rejudgingVars

----------------------------------------------------------------------------
(* A submission has exactly one valid judging, however rejudgings are       *)
(* applied, automatically or by the jury.                                   *)
OneValidJudging ==
    \A s \in Submission : Cardinality(JudgingsFor(s) \intersect valid) = 1

Chain(r) == {q \in RejudgingId : Exists(q) /\ rejudging[q].first = r}

(* Handlers that have ended a rejudging and are to create the next one.     *)
Repeating(r) ==
    {j \in judgings : handler[j] \in {"repeat", "create"} /\ rejudging[j[2]].first = r}

(* A repeated rejudging is not repeated more often than asked for, and one  *)
(* repetition is over before the next one begins, though several judgehosts *)
(* may find the last judging done at the same time.                         *)
RepeatedInTurn ==
    \A r \in RejudgingId : Chain(r) # {} =>
        /\ Cardinality(Chain(r)) + Cardinality(Repeating(r)) <= rejudging[r].repeat
        /\ Cardinality({q \in Chain(r) : Open(q)}) <= 1

(* A submission does not belong to a rejudging that is over, unless it is   *)
(* about to be released: it would be skipped by all later rejudgings.       *)
NotInEndedRejudging ==
    \A s \in Submission : rejudgingid[s] # 0 =>
        LET r == rejudgingid[s]
        IN \/ Open(r)
           \/ \E j \in JudgingsOf(r) : handler[j] = "repeat"

(* Two rejudgings under way that the jury will decide about do not contain  *)
(* the same submission.                                                     *)
Undecided(r) == Open(r) /\ ~rejudging[r].autoApply /\ ~Finishing(r)

InOneRejudging ==
    \A r, q \in RejudgingId : Undecided(r) /\ Undecided(q) /\ r # q =>
        {j[1] : j \in JudgingsOf(r)} \intersect {j[1] : j \in JudgingsOf(q)} = {}

(* When all judgings of a rejudging have ended and no handler is at work on *)
(* them, an automatic rejudging is over, and so is one that is to be        *)
(* repeated again.                                                          *)
LastOneEnds ==
    \A r \in RejudgingId :
        /\ rejudging[r].state = "created" /\ Todo(r) = {}
        /\ \A j \in JudgingsOf(r) : handler[j] \in {"work", "over"}
        => ~Open(r) \/ (~rejudging[r].autoApply /\ ~RepetitionDue(r, {}))

(* A judging of a rejudging that the jury cancelled, or that was repeated,  *)
(* is not the valid one and no judgehost begins to work on it; a rejudging  *)
(* that the jury applied is in effect unless a later or an automatic one is.*)
OutcomeInEffect ==
    \A r \in RejudgingId :
        Exists(r) /\ rejudging[r].ended /\ ~rejudging[r].autoApply /\ ~Finishing(r) =>
        \A j \in JudgingsOf(r) :
            /\ ~rejudging[r].valid => j \notin valid /\ handler[j] # "queued"
            /\ rejudging[r].valid => \E i \in JudgingsFor(j[1]) \intersect valid :
                   i[2] >= r \/ (i[2] # 0 /\ rejudging[i[2]].autoApply)
=============================================================================
