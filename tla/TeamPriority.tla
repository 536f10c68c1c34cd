---------------------------- MODULE TeamPriority ----------------------------
(****************************************************************************)
(* The order in which the submissions of a team are judged: the team        *)
(* priority that maybeCreateJudgeTasks gives to a queue task, for tasks of  *)
(* one team and one priority.  Tasks with a lower team priority come first. *)
(*                                                                          *)
(* Submissions are numbered in the order of their submission.  The queue is *)
(* read by one statement and the task is inserted by another one.           *)
(****************************************************************************)
EXTENDS Naturals, FiniteSets, FiniteSetsExt

CONSTANTS
    NumSubmissions,
    Recent,             \* seconds: the penalty, and how far back tasks are looked at
    TimeSteps,          \* seconds that pass at once
    MaxTime,            \* bound on the time
    OneAtATime          \* whether the requests of a team are handled one by one

ASSUME TeamPriorityAssumption ==
    /\ {NumSubmissions, Recent, MaxTime} \subseteq Nat /\ Recent > 0
    /\ TimeSteps \subseteq Nat \ {0} /\ OneAtATime \in BOOLEAN

SubmissionNo == 1..NumSubmissions

VARIABLES
    now,
    submittime,         \* of each submission
    stage,              \* where its queue task is
    teampriority,       \* of its queue task, or what it is to get
    waited              \* submissions that could not be judged when submitted

priorityVars == <<now, submittime, stage, teampriority, waited>>

(* The judging of a submission that is "blocked" has no judgetasks, as its  *)
(* problem or language is not judged; "gone" is a deleted queue task.       *)
Stage == {"none", "blocked", "handled", "read", "queued", "gone"}

TeamPriorityTypeOK ==
    /\ now \in Nat /\ submittime \in [SubmissionNo -> Nat]
    /\ stage \in [SubmissionNo -> Stage]
    /\ teampriority \in [SubmissionNo -> Nat] /\ waited \subseteq SubmissionNo

TeamPriorityInit ==
    /\ now = Recent /\ submittime = [i \in SubmissionNo |-> 0]
    /\ stage = [i \in SubmissionNo |-> "none"]
    /\ teampriority = [i \in SubmissionNo |-> 0] /\ waited = {}

Moves(i, from, to) == stage[i] = from /\ stage' = [stage EXCEPT ![i] = to]

TimePasses(n) ==
    /\ now + n <= MaxTime /\ now' = now + n
    /\ UNCHANGED <<submittime, stage, teampriority, waited>>

(* The team submits; whether judging is allowed now decides what follows.   *)
TeamSubmits(i, allowed) ==
    /\ i = 1 \/ (i > 1 /\ stage[i - 1] # "none")
    /\ Moves(i, "none", IF allowed THEN "handled" ELSE "blocked")
    /\ OneAtATime => \A k \in SubmissionNo : stage[k] \notin {"handled", "read"}
    /\ submittime' = [submittime EXCEPT ![i] = now]
    /\ waited' = IF allowed THEN waited ELSE waited \union {i}
    /\ UNCHANGED <<now, teampriority>>

(* The problem or language is judged again: unblockJudgeTasks.              *)
Unblock(i) ==
    /\ Moves(i, "blocked", "handled")
    /\ OneAtATime => \A k \in SubmissionNo : stage[k] \notin {"handled", "read"}
    /\ UNCHANGED <<now, submittime, teampriority, waited>>

Queued == {i \in SubmissionNo : stage[i] = "queued"}

(* Tasks placed at most a minute, in virtual time, before the submission.   *)
RecentTasks(i) == {k \in Queued : teampriority[k] + Recent >= submittime[i]}

Highest(K) == Max({teampriority[k] : k \in K} \union {0})

(* Mutant: the highest team priority of the recent tasks is forgotten.      *)
NewPriorityOfCount(i) == submittime[i] + Recent * Cardinality(RecentTasks(i))

(* Mutant: recent tasks cost nothing.                                       *)
NewPriorityNoPenalty(i) == Max({Highest(RecentTasks(i)) + 1, submittime[i]})

(* The highest team priority of no task is NULL, which counts as 0.         *)
NewPriority(i) ==
    Max({Highest(RecentTasks(i)) + 1, submittime[i] + Recent * Cardinality(RecentTasks(i))})

ReadQueue(i) ==
    /\ Moves(i, "handled", "read")
    /\ teampriority' = [teampriority EXCEPT ![i] = NewPriority(i)]
    /\ UNCHANGED <<now, submittime, waited>>

InsertQueueTask(i) ==
    /\ Moves(i, "read", "queued")
    /\ UNCHANGED <<now, submittime, teampriority, waited>>

(* All tasks of the judging are claimed and its queue task is deleted; its  *)
(* times are not looked at any more.                                        *)
LeaveQueue(i) ==
    /\ Moves(i, "queued", "gone")
    /\ submittime' = [submittime EXCEPT ![i] = 0]
    /\ teampriority' = [teampriority EXCEPT ![i] = 0]
    /\ UNCHANGED <<now, waited>>

TeamPriorityNext ==
    \/ \E n \in TimeSteps : TimePasses(n)
    \/ \E i \in SubmissionNo, allowed \in BOOLEAN : TeamSubmits(i, allowed)
    \/ \E i \in SubmissionNo : Unblock(i) \/ ReadQueue(i) \/ InsertQueueTask(i) \/ LeaveQueue(i)

TeamPrioritySpec == TeamPriorityInit /\ [][TeamPriorityNext]_priorityVars

----------------------------------------------------------------------------
(* "To ensure that submissions will still be ordered by submission time":   *)
(* of a team that submits one by one, an earlier submission is judged       *)
(* before a later one, whichever others were judged meanwhile, if it could  *)
(* be judged when it was submitted.                                         *)
InOrderOfSubmission ==
    \A i, k \in Queued : i < k /\ i \notin waited => teampriority[i] < teampriority[k]

(* Teams "should not be able to starve other teams": of all that a team     *)
(* submitted in the last minute, at most one task comes before a submission *)
(* that another team makes now.                                             *)
NoStarvation ==
    Cardinality({i \in Queued : submittime[i] + Recent > now /\ teampriority[i] <= now}) <= 1
=============================================================================
