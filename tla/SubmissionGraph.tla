-------------------------- MODULE SubmissionGraph --------------------------
(****************************************************************************)
(* The buckets and ticks of the graph of the submissions of a contest:      *)
(* createSubmissionGraph of domjudge.js.                                    *)
(****************************************************************************)
EXTENDS Naturals, Sequences

CONSTANTS
    MinBuckets, MaxBuckets,     \* minBucketCount and maxBucketCount
    GraphUnits,                 \* lengths of units in seconds, and their steps
    GraphDurations              \* durations of contests to draw, in seconds

ASSUME SubmissionGraphAssumption ==
    /\ MinBuckets \in Nat \ {0} /\ MaxBuckets \in Nat \ {0, 1}
    /\ GraphUnits \in Seq((Nat \ {0}) \X (Nat \ {0})) /\ GraphUnits # <<>>
    /\ GraphDurations \subseteq Nat \ {0}

Ceil(a, b) == (a + b - 1) \div b
Lesser(a, b) == IF a < b THEN a ELSE b
Greater(a, b) == IF a < b THEN b ELSE a

(* The last unit, of those up to the first one that is too long, in which   *)
(* the contest takes more than the least number of buckets; else the first. *)
GraphUnit(seconds) ==
    LET Fits(i) == \A k \in 1..i : Ceil(seconds, GraphUnits[k][1]) > MinBuckets
        fitting == {i \in 1..Len(GraphUnits) : Fits(i)}
    IN IF fitting = {} THEN GraphUnits[1]
       ELSE GraphUnits[CHOOSE i \in fitting : \A k \in fitting : k <= i]

GraphDuration(seconds, unit) == Ceil(seconds, unit[1])

BucketCount(duration) == Lesser(duration + 1, MaxBuckets)

(* Mutant: rounded down.                                                    *)
BucketUnitsDown(duration) == Greater(1, duration \div (BucketCount(duration) - 1))

(* Units in a bucket: a whole number.                                       *)
BucketUnits(duration) == Ceil(duration, BucketCount(duration) - 1)

SecondsPerBucket(seconds) ==
    LET unit == GraphUnit(seconds) IN BucketUnits(GraphDuration(seconds, unit)) * unit[1]

(* The bucket of a submission; outside of the buckets it is not counted.    *)
SubmissionBucket(seconds, time) == time \div SecondsPerBucket(seconds)

(* Mutant: the distance of ticks is not a multiple of that of buckets.      *)
TickDeltaOfUnit(duration, step) ==
    LET count == BucketCount(duration)
    IN Greater(Ceil(duration, count), Greater(step, Ceil(duration, MinBuckets)))

(* The distance of ticks.  The greatest number of ticks, maxTicks, is the   *)
(* least of the number of buckets, the duration in steps and the least      *)
(* number of buckets; rounding up the quotient with the least is the        *)
(* greatest of the quotients rounded up.                                    *)
TickDelta(duration, step) ==
    LET factor == BucketUnits(duration)
    IN factor * Greater(Ceil(duration, BucketCount(duration) * factor),
                        Greater(Ceil(step, factor), Ceil(duration, MinBuckets * factor)))

TickValues(duration, step) ==
    {i * TickDelta(duration, step) : i \in 0..(duration \div TickDelta(duration, step))}

----------------------------------------------------------------------------
VARIABLES
    contestSeconds,     \* the duration of the contest
    submissionTime      \* of a submission, since the start of the contest

graphVars == <<contestSeconds, submissionTime>>

GraphTypeOK == contestSeconds \in GraphDurations /\ submissionTime \in 0..contestSeconds

(* A graph is drawn for a contest, with a first submission at its start.    *)
GraphInit == contestSeconds \in GraphDurations /\ submissionTime = 0

(* Another submission is drawn.                                             *)
DrawSubmission(time) == submissionTime' = time /\ UNCHANGED contestSeconds

GraphNext ==
    \E time \in {contestSeconds \div 2, contestSeconds - 1, contestSeconds} : DrawSubmission(time)

GraphSpec == GraphInit /\ [][GraphNext]_graphVars

----------------------------------------------------------------------------
Duration == GraphDuration(contestSeconds, GraphUnit(contestSeconds))

(* Every submission of the contest falls into a bucket of the graph and is  *)
(* counted, the last second of the contest included.                        *)
SubmissionsInBuckets ==
    SubmissionBucket(contestSeconds, submissionTime) < BucketCount(Duration)

(* All ticks are values of buckets: "the ticks MUST match a corresponding   *)
(* bucket".                                                                 *)
TicksMatchBuckets ==
    TickValues(Duration, GraphUnit(contestSeconds)[2])
        \subseteq {i * BucketUnits(Duration) : i \in 0..(BucketCount(Duration) - 1)}
=============================================================================
