--------------------------- MODULE DomserverProofs ---------------------------
(****************************************************************************)
(* Proofs about the order of a team's submissions in the queue and about    *)
(* internal errors of executables, for any number of submissions, judgings, *)
(* judgehosts and errors; and that the composition of the domserver's       *)
(* parts implements each of them and keeps their types.                     *)
(****************************************************************************)
EXTENDS MCDomserver, RejudgingProofs, FoldLemmas

----------------------------------------------------------------------------
(* Greatest elements.                                                       *)

(* The greater of two numbers.                                              *)
LEMMA MaxOfTwo ==
    ASSUME NEW a \in Nat, NEW b \in Nat
    PROVE  Max({a, b}) \in Nat /\ Max({a, b}) >= a /\ Max({a, b}) >= b
<1>1. {a, b} \subseteq 0..(a + b) /\ {a, b} # {}
  OBVIOUS
<1>2. Max({a, b}) \in {a, b} /\ \A y \in {a, b} : y <= Max({a, b})
  BY <1>1, BoundedHasMax
<1> QED BY <1>2

----------------------------------------------------------------------------
(* The order of a team's submissions.                                       *)

(* A submission whose team priority is known.                               *)
Placed(i) == stage[i] \in {"read", "queued"}

(* A submission that a request is working on.                               *)
BeingHandled(i) == stage[i] \in {"handled", "read"}

PrioritiesBounded == \E b \in Nat : \A i \in SubmissionNo : teampriority[i] <= b

SubmittedBefore == \A i \in SubmissionNo : submittime[i] <= now

SubmittedInSequence ==
    \A i, k \in SubmissionNo : i < k /\ stage[i] = "none" => stage[k] = "none"

BlockedWaited == \A i \in SubmissionNo : stage[i] = "blocked" => i \in waited

OneHandled == \A i, k \in SubmissionNo : BeingHandled(i) /\ BeingHandled(k) => i = k

(* What is handled at once is the last submission.                          *)
HandledLast ==
    \A i, k \in SubmissionNo :
        BeingHandled(i) /\ i \notin waited /\ i < k => stage[k] = "none"

NotBeforeSubmitted == \A i \in SubmissionNo : Placed(i) => teampriority[i] >= submittime[i]

PlacedInOrder ==
    \A i, k \in SubmissionNo :
        stage[i] = "queued" /\ Placed(k) /\ i < k /\ i \notin waited =>
            teampriority[i] < teampriority[k]

(* Of two tasks, one was placed a minute later than it was submitted, or    *)
(* they were submitted more than a minute apart.                            *)
Spread ==
    \A i, k \in SubmissionNo :
        stage[i] = "queued" /\ Placed(k) /\ i # k =>
            \/ teampriority[i] >= submittime[i] + Recent
            \/ teampriority[k] >= submittime[k] + Recent
            \/ submittime[i] + Recent < submittime[k]
            \/ submittime[k] + Recent < submittime[i]

StageInv ==
    TeamPriorityTypeOK /\ SubmittedInSequence /\ BlockedWaited /\ OneHandled /\ HandledLast

PlaceInv ==
    PrioritiesBounded /\ SubmittedBefore /\ NotBeforeSubmitted /\ PlacedInOrder /\ Spread

PriorityInv == StageInv /\ PlaceInv

(* A new team priority comes after all recent tasks, with a penalty if      *)
(* there is one, and never before the submission.                           *)
LEMMA NewPriorityPlace ==
    ASSUME TeamPriorityTypeOK, PrioritiesBounded, NEW i \in SubmissionNo
    PROVE  /\ NewPriority(i) \in Nat
           /\ NewPriority(i) >= submittime[i]
           /\ \A k \in RecentTasks(i) : /\ teampriority[k] < NewPriority(i)
                                        /\ NewPriority(i) >= submittime[i] + Recent
<1> DEFINE K == RecentTasks(i)
           T == {teampriority[k] : k \in K} \union {0}
           c == Cardinality(K)
<1>1. K \subseteq SubmissionNo
  BY DEF RecentTasks, Queued
<1>2. IsFiniteSet(K) /\ c \in Nat /\ (K # {} => c >= 1)
  <2>1. IsFiniteSet(SubmissionNo)
    BY FS_Interval, TeamPriorityAssumption DEF SubmissionNo
  <2>2. IsFiniteSet(K)
    BY <1>1, <2>1, FS_Subset
  <2>3. c \in Nat /\ (c = 0 <=> K = {})
    BY <2>2, FS_CardinalityType, FS_EmptySet
  <2> QED BY <2>2, <2>3
<1>3. PICK b \in Nat : \A k \in SubmissionNo : teampriority[k] <= b
  BY DEF PrioritiesBounded
<1>4. T \subseteq 0..b /\ T # {}
  BY <1>1, <1>3 DEF TeamPriorityTypeOK
<1>5. Highest(K) = Max(T)
  BY DEF Highest
<1>6. Highest(K) \in Nat /\ \A k \in K : teampriority[k] <= Highest(K)
  <2> HIDE DEF T, K
  <2>1. Max(T) \in T /\ \A y \in T : y <= Max(T)
    BY <1>3, <1>4, BoundedHasMax
  <2>2. Max(T) \in Nat
    <3>1. Max(T) \in 0..b
      BY <1>4, <2>1, Zenon
    <3> QED BY <3>1
  <2>3. \A k \in K : teampriority[k] \in T
    BY DEF T
  <2> QED BY <1>5, <2>1, <2>2, <2>3
<1>7. submittime[i] \in Nat /\ Recent \in Nat
  BY TeamPriorityAssumption DEF TeamPriorityTypeOK
<1>8. NewPriority(i) = Max({Highest(K) + 1, submittime[i] + Recent * c})
  BY DEF NewPriority
<1> HIDE DEF K, T, c
<1>9. Recent * c \in Nat /\ (c >= 1 => Recent * c >= Recent)
  BY <1>2, <1>7
<1>10. /\ NewPriority(i) \in Nat
       /\ NewPriority(i) >= Highest(K) + 1
       /\ NewPriority(i) >= submittime[i] + Recent * c
  BY <1>6, <1>7, <1>8, <1>9, MaxOfTwo
<1>11. NewPriority(i) >= submittime[i]
  BY <1>2, <1>7, <1>9, <1>10
<1>12. ASSUME NEW k \in K
       PROVE  teampriority[k] < NewPriority(i) /\ NewPriority(i) >= submittime[i] + Recent
  <2>1. teampriority[k] \in Nat
    BY <1>1 DEF TeamPriorityTypeOK
  <2> QED BY <1>2, <1>6, <1>7, <1>9, <1>10, <2>1
<1> QED BY <1>10, <1>11, <1>12 DEF K

(* A submission that is placed is placed after the earlier ones, and apart  *)
(* from those of the last minute.                                           *)
LEMMA ReadQueuePlaces ==
    ASSUME StageInv, PlaceInv, NEW i \in SubmissionNo, ReadQueue(i)
    PROVE  PlaceInv'
<1>1. /\ stage[i] = "handled" /\ stage' = [stage EXCEPT ![i] = "read"]
      /\ teampriority' = [teampriority EXCEPT ![i] = NewPriority(i)]
      /\ UNCHANGED <<now, submittime, waited>>
  BY DEF ReadQueue, Moves
<1>2. TeamPriorityTypeOK /\ Recent \in Nat
  BY TeamPriorityAssumption DEF StageInv
<1>3. /\ NewPriority(i) \in Nat
      /\ NewPriority(i) >= submittime[i]
      /\ \A k \in RecentTasks(i) : /\ teampriority[k] < NewPriority(i)
                                   /\ NewPriority(i) >= submittime[i] + Recent
  BY <1>2, NewPriorityPlace DEF PlaceInv
<1>4. /\ teampriority'[i] = NewPriority(i) /\ stage'[i] = "read"
      /\ \A k \in SubmissionNo \ {i} : /\ teampriority'[k] = teampriority[k]
                                       /\ stage'[k] = stage[k]
  BY <1>1, <1>2 DEF TeamPriorityTypeOK
<1>5. PrioritiesBounded'
  <2>1. PICK b \in Nat : \A k \in SubmissionNo : teampriority[k] <= b
    BY DEF PlaceInv, PrioritiesBounded
  <2>2. b + NewPriority(i) \in Nat
    BY <1>3
  <2>3. \A k \in SubmissionNo : teampriority'[k] <= b + NewPriority(i)
    BY <1>2, <1>3, <1>4, <2>1 DEF TeamPriorityTypeOK
  <2> QED BY <2>2, <2>3 DEF PrioritiesBounded
<1>6. SubmittedBefore'
  BY <1>1 DEF PlaceInv, SubmittedBefore
<1>7. NotBeforeSubmitted'
  BY <1>1, <1>3, <1>4 DEF PlaceInv, NotBeforeSubmitted, Placed
<1>8. ASSUME NEW k \in SubmissionNo, stage[k] = "queued"
      PROVE  /\ teampriority[k] < NewPriority(i)
             /\ \/ NewPriority(i) >= submittime[i] + Recent
                \/ submittime[k] + Recent < submittime[i]
  <2>1. teampriority[k] >= submittime[k]
    BY <1>8 DEF PlaceInv, NotBeforeSubmitted, Placed
  <2>2. submittime[k] \in Nat /\ submittime[i] \in Nat /\ teampriority[k] \in Nat
    BY <1>2 DEF TeamPriorityTypeOK
  <2>3. CASE k \in RecentTasks(i)
    BY <1>3, <2>3
  <2>4. CASE k \notin RecentTasks(i)
    <3>1. ~(teampriority[k] + Recent >= submittime[i])
      BY <1>8, <2>4 DEF RecentTasks, Queued
    <3> QED BY <1>2, <1>3, <2>1, <2>2, <3>1
  <2> QED BY <2>3, <2>4
<1>9. PlacedInOrder'
  <2> SUFFICES ASSUME NEW j \in SubmissionNo, NEW k \in SubmissionNo,
                      stage'[j] = "queued", Placed(k)', j < k, j \notin waited
               PROVE  teampriority'[j] < teampriority'[k]
    BY <1>1 DEF PlacedInOrder
  <2>1. j # i /\ stage[j] = "queued"
    BY <1>4
  <2>2. CASE k = i
    BY <1>4, <1>8, <2>1, <2>2
  <2>3. CASE k # i
    BY <1>4, <2>1, <2>3 DEF PlaceInv, PlacedInOrder, Placed
  <2> QED BY <2>2, <2>3
<1>10. Spread'
  <2> SUFFICES ASSUME NEW j \in SubmissionNo, NEW k \in SubmissionNo,
                      stage'[j] = "queued", Placed(k)', j # k
               PROVE  \/ teampriority'[j] >= submittime[j] + Recent
                      \/ teampriority'[k] >= submittime[k] + Recent
                      \/ submittime[j] + Recent < submittime[k]
                      \/ submittime[k] + Recent < submittime[j]
    BY <1>1 DEF Spread
  <2>1. j # i /\ stage[j] = "queued"
    BY <1>4
  <2>2. CASE k = i
    BY <1>4, <1>8, <2>1, <2>2
  <2>3. CASE k # i
    BY <1>4, <2>1, <2>3 DEF PlaceInv, Spread, Placed
  <2> QED BY <2>2, <2>3
<1> QED BY <1>5, <1>6, <1>7, <1>9, <1>10 DEF PlaceInv

(* The steps of a submission come one after another, and requests are       *)
(* handled one by one.                                                      *)
LEMMA StageStep ==
    ASSUME OneAtATime, StageInv, PlaceInv, [TeamPriorityNext]_priorityVars
    PROVE  StageInv'
<1> USE DEF StageInv
<1>1. TeamPriorityTypeOK /\ SubmissionNo \subseteq Nat /\ NumSubmissions \in Nat
  BY TeamPriorityAssumption DEF SubmissionNo
<1>2. ASSUME NEW n \in TimeSteps, TimePasses(n)
      PROVE  StageInv'
  <2>1. now' \in Nat
    BY <1>1, <1>2, TeamPriorityAssumption DEF TimePasses, TeamPriorityTypeOK
  <2> QED BY <1>2, <2>1 DEF TimePasses, TeamPriorityTypeOK, SubmittedInSequence, BlockedWaited,
             OneHandled, HandledLast, BeingHandled
<1>3. ASSUME NEW i \in SubmissionNo, NEW allowed \in BOOLEAN, TeamSubmits(i, allowed)
      PROVE  StageInv'
  <2>1. /\ stage[i] = "none"
        /\ stage' = [stage EXCEPT ![i] = IF allowed THEN "handled" ELSE "blocked"]
        /\ i = 1 \/ (i > 1 /\ stage[i - 1] # "none")
        /\ \A k \in SubmissionNo : ~BeingHandled(k)
        /\ submittime' = [submittime EXCEPT ![i] = now]
        /\ waited' = IF allowed THEN waited ELSE waited \union {i}
        /\ UNCHANGED <<now, teampriority>>
    BY <1>3 DEF TeamSubmits, Moves, BeingHandled
  <2>2. /\ stage'[i] = IF allowed THEN "handled" ELSE "blocked"
        /\ \A k \in SubmissionNo \ {i} : stage'[k] = stage[k]
    BY <1>1, <2>1 DEF TeamPriorityTypeOK
  <2>3. TeamPriorityTypeOK'
    BY <1>1, <2>1 DEF TeamPriorityTypeOK, Stage
  <2>4. \A k \in SubmissionNo : k < i => stage[k] # "none"
    <3> SUFFICES ASSUME NEW k \in SubmissionNo, k < i
                 PROVE  stage[k] # "none"
      OBVIOUS
    <3>1. i - 1 \in SubmissionNo /\ stage[i - 1] # "none" /\ k <= i - 1
      BY <1>1, <2>1 DEF SubmissionNo
    <3> QED BY <1>1, <3>1 DEF SubmittedInSequence
  <2>5. SubmittedInSequence'
    BY <2>2, <2>4 DEF SubmittedInSequence
  <2>6. BlockedWaited'
    BY <2>1, <2>2 DEF BlockedWaited
  <2>7. OneHandled'
    BY <2>1, <2>2 DEF OneHandled, BeingHandled
  <2>8. HandledLast'
    <3> SUFFICES ASSUME NEW j \in SubmissionNo, NEW k \in SubmissionNo,
                        BeingHandled(j)', j < k
                 PROVE  stage'[k] = "none"
      BY DEF HandledLast
    <3>1. j = i
      BY <2>1, <2>2 DEF BeingHandled
    <3>2. k # i
      BY <1>1, <3>1
    <3> QED BY <2>1, <2>2, <3>1, <3>2 DEF SubmittedInSequence
  <2> QED BY <2>3, <2>5, <2>6, <2>7, <2>8
<1>4. ASSUME NEW i \in SubmissionNo, Unblock(i)
      PROVE  StageInv'
  <2>1. /\ stage[i] = "blocked" /\ stage' = [stage EXCEPT ![i] = "handled"]
        /\ \A k \in SubmissionNo : ~BeingHandled(k)
        /\ UNCHANGED <<now, submittime, teampriority, waited>>
    BY <1>4 DEF Unblock, Moves, BeingHandled
  <2>2. stage'[i] = "handled" /\ \A k \in SubmissionNo \ {i} : stage'[k] = stage[k]
    BY <1>1, <2>1 DEF TeamPriorityTypeOK
  <2>3. TeamPriorityTypeOK'
    BY <2>1 DEF TeamPriorityTypeOK, Stage
  <2>4. SubmittedInSequence' /\ BlockedWaited'
    BY <2>1, <2>2 DEF SubmittedInSequence, BlockedWaited
  <2>5. OneHandled'
    BY <2>1, <2>2 DEF OneHandled, BeingHandled
  <2>6. HandledLast'
    BY <2>1, <2>2 DEF HandledLast, BeingHandled, BlockedWaited
  <2> QED BY <2>3, <2>4, <2>5, <2>6
<1>5. ASSUME NEW i \in SubmissionNo, ReadQueue(i)
      PROVE  StageInv'
  <2>1. /\ stage[i] = "handled" /\ stage' = [stage EXCEPT ![i] = "read"]
        /\ teampriority' = [teampriority EXCEPT ![i] = NewPriority(i)]
        /\ UNCHANGED <<now, submittime, waited>>
    BY <1>5 DEF ReadQueue, Moves
  <2>2. NewPriority(i) \in Nat
    BY <1>1, NewPriorityPlace DEF PlaceInv
  <2>3. stage'[i] = "read" /\ \A k \in SubmissionNo \ {i} : stage'[k] = stage[k]
    BY <1>1, <2>1 DEF TeamPriorityTypeOK
  <2>4. TeamPriorityTypeOK'
    BY <2>1, <2>2 DEF TeamPriorityTypeOK, Stage
  <2>5. SubmittedInSequence' /\ BlockedWaited'
    BY <2>1, <2>3 DEF SubmittedInSequence, BlockedWaited
  <2>6. \A k \in SubmissionNo : BeingHandled(k)' <=> BeingHandled(k)
    BY <2>1, <2>3 DEF BeingHandled
  <2>7. OneHandled' /\ HandledLast'
    BY <2>1, <2>3, <2>6 DEF OneHandled, HandledLast
  <2> QED BY <2>4, <2>5, <2>7
<1>6. ASSUME NEW i \in SubmissionNo, InsertQueueTask(i) \/ LeaveQueue(i)
      PROVE  StageInv'
  <2>1. PICK to \in {"queued", "gone"} :
            /\ stage[i] \in {"read", "queued"} /\ stage' = [stage EXCEPT ![i] = to]
            /\ UNCHANGED <<now, waited>>
    BY <1>6 DEF InsertQueueTask, LeaveQueue, Moves
  <2>2. stage'[i] = to /\ \A k \in SubmissionNo \ {i} : stage'[k] = stage[k]
    BY <1>1, <2>1 DEF TeamPriorityTypeOK
  <2>3. TeamPriorityTypeOK'
    BY <1>6, <2>1 DEF TeamPriorityTypeOK, Stage, InsertQueueTask, LeaveQueue
  <2>4. SubmittedInSequence' /\ BlockedWaited'
    BY <2>1, <2>2 DEF SubmittedInSequence, BlockedWaited
  <2>5. \A k \in SubmissionNo : BeingHandled(k)' => BeingHandled(k)
    BY <2>1, <2>2 DEF BeingHandled
  <2>6. OneHandled'
    BY <2>5 DEF OneHandled
  <2>7. HandledLast'
    BY <2>1, <2>2, <2>5 DEF HandledLast
  <2> QED BY <2>3, <2>4, <2>6, <2>7
<1>7. CASE UNCHANGED priorityVars
  BY <1>7 DEF priorityVars, TeamPriorityTypeOK, SubmittedInSequence, BlockedWaited, OneHandled,
              HandledLast, BeingHandled
<1> QED BY <1>2, <1>3, <1>4, <1>5, <1>6, <1>7 DEF TeamPriorityNext

(* Placing keeps its order while tasks are inserted and leave.              *)
LEMMA PlaceStep ==
    ASSUME OneAtATime, StageInv, PlaceInv, [TeamPriorityNext]_priorityVars
    PROVE  PlaceInv'
<1>1. TeamPriorityTypeOK /\ Recent \in Nat
  BY TeamPriorityAssumption DEF StageInv
<1>2. PICK b \in Nat : \A k \in SubmissionNo : teampriority[k] <= b
  BY DEF PlaceInv, PrioritiesBounded
<1>3. ASSUME NEW n \in TimeSteps, TimePasses(n)
      PROVE  PlaceInv'
  <2>1. now' \in Nat /\ now' >= now /\ UNCHANGED <<submittime, stage, teampriority, waited>>
    BY <1>1, <1>3, TeamPriorityAssumption DEF TimePasses, TeamPriorityTypeOK
  <2>2. SubmittedBefore'
    BY <1>1, <2>1 DEF PlaceInv, SubmittedBefore, TeamPriorityTypeOK
  <2> QED BY <2>1, <2>2 DEF PlaceInv, PrioritiesBounded, NotBeforeSubmitted, PlacedInOrder,
             Spread, Placed
<1>4. ASSUME NEW i \in SubmissionNo, NEW allowed \in BOOLEAN, TeamSubmits(i, allowed)
      PROVE  PlaceInv'
  <2>1. /\ stage' = [stage EXCEPT ![i] = IF allowed THEN "handled" ELSE "blocked"]
        /\ submittime' = [submittime EXCEPT ![i] = now]
        /\ waited \subseteq waited'
        /\ UNCHANGED <<now, teampriority>>
    BY <1>4 DEF TeamSubmits, Moves
  <2>2. /\ ~Placed(i)' /\ submittime'[i] = now
        /\ \A k \in SubmissionNo \ {i} : stage'[k] = stage[k] /\ submittime'[k] = submittime[k]
    BY <1>1, <2>1 DEF TeamPriorityTypeOK, Placed
  <2>3. PrioritiesBounded'
    BY <2>1 DEF PlaceInv, PrioritiesBounded
  <2>4. SubmittedBefore'
    BY <1>1, <2>1, <2>2 DEF PlaceInv, SubmittedBefore, TeamPriorityTypeOK
  <2>5. NotBeforeSubmitted'
    BY <2>1, <2>2 DEF PlaceInv, NotBeforeSubmitted, Placed
  <2>6. PlacedInOrder'
    BY <2>1, <2>2 DEF PlaceInv, PlacedInOrder, Placed
  <2>7. Spread'
    BY <2>1, <2>2 DEF PlaceInv, Spread, Placed
  <2> QED BY <2>3, <2>4, <2>5, <2>6, <2>7 DEF PlaceInv
<1>5. ASSUME NEW i \in SubmissionNo, Unblock(i)
      PROVE  PlaceInv'
  <2>1. stage' = [stage EXCEPT ![i] = "handled"]
        /\ UNCHANGED <<now, submittime, teampriority, waited>>
    BY <1>5 DEF Unblock, Moves
  <2>2. ~Placed(i)' /\ \A k \in SubmissionNo \ {i} : stage'[k] = stage[k]
    BY <1>1, <2>1 DEF TeamPriorityTypeOK, Placed
  <2> QED BY <2>1, <2>2 DEF PlaceInv, PrioritiesBounded, SubmittedBefore, NotBeforeSubmitted,
             PlacedInOrder, Spread, Placed
<1>6. ASSUME NEW i \in SubmissionNo, InsertQueueTask(i)
      PROVE  PlaceInv'
  <2>1. stage[i] = "read" /\ stage' = [stage EXCEPT ![i] = "queued"]
        /\ UNCHANGED <<now, submittime, teampriority, waited>>
    BY <1>6 DEF InsertQueueTask, Moves
  <2>2. stage'[i] = "queued" /\ \A k \in SubmissionNo \ {i} : stage'[k] = stage[k]
    BY <1>1, <2>1 DEF TeamPriorityTypeOK
  <2>3. \A k \in SubmissionNo : Placed(k)' <=> Placed(k)
    BY <2>1, <2>2 DEF Placed
  <2>4. PrioritiesBounded' /\ SubmittedBefore' /\ NotBeforeSubmitted'
    BY <2>1, <2>3 DEF PlaceInv, PrioritiesBounded, SubmittedBefore, NotBeforeSubmitted
  <2>5. PlacedInOrder'
    <3> SUFFICES ASSUME NEW j \in SubmissionNo, NEW k \in SubmissionNo,
                        stage'[j] = "queued", Placed(k), j < k, j \notin waited
                 PROVE  teampriority[j] < teampriority[k]
      BY <2>1, <2>3 DEF PlacedInOrder
    <3>1. CASE j = i
      BY <2>1, <3>1 DEF StageInv, HandledLast, BeingHandled, Placed
    <3>2. CASE j # i
      BY <2>2, <3>2 DEF PlaceInv, PlacedInOrder
    <3> QED BY <3>1, <3>2
  <2>6. Spread'
    <3> SUFFICES ASSUME NEW j \in SubmissionNo, NEW k \in SubmissionNo,
                        stage'[j] = "queued", Placed(k), j # k
                 PROVE  \/ teampriority[j] >= submittime[j] + Recent
                        \/ teampriority[k] >= submittime[k] + Recent
                        \/ submittime[j] + Recent < submittime[k]
                        \/ submittime[k] + Recent < submittime[j]
      BY <2>1, <2>3 DEF Spread
    <3>1. CASE j = i
      <4>1. stage[k] = "queued"
        BY <2>1, <3>1 DEF StageInv, OneHandled, BeingHandled, Placed
      <4> QED BY <2>1, <3>1, <4>1 DEF PlaceInv, Spread, Placed
    <3>2. CASE j # i
      BY <2>2, <3>2 DEF PlaceInv, Spread
    <3> QED BY <3>1, <3>2
  <2> QED BY <2>4, <2>5, <2>6 DEF PlaceInv
<1>7. ASSUME NEW i \in SubmissionNo, LeaveQueue(i)
      PROVE  PlaceInv'
  <2>1. /\ stage' = [stage EXCEPT ![i] = "gone"]
        /\ submittime' = [submittime EXCEPT ![i] = 0]
        /\ teampriority' = [teampriority EXCEPT ![i] = 0]
        /\ UNCHANGED <<now, waited>>
    BY <1>7 DEF LeaveQueue, Moves
  <2>2. /\ ~Placed(i)' /\ submittime'[i] = 0 /\ teampriority'[i] = 0
        /\ \A k \in SubmissionNo \ {i} : /\ stage'[k] = stage[k]
                                         /\ submittime'[k] = submittime[k]
                                         /\ teampriority'[k] = teampriority[k]
    BY <1>1, <2>1 DEF TeamPriorityTypeOK, Placed
  <2>3. PrioritiesBounded'
    BY <1>2, <2>2 DEF PrioritiesBounded
  <2>4. SubmittedBefore'
    BY <1>1, <2>1, <2>2 DEF PlaceInv, SubmittedBefore, TeamPriorityTypeOK
  <2>5. NotBeforeSubmitted'
    BY <2>2 DEF PlaceInv, NotBeforeSubmitted, Placed
  <2>6. PlacedInOrder'
    BY <2>1, <2>2 DEF PlaceInv, PlacedInOrder, Placed
  <2>7. Spread'
    BY <2>1, <2>2 DEF PlaceInv, Spread, Placed
  <2> QED BY <2>3, <2>4, <2>5, <2>6, <2>7 DEF PlaceInv
<1>8. CASE UNCHANGED priorityVars
  BY <1>8 DEF priorityVars, PlaceInv, PrioritiesBounded, SubmittedBefore, NotBeforeSubmitted,
              PlacedInOrder, Spread, Placed
<1> QED BY <1>3, <1>4, <1>5, <1>6, <1>7, <1>8, ReadQueuePlaces DEF TeamPriorityNext

LEMMA PriorityInvariant ==
    ASSUME OneAtATime
    PROVE  TeamPrioritySpec => []PriorityInv
<1>1. TeamPriorityInit => PriorityInv
  <2> SUFFICES ASSUME TeamPriorityInit
               PROVE  PriorityInv
    OBVIOUS
  <2>1. Recent \in Nat
    BY TeamPriorityAssumption
  <2>2. StageInv
    BY <2>1 DEF TeamPriorityInit, StageInv, TeamPriorityTypeOK, Stage, SubmittedInSequence,
                BlockedWaited, OneHandled, HandledLast, BeingHandled
  <2>3. PlaceInv
    BY <2>1 DEF TeamPriorityInit, PlaceInv, PrioritiesBounded, SubmittedBefore,
                NotBeforeSubmitted, PlacedInOrder, Spread, Placed
  <2> QED BY <2>2, <2>3 DEF PriorityInv
<1>2. PriorityInv /\ [TeamPriorityNext]_priorityVars => PriorityInv'
  BY StageStep, PlaceStep DEF PriorityInv
<1> QED BY <1>1, <1>2, PTL DEF TeamPrioritySpec

(* If the requests of a team are handled one by one, its queue tasks have   *)
(* the order of its submissions, whichever were judged meanwhile and        *)
(* however fast it submits.                                                 *)
THEOREM QueueKeepsOrder ==
    ASSUME OneAtATime
    PROVE  TeamPrioritySpec => []InOrderOfSubmission
<1>1. PriorityInv => InOrderOfSubmission
  BY DEF PriorityInv, PlaceInv, PlacedInOrder, Placed, InOrderOfSubmission, Queued
<1> QED BY <1>1, PriorityInvariant, PTL

(* If the requests of a team are handled one by one, at most one of its     *)
(* submissions of the last minute comes before what another team submits    *)
(* now, however many it makes.                                              *)
THEOREM TeamsDoNotStarve ==
    ASSUME OneAtATime
    PROVE  TeamPrioritySpec => []NoStarvation
<1>1. PriorityInv => NoStarvation
  <2> SUFFICES ASSUME PriorityInv
               PROVE  NoStarvation
    OBVIOUS
  <2> DEFINE S == {i \in Queued : submittime[i] + Recent > now /\ teampriority[i] <= now}
  <2>1. ASSUME NEW i \in S, NEW k \in S
        PROVE  i = k
    <3>1. i \in SubmissionNo /\ k \in SubmissionNo /\ stage[i] = "queued" /\ stage[k] = "queued"
      BY DEF Queued
    <3>2. /\ Recent \in Nat /\ now \in Nat /\ submittime[i] \in Nat /\ submittime[k] \in Nat
          /\ teampriority[i] \in Nat /\ teampriority[k] \in Nat
      BY <3>1, TeamPriorityAssumption DEF PriorityInv, StageInv, TeamPriorityTypeOK
    <3>3. submittime[i] <= now /\ submittime[k] <= now
      BY <3>1 DEF PriorityInv, PlaceInv, SubmittedBefore
    <3>4. CASE i # k
      <4>1. \/ teampriority[i] >= submittime[i] + Recent
            \/ teampriority[k] >= submittime[k] + Recent
            \/ submittime[i] + Recent < submittime[k]
            \/ submittime[k] + Recent < submittime[i]
        BY <3>1, <3>4 DEF PriorityInv, PlaceInv, Spread, Placed
      <4> QED BY <3>2, <3>3, <4>1
    <3> QED BY <3>4
  <2>2. Cardinality(S) <= 1
    <3> HIDE DEF S
    <3>1. CASE S = {}
      BY <3>1, FS_EmptySet
    <3>2. CASE S # {}
      <4>1. PICK i \in S : TRUE
        BY <3>2
      <4>2. S = {i}
        BY <2>1, <4>1
      <4>3. Cardinality(S) = 1
        BY <4>2, FS_Singleton
      <4> QED BY <4>3
    <3> QED BY <3>1, <3>2
  <2> QED BY <2>2 DEF NoStarvation
<1> QED BY <1>1, PriorityInvariant, PTL

----------------------------------------------------------------------------
(* Internal errors.                                                         *)

(* What is known of a judgehost at each step of its report.  Errors stay    *)
(* open and judging stays disabled until the reports have been handled, as  *)
(* the jury waits for that.                                                 *)
WorkOK(h) ==
    \/ work[h] = NoWork
    \/ /\ work[h].job \in Made
       /\ work[h].step \in {"judge", "insert", "invalidate", "disable", "giveback"}
       /\ Doing(h, "insert") => work[h].description \in Description
       /\ Doing(h, "invalidate") =>
              work[h].error \in ErrorId /\ errors[work[h].error].status = "open"
       /\ Doing(h, "giveback") => ~allowJudge

ErrorRows ==
    /\ made \in [SubmissionId -> 0..MaxJudgings]
    /\ validJudgings \subseteq Made
    /\ tasks \in [ErrorJudging -> {"none", "free", "claimed", "invalid"}]
    /\ errors \in [ErrorId -> [status : {"none", "open", "resolved", "ignored"},
                               description : Description \union {"none"}]]
    /\ internalError \in [ErrorJudging -> 0..MaxErrors]
    /\ resolving \in [id : 0..MaxErrors, judgings : SUBSET ErrorJudging]
    /\ resolving.judgings \subseteq Made
    /\ DOMAIN work = ErrorHost

(* Judgings that were not made have no judgetasks.                          *)
NoneBefore == \A j \in ErrorJudging \ Made : tasks[j] = "none"

WorkInv == \A h \in ErrorHost : WorkOK(h)

ErrorBase == ErrorRows /\ NoneBefore /\ WorkInv

(* Nothing but the valid judging is valid.                                  *)
OneIsValid ==
    \A s \in SubmissionId \ notValid : made[s] > 0 => \E j \in Made : ValidOf(s) = {j}

ErrorInv == ErrorBase /\ OneIsValid /\ NobodyForgotten

(* A judging is added to those of a submission.                             *)
LEMMA JudgingAdded ==
    ASSUME made \in [SubmissionId -> 0..MaxJudgings], NEW s \in SubmissionId,
           made[s] < MaxJudgings, made' = [made EXCEPT ![s] = @ + 1]
    PROVE  /\ NextJudging(s) \in ErrorJudging \ Made
           /\ Made' = Made \union {NextJudging(s)}
           /\ made' \in [SubmissionId -> 0..MaxJudgings]
           /\ \A t \in SubmissionId : t # s => made'[t] = made[t]
<1>1. MaxJudgings \in Nat /\ made[s] \in Nat
  BY InternalErrorsAssumption
<1>2. NextJudging(s) \in ErrorJudging \ Made
  BY <1>1 DEF NextJudging, ErrorJudging, Made
<1>3. made'[s] = made[s] + 1 /\ \A t \in SubmissionId : t # s => made'[t] = made[t]
  OBVIOUS
<1>4. ASSUME NEW j \in ErrorJudging
      PROVE  j \in Made' <=> j \in Made \/ j = NextJudging(s)
  <2>1. j[1] \in SubmissionId /\ j[2] \in Nat /\ j = <<j[1], j[2]>>
    BY <1>1 DEF ErrorJudging
  <2>2. j \in Made' <=> j[2] <= made'[j[1]]
    BY DEF Made
  <2>3. j \in Made <=> j[2] <= made[j[1]]
    BY DEF Made
  <2>4. CASE j[1] = s
    <3>1. j = NextJudging(s) <=> j[2] = made[s] + 1
      BY <2>1, <2>4 DEF NextJudging
    <3> QED BY <1>1, <1>3, <2>1, <2>2, <2>3, <2>4, <3>1
  <2>5. CASE j[1] # s
    <3>1. j # NextJudging(s)
      BY <2>5 DEF NextJudging
    <3> QED BY <1>3, <2>1, <2>2, <2>3, <2>5, <3>1
  <2> QED BY <2>4, <2>5
<1>5. Made' \subseteq ErrorJudging /\ Made \subseteq ErrorJudging
  BY DEF Made
<1>6. Made' = Made \union {NextJudging(s)}
  BY <1>2, <1>4, <1>5
<1>7. made' \in [SubmissionId -> 0..MaxJudgings]
  BY <1>1
<1> QED BY <1>2, <1>3, <1>6, <1>7

(* Unless the number of judgings changes, the judgings are the same.        *)
LEMMA SameMade ==
    ASSUME UNCHANGED made
    PROVE  Made' = Made
BY DEF Made

(* A judging that is good for its submission is replaced by another one at  *)
(* most.                                                                    *)
LEMMA HandedOver ==
    ASSUME NobodyForgotten, abandoned \subseteq abandoned', skipped \subseteq skipped',
           \A s \in SubmissionId : made'[s] > 0 =>
               made[s] > 0 \/ \E i \in Made' : i[1] = s /\ InGoodHands(i)',
           \A j \in Made : InGoodHands(j) =>
               \/ j[1] \in abandoned' \union skipped'
               \/ \E i \in Made' : i[1] = j[1] /\ InGoodHands(i)'
    PROVE  NobodyForgotten'
BY DEF NobodyForgotten

(* Steps that change no judging keep the valid ones.                        *)
LEMMA SameValid ==
    ASSUME ErrorBase, OneIsValid, UNCHANGED <<made, validJudgings, notValid>>
    PROVE  OneIsValid'
<1>1. Made' = Made
  BY SameMade
<1> QED BY <1>1 DEF OneIsValid, ValidOf

(* A judging that is not valid is added.                                    *)
LEMMA InvalidAdded ==
    ASSUME ErrorBase, OneIsValid, NEW s \in SubmissionId, made[s] # 0, made[s] < MaxJudgings,
           made' = [made EXCEPT ![s] = @ + 1], UNCHANGED <<validJudgings, notValid>>
    PROVE  OneIsValid'
<1>1. made[s] \in Nat
  BY InternalErrorsAssumption DEF ErrorBase, ErrorRows
<1>2. /\ Made \subseteq Made'
      /\ \A t \in SubmissionId : t # s => made'[t] = made[t]
  BY JudgingAdded DEF ErrorBase, ErrorRows
<1>3. made[s] > 0
  BY <1>1
<1>4. \A t \in SubmissionId : made'[t] > 0 => made[t] > 0
  BY <1>2, <1>3
<1> QED BY <1>2, <1>4 DEF OneIsValid, ValidOf

(* The first judging of a submission is valid; another one is in addition.  *)
LEMMA SubmitKeepsErrorInv ==
    ASSUME ErrorInv, NEW s \in SubmissionId, SubmitOrRejudge(s)
    PROVE  ErrorInv'
<1> USE DEF ErrorInv, ErrorBase
<1>1. MaxJudgings \in Nat \ {0} /\ made[s] \in Nat
  BY InternalErrorsAssumption DEF ErrorRows
<1> PICK j : j = NextJudging(s)
  OBVIOUS
<1>2. /\ made' = [made EXCEPT ![s] = @ + 1]
      /\ validJudgings' = IF made[s] = 0 THEN validJudgings \union {j} ELSE validJudgings
      /\ tasks' = [tasks EXCEPT ![j] = IF allowJudge THEN "free" ELSE "none"]
      /\ UNCHANGED <<decided, jurySideVars, errors, internalError, work, abandoned, notValid>>
  BY DEF SubmitOrRejudge
<1>3. made[s] < MaxJudgings
  BY <1>1 DEF SubmitOrRejudge
<1>4. /\ j \in ErrorJudging \ Made /\ Made' = Made \union {j}
      /\ made' \in [SubmissionId -> 0..MaxJudgings]
      /\ \A t \in SubmissionId : t # s => made'[t] = made[t]
  BY <1>2, <1>3, JudgingAdded DEF ErrorRows
<1>5. /\ tasks'[j] = IF allowJudge THEN "free" ELSE "none"
      /\ \A i \in ErrorJudging : i # j => tasks'[i] = tasks[i]
  BY <1>2, <1>4 DEF ErrorRows
<1>6. ErrorRows'
  BY <1>2, <1>4 DEF ErrorRows, jurySideVars
<1>7. NoneBefore'
  BY <1>4, <1>5 DEF NoneBefore
<1>8. WorkInv'
  BY <1>2, <1>4 DEF WorkInv, WorkOK, Doing, jurySideVars
<1>9. OneIsValid'
  <2>1. CASE made[s] # 0
    BY <1>2, <1>3, <2>1, InvalidAdded
  <2>2. CASE made[s] = 0
    <3>1. \A i \in Made : i[1] # s
      <4> SUFFICES ASSUME NEW i \in Made, i[1] = s
                   PROVE  FALSE
        OBVIOUS
      <4>1. i[2] \in 1..MaxJudgings /\ i[2] <= made[s]
        BY DEF Made, ErrorJudging
      <4> QED BY <1>1, <2>2, <4>1
    <3>2. j[1] = s
      BY DEF NextJudging
    <3>3. ValidOf(s)' = {j}
      BY <1>2, <2>2, <3>1, <3>2 DEF ValidOf, ErrorRows
    <3>4. \A t \in SubmissionId : t # s => ValidOf(t)' = ValidOf(t)
      BY <1>2, <2>2, <3>2 DEF ValidOf
    <3> QED BY <1>2, <1>4, <3>3, <3>4 DEF OneIsValid
  <2> QED BY <2>1, <2>2
<1>10. NobodyForgotten'
  <2>1. j[1] = s
    BY DEF NextJudging
  <2>2. InGoodHands(j)'
    BY <1>2, <1>5 DEF InGoodHands, jurySideVars
  <2>3. \A i \in Made : InGoodHands(i) => InGoodHands(i)'
    <3> SUFFICES ASSUME NEW i \in Made, InGoodHands(i)
                 PROVE  InGoodHands(i)'
      OBVIOUS
    <3>1. tasks'[i] = tasks[i]
      BY <1>4, <1>5 DEF Made
    <3>2. WorkingOn(i)' = WorkingOn(i)
      BY <1>2 DEF WorkingOn
    <3> QED BY <1>2, <3>1, <3>2 DEF InGoodHands, jurySideVars
  <2>4. \A t \in SubmissionId : made'[t] > 0 =>
            made[t] > 0 \/ \E i \in Made' : i[1] = t /\ InGoodHands(i)'
    <3> SUFFICES ASSUME NEW t \in SubmissionId, made'[t] > 0
                 PROVE  made[t] > 0 \/ \E i \in Made' : i[1] = t /\ InGoodHands(i)'
      OBVIOUS
    <3>1. CASE t = s
      BY <1>4, <2>1, <2>2, <3>1
    <3>2. CASE t # s
      BY <1>4, <3>2
    <3> QED BY <3>1, <3>2
  <2>5. Made \subseteq Made'
    BY <1>4
  <2>6. abandoned \subseteq abandoned' /\ skipped \subseteq skipped'
    BY <1>2 DEF jurySideVars
  <2>7. \A i \in Made : InGoodHands(i) =>
            \/ i[1] \in abandoned' \union skipped'
            \/ \E k \in Made' : k[1] = i[1] /\ InGoodHands(k)'
    BY <2>3, <2>5
  <2> QED BY <2>4, <2>6, <2>7, HandedOver
<1> QED BY <1>6, <1>7, <1>8, <1>9, <1>10

(* Steps that change no judging and leave every judging in good hands.      *)
LEMMA KeptInHand ==
    ASSUME ErrorInv, ErrorBase', UNCHANGED <<made, validJudgings, notValid>>,
           abandoned \subseteq abandoned', skipped \subseteq skipped',
           \A j \in Made : InGoodHands(j) =>
               InGoodHands(j)' \/ j[1] \in abandoned' \union skipped'
    PROVE  ErrorInv'
<1>1. Made' = Made
  BY SameMade
<1>2. OneIsValid'
  BY SameValid DEF ErrorInv
<1>3. \A s \in SubmissionId : made'[s] > 0 => made[s] > 0
  OBVIOUS
<1>4. \A j \in Made : InGoodHands(j) =>
          \/ j[1] \in abandoned' \union skipped'
          \/ \E i \in Made' : i[1] = j[1] /\ InGoodHands(i)'
  BY <1>1
<1>5. NobodyForgotten'
  BY <1>3, <1>4, HandedOver DEF ErrorInv
<1> QED BY <1>2, <1>5 DEF ErrorInv

LEMMA ClaimKeepsErrorInv ==
    ASSUME ErrorInv, NEW h \in ErrorHost, NEW j \in Made, ClaimSome(h, j)
    PROVE  ErrorInv'
<1> USE DEF ErrorInv, ErrorBase
<1>1. PICK rest \in {"free", "claimed"} : tasks' = [tasks EXCEPT ![j] = rest]
  BY DEF ClaimSome
<1>2. /\ work[h] = NoWork
      /\ work' = [work EXCEPT ![h] = [job |-> j, step |-> "judge"]]
      /\ UNCHANGED <<made, validJudgings, decided, jurySideVars, errors, internalError,
                     abandoned, notValid>>
  BY DEF ClaimSome
<1>3. Made' = Made /\ j \in ErrorJudging
  BY <1>2, SameMade DEF Made
<1>4. work'[h] = [job |-> j, step |-> "judge"] /\ \A k \in ErrorHost \ {h} : work'[k] = work[k]
  BY <1>2 DEF ErrorRows
<1>5. ErrorRows'
  BY <1>1, <1>2, <1>3 DEF ErrorRows, jurySideVars
<1>6. NoneBefore'
  BY <1>1, <1>3 DEF NoneBefore, ErrorRows
<1>7. WorkInv'
  BY <1>2, <1>3, <1>4 DEF WorkInv, WorkOK, Doing, jurySideVars
<1>8. \A i \in Made : InGoodHands(i) => InGoodHands(i)'
  <2> SUFFICES ASSUME NEW i \in Made, InGoodHands(i)
               PROVE  InGoodHands(i)'
    OBVIOUS
  <2>1. CASE i = j
    BY <1>4, <2>1 DEF InGoodHands, WorkingOn
  <2>2. CASE i # j
    <3>1. tasks'[i] = tasks[i]
      BY <1>1, <2>2 DEF ErrorRows, Made
    <3>2. i # <<>>
      <4>1. DOMAIN i = 1..2
        BY DEF Made, ErrorJudging
      <4>2. DOMAIN <<>> = 1..0
        OBVIOUS
      <4> QED BY <4>1, <4>2
    <3>3. WorkingOn(i) \subseteq WorkingOn(i)'
      BY <1>2, <1>4, <3>2 DEF WorkingOn, NoWork
    <3> QED BY <1>2, <3>1, <3>3 DEF InGoodHands, jurySideVars
  <2> QED BY <2>1, <2>2
<1> QED BY <1>2, <1>5, <1>6, <1>7, <1>8, KeptInHand DEF jurySideVars

LEMMA FinishKeepsErrorInv ==
    ASSUME ErrorInv, NEW h \in ErrorHost, FinishWork(h)
    PROVE  ErrorInv'
<1> USE DEF ErrorInv, ErrorBase
<1> PICK j : j = work[h].job
  OBVIOUS
<1>1. /\ Doing(h, "judge")
      /\ work' = [work EXCEPT ![h] = NoWork]
      /\ \/ decided' = decided \union {j} /\ tasks' = [tasks EXCEPT ![j] = "invalid"]
         \/ /\ tasks[j] = "free" \/ WorkingOn(j) # {h}
            /\ UNCHANGED <<decided, tasks>>
      /\ UNCHANGED <<made, validJudgings, jurySideVars, errors, internalError, abandoned,
                     notValid>>
  BY DEF FinishWork
<1>2. j \in Made /\ j \in ErrorJudging /\ Made' = Made
  BY <1>1, SameMade DEF WorkInv, WorkOK, Doing, NoWork, Made
<1>3. work'[h] = NoWork /\ \A k \in ErrorHost \ {h} : work'[k] = work[k]
  BY <1>1 DEF ErrorRows
<1>4. ErrorRows'
  BY <1>1, <1>2 DEF ErrorRows, jurySideVars
<1>5. NoneBefore'
  BY <1>1, <1>2 DEF NoneBefore, ErrorRows
<1>6. WorkInv'
  BY <1>1, <1>2, <1>3 DEF WorkInv, WorkOK, Doing, jurySideVars
<1>7. \A i \in Made : InGoodHands(i) => InGoodHands(i)'
  <2> SUFFICES ASSUME NEW i \in Made, InGoodHands(i)
               PROVE  InGoodHands(i)'
    OBVIOUS
  <2>1. CASE i = j
    <3>1. h \in WorkingOn(j)
      BY DEF WorkingOn
    <3>2. CASE decided' = decided \union {j}
      BY <2>1, <3>2 DEF InGoodHands
    <3>3. CASE tasks[j] = "free" /\ UNCHANGED tasks
      BY <2>1, <3>3 DEF InGoodHands
    <3>4. CASE WorkingOn(j) # {h}
      <4>1. PICK k \in WorkingOn(j) : k # h
        BY <3>1, <3>4
      <4>2. k \in WorkingOn(i)'
        BY <1>3, <2>1, <4>1 DEF WorkingOn
      <4> QED BY <4>2 DEF InGoodHands
    <3> QED BY <1>1, <3>2, <3>3, <3>4
  <2>2. CASE i # j
    <3>1. tasks'[i] = tasks[i]
      BY <1>1, <2>2 DEF ErrorRows, Made
    <3>2. WorkingOn(i) \subseteq WorkingOn(i)' /\ decided \subseteq decided'
      BY <1>1, <1>3, <2>2 DEF WorkingOn
    <3> QED BY <1>1, <3>1, <3>2 DEF InGoodHands, jurySideVars
  <2> QED BY <2>1, <2>2
<1> QED BY <1>1, <1>4, <1>5, <1>6, <1>7, KeptInHand DEF jurySideVars

(* A report that does nothing abandons the submission.                      *)
LEMMA IgnoredKeepsErrorInv ==
    ASSUME ErrorInv, NEW h \in ErrorHost, NEW d \in Description, ReportIgnored(h, d)
    PROVE  ErrorInv'
<1> USE DEF ErrorInv, ErrorBase
<1> PICK j : j = work[h].job
  OBVIOUS
<1>1. /\ work' = [work EXCEPT ![h] = NoWork]
      /\ abandoned' = abandoned \union {j[1]}
      /\ UNCHANGED <<jobVars, jurySideVars, errors, internalError, notValid>>
  BY DEF ReportIgnored
<1>2. Made' = Made
  BY <1>1, SameMade DEF jobVars
<1>3. work'[h] = NoWork /\ \A k \in ErrorHost \ {h} : work'[k] = work[k]
  BY <1>1 DEF ErrorRows
<1>4. ErrorRows' /\ NoneBefore'
  BY <1>1, <1>2 DEF ErrorRows, NoneBefore, jobVars, jurySideVars
<1>5. WorkInv'
  BY <1>1, <1>2, <1>3 DEF WorkInv, WorkOK, Doing, jurySideVars
<1>6. \A i \in Made : InGoodHands(i) => InGoodHands(i)' \/ i[1] \in abandoned'
  <2> SUFFICES ASSUME NEW i \in Made, InGoodHands(i), i # j
               PROVE  InGoodHands(i)'
    BY <1>1
  <2>1. WorkingOn(i) \subseteq WorkingOn(i)'
    BY <1>3 DEF WorkingOn
  <2> QED BY <1>1, <2>1 DEF InGoodHands, jobVars, jurySideVars
<1> QED BY <1>1, <1>4, <1>5, <1>6, KeptInHand DEF jobVars, jurySideVars

LEMMA ReportKeepsErrorInv ==
    ASSUME ErrorInv, NEW h \in ErrorHost, NEW d \in Description, ReportError(h, d)
    PROVE  ErrorInv'
<1> USE DEF ErrorInv, ErrorBase
<1> PICK j : j = work[h].job
  OBVIOUS
<1>1. /\ Doing(h, "judge")
      /\ work' = [work EXCEPT ![h] = [job |-> j, step |-> "insert", description |-> d]]
      /\ UNCHANGED <<jobVars, jurySideVars, errors, internalError, abandoned, notValid>>
  BY DEF ReportError
<1>2. Made' = Made /\ j \in Made
  BY <1>1, SameMade DEF jobVars, WorkInv, WorkOK, Doing, NoWork
<1>3. /\ work'[h] = [job |-> j, step |-> "insert", description |-> d]
      /\ \A k \in ErrorHost \ {h} : work'[k] = work[k]
  BY <1>1 DEF ErrorRows
<1>4. ErrorRows' /\ NoneBefore'
  BY <1>1, <1>2 DEF ErrorRows, NoneBefore, jobVars, jurySideVars
<1>5. WorkInv'
  BY <1>1, <1>2, <1>3 DEF WorkInv, WorkOK, Doing, jurySideVars
<1>6. \A i : WorkingOn(i)' = WorkingOn(i)
  BY <1>3 DEF WorkingOn
<1>7. \A i \in Made : InGoodHands(i) => InGoodHands(i)'
  BY <1>1, <1>6 DEF InGoodHands, jobVars, jurySideVars
<1> QED BY <1>1, <1>4, <1>5, <1>7, KeptInHand DEF jobVars, jurySideVars

(* The judging of the report is still being worked on when it is marked.    *)
LEMMA InsertKeepsErrorInv ==
    ASSUME ErrorInv, NEW h \in ErrorHost, NEW e \in ErrorId, InsertError(h, e)
    PROVE  ErrorInv'
<1> USE DEF ErrorInv, ErrorBase
<1> PICK j : j = work[h].job
  OBVIOUS
<1> PICK d : d = work[h].description
  OBVIOUS
<1>1. /\ Doing(h, "insert")
      /\ errors[e].status = "none"
      /\ errors' = [errors EXCEPT ![e] = [status |-> "open", description |-> d]]
      /\ internalError' = [internalError EXCEPT ![j] = e]
      /\ work' = [work EXCEPT ![h] = [job |-> j, step |-> "invalidate", error |-> e]]
      /\ UNCHANGED <<jobVars, jurySideVars, abandoned, notValid>>
  BY DEF InsertError
<1>2. Made' = Made /\ j \in Made /\ j \in ErrorJudging /\ d \in Description
  BY <1>1, SameMade DEF jobVars, WorkInv, WorkOK, Doing, NoWork, Made
<1>3. /\ work'[h] = [job |-> j, step |-> "invalidate", error |-> e]
      /\ \A k \in ErrorHost \ {h} : work'[k] = work[k]
  BY <1>1 DEF ErrorRows
<1>4. /\ errors'[e].status = "open" /\ \A f \in ErrorId \ {e} : errors'[f] = errors[f]
      /\ internalError'[j] = e
      /\ \A i \in ErrorJudging \ {j} : internalError'[i] = internalError[i]
  BY <1>1, <1>2 DEF ErrorRows
<1>5. e \in 0..MaxErrors
  BY InternalErrorsAssumption DEF ErrorId
<1>6. ErrorRows'
  <2>1. errors' \in [ErrorId -> [status : {"none", "open", "resolved", "ignored"},
                                 description : Description \union {"none"}]]
    BY <1>1, <1>2 DEF ErrorRows
  <2>2. internalError' \in [ErrorJudging -> 0..MaxErrors]
    BY <1>1, <1>5 DEF ErrorRows
  <2> QED BY <1>1, <1>2, <2>1, <2>2 DEF ErrorRows, jobVars, jurySideVars
<1>7. NoneBefore'
  BY <1>1, <1>2 DEF NoneBefore, jobVars
<1>8. WorkInv'
  <2> SUFFICES ASSUME NEW k \in ErrorHost
               PROVE  WorkOK(k)'
    BY DEF WorkInv
  <2>1. CASE k = h
    BY <1>2, <1>3, <1>4, <2>1 DEF WorkOK, Doing
  <2>2. CASE k # h
    BY <1>1, <1>2, <1>3, <1>4, <2>2 DEF WorkInv, WorkOK, Doing, jurySideVars
  <2> QED BY <2>1, <2>2
<1>9. \A i : WorkingOn(i)' = WorkingOn(i)
  BY <1>3 DEF WorkingOn
<1>10. \A i \in Made : InGoodHands(i) => InGoodHands(i)'
  <2> SUFFICES ASSUME NEW i \in Made, InGoodHands(i)
               PROVE  InGoodHands(i)'
    OBVIOUS
  <2>1. CASE i = j
    <3>1. h \in WorkingOn(i)
      BY <2>1 DEF WorkingOn
    <3> QED BY <1>9, <3>1 DEF InGoodHands
  <2>2. CASE i # j
    <3>1. i \in ErrorJudging /\ internalError'[i] = internalError[i]
      BY <1>4, <2>2 DEF Made
    <3>2. internalError[i] # 0 /\ errors[internalError[i]].status \in {"open", "ignored"} =>
              errors'[internalError[i]].status \in {"open", "ignored"}
      <4>1. internalError[i] # 0 => internalError[i] \in ErrorId
        BY <3>1, InternalErrorsAssumption DEF ErrorRows, ErrorId
      <4> QED BY <1>1, <1>4, <4>1
    <3> QED BY <1>1, <1>9, <3>1, <3>2 DEF InGoodHands, jobVars, jurySideVars
  <2> QED BY <2>1, <2>2
<1> QED BY <1>1, <1>6, <1>7, <1>8, <1>10, KeptInHand DEF jobVars, jurySideVars

(* Whatever loses its judgetasks is marked with an error that is open.      *)
LEMMA InvalidateKeepsErrorInv ==
    ASSUME ErrorInv, NEW h \in ErrorHost, InvalidateTasks(h)
    PROVE  ErrorInv'
<1> USE DEF ErrorInv, ErrorBase
<1> PICK j : j = work[h].job
  OBVIOUS
<1> PICK e : e = work[h].error
  OBVIOUS
<1> PICK O : O = Outstanding(j)
  OBVIOUS
<1>1. /\ Doing(h, "invalidate")
      /\ internalError' = [i \in ErrorJudging |-> IF i \in O THEN e ELSE internalError[i]]
      /\ tasks' = [i \in ErrorJudging |-> IF i \in O THEN "invalid" ELSE tasks[i]]
      /\ work' = [work EXCEPT ![h] = [job |-> j, step |-> "disable"]]
      /\ UNCHANGED <<made, validJudgings, decided, jurySideVars, errors, abandoned, notValid>>
  BY DEF InvalidateTasks, Marked
<1>2. /\ Made' = Made /\ j \in Made
      /\ e \in ErrorId /\ errors[e].status = "open" /\ O \subseteq Made
  BY <1>1, SameMade DEF WorkInv, WorkOK, Doing, NoWork, Outstanding
<1>3. e \in 1..MaxErrors /\ MaxErrors \in Nat
  BY <1>2, InternalErrorsAssumption DEF ErrorId
<1>4. /\ work'[h] = [job |-> j, step |-> "disable"]
      /\ \A k \in ErrorHost \ {h} : work'[k] = work[k]
  BY <1>1 DEF ErrorRows
<1>5. ErrorRows'
  <2>1. tasks' \in [ErrorJudging -> {"none", "free", "claimed", "invalid"}]
    BY <1>1 DEF ErrorRows
  <2>2. internalError' \in [ErrorJudging -> 0..MaxErrors]
    BY <1>1, <1>3 DEF ErrorRows
  <2> QED BY <1>1, <1>2, <2>1, <2>2 DEF ErrorRows, jurySideVars
<1>6. NoneBefore'
  BY <1>1, <1>2 DEF NoneBefore
<1>7. WorkInv'
  BY <1>1, <1>2, <1>4 DEF WorkInv, WorkOK, Doing, jurySideVars
<1>8. \A i : WorkingOn(i)' = WorkingOn(i)
  BY <1>4 DEF WorkingOn
<1>9. \A i \in Made : InGoodHands(i) => InGoodHands(i)'
  <2> SUFFICES ASSUME NEW i \in Made, InGoodHands(i)
               PROVE  InGoodHands(i)'
    OBVIOUS
  <2>1. i \in ErrorJudging
    BY DEF Made
  <2>2. CASE i \in O
    <3>1. internalError'[i] = e /\ errors'[e].status = "open" /\ e # 0
      BY <1>1, <1>2, <1>3, <2>1, <2>2
    <3> QED BY <3>1 DEF InGoodHands
  <2>3. CASE i \notin O
    <3>1. internalError'[i] = internalError[i] /\ tasks'[i] = tasks[i]
      BY <1>1, <2>1, <2>3
    <3> QED BY <1>1, <1>8, <3>1 DEF InGoodHands, jurySideVars
  <2> QED BY <2>2, <2>3
<1> QED BY <1>1, <1>5, <1>6, <1>7, <1>9, KeptInHand DEF jurySideVars

LEMMA DisableKeepsErrorInv ==
    ASSUME ErrorInv, NEW h \in ErrorHost, DisableExecutable(h)
    PROVE  ErrorInv'
<1> USE DEF ErrorInv, ErrorBase
<1> PICK j : j = work[h].job
  OBVIOUS
<1>1. /\ Doing(h, "disable") /\ allowJudge' = FALSE
      /\ work' = [work EXCEPT ![h] = [job |-> j, step |-> "giveback"]]
      /\ UNCHANGED <<jobVars, resolving, skipped, errors, internalError, abandoned, notValid>>
  BY DEF DisableExecutable
<1>2. Made' = Made /\ j \in Made
  BY <1>1, SameMade DEF jobVars, WorkInv, WorkOK, Doing, NoWork
<1>3. /\ work'[h] = [job |-> j, step |-> "giveback"]
      /\ \A k \in ErrorHost \ {h} : work'[k] = work[k]
  BY <1>1 DEF ErrorRows
<1>4. ErrorRows' /\ NoneBefore'
  BY <1>1, <1>2 DEF ErrorRows, NoneBefore, jobVars
<1>5. WorkInv'
  BY <1>1, <1>2, <1>3 DEF WorkInv, WorkOK, Doing
<1>6. \A i : WorkingOn(i)' = WorkingOn(i)
  BY <1>3 DEF WorkingOn
<1>7. \A i \in Made : InGoodHands(i) => InGoodHands(i)'
  BY <1>1, <1>6 DEF InGoodHands, jobVars
<1> QED BY <1>1, <1>4, <1>5, <1>7, KeptInHand DEF jobVars

(* The new judging replaces the old one: it is valid instead, and blocked   *)
(* until judging is allowed again.                                          *)
LEMMA GiveBackKeepsErrorInv ==
    ASSUME ErrorInv, NEW h \in ErrorHost, GiveBackJudging(h)
    PROVE  ErrorInv'
<1> USE DEF ErrorInv, ErrorBase
<1> PICK j : j = work[h].job
  OBVIOUS
<1> PICK s : s = j[1]
  OBVIOUS
<1> PICK new : new = NextJudging(s)
  OBVIOUS
<1>1. /\ Doing(h, "giveback") /\ made[s] < MaxJudgings
      /\ tasks' = [tasks EXCEPT ![j] = "invalid"]
      /\ validJudgings' = (validJudgings \ {j}) \union {new}
      /\ made' = [made EXCEPT ![s] = @ + 1]
      /\ notValid' = IF j \in validJudgings THEN notValid ELSE notValid \union {s}
      /\ work' = [work EXCEPT ![h] = NoWork]
      /\ UNCHANGED <<decided, jurySideVars, errors, internalError, abandoned>>
  BY DEF GiveBackJudging, GivenBack
<1>2. j \in Made /\ ~allowJudge
  BY <1>1 DEF WorkInv, WorkOK, Doing, NoWork
<1>3. j \in ErrorJudging /\ s \in SubmissionId
  BY <1>2 DEF Made, ErrorJudging
<1>4. /\ new \in ErrorJudging \ Made /\ Made' = Made \union {new}
      /\ made' \in [SubmissionId -> 0..MaxJudgings]
      /\ \A t \in SubmissionId : t # s => made'[t] = made[t]
  BY <1>1, <1>3, JudgingAdded DEF ErrorRows
<1>5. new[1] = s /\ new # j
  BY <1>2, <1>4 DEF NextJudging
<1>6. work'[h] = NoWork /\ \A k \in ErrorHost \ {h} : work'[k] = work[k]
  BY <1>1 DEF ErrorRows
<1>7. /\ tasks'[j] = "invalid" /\ tasks'[new] = "none"
      /\ \A i \in ErrorJudging : i # j => tasks'[i] = tasks[i]
  BY <1>1, <1>3, <1>4, <1>5 DEF ErrorRows, NoneBefore
<1>8. ErrorRows'
  BY <1>1, <1>4 DEF ErrorRows, jurySideVars
<1>9. NoneBefore'
  BY <1>2, <1>4, <1>7 DEF NoneBefore
<1>10. WorkInv'
  BY <1>1, <1>4, <1>6 DEF WorkInv, WorkOK, Doing, jurySideVars
<1>11. OneIsValid'
  <2> SUFFICES ASSUME NEW t \in SubmissionId \ notValid', made'[t] > 0
               PROVE  \E i \in Made' : ValidOf(t)' = {i}
    BY DEF OneIsValid
  <2>1. CASE t # s
    <3>1. ValidOf(t)' = ValidOf(t)
      BY <1>1, <1>5, <2>1 DEF ValidOf
    <3>2. made[t] > 0 /\ t \notin notValid
      BY <1>1, <1>4, <2>1
    <3> QED BY <1>4, <3>1, <3>2 DEF OneIsValid
  <2>2. CASE t = s
    <3>1. j \in validJudgings /\ s \notin notValid
      BY <1>1, <2>2
    <3>2. made[s] > 0
      <4>1. j[2] \in 1..MaxJudgings /\ j[2] <= made[s]
        BY <1>2 DEF Made, ErrorJudging
      <4>2. made[s] \in Nat
        BY <1>3, InternalErrorsAssumption DEF ErrorRows
      <4> QED BY <4>1, <4>2
    <3>3. PICK i \in Made : ValidOf(s) = {i}
      BY <1>3, <3>1, <3>2 DEF OneIsValid
    <3>4. ValidOf(s) = {j}
      BY <3>1, <3>3 DEF ValidOf
    <3>5. ValidOf(s)' = {new}
      BY <1>1, <1>5, <3>4 DEF ValidOf
    <3> QED BY <1>4, <2>2, <3>5
  <2> QED BY <2>1, <2>2
<1>12. NobodyForgotten'
  <2>1. InGoodHands(new)'
    BY <1>1, <1>2, <1>7 DEF InGoodHands, jurySideVars
  <2>2. \A i \in Made : InGoodHands(i) =>
            \/ i[1] \in abandoned' \union skipped'
            \/ \E k \in Made' : k[1] = i[1] /\ InGoodHands(k)'
    <3> SUFFICES ASSUME NEW i \in Made, InGoodHands(i)
                 PROVE  \E k \in Made' : k[1] = i[1] /\ InGoodHands(k)'
      OBVIOUS
    <3>1. CASE i = j
      BY <1>4, <1>5, <2>1, <3>1
    <3>2. CASE i # j
      <4>1. tasks'[i] = tasks[i]
        BY <1>7, <3>2 DEF Made
      <4>2. WorkingOn(i) \subseteq WorkingOn(i)'
        BY <1>6, <3>2 DEF WorkingOn
      <4>3. InGoodHands(i)'
        BY <1>1, <4>1, <4>2 DEF InGoodHands, jurySideVars
      <4> QED BY <1>4, <4>3
    <3> QED BY <3>1, <3>2
  <2>3. \A t \in SubmissionId : made'[t] > 0 =>
            made[t] > 0 \/ \E i \in Made' : i[1] = t /\ InGoodHands(i)'
    <3> SUFFICES ASSUME NEW t \in SubmissionId, made'[t] > 0
                 PROVE  made[t] > 0 \/ \E i \in Made' : i[1] = t /\ InGoodHands(i)'
      OBVIOUS
    <3>1. CASE t = s
      BY <1>4, <1>5, <2>1, <3>1
    <3>2. CASE t # s
      BY <1>4, <3>2
    <3> QED BY <3>1, <3>2
  <2> QED BY <1>1, <2>2, <2>3, HandedOver DEF jurySideVars
<1> QED BY <1>8, <1>9, <1>10, <1>11, <1>12

LEMMA IgnoreKeepsErrorInv ==
    ASSUME ErrorInv, NEW e \in ErrorId, IgnoreError(e)
    PROVE  ErrorInv'
<1> USE DEF ErrorInv, ErrorBase
<1>1. /\ errors[e].status = "open" /\ Handled
      /\ errors' = [errors EXCEPT ![e].status = "ignored"]
      /\ UNCHANGED <<jobVars, jurySideVars, internalError, work, abandoned, notValid>>
  BY DEF IgnoreError
<1>2. Made' = Made
  BY <1>1, SameMade DEF jobVars
<1>3. errors' \in [ErrorId -> [status : {"none", "open", "resolved", "ignored"},
                               description : Description \union {"none"}]]
  BY <1>1 DEF ErrorRows
<1>4. errors'[e].status = "ignored" /\ \A f \in ErrorId \ {e} : errors'[f] = errors[f]
  BY <1>1 DEF ErrorRows
<1>5. ErrorRows' /\ NoneBefore'
  BY <1>1, <1>2, <1>3 DEF ErrorRows, NoneBefore, jobVars, jurySideVars
<1>6. WorkInv'
  BY <1>1, <1>2 DEF WorkInv, WorkOK, Doing, Handled, jurySideVars
<1>7. \A i \in Made : InGoodHands(i) => InGoodHands(i)'
  <2> SUFFICES ASSUME NEW i \in Made, InGoodHands(i)
               PROVE  InGoodHands(i)'
    OBVIOUS
  <2>1. internalError[i] # 0 => internalError[i] \in ErrorId
    BY InternalErrorsAssumption DEF ErrorRows, ErrorId, Made
  <2>2. internalError[i] # 0 /\ errors[internalError[i]].status \in {"open", "ignored"} =>
            errors'[internalError[i]].status \in {"open", "ignored"}
    BY <1>4, <2>1
  <2>3. WorkingOn(i)' = WorkingOn(i)
    BY <1>1 DEF WorkingOn
  <2> QED BY <1>1, <2>2, <2>3 DEF InGoodHands, jobVars, jurySideVars
<1> QED BY <1>1, <1>5, <1>6, <1>7, KeptInHand DEF jobVars, jurySideVars

(* The judgings that the error is about are loaded to be rejudged, and      *)
(* those that were blocked get their judgetasks.                            *)
LEMMA ResolveKeepsErrorInv ==
    ASSUME ErrorInv, NEW e \in ErrorId, ResolveError(e)
    PROVE  ErrorInv'
<1> USE DEF ErrorInv, ErrorBase
<1> PICK U : U = Unblocked
  OBVIOUS
<1> PICK A : A = {j \in Made : internalError[j] = e}
  OBVIOUS
<1>1. /\ Handled /\ resolving = NotResolving
      /\ errors' = [errors EXCEPT ![e].status = "resolved"]
      /\ tasks' = [j \in ErrorJudging |-> IF j \in U THEN "free" ELSE tasks[j]]
      /\ resolving' = [id |-> e, judgings |-> A]
      /\ UNCHANGED <<made, validJudgings, decided, skipped, internalError, work, abandoned,
                     notValid>>
  BY DEF ResolveError
<1>2. Made' = Made /\ U = {j \in Made : tasks[j] = "none"}
  BY <1>1, SameMade DEF Unblocked
<1>3. errors' \in [ErrorId -> [status : {"none", "open", "resolved", "ignored"},
                               description : Description \union {"none"}]]
  BY <1>1 DEF ErrorRows
<1>4. \A f \in ErrorId \ {e} : errors'[f] = errors[f]
  BY <1>1 DEF ErrorRows
<1>5. resolving' \in [id : 0..MaxErrors, judgings : SUBSET ErrorJudging]
  <2>1. e \in 0..MaxErrors
    BY InternalErrorsAssumption DEF ErrorId
  <2>2. A \in SUBSET ErrorJudging
    BY DEF Made
  <2> QED BY <1>1, <2>1, <2>2
<1>6. ErrorRows'
  <2>1. tasks' \in [ErrorJudging -> {"none", "free", "claimed", "invalid"}]
    BY <1>1 DEF ErrorRows
  <2>2. resolving'.judgings \subseteq Made'
    BY <1>1, <1>2
  <2> QED BY <1>1, <1>2, <1>3, <1>5, <2>1, <2>2 DEF ErrorRows
<1>7. NoneBefore'
  BY <1>1, <1>2 DEF NoneBefore
<1>8. WorkInv'
  BY <1>1, <1>2 DEF WorkInv, WorkOK, Doing, Handled
<1>9. \A i \in Made : InGoodHands(i) => InGoodHands(i)'
  <2> SUFFICES ASSUME NEW i \in Made, InGoodHands(i)
               PROVE  InGoodHands(i)'
    OBVIOUS
  <2>1. i \in ErrorJudging
    BY DEF Made
  <2>2. CASE i \in U
    <3>1. tasks'[i] = "free"
      BY <1>1, <2>1, <2>2
    <3> QED BY <3>1 DEF InGoodHands
  <2>3. CASE i \in A
    BY <1>1, <2>3 DEF InGoodHands
  <2>4. CASE i \notin U /\ i \notin A
    <3>1. tasks'[i] = tasks[i] /\ tasks[i] # "none" /\ internalError[i] # e
      BY <1>1, <1>2, <2>1, <2>4
    <3>2. internalError[i] # 0 => errors'[internalError[i]] = errors[internalError[i]]
      <4>1. internalError[i] # 0 => internalError[i] \in ErrorId
        BY <2>1, InternalErrorsAssumption DEF ErrorRows, ErrorId
      <4> QED BY <1>4, <3>1, <4>1
    <3>3. WorkingOn(i)' = WorkingOn(i)
      BY <1>1 DEF WorkingOn
    <3>4. i \notin resolving.judgings
      BY <1>1 DEF NotResolving
    <3> QED BY <1>1, <3>1, <3>2, <3>3, <3>4 DEF InGoodHands
  <2> QED BY <2>2, <2>3, <2>4
<1> QED BY <1>1, <1>6, <1>7, <1>8, <1>9, KeptInHand

(* An affected judging leaves the list of those to be rejudged when its     *)
(* submission has a judging that is queued, or is skipped.                  *)
LEMMA RejudgeKeepsErrorInv ==
    ASSUME ErrorInv, NEW j \in ErrorJudging, RejudgeAffected(j)
    PROVE  ErrorInv'
<1> USE DEF ErrorInv, ErrorBase
<1> PICK s : s = j[1]
  OBVIOUS
<1>1. /\ j \in resolving.judgings
      /\ resolving' = IF resolving.judgings = {j} THEN NotResolving
                      ELSE [resolving EXCEPT !.judgings = @ \ {j}]
      /\ UNCHANGED <<validJudgings, decided, allowJudge, errors, internalError, work, abandoned,
                     notValid>>
  BY DEF RejudgeAffected
<1>2. s \in SubmissionId /\ j \in Made /\ MaxErrors \in Nat /\ made[s] \in Nat
  BY <1>1, InternalErrorsAssumption DEF ErrorJudging, ErrorRows
<1>3. /\ resolving' \in [id : 0..MaxErrors, judgings : SUBSET ErrorJudging]
      /\ resolving'.judgings = resolving.judgings \ {j}
  <2>1. CASE resolving.judgings = {j}
    BY <1>1, <1>2, <2>1 DEF NotResolving
  <2>2. CASE resolving.judgings # {j}
    BY <1>1, <2>2 DEF ErrorRows
  <2> QED BY <2>1, <2>2
<1>4. \A i : WorkingOn(i)' = WorkingOn(i)
  BY <1>1 DEF WorkingOn
<1>5. CASE /\ skipped' = skipped \union {s}
           /\ UNCHANGED <<made, tasks>>
  <2>1. Made' = Made
    BY <1>5, SameMade
  <2>2. ErrorRows' /\ NoneBefore'
    BY <1>1, <1>3, <1>5, <2>1 DEF ErrorRows, NoneBefore
  <2>3. WorkInv'
    BY <1>1, <2>1 DEF WorkInv, WorkOK, Doing
  <2>4. \A i \in Made : InGoodHands(i) => InGoodHands(i)' \/ i[1] \in skipped'
    <3> SUFFICES ASSUME NEW i \in Made, InGoodHands(i), i # j
                 PROVE  InGoodHands(i)'
      BY <1>5
    <3> QED BY <1>1, <1>3, <1>4, <1>5 DEF InGoodHands
  <2> QED BY <1>1, <1>5, <2>2, <2>3, <2>4, KeptInHand
<1>6. CASE /\ made[s] < MaxJudgings
           /\ made' = [made EXCEPT ![s] = @ + 1]
           /\ tasks' = [tasks EXCEPT ![NextJudging(s)] = "free"]
           /\ UNCHANGED skipped
  <2> PICK new : new = NextJudging(s)
    OBVIOUS
  <2>1. /\ new \in ErrorJudging \ Made /\ Made' = Made \union {new}
        /\ made' \in [SubmissionId -> 0..MaxJudgings]
        /\ \A t \in SubmissionId : t # s => made'[t] = made[t]
    BY <1>2, <1>6, JudgingAdded DEF ErrorRows
  <2>2. new[1] = s
    BY DEF NextJudging
  <2>3. tasks'[new] = "free" /\ \A i \in ErrorJudging : i # new => tasks'[i] = tasks[i]
    BY <1>6, <2>1 DEF ErrorRows
  <2>4. ErrorRows'
    BY <1>1, <1>3, <1>6, <2>1 DEF ErrorRows
  <2>5. NoneBefore'
    BY <2>1, <2>3 DEF NoneBefore
  <2>6. WorkInv'
    BY <1>1, <2>1 DEF WorkInv, WorkOK, Doing
  <2>7. made[s] # 0
    <3>1. j[2] \in 1..MaxJudgings /\ j[2] <= made[s]
      BY <1>2 DEF Made, ErrorJudging
    <3> QED BY <1>2, <3>1
  <2>8. OneIsValid'
    BY <1>1, <1>2, <1>6, <2>7, InvalidAdded
  <2>9. InGoodHands(new)'
    BY <2>3 DEF InGoodHands
  <2>10. \A i \in Made : InGoodHands(i) => \E k \in Made' : k[1] = i[1] /\ InGoodHands(k)'
    <3> SUFFICES ASSUME NEW i \in Made, InGoodHands(i)
                 PROVE  \E k \in Made' : k[1] = i[1] /\ InGoodHands(k)'
      OBVIOUS
    <3>1. CASE i = j
      BY <2>1, <2>2, <2>9, <3>1
    <3>2. CASE i # j
      <4>1. tasks'[i] = tasks[i]
        BY <2>1, <2>3 DEF Made
      <4>2. InGoodHands(i)'
        BY <1>1, <1>3, <1>4, <3>2, <4>1 DEF InGoodHands
      <4> QED BY <2>1, <4>2
    <3> QED BY <3>1, <3>2
  <2>11. \A t \in SubmissionId : made'[t] > 0 =>
             made[t] > 0 \/ \E i \in Made' : i[1] = t /\ InGoodHands(i)'
    <3> SUFFICES ASSUME NEW t \in SubmissionId, made'[t] > 0
                 PROVE  made[t] > 0 \/ \E i \in Made' : i[1] = t /\ InGoodHands(i)'
      OBVIOUS
    <3>1. CASE t = s
      BY <2>1, <2>2, <2>9, <3>1
    <3>2. CASE t # s
      BY <2>1, <3>2
    <3> QED BY <3>1, <3>2
  <2>12. NobodyForgotten'
    BY <1>1, <1>6, <2>10, <2>11, HandedOver
  <2> QED BY <2>4, <2>5, <2>6, <2>8, <2>12
<1> QED BY <1>5, <1>6 DEF RejudgeAffected

LEMMA ErrorInvariant == InternalErrorsSpec => []ErrorInv
<1>1. InternalErrorsInit => ErrorInv
  <2> SUFFICES ASSUME InternalErrorsInit
               PROVE  ErrorInv
    OBVIOUS
  <2> USE DEF InternalErrorsInit
  <2>1. MaxErrors \in Nat /\ MaxJudgings \in Nat
    BY InternalErrorsAssumption
  <2>2. ErrorRows
    BY <2>1 DEF ErrorRows, NotResolving
  <2>3. NoneBefore /\ WorkInv
    BY DEF NoneBefore, WorkInv, WorkOK
  <2>4. OneIsValid /\ NobodyForgotten
    BY DEF OneIsValid, NobodyForgotten
  <2> QED BY <2>2, <2>3, <2>4 DEF ErrorInv, ErrorBase
<1>2. ErrorInv /\ [InternalErrorsNext]_errorVars => ErrorInv'
  <2> SUFFICES ASSUME ErrorInv, [InternalErrorsNext]_errorVars
               PROVE  ErrorInv'
    OBVIOUS
  <2>1. CASE ReplaceExecutable \/ UNCHANGED errorVars
    <3>1. UNCHANGED <<jobVars, allowJudge, resolving, skipped, errors, internalError, work,
                      abandoned, notValid>>
      BY <2>1 DEF ReplaceExecutable, errorVars, jurySideVars
    <3>2. Made' = Made
      BY <3>1, SameMade DEF jobVars
    <3>3. ErrorBase'
      BY <3>1, <3>2 DEF ErrorInv, ErrorBase, ErrorRows, NoneBefore, WorkInv, WorkOK, Doing,
                        jobVars
    <3>4. \A i \in Made : InGoodHands(i) => InGoodHands(i)'
      BY <3>1 DEF InGoodHands, WorkingOn, jobVars
    <3> QED BY <3>1, <3>3, <3>4, KeptInHand DEF jobVars
  <2>2. ASSUME NEW h \in ErrorHost, JudgehostStep(h)
        PROVE  ErrorInv'
    BY <2>2, ClaimKeepsErrorInv, FinishKeepsErrorInv, InvalidateKeepsErrorInv,
       DisableKeepsErrorInv, GiveBackKeepsErrorInv, IgnoredKeepsErrorInv, ReportKeepsErrorInv,
       InsertKeepsErrorInv DEF JudgehostStep
  <2> QED BY <2>1, <2>2, SubmitKeepsErrorInv, IgnoreKeepsErrorInv, ResolveKeepsErrorInv,
             RejudgeKeepsErrorInv DEF InternalErrorsNext
<1> QED BY <1>1, <1>2, PTL DEF InternalErrorsSpec

(* However many judgehosts report errors, and whatever the jury ignores,    *)
(* resolves and rejudges, a submission has exactly one valid judging,       *)
(* unless giveBackJudging was called for a judging that was not valid.      *)
THEOREM ErrorsLeaveOneValid == InternalErrorsSpec => []OneValidAfterErrors
<1>1. ErrorInv => OneValidAfterErrors
  BY FS_Singleton DEF ErrorInv, OneIsValid, OneValidAfterErrors
<1> QED BY <1>1, ErrorInvariant, PTL

(* No internal error makes a submission disappear from all lists, but for   *)
(* those that a judgehost left as its report was ignored and those of which *)
(* the jury is told.                                                        *)
THEOREM ErrorsForgetNobody == InternalErrorsSpec => []NobodyForgotten
<1>1. ErrorInv => NobodyForgotten
  BY DEF ErrorInv
<1> QED BY <1>1, ErrorInvariant, PTL


----------------------------------------------------------------------------
(* All parts together.                                                      *)

(* The types of the queue, also when requests of a team overlap.            *)
LEMMA TeamPriorityTypeCorrect == TeamPrioritySpec => []TeamPriorityTypeOK
<1> DEFINE Inv == TeamPriorityTypeOK /\ PrioritiesBounded
<1>1. TeamPriorityInit => Inv
  BY TeamPriorityAssumption
     DEF TeamPriorityInit, TeamPriorityTypeOK, Stage, PrioritiesBounded
<1>2. Inv /\ [TeamPriorityNext]_priorityVars => Inv'
  <2> SUFFICES ASSUME Inv, [TeamPriorityNext]_priorityVars PROVE Inv'
    OBVIOUS
  <2>1. ASSUME NEW i \in SubmissionNo, NEW p \in Nat,
               teampriority' = [teampriority EXCEPT ![i] = p]
        PROVE  teampriority' \in [SubmissionNo -> Nat] /\ PrioritiesBounded'
    <3>1. PICK b \in Nat : \A k \in SubmissionNo : teampriority[k] <= b
      BY DEF PrioritiesBounded
    <3>2. \A k \in SubmissionNo : teampriority[k] \in Nat
      BY DEF TeamPriorityTypeOK
    <3>3. \A k \in SubmissionNo : teampriority'[k] = p \/ teampriority'[k] = teampriority[k]
      BY <2>1 DEF TeamPriorityTypeOK
    <3>4. b + p \in Nat /\ \A k \in SubmissionNo : teampriority'[k] <= b + p
      BY <3>1, <3>2, <3>3
    <3>5. PrioritiesBounded'
      BY <3>4 DEF PrioritiesBounded
    <3> QED  BY <2>1, <3>5 DEF TeamPriorityTypeOK
  <2>2. ASSUME NEW n \in TimeSteps, TimePasses(n) PROVE Inv'
    BY <2>2, TeamPriorityAssumption DEF TimePasses, TeamPriorityTypeOK, PrioritiesBounded
  <2>3. ASSUME NEW i \in SubmissionNo, NEW allowed \in BOOLEAN, TeamSubmits(i, allowed)
        PROVE  Inv'
    BY <2>3 DEF TeamSubmits, Moves, TeamPriorityTypeOK, Stage, PrioritiesBounded
  <2>4. ASSUME NEW i \in SubmissionNo, Unblock(i) \/ InsertQueueTask(i)
        PROVE  Inv'
    BY <2>4 DEF Unblock, InsertQueueTask, Moves, TeamPriorityTypeOK, Stage, PrioritiesBounded
  <2>5. ASSUME NEW i \in SubmissionNo, ReadQueue(i)
        PROVE  Inv'
    <3>1. NewPriority(i) \in Nat
      BY NewPriorityPlace
    <3> QED  BY <2>1, <2>5, <3>1 DEF ReadQueue, Moves, TeamPriorityTypeOK, Stage
  <2>6. ASSUME NEW i \in SubmissionNo, LeaveQueue(i)
        PROVE  Inv'
    BY <2>1, <2>6 DEF LeaveQueue, Moves, TeamPriorityTypeOK, Stage
  <2>7. CASE UNCHANGED priorityVars
    BY <2>7 DEF priorityVars, TeamPriorityTypeOK, PrioritiesBounded
  <2> QED  BY <2>2, <2>3, <2>4, <2>5, <2>6, <2>7 DEF TeamPriorityNext
<1> QED  BY <1>1, <1>2, PTL DEF TeamPrioritySpec

(* What the invariant of internal errors does not need to know.             *)
ErrorNotes ==
    /\ decided \subseteq Made
    /\ scriptOf \in [ErrorJudging -> 0..1] /\ version \in 0..1
    /\ rejudged \subseteq SubmissionId /\ abandoned \subseteq SubmissionId
    /\ skipped \subseteq SubmissionId /\ notValid \subseteq SubmissionId
    /\ allowJudge \in BOOLEAN

(* Judgings are never deleted.                                              *)
LEMMA JudgingsStay ==
    ASSUME ErrorBase, [InternalErrorsNext]_errorVars
    PROVE  Made \subseteq Made'
<1>1. made \in [SubmissionId -> 0..MaxJudgings] /\ MaxJudgings \in Nat \ {0}
  BY InternalErrorsAssumption DEF ErrorBase, ErrorRows
<1>2. ASSUME NEW s \in SubmissionId, made[s] < MaxJudgings, made' = [made EXCEPT ![s] = @ + 1]
      PROVE  Made \subseteq Made'
  BY <1>1, <1>2, JudgingAdded
<1>3. ASSUME UNCHANGED made PROVE Made \subseteq Made'
  BY <1>3, SameMade
<1>4. ASSUME NEW s \in SubmissionId, SubmitOrRejudge(s) PROVE Made \subseteq Made'
  <2>1. made[s] < MaxJudgings
    BY <1>1, <1>4 DEF SubmitOrRejudge
  <2> QED  BY <1>2, <1>4, <2>1 DEF SubmitOrRejudge
<1>5. ASSUME NEW h \in ErrorHost, GiveBackJudging(h) PROVE Made \subseteq Made'
  <2>1. work[h].job \in Made
    BY <1>5 DEF ErrorBase, WorkInv, WorkOK, GiveBackJudging, Doing, NoWork
  <2>2. work[h].job[1] \in SubmissionId
    BY <2>1 DEF Made, ErrorJudging
  <2> QED  BY <1>2, <1>5, <2>2 DEF GiveBackJudging
<1>6. ASSUME NEW j \in ErrorJudging, RejudgeAffected(j) PROVE Made \subseteq Made'
  <2>1. j[1] \in SubmissionId
    BY DEF ErrorJudging
  <2> QED  BY <1>2, <1>3, <1>6, <2>1 DEF RejudgeAffected
<1>7. ASSUME NEW h \in ErrorHost, JudgehostStep(h), ~GiveBackJudging(h)
      PROVE  Made \subseteq Made'
  BY <1>3, <1>7 DEF JudgehostStep, ClaimSome, FinishWork, InvalidateTasks, DisableExecutable,
                    ReportIgnored, ReportError, InsertError, jobVars
<1>8. CASE ReplaceExecutable \/ \E e \in ErrorId : IgnoreError(e) \/ ResolveError(e)
  BY <1>3, <1>8 DEF ReplaceExecutable, IgnoreError, ResolveError, jobVars
<1>9. CASE UNCHANGED errorVars
  BY <1>3, <1>9 DEF errorVars, jobVars
<1> QED  BY <1>4, <1>5, <1>6, <1>7, <1>8, <1>9 DEF InternalErrorsNext

LEMMA NextErrorNotes ==
    ErrorBase /\ ErrorNotes /\ [InternalErrorsNext]_errorVars => ErrorNotes'
<1> SUFFICES ASSUME ErrorBase, ErrorNotes, [InternalErrorsNext]_errorVars
             PROVE  ErrorNotes'
  OBVIOUS
<1>0. Made \subseteq Made' /\ Made \subseteq ErrorJudging
  BY JudgingsStay DEF Made
<1>1. ASSUME decided' \subseteq Made \/ decided' = decided,
             scriptOf' \in [ErrorJudging -> 0..1] \/ scriptOf' = scriptOf,
             version' \in 0..1, rejudged' \subseteq SubmissionId,
             abandoned' \subseteq SubmissionId, skipped' \subseteq SubmissionId,
             notValid' \subseteq SubmissionId, allowJudge' \in BOOLEAN
      PROVE  ErrorNotes'
  BY <1>0, <1>1 DEF ErrorNotes
<1> HIDE DEF ErrorBase
<1>2. ASSUME NEW h \in ErrorHost, work[h] # NoWork
      PROVE  work[h].job \in Made /\ work[h].job[1] \in SubmissionId
  <2>1. work[h].job \in Made
    BY <1>2 DEF ErrorBase, WorkInv, WorkOK
  <2> QED  BY <2>1 DEF Made, ErrorJudging
<1>3. \A h \in ErrorHost, step \in {"judge", "giveback"} : Doing(h, step) => work[h] # NoWork
  BY DEF Doing, NoWork
<1>4. ASSUME NEW s \in SubmissionId, SubmitOrRejudge(s) PROVE ErrorNotes'
  BY <1>1, <1>4 DEF SubmitOrRejudge, jurySideVars, ErrorNotes
<1>5. ASSUME NEW h \in ErrorHost, FinishWork(h) PROVE ErrorNotes'
  BY <1>1, <1>2, <1>3, <1>5 DEF FinishWork, jurySideVars, ErrorNotes
<1>6. ASSUME NEW h \in ErrorHost, NEW d \in Description, ReportIgnored(h, d)
      PROVE  ErrorNotes'
  BY <1>1, <1>2, <1>3, <1>6 DEF ReportIgnored, jobVars, jurySideVars, ErrorNotes
<1>7. ASSUME NEW h \in ErrorHost, GiveBackJudging(h) PROVE ErrorNotes'
  BY <1>1, <1>2, <1>3, <1>7 DEF GiveBackJudging, jurySideVars, ErrorNotes
<1>8. ASSUME NEW h \in ErrorHost,
             \/ \E j \in Made : ClaimSome(h, j)
             \/ InvalidateTasks(h)
             \/ \E d \in Description : ReportError(h, d)
             \/ \E e \in ErrorId : InsertError(h, e)
      PROVE  ErrorNotes'
  BY <1>1, <1>8 DEF ClaimSome, InvalidateTasks, ReportError, InsertError, jobVars, jurySideVars,
                    ErrorNotes
<1>9. ASSUME NEW h \in ErrorHost, DisableExecutable(h) PROVE ErrorNotes'
  BY <1>1, <1>9 DEF DisableExecutable, jobVars, ErrorNotes
<1>10. CASE ReplaceExecutable
  BY <1>1, <1>10 DEF ReplaceExecutable, jobVars, ErrorNotes
<1>11. ASSUME NEW e \in ErrorId, IgnoreError(e) PROVE ErrorNotes'
  BY <1>1, <1>11 DEF IgnoreError, jobVars, jurySideVars, ErrorNotes
<1>12. ASSUME NEW e \in ErrorId, ResolveError(e) PROVE ErrorNotes'
  <2>1. scriptOf' \in [ErrorJudging -> 0..1]
    BY <1>12 DEF ResolveError, ErrorNotes
  <2> QED  BY <1>1, <1>12, <2>1 DEF ResolveError, ErrorNotes
<1>13. ASSUME NEW j \in ErrorJudging, RejudgeAffected(j) PROVE ErrorNotes'
  <2>1. j[1] \in SubmissionId
    BY DEF ErrorJudging
  <2> QED  BY <1>1, <1>13, <2>1 DEF RejudgeAffected, ErrorNotes
<1>14. CASE UNCHANGED errorVars
  BY <1>1, <1>14 DEF errorVars, jobVars, jurySideVars, ErrorNotes
<1> QED  BY <1>4, <1>5, <1>6, <1>7, <1>8, <1>9, <1>10, <1>11, <1>12, <1>13, <1>14
         DEF InternalErrorsNext, JudgehostStep

(* The types of judgings, judgetasks and errors.                            *)
LEMMA InternalErrorsTypeCorrect == InternalErrorsSpec => []InternalErrorsTypeOK
<1>1. InternalErrorsInit => ErrorNotes
  BY DEF InternalErrorsInit, ErrorNotes
<1>2. ErrorInv => ErrorBase
  BY DEF ErrorInv
<1>3. ErrorBase /\ ErrorNotes => InternalErrorsTypeOK
  <2> SUFFICES ASSUME ErrorBase, ErrorNotes PROVE InternalErrorsTypeOK
    OBVIOUS
  <2>1. \A h \in ErrorHost : work[h].job \in Made \union {<<>>}
    BY DEF ErrorBase, WorkInv, WorkOK, NoWork
  <2>2. resolving.id \in 0..MaxErrors
    BY DEF ErrorBase, ErrorRows
  <2> QED  BY <2>1, <2>2 DEF InternalErrorsTypeOK, ErrorBase, ErrorRows, ErrorNotes
<1> QED  BY <1>1, <1>2, <1>3, NextErrorNotes, ErrorInvariant, PTL DEF InternalErrorsSpec

(* The composition of rejudgings, the queue and internal errors behaves,    *)
(* for each of them, as this part alone.                                    *)
THEOREM DomserverImplementsParts ==
    DomserverSpec => RejudgingSpec /\ TeamPrioritySpec /\ InternalErrorsSpec
<1>1. DomserverInit => RejudgingInit /\ TeamPriorityInit /\ InternalErrorsInit
  BY DEF DomserverInit
<1>2. [DomserverNext]_domserverVars =>
          /\ [RejudgingNext]_rejudgingVars
          /\ [TeamPriorityNext]_priorityVars
          /\ [InternalErrorsNext]_errorVars
  BY DEF DomserverNext, domserverVars
<1> QED  BY <1>1, <1>2, PTL
         DEF DomserverSpec, RejudgingSpec, TeamPrioritySpec, InternalErrorsSpec

(* All variables of these parts keep their types.                           *)
THEOREM DomserverTypeCorrect == DomserverSpec => []DomserverTypeOK
<1>1. RejudgingTypeOK /\ TeamPriorityTypeOK /\ InternalErrorsTypeOK => DomserverTypeOK
  BY DEF DomserverTypeOK
<1> QED  BY <1>1, DomserverImplementsParts, RejudgingTypeCorrect, TeamPriorityTypeCorrect,
            InternalErrorsTypeCorrect, PTL

=============================================================================
