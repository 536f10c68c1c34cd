-------------------------- MODULE FinalResultProofs --------------------------
(****************************************************************************)
(* Runs arrive in any order, yet the verdict does not change: the theorem   *)
(* about getFinalResult, for a judging as it goes on.  And the loop of the  *)
(* code computes that verdict: its invariant, by induction over the runs.   *)
(****************************************************************************)
EXTENDS FinalResultLoop, FinalResultLemmas, FoldLemmas

(* Every reachable assignment of results to runs is well formed.            *)
THEOREM TypeCorrect == Spec => []TypeOK
<1>1. Init => TypeOK
  BY DEF Init, TypeOK, RunOrPending
<1>2. TypeOK /\ [Next]_runs => TypeOK'
  BY DEF TypeOK, Next, AddRun, RunOrPending
<1> QED  BY <1>1, <1>2, PTL DEF Spec

(* Whatever the order in which the judgehosts report the runs of a judging, *)
(* a verdict that getFinalResult has determined never changes.              *)
THEOREM VerdictNeverChanges == Spec => VerdictFinal
<1>1. TypeOK /\ TypeOK' /\ [Next]_runs
        => [getFinalResult(runs) # Pending
              => getFinalResult(runs') = getFinalResult(runs)]_runs
  <2> SUFFICES ASSUME TypeOK, TypeOK', Next, getFinalResult(runs) # Pending
               PROVE  getFinalResult(runs') = getFinalResult(runs)
    OBVIOUS
  <2>1. Extends(runs', runs)
    BY DEF TypeOK, Next, AddRun, Extends
  <2> QED  BY <2>1, VerdictStable, NumTestsAssumption DEF TypeOK
<1> QED  BY <1>1, TypeCorrect, PTL DEF Spec, VerdictFinal

----------------------------------------------------------------------------
(* The loop of getFinalResult.                                              *)

(* A result has the greatest priority just when it is MaxPriority.          *)
LEMMA MaxPriorityValue ==
    ASSUME NEW r \in RunResult
    PROVE  /\ MaxPriority \in Nat
           /\ ResultsPrio[r] < MaxPriority <=> ~HasMaximalPriority(r)
<1> DEFINE S == {ResultsPrio[q] : q \in RunResult}
<1>1. ResultsPrio \in [RunResult -> Nat]
  BY FinalResultAssumption
<1>2. PICK x \in RunResult : \A q \in RunResult : ResultsPrio[q] <= ResultsPrio[x]
  BY <1>1, FinalResultLoopAssumption, GreatestExists
<1>3. \A q \in RunResult : ResultsPrio[q] \in Nat
  BY <1>1
<1>4. ResultsPrio[x] \in S /\ \A y \in S : ResultsPrio[x] >= y
  BY <1>2, <1>3
<1>5. \A y \in S : y \in Nat
  BY <1>3
<1> HIDE DEF S
<1>6. Max(S) \in S /\ \A y \in S : Max(S) >= y
  BY <1>4 DEF Max
<1>7. Max(S) = ResultsPrio[x]
  BY <1>4, <1>5, <1>6
<1>8. MaxPriority = ResultsPrio[x]
  BY <1>7 DEF MaxPriority, S
<1> QED  BY <1>2, <1>3, <1>8 DEF HasMaximalPriority

(* The loop variables.                                                      *)
LoopState == [best : RunOrPending, priority : Int, null : BOOLEAN]

LEMMA LoopStepType ==
    ASSUME NEW a \in LoopState, NEW r \in RunOrPending
    PROVE  LoopStep(a, r) \in LoopState
<1>1. CASE a.null
  BY <1>1 DEF LoopStep
<1>2. CASE ~a.null /\ r = Pending
  BY <1>2 DEF LoopStep, LoopState
<1>3. CASE ~a.null /\ r # Pending
  <2>1. r \in RunResult /\ ResultsPrio[r] \in Int
    BY <1>3, FinalResultAssumption DEF RunOrPending
  <2> QED  BY <1>3, <2>1 DEF LoopStep, LoopState
<1> QED  BY <1>1, <1>2, <1>3 DEF LoopState

(* What a run of the loop does with each of its variables.                  *)
LoopSteps(rs, n) == [i \in 1..n |-> [a \in LoopState |-> LoopStep(a, rs[i])]]

(* FoldLeft runs through the results in their order.                        *)
LEMMA LoopRuns ==
    ASSUME NEW n \in Nat, NEW rs \in [1..n -> RunOrPending]
    PROVE  \E acc : /\ IsRun(acc, n, LoopState, LoopStart, LoopSteps(rs, n))
                    /\ FoldLeft(LoopStep, LoopStart, rs) = acc[n]
<1> DEFINE h == LoopSteps(rs, n)
           Fold(f) == f = [d \in SUBSET (DOMAIN rs) |->
                               IF d = {} THEN LoopStart
                               ELSE LoopStep(f[d \ {Max(d)}], rs[Max(d)])]
           F == CHOOSE f : Fold(f)
<1>1. LoopStart \in LoopState
  BY DEF LoopStart, LoopState, RunOrPending
<1>2. /\ h \in Steps(1..n, LoopState)
      /\ \A i \in 1..n : \A a \in LoopState : h[i][a] = LoopStep(a, rs[i])
  BY LoopStepType DEF LoopSteps, Steps
<1>3. FoldLeft(LoopStep, LoopStart, rs) = F[DOMAIN rs]
  BY DEF FoldLeft, MapThenFoldSet
<1>4. DOMAIN rs = 1..n
  OBVIOUS
<1> HIDE DEF h
<1>5. PICK f : IsFold(f, 1..n, LoopState, LoopStart, h)
  <2>1. 1..n \in SUBSET (0..n)
    OBVIOUS
  <2> QED  BY <1>1, <1>2, <2>1, FoldExists
<1>6. Fold(f)
  <2>1. ASSUME NEW d \in SUBSET (1..n), d # {}
        PROVE  f[d] = LoopStep(f[d \ {Max(d)}], rs[Max(d)])
    <3>1. Max(d) \in 1..n
      <4>1. d \subseteq 0..n
        OBVIOUS
      <4>2. Max(d) \in d
        BY <2>1, <4>1, BoundedHasMax
      <4> QED  BY <4>2
    <3>2. f[d \ {Max(d)}] \in LoopState
      BY <1>5 DEF IsFold
    <3>3. f[d] = h[Max(d)][f[d \ {Max(d)}]]
      BY <1>5, <2>1 DEF IsFold
    <3> QED  BY <1>2, <3>1, <3>2, <3>3
  <2>2. f = [d \in SUBSET (1..n) |-> f[d]] /\ f[{}] = LoopStart
    BY <1>5 DEF IsFold
  <2> QED  BY <1>4, <2>1, <2>2
<1>7. Fold(F)
  <2> HIDE DEF Fold
  <2> QED  BY <1>6
<1> HIDE DEF F
<1>8. F[{}] = LoopStart
  BY <1>7
<1>9. ASSUME NEW k \in 1..n, F[1..(k - 1)] \in LoopState
      PROVE  F[1..k] = h[k][F[1..(k - 1)]]
  <2>1. 1..k # {} /\ Max(1..k) = k /\ (1..k) \ {Max(1..k)} = 1..(k - 1)
    <3>1. k \in Nat /\ k # 0
      OBVIOUS
    <3> QED  BY <3>1, LastPlace
  <2>2. 1..k \in SUBSET (DOMAIN rs)
    BY <1>4
  <2>3. F[1..k] = LoopStep(F[1..(k - 1)], rs[k])
    BY <1>7, <2>1, <2>2
  <2> QED  BY <1>2, <1>9, <2>3
<1> HIDE DEF Fold
<1>10. PICK acc : IsRun(acc, n, LoopState, LoopStart, h) /\ acc[n] = F[1..n]
  <2>1. TakesSteps(F, n, LoopState, LoopStart, h)
    BY <1>8, <1>9 DEF TakesSteps
  <2> QED  BY <1>1, <1>2, <2>1, FoldSteps
<1> QED  BY <1>3, <1>4, <1>10 DEF h

(* The runs among the first k that come before the first pending one.       *)
KnownAmong(rs, k) == {i \in 1..k : \A j \in 1..i : rs[j] # Pending}

(* Run i wins among the first k.                                            *)
WinsAmong(rs, k, i) ==
    /\ i \in KnownAmong(rs, k)
    /\ \A j \in KnownAmong(rs, k) :
           IF j < i THEN ResultsPrio[rs[j]] < ResultsPrio[rs[i]]
                    ELSE ResultsPrio[rs[j]] <= ResultsPrio[rs[i]]

(* The loop invariant: a is the state of the loop after k runs.             *)
LoopInv(rs, k, a) ==
    /\ a.null <=> \E i \in 1..k : rs[i] = Pending
    /\ KnownAmong(rs, k) = {} => a.best = Pending /\ a.priority = -1
    /\ KnownAmong(rs, k) # {} =>
           \E i \in 1..k : /\ WinsAmong(rs, k, i)
                           /\ a.best = rs[i] /\ a.priority = ResultsPrio[rs[i]]

(* A step of the loop keeps its invariant.                                  *)
LEMMA LoopStepInv ==
    ASSUME NEW n \in Nat, NEW rs \in [1..n -> RunOrPending], NEW k \in 1..n,
           NEW a \in LoopState, LoopInv(rs, k - 1, a)
    PROVE  LoopInv(rs, k, LoopStep(a, rs[k]))
<1> DEFINE b == LoopStep(a, rs[k])
<1>1. k - 1 \in Nat /\ 1..k = (1..(k - 1)) \union {k} /\ k \in Nat /\ k >= 1
  OBVIOUS
<1>2. ASSUME NEW i \in KnownAmong(rs, k)
      PROVE  rs[i] \in RunResult /\ ResultsPrio[rs[i]] \in Nat /\ ResultsPrio[rs[i]] > 0
  <2>1. i \in 1..n /\ rs[i] # Pending
    BY DEF KnownAmong
  <2> QED  BY <2>1, FinalResultAssumption DEF RunOrPending
<1>3. KnownAmong(rs, k - 1) \subseteq KnownAmong(rs, k)
  BY <1>1 DEF KnownAmong
<1>4. CASE \E j \in 1..k : rs[j] = Pending
  <2>1. KnownAmong(rs, k) = KnownAmong(rs, k - 1)
    <3>1. k \notin KnownAmong(rs, k)
      BY <1>4 DEF KnownAmong
    <3> QED  BY <1>1, <1>3, <3>1 DEF KnownAmong
  <2>2. b.null /\ b.best = a.best /\ b.priority = a.priority
    <3>1. CASE a.null
      BY <3>1 DEF LoopStep
    <3>2. CASE ~a.null
      <4>1. rs[k] = Pending
        BY <1>1, <1>4, <3>2 DEF LoopInv
      <4> QED  BY <3>2, <4>1 DEF LoopStep, LoopState
    <3> QED  BY <3>1, <3>2
  <2> HIDE DEF b
  <2>3. ASSUME NEW i \in 1..(k - 1), WinsAmong(rs, k - 1, i)
        PROVE  i \in 1..k /\ WinsAmong(rs, k, i)
    BY <1>1, <2>1, <2>3 DEF WinsAmong
  <2>4. LoopInv(rs, k, b)
    BY <1>4, <2>1, <2>2, <2>3 DEF LoopInv
  <2> QED  BY <2>4 DEF b
<1>5. CASE ~\E j \in 1..k : rs[j] = Pending
  <2>1. KnownAmong(rs, k) = KnownAmong(rs, k - 1) \union {k}
    BY <1>1, <1>5 DEF KnownAmong
  <2>2. ~a.null /\ rs[k] # Pending
    BY <1>1, <1>5 DEF LoopInv
  <2>3. b = IF ResultsPrio[rs[k]] > a.priority
            THEN [a EXCEPT !.best = rs[k], !.priority = ResultsPrio[rs[k]]] ELSE a
    BY <2>2 DEF LoopStep
  <2>4. k \in KnownAmong(rs, k) /\ ResultsPrio[rs[k]] \in Nat /\ ResultsPrio[rs[k]] > 0
    BY <1>2, <2>1
  <2>5. \A j \in KnownAmong(rs, k - 1) : j < k
    BY <1>1 DEF KnownAmong
  <2> HIDE DEF b
  <2>6. CASE ResultsPrio[rs[k]] > a.priority
    <3>1. b.best = rs[k] /\ b.priority = ResultsPrio[rs[k]] /\ ~b.null
      BY <2>2, <2>3, <2>6 DEF LoopState
    <3>2. ASSUME NEW j \in KnownAmong(rs, k - 1)
          PROVE  ResultsPrio[rs[j]] < ResultsPrio[rs[k]]
      <4>1. PICK i \in 1..(k - 1) :
                WinsAmong(rs, k - 1, i) /\ a.priority = ResultsPrio[rs[i]]
        BY <3>2 DEF LoopInv
      <4>2. ResultsPrio[rs[j]] <= ResultsPrio[rs[i]]
        BY <1>2, <1>3, <4>1 DEF WinsAmong
      <4>3. ResultsPrio[rs[j]] \in Nat /\ ResultsPrio[rs[i]] \in Nat
        BY <1>2, <1>3, <4>1 DEF WinsAmong
      <4> QED  BY <2>4, <2>6, <4>1, <4>2, <4>3
    <3>3. WinsAmong(rs, k, k)
      BY <2>1, <2>4, <2>5, <3>2, <1>1 DEF WinsAmong
    <3>4. LoopInv(rs, k, b)
      BY <1>1, <1>5, <2>1, <3>1, <3>3 DEF LoopInv
    <3> QED  BY <3>4 DEF b
  <2>7. CASE ~(ResultsPrio[rs[k]] > a.priority)
    <3>1. b = a
      BY <2>3, <2>7
    <3>2. KnownAmong(rs, k - 1) # {}
      BY <2>4, <2>7 DEF LoopInv
    <3>3. PICK i \in 1..(k - 1) :
              WinsAmong(rs, k - 1, i) /\ a.best = rs[i] /\ a.priority = ResultsPrio[rs[i]]
      BY <3>2 DEF LoopInv
    <3>4. i \in KnownAmong(rs, k - 1) /\ i < k /\ ResultsPrio[rs[i]] \in Nat
      BY <1>2, <1>3, <2>5, <3>3 DEF WinsAmong
    <3>5. ResultsPrio[rs[k]] <= ResultsPrio[rs[i]]
      BY <2>4, <2>7, <3>3, <3>4
    <3>6. i \in 1..k /\ WinsAmong(rs, k, i)
      BY <1>1, <2>1, <3>3, <3>4, <3>5 DEF WinsAmong
    <3>7. LoopInv(rs, k, b)
      BY <1>5, <2>1, <2>2, <3>1, <3>3, <3>6 DEF LoopInv
    <3> QED  BY <3>7 DEF b
  <2> QED  BY <2>6, <2>7
<1> QED  BY <1>4, <1>5

(* The invariant holds after every run.                                     *)
LEMMA LoopInvHolds ==
    ASSUME NEW n \in Nat, NEW rs \in [1..n -> RunOrPending], NEW acc,
           IsRun(acc, n, LoopState, LoopStart, LoopSteps(rs, n))
    PROVE  LoopInv(rs, n, acc[n])
<1> DEFINE T == {k \in 0..n : ~LoopInv(rs, k, acc[k])}
<1> SUFFICES ASSUME T # {} PROVE FALSE
  <2>1. n \in 0..n
    OBVIOUS
  <2> QED  BY <2>1
<1>1. PICK k \in T : \A j \in T : ~(<<j, k>> \in OpToRel(<, Nat))
  <2>1. T \subseteq Nat
    OBVIOUS
  <2> HIDE DEF T
  <2> QED  BY <2>1, NatLessThanWellFounded, WFMin
<1>2. k \in 0..n /\ ~LoopInv(rs, k, acc[k])
  OBVIOUS
<1>3. k # 0
  <2>1. 1..0 = {} /\ KnownAmong(rs, 0) = {}
    BY DEF KnownAmong
  <2>2. LoopInv(rs, 0, LoopStart)
    BY <2>1 DEF LoopInv, LoopStart
  <2> QED  BY <1>2, <2>2 DEF IsRun
<1>4. k - 1 \in 0..n /\ k \in 1..n /\ <<k - 1, k>> \in OpToRel(<, Nat)
  BY <1>2, <1>3 DEF OpToRel
<1>5. LoopInv(rs, k - 1, acc[k - 1])
  BY <1>1, <1>4
<1>6. acc[k - 1] \in LoopState
  BY <1>4 DEF IsRun
<1>7. acc[k] = LoopStep(acc[k - 1], rs[k])
  <2>1. acc[k] = LoopSteps(rs, n)[k][acc[k - 1]]
    BY <1>4 DEF IsRun
  <2> QED  BY <1>4, <1>6, <2>1 DEF LoopSteps
<1>8. LoopInv(rs, k, acc[k])
  BY <1>4, <1>5, <1>6, <1>7, LoopStepInv
<1> QED  BY <1>2, <1>8

(* The loop of SubmissionService::getFinalResult, with the variables of the *)
(* code and its early exits, computes the verdict as it is defined, for any *)
(* number of runs, known or pending.                                        *)
THEOREM LoopComputesVerdict ==
    ASSUME NEW n \in Nat, NEW rs \in [1..n -> RunOrPending]
    PROVE  LoopResult(rs) = getFinalResult(rs)
<1>1. PICK acc : /\ IsRun(acc, n, LoopState, LoopStart, LoopSteps(rs, n))
                 /\ FoldLeft(LoopStep, LoopStart, rs) = acc[n]
  BY LoopRuns
<1> DEFINE end == acc[n]
<1>2. LoopInv(rs, n, end)
  BY <1>1, LoopInvHolds
<1>3. LoopResult(rs) = IF end.null /\ end.priority < MaxPriority THEN Pending ELSE end.best
  BY <1>1 DEF LoopResult
<1> HIDE DEF end
<1>4. DOMAIN rs = 1..n /\ KnownAmong(rs, n) = KnownPrefix(rs)
  BY DEF KnownAmong, KnownPrefix
<1>5. CASE KnownPrefix(rs) = {}
  <2>1. LoopResult(rs) = Pending
    BY <1>2, <1>3, <1>4, <1>5 DEF LoopInv
  <2>2. \A i : ~Decides(rs, i)
    BY <1>5 DEF Decides, IsBestRun
  <2> QED  BY <2>1, <2>2 DEF getFinalResult
<1>6. CASE KnownPrefix(rs) # {}
  <2>1. PICK i \in 1..n : /\ WinsAmong(rs, n, i)
                          /\ end.best = rs[i] /\ end.priority = ResultsPrio[rs[i]]
    BY <1>2, <1>4, <1>6 DEF LoopInv
  <2>2. IsBestRun(rs, i)
    BY <1>4, <2>1 DEF WinsAmong, IsBestRun
  <2>3. rs[i] \in RunResult
    BY <2>2 DEF IsBestRun, KnownPrefix, RunOrPending
  <2>4. ResultsPrio[rs[i]] < MaxPriority <=> ~HasMaximalPriority(rs[i])
    BY <2>3, MaxPriorityValue
  <2>5. end.null <=> \E k \in 1..n : rs[k] = Pending
    BY <1>2 DEF LoopInv
  <2>6. CASE ~end.null \/ HasMaximalPriority(rs[i])
    <3>1. Decides(rs, i)
      BY <1>4, <2>2, <2>5, <2>6 DEF Decides
    <3>2. getFinalResult(rs) = rs[i]
      BY <1>4, <3>1, VerdictOfDecider
    <3> QED  BY <1>3, <2>1, <2>4, <2>6, <3>2
  <2>7. CASE end.null /\ ~HasMaximalPriority(rs[i])
    <3>1. LoopResult(rs) = Pending
      BY <1>3, <2>1, <2>4, <2>7
    <3>2. ASSUME NEW k \in DOMAIN rs, Decides(rs, k) PROVE FALSE
      <4>1. HasMaximalPriority(rs[k]) /\ k \in KnownPrefix(rs)
        BY <1>4, <2>5, <2>7, <3>2 DEF Decides, IsBestRun
      <4>2. rs[k] \in RunResult
        BY <4>1 DEF KnownPrefix, RunOrPending
      <4>3. \A q \in RunResult : ResultsPrio[q] \in Nat
        BY FinalResultAssumption
      <4>4. ResultsPrio[rs[k]] <= ResultsPrio[rs[i]]
        BY <2>2, <2>3, <4>1, <4>2, <4>3 DEF IsBestRun
      <4>5. HasMaximalPriority(rs[i])
        <5> SUFFICES ASSUME NEW q \in RunResult
                     PROVE  ResultsPrio[q] <= ResultsPrio[rs[i]]
          BY DEF HasMaximalPriority
        <5>1. ResultsPrio[q] <= ResultsPrio[rs[k]]
          BY <4>1 DEF HasMaximalPriority
        <5>2. /\ ResultsPrio[q] \in Nat /\ ResultsPrio[rs[k]] \in Nat
              /\ ResultsPrio[rs[i]] \in Nat
          BY <2>3, <4>2, <4>3
        <5> QED  BY <4>4, <5>1, <5>2
      <4> QED  BY <2>7, <4>5
    <3> QED  BY <3>1, <3>2 DEF getFinalResult
  <2> QED  BY <2>6, <2>7
<1> QED  BY <1>5, <1>6

(* In every state of a judging the loop computes the verdict.               *)
THEOREM LoopAlwaysComputesVerdict == Spec => []LoopComputesFinalResult
<1>1. TypeOK => LoopComputesFinalResult
  BY LoopComputesVerdict, NumTestsAssumption DEF TypeOK, LoopComputesFinalResult
<1> QED  BY <1>1, TypeCorrect, PTL
=============================================================================
