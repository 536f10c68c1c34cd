-------------------------- MODULE FinalResultLemmas --------------------------
(****************************************************************************)
(* What getFinalResult promises for every number of test cases, every set   *)
(* of run results and every results_prio setting.                           *)
(****************************************************************************)
EXTENDS FinalResult, TLAPS

(* What is known of the runs can only grow: "more" has every result of "rs" *)
(* and possibly others.                                                     *)
Extends(more, rs) ==
    /\ DOMAIN more = DOMAIN rs
    /\ \A k \in DOMAIN rs : rs[k] # Pending => more[k] = rs[k]

(* At most one run decides a verdict, so the CHOOSE in getFinalResult is a  *)
(* definite choice.                                                         *)
LEMMA DeciderUnique ==
    ASSUME NEW n \in Nat, NEW rs \in [1..n -> RunOrPending],
           NEW i \in DOMAIN rs, NEW k \in DOMAIN rs,
           Decides(rs, i), Decides(rs, k)
    PROVE  i = k
<1>1. /\ i \in KnownPrefix(rs) /\ k \in KnownPrefix(rs)
      /\ rs[i] \in RunResult /\ rs[k] \in RunResult
  BY DEF Decides, IsBestRun, KnownPrefix, RunOrPending
<1>2. ResultsPrio[rs[i]] \in Nat /\ ResultsPrio[rs[k]] \in Nat
  BY <1>1, FinalResultAssumption
<1>3. ~(i < k)
  BY <1>1, <1>2 DEF Decides, IsBestRun
<1>4. ~(k < i)
  BY <1>1, <1>2 DEF Decides, IsBestRun
<1> QED  BY <1>3, <1>4

(* The verdict is the result of the run that decides it.                    *)
LEMMA VerdictOfDecider ==
    ASSUME NEW n \in Nat, NEW rs \in [1..n -> RunOrPending],
           NEW i \in DOMAIN rs, Decides(rs, i)
    PROVE  getFinalResult(rs) = rs[i]
<1>1. \A k \in DOMAIN rs : Decides(rs, k) => k = i
  BY DeciderUnique
<1> QED  BY <1>1 DEF getFinalResult

(* A run that decides the verdict still decides it when more runs are       *)
(* known.                                                                   *)
LEMMA DeciderStays ==
    ASSUME NEW n \in Nat,
           NEW rs \in [1..n -> RunOrPending], NEW more \in [1..n -> RunOrPending],
           Extends(more, rs),
           NEW i \in DOMAIN rs, Decides(rs, i)
    PROVE  Decides(more, i) /\ more[i] = rs[i]
<1>1. /\ i \in 1..n /\ i \in KnownPrefix(rs)
      /\ \A k \in 1..i : k \in 1..n /\ rs[k] # Pending /\ more[k] = rs[k]
      /\ more[i] = rs[i] /\ more[i] \in RunResult
  BY DEF Decides, IsBestRun, KnownPrefix, RunOrPending, Extends
<1>2. i \in KnownPrefix(more)
  BY <1>1 DEF KnownPrefix
<1>3. CASE \A k \in DOMAIN rs : rs[k] # Pending
  <2>1. more = rs
    BY <1>3 DEF Extends
  <2> QED  BY <2>1
<1>4. CASE HasMaximalPriority(rs[i])
  <2>1. ASSUME NEW k \in KnownPrefix(more)
        PROVE  IF k < i THEN ResultsPrio[more[k]] < ResultsPrio[more[i]]
                        ELSE ResultsPrio[more[k]] <= ResultsPrio[more[i]]
    <3>1. CASE k < i
      <4>1. k \in 1..i
        BY <3>1, <1>1 DEF KnownPrefix
      <4>2. k \in KnownPrefix(rs) /\ more[k] = rs[k]
        BY <4>1, <1>1 DEF KnownPrefix
      <4> QED  BY <4>2, <3>1, <1>1 DEF Decides, IsBestRun
    <3>2. CASE ~(k < i)
      <4>1. more[k] \in RunResult
        BY DEF KnownPrefix, RunOrPending
      <4> QED  BY <4>1, <3>2, <1>1, <1>4 DEF HasMaximalPriority
    <3> QED  BY <3>1, <3>2
  <2>2. IsBestRun(more, i)
    BY <2>1, <1>2 DEF IsBestRun
  <2> QED  BY <2>2, <1>1, <1>4 DEF Decides
<1> QED  BY <1>3, <1>4 DEF Decides

(* SubmissionService::getFinalResult is final: a verdict computed from some *)
(* of the runs is the verdict of any larger set of runs, whatever the       *)
(* remaining results are and in whichever order they were reported.         *)
THEOREM VerdictStable ==
    ASSUME NEW n \in Nat,
           NEW rs \in [1..n -> RunOrPending], NEW more \in [1..n -> RunOrPending],
           Extends(more, rs), getFinalResult(rs) # Pending
    PROVE  getFinalResult(more) = getFinalResult(rs)
<1>1. PICK i \in DOMAIN rs : Decides(rs, i)
  BY DEF getFinalResult
<1>2. getFinalResult(rs) = rs[i]
  BY <1>1, VerdictOfDecider
<1>3. Decides(more, i) /\ more[i] = rs[i]
  BY <1>1, DeciderStays
<1>4. getFinalResult(more) = more[i]
  BY <1>3, VerdictOfDecider
<1> QED  BY <1>2, <1>3, <1>4

=============================================================================
