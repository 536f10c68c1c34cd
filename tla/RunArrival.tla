------------------------------ MODULE RunArrival ------------------------------
(****************************************************************************)
(* The runs of one judging arriving in any order, as parallel judging and   *)
(* the judgedaemon's asynchronous uploads deliver them, with the verdict    *)
(* that getFinalResult computes after each of them.                         *)
(****************************************************************************)
EXTENDS FinalResult

CONSTANT NumTests   \* the number of test cases of the problem

ASSUME NumTestsAssumption == NumTests \in Nat \ {0}

VARIABLE runs       \* judging_run.runresult, by test case rank

TypeOK == runs \in [1..NumTests -> RunOrPending]

Init == runs = [t \in 1..NumTests |-> Pending]

AddRun(t, r) ==
    /\ runs[t] = Pending
    /\ runs' = [runs EXCEPT ![t] = r]

Next == \E t \in 1..NumTests, r \in RunResult : AddRun(t, r)

Spec == Init /\ [][Next]_runs

(* A verdict, once determined, does not depend on the runs still to come,   *)
(* in whichever order they arrive (addSingleJudgingRun treats a changed     *)
(* verdict as an internal bug).                                             *)
VerdictFinal ==
    [][getFinalResult(runs) # Pending
         => getFinalResult(runs') = getFinalResult(runs)]_runs

=============================================================================
