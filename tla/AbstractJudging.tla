-------------------------- MODULE AbstractJudging ---------------------------
(****************************************************************************)
(* What teams are promised about the judging of their submissions, without  *)
(* judgehosts, queues, test cases, failures and retries: a submission that  *)
(* was accepted gets one of its allowed verdicts, once; the scoreboard      *)
(* shows that verdict, with it or later, and nothing else.                  *)
(****************************************************************************)
EXTENDS Naturals

CONSTANTS
    Entry,      \* the judgings there may be
    NoVerdict,  \* not judged yet
    Allowed     \* the verdicts a judging may get

VARIABLES accepted, verdict, shown

vars == <<accepted, verdict, shown>>

Init ==
    /\ accepted = {}
    /\ verdict = [j \in Entry |-> NoVerdict]
    /\ shown = [j \in Entry |-> NoVerdict]

Accept(j) ==
    /\ j \notin accepted
    /\ accepted' = accepted \union {j}
    /\ UNCHANGED <<verdict, shown>>

(* The scoreboard may learn of the verdict in the same step.                *)
Decide(j) ==
    /\ j \in accepted /\ verdict[j] = NoVerdict
    /\ \E v \in Allowed[j] :
         /\ verdict' = [verdict EXCEPT ![j] = v]
         /\ shown' \in {shown, [shown EXCEPT ![j] = v]}
    /\ UNCHANGED accepted

Show(j) ==
    /\ verdict[j] # NoVerdict /\ shown[j] = NoVerdict
    /\ shown' = [shown EXCEPT ![j] = verdict[j]]
    /\ UNCHANGED <<accepted, verdict>>

Next == \E j \in Entry : Accept(j) \/ Decide(j) \/ Show(j)

Spec == Init /\ [][Next]_vars

(* Every accepted submission is judged and its verdict is shown.            *)
Fairness == \A j \in Entry : WF_vars(Decide(j)) /\ WF_vars(Show(j))

FairSpec == Spec /\ Fairness
=============================================================================
