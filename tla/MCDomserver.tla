---------------------------- MODULE MCDomserver ----------------------------
(****************************************************************************)
(* Instances of Rejudging, TeamPriority and InternalErrors.  They share no  *)
(* state here: a behaviour is one of the part that its first state chooses, *)
(* and the other parts stay as they are.                                    *)
(****************************************************************************)
EXTENDS Rejudging, TeamPriority, InternalErrors, TLC

CONSTANTS s1, s2, Parts

VARIABLE part

domserverVars == <<part, rejudgingVars, priorityVars, errorVars>>

DomserverInit == part \in Parts /\ RejudgingInit /\ TeamPriorityInit /\ InternalErrorsInit

DomserverNext ==
    /\ UNCHANGED part
    /\ \/ part = "rejudging" /\ RejudgingNext /\ UNCHANGED <<priorityVars, errorVars>>
       \/ part = "priority" /\ TeamPriorityNext /\ UNCHANGED <<rejudgingVars, errorVars>>
       \/ part = "errors" /\ InternalErrorsNext /\ UNCHANGED <<rejudgingVars, priorityVars>>

DomserverSpec == DomserverInit /\ [][DomserverNext]_domserverVars

MCSubmission == {s1, s2}
MCNumRuns == s1 :> 2 @@ s2 :> 1
MCKinds == {<<TRUE, 1>>, <<FALSE, 2>>}
MCTimeSteps == {20}

(* The judgehosts and the submissions of InternalErrors are interchangeable.*)
ErrorSymmetry == Permutations(ErrorHost) \union Permutations(SubmissionId)

(* All variables have their types.                                          *)
DomserverTypeOK == RejudgingTypeOK /\ TeamPriorityTypeOK /\ InternalErrorsTypeOK
=============================================================================
