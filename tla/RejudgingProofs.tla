--------------------------- MODULE RejudgingProofs ---------------------------
(****************************************************************************)
(* Theorems about rejudgings, for any number of submissions, test cases,    *)
(* rejudgings, repetitions and jury members.                                *)
(****************************************************************************)
EXTENDS Rejudging, FiniteSetTheorems, TLAPS

(* The submissions that have a judging in a rejudging.                      *)
Subs(r) == {s \in Submission : <<s, r>> \in judgings}

(* Just the judgings that exist have a handler, and the first judging of a  *)
(* submission is over.                                                      *)
HandlersExist ==
    \A j \in JudgingId :
        /\ j \in judgings <=> handler[j] # "none"
        /\ j[2] = 0 => handler[j] = "over"

(* A submission has a judging in the rejudging it belongs to, and the jury  *)
(* goes through submissions with a judging in the rejudging it finishes.    *)
AssociatedExist ==
    \A s \in Submission : rejudgingid[s] # 0 => <<s, rejudgingid[s]>> \in judgings

FinishedExist ==
    \A m \in Jury : \A s \in finish[m].submissions :
        finish[m].rejudging # 0 /\ <<s, finish[m].rejudging>> \in judgings

(* OneValidJudging, without counting.                                       *)
OneValid ==
    \A s \in Submission : \E j \in valid : j[1] = s /\ \A i \in valid : i[1] = s => i = j

ValidInv == RejudgingTypeOK /\ HandlersExist /\ AssociatedExist /\ FinishedExist /\ OneValid

-----------------------------------------------------------------------------
(* Judgings are pairs of a submission and a rejudging.                      *)
LEMMA JudgingPair ==
    /\ \A j \in JudgingId : j[1] \in Submission /\ j[2] \in 0..NumRejudgings /\ j = <<j[1], j[2]>>
    /\ \A s \in Submission, r \in 0..NumRejudgings : <<s, r>> \in JudgingId
  BY DEF JudgingId

LEMMA IdsType == /\ NumRejudgings \in Nat
                 /\ \A r \in RejudgingId : r \in 0..NumRejudgings /\ r # 0
                 /\ \A r \in 0..NumRejudgings : r # 0 => r \in RejudgingId
                 /\ 0 \in 0..NumRejudgings /\ 0 \notin RejudgingId
  BY RejudgingAssumption DEF RejudgingId

LEMMA SubsOfJudgings ==
    ASSUME RejudgingTypeOK, NEW r \in RejudgingId
    PROVE  {i[1] : i \in JudgingsOf(r)} = Subs(r)
<1>1. \A i \in JudgingsOf(r) : i \in JudgingId /\ i \in judgings /\ i[2] = r
  BY DEF JudgingsOf, RejudgingTypeOK
<1>2. \A i \in JudgingsOf(r) : i[1] \in Subs(r)
  BY <1>1, JudgingPair DEF Subs
<1>3. ASSUME NEW s \in Subs(r) PROVE <<s, r>> \in JudgingsOf(r) /\ <<s, r>>[1] = s
  BY DEF Subs, JudgingsOf
<1> QED  BY <1>2, <1>3

LEMMA InitValidInv == RejudgingInit => ValidInv
<1> SUFFICES ASSUME RejudgingInit PROVE ValidInv
  OBVIOUS
<1>1. judgings \subseteq JudgingId
  BY IdsType DEF RejudgingInit, JudgingId
<1>2. rejudging \in [RejudgingId -> RejudgingRow]
  BY IdsType DEF RejudgingInit, NoRejudging, RejudgingRow
<1>3. left \in [JudgingId -> Nat]
  BY JudgingPair, RejudgingAssumption DEF RejudgingInit
<1>4. RejudgingTypeOK
  BY <1>1, <1>2, <1>3, IdsType DEF RejudgingInit, RejudgingTypeOK, NotFinishing
<1>5. HandlersExist
  <2> SUFFICES ASSUME NEW j \in JudgingId
               PROVE  (j \in judgings <=> handler[j] # "none") /\ (j[2] = 0 => handler[j] = "over")
    BY DEF HandlersExist
  <2>1. j \in judgings <=> j[2] = 0
    <3>1. PICK s \in Submission, r \in 0..NumRejudgings : j = <<s, r>>
      BY DEF JudgingId
    <3>2. <<s, r>> \in Submission \X {0} <=> r = 0
      OBVIOUS
    <3> QED  BY <3>1, <3>2 DEF RejudgingInit
  <2>2. handler[j] = IF j[2] = 0 THEN "over" ELSE "none"
    BY DEF RejudgingInit
  <2> QED  BY <2>1, <2>2
<1>6. OneValid
  <2> SUFFICES ASSUME NEW s \in Submission
               PROVE  \E j \in valid : j[1] = s /\ \A i \in valid : i[1] = s => i = j
    BY DEF OneValid
  <2>1. <<s, 0>> \in valid
    BY DEF RejudgingInit
  <2>2. \A i \in valid : i[1] = s => i = <<s, 0>>
    BY DEF RejudgingInit
  <2> QED  BY <2>1, <2>2
<1> QED
  BY <1>4, <1>5, <1>6 DEF ValidInv, AssociatedExist, FinishedExist, RejudgingInit, NotFinishing

HandlerState ==
    {"none", "queued", "work", "read", "flush", "count", "repeat", "create", "compile", "over"}

(* A judging whose judging is under way belongs to a rejudging.             *)
LEMMA HandlerOfJudging ==
    ASSUME ValidInv, NEW j \in JudgingId, handler[j] \notin {"none", "over"}
    PROVE  j \in judgings /\ j[2] \in RejudgingId /\ j[1] \in Submission /\ j = <<j[1], j[2]>>
  BY JudgingPair, IdsType DEF ValidInv, HandlersExist

(* A handler that goes on.                                                  *)
LEMMA HandlerMoves ==
    ASSUME ValidInv, NEW j \in JudgingId, handler[j] \notin {"none", "over"},
           NEW to \in HandlerState \ {"none"},
           handler' = [handler EXCEPT ![j] = to], UNCHANGED judgings
    PROVE  /\ handler' \in [JudgingId -> HandlerState]
           /\ HandlersExist'
           /\ handler'[j] = to /\ \A i \in JudgingId : i # j => handler'[i] = handler[i]
  BY HandlerOfJudging, IdsType DEF ValidInv, RejudgingTypeOK, HandlersExist, HandlerState

(* Making a judging the valid one of its submission.                        *)
LEMMA MadeValidIsOne ==
    ASSUME ValidInv, NEW j \in judgings, UNCHANGED judgings,
           valid' = MadeValid(j)
    PROVE  valid' \subseteq judgings /\ OneValid'
<1>1. j \in JudgingId /\ \A i \in judgings : i \in JudgingId
  BY DEF ValidInv, RejudgingTypeOK
<1>2. valid' \subseteq judgings /\ j \in valid'
  BY DEF MadeValid, ValidInv, RejudgingTypeOK
<1>3. \A i \in valid' : i[1] = j[1] => i = j
  BY DEF MadeValid, JudgingsFor, ValidInv, RejudgingTypeOK
<1>4. \A i : i[1] # j[1] => (i \in valid' <=> i \in valid)
  BY DEF MadeValid, JudgingsFor
<1>5. ASSUME NEW s \in Submission
      PROVE  \E k \in valid' : k[1] = s /\ \A i \in valid' : i[1] = s => i = k
  <2>1. CASE s = j[1]
    BY <1>2, <1>3, <2>1
  <2>2. CASE s # j[1]
    <3>1. PICK k \in valid : k[1] = s /\ \A i \in valid : i[1] = s => i = k
      BY DEF ValidInv, OneValid
    <3> QED  BY <1>4, <2>2, <3>1
  <2> QED  BY <2>1, <2>2
<1> QED  BY <1>2, <1>5 DEF OneValid

(* The first part of maybeUpdateActiveJudging().                            *)
LEMMA AppliedAutomatically ==
    ASSUME ValidInv, NEW j \in judgings, UNCHANGED judgings,
           ApplyAutomatically(j)
    PROVE  /\ valid' \subseteq judgings /\ OneValid'
           /\ rejudgingid' \in [Submission -> 0..NumRejudgings]
           /\ AssociatedExist'
           /\ \A s \in Submission : rejudgingid'[s] \in {0, rejudgingid[s]}
<1>1. CASE rejudging[j[2]].autoApply
  <2>1. valid' = MadeValid(j) /\ rejudgingid' = [rejudgingid EXCEPT ![j[1]] = 0]
    BY <1>1 DEF ApplyAutomatically
  <2>2. /\ rejudgingid' \in [Submission -> 0..NumRejudgings]
        /\ \A s \in Submission : rejudgingid'[s] \in {0, rejudgingid[s]}
    BY <2>1, IdsType DEF ValidInv, RejudgingTypeOK
  <2> QED  BY <2>1, <2>2, MadeValidIsOne DEF AssociatedExist, ValidInv
<1>2. CASE ~rejudging[j[2]].autoApply
  BY <1>2 DEF ApplyAutomatically, ValidInv, RejudgingTypeOK, OneValid, AssociatedExist
<1> QED  BY <1>1, <1>2

LEMMA CreateValidInv ==
    ASSUME ValidInv, NEW r \in RejudgingId, NEW S \in SUBSET Submission,
           NEW auto \in BOOLEAN, NEW repeat \in Nat, Create(r, S, auto, repeat)
    PROVE  ValidInv'
<1>1. NewRow(r, auto, repeat, 0) \in RejudgingRow
  BY IdsType DEF NewRow, RejudgingRow
<1>2. /\ rejudging' \in [RejudgingId -> RejudgingRow]
      /\ creating' \in [RejudgingId -> SUBSET Submission]
      /\ taken' \in [RejudgingId -> SUBSET Submission]
  BY <1>1 DEF Create, NewRejudging, ValidInv, RejudgingTypeOK
<1> QED
  BY <1>2 DEF Create, judgingVars, handlerVars, ValidInv, RejudgingTypeOK, HandlersExist,
              AssociatedExist, FinishedExist, OneValid

LEMMA CreateJudgingValidInv ==
    ASSUME ValidInv, NEW r \in RejudgingId, NEW s \in Submission, CreateJudging(r, s)
    PROVE  ValidInv'
<1>1. <<s, r>> \in JudgingId /\ r # 0 /\ r \in 0..NumRejudgings
  BY JudgingPair, IdsType
<1>2. /\ UNCHANGED <<rejudging, valid, result, endtime, left, aborted, todoSeen, taken, finish>>
      /\ creating' \in [RejudgingId -> SUBSET Submission]
  BY DEF CreateJudging, ValidInv, RejudgingTypeOK
<1>3. CASE Skipped(r, s)
  BY <1>2, <1>3 DEF CreateJudging, ValidInv, RejudgingTypeOK, HandlersExist,
                    AssociatedExist, FinishedExist, OneValid
<1>4. CASE ~Skipped(r, s)
  <2>1. /\ rejudgingid' = [rejudgingid EXCEPT ![s] = IF @ = 0 THEN r ELSE @]
        /\ judgings' = judgings \union {<<s, r>>}
        /\ handler' = [handler EXCEPT ![<<s, r>>] = "queued"]
    BY <1>4 DEF CreateJudging
  <2>2. RejudgingTypeOK'
    BY <1>1, <1>2, <2>1 DEF ValidInv, RejudgingTypeOK
  <2>3. HandlersExist'
    BY <1>1, <2>1, JudgingPair DEF ValidInv, RejudgingTypeOK, HandlersExist
  <2>4. AssociatedExist'
    BY <1>1, <2>1 DEF ValidInv, RejudgingTypeOK, AssociatedExist
  <2> QED  BY <1>2, <2>1, <2>2, <2>3, <2>4 DEF ValidInv, FinishedExist, OneValid
<1> QED  BY <1>3, <1>4

LEMMA CreateEndValidInv ==
    ASSUME ValidInv, NEW r \in RejudgingId, CreateEnd(r)
    PROVE  ValidInv'
<1>1. /\ rejudging' \in [RejudgingId -> RejudgingRow]
      /\ taken' \in [RejudgingId -> SUBSET Submission]
  BY DEF CreateEnd, ValidInv, RejudgingTypeOK, RejudgingRow
<1> QED
  BY <1>1 DEF CreateEnd, judgingVars, handlerVars, ValidInv, RejudgingTypeOK, HandlersExist,
              AssociatedExist, FinishedExist, OneValid

(* Steps of a handler that touch neither rejudgings nor the valid judgings. *)
LEMMA QuietValidInv ==
    ASSUME ValidInv, NEW j \in JudgingId, handler[j] \notin {"none", "over"},
           NEW to \in HandlerState \ {"none"}, handler' = [handler EXCEPT ![j] = to],
           UNCHANGED <<rejudging, rejudgingid, judgings, valid, createVars, finish>>,
           result' \in [JudgingId -> {"null", "judged", "aborted"}],
           endtime' \subseteq judgings, left' \in [JudgingId -> Nat], aborted' \subseteq judgings,
           todoSeen' \in [JudgingId -> SUBSET JudgingId]
    PROVE  ValidInv'
<1>1. HandlersExist' /\ handler' \in [JudgingId -> HandlerState]
  BY HandlerMoves
<1>2. RejudgingTypeOK'
  BY <1>1 DEF ValidInv, RejudgingTypeOK, createVars, HandlerState
<1> QED  BY <1>1, <1>2 DEF ValidInv, AssociatedExist, FinishedExist, OneValid

LEMMA ClaimValidInv == ASSUME ValidInv, NEW j \in JudgingId, Claim(j) PROVE ValidInv'
  BY QuietValidInv DEF Claim, judgingVars, ValidInv, RejudgingTypeOK, HandlerState

LEMMA ReadResultValidInv ==
    ASSUME ValidInv, NEW j \in JudgingId, NEW known \in BOOLEAN, ReadResult(j, known)
    PROVE  ValidInv'
<1>1. aborted' \subseteq judgings
  BY HandlerOfJudging DEF ReadResult, ValidInv, RejudgingTypeOK
<1> QED
  BY <1>1, QuietValidInv DEF ReadResult, judgingVars, ValidInv, RejudgingTypeOK, HandlerState

LEMMA CompileBeginValidInv ==
    ASSUME ValidInv, NEW j \in JudgingId, CompileBegin(j) PROVE ValidInv'
<1>1. todoSeen' \in [JudgingId -> SUBSET JudgingId]
  BY DEF CompileBegin, ValidInv, RejudgingTypeOK, Todo, JudgingsOf
<1> QED
  BY <1>1, QuietValidInv DEF CompileBegin, judgingVars, ValidInv, RejudgingTypeOK, HandlerState

(* Steps of a handler that may apply its judging.                           *)
LEMMA ApplyingValidInv ==
    ASSUME ValidInv, NEW j \in JudgingId, handler[j] \notin {"none", "over"},
           NEW to \in HandlerState \ {"none"}, handler' = [handler EXCEPT ![j] = to],
           ApplyAutomatically(j), rejudging' \in [RejudgingId -> RejudgingRow],
           UNCHANGED <<judgings, createVars, finish>>,
           result' \in [JudgingId -> {"null", "judged", "aborted"}],
           endtime' \subseteq judgings, left' \in [JudgingId -> Nat], aborted' \subseteq judgings,
           todoSeen' \in [JudgingId -> SUBSET JudgingId]
    PROVE  ValidInv'
<1>1. HandlersExist' /\ handler' \in [JudgingId -> HandlerState] /\ j \in judgings
  BY HandlerMoves, HandlerOfJudging
<1>2. /\ valid' \subseteq judgings /\ OneValid' /\ AssociatedExist'
      /\ rejudgingid' \in [Submission -> 0..NumRejudgings]
  BY <1>1, AppliedAutomatically
<1>3. RejudgingTypeOK'
  BY <1>1, <1>2 DEF ValidInv, RejudgingTypeOK, createVars, HandlerState
<1> QED  BY <1>1, <1>2, <1>3 DEF ValidInv, FinishedExist

LEMMA AddRunValidInv == ASSUME ValidInv, NEW j \in JudgingId, AddRun(j) PROVE ValidInv'
<1>1. left' \in [JudgingId -> Nat]
  BY DEF AddRun, ValidInv, RejudgingTypeOK
<1> QED
  BY <1>1, ApplyingValidInv DEF AddRun, ValidInv, RejudgingTypeOK, HandlerState

LEMMA FlushValidInv == ASSUME ValidInv, NEW j \in JudgingId, Flush(j) PROVE ValidInv'
<1>1. /\ j \in judgings /\ handler[j] \notin {"none", "over"}
      /\ result' \in [JudgingId -> {"null", "judged", "aborted"}]
  BY HandlerOfJudging DEF Flush, ValidInv, RejudgingTypeOK
<1>2. CASE /\ endtime' = endtime \union {j}
           /\ ApplyAutomatically(j)
           /\ handler' = [handler EXCEPT ![j] = "count"]
  BY <1>1, <1>2, ApplyingValidInv DEF Flush, ValidInv, RejudgingTypeOK, HandlerState
<1>3. CASE /\ handler' = [handler EXCEPT ![j] = IF j \in aborted THEN "over" ELSE "work"]
           /\ UNCHANGED <<endtime, valid, rejudgingid>>
  BY <1>1, <1>3, QuietValidInv DEF Flush, ValidInv, RejudgingTypeOK, HandlerState
<1> QED  BY <1>2, <1>3 DEF Flush

(* The rest of maybeUpdateActiveJudging() only ends the rejudging.          *)
LEMMA RowEnds ==
    ASSUME ValidInv, NEW r \in RejudgingId, NEW todo,
           EndForRepetition(r, todo) \/ EndAutomatically(r, todo)
    PROVE  /\ rejudging' \in [RejudgingId -> RejudgingRow]
           /\ \A q \in RejudgingId : q # r => rejudging'[q] = rejudging[q]
           /\ \/ rejudging'[r] = rejudging[r]
              \/ rejudging'[r] = [rejudging[r] EXCEPT !.ended = TRUE]
              \/ rejudging'[r] = [rejudging[r] EXCEPT !.ended = TRUE, !.valid = FALSE]
<1>1. rejudging \in [RejudgingId -> RejudgingRow] /\ rejudging[r] \in RejudgingRow
  BY DEF ValidInv, RejudgingTypeOK
<1>2. /\ [rejudging[r] EXCEPT !.ended = TRUE] \in RejudgingRow
      /\ [rejudging[r] EXCEPT !.ended = TRUE, !.valid = FALSE] \in RejudgingRow
  BY <1>1 DEF RejudgingRow
<1>3. CASE rejudging' = [rejudging EXCEPT ![r].ended = TRUE, ![r].valid = FALSE]
  <2>1. rejudging' = [rejudging EXCEPT ![r] = [rejudging[r] EXCEPT !.ended = TRUE, !.valid = FALSE]]
    BY <1>1, <1>3
  <2> QED  BY <1>1, <1>2, <2>1
<1>4. CASE rejudging' = [rejudging EXCEPT ![r].ended = TRUE]
  <2>1. rejudging' = [rejudging EXCEPT ![r] = [rejudging[r] EXCEPT !.ended = TRUE]]
    BY <1>1, <1>4
  <2> QED  BY <1>1, <1>2, <2>1
<1>5. CASE UNCHANGED rejudging
  BY <1>1, <1>5
<1> QED  BY <1>3, <1>4, <1>5 DEF EndForRepetition, EndAutomatically

LEMMA CountValidInv ==
    ASSUME ValidInv, NEW j \in JudgingId, NEW next \in Progress, Count(j, next)
    PROVE  ValidInv'
<1>1. j[2] \in RejudgingId /\ handler[j] \notin {"none", "over"}
  BY HandlerOfJudging DEF Count
<1>2. rejudging' \in [RejudgingId -> RejudgingRow]
  BY <1>1, RowEnds DEF Count, EndRejudging
<1>3. HandlersExist' /\ handler' \in [JudgingId -> HandlerState]
  BY <1>1, HandlerMoves DEF Count, judgingVars, Progress, HandlerState
<1>4. RejudgingTypeOK'
  BY <1>2, <1>3 DEF Count, judgingVars, createVars, ValidInv, RejudgingTypeOK, HandlerState
<1> QED
  BY <1>3, <1>4 DEF Count, judgingVars, ValidInv, AssociatedExist, FinishedExist, OneValid

LEMMA ResetValidInv ==
    ASSUME ValidInv, NEW j \in JudgingId, ResetSubmissions(j) PROVE ValidInv'
<1>1. handler[j] \notin {"none", "over"}
  BY DEF ResetSubmissions
<1>2. HandlersExist' /\ handler' \in [JudgingId -> HandlerState]
  BY <1>1, HandlerMoves DEF ResetSubmissions, judgingVars, HandlerState
<1>3. /\ rejudgingid' \in [Submission -> 0..NumRejudgings]
      /\ \A s \in Submission : rejudgingid'[s] \in {0, rejudgingid[s]}
  BY IdsType DEF ResetSubmissions, ValidInv, RejudgingTypeOK
<1>4. RejudgingTypeOK'
  BY <1>2, <1>3 DEF ResetSubmissions, judgingVars, createVars, ValidInv, RejudgingTypeOK,
                    HandlerState
<1> QED
  BY <1>2, <1>3, <1>4 DEF ResetSubmissions, judgingVars, ValidInv, AssociatedExist,
                          FinishedExist, OneValid

LEMMA RepeatValidInv ==
    ASSUME ValidInv, NEW j \in JudgingId, NEW r \in RejudgingId, NEW next \in Progress,
           Repeat(j, r, next)
    PROVE  ValidInv'
<1>1. j[2] \in RejudgingId /\ handler[j] \notin {"none", "over"}
  BY HandlerOfJudging DEF Repeat
<1>2. HandlersExist' /\ handler' \in [JudgingId -> HandlerState]
  BY <1>1, HandlerMoves DEF Repeat, judgingVars, Progress, HandlerState
<1>3. rejudging[j[2]] \in RejudgingRow
  BY <1>1 DEF ValidInv, RejudgingTypeOK
<1>4. NewRow(r, FALSE, rejudging[j[2]].repeat, rejudging[j[2]].first) \in RejudgingRow
  BY <1>3, IdsType DEF NewRow, RejudgingRow
<1> DEFINE S == {i[1] : i \in JudgingsOf(j[2])}
<1>5. S \subseteq Submission
  BY JudgingPair DEF JudgingsOf, ValidInv, RejudgingTypeOK
<1>6. /\ rejudging' \in [RejudgingId -> RejudgingRow]
      /\ creating' \in [RejudgingId -> SUBSET Submission]
      /\ taken' \in [RejudgingId -> SUBSET Submission]
  BY <1>4, <1>5 DEF Repeat, NewRejudging, ValidInv, RejudgingTypeOK
<1>7. RejudgingTypeOK'
  BY <1>2, <1>6 DEF Repeat, judgingVars, ValidInv, RejudgingTypeOK, HandlerState
<1> QED
  BY <1>2, <1>7 DEF Repeat, judgingVars, ValidInv, AssociatedExist, FinishedExist, OneValid

LEMMA CompileFlushType ==
    ASSUME ValidInv, NEW j \in JudgingId, CompileFlush(j)
    PROVE  /\ handler[j] \notin {"none", "over"}
           /\ j \in judgings /\ j[2] \in RejudgingId /\ j[1] \in Submission
           /\ result' \in [JudgingId -> {"null", "judged", "aborted"}]
           /\ endtime' = endtime \union {j} /\ endtime' \subseteq judgings
           /\ left' \in [JudgingId -> Nat] /\ todoSeen' \in [JudgingId -> SUBSET JudgingId]
<1>1. handler[j] \notin {"none", "over"}
  BY DEF CompileFlush
<1>2. j \in judgings /\ j[2] \in RejudgingId /\ j[1] \in Submission
  BY <1>1, HandlerOfJudging
<1>3. endtime' = endtime \union {j} /\ endtime' \subseteq judgings
  BY <1>2 DEF CompileFlush, ValidInv, RejudgingTypeOK
<1>4. /\ result' \in [JudgingId -> {"null", "judged", "aborted"}]
      /\ left' \in [JudgingId -> Nat] /\ todoSeen' \in [JudgingId -> SUBSET JudgingId]
  BY DEF CompileFlush, ValidInv, RejudgingTypeOK
<1> QED  BY <1>1, <1>2, <1>3, <1>4

LEMMA CompileCommitValidInv ==
    ASSUME ValidInv, NEW j \in JudgingId, CompileCommit(j) PROVE ValidInv'
<1>1. CompileFlush(j)
  BY DEF CompileCommit
<1>2. rejudging' \in [RejudgingId -> RejudgingRow]
  BY <1>1, CompileFlushType, RowEnds DEF CompileCommit
<1> QED
  BY <1>1, <1>2, CompileFlushType, ApplyingValidInv
  DEF CompileCommit, ValidInv, RejudgingTypeOK, HandlerState

(* What the transaction of a compiler error does that ends a repetition and *)
(* creates the next one.                                                    *)
Repeated(q) == {s \in Subs(q) : rejudgingid[s] \in {0, q}}

RepeatedRow(q, r) ==
    [NewRow(r, FALSE, rejudging[q].repeat, rejudging[q].first) EXCEPT
        !.state = IF Repeated(q) = {} THEN "removed" ELSE "created"]

EndedRow(q) == [rejudging[q] EXCEPT !.ended = TRUE, !.valid = FALSE]

LEMMA CompileRepeatEffect ==
    ASSUME ValidInv, NEW j \in JudgingId, NEW r \in RejudgingId, CompileRepeat(j, r)
    PROVE  LET q == j[2] IN
           /\ handler[j] = "compile" /\ j \in judgings /\ q \in RejudgingId /\ q # r
           /\ NextId(r) /\ ~rejudging[q].autoApply /\ Open(q)
           /\ RepetitionDue(q, TodoInTransaction(j))
           /\ rejudging'[q] = EndedRow(q)
           /\ rejudging'[r] = RepeatedRow(q, r) /\ RepeatedRow(q, r) \in RejudgingRow
           /\ \A p \in RejudgingId \ {q, r} : rejudging'[p] = rejudging[p]
           /\ rejudging' \in [RejudgingId -> RejudgingRow]
           /\ rejudgingid' = [s \in Submission |-> IF s \in Repeated(q) THEN r
                                  ELSE IF rejudgingid[s] = q THEN 0 ELSE rejudgingid[s]]
           /\ judgings' = judgings \union (Repeated(q) \X {r})
           /\ handler' = [i \in JudgingId |-> IF i = j THEN "over"
                              ELSE IF i \in Repeated(q) \X {r} THEN "queued" ELSE handler[i]]
           /\ UNCHANGED <<valid, aborted, createVars, finish>>
           /\ endtime' = endtime \union {j} /\ endtime' \subseteq judgings
<1> DEFINE q == j[2]
           S == {s \in {i[1] : i \in JudgingsOf(q)} : rejudgingid[s] \in {0, q}}
<1>1. /\ CompileFlush(j) /\ handler[j] = "compile" /\ NextId(r) /\ ~rejudging[q].autoApply
      /\ RepetitionDue(q, TodoInTransaction(j)) /\ Open(q)
  BY DEF CompileRepeat, CompileFlush, RepetitionDue
<1>2. /\ j \in judgings /\ q \in RejudgingId
      /\ endtime' = endtime \union {j} /\ endtime' \subseteq judgings
  BY <1>1, CompileFlushType
<1>3. q # r
  BY <1>1 DEF NextId, Open, Exists
<1>4. S = Repeated(q)
  <2>1. {i[1] : i \in JudgingsOf(q)} = Subs(q)
    BY <1>2, SubsOfJudgings DEF ValidInv
  <2> QED  BY <2>1 DEF Repeated
<1>5. rejudging \in [RejudgingId -> RejudgingRow] /\ rejudging[q] \in RejudgingRow
  BY <1>2 DEF ValidInv, RejudgingTypeOK
<1>6. RepeatedRow(q, r) \in RejudgingRow
  BY <1>5, IdsType DEF RepeatedRow, NewRow, RejudgingRow
<1>7. EndedRow(q) \in RejudgingRow
  BY <1>5 DEF EndedRow, RejudgingRow
<1> HIDE DEF S
<1>8. /\ rejudging' = [rejudging EXCEPT
              ![q].ended = TRUE, ![q].valid = FALSE,
              ![r] = [NewRow(r, FALSE, rejudging[q].repeat, rejudging[q].first) EXCEPT
                          !.state = IF S = {} THEN "removed" ELSE "created"]]
      /\ rejudgingid' = [s \in Submission |-> IF s \in S THEN r
                             ELSE IF rejudgingid[s] = q THEN 0 ELSE rejudgingid[s]]
      /\ judgings' = judgings \union (S \X {r})
      /\ handler' = [i \in JudgingId |-> IF i = j THEN "over"
                         ELSE IF i \in S \X {r} THEN "queued" ELSE handler[i]]
      /\ UNCHANGED <<valid, aborted, createVars, finish>>
  BY DEF CompileRepeat, S
<1>9. rejudging' = [rejudging EXCEPT
          ![q] = EndedRow(q),
          ![r] = RepeatedRow(q, r)]
  BY <1>2, <1>3, <1>4, <1>5, <1>8 DEF RepeatedRow, EndedRow
<1>10. /\ rejudging'[q] = EndedRow(q)
       /\ rejudging'[r] = RepeatedRow(q, r)
       /\ \A p \in RejudgingId \ {q, r} : rejudging'[p] = rejudging[p]
       /\ rejudging' \in [RejudgingId -> RejudgingRow]
  BY <1>2, <1>3, <1>5, <1>6, <1>7, <1>9
<1> QED
  BY <1>1, <1>2, <1>3, <1>4, <1>6, <1>8, <1>10

LEMMA CompileRepeatValidInv ==
    ASSUME ValidInv, NEW j \in JudgingId, NEW r \in RejudgingId, CompileRepeat(j, r)
    PROVE  ValidInv'
<1> DEFINE q == j[2]
<1>1. /\ handler[j] = "compile" /\ j \in judgings /\ q \in RejudgingId /\ q # r
      /\ rejudging' \in [RejudgingId -> RejudgingRow]
      /\ rejudgingid' = [s \in Submission |-> IF s \in Repeated(q) THEN r
                             ELSE IF rejudgingid[s] = q THEN 0 ELSE rejudgingid[s]]
      /\ judgings' = judgings \union (Repeated(q) \X {r})
      /\ handler' = [i \in JudgingId |-> IF i = j THEN "over"
                         ELSE IF i \in Repeated(q) \X {r} THEN "queued" ELSE handler[i]]
      /\ UNCHANGED <<valid, aborted, createVars, finish>>
      /\ endtime' \subseteq judgings
  BY CompileRepeatEffect
<1>2. Repeated(q) \subseteq Submission /\ r \in 0..NumRejudgings /\ r # 0
  BY IdsType DEF Repeated, Subs
<1>3. judgings' \subseteq JudgingId
  BY <1>1, <1>2, JudgingPair DEF ValidInv, RejudgingTypeOK
<1>4. /\ result' \in [JudgingId -> {"null", "judged", "aborted"}]
      /\ left' \in [JudgingId -> Nat] /\ todoSeen' \in [JudgingId -> SUBSET JudgingId]
  <2>1. CompileFlush(j)
    BY DEF CompileRepeat
  <2> QED  BY <2>1, CompileFlushType
<1>5. /\ handler' \in [JudgingId -> HandlerState]
      /\ rejudgingid' \in [Submission -> 0..NumRejudgings]
  BY <1>1, <1>2, IdsType DEF ValidInv, RejudgingTypeOK, HandlerState
<1>6. RejudgingTypeOK'
  BY <1>1, <1>3, <1>4, <1>5 DEF ValidInv, RejudgingTypeOK, createVars, HandlerState
<1>7. HandlersExist'
  <2> SUFFICES ASSUME NEW i \in JudgingId
               PROVE  /\ i \in judgings' <=> handler'[i] # "none"
                      /\ i[2] = 0 => handler'[i] = "over"
    BY DEF HandlersExist
  <2>1. i \in judgings <=> handler[i] # "none"
    BY DEF ValidInv, HandlersExist
  <2>2. CASE i \in Repeated(q) \X {r}
    BY <1>1, <1>2, <2>2
  <2>3. CASE i \notin Repeated(q) \X {r}
    BY <1>1, <2>1, <2>3 DEF ValidInv, HandlersExist
  <2> QED  BY <2>2, <2>3
<1>8. AssociatedExist'
  BY <1>1, <1>2 DEF AssociatedExist, ValidInv
<1> QED  BY <1>1, <1>6, <1>7, <1>8 DEF ValidInv, FinishedExist, OneValid

LEMMA StartFinishValidInv ==
    ASSUME ValidInv, NEW m \in Jury, NEW r \in RejudgingId, NEW apply \in BOOLEAN,
           StartFinish(m, r, apply)
    PROVE  ValidInv'
<1> DEFINE new == [rejudging |-> r, apply |-> apply,
                   submissions |-> {s \in Submission : rejudgingid[s] = r}]
<1>1. /\ finish' = [finish EXCEPT ![m] = new]
      /\ UNCHANGED <<rejudging, rejudgingid, judgingVars, handlerVars, createVars>>
  BY DEF StartFinish
<1>2. RejudgingTypeOK'
  BY <1>1, IdsType DEF judgingVars, handlerVars, createVars, ValidInv, RejudgingTypeOK
<1>3. FinishedExist'
  <2> SUFFICES ASSUME NEW n \in Jury, NEW s \in finish'[n].submissions
               PROVE  finish'[n].rejudging # 0 /\ <<s, finish'[n].rejudging>> \in judgings
    BY <1>1 DEF FinishedExist, judgingVars
  <2>1. CASE n = m
    BY <1>1, <2>1, IdsType DEF ValidInv, RejudgingTypeOK, AssociatedExist
  <2>2. CASE n # m
    BY <1>1, <2>2 DEF ValidInv, RejudgingTypeOK, FinishedExist
  <2> QED  BY <2>1, <2>2
<1> QED
  BY <1>1, <1>2, <1>3 DEF judgingVars, handlerVars, ValidInv, HandlersExist, AssociatedExist,
                          OneValid

(* A jury member goes on to the next submission.                            *)
LEMMA FinishMoves ==
    ASSUME ValidInv, NEW m \in Jury, NEW s \in finish[m].submissions,
           finish' = [finish EXCEPT ![m].submissions = @ \ {s}], UNCHANGED judgings
    PROVE  /\ finish' \in [Jury -> [rejudging : 0..NumRejudgings, apply : BOOLEAN,
                                    submissions : SUBSET Submission]]
           /\ finish'[m] = [finish[m] EXCEPT !.submissions = @ \ {s}]
           /\ \A n \in Jury : n # m => finish'[n] = finish[n]
           /\ \A n \in Jury : /\ finish'[n].rejudging = finish[n].rejudging
                              /\ finish'[n].apply = finish[n].apply
                              /\ finish'[n].submissions \subseteq finish[n].submissions
           /\ FinishedExist'
           /\ finish[m].rejudging \in RejudgingId /\ s \in Submission
           /\ <<s, finish[m].rejudging>> \in judgings
<1>1. /\ finish \in [Jury -> [rejudging : 0..NumRejudgings, apply : BOOLEAN,
                              submissions : SUBSET Submission]]
      /\ finish[m] \in [rejudging : 0..NumRejudgings, apply : BOOLEAN,
                        submissions : SUBSET Submission]
  BY DEF ValidInv, RejudgingTypeOK
<1>2. finish' = [finish EXCEPT ![m] = [finish[m] EXCEPT !.submissions = @ \ {s}]]
  BY <1>1
<1>3. [finish[m] EXCEPT !.submissions = @ \ {s}]
          \in [rejudging : 0..NumRejudgings, apply : BOOLEAN, submissions : SUBSET Submission]
  BY <1>1
<1>4. /\ finish'[m] = [finish[m] EXCEPT !.submissions = @ \ {s}]
      /\ \A n \in Jury : n # m => finish'[n] = finish[n]
  BY <1>1, <1>2
<1>5. \A n \in Jury : /\ finish'[n].rejudging = finish[n].rejudging
                      /\ finish'[n].apply = finish[n].apply
                      /\ finish'[n].submissions \subseteq finish[n].submissions
  BY <1>1, <1>4
<1>6. FinishedExist'
  BY <1>5 DEF FinishedExist, ValidInv
<1>7. finish[m].rejudging \in RejudgingId /\ <<s, finish[m].rejudging>> \in judgings
  BY <1>1, IdsType DEF FinishedExist, ValidInv
<1> QED  BY <1>1, <1>2, <1>3, <1>4, <1>5, <1>6, <1>7

LEMMA ApplyValidInv ==
    ASSUME ValidInv, NEW m \in Jury, NEW s \in Submission, Apply(m, s) PROVE ValidInv'
<1> DEFINE j == <<s, finish[m].rejudging>>
<1>1. /\ s \in finish[m].submissions /\ finish' = [finish EXCEPT ![m].submissions = @ \ {s}]
      /\ UNCHANGED <<rejudging, judgings, result, endtime, handlerVars, createVars>>
  BY DEF Apply
<1>2. /\ j \in judgings /\ FinishedExist'
      /\ finish' \in [Jury -> [rejudging : 0..NumRejudgings, apply : BOOLEAN,
                               submissions : SUBSET Submission]]
  BY <1>1, FinishMoves
<1>3. valid' = MadeValid(j)
  BY <1>2 DEF Apply, MadeValid, ValidInv, RejudgingTypeOK
<1>4. valid' \subseteq judgings /\ OneValid'
  BY <1>1, <1>2, <1>3, MadeValidIsOne
<1>5. /\ rejudgingid' \in [Submission -> 0..NumRejudgings]
      /\ \A t \in Submission : rejudgingid'[t] \in {0, rejudgingid[t]}
  BY IdsType DEF Apply, ValidInv, RejudgingTypeOK
<1>6. AssociatedExist'
  BY <1>1, <1>5 DEF AssociatedExist, ValidInv
<1>7. RejudgingTypeOK'
  BY <1>1, <1>2, <1>4, <1>5 DEF handlerVars, createVars, ValidInv, RejudgingTypeOK
<1> QED  BY <1>1, <1>2, <1>4, <1>6, <1>7 DEF handlerVars, ValidInv, HandlersExist

LEMMA CancelValidInv ==
    ASSUME ValidInv, NEW m \in Jury, NEW s \in Submission, Cancel(m, s) PROVE ValidInv'
<1> DEFINE j == <<s, finish[m].rejudging>>
<1>1. /\ s \in finish[m].submissions /\ finish' = [finish EXCEPT ![m].submissions = @ \ {s}]
      /\ UNCHANGED <<rejudging, judgings, valid, endtime, left, aborted, todoSeen, createVars>>
      /\ handler' = [handler EXCEPT ![j] = CancelledHandler(j)]
      /\ result' = [result EXCEPT ![j] = IF @ = "null" THEN "aborted" ELSE @]
  BY DEF Cancel
<1>2. /\ j \in judgings /\ FinishedExist' /\ j \in JudgingId
      /\ finish' \in [Jury -> [rejudging : 0..NumRejudgings, apply : BOOLEAN,
                               submissions : SUBSET Submission]]
  BY <1>1, FinishMoves DEF ValidInv, RejudgingTypeOK
<1>3. /\ rejudgingid' \in [Submission -> 0..NumRejudgings]
      /\ \A t \in Submission : rejudgingid'[t] \in {0, rejudgingid[t]}
  BY IdsType DEF Cancel, ValidInv, RejudgingTypeOK
<1>4. AssociatedExist'
  BY <1>1, <1>3 DEF AssociatedExist, ValidInv
<1>5. HandlersExist' /\ handler' \in [JudgingId -> HandlerState]
  BY <1>1, <1>2 DEF CancelledHandler, HandlersExist, ValidInv, RejudgingTypeOK, HandlerState
<1>6. result' \in [JudgingId -> {"null", "judged", "aborted"}]
  BY <1>1, <1>2 DEF ValidInv, RejudgingTypeOK
<1>7. RejudgingTypeOK'
  BY <1>1, <1>2, <1>3, <1>5, <1>6 DEF createVars, ValidInv, RejudgingTypeOK, HandlerState
<1> QED  BY <1>1, <1>2, <1>4, <1>5, <1>7 DEF ValidInv, OneValid

LEMMA EndFinishEffect ==
    ASSUME ValidInv, NEW m \in Jury, EndFinish(m)
    PROVE  LET r == finish[m].rejudging IN
           /\ r \in RejudgingId /\ finish[m].submissions = {}
           /\ rejudging'[r] = [rejudging[r] EXCEPT !.ended = TRUE, !.valid = finish[m].apply]
           /\ \A q \in RejudgingId : q # r => rejudging'[q] = rejudging[q]
           /\ rejudging' \in [RejudgingId -> RejudgingRow]
           /\ finish'[m] = NotFinishing /\ \A n \in Jury : n # m => finish'[n] = finish[n]
           /\ finish' \in [Jury -> [rejudging : 0..NumRejudgings, apply : BOOLEAN,
                                    submissions : SUBSET Submission]]
           /\ UNCHANGED <<rejudgingid, judgingVars, handlerVars, createVars>>
<1> DEFINE r == finish[m].rejudging
           new == [rejudging[r] EXCEPT !.ended = TRUE, !.valid = finish[m].apply]
<1>1. /\ r # 0 /\ finish[m].submissions = {}
      /\ rejudging' = [rejudging EXCEPT ![r].ended = TRUE, ![r].valid = finish[m].apply]
      /\ finish' = [finish EXCEPT ![m] = NotFinishing]
      /\ UNCHANGED <<rejudgingid, judgingVars, handlerVars, createVars>>
  BY DEF EndFinish
<1>2. finish[m].apply \in BOOLEAN /\ r \in RejudgingId /\ rejudging[r] \in RejudgingRow
  BY <1>1, IdsType DEF ValidInv, RejudgingTypeOK
<1>3. new \in RejudgingRow
  BY <1>2 DEF RejudgingRow
<1>4. rejudging' = [rejudging EXCEPT ![r] = new]
  BY <1>1, <1>2 DEF ValidInv, RejudgingTypeOK
<1>5. /\ rejudging'[r] = new
      /\ \A q \in RejudgingId : q # r => rejudging'[q] = rejudging[q]
      /\ rejudging' \in [RejudgingId -> RejudgingRow]
  BY <1>2, <1>3, <1>4 DEF ValidInv, RejudgingTypeOK
<1>6. /\ finish'[m] = NotFinishing /\ \A n \in Jury : n # m => finish'[n] = finish[n]
      /\ finish' \in [Jury -> [rejudging : 0..NumRejudgings, apply : BOOLEAN,
                               submissions : SUBSET Submission]]
  BY <1>1, IdsType DEF NotFinishing, ValidInv, RejudgingTypeOK
<1> QED  BY <1>1, <1>2, <1>5, <1>6

LEMMA EndFinishValidInv == ASSUME ValidInv, NEW m \in Jury, EndFinish(m) PROVE ValidInv'
<1>1. /\ rejudging' \in [RejudgingId -> RejudgingRow]
      /\ finish'[m] = NotFinishing /\ \A n \in Jury : n # m => finish'[n] = finish[n]
      /\ finish' \in [Jury -> [rejudging : 0..NumRejudgings, apply : BOOLEAN,
                               submissions : SUBSET Submission]]
      /\ UNCHANGED <<rejudgingid, judgingVars, handlerVars, createVars>>
  BY EndFinishEffect
<1>2. RejudgingTypeOK'
  BY <1>1 DEF ValidInv, RejudgingTypeOK, judgingVars, handlerVars, createVars
<1>3. FinishedExist'
  BY <1>1 DEF ValidInv, FinishedExist, NotFinishing, judgingVars
<1> QED
  BY <1>1, <1>2, <1>3 DEF ValidInv, HandlersExist, AssociatedExist, OneValid, judgingVars,
                          handlerVars

(* Each kind of rejudging the jury asks for.                                *)
LEMMA KindType == \A k \in Kinds : k[1] \in BOOLEAN /\ k[2] \in Nat /\ k[2] > 0
  BY RejudgingAssumption

LEMMA NextValidInv == ValidInv /\ [RejudgingNext]_rejudgingVars => ValidInv'
<1> SUFFICES ASSUME ValidInv, [RejudgingNext]_rejudgingVars PROVE ValidInv'
  OBVIOUS
<1>1. CASE UNCHANGED rejudgingVars
  BY <1>1 DEF rejudgingVars, judgingVars, handlerVars, createVars, ValidInv, RejudgingTypeOK,
              HandlersExist, AssociatedExist, FinishedExist, OneValid
<1>2. ASSUME NEW j \in JudgingId, HandlerStep(j) PROVE ValidInv'
  BY <1>2, ClaimValidInv, AddRunValidInv, FlushValidInv, ResetValidInv, CompileBeginValidInv,
     ReadResultValidInv, CountValidInv, RepeatValidInv, CompileCommitValidInv,
     CompileRepeatValidInv DEF HandlerStep
<1>3. ASSUME NEW r \in RejudgingId, CreateStep(r) PROVE ValidInv'
  BY <1>3, CreateEndValidInv, CreateJudgingValidInv DEF CreateStep
<1>4. ASSUME NEW m \in Jury, FinishStep(m) PROVE ValidInv'
  BY <1>4, EndFinishValidInv, ApplyValidInv, CancelValidInv DEF FinishStep
<1>5. ASSUME NEW r \in RejudgingId, NEW S \in SUBSET Submission, NEW k \in Kinds,
             Create(r, S, k[1], k[2])
      PROVE  ValidInv'
  BY <1>5, KindType, CreateValidInv
<1> QED
  BY <1>1, <1>2, <1>3, <1>4, <1>5, StartFinishValidInv DEF RejudgingNext

LEMMA ValidInvIsInvariant == RejudgingSpec => []ValidInv
  BY InitValidInv, NextValidInv, PTL DEF RejudgingSpec

(* All columns of the tables and all variables of requests have their       *)
(* types.                                                                   *)
THEOREM RejudgingTypeCorrect == RejudgingSpec => []RejudgingTypeOK
<1>1. ValidInv => RejudgingTypeOK
  BY DEF ValidInv
<1> QED  BY <1>1, ValidInvIsInvariant, PTL

(* However rejudgings are created, repeated, applied automatically or by    *)
(* the jury, cancelled, and reported by judgehosts, each submission has     *)
(* exactly one valid judging after each step.                               *)
THEOREM ExactlyOneValid == RejudgingSpec => []OneValidJudging
<1>1. ValidInv => OneValidJudging
  <2> SUFFICES ASSUME ValidInv, NEW s \in Submission
               PROVE  Cardinality(JudgingsFor(s) \intersect valid) = 1
    BY DEF OneValidJudging
  <2>1. PICK j \in valid : j[1] = s /\ \A i \in valid : i[1] = s => i = j
    BY DEF ValidInv, OneValid
  <2>2. JudgingsFor(s) \intersect valid = {j}
    BY <2>1 DEF JudgingsFor, ValidInv, RejudgingTypeOK
  <2> QED  BY <2>2, FS_Singleton
<1> QED  BY <1>1, ValidInvIsInvariant, PTL
-----------------------------------------------------------------------------
(* Repetitions.  Handlers that have ended a rejudging and are to create the *)
(* next one.                                                                *)
Busy == {j \in judgings : handler[j] \in {"repeat", "create"}}

(* Rejudgings are numbered in the order of their creation; one with a       *)
(* judging has not been removed; and only a repeated one has a first one.   *)
RowsInOrder ==
    \A r \in RejudgingId :
        /\ rejudging[r].state = "none" => rejudging[r] = NoRejudging
        /\ \A q \in RejudgingId : rejudging[r].state = "none" /\ r < q => rejudging[q].state = "none"
        /\ Subs(r) # {} => Exists(r)
        /\ rejudging[r].state # "creating" => creating[r] = {}
        /\ rejudging[r].repeat > 0
        /\ rejudging[r].repeat > 1 <=> rejudging[r].first # 0

(* The first of repeated rejudgings is its own first one, is repeated as    *)
(* often, and has judgings when there is another one.                       *)
ChainRows ==
    \A q, f \in RejudgingId : rejudging[q].first = f =>
        /\ rejudging[f].first = f /\ rejudging[f].repeat = rejudging[q].repeat
        /\ q # f => Subs(f) # {}

RepeatingEnded ==
    \A j \in Busy :
        rejudging[j[2]].ended /\ ~rejudging[j[2]].autoApply /\ rejudging[j[2]].first # 0

(* Of repeated rejudgings one is open, or one handler is to create the next *)
(* one.                                                                     *)
OneActive ==
    \A r \in RejudgingId :
        /\ \A p, q \in Chain(r) : Open(p) /\ Open(q) => p = q
        /\ \A i, j \in Repeating(r) : i = j
        /\ Repeating(r) # {} => \A q \in Chain(r) : ~Open(q)

ChainBound ==
    \A r \in RejudgingId : Chain(r) # {} =>
        /\ Cardinality(Chain(r)) <= rejudging[r].repeat
        /\ Repeating(r) # {} => Cardinality(Chain(r)) < rejudging[r].repeat

(* The jury finishes rejudgings that have been created.                     *)
FinishRows ==
    \A m \in Jury :
        finish[m].rejudging # 0 => rejudging[finish[m].rejudging].state # "none"

RowInv ==
    RowsInOrder /\ ChainRows /\ RepeatingEnded /\ OneActive /\ ChainBound /\ FinishRows

LEMMA ChainFinite ==
    ASSUME NEW r PROVE /\ Chain(r) \subseteq RejudgingId
                       /\ IsFiniteSet(Chain(r)) /\ Cardinality(Chain(r)) \in Nat
<1>1. IsFiniteSet(RejudgingId)
  BY RejudgingAssumption, FS_Interval DEF RejudgingId
<1>2. Chain(r) \subseteq RejudgingId
  BY DEF Chain
<1> QED  BY <1>1, <1>2, FS_Subset, FS_CardinalityType

LEMMA RowType ==
    ASSUME ValidInv, NEW r \in RejudgingId
    PROVE  /\ rejudging[r] \in RejudgingRow
           /\ rejudging[r].repeat \in Nat
           /\ rejudging[r].first \in 0..NumRejudgings
           /\ rejudging[r].first # 0 => rejudging[r].first \in RejudgingId
           /\ rejudging[r].state \in {"none", "creating", "created", "removed"}
           /\ {rejudging[r].ended, rejudging[r].valid, rejudging[r].autoApply} \subseteq BOOLEAN
<1>1. rejudging[r] \in RejudgingRow
  BY DEF ValidInv, RejudgingTypeOK
<1> QED  BY <1>1, IdsType DEF RejudgingRow

(* A step that creates no rejudging, and changes none but that it ends or   *)
(* that its creation ends.                                                  *)
Kept(r) ==
    /\ rejudging'[r].first = rejudging[r].first /\ rejudging'[r].repeat = rejudging[r].repeat
    /\ rejudging'[r].autoApply = rejudging[r].autoApply
    /\ rejudging[r].ended => rejudging'[r].ended
    /\ rejudging[r].state = "none" => rejudging'[r] = rejudging[r]
    /\ rejudging'[r].state = "none" => rejudging[r].state = "none"
    /\ Exists(r)' => Exists(r)
    /\ Subs(r)' # {} => Exists(r)'
    /\ Subs(r) \subseteq Subs(r)'
    /\ rejudging'[r].state # "creating" => creating'[r] = {}

LEMMA KeptRowInv ==
    ASSUME ValidInv, ValidInv', RowInv, \A r \in RejudgingId : Kept(r), Busy' \subseteq Busy,
           \A m \in Jury : finish'[m].rejudging # 0 =>
               finish'[m].rejudging = finish[m].rejudging \/ Exists(finish'[m].rejudging)
    PROVE  RowInv'
<1>1. RowsInOrder'
  BY DEF RowInv, RowsInOrder, Kept
<1>2. ChainRows'
  BY DEF RowInv, ChainRows, Kept
<1>3. \A j \in Busy' : j \in Busy /\ j[2] \in RejudgingId
  BY HandlerOfJudging DEF Busy, ValidInv, RejudgingTypeOK
<1>4. RepeatingEnded'
  BY <1>3 DEF RowInv, RepeatingEnded, Kept
<1>5. ASSUME NEW r \in RejudgingId
      PROVE  Chain(r)' \subseteq Chain(r) /\ Repeating(r)' \subseteq Repeating(r)
  BY <1>3 DEF Chain, Repeating, Kept, Busy
<1>6. \A r \in RejudgingId : Open(r)' => Open(r)
  BY DEF Kept, Open
<1>7. OneActive'
  <2> SUFFICES ASSUME NEW r \in RejudgingId
               PROVE  /\ \A p, q \in Chain(r)' : Open(p)' /\ Open(q)' => p = q
                      /\ \A i, j \in Repeating(r)' : i = j
                      /\ Repeating(r)' # {} => \A q \in Chain(r)' : ~Open(q)'
    BY DEF OneActive
  <2>1. Chain(r) \subseteq RejudgingId
    BY ChainFinite
  <2> QED  BY <2>1, <1>5, <1>6 DEF RowInv, OneActive
<1>8. ChainBound'
  <2> SUFFICES ASSUME NEW r \in RejudgingId, Chain(r)' # {}
               PROVE  /\ Cardinality(Chain(r)') <= rejudging'[r].repeat
                      /\ Repeating(r)' # {} => Cardinality(Chain(r)') < rejudging'[r].repeat
    BY DEF ChainBound
  <2>1. /\ Cardinality(Chain(r)') <= Cardinality(Chain(r))
        /\ Cardinality(Chain(r)') \in Nat /\ Cardinality(Chain(r)) \in Nat
    BY <1>5, ChainFinite, FS_Subset, FS_CardinalityType
  <2>2. rejudging'[r].repeat = rejudging[r].repeat /\ rejudging[r].repeat \in Nat
    BY RowType DEF Kept
  <2> QED  BY <2>1, <2>2, <1>5 DEF RowInv, ChainBound
<1>9. FinishRows'
  <2> SUFFICES ASSUME NEW m \in Jury, finish'[m].rejudging # 0
               PROVE  rejudging'[finish'[m].rejudging].state # "none"
    BY DEF FinishRows
  <2>1. finish'[m].rejudging \in RejudgingId
    BY IdsType DEF ValidInv, RejudgingTypeOK
  <2> QED  BY <2>1 DEF RowInv, FinishRows, Exists, Kept
<1> QED  BY <1>1, <1>2, <1>4, <1>7, <1>8, <1>9 DEF RowInv

(* A handler finds the last judging done and ends the rejudging, to create  *)
(* the next one.                                                            *)
LEMMA CountRepeatRowInv ==
    ASSUME ValidInv, ValidInv', RowInv, NEW j \in JudgingId, handler[j] = "count",
           EndForRepetition(j[2], Todo(j[2])), handler' = [handler EXCEPT ![j] = "repeat"],
           UNCHANGED <<judgings, creating, finish>>
    PROVE  RowInv'
<1> DEFINE q == j[2]
<1>1. j \in judgings /\ q \in RejudgingId
  BY HandlerOfJudging
<1>2. /\ Open(q) /\ ~rejudging[q].autoApply /\ rejudging[q].repeat > 1
      /\ Cardinality(Chain(rejudging[q].first)) < rejudging[q].repeat
  BY DEF EndForRepetition, RepetitionDue, Chain
<1>3. PICK f \in RejudgingId :
          /\ rejudging[q].first = f
          /\ rejudging[f].first = f /\ rejudging[f].repeat = rejudging[q].repeat
          /\ Cardinality(Chain(f)) < rejudging[q].repeat
  BY <1>1, <1>2, RowType DEF RowInv, RowsInOrder, ChainRows
<1>4. rejudging[q] \in RejudgingRow /\ rejudging \in [RejudgingId -> RejudgingRow]
  BY <1>1 DEF ValidInv, RejudgingTypeOK
<1>5. rejudging' = [rejudging EXCEPT ![q] = EndedRow(q)]
  BY <1>1, <1>4 DEF EndForRepetition, EndedRow
<1>6. /\ rejudging'[q].ended /\ \A p \in RejudgingId : p # q => rejudging'[p] = rejudging[p]
      /\ \A p \in RejudgingId :
             /\ rejudging'[p].state = rejudging[p].state
             /\ rejudging'[p].first = rejudging[p].first
             /\ rejudging'[p].repeat = rejudging[p].repeat
             /\ rejudging'[p].autoApply = rejudging[p].autoApply
             /\ rejudging[p].ended => rejudging'[p].ended
  BY <1>1, <1>4, <1>5 DEF EndedRow, RejudgingRow
<1> HIDE DEF q
<1>7. \A p \in RejudgingId : Exists(p)' <=> Exists(p)
  BY <1>6 DEF Exists
<1>8. \A p \in RejudgingId : Open(p)' => Open(p) /\ p # q
  BY <1>6, <1>7 DEF Open
<1>9. \A p \in RejudgingId : Chain(p)' = Chain(p)
  BY <1>6, <1>7 DEF Chain
<1>10. Busy' = Busy \union {j}
  BY <1>1 DEF Busy, ValidInv, RejudgingTypeOK
<1>11. \A i \in Busy : i \in judgings /\ i[2] \in RejudgingId
  BY HandlerOfJudging DEF Busy, ValidInv, RejudgingTypeOK
<1>12. \A p \in RejudgingId : Repeating(p) = {i \in Busy : rejudging[i[2]].first = p}
  BY DEF Repeating, Busy
<1>13. \A p \in RejudgingId : Repeating(p)' = {i \in Busy' : rejudging'[i[2]].first = p}
  BY DEF Repeating, Busy
<1>14. \A p \in RejudgingId : p # f => Repeating(p)' = Repeating(p)
  <2>1. /\ \A i \in Busy : rejudging'[i[2]].first = rejudging[i[2]].first
        /\ rejudging'[j[2]].first = f
    BY <1>1, <1>3, <1>6, <1>11 DEF q
  <2> SUFFICES ASSUME NEW p \in RejudgingId, p # f PROVE Repeating(p)' = Repeating(p)
    OBVIOUS
  <2>2. Repeating(p)' = {i \in Busy \union {j} : rejudging'[i[2]].first = p}
    BY <1>10, <1>13
  <2>3. Repeating(p)' = {i \in Busy : rejudging[i[2]].first = p}
    BY <2>1, <2>2
  <2> QED  BY <2>3, <1>12
<1>15. q \in Chain(f)
  BY <1>1, <1>2, <1>3 DEF Chain, Open
<1>16. Repeating(f) = {}
  BY <1>2, <1>3, <1>15 DEF RowInv, OneActive
<1>17. Repeating(f)' = {j}
  BY <1>1, <1>3, <1>6, <1>10, <1>11, <1>12, <1>13, <1>16 DEF q
<1>18. RowsInOrder'
  <2>1. \A p \in RejudgingId : Subs(p)' = Subs(p)
    BY DEF Subs
  <2>2. \A p \in RejudgingId : rejudging[p].state = "none" => p # q
    BY <1>2 DEF Open, Exists
  <2> QED  BY <1>6, <1>7, <2>1, <2>2 DEF RowInv, RowsInOrder
<1>19. ChainRows'
  <2>1. \A p \in RejudgingId : Subs(p)' = Subs(p)
    BY DEF Subs
  <2> QED  BY <1>6, <2>1 DEF RowInv, ChainRows
<1>20. RepeatingEnded'
  BY <1>1, <1>2, <1>3, <1>6, <1>10, <1>11, IdsType DEF RowInv, RepeatingEnded, q
<1>21. OneActive'
  <2> SUFFICES ASSUME NEW r \in RejudgingId
               PROVE  /\ \A p, o \in Chain(r)' : Open(p)' /\ Open(o)' => p = o
                      /\ \A i, k \in Repeating(r)' : i = k
                      /\ Repeating(r)' # {} => \A p \in Chain(r)' : ~Open(p)'
    BY DEF OneActive
  <2>1. /\ \A p, o \in Chain(r) : Open(p) /\ Open(o) => p = o
        /\ \A i, k \in Repeating(r) : i = k
        /\ Repeating(r) # {} => \A p \in Chain(r) : ~Open(p)
    BY DEF RowInv, OneActive
  <2>2. Chain(r) \subseteq RejudgingId
    BY ChainFinite
  <2>3. CASE r = f
    <3>1. \A p \in Chain(r) : ~Open(p)'
      BY <1>2, <1>8, <1>15, <2>1, <2>2, <2>3
    <3>2. Chain(r)' = Chain(r)
      BY <1>9
    <3>3. Repeating(r)' = {j}
      BY <1>17, <2>3
    <3> QED  BY <3>1, <3>2, <3>3
  <2>4. CASE r # f
    BY <1>8, <1>9, <1>14, <2>1, <2>2, <2>4
  <2> QED  BY <2>3, <2>4
<1>22. ChainBound'
  BY <1>2, <1>3, <1>6, <1>9, <1>14 DEF RowInv, ChainBound
<1>23. FinishRows'
  BY <1>6, IdsType DEF RowInv, FinishRows, ValidInv, RejudgingTypeOK
<1> QED  BY <1>18, <1>19, <1>20, <1>21, <1>22, <1>23 DEF RowInv

(* A rejudging is repeated: rejudging q ends or has ended, and r is its     *)
(* next repetition.                                                         *)
LEMMA NewRepetitionRowInv ==
    ASSUME ValidInv, ValidInv', RowInv, NEW q \in RejudgingId, NEW r \in RejudgingId, q # r,
           NextId(r), NEW f \in RejudgingId, rejudging[q].first = f, Subs(q) # {},
           \A p \in RejudgingId \ {r} : Kept(p),
           rejudging'[r].first = f, rejudging'[r].repeat = rejudging[q].repeat,
           rejudging'[r].state # "none", Subs(r)' # {} => Exists(r)',
           rejudging'[r].state # "creating" => creating'[r] = {},
           Busy' \subseteq Busy, Repeating(f)' = {}, \A p \in Chain(f) : ~Open(p)',
           Cardinality(Chain(f)) < rejudging[f].repeat, UNCHANGED finish
    PROVE  RowInv'
<1>1. rejudging[r] = NoRejudging /\ rejudging[r].first = 0 /\ ~Exists(r) /\ Subs(r) = {}
  BY DEF NextId, RowInv, RowsInOrder, NoRejudging, Exists
<1>2. /\ rejudging[f].first = f /\ rejudging[f].repeat = rejudging[q].repeat /\ Subs(f) # {}
      /\ f # r /\ rejudging[f].repeat > 1 /\ rejudging[f].repeat \in Nat
  BY <1>1, RowType, IdsType DEF RowInv, ChainRows, RowsInOrder
<1>3. RowsInOrder'
  <2> SUFFICES ASSUME NEW p \in RejudgingId
        PROVE  /\ rejudging'[p].state = "none" => rejudging'[p] = NoRejudging
               /\ \A o \in RejudgingId :
                      rejudging'[p].state = "none" /\ p < o => rejudging'[o].state = "none"
               /\ Subs(p)' # {} => Exists(p)'
               /\ rejudging'[p].state # "creating" => creating'[p] = {}
               /\ rejudging'[p].repeat > 0
               /\ rejudging'[p].repeat > 1 <=> rejudging'[p].first # 0
    BY DEF RowsInOrder
  <2>1. CASE p = r
    BY <1>2, <2>1, IdsType
  <2>2. CASE p # r
    <3>1. Kept(p)
      BY <2>2
    <3>2. ASSUME NEW o \in RejudgingId, rejudging'[p].state = "none", p < o
          PROVE  rejudging'[o].state = "none"
      BY <2>2, <3>1, <3>2 DEF Kept, NextId, RowInv, RowsInOrder
    <3> QED  BY <3>1, <3>2 DEF Kept, RowInv, RowsInOrder
  <2> QED  BY <2>1, <2>2
<1>4. ChainRows'
  <2> SUFFICES ASSUME NEW p \in RejudgingId, NEW e \in RejudgingId, rejudging'[p].first = e
               PROVE  /\ rejudging'[e].first = e /\ rejudging'[e].repeat = rejudging'[p].repeat
                      /\ p # e => Subs(e)' # {}
    BY DEF ChainRows
  <2>1. CASE p = r
    BY <1>2, <2>1 DEF Kept
  <2>2. CASE p # r
    BY <1>1, <2>2, IdsType DEF RowInv, ChainRows, Kept
  <2> QED  BY <2>1, <2>2
<1>5. \A j \in Busy' : j \in Busy /\ j[2] \in RejudgingId /\ j[2] # r
  <2> SUFFICES ASSUME NEW j \in Busy PROVE j[2] \in RejudgingId /\ j[2] # r
    OBVIOUS
  <2>1. j \in judgings /\ j[2] \in RejudgingId /\ j[1] \in Submission /\ j = <<j[1], j[2]>>
    BY HandlerOfJudging DEF Busy, ValidInv, RejudgingTypeOK
  <2> QED  BY <1>1, <2>1 DEF Subs
<1>6. RepeatingEnded'
  BY <1>5 DEF RowInv, RepeatingEnded, Kept
<1>7. ASSUME NEW p \in RejudgingId, p # f
      PROVE  Chain(p)' \subseteq Chain(p) /\ Repeating(p)' \subseteq Repeating(p)
  BY <1>5, <1>7 DEF Chain, Repeating, Kept, Busy
<1>8. Chain(f)' \subseteq Chain(f) \union {r}
  BY DEF Chain, Kept
<1>9. \A p \in RejudgingId \ {r} : Open(p)' => Open(p)
  BY DEF Kept, Open
<1>10. OneActive'
  <2> SUFFICES ASSUME NEW e \in RejudgingId
               PROVE  /\ \A p, o \in Chain(e)' : Open(p)' /\ Open(o)' => p = o
                      /\ \A i, j \in Repeating(e)' : i = j
                      /\ Repeating(e)' # {} => \A p \in Chain(e)' : ~Open(p)'
    BY DEF OneActive
  <2>1. CASE e = f
    BY <1>8, <2>1
  <2>2. CASE e # f
    <3>1. Chain(e) \subseteq RejudgingId /\ r \notin Chain(e)
      BY <1>1, ChainFinite DEF Chain
    <3> QED  BY <1>7, <1>9, <2>2, <3>1 DEF RowInv, OneActive
  <2> QED  BY <2>1, <2>2
<1>11. ChainBound'
  <2> SUFFICES ASSUME NEW e \in RejudgingId, Chain(e)' # {}
               PROVE  /\ Cardinality(Chain(e)') <= rejudging'[e].repeat
                      /\ Repeating(e)' # {} => Cardinality(Chain(e)') < rejudging'[e].repeat
    BY DEF ChainBound
  <2>1. CASE e = f
    <3>1. /\ IsFiniteSet(Chain(f) \union {r})
          /\ Cardinality(Chain(f) \union {r}) = Cardinality(Chain(f)) + 1
      <4>1. r \notin Chain(f)
        BY <1>1 DEF Chain
      <4> QED  BY <4>1, ChainFinite, FS_AddElement
    <3>2. /\ Cardinality(Chain(f)') <= Cardinality(Chain(f)) + 1
          /\ Cardinality(Chain(f)') \in Nat /\ Cardinality(Chain(f)) \in Nat
      BY <1>8, <3>1, ChainFinite, FS_Subset, FS_CardinalityType
    <3>3. rejudging'[f].repeat = rejudging[f].repeat
      BY <1>2 DEF Kept
    <3> QED  BY <1>2, <2>1, <3>2, <3>3
  <2>2. CASE e # f
    <3>1. e # r
      <4>1. ASSUME e = r PROVE FALSE
        <5>1. PICK p \in RejudgingId : rejudging'[p].first = r /\ p \in Chain(r)
          BY <1>7, <2>2, <4>1 DEF Chain
        <5> QED  BY <1>1, <5>1, IdsType DEF Chain, RowInv, ChainRows
      <4> QED  BY <4>1
    <3>2. /\ Cardinality(Chain(e)') <= Cardinality(Chain(e))
          /\ Cardinality(Chain(e)') \in Nat /\ Cardinality(Chain(e)) \in Nat
      BY <1>7, <2>2, ChainFinite, FS_Subset, FS_CardinalityType
    <3>3. rejudging'[e].repeat = rejudging[e].repeat /\ rejudging[e].repeat \in Nat
      BY <3>1, RowType DEF Kept
    <3> QED  BY <1>7, <2>2, <3>2, <3>3 DEF RowInv, ChainBound
  <2> QED  BY <2>1, <2>2
<1>12. FinishRows'
  <2> SUFFICES ASSUME NEW m \in Jury, finish[m].rejudging # 0
               PROVE  rejudging'[finish[m].rejudging].state # "none"
    BY DEF FinishRows
  <2>1. finish[m].rejudging \in RejudgingId
    BY IdsType DEF ValidInv, RejudgingTypeOK
  <2> QED  BY <2>1 DEF RowInv, FinishRows, Kept
<1> QED  BY <1>3, <1>4, <1>6, <1>10, <1>11, <1>12 DEF RowInv

LEMMA CreateRowInv ==
    ASSUME ValidInv, ValidInv', RowInv, NEW r \in RejudgingId, NEW S \in SUBSET Submission,
           NEW auto \in BOOLEAN, NEW repeat \in Nat, repeat > 0, Create(r, S, auto, repeat)
    PROVE  RowInv'
<1>1. /\ NextId(r) /\ rejudging' = [rejudging EXCEPT ![r] = NewRow(r, auto, repeat, 0)]
      /\ creating' = [creating EXCEPT ![r] = S]
      /\ UNCHANGED <<judgings, handler, finish>>
  BY DEF Create, NewRejudging, judgingVars, handlerVars
<1>2. /\ rejudging'[r] = NewRow(r, auto, repeat, 0)
      /\ \A p \in RejudgingId : p # r => rejudging'[p] = rejudging[p] /\ creating'[p] = creating[p]
  BY <1>1 DEF ValidInv, RejudgingTypeOK
<1>3. /\ rejudging'[r].state = "creating" /\ rejudging'[r].repeat = repeat
      /\ rejudging'[r].first = IF repeat = 1 THEN 0 ELSE r
  BY <1>2 DEF NewRow
<1>4. rejudging[r] = NoRejudging /\ rejudging[r].first = 0 /\ ~Exists(r) /\ Subs(r) = {}
  BY <1>1 DEF NextId, RowInv, RowsInOrder, NoRejudging, Exists
<1>5. \A p \in RejudgingId : rejudging[p].first # r
  BY <1>4, IdsType DEF RowInv, ChainRows
<1>6. \A p \in RejudgingId : Subs(p)' = Subs(p)
  BY <1>1 DEF Subs
<1>7. RowsInOrder'
  <2>1. \A p \in RejudgingId : p # r => (Exists(p)' <=> Exists(p))
    BY <1>2 DEF Exists
  <2> QED  BY <1>1, <1>2, <1>3, <1>4, <1>6, <2>1, IdsType DEF RowInv, RowsInOrder, NextId
<1>8. ChainRows'
  BY <1>2, <1>3, <1>5, <1>6, IdsType DEF RowInv, ChainRows
<1>9. \A j \in Busy' : j \in Busy /\ j[2] \in RejudgingId /\ j[2] # r
  <2> SUFFICES ASSUME NEW j \in Busy PROVE j[2] \in RejudgingId /\ j[2] # r
    BY <1>1 DEF Busy
  <2>1. j \in judgings /\ j[2] \in RejudgingId /\ j[1] \in Submission /\ j = <<j[1], j[2]>>
    BY HandlerOfJudging DEF Busy, ValidInv, RejudgingTypeOK
  <2> QED  BY <1>4, <2>1 DEF Subs
<1>10. RepeatingEnded'
  BY <1>2, <1>9 DEF RowInv, RepeatingEnded
<1>11. ASSUME NEW p \in RejudgingId, p # r
       PROVE  Chain(p)' = Chain(p) /\ Repeating(p)' \subseteq Repeating(p) /\ r \notin Chain(p)
  <2>1. r \notin Chain(p) /\ r \notin Chain(p)' 
    BY <1>3, <1>4, <1>11, IdsType DEF Chain
  <2>2. \A q \in RejudgingId : q # r => (Exists(q)' <=> Exists(q))
    BY <1>2 DEF Exists
  <2>3. Chain(p)' = Chain(p)
    BY <1>2, <2>1, <2>2 DEF Chain
  <2>4. Repeating(p)' \subseteq Repeating(p)
    BY <1>2, <1>9 DEF Repeating, Busy
  <2> QED  BY <2>1, <2>3, <2>4
<1>12. Chain(r)' \subseteq {r} /\ Repeating(r)' = {}
  <2>1. Chain(r)' \subseteq {r}
    BY <1>2, <1>5 DEF Chain
  <2>2. Repeating(r)' = {}
    BY <1>2, <1>5, <1>9 DEF Repeating, Busy
  <2> QED  BY <2>1, <2>2
<1>13. OneActive'
  <2> SUFFICES ASSUME NEW e \in RejudgingId
               PROVE  /\ \A p, o \in Chain(e)' : Open(p)' /\ Open(o)' => p = o
                      /\ \A i, j \in Repeating(e)' : i = j
                      /\ Repeating(e)' # {} => \A p \in Chain(e)' : ~Open(p)'
    BY DEF OneActive
  <2>1. CASE e = r
    BY <1>12, <2>1
  <2>2. CASE e # r
    <3>1. \A p \in Chain(e) : Open(p)' => Open(p)
      BY <1>2, <1>11, <2>2, ChainFinite DEF Open, Exists
    <3> QED  BY <1>11, <2>2, <3>1 DEF RowInv, OneActive
  <2> QED  BY <2>1, <2>2
<1>14. ChainBound'
  <2> SUFFICES ASSUME NEW e \in RejudgingId, Chain(e)' # {}
               PROVE  /\ Cardinality(Chain(e)') <= rejudging'[e].repeat
                      /\ Repeating(e)' # {} => Cardinality(Chain(e)') < rejudging'[e].repeat
    BY DEF ChainBound
  <2>1. CASE e = r
    <3>1. Chain(r)' = {r}
      BY <1>12, <2>1
    <3>2. Cardinality({r}) = 1
      BY FS_Singleton
    <3> QED  BY <1>3, <1>12, <2>1, <3>1, <3>2
  <2>2. CASE e # r
    BY <1>2, <1>11, <2>2 DEF RowInv, ChainBound
  <2> QED  BY <2>1, <2>2
<1>15. FinishRows'
  BY <1>1, <1>2, <1>3, IdsType DEF RowInv, FinishRows, ValidInv, RejudgingTypeOK
<1> QED  BY <1>7, <1>8, <1>10, <1>13, <1>14, <1>15 DEF RowInv

(* A handler that goes on is not busy with a repetition, or was before.     *)
LEMMA BusyMoves ==
    ASSUME ValidInv, NEW j \in JudgingId, NEW to, handler' = [handler EXCEPT ![j] = to],
           UNCHANGED judgings,
           handler[j] \in {"repeat", "create"} \/ to \notin {"repeat", "create"}
    PROVE  Busy' \subseteq Busy
  BY DEF Busy, ValidInv, RejudgingTypeOK

(* Steps that end at most a rejudging.                                      *)
LEMMA EndingRowInv ==
    ASSUME ValidInv, ValidInv', RowInv, NEW r \in RejudgingId,
           \A q \in RejudgingId : q # r => rejudging'[q] = rejudging[q],
           \/ rejudging'[r] = rejudging[r]
           \/ /\ rejudging[r].state # "none"
              /\ rejudging'[r].state = rejudging[r].state
              /\ rejudging'[r].first = rejudging[r].first
              /\ rejudging'[r].repeat = rejudging[r].repeat
              /\ rejudging'[r].autoApply = rejudging[r].autoApply
              /\ rejudging'[r].ended,
           UNCHANGED <<judgings, creating>>, Busy' \subseteq Busy,
           \A m \in Jury : finish'[m].rejudging # 0 =>
               finish'[m].rejudging = finish[m].rejudging \/ Exists(finish'[m].rejudging)
    PROVE  RowInv'
<1>1. ASSUME NEW q \in RejudgingId PROVE Kept(q)
  <2>1. (Exists(q)' <=> Exists(q)) /\ Subs(q)' = Subs(q)
    BY DEF Exists, Subs
  <2>2. (Subs(q) # {} => Exists(q)) /\ (rejudging[q].state # "creating" => creating[q] = {})
    BY DEF RowInv, RowsInOrder
  <2>3. CASE q = r
    BY <2>1, <2>2, <2>3 DEF Kept
  <2>4. CASE q # r
    BY <2>1, <2>2, <2>4 DEF Kept
  <2> QED  BY <2>3, <2>4
<1> QED  BY <1>1, KeptRowInv

LEMMA QuietRowInv ==
    ASSUME ValidInv, ValidInv', RowInv, UNCHANGED <<rejudging, judgings, creating>>,
           Busy' \subseteq Busy,
           \A m \in Jury : finish'[m].rejudging # 0 =>
               finish'[m].rejudging = finish[m].rejudging \/ Exists(finish'[m].rejudging)
    PROVE  RowInv'
<1>1. ASSUME NEW q \in RejudgingId PROVE Kept(q)
  <2>1. (Exists(q)' <=> Exists(q)) /\ Subs(q)' = Subs(q)
    BY DEF Exists, Subs
  <2> QED  BY <2>1 DEF Kept, RowInv, RowsInOrder
<1> QED  BY <1>1, KeptRowInv

LEMMA CreateJudgingRowInv ==
    ASSUME ValidInv, ValidInv', RowInv, NEW r \in RejudgingId, NEW s \in Submission,
           CreateJudging(r, s)
    PROVE  RowInv'
<1>1. /\ rejudging[r].state = "creating" /\ creating' = [creating EXCEPT ![r] = @ \ {s}]
      /\ UNCHANGED <<rejudging, finish>>
      /\ judgings \subseteq judgings' /\ judgings' \subseteq judgings \union {<<s, r>>}
  BY DEF CreateJudging
<1>2. Busy' \subseteq Busy
  <2>1. CASE UNCHANGED <<judgings, handler>>
    BY <2>1 DEF Busy
  <2>2. CASE judgings' = judgings \union {<<s, r>>} /\ handler' = [handler EXCEPT ![<<s, r>>] = "queued"]
    BY <2>2, JudgingPair, IdsType DEF Busy, ValidInv, RejudgingTypeOK
  <2> QED  BY <2>1, <2>2 DEF CreateJudging
<1>3. ASSUME NEW q \in RejudgingId PROVE Kept(q)
  <2>1. Exists(q)' <=> Exists(q)
    BY <1>1 DEF Exists
  <2>2. Subs(q) \subseteq Subs(q)' /\ (q # r => Subs(q)' = Subs(q))
    BY <1>1 DEF Subs
  <2>3. creating'[q] \subseteq creating[q]
    BY <1>1 DEF ValidInv, RejudgingTypeOK
  <2>4. q = r => Exists(q)
    BY <1>1 DEF Exists
  <2> QED  BY <1>1, <2>1, <2>2, <2>3, <2>4 DEF Kept, RowInv, RowsInOrder
<1> QED  BY <1>1, <1>2, <1>3, KeptRowInv

LEMMA CreateEndRowInv ==
    ASSUME ValidInv, ValidInv', RowInv, NEW r \in RejudgingId, CreateEnd(r) PROVE RowInv'
<1> DEFINE state == IF JudgingsOf(r) = {} THEN "removed" ELSE "created"
<1>1. /\ rejudging[r].state = "creating" /\ creating[r] = {}
      /\ rejudging' = [rejudging EXCEPT ![r].state = state]
      /\ UNCHANGED <<judgings, handler, creating, finish>>
  BY DEF CreateEnd, judgingVars, handlerVars
<1>2. /\ rejudging'[r] = [rejudging[r] EXCEPT !.state = state]
      /\ \A q \in RejudgingId : q # r => rejudging'[q] = rejudging[q]
  BY <1>1 DEF ValidInv, RejudgingTypeOK
<1>3. /\ rejudging'[r].state = state /\ rejudging'[r].ended = rejudging[r].ended
      /\ rejudging'[r].first = rejudging[r].first /\ rejudging'[r].repeat = rejudging[r].repeat
      /\ rejudging'[r].autoApply = rejudging[r].autoApply
  BY <1>2 DEF ValidInv, RejudgingTypeOK, RejudgingRow
<1>4. \A q \in RejudgingId : Subs(q)' = Subs(q)
  BY <1>1 DEF Subs
<1>5. Subs(r) # {} => state = "created"
  <2>1. \A s \in Subs(r) : <<s, r>> \in JudgingsOf(r)
    BY DEF Subs, JudgingsOf
  <2> QED  BY <2>1
<1>6. ASSUME NEW q \in RejudgingId PROVE Kept(q)
  <2>1. CASE q = r
    BY <1>1, <1>3, <1>4, <1>5, <2>1 DEF Kept, Exists
  <2>2. CASE q # r
    BY <1>1, <1>2, <1>4, <2>2 DEF Kept, Exists, RowInv, RowsInOrder
  <2> QED  BY <2>1, <2>2
<1>7. Busy' \subseteq Busy
  BY <1>1 DEF Busy
<1> QED  BY <1>1, <1>6, <1>7, KeptRowInv

(* Steps of a handler that change no rejudging.                             *)
LEMMA HandlerQuietRowInv ==
    ASSUME ValidInv, ValidInv', RowInv, NEW j \in JudgingId,
           Claim(j) \/ AddRun(j) \/ Flush(j) \/ ResetSubmissions(j) \/ CompileBegin(j)
               \/ \E known \in BOOLEAN : ReadResult(j, known)
    PROVE  RowInv'
<1>1. UNCHANGED <<rejudging, judgings, creating, finish>>
  BY DEF Claim, AddRun, Flush, ResetSubmissions, CompileBegin, ReadResult, judgingVars, createVars
<1>2. PICK to : /\ handler' = [handler EXCEPT ![j] = to]
                /\ handler[j] \in {"repeat", "create"} \/ to \notin {"repeat", "create"}
  BY DEF Claim, AddRun, Flush, ResetSubmissions, CompileBegin, ReadResult
<1>3. Busy' \subseteq Busy
  BY <1>1, <1>2, BusyMoves
<1> QED  BY <1>1, <1>3, QuietRowInv

LEMMA EndsRow ==
    ASSUME ValidInv, NEW r \in RejudgingId, NEW todo, EndAutomatically(r, todo)
    PROVE  /\ \A q \in RejudgingId : q # r => rejudging'[q] = rejudging[q]
           /\ \/ rejudging'[r] = rejudging[r]
              \/ /\ rejudging[r].state # "none" /\ rejudging[r].autoApply /\ Open(r) /\ todo = {}
                 /\ rejudging'[r].state = rejudging[r].state
                 /\ rejudging'[r].first = rejudging[r].first
                 /\ rejudging'[r].repeat = rejudging[r].repeat
                 /\ rejudging'[r].autoApply = rejudging[r].autoApply
                 /\ rejudging'[r].ended /\ rejudging'[r].valid = rejudging[r].valid
<1>1. rejudging \in [RejudgingId -> RejudgingRow] /\ rejudging[r] \in RejudgingRow
  BY DEF ValidInv, RejudgingTypeOK
<1>2. CASE /\ rejudging[r].autoApply /\ Open(r) /\ todo = {}
           /\ rejudging' = [rejudging EXCEPT ![r].ended = TRUE]
  <2>1. /\ rejudging'[r] = [rejudging[r] EXCEPT !.ended = TRUE]
        /\ \A q \in RejudgingId : q # r => rejudging'[q] = rejudging[q]
    BY <1>1, <1>2
  <2> QED  BY <1>1, <1>2, <2>1 DEF RejudgingRow, Open, Exists
<1>3. CASE UNCHANGED rejudging
  BY <1>3
<1> QED  BY <1>2, <1>3 DEF EndAutomatically

LEMMA CountRowInv ==
    ASSUME ValidInv, ValidInv', RowInv, NEW j \in JudgingId, NEW next \in Progress,
           Count(j, next)
    PROVE  RowInv'
<1>1. /\ handler[j] = "count" /\ handler' = [handler EXCEPT ![j] = next]
      /\ UNCHANGED <<judgings, creating, finish>> /\ j[2] \in RejudgingId
  BY HandlerOfJudging DEF Count, judgingVars, createVars
<1>2. CASE EndForRepetition(j[2], Todo(j[2])) /\ next = "repeat"
  BY <1>1, <1>2, CountRepeatRowInv
<1>3. CASE EndAutomatically(j[2], Todo(j[2])) /\ After(j, next)
  <2>1. Busy' \subseteq Busy
    BY <1>1, <1>3, BusyMoves DEF After
  <2> QED  BY <1>1, <1>3, <2>1, EndsRow, EndingRowInv
<1> QED  BY <1>2, <1>3 DEF Count, EndRejudging

LEMMA CompileCommitRowInv ==
    ASSUME ValidInv, ValidInv', RowInv, NEW j \in JudgingId, CompileCommit(j) PROVE RowInv'
<1>1. /\ handler[j] = "compile" /\ handler' = [handler EXCEPT ![j] = "over"]
      /\ UNCHANGED <<judgings, creating, finish>> /\ j[2] \in RejudgingId
      /\ EndAutomatically(j[2], TodoInTransaction(j))
  BY HandlerOfJudging DEF CompileCommit, CompileFlush, createVars
<1>2. Busy' \subseteq Busy
  BY <1>1, BusyMoves
<1> QED  BY <1>1, <1>2, EndsRow, EndingRowInv

LEMMA FinishQuietRowInv ==
    ASSUME ValidInv, ValidInv', RowInv, NEW m \in Jury,
           \/ \E s \in Submission : Apply(m, s) \/ Cancel(m, s)
           \/ \E r \in RejudgingId, apply \in BOOLEAN : StartFinish(m, r, apply)
    PROVE  RowInv'
<1>1. UNCHANGED <<rejudging, judgings, creating>>
  BY DEF Apply, Cancel, StartFinish, judgingVars, createVars
<1>2. CASE \E s \in Submission : Apply(m, s) \/ Cancel(m, s)
  <2>1. PICK s \in Submission : Apply(m, s) \/ Cancel(m, s)
    BY <1>2
  <2>2. \A n \in Jury : finish'[n].rejudging = finish[n].rejudging
    <3>1. /\ s \in finish[m].submissions
          /\ finish' = [finish EXCEPT ![m].submissions = @ \ {s}]
      BY <2>1 DEF Apply, Cancel
    <3> QED  BY <1>1, <3>1, FinishMoves
  <2>3. Busy' \subseteq Busy
    <3>1. CASE UNCHANGED handler
      BY <1>1, <3>1 DEF Busy
    <3>2. CASE Cancel(m, s)
      <4> DEFINE j == <<s, finish[m].rejudging>>
      <4>1. handler' = [handler EXCEPT ![j] = CancelledHandler(j)]
        BY <3>2 DEF Cancel
      <4>2. \A i \in JudgingId : handler'[i] = handler[i] \/ handler'[i] = "over"
        BY <4>1 DEF CancelledHandler, ValidInv, RejudgingTypeOK
      <4> QED  BY <1>1, <4>2 DEF Busy, ValidInv, RejudgingTypeOK
    <3> QED  BY <2>1, <3>1, <3>2 DEF Apply, handlerVars
  <2> QED  BY <1>1, <2>2, <2>3, QuietRowInv
<1>3. ASSUME NEW r \in RejudgingId, NEW apply \in BOOLEAN, StartFinish(m, r, apply)
      PROVE  RowInv'
  <2>1. Busy' \subseteq Busy
    BY <1>1, <1>3 DEF StartFinish, Busy, handlerVars
  <2>2. /\ Exists(r) /\ finish'[m].rejudging = r
        /\ \A n \in Jury : n # m => finish'[n] = finish[n]
    BY <1>3 DEF StartFinish, Open, ValidInv, RejudgingTypeOK
  <2> QED  BY <1>1, <2>1, <2>2, QuietRowInv
<1> QED  BY <1>2, <1>3

LEMMA EndFinishRowInv ==
    ASSUME ValidInv, ValidInv', RowInv, NEW m \in Jury, EndFinish(m) PROVE RowInv'
<1> DEFINE r == finish[m].rejudging
<1>1. /\ r \in RejudgingId
      /\ rejudging'[r] = [rejudging[r] EXCEPT !.ended = TRUE, !.valid = finish[m].apply]
      /\ \A q \in RejudgingId : q # r => rejudging'[q] = rejudging[q]
      /\ finish'[m] = NotFinishing /\ \A n \in Jury : n # m => finish'[n] = finish[n]
      /\ UNCHANGED <<rejudgingid, judgingVars, handlerVars, createVars>>
  BY EndFinishEffect
<1>2. /\ rejudging'[r].state = rejudging[r].state /\ rejudging'[r].first = rejudging[r].first
      /\ rejudging'[r].repeat = rejudging[r].repeat
      /\ rejudging'[r].autoApply = rejudging[r].autoApply /\ rejudging'[r].ended
  <2>1. rejudging[r] \in RejudgingRow
    BY <1>1 DEF ValidInv, RejudgingTypeOK
  <2> QED  BY <1>1, <2>1 DEF RejudgingRow
<1>3. rejudging[r].state # "none"
  BY <1>1, IdsType DEF RowInv, FinishRows
<1>4. Busy' \subseteq Busy /\ UNCHANGED <<judgings, creating>>
  BY <1>1 DEF Busy, judgingVars, handlerVars, createVars
<1>5. \A n \in Jury : finish'[n].rejudging # 0 => finish'[n].rejudging = finish[n].rejudging
  BY <1>1 DEF NotFinishing
<1> QED  BY <1>1, <1>2, <1>3, <1>4, <1>5, EndingRowInv

LEMMA RepeatEffect ==
    ASSUME ValidInv, NEW j \in JudgingId, NEW r \in RejudgingId, NEW next \in Progress,
           Repeat(j, r, next)
    PROVE  LET q == j[2] IN
           /\ j \in judgings /\ q \in RejudgingId /\ handler[j] = "create"
           /\ NextId(r) /\ After(j, next) /\ handler' = [handler EXCEPT ![j] = next]
           /\ rejudging'[r] = NewRow(r, FALSE, rejudging[q].repeat, rejudging[q].first)
           /\ \A p \in RejudgingId : p # r => rejudging'[p] = rejudging[p]
           /\ creating'[r] = Subs(q) /\ taken'[r] = {s \in Subs(q) : rejudgingid[s] # 0}
           /\ \A p \in RejudgingId : p # r => creating'[p] = creating[p] /\ taken'[p] = taken[p]
           /\ UNCHANGED <<rejudgingid, judgingVars, left, aborted, todoSeen, finish>>
<1> DEFINE q == j[2]
<1>1. /\ j \in judgings /\ q \in RejudgingId /\ handler[j] = "create"
      /\ NextId(r) /\ After(j, next) /\ handler' = [handler EXCEPT ![j] = next]
      /\ UNCHANGED <<rejudgingid, judgingVars, left, aborted, todoSeen, finish>>
  BY HandlerOfJudging DEF Repeat, NewRejudging
<1>2. {i[1] : i \in JudgingsOf(q)} = Subs(q)
  BY <1>1, SubsOfJudgings DEF ValidInv
<1>3. /\ rejudging' = [rejudging EXCEPT
             ![r] = NewRow(r, FALSE, rejudging[q].repeat, rejudging[q].first)]
      /\ creating' = [creating EXCEPT ![r] = Subs(q)]
      /\ taken' = [taken EXCEPT ![r] = {s \in Subs(q) : rejudgingid[s] # 0}]
  BY <1>2 DEF Repeat, NewRejudging
<1> QED  BY <1>1, <1>3 DEF ValidInv, RejudgingTypeOK

LEMMA RepeatRowInv ==
    ASSUME ValidInv, ValidInv', RowInv, NEW j \in JudgingId, NEW r \in RejudgingId,
           NEW next \in Progress, Repeat(j, r, next)
    PROVE  RowInv'
<1> DEFINE q == j[2]
<1>1. /\ j \in judgings /\ q \in RejudgingId /\ handler[j] = "create" /\ j[1] \in Submission
      /\ j = <<j[1], q>>
  BY RepeatEffect, HandlerOfJudging
<1>2. /\ NextId(r) /\ After(j, next) /\ handler' = [handler EXCEPT ![j] = next]
      /\ UNCHANGED <<judgings, finish>>
  BY RepeatEffect DEF judgingVars
<1>3. /\ rejudging'[r] = NewRow(r, FALSE, rejudging[q].repeat, rejudging[q].first)
      /\ \A p \in RejudgingId : p # r => rejudging'[p] = rejudging[p] /\ creating'[p] = creating[p]
  BY RepeatEffect
<1>4. j \in Busy
  BY <1>1 DEF Busy
<1>5. PICK f \in RejudgingId : rejudging[q].first = f /\ rejudging[q].repeat > 1
  BY <1>1, <1>4, RowType DEF RowInv, RepeatingEnded, RowsInOrder
<1>6. /\ rejudging'[r].first = f /\ rejudging'[r].repeat = rejudging[q].repeat
      /\ rejudging'[r].state = "creating"
  BY <1>3, <1>5, IdsType DEF NewRow
<1>7. Subs(q) # {} /\ Exists(q) /\ q \in Chain(f)
  BY <1>1, <1>5 DEF Subs, RowInv, RowsInOrder, Chain
<1>8. q # r
  BY <1>2, <1>7 DEF NextId, Exists
<1>9. \A p \in RejudgingId \ {r} : Kept(p)
  <2> SUFFICES ASSUME NEW p \in RejudgingId, p # r PROVE Kept(p)
    OBVIOUS
  <2>1. (Exists(p)' <=> Exists(p)) /\ Subs(p)' = Subs(p)
    BY <1>2, <1>3 DEF Exists, Subs
  <2> QED  BY <1>3, <2>1 DEF Kept, RowInv, RowsInOrder
<1>10. Busy' \subseteq Busy /\ j \notin Busy'
  BY <1>1, <1>2 DEF After, Busy, ValidInv, RejudgingTypeOK
<1>11. Repeating(f) = {j}
  <2>1. j \in Repeating(f)
    BY <1>1, <1>5 DEF Repeating
  <2> QED  BY <2>1 DEF RowInv, OneActive
<1>12. Repeating(f)' = {}
  <2> SUFFICES ASSUME NEW i \in Busy', rejudging'[i[2]].first = f PROVE FALSE
    BY DEF Repeating, Busy
  <2>1. i \in Busy /\ i # j
    BY <1>10
  <2>2. i \in judgings /\ i[2] \in RejudgingId /\ i[1] \in Submission /\ i = <<i[1], i[2]>>
    BY <2>1, HandlerOfJudging DEF Busy, ValidInv, RejudgingTypeOK
  <2>3. Exists(i[2])
    BY <2>2 DEF Subs, RowInv, RowsInOrder
  <2>4. i[2] # r
    BY <1>2, <2>3 DEF NextId, Exists
  <2>5. i \in Repeating(f)
    BY <1>3, <2>1, <2>2, <2>4 DEF Repeating, Busy
  <2> QED  BY <1>11, <2>1, <2>5
<1>13. \A p \in Chain(f) : ~Open(p)'
  <2> SUFFICES ASSUME NEW p \in Chain(f) PROVE ~Open(p)'
    OBVIOUS
  <2>1. ~Open(p) /\ p \in RejudgingId /\ p # r
    BY <1>2, <1>11 DEF RowInv, OneActive, Chain, NextId, Exists
  <2> QED  BY <1>3, <2>1 DEF Open, Exists
<1>14. Cardinality(Chain(f)) < rejudging[f].repeat
  BY <1>7, <1>11 DEF RowInv, ChainBound
<1>15. Subs(r)' # {} => Exists(r)'
  BY <1>6 DEF Exists
<1> QED
  BY <1>1, <1>2, <1>5, <1>6, <1>7, <1>8, <1>9, <1>10, <1>12, <1>13, <1>14, <1>15,
     NewRepetitionRowInv

LEMMA CompileRepeatRowInv ==
    ASSUME ValidInv, ValidInv', RowInv, NEW j \in JudgingId, NEW r \in RejudgingId,
           CompileRepeat(j, r)
    PROVE  RowInv'
<1> DEFINE q == j[2]
<1>1. /\ handler[j] = "compile" /\ j \in judgings /\ q \in RejudgingId /\ q # r
      /\ NextId(r) /\ Open(q) /\ RepetitionDue(q, TodoInTransaction(j))
      /\ rejudging'[q] = EndedRow(q)
      /\ \A p \in RejudgingId \ {q, r} : rejudging'[p] = rejudging[p]
  BY CompileRepeatEffect
<1>2. /\ rejudging'[r] = RepeatedRow(q, r)
      /\ judgings' = judgings \union (Repeated(q) \X {r})
      /\ handler' = [i \in JudgingId |-> IF i = j THEN "over"
                         ELSE IF i \in Repeated(q) \X {r} THEN "queued" ELSE handler[i]]
      /\ UNCHANGED <<createVars, finish>>
  BY CompileRepeatEffect
<1>3. j[1] \in Submission /\ j = <<j[1], q>>
  BY JudgingPair
<1>4. rejudging[q].repeat > 1 /\ Cardinality(Chain(rejudging[q].first)) < rejudging[q].repeat
  BY <1>1 DEF RepetitionDue, Chain
<1>5. PICK f \in RejudgingId :
          /\ rejudging[q].first = f /\ rejudging[f].repeat = rejudging[q].repeat
          /\ Cardinality(Chain(f)) < rejudging[f].repeat
  BY <1>1, <1>4, RowType DEF RowInv, RowsInOrder, ChainRows
<1>6. /\ rejudging'[r].first = f /\ rejudging'[r].repeat = rejudging[q].repeat
      /\ rejudging'[r].state = IF Repeated(q) = {} THEN "removed" ELSE "created"
  BY <1>2, <1>4, <1>5, IdsType DEF RepeatedRow, NewRow
<1>7. /\ rejudging'[q].first = rejudging[q].first /\ rejudging'[q].repeat = rejudging[q].repeat
      /\ rejudging'[q].autoApply = rejudging[q].autoApply /\ rejudging'[q].ended
      /\ rejudging'[q].state = rejudging[q].state
  BY <1>1, RowType DEF EndedRow, RejudgingRow
<1>8. \A p \in RejudgingId : p # r => Subs(p)' = Subs(p)
  BY <1>2 DEF Subs
<1>9. Subs(r)' \subseteq Repeated(q)
  <2>1. Subs(r) = {}
    BY <1>1 DEF RowInv, RowsInOrder, NextId, Exists
  <2> QED  BY <1>2, <2>1 DEF Subs
<1>10. \A p \in RejudgingId \ {r} : Kept(p)
  <2> SUFFICES ASSUME NEW p \in RejudgingId, p # r PROVE Kept(p)
    OBVIOUS
  <2>1. Subs(p)' = Subs(p) /\ creating'[p] = creating[p]
    BY <1>2, <1>8 DEF createVars
  <2>2. (Subs(p) # {} => Exists(p)) /\ (rejudging[p].state # "creating" => creating[p] = {})
    BY DEF RowInv, RowsInOrder
  <2>3. CASE p = q
    BY <1>1, <1>7, <2>1, <2>2, <2>3 DEF Kept, Open, Exists
  <2>4. CASE p # q
    BY <1>1, <2>1, <2>2, <2>4 DEF Kept, Exists
  <2> QED  BY <2>3, <2>4
<1>11. Busy' \subseteq Busy
  <2> SUFFICES ASSUME NEW i \in judgings', handler'[i] \in {"repeat", "create"}
               PROVE  i \in judgings /\ handler[i] \in {"repeat", "create"}
    BY DEF Busy
  <2>1. i \in JudgingId
    BY DEF ValidInv, RejudgingTypeOK
  <2> QED  BY <1>2, <2>1
<1>12. Subs(q) # {} /\ q \in Chain(f)
  BY <1>1, <1>3, <1>5 DEF Subs, Chain, Open
<1>13. Repeating(f) = {} /\ \A p \in Chain(f) : Open(p) => p = q
  BY <1>1, <1>12 DEF RowInv, OneActive
<1>14. Repeating(f)' = {}
  <2> SUFFICES ASSUME NEW i \in Busy', rejudging'[i[2]].first = f PROVE FALSE
    BY DEF Repeating, Busy
  <2>1. i \in Busy
    BY <1>11
  <2>2. i \in judgings /\ i[2] \in RejudgingId /\ i[1] \in Submission /\ i = <<i[1], i[2]>>
    BY <2>1, HandlerOfJudging DEF Busy, ValidInv, RejudgingTypeOK
  <2>3. Exists(i[2])
    BY <2>2 DEF Subs, RowInv, RowsInOrder
  <2>4. i[2] # r
    BY <1>1, <2>3 DEF NextId, Exists
  <2>5. i \in Repeating(f)
    BY <1>10, <2>1, <2>2, <2>4 DEF Repeating, Busy, Kept
  <2> QED  BY <1>13, <2>5
<1>15. \A p \in Chain(f) : ~Open(p)'
  <2> SUFFICES ASSUME NEW p \in Chain(f) PROVE ~Open(p)'
    OBVIOUS
  <2>1. p \in RejudgingId /\ p # r /\ (Open(p) => p = q)
    BY <1>1, <1>13 DEF Chain, NextId, Exists
  <2> QED  BY <1>7, <1>10, <2>1 DEF Open, Exists, Kept
<1>16. rejudging'[r].state # "none" /\ (Subs(r)' # {} => Exists(r)')
  BY <1>6, <1>9 DEF Exists
<1>17. creating'[r] = {}
  BY <1>1, <1>2 DEF createVars, RowInv, RowsInOrder, NextId
<1> QED
  BY <1>1, <1>2, <1>5, <1>6, <1>10, <1>11, <1>12, <1>14, <1>15, <1>16, <1>17,
     NewRepetitionRowInv

LEMMA InitRowInv == RejudgingInit => RowInv
<1> SUFFICES ASSUME RejudgingInit PROVE RowInv
  OBVIOUS
<1>1. /\ \A r \in RejudgingId : rejudging[r] = NoRejudging /\ creating[r] = {}
      /\ \A m \in Jury : finish[m] = NotFinishing
  BY DEF RejudgingInit
<1>2. Busy = {}
  BY JudgingPair, IdsType DEF RejudgingInit, Busy
<1>3. \A r \in RejudgingId : Subs(r) = {}
  BY IdsType DEF Subs, RejudgingInit
<1>4. \A r \in RejudgingId : Chain(r) = {}
  BY <1>1 DEF Chain, Exists, NoRejudging
<1>5. \A r \in RejudgingId : Repeating(r) = {}
  BY <1>2 DEF Busy, Repeating
<1>6. RowsInOrder /\ ChainRows
  BY <1>1, <1>3, IdsType DEF RowsInOrder, ChainRows, NoRejudging
<1> QED
  BY <1>1, <1>2, <1>4, <1>5, <1>6
  DEF RowInv, RepeatingEnded, OneActive, ChainBound, FinishRows, NotFinishing

LEMMA NextRowInv == ValidInv /\ ValidInv' /\ RowInv /\ [RejudgingNext]_rejudgingVars => RowInv'
<1> SUFFICES ASSUME ValidInv, ValidInv', RowInv, [RejudgingNext]_rejudgingVars PROVE RowInv'
  OBVIOUS
<1>1. CASE UNCHANGED rejudgingVars
  BY <1>1, QuietRowInv DEF rejudgingVars, judgingVars, handlerVars, createVars, Busy
<1>2. ASSUME NEW j \in JudgingId, HandlerStep(j) PROVE RowInv'
  BY <1>2, HandlerQuietRowInv, CountRowInv, RepeatRowInv, CompileCommitRowInv,
     CompileRepeatRowInv DEF HandlerStep
<1>3. ASSUME NEW r \in RejudgingId, CreateStep(r) PROVE RowInv'
  BY <1>3, CreateEndRowInv, CreateJudgingRowInv DEF CreateStep
<1>4. ASSUME NEW m \in Jury, FinishStep(m) PROVE RowInv'
  BY <1>4, EndFinishRowInv, FinishQuietRowInv DEF FinishStep
<1>5. ASSUME NEW r \in RejudgingId, NEW S \in SUBSET Submission, NEW k \in Kinds,
             Create(r, S, k[1], k[2])
      PROVE  RowInv'
  BY <1>5, KindType, CreateRowInv
<1> QED
  BY <1>1, <1>2, <1>3, <1>4, <1>5, FinishQuietRowInv DEF RejudgingNext

LEMMA RowInvIsInvariant == RejudgingSpec => [](ValidInv /\ RowInv)
<1>1. ValidInv /\ RowInv /\ [RejudgingNext]_rejudgingVars => ValidInv' /\ RowInv'
  BY NextValidInv, NextRowInv
<1> QED  BY <1>1, InitValidInv, InitRowInv, PTL DEF RejudgingSpec

LEMMA AtMostOne ==
    ASSUME NEW S, \A x, y \in S : x = y
    PROVE  /\ IsFiniteSet(S) /\ Cardinality(S) \in 0..1
           /\ S # {} => Cardinality(S) = 1
           /\ S = {} => Cardinality(S) = 0
<1>1. CASE S = {}
  BY <1>1, FS_EmptySet
<1>2. CASE S # {}
  <2>1. PICK x : S = {x}
    BY <1>2
  <2> QED  BY <1>2, <2>1, FS_Singleton
<1> QED  BY <1>1, <1>2

(* A rejudging is not repeated more often than the jury asked for, and a    *)
(* repetition begins when the one before it has ended, though judgehosts    *)
(* that finish the last judgings of a rejudging at the same time both find  *)
(* nothing left to do, inside and outside transactions.                     *)
THEOREM RepetitionsInTurn == RejudgingSpec => []RepeatedInTurn
<1>1. ValidInv /\ RowInv => RepeatedInTurn
  <2> SUFFICES ASSUME ValidInv, RowInv, NEW r \in RejudgingId, Chain(r) # {}
      PROVE  /\ Cardinality(Chain(r)) + Cardinality(Repeating(r)) <= rejudging[r].repeat
             /\ Cardinality({q \in Chain(r) : Open(q)}) <= 1
    BY DEF RepeatedInTurn
  <2>1. Cardinality({q \in Chain(r) : Open(q)}) \in 0..1
    BY AtMostOne DEF RowInv, OneActive
  <2>2. /\ Cardinality(Repeating(r)) \in 0..1
        /\ Repeating(r) = {} => Cardinality(Repeating(r)) = 0
    BY AtMostOne DEF RowInv, OneActive
  <2>3. /\ Cardinality(Chain(r)) \in Nat /\ rejudging[r].repeat \in Nat
        /\ Cardinality(Chain(r)) <= rejudging[r].repeat
        /\ Repeating(r) # {} => Cardinality(Chain(r)) < rejudging[r].repeat
    BY ChainFinite, RowType DEF RowInv, ChainBound
  <2> QED  BY <2>1, <2>2, <2>3
<1> QED  BY <1>1, RowInvIsInvariant, PTL
-----------------------------------------------------------------------------
(* What a step of the handler of judging j that creates no rejudging does.  *)
HandlerGoesOn(j) ==
    /\ j \in judgings /\ j[1] \in Submission /\ j[2] \in RejudgingId /\ j = <<j[1], j[2]>>
    /\ handler[j] \notin {"none", "over"} /\ handler'[j] \notin {"none", "queued"}
    /\ \A i \in JudgingId : i # j => handler'[i] = handler[i] /\ todoSeen'[i] = todoSeen[i]
    /\ UNCHANGED <<judgings, creating, taken, finish>>
    /\ endtime \subseteq endtime' /\ endtime' \subseteq endtime \union {j}
    /\ handler[j] = "queued" => (CreationFirst => rejudging[j[2]].state = "created")
    /\ \A t \in Submission :
           \/ rejudgingid'[t] = rejudgingid[t]
           \/ /\ rejudgingid'[t] = 0
              /\ \/ t = j[1] /\ rejudging[j[2]].autoApply
                 \/ handler[j] = "repeat" /\ rejudgingid[t] = j[2]
    /\ handler[j] = "repeat" => \A t \in Submission : rejudgingid'[t] # j[2]
    /\ handler'[j] = "repeat" => handler[j] = "count"
    /\ handler'[j] = "create" <=> handler[j] = "repeat"
    /\ j \in endtime' \ endtime =>
           /\ rejudging[j[2]].autoApply => rejudgingid'[j[1]] = 0
           /\ handler[j] \in {"flush", "compile"}
           /\ handler'[j] = "count" \/ handler[j] = "compile"
    /\ handler'[j] = "compile" =>
           /\ UNCHANGED endtime
           /\ SnapshotReads => todoSeen'[j] = Todo(j[2]) \ {j}
    /\ valid' = valid \/ (rejudging[j[2]].autoApply /\ valid' = MadeValid(j))
    /\ handler[j] \notin {"count", "compile"} => UNCHANGED rejudging
    /\ handler[j] = "count" => UNCHANGED endtime /\ EndRejudging(j, handler'[j])
    /\ handler[j] = "compile" =>
           /\ handler'[j] = "over" /\ endtime' = endtime \union {j}
           /\ EndAutomatically(j[2], TodoInTransaction(j))

QuietHandlerStep(j) ==
    \/ Claim(j) \/ AddRun(j) \/ Flush(j) \/ ResetSubmissions(j) \/ CompileBegin(j)
    \/ \E known \in BOOLEAN : ReadResult(j, known)
    \/ \E next \in Progress : Count(j, next)
    \/ CompileCommit(j)

(* What ApplyAutomatically changes.                                         *)
LEMMA ReleasedAutomatically ==
    ASSUME ValidInv, NEW j \in JudgingId, ApplyAutomatically(j)
    PROVE  /\ \A t \in Submission :
                  \/ rejudgingid'[t] = rejudgingid[t]
                  \/ rejudgingid'[t] = 0 /\ t = j[1] /\ rejudging[j[2]].autoApply
           /\ rejudging[j[2]].autoApply => rejudgingid'[j[1]] = 0
           /\ valid' = valid \/ (rejudging[j[2]].autoApply /\ valid' = MadeValid(j))
  BY JudgingPair DEF ApplyAutomatically, ValidInv, RejudgingTypeOK

LEMMA HandlersGoOn ==
    ASSUME ValidInv, NEW j \in JudgingId, QuietHandlerStep(j)
    PROVE  HandlerGoesOn(j)
<1>1. /\ handler \in [JudgingId -> HandlerState] /\ endtime \subseteq judgings
      /\ rejudgingid \in [Submission -> 0..NumRejudgings]
      /\ todoSeen \in [JudgingId -> SUBSET JudgingId]
  BY DEF ValidInv, RejudgingTypeOK, HandlerState
<1>2. handler[j] \notin {"none", "over"}
  BY DEF QuietHandlerStep, Claim, AddRun, Flush, ResetSubmissions, CompileBegin, ReadResult, Count,
         CompileCommit, CompileFlush
<1>3. j \in judgings /\ j[1] \in Submission /\ j[2] \in RejudgingId /\ j = <<j[1], j[2]>>
  BY <1>2, HandlerOfJudging
<1>4. CASE Claim(j)
  BY <1>1, <1>2, <1>3, <1>4 DEF Claim, judgingVars, createVars, HandlerGoesOn
<1>5. CASE AddRun(j)
  BY <1>1, <1>2, <1>3, <1>5, ReleasedAutomatically DEF AddRun, createVars, HandlerGoesOn
<1>6. CASE Flush(j)
  BY <1>1, <1>2, <1>3, <1>6, ReleasedAutomatically DEF Flush, createVars, HandlerGoesOn
<1>7. CASE ResetSubmissions(j)
  BY <1>1, <1>2, <1>3, <1>7, IdsType DEF ResetSubmissions, judgingVars, createVars, HandlerGoesOn
<1>8. CASE CompileBegin(j)
  BY <1>1, <1>2, <1>3, <1>8 DEF CompileBegin, judgingVars, createVars, HandlerGoesOn
<1>9. CASE \E known \in BOOLEAN : ReadResult(j, known)
  BY <1>1, <1>2, <1>3, <1>9 DEF ReadResult, judgingVars, createVars, HandlerGoesOn
<1>10. ASSUME NEW next \in Progress, Count(j, next) PROVE HandlerGoesOn(j)
  <2>1. /\ handler[j] = "count" /\ handler'[j] = next /\ EndRejudging(j, next)
        /\ \A i \in JudgingId : i # j => handler'[i] = handler[i]
        /\ UNCHANGED <<rejudgingid, judgingVars, left, aborted, todoSeen, createVars, finish>>
    BY <1>1, <1>10 DEF Count
  <2> QED
    BY <1>1, <1>2, <1>3, <2>1 DEF judgingVars, createVars, HandlerGoesOn, Progress
<1>11. CASE CompileCommit(j)
  <2>1. /\ handler[j] = "compile" /\ handler'[j] = "over" /\ endtime' = endtime \union {j}
        /\ \A i \in JudgingId : i # j => handler'[i] = handler[i] /\ todoSeen'[i] = todoSeen[i]
        /\ ApplyAutomatically(j) /\ EndAutomatically(j[2], TodoInTransaction(j))
        /\ UNCHANGED <<judgings, aborted, createVars, finish>>
    BY <1>1, <1>11 DEF CompileCommit, CompileFlush
  <2> QED
    BY <1>1, <1>2, <1>3, <2>1, ReleasedAutomatically DEF createVars, HandlerGoesOn
<1> QED
  BY <1>4, <1>5, <1>6, <1>7, <1>8, <1>9, <1>10, <1>11 DEF QuietHandlerStep

(* The row of the rejudging of judging j in such a step.                    *)
LEMMA RowGoesOn ==
    ASSUME ValidInv, NEW j \in JudgingId, HandlerGoesOn(j)
    PROVE  /\ \A q \in RejudgingId : q # j[2] => rejudging'[q] = rejudging[q]
           /\ \A q \in RejudgingId :
                  /\ rejudging'[q].state = rejudging[q].state
                  /\ rejudging'[q].first = rejudging[q].first
                  /\ rejudging'[q].repeat = rejudging[q].repeat
                  /\ rejudging'[q].autoApply = rejudging[q].autoApply
           /\ \/ rejudging'[j[2]] = rejudging[j[2]]
              \/ /\ Open(j[2]) /\ rejudging'[j[2]].ended
                 /\ \/ /\ handler[j] = "count" /\ handler'[j] = "repeat"
                       /\ ~rejudging[j[2]].autoApply /\ rejudging'[j[2]].valid = FALSE
                       /\ RepetitionDue(j[2], Todo(j[2]))
                    \/ /\ rejudging[j[2]].autoApply
                       /\ \/ handler[j] = "count" /\ Todo(j[2]) = {}
                          \/ handler[j] = "compile" /\ TodoInTransaction(j) = {}
<1> DEFINE q == j[2]
<1>1. q \in RejudgingId /\ rejudging \in [RejudgingId -> RejudgingRow] /\ rejudging[q] \in RejudgingRow
  BY DEF HandlerGoesOn, ValidInv, RejudgingTypeOK
<1>2. CASE EndForRepetition(q, Todo(q)) /\ handler'[j] = "repeat" /\ handler[j] = "count"
  <2>1. rejudging' = [rejudging EXCEPT ![q] = EndedRow(q)] /\ RepetitionDue(q, Todo(q))
    BY <1>1, <1>2 DEF EndForRepetition, EndedRow
  <2>2. rejudging'[q] = EndedRow(q) /\ \A p \in RejudgingId : p # q => rejudging'[p] = rejudging[p]
    BY <1>1, <2>1
  <2>3. /\ rejudging'[q].state = rejudging[q].state /\ rejudging'[q].first = rejudging[q].first
        /\ rejudging'[q].repeat = rejudging[q].repeat /\ rejudging'[q].ended
        /\ rejudging'[q].autoApply = rejudging[q].autoApply /\ rejudging'[q].valid = FALSE
    BY <1>1, <2>2 DEF EndedRow, RejudgingRow
  <2> QED  BY <1>2, <2>1, <2>2, <2>3 DEF EndForRepetition, RepetitionDue
<1>3. CASE /\ handler[j] \in {"count", "compile"}
           /\ EndAutomatically(q, IF handler[j] = "count" THEN Todo(q) ELSE TodoInTransaction(j))
  BY <1>1, <1>3, EndsRow
<1>4. CASE UNCHANGED rejudging
  BY <1>4
<1>5. handler[j] = "count" => \/ EndForRepetition(q, Todo(q)) /\ handler'[j] = "repeat"
                              \/ EndAutomatically(q, Todo(q))
  BY DEF HandlerGoesOn, EndRejudging
<1> QED  BY <1>2, <1>3, <1>4, <1>5 DEF HandlerGoesOn

(* What the jury does that creates a rejudging.                             *)
Creation(r, S, auto) ==
    /\ NextId(r)
    /\ rejudging'[r].state = "creating" /\ rejudging'[r].ended = FALSE
    /\ rejudging'[r].autoApply = auto /\ rejudging'[r].first \in {0, r}
    /\ \A q \in RejudgingId : q # r => rejudging'[q] = rejudging[q]
    /\ creating'[r] = S /\ taken'[r] = {s \in S : rejudgingid[s] # 0}
    /\ \A q \in RejudgingId : q # r => creating'[q] = creating[q] /\ taken'[q] = taken[q]
    /\ UNCHANGED <<rejudgingid, judgings, valid, endtime, handler, todoSeen, finish>>
    /\ JuryWaits => \A q \in RejudgingId :
           /\ rejudging[q].state # "creating" /\ ~Finishing(q)
           /\ ~(rejudging[q].autoApply /\ AtWork(q))
           /\ \A j \in JudgingsOf(q) : handler[j] \notin {"repeat", "create"}

LEMMA CreateEffect ==
    ASSUME ValidInv, NEW r \in RejudgingId, NEW S \in SUBSET Submission,
           NEW auto \in BOOLEAN, NEW repeat \in Nat, Create(r, S, auto, repeat)
    PROVE  Creation(r, S, auto)
<1>1. /\ NextId(r) /\ rejudging' = [rejudging EXCEPT ![r] = NewRow(r, auto, repeat, 0)]
      /\ creating' = [creating EXCEPT ![r] = S]
      /\ taken' = [taken EXCEPT ![r] = {s \in S : rejudgingid[s] # 0}]
      /\ UNCHANGED <<rejudgingid, judgings, valid, endtime, handler, todoSeen, finish>>
  BY DEF Create, NewRejudging, judgingVars, handlerVars
<1>2. /\ rejudging'[r] = NewRow(r, auto, repeat, 0)
      /\ \A q \in RejudgingId : q # r => rejudging'[q] = rejudging[q]
      /\ creating'[r] = S /\ taken'[r] = {s \in S : rejudgingid[s] # 0}
      /\ \A q \in RejudgingId : q # r => creating'[q] = creating[q] /\ taken'[q] = taken[q]
  BY <1>1 DEF ValidInv, RejudgingTypeOK
<1>3. /\ rejudging'[r].state = "creating" /\ rejudging'[r].ended = FALSE
      /\ rejudging'[r].autoApply = auto /\ rejudging'[r].first \in {0, r}
  BY <1>2 DEF NewRow
<1> QED  BY <1>1, <1>2, <1>3 DEF Create, Creation

LEMMA CreateJudgingEffect ==
    ASSUME ValidInv, NEW r \in RejudgingId, NEW s \in Submission, CreateJudging(r, s)
    PROVE  /\ rejudging[r].state = "creating" /\ s \in creating[r]
           /\ creating'[r] = creating[r] \ {s}
           /\ \A q \in RejudgingId : q # r => creating'[q] = creating[q]
           /\ UNCHANGED <<rejudging, valid, endtime, todoSeen, taken, finish>>
           /\ \/ s \in taken[r] /\ UNCHANGED <<rejudgingid, judgings, handler>>
              \/ /\ s \notin taken[r]
                 /\ rejudgingid'[s] = IF rejudgingid[s] = 0 THEN r ELSE rejudgingid[s]
                 /\ \A t \in Submission : t # s => rejudgingid'[t] = rejudgingid[t]
                 /\ judgings' = judgings \union {<<s, r>>}
                 /\ handler'[<<s, r>>] = "queued"
                 /\ \A i \in JudgingId : i # <<s, r>> => handler'[i] = handler[i]
<1>1. <<s, r>> \in JudgingId
  BY JudgingPair, IdsType
<1>2. CASE Skipped(r, s)
  BY <1>2 DEF CreateJudging, Skipped, ValidInv, RejudgingTypeOK
<1>3. CASE ~Skipped(r, s)
  BY <1>1, <1>3 DEF CreateJudging, Skipped, ValidInv, RejudgingTypeOK
<1> QED  BY <1>2, <1>3

LEMMA CreateEndEffect ==
    ASSUME ValidInv, NEW r \in RejudgingId, CreateEnd(r)
    PROVE  /\ rejudging[r].state = "creating" /\ creating[r] = {} /\ taken'[r] = {}
           /\ rejudging'[r].state = IF Subs(r) = {} THEN "removed" ELSE "created"
           /\ \A q \in RejudgingId : q # r => rejudging'[q] = rejudging[q] /\ taken'[q] = taken[q]
           /\ \A q \in RejudgingId :
                  /\ rejudging'[q].ended = rejudging[q].ended
                  /\ rejudging'[q].valid = rejudging[q].valid
                  /\ rejudging'[q].autoApply = rejudging[q].autoApply
                  /\ rejudging'[q].first = rejudging[q].first
                  /\ rejudging'[q].repeat = rejudging[q].repeat
           /\ UNCHANGED <<rejudgingid, judgings, valid, endtime, handler, todoSeen, creating, finish>>
<1> DEFINE state == IF JudgingsOf(r) = {} THEN "removed" ELSE "created"
<1>1. /\ rejudging[r].state = "creating" /\ creating[r] = {}
      /\ rejudging' = [rejudging EXCEPT ![r].state = state]
      /\ taken' = [taken EXCEPT ![r] = {}]
      /\ UNCHANGED <<rejudgingid, judgings, valid, endtime, handler, todoSeen, creating, finish>>
  BY DEF CreateEnd, judgingVars, handlerVars
<1>2. /\ rejudging'[r] = [rejudging[r] EXCEPT !.state = state] /\ taken'[r] = {}
      /\ \A q \in RejudgingId : q # r => rejudging'[q] = rejudging[q] /\ taken'[q] = taken[q]
  BY <1>1 DEF ValidInv, RejudgingTypeOK
<1>3. /\ rejudging'[r].state = state /\ rejudging'[r].ended = rejudging[r].ended
      /\ rejudging'[r].valid = rejudging[r].valid
      /\ rejudging'[r].first = rejudging[r].first /\ rejudging'[r].repeat = rejudging[r].repeat
      /\ rejudging'[r].autoApply = rejudging[r].autoApply
  BY <1>2 DEF ValidInv, RejudgingTypeOK, RejudgingRow
<1>4. JudgingsOf(r) = {} <=> Subs(r) = {}
  <2>1. {i[1] : i \in JudgingsOf(r)} = Subs(r)
    BY SubsOfJudgings DEF ValidInv
  <2> QED  BY <2>1
<1> QED  BY <1>1, <1>2, <1>3, <1>4

LEMMA StartFinishEffect ==
    ASSUME ValidInv, NEW m \in Jury, NEW r \in RejudgingId, NEW apply \in BOOLEAN,
           StartFinish(m, r, apply)
    PROVE  /\ finish[m].rejudging = 0 /\ Open(r) /\ (apply => Todo(r) = {})
           /\ JuryWaits =>
                  /\ rejudging[r].state = "created" /\ ~rejudging[r].autoApply /\ ~Finishing(r)
                  /\ apply => \A j \in JudgingsOf(r) : handler[j] \in {"work", "over"}
           /\ finish'[m].rejudging = r /\ finish'[m].apply = apply
           /\ finish'[m].submissions = {s \in Submission : rejudgingid[s] = r}
           /\ \A n \in Jury : n # m => finish'[n] = finish[n]
           /\ UNCHANGED <<rejudging, rejudgingid, judgings, valid, endtime, handler, todoSeen,
                          creating, taken>>
  BY DEF StartFinish, judgingVars, handlerVars, createVars, ValidInv, RejudgingTypeOK

(* What applying and cancelling for a submission have in common.            *)
LEMMA FinishOneEffect ==
    ASSUME ValidInv, NEW m \in Jury, NEW s \in Submission, Apply(m, s) \/ Cancel(m, s)
    PROVE  /\ s \in finish[m].submissions /\ finish[m].rejudging \in RejudgingId
           /\ <<s, finish[m].rejudging>> \in judgings
           /\ finish'[m].submissions = finish[m].submissions \ {s}
           /\ \A n \in Jury : n # m => finish'[n] = finish[n]
           /\ \A n \in Jury : /\ finish'[n].rejudging = finish[n].rejudging
                              /\ finish'[n].apply = finish[n].apply
                              /\ finish'[n].submissions \subseteq finish[n].submissions
           /\ rejudgingid'[s] \in {0, rejudgingid[s]}
           /\ rejudgingid'[s] # finish[m].rejudging
           /\ \A t \in Submission : t # s => rejudgingid'[t] = rejudgingid[t]
           /\ UNCHANGED <<rejudging, judgings, endtime, todoSeen, creating, taken>>
           /\ \A i \in JudgingId :
                  handler'[i] = handler[i] \/ (handler[i] = "queued" /\ handler'[i] = "over")
<1>1. /\ s \in finish[m].submissions /\ finish' = [finish EXCEPT ![m].submissions = @ \ {s}]
      /\ UNCHANGED <<rejudging, judgings, endtime, todoSeen, creating, taken>>
  BY DEF Apply, Cancel, handlerVars, createVars
<1>2. /\ finish[m].rejudging \in RejudgingId /\ <<s, finish[m].rejudging>> \in judgings
      /\ finish'[m] = [finish[m] EXCEPT !.submissions = @ \ {s}]
      /\ \A n \in Jury : n # m => finish'[n] = finish[n]
      /\ \A n \in Jury : /\ finish'[n].rejudging = finish[n].rejudging
                         /\ finish'[n].apply = finish[n].apply
                         /\ finish'[n].submissions \subseteq finish[n].submissions
  BY <1>1, FinishMoves
<1>3. finish'[m].submissions = finish[m].submissions \ {s}
  BY <1>2 DEF ValidInv, RejudgingTypeOK
<1>4. /\ rejudgingid'[s] \in {0, rejudgingid[s]} /\ rejudgingid'[s] # finish[m].rejudging
      /\ \A t \in Submission : t # s => rejudgingid'[t] = rejudgingid[t]
  BY <1>2, IdsType DEF Apply, Cancel, ValidInv, RejudgingTypeOK
<1>5. \A i \in JudgingId :
          handler'[i] = handler[i] \/ (handler[i] = "queued" /\ handler'[i] = "over")
  <2>1. CASE UNCHANGED handler
    BY <2>1
  <2>2. CASE Cancel(m, s)
    <3> DEFINE j == <<s, finish[m].rejudging>>
    <3>1. handler' = [handler EXCEPT ![j] = CancelledHandler(j)]
      BY <2>2 DEF Cancel
    <3> QED  BY <3>1 DEF CancelledHandler, ValidInv, RejudgingTypeOK
  <2> QED  BY <2>1, <2>2 DEF Apply, handlerVars
<1> QED  BY <1>1, <1>2, <1>3, <1>4, <1>5

LEMMA EndFinishRows ==
    ASSUME ValidInv, NEW m \in Jury, EndFinish(m)
    PROVE  LET r == finish[m].rejudging IN
           /\ r \in RejudgingId /\ finish[m].submissions = {}
           /\ rejudging'[r].ended /\ rejudging'[r].valid = finish[m].apply
           /\ \A q \in RejudgingId : q # r => rejudging'[q] = rejudging[q]
           /\ \A q \in RejudgingId :
                  /\ rejudging'[q].state = rejudging[q].state
                  /\ rejudging'[q].autoApply = rejudging[q].autoApply
                  /\ rejudging'[q].first = rejudging[q].first
                  /\ rejudging'[q].repeat = rejudging[q].repeat
           /\ finish'[m].rejudging = 0 /\ finish'[m].apply = FALSE /\ finish'[m].submissions = {}
           /\ \A n \in Jury : n # m => finish'[n] = finish[n]
           /\ UNCHANGED <<rejudgingid, judgings, valid, endtime, handler, todoSeen, creating, taken>>
<1> DEFINE r == finish[m].rejudging
<1>1. /\ r \in RejudgingId /\ finish[m].submissions = {}
      /\ \A q \in RejudgingId : q # r => rejudging'[q] = rejudging[q]
      /\ finish'[m] = NotFinishing /\ \A n \in Jury : n # m => finish'[n] = finish[n]
      /\ UNCHANGED <<rejudgingid, judgingVars, handlerVars, createVars>>
  BY EndFinishEffect
<1>2. rejudging[r] \in RejudgingRow
  BY <1>1 DEF ValidInv, RejudgingTypeOK
<1>3. /\ rejudging'[r].ended /\ rejudging'[r].valid = finish[m].apply
      /\ rejudging'[r].state = rejudging[r].state /\ rejudging'[r].first = rejudging[r].first
      /\ rejudging'[r].repeat = rejudging[r].repeat
      /\ rejudging'[r].autoApply = rejudging[r].autoApply
  <2>1. rejudging'[r] = [rejudging[r] EXCEPT !.ended = TRUE, !.valid = finish[m].apply]
    BY EndFinishEffect
  <2> QED  BY <1>2, <2>1 DEF RejudgingRow
<1>4. /\ finish'[m].rejudging = 0 /\ finish'[m].apply = FALSE /\ finish'[m].submissions = {}
      /\ UNCHANGED <<rejudgingid, judgings, valid, endtime, handler, todoSeen, creating, taken>>
  BY <1>1 DEF NotFinishing, judgingVars, handlerVars, createVars
<1> QED  BY <1>1, <1>3, <1>4

(* What a handler does that creates a repetition.                           *)
Repetition(j, r) ==
    LET q == j[2] IN
        /\ j \in judgings /\ j[1] \in Submission /\ q \in RejudgingId /\ j = <<j[1], q>>
        /\ q # r /\ Exists(q) /\ rejudging[q].ended /\ ~rejudging[q].autoApply
        /\ NextId(r) /\ Subs(r) = {}
        /\ handler[j] = "create" /\ handler'[j] \in {"work", "over"}
        /\ \A i \in JudgingId : i # j => handler'[i] = handler[i]
        /\ rejudging'[r].state = "creating" /\ rejudging'[r].ended = FALSE
        /\ rejudging'[r].autoApply = FALSE /\ rejudging'[r].first = rejudging[q].first
        /\ \A p \in RejudgingId : p # r => rejudging'[p] = rejudging[p]
        /\ creating'[r] = Subs(q) /\ taken'[r] = {s \in Subs(q) : rejudgingid[s] # 0}
        /\ \A p \in RejudgingId : p # r => creating'[p] = creating[p] /\ taken'[p] = taken[p]
        /\ UNCHANGED <<rejudgingid, judgings, valid, endtime, todoSeen, finish>>

LEMMA RepeatRows ==
    ASSUME ValidInv, RowInv, NEW j \in JudgingId, NEW r \in RejudgingId, NEW next \in Progress,
           Repeat(j, r, next)
    PROVE  Repetition(j, r)
<1> DEFINE q == j[2]
<1>1. /\ j \in judgings /\ q \in RejudgingId /\ handler[j] = "create"
      /\ NextId(r) /\ After(j, next) /\ handler' = [handler EXCEPT ![j] = next]
      /\ \A p \in RejudgingId : p # r => rejudging'[p] = rejudging[p]
      /\ creating'[r] = Subs(q) /\ taken'[r] = {s \in Subs(q) : rejudgingid[s] # 0}
      /\ \A p \in RejudgingId : p # r => creating'[p] = creating[p] /\ taken'[p] = taken[p]
      /\ UNCHANGED <<rejudgingid, judgings, valid, endtime, todoSeen, finish>>
  BY RepeatEffect DEF judgingVars
<1>2. j[1] \in Submission /\ j = <<j[1], q>>
  BY JudgingPair
<1>3. Exists(q)
  BY <1>1, <1>2 DEF RowInv, RowsInOrder, Subs
<1>4. rejudging[q].ended /\ ~rejudging[q].autoApply /\ rejudging[q].first # 0
  BY <1>1 DEF RowInv, RepeatingEnded, Busy
<1>5. rejudging[q].repeat # 1
  BY <1>1, <1>4, RowType DEF RowInv, RowsInOrder
<1>6. rejudging'[r] = NewRow(r, FALSE, rejudging[q].repeat, rejudging[q].first)
  BY RepeatEffect
<1>7. /\ rejudging'[r].state = "creating" /\ rejudging'[r].ended = FALSE
      /\ rejudging'[r].autoApply = FALSE /\ rejudging'[r].first = rejudging[q].first
  BY <1>4, <1>5, <1>6 DEF NewRow
<1>8. q # r /\ Subs(r) = {}
  BY <1>1, <1>3 DEF NextId, Exists, RowInv, RowsInOrder
<1>9. handler'[j] \in {"work", "over"} /\ \A i \in JudgingId : i # j => handler'[i] = handler[i]
  BY <1>1 DEF After, ValidInv, RejudgingTypeOK
<1> QED  BY <1>1, <1>2, <1>3, <1>4, <1>7, <1>8, <1>9 DEF Repetition

(* What the transaction of a compiler error does that creates a repetition. *)
CompileRepetition(j, r) ==
    LET q == j[2] IN
        /\ j \in judgings /\ j[1] \in Submission /\ q \in RejudgingId /\ j = <<j[1], q>>
        /\ q # r /\ Open(q) /\ ~rejudging[q].autoApply /\ handler[j] = "compile"
        /\ NextId(r) /\ Subs(r) = {} /\ creating[r] = {}
        /\ RepetitionDue(q, TodoInTransaction(j)) /\ rejudging'[r].first = rejudging[q].first
        /\ rejudging'[r].state = IF Repeated(q) = {} THEN "removed" ELSE "created"
        /\ rejudging'[r].ended = FALSE /\ rejudging'[r].autoApply = FALSE
        /\ rejudging'[q].ended /\ rejudging'[q].valid = FALSE
        /\ rejudging'[q].state = rejudging[q].state /\ rejudging'[q].autoApply = FALSE
        /\ rejudging'[q].first = rejudging[q].first /\ rejudging'[q].repeat = rejudging[q].repeat
        /\ \A p \in RejudgingId \ {q, r} : rejudging'[p] = rejudging[p]
        /\ \A t \in Submission :
               rejudgingid'[t] = IF t \in Repeated(q) THEN r
                                 ELSE IF rejudgingid[t] = q THEN 0 ELSE rejudgingid[t]
        /\ judgings' = judgings \union (Repeated(q) \X {r})
        /\ Repeated(q) \subseteq Subs(q) /\ Subs(r)' = Repeated(q)
        /\ \A p \in RejudgingId \ {r} : Subs(p)' = Subs(p)
        /\ \A i \in JudgingId : handler'[i] = IF i = j THEN "over"
               ELSE IF i \in Repeated(q) \X {r} THEN "queued" ELSE handler[i]
        /\ \A i \in JudgingId : i # j => todoSeen'[i] = todoSeen[i]
        /\ endtime' = endtime \union {j}
        /\ UNCHANGED <<valid, creating, taken, finish>>

LEMMA CompileRepeatRows ==
    ASSUME ValidInv, RowInv, NEW j \in JudgingId, NEW r \in RejudgingId, CompileRepeat(j, r)
    PROVE  CompileRepetition(j, r)
<1> DEFINE q == j[2]
<1>1. /\ handler[j] = "compile" /\ j \in judgings /\ q \in RejudgingId /\ q # r
      /\ NextId(r) /\ ~rejudging[q].autoApply /\ Open(q) /\ RepetitionDue(q, TodoInTransaction(j))
      /\ rejudging'[q] = EndedRow(q) /\ rejudging'[r] = RepeatedRow(q, r)
      /\ \A p \in RejudgingId \ {q, r} : rejudging'[p] = rejudging[p]
      /\ endtime' = endtime \union {j}
  BY CompileRepeatEffect
<1>2. /\ \A t \in Submission :
             rejudgingid'[t] = IF t \in Repeated(q) THEN r
                               ELSE IF rejudgingid[t] = q THEN 0 ELSE rejudgingid[t]
      /\ \A i \in JudgingId : handler'[i] = IF i = j THEN "over"
             ELSE IF i \in Repeated(q) \X {r} THEN "queued" ELSE handler[i]
      /\ judgings' = judgings \union (Repeated(q) \X {r})
      /\ UNCHANGED <<valid, creating, taken, finish>>
  BY CompileRepeatEffect DEF createVars
<1>3. j[1] \in Submission /\ j = <<j[1], q>>
  BY JudgingPair
<1>4. Subs(r) = {} /\ creating[r] = {}
  BY <1>1 DEF NextId, Exists, RowInv, RowsInOrder
<1>5. Repeated(q) \subseteq Subs(q) /\ Repeated(q) \subseteq Submission
  BY DEF Repeated, Subs
<1>6. Subs(r)' = Repeated(q) /\ \A p \in RejudgingId \ {r} : Subs(p)' = Subs(p)
  BY <1>2, <1>4, <1>5 DEF Subs
<1>7. \A i \in JudgingId : i # j => todoSeen'[i] = todoSeen[i]
  BY DEF CompileRepeat, CompileFlush, ValidInv, RejudgingTypeOK
<1>8. rejudging[q].repeat > 1 /\ rejudging[q].repeat # 1 /\ rejudging[q].first # 0
  BY <1>1, RowType DEF RepetitionDue, RowInv, RowsInOrder
<1>9. /\ rejudging'[r].first = rejudging[q].first
      /\ rejudging'[r].state = IF Repeated(q) = {} THEN "removed" ELSE "created"
      /\ rejudging'[r].ended = FALSE /\ rejudging'[r].autoApply = FALSE
  BY <1>1, <1>8 DEF RepeatedRow, NewRow
<1>10. /\ rejudging'[q].ended /\ rejudging'[q].valid = FALSE
       /\ rejudging'[q].state = rejudging[q].state /\ rejudging'[q].autoApply = FALSE
       /\ rejudging'[q].first = rejudging[q].first /\ rejudging'[q].repeat = rejudging[q].repeat
  BY <1>1, RowType DEF EndedRow, RejudgingRow
<1> QED
  BY <1>1, <1>2, <1>3, <1>4, <1>5, <1>6, <1>7, <1>9, <1>10 DEF CompileRepetition
-----------------------------------------------------------------------------
(* What holds when judgehosts wait for the end of a creation.               *)

(* No judgehost has begun with a rejudging that is being created.           *)
NotYetJudged ==
    \A r \in RejudgingId : rejudging[r].state = "creating" =>
        \A s \in Subs(r) : handler[<<s, r>>] \in {"queued", "over"} /\ <<s, r>> \notin endtime

(* A submission whose judging in an automatic rejudging has ended has been  *)
(* released.                                                                *)
DoneIsReleased ==
    \A s \in Submission : rejudgingid[s] # 0 /\ rejudging[rejudgingid[s]].autoApply =>
        <<s, rejudgingid[s]>> \notin endtime

(* What a transaction sees of the other judgings covers what is left.       *)
SnapshotCovers ==
    SnapshotReads => \A j \in judgings : handler[j] = "compile" =>
        Todo(j[2]) \ {j} \subseteq todoSeen[j]

JudgedInv == NotYetJudged /\ DoneIsReleased /\ SnapshotCovers

LEMMA AssociatedType ==
    ASSUME ValidInv, NEW s \in Submission, rejudgingid[s] # 0
    PROVE  /\ rejudgingid[s] \in RejudgingId /\ <<s, rejudgingid[s]>> \in judgings
           /\ <<s, rejudgingid[s]>> \in JudgingId
  BY IdsType DEF ValidInv, RejudgingTypeOK, AssociatedExist

LEMMA HandlerJudgedInv ==
    ASSUME CreationFirst, ValidInv, JudgedInv, NEW j \in JudgingId, HandlerGoesOn(j)
    PROVE  JudgedInv'
<1> DEFINE q == j[2]
<1>1. /\ j \in judgings /\ j[1] \in Submission /\ q \in RejudgingId /\ j = <<j[1], q>>
      /\ handler[j] \notin {"none", "over"}
      /\ \A i \in JudgingId : i # j => handler'[i] = handler[i] /\ todoSeen'[i] = todoSeen[i]
      /\ UNCHANGED judgings
      /\ endtime \subseteq endtime' /\ endtime' \subseteq endtime \union {j}
      /\ handler[j] = "queued" => rejudging[q].state = "created"
  BY DEF HandlerGoesOn
<1>2. /\ \A p \in RejudgingId : /\ rejudging'[p].state = rejudging[p].state
                                /\ rejudging'[p].autoApply = rejudging[p].autoApply
  BY RowGoesOn
<1>3. rejudging[q].state # "creating"
  BY <1>1 DEF JudgedInv, NotYetJudged, Subs
<1>4. NotYetJudged'
  <2> SUFFICES ASSUME NEW r \in RejudgingId, rejudging[r].state = "creating", NEW s \in Subs(r)
               PROVE  handler'[<<s, r>>] \in {"queued", "over"} /\ <<s, r>> \notin endtime'
    BY <1>1, <1>2 DEF NotYetJudged, Subs
  <2>1. <<s, r>> # j /\ <<s, r>> \in JudgingId
    BY <1>3, JudgingPair, IdsType DEF Subs
  <2> QED  BY <1>1, <2>1 DEF JudgedInv, NotYetJudged
<1>5. DoneIsReleased'
  <2> SUFFICES ASSUME NEW s \in Submission, rejudgingid'[s] # 0,
                      rejudging'[rejudgingid'[s]].autoApply
               PROVE  <<s, rejudgingid'[s]>> \notin endtime'
    BY DEF DoneIsReleased
  <2>1. rejudgingid'[s] = rejudgingid[s]
    BY DEF HandlerGoesOn
  <2>2. rejudgingid[s] \in RejudgingId /\ rejudging[rejudgingid[s]].autoApply
    BY <1>2, <2>1, AssociatedType
  <2>3. <<s, rejudgingid[s]>> \notin endtime
    BY <2>1, <2>2 DEF JudgedInv, DoneIsReleased
  <2>4. ASSUME <<s, rejudgingid[s]>> = j PROVE j \notin endtime'
    BY <2>1, <2>2, <2>3, <2>4 DEF HandlerGoesOn
  <2> QED  BY <1>1, <2>1, <2>3, <2>4
<1>6. SnapshotCovers'
  <2> SUFFICES ASSUME SnapshotReads, NEW i \in judgings, handler'[i] = "compile"
               PROVE  Todo(i[2])' \ {i} \subseteq todoSeen'[i]
    BY <1>1 DEF SnapshotCovers
  <2>1. Todo(i[2])' \subseteq Todo(i[2]) /\ i \in JudgingId
    BY <1>1 DEF Todo, JudgingsOf, ValidInv, RejudgingTypeOK
  <2>2. CASE i = j
    BY <2>1, <2>2 DEF HandlerGoesOn
  <2>3. CASE i # j
    BY <1>1, <2>1, <2>3 DEF JudgedInv, SnapshotCovers
  <2> QED  BY <2>2, <2>3
<1> QED  BY <1>4, <1>5, <1>6 DEF JudgedInv

LEMMA CreateJudgingJudgedInv ==
    ASSUME ValidInv, JudgedInv, NEW r \in RejudgingId, NEW s \in Submission, CreateJudging(r, s)
    PROVE  JudgedInv'
<1>1. rejudging[r].state = "creating" /\ UNCHANGED <<rejudging, endtime, todoSeen>>
  BY CreateJudgingEffect
<1>2. CASE UNCHANGED <<rejudgingid, judgings, handler>>
  BY <1>1, <1>2 DEF JudgedInv, NotYetJudged, DoneIsReleased, SnapshotCovers, Subs, Todo, JudgingsOf
<1>3. CASE /\ rejudgingid'[s] = IF rejudgingid[s] = 0 THEN r ELSE rejudgingid[s]
           /\ \A t \in Submission : t # s => rejudgingid'[t] = rejudgingid[t]
           /\ judgings' = judgings \union {<<s, r>>}
           /\ handler'[<<s, r>>] = "queued"
           /\ \A i \in JudgingId : i # <<s, r>> => handler'[i] = handler[i]
  <2>1. <<s, r>> \notin endtime
    BY <1>1 DEF JudgedInv, NotYetJudged, Subs, ValidInv, RejudgingTypeOK
  <2>2. NotYetJudged'
    <3> SUFFICES ASSUME NEW q \in RejudgingId, rejudging[q].state = "creating", NEW t \in Submission,
                        <<t, q>> \in judgings'
                 PROVE  handler'[<<t, q>>] \in {"queued", "over"} /\ <<t, q>> \notin endtime
      BY <1>1 DEF NotYetJudged, Subs
    <3>1. CASE <<t, q>> = <<s, r>>
      BY <1>3, <2>1, <3>1
    <3>2. CASE <<t, q>> # <<s, r>>
      BY <1>3, <3>2, JudgingPair, IdsType DEF JudgedInv, NotYetJudged, Subs
    <3> QED  BY <3>1, <3>2
  <2>3. DoneIsReleased'
    BY <1>1, <1>3, <2>1 DEF JudgedInv, DoneIsReleased
  <2>4. SnapshotCovers'
    <3> SUFFICES ASSUME SnapshotReads, NEW i \in judgings', handler'[i] = "compile"
                 PROVE  Todo(i[2])' \ {i} \subseteq todoSeen[i]
      BY <1>1 DEF SnapshotCovers
    <3>1. i # <<s, r>> /\ i \in judgings /\ handler[i] = "compile"
      BY <1>3 DEF ValidInv, RejudgingTypeOK
    <3>2. i \in JudgingId /\ i[1] \in Submission /\ i = <<i[1], i[2]>>
      BY <3>1, JudgingPair DEF ValidInv, RejudgingTypeOK
    <3>3. i[2] # r
      BY <1>1, <3>1, <3>2 DEF JudgedInv, NotYetJudged, Subs
    <3>4. Todo(i[2])' = Todo(i[2])
      BY <1>1, <1>3, <3>3 DEF Todo, JudgingsOf
    <3> QED  BY <3>1, <3>4 DEF JudgedInv, SnapshotCovers
  <2> QED  BY <2>2, <2>3, <2>4 DEF JudgedInv
<1> QED  BY <1>2, <1>3, CreateJudgingEffect

(* Steps that create rejudgings without judgings or release submissions.    *)
LEMMA StillJudgedInv ==
    ASSUME ValidInv, JudgedInv, UNCHANGED <<judgings, endtime, todoSeen>>,
           \A i \in JudgingId :
               handler'[i] \in {handler[i], "over"} \/ (handler[i] = "create" /\ handler'[i] = "work"),
           \A q \in RejudgingId : Subs(q) # {} =>
               /\ rejudging'[q].state = "creating" => rejudging[q].state = "creating"
               /\ rejudging'[q].autoApply = rejudging[q].autoApply,
           \A t \in Submission : rejudgingid'[t] \in {0, rejudgingid[t]}
    PROVE  JudgedInv'
<1>1. NotYetJudged'
  <2> SUFFICES ASSUME NEW r \in RejudgingId, rejudging'[r].state = "creating", NEW s \in Subs(r)
               PROVE  handler'[<<s, r>>] \in {"queued", "over"} /\ <<s, r>> \notin endtime
    BY DEF NotYetJudged, Subs
  <2>1. <<s, r>> \in JudgingId
    BY JudgingPair, IdsType DEF Subs
  <2>2. handler[<<s, r>>] \in {"queued", "over"} /\ <<s, r>> \notin endtime
    BY DEF JudgedInv, NotYetJudged
  <2> QED  BY <2>1, <2>2
<1>2. DoneIsReleased'
  <2> SUFFICES ASSUME NEW s \in Submission, rejudgingid'[s] # 0,
                      rejudging'[rejudgingid'[s]].autoApply
               PROVE  <<s, rejudgingid'[s]>> \notin endtime
    BY DEF DoneIsReleased
  <2>1. rejudgingid'[s] = rejudgingid[s] /\ rejudgingid[s] # 0
    OBVIOUS
  <2>2. rejudgingid[s] \in RejudgingId /\ s \in Subs(rejudgingid[s])
    BY <2>1, AssociatedType DEF Subs
  <2> QED  BY <2>1, <2>2 DEF JudgedInv, DoneIsReleased
<1>3. SnapshotCovers'
  BY DEF JudgedInv, SnapshotCovers, Todo, JudgingsOf, ValidInv, RejudgingTypeOK
<1> QED  BY <1>1, <1>2, <1>3 DEF JudgedInv

LEMMA CompileRepeatJudgedInv ==
    ASSUME ValidInv, RowInv, JudgedInv, NEW j \in JudgingId, NEW r \in RejudgingId,
           CompileRepeat(j, r)
    PROVE  JudgedInv'
<1> DEFINE q == j[2]
<1>0. CompileRepetition(j, r)
  BY CompileRepeatRows
<1>1. /\ j \in judgings /\ j[1] \in Submission /\ q \in RejudgingId /\ j = <<j[1], q>>
      /\ q # r /\ handler[j] = "compile" /\ Subs(r) = {}
      /\ rejudging'[r].state # "creating" /\ rejudging'[r].autoApply = FALSE
      /\ rejudging'[q].state = rejudging[q].state /\ rejudging'[q].autoApply = FALSE
      /\ \A p \in RejudgingId \ {q, r} : rejudging'[p] = rejudging[p]
  BY <1>0 DEF CompileRepetition
<1>2. /\ \A t \in Submission :
             rejudgingid'[t] = IF t \in Repeated(q) THEN r
                               ELSE IF rejudgingid[t] = q THEN 0 ELSE rejudgingid[t]
      /\ judgings' = judgings \union (Repeated(q) \X {r})
      /\ \A i \in JudgingId : handler'[i] = IF i = j THEN "over"
             ELSE IF i \in Repeated(q) \X {r} THEN "queued" ELSE handler[i]
      /\ \A i \in JudgingId : i # j => todoSeen'[i] = todoSeen[i]
      /\ endtime' = endtime \union {j}
      /\ \A p \in RejudgingId \ {r} : Subs(p)' = Subs(p)
  BY <1>0 DEF CompileRepetition
<1>3. rejudging[q].state # "creating"
  BY <1>1 DEF JudgedInv, NotYetJudged, Subs
<1>4. NotYetJudged'
  <2> SUFFICES ASSUME NEW p \in RejudgingId, rejudging'[p].state = "creating", NEW s \in Subs(p)'
               PROVE  handler'[<<s, p>>] \in {"queued", "over"} /\ <<s, p>> \notin endtime'
    BY DEF NotYetJudged
  <2>1. p \notin {q, r} /\ s \in Subs(p) /\ rejudging[p].state = "creating"
    BY <1>1, <1>2, <1>3
  <2>2. <<s, p>> \in JudgingId /\ <<s, p>> # j /\ <<s, p>> \notin Repeated(q) \X {r}
    BY <1>1, <2>1, JudgingPair, IdsType DEF Subs
  <2>3. handler[<<s, p>>] \in {"queued", "over"} /\ <<s, p>> \notin endtime
    BY <2>1 DEF JudgedInv, NotYetJudged
  <2> QED  BY <1>2, <2>2, <2>3
<1>5. DoneIsReleased'
  <2> SUFFICES ASSUME NEW s \in Submission, rejudgingid'[s] # 0,
                      rejudging'[rejudgingid'[s]].autoApply
               PROVE  <<s, rejudgingid'[s]>> \notin endtime'
    BY DEF DoneIsReleased
  <2>1. rejudgingid'[s] = rejudgingid[s] /\ rejudgingid[s] \notin {q, r}
    BY <1>1, <1>2
  <2>2. rejudgingid[s] \in RejudgingId /\ rejudging[rejudgingid[s]].autoApply
    BY <1>1, <2>1, AssociatedType
  <2>3. <<s, rejudgingid[s]>> \notin endtime /\ <<s, rejudgingid[s]>> # j
    BY <1>1, <2>1, <2>2 DEF JudgedInv, DoneIsReleased
  <2> QED  BY <1>2, <2>1, <2>3
<1>6. SnapshotCovers'
  <2> SUFFICES ASSUME SnapshotReads, NEW i \in judgings', handler'[i] = "compile"
               PROVE  Todo(i[2])' \ {i} \subseteq todoSeen'[i]
    BY DEF SnapshotCovers
  <2>1. i \in JudgingId
    BY <1>1, <1>2, JudgingPair, IdsType DEF ValidInv, RejudgingTypeOK, Repeated, Subs
  <2>2. i # j /\ i \in judgings /\ handler[i] = "compile"
    BY <1>2, <2>1
  <2>3. i[2] # r
    <3>1. i[1] \in Submission /\ i = <<i[1], i[2]>>
      BY <2>1, JudgingPair
    <3> QED  BY <1>1, <2>2, <3>1 DEF Subs
  <2>4. Todo(i[2])' \subseteq Todo(i[2])
    BY <1>2, <2>3 DEF Todo, JudgingsOf
  <2> QED  BY <1>2, <2>1, <2>2, <2>4 DEF JudgedInv, SnapshotCovers
<1> QED  BY <1>4, <1>5, <1>6 DEF JudgedInv

LEMMA FinishStepJudgedInv ==
    ASSUME ValidInv, JudgedInv, NEW m \in Jury, FinishStep(m) PROVE JudgedInv'
<1>1. CASE EndFinish(m)
  <2>1. /\ \A q \in RejudgingId : /\ rejudging'[q].state = rejudging[q].state
                                  /\ rejudging'[q].autoApply = rejudging[q].autoApply
        /\ UNCHANGED <<rejudgingid, judgings, endtime, handler, todoSeen>>
    BY <1>1, EndFinishRows
  <2> QED  BY <2>1, StillJudgedInv
<1>2. ASSUME NEW s \in Submission, Apply(m, s) \/ Cancel(m, s) PROVE JudgedInv'
  <2>1. /\ UNCHANGED <<rejudging, judgings, endtime, todoSeen>>
        /\ \A t \in Submission : rejudgingid'[t] \in {0, rejudgingid[t]}
        /\ \A i \in JudgingId : handler'[i] = handler[i] \/ handler'[i] = "over"
    BY <1>2, FinishOneEffect
  <2> QED  BY <2>1, StillJudgedInv
<1> QED  BY <1>1, <1>2 DEF FinishStep

LEMMA CreateJudgedInv ==
    ASSUME ValidInv, RowInv, JudgedInv, NEW r \in RejudgingId, NEW S \in SUBSET Submission,
           NEW auto \in BOOLEAN, NEW repeat \in Nat, Create(r, S, auto, repeat)
    PROVE  JudgedInv'
<1>1. /\ NextId(r) /\ \A q \in RejudgingId : q # r => rejudging'[q] = rejudging[q]
      /\ UNCHANGED <<rejudgingid, judgings, endtime, handler, todoSeen>>
  <2>1. Creation(r, S, auto)
    BY CreateEffect
  <2> QED  BY <2>1 DEF Creation
<1>2. Subs(r) = {}
  BY <1>1 DEF NextId, Exists, RowInv, RowsInOrder
<1> QED  BY <1>1, <1>2, StillJudgedInv

LEMMA NextJudgedInv ==
    ASSUME CreationFirst, ValidInv, RowInv, JudgedInv, [RejudgingNext]_rejudgingVars
    PROVE  JudgedInv'
<1>1. CASE UNCHANGED rejudgingVars
  BY <1>1, StillJudgedInv DEF rejudgingVars, judgingVars, handlerVars
<1>2. ASSUME NEW j \in JudgingId, HandlerStep(j) PROVE JudgedInv'
  <2>1. CASE QuietHandlerStep(j)
    BY <2>1, HandlersGoOn, HandlerJudgedInv
  <2>2. ASSUME NEW next \in Progress, NEW r \in RejudgingId, Repeat(j, r, next) PROVE JudgedInv'
    <3>1. /\ Subs(r) = {} /\ handler[j] = "create" /\ handler'[j] \in {"work", "over"}
          /\ \A i \in JudgingId : i # j => handler'[i] = handler[i]
          /\ \A p \in RejudgingId : p # r => rejudging'[p] = rejudging[p]
          /\ UNCHANGED <<rejudgingid, judgings, endtime, todoSeen>>
      <4>1. Repetition(j, r)
        BY <2>2, RepeatRows
      <4> QED  BY <4>1 DEF Repetition
    <3> QED  BY <3>1, StillJudgedInv
  <2>3. ASSUME NEW r \in RejudgingId, CompileRepeat(j, r) PROVE JudgedInv'
    BY <2>3, CompileRepeatJudgedInv
  <2> QED  BY <1>2, <2>1, <2>2, <2>3 DEF HandlerStep, QuietHandlerStep
<1>3. ASSUME NEW r \in RejudgingId, CreateEnd(r) PROVE JudgedInv'
  <2>1. /\ rejudging[r].state = "creating"
        /\ \A q \in RejudgingId : q # r => rejudging'[q] = rejudging[q]
        /\ \A q \in RejudgingId : rejudging'[q].autoApply = rejudging[q].autoApply
        /\ UNCHANGED <<rejudgingid, judgings, endtime, handler, todoSeen>>
    BY <1>3, CreateEndEffect
  <2> QED  BY <2>1, StillJudgedInv
<1>4. ASSUME NEW r \in RejudgingId, CreateStep(r) PROVE JudgedInv'
  BY <1>3, <1>4, CreateJudgingJudgedInv DEF CreateStep
<1>5. ASSUME NEW r \in RejudgingId, NEW S \in SUBSET Submission, NEW k \in Kinds,
             Create(r, S, k[1], k[2])
      PROVE  JudgedInv'
  BY <1>5, KindType, CreateJudgedInv
<1>6. ASSUME NEW m \in Jury, NEW r \in RejudgingId, NEW apply \in BOOLEAN, StartFinish(m, r, apply)
      PROVE  JudgedInv'
  <2>1. UNCHANGED <<rejudging, rejudgingid, judgings, endtime, handler, todoSeen>>
    BY <1>6, StartFinishEffect
  <2> QED  BY <2>1, StillJudgedInv
<1> QED
  BY <1>1, <1>2, <1>4, <1>5, <1>6, FinishStepJudgedInv DEF RejudgingNext

LEMMA InitJudgedInv == RejudgingInit => JudgedInv
<1> SUFFICES ASSUME RejudgingInit PROVE JudgedInv
  OBVIOUS
<1>1. /\ \A r \in RejudgingId : rejudging[r].state = "none"
      /\ \A s \in Submission : rejudgingid[s] = 0
  BY DEF RejudgingInit, NoRejudging
<1>2. \A j \in JudgingId : handler[j] # "compile"
  BY DEF RejudgingInit
<1>3. judgings \subseteq JudgingId
  BY InitValidInv DEF ValidInv, RejudgingTypeOK
<1> QED  BY <1>1, <1>2, <1>3 DEF JudgedInv, NotYetJudged, DoneIsReleased, SnapshotCovers
-----------------------------------------------------------------------------
(* What holds when the jury waits for its own requests, too.                *)

CreatingOpen ==
    \A r \in RejudgingId : rejudging[r].state = "creating" => ~rejudging[r].ended

(* The jury finishes rejudgings that have been created, and knows all the   *)
(* submissions that belong to them.                                         *)
FinishCreated ==
    \A m \in Jury, r \in RejudgingId : finish[m].rejudging = r =>
        /\ rejudging[r].state = "created" /\ ~rejudging[r].autoApply
        /\ \A s \in Submission : rejudgingid[s] = r => s \in finish[m].submissions

WaitInv == CreatingOpen /\ FinishCreated /\ NotInEndedRejudging

(* NotInEndedRejudging, for a submission.                                   *)
Justified(r) == Open(r) \/ \E j \in judgings : j[2] = r /\ handler[j] = "repeat"

LEMMA NotInEndedMeans ==
    NotInEndedRejudging <=> \A s \in Submission : rejudgingid[s] # 0 => Justified(rejudgingid[s])
  BY DEF NotInEndedRejudging, Justified, JudgingsOf

LEMMA NotInEndedMeansNext ==
    NotInEndedRejudging' <=>
        \A s \in Submission : rejudgingid'[s] # 0 =>
            \/ Open(rejudgingid[s])'
            \/ \E j \in judgings' : j[2] = rejudgingid'[s] /\ handler'[j] = "repeat"
  BY DEF NotInEndedRejudging, JudgingsOf

LEMMA HandlerWaitInv ==
    ASSUME ValidInv, JudgedInv, WaitInv, CreationFirst, NEW j \in JudgingId, HandlerGoesOn(j)
    PROVE  WaitInv'
<1> DEFINE q == j[2]
<1>1. /\ j \in judgings /\ j[1] \in Submission /\ q \in RejudgingId /\ j = <<j[1], q>>
      /\ handler[j] \notin {"none", "over"}
      /\ \A i \in JudgingId : i # j => handler'[i] = handler[i]
      /\ UNCHANGED <<judgings, finish>>
      /\ handler[j] = "queued" => rejudging[q].state = "created"
      /\ \A t \in Submission : rejudgingid'[t] \in {0, rejudgingid[t]}
      /\ handler[j] = "repeat" => \A t \in Submission : rejudgingid'[t] # q
  BY DEF HandlerGoesOn
<1>2. /\ \A p \in RejudgingId : p # q => rejudging'[p] = rejudging[p]
      /\ \A p \in RejudgingId : /\ rejudging'[p].state = rejudging[p].state
                                /\ rejudging'[p].autoApply = rejudging[p].autoApply
  BY RowGoesOn
<1>3. rejudging[q].state # "creating"
  BY <1>1 DEF JudgedInv, NotYetJudged, Subs
<1>4. CreatingOpen'
  BY <1>2, <1>3 DEF WaitInv, CreatingOpen
<1>5. FinishCreated'
  BY <1>1, <1>2, IdsType DEF WaitInv, FinishCreated
<1>6. NotInEndedRejudging'
  <2> SUFFICES ASSUME NEW s \in Submission, rejudgingid'[s] # 0,
                      ~\E i \in judgings : i[2] = rejudgingid'[s] /\ handler'[i] = "repeat"
               PROVE  Open(rejudgingid[s])'
    BY <1>1, NotInEndedMeansNext
  <2>1. rejudgingid'[s] = rejudgingid[s] /\ rejudgingid[s] # 0
    BY <1>1
  <2>2. PICK r \in RejudgingId : rejudgingid[s] = r /\ rejudgingid'[s] = r /\ <<s, r>> \in judgings
    BY <2>1, AssociatedType
  <2>3. \A i \in judgings : i[2] = r => handler[i] # "repeat"
    BY <1>1, <2>2 DEF ValidInv, RejudgingTypeOK
  <2>4. Open(r)
    BY <2>1, <2>2, <2>3, NotInEndedMeans DEF WaitInv, Justified
  <2>5. ASSUME rejudging'[r] # rejudging[r] PROVE FALSE
    <3>1. r = q
      BY <1>2, <2>5
    <3>2. handler'[j] # "repeat"
      BY <1>1, <2>2, <3>1
    <3>3. /\ rejudging[q].autoApply
          /\ \/ handler[j] = "count" /\ Todo(q) = {}
             \/ handler[j] = "compile" /\ TodoInTransaction(j) = {}
      BY <2>5, <3>1, <3>2, RowGoesOn
    <3>4. Todo(q) \subseteq {j}
      BY <1>1, <3>3 DEF TodoInTransaction, JudgedInv, SnapshotCovers
    <3>5. <<s, q>> \notin endtime
      BY <2>1, <2>2, <3>1, <3>3 DEF JudgedInv, DoneIsReleased
    <3>6. <<s, q>> \in Todo(q)
      BY <2>2, <3>1, <3>5 DEF Todo, JudgingsOf
    <3>7. <<s, q>> = j /\ handler[j] = "compile" /\ j \notin endtime
      BY <3>3, <3>4, <3>5, <3>6
    <3>8. s = j[1] /\ j \in endtime'
      BY <3>7 DEF HandlerGoesOn
    <3>9. rejudgingid'[s] = 0
      BY <3>3, <3>7, <3>8 DEF HandlerGoesOn
    <3> QED  BY <3>9
  <2>6. rejudging'[r] = rejudging[r]
    BY <2>5
  <2> QED  BY <2>2, <2>4, <2>6 DEF Open, Exists
<1> QED  BY <1>4, <1>5, <1>6 DEF WaitInv

LEMMA StillJustified ==
    ASSUME ValidInv, WaitInv, judgings \subseteq judgings',
           \A t \in Submission : rejudgingid'[t] \in {0, rejudgingid[t]},
           \A i \in JudgingId : handler[i] = "repeat" => handler'[i] = "repeat",
           \A r \in RejudgingId : Open(r) =>
               Open(r)' \/ \A t \in Submission : rejudgingid'[t] # r
    PROVE  NotInEndedRejudging'
<1> SUFFICES ASSUME NEW s \in Submission, rejudgingid'[s] # 0
             PROVE  \/ Open(rejudgingid[s])'
                    \/ \E j \in judgings' : j[2] = rejudgingid'[s] /\ handler'[j] = "repeat"
  BY NotInEndedMeansNext
<1>1. rejudgingid'[s] = rejudgingid[s] /\ rejudgingid[s] # 0
  OBVIOUS
<1>2. PICK r \in RejudgingId : rejudgingid[s] = r /\ rejudgingid'[s] = r
  BY <1>1, AssociatedType
<1>3. Justified(r)
  BY <1>1, <1>2, NotInEndedMeans DEF WaitInv
<1>4. CASE Open(r)
  BY <1>2, <1>4 DEF Open, Exists
<1>5. CASE \E j \in judgings : j[2] = r /\ handler[j] = "repeat"
  BY <1>2, <1>5 DEF ValidInv, RejudgingTypeOK
<1> QED  BY <1>3, <1>4, <1>5 DEF Justified

LEMMA CreateJudgingWaitInv ==
    ASSUME ValidInv, WaitInv, NEW r \in RejudgingId, NEW s \in Submission, CreateJudging(r, s)
    PROVE  WaitInv'
<1>1. rejudging[r].state = "creating" /\ UNCHANGED <<rejudging, finish>>
  BY CreateJudgingEffect
<1>2. CASE UNCHANGED <<rejudgingid, judgings, handler>>
  BY <1>1, <1>2 DEF WaitInv, CreatingOpen, FinishCreated, NotInEndedRejudging, Open, Exists, JudgingsOf
<1>3. CASE /\ rejudgingid'[s] = IF rejudgingid[s] = 0 THEN r ELSE rejudgingid[s]
           /\ \A t \in Submission : t # s => rejudgingid'[t] = rejudgingid[t]
           /\ judgings' = judgings \union {<<s, r>>}
           /\ handler'[<<s, r>>] = "queued"
           /\ \A i \in JudgingId : i # <<s, r>> => handler'[i] = handler[i]
  <2>1. CreatingOpen'
    BY <1>1 DEF WaitInv, CreatingOpen
  <2>2. FinishCreated'
    <3> SUFFICES ASSUME NEW m \in Jury, NEW q \in RejudgingId, finish[m].rejudging = q
                 PROVE  /\ rejudging[q].state = "created" /\ ~rejudging[q].autoApply
                        /\ \A t \in Submission : rejudgingid'[t] = q => t \in finish[m].submissions
      BY <1>1 DEF FinishCreated
    <3>1. /\ rejudging[q].state = "created" /\ ~rejudging[q].autoApply
          /\ \A t \in Submission : rejudgingid[t] = q => t \in finish[m].submissions
      BY DEF WaitInv, FinishCreated
    <3> QED  BY <1>1, <1>3, <3>1
  <2>3. NotInEndedRejudging'
    <3> SUFFICES ASSUME NEW t \in Submission, rejudgingid'[t] # 0
                 PROVE  \/ Open(rejudgingid[t])'
                        \/ \E j \in judgings' : j[2] = rejudgingid'[t] /\ handler'[j] = "repeat"
      BY NotInEndedMeansNext
    <3>1. CASE rejudgingid'[t] = r
      BY <1>1, <3>1 DEF Open, Exists, WaitInv, CreatingOpen
    <3>2. CASE rejudgingid'[t] # r
      <4>1. rejudgingid'[t] = rejudgingid[t] /\ rejudgingid[t] # 0
        BY <1>3, <3>2
      <4>2. Justified(rejudgingid[t])
        BY <4>1, NotInEndedMeans DEF WaitInv
      <4>3. CASE Open(rejudgingid[t])
        BY <1>1, <4>1, <4>3 DEF Open, Exists
      <4>4. ASSUME NEW j \in judgings, j[2] = rejudgingid[t], handler[j] = "repeat"
            PROVE  j \in judgings' /\ handler'[j] = "repeat"
        BY <1>3, <3>2, <4>1, <4>4 DEF ValidInv, RejudgingTypeOK
      <4> QED  BY <4>1, <4>2, <4>3, <4>4 DEF Justified
    <3> QED  BY <3>1, <3>2
  <2> QED  BY <2>1, <2>2, <2>3 DEF WaitInv
<1> QED  BY <1>2, <1>3, CreateJudgingEffect

LEMMA CreateEndWaitInv ==
    ASSUME ValidInv, WaitInv, NEW r \in RejudgingId, CreateEnd(r) PROVE WaitInv'
<1>1. /\ rejudging[r].state = "creating"
      /\ rejudging'[r].state = IF Subs(r) = {} THEN "removed" ELSE "created"
      /\ \A q \in RejudgingId : q # r => rejudging'[q] = rejudging[q]
      /\ \A q \in RejudgingId : /\ rejudging'[q].ended = rejudging[q].ended
                                /\ rejudging'[q].autoApply = rejudging[q].autoApply
      /\ UNCHANGED <<rejudgingid, judgings, handler, finish>>
  BY CreateEndEffect
<1>2. CreatingOpen' /\ FinishCreated'
  BY <1>1 DEF WaitInv, CreatingOpen, FinishCreated
<1>3. ASSUME NEW q \in RejudgingId, Open(q)
      PROVE  Open(q)' \/ \A t \in Submission : rejudgingid[t] # q
  <2>1. CASE q # r
    BY <1>1, <1>3, <2>1 DEF Open, Exists
  <2>2. CASE q = r /\ Subs(r) # {}
    BY <1>1, <1>3, <2>2 DEF Open, Exists
  <2>3. CASE q = r /\ Subs(r) = {}
    BY <2>3, IdsType DEF Subs, ValidInv, AssociatedExist
  <2> QED  BY <2>1, <2>2, <2>3
<1>4. NotInEndedRejudging'
  BY <1>1, <1>3, StillJustified
<1> QED  BY <1>2, <1>4 DEF WaitInv

(* A new rejudging without judgings.                                        *)
LEMMA NewRowWaitInv ==
    ASSUME ValidInv, WaitInv, NEW r \in RejudgingId, NextId(r), rejudging'[r].ended = FALSE,
           \A q \in RejudgingId : q # r => rejudging'[q] = rejudging[q],
           UNCHANGED <<rejudgingid, judgings, finish>>,
           \A i \in JudgingId : handler[i] = "repeat" => handler'[i] = "repeat"
    PROVE  WaitInv'
<1>1. CreatingOpen' /\ FinishCreated'
  BY DEF WaitInv, CreatingOpen, FinishCreated, NextId
<1>2. \A q \in RejudgingId : Open(q) => Open(q)'
  BY DEF Open, Exists, NextId
<1>3. NotInEndedRejudging'
  BY <1>2, StillJustified
<1> QED  BY <1>1, <1>3 DEF WaitInv

LEMMA CompileRepeatWaitInv ==
    ASSUME ValidInv, RowInv, WaitInv, JudgedInv, NEW j \in JudgingId, NEW r \in RejudgingId,
           CompileRepeat(j, r)
    PROVE  WaitInv'
<1> DEFINE q == j[2]
<1>1. CompileRepetition(j, r)
  BY CompileRepeatRows
<1>2. /\ j \in judgings /\ q \in RejudgingId /\ q # r /\ Open(q) /\ handler[j] = "compile"
      /\ NextId(r) /\ rejudging'[r].state = IF Repeated(q) = {} THEN "removed" ELSE "created"
      /\ rejudging'[r].ended = FALSE
      /\ rejudging'[q].state = rejudging[q].state /\ rejudging'[q].autoApply = FALSE
      /\ ~rejudging[q].autoApply /\ j[1] \in Submission /\ j = <<j[1], q>>
      /\ \A p \in RejudgingId \ {q, r} : rejudging'[p] = rejudging[p]
  BY <1>1 DEF CompileRepetition
<1>3. /\ \A t \in Submission :
             rejudgingid'[t] = IF t \in Repeated(q) THEN r
                               ELSE IF rejudgingid[t] = q THEN 0 ELSE rejudgingid[t]
      /\ judgings' = judgings \union (Repeated(q) \X {r}) /\ UNCHANGED finish
      /\ \A i \in JudgingId : handler'[i] = IF i = j THEN "over"
             ELSE IF i \in Repeated(q) \X {r} THEN "queued" ELSE handler[i]
  BY <1>1 DEF CompileRepetition
<1>4. rejudging[q].state # "creating"
  BY <1>2 DEF JudgedInv, NotYetJudged, Subs
<1>5. CreatingOpen'
  BY <1>2, <1>4 DEF WaitInv, CreatingOpen
<1>6. FinishCreated'
  <2> SUFFICES ASSUME NEW m \in Jury, NEW p \in RejudgingId, finish[m].rejudging = p
               PROVE  /\ rejudging'[p].state = "created" /\ ~rejudging'[p].autoApply
                      /\ \A t \in Submission : rejudgingid'[t] = p => t \in finish[m].submissions
    BY <1>3 DEF FinishCreated
  <2>1. /\ rejudging[p].state = "created" /\ ~rejudging[p].autoApply
        /\ \A t \in Submission : rejudgingid[t] = p => t \in finish[m].submissions
    BY DEF WaitInv, FinishCreated
  <2>2. p # r
    BY <1>2, <2>1 DEF NextId
  <2> QED  BY <1>2, <1>3, <2>1, <2>2, IdsType
<1>7. NotInEndedRejudging'
  <2> SUFFICES ASSUME NEW t \in Submission, rejudgingid'[t] # 0
               PROVE  \/ Open(rejudgingid[t])'
                      \/ \E i \in judgings' : i[2] = rejudgingid'[t] /\ handler'[i] = "repeat"
    BY NotInEndedMeansNext
  <2>1. CASE t \in Repeated(q)
    <3>1. rejudgingid'[t] = r /\ rejudging'[r].state = "created" /\ rejudging'[r].ended = FALSE
      BY <1>2, <1>3, <2>1
    <3> QED  BY <3>1 DEF Open, Exists
  <2>2. CASE t \notin Repeated(q)
    <3>1. rejudgingid'[t] = rejudgingid[t] /\ rejudgingid[t] # 0 /\ rejudgingid[t] # q
      BY <1>3, <2>2
    <3>2. PICK p \in RejudgingId :
              /\ rejudgingid[t] = p /\ rejudgingid'[t] = p /\ <<t, p>> \in judgings /\ p # q
      BY <3>1, AssociatedType
    <3>3. p # r
      BY <1>2, <3>2 DEF NextId, RowInv, RowsInOrder, Subs, Exists
    <3>4. Justified(p)
      BY <3>1, <3>2, NotInEndedMeans DEF WaitInv
    <3>5. CASE Open(p)
      BY <1>2, <3>2, <3>3, <3>5 DEF Open, Exists
    <3>6. ASSUME NEW i \in judgings, i[2] = p, handler[i] = "repeat"
          PROVE  i \in judgings' /\ handler'[i] = "repeat"
      <4>1. i \in JudgingId /\ i # j /\ i \notin Repeated(q) \X {r}
        BY <1>2, <3>3, <3>6 DEF ValidInv, RejudgingTypeOK
      <4> QED  BY <1>3, <3>6, <4>1
    <3> QED  BY <3>2, <3>4, <3>5, <3>6 DEF Justified
  <2> QED  BY <2>1, <2>2
<1> QED  BY <1>5, <1>6, <1>7 DEF WaitInv

LEMMA StartFinishWaitInv ==
    ASSUME JuryWaits, ValidInv, WaitInv, NEW m \in Jury, NEW r \in RejudgingId,
           NEW apply \in BOOLEAN, StartFinish(m, r, apply)
    PROVE  WaitInv'
<1>1. /\ rejudging[r].state = "created" /\ ~rejudging[r].autoApply
      /\ finish'[m].rejudging = r
      /\ finish'[m].submissions = {s \in Submission : rejudgingid[s] = r}
      /\ \A n \in Jury : n # m => finish'[n] = finish[n]
      /\ UNCHANGED <<rejudging, rejudgingid, judgings, handler>>
  BY StartFinishEffect
<1>2. CreatingOpen' /\ FinishCreated'
  BY <1>1 DEF WaitInv, CreatingOpen, FinishCreated
<1>3. NotInEndedRejudging'
  BY <1>1 DEF WaitInv, NotInEndedRejudging, Open, Exists, JudgingsOf
<1> QED  BY <1>2, <1>3 DEF WaitInv

LEMMA FinishOneWaitInv ==
    ASSUME ValidInv, WaitInv, NEW m \in Jury, NEW s \in Submission, Apply(m, s) \/ Cancel(m, s)
    PROVE  WaitInv'
<1>1. /\ finish'[m].submissions = finish[m].submissions \ {s}
      /\ \A n \in Jury : n # m => finish'[n] = finish[n]
      /\ \A n \in Jury : finish'[n].rejudging = finish[n].rejudging
      /\ rejudgingid'[s] \in {0, rejudgingid[s]} /\ rejudgingid'[s] # finish[m].rejudging
      /\ \A t \in Submission : t # s => rejudgingid'[t] = rejudgingid[t]
      /\ UNCHANGED <<rejudging, judgings>>
  BY FinishOneEffect
<1>2. CreatingOpen'
  BY <1>1 DEF WaitInv, CreatingOpen
<1>3. FinishCreated'
  BY <1>1, IdsType DEF WaitInv, FinishCreated
<1>4. \A i \in JudgingId : handler[i] = "repeat" => handler'[i] = "repeat"
  BY FinishOneEffect
<1>5. \A r \in RejudgingId : Open(r) => Open(r)'
  BY <1>1 DEF Open, Exists
<1>6. NotInEndedRejudging'
  BY <1>1, <1>4, <1>5, StillJustified
<1> QED  BY <1>2, <1>3, <1>6 DEF WaitInv

LEMMA EndFinishWaitInv ==
    ASSUME ValidInv, WaitInv, NEW m \in Jury, EndFinish(m) PROVE WaitInv'
<1> DEFINE r == finish[m].rejudging
<1>1. /\ r \in RejudgingId /\ finish[m].submissions = {}
      /\ \A q \in RejudgingId : q # r => rejudging'[q] = rejudging[q]
      /\ \A q \in RejudgingId : /\ rejudging'[q].state = rejudging[q].state
                                /\ rejudging'[q].autoApply = rejudging[q].autoApply
      /\ finish'[m].rejudging = 0 /\ \A n \in Jury : n # m => finish'[n] = finish[n]
      /\ UNCHANGED <<rejudgingid, judgings, handler>>
  BY EndFinishRows
<1>2. rejudging[r].state = "created" /\ \A t \in Submission : rejudgingid[t] # r
  BY <1>1 DEF WaitInv, FinishCreated
<1>3. CreatingOpen'
  BY <1>1, <1>2 DEF WaitInv, CreatingOpen
<1>4. FinishCreated'
  BY <1>1, IdsType DEF WaitInv, FinishCreated
<1>5. ASSUME NEW q \in RejudgingId, Open(q)
      PROVE  Open(q)' \/ \A t \in Submission : rejudgingid[t] # q
  BY <1>1, <1>2, <1>5 DEF Open, Exists
<1>6. NotInEndedRejudging'
  BY <1>1, <1>5, StillJustified
<1> QED  BY <1>3, <1>4, <1>6 DEF WaitInv

LEMMA NextWaitInv ==
    ASSUME CreationFirst, JuryWaits, ValidInv, RowInv, JudgedInv, WaitInv,
           [RejudgingNext]_rejudgingVars
    PROVE  WaitInv'
<1>1. CASE UNCHANGED rejudgingVars
  BY <1>1 DEF rejudgingVars, judgingVars, handlerVars, WaitInv, CreatingOpen, FinishCreated,
              NotInEndedRejudging, Open, Exists, JudgingsOf
<1>2. ASSUME NEW j \in JudgingId, HandlerStep(j) PROVE WaitInv'
  <2>1. CASE QuietHandlerStep(j)
    BY <2>1, HandlersGoOn, HandlerWaitInv
  <2>2. ASSUME NEW next \in Progress, NEW r \in RejudgingId, Repeat(j, r, next) PROVE WaitInv'
    <3>1. /\ NextId(r) /\ handler[j] = "create" /\ rejudging'[r].ended = FALSE
          /\ \A i \in JudgingId : i # j => handler'[i] = handler[i]
          /\ \A p \in RejudgingId : p # r => rejudging'[p] = rejudging[p]
          /\ UNCHANGED <<rejudgingid, judgings, finish>>
      <4>1. Repetition(j, r)
        BY <2>2, RepeatRows
      <4> QED  BY <4>1 DEF Repetition
    <3> QED  BY <3>1, NewRowWaitInv
  <2>3. ASSUME NEW r \in RejudgingId, CompileRepeat(j, r) PROVE WaitInv'
    BY <2>3, CompileRepeatWaitInv
  <2> QED  BY <1>2, <2>1, <2>2, <2>3 DEF HandlerStep, QuietHandlerStep
<1>3. ASSUME NEW r \in RejudgingId, CreateStep(r) PROVE WaitInv'
  BY <1>3, CreateEndWaitInv, CreateJudgingWaitInv DEF CreateStep
<1>4. ASSUME NEW r \in RejudgingId, NEW S \in SUBSET Submission, NEW k \in Kinds,
             Create(r, S, k[1], k[2])
      PROVE  WaitInv'
  <2>1. Creation(r, S, k[1])
    BY <1>4, KindType, CreateEffect
  <2>2. /\ NextId(r) /\ rejudging'[r].ended = FALSE
        /\ \A q \in RejudgingId : q # r => rejudging'[q] = rejudging[q]
        /\ UNCHANGED <<rejudgingid, judgings, finish, handler>>
    BY <2>1 DEF Creation
  <2> QED  BY <2>2, NewRowWaitInv
<1>5. ASSUME NEW m \in Jury, FinishStep(m) PROVE WaitInv'
  BY <1>5, EndFinishWaitInv, FinishOneWaitInv DEF FinishStep
<1> QED
  BY <1>1, <1>2, <1>3, <1>4, <1>5, StartFinishWaitInv DEF RejudgingNext

LEMMA InitWaitInv == RejudgingInit => WaitInv
<1> SUFFICES ASSUME RejudgingInit PROVE WaitInv
  OBVIOUS
<1>1. /\ \A r \in RejudgingId : rejudging[r].state = "none"
      /\ \A s \in Submission : rejudgingid[s] = 0
      /\ \A m \in Jury : finish[m].rejudging = 0
  BY DEF RejudgingInit, NoRejudging, NotFinishing
<1> QED
  BY <1>1, IdsType DEF WaitInv, CreatingOpen, FinishCreated, NotInEndedRejudging

LEMMA WaitInvIsInvariant ==
    ASSUME CreationFirst, JuryWaits
    PROVE  RejudgingSpec => [](ValidInv /\ RowInv /\ JudgedInv /\ WaitInv)
<1>1. /\ ValidInv /\ RowInv /\ JudgedInv /\ WaitInv /\ [RejudgingNext]_rejudgingVars
      => ValidInv' /\ RowInv' /\ JudgedInv' /\ WaitInv'
  BY NextValidInv, NextRowInv, NextJudgedInv, NextWaitInv
<1>2. RejudgingInit => ValidInv /\ RowInv /\ JudgedInv /\ WaitInv
  BY InitValidInv, InitRowInv, InitJudgedInv, InitWaitInv
<1> QED  BY <1>1, <1>2, PTL DEF RejudgingSpec

(* When judgehosts wait for the end of a creation, and the jury for its own *)
(* requests, no submission is left in a rejudging that is over, where all   *)
(* later rejudgings would skip it: the jury has released it, the last       *)
(* handler of an automatic rejudging has, or a handler is about to.  It     *)
(* holds with and without the snapshots of the database.                    *)
THEOREM NoneInEndedRejudging ==
    ASSUME CreationFirst, JuryWaits PROVE RejudgingSpec => []NotInEndedRejudging
<1>1. WaitInv => NotInEndedRejudging
  BY DEF WaitInv
<1> QED  BY <1>1, WaitInvIsInvariant, PTL
-----------------------------------------------------------------------------
(* The end of a rejudging, when transactions see what others have           *)
(* committed.                                                               *)

(* While a repetition is created, no other one is open or to be created.    *)
Alone(r, f) == Repeating(f) = {} /\ \A p \in Chain(f) : Open(p) => p = r

CreatingAlone ==
    \A r, f \in RejudgingId :
        rejudging[r].state = "creating" /\ rejudging[r].first = f => Alone(r, f)

(* Whether the handler of the last judging has to end the rejudging, and    *)
(* that there is one that will.                                             *)
ToBeEnded(r) == Open(r) /\ (rejudging[r].autoApply \/ RepetitionDue(r, {}))

SomeoneCounts ==
    \A r \in RejudgingId : rejudging[r].state = "created" /\ Todo(r) = {} /\ ToBeEnded(r) =>
        \E j \in judgings : j[2] = r /\ handler[j] = "count"

CountInv == CreatingAlone /\ SomeoneCounts

LEMMA BusyType ==
    ASSUME ValidInv, RowInv, NEW i \in Busy
    PROVE  /\ i \in judgings /\ i \in JudgingId /\ i[2] \in RejudgingId
           /\ Subs(i[2]) # {} /\ Exists(i[2])
<1>1. i \in judgings /\ i[2] \in RejudgingId /\ i[1] \in Submission /\ i = <<i[1], i[2]>>
      /\ i \in JudgingId
  BY HandlerOfJudging DEF Busy, ValidInv, RejudgingTypeOK
<1> QED  BY <1>1 DEF RowInv, RowsInOrder, Subs

(* Steps that create no rejudging, and make no handler busy with one.       *)
LEMMA KeptAlone ==
    ASSUME ValidInv, RowInv, CreatingAlone, Busy' \subseteq Busy,
           \A q \in RejudgingId :
               /\ rejudging'[q].first = rejudging[q].first
               /\ rejudging'[q].state = "creating" => rejudging[q].state = "creating"
               /\ Exists(q)' => Exists(q)
               /\ Open(q)' => Open(q)
    PROVE  CreatingAlone'
<1> SUFFICES ASSUME NEW r \in RejudgingId, NEW f \in RejudgingId,
                    rejudging'[r].state = "creating", rejudging'[r].first = f
             PROVE  Alone(r, f)'
  BY DEF CreatingAlone
<1>1. Alone(r, f)
  BY DEF CreatingAlone
<1>2. Chain(f)' \subseteq Chain(f) /\ Chain(f) \subseteq RejudgingId
  BY DEF Chain
<1>3. Repeating(f)' \subseteq Repeating(f)
  BY BusyType DEF Repeating, Busy
<1> QED  BY <1>1, <1>2, <1>3 DEF Alone

(* Steps that create rejudging o, and make no handler busy with one.        *)
LEMMA NewRowAlone ==
    ASSUME ValidInv, RowInv, RowInv', CreatingAlone, Busy' \subseteq Busy,
           NEW o \in RejudgingId, NextId(o), rejudging'[o].ended = FALSE,
           \A q \in RejudgingId : q # o =>
               /\ rejudging'[q].first = rejudging[q].first
               /\ rejudging'[q].state = rejudging[q].state
               /\ Open(q)' => Open(q),
           \A r \in RejudgingId : rejudging[r].state = "creating" /\ r # o =>
               rejudging'[o].first # rejudging[r].first \/ rejudging'[o].first = 0
    PROVE  CreatingAlone'
<1> SUFFICES ASSUME NEW r \in RejudgingId, NEW f \in RejudgingId,
                    rejudging'[r].state = "creating", rejudging'[r].first = f
             PROVE  Alone(r, f)'
  BY DEF CreatingAlone
<1>1. CASE r = o
  <2>1. Open(o)' /\ o \in Chain(f)'
    BY <1>1 DEF Open, Exists, Chain
  <2> QED  BY <1>1, <2>1 DEF RowInv, OneActive, Alone
<1>2. CASE r # o
  <2>1. Alone(r, f) /\ rejudging'[o].first # f
    BY <1>2, IdsType DEF CreatingAlone
  <2>2. Chain(f)' \subseteq Chain(f) /\ Chain(f) \subseteq RejudgingId /\ o \notin Chain(f)
    BY <2>1 DEF Chain, Exists, NextId
  <2>3. \A i \in Busy : i[2] \in RejudgingId /\ i[2] # o
    BY BusyType DEF NextId, Exists
  <2>4. Repeating(f)' \subseteq Repeating(f)
    BY <2>3 DEF Repeating, Busy
  <2> QED  BY <2>1, <2>2, <2>4 DEF Alone
<1> QED  BY <1>1, <1>2

LEMMA DueMeans ==
    ASSUME NEW r \in RejudgingId, NEW f, rejudging[r].first = f
    PROVE  RepetitionDue(r, {}) <=>
               Open(r) /\ rejudging[r].repeat > 1 /\ Cardinality(Chain(f)) < rejudging[r].repeat
  BY DEF RepetitionDue, Chain

LEMMA DueMeansNext ==
    ASSUME NEW r \in RejudgingId, NEW f, rejudging'[r].first = f
    PROVE  RepetitionDue(r, {})' <=>
               /\ Open(r)' /\ rejudging'[r].repeat > 1
               /\ Cardinality(Chain(f)') < rejudging'[r].repeat
  BY DEF RepetitionDue, Chain

(* Steps after which rejudging r does not have to be ended unless before.   *)
LEMMA StillToBeEnded ==
    ASSUME ValidInv, NEW r \in RejudgingId, Open(r)' => Open(r),
           rejudging'[r].first = rejudging[r].first, rejudging'[r].repeat = rejudging[r].repeat,
           rejudging'[r].autoApply = rejudging[r].autoApply,
           Open(r) => \A q \in RejudgingId : Exists(q) /\ rejudging[q].first = rejudging[r].first =>
               Exists(q)' /\ rejudging'[q].first = rejudging[q].first
    PROVE  ToBeEnded(r)' => ToBeEnded(r)
<1> SUFFICES ASSUME Open(r)', rejudging'[r].autoApply \/ RepetitionDue(r, {})'
             PROVE  ToBeEnded(r)
  BY DEF ToBeEnded
<1>1. CASE rejudging'[r].autoApply
  BY <1>1 DEF ToBeEnded
<1>2. CASE RepetitionDue(r, {})'
  <2>1. PICK f : f = rejudging[r].first
    OBVIOUS
  <2>2. Chain(f) \subseteq Chain(f)'
    BY <2>1 DEF Chain
  <2>3. IsFiniteSet(Chain(f)')
    <3>1. IsFiniteSet(RejudgingId) /\ Chain(f)' \subseteq RejudgingId
      BY RejudgingAssumption, FS_Interval DEF RejudgingId, Chain
    <3> QED  BY <3>1, FS_Subset
  <2>4. /\ Cardinality(Chain(f)) <= Cardinality(Chain(f)')
        /\ Cardinality(Chain(f)) \in Nat /\ Cardinality(Chain(f)') \in Nat
    BY <2>2, <2>3, FS_Subset, FS_CardinalityType
  <2>5. rejudging[r].repeat \in Nat
    BY RowType
  <2> QED  BY <1>2, <2>1, <2>4, <2>5, DueMeans, DueMeansNext DEF ToBeEnded
<1> QED  BY <1>1, <1>2

LEMMA StillCounts ==
    ASSUME ValidInv, SomeoneCounts, judgings \subseteq judgings', NEW r \in RejudgingId,
           rejudging'[r].state = "created" => rejudging[r].state = "created",
           Todo(r)' = {} => Todo(r) = {}, ToBeEnded(r)' => ToBeEnded(r),
           \A j \in judgings : j[2] = r /\ handler[j] = "count" => handler'[j] = "count"
    PROVE  rejudging'[r].state = "created" /\ Todo(r)' = {} /\ ToBeEnded(r)' =>
               \E j \in judgings' : j[2] = r /\ handler'[j] = "count"
  BY DEF SomeoneCounts

LEMMA HandlerAlone ==
    ASSUME ValidInv, RowInv, JudgedInv, CreatingAlone, NEW j \in JudgingId, HandlerGoesOn(j)
    PROVE  CreatingAlone'
<1> SUFFICES ASSUME NEW r \in RejudgingId, NEW f \in RejudgingId,
                    rejudging'[r].state = "creating", rejudging'[r].first = f
             PROVE  Alone(r, f)'
  BY DEF CreatingAlone
<1> DEFINE q == j[2]
<1>1. /\ j \in judgings /\ j[1] \in Submission /\ q \in RejudgingId /\ j = <<j[1], q>>
      /\ UNCHANGED judgings /\ \A i \in JudgingId : i # j => handler'[i] = handler[i]
      /\ handler'[j] = "repeat" => handler[j] = "count"
      /\ handler'[j] = "create" => handler[j] = "repeat"
      /\ handler[j] = "count" => EndRejudging(j, handler'[j])
  BY DEF HandlerGoesOn
<1>2. \A p \in RejudgingId : /\ rejudging'[p].state = rejudging[p].state
                             /\ rejudging'[p].first = rejudging[p].first
                             /\ Open(p)' => Open(p)
  BY RowGoesOn DEF Open, Exists
<1>3. Alone(r, f) /\ rejudging[r].state = "creating"
  BY <1>2 DEF CreatingAlone
<1>4. Chain(f)' = Chain(f) /\ Chain(f) \subseteq RejudgingId
  BY <1>2 DEF Chain, Exists
<1>5. Repeating(f)' = {}
  <2> SUFFICES ASSUME NEW i \in judgings, handler'[i] \in {"repeat", "create"},
                      rejudging'[i[2]].first = f
               PROVE  FALSE
    BY <1>1 DEF Repeating
  <2>1. i \in JudgingId
    BY DEF ValidInv, RejudgingTypeOK
  <2>2. i = j
    <3>1. ASSUME i # j PROVE FALSE
      <4>1. handler[i] \in {"repeat", "create"}
        BY <1>1, <2>1, <3>1
      <4>2. i \in Busy
        BY <4>1 DEF Busy
      <4>3. i[2] \in RejudgingId
        BY <4>2, BusyType
      <4>4. rejudging[i[2]].first = f
        BY <1>2, <4>3
      <4> QED  BY <1>3, <4>1, <4>4 DEF Alone, Repeating
    <3> QED  BY <3>1
  <2>3. rejudging[q].first = f
    BY <1>1, <1>2, <2>2
  <2>4. handler'[j] = "repeat" /\ handler[j] = "count"
    BY <1>1, <1>3, <2>2, <2>3 DEF Alone, Repeating
  <2>5. Open(q)
    BY <1>1, <2>4 DEF EndRejudging, EndForRepetition, RepetitionDue, After
  <2>6. q = r
    BY <1>1, <1>3, <2>3, <2>5 DEF Alone, Chain, Open
  <2> QED  BY <1>1, <1>3, <2>4, <2>6 DEF JudgedInv, NotYetJudged, Subs
<1> QED  BY <1>2, <1>3, <1>4, <1>5 DEF Alone

(* A handler that looks for judgings left and finds none ends a rejudging   *)
(* that is to be ended.                                                     *)
LEMMA CountEnds ==
    ASSUME NEW q \in RejudgingId, NEW next, ToBeEnded(q),
           \/ EndForRepetition(q, {}) /\ next = "repeat"
           \/ EndAutomatically(q, {}),
           rejudging \in [RejudgingId -> RejudgingRow]
    PROVE  rejudging'[q].ended
  BY DEF EndForRepetition, EndAutomatically, ToBeEnded, RejudgingRow

LEMMA HandlerCounts ==
    ASSUME ~SnapshotReads, ValidInv, SomeoneCounts, NEW j \in JudgingId, HandlerGoesOn(j)
    PROVE  SomeoneCounts'
<1> SUFFICES ASSUME NEW p \in RejudgingId, rejudging'[p].state = "created", Todo(p)' = {},
                    ToBeEnded(p)'
             PROVE  \E i \in judgings' : i[2] = p /\ handler'[i] = "count"
  BY DEF SomeoneCounts
<1> DEFINE q == j[2]
<1>1. /\ j \in judgings /\ q \in RejudgingId
      /\ UNCHANGED judgings /\ \A i \in JudgingId : i # j => handler'[i] = handler[i]
      /\ endtime \subseteq endtime' /\ endtime' \subseteq endtime \union {j}
      /\ j \in endtime' \ endtime => handler'[j] = "count" \/ handler[j] = "compile"
  BY DEF HandlerGoesOn
<1>2. \A r \in RejudgingId : /\ rejudging'[r].state = rejudging[r].state
                             /\ rejudging'[r].first = rejudging[r].first
                             /\ rejudging'[r].repeat = rejudging[r].repeat
                             /\ rejudging'[r].autoApply = rejudging[r].autoApply
                             /\ Open(r)' => Open(r)
  BY RowGoesOn DEF Open, Exists
<1>3. ToBeEnded(p) /\ rejudging[p].state = "created"
  BY <1>2, StillToBeEnded DEF Exists
<1>4. judgings \subseteq JudgingId
  BY DEF ValidInv, RejudgingTypeOK
<1>5. CASE p # q
  <2>1. Todo(p) = {}
    BY <1>1, <1>5 DEF Todo, JudgingsOf
  <2>2. PICK i \in judgings : i[2] = p /\ handler[i] = "count"
    BY <1>3, <2>1 DEF SomeoneCounts
  <2> QED  BY <1>1, <1>4, <1>5, <2>2
<1>6. CASE p = q /\ handler[j] \in {"count", "compile"}
  <2>1. /\ handler[j] = "count" => UNCHANGED endtime /\ EndRejudging(j, handler'[j])
        /\ handler[j] = "compile" =>
               endtime' = endtime \union {j} /\ EndAutomatically(q, TodoInTransaction(j))
    BY DEF HandlerGoesOn
  <2>2. handler[j] = "count" => Todo(q) = {}
    BY <1>1, <1>6, <2>1 DEF Todo, JudgingsOf
  <2>3. handler[j] = "compile" => TodoInTransaction(j) = {}
    BY <1>1, <1>6, <2>1 DEF Todo, JudgingsOf, TodoInTransaction
  <2>4. \/ EndForRepetition(q, {}) /\ handler'[j] = "repeat"
        \/ EndAutomatically(q, {})
    BY <1>6, <2>1, <2>2, <2>3 DEF EndRejudging
  <2>5. rejudging'[q].ended
    BY <1>1, <1>3, <1>6, <2>4, CountEnds DEF ValidInv, RejudgingTypeOK
  <2> QED  BY <1>6, <2>5 DEF ToBeEnded, Open
<1>7. CASE p = q /\ handler[j] \notin {"count", "compile"}
  <2>1. CASE j \in endtime' \ endtime
    BY <1>1, <1>7, <2>1
  <2>2. CASE j \notin endtime' \ endtime
    <3>1. Todo(p) = {}
      BY <1>1, <2>2 DEF Todo, JudgingsOf
    <3>2. PICK i \in judgings : i[2] = p /\ handler[i] = "count"
      BY <1>3, <3>1 DEF SomeoneCounts
    <3> QED  BY <1>1, <1>4, <1>7, <3>2
  <2> QED  BY <2>1, <2>2
<1> QED  BY <1>5, <1>6, <1>7

(* Steps that change no rejudging but that they end it, and no judging.     *)
LEMMA KeptCountInv ==
    ASSUME ValidInv, RowInv, CountInv, UNCHANGED <<judgings, endtime>>, Busy' \subseteq Busy,
           \A q \in RejudgingId :
               /\ rejudging'[q].first = rejudging[q].first
               /\ rejudging'[q].repeat = rejudging[q].repeat
               /\ rejudging'[q].autoApply = rejudging[q].autoApply
               /\ rejudging'[q].state = rejudging[q].state
               /\ rejudging[q].ended => rejudging'[q].ended,
           \A j \in judgings : handler[j] = "count" => handler'[j] = "count"
    PROVE  CountInv'
<1>1. \A q \in RejudgingId : (Exists(q)' <=> Exists(q)) /\ (Open(q)' => Open(q))
  BY DEF Exists, Open
<1>2. CreatingAlone'
  BY <1>1, KeptAlone DEF CountInv
<1>3. ASSUME NEW r \in RejudgingId PROVE ToBeEnded(r)' => ToBeEnded(r)
  BY <1>1, StillToBeEnded
<1>4. \A r \in RejudgingId : Todo(r)' = Todo(r)
  BY DEF Todo, JudgingsOf
<1>5. SomeoneCounts'
  BY <1>3, <1>4 DEF CountInv, SomeoneCounts
<1> QED  BY <1>2, <1>5 DEF CountInv

(* Steps that insert the row of a rejudging.                                *)
LEMMA NewRowCountInv ==
    ASSUME ValidInv, RowInv, RowInv', CountInv, UNCHANGED <<judgings, endtime>>, Busy' \subseteq Busy,
           NEW o \in RejudgingId, NextId(o), rejudging'[o].ended = FALSE,
           rejudging'[o].state = "creating",
           \A q \in RejudgingId : q # o => rejudging'[q] = rejudging[q],
           \A r \in RejudgingId : rejudging[r].state = "creating" =>
               rejudging'[o].first # rejudging[r].first \/ rejudging'[o].first = 0,
           \A j \in judgings : handler[j] = "count" => handler'[j] = "count"
    PROVE  CountInv'
<1>1. \A q \in RejudgingId : q # o => (Exists(q)' <=> Exists(q)) /\ (Open(q)' <=> Open(q))
  BY DEF Exists, Open
<1>2. CreatingAlone'
  BY <1>1, NewRowAlone DEF CountInv
<1>3. ASSUME NEW r \in RejudgingId, r # o PROVE ToBeEnded(r)' => ToBeEnded(r)
  <2>1. ~Exists(o)
    BY DEF NextId, Exists
  <2> QED  BY <1>1, <1>3, <2>1, StillToBeEnded
<1>4. \A r \in RejudgingId : Todo(r)' = Todo(r)
  BY DEF Todo, JudgingsOf
<1>5. SomeoneCounts'
  BY <1>3, <1>4 DEF CountInv, SomeoneCounts
<1> QED  BY <1>2, <1>5 DEF CountInv

LEMMA CreateCountInv ==
    ASSUME ValidInv, RowInv, RowInv', CountInv, NEW r \in RejudgingId, NEW S, NEW auto,
           Creation(r, S, auto)
    PROVE  CountInv'
<1>1. /\ NextId(r) /\ rejudging'[r].ended = FALSE /\ rejudging'[r].state = "creating"
      /\ rejudging'[r].first \in {0, r}
      /\ \A q \in RejudgingId : q # r => rejudging'[q] = rejudging[q]
      /\ UNCHANGED <<judgings, endtime, handler>>
  BY DEF Creation
<1>2. Busy' \subseteq Busy
  BY <1>1 DEF Busy
<1>3. Subs(r) = {} /\ rejudging[r].state = "none"
  BY <1>1 DEF NextId, Exists, RowInv, RowsInOrder
<1>4. \A q \in RejudgingId : rejudging[q].state = "creating" => rejudging[q].first # r
  BY <1>3 DEF RowInv, ChainRows
<1> QED  BY <1>1, <1>2, <1>4, NewRowCountInv

LEMMA RepeatCountInv ==
    ASSUME ValidInv, RowInv, RowInv', CountInv, NEW j \in JudgingId, NEW r \in RejudgingId,
           Repetition(j, r)
    PROVE  CountInv'
<1> DEFINE q == j[2]
<1>1. /\ j \in judgings /\ q \in RejudgingId /\ handler[j] = "create"
      /\ NextId(r) /\ rejudging'[r].ended = FALSE /\ rejudging'[r].state = "creating"
      /\ rejudging'[r].first = rejudging[q].first
      /\ \A p \in RejudgingId : p # r => rejudging'[p] = rejudging[p]
      /\ UNCHANGED <<judgings, endtime>>
      /\ handler'[j] \in {"work", "over"} /\ \A i \in JudgingId : i # j => handler'[i] = handler[i]
  BY DEF Repetition
<1>2. judgings \subseteq JudgingId
  BY DEF ValidInv, RejudgingTypeOK
<1>3. Busy' \subseteq Busy /\ \A i \in judgings : handler[i] = "count" => handler'[i] = "count"
  BY <1>1, <1>2 DEF Busy
<1>4. ASSUME NEW p \in RejudgingId, rejudging[p].state = "creating"
      PROVE  rejudging[q].first # rejudging[p].first \/ rejudging[q].first = 0
  <2>1. PICK f : f = rejudging[q].first
    OBVIOUS
  <2>2. j \in Repeating(f)
    BY <1>1, <2>1 DEF Repeating
  <2>3. f # 0 => f \in RejudgingId
    BY <1>1, <2>1, RowType
  <2> QED  BY <1>4, <2>1, <2>2, <2>3 DEF CountInv, CreatingAlone, Alone
<1> QED  BY <1>1, <1>3, <1>4, NewRowCountInv

LEMMA CreateJudgingCountInv ==
    ASSUME ValidInv, RowInv, CountInv, NEW r \in RejudgingId, NEW s \in Submission,
           CreateJudging(r, s)
    PROVE  CountInv'
<1>1. /\ rejudging[r].state = "creating" /\ UNCHANGED <<rejudging, endtime>>
      /\ \/ UNCHANGED <<judgings, handler>>
         \/ /\ judgings' = judgings \union {<<s, r>>} /\ handler'[<<s, r>>] = "queued"
            /\ \A i \in JudgingId : i # <<s, r>> => handler'[i] = handler[i]
  BY CreateJudgingEffect
<1>2. judgings \subseteq JudgingId
  BY DEF ValidInv, RejudgingTypeOK
<1>3. Busy' \subseteq Busy
  BY <1>1, <1>2 DEF Busy
<1>4. \A q \in RejudgingId : (Exists(q)' <=> Exists(q)) /\ (Open(q)' <=> Open(q))
  BY <1>1 DEF Exists, Open
<1>5. CreatingAlone'
  BY <1>1, <1>3, <1>4, KeptAlone DEF CountInv
<1>6. SomeoneCounts'
  <2> SUFFICES ASSUME NEW p \in RejudgingId, rejudging'[p].state = "created", Todo(p)' = {},
                      ToBeEnded(p)'
               PROVE  \E i \in judgings' : i[2] = p /\ handler'[i] = "count"
    BY DEF SomeoneCounts
  <2>1. p # r /\ ToBeEnded(p)
    BY <1>1, <1>4, StillToBeEnded
  <2>2. Todo(p) = {}
    BY <1>1, <2>1 DEF Todo, JudgingsOf
  <2>3. PICK i \in judgings : i[2] = p /\ handler[i] = "count"
    BY <1>1, <2>1, <2>2 DEF CountInv, SomeoneCounts
  <2> QED  BY <1>1, <1>2, <2>1, <2>3
<1> QED  BY <1>5, <1>6 DEF CountInv

(* A repetition that is open is not among those of which one is created.    *)
LEMMA CreateEndToBeEnded ==
    ASSUME ValidInv, RowInv, CreatingAlone, NEW r \in RejudgingId, CreateEnd(r),
           NEW p \in RejudgingId, p # r
    PROVE  ToBeEnded(p)' => ToBeEnded(p)
<1> SUFFICES ASSUME ToBeEnded(p)' PROVE ToBeEnded(p)
  OBVIOUS
<1>1. /\ rejudging[r].state = "creating"
      /\ \A q \in RejudgingId : q # r => rejudging'[q] = rejudging[q]
      /\ \A q \in RejudgingId : rejudging'[q].first = rejudging[q].first
  BY CreateEndEffect
<1>2. Open(p)
  BY <1>1 DEF ToBeEnded, Open, Exists
<1>3. CASE rejudging[p].first = 0
  <2>1. ~(rejudging[p].repeat > 1)
    BY <1>3 DEF RowInv, RowsInOrder
  <2>2. rejudging'[p].autoApply
    BY <1>1, <2>1 DEF ToBeEnded, RepetitionDue
  <2> QED  BY <1>1, <1>2, <2>2 DEF ToBeEnded
<1>4. CASE rejudging[p].first # 0
  <2>1. PICK f \in RejudgingId : f = rejudging[p].first
    BY <1>4, RowType
  <2>2. p \in Chain(f)
    BY <1>2, <2>1 DEF Chain, Open
  <2>3. rejudging[r].first # f
    BY <1>1, <1>2, <2>2 DEF CreatingAlone, Alone
  <2>4. \A q \in RejudgingId : Exists(q) /\ rejudging[q].first = rejudging[p].first =>
            Exists(q)' /\ rejudging'[q].first = rejudging[q].first
    BY <1>1, <2>1, <2>3 DEF Exists
  <2> QED  BY <1>1, <1>2, <2>4, StillToBeEnded
<1> QED  BY <1>3, <1>4

LEMMA CreateEndCountInv ==
    ASSUME ValidInv, RowInv, JudgedInv, CountInv, NEW r \in RejudgingId, CreateEnd(r)
    PROVE  CountInv'
<1>1. /\ rejudging[r].state = "creating"
      /\ rejudging'[r].state = IF Subs(r) = {} THEN "removed" ELSE "created"
      /\ \A q \in RejudgingId : q # r => rejudging'[q] = rejudging[q]
      /\ \A q \in RejudgingId : /\ rejudging'[q].ended = rejudging[q].ended
                                /\ rejudging'[q].autoApply = rejudging[q].autoApply
                                /\ rejudging'[q].first = rejudging[q].first
                                /\ rejudging'[q].repeat = rejudging[q].repeat
      /\ UNCHANGED <<judgings, endtime, handler>>
  BY CreateEndEffect
<1>2. \A q \in RejudgingId : /\ Exists(q)' => Exists(q)
                             /\ Open(q)' => Open(q)
                             /\ rejudging'[q].state = "creating" => rejudging[q].state = "creating"
  BY <1>1 DEF Exists, Open
<1>3. CreatingAlone'
  BY <1>1, <1>2, KeptAlone DEF CountInv, Busy
<1>4. SomeoneCounts'
  <2> SUFFICES ASSUME NEW p \in RejudgingId, rejudging'[p].state = "created", Todo(p)' = {},
                      ToBeEnded(p)'
               PROVE  \E i \in judgings' : i[2] = p /\ handler'[i] = "count"
    BY DEF SomeoneCounts
  <2>1. Todo(p) = {}
    BY <1>1 DEF Todo, JudgingsOf
  <2>2. p # r
    <3>1. ASSUME p = r PROVE FALSE
      <4>1. PICK s \in Submission : <<s, r>> \in judgings
        BY <1>1, <3>1 DEF Subs
      <4>2. <<s, r>> \notin endtime
        BY <1>1, <4>1 DEF JudgedInv, NotYetJudged, Subs
      <4> QED  BY <2>1, <3>1, <4>1, <4>2 DEF Todo, JudgingsOf
    <3> QED  BY <3>1
  <2>3. ToBeEnded(p)
    BY <2>2, CreateEndToBeEnded DEF CountInv
  <2> QED  BY <1>1, <2>1, <2>2, <2>3 DEF CountInv, SomeoneCounts
<1> QED  BY <1>3, <1>4 DEF CountInv

LEMMA CompileRepeatCountInv ==
    ASSUME ValidInv, RowInv, RowInv', JudgedInv, CountInv, NEW j \in JudgingId,
           NEW r \in RejudgingId, CompileRepetition(j, r)
    PROVE  CountInv'
<1> DEFINE q == j[2]
<1>1. /\ j \in judgings /\ j[1] \in Submission /\ q \in RejudgingId /\ j = <<j[1], q>>
      /\ q # r /\ Open(q) /\ handler[j] = "compile" /\ NextId(r)
      /\ rejudging'[r].first = rejudging[q].first /\ rejudging'[r].ended = FALSE
      /\ rejudging'[r].state = IF Repeated(q) = {} THEN "removed" ELSE "created"
      /\ rejudging'[q].ended /\ rejudging'[q].state = rejudging[q].state
      /\ rejudging'[q].first = rejudging[q].first
      /\ \A p \in RejudgingId \ {q, r} : rejudging'[p] = rejudging[p]
  BY DEF CompileRepetition
<1>2. /\ judgings' = judgings \union (Repeated(q) \X {r})
      /\ endtime' = endtime \union {j} /\ Repeated(q) \subseteq Subs(q)
      /\ \A i \in JudgingId : handler'[i] = IF i = j THEN "over"
             ELSE IF i \in Repeated(q) \X {r} THEN "queued" ELSE handler[i]
  BY DEF CompileRepetition
<1>3. rejudging[r].state = "none" /\ ~Exists(r) /\ Subs(r) = {}
  BY <1>1 DEF NextId, Exists, RowInv, RowsInOrder
<1>4. judgings \subseteq JudgingId /\ Repeated(q) \subseteq Submission
      /\ Repeated(q) \X {r} \subseteq JudgingId
  <2>1. judgings \subseteq JudgingId /\ Repeated(q) \subseteq Submission
    BY <1>2 DEF ValidInv, RejudgingTypeOK, Subs
  <2>2. r \in 0..NumRejudgings
    BY IdsType
  <2> QED  BY <2>1, <2>2, JudgingPair
<1>5. Busy' \subseteq Busy
  <2> SUFFICES ASSUME NEW i \in judgings', handler'[i] \in {"repeat", "create"}
               PROVE  i \in Busy
    BY DEF Busy
  <2>1. i \in JudgingId
    BY <1>2, <1>4
  <2>2. handler[i] = handler'[i] /\ i \in judgings
    BY <1>2, <2>1
  <2> QED  BY <2>2 DEF Busy
<1>6. \A p \in RejudgingId : p # r =>
          /\ rejudging'[p].first = rejudging[p].first
          /\ rejudging'[p].state = rejudging[p].state
          /\ Open(p)' => Open(p)
          /\ Exists(p)' <=> Exists(p)
  BY <1>1 DEF Open, Exists
<1>7. ASSUME NEW p \in RejudgingId, rejudging[p].state = "creating"
      PROVE  rejudging[q].first # rejudging[p].first \/ rejudging[q].first = 0
  <2> SUFFICES ASSUME rejudging[q].first = rejudging[p].first, rejudging[q].first # 0 PROVE FALSE
    OBVIOUS
  <2>1. PICK f \in RejudgingId : f = rejudging[q].first
    BY <1>1, RowType
  <2>2. q \in Chain(f)
    BY <1>1, <2>1 DEF Chain, Open
  <2>3. p = q
    BY <1>1, <1>7, <2>1, <2>2 DEF CountInv, CreatingAlone, Alone
  <2> QED  BY <1>1, <1>7, <2>3 DEF JudgedInv, NotYetJudged, Subs
<1>8. CreatingAlone'
  BY <1>1, <1>5, <1>6, <1>7, NewRowAlone DEF CountInv
<1>9. SomeoneCounts'
  <2> SUFFICES ASSUME NEW p \in RejudgingId, rejudging'[p].state = "created", Todo(p)' = {},
                      ToBeEnded(p)'
               PROVE  \E i \in judgings' : i[2] = p /\ handler'[i] = "count"
    BY DEF SomeoneCounts
  <2>1. p # q
    BY <1>1 DEF ToBeEnded, Open
  <2>2. p # r
    <3>1. ASSUME p = r PROVE FALSE
      <4>1. PICK s \in Repeated(q) : TRUE
        BY <1>1, <3>1
      <4>2. <<s, r>> \in judgings' /\ <<s, r>> \notin judgings
        BY <1>2, <1>3, <1>4, <4>1 DEF Subs
      <4>3. <<s, r>> \notin endtime'
        BY <1>1, <1>2, <4>2 DEF ValidInv, RejudgingTypeOK
      <4> QED  BY <3>1, <4>2, <4>3 DEF Todo, JudgingsOf
    <3> QED  BY <3>1
  <2>3. Todo(p) = {}
    BY <1>1, <1>2, <2>1, <2>2 DEF Todo, JudgingsOf
  <2>4. ToBeEnded(p)
    BY <1>1, <1>3, <1>6, <2>1, <2>2, StillToBeEnded
  <2>5. PICK i \in judgings : i[2] = p /\ handler[i] = "count"
    BY <1>1, <2>1, <2>2, <2>3, <2>4 DEF CountInv, SomeoneCounts
  <2>6. i \in JudgingId /\ i # j /\ i \notin Repeated(q) \X {r}
    BY <1>1, <1>4, <2>2, <2>5
  <2> QED  BY <1>2, <2>5, <2>6
<1> QED  BY <1>8, <1>9 DEF CountInv

LEMMA NextCountInv ==
    ASSUME ~SnapshotReads, ValidInv, RowInv, RowInv', JudgedInv, CountInv,
           [RejudgingNext]_rejudgingVars
    PROVE  CountInv'
<1>0. judgings \subseteq JudgingId
  BY DEF ValidInv, RejudgingTypeOK
<1>1. CASE UNCHANGED rejudgingVars
  BY <1>1, KeptCountInv DEF rejudgingVars, judgingVars, handlerVars, Busy
<1>2. ASSUME NEW j \in JudgingId, HandlerStep(j) PROVE CountInv'
  <2>1. CASE QuietHandlerStep(j)
    BY <2>1, HandlersGoOn, HandlerAlone, HandlerCounts DEF CountInv
  <2>2. ASSUME NEW next \in Progress, NEW r \in RejudgingId, Repeat(j, r, next) PROVE CountInv'
    BY <2>2, RepeatRows, RepeatCountInv
  <2>3. ASSUME NEW r \in RejudgingId, CompileRepeat(j, r) PROVE CountInv'
    BY <2>3, CompileRepeatRows, CompileRepeatCountInv
  <2> QED  BY <1>2, <2>1, <2>2, <2>3 DEF HandlerStep, QuietHandlerStep
<1>3. ASSUME NEW r \in RejudgingId, CreateStep(r) PROVE CountInv'
  BY <1>3, CreateEndCountInv, CreateJudgingCountInv DEF CreateStep
<1>4. ASSUME NEW r \in RejudgingId, NEW S \in SUBSET Submission, NEW k \in Kinds,
             Create(r, S, k[1], k[2])
      PROVE  CountInv'
  <2>1. Creation(r, S, k[1])
    BY <1>4, KindType, CreateEffect
  <2> QED  BY <2>1, CreateCountInv
<1>5. ASSUME NEW m \in Jury, EndFinish(m) PROVE CountInv'
  <2>1. PICK r \in RejudgingId : r = finish[m].rejudging
    BY <1>5, EndFinishRows
  <2>2. /\ rejudging'[r].ended /\ \A q \in RejudgingId : q # r => rejudging'[q] = rejudging[q]
        /\ \A q \in RejudgingId : /\ rejudging'[q].state = rejudging[q].state
                                  /\ rejudging'[q].autoApply = rejudging[q].autoApply
                                  /\ rejudging'[q].first = rejudging[q].first
                                  /\ rejudging'[q].repeat = rejudging[q].repeat
        /\ UNCHANGED <<judgings, endtime, handler>>
    BY <1>5, <2>1, EndFinishRows
  <2> QED  BY <2>2, KeptCountInv DEF Busy
<1>6. ASSUME NEW m \in Jury, NEW s \in Submission, Apply(m, s) \/ Cancel(m, s) PROVE CountInv'
  <2>1. /\ UNCHANGED <<rejudging, judgings, endtime>>
        /\ \A i \in JudgingId :
               handler'[i] = handler[i] \/ (handler[i] = "queued" /\ handler'[i] = "over")
    BY <1>6, FinishOneEffect
  <2> QED  BY <1>0, <2>1, KeptCountInv DEF Busy
<1>7. ASSUME NEW m \in Jury, NEW r \in RejudgingId, NEW apply \in BOOLEAN, StartFinish(m, r, apply)
      PROVE  CountInv'
  <2>1. UNCHANGED <<rejudging, judgings, endtime, handler>>
    BY <1>7, StartFinishEffect
  <2> QED  BY <2>1, KeptCountInv DEF Busy
<1> QED
  BY <1>1, <1>2, <1>3, <1>4, <1>5, <1>6, <1>7 DEF RejudgingNext, FinishStep

LEMMA CountInvIsInvariant ==
    ASSUME CreationFirst, ~SnapshotReads
    PROVE  RejudgingSpec => [](ValidInv /\ RowInv /\ JudgedInv /\ CountInv)
<1>1. /\ ValidInv /\ RowInv /\ JudgedInv /\ CountInv /\ [RejudgingNext]_rejudgingVars
      => ValidInv' /\ RowInv' /\ JudgedInv' /\ CountInv'
  BY NextValidInv, NextRowInv, NextJudgedInv, NextCountInv
<1>2. RejudgingInit => CountInv
  BY DEF RejudgingInit, NoRejudging, CountInv, CreatingAlone, SomeoneCounts
<1>3. RejudgingInit => ValidInv /\ RowInv /\ JudgedInv /\ CountInv
  BY <1>2, InitValidInv, InitRowInv, InitJudgedInv
<1> QED  BY <1>1, <1>3, PTL DEF RejudgingSpec

(* Several judgehosts may report the last judgings of a rejudging at the    *)
(* same time, each in requests of several transactions; one of them looks   *)
(* for judgings left after all have ended, so that the rejudging is applied *)
(* or repeated.  It needs transactions that see what others have committed: *)
(* with the snapshots of the database the handlers of two compiler errors   *)
(* each miss that the other is done.                                        *)
THEOREM LastHandlerEnds ==
    ASSUME CreationFirst, ~SnapshotReads PROVE RejudgingSpec => []LastOneEnds
<1>1. CountInv => LastOneEnds
  BY DEF CountInv, SomeoneCounts, LastOneEnds, ToBeEnded, JudgingsOf
<1> QED  BY <1>1, CountInvIsInvariant, PTL
-----------------------------------------------------------------------------
(* Rejudgings that the jury applies.                                        *)
Applying(m, r) == finish[m].rejudging = r /\ finish[m].apply

(* A rejudging is finished by one jury member, and while it is applied no   *)
(* handler ends it.                                                         *)
FinishOnce ==
    \A m, n \in Jury, r \in RejudgingId :
        finish[m].rejudging = r /\ finish[n].rejudging = r => m = n

ApplyingOpen ==
    \A m \in Jury, r \in RejudgingId : Applying(m, r) => Open(r) /\ ~ToBeEnded(r)

ApplyInv == FinishOnce /\ ApplyingOpen

(* Steps that do not begin to finish a rejudging.                           *)
LEMMA KeptApplyInv ==
    ASSUME ApplyInv,
           \A m \in Jury, r \in RejudgingId : finish'[m].rejudging = r =>
               finish[m].rejudging = r /\ finish'[m].apply = finish[m].apply,
           \A m \in Jury, r \in RejudgingId :
               Open(r) /\ ~ToBeEnded(r) /\ Applying(m, r) /\ finish'[m].rejudging = r =>
                   Open(r)' /\ ~ToBeEnded(r)'
    PROVE  ApplyInv'
  BY DEF ApplyInv, FinishOnce, ApplyingOpen, Applying

LEMMA DueToBeEnded ==
    ASSUME NEW r, NEW todo, RepetitionDue(r, todo) PROVE ToBeEnded(r)
  BY DEF RepetitionDue, ToBeEnded

LEMMA HandlerApplyInv ==
    ASSUME ValidInv, ApplyInv, NEW j \in JudgingId, HandlerGoesOn(j)
    PROVE  ApplyInv'
<1>1. UNCHANGED finish /\ j[2] \in RejudgingId
  BY DEF HandlerGoesOn
<1>2. \A r \in RejudgingId : /\ rejudging'[r].state = rejudging[r].state
                             /\ rejudging'[r].first = rejudging[r].first
                             /\ rejudging'[r].repeat = rejudging[r].repeat
                             /\ rejudging'[r].autoApply = rejudging[r].autoApply
  BY RowGoesOn
<1>3. ASSUME NEW r \in RejudgingId, Open(r), ~ToBeEnded(r) PROVE rejudging'[r] = rejudging[r]
  <2>1. ~rejudging[r].autoApply
    BY <1>3 DEF ToBeEnded
  <2>2. CASE r # j[2]
    BY <2>2, RowGoesOn
  <2>3. CASE r = j[2]
    <3>1. ~RepetitionDue(j[2], Todo(j[2]))
      BY <1>3, <2>3, DueToBeEnded
    <3>2. \/ rejudging'[j[2]] = rejudging[j[2]]
          \/ RepetitionDue(j[2], Todo(j[2]))
          \/ rejudging[j[2]].autoApply
      BY RowGoesOn
    <3> QED  BY <2>1, <2>3, <3>1, <3>2
  <2> QED  BY <2>2, <2>3
<1>4. ASSUME NEW r \in RejudgingId, Open(r), ~ToBeEnded(r) PROVE Open(r)' /\ ~ToBeEnded(r)'
  BY <1>2, <1>3, <1>4, StillToBeEnded DEF Open, Exists
<1> QED  BY <1>1, <1>4, KeptApplyInv

LEMMA CompileRepeatApplyInv ==
    ASSUME ValidInv, ApplyInv, NEW j \in JudgingId, NEW r \in RejudgingId, CompileRepetition(j, r)
    PROVE  ApplyInv'
<1> DEFINE q == j[2]
<1>1. /\ q \in RejudgingId /\ RepetitionDue(q, TodoInTransaction(j)) /\ NextId(r)
      /\ rejudging'[q].state = rejudging[q].state /\ rejudging'[q].first = rejudging[q].first
      /\ \A p \in RejudgingId \ {q, r} : rejudging'[p] = rejudging[p]
      /\ UNCHANGED finish
  BY DEF CompileRepetition
<1>2. ASSUME NEW p \in RejudgingId, Open(p), ~ToBeEnded(p) PROVE Open(p)' /\ ~ToBeEnded(p)'
  <2>1. p # q /\ p # r /\ ~Exists(r)
    BY <1>1, <1>2, DueToBeEnded DEF NextId, Open, Exists
  <2>2. \A x \in RejudgingId : Exists(x) => Exists(x)' /\ rejudging'[x].first = rejudging[x].first
    BY <1>1, <2>1 DEF Exists
  <2>3. rejudging'[p] = rejudging[p]
    BY <1>1, <2>1
  <2> QED  BY <1>2, <2>2, <2>3, StillToBeEnded DEF Open, Exists
<1> QED  BY <1>1, <1>2, KeptApplyInv

LEMMA NewRowApplyInv ==
    ASSUME ValidInv, ApplyInv, NEW r \in RejudgingId, NextId(r), UNCHANGED finish,
           \A q \in RejudgingId : q # r => rejudging'[q] = rejudging[q]
    PROVE  ApplyInv'
<1>1. ASSUME NEW p \in RejudgingId, Open(p), ~ToBeEnded(p) PROVE Open(p)' /\ ~ToBeEnded(p)'
  <2>1. p # r /\ ~Exists(r)
    BY <1>1 DEF NextId, Open, Exists
  <2>2. \A x \in RejudgingId : Exists(x) => Exists(x)' /\ rejudging'[x].first = rejudging[x].first
    BY <2>1 DEF Exists
  <2> QED  BY <1>1, <2>1, <2>2, StillToBeEnded DEF Open, Exists
<1> QED  BY <1>1, KeptApplyInv

LEMMA CreateEndApplyInv ==
    ASSUME ValidInv, RowInv, CountInv, WaitInv, ApplyInv, NEW r \in RejudgingId, CreateEnd(r)
    PROVE  ApplyInv'
<1>1. /\ rejudging[r].state = "creating" /\ UNCHANGED finish
      /\ \A q \in RejudgingId : q # r => rejudging'[q] = rejudging[q]
  BY CreateEndEffect
<1>2. ASSUME NEW m \in Jury, NEW p \in RejudgingId, Open(p), ~ToBeEnded(p), Applying(m, p)
      PROVE  Open(p)' /\ ~ToBeEnded(p)'
  <2>1. p # r
    BY <1>1, <1>2, IdsType DEF WaitInv, FinishCreated, Applying
  <2> QED  BY <1>1, <1>2, <2>1, CreateEndToBeEnded DEF CountInv, Open, Exists
<1> QED  BY <1>1, <1>2, KeptApplyInv

LEMMA EndFinishApplyInv ==
    ASSUME ValidInv, ApplyInv, NEW m \in Jury, EndFinish(m)
    PROVE  ApplyInv'
<1>1. PICK r \in RejudgingId : r = finish[m].rejudging
  BY EndFinishRows
<1>2. /\ \A q \in RejudgingId : q # r => rejudging'[q] = rejudging[q]
      /\ \A q \in RejudgingId : /\ rejudging'[q].state = rejudging[q].state
                                /\ rejudging'[q].first = rejudging[q].first
      /\ finish'[m].rejudging = 0 /\ \A n \in Jury : n # m => finish'[n] = finish[n]
  BY <1>1, EndFinishRows
<1>3. ASSUME NEW n \in Jury, NEW p \in RejudgingId, Open(p), ~ToBeEnded(p), Applying(n, p),
             finish'[n].rejudging = p
      PROVE  Open(p)' /\ ~ToBeEnded(p)'
  <2>1. p # r
    BY <1>1, <1>2, <1>3, IdsType DEF ApplyInv, FinishOnce, Applying
  <2> QED  BY <1>2, <1>3, <2>1, StillToBeEnded DEF Open, Exists
<1>4. \A n \in Jury, p \in RejudgingId : finish'[n].rejudging = p =>
          finish[n].rejudging = p /\ finish'[n].apply = finish[n].apply
  BY <1>2, IdsType
<1> QED  BY <1>3, <1>4, KeptApplyInv

LEMMA StartFinishApplyInv ==
    ASSUME JuryWaits, ValidInv, CountInv, ApplyInv, NEW m \in Jury, NEW r \in RejudgingId,
           NEW apply \in BOOLEAN, StartFinish(m, r, apply)
    PROVE  ApplyInv'
<1>1. /\ Open(r) /\ (apply => Todo(r) = {}) /\ rejudging[r].state = "created" /\ ~Finishing(r)
      /\ apply => \A j \in JudgingsOf(r) : handler[j] \in {"work", "over"}
      /\ finish'[m].rejudging = r /\ finish'[m].apply = apply
      /\ \A n \in Jury : n # m => finish'[n] = finish[n]
      /\ UNCHANGED rejudging
  BY StartFinishEffect
<1>2. apply => ~ToBeEnded(r)
  BY <1>1 DEF CountInv, SomeoneCounts, JudgingsOf
<1>3. \A p \in RejudgingId : (Open(p)' <=> Open(p)) /\ (ToBeEnded(p)' <=> ToBeEnded(p))
  BY <1>1 DEF Open, Exists, ToBeEnded, RepetitionDue
<1>4. FinishOnce'
  BY <1>1 DEF ApplyInv, FinishOnce, Finishing
<1>5. ApplyingOpen'
  BY <1>1, <1>2, <1>3 DEF ApplyInv, ApplyingOpen, Applying
<1> QED  BY <1>4, <1>5 DEF ApplyInv

LEMMA NextApplyInv ==
    ASSUME JuryWaits, ValidInv, RowInv, CountInv, WaitInv, ApplyInv,
           [RejudgingNext]_rejudgingVars
    PROVE  ApplyInv'
<1>0. ASSUME UNCHANGED rejudging,
             \A m \in Jury : /\ finish'[m].rejudging = finish[m].rejudging
                             /\ finish'[m].apply = finish[m].apply
      PROVE  ApplyInv'
  <2>1. \A p \in RejudgingId : (Open(p)' <=> Open(p)) /\ (ToBeEnded(p)' <=> ToBeEnded(p))
    BY <1>0 DEF Open, Exists, ToBeEnded, RepetitionDue
  <2> QED  BY <1>0, <2>1, KeptApplyInv
<1>1. CASE UNCHANGED rejudgingVars
  BY <1>0, <1>1 DEF rejudgingVars
<1>2. ASSUME NEW j \in JudgingId, HandlerStep(j) PROVE ApplyInv'
  <2>1. CASE QuietHandlerStep(j)
    BY <2>1, HandlersGoOn, HandlerApplyInv
  <2>2. ASSUME NEW next \in Progress, NEW r \in RejudgingId, Repeat(j, r, next) PROVE ApplyInv'
    <3>1. Repetition(j, r)
      BY <2>2, RepeatRows
    <3>2. /\ NextId(r) /\ UNCHANGED finish
          /\ \A q \in RejudgingId : q # r => rejudging'[q] = rejudging[q]
      BY <3>1 DEF Repetition
    <3> QED  BY <3>2, NewRowApplyInv
  <2>3. ASSUME NEW r \in RejudgingId, CompileRepeat(j, r) PROVE ApplyInv'
    BY <2>3, CompileRepeatRows, CompileRepeatApplyInv
  <2> QED  BY <1>2, <2>1, <2>2, <2>3 DEF HandlerStep, QuietHandlerStep
<1>3. ASSUME NEW r \in RejudgingId, CreateStep(r) PROVE ApplyInv'
  <2>1. ASSUME NEW s \in Submission, CreateJudging(r, s) PROVE ApplyInv'
    <3>1. UNCHANGED <<rejudging, finish>>
      BY <2>1, CreateJudgingEffect
    <3> QED  BY <1>0, <3>1
  <2> QED  BY <1>3, <2>1, CreateEndApplyInv DEF CreateStep
<1>4. ASSUME NEW r \in RejudgingId, NEW S \in SUBSET Submission, NEW k \in Kinds,
             Create(r, S, k[1], k[2])
      PROVE  ApplyInv'
  <2>1. Creation(r, S, k[1])
    BY <1>4, KindType, CreateEffect
  <2>2. /\ NextId(r) /\ UNCHANGED finish
        /\ \A q \in RejudgingId : q # r => rejudging'[q] = rejudging[q]
    BY <2>1 DEF Creation
  <2> QED  BY <2>2, NewRowApplyInv
<1>5. ASSUME NEW m \in Jury, NEW s \in Submission, Apply(m, s) \/ Cancel(m, s) PROVE ApplyInv'
  <2>1. /\ UNCHANGED rejudging
        /\ \A n \in Jury : /\ finish'[n].rejudging = finish[n].rejudging
                           /\ finish'[n].apply = finish[n].apply
    BY <1>5, FinishOneEffect
  <2> QED  BY <1>0, <2>1
<1> QED
  BY <1>1, <1>2, <1>3, <1>4, <1>5, EndFinishApplyInv, StartFinishApplyInv
  DEF RejudgingNext, FinishStep
-----------------------------------------------------------------------------
(* Submissions in one rejudging at a time.  Those that a creation will add, *)
(* those a rejudging has or will have, and rejudgings that may still change *)
(* what is in effect for a submission or hand it over to a repetition.      *)
Pend(r) == creating[r] \ taken[r]
Hold(r) == Subs(r) \union Pend(r)

Live(r) == Open(r) /\ ~rejudging[r].autoApply

Active(r) ==
    \/ Live(r)
    \/ \E j \in Busy : j[2] = r
    \/ /\ Exists(r) /\ rejudging[r].autoApply
       /\ rejudging[r].state = "creating" \/ \E j \in judgings : j[2] = r /\ handler[j] # "over"

(* Active rejudgings hold different submissions, and none that has been     *)
(* rejudged in a later rejudging.                                           *)
ActiveApart ==
    \A q, r \in RejudgingId, s \in Submission :
        Active(q) /\ Active(r) /\ s \in Hold(q) /\ s \in Hold(r) => q = r

NoneLater ==
    \A q, r \in RejudgingId, s \in Submission :
        Active(q) /\ s \in Hold(q) /\ s \in Subs(r) => r <= q

(* The submissions of a rejudging that the jury has not decided about       *)
(* belong to it, and those to be added to one belong to none.               *)
LiveAssociated ==
    \A r \in RejudgingId : Live(r) /\ ~Finishing(r) => \A s \in Subs(r) : rejudgingid[s] = r

PendingFree ==
    \A r \in RejudgingId : \A s \in Pend(r) : rejudgingid[s] = 0

HoldInv == ActiveApart /\ NoneLater /\ LiveAssociated /\ PendingFree

LEMMA HoldType ==
    ASSUME ValidInv, NEW r \in RejudgingId
    PROVE  Hold(r) \subseteq Submission /\ Subs(r) \subseteq Submission /\ Subs(r) \subseteq Hold(r)
           /\ Pend(r) \subseteq Hold(r)
  BY DEF Hold, Subs, Pend, ValidInv, RejudgingTypeOK

LEMMA CreatingActive ==
    ASSUME ValidInv, RowInv, WaitInv, NEW r \in RejudgingId,
           rejudging[r].state = "creating" \/ Pend(r) # {}
    PROVE  Active(r) /\ rejudging[r].state = "creating"
<1>1. rejudging[r].state = "creating"
  BY DEF Pend, RowInv, RowsInOrder
<1>2. Open(r) /\ Exists(r)
  BY <1>1 DEF WaitInv, CreatingOpen, Exists, Open
<1> QED  BY <1>1, <1>2 DEF Active, Live

(* A rejudging that a step does not make active.                            *)
LEMMA ActiveStays ==
    ASSUME NEW r \in RejudgingId,
           rejudging'[r].autoApply = rejudging[r].autoApply,
           Exists(r)' => Exists(r), Open(r)' => Open(r),
           rejudging'[r].state = "creating" => rejudging[r].state = "creating",
           \A j \in Busy' : j[2] = r => j \in Busy,
           \A j \in judgings' : j[2] = r /\ handler'[j] # "over" =>
               (j \in judgings /\ handler[j] # "over") \/ rejudging[r].state = "creating"
    PROVE  Active(r)' => Active(r)
  BY DEF Active, Live

(* Steps that make no rejudging active.                                     *)
LEMMA KeptApart ==
    ASSUME ValidInv, HoldInv,
           \A r \in RejudgingId :
               /\ Active(r)' => Active(r)
               /\ Hold(r)' \subseteq Hold(r)
               /\ Subs(r)' \subseteq Subs(r) \/ (Active(r) /\ Subs(r)' \subseteq Hold(r))
    PROVE  ActiveApart' /\ NoneLater'
<1>1. ActiveApart'
  BY DEF HoldInv, ActiveApart
<1>2. NoneLater'
  <2> SUFFICES ASSUME NEW q \in RejudgingId, NEW r \in RejudgingId, NEW s \in Submission,
                      Active(q)', s \in Hold(q)', s \in Subs(r)'
               PROVE  r <= q
    BY DEF NoneLater
  <2>1. Active(q) /\ s \in Hold(q)
    OBVIOUS
  <2>2. CASE s \in Subs(r)
    BY <2>1, <2>2 DEF HoldInv, NoneLater
  <2>3. CASE Active(r) /\ s \in Hold(r)
    <3>1. q = r
      BY <2>1, <2>3 DEF HoldInv, ActiveApart
    <3> QED  BY <3>1, RejudgingAssumption DEF RejudgingId
  <2> QED  BY <2>2, <2>3
<1> QED  BY <1>1, <1>2

(* Steps that create rejudging o.                                           *)
LEMMA NewApart ==
    ASSUME ValidInv, RowInv, HoldInv, NEW o \in RejudgingId, NextId(o), Subs(o)' \subseteq Hold(o)',
           \A p \in RejudgingId : p # o =>
               /\ Active(p)' => Active(p)
               /\ Hold(p)' \subseteq Hold(p)
               /\ Subs(p)' \subseteq Subs(p)
               /\ Active(p)' => Hold(p) \intersect Hold(o)' = {}
    PROVE  ActiveApart' /\ NoneLater'
<1>1. ActiveApart'
  BY DEF HoldInv, ActiveApart
<1>2. NoneLater'
  <2> SUFFICES ASSUME NEW q \in RejudgingId, NEW r \in RejudgingId, NEW s \in Submission,
                      Active(q)', s \in Hold(q)', s \in Subs(r)'
               PROVE  r <= q
    BY DEF NoneLater
  <2>1. CASE q # o
    <3>1. r # o
      BY <2>1
    <3> QED  BY <2>1, <3>1 DEF HoldInv, NoneLater
  <2>2. CASE q = o /\ r = o
    BY <2>2, RejudgingAssumption DEF RejudgingId
  <2>3. CASE q = o /\ r # o
    <3>1. Exists(r)
      BY <2>3 DEF RowInv, RowsInOrder
    <3>2. ~(o < r)
      BY <3>1 DEF RowInv, RowsInOrder, NextId, Exists
    <3> QED  BY <2>3, <3>2, RejudgingAssumption DEF RejudgingId
  <2> QED  BY <2>1, <2>2, <2>3
<1> QED  BY <1>1, <1>2

LEMMA HandlerHoldInv ==
    ASSUME ValidInv, RowInv, HoldInv, NEW j \in JudgingId, HandlerGoesOn(j)
    PROVE  HoldInv'
<1> DEFINE q == j[2]
<1>1. /\ j \in judgings /\ j[1] \in Submission /\ q \in RejudgingId /\ j = <<j[1], q>>
      /\ handler[j] \notin {"none", "over"}
      /\ \A i \in JudgingId : i # j => handler'[i] = handler[i]
      /\ UNCHANGED <<judgings, creating, taken, finish>>
      /\ handler'[j] = "repeat" => handler[j] = "count"
      /\ handler'[j] = "create" => handler[j] = "repeat"
      /\ handler[j] = "count" => EndRejudging(j, handler'[j])
  BY DEF HandlerGoesOn
<1>2. \A r \in RejudgingId : /\ rejudging'[r].state = rejudging[r].state
                             /\ rejudging'[r].autoApply = rejudging[r].autoApply
                             /\ Exists(r)' => Exists(r)
                             /\ Open(r)' => Open(r)
                             /\ Live(r)' => Live(r)
  BY RowGoesOn DEF Open, Exists, Live
<1>3. judgings \subseteq JudgingId /\ Exists(q)
  <2>1. Subs(q) # {}
    BY <1>1 DEF Subs
  <2> QED  BY <1>1, <2>1 DEF ValidInv, RejudgingTypeOK, RowInv, RowsInOrder
<1>4. handler'[j] \in {"repeat", "create"} => Active(q)
  <2>1. CASE handler'[j] = "create"
    BY <1>1, <2>1 DEF Active, Busy
  <2>2. CASE handler'[j] = "repeat"
    <3>1. EndForRepetition(q, Todo(q))
      BY <1>1, <2>2 DEF EndRejudging, After
    <3> QED  BY <3>1 DEF EndForRepetition, RepetitionDue, Active, Live
  <2> QED  BY <2>1, <2>2
<1>5. ASSUME NEW r \in RejudgingId, Active(r)' PROVE Active(r)
  <2>1. CASE Live(r)'
    BY <1>2, <2>1 DEF Active
  <2>2. ASSUME NEW i \in Busy', i[2] = r PROVE Active(r)
    <3>1. i \in judgings /\ i \in JudgingId /\ handler'[i] \in {"repeat", "create"}
      BY <1>1, <1>3, <2>2 DEF Busy
    <3>2. CASE i = j
      BY <1>4, <2>2, <3>1, <3>2
    <3>3. CASE i # j
      BY <1>1, <2>2, <3>1, <3>3 DEF Active, Busy
    <3> QED  BY <3>2, <3>3
  <2>3. CASE Exists(r)' /\ rejudging'[r].autoApply /\ rejudging'[r].state = "creating"
    BY <1>2, <2>3 DEF Active
  <2>4. ASSUME Exists(r)', rejudging'[r].autoApply, NEW i \in judgings', i[2] = r,
               handler'[i] # "over"
        PROVE  Active(r)
    <3>1. i \in judgings /\ i \in JudgingId /\ handler[i] # "over"
      BY <1>1, <1>3, <2>4
    <3> QED  BY <1>2, <2>4, <3>1 DEF Active
  <2> QED  BY <1>5, <2>1, <2>2, <2>3, <2>4 DEF Active
<1>6. \A r \in RejudgingId : Subs(r)' = Subs(r) /\ Pend(r)' = Pend(r) /\ Hold(r)' = Hold(r)
  BY <1>1 DEF Subs, Pend, Hold
<1>7. ActiveApart' /\ NoneLater'
  BY <1>5, <1>6, KeptApart
<1>8. \A t \in Submission :
          \/ rejudgingid'[t] = rejudgingid[t]
          \/ /\ rejudgingid'[t] = 0
             /\ \/ t = j[1] /\ rejudging[q].autoApply
                \/ handler[j] = "repeat" /\ rejudgingid[t] = q
  BY DEF HandlerGoesOn
<1>9. PendingFree'
  BY <1>6, <1>8 DEF HoldInv, PendingFree, Pend, ValidInv, RejudgingTypeOK
<1>10. LiveAssociated'
  <2> SUFFICES ASSUME NEW r \in RejudgingId, Live(r)', ~Finishing(r)', NEW t \in Subs(r)
               PROVE  rejudgingid'[t] = r
    BY <1>6 DEF LiveAssociated
  <2>1. Live(r) /\ ~Finishing(r) /\ t \in Submission
    BY <1>1, <1>2 DEF Finishing, Subs
  <2>2. rejudgingid[t] = r
    BY <2>1 DEF HoldInv, LiveAssociated
  <2>3. ~(t = j[1] /\ rejudging[q].autoApply)
    <3> SUFFICES ASSUME t = j[1], rejudging[q].autoApply PROVE FALSE
      OBVIOUS
    <3>1. Active(q) /\ Active(r)
      BY <1>1, <1>3, <2>1 DEF Active
    <3>2. t \in Hold(q) /\ t \in Hold(r)
      BY <1>1 DEF Hold, Subs
    <3>3. q = r
      BY <1>1, <2>1, <3>1, <3>2 DEF HoldInv, ActiveApart
    <3> QED  BY <2>1, <3>3 DEF Live
  <2>4. ~(handler[j] = "repeat" /\ rejudgingid[t] = q)
    <3> SUFFICES ASSUME handler[j] = "repeat", rejudgingid[t] = q PROVE FALSE
      OBVIOUS
    <3>1. rejudging[q].ended
      BY <1>1 DEF RowInv, RepeatingEnded, Busy
    <3> QED  BY <2>1, <2>2, <3>1 DEF Live, Open
  <2> QED  BY <1>8, <2>1, <2>2, <2>3, <2>4
<1> QED  BY <1>7, <1>9, <1>10 DEF HoldInv

LEMMA CreateJudgingHoldInv ==
    ASSUME ValidInv, RowInv, WaitInv, HoldInv, NEW r \in RejudgingId, NEW s \in Submission,
           CreateJudging(r, s)
    PROVE  HoldInv'
<1>1. /\ rejudging[r].state = "creating" /\ s \in creating[r]
      /\ creating'[r] = creating[r] \ {s}
      /\ \A q \in RejudgingId : q # r => creating'[q] = creating[q]
      /\ UNCHANGED <<rejudging, taken, finish>>
  BY CreateJudgingEffect
<1>2. Active(r)
  BY <1>1, CreatingActive
<1>3. judgings \subseteq JudgingId
  BY DEF ValidInv, RejudgingTypeOK
<1>4. \A q \in RejudgingId : (Open(q)' <=> Open(q)) /\ (Exists(q)' <=> Exists(q))
                             /\ (Live(q)' <=> Live(q)) /\ (Finishing(q)' <=> Finishing(q))
  BY <1>1 DEF Open, Exists, Live, Finishing
<1>5. CASE s \in taken[r] /\ UNCHANGED <<rejudgingid, judgings, handler>>
  <2>1. \A q \in RejudgingId : Subs(q)' = Subs(q) /\ Pend(q)' = Pend(q) /\ Hold(q)' = Hold(q)
    BY <1>1, <1>5 DEF Subs, Pend, Hold
  <2>2. ASSUME NEW q \in RejudgingId PROVE Active(q)' => Active(q)
    BY <1>1, <1>4, <1>5, ActiveStays DEF Busy
  <2>3. ActiveApart' /\ NoneLater'
    BY <2>1, <2>2, KeptApart
  <2>4. LiveAssociated' /\ PendingFree'
    BY <1>4, <1>5, <2>1 DEF HoldInv, LiveAssociated, PendingFree
  <2> QED  BY <2>3, <2>4 DEF HoldInv
<1>6. CASE /\ s \notin taken[r]
           /\ rejudgingid'[s] = IF rejudgingid[s] = 0 THEN r ELSE rejudgingid[s]
           /\ \A t \in Submission : t # s => rejudgingid'[t] = rejudgingid[t]
           /\ judgings' = judgings \union {<<s, r>>}
           /\ handler'[<<s, r>>] = "queued"
           /\ \A i \in JudgingId : i # <<s, r>> => handler'[i] = handler[i]
  <2>1. s \in Pend(r) /\ s \in Hold(r)
    BY <1>1, <1>6 DEF Pend, Hold
  <2>2. Subs(r)' = Subs(r) \union {s} /\ Pend(r)' = Pend(r) \ {s}
    BY <1>1, <1>6 DEF Subs, Pend
  <2>3. \A q \in RejudgingId : q # r => Subs(q)' = Subs(q) /\ Pend(q)' = Pend(q)
    BY <1>1, <1>6 DEF Subs, Pend
  <2>4. \A q \in RejudgingId : Hold(q)' \subseteq Hold(q)
    BY <2>1, <2>2, <2>3 DEF Hold
  <2>5. Subs(r)' \subseteq Hold(r)
    BY <2>1, <2>2 DEF Hold
  <2>6. ASSUME NEW q \in RejudgingId PROVE Active(q)' => Active(q)
    <3>1. \A i \in Busy' : i \in Busy
      BY <1>3, <1>6 DEF Busy
    <3>2. \A i \in judgings' : i[2] = q /\ handler'[i] # "over" =>
              (i \in judgings /\ handler[i] # "over") \/ rejudging[q].state = "creating"
      BY <1>1, <1>3, <1>6
    <3> QED  BY <1>1, <1>4, <3>1, <3>2, ActiveStays
  <2>7. ActiveApart' /\ NoneLater'
    BY <1>2, <2>3, <2>4, <2>5, <2>6, KeptApart
  <2>8. rejudgingid[s] = 0 /\ rejudgingid'[s] = r
    BY <1>6, <2>1 DEF HoldInv, PendingFree
  <2>9. PendingFree'
    <3> SUFFICES ASSUME NEW q \in RejudgingId, NEW t \in Pend(q)' PROVE rejudgingid'[t] = 0
      BY DEF PendingFree
    <3>1. t \in Pend(q) /\ t \in Hold(q) /\ t \in Submission
      BY <2>2, <2>3, HoldType
    <3>2. Active(q)
      BY <3>1, CreatingActive
    <3>3. t # s
      BY <1>2, <2>1, <2>2, <3>1, <3>2 DEF HoldInv, ActiveApart
    <3> QED  BY <1>6, <3>1, <3>3 DEF HoldInv, PendingFree
  <2>10. LiveAssociated'
    <3> SUFFICES ASSUME NEW q \in RejudgingId, Live(q), ~Finishing(q), NEW t \in Subs(q)'
                 PROVE  rejudgingid'[t] = q
      BY <1>4 DEF LiveAssociated
    <3>1. CASE t = s
      <4>1. q = r \/ (Active(q) /\ s \in Hold(q))
        BY <2>3, <3>1 DEF Active, Hold
      <4>2. q = r
        BY <1>2, <2>1, <4>1 DEF HoldInv, ActiveApart
      <4> QED  BY <2>8, <3>1, <4>2
    <3>2. CASE t # s
      <4>1. t \in Subs(q) /\ t \in Submission
        BY <2>2, <2>3, <3>2, HoldType
      <4> QED  BY <1>6, <3>2, <4>1 DEF HoldInv, LiveAssociated
    <3> QED  BY <3>1, <3>2
  <2> QED  BY <2>7, <2>9, <2>10 DEF HoldInv
<1> QED  BY <1>5, <1>6, CreateJudgingEffect

LEMMA CreateEndHoldInv ==
    ASSUME ValidInv, HoldInv, NEW r \in RejudgingId, CreateEnd(r)
    PROVE  HoldInv'
<1>1. /\ rejudging[r].state = "creating" /\ creating[r] = {}
      /\ rejudging'[r].state = IF Subs(r) = {} THEN "removed" ELSE "created"
      /\ \A q \in RejudgingId : q # r => rejudging'[q] = rejudging[q] /\ taken'[q] = taken[q]
      /\ \A q \in RejudgingId : /\ rejudging'[q].ended = rejudging[q].ended
                                /\ rejudging'[q].autoApply = rejudging[q].autoApply
      /\ UNCHANGED <<rejudgingid, judgings, handler, creating, finish>>
  BY CreateEndEffect
<1>2. \A q \in RejudgingId : /\ rejudging'[q].state = "creating" => rejudging[q].state = "creating"
                             /\ Exists(q)' => Exists(q)
                             /\ Open(q)' => Open(q)
                             /\ Live(q)' => Live(q)
                             /\ Finishing(q)' <=> Finishing(q)
  BY <1>1 DEF Exists, Open, Live, Finishing
<1>3. \A q \in RejudgingId : Subs(q)' = Subs(q) /\ Pend(q)' = Pend(q) /\ Hold(q)' = Hold(q)
  BY <1>1 DEF Subs, Pend, Hold
<1>4. ASSUME NEW q \in RejudgingId PROVE Active(q)' => Active(q)
  BY <1>1, <1>2, ActiveStays DEF Busy
<1>5. ActiveApart' /\ NoneLater'
  BY <1>3, <1>4, KeptApart
<1>6. LiveAssociated' /\ PendingFree'
  BY <1>1, <1>2, <1>3 DEF HoldInv, LiveAssociated, PendingFree
<1> QED  BY <1>5, <1>6 DEF HoldInv

(* The jury creates a rejudging when all others that are active hold        *)
(* submissions that belong to them.                                         *)
LEMMA CreateHoldInv ==
    ASSUME JuryWaits, ValidInv, RowInv, HoldInv, NEW r \in RejudgingId, NEW S \in SUBSET Submission,
           NEW auto, Creation(r, S, auto)
    PROVE  HoldInv'
<1>1. /\ NextId(r) /\ creating'[r] = S /\ taken'[r] = {s \in S : rejudgingid[s] # 0}
      /\ \A q \in RejudgingId : q # r =>
             rejudging'[q] = rejudging[q] /\ creating'[q] = creating[q] /\ taken'[q] = taken[q]
      /\ UNCHANGED <<rejudgingid, judgings, handler, finish>>
  BY DEF Creation
<1>2. \A q \in RejudgingId :
          /\ rejudging[q].state # "creating" /\ ~Finishing(q)
          /\ ~(rejudging[q].autoApply /\ AtWork(q))
          /\ \A j \in JudgingsOf(q) : handler[j] \notin {"repeat", "create"}
  BY DEF Creation
<1>3. Subs(r) = {}
  BY <1>1 DEF NextId, Exists, RowInv, RowsInOrder
<1>4. \A q \in RejudgingId : q # r =>
          /\ Subs(q)' = Subs(q) /\ Pend(q)' = Pend(q) /\ Hold(q)' = Hold(q)
          /\ (Live(q)' <=> Live(q)) /\ (Exists(q)' <=> Exists(q)) /\ (Open(q)' <=> Open(q))
  BY <1>1 DEF Subs, Pend, Hold, Live, Open, Exists
<1>5. Subs(r)' = {} /\ Pend(r)' = {s \in S : rejudgingid[s] = 0} /\ Hold(r)' = Pend(r)'
  BY <1>1, <1>3 DEF Subs, Pend, Hold
<1>6. ASSUME NEW q \in RejudgingId, q # r PROVE Active(q)' => Active(q)
  BY <1>1, <1>4, <1>6, ActiveStays DEF Busy
<1>7. ASSUME NEW q \in RejudgingId, Active(q), NEW s \in Hold(q) PROVE rejudgingid[s] # 0
  <2>1. Live(q)
    BY <1>2, <1>7 DEF Active, Busy, JudgingsOf, AtWork
  <2>2. s \in Subs(q)
    BY <1>2, <1>7 DEF Hold, Pend, RowInv, RowsInOrder
  <2> QED  BY <1>2, <2>1, <2>2, IdsType DEF HoldInv, LiveAssociated
<1>8. ActiveApart' /\ NoneLater'
  BY <1>1, <1>4, <1>5, <1>6, <1>7, NewApart
<1>9. \A q \in RejudgingId : Finishing(q)' <=> Finishing(q)
  BY <1>1 DEF Finishing
<1>10. LiveAssociated'
  BY <1>1, <1>4, <1>5, <1>9 DEF HoldInv, LiveAssociated
<1>11. PendingFree'
  BY <1>1, <1>4, <1>5 DEF HoldInv, PendingFree
<1> QED  BY <1>8, <1>10, <1>11 DEF HoldInv

LEMMA RepeatHoldInv ==
    ASSUME ValidInv, RowInv, HoldInv, NEW j \in JudgingId, NEW r \in RejudgingId, Repetition(j, r)
    PROVE  HoldInv'
<1> DEFINE q == j[2]
<1>1. /\ j \in judgings /\ q \in RejudgingId /\ q # r
      /\ rejudging[q].ended /\ ~rejudging[q].autoApply /\ NextId(r) /\ Subs(r) = {}
      /\ handler[j] = "create" /\ handler'[j] \in {"work", "over"}
      /\ \A i \in JudgingId : i # j => handler'[i] = handler[i]
  BY DEF Repetition
<1>2. /\ creating'[r] = Subs(q) /\ taken'[r] = {s \in Subs(q) : rejudgingid[s] # 0}
      /\ \A p \in RejudgingId : p # r =>
             rejudging'[p] = rejudging[p] /\ creating'[p] = creating[p] /\ taken'[p] = taken[p]
      /\ UNCHANGED <<rejudgingid, judgings, finish>>
  BY DEF Repetition
<1>3. \A p \in RejudgingId : p # r =>
          /\ Subs(p)' = Subs(p) /\ Pend(p)' = Pend(p) /\ Hold(p)' = Hold(p)
          /\ (Live(p)' <=> Live(p)) /\ (Exists(p)' <=> Exists(p)) /\ (Open(p)' <=> Open(p))
  BY <1>2 DEF Subs, Pend, Hold, Live, Open, Exists
<1>4. Subs(r)' = {} /\ Pend(r)' = {s \in Subs(q) : rejudgingid[s] = 0} /\ Hold(r)' = Pend(r)'
  BY <1>1, <1>2 DEF Subs, Pend, Hold
<1>5. judgings \subseteq JudgingId
  BY DEF ValidInv, RejudgingTypeOK
<1>6. Busy' \subseteq Busy \ {j}
  BY <1>1, <1>2, <1>5 DEF Busy
<1>7. ASSUME NEW p \in RejudgingId, p # r PROVE Active(p)' => Active(p)
  <2>1. \A i \in judgings' : handler'[i] # "over" => i \in judgings /\ handler[i] # "over"
    BY <1>1, <1>2, <1>5
  <2> QED  BY <1>2, <1>3, <1>6, <1>7, <2>1, ActiveStays
<1>8. Active(q)
  BY <1>1 DEF Active, Busy
<1>9. ~Active(q)'
  <2>1. PICK f \in RejudgingId : f = rejudging[q].first
    BY <1>1, RowType DEF RowInv, RepeatingEnded, Busy
  <2>2. \A i \in Busy : i[2] = q => i = j
    <3>1. \A i \in Busy : i[2] = q => i \in Repeating(f)
      BY <2>1 DEF Busy, Repeating
    <3>2. j \in Repeating(f)
      BY <1>1, <2>1 DEF Repeating
    <3> QED  BY <3>1, <3>2 DEF RowInv, OneActive
  <2>3. ~Live(q)' /\ ~rejudging'[q].autoApply
    BY <1>1, <1>2 DEF Live, Open
  <2> QED  BY <1>6, <2>2, <2>3 DEF Active
<1>10. ASSUME NEW p \in RejudgingId, p # r, Active(p)' PROVE Hold(p) \intersect Hold(r)' = {}
  <2>1. p # q /\ Active(p)
    BY <1>7, <1>9, <1>10
  <2>2. Hold(r)' \subseteq Hold(q) /\ Hold(q) \subseteq Submission
    BY <1>1, <1>4, HoldType
  <2> QED  BY <1>1, <1>8, <2>1, <2>2 DEF HoldInv, ActiveApart
<1>11. ActiveApart' /\ NoneLater'
  BY <1>1, <1>3, <1>4, <1>7, <1>10, NewApart
<1>12. \A p \in RejudgingId : Finishing(p)' <=> Finishing(p)
  BY <1>2 DEF Finishing
<1>13. LiveAssociated'
  BY <1>2, <1>3, <1>4, <1>12 DEF HoldInv, LiveAssociated
<1>14. PendingFree'
  BY <1>2, <1>3, <1>4 DEF HoldInv, PendingFree
<1> QED  BY <1>11, <1>13, <1>14 DEF HoldInv

LEMMA CompileRepeatHoldInv ==
    ASSUME ValidInv, RowInv, JudgedInv, WaitInv, HoldInv, NEW j \in JudgingId,
           NEW r \in RejudgingId, CompileRepetition(j, r)
    PROVE  HoldInv'
<1> DEFINE q == j[2]
<1>1. /\ j \in judgings /\ j[1] \in Submission /\ q \in RejudgingId /\ j = <<j[1], q>>
      /\ q # r /\ Open(q) /\ ~rejudging[q].autoApply /\ handler[j] = "compile"
      /\ NextId(r) /\ Subs(r) = {} /\ creating[r] = {}
      /\ RepetitionDue(q, TodoInTransaction(j))
      /\ rejudging'[q].ended /\ rejudging'[q].autoApply = FALSE
      /\ \A p \in RejudgingId \ {q, r} : rejudging'[p] = rejudging[p]
  BY DEF CompileRepetition
<1>2. /\ \A t \in Submission :
             rejudgingid'[t] = IF t \in Repeated(q) THEN r
                               ELSE IF rejudgingid[t] = q THEN 0 ELSE rejudgingid[t]
      /\ judgings' = judgings \union (Repeated(q) \X {r})
      /\ Repeated(q) \subseteq Subs(q) /\ Subs(r)' = Repeated(q)
      /\ \A p \in RejudgingId \ {r} : Subs(p)' = Subs(p)
      /\ \A i \in JudgingId : handler'[i] = IF i = j THEN "over"
             ELSE IF i \in Repeated(q) \X {r} THEN "queued" ELSE handler[i]
      /\ UNCHANGED <<creating, taken, finish>>
  BY DEF CompileRepetition
<1>3. judgings \subseteq JudgingId /\ Repeated(q) \X {r} \subseteq JudgingId
  <2>1. judgings \subseteq JudgingId /\ Repeated(q) \subseteq Submission
    BY <1>2 DEF ValidInv, RejudgingTypeOK, Subs
  <2>2. r \in 0..NumRejudgings
    BY IdsType
  <2> QED  BY <2>1, <2>2, JudgingPair
<1>4. \A i \in judgings' : handler'[i] # "over" =>
          \/ i \in Repeated(q) \X {r} /\ handler'[i] = "queued"
          \/ i \in judgings /\ handler[i] = handler'[i]
  BY <1>2, <1>3
<1>5. Busy' \subseteq Busy
  BY <1>4 DEF Busy
<1>6. \A p \in RejudgingId : Pend(p)' = Pend(p)
  BY <1>2 DEF Pend
<1>7. \A p \in RejudgingId : p # r => Hold(p)' = Hold(p)
  BY <1>2, <1>6 DEF Hold
<1>8. Hold(r)' = Repeated(q)
  BY <1>1, <1>2, <1>6 DEF Hold, Pend
<1>9. Live(q) /\ Active(q) /\ Hold(q) \subseteq Submission /\ Repeated(q) \subseteq Hold(q)
  BY <1>1, <1>2, HoldType DEF Live, Active
<1>10. ~Active(q)' /\ ~Live(q)'
  <2>1. PICK f \in RejudgingId : f = rejudging[q].first
    BY <1>1, RowType DEF RepetitionDue, RowInv, RowsInOrder
  <2>2. q \in Chain(f)
    BY <1>1, <2>1 DEF Chain, Open
  <2>3. Repeating(f) = {}
    BY <1>1, <2>2 DEF RowInv, OneActive
  <2>4. \A i \in Busy : i[2] # q
    BY <2>1, <2>3 DEF Busy, Repeating
  <2>5. ~Live(q)' /\ ~rejudging'[q].autoApply
    BY <1>1 DEF Live, Open
  <2> QED  BY <1>5, <2>4, <2>5 DEF Active
<1>11. ASSUME NEW p \in RejudgingId, p # r, p # q
       PROVE  /\ (Live(p)' <=> Live(p)) /\ (Finishing(p)' <=> Finishing(p))
              /\ Active(p)' => Active(p)
  <2>1. rejudging'[p] = rejudging[p]
    BY <1>1, <1>11
  <2>2. (Live(p)' <=> Live(p)) /\ (Exists(p)' <=> Exists(p)) /\ (Open(p)' <=> Open(p))
    BY <2>1 DEF Live, Open, Exists
  <2>3. \A i \in judgings' : i[2] = p /\ handler'[i] # "over" => i \in judgings /\ handler[i] # "over"
    BY <1>4, <1>11
  <2>4. Active(p)' => Active(p)
    BY <1>5, <2>1, <2>2, <2>3, ActiveStays
  <2> QED  BY <1>2, <2>2, <2>4 DEF Finishing
<1>12. ASSUME NEW p \in RejudgingId, p # q, Active(p) PROVE Hold(p) \intersect Repeated(q) = {}
  BY <1>1, <1>9, <1>12 DEF HoldInv, ActiveApart
<1>13. ActiveApart' /\ NoneLater'
  <2>1. Subs(r)' \subseteq Hold(r)'
    BY <1>2, <1>8
  <2>2. ASSUME NEW p \in RejudgingId, p # r
        PROVE  /\ Active(p)' => Active(p)
               /\ Hold(p)' \subseteq Hold(p) /\ Subs(p)' \subseteq Subs(p)
               /\ Active(p)' => Hold(p) \intersect Hold(r)' = {}
    BY <1>2, <1>7, <1>8, <1>10, <1>11, <1>12, <2>2
  <2> QED  BY <1>1, <2>1, <2>2, NewApart
<1>14. LiveAssociated'
  <2> SUFFICES ASSUME NEW p \in RejudgingId, Live(p)', ~Finishing(p)', NEW t \in Subs(p)'
               PROVE  rejudgingid'[t] = p
    BY DEF LiveAssociated
  <2>1. CASE p = r
    BY <1>2, <1>9, <2>1
  <2>2. CASE p # r
    <3>1. p # q /\ Live(p) /\ ~Finishing(p) /\ t \in Subs(p)
      BY <1>2, <1>10, <1>11, <2>2
    <3>2. rejudgingid[t] = p /\ Active(p) /\ t \in Hold(p) /\ t \in Submission
      BY <3>1, HoldType DEF HoldInv, LiveAssociated, Active
    <3> QED  BY <1>2, <1>12, <3>1, <3>2
  <2> QED  BY <2>1, <2>2
<1>15. PendingFree'
  <2> SUFFICES ASSUME NEW p \in RejudgingId, NEW t \in Pend(p) PROVE rejudgingid'[t] = 0
    BY <1>6 DEF PendingFree
  <2>1. Active(p) /\ rejudging[p].state = "creating" /\ t \in Hold(p) /\ t \in Submission
    BY CreatingActive, HoldType
  <2>2. p # q
    BY <1>1, <2>1 DEF JudgedInv, NotYetJudged, Subs
  <2>3. rejudgingid[t] = 0 /\ t \notin Repeated(q)
    BY <1>12, <2>1, <2>2 DEF HoldInv, PendingFree
  <2> QED  BY <1>2, <2>1, <2>3
<1> QED  BY <1>13, <1>14, <1>15 DEF HoldInv

(* Applying releases a submission, cancelling one that belongs to the       *)
(* rejudging.                                                               *)
LEMMA FinishReleases ==
    ASSUME NEW m \in Jury, NEW s \in Submission, Apply(m, s) \/ Cancel(m, s), ValidInv
    PROVE  \/ rejudgingid'[s] = rejudgingid[s]
           \/ rejudgingid[s] = finish[m].rejudging
           \/ finish[m].apply
  BY DEF Apply, Cancel, ValidInv, RejudgingTypeOK

LEMMA FinishHoldInv ==
    ASSUME ValidInv, WaitInv, ApplyInv, HoldInv, NEW m \in Jury, NEW s \in Submission,
           Apply(m, s) \/ Cancel(m, s)
    PROVE  HoldInv'
<1>1. PICK r \in RejudgingId : r = finish[m].rejudging
  BY FinishOneEffect
<1>2. /\ s \in finish[m].submissions /\ <<s, r>> \in judgings
      /\ \A n \in Jury : finish'[n].rejudging = finish[n].rejudging
      /\ rejudgingid'[s] \in {0, rejudgingid[s]}
      /\ \A t \in Submission : t # s => rejudgingid'[t] = rejudgingid[t]
      /\ UNCHANGED <<rejudging, judgings, creating, taken>>
      /\ \A i \in JudgingId :
             handler'[i] = handler[i] \/ (handler[i] = "queued" /\ handler'[i] = "over")
  BY <1>1, FinishOneEffect
<1>3. judgings \subseteq JudgingId
  BY DEF ValidInv, RejudgingTypeOK
<1>4. \A p \in RejudgingId :
          /\ Subs(p)' = Subs(p) /\ Pend(p)' = Pend(p) /\ Hold(p)' = Hold(p)
          /\ (Live(p)' <=> Live(p)) /\ (Exists(p)' <=> Exists(p)) /\ (Open(p)' <=> Open(p))
          /\ Finishing(p)' <=> Finishing(p)
  BY <1>2 DEF Subs, Pend, Hold, Live, Open, Exists, Finishing
<1>5. ASSUME NEW p \in RejudgingId PROVE Active(p)' => Active(p)
  <2>1. Busy' \subseteq Busy
    BY <1>2, <1>3 DEF Busy
  <2>2. \A i \in judgings' : handler'[i] # "over" => i \in judgings /\ handler[i] # "over"
    BY <1>2, <1>3
  <2> QED  BY <1>2, <1>4, <2>1, <2>2, ActiveStays
<1>6. ActiveApart' /\ NoneLater'
  BY <1>4, <1>5, KeptApart
<1>7. PendingFree'
  BY <1>2, <1>4, HoldType DEF HoldInv, PendingFree
<1>8. LiveAssociated'
  <2> SUFFICES ASSUME NEW p \in RejudgingId, Live(p), ~Finishing(p), NEW t \in Subs(p)
               PROVE  rejudgingid'[t] = p
    BY <1>4 DEF LiveAssociated
  <2>1. rejudgingid[t] = p /\ p # r /\ t \in Submission
    BY <1>1, HoldType DEF HoldInv, LiveAssociated, Finishing
  <2>2. CASE t # s
    BY <1>2, <2>1, <2>2
  <2>3. CASE t = s
    <3>1. ~finish[m].apply
      <4> SUFFICES ASSUME finish[m].apply PROVE FALSE
        OBVIOUS
      <4>1. Open(r) /\ ~rejudging[r].autoApply
        BY <1>1, IdsType DEF ApplyInv, ApplyingOpen, Applying, WaitInv, FinishCreated
      <4>2. Active(r) /\ Active(p) /\ s \in Hold(r) /\ s \in Hold(p)
        BY <1>2, <2>3, <4>1 DEF Active, Live, Hold, Subs
      <4> QED  BY <2>1, <4>2 DEF HoldInv, ActiveApart
    <3> QED  BY <1>1, <2>1, <2>3, <3>1, FinishReleases
  <2> QED  BY <2>2, <2>3
<1> QED  BY <1>6, <1>7, <1>8 DEF HoldInv

LEMMA EndFinishHoldInv ==
    ASSUME ValidInv, HoldInv, NEW m \in Jury, EndFinish(m)
    PROVE  HoldInv'
<1>1. PICK r \in RejudgingId : r = finish[m].rejudging
  BY EndFinishRows
<1>2. /\ rejudging'[r].ended /\ \A q \in RejudgingId : q # r => rejudging'[q] = rejudging[q]
      /\ \A q \in RejudgingId : /\ rejudging'[q].state = rejudging[q].state
                                /\ rejudging'[q].autoApply = rejudging[q].autoApply
      /\ \A n \in Jury : n # m => finish'[n] = finish[n]
      /\ UNCHANGED <<rejudgingid, judgings, handler, creating, taken>>
  BY <1>1, EndFinishRows
<1>3. \A p \in RejudgingId :
          /\ Subs(p)' = Subs(p) /\ Pend(p)' = Pend(p) /\ Hold(p)' = Hold(p)
          /\ (Live(p)' => Live(p) /\ p # r) /\ (Exists(p)' <=> Exists(p)) /\ (Open(p)' => Open(p))
          /\ p # r /\ Finishing(p) => Finishing(p)'
  BY <1>1, <1>2 DEF Subs, Pend, Hold, Live, Open, Exists, Finishing
<1>4. ASSUME NEW p \in RejudgingId PROVE Active(p)' => Active(p)
  BY <1>2, <1>3, ActiveStays DEF Busy
<1>5. ActiveApart' /\ NoneLater'
  BY <1>3, <1>4, KeptApart
<1>6. LiveAssociated' /\ PendingFree'
  BY <1>2, <1>3 DEF HoldInv, LiveAssociated, PendingFree
<1> QED  BY <1>5, <1>6 DEF HoldInv

(* Steps that change what the jury is finishing, if anything.               *)
LEMMA QuietHoldInv ==
    ASSUME ValidInv, HoldInv,
           UNCHANGED <<rejudging, rejudgingid, judgings, handler, creating, taken>>,
           \A r \in RejudgingId : Finishing(r) => Finishing(r)'
    PROVE  HoldInv'
<1>1. \A p \in RejudgingId :
          /\ Subs(p)' = Subs(p) /\ Pend(p)' = Pend(p) /\ Hold(p)' = Hold(p)
          /\ (Live(p)' <=> Live(p)) /\ (Exists(p)' <=> Exists(p)) /\ (Open(p)' <=> Open(p))
  BY DEF Subs, Pend, Hold, Live, Open, Exists
<1>2. ASSUME NEW p \in RejudgingId PROVE Active(p)' => Active(p)
  BY <1>1, ActiveStays DEF Busy
<1>3. ActiveApart' /\ NoneLater'
  BY <1>1, <1>2, KeptApart
<1>4. LiveAssociated' /\ PendingFree'
  BY <1>1 DEF HoldInv, LiveAssociated, PendingFree
<1> QED  BY <1>3, <1>4 DEF HoldInv

LEMMA NextHoldInv ==
    ASSUME JuryWaits, ValidInv, RowInv, JudgedInv, WaitInv, ApplyInv, HoldInv,
           [RejudgingNext]_rejudgingVars
    PROVE  HoldInv'
<1>1. CASE UNCHANGED rejudgingVars
  BY <1>1, QuietHoldInv DEF rejudgingVars, judgingVars, handlerVars, createVars, Finishing
<1>2. ASSUME NEW j \in JudgingId, HandlerStep(j) PROVE HoldInv'
  <2>1. CASE QuietHandlerStep(j)
    BY <2>1, HandlersGoOn, HandlerHoldInv
  <2>2. ASSUME NEW next \in Progress, NEW r \in RejudgingId, Repeat(j, r, next) PROVE HoldInv'
    BY <2>2, RepeatRows, RepeatHoldInv
  <2>3. ASSUME NEW r \in RejudgingId, CompileRepeat(j, r) PROVE HoldInv'
    BY <2>3, CompileRepeatRows, CompileRepeatHoldInv
  <2> QED  BY <1>2, <2>1, <2>2, <2>3 DEF HandlerStep, QuietHandlerStep
<1>3. ASSUME NEW r \in RejudgingId, CreateStep(r) PROVE HoldInv'
  BY <1>3, CreateEndHoldInv, CreateJudgingHoldInv DEF CreateStep
<1>4. ASSUME NEW r \in RejudgingId, NEW S \in SUBSET Submission, NEW k \in Kinds,
             Create(r, S, k[1], k[2])
      PROVE  HoldInv'
  <2>1. Creation(r, S, k[1])
    BY <1>4, KindType, CreateEffect
  <2> QED  BY <2>1, CreateHoldInv
<1>5. ASSUME NEW m \in Jury, NEW r \in RejudgingId, NEW apply \in BOOLEAN, StartFinish(m, r, apply)
      PROVE  HoldInv'
  <2>1. /\ finish[m].rejudging = 0 /\ \A n \in Jury : n # m => finish'[n] = finish[n]
        /\ UNCHANGED <<rejudging, rejudgingid, judgings, handler, creating, taken>>
    BY <1>5, StartFinishEffect
  <2>2. \A p \in RejudgingId : Finishing(p) => Finishing(p)'
    BY <2>1, IdsType DEF Finishing
  <2> QED  BY <2>1, <2>2, QuietHoldInv
<1> QED
  BY <1>1, <1>2, <1>3, <1>4, <1>5, EndFinishHoldInv, FinishHoldInv DEF RejudgingNext, FinishStep

LEMMA InitHoldInv == RejudgingInit => ApplyInv /\ HoldInv
<1> SUFFICES ASSUME RejudgingInit PROVE ApplyInv /\ HoldInv
  OBVIOUS
<1>1. /\ \A r \in RejudgingId : rejudging[r].state = "none" /\ creating[r] = {}
      /\ \A m \in Jury : finish[m].rejudging = 0
  BY DEF RejudgingInit, NoRejudging, NotFinishing
<1>2. \A j \in judgings : handler[j] = "over"
  BY IdsType DEF RejudgingInit, JudgingId
<1>3. \A r \in RejudgingId : ~Active(r) /\ ~Live(r) /\ Pend(r) = {}
  BY <1>1, <1>2 DEF Active, Live, Busy, Open, Exists, Pend
<1>4. ApplyInv
  BY <1>1, IdsType DEF ApplyInv, FinishOnce, ApplyingOpen, Applying
<1> QED
  BY <1>3, <1>4 DEF HoldInv, ActiveApart, NoneLater, LiveAssociated, PendingFree

AllInv ==
    ValidInv /\ RowInv /\ JudgedInv /\ CountInv /\ WaitInv /\ ApplyInv /\ HoldInv

LEMMA AllInvIsInvariant ==
    ASSUME CreationFirst, JuryWaits, ~SnapshotReads PROVE RejudgingSpec => []AllInv
<1>1. AllInv /\ [RejudgingNext]_rejudgingVars => AllInv'
  <2> SUFFICES ASSUME AllInv, [RejudgingNext]_rejudgingVars PROVE AllInv'
    OBVIOUS
  <2>1. ValidInv /\ RowInv /\ JudgedInv /\ CountInv /\ WaitInv /\ ApplyInv /\ HoldInv
    BY DEF AllInv
  <2>2. ValidInv' /\ RowInv'
    BY <2>1, NextValidInv, NextRowInv
  <2> QED
    BY <2>1, <2>2, NextJudgedInv, NextCountInv, NextWaitInv, NextApplyInv, NextHoldInv DEF AllInv
<1>2. RejudgingInit => AllInv
  <2>1. RejudgingInit => CountInv
    BY DEF RejudgingInit, NoRejudging, CountInv, CreatingAlone, SomeoneCounts
  <2> QED
    BY <2>1, InitValidInv, InitRowInv, InitJudgedInv, InitWaitInv, InitHoldInv DEF AllInv
<1> QED  BY <1>1, <1>2, PTL DEF RejudgingSpec

(* No submission is in two rejudgings that the jury has yet to decide       *)
(* about: a creation leaves out what it has read to be in a rejudging, and  *)
(* what it reads stays true until its loop comes to the submission.  It     *)
(* holds when the jury waits for its own requests and for handlers that     *)
(* release submissions, as the code itself checks none of this.             *)
THEOREM SubmissionsInOneRejudging ==
    ASSUME CreationFirst, JuryWaits, ~SnapshotReads PROVE RejudgingSpec => []InOneRejudging
<1>1. AllInv => InOneRejudging
  <2> SUFFICES ASSUME AllInv, NEW r \in RejudgingId, NEW q \in RejudgingId, Undecided(r),
                      Undecided(q), r # q
               PROVE  {j[1] : j \in JudgingsOf(r)} \intersect {j[1] : j \in JudgingsOf(q)} = {}
    BY DEF InOneRejudging
  <2>1. {j[1] : j \in JudgingsOf(r)} = Subs(r) /\ {j[1] : j \in JudgingsOf(q)} = Subs(q)
    BY SubsOfJudgings DEF AllInv, ValidInv
  <2>2. Active(r) /\ Active(q)
    BY DEF Undecided, Active, Live
  <2>3. Subs(r) \intersect Subs(q) = {}
    BY <2>2 DEF AllInv, HoldInv, ActiveApart, Hold, Subs
  <2> QED  BY <2>1, <2>3
<1> QED  BY <1>1, AllInvIsInvariant, PTL
-----------------------------------------------------------------------------
(* What the jury's decision about a rejudging leaves in effect.             *)
Cancelling(m, r) == finish[m].rejudging = r /\ ~finish[m].apply

InEffect(r, s) ==
    \E i \in valid : i[1] = s /\ (i[2] >= r \/ (i[2] # 0 /\ rejudging[i[2]].autoApply))

(* A rejudging that is being cancelled has not been applied, and the        *)
(* judgings of it that are queued will be cancelled.                        *)
CancellingInvalid ==
    \A m \in Jury, r \in RejudgingId : Cancelling(m, r) =>
        /\ rejudging[r].ended => ~rejudging[r].valid
        /\ \A s \in Subs(r) : handler[<<s, r>>] = "queued" => s \in finish[m].submissions

(* A judging becomes valid by an automatic rejudging, or by one that the    *)
(* jury has applied or applies; and what has been applied stays in effect.  *)
ValidOnlyApplied ==
    \A r \in RejudgingId : \A s \in Subs(r) : <<s, r>> \in valid /\ ~rejudging[r].autoApply =>
        (rejudging[r].ended /\ rejudging[r].valid) \/ \E m \in Jury : Applying(m, r)

AppliedInEffect ==
    \A m \in Jury, r \in RejudgingId : Applying(m, r) =>
        \A s \in Subs(r) : s \notin finish[m].submissions => InEffect(r, s)

EndedOutcome ==
    \A r \in RejudgingId : rejudging[r].ended /\ ~rejudging[r].autoApply /\ ~Finishing(r) =>
        \A s \in Subs(r) : /\ rejudging[r].valid => InEffect(r, s)
                           /\ ~rejudging[r].valid => handler[<<s, r>>] # "queued"

QueuedNotDone ==
    \A r \in RejudgingId : \A s \in Subs(r) : handler[<<s, r>>] = "queued" => <<s, r>> \notin endtime

OutcomeInv ==
    CancellingInvalid /\ ValidOnlyApplied /\ AppliedInEffect /\ EndedOutcome /\ QueuedNotDone

LEMMA SubsJudging ==
    ASSUME ValidInv, NEW r \in RejudgingId, NEW s \in Subs(r)
    PROVE  s \in Submission /\ <<s, r>> \in judgings /\ <<s, r>> \in JudgingId
  BY DEF Subs, ValidInv, RejudgingTypeOK

LEMMA ValidType ==
    ASSUME ValidInv, NEW i \in valid, i[2] # 0
    PROVE  i \in judgings /\ i[2] \in RejudgingId /\ Subs(i[2]) # {}
<1>1. i \in judgings /\ i \in JudgingId
  BY DEF ValidInv, RejudgingTypeOK
<1>2. i[1] \in Submission /\ i[2] \in RejudgingId /\ i = <<i[1], i[2]>>
  BY <1>1, JudgingPair, IdsType
<1> QED  BY <1>1, <1>2 DEF Subs

LEMMA StillInEffect ==
    ASSUME ValidInv, UNCHANGED valid, NEW r, NEW s, InEffect(r, s),
           \A p \in RejudgingId : Subs(p) # {} => rejudging'[p].autoApply = rejudging[p].autoApply
    PROVE  InEffect(r, s)'
  BY ValidType DEF InEffect

(* Steps that leave judgings and what the jury finishes alone.              *)
LEMMA KeptOutcomeInv ==
    ASSUME ValidInv, RowInv, OutcomeInv, UNCHANGED <<judgings, valid, endtime, finish>>,
           \A i \in judgings : handler'[i] = "queued" => handler[i] = "queued",
           \A p \in RejudgingId : rejudging[p].state # "none" =>
               /\ rejudging'[p].ended = rejudging[p].ended
               /\ rejudging'[p].valid = rejudging[p].valid
               /\ rejudging'[p].autoApply = rejudging[p].autoApply
    PROVE  OutcomeInv'
<1>1. \A r \in RejudgingId : /\ Subs(r)' = Subs(r) /\ (Finishing(r)' <=> Finishing(r))
                             /\ \A s \in Subs(r) : <<s, r>> \in judgings
                             /\ \A m \in Jury : /\ Applying(m, r)' <=> Applying(m, r)
                                                /\ Cancelling(m, r)' <=> Cancelling(m, r)
  BY DEF Subs, Finishing, Applying, Cancelling
<1>2. /\ \A r \in RejudgingId : Subs(r) # {} => rejudging[r].state # "none"
      /\ \A m \in Jury, r \in RejudgingId : Cancelling(m, r) => rejudging[r].state # "none"
  BY IdsType DEF RowInv, RowsInOrder, Exists, FinishRows, Cancelling
<1>3. ASSUME NEW r \in RejudgingId, NEW s \in Subs(r), InEffect(r, s) PROVE InEffect(r, s)'
  BY <1>2, <1>3, StillInEffect
<1>4. CancellingInvalid'
  BY <1>1, <1>2 DEF OutcomeInv, CancellingInvalid
<1>5. ValidOnlyApplied'
  BY <1>1, <1>2 DEF OutcomeInv, ValidOnlyApplied
<1>6. AppliedInEffect'
  BY <1>1, <1>3 DEF OutcomeInv, AppliedInEffect
<1>7. EndedOutcome'
  BY <1>1, <1>2, <1>3 DEF OutcomeInv, EndedOutcome
<1>8. QueuedNotDone'
  BY <1>1 DEF OutcomeInv, QueuedNotDone
<1> QED  BY <1>4, <1>5, <1>6, <1>7, <1>8 DEF OutcomeInv

LEMMA HandlerInEffect ==
    ASSUME ValidInv, NEW j \in JudgingId, HandlerGoesOn(j), NEW r \in RejudgingId,
           NEW s \in Submission, InEffect(r, s)
    PROVE  InEffect(r, s)'
<1>1. /\ j \in judgings /\ j[2] \in RejudgingId /\ j[2] # 0
      /\ valid' = valid \/ (rejudging[j[2]].autoApply /\ valid' = MadeValid(j))
  BY IdsType DEF HandlerGoesOn
<1>2. \A p \in RejudgingId : rejudging'[p].autoApply = rejudging[p].autoApply
  BY RowGoesOn
<1>3. CASE valid' = valid
  BY <1>2, <1>3, StillInEffect
<1>4. CASE rejudging[j[2]].autoApply /\ valid' = MadeValid(j) /\ s = j[1]
  BY <1>1, <1>2, <1>4 DEF InEffect, MadeValid
<1>5. CASE valid' = MadeValid(j) /\ s # j[1]
  <2>1. PICK i \in valid : i[1] = s /\ (i[2] >= r \/ (i[2] # 0 /\ rejudging[i[2]].autoApply))
    BY DEF InEffect
  <2>2. i \in valid'
    BY <1>5, <2>1 DEF MadeValid, JudgingsFor
  <2> QED  BY <1>2, <2>1, <2>2, ValidType DEF InEffect
<1> QED  BY <1>1, <1>3, <1>4, <1>5

LEMMA HandlerOutcomeInv ==
    ASSUME ValidInv, WaitInv, OutcomeInv, NEW j \in JudgingId, HandlerGoesOn(j)
    PROVE  OutcomeInv'
<1> DEFINE q == j[2]
<1>1. /\ j \in judgings /\ j[1] \in Submission /\ q \in RejudgingId /\ j = <<j[1], q>>
      /\ handler'[j] # "queued" /\ \A i \in JudgingId : i # j => handler'[i] = handler[i]
      /\ UNCHANGED <<judgings, finish>>
      /\ endtime' \subseteq endtime \union {j}
      /\ valid' = valid \/ (rejudging[q].autoApply /\ valid' = MadeValid(j))
  BY DEF HandlerGoesOn
<1>2. \A r \in RejudgingId : /\ Subs(r)' = Subs(r) /\ (Finishing(r)' <=> Finishing(r))
                             /\ \A m \in Jury : /\ Applying(m, r)' <=> Applying(m, r)
                                                /\ Cancelling(m, r)' <=> Cancelling(m, r)
  BY <1>1 DEF Subs, Finishing, Applying, Cancelling
<1>3. ASSUME NEW r \in RejudgingId
      PROVE  /\ rejudging'[r].autoApply = rejudging[r].autoApply
             /\ \/ rejudging'[r] = rejudging[r]
                \/ /\ ~rejudging[r].ended /\ rejudging'[r].ended
                   /\ ~rejudging[r].autoApply =>
                          /\ rejudging'[r].valid = FALSE
                          /\ r = q /\ RepetitionDue(q, Todo(q))
  <2>1. rejudging'[r].autoApply = rejudging[r].autoApply
    BY RowGoesOn
  <2>2. CASE r # q
    <3>1. rejudging'[r] = rejudging[r]
      BY <2>2, RowGoesOn
    <3> QED  BY <3>1
  <2>3. CASE r = q
    BY <2>1, <2>3, RowGoesOn DEF Open
  <2> QED  BY <2>2, <2>3
<1>4. \A r \in RejudgingId : \A s \in Subs(r) :
          handler'[<<s, r>>] = "queued" => handler[<<s, r>>] = "queued" /\ <<s, r>> # j
  BY <1>1, SubsJudging
<1>5. CancellingInvalid'
  <2> SUFFICES ASSUME NEW m \in Jury, NEW r \in RejudgingId, Cancelling(m, r)
               PROVE  /\ rejudging'[r].ended => ~rejudging'[r].valid
                      /\ \A s \in Subs(r) : handler'[<<s, r>>] = "queued" => s \in finish[m].submissions
    BY <1>1, <1>2 DEF CancellingInvalid
  <2>1. ~rejudging[r].autoApply
    BY IdsType DEF WaitInv, FinishCreated, Cancelling
  <2> QED  BY <1>3, <1>4, <2>1 DEF OutcomeInv, CancellingInvalid
<1>6. ValidOnlyApplied'
  <2> SUFFICES ASSUME NEW r \in RejudgingId, NEW s \in Subs(r), <<s, r>> \in valid',
                      ~rejudging'[r].autoApply
               PROVE  \/ rejudging'[r].ended /\ rejudging'[r].valid
                      \/ \E m \in Jury : Applying(m, r)
    BY <1>2 DEF ValidOnlyApplied
  <2>1. ~rejudging[r].autoApply
    BY <1>3
  <2>2. <<s, r>> \in valid
    BY <1>1, <2>1 DEF MadeValid
  <2> QED  BY <1>3, <2>1, <2>2 DEF OutcomeInv, ValidOnlyApplied
<1>7. AppliedInEffect'
  <2> SUFFICES ASSUME NEW m \in Jury, NEW r \in RejudgingId, Applying(m, r), NEW s \in Subs(r),
                      s \notin finish[m].submissions
               PROVE  InEffect(r, s)'
    BY <1>1, <1>2 DEF AppliedInEffect
  <2>1. InEffect(r, s) /\ s \in Submission
    BY SubsJudging DEF OutcomeInv, AppliedInEffect
  <2> QED  BY <2>1, HandlerInEffect
<1>8. EndedOutcome'
  <2> SUFFICES ASSUME NEW r \in RejudgingId, rejudging'[r].ended, ~rejudging'[r].autoApply,
                      ~Finishing(r), NEW s \in Subs(r)
               PROVE  /\ rejudging'[r].valid => InEffect(r, s)'
                      /\ ~rejudging'[r].valid => handler'[<<s, r>>] # "queued"
    BY <1>2 DEF EndedOutcome
  <2>1. CASE rejudging'[r] = rejudging[r]
    BY <1>4, <2>1, SubsJudging, HandlerInEffect DEF OutcomeInv, EndedOutcome
  <2>2. CASE rejudging'[r].valid = FALSE /\ r = q /\ RepetitionDue(q, Todo(q))
    <3>1. <<s, r>> \in endtime
      BY <2>2, SubsJudging DEF RepetitionDue, Todo, JudgingsOf
    <3> QED  BY <1>4, <2>2, <3>1 DEF OutcomeInv, QueuedNotDone
  <2> QED  BY <1>3, <2>1, <2>2
<1>9. QueuedNotDone'
  BY <1>1, <1>2, <1>4 DEF OutcomeInv, QueuedNotDone
<1> QED  BY <1>5, <1>6, <1>7, <1>8, <1>9 DEF OutcomeInv

LEMMA CreateJudgingOutcomeInv ==
    ASSUME ValidInv, JudgedInv, WaitInv, RowInv, OutcomeInv, NEW r \in RejudgingId,
           NEW s \in Submission, CreateJudging(r, s)
    PROVE  OutcomeInv'
<1>1. /\ rejudging[r].state = "creating" /\ UNCHANGED <<rejudging, valid, endtime, finish>>
      /\ \/ UNCHANGED <<judgings, handler>>
         \/ /\ judgings' = judgings \union {<<s, r>>} /\ handler'[<<s, r>>] = "queued"
            /\ \A i \in JudgingId : i # <<s, r>> => handler'[i] = handler[i]
  BY CreateJudgingEffect
<1>2. CASE UNCHANGED <<judgings, handler>>
  BY <1>1, <1>2, KeptOutcomeInv
<1>3. CASE /\ judgings' = judgings \union {<<s, r>>} /\ handler'[<<s, r>>] = "queued"
           /\ \A i \in JudgingId : i # <<s, r>> => handler'[i] = handler[i]
  <2>1. <<s, r>> \notin endtime /\ ~rejudging[r].ended /\ \A m \in Jury : finish[m].rejudging # r
    <3>1. <<s, r>> \notin endtime
      BY <1>1 DEF JudgedInv, NotYetJudged, Subs, ValidInv, RejudgingTypeOK
    <3> QED
      BY <1>1, <3>1, IdsType DEF WaitInv, CreatingOpen, FinishCreated, Open
  <2>2. \A p \in RejudgingId : \A t \in Subs(p)' : (t \in Subs(p) /\ <<t, p>> # <<s, r>>) \/ p = r
    BY <1>3 DEF Subs
  <2>3. \A p \in RejudgingId : p # r => \A t \in Subs(p)' :
            t \in Subs(p) /\ handler'[<<t, p>>] = handler[<<t, p>>]
    BY <1>3, <2>2, SubsJudging
  <2>4. \A p \in RejudgingId : /\ Finishing(p)' <=> Finishing(p)
                               /\ \A m \in Jury : /\ Applying(m, p)' => Applying(m, p) /\ p # r
                                                  /\ Applying(m, p) => Applying(m, p)'
                                                  /\ Cancelling(m, p)' => Cancelling(m, p) /\ p # r
                               /\ \A t : InEffect(p, t) => InEffect(p, t)'
    BY <1>1, <2>1 DEF Finishing, Applying, Cancelling, InEffect
  <2>5. CancellingInvalid'
    BY <1>1, <2>3, <2>4 DEF OutcomeInv, CancellingInvalid
  <2>6. ValidOnlyApplied'
    <3>1. \A p \in RejudgingId : \A t \in Subs(p)' : <<t, p>> \in valid => t \in Subs(p)
      BY DEF Subs, ValidInv, RejudgingTypeOK
    <3> QED  BY <1>1, <2>4, <3>1 DEF OutcomeInv, ValidOnlyApplied
  <2>7. AppliedInEffect'
    BY <1>1, <2>3, <2>4 DEF OutcomeInv, AppliedInEffect
  <2>8. EndedOutcome'
    BY <1>1, <2>1, <2>3, <2>4 DEF OutcomeInv, EndedOutcome
  <2>9. QueuedNotDone'
    <3> SUFFICES ASSUME NEW p \in RejudgingId, NEW t \in Submission, <<t, p>> \in judgings',
                        handler'[<<t, p>>] = "queued"
                 PROVE  <<t, p>> \notin endtime
      BY <1>1 DEF QueuedNotDone, Subs
    <3>1. CASE <<t, p>> = <<s, r>>
      BY <2>1, <3>1
    <3>2. CASE <<t, p>> # <<s, r>>
      <4>1. t \in Subs(p) /\ <<t, p>> \in JudgingId
        BY <1>3, <3>2, SubsJudging DEF Subs
      <4> QED  BY <1>3, <3>2, <4>1 DEF OutcomeInv, QueuedNotDone
    <3> QED  BY <3>1, <3>2
  <2> QED  BY <2>5, <2>6, <2>7, <2>8, <2>9 DEF OutcomeInv
<1> QED  BY <1>1, <1>2, <1>3

LEMMA CompileRepeatOutcomeInv ==
    ASSUME ~SnapshotReads, ValidInv, RowInv, ApplyInv, OutcomeInv, NEW j \in JudgingId,
           NEW r \in RejudgingId, CompileRepetition(j, r)
    PROVE  OutcomeInv'
<1> DEFINE q == j[2]
<1>1. /\ j \in judgings /\ j[1] \in Submission /\ q \in RejudgingId /\ j = <<j[1], q>>
      /\ q # r /\ Open(q) /\ ~rejudging[q].autoApply /\ NextId(r) /\ Subs(r) = {}
      /\ RepetitionDue(q, TodoInTransaction(j)) /\ rejudging'[r].ended = FALSE
      /\ rejudging'[q].ended /\ rejudging'[q].valid = FALSE /\ rejudging'[q].autoApply = FALSE
      /\ \A p \in RejudgingId \ {q, r} : rejudging'[p] = rejudging[p]
  BY DEF CompileRepetition
<1>2. /\ judgings' = judgings \union (Repeated(q) \X {r})
      /\ Repeated(q) \subseteq Subs(q) /\ Subs(r)' = Repeated(q)
      /\ \A p \in RejudgingId \ {r} : Subs(p)' = Subs(p)
      /\ \A i \in JudgingId : handler'[i] = IF i = j THEN "over"
             ELSE IF i \in Repeated(q) \X {r} THEN "queued" ELSE handler[i]
      /\ endtime' = endtime \union {j} /\ UNCHANGED <<valid, finish>>
  BY DEF CompileRepetition
<1>3. \A m \in Jury : finish[m].rejudging # r
  BY <1>1, IdsType DEF NextId, RowInv, FinishRows
<1>4. \A p \in RejudgingId :
          /\ Finishing(p)' <=> Finishing(p)
          /\ \A m \in Jury : /\ Applying(m, p)' <=> Applying(m, p)
                             /\ Cancelling(m, p)' <=> Cancelling(m, p)
                             /\ Applying(m, p) \/ Cancelling(m, p) => p # r
  BY <1>2, <1>3 DEF Finishing, Applying, Cancelling
<1>5. ASSUME NEW p \in RejudgingId, NEW t \in Subs(p), InEffect(p, t) PROVE InEffect(p, t)'
  <2>1. \A x \in RejudgingId : Subs(x) # {} => rejudging'[x].autoApply = rejudging[x].autoApply
    BY <1>1, RowType
  <2> QED  BY <1>2, <1>5, <2>1, StillInEffect
<1>6. \A p \in RejudgingId : p # r => \A t \in Subs(p) :
          handler'[<<t, p>>] = "queued" => handler[<<t, p>>] = "queued" /\ <<t, p>> # j
  BY <1>2, SubsJudging
<1>7. \A p \in RejudgingId \ {q, r} : rejudging'[p] = rejudging[p] /\ Subs(p)' = Subs(p)
  BY <1>1, <1>2
<1>8. CancellingInvalid'
  <2> SUFFICES ASSUME NEW m \in Jury, NEW p \in RejudgingId, Cancelling(m, p), p # r
               PROVE  /\ rejudging'[p].ended => ~rejudging'[p].valid
                      /\ \A t \in Subs(p) : handler'[<<t, p>>] = "queued" => t \in finish[m].submissions
    BY <1>2, <1>4 DEF CancellingInvalid
  <2> QED  BY <1>1, <1>6, <1>7 DEF OutcomeInv, CancellingInvalid
<1>9. ValidOnlyApplied'
  <2> SUFFICES ASSUME NEW p \in RejudgingId, NEW t \in Subs(p), <<t, p>> \in valid,
                      ~rejudging'[p].autoApply
               PROVE  \/ rejudging'[p].ended /\ rejudging'[p].valid
                      \/ \E m \in Jury : Applying(m, p)
    <3>1. \A p \in RejudgingId : \A t \in Subs(p)' : <<t, p>> \in valid => t \in Subs(p)
      BY DEF Subs, ValidInv, RejudgingTypeOK
    <3> QED  BY <1>2, <1>4, <3>1 DEF ValidOnlyApplied
  <2>1. p # r
    BY <1>1
  <2>2. CASE p = q
    <3>1. \A m \in Jury : ~Applying(m, q)
      BY <1>1, DueToBeEnded DEF ApplyInv, ApplyingOpen
    <3> QED  BY <1>1, <2>2, <3>1 DEF OutcomeInv, ValidOnlyApplied, Open
  <2>3. CASE p # q
    BY <1>7, <2>1, <2>3 DEF OutcomeInv, ValidOnlyApplied
  <2> QED  BY <2>2, <2>3
<1>10. AppliedInEffect'
  <2> SUFFICES ASSUME NEW m \in Jury, NEW p \in RejudgingId, Applying(m, p), NEW t \in Subs(p),
                      t \notin finish[m].submissions
               PROVE  InEffect(p, t)'
    BY <1>2, <1>4 DEF AppliedInEffect
  <2> QED  BY <1>5 DEF OutcomeInv, AppliedInEffect
<1>11. EndedOutcome'
  <2> SUFFICES ASSUME NEW p \in RejudgingId, rejudging'[p].ended, ~rejudging'[p].autoApply,
                      ~Finishing(p), NEW t \in Subs(p), p # r
               PROVE  /\ rejudging'[p].valid => InEffect(p, t)'
                      /\ ~rejudging'[p].valid => handler'[<<t, p>>] # "queued"
    BY <1>1, <1>2, <1>4 DEF EndedOutcome
  <2>1. CASE p = q
    <3>1. <<t, p>> = j \/ <<t, p>> \in endtime
      BY <1>1, <2>1, SubsJudging DEF RepetitionDue, TodoInTransaction, Todo, JudgingsOf
    <3> QED  BY <1>1, <1>6, <2>1, <3>1 DEF OutcomeInv, QueuedNotDone
  <2>2. CASE p # q
    BY <1>5, <1>6, <1>7, <2>2 DEF OutcomeInv, EndedOutcome
  <2> QED  BY <2>1, <2>2
<1>12. QueuedNotDone'
  <2> SUFFICES ASSUME NEW p \in RejudgingId, NEW t \in Subs(p)', handler'[<<t, p>>] = "queued"
               PROVE  <<t, p>> \notin endtime'
    BY DEF QueuedNotDone
  <2>1. CASE p = r
    <3>1. <<t, r>> \notin judgings
      BY <1>1, <1>2, <2>1, SubsJudging DEF Subs
    <3> QED  BY <1>1, <1>2, <2>1, <3>1 DEF ValidInv, RejudgingTypeOK
  <2>2. CASE p # r
    BY <1>2, <1>6, <2>2 DEF OutcomeInv, QueuedNotDone
  <2> QED  BY <2>1, <2>2
<1> QED  BY <1>8, <1>9, <1>10, <1>11, <1>12 DEF OutcomeInv

LEMMA StartFinishOutcomeInv ==
    ASSUME JuryWaits, ValidInv, HoldInv, OutcomeInv, NEW m \in Jury, NEW r \in RejudgingId,
           NEW apply \in BOOLEAN, StartFinish(m, r, apply)
    PROVE  OutcomeInv'
<1>1. /\ finish[m].rejudging = 0 /\ Open(r) /\ ~rejudging[r].autoApply /\ ~Finishing(r)
      /\ finish'[m].rejudging = r /\ finish'[m].apply = apply
      /\ finish'[m].submissions = {s \in Submission : rejudgingid[s] = r}
      /\ \A n \in Jury : n # m => finish'[n] = finish[n]
      /\ UNCHANGED <<rejudging, judgings, valid, endtime, handler>>
  BY StartFinishEffect
<1>2. Subs(r) \subseteq finish'[m].submissions
  BY <1>1, HoldType DEF HoldInv, LiveAssociated, Live
<1>3. \A p \in RejudgingId :
          /\ Subs(p)' = Subs(p) /\ (Finishing(p) => Finishing(p)')
          /\ \A n \in Jury : /\ Applying(n, p) => Applying(n, p)'
                             /\ Applying(n, p)' => (Applying(n, p) /\ n # m) \/ (n = m /\ p = r)
                             /\ Cancelling(n, p)' => (Cancelling(n, p) /\ n # m) \/ (n = m /\ p = r)
          /\ \A t : InEffect(p, t)' <=> InEffect(p, t)
  BY <1>1, IdsType DEF Subs, Finishing, Applying, Cancelling, InEffect
<1>4. CancellingInvalid'
  BY <1>1, <1>2, <1>3 DEF OutcomeInv, CancellingInvalid, Open
<1>5. ValidOnlyApplied'
  BY <1>1, <1>3 DEF OutcomeInv, ValidOnlyApplied
<1>6. AppliedInEffect'
  BY <1>1, <1>2, <1>3 DEF OutcomeInv, AppliedInEffect
<1>7. EndedOutcome' /\ QueuedNotDone'
  BY <1>1, <1>3 DEF OutcomeInv, EndedOutcome, QueuedNotDone
<1> QED  BY <1>4, <1>5, <1>6, <1>7 DEF OutcomeInv

(* The rejudging applied is the latest one of the submission.               *)
LEMMA ApplyOutcomeInv ==
    ASSUME ValidInv, WaitInv, ApplyInv, HoldInv, OutcomeInv, NEW m \in Jury, NEW s \in Submission,
           Apply(m, s)
    PROVE  OutcomeInv'
<1>1. PICK r \in RejudgingId : r = finish[m].rejudging
  BY FinishOneEffect
<1>2. /\ <<s, r>> \in judgings /\ finish'[m].submissions = finish[m].submissions \ {s}
      /\ \A n \in Jury : n # m => finish'[n] = finish[n]
      /\ \A n \in Jury : finish'[n].rejudging = finish[n].rejudging /\ finish'[n].apply = finish[n].apply
      /\ UNCHANGED <<rejudging, judgings, endtime>>
  BY <1>1, FinishOneEffect
<1>3. /\ finish[m].apply /\ UNCHANGED handler
      /\ valid' = ((valid \ JudgingsFor(s)) \union {<<s, r>>}) \intersect judgings
  BY <1>1 DEF Apply, MadeValid, handlerVars
<1>4. valid' = (valid \ JudgingsFor(s)) \union {<<s, r>>}
  BY <1>2, <1>3 DEF ValidInv, RejudgingTypeOK
<1>5. Applying(m, r) /\ Active(r) /\ s \in Hold(r)
  <2>1. Applying(m, r)
    BY <1>1, <1>3 DEF Applying
  <2>2. Open(r) /\ ~rejudging[r].autoApply
    BY <1>1, <2>1, IdsType DEF ApplyInv, ApplyingOpen, WaitInv, FinishCreated
  <2> QED  BY <1>2, <2>1, <2>2 DEF Active, Live, Hold, Subs
<1>6. ASSUME NEW p \in RejudgingId, NEW t \in Subs(p), t = s \/ InEffect(p, t)
      PROVE  InEffect(p, t)'
  <2>1. CASE t = s
    <3>1. p <= r
      BY <1>5, <2>1 DEF HoldInv, NoneLater
    <3>2. r >= p
      BY <3>1, RejudgingAssumption DEF RejudgingId
    <3>3. <<s, r>> \in valid' /\ <<s, r>>[1] = t /\ <<s, r>>[2] >= p
      BY <1>4, <2>1, <3>2
    <3> QED  BY <3>3 DEF InEffect
  <2>2. CASE t # s /\ InEffect(p, t)
    <3>1. PICK i \in valid : i[1] = t /\ (i[2] >= p \/ (i[2] # 0 /\ rejudging[i[2]].autoApply))
      BY <2>2 DEF InEffect
    <3>2. i \in valid'
      BY <1>4, <2>2, <3>1 DEF JudgingsFor
    <3> QED  BY <1>2, <3>1, <3>2 DEF InEffect
  <2> QED  BY <1>6, <2>1, <2>2
<1>7. \A p \in RejudgingId :
          /\ Subs(p)' = Subs(p) /\ (Finishing(p)' <=> Finishing(p))
          /\ \A n \in Jury : /\ Applying(n, p)' <=> Applying(n, p)
                             /\ Cancelling(n, p)' => Cancelling(n, p) /\ n # m
  BY <1>2, <1>3 DEF Subs, Finishing, Applying, Cancelling
<1>8. CancellingInvalid' /\ QueuedNotDone'
  BY <1>2, <1>3, <1>7 DEF OutcomeInv, CancellingInvalid, QueuedNotDone
<1>9. ValidOnlyApplied'
  <2>1. \A p \in RejudgingId, t \in Submission : <<t, p>> \in valid' => <<t, p>> \in valid \/ p = r
    BY <1>4
  <2> QED  BY <1>2, <1>5, <1>7, <2>1, HoldType DEF OutcomeInv, ValidOnlyApplied
<1>10. AppliedInEffect'
  <2> SUFFICES ASSUME NEW n \in Jury, NEW p \in RejudgingId, Applying(n, p), NEW t \in Subs(p),
                      t \notin finish'[n].submissions
               PROVE  InEffect(p, t)'
    BY <1>7 DEF AppliedInEffect
  <2>1. t = s \/ t \notin finish[n].submissions
    BY <1>2
  <2> QED  BY <1>6, <2>1 DEF OutcomeInv, AppliedInEffect
<1>11. EndedOutcome'
  <2> SUFFICES ASSUME NEW p \in RejudgingId, rejudging[p].ended, ~rejudging[p].autoApply,
                      ~Finishing(p), NEW t \in Subs(p)
               PROVE  /\ rejudging[p].valid => InEffect(p, t)'
                      /\ ~rejudging[p].valid => handler[<<t, p>>] # "queued"
    BY <1>2, <1>3, <1>7 DEF EndedOutcome
  <2> QED  BY <1>6 DEF OutcomeInv, EndedOutcome
<1> QED  BY <1>8, <1>9, <1>10, <1>11 DEF OutcomeInv

LEMMA CancelOutcomeInv ==
    ASSUME ValidInv, OutcomeInv, NEW m \in Jury, NEW s \in Submission, Cancel(m, s)
    PROVE  OutcomeInv'
<1>1. PICK r \in RejudgingId : r = finish[m].rejudging
  BY FinishOneEffect
<1>2. /\ <<s, r>> \in judgings /\ finish'[m].submissions = finish[m].submissions \ {s}
      /\ \A n \in Jury : n # m => finish'[n] = finish[n]
      /\ \A n \in Jury : finish'[n].rejudging = finish[n].rejudging /\ finish'[n].apply = finish[n].apply
      /\ UNCHANGED <<rejudging, judgings, endtime>>
      /\ \A i \in JudgingId :
             handler'[i] = handler[i] \/ (handler[i] = "queued" /\ handler'[i] = "over")
  BY <1>1, FinishOneEffect
<1>3. ~finish[m].apply /\ UNCHANGED valid /\ handler'[<<s, r>>] # "queued"
  <2>1. /\ ~finish[m].apply /\ UNCHANGED valid
        /\ handler' = [handler EXCEPT ![<<s, r>>] = CancelledHandler(<<s, r>>)]
    BY <1>1 DEF Cancel
  <2>2. <<s, r>> \in JudgingId
    BY <1>2 DEF ValidInv, RejudgingTypeOK
  <2> QED  BY <2>1, <2>2 DEF CancelledHandler, ValidInv, RejudgingTypeOK
<1>4. \A p \in RejudgingId :
          /\ Subs(p)' = Subs(p) /\ (Finishing(p)' <=> Finishing(p))
          /\ \A n \in Jury : /\ Applying(n, p)' <=> Applying(n, p)
                             /\ Applying(n, p) => n # m
                             /\ Cancelling(n, p)' <=> Cancelling(n, p)
                             /\ Cancelling(n, p) /\ n = m => p = r
          /\ \A t : InEffect(p, t)' <=> InEffect(p, t)
  BY <1>1, <1>2, <1>3 DEF Subs, Finishing, Applying, Cancelling, InEffect
<1>5. \A p \in RejudgingId : \A t \in Subs(p) :
          handler'[<<t, p>>] = "queued" => handler[<<t, p>>] = "queued"
  BY <1>2, SubsJudging
<1>6. CancellingInvalid'
  <2> SUFFICES ASSUME NEW n \in Jury, NEW p \in RejudgingId, Cancelling(n, p)
               PROVE  /\ rejudging[p].ended => ~rejudging[p].valid
                      /\ \A t \in Subs(p) : handler'[<<t, p>>] = "queued" => t \in finish'[n].submissions
    BY <1>2, <1>4 DEF CancellingInvalid
  <2>1. CASE n # m
    BY <1>2, <1>5, <2>1 DEF OutcomeInv, CancellingInvalid
  <2>2. CASE n = m
    <3>1. p = r
      BY <1>4, <2>2
    <3>2. \A t \in Subs(r) : handler'[<<t, r>>] = "queued" => t # s
      BY <1>3
    <3> QED  BY <1>2, <1>5, <2>2, <3>1, <3>2 DEF OutcomeInv, CancellingInvalid
  <2> QED  BY <2>1, <2>2
<1>7. ValidOnlyApplied' /\ QueuedNotDone'
  BY <1>2, <1>3, <1>4, <1>5 DEF OutcomeInv, ValidOnlyApplied, QueuedNotDone
<1>8. AppliedInEffect'
  BY <1>2, <1>4 DEF OutcomeInv, AppliedInEffect
<1>9. EndedOutcome'
  BY <1>2, <1>4, <1>5 DEF OutcomeInv, EndedOutcome
<1> QED  BY <1>6, <1>7, <1>8, <1>9 DEF OutcomeInv

LEMMA EndFinishOutcomeInv ==
    ASSUME ValidInv, ApplyInv, OutcomeInv, NEW m \in Jury, EndFinish(m)
    PROVE  OutcomeInv'
<1>1. PICK r \in RejudgingId : r = finish[m].rejudging
  BY EndFinishRows
<1>2. /\ finish[m].submissions = {} /\ rejudging'[r].ended /\ rejudging'[r].valid = finish[m].apply
      /\ \A q \in RejudgingId : q # r => rejudging'[q] = rejudging[q]
      /\ \A q \in RejudgingId : rejudging'[q].autoApply = rejudging[q].autoApply
      /\ finish'[m].rejudging = 0 /\ \A n \in Jury : n # m => finish'[n] = finish[n]
      /\ UNCHANGED <<judgings, valid, endtime, handler>>
  BY <1>1, EndFinishRows
<1>3. ASSUME NEW p \in RejudgingId
      PROVE  /\ Subs(p)' = Subs(p) /\ (p # r => (Finishing(p)' <=> Finishing(p)))
             /\ \A n \in Jury : /\ Applying(n, p)' <=> Applying(n, p) /\ p # r
                                /\ Cancelling(n, p)' <=> Cancelling(n, p) /\ p # r
                                /\ Applying(n, r) => n = m
  BY <1>1, <1>2, IdsType DEF Subs, Finishing, Applying, Cancelling, ApplyInv, FinishOnce
<1>4. ASSUME NEW p \in RejudgingId, NEW t \in Subs(p), InEffect(p, t) PROVE InEffect(p, t)'
  BY <1>2, <1>4, StillInEffect
<1>5. finish[m].apply \in BOOLEAN
  BY DEF ValidInv, RejudgingTypeOK
<1>6. (finish[m].apply => Applying(m, r)) /\ (~finish[m].apply => Cancelling(m, r))
  BY <1>1 DEF Applying, Cancelling
<1>7. \A n \in Jury, p \in RejudgingId : Applying(n, p)' \/ Cancelling(n, p)' =>
          finish'[n] = finish[n]
  BY <1>2, IdsType DEF Applying, Cancelling
<1>8. CancellingInvalid'
  BY <1>2, <1>3, <1>7 DEF OutcomeInv, CancellingInvalid
<1>9. ValidOnlyApplied'
  <2> SUFFICES ASSUME NEW p \in RejudgingId, NEW t \in Subs(p), <<t, p>> \in valid,
                      ~rejudging[p].autoApply
               PROVE  \/ rejudging'[p].ended /\ rejudging'[p].valid
                      \/ \E n \in Jury : Applying(n, p)'
    BY <1>2, <1>3 DEF ValidOnlyApplied
  <2>1. (rejudging[p].ended /\ rejudging[p].valid) \/ \E n \in Jury : Applying(n, p)
    BY DEF OutcomeInv, ValidOnlyApplied
  <2>2. CASE p # r
    BY <1>2, <1>3, <2>1, <2>2
  <2>3. CASE p = r
    <3>1. finish[m].apply
      BY <1>3, <1>6, <2>1, <2>3 DEF OutcomeInv, CancellingInvalid, Applying
    <3> QED  BY <1>2, <2>3, <3>1
  <2> QED  BY <2>2, <2>3
<1>10. AppliedInEffect'
  BY <1>3, <1>4, <1>7 DEF OutcomeInv, AppliedInEffect
<1>11. EndedOutcome'
  <2> SUFFICES ASSUME NEW p \in RejudgingId, rejudging'[p].ended, ~rejudging[p].autoApply,
                      ~Finishing(p)', NEW t \in Subs(p)
               PROVE  /\ rejudging'[p].valid => InEffect(p, t)'
                      /\ ~rejudging'[p].valid => handler[<<t, p>>] # "queued"
    BY <1>2, <1>3 DEF EndedOutcome
  <2>1. CASE p # r
    BY <1>2, <1>3, <1>4, <2>1 DEF OutcomeInv, EndedOutcome
  <2>2. CASE p = r
    <3>1. finish[m].apply => InEffect(r, t)
      BY <1>2, <1>6, <2>2 DEF OutcomeInv, AppliedInEffect
    <3>2. ~finish[m].apply => handler[<<t, r>>] # "queued"
      BY <1>2, <1>6, <2>2 DEF OutcomeInv, CancellingInvalid
    <3> QED  BY <1>2, <1>4, <2>2, <3>1, <3>2
  <2> QED  BY <2>1, <2>2
<1>12. QueuedNotDone'
  BY <1>2, <1>3 DEF OutcomeInv, QueuedNotDone
<1> QED  BY <1>8, <1>9, <1>10, <1>11, <1>12 DEF OutcomeInv

LEMMA NextOutcomeInv ==
    ASSUME JuryWaits, ~SnapshotReads, AllInv, OutcomeInv, [RejudgingNext]_rejudgingVars
    PROVE  OutcomeInv'
<1>0. ValidInv /\ RowInv /\ JudgedInv /\ WaitInv /\ ApplyInv /\ HoldInv
  BY DEF AllInv
<1>1. CASE UNCHANGED rejudgingVars
  BY <1>0, <1>1, KeptOutcomeInv DEF rejudgingVars, judgingVars, handlerVars
<1>2. ASSUME NEW j \in JudgingId, HandlerStep(j) PROVE OutcomeInv'
  <2>1. CASE QuietHandlerStep(j)
    BY <1>0, <2>1, HandlersGoOn, HandlerOutcomeInv
  <2>2. ASSUME NEW next \in Progress, NEW r \in RejudgingId, Repeat(j, r, next) PROVE OutcomeInv'
    <3>1. Repetition(j, r)
      BY <1>0, <2>2, RepeatRows
    <3>2. /\ NextId(r) /\ \A p \in RejudgingId : p # r => rejudging'[p] = rejudging[p]
          /\ handler'[j] \in {"work", "over"} /\ \A i \in JudgingId : i # j => handler'[i] = handler[i]
          /\ UNCHANGED <<judgings, valid, endtime, finish>>
      BY <3>1 DEF Repetition
    <3>3. judgings \subseteq JudgingId /\ rejudging[r].state = "none"
      BY <1>0, <3>2 DEF ValidInv, RejudgingTypeOK, NextId
    <3> QED  BY <1>0, <3>2, <3>3, KeptOutcomeInv
  <2>3. ASSUME NEW r \in RejudgingId, CompileRepeat(j, r) PROVE OutcomeInv'
    BY <1>0, <2>3, CompileRepeatRows, CompileRepeatOutcomeInv
  <2> QED  BY <1>2, <2>1, <2>2, <2>3 DEF HandlerStep, QuietHandlerStep
<1>3. ASSUME NEW r \in RejudgingId, CreateEnd(r) PROVE OutcomeInv'
  <2>1. /\ \A q \in RejudgingId : /\ rejudging'[q].ended = rejudging[q].ended
                                  /\ rejudging'[q].valid = rejudging[q].valid
                                  /\ rejudging'[q].autoApply = rejudging[q].autoApply
        /\ UNCHANGED <<judgings, valid, endtime, handler, finish>>
    BY <1>0, <1>3, CreateEndEffect
  <2> QED  BY <1>0, <2>1, KeptOutcomeInv
<1>4. ASSUME NEW r \in RejudgingId, NEW S \in SUBSET Submission, NEW k \in Kinds,
             Create(r, S, k[1], k[2])
      PROVE  OutcomeInv'
  <2>1. Creation(r, S, k[1])
    BY <1>0, <1>4, KindType, CreateEffect
  <2>2. /\ NextId(r) /\ \A p \in RejudgingId : p # r => rejudging'[p] = rejudging[p]
        /\ UNCHANGED <<judgings, valid, endtime, handler, finish>>
    BY <2>1 DEF Creation
  <2>3. rejudging[r].state = "none"
    BY <2>2 DEF NextId
  <2> QED  BY <1>0, <2>2, <2>3, KeptOutcomeInv
<1>5. ASSUME NEW r \in RejudgingId, NEW s \in Submission, CreateJudging(r, s) PROVE OutcomeInv'
  BY <1>0, <1>5, CreateJudgingOutcomeInv
<1>6. ASSUME NEW m \in Jury, FinishStep(m) PROVE OutcomeInv'
  BY <1>0, <1>6, ApplyOutcomeInv, CancelOutcomeInv, EndFinishOutcomeInv DEF FinishStep
<1>7. ASSUME NEW m \in Jury, NEW r \in RejudgingId, NEW apply \in BOOLEAN, StartFinish(m, r, apply)
      PROVE  OutcomeInv'
  BY <1>0, <1>7, StartFinishOutcomeInv
<1> QED
  BY <1>1, <1>2, <1>3, <1>4, <1>5, <1>6, <1>7 DEF RejudgingNext, CreateStep

LEMMA InitOutcomeInv == RejudgingInit => OutcomeInv
<1> SUFFICES ASSUME RejudgingInit PROVE OutcomeInv
  OBVIOUS
<1>1. /\ \A r \in RejudgingId : Subs(r) = {} /\ ~rejudging[r].ended
      /\ \A m \in Jury : finish[m].rejudging = 0
  BY IdsType DEF RejudgingInit, NoRejudging, NotFinishing, Subs
<1> QED
  BY <1>1, IdsType DEF OutcomeInv, CancellingInvalid, ValidOnlyApplied, AppliedInEffect,
     EndedOutcome, QueuedNotDone, Cancelling, Applying

(* What the jury decides about a rejudging takes effect and stays so.  No   *)
(* judging of a rejudging that was cancelled or repeated is the valid one,  *)
(* nor will a judgehost begin with it, though it may have been queued or    *)
(* at work when the rejudging ended; and an applied rejudging gives way     *)
(* only to a later one or to an automatic one.                              *)
THEOREM OutcomeStaysInEffect ==
    ASSUME CreationFirst, JuryWaits, ~SnapshotReads PROVE RejudgingSpec => []OutcomeInEffect
<1>1. ValidInv /\ OutcomeInv => OutcomeInEffect
  <2> SUFFICES ASSUME ValidInv, OutcomeInv, NEW r \in RejudgingId, rejudging[r].ended,
                      ~rejudging[r].autoApply, ~Finishing(r), NEW j \in JudgingsOf(r)
               PROVE  /\ ~rejudging[r].valid => j \notin valid /\ handler[j] # "queued"
                      /\ rejudging[r].valid => \E i \in JudgingsFor(j[1]) \intersect valid :
                             i[2] >= r \/ (i[2] # 0 /\ rejudging[i[2]].autoApply)
    BY DEF OutcomeInEffect
  <2>1. j \in JudgingId /\ j \in judgings /\ j[2] = r
    BY DEF JudgingsOf, ValidInv, RejudgingTypeOK
  <2>2. PICK s \in Submission : j = <<s, r>> /\ j[1] = s
    BY <2>1, JudgingPair
  <2>3. s \in Subs(r)
    BY <2>1, <2>2 DEF Subs
  <2>4. \A m \in Jury : ~Applying(m, r)
    BY DEF Finishing, Applying
  <2>5. ~rejudging[r].valid => j \notin valid /\ handler[j] # "queued"
    BY <2>2, <2>3, <2>4 DEF OutcomeInv, ValidOnlyApplied, EndedOutcome
  <2>6. rejudging[r].valid => InEffect(r, s)
    BY <2>3 DEF OutcomeInv, EndedOutcome
  <2> QED
    BY <2>2, <2>5, <2>6 DEF InEffect, JudgingsFor, ValidInv, RejudgingTypeOK
<1>2. AllInv /\ OutcomeInv /\ [RejudgingNext]_rejudgingVars => OutcomeInv'
  BY NextOutcomeInv
<1>3. AllInv => ValidInv
  BY DEF AllInv
<1> QED
  BY <1>1, <1>2, <1>3, InitOutcomeInv, AllInvIsInvariant, PTL DEF RejudgingSpec
=============================================================================
