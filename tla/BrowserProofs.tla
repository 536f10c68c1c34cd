---------------------------- MODULE BrowserProofs ----------------------------
(****************************************************************************)
(* Proofs about the functions of domjudge.js: the refreshing of a page, the *)
(* forms of the jury, the clock, the graph of submissions, notifications,   *)
(* keyboard shortcuts and favourite teams, however long a page is open and  *)
(* whatever is clicked in between.                                          *)
(****************************************************************************)
EXTENDS MCBrowser, FoldLemmas, FiniteSetTheorems, SequenceTheorems

----------------------------------------------------------------------------
(* The refreshing of a page.                                                *)

(* The timer a script can no longer clear appears only after a switch while *)
(* a request was under way: before, there is none to be left behind.        *)
NothingLeftBehind == pageLoaded /\ ~toggledMeanwhile => otherPending = 0

RefreshInv ==
    /\ PageRefreshTypeOK /\ NothingLeftBehind
    /\ OneRefreshChain /\ QuietWhenDisabled /\ RefreshGoesOn

(* What a pending handler counts for.                                       *)
LEMMA ChainsValue ==
    ASSUME PageRefreshTypeOK
    PROVE  /\ handlerPending => Chains = otherPending + refreshRequests + 1
           /\ ~handlerPending => Chains = otherPending + refreshRequests
  BY DEF PageRefreshTypeOK, Chains

(* A page as it is loaded satisfies the invariant.                          *)
LEMMA FreshPage ==
    ASSUME pageLoaded \in BOOLEAN, usingAjax \in BOOLEAN, refreshWanted \in BOOLEAN,
           refreshEnabled = refreshWanted, handlerPending = refreshWanted,
           otherPending = 0, refreshRequests = 0,
           requestLost = FALSE, toggledMeanwhile = FALSE
    PROVE  RefreshInv
<1>1. PageRefreshTypeOK
  BY DEF PageRefreshTypeOK
<1>2. /\ refreshEnabled => handlerPending
      /\ ~refreshEnabled => ~handlerPending
  OBVIOUS
<1>3. (handlerPending => Chains = 1) /\ (~handlerPending => Chains = 0)
  BY <1>1, ChainsValue
<1> QED
  BY <1>1, <1>2, <1>3
  DEF RefreshInv, NothingLeftBehind, OneRefreshChain, QuietWhenDisabled, RefreshGoesOn

LEMMA InitRefreshInv == PageRefreshInit => RefreshInv
  BY FreshPage DEF PageRefreshInit

LEMMA NextRefreshInv == RefreshInv /\ [PageRefreshNext]_refreshVars => RefreshInv'
<1> SUFFICES ASSUME RefreshInv, [PageRefreshNext]_refreshVars PROVE RefreshInv'
  OBVIOUS
<1>1. CASE UNCHANGED refreshVars
  BY <1>1 DEF refreshVars, RefreshInv, PageRefreshTypeOK, NothingLeftBehind, OneRefreshChain,
              QuietWhenDisabled, RefreshGoesOn, Chains
<1>2. ASSUME PageRefreshTypeOK',
             pageLoaded' /\ ~toggledMeanwhile' =>
                 /\ otherPending' = 0
                 /\ refreshRequests' = 0 \/ (refreshRequests' = 1 /\ ~handlerPending')
                 /\ ~refreshEnabled' => refreshRequests' = 0 /\ ~handlerPending',
             pageLoaded' /\ refreshEnabled' /\ ~requestLost' =>
                 handlerPending' \/ otherPending' > 0 \/ refreshRequests' > 0
      PROVE  RefreshInv'
  <2>1. Chains' = otherPending' + refreshRequests' + (IF handlerPending' THEN 1 ELSE 0)
    BY DEF Chains
  <2>2. (handlerPending' => Chains' = otherPending' + refreshRequests' + 1)
        /\ (~handlerPending' => Chains' = otherPending' + refreshRequests')
    BY <1>2, <2>1 DEF PageRefreshTypeOK
  <2> QED
    BY <1>2, <2>2 DEF RefreshInv, PageRefreshTypeOK, NothingLeftBehind, OneRefreshChain,
                      QuietWhenDisabled, RefreshGoesOn
<1>3. /\ PageRefreshTypeOK
      /\ pageLoaded /\ ~toggledMeanwhile =>
             /\ otherPending = 0
             /\ refreshRequests = 0 \/ (refreshRequests = 1 /\ ~handlerPending)
             /\ ~refreshEnabled => refreshRequests = 0 /\ ~handlerPending
      /\ pageLoaded /\ refreshEnabled /\ ~requestLost =>
             handlerPending \/ otherPending > 0 \/ refreshRequests > 0
  BY ChainsValue DEF RefreshInv, PageRefreshTypeOK, NothingLeftBehind, OneRefreshChain,
                     QuietWhenDisabled, RefreshGoesOn
<1>4. CASE LoadPage
  <2>1. PageRefreshTypeOK'
    BY <1>3, <1>4 DEF LoadPage, PageRefreshTypeOK
  <2>2. /\ otherPending' = 0 /\ refreshRequests' = 0
        /\ ~refreshEnabled' => ~handlerPending'
        /\ refreshEnabled' => handlerPending'
    BY <1>4 DEF LoadPage
  <2> QED  BY <1>2, <2>1, <2>2
<1>5. CASE toggleRefresh
  <2>1. CASE disableRefresh
    <3>1. PageRefreshTypeOK'
      BY <1>3, <1>5, <2>1 DEF toggleRefresh, disableRefresh, PageRefreshTypeOK
    <3>2. /\ ~handlerPending' /\ ~refreshEnabled' /\ otherPending' = otherPending
          /\ refreshRequests' = refreshRequests /\ pageLoaded
          /\ ~toggledMeanwhile' => ~toggledMeanwhile /\ ~(refreshRequests > 0)
      BY <1>5, <2>1 DEF toggleRefresh, disableRefresh
    <3> QED  BY <1>2, <1>3, <3>1, <3>2 DEF PageRefreshTypeOK
  <2>2. CASE enableRefresh
    <3>1. PageRefreshTypeOK'
      BY <1>3, <1>5, <2>2 DEF toggleRefresh, enableRefresh, SetHandler, PageRefreshTypeOK
    <3>2. /\ handlerPending' /\ ~refreshEnabled /\ refreshEnabled'
          /\ ~handlerPending => otherPending' = otherPending + 0
          /\ refreshRequests' = refreshRequests /\ pageLoaded
          /\ ~toggledMeanwhile' => ~toggledMeanwhile /\ ~(refreshRequests > 0)
      BY <1>5, <2>2 DEF toggleRefresh, enableRefresh, SetHandler
    <3> QED  BY <1>2, <1>3, <3>1, <3>2 DEF PageRefreshTypeOK
  <2> QED  BY <1>5, <2>1, <2>2 DEF toggleRefresh
<1>6. CASE Refresh
  <2>1. PageRefreshTypeOK'
    <3>1. handlerPending' \in BOOLEAN /\ pageLoaded' \in BOOLEAN
      BY <1>3, <1>6 DEF Refresh, FireTimer, PageRefreshTypeOK
    <3>2. /\ otherPending' = otherPending \/ (otherPending > 0 /\ otherPending' = otherPending - 1)
          /\ refreshRequests' \in {refreshRequests, refreshRequests + 1}
      BY <1>6 DEF Refresh, FireTimer
    <3>3. otherPending' \in Nat /\ refreshRequests' \in Nat
      BY <1>3, <3>2 DEF PageRefreshTypeOK
    <3> QED  BY <1>3, <1>6, <3>1, <3>3 DEF Refresh, PageRefreshTypeOK
  <2>2. /\ UNCHANGED <<refreshEnabled, requestLost, toggledMeanwhile>>
        /\ pageLoaded' => pageLoaded /\ refreshRequests' = refreshRequests + 1
        /\ \/ handlerPending /\ ~handlerPending' /\ otherPending' = otherPending
           \/ otherPending > 0 /\ otherPending' = otherPending - 1
    BY <1>6 DEF Refresh, FireTimer
  <2> QED  BY <1>2, <1>3, <2>1, <2>2 DEF PageRefreshTypeOK
<1>7. CASE Answer
  <2>1. PageRefreshTypeOK'
    BY <1>3, <1>7 DEF Answer, SetHandler, PageRefreshTypeOK
  <2>2. /\ UNCHANGED <<refreshEnabled, requestLost, toggledMeanwhile>>
        /\ pageLoaded /\ refreshRequests > 0 /\ refreshRequests' = refreshRequests - 1
        /\ handlerPending' /\ (~handlerPending => otherPending' = otherPending + 0)
    BY <1>7 DEF Answer, SetHandler
  <2> QED  BY <1>2, <1>3, <2>1, <2>2 DEF PageRefreshTypeOK
<1>8. CASE AnswerLost
  <2>1. PageRefreshTypeOK'
    BY <1>3, <1>8 DEF AnswerLost, PageRefreshTypeOK
  <2>2. /\ UNCHANGED <<pageLoaded, refreshEnabled, toggledMeanwhile, handlerPending,
                       otherPending>>
        /\ refreshRequests > 0 /\ refreshRequests' = refreshRequests - 1 /\ requestLost'
    BY <1>8 DEF AnswerLost
  <2> QED  BY <1>2, <1>3, <2>1, <2>2 DEF PageRefreshTypeOK
<1> QED  BY <1>1, <1>4, <1>5, <1>6, <1>7, <1>8 DEF PageRefreshNext

(* A page never has two refreshes going on, unless refreshing was switched  *)
(* while a request was under way.                                           *)
THEOREM RefreshesOnce == PageRefreshSpec => []OneRefreshChain
<1>1. RefreshInv => OneRefreshChain
  BY DEF RefreshInv
<1> QED  BY <1>1, InitRefreshInv, NextRefreshInv, PTL DEF PageRefreshSpec

(* With the same exception, a page on which refreshing is disabled stays as *)
(* it is: no timer and no request is left of the time before.               *)
THEOREM DisabledStaysQuiet == PageRefreshSpec => []QuietWhenDisabled
<1>1. RefreshInv => QuietWhenDisabled
  BY DEF RefreshInv
<1> QED  BY <1>1, InitRefreshInv, NextRefreshInv, PTL DEF PageRefreshSpec

(* Whatever is clicked and answered, a page with refreshing enabled has a   *)
(* timer or a request that will refresh it, unless a request has failed.    *)
THEOREM RefreshContinues == PageRefreshSpec => []RefreshGoesOn
<1>1. RefreshInv => RefreshGoesOn
  BY DEF RefreshInv
<1> QED  BY <1>1, InitRefreshInv, NextRefreshInv, PTL DEF PageRefreshSpec

----------------------------------------------------------------------------
(* The forms of the jury.                                                   *)

(* Until a choice overtakes another one, a fetch is that of the theme that  *)
(* is stored, and without a fetch the editor has it already.                *)
ThemeInv ==
    activeTheme # "null" /\ ~themeHurried =>
        /\ activeTheme = storedTheme
        /\ themeFetches \subseteq {storedTheme}
        /\ themeFetches = {} => editorTheme = storedTheme

(* Until previews overlap, a request is for the message in the field, and   *)
(* without one the preview is that of the message.                          *)
PreviewInv ==
    ~keyupPending /\ ~previewHurried /\ message # "" =>
        /\ previewRequests \subseteq {message}
        /\ previewRequests = {} => preview = message

(* A step about the theme keeps what is known of it.                        *)
LEMMA ThemeStep == ThemeInv /\ [JuryFormsNext]_formVars => ThemeInv'
<1> SUFFICES ASSUME ThemeInv, [JuryFormsNext]_formVars
             PROVE  ThemeInv'
  OBVIOUS
<1> USE DEF ThemeInv
<1>1. ASSUME NEW t, ApplyTheme(t)
      PROVE  ThemeInv'
  BY <1>1 DEF ApplyTheme, StoredOnApply
<1>2. CASE LoadTheme
  BY <1>2, <1>1 DEF LoadTheme
<1>3. CASE ReloadForm
  BY <1>3 DEF ReloadForm
<1>4. CASE Keyup
  BY <1>4 DEF Keyup, themeVars
<1>5. ASSUME NEW t \in Theme, ChooseTheme(t)
      PROVE  ThemeInv'
  BY <1>5, <1>1 DEF ChooseTheme
<1>6. ASSUME NEW t \in Theme, FetchedTheme(t)
      PROVE  ThemeInv'
  BY <1>6 DEF FetchedTheme
<1>7. ASSUME NEW t \in Theme, FetchFailed(t)
      PROVE  ThemeInv'
  BY <1>7 DEF FetchFailed
<1>8. ASSUME NEW m \in Message,
             \/ TypeMessage(m) \/ clarificationAppendAnswer(m)
             \/ Previewed(m) \/ PreviewFailed(m)
      PROVE  ThemeInv'
  BY <1>8 DEF TypeMessage, clarificationAppendAnswer, Previewed, PreviewFailed, themeVars
<1>9. CASE UNCHANGED formVars
  BY <1>9 DEF formVars, themeVars
<1> QED BY <1>2, <1>3, <1>4, <1>5, <1>6, <1>7, <1>8, <1>9 DEF JuryFormsNext

(* A request that is made while none is under way is for the message; a     *)
(* second one, or one that fails, ends what is known.                       *)
LEMMA PreviewStep == PreviewInv /\ [JuryFormsNext]_formVars => PreviewInv'
<1> SUFFICES ASSUME PreviewInv, [JuryFormsNext]_formVars
             PROVE  PreviewInv'
  OBVIOUS
<1> USE DEF PreviewInv
<1>1. CASE LoadTheme \/ \E t \in Theme : ChooseTheme(t) \/ FetchedTheme(t) \/ FetchFailed(t)
  BY <1>1 DEF LoadTheme, ChooseTheme, FetchedTheme, FetchFailed, ApplyTheme, previewVars
<1>2. CASE ReloadForm
  BY <1>2 DEF ReloadForm
<1>3. CASE Keyup
  BY <1>3 DEF Keyup, previewClarification, PreviewDue, AskPreview
<1>4. ASSUME NEW m \in Message, TypeMessage(m)
      PROVE  PreviewInv'
  BY <1>4 DEF TypeMessage
<1>5. ASSUME NEW m \in Message, clarificationAppendAnswer(m)
      PROVE  PreviewInv'
  BY <1>5 DEF clarificationAppendAnswer, AskPreview
<1>6. ASSUME NEW m \in Message, Previewed(m)
      PROVE  PreviewInv'
  BY <1>6 DEF Previewed
<1>7. ASSUME NEW m \in Message, PreviewFailed(m)
      PROVE  PreviewInv'
  BY <1>7 DEF PreviewFailed
<1>8. CASE UNCHANGED formVars
  BY <1>8 DEF formVars, previewVars
<1> QED BY <1>1, <1>2, <1>3, <1>4, <1>5, <1>6, <1>7, <1>8 DEF JuryFormsNext

(* Once all answers are there, the editor has the theme that is stored and  *)
(* the preview shows the message, however many choices were made, texts     *)
(* typed and pages loaded, unless a choice or a preview overtook another.   *)
THEOREM FormsAlwaysSettle == JuryFormsSpec => []FormsSettle
<1>1. JuryFormsInit => ThemeInv /\ PreviewInv
  BY DEF JuryFormsInit, ThemeInv, PreviewInv
<1>2. ThemeInv /\ PreviewInv => FormsSettle
  BY DEF ThemeInv, PreviewInv, FormsSettle, ThemeSettles, PreviewSettles
<1> QED BY <1>1, <1>2, ThemeStep, PreviewStep, PTL DEF JuryFormsSpec

----------------------------------------------------------------------------
(* The clock.                                                               *)

(* The parts of a time are a time of the same length: what the hours,       *)
(* minutes and seconds are taken from is what the parts before have left.   *)
LEMMA FieldsAddUp ==
    ASSUME NEW left \in Nat
    PROVE  Reading(ClockFields(left)) = left
<1> DEFINE d == IF left > Day THEN left \div Day ELSE 0
           ofDay == left - d * Day
           h == IF ofDay > Hour THEN ofDay \div Hour ELSE 0
           ofHour == ofDay - h * Hour
           m == ofHour \div Minute
<1>1. d \in Int
  BY DEF Day, Hour, Minute
<1>2. ofDay \in Int
  BY <1>1 DEF Day, Hour, Minute
<1>3. h \in Int
  BY <1>2 DEF Hour, Minute
<1>4. ofHour \in Int
  BY <1>2, <1>3 DEF Hour, Minute
<1>5. m \in Int
  BY <1>4 DEF Minute
<1>6. Reading(ClockFields(left)) = d * Day + h * Hour + m * Minute + (ofHour - m * Minute)
  BY DEF Reading, ClockFields
<1> HIDE DEF d, h, m
<1> QED BY <1>1, <1>3, <1>5, <1>6 DEF Day, Hour, Minute

(* The text follows the time since the contest was activated; the parts are *)
(* those of the time that is left.                                          *)
ClockInv ==
    /\ clock \in Nat /\ clock >= ActivateTime
    /\ timeleft.what = "running" =>
           clock < EndTime /\ timeleft.left = ClockFields(EndTime - clock)
    /\ timeleft.what = "time_to_start" =>
           clock < StartTime /\ timeleft.left = ClockFields(StartTime - clock)
    /\ timeleft.what = "contest_over" => clock >= EndTime

(* Whatever was shown, updateClock shows what belongs to the time.          *)
LEMMA ClockUpdated ==
    ASSUME NEW now \in Nat, now >= ActivateTime, NEW shown,
           shown.what \notin {"start_delayed", "no_contest"}
    PROVE  LET new == updateClock(now, shown)
           IN  /\ new.what = "running" =>
                      now < EndTime /\ new.left = ClockFields(EndTime - now)
               /\ new.what = "time_to_start" =>
                      now < StartTime /\ new.left = ClockFields(StartTime - now)
               /\ new.what = "contest_over" => now >= EndTime
<1>1. CASE now >= StartTime /\ now < EndTime
  <2>1. updateClock(now, shown) = [what |-> "running", left |-> ClockFields(EndTime - now)]
    BY <1>1 DEF updateClock
  <2> QED BY <1>1, <2>1
<1>2. CASE now < StartTime
  <2>1. updateClock(now, shown) = [what |-> "time_to_start", left |-> ClockFields(StartTime - now)]
    BY <1>2, ClockAssumption DEF updateClock
  <2> QED BY <1>2, <2>1
<1>3. CASE now >= StartTime /\ ~(now < EndTime)
  <2>1. updateClock(now, shown) = [what |-> "contest_over", left |-> ClockFields(0)]
    BY <1>3, ClockAssumption DEF updateClock
  <2> QED BY <1>3, <2>1, ClockAssumption
<1> QED BY <1>1, <1>2, <1>3, ClockAssumption

(* At every second at which it is updated, the clock shows the exact time   *)
(* to the start or to the end of the contest, whatever the times of the     *)
(* contest are and however irregularly the browser calls updateClock.       *)
THEOREM ClockAlwaysRight == ClockSpec => []ClockIsRight
<1>1. ClockInit => ClockInv
  <2> SUFFICES ASSUME ClockInit
               PROVE  ClockInv
    OBVIOUS
  <2>1. clock \in Nat /\ clock >= ActivateTime
    BY ClockAssumption DEF ClockInit
  <2>2. PICK what \in {"start_delayed", "no_contest", "countdown"} :
            timeleft = updateClock(clock, [what |-> what, left |-> ClockFields(0)])
    BY DEF ClockInit
  <2>3. CASE what = "countdown"
    <3> DEFINE shown == [what |-> what, left |-> ClockFields(0)]
    <3>1. shown.what \notin {"start_delayed", "no_contest"}
      BY <2>3
    <3> HIDE DEF shown
    <3> QED BY <2>1, <2>2, <3>1, ClockUpdated DEF ClockInv, shown
  <2>4. CASE what # "countdown"
    <3>1. timeleft.what \in {"start_delayed", "no_contest"}
      BY <2>2, <2>4 DEF updateClock
    <3> QED BY <2>1, <3>1 DEF ClockInv
  <2> QED BY <2>3, <2>4
<1>2. ClockInv /\ [ClockNext]_clockVars => ClockInv'
  <2> SUFFICES ASSUME ClockInv, [ClockNext]_clockVars
               PROVE  ClockInv'
    OBVIOUS
  <2>1. CASE UNCHANGED clockVars
    BY <2>1 DEF ClockInv, clockVars
  <2>2. ASSUME NEW n \in ClockSteps, ClockTick(n)
        PROVE  ClockInv'
    <3>1. clock' \in Nat /\ clock' >= ActivateTime
      BY <2>2, ClockAssumption DEF ClockInv, ClockTick
    <3>2. timeleft' = updateClock(clock', timeleft)
      BY <2>2 DEF ClockTick
    <3>3. CASE timeleft.what \in {"start_delayed", "no_contest"}
      <4>1. timeleft' = timeleft
        BY <3>2, <3>3 DEF updateClock
      <4> QED BY <3>1, <3>3, <4>1 DEF ClockInv
    <3>4. CASE timeleft.what \notin {"start_delayed", "no_contest"}
      BY <3>1, <3>2, <3>4, ClockUpdated DEF ClockInv
    <3> QED BY <3>3, <3>4
  <2> QED BY <2>1, <2>2 DEF ClockNext
<1>3. ClockInv => ClockIsRight
  <2> SUFFICES ASSUME ClockInv
               PROVE  ClockIsRight
    OBVIOUS
  <2>1. clock < EndTime => EndTime - clock \in Nat
    BY ClockAssumption DEF ClockInv
  <2>2. clock < StartTime => StartTime - clock \in Nat
    BY ClockAssumption DEF ClockInv
  <2>3. ClockIsExact
    BY <2>1, <2>2, FieldsAddUp DEF ClockInv, ClockIsExact
  <2>4. OverAtEnd
    BY ClockAssumption DEF ClockInv, OverAtEnd
  <2> QED BY <2>3, <2>4 DEF ClockIsRight
<1> QED BY <1>1, <1>2, <1>3, PTL DEF ClockSpec

----------------------------------------------------------------------------
(* The graph of submissions.                                                *)

(* Rounding up: enough, and at least one.                                   *)
LEMMA CeilEnough ==
    ASSUME NEW a \in Nat \ {0}, NEW b \in Nat \ {0}
    PROVE  Ceil(a, b) \in Nat \ {0} /\ Ceil(a, b) * b >= a
<1>1. PICK r \in 0..(b - 1) : ((a + b - 1) \div b) * b + r = a + b - 1
  OBVIOUS
<1>2. Ceil(a, b) \in Int /\ Ceil(a, b) * b >= a
  BY <1>1 DEF Ceil
<1>3. Ceil(a, b) > 0
  BY <1>2
<1> QED BY <1>2, <1>3

(* A quotient is at most what the dividend is a multiple of.                *)
LEMMA QuotientBound ==
    ASSUME NEW a \in Nat, NEW b \in Nat \ {0}, NEW q \in Nat, a <= q * b
    PROVE  a \div b \in Nat /\ a \div b <= q /\ (a \div b) * b <= a
<1>1. a \div b \in Int /\ (a \div b) * b <= a /\ a \div b >= 0
  OBVIOUS
<1>2. ASSUME a \div b >= q + 1
      PROVE  FALSE
  <2>1. (a \div b) * b >= (q + 1) * b
    BY <1>1, <1>2
  <2> QED BY <1>1, <2>1
<1> QED BY <1>1, <1>2

(* The unit of the graph is one of the units.                               *)
LEMMA UnitType ==
    ASSUME NEW seconds
    PROVE  GraphUnit(seconds) \in (Nat \ {0}) \X (Nat \ {0})
<1> DEFINE Fits(i) == \A k \in 1..i : Ceil(seconds, GraphUnits[k][1]) > MinBuckets
           fitting == {i \in 1..Len(GraphUnits) : Fits(i)}
<1>1. Len(GraphUnits) \in Nat \ {0}
  BY SubmissionGraphAssumption
<1>2. \A i \in 1..Len(GraphUnits) : GraphUnits[i] \in (Nat \ {0}) \X (Nat \ {0})
  BY SubmissionGraphAssumption
<1>3. CASE fitting = {}
  BY <1>1, <1>2, <1>3 DEF GraphUnit
<1>4. CASE fitting # {}
  <2>1. fitting \subseteq 0..Len(GraphUnits)
    BY <1>1
  <2>2. \E i \in fitting : \A k \in fitting : k <= i
    BY <1>1, <1>4, <2>1, BoundedHasMax
  <2> DEFINE greatest == CHOOSE i \in fitting : \A k \in fitting : k <= i
  <2>3. greatest \in fitting
    BY <2>2
  <2>4. GraphUnit(seconds) = GraphUnits[greatest]
    BY <1>4 DEF GraphUnit
  <2> HIDE DEF greatest
  <2> QED BY <1>2, <2>3, <2>4
<1> QED BY <1>3, <1>4

(* The buckets of a contest: there are at least two, and without the last   *)
(* one they are as long as the contest.                                     *)
LEMMA Buckets ==
    ASSUME NEW duration \in Nat \ {0}
    PROVE  /\ BucketCount(duration) \in Nat \ {0, 1}
           /\ BucketUnits(duration) \in Nat \ {0}
           /\ duration <= (BucketCount(duration) - 1) * BucketUnits(duration)
<1>1. BucketCount(duration) \in Nat \ {0, 1}
  BY SubmissionGraphAssumption DEF BucketCount, Lesser
<1> DEFINE c == BucketCount(duration) - 1
<1>2. c \in Nat \ {0}
  BY <1>1
<1> HIDE DEF c
<1>3. Ceil(duration, c) \in Nat \ {0} /\ Ceil(duration, c) * c >= duration
  BY <1>2, CeilEnough
<1>4. BucketUnits(duration) = Ceil(duration, c)
  BY DEF BucketUnits, c
<1>5. duration <= c * BucketUnits(duration)
  BY <1>2, <1>3, <1>4
<1> QED BY <1>1, <1>3, <1>4, <1>5 DEF c

(* What is drawn is within the contest.                                     *)
LEMMA GraphTyped == GraphSpec => []GraphTypeOK
<1>1. GraphInit => GraphTypeOK
  BY SubmissionGraphAssumption DEF GraphInit, GraphTypeOK
<1>2. GraphTypeOK /\ [GraphNext]_graphVars => GraphTypeOK'
  <2> SUFFICES ASSUME GraphTypeOK, [GraphNext]_graphVars
               PROVE  GraphTypeOK'
    OBVIOUS
  <2>1. contestSeconds \in Nat \ {0}
    BY SubmissionGraphAssumption DEF GraphTypeOK
  <2>2. contestSeconds \div 2 \in 0..contestSeconds
    BY <2>1
  <2> QED BY <2>1, <2>2 DEF GraphTypeOK, GraphNext, DrawSubmission, graphVars
<1> QED BY <1>1, <1>2, PTL DEF GraphSpec

(* The length of the contest in units.                                      *)
LEMMA DurationEnough ==
    ASSUME GraphTypeOK
    PROVE  LET u == GraphUnit(contestSeconds)[1]
           IN  /\ contestSeconds \in Nat \ {0} /\ u \in Nat \ {0}
               /\ Duration \in Nat \ {0} /\ contestSeconds <= Duration * u
<1> DEFINE u == GraphUnit(contestSeconds)[1]
<1>1. contestSeconds \in Nat \ {0}
  BY SubmissionGraphAssumption DEF GraphTypeOK
<1>2. u \in Nat \ {0}
  BY UnitType
<1>3. Duration = Ceil(contestSeconds, u)
  BY DEF Duration, GraphDuration
<1> HIDE DEF u
<1>4. Duration \in Nat \ {0} /\ contestSeconds <= Duration * u
  BY <1>1, <1>2, <1>3, CeilEnough
<1> QED BY <1>1, <1>2, <1>4 DEF u

(* No submission of a contest is lost between the buckets: each falls into  *)
(* one that is drawn, for every duration, list of units and limit of        *)
(* buckets.                                                                 *)
THEOREM AllSubmissionsCounted == GraphSpec => []SubmissionsInBuckets
<1>1. GraphTypeOK => SubmissionsInBuckets
  <2> SUFFICES ASSUME GraphTypeOK
               PROVE  SubmissionsInBuckets
    OBVIOUS
  <2> DEFINE u == GraphUnit(contestSeconds)[1]
             D == Duration
             B == BucketUnits(D)
             c == BucketCount(D) - 1
             t == submissionTime
  <2>1. contestSeconds \in Nat \ {0} /\ u \in Nat \ {0} /\ D \in Nat \ {0}
        /\ contestSeconds <= D * u
    BY DurationEnough
  <2>2. B \in Nat \ {0} /\ c \in Nat \ {0} /\ D <= c * B
    BY <2>1, Buckets
  <2>3. t \in Nat /\ t <= contestSeconds
    BY <2>1 DEF GraphTypeOK
  <2>4. SubmissionBucket(contestSeconds, t) = t \div (B * u)
    BY DEF SubmissionBucket, SecondsPerBucket, Duration
  <2> HIDE DEF u, D, B, c, t
  <2>5. D * u <= (c * B) * u
    BY <2>1, <2>2
  <2>6. (c * B) * u = c * (B * u) /\ B * u \in Nat \ {0}
    BY <2>1, <2>2
  <2>7. t <= c * (B * u)
    BY <2>1, <2>2, <2>3, <2>5, <2>6
  <2>8. t \div (B * u) \in Nat /\ t \div (B * u) <= c
    BY <2>2, <2>3, <2>6, <2>7, QuotientBound
  <2>9. SubmissionBucket(contestSeconds, t) \in Nat /\ SubmissionBucket(contestSeconds, t) <= c
    BY <2>4, <2>8
  <2>10. BucketCount(D) \in Nat
    BY <2>1, Buckets
  <2> QED BY <2>2, <2>9, <2>10 DEF SubmissionsInBuckets, c, D, t
<1> QED BY <1>1, GraphTyped, PTL

(* Every tick of the axis is the value of a bucket, for every duration and  *)
(* list of units.                                                           *)
THEOREM TicksAreBuckets == GraphSpec => []TicksMatchBuckets
<1>1. GraphTypeOK => TicksMatchBuckets
  <2> SUFFICES ASSUME GraphTypeOK
               PROVE  TicksMatchBuckets
    OBVIOUS
  <2> DEFINE D == Duration
             step == GraphUnit(contestSeconds)[2]
             B == BucketUnits(D)
             c == BucketCount(D) - 1
             delta == TickDelta(D, step)
             g == Greater(Ceil(D, BucketCount(D) * B),
                          Greater(Ceil(step, B), Ceil(D, MinBuckets * B)))
  <2>1. D \in Nat \ {0} /\ step \in Nat \ {0}
    BY DurationEnough, UnitType
  <2>2. B \in Nat \ {0} /\ c \in Nat \ {0} /\ D <= c * B
    BY <2>1, Buckets
  <2>3. g \in Nat \ {0}
    <3>1. BucketCount(D) * B \in Nat \ {0} /\ MinBuckets * B \in Nat \ {0}
      <4>1. BucketCount(D) \in Nat \ {0} /\ MinBuckets \in Nat \ {0}
        BY <2>1, Buckets, SubmissionGraphAssumption
      <4> HIDE DEF D, B
      <4> QED BY <2>2, <4>1
    <3> HIDE DEF D, B, step
    <3>2. /\ Ceil(D, BucketCount(D) * B) \in Nat \ {0}
          /\ Ceil(step, B) \in Nat \ {0}
          /\ Ceil(D, MinBuckets * B) \in Nat \ {0}
      BY <2>1, <2>2, <3>1, CeilEnough
    <3> QED BY <3>2 DEF Greater
  <2>4. delta = B * g
    BY DEF TickDelta
  <2> HIDE DEF D, step, B, c, delta, g
  <2>5. delta \in Nat \ {0}
    BY <2>2, <2>3, <2>4
  <2>6. ASSUME NEW i \in 0..(D \div delta)
        PROVE  i * delta \in {k * B : k \in 0..c}
    <3>1. D <= D * delta
      BY <2>1, <2>5
    <3>2. D \div delta \in Nat /\ (D \div delta) * delta <= D
      BY <2>1, <2>5, <3>1, QuotientBound
    <3>3. i \in Nat /\ i <= D \div delta
      BY <3>2
    <3>4. i * delta <= (D \div delta) * delta
      BY <2>5, <3>2, <3>3
    <3>5. i * delta = (i * g) * B /\ i * g \in Nat
      BY <2>2, <2>3, <2>4, <3>3
    <3>6. (i * g) * B <= c * B
      BY <2>1, <2>2, <2>5, <3>2, <3>3, <3>4, <3>5
    <3>7. i * g <= c
      <4>1. ASSUME i * g >= c + 1
            PROVE  FALSE
        <5>1. (i * g) * B >= (c + 1) * B
          BY <2>2, <3>5, <4>1
        <5> QED BY <2>2, <3>5, <3>6, <5>1
      <4> QED BY <2>2, <3>5, <4>1
    <3> QED BY <2>2, <3>5, <3>7
  <2>7. TickValues(D, step) = {i * delta : i \in 0..(D \div delta)}
    BY DEF TickValues, delta
  <2>8. TickValues(D, step) \subseteq {k * B : k \in 0..c}
    BY <2>6, <2>7
  <2> QED BY <2>8 DEF TicksMatchBuckets, D, step, B, c
<1> QED BY <1>1, GraphTyped, PTL

----------------------------------------------------------------------------
(* Notifications.                                                           *)

(* Every tag that is stored, or that a tab is about to write back, belongs  *)
(* to an alert that was handled.                                            *)
TagsHandled ==
    \A t \in sentTags \union UNION {tagsRead[tab] : tab \in JuryTab} :
        \E a \in Alert : t = Tag(a) /\ seen[a] # "unseen"

SentHandled == \A tab \in JuryTab : sending[tab] # NoAlert => seen[sending[tab]] # "unseen"

(* Until two tabs meet, the tab in sendNotification() has read what is      *)
(* stored.                                                                  *)
SentAlone ==
    ~together =>
        \A tab \in JuryTab : sending[tab] # NoAlert =>
            /\ tagsRead[tab] = sentTags
            /\ \A other \in JuryTab : sending[other] # NoAlert => other = tab

(* Until two tabs meet, the tag of what was shown is stored or about to be. *)
ShownStored ==
    ~together =>
        \A a \in Alert : seen[a] \in {"shown", "again"} =>
            \/ Tag(a) \in sentTags
            \/ \E tab \in JuryTab : sending[tab] = a

NotifiedType ==
    /\ sending \in [JuryTab -> Alert \union {NoAlert}]
    /\ tagsRead \in [JuryTab -> SUBSET {Tag(a) : a \in Alert}]
    /\ seen \in [Alert -> Sight]

NotifiedInv ==
    NotifiedType /\ TagsHandled /\ SentHandled /\ SentAlone /\ ShownStored /\ NotifiedOnce

(* Alerts other than of balloons have tags of their own.                    *)
LEMMA TagsDiffer ==
    ASSUME NEW a \in Alert, NEW b \in Alert, a.kind # "ball", Tag(a) = Tag(b)
    PROVE  a = b
<1>1. ASSUME NEW x \in Alert, x.kind = "ball"
      PROVE  Tag(x) = <<"ball", "undefined">>
  BY <1>1, Zenon DEF Tag
<1>2. ASSUME NEW x \in Alert, x.kind = "host"
      PROVE  Tag(x) = <<"host", x.id, x.polltime>>
  BY <1>2, "host" # "ball", Zenon DEF Tag
<1>3. ASSUME NEW x \in Alert, x.kind # "ball", x.kind # "host"
      PROVE  Tag(x) = <<x.kind, x.id>>
  BY <1>3, Zenon DEF Tag
<1>4. \A x \in Alert : Tag(x)[1] = x.kind
  BY <1>1, <1>2, <1>3
<1>5. a.kind = b.kind
  BY <1>4
<1>6. CASE a.kind = "host"
  <2>1. a.id = b.id /\ a.polltime = b.polltime
    <3>1. Tag(a) = <<"host", a.id, a.polltime>>
      BY <1>2, <1>6
    <3>2. Tag(b) = <<"host", b.id, b.polltime>>
      BY <1>2, <1>5, <1>6
    <3>3. Tag(a)[2] = a.id /\ Tag(a)[3] = a.polltime
      BY <3>1
    <3>4. Tag(b)[2] = b.id /\ Tag(b)[3] = b.polltime
      BY <3>2
    <3> QED BY <3>3, <3>4
  <2>2. a \in [kind : {"host"}, id : Nat, polltime : Nat]
        /\ b \in [kind : {"host"}, id : Nat, polltime : Nat]
    BY <1>5, <1>6, NotificationsAssumption
  <2> QED BY <1>5, <2>1, <2>2
<1>7. CASE a.kind # "host"
  <2>1. a.id = b.id
    BY <1>3, <1>5, <1>7
  <2>2. a \in [kind : {"clar", "ie", "ball"}, id : Nat]
        /\ b \in [kind : {"clar", "ie", "ball"}, id : Nat]
    BY <1>5, <1>7, NotificationsAssumption
  <2> QED BY <1>5, <2>1, <2>2
<1> QED BY <1>6, <1>7

LEMMA NoAlertIsNone == NoAlert \notin Alert
<1>1. \A a \in Alert : a.kind # "none"
  BY NotificationsAssumption
<1> QED BY <1>1 DEF NoAlert

(* A known tag ends the call: of an alert of its own it is the tag of this  *)
(* very alert, which was handled before.                                    *)
LEMMA SendKnownKeeps ==
    ASSUME NotifiedInv, NEW tab \in JuryTab, NEW a \in Alert, SendKnown(tab, a)
    PROVE  NotifiedInv'
<1> USE DEF NotifiedInv
<1>1. UNCHANGED <<sentTags, sending, tagsRead, together>>
  BY DEF SendKnown
<1>2. seen' = [seen EXCEPT ![a] = IF @ = "unseen" THEN "dropped" ELSE @]
  BY DEF SendKnown
<1>3. NotifiedType'
  BY <1>1, <1>2 DEF NotifiedType, Sight
<1>4. \A b \in Alert : /\ seen[b] # "unseen" => seen'[b] # "unseen"
                       /\ seen'[b] \in {"shown", "again"} => seen'[b] = seen[b]
  BY <1>2 DEF NotifiedType
<1>5. TagsHandled'
  BY <1>1, <1>4 DEF TagsHandled
<1>6. SentHandled'
  BY <1>1, <1>4 DEF SentHandled, NotifiedType
<1>7. SentAlone' /\ ShownStored'
  BY <1>1, <1>4 DEF SentAlone, ShownStored
<1>8. a.kind # "ball" => seen[a] # "unseen"
  <2>1. PICK b \in Alert : Tag(a) = Tag(b) /\ seen[b] # "unseen"
    BY DEF SendKnown, TagsHandled
  <2> QED BY <2>1, TagsDiffer
<1>9. NotifiedOnce'
  BY <1>1, <1>2, <1>8 DEF NotifiedOnce, ShownOnce, AlertsAreShown, NotifiedType
<1> QED BY <1>3, <1>5, <1>6, <1>7, <1>9

(* A new tag: nobody has shown the alert before, unless tabs meet.          *)
LEMMA SendNewKeeps ==
    ASSUME NotifiedInv, NEW tab \in JuryTab, NEW a \in Alert, SendNew(tab, a)
    PROVE  NotifiedInv'
<1> USE DEF NotifiedInv
<1>1. /\ sending[tab] = NoAlert /\ Tag(a) \notin sentTags
      /\ sending' = [sending EXCEPT ![tab] = a]
      /\ tagsRead' = [tagsRead EXCEPT ![tab] = sentTags]
      /\ together' = (together \/ \E other \in JuryTab \ {tab} : sending[other] # NoAlert)
      /\ UNCHANGED sentTags
  BY DEF SendNew
<1>2. seen' = [seen EXCEPT ![a] =
                   IF notify THEN (IF @ \in {"shown", "again"} THEN "again" ELSE "shown")
                   ELSE IF @ = "unseen" THEN "silent" ELSE @]
  BY DEF SendNew
<1>3. sentTags \in SUBSET {Tag(b) : b \in Alert}
  BY DEF TagsHandled
<1>4. NotifiedType'
  BY <1>1, <1>2, <1>3 DEF NotifiedType, Sight
<1>5. seen'[a] # "unseen" /\ \A b \in Alert \ {a} : seen'[b] = seen[b]
  BY <1>2 DEF NotifiedType
<1>6. TagsHandled'
  BY <1>1, <1>5 DEF TagsHandled, NotifiedType
<1>7. SentHandled'
  BY <1>1, <1>5, NoAlertIsNone DEF SentHandled, NotifiedType
<1>8. ~together' => ~together /\ \A other \in JuryTab : sending[other] = NoAlert
  BY <1>1
<1>9. SentAlone'
  BY <1>1, <1>8 DEF SentAlone, NotifiedType
<1>10. ShownStored'
  BY <1>1, <1>5, <1>8, NoAlertIsNone DEF ShownStored, NotifiedType
<1>11. ~together' => seen[a] \notin {"shown", "again"}
  BY <1>1, <1>8, NoAlertIsNone DEF ShownStored
<1>12. NotifiedOnce'
  <2>1. seen'[a] = "dropped" => seen[a] = "dropped"
    BY <1>2 DEF NotifiedType
  <2>2. ~together' => seen'[a] # "again"
    BY <1>2, <1>11 DEF NotifiedType
  <2> QED BY <1>5, <1>8, <2>1, <2>2 DEF NotifiedOnce, ShownOnce, AlertsAreShown
<1> QED BY <1>4, <1>6, <1>7, <1>9, <1>10, <1>12

(* What is written back is what was stored and the new tag, unless tabs     *)
(* meet.                                                                    *)
LEMMA WriteTagsKeeps ==
    ASSUME NotifiedInv, NEW tab \in JuryTab, WriteTags(tab)
    PROVE  NotifiedInv'
<1> USE DEF NotifiedInv
<1>1. /\ sending[tab] # NoAlert
      /\ sentTags' = tagsRead[tab] \union {Tag(sending[tab])}
      /\ sending' = [sending EXCEPT ![tab] = NoAlert]
      /\ tagsRead' = [tagsRead EXCEPT ![tab] = {}]
      /\ UNCHANGED <<seen, together>>
  BY DEF WriteTags, Written
<1>2. NotifiedType'
  BY <1>1 DEF NotifiedType
<1>3. sending[tab] \in Alert /\ seen[sending[tab]] # "unseen"
  BY <1>1 DEF NotifiedType, SentHandled
<1>4. TagsHandled'
  BY <1>1, <1>3 DEF TagsHandled, NotifiedType
<1>5. SentHandled'
  BY <1>1 DEF SentHandled, NotifiedType
<1>6. SentAlone'
  BY <1>1 DEF SentAlone, NotifiedType
<1>7. ShownStored'
  <2> SUFFICES ASSUME ~together, NEW a \in Alert, seen[a] \in {"shown", "again"}
               PROVE  Tag(a) \in sentTags'
    BY <1>1 DEF ShownStored
  <2>1. tagsRead[tab] = sentTags /\ \A other \in JuryTab : sending[other] = a => other = tab
    BY <1>1, NoAlertIsNone DEF SentAlone
  <2> QED BY <1>1, <2>1 DEF ShownStored
<1>8. NotifiedOnce'
  BY <1>1 DEF NotifiedOnce, ShownOnce, AlertsAreShown
<1> QED BY <1>2, <1>4, <1>5, <1>6, <1>7, <1>8

(* However many tabs are open and however often alerts come and go, every   *)
(* alert but of a balloon is shown if notifications are enabled, and until  *)
(* two tabs send notifications at the same time no alert is shown twice.    *)
THEOREM AlertsNotifiedOnce == NotificationsSpec => []NotifiedOnce
<1>1. NotificationsInit => NotifiedInv
  BY DEF NotificationsInit, NotifiedInv, NotifiedType, TagsHandled, SentHandled, SentAlone,
         ShownStored, NotifiedOnce, ShownOnce, AlertsAreShown, Sight
<1>2. NotifiedInv /\ [NotificationsNext]_notificationVars => NotifiedInv'
  <2> SUFFICES ASSUME NotifiedInv, [NotificationsNext]_notificationVars
               PROVE  NotifiedInv'
    OBVIOUS
  <2>1. ASSUME UNCHANGED <<sentTags, sending, tagsRead, seen, together>>
        PROVE  NotifiedInv'
    BY <2>1 DEF NotifiedInv, NotifiedType, TagsHandled, SentHandled, SentAlone, ShownStored,
                NotifiedOnce, ShownOnce, AlertsAreShown
  <2>2. CASE enableNotifications \/ disableNotifications
    BY <2>1, <2>2 DEF enableNotifications, disableNotifications
  <2>3. CASE \E a \in Alert : ServerChange(a)
    BY <2>1, <2>3 DEF ServerChange
  <2>4. CASE \E tab \in JuryTab : updateMenuAlerts(tab)
    BY <2>1, <2>4 DEF updateMenuAlerts
  <2>5. CASE UNCHANGED notificationVars
    BY <2>1, <2>5 DEF notificationVars
  <2> QED BY <2>2, <2>3, <2>4, <2>5, SendKnownKeeps, SendNewKeeps, WriteTagsKeeps
          DEF NotificationsNext
<1>3. NotifiedInv => NotifiedOnce
  BY DEF NotifiedInv
<1> QED BY <1>1, <1>2, <1>3, PTL DEF NotificationsSpec

----------------------------------------------------------------------------
(* Keyboard shortcuts.                                                      *)

(* One handler of a list handles a key.                                     *)
Handled(p, h, key, field) ==
    IF h.name = "outer" THEN HandleOuter(p, key, field) ELSE HandleInner(p, h, key, field)

(* f is the fold of Dispatch: what the handlers at some places of the list  *)
(* make of the page.                                                        *)
IsDispatch(f, key, field) ==
    f = [d \in SUBSET DOMAIN page.handlers |->
             IF d = {} THEN page
             ELSE Handled(f[d \ {Max(d)}], page.handlers[Max(d)], key, field)]

LEMMA DispatchIsFold ==
    ASSUME NEW key, NEW field, NEW w, IsDispatch(w, key, field)
    PROVE  \E f : /\ IsDispatch(f, key, field)
                  /\ Dispatch(key, field) = f[DOMAIN page.handlers]
<1> DEFINE F == CHOOSE f : IsDispatch(f, key, field)
<1>1. Dispatch(key, field) = F[DOMAIN page.handlers]
  BY DEF Dispatch, FoldLeft, MapThenFoldSet, IsDispatch, Handled
<1>2. IsDispatch(F, key, field)
  OBVIOUS
<1> QED  BY <1>1, <1>2

LEMMA MaxOfOne == ASSUME NEW n \in Nat PROVE Max({n}) = n
  BY DEF Max

LEMMA DispatchToOne ==
    ASSUME NEW key, NEW field, page.handlers = <<Outer>>
    PROVE  Dispatch(key, field) = HandleOuter(page, key, field)
<1> DEFINE w == [d \in SUBSET {1} |-> IF d = {} THEN page ELSE HandleOuter(page, key, field)]
<1>1. DOMAIN page.handlers = {1} /\ page.handlers[1].name = "outer"
  BY DEF Outer
<1>2. \A d \in SUBSET {1} : d = {} \/ d = {1}
  OBVIOUS
<1>3. Max({1}) = 1 /\ {1} \ {Max({1})} = {}
  BY MaxOfOne
<1>4. IsDispatch(w, key, field)
  <2>1. w[{}] = page /\ w[{1}] = Handled(page, page.handlers[1], key, field)
    BY <1>1 DEF Handled
  <2>2. ASSUME NEW d \in SUBSET {1}
        PROVE  w[d] = IF d = {} THEN page
                      ELSE Handled(w[d \ {Max(d)}], page.handlers[Max(d)], key, field)
    <3> HIDE DEF w
    <3>1. CASE d = {}  BY <2>1, <3>1
    <3>2. CASE d = {1}  BY <2>1, <3>2, <1>3
    <3> QED  BY <3>1, <3>2, <1>2
  <2> QED  BY <1>1, <2>2 DEF IsDispatch
<1>5. PICK f : IsDispatch(f, key, field) /\ Dispatch(key, field) = f[{1}]
  BY <1>1, <1>4, DispatchIsFold
<1>6. f[{}] = page
  BY <1>1, <1>5 DEF IsDispatch
<1>7. f[{1}] = Handled(f[{}], page.handlers[1], key, field)
  BY <1>1, <1>3, <1>5 DEF IsDispatch
<1> QED  BY <1>1, <1>5, <1>6, <1>7 DEF Handled

LEMMA DispatchToTwo ==
    ASSUME NEW key, NEW field, NEW h, h.name = "inner", page.handlers = <<Outer, h>>
    PROVE  Dispatch(key, field) = HandleInner(HandleOuter(page, key, field), h, key, field)
<1> DEFINE p == HandleOuter(page, key, field)
           q == HandleInner(p, h, key, field)
           r == HandleInner(page, h, key, field)
           w == [d \in SUBSET {1, 2} |-> IF d = {} THEN page ELSE IF d = {1} THEN p
                                         ELSE IF d = {2} THEN r ELSE q]
<1> HIDE DEF p, q, r
<1>1. /\ DOMAIN page.handlers = {1, 2}
      /\ page.handlers[1].name = "outer" /\ page.handlers[2] = h
  BY DEF Outer
<1>2. \A d \in SUBSET {1, 2} : d = {} \/ d = {1} \/ d = {2} \/ d = {1, 2}
  OBVIOUS
<1>3. /\ Max({1}) = 1 /\ Max({2}) = 2 /\ Max({1, 2}) = 2
      /\ {1} \ {1} = {} /\ {2} \ {2} = {} /\ {1, 2} \ {2} = {1}
  <2>1. Max({1, 2}) = 2
    BY DEF Max
  <2> QED  BY <2>1, MaxOfOne
<1>4. /\ Handled(page, page.handlers[1], key, field) = p
      /\ Handled(page, h, key, field) = r /\ Handled(p, h, key, field) = q
  BY <1>1 DEF Handled, p, q, r
<1>5. IsDispatch(w, key, field)
  <2>1. ASSUME NEW d \in SUBSET {1, 2}
        PROVE  w[d] = IF d = {} THEN page
                      ELSE Handled(w[d \ {Max(d)}], page.handlers[Max(d)], key, field)
    <3>0. w[{}] = page /\ w[{1}] = p /\ w[{2}] = r /\ w[{1, 2}] = q
      OBVIOUS
    <3> HIDE DEF w
    <3>1. CASE d = {}  BY <3>0, <3>1
    <3>2. CASE d = {1}  BY <3>0, <3>2, <1>3, <1>4
    <3>3. CASE d = {2}  BY <3>0, <3>3, <1>1, <1>3, <1>4
    <3>4. CASE d = {1, 2}  BY <3>0, <3>4, <1>1, <1>3, <1>4
    <3> QED  BY <3>1, <3>2, <3>3, <3>4, <1>2
  <2> QED  BY <1>1, <2>1 DEF IsDispatch
<1>6. PICK f : IsDispatch(f, key, field) /\ Dispatch(key, field) = f[{1, 2}]
  BY <1>1, <1>5, DispatchIsFold
<1>7. f[{}] = page
  BY <1>1, <1>6 DEF IsDispatch
<1>8. f[{1}] = p
  BY <1>1, <1>3, <1>4, <1>6, <1>7 DEF IsDispatch
<1>9. f[{1, 2}] = q
  BY <1>1, <1>3, <1>4, <1>6, <1>8 DEF IsDispatch
<1> QED  BY <1>6, <1>9 DEF p, q

(* The inner handler that the outer one makes for a shortcut.               *)
Inner(type, box) == [name |-> "inner", type |-> type, box |-> box, oldFunc |-> Outer]

Handler == {Outer} \union {Inner(type, box) : type \in ShortcutType, box \in Box}

Page ==
    [handlers : Seq(Handler), ignore : BOOLEAN, boxes : SUBSET Box, begun : 0..MaxBoxes,
     help : BOOLEAN, sequence : [Box -> Seq(Digit)], goes : Address]

(* The outer handler is attached alone, or with the inner handler of a box  *)
(* that is shown as long as no key was typed in a field.                    *)
NothingBegun ==
    /\ page.handlers = <<Outer>>
    /\ ~typedInField => ~page.ignore /\ page.boxes = {}

BegunWith(type, box) ==
    /\ page.handlers = <<Outer, Inner(type, box)>>
    /\ ~typedInField => page.ignore /\ page.boxes = {box}

ShortcutsInv ==
    /\ page \in Page /\ page.goes = <<>> /\ page.boxes \subseteq 1..page.begun
    /\ keysEnabled \in BOOLEAN /\ typedInField \in BOOLEAN
    /\ location \in Address /\ boxThen \in Address
    /\ NothingBegun \/ \E type \in ShortcutType, box \in Box : BegunWith(type, box)
    /\ GoesWhereBoxSays

LEMMA NewPageIsPage ==
    NewPage \in Page /\ NewPage.handlers = <<Outer>> /\ NewPage.goes = <<>>
    /\ ~NewPage.ignore /\ NewPage.boxes = {}
<1>1. <<Outer>> \in Seq(Handler)
  BY DEF Handler
<1>2. <<>> \in Address /\ <<>> \in Seq(Digit)
  BY DEF Address
<1>3. 0 \in 0..MaxBoxes
  BY ShortcutsAssumption
<1> QED  BY <1>1, <1>2, <1>3 DEF NewPage, Page

LEMMA InitShortcutsInv == ShortcutsInit => ShortcutsInv
<1> SUFFICES ASSUME ShortcutsInit PROVE ShortcutsInv
  OBVIOUS
<1>1. page \in Page /\ NothingBegun /\ page.goes = <<>> /\ page.boxes = {}
  BY NewPageIsPage DEF ShortcutsInit, NothingBegun
<1>2. <<>> \in Address
  BY DEF Address
<1> QED  BY <1>1, <1>2 DEF ShortcutsInit, ShortcutsInv, GoesWhereBoxSays

(* The outer handler begins a shortcut, or changes the help and where the   *)
(* browser goes at most.                                                    *)
OuterLeaves(p, field) ==
    /\ p \in Page
    /\ p.handlers = page.handlers /\ p.ignore = page.ignore /\ p.boxes = page.boxes
    /\ p.begun = page.begun /\ p.sequence = page.sequence
    /\ p.goes = <<>> \/ (p.goes = <<"item">> /\ ~page.ignore /\ ~field)

OuterBegins(p, key, field) ==
    /\ p \in Page /\ ~page.ignore /\ key \in ShortcutType /\ ~field
    /\ p.begun = page.begun + 1 /\ p.begun \in Box
    /\ p.handlers = Append(page.handlers, Inner(key, p.begun))
    /\ p.ignore /\ p.boxes = page.boxes \union {p.begun} /\ p.sequence = page.sequence
    /\ p.goes = <<>>

LEMMA OuterHandles ==
    ASSUME NEW key \in Key, NEW field \in BOOLEAN, page \in Page, keysEnabled \in BOOLEAN,
           page.goes = <<>>, Len(page.handlers) > 0, Head(page.handlers) = Outer,
           page.begun < MaxBoxes \/ key \notin ShortcutType
    PROVE  LET p == HandleOuter(page, key, field)
           IN  OuterLeaves(p, field) \/ OuterBegins(p, key, field)
<1> DEFINE help == CASE key = "?" -> ~page.help [] key = "Escape" -> FALSE
                     [] OTHER -> page.help
           q == [page EXCEPT !.help = help]
           box == page.begun + 1
           h == Inner(key, box)
<1>1. help \in BOOLEAN
  BY DEF Page
<1> HIDE DEF help
<1>2. OuterLeaves(page, field)
  BY DEF OuterLeaves
<1>3. q \in Page /\ OuterLeaves(q, field)
  BY <1>1 DEF OuterLeaves, Page
<1>4. CASE ~keysEnabled \/ field \/ key = "x"
  BY <1>2, <1>4 DEF HandleOuter
<1>5. CASE ~(~keysEnabled \/ field \/ key = "x")
  <2>1. CASE ~page.ignore /\ key = "j"
    <3>1. <<"item">> \in Address
      BY DEF Address
    <3>2. OuterLeaves([q EXCEPT !.goes = <<"item">>], field)
      BY <3>1, <1>3, <1>5, <2>1 DEF OuterLeaves, Page
    <3> QED  BY <1>5, <2>1, <3>2 DEF HandleOuter, help
  <2>2. CASE ~page.ignore /\ key # "j" /\ key \in ShortcutType
    <3> DEFINE p == [q EXCEPT !.ignore = TRUE, !.begun = box, !.boxes = @ \union {box},
                              !.handlers = Append(@, h)]
    <3>1. box \in 0..MaxBoxes /\ box \in Box
      BY <2>2, ShortcutsAssumption DEF Page, Box
    <3>2. h \in Handler
      BY <3>1, <2>2 DEF Handler
    <3>3. Append(page.handlers, h) \in Seq(Handler)
      BY <3>2 DEF Page
    <3>4. OuterBegins(p, key, field)
      <4> HIDE DEF h, box
      <4>1. /\ p.ignore = TRUE /\ p.begun = box /\ p.boxes = page.boxes \union {box}
            /\ p.handlers = Append(page.handlers, h) /\ p.sequence = page.sequence
            /\ p.goes = <<>>
        BY DEF Page
      <4>2. p \in Page
        BY <3>1, <3>3, <1>3 DEF Page
      <4> QED  BY <4>1, <4>2, <3>1, <2>2, <1>5 DEF OuterBegins, h, box
    <3>5. HandleOuter(page, key, field) = p
      BY <1>5, <2>2 DEF HandleOuter, help, Inner
    <3> QED  BY <3>4, <3>5
  <2>3. CASE ~(~page.ignore /\ key = "j") /\ ~(~page.ignore /\ key \in ShortcutType)
    BY <1>3, <1>5, <2>3 DEF HandleOuter, help
  <2> QED  BY <2>1, <2>2, <2>3
<1> QED  BY <1>4, <1>5

(* An inner handler is reset by a key in a field, collects a digit, or ends *)
(* with any other key.                                                      *)
InnerReset(p, q, box) ==
    /\ q \in Page /\ q.handlers = p.handlers /\ ~q.ignore /\ q.boxes = p.boxes \ {box}
    /\ q.begun = p.begun /\ q.goes = p.goes

InnerCollects(p, q) ==
    /\ q \in Page /\ q.handlers = p.handlers /\ q.ignore = p.ignore /\ q.boxes = p.boxes
    /\ q.begun = p.begun /\ q.goes = p.goes

InnerEnds(p, q, type, box) ==
    /\ q \in Page /\ q.handlers = <<Outer>> /\ ~q.ignore /\ q.boxes = p.boxes \ {box}
    /\ q.begun = p.begun
    /\ q.goes \in {p.goes, <<type>> \o p.sequence[box]}

LEMMA InnerHandles ==
    ASSUME NEW key \in Key, NEW field \in BOOLEAN, NEW p \in Page,
           NEW type \in ShortcutType, NEW box \in Box
    PROVE  LET q == HandleInner(p, Inner(type, box), key, field)
           IN  \/ field /\ InnerReset(p, q, box)
               \/ ~field /\ key \in Digit /\ InnerCollects(p, q)
               \/ ~field /\ key \notin Digit /\ InnerEnds(p, q, type, box)
<1> DEFINE h == Inner(type, box)
           q == [p EXCEPT !.boxes = @ \ {box}, !.sequence[box] = <<>>]
           address == <<type>> \o p.sequence[box]
<1>1. h.box = box /\ h.type = type /\ h.oldFunc = Outer
  BY DEF Inner
<1>2. p.sequence \in [Box -> Seq(Digit)] /\ p.sequence[box] \in Seq(Digit)
  BY DEF Page
<1>3. <<>> \in Seq(Digit)
  OBVIOUS
<1>4. [p.sequence EXCEPT ![box] = <<>>] \in [Box -> Seq(Digit)]
  BY <1>2, <1>3
<1>5. /\ q \in Page /\ q.handlers = p.handlers /\ q.boxes = p.boxes \ {box}
      /\ q.begun = p.begun /\ q.goes = p.goes /\ q.ignore = p.ignore
  BY <1>4 DEF Page
<1>6. address \in Address
  <2>1. <<type>> \in Seq(ShortcutType \union Digit \union {"item"})
    OBVIOUS
  <2>2. p.sequence[box] \in Seq(ShortcutType \union Digit \union {"item"})
    BY <1>2
  <2> QED  BY <2>1, <2>2 DEF Address
<1> HIDE DEF q, h, address
<1>7. CASE field
  <2>1. HandleInner(p, h, key, field) = [q EXCEPT !.ignore = FALSE]
    BY <1>1, <1>7 DEF HandleInner, q
  <2>2. InnerReset(p, [q EXCEPT !.ignore = FALSE], box)
    BY <1>5 DEF InnerReset, Page
  <2> QED  BY <1>7, <2>1, <2>2 DEF h
<1>8. CASE ~field /\ key \in Digit
  <2> DEFINE r == [p EXCEPT !.sequence[box] = Append(@, key)]
  <2>1. HandleInner(p, h, key, field) = r
    BY <1>1, <1>8 DEF HandleInner
  <2>2. Append(p.sequence[box], key) \in Seq(Digit)
    BY <1>2, <1>8
  <2>3. [p.sequence EXCEPT ![box] = Append(@, key)] \in [Box -> Seq(Digit)]
    BY <1>2, <2>2
  <2>4. InnerCollects(p, r)
    BY <2>3 DEF InnerCollects, Page
  <2> QED  BY <1>8, <2>1, <2>4 DEF h
<1>9. CASE ~field /\ key \notin Digit
  <2> DEFINE goes == IF key = "Enter" THEN address ELSE p.goes
             r == [q EXCEPT !.ignore = FALSE, !.handlers = <<Outer>>, !.goes = goes]
  <2>1. HandleInner(p, h, key, field) = r
    BY <1>1, <1>5, <1>9 DEF HandleInner, q, address, StopsIgnoring, Reattached, AddressOf
  <2>2. goes \in Address /\ goes \in {p.goes, address}
    BY <1>6 DEF Page
  <2>3. <<Outer>> \in Seq(Handler)
    BY DEF Handler
  <2> HIDE DEF goes
  <2>4. InnerEnds(p, r, type, box)
    BY <1>5, <2>2, <2>3 DEF InnerEnds, Page, address
  <2> QED  BY <1>9, <2>1, <2>4 DEF h
<1> QED  BY <1>7, <1>8, <1>9

(* A shortcut is begun just when an inner handler is attached.              *)
LEMMA BegunOrNot ==
    /\ page.handlers = <<Outer>> => ~Begun
    /\ \A type \in ShortcutType, box \in Box :
           page.handlers = <<Outer, Inner(type, box)>> => Begun
<1>1. Outer.name = "outer"
  BY DEF Outer
<1>2. \A type, box : Inner(type, box).name = "inner"
  BY DEF Inner
<1> QED  BY <1>1, <1>2 DEF Begun

(* The box of a shortcut that is begun shows its first key and the number.  *)
LEMMA BoxTextOf ==
    ASSUME NEW type \in ShortcutType, NEW box \in Box, page \in Page,
           page.handlers = <<Outer, Inner(type, box)>>
    PROVE  /\ box \in page.boxes => BoxText = <<type>> \o page.sequence[box]
           /\ BoxText \in Address
<1> DEFINE h == Inner(type, box)
           shown == {g \in Range(page.handlers) : g.name = "inner" /\ g.box \in page.boxes}
<1>1. Outer.name = "outer" /\ h.name = "inner" /\ h.box = box /\ h.type = type
  BY DEF Outer, Inner
<1> HIDE DEF h
<1>2. Range(page.handlers) = {Outer, h}
  BY DEF Range, h
<1>3. CASE box \in page.boxes
  <2>1. shown = {h}
    BY <1>1, <1>2, <1>3
  <2>2. Cardinality(shown) = 1 /\ (CHOOSE g \in shown : TRUE) = h
    BY <2>1, FS_Singleton
  <2> HIDE DEF shown
  <2>3. BoxText = <<type>> \o page.sequence[box]
    BY <1>1, <2>2 DEF BoxText, shown
  <2>4. <<type>> \in Seq(ShortcutType \union Digit \union {"item"})
    OBVIOUS
  <2>5. page.sequence[box] \in Seq(ShortcutType \union Digit \union {"item"})
    BY DEF Page
  <2> QED  BY <2>3, <2>4, <2>5 DEF Address
<1>4. CASE box \notin page.boxes
  <2>1. shown = {}
    BY <1>1, <1>2, <1>4
  <2> HIDE DEF shown
  <2>2. Cardinality(shown) = 0
    BY <2>1, FS_EmptySet
  <2>3. BoxText = <<>>
    BY <2>2 DEF BoxText, shown
  <2> QED  BY <1>4, <2>3 DEF Address
<1> QED  BY <1>3, <1>4

LEMMA AppendToOne == ASSUME NEW a, NEW b PROVE Append(<<a>>, b) = <<a, b>>
<1>1. <<a>> \in Seq({a, b}) /\ <<a, b>> \in Seq({a, b})
  OBVIOUS
<1>2. Append(<<a>>, b) \in Seq({a, b}) /\ Len(Append(<<a>>, b)) = 2
  BY <1>1
<1>3. Append(<<a>>, b)[1] = a /\ Append(<<a>>, b)[2] = b
  BY <1>1
<1>4. \A i \in 1..2 : Append(<<a>>, b)[i] = <<a, b>>[i]
  BY <1>3
<1> QED  BY <1>1, <1>2, <1>4, SeqEqual

(* What a key makes of the page, whichever handlers are attached.           *)
LEMMA KeyDownInv ==
    ASSUME ShortcutsInv, NEW key \in Key, NEW field \in BOOLEAN, KeyDown(key, field)
    PROVE  ShortcutsInv'
<1> DEFINE p == HandleOuter(page, key, field)
           end == Dispatch(key, field)
<1>1. /\ page \in Page /\ page.goes = <<>> /\ page.boxes \subseteq 1..page.begun
      /\ page.begun \in Nat /\ keysEnabled \in BOOLEAN /\ typedInField \in BOOLEAN
  BY DEF ShortcutsInv, Page
<1>2. /\ page' = [end EXCEPT !.goes = <<>>]
      /\ location' = end.goes
      /\ boxThen' = IF end.goes \in {<<>>, <<"item">>} THEN end.goes ELSE BoxText
      /\ typedInField' = (typedInField \/ (field /\ Begun))
      /\ keysEnabled' = keysEnabled
      /\ page.begun < MaxBoxes \/ key \notin ShortcutType
  BY DEF KeyDown
<1>3. Len(page.handlers) > 0 /\ Head(page.handlers) = Outer
  <2>1. /\ Len(<<Outer>>) > 0 /\ Head(<<Outer>>) = Outer
        /\ \A h : Len(<<Outer, h>>) > 0 /\ Head(<<Outer, h>>) = Outer
    OBVIOUS
  <2> QED  BY <2>1 DEF ShortcutsInv, NothingBegun, BegunWith
<1>4. OuterLeaves(p, field) \/ OuterBegins(p, key, field)
  BY <1>1, <1>2, <1>3, OuterHandles
<1>5. <<>> \in Address /\ <<"item">> \in Address
  BY DEF Address
<1> HIDE DEF p, end
(* It suffices to know the handlers, the box and the address at the end.    *)
<1>6. ASSUME end \in Page, end.boxes \subseteq 1..end.begun,
             NothingBegun' \/ \E type \in ShortcutType, box \in Box : BegunWith(type, box)',
             boxThen' \in Address, ~typedInField' => end.goes = boxThen'
      PROVE  ShortcutsInv'
  <2>1. /\ page' \in Page /\ page'.goes = <<>>
        /\ page'.boxes = end.boxes /\ page'.begun = end.begun
    BY <1>2, <1>5, <1>6 DEF Page
  <2>2. location' \in Address
    BY <1>2, <1>6 DEF Page
  <2>3. typedInField' \in BOOLEAN
    BY <1>1, <1>2
  <2> QED
    BY <1>1, <1>2, <1>6, <2>1, <2>2, <2>3 DEF ShortcutsInv, GoesWhereBoxSays
<1>7. ASSUME end \in Page
      PROVE  /\ page'.handlers = end.handlers /\ page'.ignore = end.ignore
             /\ page'.boxes = end.boxes
  BY <1>2, <1>7 DEF Page
<1>8. CASE NothingBegun
  <2>1. end = p
    BY <1>8, DispatchToOne DEF NothingBegun, end, p
  <2>2. typedInField' = typedInField
    BY <1>1, <1>2, <1>8, BegunOrNot DEF NothingBegun
  <2>3. CASE OuterLeaves(p, field)
    <3>1. NothingBegun'
      BY <2>1, <2>2, <2>3, <1>7, <1>8 DEF OuterLeaves, NothingBegun
    <3>2. end.goes \in {<<>>, <<"item">>}
      BY <2>1, <2>3 DEF OuterLeaves
    <3>3. boxThen' = end.goes
      BY <3>2, <1>2
    <3> QED  BY <1>1, <1>5, <1>6, <2>1, <2>3, <3>1, <3>2, <3>3 DEF OuterLeaves
  <2>4. CASE OuterBegins(p, key, field)
    <3>0. PICK box \in Box : box = p.begun
      BY <2>4 DEF OuterBegins
    <3>1. p.handlers = <<Outer, Inner(key, box)>>
      <4>1. Append(<<Outer>>, Inner(key, box)) = <<Outer, Inner(key, box)>>
        BY AppendToOne
      <4> QED  BY <1>8, <2>4, <3>0, <4>1 DEF OuterBegins, NothingBegun
    <3>2. key \in ShortcutType /\ BegunWith(key, box)'
      <4>1. end \in Page /\ key \in ShortcutType
        BY <2>1, <2>4 DEF OuterBegins
      <4>2. page'.handlers = <<Outer, Inner(key, box)>>
        BY <1>7, <2>1, <3>1, <4>1
      <4>3. p.ignore /\ p.boxes = page.boxes \union {box}
        BY <2>4, <3>0 DEF OuterBegins
      <4>4. ~typedInField => page.boxes = {}
        BY <1>8 DEF NothingBegun
      <4>5. ~typedInField' => page'.ignore /\ page'.boxes = {box}
        BY <1>7, <2>1, <2>2, <4>1, <4>3, <4>4
      <4> QED  BY <4>1, <4>2, <4>5 DEF BegunWith
    <3>3. p.boxes \subseteq 1..p.begun
      BY <1>1, <2>4 DEF OuterBegins
    <3>4. end.goes = <<>> /\ boxThen' = <<>>
      BY <1>2, <2>1, <2>4 DEF OuterBegins
    <3> QED  BY <1>5, <1>6, <2>1, <2>4, <3>2, <3>3, <3>4 DEF OuterBegins
  <2> QED  BY <1>4, <2>3, <2>4
<1>9. ASSUME NEW type \in ShortcutType, NEW box \in Box, BegunWith(type, box)
      PROVE  ShortcutsInv'
  <2> DEFINE h == Inner(type, box)
  <2>1. end = HandleInner(p, h, key, field)
    <3>1. h.name = "inner" /\ page.handlers = <<Outer, h>>
      BY <1>9 DEF BegunWith, Inner
    <3> QED  BY <3>1, DispatchToTwo DEF end, p
  <2>2. p \in Page
    BY <1>4 DEF OuterLeaves, OuterBegins
  <2>3. \/ field /\ InnerReset(p, end, box)
        \/ ~field /\ key \in Digit /\ InnerCollects(p, end)
        \/ ~field /\ key \notin Digit /\ InnerEnds(p, end, type, box)
    BY <2>1, <2>2, InnerHandles
  <2>4. typedInField' = (typedInField \/ field)
    BY <1>2, <1>9, BegunOrNot DEF BegunWith
  <2>5. end \in Page
    BY <2>3 DEF InnerReset, InnerCollects, InnerEnds
  <2>6. p.sequence = page.sequence
    BY <1>4 DEF OuterLeaves, OuterBegins
  <2>7. BoxText \in Address
    BY <1>1, <1>9, BoxTextOf DEF BegunWith
  <2>8. boxThen' \in Address
    BY <1>2, <1>5, <2>7
  <2>9. end.boxes \subseteq 1..end.begun
    BY <1>1, <1>4, <2>3
    DEF OuterLeaves, OuterBegins, InnerReset, InnerCollects, InnerEnds
  <2>10. p.goes \in {<<>>, <<"item">>}
    BY <1>4 DEF OuterLeaves, OuterBegins
  <2>11. CASE OuterLeaves(p, field) /\ field /\ InnerReset(p, end, box)
    <3>1. typedInField'
      BY <1>1, <2>4, <2>11
    <3>2. BegunWith(type, box)'
      <4>1. page'.handlers = <<Outer, Inner(type, box)>>
        BY <1>7, <1>9, <2>5, <2>11 DEF BegunWith, OuterLeaves, InnerReset
      <4> QED  BY <3>1, <4>1 DEF BegunWith
    <3> QED  BY <1>6, <2>5, <2>8, <2>9, <3>1, <3>2
  <2>12. CASE OuterLeaves(p, field) /\ ~field /\ InnerCollects(p, end)
    <3>1. BegunWith(type, box)'
      <4>1. page'.handlers = <<Outer, Inner(type, box)>>
        BY <1>7, <1>9, <2>5, <2>12 DEF BegunWith, OuterLeaves, InnerCollects
      <4>2. ~typedInField' => page'.ignore /\ page'.boxes = {box}
        BY <1>7, <1>9, <2>4, <2>5, <2>12 DEF BegunWith, OuterLeaves, InnerCollects
      <4> QED  BY <4>1, <4>2 DEF BegunWith
    <3>2. end.goes = boxThen'
      BY <1>2, <2>10, <2>12 DEF InnerCollects
    <3> QED  BY <1>6, <2>5, <2>8, <2>9, <3>1, <3>2
  <2>13. CASE ~field /\ InnerEnds(p, end, type, box)
    <3>1. typedInField' = typedInField
      BY <1>1, <2>4, <2>13
    <3>2. ASSUME ~typedInField PROVE OuterLeaves(p, field) /\ p.boxes = {box}
      BY <1>4, <1>9, <3>2 DEF BegunWith, OuterLeaves, OuterBegins
    <3>3. NothingBegun'
      <4>1. page'.handlers = <<Outer>> /\ ~page'.ignore
        BY <1>7, <2>5, <2>13 DEF InnerEnds
      <4>2. ~typedInField => page'.boxes = {}
        BY <1>7, <2>5, <2>13, <3>2 DEF InnerEnds
      <4> QED  BY <3>1, <4>1, <4>2 DEF NothingBegun
    <3>4. ASSUME ~typedInField PROVE end.goes = boxThen'
      <4>1. page.boxes = {box}
        BY <1>9, <3>4 DEF BegunWith
      <4>2. BoxText = <<type>> \o page.sequence[box]
        BY <1>1, <1>9, <4>1, BoxTextOf DEF BegunWith
      <4>3. end.goes \in {<<>>, <<"item">>} \/ end.goes = BoxText
        BY <2>6, <2>10, <2>13, <4>2 DEF InnerEnds
      <4> QED  BY <1>2, <4>3
    <3> QED  BY <1>6, <2>5, <2>8, <2>9, <3>1, <3>3, <3>4
  <2>14. key \in ShortcutType => key \notin Digit
    BY ShortcutsAssumption
  <2>15. OuterBegins(p, key, field) => ~field /\ key \notin Digit
    BY <2>14 DEF OuterBegins
  <2> QED  BY <1>4, <2>3, <2>11, <2>12, <2>13, <2>15
<1> QED  BY <1>8, <1>9 DEF ShortcutsInv

LEMMA NextShortcutsInv == ShortcutsInv /\ [ShortcutsNext]_shortcutVars => ShortcutsInv'
<1> SUFFICES ASSUME ShortcutsInv, [ShortcutsNext]_shortcutVars PROVE ShortcutsInv'
  OBVIOUS
<1>1. CASE LoadJuryPage
  <2>1. /\ page' \in Page /\ page'.goes = <<>> /\ page'.boxes \subseteq 1..page'.begun
        /\ NothingBegun'
    BY <1>1, NewPageIsPage DEF LoadJuryPage, NothingBegun
  <2>2. <<>> \in Address
    BY DEF Address
  <2> QED  BY <1>1, <2>1, <2>2 DEF LoadJuryPage, ShortcutsInv, GoesWhereBoxSays
<1>2. CASE enableKeys \/ disableKeys \/ UNCHANGED shortcutVars
  BY <1>2 DEF enableKeys, disableKeys, shortcutVars, ShortcutsInv, NothingBegun, BegunWith,
              GoesWhereBoxSays
<1>3. ASSUME NEW key \in Key, NEW field \in BOOLEAN, KeyDown(key, field)
      PROVE  ShortcutsInv'
  BY <1>3, KeyDownInv
<1> QED  BY <1>1, <1>2, <1>3 DEF ShortcutsNext

(* What the list of handlers and the boxes look like to the user.           *)
LEMMA ShortcutsInvImplies == ShortcutsInv => ShortcutsTypeOK /\ ShortcutsInOrder
<1> SUFFICES ASSUME ShortcutsInv PROVE ShortcutsTypeOK /\ ShortcutsInOrder
  OBVIOUS
<1> DEFINE Named(n) == {i \in DOMAIN page.handlers : page.handlers[i].name = n}
<1>1. Outer.name = "outer" /\ \A type, box : Inner(type, box).name = "inner"
  BY DEF Outer, Inner
<1>2. CASE NothingBegun
  <2>1. DOMAIN page.handlers = {1} /\ page.handlers[1].name = "outer"
    BY <1>1, <1>2 DEF NothingBegun
  <2>2. Named("outer") = {1} /\ Named("inner") = {}
    BY <2>1
  <2> HIDE DEF Named
  <2>3. Cardinality(Named("outer")) = 1 /\ Cardinality(Named("inner")) = 0
    BY <2>2, FS_EmptySet, FS_Singleton
  <2>4. HeardOnce
    BY <2>3 DEF HeardOnce, Named
  <2>5. BoxWhileBegun
    BY <1>2, BegunOrNot, FS_EmptySet DEF BoxWhileBegun, NothingBegun
  <2>6. ShortcutsTypeOK
    BY <2>1 DEF ShortcutsInv, ShortcutsTypeOK, Page
  <2> QED  BY <2>4, <2>5, <2>6 DEF ShortcutsInOrder, ShortcutsInv
<1>3. ASSUME NEW type \in ShortcutType, NEW box \in Box, BegunWith(type, box)
      PROVE  ShortcutsTypeOK /\ ShortcutsInOrder
  <2>1. /\ DOMAIN page.handlers = {1, 2}
        /\ page.handlers[1].name = "outer" /\ page.handlers[2].name = "inner"
    BY <1>1, <1>3 DEF BegunWith
  <2>2. Named("outer") = {1} /\ Named("inner") = {2}
    BY <2>1
  <2> HIDE DEF Named
  <2>3. Cardinality(Named("outer")) = 1 /\ Cardinality(Named("inner")) = 1
    BY <2>2, FS_Singleton
  <2>4. HeardOnce
    BY <2>3 DEF HeardOnce, Named
  <2>5. BoxWhileBegun
    BY <1>3, BegunOrNot, FS_Singleton DEF BoxWhileBegun, BegunWith
  <2>6. ShortcutsTypeOK
    BY <2>1 DEF ShortcutsInv, ShortcutsTypeOK, Page
  <2> QED  BY <2>4, <2>5, <2>6 DEF ShortcutsInOrder, ShortcutsInv
<1> QED  BY <1>2, <1>3 DEF ShortcutsInv

(* However shortcuts are begun, typed and ended, with keys in fields and    *)
(* shortcuts switched on and off in between, the handlers stay one outer    *)
(* and at most one inner one, and the browser goes where the box says.      *)
THEOREM ShortcutsComeInOrder == ShortcutsSpec => [](ShortcutsTypeOK /\ ShortcutsInOrder)
  BY InitShortcutsInv, NextShortcutsInv, ShortcutsInvImplies, PTL DEF ShortcutsSpec

----------------------------------------------------------------------------
(* Favourite teams.                                                         *)

(* No entry of a list comes twice.                                          *)
NoneTwice(list) == \A i, k \in 1..Len(list) : list[i] = list[k] => i = k

(* One step of the loop that copies.                                        *)
CopyOne(copies, x, kept) == IF x \in kept THEN Append(copies, x) ELSE copies

CopySteps(list, kept, E) ==
    [i \in 1..Len(list) |-> [a \in Seq(E) |-> CopyOne(a, list[i], kept)]]

(* FoldLeft runs through the list in its order.                             *)
LEMMA CopyRuns ==
    ASSUME NEW E, NEW list \in Seq(E), NEW kept
    PROVE  \E acc : /\ IsRun(acc, Len(list), Seq(E), <<>>, CopySteps(list, kept, E))
                    /\ Copied(list, kept) = acc[Len(list)]
<1> DEFINE n == Len(list)
           h == CopySteps(list, kept, E)
           Fold(f) == f = [d \in SUBSET (DOMAIN list) |->
                               IF d = {} THEN <<>>
                               ELSE CopyOne(f[d \ {Max(d)}], list[Max(d)], kept)]
           F == CHOOSE f : Fold(f)
<1>1. <<>> \in Seq(E) /\ n \in Nat /\ DOMAIN list = 1..n
  OBVIOUS
<1>2. /\ h \in Steps(1..n, Seq(E))
      /\ \A i \in 1..n : \A a \in Seq(E) : h[i][a] = CopyOne(a, list[i], kept)
  <2>1. \A i \in 1..n : \A a \in Seq(E) : CopyOne(a, list[i], kept) \in Seq(E)
    BY DEF CopyOne
  <2> QED  BY <2>1 DEF CopySteps, Steps
<1>3. Copied(list, kept) = F[DOMAIN list]
  BY DEF Copied, FoldLeft, MapThenFoldSet, CopyOne
<1> HIDE DEF h, n
<1>4. PICK f : IsFold(f, 1..n, Seq(E), <<>>, h)
  <2>1. 1..n \in SUBSET (0..n)
    BY <1>1
  <2> QED  BY <1>1, <1>2, <2>1, FoldExists
<1>5. Fold(f)
  <2>1. ASSUME NEW d \in SUBSET (1..n), d # {}
        PROVE  f[d] = CopyOne(f[d \ {Max(d)}], list[Max(d)], kept)
    <3>1. Max(d) \in 1..n
      <4>1. d \subseteq 0..n
        BY <1>1
      <4>2. Max(d) \in d
        BY <1>1, <2>1, <4>1, BoundedHasMax
      <4> QED  BY <4>2
    <3>2. f[d \ {Max(d)}] \in Seq(E)
      BY <1>4 DEF IsFold
    <3>3. f[d] = h[Max(d)][f[d \ {Max(d)}]]
      BY <1>4, <2>1 DEF IsFold
    <3> QED  BY <1>2, <3>1, <3>2, <3>3
  <2>2. f = [d \in SUBSET (1..n) |-> f[d]] /\ f[{}] = <<>>
    BY <1>4 DEF IsFold
  <2> QED  BY <1>1, <2>1, <2>2
<1>6. Fold(F)
  <2> HIDE DEF Fold
  <2> QED  BY <1>5
<1> HIDE DEF F
<1>7. F[{}] = <<>>
  BY <1>6
<1>8. ASSUME NEW k \in 1..n, F[1..(k - 1)] \in Seq(E)
      PROVE  F[1..k] = h[k][F[1..(k - 1)]]
  <2>1. 1..k # {} /\ Max(1..k) = k /\ (1..k) \ {Max(1..k)} = 1..(k - 1)
    <3>1. k \in Nat /\ k # 0
      BY <1>1
    <3> QED  BY <3>1, LastPlace
  <2>2. 1..k \in SUBSET (DOMAIN list)
    BY <1>1
  <2>3. F[1..k] = CopyOne(F[1..(k - 1)], list[k], kept)
    BY <1>6, <2>1, <2>2
  <2> QED  BY <1>2, <1>8, <2>3
<1> HIDE DEF Fold
<1>9. PICK acc : IsRun(acc, n, Seq(E), <<>>, h) /\ acc[n] = F[1..n]
  <2>1. TakesSteps(F, n, Seq(E), <<>>, h)
    BY <1>7, <1>8 DEF TakesSteps
  <2> DEFINE A == Seq(E)
             none == <<>>
  <2>2. n \in Nat /\ none \in A /\ h \in Steps(1..n, A) /\ TakesSteps(F, n, A, none, h)
    BY <1>1, <1>2, <2>1
  <2> HIDE DEF A, none
  <2>3. \E acc : IsRun(acc, n, A, none, h) /\ acc[n] = F[1..n]
    BY <2>2, FoldSteps
  <2> QED  BY <2>3 DEF A, none
<1> QED  BY <1>1, <1>3, <1>9 DEF h, n

(* The loop invariant: a holds the entries of the first k places that are   *)
(* kept.                                                                    *)
CopyInv(list, kept, k, a) ==
    /\ \A x : x \in Range(a) <=> x \in kept /\ \E i \in 1..k : list[i] = x
    /\ Len(a) = Cardinality({i \in 1..k : list[i] \in kept})
    /\ NoneTwice(list) => NoneTwice(a)

LEMMA CopyOneInv ==
    ASSUME NEW E, NEW list \in Seq(E), NEW kept, NEW k \in 1..Len(list),
           NEW a \in Seq(E), CopyInv(list, kept, k - 1, a)
    PROVE  CopyInv(list, kept, k, CopyOne(a, list[k], kept))
<1> DEFINE b == CopyOne(a, list[k], kept)
           P(j) == {i \in 1..j : list[i] \in kept}
<1>1. k \in Nat /\ k - 1 \in Nat /\ 1..k = (1..(k - 1)) \union {k} /\ k \notin 1..(k - 1)
  OBVIOUS
<1>2. CASE list[k] \notin kept
  <2>1. b = a
    BY <1>2 DEF CopyOne
  <2>2. P(k) = P(k - 1)
    BY <1>1, <1>2
  <2> HIDE DEF P
  <2>3. Len(a) = Cardinality(P(k))
    BY <2>2 DEF CopyInv, P
  <2>4. \A x : x \in Range(a) <=> x \in kept /\ \E i \in 1..k : list[i] = x
    BY <1>1, <1>2 DEF CopyInv
  <2> QED  BY <2>1, <2>3, <2>4 DEF CopyInv, P
<1>3. CASE list[k] \in kept
  <2>1. b = Append(a, list[k]) /\ list[k] \in E
    BY <1>3 DEF CopyOne
  <2>2. /\ b \in Seq(E) /\ Len(b) = Len(a) + 1 /\ b[Len(a) + 1] = list[k]
        /\ \A i \in 1..Len(a) : b[i] = a[i]
    BY <2>1
  <2> HIDE DEF b
  <2>3. P(k) = P(k - 1) \union {k} /\ k \notin P(k - 1)
    BY <1>1, <1>3
  <2>4. IsFiniteSet(P(k - 1))
    <3>1. IsFiniteSet(1..(k - 1)) /\ P(k - 1) \subseteq 1..(k - 1)
      BY <1>1, FS_Interval
    <3> HIDE DEF P
    <3> QED  BY <3>1, FS_Subset
  <2> HIDE DEF P
  <2>5. Cardinality(P(k)) = Cardinality(P(k - 1)) + 1
    BY <2>3, <2>4, FS_AddElement
  <2>6. Len(b) = Cardinality(P(k))
    BY <2>2, <2>5 DEF CopyInv, P
  <2>7. \A x : x \in Range(b) <=> x \in Range(a) \/ x = list[k]
    <3>1. DOMAIN b = 1..(Len(a) + 1) /\ DOMAIN a = 1..Len(a) /\ Len(a) \in Nat
      BY <2>2
    <3>2. \A i \in 1..(Len(a) + 1) : i \in 1..Len(a) \/ i = Len(a) + 1
      BY <3>1
    <3>3. \A i \in 1..Len(a) : i \in 1..(Len(a) + 1)
      BY <3>1
    <3>4. Len(a) + 1 \in 1..(Len(a) + 1)
      BY <3>1
    <3> QED  BY <2>2, <3>1, <3>2, <3>3, <3>4 DEF Range
  <2>8. \A x : x \in Range(b) <=> x \in kept /\ \E i \in 1..k : list[i] = x
    BY <1>1, <1>3, <2>7 DEF CopyInv
  <2>9. ASSUME NoneTwice(list) PROVE NoneTwice(b)
    <3>1. NoneTwice(a)
      BY <2>9 DEF CopyInv
    <3>2. list[k] \notin Range(a)
      <4>1. \A i \in 1..(k - 1) : i \in 1..Len(list) /\ i # k
        BY <1>1
      <4>2. \A i \in 1..(k - 1) : list[i] # list[k]
        BY <2>9, <4>1 DEF NoneTwice
      <4> QED  BY <4>2 DEF CopyInv
    <3>3. \A i \in 1..Len(a) : a[i] # list[k]
      BY <3>2 DEF Range
    <3>4. \A i \in 1..Len(b) : i \in 1..Len(a) \/ i = Len(a) + 1
      BY <2>2
    <3> QED  BY <2>2, <3>1, <3>3, <3>4 DEF NoneTwice
  <2> QED  BY <2>6, <2>8, <2>9 DEF CopyInv, P, b
<1> QED  BY <1>2, <1>3

(* What the loop copies: the kept entries, each once for every place.       *)
LEMMA CopiedEntries ==
    ASSUME NEW E, NEW list \in Seq(E), NEW kept
    PROVE  Copied(list, kept) \in Seq(E) /\ CopyInv(list, kept, Len(list), Copied(list, kept))
<1> DEFINE n == Len(list)
<1>1. PICK acc : /\ IsRun(acc, n, Seq(E), <<>>, CopySteps(list, kept, E))
                 /\ Copied(list, kept) = acc[n]
  BY CopyRuns
<1>2. n \in Nat /\ n \in 0..n
  OBVIOUS
<1> DEFINE T == {k \in 0..n : ~CopyInv(list, kept, k, acc[k])}
<1>3. T = {}
  <2> SUFFICES ASSUME T # {} PROVE FALSE
    OBVIOUS
  <2>1. PICK k \in T : \A j \in T : ~(<<j, k>> \in OpToRel(<, Nat))
    <3>1. T \subseteq Nat
      OBVIOUS
    <3> HIDE DEF T
    <3> QED  BY <3>1, NatLessThanWellFounded, WFMin
  <2>2. k \in 0..n /\ ~CopyInv(list, kept, k, acc[k])
    OBVIOUS
  <2>3. k # 0
    <3>1. {i \in 1..0 : list[i] \in kept} = {} /\ Range(<<>>) = {} /\ Len(<<>>) = 0
      BY DEF Range
    <3>2. Cardinality({i \in 1..0 : list[i] \in kept}) = 0
      BY <3>1, FS_EmptySet
    <3>3. NoneTwice(<<>>)
      BY DEF NoneTwice
    <3>4. CopyInv(list, kept, 0, <<>>)
      BY <3>1, <3>2, <3>3 DEF CopyInv
    <3> QED  BY <1>1, <2>2, <3>4 DEF IsRun
  <2>4. k - 1 \in 0..n /\ k \in 1..n /\ <<k - 1, k>> \in OpToRel(<, Nat)
    BY <1>2, <2>2, <2>3 DEF OpToRel
  <2>5. CopyInv(list, kept, k - 1, acc[k - 1])
    BY <2>1, <2>4
  <2>6. acc[k - 1] \in Seq(E)
    BY <1>1, <2>4 DEF IsRun
  <2>7. acc[k] = CopyOne(acc[k - 1], list[k], kept)
    <3>1. acc[k] = CopySteps(list, kept, E)[k][acc[k - 1]]
      BY <1>1, <2>4 DEF IsRun
    <3> QED  BY <2>4, <2>6, <3>1 DEF CopySteps
  <2>8. CopyInv(list, kept, k, acc[k])
    BY <2>4, <2>5, <2>6, <2>7, CopyOneInv
  <2> QED  BY <2>2, <2>8
<1>4. acc[n] \in Seq(E) /\ CopyInv(list, kept, n, acc[n])
  BY <1>1, <1>2, <1>3 DEF IsRun
<1> QED  BY <1>1, <1>4

Row == [team : Team, id : Nat, show : BOOLEAN]

(* The rows of a board, with hearts that show or hide.                      *)
BoardRows(b, show) == [i \in 1..Len(b) |-> [team |-> b[i], id |-> i, show |-> show[i]]]

(* What a tab shows: the rows of a board below copies of those whose hearts *)
(* hide, whatever the favourites were when it was rendered.                 *)
RenderedAs(r, b, show, copies) ==
    /\ b \in Boards /\ show \in [1..Len(b) -> BOOLEAN] /\ copies \in Seq(Row)
    /\ r = copies \o BoardRows(b, show)
    /\ Len(copies) = Cardinality({i \in 1..Len(b) : ~show[i]})
    /\ \A m \in 1..Len(copies) : \E i \in 1..Len(b) : copies[m] = BoardRows(b, show)[i]

Rendered(r) == \E b, show, copies : RenderedAs(r, b, show, copies)

FavouritesInv ==
    /\ FavouritesTypeOK
    /\ \A tab \in ScoreboardTab : Rendered(rows[tab])
    /\ ~staleClick => NoneTwice(favTeams)

(* initFavouriteTeams() puts as many copies on top as it finds favourites.  *)
LEMMA InitRenders ==
    ASSUME NEW b \in Boards
    PROVE  initFavouriteTeams(b) \in Seq(Row) /\ Rendered(initFavouriteTeams(b))
<1> DEFINE show == [i \in 1..Len(b) |-> ~IsFavourite(b[i])]
           list == [i \in 1..Len(b) |-> TeamRow(b, i)]
           found == {row \in Range(list) : IsFavourite(row.team)}
           copies == Copied(list, found)
<1>1. b \in Seq(Team) /\ Len(b) \in Nat /\ \A i \in 1..Len(b) : b[i] \in Team
  BY FavouritesAssumption
<1>2. show \in [1..Len(b) -> BOOLEAN]
  BY DEF IsFavourite
<1>3. list = BoardRows(b, show)
  BY DEF TeamRow, BoardRows
<1>4. \A i \in 1..Len(b) : /\ list[i] = TeamRow(b, i) /\ list[i] \in Row
                           /\ list[i].team = b[i] /\ (~show[i] <=> IsFavourite(b[i]))
  <2> SUFFICES ASSUME NEW i \in 1..Len(b)
               PROVE  /\ list[i] = TeamRow(b, i) /\ list[i] \in Row
                      /\ list[i].team = b[i] /\ (~show[i] <=> IsFavourite(b[i]))
    OBVIOUS
  <2>1. show[i] = (~IsFavourite(b[i])) /\ (~IsFavourite(b[i])) \in BOOLEAN
    BY DEF IsFavourite
  <2> DEFINE flag == ~IsFavourite(b[i])
  <2>2. list[i] = [team |-> b[i], id |-> i, show |-> flag] /\ flag \in BOOLEAN
    BY <2>1 DEF TeamRow
  <2> HIDE DEF flag, list
  <2>3. list[i] \in Row /\ list[i].team = b[i]
    BY <1>1, <2>2 DEF Row
  <2> USE DEF list
  <2>4. IsFavourite(b[i]) \in BOOLEAN
    BY DEF IsFavourite
  <2> QED  BY <2>1, <2>3, <2>4
<1>5. list \in Seq(Row) /\ Len(list) = Len(b) /\ DOMAIN list = 1..Len(b)
  BY <1>1, <1>4
<1> HIDE DEF show, list
<1>6. copies \in Seq(Row) /\ CopyInv(list, found, Len(list), copies)
  BY <1>5, CopiedEntries
<1>7. \A i \in 1..Len(b) : list[i] \in found <=> ~show[i]
  BY <1>4, <1>5 DEF Range
<1>8. {i \in 1..Len(b) : list[i] \in found} = {i \in 1..Len(b) : ~show[i]}
  BY <1>7
<1>9. initFavouriteTeams(b) = copies \o list
  BY DEF initFavouriteTeams, list
<1> HIDE DEF copies, found
<1>10. Len(copies) = Cardinality({i \in 1..Len(b) : ~show[i]})
  BY <1>5, <1>6, <1>8 DEF CopyInv
<1>11. ASSUME NEW m \in 1..Len(copies)
       PROVE  \E i \in 1..Len(b) : copies[m] = BoardRows(b, show)[i]
  <2>1. copies[m] \in Range(copies)
    BY <1>6 DEF Range
  <2> QED  BY <1>3, <1>5, <1>6, <2>1 DEF CopyInv
<1>12. RenderedAs(copies \o list, b, show, copies)
  BY <1>2, <1>3, <1>6, <1>10, <1>11 DEF RenderedAs
<1> QED  BY <1>5, <1>6, <1>9, <1>12 DEF Rendered

(* In a tab that shows the stored favourites, the place that toggle() looks *)
(* up is that of the team whose heart was clicked.                          *)
LEMMA ClickedRow ==
    ASSUME FavouritesInv, NoneTwice(favTeams), NEW tab \in ScoreboardTab, ShowsStored(tab),
           NEW n \in 1..Len(rows[tab])
    PROVE  LET row == rows[tab][n]
               at == row.id + VisCnt(tab)
           IN  /\ at \in 1..Len(rows[tab]) /\ rows[tab][at].team = row.team
               /\ row.show <=> row.team \notin Range(favTeams)
<1> DEFINE r == rows[tab]
<1>1. PICK b, show, copies : RenderedAs(r, b, show, copies)
  BY DEF FavouritesInv, Rendered
<1> DEFINE c == Len(copies)
           I == {i \in 1..Len(favTeams) : \E m \in 1..Len(r) : r[m].team = favTeams[i]}
           J == {j \in 1..Len(b) : ~show[j]}
<1>2. /\ b \in Seq(Team) /\ Len(b) \in Nat /\ NoneTwice(b) /\ copies \in Seq(Row) /\ c \in Nat
      /\ \A i \in 1..Len(b) : b[i] \in Team /\ show[i] \in BOOLEAN
  <2>1. b \in Boards /\ show \in [1..Len(b) -> BOOLEAN] /\ copies \in Seq(Row)
    BY <1>1 DEF RenderedAs
  <2>2. b \in Seq(Team) /\ NoneTwice(b)
    BY <2>1, FavouritesAssumption DEF NoneTwice
  <2> QED  BY <2>1, <2>2
<1>3. /\ BoardRows(b, show) \in Seq(Row) /\ Len(BoardRows(b, show)) = Len(b)
      /\ \A i \in 1..Len(b) : BoardRows(b, show)[i] = [team |-> b[i], id |-> i, show |-> show[i]]
  BY <1>2 DEF BoardRows, Row
<1>4. r = copies \o BoardRows(b, show)
  BY <1>1 DEF RenderedAs
<1>5. /\ Len(r) = c + Len(b)
      /\ \A m \in 1..c : r[m] = copies[m]
      /\ \A i \in 1..Len(b) : r[i + c] = BoardRows(b, show)[i]
  <2> DEFINE list == BoardRows(b, show)
  <2> HIDE DEF list
  <2>1. list \in Seq(Row) /\ Len(list) = Len(b)
    BY <1>3 DEF list
  <2>2. /\ Len(copies \o list) = c + Len(b)
        /\ \A m \in 1..(c + Len(b)) :
               (copies \o list)[m] = IF m <= c THEN copies[m] ELSE list[m - c]
    <3>1. copies \in Seq(Row)
      BY <1>2
    <3>2. /\ Len(copies \o list) = Len(copies) + Len(list)
          /\ \A m \in 1..(Len(copies) + Len(list)) :
                 (copies \o list)[m] = IF m <= Len(copies) THEN copies[m]
                                       ELSE list[m - Len(copies)]
      BY <2>1, <3>1, ConcatProperties
    <3> QED  BY <2>1, <3>2
  <2>3. \A m \in 1..c : m \in 1..(c + Len(b)) /\ m <= c
    BY <1>2
  <2>4. \A i \in 1..Len(b) : i + c \in 1..(c + Len(b)) /\ ~(i + c <= c) /\ (i + c) - c = i
    BY <1>2
  <2> QED  BY <1>4, <2>2, <2>3, <2>4 DEF list
<1> HIDE DEF r
<1> DEFINE IsRow(row, i) == row.team = b[i] /\ row.id = i /\ row.show = show[i]
<1>6. \A i \in 1..Len(b) : i + c \in 1..Len(r) /\ IsRow(r[i + c], i)
  <2>1. ASSUME NEW i \in 1..Len(b) PROVE IsRow(BoardRows(b, show)[i], i)
    <3>1. BoardRows(b, show)[i] = [team |-> b[i], id |-> i, show |-> show[i]]
      BY <1>3
    <3> QED  BY <3>1
  <2>2. \A i \in 1..Len(b) : i + c \in 1..(c + Len(b))
    BY <1>2
  <2> HIDE DEF IsRow
  <2> QED  BY <1>5, <2>1, <2>2
<1>7. ASSUME NEW m \in 1..Len(r) PROVE \E i \in 1..Len(b) : IsRow(r[m], i)
  <2>1. CASE m \in 1..c
    <3>1. PICK i \in 1..Len(b) : r[m] = BoardRows(b, show)[i]
      BY <1>1, <1>5, <2>1 DEF RenderedAs
    <3>2. BoardRows(b, show)[i] = [team |-> b[i], id |-> i, show |-> show[i]]
      BY <1>3
    <3>3. IsRow(r[m], i)
      BY <3>1, <3>2
    <3> QED  BY <3>3
  <2>2. CASE m \notin 1..c
    <3>1. m - c \in 1..Len(b) /\ (m - c) + c = m
      BY <1>2, <1>5, <2>2
    <3> QED  BY <1>6, <3>1
  <2> QED  BY <2>1, <2>2
<1>8. \A i \in 1..Len(b) : show[i] <=> b[i] \notin Range(favTeams)
  <2>1. \A m \in 1..Len(r) : r[m].show = ~IsFavourite(r[m].team)
    BY DEF ShowsStored, r
  <2>2. ASSUME NEW i \in 1..Len(b) PROVE show[i] = (~IsFavourite(b[i]))
    <3>1. i + c \in 1..Len(r) /\ r[i + c].team = b[i] /\ r[i + c].show = show[i]
      BY <1>6
    <3>2. r[i + c].show = ~IsFavourite(r[i + c].team)
      BY <2>1, <3>1
    <3> QED  BY <3>1, <3>2
  <2> QED  BY <1>2, <2>2 DEF IsFavourite
<1>9. favTeams \in Seq(Team) /\ Len(favTeams) \in Nat /\ DOMAIN favTeams = 1..Len(favTeams)
  BY DEF FavouritesInv, FavouritesTypeOK
<1>10. IsFiniteSet(I)
  <2>1. IsFiniteSet(1..Len(favTeams)) /\ I \subseteq 1..Len(favTeams)
    BY <1>9, FS_Interval
  <2> HIDE DEF I
  <2> QED  BY <2>1, FS_Subset
<1>11. VisCnt(tab) = Cardinality(I)
  BY DEF VisCnt, r
<1>12. Cardinality(I) = Cardinality(J)
  <2> DEFINE f == [i \in I |-> CHOOSE j \in 1..Len(b) : b[j] = favTeams[i]]
  <2>1. ASSUME NEW i \in I
        PROVE  f[i] \in 1..Len(b) /\ b[f[i]] = favTeams[i] /\ f[i] \in J
    <3>1. PICK m \in 1..Len(r) : r[m].team = favTeams[i]
      OBVIOUS
    <3>2. PICK j \in 1..Len(b) : b[j] = favTeams[i]
      BY <1>7, <3>1
    <3>3. f[i] \in 1..Len(b) /\ b[f[i]] = favTeams[i]
      BY <3>2
    <3>4. favTeams[i] \in Range(favTeams)
      BY <1>9 DEF Range
    <3> QED  BY <1>8, <3>3, <3>4
  <2> HIDE DEF f
  <2>2. f \in [I -> J]
    <3>1. f = [i \in I |-> f[i]]
      BY DEF f
    <3> QED  BY <2>1, <3>1
  <2>3. \A i, k \in I : f[i] = f[k] => i = k
    BY <2>1 DEF NoneTwice
  <2>4. ASSUME NEW j \in J PROVE \E i \in I : f[i] = j
    <3>1. PICK i \in 1..Len(favTeams) : favTeams[i] = b[j]
      BY <1>8, <1>9 DEF Range
    <3>2. i \in I
      BY <1>6, <3>1
    <3>3. b[f[i]] = b[j] /\ f[i] \in 1..Len(b)
      BY <2>1, <3>1, <3>2
    <3> QED  BY <1>2, <3>2, <3>3 DEF NoneTwice
  <2>5. f \in Bijection(I, J)
    BY <2>2, <2>3, <2>4 DEF Bijection, Injection, Surjection, IsInjective
  <2> HIDE DEF I, J
  <2> QED  BY <1>10, <2>5, FS_Bijection DEF ExistsBijection
<1>13. Cardinality(J) = c
  BY <1>1 DEF RenderedAs
<1>14. PICK i \in 1..Len(b) : IsRow(r[n], i)
  BY <1>7 DEF r
<1>15. /\ r[n].team = b[i] /\ r[n].id = i /\ r[n].show = show[i]
       /\ r[i + c].team = b[i] /\ i + c \in 1..Len(r)
  BY <1>6, <1>14
<1> QED  BY <1>8, <1>11, <1>12, <1>13, <1>15 DEF r

LEMMA InitFavouritesInv == FavouritesInit => FavouritesInv
<1> SUFFICES ASSUME FavouritesInit PROVE FavouritesInv
  OBVIOUS
<1>1. board \in Boards /\ favTeams = <<>> /\ staleClick = FALSE /\ rendering = {}
  BY DEF FavouritesInit
<1>2. initFavouriteTeams(board) \in Seq(Row) /\ Rendered(initFavouriteTeams(board))
  BY <1>1, InitRenders
<1>3. /\ rows \in [ScoreboardTab -> Seq(Row)]
      /\ \A tab \in ScoreboardTab : Rendered(rows[tab])
  BY <1>2 DEF FavouritesInit
<1>4. NoneTwice(favTeams) /\ favTeams \in Seq(Team)
  BY <1>1 DEF NoneTwice
<1> QED  BY <1>1, <1>3, <1>4 DEF FavouritesInv, FavouritesTypeOK, Row

(* What a click makes of the list of favourites.                            *)
LEMMA ToggledList ==
    ASSUME FavouritesInv, NEW tab \in ScoreboardTab, NEW n \in 1..Len(rows[tab]),
           toggle(tab, n)
    PROVE  LET row == rows[tab][n]
           IN  /\ favTeams' \in Seq(Team)
               /\ ~staleClick' =>
                      /\ NoneTwice(favTeams')
                      /\ Range(favTeams') = IF row.show THEN Range(favTeams) \union {row.team}
                                            ELSE Range(favTeams) \ {row.team}
<1> DEFINE row == rows[tab][n]
           at == row.id + VisCnt(tab)
           team == rows[tab][at].team
           others == Range(favTeams) \ {team}
<1>1. /\ favTeams \in Seq(Team) /\ staleClick \in BOOLEAN /\ rows[tab] \in Seq(Row)
      /\ Len(favTeams) \in Nat /\ DOMAIN favTeams = 1..Len(favTeams)
  <2>1. /\ favTeams \in Seq(Team) /\ staleClick \in BOOLEAN
        /\ rows \in [ScoreboardTab -> Seq(Row)]
    BY DEF FavouritesInv, FavouritesTypeOK, Row
  <2> QED  BY <2>1
<1>2. /\ at \in 1..Len(rows[tab]) =>
             favTeams' = IF row.show THEN Append(favTeams, team) ELSE Copied(favTeams, others)
      /\ at \notin 1..Len(rows[tab]) => favTeams' = favTeams
      /\ staleClick' = (staleClick \/ ~ShowsStored(tab))
  BY DEF toggle
<1>3. row \in Row
  BY <1>1
<1>4. ASSUME at \in 1..Len(rows[tab]) PROVE team \in Team
  <2> HIDE DEF at
  <2>1. rows[tab][at] \in Row
    BY <1>1, <1>4
  <2> QED  BY <2>1 DEF Row
<1>5. Copied(favTeams, others) \in Seq(Team)
  BY <1>1, CopiedEntries
<1>6. favTeams' \in Seq(Team)
  <2> HIDE DEF at, team, others
  <2>1. team \in Team => Append(favTeams, team) \in Seq(Team)
    BY <1>1
  <2> QED  BY <1>1, <1>2, <1>4, <1>5, <2>1
<1>7. ASSUME ~staleClick'
      PROVE  /\ NoneTwice(favTeams')
             /\ Range(favTeams') = IF row.show THEN Range(favTeams) \union {row.team}
                                   ELSE Range(favTeams) \ {row.team}
  <2>1. ~staleClick /\ ShowsStored(tab) /\ NoneTwice(favTeams)
    <3>1. ~staleClick /\ ShowsStored(tab)
      BY <1>1, <1>2, <1>7
    <3> QED  BY <3>1 DEF FavouritesInv
  <2>2. /\ at \in 1..Len(rows[tab]) /\ team = row.team
        /\ row.show <=> row.team \notin Range(favTeams)
    BY <2>1, ClickedRow
  <2>3. row.show \in BOOLEAN /\ row.team \in Team
    BY <1>3 DEF Row
  <2> HIDE DEF at, team, row
  <2>4. CASE row.show
    <3>1. favTeams' = Append(favTeams, row.team)
      BY <1>2, <2>2, <2>4
    <3>2. /\ Len(favTeams') = Len(favTeams) + 1 /\ favTeams'[Len(favTeams) + 1] = row.team
          /\ \A i \in 1..Len(favTeams) : favTeams'[i] = favTeams[i]
          /\ DOMAIN favTeams' = 1..(Len(favTeams) + 1)
      BY <1>1, <2>3, <3>1
    <3>3. \A i \in 1..(Len(favTeams) + 1) : i \in 1..Len(favTeams) \/ i = Len(favTeams) + 1
      BY <1>1
    <3>4. /\ \A i \in 1..Len(favTeams) : i \in 1..(Len(favTeams) + 1)
          /\ Len(favTeams) + 1 \in 1..(Len(favTeams) + 1)
      BY <1>1
    <3>5. \A i \in 1..Len(favTeams) : favTeams[i] # row.team
      BY <1>1, <2>2, <2>4 DEF Range
    <3>6. NoneTwice(favTeams')
      BY <2>1, <3>2, <3>3, <3>5 DEF NoneTwice
    <3>7. \A x : x \in Range(favTeams') <=> x \in Range(favTeams) \/ x = row.team
      BY <1>1, <3>2, <3>3, <3>4 DEF Range
    <3>8. Range(favTeams') = Range(favTeams) \union {row.team}
      BY <3>7
    <3> QED  BY <2>4, <3>6, <3>8
  <2>5. CASE ~row.show
    <3>1. favTeams' = Copied(favTeams, others)
      BY <1>2, <2>2, <2>5
    <3>2. CopyInv(favTeams, others, Len(favTeams), favTeams')
      BY <1>1, <3>1, CopiedEntries
    <3>3. NoneTwice(favTeams')
      BY <2>1, <3>2 DEF CopyInv
    <3>4. \A x : x \in Range(favTeams) <=> \E i \in 1..Len(favTeams) : favTeams[i] = x
      BY <1>1 DEF Range
    <3>5. \A x : x \in Range(favTeams') <=> x \in others
      BY <3>2, <3>4 DEF CopyInv
    <3>6. Range(favTeams') = Range(favTeams) \ {row.team}
      BY <2>2, <3>5
    <3> QED  BY <2>5, <3>3, <3>6
  <2> QED  BY <2>3, <2>4, <2>5
<1> QED  BY <1>6, <1>7

LEMMA NextFavouritesInv == FavouritesInv /\ [FavouritesNext]_favouritesVars => FavouritesInv'
<1> SUFFICES ASSUME FavouritesInv, [FavouritesNext]_favouritesVars PROVE FavouritesInv'
  OBVIOUS
<1>1. /\ favTeams \in Seq(Team) /\ rows \in [ScoreboardTab -> Seq(Row)]
      /\ board \in Boards /\ rendering \subseteq ScoreboardTab /\ staleClick \in BOOLEAN
      /\ \A tab \in ScoreboardTab : Rendered(rows[tab])
      /\ ~staleClick => NoneTwice(favTeams)
  BY DEF FavouritesInv, FavouritesTypeOK, Row
<1>2. ASSUME /\ favTeams' \in Seq(Team) /\ rows' \in [ScoreboardTab -> Seq(Row)]
             /\ board' \in Boards /\ rendering' \subseteq ScoreboardTab
             /\ staleClick' \in BOOLEAN
             /\ \A tab \in ScoreboardTab : Rendered(rows'[tab])
             /\ ~staleClick' => NoneTwice(favTeams')
      PROVE  FavouritesInv'
  BY <1>2 DEF FavouritesInv, FavouritesTypeOK, Row, Rendered
<1>3. CASE UNCHANGED favouritesVars
  BY <1>1, <1>2, <1>3 DEF favouritesVars
<1>4. ASSUME NEW tab \in ScoreboardTab, RenderScoreboard(tab) PROVE FavouritesInv'
  <2>1. initFavouriteTeams(board) \in Seq(Row) /\ Rendered(initFavouriteTeams(board))
    BY <1>1, InitRenders
  <2> QED  BY <1>1, <1>2, <1>4, <2>1 DEF RenderScoreboard
<1>5. ASSUME NEW tab \in ScoreboardTab, NEW n \in 1..Len(rows[tab]), toggle(tab, n)
      PROVE  FavouritesInv'
  <2>1. favTeams' \in Seq(Team) /\ (~staleClick' => NoneTwice(favTeams'))
    BY <1>5, ToggledList
  <2>2. /\ rows' = rows /\ board' = board /\ rendering' \subseteq ScoreboardTab
        /\ staleClick' \in BOOLEAN
    BY <1>1, <1>5 DEF toggle
  <2> QED  BY <1>1, <1>2, <2>1, <2>2
<1>6. ASSUME NEW new \in Boards, ChangeBoard(new) PROVE FavouritesInv'
  BY <1>1, <1>2, <1>6 DEF ChangeBoard
<1> QED  BY <1>3, <1>4, <1>5, <1>6 DEF FavouritesNext

(* A heart adds or removes the team of its row and no other, whichever      *)
(* boards the tabs show, as long as hearts are clicked in tabs that show    *)
(* the stored favourites.                                                   *)
THEOREM HeartsToggleTheirTeam == FavouritesSpec => TogglesClickedTeam
<1>1. FavouritesInv /\ [FavouritesNext]_favouritesVars =>
          [\A tab \in ScoreboardTab : \A n \in 1..Len(rows[tab]) :
               toggle(tab, n) /\ ~staleClick' =>
                   LET row == rows[tab][n]
                   IN Range(favTeams') = IF row.show THEN Range(favTeams) \union {row.team}
                                         ELSE Range(favTeams) \ {row.team}]_favouritesVars
  BY ToggledList
<1> QED
  BY <1>1, InitFavouritesInv, NextFavouritesInv, PTL DEF FavouritesSpec, TogglesClickedTeam

(* The list of favourites and the rows of the tabs are well formed.         *)
THEOREM FavouritesTypeCorrect == FavouritesSpec => []FavouritesTypeOK
<1>1. FavouritesInv => FavouritesTypeOK
  BY DEF FavouritesInv
<1> QED  BY <1>1, InitFavouritesInv, NextFavouritesInv, PTL DEF FavouritesSpec

----------------------------------------------------------------------------
(* All parts together.                                                      *)

(* The answers of the server to the forms, and what is in the fields.       *)
LEMMA FormsTypeCorrect == JuryFormsSpec => []JuryFormsTypeOK
<1>1. JuryFormsInit => JuryFormsTypeOK
  BY JuryFormsAssumption DEF JuryFormsInit, JuryFormsTypeOK
<1>2. JuryFormsTypeOK /\ [JuryFormsNext]_formVars => JuryFormsTypeOK'
  <2> SUFFICES ASSUME JuryFormsTypeOK, [JuryFormsNext]_formVars
               PROVE  JuryFormsTypeOK'
    OBVIOUS
  <2> USE DEF JuryFormsTypeOK
  <2>1. ASSUME NEW t \in Theme, ApplyTheme(t)
        PROVE  JuryFormsTypeOK'
    BY <2>1 DEF ApplyTheme, StoredOnApply, previewVars
  <2>2. getCurrentEditorTheme \in Theme
    BY JuryFormsAssumption DEF getCurrentEditorTheme
  <2>3. CASE LoadTheme
    BY <2>1, <2>2, <2>3 DEF LoadTheme
  <2>4. CASE ReloadForm
    BY <2>4, JuryFormsAssumption DEF ReloadForm
  <2>5. CASE Keyup
    BY <2>5 DEF Keyup, previewClarification, PreviewDue, AskPreview, themeVars
  <2>6. ASSUME NEW t \in Theme, ChooseTheme(t) \/ FetchedTheme(t) \/ FetchFailed(t)
        PROVE  JuryFormsTypeOK'
    BY <2>1, <2>6 DEF ChooseTheme, FetchedTheme, FetchFailed, previewVars
  <2>7. ASSUME NEW m \in Message, TypeMessage(m) \/ clarificationAppendAnswer(m)
        PROVE  JuryFormsTypeOK'
    BY <2>7 DEF TypeMessage, clarificationAppendAnswer, AskPreview, themeVars
  <2>8. ASSUME NEW m \in Message, Previewed(m) \/ PreviewFailed(m)
        PROVE  JuryFormsTypeOK'
    BY <2>8 DEF Previewed, PreviewFailed, themeVars
  <2>9. CASE UNCHANGED formVars
    BY <2>9 DEF formVars, themeVars, previewVars
  <2> QED  BY <2>3, <2>4, <2>5, <2>6, <2>7, <2>8, <2>9 DEF JuryFormsNext
<1> QED  BY <1>1, <1>2, PTL DEF JuryFormsSpec

(* The tags and what was seen.                                              *)
LEMMA NotificationsTypeCorrect == NotificationsSpec => []NotificationsTypeOK
<1>1. NotificationsInit => NotificationsTypeOK
  BY DEF NotificationsInit, NotificationsTypeOK, Sight
<1>2. NotificationsTypeOK /\ [NotificationsNext]_notificationVars => NotificationsTypeOK'
  <2> SUFFICES ASSUME NotificationsTypeOK, [NotificationsNext]_notificationVars
               PROVE  NotificationsTypeOK'
    OBVIOUS
  <2> USE DEF NotificationsTypeOK
  <2>1. CASE enableNotifications \/ disableNotifications
    BY <2>1 DEF enableNotifications, disableNotifications
  <2>2. ASSUME NEW a \in Alert, ServerChange(a)
        PROVE  NotificationsTypeOK'
    BY <2>2 DEF ServerChange
  <2>3. ASSUME NEW tab \in JuryTab, updateMenuAlerts(tab)
        PROVE  NotificationsTypeOK'
    BY <2>3 DEF updateMenuAlerts
  <2>4. ASSUME NEW tab \in JuryTab, WriteTags(tab)
        PROVE  NotificationsTypeOK'
    <3>1. Written(tab) \subseteq {Tag(a) : a \in Alert}
      BY <2>4 DEF WriteTags, Written
    <3> QED  BY <2>4, <3>1 DEF WriteTags
  <2>5. ASSUME NEW tab \in JuryTab, NEW a \in Alert, SendKnown(tab, a)
        PROVE  NotificationsTypeOK'
    BY <2>5 DEF SendKnown, Sight
  <2>6. ASSUME NEW tab \in JuryTab, NEW a \in Alert, SendNew(tab, a)
        PROVE  NotificationsTypeOK'
    <3>1. (together \/ \E other \in JuryTab \ {tab} : sending[other] # NoAlert) \in BOOLEAN
      OBVIOUS
    <3>2. together' \in BOOLEAN
      BY <2>6, <3>1 DEF SendNew
    <3>3. seen' \in [Alert -> Sight]
      BY <2>6 DEF SendNew, Sight
    <3> QED  BY <2>6, <3>2, <3>3 DEF SendNew
  <2>7. CASE UNCHANGED notificationVars
    BY <2>7 DEF notificationVars
  <2> QED  BY <2>1, <2>2, <2>3, <2>4, <2>5, <2>6, <2>7 DEF NotificationsNext
<1> QED  BY <1>1, <1>2, PTL DEF NotificationsSpec

(* The parts of a time are numbers.                                         *)
LEMMA FieldsType ==
    ASSUME NEW left \in Nat
    PROVE  ClockFields(left) \in [d : Nat, h : Nat, m : Nat, s : Nat]
<1> DEFINE d == IF left > Day THEN left \div Day ELSE 0
           ofDay == left - d * Day
           h == IF ofDay > Hour THEN ofDay \div Hour ELSE 0
           ofHour == ofDay - h * Hour
           m == ofHour \div Minute
<1>1. d \in Nat /\ ofDay \in Nat
  BY DEF Day, Hour, Minute
<1> HIDE DEF d, ofDay
<1>2. h \in Nat /\ ofHour \in Nat
  BY <1>1 DEF Hour, Minute
<1> HIDE DEF h, ofHour
<1>3. m \in Nat /\ ofHour - m * Minute \in Nat
  BY <1>2 DEF Minute
<1> HIDE DEF m
<1>4. ClockFields(left) = [d |-> d, h |-> h, m |-> m, s |-> ofHour - m * Minute]
  BY DEF ClockFields, d, ofDay, h, ofHour, m
<1> QED  BY <1>1, <1>2, <1>3, <1>4

(* What the clock may show.                                                 *)
Shown == [what : {"start_delayed", "no_contest", "time_to_start", "running", "contest_over"},
          left : [d : Nat, h : Nat, m : Nat, s : Nat]]

(* The first call may replace a text that is not shown later.               *)
LEMMA UpdatedType ==
    ASSUME NEW now \in Nat, NEW shown, shown \in Shown \/ shown.what = "countdown"
    PROVE  updateClock(now, shown) \in Shown
<1>1. CASE shown.what \in {"start_delayed", "no_contest"}
  <2>1. updateClock(now, shown) = shown
    BY <1>1 DEF updateClock
  <2> QED  BY <1>1, <2>1
<1>2. CASE shown.what \notin {"start_delayed", "no_contest"}
  <2>1. CASE now >= StartTime /\ now < EndTime
    <3>1. EndTime - now \in Nat
      BY <2>1, ClockAssumption
    <3>2. updateClock(now, shown) = [what |-> "running", left |-> ClockFields(EndTime - now)]
      BY <1>2, <2>1 DEF updateClock
    <3> QED  BY <3>1, <3>2, FieldsType DEF Shown
  <2>2. CASE ~(now >= StartTime /\ now < EndTime) /\ now >= ActivateTime /\ now < StartTime
    <3>1. StartTime - now \in Nat
      BY <2>2, ClockAssumption
    <3>2. updateClock(now, shown)
            = [what |-> "time_to_start", left |-> ClockFields(StartTime - now)]
      BY <1>2, <2>2 DEF updateClock
    <3> QED  BY <3>1, <3>2, FieldsType DEF Shown
  <2>3. CASE ~(now >= StartTime /\ now < EndTime) /\ ~(now >= ActivateTime /\ now < StartTime)
    <3>1. updateClock(now, shown) = [what |-> "contest_over", left |-> ClockFields(0)]
      BY <1>2, <2>3 DEF updateClock
    <3> QED  BY <3>1, FieldsType DEF Shown
  <2> QED  BY <2>1, <2>2, <2>3
<1> QED  BY <1>1, <1>2

LEMMA ClockTypeCorrect == ClockSpec => []ClockTypeOK
<1> USE DEF Shown
<1>1. ClockInit => ClockTypeOK
  <2> SUFFICES ASSUME ClockInit PROVE ClockTypeOK
    OBVIOUS
  <2>1. clock \in 0..ClockMax /\ clock \in Nat
    BY ClockAssumption DEF ClockInit
  <2>2. PICK what \in {"start_delayed", "no_contest", "countdown"} :
            timeleft = updateClock(clock, [what |-> what, left |-> ClockFields(0)])
    BY DEF ClockInit
  <2> DEFINE shown == [what |-> what, left |-> ClockFields(0)]
  <2>3. shown \in Shown \/ shown.what = "countdown"
    BY FieldsType
  <2> HIDE DEF shown
  <2>4. updateClock(clock, shown) \in Shown
    BY <2>1, <2>3, UpdatedType
  <2> QED  BY <2>1, <2>2, <2>4 DEF shown, ClockTypeOK
<1>2. ClockTypeOK /\ [ClockNext]_clockVars => ClockTypeOK'
  <2> SUFFICES ASSUME ClockTypeOK, [ClockNext]_clockVars PROVE ClockTypeOK'
    OBVIOUS
  <2>1. CASE UNCHANGED clockVars
    BY <2>1 DEF ClockTypeOK, clockVars
  <2>2. ASSUME NEW n \in ClockSteps, ClockTick(n) PROVE ClockTypeOK'
    <3>1. clock' \in 0..ClockMax /\ clock' \in Nat
      BY <2>2, ClockAssumption DEF ClockTick, ClockTypeOK
    <3>2. PICK now \in Nat : now = clock' /\ timeleft' = updateClock(now, timeleft)
      BY <2>2, <3>1 DEF ClockTick
    <3>3. timeleft \in Shown
      BY DEF ClockTypeOK
    <3>4. updateClock(now, timeleft) \in Shown
      BY <3>3, UpdatedType
    <3> QED  BY <3>1, <3>2, <3>4 DEF ClockTypeOK
  <2> QED  BY <2>1, <2>2 DEF ClockNext
<1> QED  BY <1>1, <1>2, PTL DEF ClockSpec

(* The composition of the parts behaves, for each of them, as this part     *)
(* alone: what is proved of a part holds of the page as a whole.            *)
THEOREM BrowserImplementsParts ==
    BrowserSpec => /\ PageRefreshSpec /\ FavouritesSpec /\ NotificationsSpec /\ ShortcutsSpec
                   /\ JuryFormsSpec /\ ClockSpec /\ GraphSpec
<1>1. BrowserInit => /\ PageRefreshInit /\ FavouritesInit /\ NotificationsInit /\ ShortcutsInit
                     /\ JuryFormsInit /\ ClockInit /\ GraphInit
  BY DEF BrowserInit
<1>2. [BrowserNext]_browserVars =>
          /\ [PageRefreshNext]_refreshVars /\ [FavouritesNext]_favouritesVars
          /\ [NotificationsNext]_notificationVars /\ [ShortcutsNext]_shortcutVars
          /\ [JuryFormsNext]_formVars /\ [ClockNext]_clockVars /\ [GraphNext]_graphVars
  BY DEF BrowserNext, browserVars, Only
<1> QED  BY <1>1, <1>2, PTL DEF BrowserSpec, PageRefreshSpec, FavouritesSpec, NotificationsSpec,
                           ShortcutsSpec, JuryFormsSpec, ClockSpec, GraphSpec

(* All variables of the page keep their types, whichever part runs.         *)
THEOREM BrowserTypeCorrect == BrowserSpec => []BrowserTypeOK
<1>1. RefreshInv => PageRefreshTypeOK
  BY DEF RefreshInv
<1>2. PageRefreshSpec => []PageRefreshTypeOK
  BY <1>1, InitRefreshInv, NextRefreshInv, PTL DEF PageRefreshSpec
<1>3. /\ PageRefreshTypeOK /\ FavouritesTypeOK /\ NotificationsTypeOK
      /\ ShortcutsTypeOK /\ ShortcutsInOrder
      /\ JuryFormsTypeOK /\ ClockTypeOK /\ GraphTypeOK
      => BrowserTypeOK
  BY DEF BrowserTypeOK
<1> QED  BY <1>2, <1>3, BrowserImplementsParts, FavouritesTypeCorrect, NotificationsTypeCorrect,
            ShortcutsComeInOrder, FormsTypeCorrect, ClockTypeCorrect, GraphTyped, PTL

=============================================================================
