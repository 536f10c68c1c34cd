------------------------------- MODULE Clock -------------------------------
(****************************************************************************)
(* The countdown in the menu: updateClock of domjudge.js and the script     *)
(* that calls it every second, or less often while the tab is in the        *)
(* background.                                                              *)
(****************************************************************************)
EXTENDS Naturals

CONSTANTS
    ActivateTime, StartTime, EndTime,       \* of the contest, in seconds
    ClockMax,                               \* bound on the time
    ClockSteps                              \* seconds between two calls

ASSUME ClockAssumption ==
    /\ {ActivateTime, StartTime, EndTime, ClockMax} \subseteq Nat /\ ClockSteps \subseteq Nat \ {0}
    /\ ActivateTime <= StartTime /\ StartTime <= EndTime /\ StartTime <= ClockMax

Minute == 60
Hour == 60 * Minute
Day == 24 * Hour

VARIABLES
    clock,              \* the time of the server
    timeleft            \* what the clock shows: a text and the parts of a time

clockVars == <<clock, timeleft>>

(* Mutant: what remains after the days is not what is divided.              *)
ClockFieldsOfAll(left) ==
    LET d == IF left > Day THEN left \div Day ELSE 0
        h == IF left > Hour THEN left \div Hour ELSE 0
        ofHour == left - h * Hour
        m == ofHour \div Minute
    IN [d |-> d, h |-> h, m |-> m, s |-> ofHour - m * Minute]

(* Mutant: hours are rounded to the nearest.                                *)
ClockFieldsRounded(left) ==
    LET d == IF left > Day THEN left \div Day ELSE 0
        ofDay == left - d * Day
        h == IF ofDay > Hour THEN (ofDay + Hour \div 2) \div Hour ELSE 0
        ofHour == ofDay - h * Hour
        m == ofHour \div Minute
    IN [d |-> d, h |-> h, m |-> m, s |-> ofHour - m * Minute]

(* The parts of the time left; days and hours are left out if they are 0.   *)
(* Just as much as a day or an hour is not printed as such.                 *)
ClockFields(left) ==
    LET d == IF left > Day THEN left \div Day ELSE 0
        ofDay == left - d * Day
        h == IF ofDay > Hour THEN ofDay \div Hour ELSE 0
        ofHour == ofDay - h * Hour
        m == ofHour \div Minute
    IN [d |-> d, h |-> h, m |-> m, s |-> ofHour - m * Minute]

(* During the contest the text is empty: "running".                         *)
updateClock(now, shown) ==
    IF shown.what \in {"start_delayed", "no_contest"} THEN shown
    ELSE IF now >= StartTime /\ now < EndTime
         THEN [what |-> "running", left |-> ClockFields(EndTime - now)]
    ELSE IF now >= ActivateTime /\ now < StartTime
         THEN [what |-> "time_to_start", left |-> ClockFields(StartTime - now)]
    ELSE [what |-> "contest_over", left |-> ClockFields(0)]

(* The page is loaded at some time of the contest; the server wrote a text  *)
(* that the first call of updateClock() replaces or keeps.                  *)
ClockInit ==
    /\ clock \in {ActivateTime, StartTime}
    /\ \E what \in {"start_delayed", "no_contest", "countdown"} :
           timeleft = updateClock(clock, [what |-> what, left |-> ClockFields(0)])

ClockTick(n) ==
    /\ clock + n <= ClockMax
    /\ clock' = clock + n
    /\ timeleft' = updateClock(clock', timeleft)

ClockNext == \E n \in ClockSteps : ClockTick(n)

ClockSpec == ClockInit /\ [][ClockNext]_clockVars

ClockTypeOK ==
    /\ clock \in 0..ClockMax
    /\ timeleft \in [what : {"start_delayed", "no_contest", "time_to_start", "running",
                             "contest_over"},
                     left : [d : Nat, h : Nat, m : Nat, s : Nat]]

----------------------------------------------------------------------------
(* The time that a reader of the clock reads.                               *)
Reading(f) == f.d * Day + f.h * Hour + f.m * Minute + f.s

(* The clock shows the exact time to the start or to the end of the         *)
(* contest, also at and around whole minutes, hours and days.               *)
ClockIsExact ==
    /\ timeleft.what = "running" => Reading(timeleft.left) = EndTime - clock
    /\ timeleft.what = "time_to_start" => Reading(timeleft.left) = StartTime - clock

(* The contest is over when no time is left, and not before.                *)
OverAtEnd ==
    timeleft.what \in {"running", "contest_over"} =>
        (timeleft.what = "contest_over" <=> clock >= EndTime)

(* The clock is right at all times of the contest.                          *)
ClockIsRight == ClockIsExact /\ OverAtEnd
=============================================================================
