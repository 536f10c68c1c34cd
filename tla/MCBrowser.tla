----------------------------- MODULE MCBrowser -----------------------------
(****************************************************************************)
(* Instances of the modules of domjudge.js.  The functions they model share *)
(* no variables: a behaviour is one of the part that its first state        *)
(* chooses, and the other parts stay in one of their initial states.        *)
(****************************************************************************)
EXTENDS PageRefresh, Favourites, Notifications, Shortcuts, JuryForms, Clock, SubmissionGraph

CONSTANTS ta, tb, tc, Parts

VARIABLE part

browserVars == <<part, refreshVars, favouritesVars, notificationVars, shortcutVars, formVars,
                 clockVars, graphVars>>

BrowserInit ==
    /\ part \in Parts
    /\ PageRefreshInit /\ (part = "refresh" \/ (refreshWanted /\ usingAjax))
    /\ FavouritesInit /\ (part = "favourites" \/ board = <<ta, tb, tc>>)
    /\ NotificationsInit /\ (part = "notifications" \/ notify)
    /\ ShortcutsInit /\ (part = "shortcuts" \/ keysEnabled)
    /\ JuryFormsInit /\ (part = "forms" \/ (storedTheme = "null" /\ message = ""))
    /\ ClockInit /\ (part = "clock" \/ (clock = ActivateTime /\ timeleft.what = "no_contest"))
    /\ GraphInit /\ (part = "graph" \/ contestSeconds = 1)

Only(p, vars) == part = p /\ UNCHANGED vars

BrowserNext ==
    /\ UNCHANGED part
    /\ \/ /\ PageRefreshNext
          /\ Only("refresh", <<favouritesVars, notificationVars, shortcutVars, formVars,
                               clockVars, graphVars>>)
       \/ /\ FavouritesNext
          /\ Only("favourites", <<refreshVars, notificationVars, shortcutVars, formVars,
                                  clockVars, graphVars>>)
       \/ /\ NotificationsNext
          /\ Only("notifications", <<refreshVars, favouritesVars, shortcutVars, formVars,
                                     clockVars, graphVars>>)
       \/ /\ ShortcutsNext
          /\ Only("shortcuts", <<refreshVars, favouritesVars, notificationVars, formVars,
                                 clockVars, graphVars>>)
       \/ /\ JuryFormsNext
          /\ Only("forms", <<refreshVars, favouritesVars, notificationVars, shortcutVars,
                             clockVars, graphVars>>)
       \/ /\ ClockNext
          /\ Only("clock", <<refreshVars, favouritesVars, notificationVars, shortcutVars,
                             formVars, graphVars>>)
       \/ /\ GraphNext
          /\ Only("graph", <<refreshVars, favouritesVars, notificationVars, shortcutVars,
                             formVars, clockVars>>)

BrowserSpec == BrowserInit /\ [][BrowserNext]_browserVars

MCBoards == {<<ta, tb, tc>>, <<tb, ta>>, <<tc, ta, tb>>}

(* A judgehost that fails twice.                                            *)
MCHostAlerts ==
    {[kind |-> "host", id |-> 1, polltime |-> 1], [kind |-> "host", id |-> 1, polltime |-> 2]}

MCBalloons == {[kind |-> "ball", id |-> 1], [kind |-> "ball", id |-> 2]}

(* minute, quarter of an hour, ...: see "units" of createSubmissionGraph.   *)
MCGraphUnits ==
    <<<<1, 60>>, <<60, 15>>, <<3600, 6>>, <<86400, 7>>, <<604800, 1>>, <<31536000, 1>>>>

MCGraphDurations ==
    1..1200 \union {n * 300 + k : n \in 4..80, k \in {0, 1, 59}} \union {n * 86400 : n \in 1..40}

(* All variables have their types.                                          *)
BrowserTypeOK ==
    /\ PageRefreshTypeOK /\ FavouritesTypeOK /\ NotificationsTypeOK /\ ShortcutsTypeOK
    /\ JuryFormsTypeOK /\ ClockTypeOK /\ GraphTypeOK
=============================================================================
