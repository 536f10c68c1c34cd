--------------------------- MODULE Notifications ---------------------------
(****************************************************************************)
(* Desktop notifications of domjudge.js: sendNotification,                  *)
(* enableNotifications, disableNotifications, updateClarifications and      *)
(* updateMenuAlerts with the functions it calls.                            *)
(*                                                                          *)
(* The tags of what was sent are one string in localStorage, which the tabs *)
(* of a browser share without a lock: sendNotification() reads it at its    *)
(* start and writes all of it back at its end.                              *)
(****************************************************************************)
EXTENDS Naturals, FiniteSets

CONSTANTS
    JuryTab,
    Alert               \* records with a kind, an id and, of a host, a poll time

ASSUME NotificationsAssumption ==
    \A a \in Alert :
        \/ a \in [kind : {"clar", "ie", "ball"}, id : Nat]
        \/ a \in [kind : {"host"}, id : Nat, polltime : Nat]

VARIABLES
    alerts,             \* what the server reports now
    notify,             \* the cookie domjudge_notify
    sentTags,           \* domjudge_notifications_sent in localStorage
    toSend,             \* alerts of the answer a tab is working on
    sending,            \* the alert a tab is inside sendNotification() with
    tagsRead,           \* what it read from localStorage
    seen,               \* what the user saw of each alert
    together            \* two tabs were inside sendNotification() at once

notificationVars == <<alerts, notify, sentTags, toSend, sending, tagsRead, seen, together>>

NoAlert == [kind |-> "none"]

(* "silent": handled while notifications were disabled; "dropped": taken    *)
(* for another alert that had been sent; "again": shown more than once.     *)
Sight == {"unseen", "silent", "dropped", "shown", "again"}

(* The tag of an alert.  The server calls the number of a balloon           *)
(* "balloonid"; updateMenuBalloons() reads "baloonid", which is undefined.  *)
Tag(a) ==
    CASE a.kind = "ball" -> <<"ball", "undefined">>
      [] a.kind = "host" -> <<"host", a.id, a.polltime>>
      [] OTHER -> <<a.kind, a.id>>

NotificationsTypeOK ==
    /\ alerts \subseteq Alert /\ notify \in BOOLEAN
    /\ sentTags \subseteq {Tag(a) : a \in Alert}
    /\ toSend \in [JuryTab -> SUBSET Alert]
    /\ sending \in [JuryTab -> Alert \union {NoAlert}]
    /\ tagsRead \in [JuryTab -> SUBSET {Tag(a) : a \in Alert}]
    /\ seen \in [Alert -> Sight] /\ together \in BOOLEAN

NotificationsInit ==
    /\ alerts = {} /\ notify \in BOOLEAN /\ sentTags = {}
    /\ toSend = [tab \in JuryTab |-> {}]
    /\ sending = [tab \in JuryTab |-> NoAlert]
    /\ tagsRead = [tab \in JuryTab |-> {}]
    /\ seen = [a \in Alert |-> "unseen"] /\ together = FALSE

Idle(tab) == toSend[tab] = {} /\ sending[tab] = NoAlert

(* Something happens on the server, or has been dealt with there.           *)
ServerChange(a) ==
    /\ alerts' = IF a \in alerts THEN alerts \ {a} ELSE alerts \union {a}
    /\ UNCHANGED <<notify, sentTags, toSend, sending, tagsRead, seen, together>>

(* updateMenuAlerts() is answered; an answer that leads to the login page   *)
(* changes nothing here.                                                    *)
updateMenuAlerts(tab) ==
    /\ Idle(tab)
    /\ toSend' = [toSend EXCEPT ![tab] = alerts]
    /\ UNCHANGED <<alerts, notify, sentTags, sending, tagsRead, seen, together>>

(* sendNotification(): the tags are read; a known tag ends the call, and    *)
(* otherwise the notification is shown if notifications are enabled.        *)
SendKnown(tab, a) ==
    /\ sending[tab] = NoAlert /\ a \in toSend[tab]
    /\ Tag(a) \in sentTags
    /\ toSend' = [toSend EXCEPT ![tab] = @ \ {a}]
    /\ seen' = [seen EXCEPT ![a] = IF @ = "unseen" THEN "dropped" ELSE @]
    /\ UNCHANGED <<alerts, notify, sentTags, sending, tagsRead, together>>

SendNew(tab, a) ==
    /\ sending[tab] = NoAlert /\ a \in toSend[tab]
    /\ Tag(a) \notin sentTags
    /\ toSend' = [toSend EXCEPT ![tab] = @ \ {a}]
    /\ sending' = [sending EXCEPT ![tab] = a]
    /\ tagsRead' = [tagsRead EXCEPT ![tab] = sentTags]
    /\ seen' = [seen EXCEPT ![a] =
                    IF notify THEN (IF @ \in {"shown", "again"} THEN "again" ELSE "shown")
                    ELSE IF @ = "unseen" THEN "silent" ELSE @]
    /\ together' = (together \/ \E other \in JuryTab \ {tab} : sending[other] # NoAlert)
    /\ UNCHANGED <<alerts, notify, sentTags>>

(* Mutant: only the last tag is kept.                                       *)
WrittenLast(tab) == {Tag(sending[tab])}

(* What is written back: the tags that were read and the new one.           *)
Written(tab) == tagsRead[tab] \union {Tag(sending[tab])}

WriteTags(tab) ==
    /\ sending[tab] # NoAlert
    /\ sentTags' = Written(tab)
    /\ sending' = [sending EXCEPT ![tab] = NoAlert]
    /\ tagsRead' = [tagsRead EXCEPT ![tab] = {}]
    /\ UNCHANGED <<alerts, notify, toSend, seen, together>>

(* The user grants permission, or disables notifications.                   *)
enableNotifications ==
    /\ notify' = TRUE
    /\ UNCHANGED <<alerts, sentTags, toSend, sending, tagsRead, seen, together>>

disableNotifications ==
    /\ notify' = FALSE
    /\ UNCHANGED <<alerts, sentTags, toSend, sending, tagsRead, seen, together>>

NotificationsNext ==
    \/ enableNotifications \/ disableNotifications
    \/ \E a \in Alert : ServerChange(a)
    \/ \E tab \in JuryTab :
           \/ updateMenuAlerts(tab) \/ WriteTags(tab)
           \/ \E a \in Alert : SendKnown(tab, a) \/ SendNew(tab, a)

NotificationsSpec == NotificationsInit /\ [][NotificationsNext]_notificationVars

----------------------------------------------------------------------------
(* A notification is displayed only once, whichever tabs report its alert   *)
(* and however often, unless two tabs send notifications at the same time.  *)
ShownOnce == ~together => \A a \in Alert : seen[a] # "again"

(* No alert but of a balloon is taken for another one that was sent before: *)
(* what happens while notifications are enabled is shown.                   *)
AlertsAreShown == \A a \in Alert : a.kind # "ball" => seen[a] # "dropped"

(* Every alert but of a balloon is shown, and only once.                    *)
NotifiedOnce == ShownOnce /\ AlertsAreShown

(* No balloon is taken for another one that was sent before.                *)
BalloonsAreShown == \A a \in Alert : a.kind = "ball" => seen[a] # "dropped"
=============================================================================
