---------------------------- MODULE PageRefresh ----------------------------
(****************************************************************************)
(* Refreshing of a page by domjudge.js: enableRefresh, disableRefresh,      *)
(* toggleRefresh and processAjaxResponse.  Timers, answers and clicks are   *)
(* callbacks that the browser runs one after another in any order.          *)
(*                                                                          *)
(* refreshHandler denotes one timer at most; timers that are pending and    *)
(* that it no longer denotes cannot be cleared and are only counted.        *)
(****************************************************************************)
EXTENDS Naturals

CONSTANT MaxChains      \* bound on the timers and requests of a page

ASSUME MaxChainsAssumption == MaxChains \in Nat \ {0}

VARIABLES
    pageLoaded,         \* FALSE while the browser loads another page
    refreshEnabled,
    refreshWanted,      \* the cookie domjudge_refresh
    usingAjax,          \* of the page: refreshed by requests or by navigation
    handlerPending,     \* the timer denoted by refreshHandler is pending
    otherPending,       \* number of other pending timers
    refreshRequests,    \* number of requests under way
    requestLost,        \* a request of this page has failed
    toggledMeanwhile    \* the setting was changed while a request was under way

refreshVars == <<pageLoaded, refreshEnabled, refreshWanted, usingAjax, handlerPending,
                 otherPending, refreshRequests, requestLost, toggledMeanwhile>>

PageRefreshTypeOK ==
    /\ pageLoaded \in BOOLEAN /\ usingAjax \in BOOLEAN
    /\ refreshEnabled \in BOOLEAN /\ refreshWanted \in BOOLEAN
    /\ handlerPending \in BOOLEAN
    /\ requestLost \in BOOLEAN /\ toggledMeanwhile \in BOOLEAN
    /\ otherPending \in Nat /\ refreshRequests \in Nat

Chains == otherPending + refreshRequests + (IF handlerPending THEN 1 ELSE 0)

(* The footer of a page enables the refresh if the user wants it.           *)
PageRefreshInit ==
    /\ pageLoaded = TRUE
    /\ refreshWanted \in BOOLEAN /\ usingAjax \in BOOLEAN
    /\ refreshEnabled = refreshWanted /\ handlerPending = refreshWanted
    /\ otherPending = 0 /\ refreshRequests = 0
    /\ requestLost = FALSE /\ toggledMeanwhile = FALSE

LoadPage ==
    /\ ~pageLoaded
    /\ pageLoaded' = TRUE /\ usingAjax' \in BOOLEAN
    /\ refreshEnabled' = refreshWanted /\ handlerPending' = refreshWanted
    /\ otherPending' = 0 /\ refreshRequests' = 0
    /\ requestLost' = FALSE /\ toggledMeanwhile' = FALSE
    /\ UNCHANGED refreshWanted

(* refreshHandler = setTimeout(...): the timer it denoted is forgotten.     *)
SetHandler ==
    /\ handlerPending' = TRUE
    /\ otherPending' = otherPending + (IF handlerPending THEN 1 ELSE 0)

enableRefresh ==
    /\ ~refreshEnabled
    /\ SetHandler
    /\ refreshEnabled' = TRUE /\ refreshWanted' = TRUE

(* Mutant: the timer is not cleared.                                        *)
disableRefreshKeepsTimer ==
    /\ refreshEnabled
    /\ refreshEnabled' = FALSE /\ refreshWanted' = FALSE
    /\ UNCHANGED <<handlerPending, otherPending>>

disableRefresh ==
    /\ refreshEnabled
    /\ handlerPending' = FALSE
    /\ refreshEnabled' = FALSE /\ refreshWanted' = FALSE
    /\ UNCHANGED otherPending

(* The user toggles the refresh; on the static scoreboard a dialog that     *)
(* opens disables it and one that closes enables it.                        *)
toggleRefresh ==
    /\ pageLoaded /\ Chains < MaxChains
    /\ disableRefresh \/ enableRefresh
    /\ toggledMeanwhile' = (toggledMeanwhile \/ refreshRequests > 0)
    /\ UNCHANGED <<pageLoaded, usingAjax, refreshRequests, requestLost>>

(* A pending timer fires: refresh() sends a request or navigates.           *)
FireTimer ==
    \/ handlerPending /\ handlerPending' = FALSE /\ UNCHANGED otherPending
    \/ otherPending > 0 /\ otherPending' = otherPending - 1 /\ UNCHANGED handlerPending

(* Mutant: an interval, which fires again, instead of a timeout.            *)
RefreshByInterval ==
    /\ pageLoaded /\ handlerPending
    /\ IF usingAjax
       THEN refreshRequests' = refreshRequests + 1 /\ UNCHANGED pageLoaded
       ELSE pageLoaded' = FALSE /\ UNCHANGED refreshRequests
    /\ UNCHANGED <<refreshEnabled, refreshWanted, usingAjax, handlerPending, otherPending,
                   requestLost, toggledMeanwhile>>

Refresh ==
    /\ pageLoaded /\ FireTimer
    /\ IF usingAjax
       THEN refreshRequests' = refreshRequests + 1 /\ UNCHANGED pageLoaded
       ELSE pageLoaded' = FALSE /\ UNCHANGED refreshRequests
    /\ UNCHANGED <<refreshEnabled, refreshWanted, usingAjax, requestLost, toggledMeanwhile>>

(* Mutant: the next refresh is only set up if the content was replaced by   *)
(* something new.                                                           *)
AnswerSometimesRearms ==
    /\ pageLoaded /\ refreshRequests > 0
    /\ refreshRequests' = refreshRequests - 1
    /\ SetHandler \/ UNCHANGED <<handlerPending, otherPending>>
    /\ UNCHANGED <<pageLoaded, refreshEnabled, refreshWanted, usingAjax, requestLost,
                   toggledMeanwhile>>

(* A request is answered: processAjaxResponse() replaces the content, or    *)
(* leaves the page for the login page or reloads it; then the next refresh  *)
(* is set up, whether or not refreshing is still enabled.                   *)
Answer ==
    /\ pageLoaded /\ refreshRequests > 0
    /\ refreshRequests' = refreshRequests - 1
    /\ pageLoaded' \in BOOLEAN
    /\ SetHandler
    /\ UNCHANGED <<refreshEnabled, refreshWanted, usingAjax, requestLost, toggledMeanwhile>>

(* A request fails: there is no handler for this.                           *)
AnswerLost ==
    /\ pageLoaded /\ refreshRequests > 0
    /\ refreshRequests' = refreshRequests - 1
    /\ requestLost' = TRUE
    /\ UNCHANGED <<pageLoaded, refreshEnabled, refreshWanted, usingAjax, handlerPending,
                   otherPending, toggledMeanwhile>>

PageRefreshNext == LoadPage \/ toggleRefresh \/ Refresh \/ Answer \/ AnswerLost

PageRefreshSpec == PageRefreshInit /\ [][PageRefreshNext]_refreshVars

----------------------------------------------------------------------------
(* A page has one timer or one request at most, unless refreshing was       *)
(* switched while a request was under way.                                  *)
OneRefreshChain == pageLoaded /\ ~toggledMeanwhile => Chains <= 1

(* A page on which refreshing is disabled neither waits to refresh nor is   *)
(* refreshed, unless refreshing was switched while a request was under way. *)
QuietWhenDisabled == pageLoaded /\ ~toggledMeanwhile /\ ~refreshEnabled => Chains = 0

(* While refreshing is enabled the page will be refreshed, whatever was     *)
(* clicked in between, unless a request has failed.                         *)
RefreshGoesOn == pageLoaded /\ refreshEnabled /\ ~requestLost => Chains > 0
=============================================================================
