----------------------------- MODULE JuryForms -----------------------------
(****************************************************************************)
(* Answers that arrive later in domjudge.js: the theme of the code editor   *)
(* (applyEditorTheme, getCurrentEditorTheme) and the preview of a           *)
(* clarification (previewClarification, setupPreviewClarification,          *)
(* clarificationAppendAnswer).  A request is not cancelled by a later one,  *)
(* and answers arrive in any order.                                         *)
(****************************************************************************)
EXTENDS Naturals, FiniteSets

CONSTANTS
    Theme,
    ExternalTheme,      \* themes that are fetched from the server
    DefaultTheme,       \* the first theme of the list
    Message             \* texts of a clarification; "" is the empty one

ASSUME JuryFormsAssumption ==
    /\ ExternalTheme \subseteq Theme /\ DefaultTheme \in Theme
    /\ "" \in Message

VARIABLES
    storedTheme,        \* domjudge_editor_theme in localStorage; "null" if not set
    activeTheme,        \* the theme marked in the menu
    editorTheme,        \* the theme of the editor
    themeFetches,       \* themes being fetched
    themeHurried,       \* a theme was chosen while one was being fetched, or a fetch failed
    message,            \* the text in the field
    keyupPending,       \* the debounced handler of keyup is to run
    previewRequests,    \* texts whose previews were asked for
    preview,            \* the text that the preview shows
    previewHurried      \* a preview was asked for while one was under way, or one failed

themeVars == <<storedTheme, activeTheme, editorTheme, themeFetches, themeHurried>>
previewVars == <<message, keyupPending, previewRequests, preview, previewHurried>>
formVars == <<themeVars, previewVars>>

JuryFormsTypeOK ==
    /\ storedTheme \in Theme \union {"null"}
    /\ {activeTheme, editorTheme} \subseteq Theme \union {"null"}
    /\ themeFetches \subseteq ExternalTheme
    /\ message \in Message /\ preview \in Message /\ previewRequests \subseteq Message \ {""}
    /\ {themeHurried, previewHurried, keyupPending} \subseteq BOOLEAN

getCurrentEditorTheme == IF storedTheme = "null" THEN DefaultTheme ELSE storedTheme

(* Mutant: the choice of an external theme is stored when it is fetched.    *)
StoredOnApplyLate(t) == IF t \in ExternalTheme THEN storedTheme ELSE t

StoredOnApply(t) == t

(* applyEditorTheme(theme, isExternal).                                     *)
ApplyTheme(t) ==
    /\ storedTheme' = StoredOnApply(t)
    /\ activeTheme' = t
    /\ IF t \in ExternalTheme
       THEN themeFetches' = themeFetches \union {t} /\ UNCHANGED editorTheme
       ELSE editorTheme' = t /\ UNCHANGED themeFetches
    /\ themeHurried' = (themeHurried \/ themeFetches # {})
    /\ UNCHANGED previewVars

(* The page is loaded: applyEditorTheme() without a theme, and the preview  *)
(* of what is in the field, if there is something.                          *)
JuryFormsInit ==
    /\ storedTheme \in Theme \union {"null"}
    /\ activeTheme = "null" /\ editorTheme = "null" /\ themeFetches = {} /\ themeHurried = FALSE
    /\ message \in Message /\ preview = "" /\ keyupPending = FALSE
    /\ previewRequests = {message} \ {""} /\ previewHurried = FALSE

LoadTheme == activeTheme = "null" /\ ApplyTheme(getCurrentEditorTheme)

ChooseTheme(t) == activeTheme # "null" /\ ApplyTheme(t)

FetchedTheme(t) ==
    /\ t \in themeFetches
    /\ themeFetches' = themeFetches \ {t}
    /\ editorTheme' = t
    /\ UNCHANGED <<storedTheme, activeTheme, themeHurried, previewVars>>

FetchFailed(t) ==
    /\ t \in themeFetches
    /\ themeFetches' = themeFetches \ {t} /\ themeHurried' = TRUE
    /\ UNCHANGED <<storedTheme, activeTheme, editorTheme, previewVars>>

(* The page is left and loaded again.                                       *)
ReloadForm ==
    /\ activeTheme' = "null" /\ editorTheme' = "null"
    /\ themeFetches' = {} /\ themeHurried' = FALSE
    /\ preview' = "" /\ keyupPending' = FALSE
    /\ previewRequests' = {message} \ {""} /\ previewHurried' = FALSE
    /\ UNCHANGED <<storedTheme, message>>

----------------------------------------------------------------------------
(* The field is edited; the handler of keyup runs a quarter second after    *)
(* the last key.                                                            *)
TypeMessage(m) ==
    /\ message' = m /\ keyupPending' = TRUE
    /\ UNCHANGED <<previewRequests, preview, previewHurried, themeVars>>

PreviewDue(m) == m # ""

(* previewClarification(): an empty message is not sent.                    *)
AskPreview(m) ==
    /\ previewRequests' = previewRequests \union {m}
    /\ previewHurried' = (previewHurried \/ previewRequests # {})

previewClarification(m) ==
    IF PreviewDue(m) THEN AskPreview(m) ELSE UNCHANGED <<previewRequests, previewHurried>>

Keyup ==
    /\ keyupPending /\ keyupPending' = FALSE
    /\ previewClarification(message)
    /\ UNCHANGED <<message, preview, themeVars>>

(* An answer of the list is appended, and previewed at once.                *)
clarificationAppendAnswer(m) ==
    /\ m # "" /\ message' = m
    /\ AskPreview(m)
    /\ UNCHANGED <<keyupPending, preview, themeVars>>

Previewed(m) ==
    /\ m \in previewRequests
    /\ previewRequests' = previewRequests \ {m} /\ preview' = m
    /\ UNCHANGED <<message, keyupPending, previewHurried, themeVars>>

PreviewFailed(m) ==
    /\ m \in previewRequests
    /\ previewRequests' = previewRequests \ {m} /\ previewHurried' = TRUE
    /\ UNCHANGED <<message, keyupPending, preview, themeVars>>

JuryFormsNext ==
    \/ LoadTheme \/ ReloadForm \/ Keyup
    \/ \E t \in Theme : ChooseTheme(t) \/ FetchedTheme(t) \/ FetchFailed(t)
    \/ \E m \in Message : TypeMessage(m) \/ clarificationAppendAnswer(m)
    \/ \E m \in Message : Previewed(m) \/ PreviewFailed(m)

JuryFormsSpec == JuryFormsInit /\ [][JuryFormsNext]_formVars

----------------------------------------------------------------------------
(* When nothing is being fetched, the editor has the theme that is stored   *)
(* and marked, after choices and after the page was loaded again, unless a  *)
(* choice was made during a fetch or a fetch failed.                        *)
ThemeSettles ==
    activeTheme # "null" /\ themeFetches = {} /\ ~themeHurried =>
        editorTheme = storedTheme /\ activeTheme = storedTheme

(* When no key and no request is outstanding, the preview is that of the    *)
(* message, unless previews overlapped or failed, or the message is empty.  *)
PreviewSettles ==
    ~keyupPending /\ previewRequests = {} /\ ~previewHurried /\ message # "" => preview = message

(* What the page shows follows what the user did once all answers are there.*)
FormsSettle == ThemeSettles /\ PreviewSettles
=============================================================================
