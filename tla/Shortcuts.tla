----------------------------- MODULE Shortcuts -----------------------------
(****************************************************************************)
(* Keyboard shortcuts of the jury pages: initializeKeyboardShortcuts of     *)
(* domjudge.js, enableKeys and disableKeys.                                 *)
(*                                                                          *)
(* One handler of keydown, "outer", waits for the first key of a shortcut;  *)
(* it adds an inner handler that collects a number and shows it in a box.   *)
(* Of a key event jQuery runs the handlers that were attached when it was   *)
(* dispatched, those removed meanwhile included, in order of attachment.    *)
(****************************************************************************)
EXTENDS Naturals, Sequences, FiniteSets, SequencesExt

CONSTANTS
    ShortcutType,       \* first keys of shortcuts: s, t, p, c, J
    Digit,
    MaxDigits,          \* bound on the length of a number
    MaxBoxes            \* bound on the shortcuts begun on a page

ASSUME ShortcutsAssumption ==
    /\ MaxDigits \in Nat /\ MaxBoxes \in Nat /\ ShortcutType \intersect Digit = {}
    /\ {"?", "Escape", "j", "Enter", "x"} \intersect (ShortcutType \union Digit) = {}

(* "j" stands for j and k on the page of an item, which go to the next or   *)
(* previous one, and for Shift-s; "x" for a key without a meaning, and for  *)
(* Ctrl, Alt or Meta with any key.                                          *)
Key == ShortcutType \union Digit \union {"?", "Escape", "j", "Enter", "x"}

VARIABLES
    keysEnabled,        \* the cookie domjudge_keys
    page,               \* handlers, variables of their closures, and boxes
    location,           \* <<>>, or where the browser goes
    boxThen,            \* what the box showed when it goes there
    typedInField        \* a key was typed in a field while a shortcut was begun

shortcutVars == <<keysEnabled, page, location, boxThen, typedInField>>

Outer == [name |-> "outer"]

(* An inner handler is known by the number of its box.                      *)
Box == 1..MaxBoxes

NewPage ==
    [handlers |-> <<Outer>>, ignore |-> FALSE, boxes |-> {}, begun |-> 0, help |-> FALSE,
     sequence |-> [box \in Box |-> <<>>], goes |-> <<>>]

Address == Seq(ShortcutType \union Digit \union {"item"})

ShortcutsTypeOK ==
    /\ keysEnabled \in BOOLEAN /\ typedInField \in BOOLEAN
    /\ page.ignore \in BOOLEAN /\ page.help \in BOOLEAN
    /\ page.boxes \subseteq 1..page.begun /\ page.begun \in 0..MaxBoxes
    /\ page.sequence \in [Box -> Seq(Digit)]
    /\ \A i \in DOMAIN page.handlers : page.handlers[i].name \in {"outer", "inner"}
    /\ {page.goes, location, boxThen} \subseteq Address

ShortcutsInit ==
    /\ keysEnabled \in BOOLEAN /\ page = NewPage
    /\ location = <<>> /\ boxThen = <<>> /\ typedInField = FALSE

----------------------------------------------------------------------------
(* The outer handler.                                                       *)
HandleOuter(p, key, field) ==
    LET help == CASE key = "?" -> ~p.help [] key = "Escape" -> FALSE [] OTHER -> p.help
        q == [p EXCEPT !.help = help]
        box == p.begun + 1
    IN IF ~keysEnabled \/ field \/ key = "x" THEN p
       ELSE IF ~p.ignore /\ key = "j" THEN [q EXCEPT !.goes = <<"item">>]
       ELSE IF ~p.ignore /\ key \in ShortcutType
       THEN [q EXCEPT !.ignore = TRUE, !.begun = box, !.boxes = @ \union {box},
                      !.handlers = Append(@, [name |-> "inner", type |-> key, box |-> box,
                                              oldFunc |-> Head(p.handlers)])]
       ELSE q

(* Mutant: the old handler is attached but the others are not detached.     *)
ReattachedOnly(p, h) == Append(p.handlers, h.oldFunc)

(* $body.off('keydown') and $body.on('keydown', oldFunc).                   *)
Reattached(p, h) == <<h.oldFunc>>

StopsIgnoring(p) == FALSE

AddressOf(p, h) == <<h.type>> \o p.sequence[h.box]

(* An inner handler.  A key in a field resets it, but leaves it attached.   *)
HandleInner(p, h, key, field) ==
    LET q == [p EXCEPT !.boxes = @ \ {h.box}, !.sequence[h.box] = <<>>]
    IN IF field THEN [q EXCEPT !.ignore = FALSE]
       ELSE IF key \in Digit THEN [p EXCEPT !.sequence[h.box] = Append(@, key)]
       ELSE [q EXCEPT !.ignore = StopsIgnoring(p),
                      !.handlers = Reattached(p, h),
                      !.goes = IF key = "Enter" THEN AddressOf(p, h) ELSE @]

(* All handlers attached before the event handle it.                        *)
Dispatch(key, field) ==
    LET Handle(p, h) == IF h.name = "outer" THEN HandleOuter(p, key, field)
                        ELSE HandleInner(p, h, key, field)
    IN FoldLeft(Handle, page, page.handlers)

Begun == \E i \in DOMAIN page.handlers : page.handlers[i].name = "inner"

(* What the boxes show, if there is one.                                    *)
BoxText ==
    LET shown == {h \in Range(page.handlers) : h.name = "inner" /\ h.box \in page.boxes}
    IN IF Cardinality(shown) = 1
       THEN LET h == CHOOSE h \in shown : TRUE IN <<h.type>> \o page.sequence[h.box]
       ELSE <<>>

KeyDown(key, field) ==
    LET p == Dispatch(key, field)
    IN /\ location = <<>>
       /\ page.begun < MaxBoxes \/ key \notin ShortcutType
       /\ \A box \in Box : Len(p.sequence[box]) <= MaxDigits
       /\ page' = [p EXCEPT !.goes = <<>>]
       /\ location' = p.goes
       /\ boxThen' = IF p.goes \in {<<>>, <<"item">>} THEN p.goes ELSE BoxText
       /\ typedInField' = (typedInField \/ (field /\ Begun))
       /\ UNCHANGED keysEnabled

(* The browser loads the page it goes to.                                   *)
LoadJuryPage ==
    /\ location # <<>>
    /\ page' = NewPage /\ location' = <<>> /\ boxThen' = <<>> /\ typedInField' = FALSE
    /\ UNCHANGED keysEnabled

(* enableKeys() and disableKeys().                                          *)
enableKeys ==
    /\ location = <<>> /\ keysEnabled' = TRUE
    /\ UNCHANGED <<page, location, boxThen, typedInField>>

disableKeys ==
    /\ location = <<>> /\ keysEnabled' = FALSE
    /\ UNCHANGED <<page, location, boxThen, typedInField>>

ShortcutsNext ==
    \/ LoadJuryPage \/ enableKeys \/ disableKeys
    \/ \E key \in Key, field \in BOOLEAN : KeyDown(key, field)

ShortcutsSpec == ShortcutsInit /\ [][ShortcutsNext]_shortcutVars

----------------------------------------------------------------------------
(* The outer handler is attached exactly once, and one inner handler at     *)
(* most, however shortcuts were ended: by keys, in fields, or by the first  *)
(* key of another shortcut.                                                 *)
HeardOnce ==
    LET Named(n) == {i \in DOMAIN page.handlers : page.handlers[i].name = n}
    IN Cardinality(Named("outer")) = 1 /\ Cardinality(Named("inner")) <= 1

(* First keys are ignored just while a shortcut is begun, and one box shows *)
(* it, unless keys were typed in a field meanwhile.                         *)
BoxWhileBegun ==
    ~typedInField =>
        /\ page.ignore <=> Begun
        /\ Cardinality(page.boxes) = IF Begun THEN 1 ELSE 0

(* The browser goes where the box says, unless keys were typed in a field   *)
(* after a shortcut was begun.                                              *)
GoesWhereBoxSays == ~typedInField => location = boxThen

(* Shortcuts come one after another, and the box tells what they do, in any *)
(* order of keys, fields and settings.                                      *)
ShortcutsInOrder == HeardOnce /\ BoxWhileBegun /\ GoesWhereBoxSays
=============================================================================
