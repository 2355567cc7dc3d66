------------------------------ MODULE MCWidgets ------------------------------
(***************************************************************************)
(* The parts of a terminal that stand between its buffer and the user: the *)
(* list that holds its lines (CircularList), what is drawn of them         *)
(* (Drawing), the scroll bar (Scrollbar), the selection (Selection), keys  *)
(* (Keyboard) and input methods (Composition).  They share nothing but the *)
(* buffer, of which each module has what it reads; each is explored on its *)
(* own, chosen by `part'.                                                  *)
(***************************************************************************)
EXTENDS Selection

CONSTANTS a, MaxSigns, MaxRows, BarRows, MaxLength, RowHeight, Items, MaxMaxLength, MaxStart

ASSUME BarAssumption ==
    /\ BarRows \in Nat \ {0} /\ MaxLength \in Nat /\ BarRows <= MaxLength
    /\ RowHeight \in Nat \ {0}

ASSUME ListAssumption == MaxMaxLength \in Nat \ {0}

VARIABLES
    part,
    applicationCursor, isMac, isWindows, macOptionIsMeta, pressed,
    value, composed, isComposing, isSendingComposition, position, putOff, signs, meant, sent, late, hurried,
    rows, stale, visible, isPaused, needsFullRefresh, rowCount, rowStart, rowEnd, debouncedCount,
    animationFrame, scheduled, shrunk, zoomed,
    barLength, barYdisp, barUser, barShown, scrollTop, area, event, recordedLength, lastScrollTop, refreshing,
    ignoreNext, crossed,
    array, startIndex, length, maxLength, done

keyboardVars == <<applicationCursor, isMac, isWindows, macOptionIsMeta, pressed>>
compositionVars == <<value, composed, isComposing, isSendingComposition, position, putOff, signs, meant, sent,
                     late, hurried>>
drawingVars == <<rows, stale, visible, isPaused, needsFullRefresh, rowCount, rowStart, rowEnd, debouncedCount,
                 animationFrame, scheduled, shrunk, zoomed>>
scrollbarVars == <<barLength, barYdisp, barUser, barShown, scrollTop, area, event, recordedLength,
                   lastScrollTop, refreshing, ignoreNext, crossed>>
listVars == <<array, startIndex, length, maxLength, done>>

(* A line of the program, and one that goes on from the line before.       *)
MCTexts == {<<<<a, a>>, FALSE>>, <<<<a, a>>, TRUE>>}

(* Every key that is told apart, and some that type.                       *)
Special(code) == [code |-> code, name |-> "special", single |-> FALSE]
Typing(code, name) == [code |-> code, name |-> name, single |-> TRUE]
MCKeys ==
    {Special(code) : code \in {8, 9, 13, 16, 27, 33, 34, 35, 36, 37, 38, 39, 40, 45, 46} \cup 112..123}
    \cup {[Special(0) EXCEPT !.name = name] :
             name \in {"UIKeyInputUpArrow", "UIKeyInputLeftArrow", "UIKeyInputRightArrow", "UIKeyInputDownArrow"}}
    \cup {Typing(32, " "), Typing(50, "2"), Typing(51, "3"), Typing(56, "8"), Typing(65, "a"), Typing(90, "z"),
          Typing(189, "_"), Typing(219, "["), Typing(226, "<")}

Keys == INSTANCE Keyboard WITH Keys <- MCKeys
Typed == INSTANCE Composition WITH timers <- putOff
Canvas == INSTANCE Drawing
Bar == INSTANCE Scrollbar WITH Rows <- BarRows, length <- barLength, ydisp <- barYdisp,
                               userScrolling <- barUser, shown <- barShown
List == INSTANCE CircularList

MCInit ==
    /\ Init /\ Keys!KeyboardInit /\ Typed!CompositionInit /\ Canvas!DrawingInit /\ Bar!ScrollbarInit /\ List!ListInit
    /\ part \in {"selection", "keys", "composition", "drawing", "scrollbar", "list"}
    /\ part # "keys" => ~isMac /\ ~isWindows /\ ~macOptionIsMeta
    /\ part # "list" => maxLength = 1

OnlySelection == UNCHANGED <<part, keyboardVars, compositionVars, drawingVars, scrollbarVars, listVars>>
OnlyKeys == UNCHANGED <<part, vars, compositionVars, drawingVars, scrollbarVars, listVars>>
OnlyComposition == UNCHANGED <<part, vars, keyboardVars, drawingVars, scrollbarVars, listVars>>
OnlyDrawing == UNCHANGED <<part, vars, keyboardVars, compositionVars, scrollbarVars, listVars>>
OnlyScrollbar == UNCHANGED <<part, vars, keyboardVars, compositionVars, drawingVars, listVars>>
OnlyList == UNCHANGED <<part, vars, keyboardVars, compositionVars, drawingVars, scrollbarVars>>

MCNext ==
    \/ part = "selection" /\ OnlySelection /\ Next
    \/ part = "keys" /\ OnlyKeys /\ Keys!KeyboardNext
    \/ part = "composition" /\ OnlyComposition /\ Typed!CompositionNext
    \/ part = "drawing" /\ OnlyDrawing /\ Canvas!DrawingNext
    \/ part = "scrollbar" /\ OnlyScrollbar /\ Bar!ScrollbarNext
    \/ part = "list" /\ OnlyList /\ List!ListNext

allVars == <<part, vars, keyboardVars, compositionVars, drawingVars, scrollbarVars, listVars>>

(* Frames and the news of what is in sight come.                           *)
MCFairness ==
    /\ WF_allVars(part = "drawing" /\ OnlyDrawing /\ Canvas!Frame)
    /\ WF_allVars(part = "drawing" /\ OnlyDrawing /\ Canvas!IntersectionChange)

MCSpec == MCInit /\ [][MCNext]_allVars /\ MCFairness

-----------------------------------------------------------------------------
(* Keyboard: a key is sent once, and special keys are told apart.          *)
(* Composition: what an input method types is sent once and in order.      *)
TypedOnce == Keys!TypedOnce /\ Keys!SpecialKeysAreTold /\ Typed!ComposedOnce
(* Scrollbar: the bar is where the display is.                             *)
BarIsWhereDisplayIs == Bar!BarIsWhereDisplayIs
(* Drawing: a row that changes is drawn in the end.                        *)
RowsAreDrawn == part = "drawing" => Canvas!RowsAreDrawn
(* CircularList: the list does what the sequence of the lines says.        *)
ListImplementsSequence == List!ListImplementsSequence
=============================================================================
