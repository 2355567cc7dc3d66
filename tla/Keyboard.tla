------------------------------- MODULE Keyboard -------------------------------
(***************************************************************************)
(* What a key sends to the program (handlers/www/assets/xterm/xterm.js):   *)
(* evaluateKeyboardEvent of core/input/Keyboard, and Terminal._keyDown and *)
(* _keyPress, which both may send it.                                      *)
(*                                                                         *)
(* An event is a record with its keyCode, its modifier keys and what the   *)
(* browser says it types (a letter is named by its code).  A text to send  *)
(* is a tuple: <<"CSI", first parameter, second, final>>, with 0 for one   *)
(* that is not there, <<"SS3", final>>, <<"C0", n>> for one control        *)
(* character, <<"ESC", n>> for a character with ESC before it, or          *)
(* <<"text", name>>.                                                       *)
(***************************************************************************)
EXTENDS Integers, Sequences

CONSTANT Keys       \* the keys: records of code, name, and single (the name is one character)

VARIABLES
    applicationCursor, isMac, isWindows, macOptionIsMeta,
    pressed         \* the key that is down, with what was sent for it, or NoPress

keyboardVars == <<applicationCursor, isMac, isWindows, macOptionIsMeta, pressed>>

Event(key, m) == [code |-> key.code, name |-> key.name, single |-> key.single,
                  shift |-> m[1], alt |-> m[2], ctrl |-> m[3], meta |-> m[4]]
Events == {Event(key, m) : key \in Keys, m \in [1..4 -> BOOLEAN]}
NoPress == <<>>

NoKey == <<>>
CSI(a, b, final) == <<"CSI", a, b, final>>
SS3(final) == <<"SS3", final>>
C0(n) == <<"C0", n>>
Text(name) == <<"text", name>>

(* result.type: send a key, select everything, a page up, a page down.     *)
SendKey == 0  SelectEverything == 1  PageUp == 2  PageDown == 3

Modifiers(ev) == (IF ev.shift THEN 1 ELSE 0) + (IF ev.alt THEN 2 ELSE 0)
                 + (IF ev.ctrl THEN 4 ELSE 0) + (IF ev.meta THEN 8 ELSE 0)

Sends(key) == [type |-> SendKey, cancel |-> FALSE, key |-> key]
Cancels(key) == [Sends(key) EXCEPT !.cancel = TRUE]

-----------------------------------------------------------------------------
(* The arrows that an iPad names, without a keyCode.                       *)
UIKeys == {"UIKeyInputUpArrow", "UIKeyInputLeftArrow", "UIKeyInputRightArrow", "UIKeyInputDownArrow"}
NamedArrow == [name \in UIKeys |-> CASE name = "UIKeyInputUpArrow" -> "A" [] name = "UIKeyInputLeftArrow" -> "D"
                                      [] name = "UIKeyInputRightArrow" -> "C" [] OTHER -> "B"]
UIKey(ev) ==
    Sends(IF ev.name \notin UIKeys THEN NoKey
          ELSE IF applicationCursor THEN SS3(NamedArrow[ev.name]) ELSE CSI(0, 0, NamedArrow[ev.name]))

(* Backspace, Tab, Enter and Escape.                                       *)
ControlKeys == {8, 9, 13, 27}
ControlKey(ev) ==
    CASE ev.code = 8 /\ ev.shift -> Sends(C0(8))
      [] ev.code = 8 /\ ~ev.shift /\ ev.alt -> Sends(<<"ESC", 127>>)
      [] ev.code = 8 /\ ~ev.shift /\ ~ev.alt -> Sends(C0(127))
      [] ev.code = 9 /\ ev.shift -> Sends(CSI(0, 0, "Z"))
      [] ev.code = 9 /\ ~ev.shift -> Cancels(C0(9))
      [] OTHER -> Cancels(C0(ev.code))

(* The arrows: Alt counts as Ctrl, and on a Mac moves by words.            *)
ArrowKeys == 37..40
ArrowFinal == [code \in ArrowKeys |-> <<"D", "A", "C", "B">>[code - 36]]
ArrowKey(ev) ==
    LET final == ArrowFinal[ev.code]
    IN  CASE Modifiers(ev) = 2 -> Sends(IF isMac /\ final = "D" THEN <<"ESC", 98>>
                                        ELSE IF isMac /\ final = "C" THEN <<"ESC", 102>> ELSE CSI(1, 5, final))
          [] Modifiers(ev) \notin {0, 2} -> Sends(CSI(1, Modifiers(ev) + 1, final))
          [] OTHER -> Sends(IF applicationCursor THEN SS3(final) ELSE CSI(0, 0, final))

(* Insert, Delete, Home, End, and the keys that turn pages.                *)
EditKeys == {45, 46, 36, 35, 33, 34}
EditKey(ev) ==
    LET m == Modifiers(ev)
        final == IF ev.code = 36 THEN "H" ELSE "F"
    IN  CASE ev.code = 45 -> Sends(IF ev.shift \/ ev.ctrl THEN NoKey ELSE CSI(2, 0, "~"))
          [] ev.code = 46 -> Sends(CSI(3, IF m = 0 THEN 0 ELSE m + 1, "~"))
          [] ev.code \in {36, 35} ->
                Sends(CASE m # 0 -> CSI(1, m + 1, final)
                        [] m = 0 /\ applicationCursor -> SS3(final)
                        [] OTHER -> CSI(0, 0, final))
          [] ev.code = 33 -> IF ev.shift THEN [Sends(NoKey) EXCEPT !.type = PageUp] ELSE Sends(CSI(5, 0, "~"))
          [] OTHER -> IF ev.shift THEN [Sends(NoKey) EXCEPT !.type = PageDown] ELSE Sends(CSI(6, 0, "~"))

(* F1 to F12.                                                              *)
FunctionKeys == 112..123
FunctionNumberCopied == <<"P", "Q", "R", "S", 15, 17, 18, 19, 20, 21, 23, 23>>      \* mutant
FunctionNumber == <<"P", "Q", "R", "S", 15, 17, 18, 19, 20, 21, 23, 24>>
FunctionKey(ev) ==
    LET m == Modifiers(ev)
        n == FunctionNumber[ev.code - 111]
    IN  Sends(CASE ev.code <= 115 -> IF m = 0 THEN SS3(n) ELSE CSI(1, m + 1, n)
                [] OTHER -> CSI(n, IF m = 0 THEN 0 ELSE m + 1, "~"))

(* KEYCODE_KEY_MAPPINGS: the keys with two signs, for Alt.                 *)
MappedCodes == (48..57) \cup (186..192) \cup (219..222)
Mapped(ev) == IF ev.shift THEN <<"ESC", "shifted", ev.code>> ELSE <<"ESC", "plain", ev.code>>

(* All other keys.                                                         *)
Letter(code) == code \in 65..90
WithCtrl(code) ==
    CASE Letter(code) -> C0(code - 64)
      [] code = 32 -> C0(0)
      [] code \in 51..55 -> C0(code - 51 + 27)
      [] code = 56 -> C0(127)
      [] code \in {219, 220, 221} -> C0(code - 219 + 27)
      [] OTHER -> NoKey
WithAlt(ev) ==
    CASE ev.code \in MappedCodes -> Mapped(ev)
      [] Letter(ev.code) -> IF ev.ctrl THEN <<"ESC", ev.code - 64>> ELSE <<"ESC", ev.code + 32>>
      [] OTHER -> NoKey

OtherKey(ev) ==
    LET m == Modifiers(ev)
    IN  CASE m = 4 -> Sends(WithCtrl(ev.code))
          [] ev.alt /\ ~ev.meta /\ (~isMac \/ macOptionIsMeta) -> Sends(WithAlt(ev))
          [] isMac /\ m \in {8, 9} -> [Sends(NoKey) EXCEPT !.type = IF ev.code = 65 THEN SelectEverything ELSE SendKey]
          [] m \in {0, 1} -> Sends(IF ev.code >= 48 /\ ev.single THEN Text(ev.name) ELSE NoKey)
          [] OTHER -> Sends(IF m > 4 /\ ev.ctrl /\ ev.name = "_" THEN C0(31) ELSE NoKey)

evaluateKeyboardEvent(ev) ==
    CASE ev.code = 0 -> UIKey(ev)
      [] ev.code \in ControlKeys -> ControlKey(ev)
      [] ev.code \in ArrowKeys -> ArrowKey(ev)
      [] ev.code \in EditKeys -> EditKey(ev)
      [] ev.code \in FunctionKeys -> FunctionKey(ev)
      [] OTHER -> OtherKey(ev)

-----------------------------------------------------------------------------
(* _isThirdLevelShift: the keys that type a third sign.                    *)
IsThirdLevelShift(ev, keypress) ==
    LET third == (isMac /\ ~macOptionIsMeta /\ ev.alt /\ ~ev.ctrl /\ ~ev.meta)
                 \/ (isWindows /\ ev.alt /\ ev.ctrl /\ ~ev.meta)
    IN  third /\ (keypress \/ ev.code = 0 \/ ev.code > 47)

(* _keyDown: it sends something, and the key types nothing more, or it     *)
(* leaves the key to the browser.                                          *)
StopsCancelled(cancelled, sends) == cancelled       \* mutant: the last cancel is forgotten
Stops(cancelled, sends) == cancelled \/ sends
KeyDown(ev) ==
    LET result == evaluateKeyboardEvent(ev)
        third == IsThirdLevelShift(ev, FALSE)
        turns == result.type \in {PageUp, PageDown}
        sends == ~turns /\ ~third /\ result.key # NoKey
    IN  [sent |-> IF sends THEN <<result.key>> ELSE <<>>,
         prevented |-> turns \/ Stops(~third /\ result.cancel, sends)]

(* The browser: a key that types a sign, and was not prevented from it, has*)
(* a keypress event.                                                       *)
Types(ev) == ev.single /\ ~ev.meta /\ (ev.ctrl => isWindows /\ ev.alt)

(* _keyPress.                                                              *)
KeyPress(ev) ==
    IF (ev.alt \/ ev.ctrl \/ ev.meta) /\ ~IsThirdLevelShift(ev, TRUE) THEN <<>> ELSE <<Text(ev.name)>>

Press(ev) ==
    /\ pressed = NoPress
    /\ LET down == KeyDown(ev)
       IN  pressed' = <<ev, down.sent \o (IF ~down.prevented /\ Types(ev) THEN KeyPress(ev) ELSE <<>>)>>
    /\ UNCHANGED <<applicationCursor, isMac, isWindows, macOptionIsMeta>>

Release ==
    /\ pressed # NoPress
    /\ pressed' = NoPress
    /\ UNCHANGED <<applicationCursor, isMac, isWindows, macOptionIsMeta>>

(* The program sets and resets the mode of the arrows (DECCKM).            *)
SetApplicationCursor(mode) ==
    /\ applicationCursor # mode /\ applicationCursor' = mode
    /\ UNCHANGED <<isMac, isWindows, macOptionIsMeta, pressed>>

KeyboardInit ==
    /\ applicationCursor = FALSE /\ isMac \in BOOLEAN /\ isWindows \in BOOLEAN /\ ~(isMac /\ isWindows)
    /\ macOptionIsMeta \in BOOLEAN /\ pressed = NoPress

KeyboardNext ==
    \/ \E ev \in Events : Press(ev)
    \/ Release
    \/ \E mode \in BOOLEAN : SetApplicationCursor(mode)

-----------------------------------------------------------------------------
(* A key that types a sign sends it once, whichever of the two handlers    *)
(* takes it, and no key is sent by both.                                   *)
TypedOnce ==
    pressed # NoPress =>
        LET ev == pressed[1]
            plain == ev.single /\ ~ev.ctrl /\ ~ev.alt /\ ~ev.meta
        IN  /\ Len(pressed[2]) <= 1
            /\ plain \/ (ev.single /\ IsThirdLevelShift(ev, TRUE)) => pressed[2] = <<Text(ev.name)>>

(* The arrows, the keys of the editing block and the function keys are     *)
(* told apart by what they send, with their modifier keys: but Alt counts  *)
(* as Ctrl on an arrow, and Insert and the paging keys tell none.          *)
SpecialKeys == ArrowKeys \cup EditKeys \cup FunctionKeys
Told(ev) ==
    CASE ev.code \in {45, 33, 34} -> 0
      [] ev.code \in ArrowKeys /\ Modifiers(ev) = 2 /\ ~(isMac /\ ev.code \in {37, 39}) -> 4
      [] OTHER -> Modifiers(ev)
SpecialKeysAreTold ==
    pressed # NoPress /\ pressed[1].code \in SpecialKeys =>
        \A ev \in Events :
            ev.code \in SpecialKeys /\ pressed[2] # <<>> /\ KeyDown(ev).sent = pressed[2] =>
                ev.code = pressed[1].code /\ Told(ev) = Told(pressed[1])
=============================================================================
