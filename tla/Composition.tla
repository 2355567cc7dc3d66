------------------------------ MODULE Composition ------------------------------
(***************************************************************************)
(* What an input method types into a terminal                              *)
(* (handlers/www/assets/xterm/xterm.js): CompositionHelper, which sends    *)
(* what appears in the hidden text area, and the keys that reach it through *)
(* Terminal._keyDown.  The browser is modelled as it dispatches events: the *)
(* method takes the keys it uses with keyCode 229, a key it does not take  *)
(* comes only once it is done, and what is put off with setTimeout runs    *)
(* later and in order, though other events may come first.                 *)
(*                                                                         *)
(* Every sign is a number, in the order they are typed.                    *)
(***************************************************************************)
EXTENDS Integers, Sequences

CONSTANT MaxSigns       \* bound on the signs that are typed

VARIABLES
    value,              \* textarea.value
    composed,           \* the browser: the signs of the composition that goes on, or NotComposing
    isComposing,
    isSendingComposition,
    position,           \* _compositionPosition: [start, end]
    timers,             \* what is put off: [do: "end"], [do: "send", start, end], [do: "diff", old]
    signs,              \* how many signs were typed
    meant,              \* history: the signs to be sent, in order
    sent,               \* history: what handler() was given
    late,               \* history: a sign came with or just before compositionend, whose callback has yet to run
    hurried             \* history: an event came before a callback whose result it needs

helperVars == <<isComposing, isSendingComposition, position, timers>>
compositionVars == <<value, composed, helperVars, signs, meant, sent, late, hurried>>

NotComposing == -1
End == [do |-> "end", start |-> 0, end |-> 0, old |-> <<>>]
Send(p) == [End EXCEPT !.do = "send", !.start = p.start, !.end = p.end]
Diff(old) == [End EXCEPT !.do = "diff", !.old = old]

CompositionInit ==
    /\ value = <<>> /\ composed = NotComposing
    /\ isComposing = FALSE /\ isSendingComposition = FALSE /\ position = [start |-> 0, end |-> 0] /\ timers = <<>>
    /\ signs = 0 /\ meant = <<>> /\ sent = <<>> /\ late = FALSE /\ hurried = FALSE

(* String.substring with one and two arguments.                            *)
From(start) == SubSeq(value, start + 1, Len(value))
Substring(start, end) ==
    LET low == IF start < end THEN start ELSE end
        high == IF start < end THEN end ELSE start
    IN  SubSeq(value, low + 1, IF high < Len(value) THEN high ELSE Len(value))

(* newValue.replace(oldValue, ''): signs differ, so an old value that is   *)
(* part of the new one is its beginning.                                   *)
Replaced(new, old) ==
    IF Len(old) <= Len(new) /\ SubSeq(new, 1, Len(old)) = old THEN SubSeq(new, Len(old) + 1, Len(new)) ELSE new

Waits(kind) == \E i \in DOMAIN timers : timers[i].do = kind
Hurries == hurried' = (hurried \/ late \/ Waits("end") \/ Waits("diff"))
NewSign == signs + 1

-----------------------------------------------------------------------------
(* The method takes a key and starts to compose: keydown with 229,         *)
(* compositionstart, compositionupdate, and the sign appears.              *)
Start ==
    /\ composed = NotComposing /\ signs < MaxSigns
    /\ isComposing' = TRUE
    /\ position' = [position EXCEPT !.start = Len(value)]
    /\ timers' = timers \o (IF isSendingComposition THEN <<>> ELSE <<Diff(value)>>) \o <<End>>
    /\ value' = Append(value, NewSign) /\ composed' = 1 /\ signs' = NewSign
    /\ Hurries
    /\ UNCHANGED <<isSendingComposition, meant, sent, late>>

(* One sign more: keydown with 229, compositionupdate.                     *)
Update ==
    /\ composed # NotComposing /\ signs < MaxSigns
    /\ timers' = Append(timers, End)
    /\ value' = Append(value, NewSign) /\ composed' = composed + 1 /\ signs' = NewSign
    /\ UNCHANGED <<isComposing, isSendingComposition, position, meant, sent, hurried, late>>

(* The method is done: compositionend, which waits for the sign that a     *)
(* browser adds only now.                                                  *)
Done(adds) ==
    /\ composed # NotComposing /\ (adds => signs < MaxSigns)
    /\ isComposing' = FALSE /\ isSendingComposition' = TRUE
    /\ timers' = Append(timers, Send(position))
    /\ composed' = NotComposing
    /\ value' = IF adds THEN Append(value, NewSign) ELSE value
    /\ signs' = IF adds THEN NewSign ELSE signs
    /\ meant' = meant \o SubSeq(value', Len(value) - composed + 1, Len(value'))
    /\ late' = (adds \/ Waits("end"))
    /\ hurried' = (hurried \/ Waits("diff"))
    /\ UNCHANGED <<position, sent>>

(* A virtual keyboard puts a sign into the text area without composing.    *)
Insert ==
    /\ composed = NotComposing /\ signs < MaxSigns
    /\ timers' = IF isSendingComposition THEN timers ELSE Append(timers, Diff(value))
    /\ value' = Append(value, NewSign) /\ signs' = NewSign /\ meant' = Append(meant, NewSign)
    /\ hurried' = (hurried \/ timers # <<>>)
    /\ UNCHANGED <<composed, isComposing, isSendingComposition, position, sent, late>>

(* A key the method does not take: what is being sent is sent at once,     *)
(* then the key.                                                           *)
FinalizeTwice ==        \* mutant: the timer sends it again
    /\ isComposing' = FALSE /\ UNCHANGED isSendingComposition
    /\ sent' = Append(sent \o Substring(position.start, position.end), NewSign)
FinalizeNow ==
    /\ isComposing' = FALSE /\ isSendingComposition' = FALSE
    /\ sent' = Append(sent \o Substring(position.start, position.end), NewSign)
Key ==
    /\ composed = NotComposing /\ signs < MaxSigns
    /\ IF isComposing \/ isSendingComposition THEN FinalizeNow
       ELSE sent' = Append(sent, NewSign) /\ UNCHANGED <<isComposing, isSendingComposition>>
    /\ signs' = NewSign /\ meant' = Append(meant, NewSign)
    /\ Hurries
    /\ UNCHANGED <<value, composed, position, timers, late>>

(* The text area loses the focus: the method is done, and _onTextAreaBlur  *)
(* clears the text area.                                                   *)
Blur ==
    /\ composed = NotComposing /\ value # <<>>
    /\ value' = <<>>
    /\ hurried' = (hurried \/ timers # <<>>)
    /\ UNCHANGED <<composed, helperVars, signs, meant, sent, late>>

(* The callback put off first runs.                                        *)
Sent(timer) ==
    CASE timer.do = "send" /\ isSendingComposition /\ isComposing -> Substring(timer.start, timer.end)
      [] timer.do = "send" /\ isSendingComposition /\ ~isComposing -> From(timer.start)
      [] timer.do = "diff" /\ ~isComposing -> Replaced(value, timer.old)
      [] OTHER -> <<>>
Timer ==
    /\ timers # <<>>
    /\ LET timer == Head(timers)
       IN  /\ sent' = sent \o Sent(timer)
           /\ position' = IF timer.do = "end" THEN [position EXCEPT !.end = Len(value)] ELSE position
           /\ isSendingComposition' = (isSendingComposition /\ timer.do # "send")
    /\ timers' = Tail(timers)
    /\ late' = (late /\ Head(timers).do # "send")
    /\ UNCHANGED <<value, composed, isComposing, signs, meant, hurried>>

CompositionNext == Start \/ Update \/ (\E adds \in BOOLEAN : Done(adds)) \/ Insert \/ Key \/ Blur \/ Timer

-----------------------------------------------------------------------------
(* What is typed is sent once and in the order it was typed, whether a     *)
(* timer sends it or the next key does: unless an event came before a      *)
(* callback whose result it needs.                                         *)
ComposedOnce ==
    ~hurried =>
        /\ Len(sent) <= Len(meant) /\ sent = SubSeq(meant, 1, Len(sent))
        /\ timers = <<>> /\ composed = NotComposing => sent = meant
=============================================================================
