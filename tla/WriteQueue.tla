------------------------------ MODULE WriteQueue ------------------------------
(***************************************************************************)
(* Terminal.write and Terminal.writeUtf8 (handlers/www/assets/xterm/       *)
(* xterm.js): what is written waits in one of two arrays, for text and for *)
(* bytes, and is parsed by a timer's callback that works for at most       *)
(* WRITE_TIMEOUT_MS at a time and sets the next timer itself.  One flag,   *)
(* _writeInProgress, says for both arrays that a timer is set.  With       *)
(* useFlowControl the terminal asks the sender to pause and to go on.      *)
(*                                                                         *)
(* What is written is numbered in the order of the calls.                  *)
(***************************************************************************)
EXTENDS Integers, Sequences

CONSTANTS
    PauseAt,    \* WRITE_BUFFER_PAUSE_THRESHOLD
    SliceAt,    \* WRITE_BUFFER_LENGTH_THRESHOLD
    MaxWrites   \* bound on the number of writes

VARIABLES
    flowControl,    \* options.useFlowControl
    buffer,         \* writeBuffer and writeBufferUtf8, with what is parsed and not yet cut off
    inProgress,     \* _writeInProgress
    timers,         \* the callbacks that are set: <<kind, bufferOffset>>
    xoff,           \* _xoffSentToCatchUp
    disposed,       \* _isDisposed
    written,        \* the number of writes so far
    parsed,         \* history: what has been given to the input handler
    failed,         \* history: parsing an item has thrown an exception
    bypassed        \* history: kinds written to while the timer was the other kind's

vars == <<flowControl, buffer, inProgress, timers, xoff, disposed, written, parsed, failed, bypassed>>
Kinds == {"text", "utf8"}

Init ==
    /\ flowControl \in BOOLEAN
    /\ buffer = [k \in Kinds |-> <<>>] /\ inProgress = FALSE /\ timers = {}
    /\ xoff = FALSE /\ disposed = FALSE /\ written = 0
    /\ parsed = [k \in Kinds |-> <<>>] /\ failed = FALSE /\ bypassed = {}

(* write(data), writeUtf8(data): empty data and a disposed terminal are    *)
(* ignored.                                                                *)
Write(k, empty) ==
    /\ written < MaxWrites
    /\ IF disposed \/ empty THEN UNCHANGED vars
       ELSE /\ written' = written + 1
            /\ buffer' = [buffer EXCEPT ![k] = Append(@, written')]
            /\ xoff' = (xoff \/ (flowControl /\ Len(buffer'[k]) >= PauseAt))
            /\ timers' = IF inProgress THEN timers ELSE timers \cup {<<k, 0>>}
            /\ inProgress' = TRUE
            /\ bypassed' = IF inProgress /\ \E t \in timers : t[1] # k THEN bypassed \cup {k} ELSE bypassed
            /\ UNCHANGED <<flowControl, disposed, parsed, failed>>

(* _innerWrite(bufferOffset), _innerWriteUtf8: it parses items until the   *)
(* array is empty or its time is over; when it starts on the last one the  *)
(* sender may go on.                                                       *)
(* Mutants: the array is cut off without the offset starting again at 0;   *)
(* the flag is not reset.                                                  *)
InnerWriteUncut(k, offset, n) ==
    LET upto == offset + n
    IN  /\ n \in 1..(Len(buffer[k]) - offset)
        /\ parsed' = [parsed EXCEPT ![k] = @ \o SubSeq(buffer[k], offset + 1, upto)]
        /\ xoff' = FALSE
        /\ buffer' = IF upto = Len(buffer[k]) THEN [buffer EXCEPT ![k] = <<>>] ELSE buffer
        /\ inProgress' = (upto # Len(buffer[k]))
        /\ timers' = IF inProgress' THEN {<<k, IF upto > SliceAt THEN 0 ELSE upto>>} ELSE {}
        /\ UNCHANGED <<flowControl, disposed, written, failed, bypassed>>
InnerWriteFlagKept(k, offset, n) ==
    /\ n = Len(buffer[k]) - offset /\ n > 0
    /\ parsed' = [parsed EXCEPT ![k] = @ \o SubSeq(buffer[k], offset + 1, offset + n)]
    /\ buffer' = [buffer EXCEPT ![k] = <<>>] /\ timers' = timers \ {<<k, offset>>} /\ xoff' = FALSE
    /\ bypassed' = bypassed \ {k}
    /\ UNCHANGED <<flowControl, inProgress, disposed, written, failed>>
InnerWrite(k, offset, n) ==
    LET upto == offset + n
        over == upto = Len(buffer[k])
    IN  /\ n \in 1..(Len(buffer[k]) - offset)
        /\ parsed' = [parsed EXCEPT ![k] = @ \o SubSeq(buffer[k], offset + 1, upto)]
        /\ xoff' = (xoff /\ ~over)
        /\ IF over
           THEN /\ buffer' = [buffer EXCEPT ![k] = <<>>]
                /\ inProgress' = FALSE /\ timers' = timers \ {<<k, offset>>}
           ELSE IF upto > SliceAt
           THEN /\ buffer' = [buffer EXCEPT ![k] = SubSeq(@, upto + 1, Len(@))]
                /\ timers' = (timers \ {<<k, offset>>}) \cup {<<k, 0>>}
                /\ UNCHANGED inProgress
           ELSE /\ timers' = (timers \ {<<k, offset>>}) \cup {<<k, upto>>}
                /\ UNCHANGED <<buffer, inProgress>>
        /\ bypassed' = IF over THEN bypassed \ {k} ELSE bypassed
        /\ UNCHANGED <<flowControl, disposed, written, failed>>

InnerWriteDisposed(k, offset) ==
    /\ buffer' = [buffer EXCEPT ![k] = <<>>]
    /\ inProgress' = FALSE /\ timers' = timers \ {<<k, offset>>}
    /\ UNCHANGED <<flowControl, xoff, disposed, written, parsed, failed, bypassed>>

(* An item whose parsing throws: nothing after it is executed, not even    *)
(* the reset of the flag.                                                  *)
InnerWriteThrows(k, offset, n) ==
    /\ n \in 1..(Len(buffer[k]) - offset)
    /\ parsed' = [parsed EXCEPT ![k] = @ \o SubSeq(buffer[k], offset + 1, offset + n)]
    /\ xoff' = (xoff /\ offset + n # Len(buffer[k]))
    /\ failed' = TRUE /\ timers' = timers \ {<<k, offset>>}
    /\ UNCHANGED <<flowControl, buffer, inProgress, disposed, written, bypassed>>

Timer ==
    \E t \in timers :
        IF disposed THEN InnerWriteDisposed(t[1], t[2])
        ELSE \E n \in 1..(Len(buffer[t[1]]) - t[2]) :
                 InnerWrite(t[1], t[2], n) \/ InnerWriteThrows(t[1], t[2], n)

Dispose ==
    /\ ~disposed /\ disposed' = TRUE
    /\ UNCHANGED <<flowControl, buffer, inProgress, timers, xoff, written, parsed, failed, bypassed>>

Next ==
    \/ \E k \in Kinds, empty \in BOOLEAN : Write(k, empty)
    \/ Timer
    \/ Dispose

(* A timer that is set runs.                                               *)
Spec == Init /\ [][Next]_vars /\ WF_vars(Timer)

-----------------------------------------------------------------------------
(* What is written is parsed at most once and, of each kind, in the order  *)
(* it was written, however the work is cut into slices (Terminal,          *)
(* _innerWrite and _innerWriteUtf8).                                       *)
ParsedInOrder ==
    \A k \in Kinds : \A i, j \in DOMAIN parsed[k] : i < j => parsed[k][i] < parsed[k][j]

Parsed == UNION {{parsed[k][i] : i \in DOMAIN parsed[k]} : k \in Kinds}
(* All that is written is parsed in the end and a sender that was asked to *)
(* pause is told to go on, unless the terminal was disposed of or an item  *)
(* could not be parsed, or an item of one kind was written while the other *)
(* kind was being worked off: the flag says that a timer is set, it is the *)
(* other's, and no step sets one for this kind before it is written to     *)
(* again (Terminal, write and writeUtf8).                                  *)
Drains == <>[]((Parsed = 1..written /\ ~xoff) \/ disposed \/ failed \/ bypassed # {})
=============================================================================
