----------------------------- MODULE LineSequence -----------------------------
(***************************************************************************)
(* What the list of a terminal's lines promises                            *)
(* (handlers/www/assets/xterm/xterm.js, common/CircularList): a sequence   *)
(* of at most maxLength lines, that loses its oldest lines when it would   *)
(* be longer, and tells how many it lost (onTrim).                         *)
(***************************************************************************)
EXTENDS Integers, Sequences

CONSTANTS Items, MaxMaxLength   \* what is put in; bound on maxLength

VARIABLES
    lines, maxLength,
    done        \* the last operation: its name, what it returned, how many lines it trimmed

Kept(s) == IF Len(s) > maxLength THEN SubSeq(s, Len(s) - maxLength + 1, Len(s)) ELSE s
Excess(s) == IF Len(s) > maxLength THEN Len(s) - maxLength ELSE 0
Result(name, returned, trimmed) == [name |-> name, returned |-> returned, trimmed |-> trimmed]
(* The sequence becomes s, but for what does not fit.                      *)
Becomes(name, returned, s) == lines' = Kept(s) /\ done' = Result(name, returned, Excess(s)) /\ UNCHANGED maxLength

First(s, n) == SubSeq(s, 1, n)
From(s, n) == SubSeq(s, n + 1, Len(s))

Push(item) == Becomes("push", <<>>, Append(lines, item))
Set(i, item) == i < Len(lines) /\ Becomes("set", <<>>, [lines EXCEPT ![i + 1] = item])
Recycle == Len(lines) = maxLength /\ Becomes("recycle", <<Head(lines)>>, Append(lines, Head(lines)))
Pop == lines # <<>> /\ Becomes("pop", <<lines[Len(lines)]>>, First(lines, Len(lines) - 1))
Shorten(n) == n < Len(lines) /\ Becomes("length", <<>>, First(lines, n))
TrimStart(n) ==
    /\ n <= Len(lines)
    /\ lines' = From(lines, n) /\ done' = Result("trimStart", <<>>, n) /\ UNCHANGED maxLength
Splice(start, count, items) ==
    /\ start + count <= Len(lines)
    /\ Becomes("splice", <<>>, First(lines, start) \o items \o From(lines, start + count))
ShiftDown(start, count) ==
    /\ start + count <= Len(lines)
    /\ Becomes("shift", <<>>, First(lines, start + 1) \o SubSeq(lines, start + 1, start + count)
                              \o From(lines, start + count + 1))
ShiftUp(start, count) ==
    /\ start > 0 /\ start + count <= Len(lines)
    /\ Becomes("shift", <<>>, First(lines, start - 1) \o SubSeq(lines, start + 1, start + count)
                              \o From(lines, start + count - 1))
SetMaxLength(n) ==
    /\ n >= Len(lines)
    /\ maxLength' = n /\ done' = Result("maxLength", <<>>, 0) /\ UNCHANGED lines

Init == lines = <<>> /\ maxLength \in 1..MaxMaxLength /\ done = Result("new", <<>>, 0)

Next ==
    \/ \E item \in Items : Push(item)
    \/ \E i \in 0..(maxLength - 1), item \in Items : Set(i, item)
    \/ Recycle \/ Pop
    \/ \E n \in 0..maxLength : Shorten(n) \/ TrimStart(n)
    \/ \E start, count \in 0..maxLength, items \in {<<>>} \cup {<<a>> : a \in Items} \cup {<<a, b>> : a, b \in Items} :
          Splice(start, count, items)
    \/ \E start, count \in 0..maxLength : count > 0 /\ (ShiftDown(start, count) \/ ShiftUp(start, count))
    \/ \E n \in 1..MaxMaxLength : SetMaxLength(n)

Spec == Init /\ [][Next]_<<lines, maxLength, done>>
=============================================================================
