----------------------------- MODULE CircularList -----------------------------
(***************************************************************************)
(* The list of a terminal's lines (handlers/www/assets/xterm/xterm.js,     *)
(* common/CircularList): an array that is written in a circle.  An         *)
(* operation copies places of the array one by one, as the code does, so   *)
(* that a copy may read what an earlier one has written.  The arguments    *)
(* are those its callers give it: lines put in the middle of a full list   *)
(* come after those they push out, and maxLength is made smaller only once *)
(* the list fits.                                                          *)
(***************************************************************************)
EXTENDS Integers, Sequences

CONSTANTS Items, MaxMaxLength,
          MaxStart              \* bound on _startIndex

VARIABLES
    array, startIndex, length, maxLength,       \* _array, _startIndex, _length, _maxLength
    done                                        \* history: the last operation and its result

listVars == <<array, startIndex, length, maxLength, done>>

Hole == "undefined"
CyclicIndex(i) == (startIndex + i) % maxLength
Get(i) == array[CyclicIndex(i)]
Result(name, returned, trimmed) == [name |-> name, returned |-> returned, trimmed |-> trimmed]

ListInit ==
    /\ maxLength \in 1..MaxMaxLength
    /\ array = [i \in 0..(maxLength - 1) |-> Hole]
    /\ startIndex = 0 /\ length = 0 /\ done = Result("new", <<>>, 0)

(* The array after copies <<to, from>>, one by one, and after items were   *)
(* put at a place.                                                         *)
Copied(a, copies) ==
    LET after[n \in 0..Len(copies)] ==
            IF n = 0 THEN a
            ELSE [after[n - 1] EXCEPT ![CyclicIndex(copies[n][1])] = after[n - 1][CyclicIndex(copies[n][2])]]
    IN  after[Len(copies)]
Placed(a, start, items) ==
    LET after[n \in 0..Len(items)] ==
            IF n = 0 THEN a ELSE [after[n - 1] EXCEPT ![CyclicIndex(start + n - 1)] = items[n]]
    IN  after[Len(items)]
Upwards(first, last, by) == [n \in 1..(last - first + 1) |-> <<first + n - 1 + by, first + n - 1>>]
Downwards(first, last, by) == [n \in 1..(last - first + 1) |-> <<last - n + 1 + by, last - n + 1>>]

-----------------------------------------------------------------------------
push(item) ==
    LET full == length = maxLength
    IN  /\ array' = [array EXCEPT ![CyclicIndex(length)] = item]
        /\ startIndex' = IF full THEN (startIndex + 1) % maxLength ELSE startIndex
        /\ length' = IF full THEN length ELSE length + 1
        /\ done' = Result("push", <<>>, IF full THEN 1 ELSE 0)
        /\ UNCHANGED maxLength

set(i, item) ==
    /\ i < length
    /\ array' = [array EXCEPT ![CyclicIndex(i)] = item]
    /\ done' = Result("set", <<>>, 0)
    /\ UNCHANGED <<startIndex, length, maxLength>>

recycle ==
    /\ length = maxLength
    /\ startIndex' = (startIndex + 1) % maxLength
    /\ done' = Result("recycle", <<array[(startIndex' + length - 1) % maxLength]>>, 1)
    /\ UNCHANGED <<array, length, maxLength>>

pop ==
    /\ length > 0
    /\ length' = length - 1
    /\ done' = Result("pop", <<Get(length - 1)>>, 0)
    /\ UNCHANGED <<array, startIndex, maxLength>>

(* The setter of length, that makes the list shorter.                      *)
Shorten(n) ==
    /\ n < length /\ length' = n
    /\ done' = Result("length", <<>>, 0)
    /\ UNCHANGED <<array, startIndex, maxLength>>

trimStart(n) ==
    /\ n <= length
    /\ startIndex' = startIndex + n /\ length' = length - n
    /\ done' = Result("trimStart", <<>>, n)
    /\ UNCHANGED <<array, maxLength>>

(* splice: lines are taken out, those behind make room, new ones go in.    *)
Inserted(start, count, items) ==
    LET left == length - count
        closed == Copied(array, [n \in 1..(left - start) |-> <<start + n - 1, start + n - 1 + count>>])
    IN  Placed(Copied(closed, Downwards(start, left - 1, Len(items))), start, items)
Overflow(size) == IF size > maxLength THEN size - maxLength ELSE 0
splice(start, count, items) ==
    LET size == length - count + Len(items)
    IN  /\ start + count <= length
        /\ Len(items) > 0 => start >= Overflow(size)
        /\ array' = Inserted(start, count, items)
        /\ startIndex' = startIndex + Overflow(size) /\ length' = size - Overflow(size)
        /\ done' = Result("splice", <<>>, Overflow(size))
        /\ UNCHANGED maxLength

(* shiftElements by one place towards the end, and towards the start.      *)
ShiftDown(start, count) ==
    LET size == IF start + count + 1 > length THEN start + count + 1 ELSE length
    IN  /\ count > 0 /\ start + count <= length /\ start >= Overflow(size)
        /\ array' = Copied(array, Downwards(start, start + count - 1, 1))
        /\ startIndex' = startIndex + Overflow(size) /\ length' = size - Overflow(size)
        /\ done' = Result("shift", <<>>, Overflow(size))
        /\ UNCHANGED maxLength
ShiftUp(start, count) ==
    /\ count > 0 /\ start > 0 /\ start + count <= length
    /\ array' = Copied(array, Upwards(start, start + count - 1, -1))
    /\ done' = Result("shift", <<>>, 0)
    /\ UNCHANGED <<startIndex, length, maxLength>>

(* The setter of maxLength.                                                *)
SetMaxLengthInPlace(n) ==       \* mutant: the list still starts where it did
    /\ n >= length /\ n # maxLength
    /\ array' = [i \in 0..(n - 1) |-> IF i < length THEN Get(i) ELSE Hole]
    /\ maxLength' = n /\ done' = Result("maxLength", <<>>, 0)
    /\ UNCHANGED <<length, startIndex>>
SetMaxLength(n) ==
    /\ n >= length /\ n # maxLength
    /\ array' = [i \in 0..(n - 1) |-> IF i < length THEN Get(i) ELSE Hole]
    /\ maxLength' = n /\ startIndex' = 0
    /\ done' = Result("maxLength", <<>>, 0)
    /\ UNCHANGED length

ListNext ==
    \/ \E item \in Items : push(item)
    \/ \E i \in 0..(length - 1), item \in Items : set(i, item)
    \/ recycle \/ pop
    \/ \E n \in 0..maxLength : Shorten(n) \/ (startIndex < MaxStart /\ trimStart(n))
    \/ /\ startIndex < MaxStart
       /\ \E start, count \in 0..length, items \in {<<>>} \cup {<<a>> : a \in Items} \cup {<<a, b>> : a, b \in Items} :
             splice(start, count, items)
    \/ /\ startIndex < MaxStart
       /\ \E start, count \in 0..length : ShiftDown(start, count) \/ ShiftUp(start, count)
    \/ \E n \in 1..MaxMaxLength : SetMaxLength(n)

-----------------------------------------------------------------------------
(* Every operation, wherever in the array the list starts, does to the     *)
(* sequence of the lines what LineSequence says, returns what it says, and *)
(* tells of as many trimmed lines.                                         *)
Sequence == INSTANCE LineSequence WITH lines <- [i \in 1..length |-> Get(i - 1)]
ListImplementsSequence == Sequence!Spec
=============================================================================
