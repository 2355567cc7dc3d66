------------------------------- MODULE Decoder -------------------------------
(***************************************************************************)
(* The decoders of the terminal's input (handlers/www/assets/xterm/        *)
(* xterm.js, core/input/TextDecoder): what the terminal is given to write  *)
(* arrives in chunks that are cut anywhere, also inside a character, and   *)
(* each chunk is decoded by a call of its own.  Utf8ToUtf32 keeps up to    *)
(* three bytes of an unfinished character from one call to the next,       *)
(* StringToUtf32 keeps the first half of a surrogate pair.                 *)
(*                                                                         *)
(* A step reads one byte or one code unit; `whole' reads the same text     *)
(* without any cut, and the properties compare the two.                    *)
(***************************************************************************)
EXTENDS Integers, Sequences

CONSTANTS
    Bytes,   \* the bytes that may arrive, in 0..255
    Units    \* the UTF-16 code units that may arrive, in 0..65535

VARIABLES
    kind,     \* "utf8" or "string": which decoder reads this text
    phase,    \* "idle" between two chunks, "resume" while the kept bytes are completed, "main"
    interim,  \* what is kept from chunk to chunk, 0 where nothing is
    head,     \* the part of the current character read in this chunk
    pos, cp, left,  \* locals of the resumption: slots used, value so far, bytes missing
    out,      \* the code points the last step delivered
    whole,    \* the part of the current character read, whatever the chunks
    wholeOut, \* the code points the last step delivers when nothing is cut
    hurt      \* the character being completed was cut in one of the two harmful ways

vars == <<kind, phase, interim, head, pos, cp, left, out, whole, wholeOut, hurt>>
local == <<pos, cp, left>>

Nothing == <<0, 0, 0>>
Continues(b) == b \in 128..191
Length(lead) == IF lead \in 192..223 THEN 2 ELSE IF lead \in 224..239 THEN 3 ELSE 4
Leads(b) == b \in 192..247
Payload(lead) == lead % (CASE Length(lead) = 2 -> 32 [] Length(lead) = 3 -> 16 [] OTHER -> 8)
Smallest(length) == CASE length = 2 -> 128 [] length = 3 -> 2048 [] OTHER -> 65536
Valid(length, c) == c >= Smallest(length) /\ ~(length = 3 /\ c \in 55296..57343)
                    /\ (length = 4 => c <= 1114111)

(* The value of the bytes of a character. *)
Value(bytes) ==
    LET v[i \in 1..Len(bytes)] == IF i = 1 THEN Payload(bytes[1]) ELSE (v[i - 1] * 64) + (bytes[i] % 64)
    IN  v[Len(bytes)]

(* The main loop's treatment of one byte: what it keeps as the head of a   *)
(* character, and what it delivers.                                        *)
Opened(b) == IF Leads(b) THEN <<b>> ELSE <<>>
Extended(h, b) ==
    IF h = <<>> \/ ~Continues(b) THEN Opened(b)
    ELSE IF Len(h) + 1 = Length(h[1]) THEN <<>> ELSE Append(h, b)
Delivered(h, b) ==
    IF h = <<>> \/ ~Continues(b) THEN IF b < 128 THEN <<b>> ELSE <<>>
    ELSE IF Len(h) + 1 = Length(h[1]) /\ Valid(Length(h[1]), Value(Append(h, b)))
         THEN <<Value(Append(h, b))>> ELSE <<>>

High(u) == u \in 55296..56319
Low(u) == u \in 56320..57343
(* The string decoder's: a first half waits for the unit after it.         *)
Paired(h, u) == IF h # <<>> THEN <<>> ELSE IF High(u) THEN <<u>> ELSE <<>>
Combined(h, u) ==
    IF h # <<>> THEN IF Low(u) THEN <<(h[1] - 55296) * 1024 + u - 56320 + 65536>> ELSE <<h[1], u>>
    ELSE IF High(u) THEN <<>> ELSE <<u>>

(* How many slots of interim the loop that reads it back counts: it stops  *)
(* at the first one whose low six bits are 0, used or not.                 *)
SlotsSeen(kept) ==
    IF kept[2] % 64 = 0 THEN 1 ELSE IF kept[3] % 64 = 0 THEN 2 ELSE 3
(* A mutant: of an unfinished character only the first byte is kept.       *)
KeptFirst(h) == [i \in 1..3 |-> IF i <= Len(h) /\ i = 1 THEN h[i] ELSE 0]
Kept(h) == [i \in 1..3 |-> IF i <= Len(h) THEN h[i] ELSE 0]

(* The two ways a cut does harm: a character of four bytes is dropped when *)
(* it is completed from interim, and a second byte of 128 (its low six     *)
(* bits are 0) is not counted when interim is read back: U+3000 to U+303F, *)
(* the Chinese and Japanese punctuation, all have it.                      *)
Harmful(kept) == kept[1] # 0 /\ (Length(kept[1]) = 4 \/ kept[2] = 128)

Init ==
    /\ kind \in {"utf8", "string"}
    /\ phase = "idle" /\ interim = Nothing /\ head = <<>>
    /\ pos = 0 /\ cp = 0 /\ left = 0
    /\ out = <<>> /\ whole = <<>> /\ wholeOut = <<>> /\ hurt = FALSE

(* decode(input) is called: what was kept is taken up again.               *)
StartChunk ==
    /\ phase = "idle"
    /\ IF interim[1] = 0
       THEN phase' = "main" /\ head' = <<>> /\ UNCHANGED local
       ELSE IF kind = "string"
       THEN phase' = "main" /\ head' = <<interim[1]>> /\ UNCHANGED local
       ELSE /\ phase' = "resume"
            /\ pos' = SlotsSeen(interim)
            /\ cp' = Value(SubSeq(interim, 1, pos'))
            /\ left' = Length(interim[1]) - pos'
            /\ UNCHANGED head
    /\ interim' = IF kind = "string" THEN Nothing ELSE interim
    /\ hurt' = (hurt \/ (kind = "utf8" /\ Harmful(interim)))
    /\ out' = <<>> /\ wholeOut' = <<>>
    /\ UNCHANGED <<kind, whole>>

(* One byte while the kept character is being completed.                   *)
ResumedValue(length, c) ==
    IF length = 4 THEN <<>>   \* it tests `codepoint', which is still 0, instead of cp
    ELSE IF Valid(length, c) THEN <<c>> ELSE <<>>
Resume(b) ==
    /\ phase = "resume"
    /\ IF ~Continues(b)
       THEN /\ interim' = Nothing /\ phase' = "main"
            /\ head' = Opened(b) /\ out' = Delivered(<<>>, b)
            /\ pos' = 0 /\ cp' = 0 /\ left' = 0
       ELSE IF left > 1
       THEN /\ interim' = [interim EXCEPT ![pos + 1] = b]
            /\ pos' = pos + 1 /\ cp' = (cp * 64) + (b % 64) /\ left' = left - 1
            /\ out' = <<>>
            /\ UNCHANGED <<phase, head>>
       ELSE /\ out' = ResumedValue(Length(interim[1]), (cp * 64) + (b % 64))
            /\ interim' = Nothing /\ phase' = "main" /\ head' = <<>>
            /\ pos' = 0 /\ cp' = 0 /\ left' = 0

Byte(b) ==
    /\ phase = "main"
    /\ head' = Extended(head, b) /\ out' = Delivered(head, b)
    /\ UNCHANGED <<phase, interim, local>>

ReadByte(b) ==
    /\ kind = "utf8"
    /\ Resume(b) \/ Byte(b)
    /\ whole' = Extended(whole, b) /\ wholeOut' = Delivered(whole, b)
    /\ hurt' = (hurt /\ phase' = "resume")
    /\ UNCHANGED kind

ReadUnit(u) ==
    /\ kind = "string" /\ phase = "main"
    /\ head' = Paired(head, u) /\ out' = Combined(head, u)
    /\ whole' = Paired(whole, u) /\ wholeOut' = Combined(whole, u)
    /\ UNCHANGED <<kind, phase, interim, local, hurt>>

(* The chunk is over: the main loop keeps what it has of a character; the  *)
(* resumption returns with what it has put into interim.                   *)
EndChunk ==
    /\ phase # "idle"
    /\ phase' = "idle"
    /\ interim' = IF phase = "main" THEN Kept(head) ELSE interim
    /\ head' = <<>> /\ pos' = 0 /\ cp' = 0 /\ left' = 0
    /\ out' = <<>> /\ wholeOut' = <<>>
    /\ UNCHANGED <<kind, whole, hurt>>

Next ==
    \/ StartChunk
    \/ \E b \in Bytes : ReadByte(b)
    \/ \E u \in Units : ReadUnit(u)
    \/ EndChunk

Spec == Init /\ [][Next]_vars

-----------------------------------------------------------------------------
(* A text that is cut is decoded to the characters it has uncut, each at   *)
(* the same byte, and what is kept between two chunks is what the uncut    *)
(* text is in the middle of - but for a character that was cut in one of   *)
(* the two harmful ways.  After such a character too the decoder falls     *)
(* into step: once the resumption is over it is where it would be without  *)
(* any cut (TextDecoder, decode).                                          *)
CutsChangeNothing ==
    [][/\ hurt \/ out' = wholeOut'
       /\ phase' = "main" => head' = whole'
       /\ phase' # "main" /\ ~hurt' => interim' = Kept(whole')]_vars
=============================================================================
