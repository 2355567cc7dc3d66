-------------------------------- MODULE Parser --------------------------------
(***************************************************************************)
(* EscapeSequenceParser of the terminal (handlers/www/assets/xterm/        *)
(* xterm.js): a table of transitions in the manner of the VT500, driven    *)
(* one code at a time over a chunk.  Text to be printed and data of a      *)
(* device control string are not passed on code by code: the parser        *)
(* remembers where a run of them began and passes on the run.  The locals  *)
(* of parse() are written back to the object when the chunk is over, the   *)
(* beginnings of the runs are not.                                         *)
(*                                                                         *)
(* A step reads one code; `text', `toPrint' and `toPut' are history: the   *)
(* codes since the sequence began and what still has to be passed on.      *)
(***************************************************************************)
EXTENDS Integers, Sequences, FiniteSets

CONSTANTS
    Codes,      \* the code points that may arrive
    Letters,    \* those of them that text and data are made of, a bound of the model
    MaxText,    \* bound on the length of a sequence
    MaxRun      \* bound on the length of a run

ASSUME CodesAssumption == Codes \subseteq Nat

VARIABLES
    state, osc, collect, params, hooked,
                \* locals, written back to the object when a chunk is over
    print, dcs, \* the runs begun at these locals, <<>> when they are -1
    called,     \* the handlers the last step called
    text, toPrint, toPut

kept == <<state, osc, collect, params, hooked>>
runs == <<print, dcs>>
history == <<text, toPrint, toPut>>
vars == <<kept, runs, called, history>>

Ground == 0  Escape == 1  EscapeIntermediate == 2
CsiEntry == 3  CsiParam == 4  CsiIntermediate == 5  CsiIgnore == 6
SosPmApc == 7  OscString == 8
DcsEntry == 9  DcsParam == 10  DcsIgnore == 11  DcsIntermediate == 12  DcsPassthrough == 13

BEL == 7  CAN == 24  SUB == 26  ESC == 27  DEL == 127  ST == 156
Semicolon == 59
Printables == 32..126
Executables == 0..23 \cup {25} \cup 28..31
Digits == 48..57
Intermediates == 32..47
Finals == 64..126
Beyond == 160           \* NON_ASCII_PRINTABLE, the column of every code above 0x9f
All == 0..13

(* VT500_TRANSITION_TABLE: <<codes, states, action, next>>, the last entry *)
(* that fits holds; next = -1 stays in the state.                          *)
Rules == <<
    <<0..Beyond, All, "error", Ground>>, <<Printables, {Ground}, "print", Ground>>,
    <<{CAN, SUB} \cup 128..143 \cup 145..151 \cup {144, 153, 154}, All, "execute", Ground>>,
    <<{ST}, All, "ignore", Ground>>, <<{ESC}, All, "clear", Escape>>,
    <<{157}, All, "oscStart", OscString>>, <<{152, 158, 159}, All, "ignore", SosPmApc>>,
    <<{155}, All, "clear", CsiEntry>>, <<{144}, All, "clear", DcsEntry>>,
    <<Executables, {Ground, Escape, CsiEntry, CsiParam, CsiIgnore, CsiIntermediate, EscapeIntermediate}, "execute", -1>>,
    <<{DEL}, {Escape, CsiEntry, CsiParam, CsiIntermediate, EscapeIntermediate}, "ignore", -1>>,
    <<Executables, {OscString}, "ignore", -1>>,
    <<{93}, {Escape}, "oscStart", OscString>>, <<Printables \cup {DEL}, {OscString}, "oscPut", -1>>,
    <<{ST, ESC, CAN, SUB, BEL}, {OscString}, "oscEnd", Ground>>,
    <<{88, 94, 95}, {Escape}, "ignore", SosPmApc>>,
    <<Printables \cup Executables \cup {DEL}, {SosPmApc}, "ignore", -1>>,
    <<{91}, {Escape}, "clear", CsiEntry>>, <<Finals, {CsiEntry, CsiParam, CsiIntermediate}, "csi", Ground>>,
    <<Digits \cup {Semicolon}, {CsiEntry, CsiParam}, "param", CsiParam>>,
    <<60..63, {CsiEntry}, "collect", CsiParam>>, <<{58} \cup 60..63, {CsiParam}, "ignore", CsiIgnore>>,
    <<32..63 \cup {DEL}, {CsiIgnore}, "ignore", -1>>, <<Finals, {CsiIgnore}, "ignore", Ground>>,
    <<{58}, {CsiEntry}, "ignore", CsiIgnore>>, <<48..63, {CsiIntermediate}, "ignore", CsiIgnore>>,
    <<Intermediates, {CsiEntry, CsiIntermediate, CsiParam}, "collect", CsiIntermediate>>,
    <<Intermediates, {Escape, EscapeIntermediate}, "collect", EscapeIntermediate>>,
    <<48..126, {EscapeIntermediate}, "esc", Ground>>,
    <<48..79 \cup 81..87 \cup {89, 90, 92} \cup 96..126, {Escape}, "esc", Ground>>,
    <<{80}, {Escape}, "clear", DcsEntry>>,
    <<Executables \cup {DEL}, {DcsEntry, DcsParam, DcsIntermediate, DcsIgnore}, "ignore", -1>>,
    <<Printables, {DcsIgnore}, "ignore", -1>>,
    <<Intermediates, {DcsEntry, DcsParam, DcsIntermediate}, "collect", DcsIntermediate>>,
    <<{58}, {DcsEntry}, "ignore", DcsIgnore>>, <<{58} \cup 60..63, {DcsParam}, "ignore", DcsIgnore>>,
    <<Digits \cup {Semicolon}, {DcsEntry, DcsParam}, "param", DcsParam>>,
    <<60..63, {DcsEntry}, "collect", DcsParam>>, <<48..63, {DcsIntermediate}, "ignore", DcsIgnore>>,
    <<Finals, {DcsEntry, DcsParam, DcsIntermediate}, "hook", DcsPassthrough>>,
    <<Executables \cup Printables, {DcsPassthrough}, "put", -1>>,
    <<{DEL}, {DcsPassthrough}, "ignore", -1>>, <<{ESC, ST}, {DcsPassthrough}, "unhook", Ground>>,
    <<{Beyond}, {OscString}, "oscPut", -1>> >>

Column(c) == IF c < Beyond THEN c ELSE Beyond
Entry(s, c) ==
    LET fits == {i \in 1..Len(Rules) : Column(c) \in Rules[i][1] /\ s \in Rules[i][2]}
    IN  Rules[CHOOSE i \in fits : \A j \in fits : j <= i]
Table == [s \in All |-> [c \in Codes |-> Entry(s, c)]]

Fresh == <<0>>   \* params = [0]
Init ==
    /\ state = Ground /\ osc = <<>> /\ collect = <<>> /\ params = Fresh /\ hooked = FALSE
    /\ print = <<>> /\ dcs = <<>> /\ called = <<>>
    /\ text = <<>> /\ toPrint = <<>> /\ toPut = <<>>

Grown(run, c) == IF run = <<>> THEN run ELSE Append(run, c)
Printed == IF print # <<>> THEN <<<<"print", print>>>> ELSE <<>>

(* Code c is read in a state whose entry names the action; the history     *)
(* notes what the code is part of.                                         *)
Reads(c, action) ==
    /\ Table[state][c][3] = action
    /\ Len(print) < MaxRun /\ Len(dcs) < MaxRun
    /\ action \in {"print", "put", "oscPut"} => c \in Letters
    /\ state' = IF Table[state][c][4] = -1 THEN state ELSE Table[state][c][4]
    /\ text' = IF action \in {"clear", "oscStart"} \/ state' \in {Ground, SosPmApc, DcsPassthrough}
               THEN <<>> ELSE Append(text, c)
    /\ Len(text') <= MaxText
Others == UNCHANGED <<osc, collect, params, hooked>>
Reset == osc' = <<>> /\ params' = Fresh /\ collect' = <<>> /\ dcs' = <<>>
Flush == called' = Printed /\ print' = <<>> /\ toPrint' = <<>>
Aborts == toPut' = IF state = DcsPassthrough THEN <<>> ELSE toPut   \* what was not passed on is forfeit

PrintRun(c) ==
    /\ Reads(c, "print") \/ (c = DEL /\ state = Ground /\ Reads(c, "error"))   \* the fast path takes DEL too
    /\ print' = Append(print, c) /\ toPrint' = Append(toPrint, c)
    /\ dcs' = Grown(dcs, c) /\ called' = <<>>
    /\ Others /\ UNCHANGED toPut

Execute(c) ==
    /\ Reads(c, "execute")
    /\ called' = Append(Printed, <<"execute", c>>) /\ print' = <<>> /\ toPrint' = <<>>
    /\ dcs' = Grown(dcs, c) /\ Aborts /\ Others

(* An ignored code ends the run: of text if there is one, else of data.    *)
Ignore(c) ==
    /\ Reads(c, "ignore")
    /\ IF print # <<>> \/ dcs = <<>>
       THEN Flush /\ dcs' = Grown(dcs, c) /\ toPut' = toPut
       ELSE /\ called' = <<<<"put", dcs>>>> /\ dcs' = <<>>
            /\ toPut' = <<>> /\ UNCHANGED <<print, toPrint>>
    /\ Others

(* No entry of its own: a code above 0x9f is text, or stays where such     *)
(* codes are skipped or passed through; anything else is reported and ends *)
(* the sequence.                                                           *)
Error(c) ==
    /\ ~(c = DEL /\ state = Ground)
    /\ Table[state][c][3] = "error"
    /\ Len(print) < MaxRun /\ Len(dcs) < MaxRun
    /\ LET beyond == c >= Beyond
       IN  /\ state' = IF beyond /\ state \in {Ground, CsiIgnore, DcsIgnore, DcsPassthrough} THEN state ELSE Ground
           /\ print' = IF beyond /\ state = Ground THEN Append(print, c) ELSE Grown(print, c)
           /\ dcs' = IF beyond /\ state = DcsPassthrough THEN Append(dcs, c) ELSE Grown(dcs, c)
           /\ toPrint' = IF beyond /\ state = Ground THEN Append(toPrint, c) ELSE toPrint
           /\ toPut' = IF beyond /\ state = DcsPassthrough THEN Append(toPut, c) ELSE toPut
           /\ called' = IF state' # Ground \/ state = Ground THEN <<>> ELSE <<<<"error", c>>>>
    /\ text' = IF state' = Ground THEN <<>> ELSE text
    /\ Others

CsiDispatch(c) ==
    /\ Reads(c, "csi")
    /\ called' = <<<<"csi", collect, params, c>>>>
    /\ dcs' = Grown(dcs, c) /\ Others /\ UNCHANGED <<print, toPrint, toPut>>

Param(c) ==
    /\ Reads(c, "param")
    /\ params' = IF c = Semicolon THEN Append(params, 0)
                 ELSE [params EXCEPT ![Len(params)] = (@ * 10) + c - 48]
    /\ called' = <<>> /\ dcs' = Grown(dcs, c)
    /\ UNCHANGED <<osc, collect, hooked, print, toPrint, toPut>>

Collect(c) ==
    /\ Reads(c, "collect")
    /\ collect' = Append(collect, c)
    /\ called' = <<>> /\ dcs' = Grown(dcs, c)
    /\ UNCHANGED <<osc, params, hooked, print, toPrint, toPut>>

EscDispatch(c) ==
    /\ Reads(c, "esc")
    /\ called' = <<<<"esc", collect, c>>>>
    /\ dcs' = Grown(dcs, c) /\ Others /\ UNCHANGED <<print, toPrint, toPut>>

(* A mutant: the intermediates of the sequence before are not cleared.     *)
ClearCollectKept(c) ==
    /\ Reads(c, "clear")
    /\ Flush /\ Aborts /\ osc' = <<>> /\ params' = Fresh /\ dcs' = <<>>
    /\ UNCHANGED <<collect, hooked>>
Clear(c) ==
    /\ Reads(c, "clear")
    /\ Flush /\ Reset /\ Aborts /\ UNCHANGED hooked

Hook(c) ==
    /\ Reads(c, "hook")
    /\ called' = <<<<"hook", collect, params, c>>>> /\ hooked' = TRUE
    /\ dcs' = Grown(dcs, c) /\ toPut' = <<>>
    /\ UNCHANGED <<osc, collect, params, print, toPrint>>

Put(c) ==
    /\ Reads(c, "put")
    /\ dcs' = Append(dcs, c) /\ toPut' = Append(toPut, c)
    /\ called' = <<>> /\ Others /\ UNCHANGED <<print, toPrint>>

(* ESC ends a string as ST does, and begins the sequence it is part of.    *)
EndsWith(c) == state' = IF c = ESC THEN Escape ELSE Ground
Unhook(c) ==
    /\ Table[state][c][3] = "unhook" /\ EndsWith(c)
    /\ called' = (IF hooked /\ dcs # <<>> THEN <<<<"put", dcs>>>> ELSE <<>>)
                 \o (IF hooked THEN <<<<"unhook">>>> ELSE <<>>)
    /\ hooked' = FALSE /\ Reset /\ text' = <<>> /\ toPut' = <<>>
    /\ UNCHANGED <<print, toPrint>>

OscStart(c) ==
    /\ Reads(c, "oscStart")
    /\ Flush /\ osc' = <<>> /\ dcs' = Grown(dcs, c) /\ Aborts
    /\ UNCHANGED <<collect, params, hooked>>

OscPut(c) ==
    /\ Reads(c, "oscPut")
    /\ osc' = Append(osc, c)
    /\ called' = <<>> /\ dcs' = Grown(dcs, c)
    /\ UNCHANGED <<collect, params, hooked, print, toPrint, toPut>>

OscEnd(c) ==
    /\ Table[state][c][3] = "oscEnd" /\ EndsWith(c)
    /\ called' = IF osc # <<>> /\ c \notin {CAN, SUB} THEN <<<<"osc", osc>>>> ELSE <<>>
    /\ Reset /\ text' = <<>>
    /\ UNCHANGED <<hooked, print, toPrint, toPut>>

(* A chunk is over and the next begins: the run that is being read is      *)
(* passed on, the locals are written back and read again, but not where    *)
(* the runs began.                                                         *)
Passes == state = DcsPassthrough /\ dcs # <<>> /\ hooked
(* A mutant: the run of text of a chunk that ends in text is not passed on. *)
CutLosingText ==
    /\ called' = IF Passes THEN <<<<"put", dcs>>>> ELSE <<>>
    /\ print' = <<>> /\ dcs' = <<>> /\ toPut' = IF Passes THEN <<>> ELSE toPut
    /\ UNCHANGED <<kept, text, toPrint>>
Cut ==
    /\ called' = IF state = Ground THEN Printed ELSE IF Passes THEN <<<<"put", dcs>>>> ELSE <<>>
    /\ toPrint' = IF state = Ground /\ print # <<>> THEN <<>> ELSE toPrint
    /\ toPut' = IF Passes THEN <<>> ELSE toPut
    /\ print' = <<>> /\ dcs' = <<>>
    /\ UNCHANGED <<kept, text>>

Consume(c) ==
    \/ PrintRun(c) \/ Execute(c) \/ Ignore(c) \/ Error(c) \/ CsiDispatch(c) \/ Param(c)
    \/ Collect(c) \/ EscDispatch(c) \/ Clear(c) \/ Hook(c) \/ Put(c) \/ Unhook(c)
    \/ OscStart(c) \/ OscPut(c) \/ OscEnd(c)

Next == (\E c \in Codes : Consume(c)) \/ Cut

Spec == Init /\ [][Next]_vars

-----------------------------------------------------------------------------
Collected == Intermediates \cup 60..63
Numbers == Digits \cup {Semicolon}
OscText == {c \in Codes : c >= 32 /\ c \notin 128..159}
(* The kth of a set of numbers, and the members of a set in a sequence.    *)
Nth(S, k) == CHOOSE e \in S : Cardinality({f \in S : f <= e}) = k
Places(s, A) == {i \in 1..Len(s) : s[i] \in A}
Only(s, A) == [k \in 1..Cardinality(Places(s, A)) |-> s[Nth(Places(s, A), k)]]
(* What a list of parameters stands for: one more than it has semicolons,  *)
(* each the decimal number between two of them.                            *)
Ends(t) == {0, Len(t) + 1} \cup Places(t, {Semicolon})
Meaning(t) ==
    LET decimal[i \in 0..Len(t)] ==
            IF i \in Ends(t) THEN 0 ELSE (decimal[i - 1] * 10) + t[i] - 48
    IN  [k \in 1..(Cardinality(Ends(t)) - 1) |-> decimal[Nth(Ends(t), k + 1) - 1]]

(* A sequence that is cut anywhere, with control characters executed in    *)
(* its middle, is handed to its handler whole and alone: the parameters    *)
(* and the prefix of a CSI or DCS, the intermediate of an ESC, the text of *)
(* an OSC are exactly those read since it began                            *)
(* (EscapeSequenceParser, parse).                                          *)
DispatchedWhole ==
    [][\A i \in DOMAIN called' :
         LET e == called'[i] IN
         /\ e[1] \in {"csi", "hook"} =>
              e[2] = Only(text, Collected) /\ e[3] = Meaning(Only(text, Numbers))
         /\ e[1] = "esc" => e[2] = Only(text, Collected)
         /\ e[1] = "osc" => e[2] = Only(text, OscText)]_vars

(* Every run passed on is exactly what was read and not yet passed on, in  *)
(* order, wherever the text was cut; nothing is held back when a sequence  *)
(* begins or a chunk is over, and a handler of control strings that is     *)
(* told the string is complete has all of it.  Only data of a string that  *)
(* was abandoned in its middle may be passed on late, with what follows it *)
(* (EscapeSequenceParser, parse: a code that is executed does not end the  *)
(* run of data).                                                           *)
RunsInTurn ==
    [][/\ \A i \in DOMAIN called' :
            /\ called'[i][1] = "print" => called'[i][2] = toPrint
            /\ called'[i][1] = "put" => called'[i][2] = toPut \/ state # DcsPassthrough
            /\ called'[i][1] = "unhook" => toPut = <<>> \/ called'[1] = <<"put", toPut>>
       /\ Cut \/ state' # Ground => toPrint' = <<>>
       /\ Cut \/ state' # DcsPassthrough => toPut' = <<>>]_vars
=============================================================================
