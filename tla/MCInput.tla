------------------------------- MODULE MCInput -------------------------------
(***************************************************************************)
(* The stages what a terminal is sent goes through, checked one by one:    *)
(* the server's connection to the instance (Terminals), the WebSocket      *)
(* add-ons (Attach), the queue of writes (WriteQueue), the decoders        *)
(* (Decoder) and the parser of escape sequences (Parser).  One             *)
(* stage hands the next a sequence of texts cut anywhere; the stages share *)
(* nothing else, so each is explored on its own, chosen by `stage'.        *)
(***************************************************************************)
EXTENDS Parser

CONSTANTS Bytes, Units, PauseAt, SliceAt, MaxWrites, Sockets, MaxMessages,
          Cap, MaxKeys, MaxTerminals

VARIABLES
    stage,
    kind, phase, interim, head, pos, cp, left, out, whole, wholeOut, hurt,
    flowControl, buffer, inProgress, timers, xoff, disposed, written, parsed, failed, bypassed,
    addon, buffered, bidirectional, open, calls, listeners, keyListeners, dataListener, crossed,
    leaving, collected, flushes, reading, arrived, shown, taken,
    exists, tracked, current, conn, write, writer, reader, sendCh, errorCh, holding, reconnections, connecting,
    goes, keys, announced, delivered, refused, doubled, panicked

decoderVars == <<kind, phase, interim, head, pos, cp, left, out, whole, wholeOut, hurt>>
queueVars == <<flowControl, buffer, inProgress, timers, xoff, disposed, written, parsed, failed, bypassed>>
attachVars == <<addon, buffered, bidirectional, open, calls, listeners, keyListeners, dataListener, crossed,
                leaving, collected, flushes, reading, arrived, shown, taken>>
managerVars == <<exists, tracked, current, conn, write, writer, reader, sendCh, errorCh, holding, reconnections,
                 connecting, goes, keys, announced, delivered, refused, doubled, panicked>>

Chunks == INSTANCE Decoder
Queue == INSTANCE WriteQueue
Joined == INSTANCE Attach WITH written <- shown
Manager == INSTANCE Terminals WITH timers <- reconnections, leaving <- goes, written <- delivered

MCInit ==
    /\ Init /\ Chunks!Init /\ Queue!Init /\ Joined!Init /\ Manager!TerminalsInit
    /\ stage \in {"queue", "decoder", "parser", "attach", "manager"}
    /\ stage # "queue" => ~flowControl
    /\ stage # "decoder" => kind = "utf8"
    /\ stage # "attach" => addon = "page" /\ buffered /\ bidirectional
    /\ stage # "manager" => current = 1

OnlyQueue == UNCHANGED <<stage, vars, decoderVars, attachVars, managerVars>>
OnlyDecoder == UNCHANGED <<stage, vars, queueVars, attachVars, managerVars>>
OnlyParser == UNCHANGED <<stage, queueVars, decoderVars, attachVars, managerVars>>
OnlyAttach == UNCHANGED <<stage, vars, decoderVars, queueVars, managerVars>>
OnlyManager == UNCHANGED <<stage, vars, decoderVars, queueVars, attachVars>>

MCNext ==
    \/ stage = "queue" /\ OnlyQueue /\ Queue!Next
    \/ stage = "decoder" /\ OnlyDecoder /\ Chunks!Next
    \/ stage = "parser" /\ OnlyParser /\ Next
    \/ stage = "attach" /\ OnlyAttach /\ Joined!Next
    \/ stage = "manager" /\ OnlyManager /\ Manager!TerminalsNext

allVars == <<stage, vars, decoderVars, queueVars, attachVars, managerVars>>

(* Timers that are set run, blobs are read, and goroutines go on.          *)
MCFairness ==
    /\ WF_allVars(stage = "queue" /\ OnlyQueue /\ Queue!Timer)
    /\ WF_allVars(stage = "attach" /\ OnlyAttach /\ Joined!Flush)
    /\ WF_allVars(stage = "attach" /\ OnlyAttach /\ (\E id \in reading : Joined!BlobRead(id)))
    /\ WF_allVars(stage = "manager" /\ OnlyManager /\ Manager!TerminalsSteps)

MCSpec == MCInit /\ [][MCNext]_allVars /\ MCFairness

-----------------------------------------------------------------------------
(* Decoder: a text cut anywhere is decoded as it is uncut.                 *)
CutsChangeNothing == Chunks!CutsChangeNothing
(* Parser: a sequence is dispatched with its own parameters, and the runs  *)
(* of text and of DCS data are handed over in turn, each once.             *)
SequencesAreWhole == DispatchedWhole /\ RunsInTurn
(* WriteQueue: what is written is parsed once, in order of its kind.       *)
(* Attach: a terminal hears and is heard, or neither.                      *)
StreamsHold == Queue!ParsedInOrder /\ Joined!BothWays
(* WriteQueue: what is written is parsed in the end, but for named cases.  *)
(* Attach: what a listener takes is written in order and in the end.       *)
StreamsArrive == (stage = "queue" => Queue!Drains) /\ (stage = "attach" => Joined!WrittenInOrder)
(* Terminals: keys are written in order and no connection is forgotten,    *)
(* but for named cases.                                                    *)
TerminalsHold == Manager!TerminalsHold
(* Terminals: a lost connection is made again, but for named cases.        *)
Reconnected == stage = "manager" => Manager!Reconnected
=============================================================================
