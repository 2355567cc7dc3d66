-------------------------------- MODULE Attach --------------------------------
(***************************************************************************)
(* The add-ons that join a terminal to a WebSocket (handlers/www/assets/   *)
(* attach.js, xterm/addons/attach, xterm/addons/terminado): messages are   *)
(* written to the terminal, at once or collected for 10 ms, keys are sent, *)
(* and the socket's close and error events detach it.  The listeners are   *)
(* properties of the terminal, so attaching it to a second socket replaces *)
(* the ones a later detach would remove from the first.                    *)
(*                                                                         *)
(* Messages are numbered as they arrive; an attachment is identified by    *)
(* the number of its call.                                                 *)
(***************************************************************************)
EXTENDS Integers, Sequences

CONSTANTS Sockets, MaxMessages

VARIABLES
    addon,          \* "page" (attach.js), "attach" or "terminado"
    buffered, bidirectional,
    open,           \* the sockets that are open
    calls,          \* the socket of each call of attach, in order
    listeners,      \* message listeners: numbers of calls
    keyListeners,   \* listeners of the terminal's data: numbers of calls
    dataListener,   \* __dataListener of the attach add-on, 0 when undefined
    leaving,        \* <<socket, event>>: close and error events still to be fired
    collected,      \* _attachSocketBuffer
    flushes,        \* timers of _flushBuffer that are set
    reading,        \* blobs that are being read
    arrived,        \* the number of messages so far
    written,        \* what the terminal has been given to write, in order
    taken,          \* history: the messages a listener took
    crossed         \* history: a call for one socket detached another

modes == <<addon, buffered, bidirectional>>
wires == <<calls, listeners, keyListeners, dataListener, crossed>>
messages == <<collected, flushes, reading, arrived, written, taken>>
vars == <<modes, wires, open, leaving, messages>>

latest == Len(calls)    \* term._getMessage and term._sendData are this call's

Init ==
    /\ addon \in {"page", "attach", "terminado"} /\ buffered \in BOOLEAN /\ bidirectional \in BOOLEAN
    /\ open = Sockets /\ calls = <<>> /\ listeners = {} /\ keyListeners = {} /\ dataListener = 0
    /\ leaving = {} /\ collected = <<>> /\ flushes = 0 /\ reading = {}
    /\ arrived = 0 /\ written = <<>> /\ taken = {} /\ crossed = FALSE

(* What the call leaves of the other listeners, and __dataListener, which  *)
(* terminado never sets.                                                   *)
KeysListenedTo == IF bidirectional THEN keyListeners \cup {latest + 1} ELSE keyListeners
DataListenerKept == IF bidirectional /\ addon = "attach" THEN latest + 1 ELSE dataListener

(* A program attaches a terminal to a socket at most once (a bound).       *)
AttachTo(s) ==
    /\ \A i \in 1..latest : calls[i] # s
    /\ calls' = Append(calls, s)
    /\ listeners' = listeners \cup {latest + 1}
    /\ keyListeners' = KeysListenedTo /\ dataListener' = DataListenerKept
    /\ UNCHANGED <<modes, open, leaving, messages, crossed>>

(* detach(term, socket): the attach add-on disposes of __dataListener,     *)
(* which throws when it is undefined; terminado never sets it.             *)
Throws == addon = "terminado" \/ (addon = "attach" /\ dataListener = 0)
(* A mutant: the terminal's data is still sent.                            *)
DetachedKeysKept(s) ==
    IF Throws THEN UNCHANGED wires
    ELSE /\ listeners' = {i \in listeners : i # latest \/ calls[i] # s}
         /\ dataListener' = 0 /\ crossed' = (crossed \/ calls[latest] # s)
         /\ UNCHANGED <<calls, keyListeners>>
Detached(s) ==
    IF Throws THEN UNCHANGED wires
    ELSE /\ keyListeners' = keyListeners \ {IF addon = "attach" THEN dataListener ELSE latest}
         /\ listeners' = {i \in listeners : i # latest \/ calls[i] # s}
         /\ dataListener' = 0
         /\ crossed' = (crossed \/ calls[latest] # s)
         /\ UNCHANGED calls

Detach(s) ==
    /\ \E i \in 1..latest : calls[i] = s
    /\ Detached(s)
    /\ UNCHANGED <<modes, open, leaving, messages>>

(* The socket goes, with an error or without; its events come later, error *)
(* before close.                                                           *)
Goes(s) ==
    /\ s \in open /\ open' = open \ {s}
    /\ \E events \in {{"close"}, {"error", "close"}} : leaving' = leaving \cup {<<s, e>> : e \in events}
    /\ UNCHANGED <<modes, wires, messages>>

Fires(s, event) ==
    /\ <<s, event>> \in leaving /\ (event = "close" => <<s, "error">> \notin leaving)
    /\ leaving' = leaving \ {<<s, event>>}
    /\ IF \E i \in 1..latest : calls[i] = s THEN Detached(s) ELSE UNCHANGED wires
    /\ UNCHANGED <<modes, open, messages>>

(* _pushToBuffer or write.                                                 *)
Display(id) ==
    IF buffered
    THEN /\ collected' = Append(collected, id)
         /\ flushes' = IF collected = <<>> THEN flushes + 1 ELSE flushes
         /\ UNCHANGED written
    ELSE written' = Append(written, id) /\ UNCHANGED <<collected, flushes>>

(* A message arrives; the attach add-on reads a blob before it shows it.   *)
Message(s, blob) ==
    /\ s \in open /\ arrived < MaxMessages
    /\ arrived' = arrived + 1
    /\ IF ~\E i \in listeners : calls[i] = s
       THEN UNCHANGED <<written, collected, flushes, reading, taken>>
       ELSE /\ taken' = taken \cup {arrived + 1}
            /\ IF blob /\ addon = "attach"
               THEN reading' = reading \cup {arrived + 1} /\ UNCHANGED <<written, collected, flushes>>
               ELSE Display(arrived + 1) /\ UNCHANGED reading
    /\ UNCHANGED <<modes, wires, open, leaving>>

BlobRead(id) ==
    /\ id \in reading /\ reading' = reading \ {id}
    /\ Display(id)
    /\ UNCHANGED <<modes, wires, open, leaving, arrived, taken>>

(* A mutant: what was collected is not cleared.                            *)
FlushKept ==
    /\ flushes > 0 /\ flushes' = flushes - 1
    /\ written' = written \o collected
    /\ UNCHANGED <<modes, wires, open, leaving, collected, reading, arrived, taken>>
Flush ==
    /\ flushes > 0 /\ flushes' = flushes - 1
    /\ written' = written \o collected /\ collected' = <<>>
    /\ UNCHANGED <<modes, wires, open, leaving, reading, arrived, taken>>

Next ==
    \/ \E s \in Sockets : AttachTo(s) \/ Detach(s) \/ Goes(s)
    \/ \E s \in Sockets, event \in {"close", "error"} : Fires(s, event)
    \/ \E s \in Sockets, blob \in BOOLEAN : Message(s, blob)
    \/ \E id \in reading : BlobRead(id)
    \/ Flush

(* A timer that is set runs, and a blob is read.                           *)
Spec == Init /\ [][Next]_vars /\ WF_vars(Flush) /\ WF_vars(\E id \in reading : BlobRead(id))

-----------------------------------------------------------------------------
(* What a listener takes is written to the terminal at most once and in    *)
(* the order it came, unless blobs are among it, which are read while      *)
(* later messages are written; in the end all of it is (attach.js and the  *)
(* add-ons, _getMessage and _flushBuffer).                                 *)
WrittenInOrder ==
    /\ [](\A i, j \in DOMAIN written : i # j =>
            written[i] # written[j] /\ (addon # "attach" /\ i < j => written[i] < written[j]))
    /\ <>[](taken = {written[i] : i \in DOMAIN written})

(* A terminal hears a socket and is heard by it, or neither, unless a call *)
(* for an older socket has detached the newer one's keys, or the detaching *)
(* has thrown (attach.js, detach; addons/attach, detach).                  *)
BothWays ==
    bidirectional /\ addon # "terminado" /\ ~crossed =>
        \A i \in 1..latest : i = latest => (i \in listeners <=> i \in keyListeners)
=============================================================================
