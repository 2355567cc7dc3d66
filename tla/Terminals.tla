------------------------------- MODULE Terminals -------------------------------
(***************************************************************************)
(* The terminal of one instance on one page (handlers/terms.go): the       *)
(* manager of a websocket connects to the instance's terminal, a goroutine *)
(* writes what is typed to the connection and another one reads it; both   *)
(* report when it is lost, and for each report the manager connects again  *)
(* after a second.  The page types, the instance is announced, it is       *)
(* deleted or the page leaves, and connections are lost, at any time.  The *)
(* channel of states always has a reader, and is left out.                 *)
(*                                                                         *)
(* A terminal is a number: the first, the second ... that was connected.   *)
(***************************************************************************)
EXTENDS Integers, Sequences

CONSTANTS
    Cap,                            \* capacity of a terminal's write channel
    MaxKeys, MaxTerminals           \* bounds

VARIABLES
    exists,         \* the instance is in the storage
    tracked,        \* it is in manager.instances
    current,        \* manager.terminals: the terminal of the instance, or None
    conn,           \* of each terminal: its connection is "open", "lost" or "closed" by the manager
    write,          \* of each terminal: the channel, and whether it was closed
    writer, reader, \* of each terminal: its goroutine runs
    sendCh, errorCh,            \* keys in the channel, and reports in it
    holding,        \* process: the key it sends to a terminal, <<terminal, key>>, or Nothing
    timers,         \* reconnections that time.AfterFunc has to start
    connecting,     \* goroutines in connect that saw the instance tracked
    leaving,        \* the goroutine in disconnect: "no", "found", "cut" the terminal, "over"
    keys,           \* how many keys were typed
    announced,      \* INSTANCE_NEW was handled
    written,        \* history: the keys written to a connection
    refused,        \* history: a connection could not be made
    doubled,        \* history: a terminal was connected while the one before was open
    panicked        \* history: a key was sent on a closed channel

terminalVars == <<current, conn, write, writer, reader>>
processVars == <<sendCh, errorCh, holding>>
goVars == <<timers, connecting, leaving>>
historyVars == <<written, refused, doubled, panicked>>
terminalsVars == <<exists, tracked, terminalVars, processVars, goVars, keys, announced, historyVars>>

None == 0
Nothing == <<>>
Known == DOMAIN conn

(* When Start is over: the instance was found and connected to, or that    *)
(* failed; or it is yet to be announced.                                   *)
TerminalsInit ==
    /\ exists = TRUE
    /\ \/ tracked = TRUE /\ refused = FALSE /\ current = 1 /\ conn = <<"open">>
       \/ tracked \in BOOLEAN /\ refused = tracked /\ current = None /\ conn = <<>>
    /\ write = [t \in Known |-> [keys |-> <<>>, closed |-> FALSE]]
    /\ writer = [t \in Known |-> TRUE] /\ reader = [t \in Known |-> TRUE]
    /\ sendCh = <<>> /\ errorCh = 0 /\ holding = Nothing
    /\ timers = 0 /\ connecting = 0 /\ leaving = "no" /\ keys = 0 /\ announced = FALSE
    /\ written = <<>> /\ doubled = FALSE /\ panicked = FALSE

-----------------------------------------------------------------------------
(* connectTerminal, under the lock.                                        *)
ConnectTerminal ==
    /\ connecting > 0 /\ Len(conn) < MaxTerminals
    /\ connecting' = connecting - 1
    /\ current' = Len(conn) + 1
    /\ conn' = Append(conn, "open") /\ write' = Append(write, [keys |-> <<>>, closed |-> FALSE])
    /\ writer' = Append(writer, TRUE) /\ reader' = Append(reader, TRUE)
    /\ doubled' = (doubled \/ (current # None /\ conn[current] = "open"))
    /\ UNCHANGED <<exists, tracked, processVars, timers, leaving, keys, announced, written, refused, panicked>>

(* InstanceGetTerminal fails: nobody tries again.                          *)
ConnectFails ==
    /\ connecting > 0
    /\ connecting' = connecting - 1 /\ refused' = TRUE
    /\ UNCHANGED <<exists, tracked, terminalVars, processVars, timers, leaving, keys, announced, written, doubled, panicked>>

(* terminal.Go: the goroutine that writes.                                 *)
Write(t) ==
    /\ writer[t] /\ write[t].keys # <<>>
    /\ write' = [write EXCEPT ![t].keys = Tail(@)]
    /\ IF conn[t] = "open"
       THEN written' = Append(written, Head(write[t].keys)) /\ UNCHANGED <<writer, errorCh>>
       ELSE writer' = [writer EXCEPT ![t] = FALSE] /\ errorCh' = errorCh + 1 /\ UNCHANGED written
    /\ UNCHANGED <<exists, tracked, current, conn, reader, sendCh, holding, goVars, keys, announced, refused, doubled, panicked>>
WriteEnds(t) ==
    /\ writer[t] /\ write[t].keys = <<>> /\ write[t].closed
    /\ writer' = [writer EXCEPT ![t] = FALSE]
    /\ UNCHANGED <<exists, tracked, current, conn, write, reader, processVars, goVars, keys, announced, historyVars>>

(* The goroutine that reads.                                               *)
Read(t) ==
    /\ reader[t] /\ conn[t] # "open"
    /\ reader' = [reader EXCEPT ![t] = FALSE] /\ errorCh' = errorCh + 1
    /\ UNCHANGED <<exists, tracked, current, conn, write, writer, sendCh, holding, goVars, keys, announced, historyVars>>

Lose(t) ==
    /\ conn[t] = "open"
    /\ conn' = [conn EXCEPT ![t] = "lost"]
    /\ UNCHANGED <<exists, tracked, current, write, writer, reader, processVars, goVars, keys, announced, historyVars>>

-----------------------------------------------------------------------------
(* A key of the page, by way of Send.                                      *)
Type ==
    /\ keys < MaxKeys
    /\ keys' = keys + 1 /\ sendCh' = Append(sendCh, keys + 1)
    /\ UNCHANGED <<exists, tracked, terminalVars, errorCh, holding, goVars, announced, historyVars>>

(* process: a key is taken, getTerminal without the lock; it is sent, and  *)
(* the manager waits while the channel is full.                            *)
TakeKey ==
    /\ ~panicked /\ holding = Nothing /\ sendCh # <<>>
    /\ sendCh' = Tail(sendCh)
    /\ holding' = IF current = None THEN Nothing ELSE <<current, Head(sendCh)>>
    /\ UNCHANGED <<exists, tracked, terminalVars, errorCh, goVars, keys, announced, historyVars>>
Channel(t, key) == Append(write[t].keys, key)
SendKey ==
    /\ ~panicked /\ holding # Nothing
    /\ LET t == holding[1]
       IN  IF write[t].closed THEN panicked' = TRUE /\ UNCHANGED <<write, holding>>
           ELSE /\ Len(write[t].keys) < Cap
                /\ write' = [write EXCEPT ![t].keys = Channel(t, holding[2])]
                /\ holding' = Nothing /\ UNCHANGED panicked
    /\ UNCHANGED <<exists, tracked, current, conn, writer, reader, sendCh, errorCh, goVars, keys, announced,
                   written, refused, doubled>>

(* process: a report is taken; a second later connect looks if the         *)
(* instance is tracked.                                                    *)
ScheduledGone == IF exists THEN timers ELSE timers + 1      \* mutant
Scheduled == IF exists THEN timers + 1 ELSE timers
TakeError ==
    /\ ~panicked /\ holding = Nothing /\ errorCh > 0
    /\ errorCh' = errorCh - 1 /\ timers' = Scheduled
    /\ UNCHANGED <<exists, tracked, terminalVars, sendCh, holding, connecting, leaving, keys, announced, historyVars>>
Reconnect ==
    /\ timers > 0
    /\ timers' = timers - 1
    /\ connecting' = IF tracked THEN connecting + 1 ELSE connecting
    /\ UNCHANGED <<exists, tracked, terminalVars, processVars, leaving, keys, announced, historyVars>>

(* INSTANCE_NEW, of an instance that Start may have found already.         *)
InstanceNew ==
    /\ ~announced /\ exists
    /\ announced' = TRUE /\ tracked' = TRUE /\ connecting' = connecting + 1
    /\ UNCHANGED <<exists, terminalVars, processVars, timers, leaving, keys, historyVars>>

(* INSTANCE_DELETE, or Close when the page leaves: disconnect.             *)
Leave(deleted) ==
    /\ leaving = "no"
    /\ exists' = (exists /\ ~deleted)
    /\ leaving' = IF tracked THEN "found" ELSE "over"
    /\ UNCHANGED <<tracked, terminalVars, processVars, timers, connecting, keys, announced, historyVars>>
DisconnectChannel ==        \* mutant: the connection stays open
    /\ leaving = "found" /\ leaving' = "cut"
    /\ current' = None
    /\ IF current = None THEN UNCHANGED write ELSE write' = [write EXCEPT ![current].closed = TRUE]
    /\ UNCHANGED <<exists, tracked, conn, writer, reader, processVars, timers, connecting, keys, announced, historyVars>>
DisconnectTerminal ==
    /\ leaving = "found" /\ leaving' = "cut"
    /\ current' = None
    /\ IF current = None THEN UNCHANGED <<conn, write>>
       ELSE conn' = [conn EXCEPT ![current] = "closed"] /\ write' = [write EXCEPT ![current].closed = TRUE]
    /\ UNCHANGED <<exists, tracked, writer, reader, processVars, timers, connecting, keys, announced, historyVars>>
Untrack ==
    /\ leaving = "cut" /\ leaving' = "over"
    /\ tracked' = FALSE
    /\ UNCHANGED <<exists, terminalVars, processVars, timers, connecting, keys, announced, historyVars>>

TerminalsSteps ==
    \/ ConnectTerminal
    \/ \E t \in Known : Write(t) \/ WriteEnds(t) \/ Read(t)
    \/ TakeKey \/ SendKey \/ TakeError \/ Reconnect \/ DisconnectTerminal \/ Untrack
TerminalsNext ==
    \/ TerminalsSteps
    \/ ConnectFails \/ Type \/ InstanceNew
    \/ \E t \in Known : Lose(t)
    \/ \E deleted \in BOOLEAN : Leave(deleted)

(* Goroutines go on and timers run.                                        *)
TerminalsSpec == TerminalsInit /\ [][TerminalsNext]_terminalsVars /\ WF_terminalsVars(TerminalsSteps)

-----------------------------------------------------------------------------
(* Keys are written in the order they reached the manager, and none twice, *)
(* and no connection is open that the manager does not know, unless two    *)
(* were made at once; and a key is sent on a closed channel, which ends    *)
(* the server, only while the instance or the page goes.                   *)
TerminalsHold ==
    /\ ~doubled => /\ \A i, j \in DOMAIN written : i < j => written[i] < written[j]
                   /\ \A t \in Known : conn[t] = "open" => t = current
    /\ panicked => leaving # "no"

(* A terminal that is lost is connected again, as long as the instance and *)
(* the page stay: unless a connection is refused, or the manager waits to  *)
(* send a key to the lost terminal's full channel, which nobody reads.     *)
Stuck == holding # Nothing /\ ~writer[holding[1]] /\ Len(write[holding[1]].keys) = Cap
Reconnected ==
    (current # None /\ conn[current] = "lost") ~>
        ((current # None /\ conn[current] = "open") \/ leaving # "no" \/ refused \/ Stuck \/ Len(conn) = MaxTerminals)
=============================================================================
