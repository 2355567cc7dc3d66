----------------------------- MODULE ServerProofs -----------------------------
(***************************************************************************)
(* Proofs about what runs concurrently in the server.                      *)
(*                                                                         *)
(* Sockets: types, OpenIsCounted and BrokerWritesInTurn for any number of  *)
(* sockets, messages and events. OpenIsCounted needs that the callbacks of *)
(* "close" start only when the reader is over: ClosesLast.                 *)
(* BrokerWritesInTurn needs that sockets are called only while the lock is *)
(* held: TurnIsHeld.                                                       *)
(*                                                                         *)
(* SwarmSetup: the safety of SessionSetup for any number of instances. The *)
(* mutex is what the argument turns on: whoever is about to start the      *)
(* swarm holds it and there is no swarm yet, so a second start is          *)
(* impossible, and a goroutine past the lock has seen the swarm.           *)
(***************************************************************************)
EXTENDS Sockets, SwarmSetup, TLAPS

-----------------------------------------------------------------------------
(* Sockets.                                                                *)


ClosesLast == \A u \in Clients : cb[u]["close"] # "none" => phase[u] = "over"

TurnIsHeld == turn # <<>> => delivering

SocketsInv == TypeOK /\ ClosesLast /\ OpenIsCounted /\ TurnIsHeld /\ BrokerWritesInTurn

(* The parts of TypeOK, which different steps disturb.                     *)
SocketTypes ==
  /\ live \in BOOLEAN /\ stored \subseteq Clients
  /\ peer \in [Clients -> {"none", "there", "gone"}]
  /\ phase \in [Clients -> Phases]
  /\ closed \in [Clients -> BOOLEAN]

MutexTypes == mx \in [Clients -> Writers \cup {"free", "stuck"}]

States == {"none", "sent", "store", "notify", "done"}

CallbackTypes == cb \in [Clients -> [Callbacks -> States]]

QueueTypes == subs \in Seq(Clients) /\ turn \in Seq(Clients)

EventTypes == pending \in Nat /\ delivering \in BOOLEAN /\ news \in 0..MaxNews

(* Together they are TypeOK.                                                *)
LEMMA TypeParts ==
  TypeOK <=> SocketTypes /\ MutexTypes /\ CallbackTypes /\ QueueTypes /\ EventTypes
BY DEF TypeOK, SocketTypes, MutexTypes, CallbackTypes, States, QueueTypes, EventTypes

(* A server without sockets.                                               *)
LEMMA InitSocketsInv == Init => SocketsInv
<1> SUFFICES ASSUME Init PROVE SocketsInv
  OBVIOUS
<1>1. SocketTypes /\ MutexTypes
  BY DEF Init, SocketTypes, MutexTypes, Phases
<1>2. CallbackTypes
  BY DEF Init, CallbackTypes, States
<1>3. QueueTypes
  BY DEF Init, QueueTypes
<1>4. EventTypes
  <2>1. pending \in Nat /\ news \in 0..MaxNews
    BY SocketsAssumption DEF Init
  <2> QED
    BY <2>1 DEF Init, EventTypes
<1>5. ClosesLast
  BY DEF Init, ClosesLast, Callbacks
<1>6. OpenIsCounted /\ TurnIsHeld /\ BrokerWritesInTurn
  BY DEF Init, OpenIsCounted, TurnIsHeld, BrokerWritesInTurn
<1> QED
  BY <1>1, <1>2, <1>3, <1>4, <1>5, <1>6, TypeParts DEF SocketsInv

(* One step of a callback, in the nested function.                         *)
LEMMA CallbackMoves ==
  ASSUME CallbackTypes, NEW u \in Clients, NEW k \in Callbacks, NEW v \in States,
         cb' = [cb EXCEPT ![u][k] = v]
  PROVE  CallbackTypes'
<1>1. [cb[u] EXCEPT ![k] = v] \in [Callbacks -> States]
  BY DEF CallbackTypes
<1> QED
  BY <1>1 DEF CallbackTypes

(* Every step keeps the types of the clients and their sockets.            *)
LEMMA NextSocketTypes == SocketTypes /\ [Next]_vars => SocketTypes'
<1> SUFFICES ASSUME SocketTypes, [Next]_vars PROVE SocketTypes'
  OBVIOUS
<1> USE DEF SocketTypes, client, socket, broker
<1>1. CASE UNCHANGED <<client, socket>>
  BY <1>1
<1>2. ASSUME NEW u \in Clients, Connect(u) \/ Join(u) \/ Close(u) PROVE SocketTypes'
  BY <1>2 DEF Connect, Join, ClientNew, Listen, Subscribe, Close, ReadFails, CloseDispatch,
              Goto, Phases
<1>3. ASSUME NEW u \in Clients, NEW k \in Callbacks,
             \/ Store(u, k) \/ Notify(u, k) \/ ClientClose(u)
             \/ ReadMessage(u, k) \/ Dispatch(u, k)
      PROVE  SocketTypes'
  BY <1>3 DEF Store, Notify, ClientClose, ReadMessage, Dispatch
<1>4. ASSUME NEW u \in Clients, EndWrite(u) \/ Output(u) \/ PageLeaves(u)
      PROVE  SocketTypes'
  BY <1>4 DEF EndWrite, Written, WriteFails, Output, PageLeaves
<1>5. CASE Deliver \/ Call \/ InstanceNews \/ SessionEnds
  BY <1>1, <1>5 DEF Deliver, StartDelivery, EndDelivery, Call, InstanceNews, SessionEnds
<1>6. CASE UNCHANGED vars
  BY <1>1, <1>6 DEF vars
<1> QED
  BY <1>2, <1>3, <1>4, <1>5, <1>6 DEF Next, Callback, Callbacks

(* And those of the callbacks.                                             *)
LEMMA NextCallbackTypes == CallbackTypes /\ [Next]_vars => CallbackTypes'
<1> SUFFICES ASSUME CallbackTypes, [Next]_vars PROVE CallbackTypes'
  OBVIOUS
<1> USE DEF client, socket, broker
<1>1. CASE UNCHANGED cb
  BY <1>1 DEF CallbackTypes
<1>2. ASSUME NEW u \in Clients, NEW k \in Callbacks,
             Store(u, k) \/ Notify(u, k) \/ ReadMessage(u, k) \/ Dispatch(u, k)
      PROVE  CallbackTypes'
  <2>1. PICK v \in States : cb' = [cb EXCEPT ![u][k] = v]
    BY <1>2 DEF Store, Notify, ReadMessage, Dispatch, States
  <2> QED
    BY <2>1, CallbackMoves
<1>3. ASSUME NEW u \in Clients, CloseDispatch(u) \/ ClientClose(u) PROVE CallbackTypes'
  <2>1. PICK v \in States : cb' = [cb EXCEPT ![u]["close"] = v]
    BY <1>3 DEF CloseDispatch, ClientClose, States
  <2> QED
    BY <2>1, CallbackMoves DEF Callbacks
<1>4. ASSUME NEW u \in Clients,
             \/ Connect(u) \/ Join(u) \/ ReadFails(u)
             \/ EndWrite(u) \/ Output(u) \/ PageLeaves(u)
      PROVE  UNCHANGED cb
  BY <1>4 DEF Connect, Join, ClientNew, Listen, Subscribe, ReadFails, EndWrite, Written,
              WriteFails, Output, PageLeaves
<1>5. CASE Deliver \/ Call \/ InstanceNews \/ SessionEnds
  BY <1>1, <1>5 DEF Deliver, StartDelivery, EndDelivery, Call, InstanceNews, SessionEnds
<1>6. CASE UNCHANGED vars
  BY <1>1, <1>6 DEF vars
<1> QED
  BY <1>1, <1>2, <1>3, <1>4, <1>5, <1>6 DEF Next, Close, Callback, Callbacks

(* And those of the broker and of the mutexes. A write for the broker ends *)
(* on the queue it began with, which is not empty.                         *)
LEMMA NextBrokerTypes ==
  /\ MutexTypes /\ QueueTypes /\ EventTypes /\ BrokerWritesInTurn
  /\ [Next]_vars
  => MutexTypes' /\ QueueTypes' /\ EventTypes'
<1> SUFFICES ASSUME MutexTypes, QueueTypes, EventTypes, BrokerWritesInTurn, [Next]_vars
             PROVE  MutexTypes' /\ QueueTypes' /\ EventTypes'
  OBVIOUS
<1> USE DEF client, socket, broker
<1>1. ASSUME UNCHANGED <<mx, broker>> PROVE MutexTypes' /\ QueueTypes' /\ EventTypes'
  BY <1>1 DEF MutexTypes, QueueTypes, EventTypes
<1>2. ASSUME turn # <<>> PROVE Head(turn) \in Clients /\ Tail(turn) \in Seq(Clients)
  BY <1>2 DEF QueueTypes
<1>3. ASSUME NEW u \in Clients, NEW who \in Writers, Written(u, who) \/ WriteFails(u, who)
      PROVE  MutexTypes' /\ QueueTypes' /\ EventTypes'
  <2>1. MutexTypes'
    BY <1>3 DEF Written, WriteFails, MutexTypes
  <2>2. who = "broker" => turn # <<>>
    BY <1>3 DEF Written, WriteFails, BrokerWritesInTurn
  <2>3. QueueTypes'
    BY <1>2, <1>3, <2>2 DEF Written, WriteFails, QueueTypes
  <2>4. EventTypes'
    BY <1>3 DEF Written, WriteFails, EventTypes
  <2> QED
    BY <2>1, <2>3, <2>4
<1>4. ASSUME NEW u \in Clients, Output(u) PROVE MutexTypes' /\ QueueTypes' /\ EventTypes'
  <2>1. MutexTypes'
    BY <1>4 DEF Output, MutexTypes, Writers
  <2> QED
    BY <1>4, <2>1 DEF Output, QueueTypes, EventTypes
<1>5. ASSUME NEW u \in Clients, Subscribe(u)
      PROVE  MutexTypes' /\ QueueTypes' /\ EventTypes'
  <2>1. QueueTypes'
    BY <1>5 DEF Subscribe, QueueTypes
  <2> QED
    BY <1>5, <2>1 DEF Subscribe, MutexTypes, EventTypes
<1>6. CASE Call
  <2>1. QueueTypes'
    BY <1>2, <1>6 DEF Call, QueueTypes
  <2>2. MutexTypes'
    BY <1>2, <1>6 DEF Call, MutexTypes, Writers
  <2> QED
    BY <1>6, <2>1, <2>2 DEF Call, EventTypes
<1>7. CASE Deliver \/ InstanceNews \/ SessionEnds
  <2>1. MutexTypes' /\ QueueTypes'
    BY <1>7 DEF Deliver, StartDelivery, EndDelivery, InstanceNews, SessionEnds, MutexTypes,
                QueueTypes
  <2>2. pending' \in Nat /\ news' \in 0..MaxNews
    BY <1>7, SocketsAssumption DEF Deliver, StartDelivery, EndDelivery, InstanceNews,
                SessionEnds, News, EventTypes
  <2>3. delivering' \in BOOLEAN
    BY <1>7 DEF Deliver, StartDelivery, EndDelivery, InstanceNews, SessionEnds, EventTypes
  <2> QED
    BY <2>1, <2>2, <2>3 DEF EventTypes
<1>8. ASSUME NEW u \in Clients, NEW k \in Callbacks, Notify(u, k)
      PROVE  MutexTypes' /\ QueueTypes' /\ EventTypes'
  BY <1>8 DEF Notify, MutexTypes, QueueTypes, EventTypes
<1>9. ASSUME NEW u \in Clients,
             \/ Connect(u) \/ ClientNew(u) \/ Listen(u) \/ Close(u) \/ PageLeaves(u)
             \/ ClientClose(u) \/ \E k \in Callbacks : Store(u, k)
             \/ \E k \in Resizes : ReadMessage(u, k) \/ Dispatch(u, k)
      PROVE  UNCHANGED <<mx, broker>>
  BY <1>9 DEF Connect, ClientNew, Listen, Close, ReadFails, CloseDispatch, PageLeaves,
              ClientClose, Store, ReadMessage, Dispatch
<1>10. CASE UNCHANGED vars
  BY <1>1, <1>10 DEF vars
<1> QED
  BY <1>1, <1>3, <1>4, <1>5, <1>6, <1>7, <1>8, <1>9, <1>10 DEF Next, Join, Callback, EndWrite

(* So every step keeps TypeOK.                                             *)
LEMMA NextTypes == SocketsInv /\ [Next]_vars => TypeOK'
<1> SUFFICES ASSUME SocketsInv, [Next]_vars PROVE TypeOK'
  OBVIOUS
<1>1. SocketTypes /\ MutexTypes /\ CallbackTypes /\ QueueTypes /\ EventTypes
  BY TypeParts DEF SocketsInv
<1>2. SocketTypes' /\ CallbackTypes'
  BY <1>1, NextSocketTypes, NextCallbackTypes
<1>3. MutexTypes' /\ QueueTypes' /\ EventTypes'
  BY <1>1, NextBrokerTypes DEF SocketsInv
<1> QED
  BY <1>2, <1>3 DEF TypeOK, SocketTypes, MutexTypes, CallbackTypes, States, QueueTypes,
                    EventTypes

(* Who joins, reads or is called back.                                     *)
LEMMA NextCounted == SocketsInv /\ [Next]_vars => ClosesLast' /\ OpenIsCounted'
<1> SUFFICES ASSUME SocketsInv, [Next]_vars PROVE ClosesLast' /\ OpenIsCounted'
  OBVIOUS
<1> USE DEF SocketsInv, TypeOK, ClosesLast, OpenIsCounted, client, socket, broker, Callbacks
<1>1. CASE UNCHANGED <<client, phase, cb>>
  BY <1>1
<1>2. ASSUME NEW u \in Clients, Connect(u) \/ Join(u) \/ Close(u)
      PROVE  ClosesLast' /\ OpenIsCounted'
  BY <1>2 DEF Connect, Join, ClientNew, Listen, Subscribe, Close, ReadFails, CloseDispatch,
              Goto, At, Phases
<1>3. ASSUME NEW u \in Clients, NEW k \in Callbacks,
             \/ Store(u, k) \/ Notify(u, k)
             \/ k \in Resizes /\ (ReadMessage(u, k) \/ Dispatch(u, k))
      PROVE  ClosesLast' /\ OpenIsCounted'
  BY <1>3, SocketsAssumption DEF Store, Notify, ReadMessage, Dispatch
<1>4. ASSUME NEW u \in Clients, ClientClose(u) PROVE ClosesLast' /\ OpenIsCounted'
  BY <1>4 DEF ClientClose
<1>5. CASE SessionEnds
  BY <1>5 DEF SessionEnds
<1>6. ASSUME NEW u \in Clients, EndWrite(u) \/ Output(u) \/ PageLeaves(u)
      PROVE  UNCHANGED <<client, phase, cb>>
  BY <1>6 DEF EndWrite, Written, WriteFails, Output, PageLeaves
<1>7. CASE Deliver \/ Call \/ InstanceNews
  BY <1>1, <1>7 DEF Deliver, StartDelivery, EndDelivery, Call, InstanceNews
<1>8. CASE UNCHANGED vars
  BY <1>1, <1>8 DEF vars
<1> QED
  BY <1>1, <1>2, <1>3, <1>4, <1>5, <1>6, <1>7, <1>8 DEF Next, Callback

(* Who writes for the broker.                                              *)
LEMMA NextInTurn == SocketsInv /\ [Next]_vars => TurnIsHeld' /\ BrokerWritesInTurn'
<1> SUFFICES ASSUME SocketsInv, [Next]_vars PROVE TurnIsHeld' /\ BrokerWritesInTurn'
  OBVIOUS
<1> USE DEF SocketsInv, TypeOK, TurnIsHeld, BrokerWritesInTurn, client, socket, broker
<1>1. CASE UNCHANGED <<mx, delivering, turn>>
  BY <1>1
<1>2. ASSUME NEW u \in Clients, NEW who \in Writers, Written(u, who) \/ WriteFails(u, who)
      PROVE  TurnIsHeld' /\ BrokerWritesInTurn'
  BY <1>2 DEF Written, WriteFails, Writers
<1>3. ASSUME NEW u \in Clients, Output(u) PROVE TurnIsHeld' /\ BrokerWritesInTurn'
  BY <1>3 DEF Output
<1>4. CASE Deliver
  BY <1>4 DEF Deliver, StartDelivery, EndDelivery
<1>5. CASE Call
  <2> DEFINE h == Head(turn)
  <2>1. h \in Clients /\ mx[h] = "free" /\ turn # <<>>
    BY <1>5 DEF Call, Free
  <2>2. \A u \in Clients : mx[u] # "broker"
    BY <2>1
  <2>3. CASE UNCHANGED <<mx, delivering>>
    BY <2>1, <2>2, <2>3
  <2>4. CASE mx' = [mx EXCEPT ![h] = "broker"] /\ UNCHANGED <<turn, delivering>>
    BY <2>1, <2>2, <2>4
  <2> QED
    BY <1>5, <2>3, <2>4 DEF Call
<1>6. CASE InstanceNews \/ SessionEnds
  BY <1>1, <1>6 DEF InstanceNews, SessionEnds
<1>7. ASSUME NEW u \in Clients,
             \/ Connect(u) \/ Join(u) \/ Close(u) \/ Callback(u) \/ PageLeaves(u)
             \/ \E k \in Resizes : ReadMessage(u, k) \/ Dispatch(u, k)
      PROVE  UNCHANGED <<mx, delivering, turn>>
  BY <1>7 DEF Connect, Join, ClientNew, Listen, Subscribe, Close, ReadFails, CloseDispatch,
              Callback, Store, Notify, ClientClose, PageLeaves, ReadMessage, Dispatch
<1>8. CASE UNCHANGED vars
  BY <1>1, <1>8 DEF vars
<1> QED
  BY <1>1, <1>2, <1>3, <1>4, <1>5, <1>6, <1>7, <1>8 DEF Next, EndWrite

(* The inductive invariant of the sockets.                                 *)
THEOREM SocketsInvariant == Spec => []SocketsInv
<1>1. SocketsInv /\ [Next]_vars => SocketsInv'
  BY NextTypes, NextCounted, NextInTurn DEF SocketsInv
<1> QED
  BY <1>1, InitSocketsInv, PTL DEF Spec

(* The type invariant.                                                     *)
THEOREM SocketsTypes == Spec => []TypeOK
BY SocketsInvariant, PTL DEF SocketsInv

(* A client that is being read is stored as long as its session is.        *)
THEOREM OpenAlwaysCounted == Spec => []OpenIsCounted
BY SocketsInvariant, PTL DEF SocketsInv

(* The broker writes to one socket at a time, the one whose turn it is.    *)
THEOREM BrokerAlwaysInTurn == Spec => []BrokerWritesInTurn
BY SocketsInvariant, PTL DEF SocketsInv

-----------------------------------------------------------------------------
(* SessionSetup.                                                           *)

(* The holder of the lock that starts the swarm is alone in doing so.      *)
Starter == \A m \in Members : MemberAt(m, "init") => lock = m /\ first = None

Joiners == \A m \in Members : MemberAt(m, "join") \/ MemberAt(m, "woken") => first # None

(* What a goroutine that has come past a point has behind it.              *)
Progress == \A m \in Members :
  /\ m \in Managers \cup Workers /\ pc[m] \in {"run", "select"} => swarm[m] # None
  /\ pc[m] \notin {"select", "done"} => exec[m] = "none"
  /\ ~failed /\ MemberAt(m, "done") =>
       exec[m] = "none" /\ (m \in Managers \cup Workers => swarm[m] # None)

SetupInv == SetupTypeOK /\ Starter /\ Joiners /\ OneSwarm /\ Progress

(* Every step of the initial state and of each action.                     *)
LEMMA InitSetupInv == SetupInit => SetupInv
  BY SetupAssumption DEF SetupInit, SetupInv, SetupTypeOK, Starter, Joiners, OneSwarm, Progress, MemberAt, Pcs

(* The invariant is inductive.                                             *)
LEMMA NextSetupInv == SetupInv /\ [SetupNext]_setupVars => SetupInv'
<1> SUFFICES ASSUME SetupInv, [SetupNext]_setupVars PROVE SetupInv'
  OBVIOUS
<1> USE SetupAssumption DEF SetupInv, SetupTypeOK, Starter, Joiners, OneSwarm, Progress, MemberAt, Pcs
<1>1. ASSUME NEW m \in Members, InstanceNew(m) PROVE SetupInv'
  <2>1. CASE Fail(m)
    BY <1>1, <2>1 DEF InstanceNew, MemberTo, Fail
  <2>2. CASE MemberTo(m, IF m \in Managers \cup Workers THEN "lock" ELSE "run")
              /\ UNCHANGED <<cancelled, failed>>
    BY <1>1, <2>2 DEF InstanceNew, MemberTo
  <2>3. QED
    BY <1>1, <2>1, <2>2 DEF InstanceNew
<1>2. ASSUME NEW m \in Members, LockManager(m) PROVE SetupInv'
  BY <1>2 DEF LockManager, MemberTo
<1>3. ASSUME NEW m \in Members, SwarmInit(m) PROVE SetupInv'
  <2>1. CASE Fail(m) /\ UNCHANGED <<lock, first, swarm>>
    BY <1>3, <2>1 DEF SwarmInit, MemberTo, Fail
  <2>2. CASE /\ swarm' = [swarm EXCEPT ![m] = m] /\ first' = m /\ lock' = None
             /\ pc' = [n \in Members |-> IF n = m THEN "run"
                                         ELSE IF MemberAt(n, "wait") THEN "woken" ELSE pc[n]]
             /\ UNCHANGED <<cancelled, failed>>
    <3>1. UNCHANGED exec
      BY <1>3 DEF SwarmInit
    <3>2. MemberAt(m, "init") /\ first = None /\ lock = m /\ \A n \in Members : swarm[n] = None
      BY <1>3 DEF SwarmInit
    <3>3. SetupTypeOK' /\ OneSwarm'
      BY <2>2, <3>1, <3>2
    <3>4. Starter' /\ Joiners'
      BY <2>2, <3>1, <3>2
    <3>5. Progress'
      BY <2>2, <3>1, <3>2
    <3>6. QED
      BY <3>3, <3>4, <3>5
  <2>3. QED
    BY <1>3, <2>1, <2>2 DEF SwarmInit
<1>4. ASSUME NEW m \in Members, LockWorker(m) PROVE SetupInv'
  BY <1>4 DEF LockWorker, MemberTo
<1>5. ASSUME NEW m \in Members, Woken(m) PROVE SetupInv'
  BY <1>5 DEF Woken, MemberTo
<1>6. ASSUME NEW m \in Members, SwarmJoin(m) PROVE SetupInv'
  <2>1. CASE Fail(m) /\ UNCHANGED swarm
    BY <1>6, <2>1 DEF SwarmJoin, MemberTo, Fail
  <2>2. CASE /\ swarm' = [swarm EXCEPT ![m] = first] /\ MemberTo(m, "run")
             /\ UNCHANGED <<cancelled, failed>>
    BY <1>6, <2>2 DEF SwarmJoin, MemberTo
  <2>3. QED
    BY <1>6, <2>1, <2>2 DEF SwarmJoin
<1>7. ASSUME NEW m \in Members, Run(m) PROVE SetupInv'
  BY <1>7 DEF Run, MemberTo, Succeed
<1>8. ASSUME NEW m \in Members, Receive(m) PROVE SetupInv'
  <2>1. CASE Succeed(m) /\ exec' = [exec EXCEPT ![m] = "none"]
    BY <1>8, <2>1 DEF Receive, MemberTo, Succeed
  <2>2. CASE Fail(m) /\ exec' = [exec EXCEPT ![m] = "stuck"]
    BY <1>8, <2>2 DEF Receive, MemberTo, Fail
  <2>3. QED
    BY <1>8, <2>1, <2>2 DEF Receive
<1>9. ASSUME NEW m \in Members, Cancelled(m) PROVE SetupInv'
  BY <1>9 DEF Cancelled, MemberTo, Fail
<1>10. ASSUME NEW m \in Members, Exec(m) PROVE SetupInv'
  BY <1>10 DEF Exec
<1>11. CASE UNCHANGED setupVars
  BY <1>11 DEF setupVars
<1>12. QED
  BY <1>1, <1>2, <1>3, <1>4, <1>5, <1>6, <1>7, <1>8, <1>9, <1>10, <1>11 DEF SetupNext, Step

(* The inductive invariant holds for every set of members and every choice *)
(* of roles.                                                               *)
THEOREM SetupInvariant == SetupSpec => []SetupInv
  BY InitSetupInv, NextSetupInv, PTL DEF SetupSpec

(* SetupTypeOK of module SwarmSetup.                                            *)
THEOREM SetupTypes == SetupSpec => []SetupTypeOK
<1>1. SetupInv => SetupTypeOK
  BY DEF SetupInv
<1>2. QED
  BY <1>1, SetupInvariant, PTL

(* No goroutine reads the address of a manager that is not there.          *)
THEOREM ManagerAlwaysKnown == SetupSpec => []ManagerIsKnown
<1>1. SetupInv => ManagerIsKnown
  BY DEF SetupInv, Joiners, ManagerIsKnown
<1>2. QED
  BY <1>1, SetupInvariant, PTL

(* MemberAt most one swarm is started, and all others join it.                   *)
THEOREM AtMostOneSwarm == SetupSpec => []OneSwarm
<1>1. SetupInv => OneSwarm
  BY DEF SetupInv
<1>2. QED
  BY <1>1, SetupInvariant, PTL

(* Success means a whole swarm.                                            *)
THEOREM SuccessMeansWhole == SetupSpec => []SuccessIsWhole
<1>1. SetupInv => SuccessIsWhole
  BY SetupAssumption DEF SetupInv, Progress, SuccessIsWhole, Returned, MemberAt
<1>2. QED
  BY <1>1, SetupInvariant, PTL
=============================================================================
