------------------------------ MODULE Storage ------------------------------
(***************************************************************************)
(* storage/file.go: the in-memory database of sessions and of the three    *)
(* tables that hang off a session (instances, windows instances, clients), *)
(* the by-session index of each table, and the JSON file the whole         *)
(* database is rewritten to on every change.                               *)
(*                                                                         *)
(* Every method holds store.rw from its first line to its return, so a     *)
(* method is one action up to the point where save() has truncated the     *)
(* file, and a second one for the end of save(); a crash may fall between. *)
(***************************************************************************)
EXTENDS Naturals, Sequences, SequencesExt

CONSTANTS SessionIds,     \* ids of sessions
          InstanceNames,  \* names of containers
          ClientIds,      \* ids of websocket clients
          WindowsIds,     \* ids of pooled Windows machines
          Owner,          \* the session whose id a container or client carries
          None,           \* "not in the map"
          NoFile,         \* the file does not exist
          Torn            \* a truncated file, which does not decode

Names == InstanceNames \cup ClientIds \cup WindowsIds

(* Container names start with the session id and an xid, a client id is    *)
(* drawn per websocket: neither is ever stored under two sessions. The     *)
(* machines of the Windows pool are handed from one session to another.    *)
OwnNames == InstanceNames \cup ClientIds

Tables == {"instances", "windows", "clients"}

TableOf(n) == IF n \in InstanceNames THEN "instances"
              ELSE IF n \in ClientIds THEN "clients" ELSE "windows"

(* Every value the whole database can take.                               *)
Snapshots == [sessions : SUBSET SessionIds,
              row : [Names -> SessionIds \cup {None}],
              index : [Tables -> [SessionIds -> Seq(Names)]]]

ASSUME StorageAssumption ==
  /\ InstanceNames \cap ClientIds = {}
  /\ OwnNames \cap WindowsIds = {}
  /\ Owner \in [OwnNames -> SessionIds]
  /\ None \notin SessionIds
  /\ NoFile # Torn
  /\ {NoFile, Torn} \cap Snapshots = {}
  /\ Torn \notin [live : SUBSET SessionIds,
                 owner : [OwnNames -> SessionIds \cup {None}]]

VARIABLES sessions,   \* db.Sessions: the stored session ids
          row,        \* the session each stored name carries, None if absent
          index,      \* index[t][s]: the by-session list of table t
          disk,       \* the file: NoFile, Torn or a snapshot of the database
          pc,         \* "down", "idle", or "saving": inside save(), rw held
          saveErr     \* did the last save() return an error?

db == <<sessions, row, index>>
vars == <<sessions, row, index, disk, pc, saveErr>>

NoRows == [n \in Names |-> None]
NoLists == [t \in Tables |-> [s \in SessionIds |-> <<>>]]

EmptyDB == [sessions |-> {}, row |-> NoRows, index |-> NoLists]
(* Variant: the indexes left out of the encoding, as json:"-" would.       *)
SnapshotNoIndex == [sessions |-> sessions, row |-> row, index |-> NoLists]
Snapshot == [sessions |-> sessions, row |-> row, index |-> index]

(* What load() would build from the present file.                          *)
Loaded == IF disk = NoFile THEN EmptyDB ELSE disk

Init == /\ sessions = {}
        /\ row = NoRows
        /\ index = NoLists
        /\ disk = NoFile
        /\ pc = "down"
        /\ saveErr = FALSE
-----------------------------------------------------------------------------
(* save(), up to the return of os.Create: the file is truncated, or it     *)
(* could not be opened and the error is returned with memory changed.      *)
Save == \/ /\ disk' = Torn
           /\ pc' = "saving"
           /\ UNCHANGED saveErr
        \/ /\ saveErr' = TRUE
           /\ UNCHANGED <<disk, pc>>

(* The rest of save(): encode the database, or fail and leave a torn file. *)
Encode == /\ pc = "saving"
          /\ \/ /\ disk' = Snapshot
                /\ saveErr' = FALSE
             \/ /\ saveErr' = TRUE
                /\ UNCHANGED disk
          /\ pc' = "idle"
          /\ UNCHANGED db

SessionPut(s) == /\ pc = "idle"
                 /\ sessions' = sessions \cup {s}
                 /\ Save
                 /\ UNCHANGED <<row, index>>

(* The names the indexes list under a session: what SessionDelete cascades *)
(* to.                                                                     *)
Listed(s) == UNION {Range(index[t][s]) : t \in Tables}

(* Variant: a cascade that forgets the instances table.                    *)
SessionDeleteShallow(s) ==
  /\ pc = "idle"
  /\ s \in sessions
  /\ sessions' = sessions \ {s}
  /\ row' = [n \in Names |-> IF n \in Listed(s) \ InstanceNames
                             THEN None ELSE row[n]]
  /\ index' = [t \in Tables |-> [index[t] EXCEPT ![s] = <<>>]]
  /\ Save

SessionDelete(s) ==
  /\ pc = "idle"
  /\ s \in sessions
  /\ sessions' = sessions \ {s}
  /\ row' = [n \in Names |-> IF n \in Listed(s) THEN None ELSE row[n]]
  /\ index' = [t \in Tables |-> [index[t] EXCEPT ![s] = <<>>]]
  /\ Save

(* Variants of a Put: without the check of the session, without the search *)
(* of the list, and listing under another table.                           *)
ChildPutAnySession(n, s) ==
  /\ pc = "idle"
  /\ row' = [row EXCEPT ![n] = s]
  /\ index' = IF n \in Range(index[TableOf(n)][s]) THEN index
              ELSE [index EXCEPT ![TableOf(n)][s] = Append(@, n)]
  /\ Save
  /\ UNCHANGED sessions

ChildPutNoSearch(n, s) ==
  /\ pc = "idle"
  /\ s \in sessions
  /\ row' = [row EXCEPT ![n] = s]
  /\ index' = [index EXCEPT ![TableOf(n)][s] = Append(@, n)]
  /\ Save
  /\ UNCHANGED sessions

ChildPutWrongTable(n, s) ==
  /\ pc = "idle"
  /\ s \in sessions
  /\ row' = [row EXCEPT ![n] = s]
  /\ index' = IF n \in Range(index["instances"][s]) THEN index
              ELSE [index EXCEPT !["instances"][s] = Append(@, n)]
  /\ Save
  /\ UNCHANGED sessions

(* Shared shape of the three Put methods: the session must be stored, the  *)
(* row is written, the name is listed unless it already is.                *)
ChildPut(n, s) ==
  /\ pc = "idle"
  /\ s \in sessions
  /\ row' = [row EXCEPT ![n] = s]
  /\ index' = IF n \in Range(index[TableOf(n)][s]) THEN index
              ELSE [index EXCEPT ![TableOf(n)][s] = Append(@, n)]
  /\ Save
  /\ UNCHANGED sessions

(* Shared shape of the three Delete methods: the row's own session says    *)
(* which list loses the name.                                              *)
ChildDelete(n) ==
  /\ pc = "idle"
  /\ row[n] # None
  /\ index' = [index EXCEPT ![TableOf(n)][row[n]] = RemoveFirst(@, n)]
  /\ row' = [row EXCEPT ![n] = None]
  /\ Save
  /\ UNCHANGED sessions

InstancePut(n)    == ChildPut(n, Owner[n])
InstanceDelete(n) == ChildDelete(n)
ClientPut(n)      == ChildPut(n, Owner[n])
ClientDelete(n)   == ChildDelete(n)
WindowsInstancePut(n, s) == ChildPut(n, s)
WindowsInstanceDelete(n) == ChildDelete(n)

(* What InstanceFindBySessionId and ClientFindBySessionId walk.            *)
FindBySessionId(t, s) == index[t][s]
-----------------------------------------------------------------------------
(* The process dies: memory goes, and a save in progress leaves the file   *)
(* truncated.                                                              *)
Crash == /\ pc # "down"
         /\ pc' = "down"
         /\ sessions' = {}
         /\ row' = NoRows
         /\ index' = NoLists
         /\ saveErr' = FALSE
         /\ UNCHANGED disk

(* NewFileStorage at start. A file that does not decode is an error, and   *)
(* initStorage ends the process.                                           *)
Load == /\ pc = "down"
        /\ disk # Torn
        /\ pc' = "idle"
        /\ sessions' = Loaded.sessions
        /\ row' = Loaded.row
        /\ index' = Loaded.index
        /\ UNCHANGED <<disk, saveErr>>

SessionOps == \E s \in SessionIds : SessionPut(s) \/ SessionDelete(s)
InstanceOps == \E n \in InstanceNames : InstancePut(n) \/ InstanceDelete(n)
ClientOps == \E n \in ClientIds : ClientPut(n) \/ ClientDelete(n)
WindowsOps == \E n \in WindowsIds :
                \/ \E s \in SessionIds : WindowsInstancePut(n, s)
                \/ WindowsInstanceDelete(n)

Next == \/ SessionOps \/ InstanceOps \/ ClientOps \/ WindowsOps
        \/ Encode \/ Crash \/ Load

Spec == Init /\ [][Next]_vars
-----------------------------------------------------------------------------
(* A database d of the right shape: each index lists names of its own      *)
(* table.                                                                  *)
WellTyped(d) ==
  /\ d \in Snapshots
  /\ \A t \in Tables, s \in SessionIds :
       \A i \in 1..Len(d.index[t][s]) : TableOf(d.index[t][s][i]) = t

(* Type invariant: memory and file hold databases of the right shape, and  *)
(* the file may also be missing or torn.                                   *)
TypeOK ==
  /\ WellTyped(Snapshot)
  /\ disk # Torn => WellTyped(Loaded)
  /\ pc \in {"down", "idle", "saving"}
  /\ saveErr \in BOOLEAN

(* Every stored row belongs to a stored session and is listed under it, so *)
(* that deleting the session reaches it, for a database d.                 *)
RowsReachable(d) ==
  \A n \in Names : d.row[n] # None =>
    /\ d.row[n] \in d.sessions
    /\ n \in Range(d.index[TableOf(n)][d.row[n]])

(* For a database d: a session's list names every container and client at  *)
(* most once, and each one listed is stored with that very session, so a   *)
(* lookup through the list never yields a nil entry.                       *)
ListsExact(d) ==
  \A t \in Tables \ {"windows"}, s \in SessionIds :
    /\ IsInjective(d.index[t][s])
    /\ \A i \in 1..Len(d.index[t][s]) : d.row[d.index[t][s][i]] = s

(* No orphan rows: no order of puts, deletes, Windows machines changing    *)
(* hands, failed saves and restarts leaves a row SessionDelete would miss. *)
NoOrphanRows == RowsReachable(Snapshot)

(* InstanceFindBySessionId and ClientFindBySessionId return exactly the    *)
(* session's rows, each once: both callers dereference every entry.        *)
FindIsExact == ListsExact(Snapshot)

(* A file that decodes at all holds a database with the same two           *)
(* properties: a restart never starts from a half-done operation.          *)
FileIsConsistent == disk # Torn => RowsReachable(Loaded) /\ ListsExact(Loaded)

(* Unless the last save failed, an idle store would be restored by a       *)
(* restart to just what it holds.                                          *)
SavedWhenIdle == pc = "idle" /\ ~saveErr => disk # Torn /\ Loaded = Snapshot

(* The store without indexes and half-saved files.                         *)
Owned(f) == [c \in OwnNames |-> f[c]]

Abstract == INSTANCE SessionStore WITH
  Sessions <- SessionIds,
  Children <- OwnNames,
  Lost     <- Torn,
  up       <- pc # "down",
  live     <- sessions,
  owner    <- Owned(row),
  durable  <- IF disk = Torn THEN Torn
              ELSE [live |-> Loaded.sessions, owner |-> Owned(Loaded.row)]

(* Storage implements SessionStore: the cascade through the index lists    *)
(* drops exactly the rows of the session, and a crash at any point loses   *)
(* the file or restores one earlier state, never a mixture.                *)
ImplementsSessionStore == Abstract!Spec
=============================================================================
