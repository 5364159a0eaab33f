----------------------------- MODULE UpgradeBackup -----------------------------
(***************************************************************************)
(* Snapshots of the application's data and their restoration                *)
(* (UpgradeBackupService).  One command works at a time, under a lock; its  *)
(* steps on the file system and on the app config cannot be rolled back.    *)
(* The data, tables and app config, stand for a version of each; users do   *)
(* not change them while a command works (maintenance mode).                *)
(***************************************************************************)
EXTENDS Naturals, FiniteSets, FiniteSetsExt

CONSTANTS
  Command,       \* processes
  None,
  MaxSnapshots,  \* upgrade_backup_max_snapshots
  MaxId,         \* bound: folders ever made
  MaxVersion     \* bound: changes of the data by users

VARIABLES
  tables,     \* the version of the tables
  config,     \* and of the app config and app data; 0 while it is replaced
  folders,    \* the snapshot folders, by age; complete with their manifest
  lastId,
  lock,       \* LOCK_KEY; a dead command's is "stale"
  command,    \* what a command has still to do
  restored    \* history: what the last restoration with a safety snapshot overwrote

vars == <<tables, config, folders, lastId, lock, command, restored>>

Idle == [at |-> "idle"]

Init ==
  /\ tables = 1 /\ config = 1
  /\ folders = {} /\ lastId = 0
  /\ lock = None
  /\ command = [c \in Command |-> Idle]
  /\ restored = None

Goto(c, state) == command' = [command EXCEPT ![c] = state]

Complete == {f \in folders : f.complete}

\* Without the lock.
Lock_Bug(c) == lock' = c

\* A command that finds it taken is refused.
Lock(c) == lock = None /\ lock' = c

Create(c) ==
  /\ command[c] = Idle
  /\ Lock(c)
  /\ Goto(c, [at |-> "begin", want |-> 0, safe |-> FALSE])
  /\ restored' = None
  /\ UNCHANGED <<tables, config, folders, lastId>>

\* restoreSnapshot reads and checks the snapshot before it takes the lock.
ReadSnapshot(c) ==
  /\ command[c] = Idle
  /\ \E f \in Complete : Goto(c, [at |-> "lock", want |-> f.id])
  /\ UNCHANGED <<tables, config, folders, lastId, lock, restored>>

\* With or without a safety snapshot.
Restore(c) ==
  /\ command[c].at = "lock"
  /\ Lock(c)
  /\ \E safety \in BOOLEAN :
       Goto(c, [at |-> IF safety THEN "begin" ELSE "restore", want |-> command[c].want, safe |-> safety])
  /\ restored' = None
  /\ UNCHANGED <<tables, config, folders, lastId>>

Refused(c) ==
  /\ command[c].at = "lock"
  /\ lock # None
  /\ Goto(c, Idle)
  /\ UNCHANGED <<tables, config, folders, lastId, lock, restored>>

-------------------------------------------------------------------------------
(* doCreateSnapshot.                                                       *)

\* purgeIncompleteSnapshotFolders, which may fail to delete, and newFolder.
Begin(c) ==
  /\ command[c].at = "begin"
  /\ lastId < MaxId
  /\ lastId' = lastId + 1
  /\ \E left \in SUBSET (folders \ Complete) :
       folders' = Complete \cup left \cup {[id |-> lastId + 1, complete |-> FALSE]}
  /\ Goto(c, [command[c] EXCEPT !.at = "export"])
  /\ UNCHANGED <<tables, config, lock, restored>>

Folder(id) == {f \in folders : f.id = id}

\* The files and last of all the manifest.
Export(c) ==
  /\ command[c].at = "export"
  /\ folders' = (folders \ Folder(lastId)) \cup
       {[id |-> lastId, complete |-> TRUE, tables |-> tables, config |-> config]}
  /\ Goto(c, [command[c] EXCEPT !.at = IF command[c].want = 0 THEN "rotate" ELSE "restore"])
  /\ UNCHANGED <<tables, config, lastId, lock, restored>>

\* A restoration that goes on without its safety snapshot.
ExportFails_Bug(c) ==
  /\ command[c].at = "export"
  /\ folders' = folders \ Folder(lastId)
  /\ Goto(c, [command[c] EXCEPT !.at = "restore"])
  /\ UNCHANGED <<tables, config, lastId, lock, restored>>

\* It deletes its folder, if it can, and gives up what it was made for.
ExportFails(c) ==
  /\ command[c].at = "export"
  /\ folders' \in {folders, folders \ Folder(lastId)}
  /\ Goto(c, [at |-> "unlock"])
  /\ UNCHANGED <<tables, config, lastId, lock, restored>>

Newest == {f \in Complete : Cardinality({g \in Complete : g.id > f.id}) < MaxSnapshots}

\* rotateSnapshots, after a snapshot of its own only; it may fail to delete.
Rotate(c) ==
  /\ command[c].at = "rotate"
  /\ \E left \in SUBSET (Complete \ Newest) :
       folders' = Newest \cup left \cup (folders \ Complete)
  /\ Goto(c, [at |-> "unlock"])
  /\ UNCHANGED <<tables, config, lastId, lock, restored>>

-------------------------------------------------------------------------------
(* doRestoreSnapshot.                                                      *)

\* One transaction; a file that is gone rolls it back.
RestoreTables(c) ==
  /\ command[c].at = "restore"
  /\ \/ \E f \in Folder(command[c].want) :
          /\ tables' = f.tables
          /\ restored' = IF command[c].safe
                        THEN [tables |-> tables, config |-> config] ELSE None
          /\ Goto(c, [command[c] EXCEPT !.at = "config"])
     \/ /\ Goto(c, [at |-> "unlock"])
        /\ UNCHANGED <<tables, restored>>
  /\ UNCHANGED <<config, folders, lastId, lock>>

\* Every key is deleted before the first is set.
ClearConfig(c) ==
  /\ command[c].at = "config"
  /\ config' = 0
  /\ Goto(c, [command[c] EXCEPT !.at = "values"])
  /\ UNCHANGED <<tables, folders, lastId, lock, restored>>

RestoreConfig(c) ==
  /\ command[c].at = "values"
  /\ \E f \in Folder(command[c].want) : config' = f.config
  /\ Goto(c, [command[c] EXCEPT !.at = "restored"])
  /\ UNCHANGED <<tables, folders, lastId, lock, restored>>

\* It says that the app config failed.
RestoreFails(c) ==
  /\ command[c].at \in {"config", "values"}
  /\ Goto(c, [at |-> "unlock"])
  /\ UNCHANGED <<tables, config, folders, lastId, lock, restored>>

Unlock(c) ==
  /\ command[c].at \in {"unlock", "restored"}
  /\ lock' = IF lock = c THEN None ELSE lock
  /\ Goto(c, Idle)
  /\ UNCHANGED <<tables, config, folders, lastId, restored>>

-------------------------------------------------------------------------------
(* The environment.                                                        *)

Die(c) ==
  /\ command[c] # Idle
  /\ Goto(c, Idle)
  /\ lock' = IF lock = c THEN "stale" ELSE lock
  /\ UNCHANGED <<tables, config, folders, lastId, restored>>

\* The lock of a dead command expires; no living one outlasts its own.
Expire ==
  /\ lock = "stale"
  /\ lock' = None
  /\ UNCHANGED <<tables, config, folders, lastId, command, restored>>

Use ==
  /\ lock = None
  /\ Max({tables, config}) < MaxVersion
  /\ tables' = Max({tables, config}) + 1 /\ config' = tables'
  /\ restored' = None
  /\ UNCHANGED <<folders, lastId, lock, command>>

Next ==
  \/ \E c \in Command :
       \/ Create(c) \/ ReadSnapshot(c) \/ Restore(c) \/ Refused(c)
       \/ Begin(c) \/ Export(c) \/ ExportFails(c) \/ Rotate(c)
       \/ RestoreTables(c) \/ ClearConfig(c) \/ RestoreConfig(c) \/ RestoreFails(c)
       \/ Unlock(c) \/ Die(c)
  \/ Expire \/ Use

Spec == Init /\ [][Next]_vars

-------------------------------------------------------------------------------
(* Properties.                                                             *)

\* A restoration that reports success has put back one snapshot, the one that
\* was asked for, tables and config alike.
RestoredAsAsked ==
  \A c \in Command : command[c].at = "restored" =>
    \E f \in Complete :
      f.id = command[c].want /\ f.tables = tables /\ f.config = config

\* What a restoration with a safety snapshot has overwritten is still in some
\* snapshot, even when it fails or dies on its way.
UndoKept ==
  restored # None =>
    \E f \in Complete : f.tables = restored.tables /\ f.config = restored.config

-------------------------------------------------------------------------------
(* What is known at any time, for the proof.                               *)

TypeOK ==
  /\ lastId \in Nat
  /\ \A f \in folders : f.id \in 1..lastId
  /\ \A f, g \in folders : f.id = g.id => f = g
  /\ command \in [Command -> {Idle, [at |-> "unlock"]} \cup [at : {"lock"}, want : Nat]
       \cup [at : {"begin", "export", "rotate", "restore", "config", "values", "restored"},
             want : Nat, safe : BOOLEAN]]

LockHeld == \A c \in Command : command[c].at \notin {"idle", "lock"} => lock = c

\* A snapshot that is wanted was complete, and no other one gets its number.
Wanted ==
  \A c \in Command : command[c].at \notin {"idle", "unlock"} =>
    /\ command[c].want <= lastId
    /\ \A f \in Folder(command[c].want) : f.complete

\* What a command has done so far.
Worked ==
  \A c \in Command :
    /\ command[c].at \in {"begin", "export", "rotate", "restore"} => restored = None
    /\ command[c].at = "export" => lastId # 0 /\ \A f \in Folder(lastId) : ~f.complete
    /\ command[c].at = "restore" /\ command[c].safe =>
         \E f \in Complete : f.tables = tables /\ f.config = config
    /\ command[c].at \in {"config", "values"} =>
         \E f \in Complete : f.id = command[c].want /\ f.tables = tables

IInv == TypeOK /\ LockHeld /\ Wanted /\ Worked /\ RestoredAsAsked /\ UndoKept
===============================================================================
