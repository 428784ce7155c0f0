--------------------------- MODULE DataDirectory ---------------------------
(***************************************************************************)
(* The files of a data directory: encryption.key and matescope.sqlite3,    *)
(* as backend/matescope/storage.py creates and opens them, and as backup   *)
(* and restore of backend/matescope/cli.py read and write them.  Processes *)
(* may be killed between any two steps.                                    *)
(*                                                                         *)
(* Of the database only what ties it to a key is kept: the key its         *)
(* instance row was encrypted with and the key of the last stored          *)
(* password.  A process owns the file lock only while it starts.           *)
(***************************************************************************)
EXTENDS Integers, Sequences

CONSTANTS
  Server,                        \* processes that may run the service on the directory
  Key, NoKey,                    \* keys that can be generated; no row encrypted yet
  NoFile, EmptyFile, TornFile,   \* a file that is missing, empty, or partly written
  NoArchive,
  MaxCrashes                     \* bound of the model: processes killed

Database == [check : Key \cup {NoKey}, secret : Key \cup {NoKey}]
NewDatabase == [check |-> NoKey, secret |-> NoKey]
Archive == [key : Key, database : Database]

ASSUME DataDirectoryAssumption ==
  /\ {NoKey, NoFile, EmptyFile, TornFile} \cap Key = {}
  /\ {NoFile, EmptyFile, TornFile} \cap Database = {}
  /\ NoFile # EmptyFile /\ NoFile # TornFile /\ EmptyFile # TornFile
  /\ NoArchive \notin Archive
  /\ NoFile \notin Server
  /\ MaxCrashes \in Nat

VARIABLES
  key_file, database,   \* the two files
  lock_file,            \* whether .startup.lock was ever created
  owner,                \* the process that holds it
  pc, cipher,           \* per server: where it is, the key it has read
  restoring, clean,     \* restore: how far it is, and whether it cleans up
  stage,                \* restore: the archive it has unpacked
  backup,               \* backup: what it has read so far
  archive,              \* the published archive
  crashes

dirVars == <<key_file, database, lock_file, owner, pc, cipher,
             restoring, clean, stage, backup, archive, crashes>>

\* restore creates its files in this order, one after the other.
\* Variant: the key first.
FileOrderKeyFirst == <<"key", "database">>
FileOrder == <<"database", "key">>

Idle == [at |-> "idle"]
BackupState ==
  {Idle} \cup [at : {"key"}, key : Key]
         \cup [at : {"copy"}, key : Key, database : Database \cup {TornFile}]

DirTypeOK ==
  /\ key_file \in Key \cup {NoFile, EmptyFile}
  /\ database \in Database \cup {NoFile, EmptyFile, TornFile}
  /\ lock_file \in BOOLEAN /\ owner \in Server \cup {NoFile}
  /\ pc \in [Server -> {"down", "locked", "filling", "keyed", "opened", "migrated", "up"}]
  /\ cipher \in [Server -> Key \cup {NoKey}]
  /\ restoring \in 0 .. 4 /\ clean \in BOOLEAN
  /\ stage \in Archive \cup {NoArchive}
  /\ backup \in BackupState
  /\ archive \in Archive \cup {NoArchive}
  /\ crashes \in 0 .. MaxCrashes

DirInit ==
  /\ key_file = NoFile /\ database = NoFile /\ lock_file = FALSE /\ owner = NoFile
  /\ pc = [p \in Server |-> "down"] /\ cipher = [p \in Server |-> NoKey]
  /\ restoring = 0 /\ clean = FALSE /\ stage = NoArchive
  /\ backup = Idle /\ archive = NoArchive /\ crashes = 0

files == <<key_file, database, lock_file>>
processes == <<owner, pc, cipher>>
restore == <<restoring, clean, stage>>
tools == <<restore, backup, archive>>

Stopped == \A p \in Server : pc[p] = "down"

-----------------------------------------------------------------------------
(* Storage.start() *)

At(p, here, there) == pc[p] = here /\ pc' = [pc EXCEPT ![p] = there]

\* flock() on .startup.lock.  Nothing starts while restore runs: its
\* --service-stopped flag has the operator promise as much.
Lock(p) ==
  /\ At(p, "down", "locked")
  /\ owner = NoFile /\ restoring = 0
  /\ owner' = p /\ lock_file' = TRUE
  /\ UNCHANGED <<key_file, database, cipher, tools, crashes>>

\* Variant: a missing key is replaced although there is a database.
CreateKeyAnyway(p) ==
  /\ key_file = NoFile
  /\ At(p, "locked", "filling")
  /\ key_file' = EmptyFile
  /\ UNCHANGED <<database, lock_file, owner, cipher, tools, crashes>>
\* An empty key file is created exclusively ...
CreateKey(p) ==
  /\ key_file = NoFile /\ database = NoFile
  /\ At(p, "locked", "filling")
  /\ key_file' = EmptyFile
  /\ UNCHANGED <<database, lock_file, owner, cipher, tools, crashes>>

\* ... and then filled with a generated key.
FillKey(p) ==
  /\ At(p, "filling", "locked")
  /\ \E k \in Key : /\ \A q \in Server : cipher[q] # k
                    /\ archive # NoArchive => archive.key # k
                    /\ database \in Database => database.check # k
                    /\ key_file' = k
  /\ UNCHANGED <<database, lock_file, owner, cipher, tools, crashes>>

\* Variant: whatever the file holds is taken for a key.
ReadKeyUnchecked(p) ==
  /\ At(p, "locked", "keyed")
  /\ key_file # NoFile
  /\ cipher' = [cipher EXCEPT ![p] = key_file]
  /\ UNCHANGED <<files, owner, tools, crashes>>
ReadKey(p) ==
  /\ At(p, "locked", "keyed")
  /\ key_file \in Key
  /\ cipher' = [cipher EXCEPT ![p] = key_file]
  /\ UNCHANGED <<files, owner, tools, crashes>>

OpenDatabase(p) ==
  /\ At(p, "keyed", "opened")
  /\ database' = IF database = NoFile THEN EmptyFile ELSE database
  /\ UNCHANGED <<key_file, lock_file, owner, cipher, tools, crashes>>

\* Alembic, in one transaction.  SQLite may or may not notice a torn file.
Migrate(p) ==
  /\ At(p, "opened", "migrated")
  /\ database' = IF database = EmptyFile THEN NewDatabase ELSE database
  /\ UNCHANGED <<key_file, lock_file, owner, cipher, tools, crashes>>

\* The instance row is written or compared, and the lock is released.
CheckKey(p) ==
  /\ At(p, "migrated", "up")
  /\ \/ /\ database \in Database /\ database.check \in {NoKey, cipher[p]}
        /\ database' = [database EXCEPT !.check = cipher[p]]
     \/ database = TornFile /\ UNCHANGED database
  /\ owner' = NoFile
  /\ UNCHANGED <<key_file, lock_file, cipher, tools, crashes>>

\* The errors start() raises: no key for a database, a key that is none, a key that
\* does not fit, a file that is no database.
Refuse(p) ==
  /\ \/ pc[p] = "locked" /\ key_file = NoFile /\ database # NoFile
     \/ pc[p] = "locked" /\ key_file = EmptyFile
     \/ pc[p] = "opened" /\ database = TornFile
     \/ /\ pc[p] = "migrated" /\ database \in Database
        /\ database.check \notin {NoKey, cipher[p]}
  /\ pc' = [pc EXCEPT ![p] = "down"]
  /\ cipher' = [cipher EXCEPT ![p] = NoKey]
  /\ owner' = NoFile
  /\ UNCHANGED <<files, tools, crashes>>

\* A running service stores a password (save_connection).
StoreSecret(p) ==
  /\ pc[p] = "up" /\ database \in Database
  /\ database' = [database EXCEPT !.secret = cipher[p]]
  /\ UNCHANGED <<key_file, lock_file, processes, tools, crashes>>

Stop(p) ==
  /\ At(p, "up", "down")
  /\ cipher' = [cipher EXCEPT ![p] = NoKey]
  /\ UNCHANGED <<files, owner, tools, crashes>>

Killed(p) ==
  /\ pc[p] # "down" /\ crashes < MaxCrashes
  /\ crashes' = crashes + 1
  /\ pc' = [pc EXCEPT ![p] = "down"]
  /\ cipher' = [cipher EXCEPT ![p] = NoKey]

\* Variant: the lock is the existence of its file, not flock().
CrashKeepingLock(p) == Killed(p) /\ UNCHANGED <<files, owner, tools>>
\* The kernel releases the lock of a process that dies.
Crash(p) ==
  /\ Killed(p)
  /\ owner' = IF owner = p THEN NoFile ELSE owner
  /\ UNCHANGED <<files, tools>>

StartStep(p) ==
  \/ Lock(p) \/ CreateKey(p) \/ FillKey(p) \/ ReadKey(p)
  \/ OpenDatabase(p) \/ Migrate(p) \/ CheckKey(p) \/ Refuse(p)

-----------------------------------------------------------------------------
(* cli.py: backup *)

BackupReadKey ==
  /\ backup = Idle /\ key_file \in Key
  /\ backup' = [at |-> "key", key |-> key_file]
  /\ UNCHANGED <<files, processes, restore, archive, crashes>>

\* SQLite's online backup: one committed state; an empty file is refused.
BackupCopy ==
  /\ backup.at = "key" /\ database \in Database \cup {TornFile}
  /\ backup' = [at |-> "copy", key |-> backup.key, database |-> database]
  /\ UNCHANGED <<files, processes, restore, archive, crashes>>

\* validate_database(): the copy and the key belong together.
ValidCopy(copy, k) ==
  copy \in Database /\ copy.check = k /\ copy.secret \in {NoKey, k}

\* Variant: the copy is published unseen.
BackupPublishUnseen ==
  /\ backup.at = "copy" /\ backup.database \in Database
  /\ archive' = [key |-> backup.key, database |-> backup.database]
  /\ backup' = Idle
  /\ UNCHANGED <<files, processes, restore, crashes>>
BackupPublish ==
  /\ backup.at = "copy" /\ ValidCopy(backup.database, backup.key)
  /\ archive' = [key |-> backup.key, database |-> backup.database]
  /\ backup' = Idle
  /\ UNCHANGED <<files, processes, restore, crashes>>

\* An error or a kill: nothing is published.
BackupFails ==
  /\ backup # Idle
  /\ backup' = Idle
  /\ UNCHANGED <<files, processes, restore, archive, crashes>>

-----------------------------------------------------------------------------
(* cli.py: restore.  restoring counts its steps: it creates and then fills *)
(* each file of FileOrder.                                                 *)

\* A file that is created and not yet filled is empty or torn.
Created(name) ==
  IF name = "key" THEN key_file' = EmptyFile /\ UNCHANGED database
                  ELSE database' \in {EmptyFile, TornFile} /\ UNCHANGED key_file

Filled(name) ==
  IF name = "key" THEN key_file' = stage.key /\ UNCHANGED database
                  ELSE database' = stage.database /\ UNCHANGED key_file

EmptyDirectory == key_file = NoFile /\ database = NoFile /\ ~lock_file

\* The archive is unpacked and the first file of an empty directory created.
RestoreBegin ==
  /\ restoring = 0 /\ Stopped /\ EmptyDirectory
  /\ archive # NoArchive
  /\ stage' = archive
  /\ Created(FileOrder[1])
  /\ restoring' = 1
  /\ UNCHANGED <<lock_file, processes, clean, backup, archive, crashes>>

RestoreCreate ==
  /\ restoring = 2 /\ ~clean
  /\ Created(FileOrder[2])
  /\ restoring' = 3
  /\ UNCHANGED <<lock_file, processes, clean, stage, backup, archive, crashes>>

RestoreFill ==
  /\ restoring \in {1, 3} /\ ~clean
  /\ Filled(FileOrder[IF restoring = 1 THEN 1 ELSE 2])
  /\ restoring' = restoring + 1
  /\ UNCHANGED <<lock_file, processes, clean, stage, backup, archive, crashes>>

RestoreEnds == restoring' = 0 /\ clean' = FALSE /\ stage' = NoArchive

RestoreDone ==
  /\ restoring = 4 /\ ~clean
  /\ RestoreEnds
  /\ UNCHANGED <<files, processes, backup, archive, crashes>>

\* An exception: the files created so far are unlinked, in the order of creation.
RestoreFails ==
  /\ restoring > 0 /\ ~clean
  /\ clean' = TRUE
  /\ UNCHANGED <<files, processes, restoring, stage, backup, archive, crashes>>

Unlink(name) ==
  IF name = "key" THEN key_file' = NoFile /\ UNCHANGED database
                  ELSE database' = NoFile /\ UNCHANGED key_file

FileThere(name) == IF name = "key" THEN key_file # NoFile ELSE database # NoFile

RestoreCleans ==
  /\ clean
  /\ \/ /\ FileThere(FileOrder[1])
        /\ Unlink(FileOrder[1])
        /\ UNCHANGED restore
     \/ /\ ~FileThere(FileOrder[1]) /\ FileThere(FileOrder[2])
        /\ Unlink(FileOrder[2])
        /\ UNCHANGED restore
     \/ /\ ~FileThere(FileOrder[1]) /\ ~FileThere(FileOrder[2])
        /\ RestoreEnds
        /\ UNCHANGED <<key_file, database>>
  /\ UNCHANGED <<lock_file, processes, backup, archive, crashes>>

RestoreKilled ==
  /\ restoring > 0 /\ crashes < MaxCrashes
  /\ crashes' = crashes + 1
  /\ RestoreEnds
  /\ UNCHANGED <<files, processes, backup, archive>>

-----------------------------------------------------------------------------
(* The operator. *)

\* The stopped service gets a new, empty directory; a backup would go on with the
\* old one.
NewDirectory ==
  /\ Stopped /\ restoring = 0 /\ backup = Idle
  /\ key_file' = NoFile /\ database' = NoFile /\ lock_file' = FALSE
  /\ UNCHANGED <<processes, tools, crashes>>

\* The key file is lost.
KeyLost ==
  /\ key_file \in Key /\ restoring = 0
  /\ \A p \in Server : pc[p] \in {"down", "up"}
  /\ key_file' = NoFile
  /\ UNCHANGED <<database, lock_file, processes, tools, crashes>>

DirNext ==
  \/ \E p \in Server : StartStep(p)
  \/ \E p \in Server : StoreSecret(p)
  \/ \E p \in Server : Stop(p)
  \/ \E p \in Server : Crash(p)
  \/ BackupReadKey \/ BackupCopy \/ BackupPublish \/ BackupFails
  \/ RestoreBegin \/ RestoreCreate \/ RestoreFill \/ RestoreDone
  \/ RestoreFails \/ RestoreCleans \/ RestoreKilled
  \/ NewDirectory \/ KeyLost

\* The container runtime restarts a service that is down and a starting process runs.
DirFairness == \A p \in Server : WF_dirVars(StartStep(p))

DirSpec == DirInit /\ [][DirNext]_dirVars /\ DirFairness
-----------------------------------------------------------------------------
(* Properties. *)

\* A service that is up has a whole database, made or restored under the very key
\* it holds: no crash of a start, a restore or its clean-up lets one run on less.
RunningIsWhole ==
  \A p \in Server : pc[p] = "up" =>
    /\ database \in Database /\ database.check = cipher[p]
    /\ database.secret \in {NoKey, cipher[p]}

\* M0.md:175: a missing key is never silently replaced.  Wherever a database with
\* an instance row and a key lie together, they belong together.
KeyFitsDatabase ==
  database \in Database /\ database.check # NoKey /\ key_file \in Key
    => key_file = database.check

\* What backup publishes, at any moment of a start or a restore, can be restored.
ArchiveWhole == archive # NoArchive => ValidCopy(archive.database, archive.key)

\* A directory that served once and still has its key serves again after any crash.
Serviceable ==
  /\ restoring = 0 /\ key_file \in Key
  /\ database \in Database /\ database.check = key_file
ComesUp == Serviceable ~> (~Serviceable \/ \E p \in Server : pc[p] = "up")
=============================================================================
