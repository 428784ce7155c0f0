------------------------ MODULE DataDirectoryProofs ------------------------
(***************************************************************************)
(* Safety of the data directory for any number of servers, keys and        *)
(* crashes.                                                                *)
(***************************************************************************)
EXTENDS DataDirectory, TLAPS

-----------------------------------------------------------------------------
(* The inductive invariant. *)

Starting == {"locked", "filling", "keyed", "opened", "migrated"}

\* Whoever starts holds the lock, and no restore runs.
StartsAlone ==
  /\ \A p \in Server : pc[p] \in Starting => owner = p
  /\ restoring > 0 => Stopped

\* From reading the key to the end of its start a process and the file agree.
KeyHeld ==
  \A p \in Server : pc[p] \in {"keyed", "opened", "migrated"} =>
    cipher[p] \in Key /\ key_file = cipher[p]

\* A key is generated only where there is no database, and lies beside no torn one.
KeyBesideDatabase ==
  /\ \A p \in Server : pc[p] = "filling" => key_file = EmptyFile /\ database = NoFile
  /\ database = TornFile => key_file = NoFile

\* What a database holds is encrypted under its own key, which is the key beside it.
DatabaseFits ==
  database \in Database =>
    /\ database.check = NoKey => database.secret = NoKey
    /\ database.check # NoKey =>
         /\ database.secret \in {NoKey, database.check}
         /\ key_file \in Key => key_file = database.check

Up(p) ==
  /\ cipher[p] \in Key
  /\ database \in Database /\ database.check = cipher[p]
  /\ database.secret \in {NoKey, cipher[p]}

\* Where a restore is.
RestoreFits ==
  /\ clean => restoring > 0
  /\ restoring > 0 => stage \in Archive /\ ValidCopy(stage.database, stage.key)
  /\ restoring = 1 /\ ~clean => key_file = NoFile /\ database \in {EmptyFile, TornFile}
  /\ restoring = 2 /\ ~clean => key_file = NoFile /\ database = stage.database
  /\ restoring = 3 /\ ~clean => key_file = EmptyFile /\ database = stage.database

DirInv ==
  /\ DirTypeOK
  /\ StartsAlone /\ KeyHeld /\ KeyBesideDatabase /\ DatabaseFits
  /\ \A p \in Server : pc[p] = "up" => Up(p)
  /\ RestoreFits
  /\ ArchiveWhole

-----------------------------------------------------------------------------
(* Every step keeps it. *)

USE DataDirectoryAssumption

\* An empty directory with nobody at work satisfies it.
LEMMA DirInvInit == DirInit => DirInv
<1> SUFFICES ASSUME DirInit PROVE DirInv
  OBVIOUS
<1>1. lock_file \in BOOLEAN /\ clean \in BOOLEAN
  BY Zenon DEF DirInit
<1>2. DirTypeOK
  BY <1>1 DEF DirInit, DirTypeOK, BackupState
<1> QED
  BY <1>2 DEF DirInit, DirInv, StartsAlone, KeyHeld, KeyBesideDatabase, DatabaseFits,
     Starting, RestoreFits, ArchiveWhole

\* Taking the lock excludes other starts; no restore runs.
LEMMA LockInv ==
  ASSUME DirInv, NEW p \in Server, Lock(p)
  PROVE  DirInv'
  BY DEF Lock, At, DirInv, DirTypeOK, StartsAlone, KeyHeld, KeyBesideDatabase,
     DatabaseFits, Starting, Up, RestoreFits, ArchiveWhole, Stopped, files,
     processes, tools, restore

\* The key file is created where there is no database.
LEMMA CreateKeyInv ==
  ASSUME DirInv, NEW p \in Server, CreateKey(p)
  PROVE  DirInv'
  BY DEF CreateKey, At, DirInv, DirTypeOK, StartsAlone, KeyHeld, KeyBesideDatabase,
     DatabaseFits, Starting, Up, RestoreFits, ArchiveWhole, Stopped, files,
     processes, tools, restore

\* The new key meets no database, because none could appear under the lock.
LEMMA FillKeyInv ==
  ASSUME DirInv, NEW p \in Server, FillKey(p)
  PROVE  DirInv'
  BY DEF FillKey, At, DirInv, DirTypeOK, StartsAlone, KeyHeld, KeyBesideDatabase,
     DatabaseFits, Starting, Up, RestoreFits, ArchiveWhole, Stopped, files,
     processes, tools, restore

\* The process now holds the key of the file.
LEMMA ReadKeyInv ==
  ASSUME DirInv, NEW p \in Server, ReadKey(p)
  PROVE  DirInv'
  BY DEF ReadKey, At, DirInv, DirTypeOK, StartsAlone, KeyHeld, KeyBesideDatabase,
     DatabaseFits, Starting, Up, RestoreFits, ArchiveWhole, Stopped, files,
     processes, tools, restore

\* Only a missing database becomes an empty one: no running server had it.
LEMMA OpenDatabaseInv ==
  ASSUME DirInv, NEW p \in Server, OpenDatabase(p)
  PROVE  DirInv'
  BY DEF OpenDatabase, At, DirInv, DirTypeOK, StartsAlone, KeyHeld,
     KeyBesideDatabase, DatabaseFits, Starting, Up, RestoreFits, ArchiveWhole,
     Stopped, files, processes, tools, restore

\* Only an empty database becomes a new one.
LEMMA MigrateInv ==
  ASSUME DirInv, NEW p \in Server, Migrate(p)
  PROVE  DirInv'
  BY DEF Migrate, At, NewDatabase, Database, DirInv, DirTypeOK, StartsAlone, KeyHeld,
     KeyBesideDatabase, DatabaseFits, Starting, Up, RestoreFits, ArchiveWhole,
     Stopped, files, processes, tools, restore

\* The row is bound to the key of the file; a torn file never lies beside a key.
LEMMA CheckKeyInv ==
  ASSUME DirInv, NEW p \in Server, CheckKey(p)
  PROVE  DirInv'
  BY DEF CheckKey, At, Database, DirInv, DirTypeOK, StartsAlone, KeyHeld,
     KeyBesideDatabase, DatabaseFits, Starting, Up, RestoreFits, ArchiveWhole,
     Stopped, files, processes, tools, restore

\* A refused start touches no file.
LEMMA RefuseInv ==
  ASSUME DirInv, NEW p \in Server, Refuse(p)
  PROVE  DirInv'
  BY DEF Refuse, DirInv, DirTypeOK, StartsAlone, KeyHeld, KeyBesideDatabase,
     DatabaseFits, Starting, Up, RestoreFits, ArchiveWhole, Stopped, files,
     processes, tools, restore

\* A running server encrypts under the key its database is bound to.
LEMMA StoreSecretInv ==
  ASSUME DirInv, NEW p \in Server, StoreSecret(p)
  PROVE  DirInv'
  BY DEF StoreSecret, Database, DirInv, DirTypeOK, StartsAlone, KeyHeld,
     KeyBesideDatabase, DatabaseFits, Starting, Up, RestoreFits, ArchiveWhole,
     Stopped, files, processes, tools, restore

\* A stopped server leaves the files to the next one.
LEMMA StopInv ==
  ASSUME DirInv, NEW p \in Server, Stop(p)
  PROVE  DirInv'
  BY DEF Stop, At, DirInv, DirTypeOK, StartsAlone, KeyHeld, KeyBesideDatabase,
     DatabaseFits, Starting, Up, RestoreFits, ArchiveWhole, Stopped, files,
     processes, tools, restore

\* A crash gives up the lock and leaves the files as they are at that point.
LEMMA CrashInv ==
  ASSUME DirInv, NEW p \in Server, Crash(p)
  PROVE  DirInv'
  BY DEF Crash, Killed, DirInv, DirTypeOK, StartsAlone, KeyHeld, KeyBesideDatabase,
     DatabaseFits, Starting, Up, RestoreFits, ArchiveWhole, Stopped, files,
     processes, tools, restore

\* backup only reads.
LEMMA BackupReadKeyInv ==
  ASSUME DirInv, BackupReadKey
  PROVE  DirInv'
  BY DEF BackupReadKey, BackupState, Idle, DirInv, DirTypeOK, StartsAlone, KeyHeld,
     KeyBesideDatabase, DatabaseFits, Starting, Up, RestoreFits, ArchiveWhole,
     Stopped, files, processes, tools, restore

\* The copy is a database or a torn one, kept with the key read before.
LEMMA BackupCopyInv ==
  ASSUME DirInv, BackupCopy
  PROVE  DirInv'
<1>1. backup.key \in Key
  BY DEF BackupCopy, BackupState, Idle, DirInv, DirTypeOK
<1>2. backup' \in BackupState
  BY <1>1 DEF BackupCopy, BackupState, DirInv, DirTypeOK
<1> QED
  BY <1>2 DEF BackupCopy, DirInv, DirTypeOK, StartsAlone, KeyHeld, KeyBesideDatabase,
     DatabaseFits, Starting, Up, RestoreFits, ArchiveWhole, Stopped, files,
     processes, tools, restore

\* What validate_database() passed is whole.
LEMMA BackupPublishInv ==
  ASSUME DirInv, BackupPublish
  PROVE  DirInv'
  BY DEF BackupPublish, BackupState, Idle, ValidCopy, Archive, DirInv, DirTypeOK,
     StartsAlone, KeyHeld, KeyBesideDatabase, DatabaseFits, Starting, Up,
     RestoreFits, ArchiveWhole, Stopped, files, processes, tools, restore

\* A failed backup leaves the last archive.
LEMMA BackupFailsInv ==
  ASSUME DirInv, BackupFails
  PROVE  DirInv'
  BY DEF BackupFails, BackupState, Idle, DirInv, DirTypeOK, StartsAlone, KeyHeld,
     KeyBesideDatabase, DatabaseFits, Starting, Up, RestoreFits, ArchiveWhole,
     Stopped, files, processes, tools, restore

\* restore starts in an empty directory nobody serves, with an archive that is whole.
LEMMA RestoreBeginInv ==
  ASSUME DirInv, RestoreBegin
  PROVE  DirInv'
  BY DEF RestoreBegin, Created, FileOrder, EmptyDirectory, DirInv, DirTypeOK,
     StartsAlone, KeyHeld, KeyBesideDatabase, DatabaseFits, Starting, Up,
     RestoreFits, ArchiveWhole, Stopped, files, processes, tools, restore

\* The key file is created beside the whole database of the archive.
LEMMA RestoreCreateInv ==
  ASSUME DirInv, RestoreCreate
  PROVE  DirInv'
  BY DEF RestoreCreate, Created, FileOrder, ValidCopy, DirInv, DirTypeOK,
     StartsAlone, KeyHeld, KeyBesideDatabase, DatabaseFits, Starting, Up,
     RestoreFits, ArchiveWhole, Stopped, files, processes, tools, restore

\* The database comes first and whole, then the key it is bound to.
LEMMA RestoreFillInv ==
  ASSUME DirInv, RestoreFill
  PROVE  DirInv'
  BY DEF RestoreFill, Filled, FileOrder, ValidCopy, Archive, DirInv, DirTypeOK,
     StartsAlone, KeyHeld, KeyBesideDatabase, DatabaseFits, Starting, Up,
     RestoreFits, ArchiveWhole, Stopped, files, processes, tools, restore

\* The restored files stay.
LEMMA RestoreDoneInv ==
  ASSUME DirInv, RestoreDone
  PROVE  DirInv'
<1>1. clean' \in BOOLEAN /\ lock_file' \in BOOLEAN
  BY Zenon DEF DirInv, DirTypeOK, RestoreDone, RestoreEnds, files, tools, restore
<1> QED
  BY <1>1 DEF RestoreDone, RestoreEnds, DirInv, DirTypeOK, StartsAlone, KeyHeld,
     KeyBesideDatabase, DatabaseFits, Starting, Up, RestoreFits, ArchiveWhole,
     Stopped, files, processes, tools, restore

\* Clean-up begins with the files as they are.
LEMMA RestoreFailsInv ==
  ASSUME DirInv, RestoreFails
  PROVE  DirInv'
  BY DEF RestoreFails, DirInv, DirTypeOK, StartsAlone, KeyHeld, KeyBesideDatabase,
     DatabaseFits, Starting, Up, RestoreFits, ArchiveWhole, Stopped, files,
     processes, tools, restore

\* Unlinking either file leaves nothing that does not fit.
LEMMA RestoreCleansInv ==
  ASSUME DirInv, RestoreCleans
  PROVE  DirInv'
<1>1. lock_file' \in BOOLEAN
  BY DEF DirInv, DirTypeOK, RestoreCleans
<1>2. CASE database' = NoFile /\ UNCHANGED <<key_file, restore>>
  BY <1>1, <1>2 DEF RestoreCleans, DirInv, DirTypeOK, StartsAlone, KeyHeld,
     KeyBesideDatabase, DatabaseFits, Starting, Up, RestoreFits, ArchiveWhole, Stopped,
     processes, restore
<1>3. CASE key_file' = NoFile /\ UNCHANGED <<database, restore>>
  BY <1>1, <1>3 DEF RestoreCleans, DirInv, DirTypeOK, StartsAlone, KeyHeld,
     KeyBesideDatabase, DatabaseFits, Starting, Up, RestoreFits, ArchiveWhole, Stopped,
     processes, restore
<1>4. CASE RestoreEnds /\ UNCHANGED <<key_file, database>>
  <2>1. clean' \in BOOLEAN
    BY <1>4, Zenon DEF RestoreEnds
  <2> QED
    BY <1>1, <1>4, <2>1 DEF RestoreCleans, RestoreEnds, DirInv, DirTypeOK,
       StartsAlone, KeyHeld, KeyBesideDatabase, DatabaseFits, Starting, Up,
       RestoreFits, ArchiveWhole, Stopped, files, processes, tools, restore
<1> QED BY <1>2, <1>3, <1>4 DEF RestoreCleans, Unlink, FileOrder

\* A killed restore leaves the files of that point.
LEMMA RestoreKilledInv ==
  ASSUME DirInv, RestoreKilled
  PROVE  DirInv'
<1>1. clean' \in BOOLEAN /\ lock_file' \in BOOLEAN
  BY Zenon DEF DirInv, DirTypeOK, RestoreKilled, RestoreEnds, files, tools, restore
<1> QED
  BY <1>1 DEF RestoreKilled, RestoreEnds, DirInv, DirTypeOK, StartsAlone, KeyHeld,
     KeyBesideDatabase, DatabaseFits, Starting, Up, RestoreFits, ArchiveWhole,
     Stopped, files, processes, tools, restore

\* Nobody serves the directory that is replaced.
LEMMA NewDirectoryInv ==
  ASSUME DirInv, NewDirectory
  PROVE  DirInv'
<1>1. clean' \in BOOLEAN /\ lock_file' \in BOOLEAN
  BY Zenon DEF DirInv, DirTypeOK, NewDirectory, RestoreEnds, files, tools, restore
<1> QED
  BY <1>1 DEF NewDirectory, DirInv, DirTypeOK, StartsAlone, KeyHeld,
     KeyBesideDatabase, DatabaseFits, Starting, Up, RestoreFits, ArchiveWhole,
     Stopped, files, processes, tools, restore

\* No start holds the key that is lost.
LEMMA KeyLostInv ==
  ASSUME DirInv, KeyLost
  PROVE  DirInv'
  BY DEF KeyLost, DirInv, DirTypeOK, StartsAlone, KeyHeld, KeyBesideDatabase,
     DatabaseFits, Starting, Up, RestoreFits, ArchiveWhole, Stopped, files,
     processes, tools, restore

\* Every step of the directory keeps the invariant.
LEMMA DirInvNext == DirInv /\ [DirNext]_dirVars => DirInv'
<1> SUFFICES ASSUME DirInv, [DirNext]_dirVars PROVE DirInv'
  OBVIOUS
<1>1. ASSUME NEW p \in Server, StartStep(p) PROVE DirInv'
  BY <1>1, LockInv, CreateKeyInv, FillKeyInv, ReadKeyInv, OpenDatabaseInv, MigrateInv,
     CheckKeyInv, RefuseInv DEF StartStep
<1>2. CASE BackupReadKey \/ BackupCopy \/ BackupPublish \/ BackupFails
  BY <1>2, BackupReadKeyInv, BackupCopyInv, BackupPublishInv, BackupFailsInv
<1>3. CASE RestoreBegin \/ RestoreCreate \/ RestoreFill \/ RestoreDone
  BY <1>3, RestoreBeginInv, RestoreCreateInv, RestoreFillInv, RestoreDoneInv
<1>4. CASE RestoreFails \/ RestoreCleans \/ RestoreKilled
  BY <1>4, RestoreFailsInv, RestoreCleansInv, RestoreKilledInv
<1>5. CASE UNCHANGED dirVars
  BY <1>5 DEF dirVars, DirInv, DirTypeOK, StartsAlone, KeyHeld, KeyBesideDatabase,
     DatabaseFits, Up, RestoreFits, ArchiveWhole, Stopped
<1> QED
  BY <1>1, <1>2, <1>3, <1>4, <1>5, StoreSecretInv, StopInv, CrashInv, NewDirectoryInv,
     KeyLostInv DEF DirNext

-----------------------------------------------------------------------------
(* Theorems. *)

\* The inductive invariant: starts exclude each other and restores, and wherever a
\* start or a restore stands, the files are those of that point.
THEOREM DirectoryInvariant == DirSpec => []DirInv
<1>1. DirInit => DirInv
  BY DirInvInit
<1>2. DirInv /\ [DirNext]_dirVars => DirInv'
  BY DirInvNext
<1> QED BY <1>1, <1>2, PTL DEF DirSpec

\* The files, the processes and the tools keep their types.
THEOREM DirectoryTypeCorrect == DirSpec => []DirTypeOK
<1>1. DirInv => DirTypeOK
  BY DEF DirInv
<1> QED BY <1>1, DirectoryInvariant, PTL

\* However many processes start, crash, restore and clean up: one that is up has a
\* whole database under its own key.
THEOREM NothingRunsOnLess == DirSpec => []RunningIsWhole
<1>1. DirInv => RunningIsWhole
  BY DEF DirInv, RunningIsWhole, Up
<1> QED BY <1>1, DirectoryInvariant, PTL

\* No key is silently replaced: a key beside a database is the database's key.
THEOREM KeyNeverReplaced == DirSpec => []KeyFitsDatabase
<1>1. DirInv => KeyFitsDatabase
  BY DEF DirInv, KeyFitsDatabase, DatabaseFits
<1> QED BY <1>1, DirectoryInvariant, PTL

\* What backup published can be restored, whatever ran beside it.
THEOREM ArchivesAreWhole == DirSpec => []ArchiveWhole
<1>1. DirInv => ArchiveWhole
  BY DEF DirInv
<1> QED BY <1>1, DirectoryInvariant, PTL
=============================================================================
