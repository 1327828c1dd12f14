----------------------------- MODULE TeamBackup -----------------------------
(***************************************************************************)
(* Offline backup and restore of a team installation                       *)
(* (app/operations/team_backup.py): a PostgreSQL database and a directory  *)
(* of files, which only the maintenance lock and the order of the steps    *)
(* keep together.  A runtime changes both; its children inherit its lock,  *)
(* its sandbox containers and its database sessions outlive it.  Restores  *)
(* go into roots of their own but share one new database.                  *)
(***************************************************************************)
EXTENDS Integers

CONSTANTS
    Version,       \* contents of a database and of the files
    Bundle,        \* directories that backups write
    Target,        \* data roots restored into
    Source,        \* the root of the installation
    SamePath       \* the target whose absolute path is that of Source, on another host

ASSUME BackupAssumption ==
    /\ {0, 1} \subseteq Version /\ -1 \notin Version
    /\ Source \notin Target /\ SamePath \in Target

Root == Target \cup {Source}
Empty == 0         \* nothing in a database, or in an existing root
Absent == -1       \* no such root

VARIABLES
    database,      \* of the installation, and of the restores
    files,         \* of each root
    sessions,      \* databases with client sessions
    runtime,       \* roots whose launched process runs
    children,      \* roots whose lock a child process inherited
    containers,    \* roots whose journal holds a container that may still write
    exclusive,     \* roots under maintenance
    partial,       \* roots whose archive is half extracted
    marker,        \* roots with .restore-in-progress
    info,          \* roots with .restore-info.json
    backups,       \* each backup: its step, root and bundle
    restores,      \* each restore: its step and bundle
    dumped,        \* history: the files when each dump was taken, if they were whole
    used           \* history: roots and databases that a runtime changed

backupVars == <<database, files, sessions, runtime, children, containers, exclusive, partial,
                marker, info, backups, restores, dumped, used>>
installation == <<database, files, sessions, runtime, children, containers, used>>

DatabaseOf(r) == IF r = Source THEN "source" ELSE "target"
Path(r) == IF r = SamePath THEN Source ELSE r
NoBackup == [step |-> "idle", root |-> Source, dump |-> Empty, archive |-> Empty, manifest |-> FALSE]
Following == [mkdir |-> "lock", lock |-> "mark", mark |-> "extract", extract |-> "finish", finish |-> "load",
              load |-> "describe", describe |-> "unmark", unmark |-> "over"]

BackupTypeOK ==
    /\ database \in [{"source", "target"} -> Version] /\ files \in [Root -> Version \cup {Absent}]
    /\ sessions \subseteq {"source", "target"} /\ runtime \cup children \cup containers \subseteq Root
    /\ exclusive \subseteq Root \ (runtime \cup children)
    /\ partial \cup marker \cup info \subseteq Target
    /\ backups \in [Bundle -> [step : {"idle", "dump", "archive", "verify", "over"}, root : Root,
                               dump : Version, archive : Version, manifest : BOOLEAN]]
    /\ restores \in [Target -> [step : {"idle", "over"} \cup DOMAIN Following, from : Bundle \cup {Empty}]]
    /\ dumped \in [Bundle -> Version \cup {Absent}]

\* With the bundles there are.
BackupInit(found) ==
    /\ database = [source |-> 1, target |-> Empty]
    /\ files = [r \in Root |-> IF r = Source THEN 1 ELSE Absent]
    /\ sessions = {} /\ runtime = {} /\ children = {} /\ containers = {} /\ exclusive = {}
    /\ partial = {} /\ marker = {} /\ info = {}
    /\ backups = found /\ restores = [r \in Target |-> [step |-> "idle", from |-> Empty]]
    /\ dumped = [b \in Bundle |-> found[b].archive] /\ used = {}

----------------------------------------------------------------------------
(* The installation. *)

\* run_managed: the root is made if need be; the lock is shared.
RunManaged(r) ==
    /\ r \notin runtime \cup exclusive \cup marker
    /\ r \in info => Path(r) = Source
    /\ runtime' = runtime \cup {r}
    /\ files' = [files EXCEPT ![r] = IF @ = Absent THEN Empty ELSE @]
    /\ UNCHANGED <<database, sessions, children, containers, exclusive, partial, marker, info, backups,
                   restores, dumped, used>>

\* A runtime starts children, which inherit its lock and start containers, and
\* removes containers that were left.
RuntimeWorks(r) ==
    /\ r \in runtime
    /\ \/ children' = children \cup {r} /\ UNCHANGED containers
       \/ r \in children /\ containers' = containers \cup {r} /\ UNCHANGED children
       \/ containers' = containers \ {r} /\ UNCHANGED children
    /\ UNCHANGED <<database, files, sessions, runtime, exclusive, partial, marker, info, backups, restores, dumped, used>>

\* The launched process ends; its children, containers and sessions need not.
RuntimeEnds(r) ==
    /\ r \in runtime /\ runtime' = runtime \ {r}
    /\ UNCHANGED <<database, files, sessions, children, containers, exclusive, partial, marker, info,
                   backups, restores, dumped, used>>

ChildExits(r) ==
    /\ r \in children /\ children' = children \ {r}
    /\ UNCHANGED <<database, files, sessions, runtime, containers, exclusive, partial, marker, info,
                   backups, restores, dumped, used>>

FilesChange(r) ==
    /\ r \in runtime \cup children \cup containers
    /\ \E v \in Version \ {Empty} : files' = [files EXCEPT ![r] = v]
    /\ used' = used \cup {r}
    /\ UNCHANGED <<database, sessions, runtime, children, containers, exclusive, partial, marker, info,
                   backups, restores, dumped>>

\* By the session of a runtime, living or dead, or of an administrator.
DatabaseChanges(d) ==
    /\ d \in sessions
    /\ \E v \in Version \ {Empty} : database' = [database EXCEPT ![d] = v]
    /\ used' = used \cup {d}
    /\ UNCHANGED <<files, sessions, runtime, children, containers, exclusive, partial, marker, info,
                   backups, restores, dumped>>

\* A session ends; an administrator's may come at any time.
SessionsChange(d) ==
    /\ sessions' = IF d \in sessions THEN sessions \ {d} ELSE sessions \cup {d}
    /\ UNCHANGED <<database, files, runtime, children, containers, exclusive, partial, marker, info,
                   backups, restores, dumped, used>>

----------------------------------------------------------------------------
(* backup *)

\* maintenance_lock: exclusive, without waiting.
Unlocked(r) == r \notin exclusive \cup runtime \cup children

\* _idle_factory.
IdleFactory(r) == r \notin containers

Step(b, step) == backups' = [backups EXCEPT ![b].step = step]

\* Locks and checks; the bundle's directory is new.
BeginBackup(b, r) ==
    /\ backups[b].step = "idle" /\ files[r] # Absent /\ r \notin marker
    /\ Unlocked(r) /\ IdleFactory(r) /\ DatabaseOf(r) \notin sessions
    /\ exclusive' = exclusive \cup {r}
    /\ backups' = [backups EXCEPT ![b].step = "dump", ![b].root = r]
    /\ UNCHANGED <<installation, partial, marker, info, restores, dumped>>

\* pg_dump: one snapshot of the database.
Dump(b) ==
    /\ backups[b].step = "dump"
    /\ backups' = [backups EXCEPT ![b].step = "archive", ![b].dump = database[DatabaseOf(backups[b].root)]]
    /\ dumped' = [dumped EXCEPT ![b] = IF backups[b].root \in partial THEN Absent ELSE files[backups[b].root]]
    /\ UNCHANGED <<installation, exclusive, partial, marker, info, restores>>

ArchiveData(b) ==
    /\ backups[b].step = "archive"
    /\ backups' = [backups EXCEPT ![b].step = "verify", ![b].archive = files[backups[b].root]]
    /\ UNCHANGED <<installation, exclusive, partial, marker, info, restores, dumped>>

\* The sessions are looked at again, and the manifest is written last.
Seal(b) ==
    /\ backups[b].step = "verify"
    /\ backups' = [backups EXCEPT ![b].step = "over",
                                  ![b].manifest = DatabaseOf(backups[b].root) \notin sessions]
    /\ exclusive' = exclusive \ {backups[b].root}
    /\ UNCHANGED <<installation, partial, marker, info, restores, dumped>>

\* An error, or the death of the process: what there is of the bundle stays.
BackupDies(b) ==
    /\ backups[b].step \notin {"idle", "over"}
    /\ Step(b, "over") /\ exclusive' = exclusive \ {backups[b].root}
    /\ UNCHANGED <<installation, partial, marker, info, restores, dumped>>

----------------------------------------------------------------------------
(* restore *)

\* validate_backup.
Valid(b) == backups[b].manifest

\* The checks before anything is changed.
BeginRestore(r, b) ==
    /\ restores[r].step = "idle" /\ Valid(b) /\ files[r] = Absent
    /\ database["target"] = Empty /\ "target" \notin sessions
    /\ restores' = [restores EXCEPT ![r] = [step |-> "mkdir", from |-> b]]
    /\ UNCHANGED <<installation, exclusive, partial, marker, info, backups, dumped>>

At(r, step) == restores[r].step = step /\ restores' = [restores EXCEPT ![r].step = Following[step]]

MakeRoot(r) ==
    /\ At(r, "mkdir") /\ files[r] = Absent /\ files' = [files EXCEPT ![r] = Empty]
    /\ UNCHANGED <<database, sessions, runtime, children, containers, used, exclusive, partial, marker,
                   info, backups, dumped>>

LockRoot(r) ==
    /\ At(r, "lock") /\ Unlocked(r) /\ exclusive' = exclusive \cup {r}
    /\ UNCHANGED <<installation, partial, marker, info, backups, dumped>>

\* Mutant: the marker is left to the end.
MarkLater(r) == UNCHANGED marker

Mark(r) == marker' = marker \cup {r}

MarkRoot(r) ==
    /\ At(r, "mark") /\ Mark(r)
    /\ UNCHANGED <<installation, exclusive, partial, info, backups, dumped>>

\* The archive's members, one after the other.
Extract(r) ==
    /\ At(r, "extract") /\ partial' = partial \cup {r}
    /\ UNCHANGED <<installation, exclusive, marker, info, backups, dumped>>

ExtractLast(r) ==
    /\ At(r, "finish") /\ partial' = partial \ {r}
    /\ files' = [files EXCEPT ![r] = backups[restores[r].from].archive]
    /\ UNCHANGED <<database, sessions, runtime, children, containers, used, exclusive, marker, info,
                   backups, dumped>>

\* pg_restore: one transaction, which fails on what exists.
Load(r) ==
    /\ At(r, "load") /\ database["target"] = Empty
    /\ database' = [database EXCEPT !["target"] = backups[restores[r].from].dump]
    /\ UNCHANGED <<files, sessions, runtime, children, containers, used, exclusive, partial, marker, info,
                   backups, dumped>>

Describe(r) ==
    /\ At(r, "describe") /\ info' = info \cup {r}
    /\ UNCHANGED <<installation, exclusive, partial, marker, backups, dumped>>

Unmark(r) ==
    /\ At(r, "unmark") /\ marker' = marker \ {r} /\ exclusive' = exclusive \ {r}
    /\ UNCHANGED <<installation, partial, info, backups, dumped>>

\* A step that cannot be done, an error, or death: everything stays as it is.
RestoreDies(r) ==
    /\ restores[r].step \in DOMAIN Following /\ restores' = [restores EXCEPT ![r].step = "over"]
    /\ exclusive' = IF restores[r].step \in {"mkdir", "lock"} THEN exclusive ELSE exclusive \ {r}
    /\ UNCHANGED <<installation, partial, marker, info, backups, dumped>>

RestoreStep(r) ==
    \/ \E b \in Bundle : BeginRestore(r, b)
    \/ MakeRoot(r) \/ LockRoot(r) \/ MarkRoot(r) \/ Extract(r) \/ ExtractLast(r) \/ Load(r)
    \/ Describe(r) \/ Unmark(r) \/ RestoreDies(r)

InstallationStep(r) ==
    \/ RunManaged(r) \/ RuntimeEnds(r) \/ FilesChange(r)
    \/ DatabaseChanges(DatabaseOf(r)) \/ SessionsChange(DatabaseOf(r))

FactoryStep(r) == RuntimeWorks(r) \/ ChildExits(r)

BackupStep(r) ==
    \E b \in Bundle :
        \/ BeginBackup(b, r)
        \/ backups[b].root = r /\ (Dump(b) \/ ArchiveData(b) \/ Seal(b) \/ BackupDies(b))

----------------------------------------------------------------------------
(* Correctness. *)

\* A bundle with a manifest holds the database and the whole files of one
\* instant, although they are copied one after the other and children, containers and
\* sessions outlive the processes that were stopped.
BundleIsOneInstant ==
    \A b \in Bundle : backups[b].manifest => backups[b].archive = dumped[b]

\* Wherever a restore stops, a runtime starts on a root only when the root is as
\* new, or when root and database are those of one bundle, at the path that the
\* data names.  (The bundle of an installation that never ran has no database.)
NothingRunsOnAPartialRestore ==
    \A r \in Target \cap runtime : r \notin used =>
        /\ r \notin partial \cup marker
        /\ \/ r \notin info /\ files[r] = Empty
           \/ /\ r \in info /\ Path(r) = Source
              /\ files[r] = backups[restores[r].from].archive
              /\ \/ database["target"] = backups[restores[r].from].dump
                 \/ "target" \in used \/ backups[restores[r].from].dump = Empty

\* A backup may be taken at any time and a restore be cut off at any step: the
\* bundle is whole, and what starts afterwards starts on all of it.
BackupIsSafe == BackupTypeOK /\ BundleIsOneInstant /\ NothingRunsOnAPartialRestore
=============================================================================
