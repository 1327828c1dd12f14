----------------------------- MODULE MCDurable -----------------------------
(***************************************************************************)
(* Instances for TLC of what an installation keeps: the queue's table      *)
(* during a migration to managed deployments, a backup of an installation  *)
(* at work, and two restores of it on another host.  A behaviour is one of *)
(* these.                                                                  *)
(***************************************************************************)
EXTENDS MCWorkflowQueue, TeamBackup

CONSTANTS f1, f2, d1, d2
VARIABLE part
durableVars == <<vars, backupVars, part>>

\* Workflows and digests can be exchanged.
Exchange == Permutations({f1, f2}) \cup Permutations({d1, d2})

\* A bundle from the installation of another host, which is not at work.
Brought == [step |-> "over", root |-> Source, dump |-> 1, archive |-> 1, manifest |-> TRUE]

DurableInit ==
    /\ part \in {"queue", "backup", "restore"}
    /\ Init
    /\ BackupInit([b \in Bundle |-> IF part = "restore" /\ b = 1 THEN Brought ELSE NoBackup])

QueuePart == part = "queue" /\ Next /\ UNCHANGED <<backupVars, part>>
BackupPart ==
    /\ \/ part = "backup" /\ (InstallationStep(Source) \/ FactoryStep(Source) \/ BackupStep(Source))
       \/ part = "restore" /\ \E r \in Target : InstallationStep(r) \/ BackupStep(r) \/ RestoreStep(r)
    /\ UNCHANGED <<vars, part>>

DurableNext == QueuePart \/ BackupPart
DurableSpec == DurableInit /\ [][DurableNext]_durableVars
=============================================================================
