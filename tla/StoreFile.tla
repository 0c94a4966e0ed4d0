----------------------------- MODULE StoreFile -----------------------------
(***************************************************************************)
(* The database file and the snapshots taken of it (internal/store         *)
(* sqlite.go, migrate.go, backup.go; cmd/dongled cmd_backup.go, api.go).   *)
(* The daemon, the daily timer and an administrator each open the file and *)
(* bring its schema up to date; the last two copy it into the backup       *)
(* directory and delete the oldest copies.  Nothing but the file and the   *)
(* names in the directory keeps them apart, and each may die at any step.  *)
(***************************************************************************)
EXTENDS Naturals, FiniteSets

CONSTANTS
    Openers,        \* processes that only open the file: serve, enroll, passwd
    Savers,         \* processes that run `dongled backup`
    BackupKeep,     \* backupKeep
    Seconds         \* bound of the model: seconds in which a backup begins

ASSUME StoreAssumption ==
    /\ IsFiniteSet(Savers)
    /\ BackupKeep \in Nat \ {0} /\ Seconds \in Nat \ {0}

VARIABLES
    versions,   \* schema_migrations, and with it the tables of each migration
    proc,       \* each process: where it is, what it has read
    dir,        \* the backup directory: a name is a second and a suffix
    second,     \* the clock
    lastBackup  \* settings.last_backup_at

storeVars == <<versions, proc, dir, second, lastBackup>>

StoreProcs == Savers \cup Openers
Ships == {1}                                    \* Migrations
Name == [at: 1 .. Seconds, n: 0 .. Cardinality(Savers)]
NoName == [at |-> 0, n |-> 0]
NoProc == [pc |-> "down", applied |-> {}, target |-> NoName, doomed |-> {}]

Taking == {"vacuum", "copy", "chmod", "verify", "record", "prune", "remove"}

StoreTypeOK ==
    /\ versions \subseteq Ships
    /\ proc \in [StoreProcs -> [pc: {"down", "open", "migrate", "ready"} \cup Taking, applied: SUBSET Ships,
                                target: Name \cup {NoName}, doomed: SUBSET Name]]
    /\ DOMAIN dir \subseteq Name /\ \A f \in DOMAIN dir : dir[f] \in {"partial", "whole", "empty"}
    /\ second \in 1 .. Seconds /\ lastBackup \in 0 .. Seconds

StoreInit ==
    /\ versions = {} /\ proc = [p \in StoreProcs |-> NoProc]
    /\ dir = [f \in {} |-> "whole"] /\ second = 1 /\ lastBackup = 0

Continues(p, pc) == proc' = [proc EXCEPT ![p].pc = pc]
Fails(p) == proc' = [proc EXCEPT ![p] = NoProc] /\ UNCHANGED <<versions, dir, second, lastBackup>>
At(p, pc) == proc[p].pc = pc

Put(f, data) == dir' = [g \in DOMAIN dir \cup {f} |-> IF g = f THEN data ELSE dir[g]]
Dropped(fs) == [g \in DOMAIN dir \ fs |-> dir[g]]
-----------------------------------------------------------------------------
(* Open and Migrate.                                                       *)

\* Open: every connection of the pool answers as it must (verifyPool), or none
\* is kept.
OpenStore(p) == At(p, "down") /\ Continues(p, "open") /\ UNCHANGED <<versions, dir, second, lastBackup>>

\* appliedVersions, before there is a transaction.
AppliedVersions(p) ==
    /\ At(p, "open") /\ proc' = [proc EXCEPT ![p].pc = "migrate", ![p].applied = versions]
    /\ UNCHANGED <<versions, dir, second, lastBackup>>

\* Migrate: what this process takes for missing.
Migrate(p) == Ships \ proc[p].applied

\* applyMigration: tables and row in one immediate transaction.  Whoever comes
\* second finds the tables there and fails.
ApplyMigration(p) ==
    /\ At(p, "migrate") /\ Migrate(p) # {}
    /\ \/ /\ Migrate(p) \cap versions = {} /\ versions' = versions \cup Migrate(p)
          /\ Continues(p, "ready") /\ UNCHANGED <<dir, second, lastBackup>>
       \/ Migrate(p) \cap versions # {} /\ Fails(p)

Migrated(p) ==
    /\ At(p, "migrate") /\ Migrate(p) = {}
    /\ Continues(p, "ready") /\ UNCHANGED <<versions, dir, second, lastBackup>>
-----------------------------------------------------------------------------
(* Store.Backup.                                                           *)

\* The order of the names, "-1.db" before ".db".
SuffixOrder(n) == IF n = 0 THEN Cardinality(Savers) + 1 ELSE n
Before(f, g) == f.at < g.at \/ (f.at = g.at /\ SuffixOrder(f.n) < SuffixOrder(g.n))
Newer(f) == {g \in DOMAIN dir : Before(f, g)}

\* Names of files that are there, and of those that are about to be.
Targets == {proc[p].target : p \in {q \in Savers : proc[q].pc \in Taking}}
Held == DOMAIN dir \cup Targets

\* While a backup is being taken not so many others begin that it is among the
\* oldest when it ends.
NotCrowded(f) ==
    \A x \in Targets \cup {f} : Cardinality({g \in Held \cup {f} : Before(x, g)}) < BackupKeep

\* freeBackupPath: the first suffix nobody has a file of.
FreeBackupPath(p) ==
    /\ p \in Savers /\ At(p, "ready")
    /\ \E f \in Name :
          /\ f.at = second /\ f \notin DOMAIN dir
          /\ \A n \in 0 .. f.n - 1 : [f EXCEPT !.n = n] \in DOMAIN dir
          /\ NotCrowded(f)
          /\ proc' = [proc EXCEPT ![p].pc = "vacuum", ![p].target = f]
    /\ UNCHANGED <<versions, dir, second, lastBackup>>

\* VACUUM INTO begins with a file of its own, or fails over the file of another.
VacuumInto(p) ==
    /\ At(p, "vacuum")
    /\ \/ /\ proc[p].target \notin DOMAIN dir
          /\ Put(proc[p].target, "partial") /\ Continues(p, "copy") /\ UNCHANGED <<versions, second, lastBackup>>
       \/ proc[p].target \in DOMAIN dir /\ Fails(p)

\* The copy is whole, or the disk is full; a part of it stays then.
VacuumEnds(p) ==
    /\ At(p, "copy")
    /\ \/ /\ IF proc[p].target \in DOMAIN dir THEN Put(proc[p].target, "whole") ELSE UNCHANGED dir
          /\ Continues(p, "chmod") /\ UNCHANGED <<versions, second, lastBackup>>
       \/ Fails(p)

\* Chmod of a file somebody has deleted fails.
Chmod(p) ==
    /\ At(p, "chmod")
    /\ \/ /\ proc[p].target \in DOMAIN dir
          /\ Continues(p, "verify") /\ UNCHANGED <<versions, dir, second, lastBackup>>
       \/ proc[p].target \notin DOMAIN dir /\ Fails(p)

\* integrityCheck: of a database in which there is nothing all is well.
IntegrityCheck(data) == data # "partial"

\* VerifyBackup: opening a file that is not there creates one.
VerifyBackup(p) ==
    /\ At(p, "verify")
    /\ LET found == IF proc[p].target \in DOMAIN dir THEN dir[proc[p].target] ELSE "empty"
       IN  \/ /\ IntegrityCheck(found) /\ Put(proc[p].target, found)
              /\ Continues(p, "record") /\ UNCHANGED <<versions, second, lastBackup>>
           \/ ~IntegrityCheck(found) /\ Fails(p)

\* The instant is the one of the name, later recorded or not.
RecordBackup(p) ==
    /\ At(p, "record") /\ lastBackup' = proc[p].target.at
    /\ Continues(p, "prune") /\ UNCHANGED <<versions, dir, second>>

\* The names are sorted the other way round.
Bug_PruneBackups(p) ==
    /\ At(p, "prune")
    /\ proc' = [proc EXCEPT ![p].pc = "remove",
                            ![p].doomed = {f \in DOMAIN dir : Cardinality({g \in DOMAIN dir : Before(g, f)}) >= BackupKeep}]
    /\ UNCHANGED <<versions, dir, second, lastBackup>>

\* pruneBackups: all but the last BackupKeep names, whole or not.
PruneBackups(p) ==
    /\ At(p, "prune")
    /\ proc' = [proc EXCEPT ![p].pc = "remove",
                            ![p].doomed = {f \in DOMAIN dir : Cardinality(Newer(f)) >= BackupKeep}]
    /\ UNCHANGED <<versions, dir, second, lastBackup>>

\* One file after the other; what cannot be removed stays.
RemoveDoomed(p) ==
    /\ At(p, "remove") /\ \E fs \in SUBSET proc[p].doomed : dir' = Dropped(fs)
    /\ proc' = [proc EXCEPT ![p] = NoProc] /\ UNCHANGED <<versions, second, lastBackup>>

\* The process is killed, or its open transaction fails and is rolled back.
ProcDies(p) == ~At(p, "down") /\ Fails(p)

SecondPasses ==
    /\ second < Seconds /\ second' = second + 1
    /\ UNCHANGED <<versions, proc, dir, lastBackup>>

Backup(p) ==
    \/ FreeBackupPath(p) \/ VacuumInto(p) \/ VacuumEnds(p) \/ Chmod(p) \/ VerifyBackup(p)
    \/ RecordBackup(p) \/ PruneBackups(p) \/ RemoveDoomed(p)

StoreNext ==
    \/ \E p \in StoreProcs : OpenStore(p) \/ AppliedVersions(p) \/ ApplyMigration(p) \/ Migrated(p) \/ ProcDies(p)
    \/ \E p \in Savers : Backup(p)
    \/ SecondPasses

StoreSpec == StoreInit /\ [][StoreNext]_storeVars
-----------------------------------------------------------------------------
(* What a backup promises.                                                 *)

\* Once a backup has been recorded, a whole one that is not older is in the
\* directory at every moment, whatever other runs leave there and delete
\* (docs/OPERATIONS.md 8.1; Backup, pruneBackups).
LastBackupIsThere ==
    lastBackup # 0 => \E f \in DOMAIN dir : dir[f] = "whole" /\ f.at >= lastBackup
=============================================================================
