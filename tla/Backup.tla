------------------------------- MODULE Backup -------------------------------
(***************************************************************************)
(* naatre backup and naatre restore (backup.rs): a snapshot of one store   *)
(* into a directory, and of that directory into another data dir, while    *)
(* servers write and purge, the commands die, the directory rots and an    *)
(* operator initialises the target.                                        *)
(*                                                                         *)
(* A database file is known by where it comes from: "old" was there, the   *)
(* racing init made "born", and "restored" is the backup's.  What a repo's *)
(* database says is the set of objects it refers to.                       *)
(***************************************************************************)
EXTENDS Naturals, FiniteSets

CONSTANTS None, Repos, Objects,
          Configs,    \* [meta, blob, layout, newer]: the backends, and whether a newer
                      \* binary than the restoring one wrote the backup
          Targets,    \* the data dirs a restore may meet
          MaxCrashes, \* bound on the commands that die
          MaxRot      \* bound on the artifacts that rot

VARIABLES
    cfg,      \* the configuration, the same for both commands
    refs,     \* refs[r]: the objects the source's database names for repo r
    objects,  \* the source's objects; with s3, the bucket
    locked,   \* a backup holds the source's flock
    purged,   \* objects whose bytes a redaction purge removed
    session,  \* the backup that runs, or None
    dest,     \* the backup directory, or None
    target,   \* the data dir restored into
    restore,  \* the restore that runs, or None
    waiver,   \* the missing set the last refusal printed, or None
    lastDone, \* what the last restore that ended well was asked, or None
    crashes, rots

vars == <<cfg, refs, objects, locked, purged, session, dest, target, restore, waiver,
          lastDone, crashes, rots>>
source == <<refs, objects, purged>>

Split == cfg.layout = "split"
Sqlite == cfg.meta = "sqlite"
Fs == cfg.blob = "fs"

Provenance == {None, "old", "born", "restored"}
TargetType == [root: BOOLEAN, db: Provenance, catalog: Provenance, wal: BOOLEAN,
               catalogWal: BOOLEAN, repos: [Repos -> Provenance], objects: SUBSET Objects,
               schema: Provenance]

Artifacts == Objects \cup {"dump"}
Database == [Repos -> SUBSET Objects]
Session == [ids: SUBSET Objects, db: Database \cup {None}, copied: SUBSET Objects,
            missing: SUBSET Objects]
Manifest == [cfg: Configs, objects: SUBSET Objects, artifacts: SUBSET Artifacts,
             repos: SUBSET Repos]
Dest == [dump: Database \cup {None}, repoDumps: SUBSET Repos, files: SUBSET Artifacts,
         rotten: SUBSET Artifacts, log: BOOLEAN, manifest: Manifest \cup {None}]
Restore == [pc: {"stage", "lock", "repos"}, force: BOOLEAN, waived: SUBSET Objects,
            lost: SUBSET Objects, staged: SUBSET Artifacts, left: SUBSET Objects,
            repos: SUBSET Repos]

(* What the proofs assume of the constants; a postgres store never splits  *)
(* (backend.rs refuses it).                                                *)
BackupAssumption ==
    /\ MaxCrashes \in Nat /\ MaxRot \in Nat
    /\ Targets \subseteq TargetType
    /\ \A c \in Configs: c.layout = "split" => c.meta = "sqlite"
    /\ None \notin {"old", "born", "restored"} /\ None \notin Database
    /\ None \notin Session /\ None \notin Manifest /\ None \notin Dest /\ None \notin Restore

TypeOK ==
    /\ cfg \in Configs
    /\ refs \in Database
    /\ objects \subseteq Objects /\ purged \subseteq Objects /\ locked \in BOOLEAN
    /\ session \in Session \cup {None}
    /\ session # None => session.copied \cup session.missing \subseteq session.ids
    /\ dest \in Dest \cup {None}
    /\ target \in TargetType
    /\ restore \in Restore \cup {None} /\ lastDone \in Restore \cup {None}
    /\ waiver = None \/ waiver \subseteq Objects
    /\ crashes \in 0..MaxCrashes /\ rots \in 0..MaxRot

Init ==
    /\ cfg \in Configs
    /\ target \in Targets
    /\ refs = [r \in Repos |-> {}] /\ objects = {} /\ purged = {}
    /\ locked = FALSE /\ session = None /\ dest = None
    /\ restore = None /\ waiver = None /\ lastDone = None
    /\ crashes = 0 /\ rots = 0

(* What a snapshot of the database names *)
Named(db) == UNION {db[r]: r \in Repos}

-----------------------------------------------------------------------------
(* The servers.  The flock keeps those of this data dir out of a backup;   *)
(* with postgres a purge of another host's server is not held by it.       *)
Upload ==
    /\ ~locked
    /\ \E o \in Objects \ (objects \cup purged): objects' = objects \cup {o}
    /\ UNCHANGED <<cfg, refs, purged, locked, session, dest, target, restore, waiver,
                   lastDone, crashes, rots>>

Reference ==
    /\ ~locked
    /\ \E r \in Repos, o \in objects \ purged:
         /\ o \notin refs[r]
         /\ refs' = [refs EXCEPT ![r] = @ \cup {o}]
    /\ UNCHANGED <<cfg, objects, purged, locked, session, dest, target, restore, waiver,
                   lastDone, crashes, rots>>

(* A redaction's purge: the rows that name the object, then its bytes      *)
Purge ==
    /\ ~locked \/ ~Sqlite
    /\ \E o \in objects:
         /\ purged' = purged \cup {o}
         /\ objects' = objects \ {o}
         /\ refs' = [r \in Repos |-> refs[r] \ {o}]
    /\ UNCHANGED <<cfg, locked, session, dest, target, restore, waiver, lastDone,
                   crashes, rots>>

-----------------------------------------------------------------------------
(* The backup.                                                             *)

EmptyDest == [dump |-> None, repoDumps |-> {}, files |-> {}, rotten |-> {}, log |-> FALSE,
              manifest |-> None]

(* backup_begin up to the listing: a dest that exists is refused; the CAS  *)
(* is listed before the database is opened                                 *)
BackupBegin ==
    /\ session = None /\ dest = None /\ ~locked
    /\ locked' = TRUE
    /\ dest' = EmptyDest
    /\ session' = [ids |-> objects, db |-> None, copied |-> {}, missing |-> {}]
    /\ UNCHANGED <<cfg, source, target, restore, waiver, lastDone, crashes, rots>>

(* dump_sqlite, for the catalog and every repo file in the split layout, or *)
(* pg_dump                                                                 *)
BackupDump ==
    /\ session # None /\ session.db = None
    /\ session' = [session EXCEPT !.db = refs]
    /\ dest' = [dest EXCEPT !.dump = refs, !.repoDumps = IF Split THEN Repos ELSE {},
                            !.files = {"dump"}]
    /\ UNCHANGED <<cfg, source, locked, target, restore, waiver, lastDone, crashes, rots>>

(* backup_finish's copy of one object: a source that vanished is recorded  *)
CopyObject ==
    /\ session # None /\ session.db # None /\ Fs
    /\ \E o \in session.ids \ (session.copied \cup session.missing):
         IF o \in objects
         THEN /\ session' = [session EXCEPT !.copied = @ \cup {o}]
              /\ dest' = [dest EXCEPT !.files = @ \cup {o}]
         ELSE /\ session' = [session EXCEPT !.missing = @ \cup {o}]
              /\ UNCHANGED dest
    /\ UNCHANGED <<cfg, source, locked, target, restore, waiver, lastDone, crashes, rots>>

(* The manifest names what the copy captured; with s3 nothing is copied    *)
(* and it names the whole listing                                          *)
Carried == IF Fs THEN session.copied ELSE session.ids

(* A plausible slip: the manifest before the last object is copied         *)
BackupManifestEarly ==
    /\ session # None /\ session.db # None
    /\ dest' = [dest EXCEPT !.manifest =
                  [cfg |-> cfg, objects |-> Carried,
                   artifacts |-> (IF Fs THEN session.copied ELSE {}) \cup {"dump"},
                   repos |-> dest.repoDumps]]
    /\ session' = None /\ locked' = FALSE
    /\ UNCHANGED <<cfg, source, target, restore, waiver, lastDone, crashes, rots>>

(* The manifest is written last                                            *)
BackupManifest ==
    /\ session # None /\ session.db # None
    /\ Fs => session.ids = session.copied \cup session.missing
    /\ dest' = [dest EXCEPT !.manifest =
                  [cfg |-> cfg, objects |-> Carried,
                   artifacts |-> (IF Fs THEN session.copied ELSE {}) \cup {"dump"},
                   repos |-> dest.repoDumps]]
    /\ session' = None /\ locked' = FALSE
    /\ UNCHANGED <<cfg, source, target, restore, waiver, lastDone, crashes, rots>>

(* An error past the creation of dest removes it, but for the log of a     *)
(* failed tool (run_pg_tool)                                               *)
BackupFail ==
    /\ session # None
    /\ dest' = IF session.db = None /\ ~Sqlite THEN [dest EXCEPT !.log = TRUE] ELSE None
    /\ session' = None /\ locked' = FALSE
    /\ crashes < MaxCrashes /\ crashes' = crashes + 1
    /\ UNCHANGED <<cfg, source, target, restore, waiver, lastDone, rots>>

(* A backup that is killed leaves dest without a manifest                  *)
BackupCrash ==
    /\ session # None
    /\ session' = None /\ locked' = FALSE
    /\ crashes < MaxCrashes /\ crashes' = crashes + 1
    /\ UNCHANGED <<cfg, source, dest, target, restore, waiver, lastDone, rots>>

(* PartialLeftover names the leftover, and the operator removes it         *)
RemoveLeftover ==
    /\ session = None /\ restore = None /\ dest # None /\ dest.manifest = None
    /\ dest' = None
    /\ UNCHANGED <<cfg, source, locked, session, target, restore, waiver, lastDone,
                   crashes, rots>>

(* The storage of the directory rots: an artifact's bytes change           *)
Rot ==
    /\ rots < MaxRot /\ rots' = rots + 1
    /\ dest # None /\ dest.manifest # None
    /\ \E a \in dest.files \ dest.rotten: dest' = [dest EXCEPT !.rotten = @ \cup {a}]
    /\ UNCHANGED <<cfg, source, locked, session, target, restore, waiver, lastDone, crashes>>

-----------------------------------------------------------------------------
(* The restore.                                                            *)

(* The target guard: naatre.db, objects/, the sidecars of naatre.db, and,  *)
(* in the split layout, a repos/ with entries; force passes it for a       *)
(* sqlite and an fs target.  A postgres schema is refused whatever force.  *)
objects_dir_has_entries == target.objects # {}
StaleRepos == Split /\ \E r \in Repos: target.repos[r] # None
NotEmpty == objects_dir_has_entries \/ target.wal \/ StaleRepos

TargetGuard(force) ==
    /\ target.db # None => Sqlite /\ force
    /\ NotEmpty => Fs /\ force
    /\ ~Sqlite => target.schema = None

(* The presence gate of s3: the waiver names exactly what is missing *)
Missing == IF Fs THEN {} ELSE dest.manifest.objects \ objects
waiver_covers(arg, missing) == arg = missing

PresenceGate(arg) == Missing # {} => arg # None /\ waiver_covers(arg, Missing)

(* The artifacts tell the layout of the backup *)
LayoutGuard == (dest.manifest.repos # {}) = Split

(* A manifest that is not there, or does not parse, is refused *)
load_manifest == dest # None /\ dest.manifest # None

(* restore up to staging: every check reads, none writes.  A refusal at    *)
(* the presence gate prints the set that a waiver must name.               *)
RestoreBegin ==
    /\ restore = None /\ session = None /\ load_manifest
    /\ \E force \in BOOLEAN, arg \in {None, waiver}:
         /\ TargetGuard(force)
         /\ IF PresenceGate(arg)
            THEN /\ LayoutGuard
                 /\ restore' = [pc |-> "stage", force |-> force, waived |-> Missing,
                                lost |-> Named(dest.dump) \ objects,
                                staged |-> {}, left |-> {}, repos |-> {}]
                 /\ UNCHANGED waiver
            ELSE /\ waiver' = Missing
                 /\ UNCHANGED restore
    /\ UNCHANGED <<cfg, source, locked, session, dest, target, lastDone, crashes, rots>>

(* The hash of an artifact's staged bytes against the manifest's           *)
Verified(rotten) == dest.manifest.artifacts \cap rotten = {}

(* Every artifact goes to the staging directory and its staged bytes are   *)
(* hashed: one that is rotten ends the restore, and so does a schema newer *)
(* than this binary knows                                                  *)
Stage ==
    /\ restore # None /\ restore.pc = "stage"
    /\ IF Verified(dest.rotten) /\ ~cfg.newer
       THEN restore' = [restore EXCEPT !.pc = "lock", !.staged = dest.rotten]
       ELSE restore' = None
    /\ UNCHANGED <<cfg, source, locked, session, dest, target, waiver, lastDone, crashes, rots>>

(* The target's creation, its flock, the sidecars of naatre.db unlinked and *)
(* the staged database renamed over the target's; psql replays the dump in *)
(* one transaction, which fails on a schema that is there                  *)
RestoreDb ==
    /\ restore # None /\ restore.pc = "lock"
    /\ IF ~Sqlite /\ target.schema # None
       THEN restore' = None /\ UNCHANGED target
       ELSE /\ target' =
                 [target EXCEPT
                    !.root = TRUE,
                    !.wal = IF Sqlite THEN FALSE ELSE @,
                    !.db = IF Sqlite /\ ~Split THEN "restored" ELSE @,
                    !.catalog = IF Sqlite /\ Split THEN "restored" ELSE @,
                    !.repos = IF Split THEN [r \in Repos |-> None] ELSE @,
                    !.schema = IF Sqlite THEN @ ELSE "restored"]
            /\ restore' = [restore EXCEPT !.pc = "repos", !.repos = dest.manifest.repos,
                              !.left = IF Fs THEN dest.manifest.objects ELSE {}]
    /\ lastDone' = None
    /\ UNCHANGED <<cfg, source, locked, session, dest, waiver, crashes, rots>>

(* One repo file of the split layout *)
RestoreRepo ==
    /\ restore # None /\ restore.pc = "repos"
    /\ \E r \in restore.repos:
         /\ target' = [target EXCEPT !.repos[r] = "restored"]
         /\ restore' = [restore EXCEPT !.repos = @ \ {r}]
    /\ UNCHANGED <<cfg, source, locked, session, dest, waiver, lastDone, crashes, rots>>

(* One object out of staging, copied and fsynced *)
RestoreObject ==
    /\ restore # None /\ restore.pc = "repos" /\ restore.repos = {}
    /\ \E o \in restore.left:
         /\ target' = [target EXCEPT !.objects = @ \cup {o}]
         /\ restore' = [restore EXCEPT !.left = @ \ {o}]
    /\ UNCHANGED <<cfg, source, locked, session, dest, waiver, lastDone, crashes, rots>>

(* The presence self-check and the audit row, in the restored store        *)
RestoreEnd ==
    /\ restore # None /\ restore.pc = "repos" /\ restore.repos = {} /\ restore.left = {}
    /\ Fs => dest.manifest.objects \subseteq target.objects
    /\ lastDone' = restore
    /\ restore' = None
    /\ UNCHANGED <<cfg, source, locked, session, dest, target, waiver, crashes, rots>>

(* A restore that is killed, or that an error ends *)
RestoreCrash ==
    /\ restore # None
    /\ restore' = None
    /\ crashes < MaxCrashes /\ crashes' = crashes + 1
    /\ UNCHANGED <<cfg, source, locked, session, dest, target, waiver, lastDone, rots>>

(* naatre init of the target (host.rs): refused where a store is; it takes *)
(* no flock.  The split layout comes from a migration, never from init.    *)
InitTarget ==
    /\ ~Split
    /\ target.db = None /\ target.schema = None
    /\ target' = [target EXCEPT !.root = TRUE,
                    !.db = IF Sqlite THEN "born" ELSE @,
                    !.schema = IF Sqlite THEN @ ELSE "born"]
    /\ UNCHANGED <<cfg, source, locked, session, dest, restore, waiver, lastDone, crashes, rots>>

Next ==
    \/ Upload \/ Reference \/ Purge
    \/ BackupBegin \/ BackupDump \/ CopyObject \/ BackupManifest
    \/ BackupFail \/ BackupCrash \/ RemoveLeftover \/ Rot
    \/ RestoreBegin \/ Stage \/ RestoreDb \/ RestoreRepo \/ RestoreObject \/ RestoreEnd
    \/ RestoreCrash \/ InitTarget

Spec == Init /\ [][Next]_vars

-----------------------------------------------------------------------------
(* A restore writes nothing into the target that rotted after the manifest *)
(* was written: what it staged is what it hashed.                          *)
StagedVerified == restore # None /\ restore.pc # "stage" => Verified(restore.staged)

(* What an open of the target's database reads: a write-ahead log beside   *)
(* it is replayed over it, and it is the one of the store that was there.  *)
StoreDb(t) == IF Split THEN t.catalog ELSE IF Sqlite THEN t.db ELSE t.schema
LogReplays(t) == IF Split THEN t.catalogWal ELSE Sqlite /\ t.wal
Opens(t) == IF LogReplays(t) THEN "old" ELSE StoreDb(t)

(* A restore that ended well: the target opens on the snapshot, unless it  *)
(* is split and had a log of catalog.db, which a restore does not remove   *)
(* (SnapshotOpens); each repo file is the snapshot's; and what the         *)
(* snapshot names is there, but for what a purge removed and, with s3,     *)
(* what the waiver names.  Of the other layout's database nothing is said: *)
(* a naatre.db beside a restored catalog.db is not read, and a catalog.db  *)
(* beside a restored naatre.db makes the servers refuse the data dir.      *)
RestoredExactly ==
    lastDone # None =>
        /\ Opens(target) = "restored" \/ (Split /\ target.catalogWal)
        /\ Split => \A r \in Repos: target.repos[r] = "restored"
        /\ IF Fs THEN Named(dest.dump) \ target.objects \subseteq purged
                 ELSE lastDone.lost \subseteq lastDone.waived

(* The promise without the exception: "leftover WAL/SHM sidecars never     *)
(* replay", the restored store has exactly the snapshot's content.         *)
SnapshotOpens == lastDone # None => Opens(target) = "restored"

(* A restored store is the store that was backed up, a split catalog's     *)
(* log apart; and no rotten artifact reaches it.                           *)
StoresWhole == StagedVerified /\ RestoredExactly

=============================================================================
